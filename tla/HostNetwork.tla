----------------------------- MODULE HostNetwork -----------------------------
(***************************************************************************)
(* The host network of the Firecracker VMs: setupHostNetworkWithDeps       *)
(* (internal/backend/firecracker/backend.go) runs one privileged command   *)
(* after the other, rolls back when one fails and returns a cleanup        *)
(* function that undoes them all; setupGatewayFirewall                     *)
(* (gateway_firewall.go) fences the gateway port of the host.              *)
(*                                                                         *)
(*   names  the TAP name and the guest address that each VM's run id gives *)
(*   rules  the iptables rules of each chain, in the order of the chain    *)
(*   taps   the TAP devices                                                *)
(*   net[v] the setup of VM v: where it is, the commands its cleanup has   *)
(*          left to run, the destinations its policy resolved to, when the *)
(*          context of the cleanup ends, and whether a cleanup command ran *)
(*          after that                                                     *)
(*   fence  the gateway firewall                                           *)
(***************************************************************************)
EXTENDS Integers, Sequences, SequencesExt

CONSTANTS
    Vms,
    Namings,           \* what run ids may give: VMs may share a name or an address
    Dests,             \* what policies may allow: protocol, address and port
    GatewayEnabled,    \* the guests may reach the gateway port
    CleanupTimeout,    \* 5 seconds
    MaxClock           \* for each naming, the bound on the clock

VARIABLES names, rules, taps, net, fence, clock

netVars == <<names, rules, taps, net, fence, clock>>

TapOf == names.tap       \* tapNameFromRunID
GuestIPOf == names.ip    \* hostGuestIPs

Chains == {"INPUT", "FORWARD", "nat"}

Init ==
    /\ names \in Namings
    /\ rules = [chain \in Chains |-> <<>>]
    /\ taps = {}
    /\ net = [v \in Vms |-> [pc |-> "none", next |-> 1, undo |-> <<>>, dests |-> {},
                             deadline |-> 0, late |-> FALSE]]
    /\ fence = "off"
    /\ clock = 0

-----------------------------------------------------------------------------
(* The commands of a setup.  A rule says in which chain it is, which        *)
(* device and guest address it is about and what it matches.                *)

AnyIP == "any ip"

Object(kind, chain, dev, ip, match) ==
    [kind |-> kind, chain |-> chain, dev |-> dev, ip |-> ip, match |-> match]

(* A pair of rules for TCP and UDP is one rule here.                        *)
Rule(chain, dev, ip, match) == Object("rule", chain, dev, ip, match)

TapDevice(v) == Object("tap", "none", TapOf[v], AnyIP, "none")

(* Address, link state, ip_forward, disable_ipv6: four commands in a row    *)
(* with nothing to undo.                                                    *)
Settings(v) == Object("setting", "none", TapOf[v], AnyIP, "none")

InputRules(v) ==
    <<Rule("INPUT", TapOf[v], GuestIPOf[v], "spoofed")>>
    \o (IF GatewayEnabled THEN <<Rule("INPUT", TapOf[v], GuestIPOf[v], "gateway")>> ELSE <<>>)
    \o <<Rule("INPUT", TapOf[v], AnyIP, "any")>>

(* resolveForwardRules leaves each destination once.                        *)
AllowRules(v) ==
    LET dests == SetToSeq(net[v].dests)
    IN  [i \in 1 .. Len(dests) |-> Rule("FORWARD", TapOf[v], AnyIP, dests[i])]

(* Mutant: the deny rule comes before the rules of the policy.              *)
ForwardRulesDenyFirst(v) ==
    <<Rule("FORWARD", TapOf[v], AnyIP, "conntrack"), Rule("FORWARD", TapOf[v], AnyIP, "dns"),
      Rule("FORWARD", TapOf[v], AnyIP, "any")>>
    \o AllowRules(v)

ForwardRules(v) ==
    <<Rule("FORWARD", TapOf[v], AnyIP, "conntrack"), Rule("FORWARD", TapOf[v], AnyIP, "dns")>>
    \o AllowRules(v) \o <<Rule("FORWARD", TapOf[v], AnyIP, "any")>>

Commands(v) ==
    <<TapDevice(v), Settings(v)>>
    \o InputRules(v)
    \o <<Rule("nat", "none", GuestIPOf[v], "any")>>
    \o ForwardRules(v)

Add(r) == [rules EXCEPT ![r.chain] = Append(@, r)]

(* Mutant: the rule is deleted by its place, the oldest of the chain, and   *)
(* not by what it says.                                                     *)
DeleteOldest(rs, r) == [rs EXCEPT ![r.chain] = IF @ = <<>> THEN @ ELSE Tail(@)]

(* iptables -D: the first rule of the chain that is equal to r goes.        *)
Delete(rs, r) == [rs EXCEPT ![r.chain] = RemoveFirst(@, r)]

(* The rule for the return path has a second form, tried when the first     *)
(* one fails.                                                               *)
Forms(c) == IF c.match = "conntrack" THEN {c, [c EXCEPT !.match = "state"]} ELSE {c}

-----------------------------------------------------------------------------
(* The daemon has started.  The policy's hosts are resolved to the          *)
(* destinations D, or the setup fails before it did anything.               *)
Resolve(v, D, ok) ==
    /\ net[v].pc = "none"
    /\ GatewayEnabled => fence \notin {"off", "half"}
    /\ net' = [net EXCEPT ![v].pc = IF ok THEN "setup" ELSE "failed", ![v].dests = D,
                          ![v].deadline = clock + CleanupTimeout]
    /\ UNCHANGED <<rules, taps, fence, clock>>

(* Mutant: the undo of the command is forgotten.                            *)
CommandNoUndo(v, form) ==
    LET last == net[v].next = Len(Commands(v))
    IN  /\ net[v].pc = "setup"
        /\ form.kind = "tap" => TapOf[v] \notin taps
        /\ rules' = IF form.kind = "rule" THEN Add(form) ELSE rules
        /\ taps' = IF form.kind = "tap" THEN taps \cup {TapOf[v]} ELSE taps
        /\ net' = [net EXCEPT ![v].next = IF last THEN 1 ELSE @ + 1,
                              ![v].pc = IF last THEN "up" ELSE "setup",
                              ![v].undo = IF form.kind = "tap" THEN Append(@, form) ELSE @]
        /\ UNCHANGED <<fence, clock>>

(* One command of the setup.  A device that exists cannot be created again. *)
Command(v, form) ==
    LET last == net[v].next = Len(Commands(v))
    IN  /\ net[v].pc = "setup"
        /\ form.kind = "tap" => TapOf[v] \notin taps
        /\ rules' = IF form.kind = "rule" THEN Add(form) ELSE rules
        /\ taps' = IF form.kind = "tap" THEN taps \cup {TapOf[v]} ELSE taps
        /\ net' = [net EXCEPT ![v].next = IF last THEN 1 ELSE @ + 1,
                              ![v].pc = IF last THEN "up" ELSE "setup",
                              ![v].undo = IF form.kind = "setting" THEN @ ELSE Append(@, form)]
        /\ UNCHANGED <<fence, clock>>

(* A command fails: cleanup() undoes the ones before it.                    *)
CommandFails(v) ==
    /\ net[v].pc = "setup"
    /\ net' = [net EXCEPT ![v].pc = IF net[v].undo = <<>> THEN "failed" ELSE "undo",
                          ![v].next = 1, ![v].dests = {}]
    /\ UNCHANGED <<rules, taps, fence, clock>>

(* The cleanup function is called when the VM is gone.                      *)
Cleanup(v) ==
    /\ net[v].pc = "up"
    /\ net' = [net EXCEPT ![v].pc = "undo", ![v].dests = {}]
    /\ UNCHANGED <<rules, taps, fence, clock>>

(* Mutant: the commands run in the order in which they were added, so that  *)
(* the device goes first and a late cleanup leaves rules without it.        *)
UndoInOrder(v) ==
    LET c == Head(net[v].undo)
        works == clock < net[v].deadline
    IN  /\ net[v].pc = "undo"
        /\ net[v].undo # <<>>
        /\ rules' = IF works /\ c.kind = "rule" THEN Delete(rules, c) ELSE rules
        /\ taps' = IF works /\ c.kind = "tap" THEN taps \ {c.dev} ELSE taps
        /\ net' = [net EXCEPT ![v].undo = Tail(@), ![v].late = @ \/ ~works,
                              ![v].pc = IF Len(net[v].undo) = 1 THEN "down" ELSE "undo"]
        /\ UNCHANGED <<fence, clock>>

(* The commands run in reverse order under a context that ends              *)
(* CleanupTimeout after the setup began; after that a command does nothing, *)
(* and nobody looks at its error.                                           *)
Undo(v) ==
    LET c == Last(net[v].undo)
        works == clock < net[v].deadline
    IN  /\ net[v].pc = "undo"
        /\ net[v].undo # <<>>
        /\ rules' = IF works /\ c.kind = "rule" THEN Delete(rules, c) ELSE rules
        /\ taps' = IF works /\ c.kind = "tap" THEN taps \ {c.dev} ELSE taps
        /\ net' = [net EXCEPT ![v].undo = Front(@), ![v].late = @ \/ ~works,
                              ![v].pc = IF Len(net[v].undo) = 1 THEN "down" ELSE "undo"]
        /\ UNCHANGED <<fence, clock>>

-----------------------------------------------------------------------------
(* setupGatewayFirewall.                                                    *)

LoopbackRule == Rule("INPUT", "lo", AnyIP, "gateway")
FenceRule == Rule("INPUT", "not cr+", AnyIP, "gateway")

FenceLoopback(ok) ==
    /\ GatewayEnabled
    /\ fence = "off"
    /\ fence' = IF ok THEN "half" ELSE "failed"
    /\ rules' = IF ok THEN Add(LoopbackRule) ELSE rules
    /\ UNCHANGED <<taps, net, clock>>

FenceDrop(ok) ==
    /\ fence = "half"
    /\ fence' = IF ok THEN "on" ELSE "failed"
    /\ rules' = IF ok THEN Add(FenceRule) ELSE Delete(rules, LoopbackRule)
    /\ UNCHANGED <<taps, net, clock>>

FenceCleanup ==
    /\ fence = "on"
    /\ fence' = "down"
    /\ rules' = Delete(Delete(rules, FenceRule), LoopbackRule)
    /\ UNCHANGED <<taps, net, clock>>

Tick ==
    /\ clock < MaxClock[names]
    /\ clock' = clock + 1
    /\ UNCHANGED <<rules, taps, net, fence>>

Next ==
    /\ UNCHANGED names
    /\ \/ \E v \in Vms :
            \/ \E D \in SUBSET Dests, ok \in BOOLEAN : Resolve(v, D, ok)
            \/ net[v].pc = "setup" /\ \E form \in Forms(Commands(v)[net[v].next]) : Command(v, form)
            \/ CommandFails(v)
            \/ Cleanup(v)
            \/ Undo(v)
       \/ \E ok \in BOOLEAN : FenceLoopback(ok) \/ FenceDrop(ok)
       \/ FenceCleanup
       \/ Tick

Spec == Init /\ [][Next]_netVars

-----------------------------------------------------------------------------
(* What iptables does with a packet: the first rule that matches decides,   *)
(* and a packet that no rule matches passes.                                *)

Packets ==
    [chain : {"INPUT"}, dev : {TapOf[v] : v \in Vms} \cup {"lo", "eth0"},
     ip : {GuestIPOf[v] : v \in Vms} \cup {"foreign ip"}, to : {"gateway", "host port"}]
    \cup
    [chain : {"FORWARD"}, dev : {TapOf[v] : v \in Vms}, ip : {AnyIP},
     to : Dests \cup {"dns", "elsewhere"}]

Matches(r, p) ==
    /\ r.dev = p.dev \/ (r.dev = "not cr+" /\ p.dev \in {"lo", "eth0"})
    /\ \/ r.match = "any"
       \/ r.match = "spoofed" /\ r.ip # p.ip
       \/ r.match = p.to /\ r.ip \in {AnyIP, p.ip}

Target(r) ==
    IF r.match \in {"any", "spoofed"} \/ r.dev = "not cr+" THEN "DROP" ELSE "ACCEPT"

Verdict(p) ==
    LET chain == rules[p.chain]
        at == {i \in 1 .. Len(chain) : Matches(chain[i], p)}
    IN  IF at = {} THEN "ACCEPT" ELSE Target(chain[CHOOSE i \in at : \A j \in at : i <= j])

(* What the policy of VM v and the daemon's configuration allow a packet    *)
(* that comes from the VM.                                                  *)
Allowed(v, p) ==
    IF p.chain = "INPUT" THEN p.ip = GuestIPOf[v] /\ p.to = "gateway" /\ GatewayEnabled
    ELSE p.to \in net[v].dests \cup {"dns"}

-----------------------------------------------------------------------------
(* While the network of a VM is up, iptables decides every packet of the VM *)
(* as its policy says, whatever other setups, rollbacks, late cleanups and  *)
(* the gateway firewall add or remove (setupHostNetworkWithDeps).           *)
PolicyEnforced ==
    \A v \in Vms : net[v].pc = "up" =>
        \A p \in Packets : p.dev = TapOf[v] =>
            (Verdict(p) = "ACCEPT" <=> Allowed(v, p))

(* While the gateway firewall is up, the gateway port is closed to every    *)
(* interface of the host other than the TAP devices and the loopback, in    *)
(* whatever order the rules of the VMs come and go around its own           *)
(* (setupGatewayFirewall, setupHostNetworkWithDeps).  That the loopback is  *)
(* let in is a choice of the code which this does not judge.                *)
GatewayFenced ==
    fence = "on" => \A p \in Packets :
        p.to = "gateway" /\ p.dev \notin {TapOf[v] : v \in Vms} \cup {"lo"} =>
            Verdict(p) = "DROP"

Idle(v) == net[v].pc \in {"none", "down", "failed"}

(* Once every setup has failed, was rolled back or was cleaned up in time,  *)
(* and the gateway firewall is not up, the host is as it was found          *)
(* (cleanup, the failure paths of setupHostNetworkWithDeps).                *)
HostRestored ==
    (/\ \A v \in Vms : Idle(v) /\ ~net[v].late
     /\ fence \in {"off", "down", "failed"}) =>
        (\A chain \in Chains : rules[chain] = <<>>) /\ taps = {}

RulesOf(v) == {r \in UNION {Range(rules[chain]) : chain \in Chains} : r.dev = TapOf[v]}

(* A rule that a late cleanup left behind never outlives its device, so no  *)
(* later VM can get a device that old rules already apply to (the reverse   *)
(* order of cleanup).                                                       *)
StaleRulesPinTheTap ==
    \A v \in Vms : TapOf[v] \notin taps => RulesOf(v) = {}

(* "These rules are installed during sandbox network setup and torn down    *)
(* during cleanup" (docs/spec.md): once the cleanup of a VM has run, no     *)
(* rule of its device is left.                                              *)
TornDownDuringCleanup ==
    \A v \in Vms : net[v].pc = "down" => RulesOf(v) = {}

=============================================================================
