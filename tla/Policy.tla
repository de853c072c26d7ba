------------------------------- MODULE Policy -------------------------------
(***************************************************************************)
(* Policies (internal/policy/policy.go) and their way from a policy file   *)
(* to the control service: cleanroom create loads and compiles the file,   *)
(* replaces the image on request (overrideCompiledPolicyImage of           *)
(* internal/cli/cli.go), sends the policy as a message, and the service    *)
(* compiles the message again.  The Go client builds the message itself    *)
(* (PolicyFromAllowlist of client/ergonomics.go).                          *)
(*                                                                         *)
(*   raw       what the user wrote: version, image, default, allow rules   *)
(*   message   the policy on the wire                                      *)
(*   accepted  what FromProto makes of it                                  *)
(*   path      how far the policy has come                                 *)
(*                                                                         *)
(* A host is a number, 0 for the empty name, with a flag that says whether *)
(* it is spelled without capitals and surrounding blanks; hosts are sorted *)
(* by number.  An image reference has no digest ("tag") or is a digest.    *)
(* The hash of a policy is what is hashed: the policy without its hash.    *)
(***************************************************************************)
EXTENDS Naturals, Sequences, FiniteSets, SequencesExt

CONSTANTS
    PolicyHosts,      \* hosts, as numbers above 0
    PortSamples,      \* ports, legal and not
    Images, NoImage,  \* digests
    MaxRules, MaxPorts

ASSUME PolicyAssumption ==
    /\ PolicyHosts \subseteq Nat \ {0} /\ PortSamples \subseteq Nat
    /\ NoImage \notin Images
    /\ MaxRules \in Nat /\ MaxPorts \in Nat

VARIABLES raw, message, accepted, path

policyVars == <<raw, message, accepted, path>>

Refused == [refused |-> TRUE]

Names == [host : {0} \cup PolicyHosts, plain : BOOLEAN]
LowerTrim(name) == [name EXCEPT !.plain = TRUE]

SequencesUpTo(S, n) == UNION {[1 .. k -> S] : k \in 0 .. n}
RawRules == SequencesUpTo([host : Names, ports : SequencesUpTo(PortSamples, MaxPorts)], MaxRules)

WellFormed == [version |-> 1, image |-> CHOOSE i \in Images : TRUE, digest |-> NoImage,
               docker |-> FALSE, default |-> "", allow |-> <<>>, hash |-> NoImage]

(* Every list of rules with one heading, and every heading with one list.   *)
RawPolicies ==
    {[WellFormed EXCEPT !.allow = rules] : rules \in RawRules} \cup
    {[WellFormed EXCEPT !.version = v, !.image = i, !.digest = d, !.default = n, !.docker = k] :
        v \in 0 .. 2, i \in Images \cup {NoImage, "tag"}, d \in Images \cup {NoImage},
        n \in {"", "deny", "allow"}, k \in BOOLEAN}

-----------------------------------------------------------------------------
(* Compile and FromProto: the same rules, once for the file and once for    *)
(* the message, which may also bring a digest and a hash to compare.        *)

ValidPort(port) == port \in 1 .. 65535

RuleValid(rule) ==
    /\ rule.host.host # 0
    /\ rule.ports # <<>>
    /\ \A i \in 1 .. Len(rule.ports) : ValidPort(rule.ports[i])

HeadingValid(p) ==
    /\ p.version = 1
    /\ p.image \in Images
    /\ p.digest \in {NoImage, p.image}
    /\ p.default \in {"", "deny"}

(* Mutant: ports are neither sorted nor made unique.                        *)
CompileRuleAsIs(rule) == [host |-> LowerTrim(rule.host), ports |-> rule.ports]

(* Ports are made unique and sorted.                                        *)
CompileRule(rule) ==
    [host |-> LowerTrim(rule.host),
     ports |-> SetToSortSeq({rule.ports[i] : i \in 1 .. Len(rule.ports)}, <)]

(* sort.Slice by host; up to twelve rules it sorts by insertion, which      *)
(* keeps the order of rules for the same host.                              *)
InsertRule(sorted, rule) ==
    SelectSeq(sorted, LAMBDA r : r.host.host <= rule.host.host)
      \o <<rule>> \o SelectSeq(sorted, LAMBDA r : r.host.host > rule.host.host)

SortRules(rules) == FoldLeft(InsertRule, <<>>, rules)

CompileRules(rules) == SortRules([i \in 1 .. Len(rules) |-> CompileRule(rules[i])])

HashPolicy(p) == [p EXCEPT !.hash = NoImage]

CompileWithoutHash(p) ==
    [version |-> p.version, image |-> p.image, digest |-> p.image, docker |-> p.docker,
     default |-> "deny", allow |-> CompileRules(p.allow), hash |-> NoImage]

Compile(p) ==
    IF HeadingValid(p) /\ \A i \in 1 .. Len(p.allow) : RuleValid(p.allow[i])
    THEN LET compiled == CompileWithoutHash(p)
         IN  [compiled EXCEPT !.hash = HashPolicy(compiled)]
    ELSE Refused

ToProto(compiled) ==
    [version |-> compiled.version, image |-> compiled.image, digest |-> compiled.digest,
     docker |-> compiled.docker, default |-> compiled.default,
     allow |-> [i \in 1 .. Len(compiled.allow) |->
                  [host |-> compiled.allow[i].host, ports |-> compiled.allow[i].ports]],
     hash |-> compiled.hash]

FromProto(pb) ==
    LET compiled == Compile(pb)
    IN  IF compiled = Refused \/ pb.hash \notin {NoImage, compiled.hash} THEN Refused ELSE compiled

(* overrideCompiledPolicyImage: the hash is dropped and computed again.     *)
OverrideImage(compiled, image) ==
    FromProto([ToProto(compiled) EXCEPT !.image = image, !.digest = image, !.hash = NoImage])

(* PolicyFromAllowlist drops entries without a host or without ports.       *)
PolicyFromAllowlist(p) ==
    [version |-> 1, image |-> p.image, digest |-> p.digest, docker |-> FALSE,
     default |-> "deny", hash |-> NoImage,
     allow |-> SelectSeq(p.allow, LAMBDA rule : rule.host.host # 0 /\ rule.ports # <<>>)]

(* CompiledPolicy.Allows.                                                   *)
Allows(p, name, port) ==
    \E i \in 1 .. Len(p.allow) :
        /\ p.allow[i].host = LowerTrim(name)
        /\ \E j \in 1 .. Len(p.allow[i].ports) : p.allow[i].ports[j] = port

-----------------------------------------------------------------------------
PolicyInit ==
    /\ raw \in RawPolicies
    /\ message = Refused /\ accepted = Refused
    /\ path = "written"

(* LoadAndCompile and ensureSandboxID or runSandboxCreate.  A file has no   *)
(* digest of its own.                                                       *)
SendPolicyFile(image) ==
    /\ path = "written"
    /\ raw.digest = NoImage
    /\ LET compiled == Compile(raw)
           sent == IF compiled = Refused \/ image = NoImage THEN compiled
                   ELSE OverrideImage(compiled, image)
       IN  message' = IF sent = Refused THEN Refused ELSE ToProto(sent)
    /\ path' = IF message' = Refused THEN "refused by the client" ELSE "sent"
    /\ UNCHANGED <<raw, accepted>>

SendAllowlist ==
    /\ path = "written"
    /\ message' = PolicyFromAllowlist(raw)
    /\ path' = "sent as a list"
    /\ UNCHANGED <<raw, accepted>>

(* CreateSandbox of the service.                                            *)
ReceivePolicy ==
    /\ path \in {"sent", "sent as a list"}
    /\ accepted' = FromProto(message)
    /\ path' = IF accepted' = Refused THEN "refused" ELSE "accepted"
    /\ UNCHANGED <<raw, message>>

PolicyNext ==
    \/ \E image \in Images \cup {NoImage} : SendPolicyFile(image)
    \/ SendAllowlist
    \/ ReceivePolicy

PolicySpec == PolicyInit /\ [][PolicyNext]_policyVars

-----------------------------------------------------------------------------
(* What the rules that the user wrote allow.                                *)
Written(name, port) ==
    \E i \in 1 .. Len(raw.allow) :
        /\ raw.allow[i].host.host = name.host
        /\ \E j \in 1 .. Len(raw.allow[i].ports) : raw.allow[i].ports[j] = port

(* The same rules in another spelling: hosts in the other case, ports       *)
(* repeated and in another order, and so the rules, if their hosts differ.  *)
Respelled(rules) ==
    LET turned == [i \in 1 .. Len(rules) |->
                     [host |-> [rules[i].host EXCEPT !.plain = ~@],
                      ports |-> Reverse(rules[i].ports) \o rules[i].ports]]
        distinct == \A i, j \in 1 .. Len(rules) : rules[i].host.host = rules[j].host.host => i = j
    IN  IF distinct THEN Reverse(turned) ELSE turned

(* A policy that the service accepts allows exactly the hosts and ports     *)
(* that the user wrote, names an image by its digest, requires what the     *)
(* file requires, compiles to itself, and has the hash that its rules have  *)
(* in any other spelling; and the service never refuses what cleanroom      *)
(* create has compiled: the two compilations agree on its hash (Compile,    *)
(* ToProto, FromProto, Allows).                                             *)
PolicyPreserved ==
    /\ accepted # Refused =>
         /\ \A name \in Names, port \in PortSamples :
              name.host # 0 => (Allows(accepted, name, port) <=> Written(name, port))
         /\ accepted.image \in Images /\ accepted.digest = accepted.image
         /\ message.hash # NoImage => accepted.docker = raw.docker
         /\ FromProto(ToProto(accepted)) = accepted
         /\ FromProto([message EXCEPT !.allow = Respelled(@)]) = accepted
    /\ (message # Refused /\ message.hash # NoImage) => path # "refused"

=============================================================================
