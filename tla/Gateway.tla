------------------------------ MODULE Gateway ------------------------------
(***************************************************************************)
(* The gateway on the host (internal/gateway): a registry of the sandboxes *)
(* by guest address and by scope token, and a handler that forwards what   *)
(* it takes for a git fetch to a host that the policy of the sandbox       *)
(* allows.  Sandboxes register and release while requests are handled.     *)
(*                                                                         *)
(*   byGuestIP, byScopeToken  the registry: the scope, or NoScope          *)
(*   policyOf                 the policies of the sandboxes                *)
(*   gwReqs[q]                a request: where it is, its source address,  *)
(*                            token, path, host and git operation, the     *)
(*                            scope in its context, and the sandbox that   *)
(*                            it was identified with                       *)
(*                                                                         *)
(* The operation is what classifyRequest makes of method, decoded path and *)
(* query.  What the upstream makes of the URL that the handler builds from *)
(* them is not modelled, and no property is about it.                      *)
(***************************************************************************)
EXTENDS Policy

CONSTANTS GuestIPs, ScopeTokens, GwSandboxes, GwRequests, NoScope

ASSUME GatewayAssumption == NoScope \notin GwSandboxes

VARIABLES byGuestIP, byScopeToken, policyOf, gwReqs

gatewayVars == <<byGuestIP, byScopeToken, policyOf, gwReqs>>

GitOps == {"info-refs", "info-refs receive-pack", "git-upload-pack", "git-receive-pack", "other"}
Paths == {"git", "git without repository", "other service", "not canonical"}
NoRequest == [at |-> "idle"]

OneRule(host, port) ==
    Compile([WellFormed EXCEPT !.allow = <<[host |-> [host |-> host, plain |-> FALSE],
                                            ports |-> <<port>>]>>])

(* One rule is enough to tell a host and a port from the others.            *)
GatewayPolicies == {OneRule(h, p) : h \in PolicyHosts, p \in PortSamples \cap {80, 443}}

GatewayInit ==
    /\ byGuestIP = [ip \in GuestIPs |-> NoScope]
    /\ byScopeToken = [t \in ScopeTokens |-> NoScope]
    /\ policyOf \in [GwSandboxes -> GatewayPolicies]
    /\ gwReqs = [q \in GwRequests |-> NoRequest]

-----------------------------------------------------------------------------
(* The registry.                                                            *)

Scope(s) == [sandbox |-> s, policy |-> policyOf[s]]

(* Register and RegisterScopeToken refuse a key that is taken.              *)
GwRegister(s, ip) ==
    /\ byGuestIP[ip] = NoScope
    /\ byGuestIP' = [byGuestIP EXCEPT ![ip] = Scope(s)]
    /\ UNCHANGED <<byScopeToken, policyOf, gwReqs>>

GwRegisterToken(s, t) ==
    /\ byScopeToken[t] = NoScope
    /\ byScopeToken' = [byScopeToken EXCEPT ![t] = Scope(s)]
    /\ UNCHANGED <<byGuestIP, policyOf, gwReqs>>

GwRelease(ip) ==
    /\ byGuestIP[ip] # NoScope
    /\ byGuestIP' = [byGuestIP EXCEPT ![ip] = NoScope]
    /\ UNCHANGED <<byScopeToken, policyOf, gwReqs>>

GwReleaseToken(t) ==
    /\ byScopeToken[t] # NoScope
    /\ byScopeToken' = [byScopeToken EXCEPT ![t] = NoScope]
    /\ UNCHANGED <<byGuestIP, policyOf, gwReqs>>

-----------------------------------------------------------------------------
(* Requests.                                                                *)

OnlyRequest == UNCHANGED <<byGuestIP, byScopeToken, policyOf>>

(* The scope that the source address, or else the token, identifies.        *)
Identified(ip, t) ==
    IF byGuestIP[ip] # NoScope THEN byGuestIP[ip]
    ELSE IF t # NoScope THEN byScopeToken[t] ELSE NoScope

(* identityMiddleware: 403 without a scope.                                 *)
GwIdentify(q) ==
    /\ gwReqs[q] = NoRequest
    /\ \E ip \in GuestIPs, t \in ScopeTokens \cup {NoScope}, p \in Paths, n \in Names, op \in GitOps :
         /\ Identified(ip, t) # NoScope
         /\ p # "git" => op = "other" /\ n.host = 0
         /\ gwReqs' = [gwReqs EXCEPT ![q] =
                         [at |-> "identified", ip |-> ip, token |-> t, path |-> p, host |-> n, op |-> op,
                          scope |-> Identified(ip, t), sandbox |-> Identified(ip, t).sandbox]]
    /\ OnlyRequest

(* The operations that classifyRequest does not refuse.                     *)
Fetches == {"info-refs", "git-upload-pack"}

(* pathMiddleware and the mux: the git handler gets the request.            *)
GitRoute(r) == r.path \in {"git", "git without repository"}

(* Mutant: the handler looks the scope up once more.                        *)
ForwardableAgain(r) ==
    /\ r.path = "git" /\ r.op \in Fetches
    /\ Identified(r.ip, r.token) # NoScope
    /\ Allows(Identified(r.ip, r.token).policy, r.host, 443)

(* The git handler up to client.Do.                                         *)
Forwardable(r) ==
    /\ GitRoute(r) /\ r.path # "git without repository"
    /\ Allows(r.scope.policy, r.host, 443)
    /\ r.op \in Fetches

(* A request that is not forwarded is answered with an error; one that is   *)
(* may still fail for want of credentials.                                  *)
GwHandle(q) ==
    /\ gwReqs[q].at = "identified"
    /\ \/ /\ Forwardable(gwReqs[q])
          /\ gwReqs' = [gwReqs EXCEPT ![q].at = "forwarded"]
       \/ gwReqs' = [gwReqs EXCEPT ![q] = NoRequest]
    /\ OnlyRequest

(* The answer, or the error, of the upstream was passed on.                 *)
GwAnswer(q) ==
    /\ gwReqs[q].at = "forwarded"
    /\ gwReqs' = [gwReqs EXCEPT ![q] = NoRequest]
    /\ OnlyRequest

GatewayNext ==
    \/ \E s \in GwSandboxes, ip \in GuestIPs : GwRegister(s, ip)
    \/ \E s \in GwSandboxes, t \in ScopeTokens : GwRegisterToken(s, t)
    \/ \E ip \in GuestIPs : GwRelease(ip)
    \/ \E t \in ScopeTokens : GwReleaseToken(t)
    \/ \E q \in GwRequests : GwIdentify(q) \/ GwHandle(q) \/ GwAnswer(q)

GatewaySpec == GatewayInit /\ [][GatewayNext]_gatewayVars

-----------------------------------------------------------------------------
(* A request is forwarded only to a host that the policy of the sandbox it  *)
(* was identified with lists with port 443, although that sandbox may be    *)
(* released and its address given to another while the request is handled   *)
(* (identityMiddleware, gitHandler.ServeHTTP).                              *)
ForwardedIsAllowed ==
    \A q \in GwRequests : gwReqs[q].at = "forwarded" =>
        \E i \in 1 .. Len(policyOf[gwReqs[q].sandbox].allow) :
            LET rule == policyOf[gwReqs[q].sandbox].allow[i]
            IN  rule.host.host = gwReqs[q].host.host /\ 443 \in Range(rule.ports)

=============================================================================
