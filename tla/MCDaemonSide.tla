---------------------------- MODULE MCDaemonSide ----------------------------
(***************************************************************************)
(* The parts of the daemon that keep state of their own, for TLC: the      *)
(* control service with its streams, the output that it retains, the       *)
(* policies that it accepts and the gateway.  The variable part says which *)
(* of them moves; the others stay in an initial state.                     *)
(***************************************************************************)
EXTENDS ControlServer, OutputRetention, Gateway

VARIABLE part

daemonVars == <<part, serverVars, retentionVars, policyVars, gatewayVars>>

(* Where a part that does not move starts makes no difference.              *)
DaemonInit ==
    /\ part \in {"streams", "output", "policy", "gateway"}
    /\ ServerInit
    /\ RetentionInit /\ (part # "output" => std = "stdout")
    /\ GatewayInit /\ (part # "gateway" => policyOf = [s \in GwSandboxes |-> OneRule(1, 443)])
    /\ PolicyInit /\ (part # "policy" => raw = WellFormed)

OthersRest ==
    /\ UNCHANGED part
    /\ IF part = "streams" THEN TRUE ELSE UNCHANGED serverVars
    /\ IF part = "output" THEN TRUE ELSE UNCHANGED retentionVars
    /\ IF part = "policy" THEN TRUE ELSE UNCHANGED policyVars
    /\ IF part = "gateway" THEN TRUE ELSE UNCHANGED gatewayVars

DaemonNext ==
    \/ part = "streams" /\ ServerNext /\ OthersRest
    \/ part = "output" /\ RetentionNext /\ OthersRest
    \/ part = "policy" /\ PolicyNext /\ OthersRest
    \/ part = "gateway" /\ GatewayNext /\ OthersRest

(* The fairness of ServerFairSpec: nothing that it is about is enabled      *)
(* where the service rests.                                                 *)
DaemonSpec ==
    /\ DaemonInit /\ [][DaemonNext]_daemonVars
    /\ Fairness
    /\ \A c \in Streams : WF_serverVars(StreamStep(c))

=============================================================================
