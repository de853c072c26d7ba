----------------------------- MODULE MCHostSide -----------------------------
(***************************************************************************)
(* The parts of cleanroom that share state on the host without sharing it  *)
(* with one another, for TLC: the firewall, the caches of a launch, a run  *)
(* with its VM, and the sandboxes of a client.  The variable part says     *)
(* which of them moves; the others stay in an initial state.               *)
(***************************************************************************)
EXTENDS MCHostNetwork, LaunchArtifacts, BackendRun, ClientSandboxes

CONSTANTS l1, l2, command, server, cli

MCProcessOf == [c \in Callers |-> IF c \in Launches THEN server ELSE cli]

HostSymmetry == Permutations(Launches) \cup Permutations(Vms)

VARIABLE part

hostSideVars == <<part, netVars, launchVars, runVars, ensureVars>>

(* Where a part that does not move starts makes no difference.            *)
HostSideInit ==
    /\ part \in {"network", "launch", "run", "client"}
    /\ Init /\ (part # "network" => names = SameTap)
    /\ LaunchInit /\ (part # "launch" => kernel = "none" /\ prepared = [d \in Digests |-> "none"])
    /\ RunInit /\ (part # "run" => backend = "firecracker")
    /\ EnsureInit /\ (part # "client" => service = [s \in SandboxIds |-> "absent"])

(* The parts that may come to an end; in the others somebody can always     *)
(* take a step.                                                             *)
MayStop == {"network", "run"}

OthersRest ==
    /\ UNCHANGED part
    /\ IF part = "network" THEN TRUE ELSE UNCHANGED netVars
    /\ IF part = "launch" THEN TRUE ELSE UNCHANGED launchVars
    /\ IF part = "run" THEN TRUE ELSE UNCHANGED runVars
    /\ IF part = "client" THEN TRUE ELSE UNCHANGED ensureVars

HostSideNext ==
    \/ part = "network" /\ Next /\ OthersRest
    \/ part = "launch" /\ LaunchNext /\ OthersRest
    \/ part = "run" /\ RunNext /\ OthersRest
    \/ part = "client" /\ EnsureNext /\ OthersRest
    \/ part \in MayStop /\ UNCHANGED hostSideVars

HostSideSpec == HostSideInit /\ [][HostSideNext]_hostSideVars

=============================================================================
