-------------------------- MODULE MCControlService --------------------------
(***************************************************************************)
(* Instances of ControlService for TLC.  Ids are numbers (an eviction      *)
(* breaks ties by id), so only the sessions are symmetric.                 *)
(***************************************************************************)
EXTENDS ControlService, TLC

(* An ordinary signal and one for which 128 + signal would be 0.            *)
MCSignals == {2, -128}

SessionSymmetry == Permutations(Sessions)

=============================================================================
