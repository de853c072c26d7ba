----------------------------- MODULE BackendRun -----------------------------
(***************************************************************************)
(* One command in a VM of its own: run of the firecracker backend and run  *)
(* of the darwin-vz backend with its helper process                        *)
(* (backend/firecracker/backend.go, backend/darwinvz/backend_darwin.go and *)
(* helper_client.go).  Each is a row of steps; a step that succeeds may    *)
(* defer a call that undoes it, a step that fails makes the run return,    *)
(* and a run that returns executes the deferred calls, the last one first. *)
(* What goes on in the VM, and the death of the VM or of the helper, is    *)
(* concurrent.                                                             *)
(*                                                                         *)
(*   backend  which of the two functions runs                              *)
(*   at       the step it is at, or 0 once it returns                      *)
(*   defers   the deferred calls, the next one first                       *)
(*   host     what exists on the host: the disk, the network rules, the VM,*)
(*            the helper, the connection to the guest, the scope token     *)
(*            registered with the gateway, the observation file            *)
(*   late     an answer of the helper that nobody has read                 *)
(*   gaveUp   a process did not end although it was killed                 *)
(*   overdue  the context in which the network is cleaned up has ended,    *)
(*            five seconds after it was made at the start of the setup     *)
(***************************************************************************)
EXTENDS Naturals, Sequences

VARIABLES backend, at, defers, host, late, gaveUp, overdue

runVars == <<backend, at, defers, host, late, gaveUp, overdue>>

(* A step, the call it defers, and whether that is deferred beforehand.     *)
RunStep(name, undo, before) == [name |-> name, undo |-> undo, before |-> before]

FirecrackerPrepares ==
    << RunStep("directory", "observation", FALSE),
       RunStep("artifacts", "none", FALSE),
       RunStep("disk", "disk", TRUE) >>

FirecrackerLaunches ==
    << RunStep("network", "network", FALSE),
       RunStep("vm", "vm", FALSE) >>

FirecrackerCommands ==
    << RunStep("conn", "conn", FALSE),
       RunStep("command", "none", FALSE) >>

DarwinPrepares ==
    << RunStep("directory", "none", FALSE),
       RunStep("artifacts", "none", FALSE),
       RunStep("disk", "disk", FALSE) >>

(* Mutant: StopVM is deferred before the VM is started.                     *)
DarwinLaunchesEarlyStop ==
    << RunStep("helper", "helper", FALSE),
       RunStep("vm", "vm", TRUE) >>

DarwinLaunches ==
    << RunStep("helper", "helper", FALSE),
       RunStep("vm", "vm", FALSE) >>

DarwinCommands ==
    << RunStep("conn", "conn", FALSE),
       RunStep("token", "token", FALSE),
       RunStep("command", "none", FALSE) >>

Steps ==
    IF backend = "firecracker"
    THEN FirecrackerPrepares \o FirecrackerLaunches \o FirecrackerCommands
    ELSE DarwinPrepares \o DarwinLaunches \o DarwinCommands

RunInit ==
    /\ backend \in {"firecracker", "darwin-vz"}
    /\ at = 1
    /\ defers = <<>>
    /\ host = [disk |-> "none", network |-> FALSE, vm |-> FALSE, helper |-> FALSE,
               conn |-> FALSE, token |-> FALSE, observed |-> FALSE]
    /\ late = FALSE
    /\ gaveUp = FALSE
    /\ overdue = FALSE

-----------------------------------------------------------------------------
Running == at > 0
Here == Steps[at]
Deferred(undo) == IF undo = "none" THEN defers ELSE <<undo>> \o defers

(* What a step that succeeds leaves on the host.                            *)
Done(name) ==
    CASE name = "disk" -> [host EXCEPT !.disk = "whole"]
      [] name = "network" -> [host EXCEPT !.network = TRUE]
      [] name = "helper" -> [host EXCEPT !.helper = TRUE]
      [] name = "vm" -> [host EXCEPT !.vm = TRUE]
      [] name = "conn" -> [host EXCEPT !.conn = TRUE]
      [] name = "token" -> [host EXCEPT !.token = TRUE]
      [] OTHER -> host

RunStepDone ==
    /\ Running
    /\ Here.name = "vm" /\ backend = "darwin-vz" => host.helper
    /\ Here.name \in {"conn", "command"} => host.vm
    /\ host' = Done(Here.name)
    /\ defers' = Deferred(Here.undo)
    /\ at' = IF at = Len(Steps) THEN 0 ELSE at + 1
    /\ UNCHANGED <<backend, late, gaveUp, overdue>>

(* The arguments are refused, only a plan is asked for (both before the     *)
(* artifacts), or the step fails.  A copy that fails may leave a part of    *)
(* the disk; the rollback of a network setup does nothing when the setup    *)
(* took longer than its cleanup context; a StartVM that fails may have      *)
(* started the VM, and when it timed out its answer comes late; a helper    *)
(* that does not answer its socket is stopped, or given up on.              *)
RunStepFails ==
    /\ Running
    /\ at' = 0
    /\ defers' = IF Here.before THEN Deferred(Here.undo) ELSE defers
    /\ \/ /\ Here.name \notin {"disk", "network", "vm", "helper"}
          /\ UNCHANGED <<host, late, gaveUp, overdue>>
       \/ /\ Here.name = "disk"
          /\ \E left \in {"none", "part"} : host' = [host EXCEPT !.disk = left]
          /\ UNCHANGED <<late, gaveUp, overdue>>
       \/ /\ Here.name = "network"
          /\ overdue' \in BOOLEAN
          /\ host' = [host EXCEPT !.network = overdue']
          /\ UNCHANGED <<late, gaveUp>>
       \/ /\ Here.name = "helper"
          /\ gaveUp' \in BOOLEAN
          /\ host' = [host EXCEPT !.helper = gaveUp']
          /\ UNCHANGED <<late, overdue>>
       \/ /\ Here.name = "vm"
          /\ late' \in {FALSE, host.helper}
          /\ \E started \in {FALSE, host.helper} : host' = [host EXCEPT !.vm = started]
          /\ UNCHANGED <<gaveUp, overdue>>
    /\ UNCHANGED backend

-----------------------------------------------------------------------------
(* The deferred calls.                                                      *)

Undoing(name) == ~Running /\ defers # <<>> /\ Head(defers) = name

Undone == defers' = Tail(defers) /\ UNCHANGED <<backend, at, late, overdue>>

(* The cleanup of the network executes its commands under a context; once   *)
(* that has ended they are not executed, and their errors are ignored.      *)
UndoSimple ==
    /\ \/ Undoing("disk") /\ host' = [host EXCEPT !.disk = "none"]
       \/ Undoing("network") /\ host' = [host EXCEPT !.network = overdue]
       \/ Undoing("conn") /\ host' = [host EXCEPT !.conn = FALSE]
       \/ Undoing("token") /\ host' = [host EXCEPT !.token = FALSE]
       \/ Undoing("observation") /\ host' = [host EXCEPT !.observed = TRUE]
    /\ UNCHANGED gaveUp
    /\ Undone

(* stopVM kills the process and waits two seconds for its end.              *)
StopVM ==
    /\ Undoing("vm") /\ backend = "firecracker"
    /\ gaveUp' \in {FALSE, host.vm}
    /\ host' = [host EXCEPT !.vm = gaveUp']
    /\ Undone

(* The request StopVM: answered, or failed with the VM in any state.        *)
StopVMRequest ==
    /\ Undoing("vm") /\ backend = "darwin-vz"
    /\ \E stopped \in BOOLEAN : host' = [host EXCEPT !.vm = host.vm /\ ~(stopped /\ host.helper)]
    /\ UNCHANGED gaveUp
    /\ Undone

(* helperSession.close: the control connection is closed, and a helper that *)
(* lives is interrupted, then killed, each time with two seconds to end.    *)
CloseHelper ==
    /\ Undoing("helper")
    /\ gaveUp' \in {FALSE, host.helper}
    /\ host' = [host EXCEPT !.helper = gaveUp', !.vm = host.vm /\ gaveUp']
    /\ Undone

-----------------------------------------------------------------------------
(* The VM ends by itself, or with the context of the run.                   *)
VMEnds ==
    /\ host.vm
    /\ host' = [host EXCEPT !.vm = FALSE]
    /\ UNCHANGED <<backend, at, defers, late, gaveUp, overdue>>

(* The helper dies, and with it its VM.                                     *)
HelperDies ==
    /\ host.helper
    /\ host' = [host EXCEPT !.helper = FALSE, !.vm = FALSE]
    /\ UNCHANGED <<backend, at, defers, late, gaveUp, overdue>>

(* The context of the cleanup ends.                                         *)
CleanupContextEnds ==
    /\ host.network /\ ~overdue
    /\ overdue' = TRUE
    /\ UNCHANGED <<backend, at, defers, host, late, gaveUp>>

Returned == ~Running /\ defers = <<>>

RunNext ==
    \/ RunStepDone
    \/ RunStepFails
    \/ UndoSimple
    \/ StopVM
    \/ StopVMRequest
    \/ CloseHelper
    \/ VMEnds
    \/ HelperDies
    \/ CleanupContextEnds
    \/ Returned /\ UNCHANGED runVars

RunSpec == RunInit /\ [][RunNext]_runVars

-----------------------------------------------------------------------------
(* A run that has returned leaves nothing but its directory, whichever step *)
(* failed: neither VM nor helper, unless it did not end when killed, no     *)
(* disk, except for the part that a failed copy of darwin-vz leaves, no     *)
(* connection or token, and no network rules unless they are cleaned up     *)
(* more than five seconds after their setup began.  Until then a VM that    *)
(* may run has its whole disk and, with firecracker, its network rules, and *)
(* StopVM is only sent over a connection on which no earlier answer is      *)
(* unread, so that each request gets its own answer (the deferred calls of  *)
(* run and their order; helperSession.request).                             *)
RunTearsDown ==
    /\ Returned =>
         /\ host.vm \/ host.helper => gaveUp
         /\ host.disk = "none" \/ (host.disk = "part" /\ backend = "darwin-vz")
         /\ host.network => overdue
         /\ ~host.conn /\ ~host.token
    /\ host.vm /\ ~gaveUp => host.disk = "whole" /\ (backend = "firecracker" => host.network)
    /\ Undoing("vm") => ~late

=============================================================================
