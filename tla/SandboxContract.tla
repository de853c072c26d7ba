--------------------------- MODULE SandboxContract ---------------------------
(***************************************************************************)
(* What the control service promises about sandboxes and executions,       *)
(* without locks, goroutines, cancel functions, downloads, events or       *)
(* clocks.  A sandbox is opened, closes and is closed; an execution        *)
(* belongs to one sandbox, begins only while that sandbox is open and free,*)
(* runs at most once and ends once; what has ended may be forgotten at any *)
(* step.  ControlService implements this specification.                    *)
(***************************************************************************)
EXTENDS Integers

CONSTANTS Sandboxes, Executions, NoId

VARIABLES
    phase,      \* of each sandbox
    outcome,    \* of each execution
    home        \* the sandbox of each execution

vars == <<phase, outcome, home>>

Ends == {"succeeded", "failed", "canceled", "timed_out"}
Live == {"queued", "running"}

Init ==
    /\ phase = [s \in Sandboxes |-> "unused"]
    /\ outcome = [e \in Executions |-> "unused"]
    /\ home = [e \in Executions |-> NoId]

Occupied(o, h, s) == \E e \in Executions : h[e] = s /\ o[e] \in Live

(* The step ends in phases p, outcomes o and homes h, except that some      *)
(* ended executions E and some closed, unoccupied sandboxes S are forgotten *)
Keep(p, o, h) ==
    \E E \in SUBSET {e \in Executions : o[e] \in Ends},
       S \in SUBSET {s \in Sandboxes : p[s] = "stopped" /\ ~Occupied(o, h, s)} :
        /\ phase' = [s \in Sandboxes |-> IF s \in S THEN "dropped" ELSE p[s]]
        /\ outcome' = [e \in Executions |-> IF e \in E THEN "dropped" ELSE o[e]]
        /\ home' = [e \in Executions |-> IF e \in E THEN NoId ELSE h[e]]

Open(s) ==
    /\ phase[s] = "unused"
    /\ Keep([phase EXCEPT ![s] = "ready"], outcome, home)

(* Nothing that still waits in the sandbox will ever run.                   *)
Close(s) ==
    /\ phase[s] = "ready"
    /\ Keep([phase EXCEPT ![s] = "stopping"],
            [e \in Executions |-> IF home[e] = s /\ outcome[e] = "queued"
                                  THEN "canceled" ELSE outcome[e]],
            home)

Closed(s) ==
    /\ phase[s] = "stopping"
    /\ Keep([phase EXCEPT ![s] = "stopped"], outcome, home)

Begin(e, s) ==
    /\ outcome[e] = "unused"
    /\ phase[s] = "ready"
    /\ ~Occupied(outcome, home, s)
    /\ Keep(phase, [outcome EXCEPT ![e] = "queued"], [home EXCEPT ![e] = s])

Start(e) ==
    /\ outcome[e] = "queued"
    /\ home[e] \in Sandboxes
    /\ phase[home[e]] = "ready"
    /\ Keep(phase, [outcome EXCEPT ![e] = "running"], home)

End(e, end) ==
    /\ \/ outcome[e] = "running"
       \/ outcome[e] = "queued" /\ end = "canceled"
    /\ Keep(phase, [outcome EXCEPT ![e] = end], home)

Next ==
    \/ \E s \in Sandboxes : Open(s) \/ Close(s) \/ Closed(s)
    \/ \E e \in Executions, s \in Sandboxes : Begin(e, s)
    \/ \E e \in Executions : Start(e)
    \/ \E e \in Executions, end \in Ends : End(e, end)
    \/ Keep(phase, outcome, home)

Spec == Init /\ [][Next]_vars

=============================================================================
