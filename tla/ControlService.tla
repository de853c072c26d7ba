--------------------------- MODULE ControlService ---------------------------
(***************************************************************************)
(* The control service (internal/controlservice/service.go): the in-memory *)
(* registry of sandboxes and executions behind the RPC API.  One mutex     *)
(* guards the maps, so an action is one critical section; everything the   *)
(* code does between two critical sections (provisioning, running the      *)
(* adapter, calling a cancel function, downloading) interleaves freely.    *)
(*                                                                         *)
(*   sandboxes   the sandboxes map: "unused" ids are not generated yet,    *)
(*               "dropped" ones were pruned; the others are in the map     *)
(*   executions  the executions map, likewise                              *)
(*   bus         histories, Done channels and subscribers (EventBus)       *)
(*   runners     the runExecution goroutine of each execution and whether  *)
(*               its run context has been canceled                         *)
(*   requests    the TerminateSandbox and DownloadSandboxFile calls        *)
(*   cancels     the executions whose cancel function a CancelExecution    *)
(*               call has read under the lock and not called yet           *)
(*   sessions    the interactive sessions: "pending" ones are in the       *)
(*               interactiveSessions map, a "held" one was consumed by a   *)
(*               connection that has not released it yet                   *)
(*   attached    the interactiveAttached map                               *)
(*   clock       time.Now()                                                *)
(***************************************************************************)
EXTENDS EventBus, FiniteSets

CONSTANTS
    Requests,                        \* concurrent terminate and download calls
    Sessions,                        \* interactive session ids
    ExecutionKinds,                  \* the kinds of execution that are created
    CancelSignals,                   \* the signals CancelExecution is called with
    PersistentBackend,               \* the adapter keeps a VM per sandbox
    MaxRetainedStoppedSandboxes,
    MaxRetainedFinishedExecutions,
    RetainedStateMaxAge,
    InteractiveSessionTokenTTL,
    MaxClock,                        \* bound on the clock
    MaxEvents                        \* bound on the events of an execution that repeat

ASSUME ServiceAssumption ==
    /\ ExecutionKinds \subseteq {"batch", "interactive"}
    /\ CancelSignals \subseteq Int
    /\ PersistentBackend \in BOOLEAN
    /\ MaxRetainedStoppedSandboxes \in Nat
    /\ MaxRetainedFinishedExecutions \in Nat
    /\ RetainedStateMaxAge \in Nat \ {0}
    /\ InteractiveSessionTokenTTL \in Nat
    /\ MaxClock \in Nat
    /\ MaxEvents \in Nat

VARIABLES sandboxes, executions, bus, runners, requests, cancels, sessions, attached, clock

maps == <<sandboxes, executions, bus>>
interactive == <<sessions, attached>>
callers == <<runners, requests, cancels>>
vars == <<maps, interactive, callers, clock>>

-----------------------------------------------------------------------------
(* The state records.                                                       *)

Times == 0 .. MaxClock

SandboxStates ==
    [status : {"unused", "dropped"} \cup SandboxStatuses,
     active : Executions \cup {NoId}, downloading : BOOLEAN, updated : Times]

ExecutionStates ==
    [status : {"unused", "dropped"} \cup ExecutionStatuses,
     sandbox : Sandboxes \cup {NoId}, kind : ExecutionKinds \cup {"none"},
     cancelRequested : BOOLEAN, signal : Int, cancel : BOOLEAN, attach : BOOLEAN,
     exitCode : Int, finished : Times]

Runners == [pc : {"none", "spawned", "adapter", "exited"}, canceled : BOOLEAN]

RequestStates ==
    [pc : {"idle", "cancel", "backend", "commit", "download"},
     sandbox : Sandboxes \cup {NoId}, cancels : SUBSET Executions, now : Times]

SessionStates ==
    [status : {"unused", "pending", "held", "ended"},
     execution : Executions \cup {NoId}, expires : Nat]

NoSandbox(status) ==
    [status |-> status, active |-> NoId, downloading |-> FALSE, updated |-> 0]

FreshExecution(status, sandbox, kind) ==
    [status |-> status, sandbox |-> sandbox, kind |-> kind,
     cancelRequested |-> FALSE, signal |-> 0, cancel |-> FALSE, attach |-> FALSE,
     exitCode |-> 0, finished |-> 0]

NoExecution(status) == FreshExecution(status, NoId, "none")

IdleRequest == [pc |-> "idle", sandbox |-> NoId, cancels |-> {}, now |-> 0]

Init ==
    /\ sandboxes = [s \in Sandboxes |-> NoSandbox("unused")]
    /\ executions = [e \in Executions |-> NoExecution("unused")]
    /\ bus = InitBus
    /\ runners = [e \in Executions |-> [pc |-> "none", canceled |-> FALSE]]
    /\ requests = [r \in Requests |-> IdleRequest]
    /\ cancels = {}
    /\ sessions = [x \in Sessions |-> [status |-> "unused", execution |-> NoId, expires |-> 0]]
    /\ attached = {}
    /\ clock = 0

-----------------------------------------------------------------------------
(* Helpers.                                                                 *)

IsFinal(status) == status \in FinalStatuses
IsActive(status) == status \in {"queued", "running"}
InMap(state) == state.status \notin {"unused", "dropped"}

(* Mutant: no check of the range.                                           *)
CancelExitCodeUnchecked(signal) == 128 + signal

CancelExitCode(signal) == IF signal <= 0 \/ signal > 127 THEN 130 ELSE 128 + signal

(* Mutant: one item too many is kept.                                       *)
EvictedLate(items, stamp, t, limit) ==
    LET kept == {i \in items : t - stamp[i] <= RetainedStateMaxAge}
        newer(i) == {j \in kept : stamp[j] > stamp[i] \/ (stamp[j] = stamp[i] /\ j > i)}
    IN  (items \ kept) \cup {i \in kept : Cardinality(newer(i)) > limit}

(* The items that a prune at time t evicts: the expired ones, then the      *)
(* oldest ones beyond the limit (ties by id).                               *)
Evicted(items, stamp, t, limit) ==
    LET kept == {i \in items : t - stamp[i] <= RetainedStateMaxAge}
        newer(i) == {j \in kept : stamp[j] > stamp[i] \/ (stamp[j] = stamp[i] /\ j > i)}
    IN  (items \ kept) \cup {i \in kept : Cardinality(newer(i)) >= limit}

EvictedExecutions(exs, t) ==
    Evicted({e \in Executions : IsFinal(exs[e].status)},
            [e \in Executions |-> exs[e].finished], t, MaxRetainedFinishedExecutions)

(* Mutant: a running execution does not protect its sandbox.                *)
HasQueuedExecution(exs, s) == \E e \in Executions : exs[e].sandbox = s /\ exs[e].status = "queued"

HasActiveExecution(exs, s) == \E e \in Executions : exs[e].sandbox = s /\ IsActive(exs[e].status)

EvictedSandboxes(sbs, exs, t) ==
    Evicted({s \in Sandboxes : sbs[s].status = "stopped" /\ ~HasActiveExecution(exs, s)},
            [s \in Sandboxes |-> sbs[s].updated], t, MaxRetainedStoppedSandboxes)

PrunedExecutions(exs, t) ==
    LET E == EvictedExecutions(exs, t)
    IN  [e \in Executions |-> IF e \in E THEN NoExecution("dropped") ELSE exs[e]]

PrunedSandboxes(sbs, exs, t) ==
    LET S == EvictedSandboxes(sbs, exs, t)
    IN  [s \in Sandboxes |-> IF s \in S THEN NoSandbox("dropped") ELSE sbs[s]]

(* Mutant: the sessions of an ended execution stay.                         *)
ClearNoSessions(E) == sessions

ClearSessions(E) ==
    [x \in Sessions |-> IF sessions[x].status = "pending" /\ sessions[x].execution \in E
                        THEN [sessions[x] EXCEPT !.status = "ended"] ELSE sessions[x]]

(* pruneStateLocked(t) on the intermediate maps sbs, exs and b of a         *)
(* critical section that finalized the executions F.                        *)
PruneState(sbs, exs, b, F, t) ==
    LET E == EvictedExecutions(exs, t)
        S == EvictedSandboxes(sbs, exs, t)
    IN  /\ executions' = PrunedExecutions(exs, t)
        /\ sandboxes' = PrunedSandboxes(sbs, exs, t)
        /\ bus' = CloseDone(CloseSubscribers(b, E \cup S), E \cup S)
        /\ sessions' = ClearSessions(E \cup F)
        /\ attached' = attached \ (E \cup F)

(* recordExecutionEventLocked and recordSandboxEventLocked.                 *)
RecordExecution(b, exs, E, kind) ==
    RecordEvent(b, E, kind, [e \in Executions |-> exs[e].status])

RecordSandbox(b, s, status) ==
    RecordEvent(b, {s}, "state", [k \in {s} |-> status])

(* Mutant: the request is not remembered.                                   *)
MarkSignalOnly(ex, signal) == [ex EXCEPT !.signal = signal]

(* An accepted cancellation.                                                *)
MarkCanceled(ex, signal) == [ex EXCEPT !.cancelRequested = TRUE, !.signal = signal]

(* The cancel and attach functions are cleared when the adapter returned.   *)
Detached(ex) == [ex EXCEPT !.cancel = FALSE, !.attach = FALSE]

(* finalizeExecutionInternalLocked: the record of an execution that ends,   *)
(* and the exit event on the bus.                                           *)
Finalize(ex, status, exitCode, t) ==
    [ex EXCEPT !.status = status, !.exitCode = exitCode, !.finished = t]

(* Mutant: the Done channel stays open.                                     *)
RecordExitOnly(b, exs, E) == RecordExecution(b, exs, E, "exit")

RecordExit(b, exs, E) == CloseDone(RecordExecution(b, exs, E, "exit"), E)

EventRoom(e) == Published(bus.hist[e]) < MaxEvents

-----------------------------------------------------------------------------
(* Sandboxes.  A time t that a handler reads before it takes the lock may   *)
(* be stale when the critical section runs: any time up to now.             *)

(* Provisioning runs before the insertion and leaves nothing when it fails. *)
CreateSandbox(s) ==
    /\ sandboxes[s].status = "unused"
    /\ \E t \in 0 .. clock :
         PruneState([sandboxes EXCEPT ![s] = [NoSandbox("ready") EXCEPT !.updated = clock]],
                    executions, RecordSandbox(bus, s, "ready"), {}, t)
    /\ UNCHANGED <<callers, clock>>

(* First critical section of TerminateSandbox: every unfinished execution   *)
(* is marked canceled, a queued one ends at once (without a prune).  On a   *)
(* sandbox that is already stopped only the last critical section is left.  *)
TerminateBegin(r, s) ==
    LET live == {e \in Executions : executions[e].sandbox = s /\ IsActive(executions[e].status)}
        queued == {e \in live : executions[e].status = "queued"}
        marked == [e \in Executions |->
                     IF e \in live
                     THEN MarkCanceled(executions[e], 15)
                     ELSE executions[e]]
        ended == [e \in Executions |->
                    IF e \in queued THEN Finalize(marked[e], "canceled", CancelExitCode(15), clock)
                    ELSE marked[e]]
        stopping == IF sandboxes[s].status = "ready"
                    THEN RecordSandbox(bus, s, "stopping") ELSE bus
    IN  /\ requests[r].pc = "idle"
        /\ \/ sandboxes[s].status = "ready"
           \/ sandboxes[s].status = "stopping" /\ \A e \in live : EventRoom(e)
        /\ sandboxes' = IF sandboxes[s].status = "ready"
                        THEN [sandboxes EXCEPT ![s].status = "stopping", ![s].updated = clock]
                        ELSE sandboxes
        /\ executions' = ended
        /\ bus' = RecordExit(RecordExecution(stopping, marked, live, "message"), ended, queued)
        /\ sessions' = ClearSessions(queued)
        /\ attached' = attached \ queued
        /\ requests' = [requests EXCEPT ![r] =
                          [pc |-> "cancel", sandbox |-> s, now |-> 0,
                           cancels |-> {e \in live \ queued : executions[e].cancel}]]
        /\ UNCHANGED <<runners, cancels, clock>>

TerminateStopped(r, s) ==
    /\ requests[r].pc = "idle"
    /\ sandboxes[s].status = "stopped"
    /\ requests' = [requests EXCEPT ![r] =
                      [pc |-> "commit", sandbox |-> s, cancels |-> {}, now |-> clock]]
    /\ UNCHANGED <<maps, interactive, runners, cancels, clock>>

(* Mutant: the cancel functions are not called.                             *)
TerminateCancelForgotten(r) ==
    /\ requests[r].pc = "cancel"
    /\ requests' = [requests EXCEPT ![r].cancels = {}, ![r].now = clock,
                      ![r].pc = IF PersistentBackend THEN "backend" ELSE "commit"]
    /\ UNCHANGED <<maps, interactive, runners, cancels, clock>>

(* The cancel functions are called after the lock is released.              *)
TerminateCancel(r) ==
    /\ requests[r].pc = "cancel"
    /\ runners' = [e \in Executions |->
                     IF e \in requests[r].cancels THEN [runners[e] EXCEPT !.canceled = TRUE]
                     ELSE runners[e]]
    /\ requests' = [requests EXCEPT ![r].cancels = {}, ![r].now = clock,
                      ![r].pc = IF PersistentBackend THEN "backend" ELSE "commit"]
    /\ UNCHANGED <<maps, interactive, cancels, clock>>

(* adapter.TerminateSandbox: on an error the call returns and the sandbox   *)
(* stays stopping.                                                          *)
TerminateBackend(r, ok) ==
    /\ requests[r].pc = "backend"
    /\ requests' = [requests EXCEPT ![r] =
                      IF ok THEN [requests[r] EXCEPT !.pc = "commit", !.now = clock]
                      ELSE IdleRequest]
    /\ UNCHANGED <<maps, interactive, runners, cancels, clock>>

(* Last critical section of TerminateSandbox.                               *)
TerminateCommit(r) ==
    LET s == requests[r].sandbox
        stops == sandboxes[s].status \in {"ready", "stopping"}
    IN  /\ requests[r].pc = "commit"
        /\ requests' = [requests EXCEPT ![r] = IdleRequest]
        /\ PruneState(IF stops
                      THEN [sandboxes EXCEPT ![s].status = "stopped", ![s].updated = clock]
                      ELSE sandboxes,
                      executions,
                      IF stops THEN CloseDone(RecordSandbox(bus, s, "stopped"), {s}) ELSE bus,
                      {}, requests[r].now)
        /\ UNCHANGED <<runners, cancels, clock>>

(* Mutant: a queued execution does not count.                               *)
SandboxBusyRunning(s) ==
    /\ sandboxes[s].active # NoId
    /\ executions[sandboxes[s].active].status = "running"

(* The sandbox has an execution that is not final.                          *)
SandboxBusy(s) ==
    /\ sandboxes[s].active # NoId
    /\ IsActive(executions[sandboxes[s].active].status)

DownloadBegin(r, s) ==
    /\ requests[r].pc = "idle"
    /\ sandboxes[s].status = "ready"
    /\ ~sandboxes[s].downloading
    /\ ~SandboxBusy(s)
    /\ sandboxes' = [sandboxes EXCEPT ![s].downloading = TRUE]
    /\ requests' = [requests EXCEPT ![r] =
                      [pc |-> "download", sandbox |-> s, cancels |-> {}, now |-> 0]]
    /\ UNCHANGED <<executions, bus, interactive, runners, cancels, clock>>

(* The deferred function runs however the adapter's download ended.         *)
DownloadEnd(r) ==
    LET s == requests[r].sandbox
    IN  /\ requests[r].pc = "download"
        /\ sandboxes' = IF InMap(sandboxes[s])
                        THEN [sandboxes EXCEPT ![s].downloading = FALSE] ELSE sandboxes
        /\ requests' = [requests EXCEPT ![r] = IdleRequest]
        /\ UNCHANGED <<executions, bus, interactive, runners, cancels, clock>>

-----------------------------------------------------------------------------
(* Executions.                                                              *)

CreateExecution(e, s, kind) ==
    LET exs == [executions EXCEPT ![e] = FreshExecution("queued", s, kind)]
    IN  /\ executions[e].status = "unused"
        /\ sandboxes[s].status = "ready"
        /\ ~SandboxBusy(s)
        /\ ~sandboxes[s].downloading
        /\ \E t \in 0 .. clock :
             PruneState([sandboxes EXCEPT ![s].active = e, ![s].updated = t],
                        exs, RecordExecution(bus, exs, {e}, "message"), {}, t)
        /\ runners' = [runners EXCEPT ![e].pc = "spawned"]
        /\ UNCHANGED <<requests, cancels, clock>>

(* A creation that is refused because of a download has already forgotten   *)
(* the finished active execution.                                           *)
CreateExecutionRefused(s) ==
    /\ sandboxes[s].status = "ready"
    /\ sandboxes[s].active # NoId
    /\ ~SandboxBusy(s)
    /\ sandboxes[s].downloading
    /\ sandboxes' = [sandboxes EXCEPT ![s].active = NoId]
    /\ UNCHANGED <<executions, bus, interactive, callers, clock>>

(* First critical section of runExecution.  The goroutine leaves at once    *)
(* when the execution has already ended (or was pruned).                    *)
RunExecutionSkip(e) ==
    /\ runners[e].pc = "spawned"
    /\ ~IsActive(executions[e].status)
    /\ runners' = [runners EXCEPT ![e].pc = "exited"]
    /\ UNCHANGED <<maps, interactive, requests, cancels, clock>>

(* How an execution ends whose sandbox is not ready when it starts.         *)
NotReadyOutcome(e) ==
    IF executions[e].sandbox \in Sandboxes
       /\ sandboxes[executions[e].sandbox].status \in {"stopping", "stopped"}
    THEN <<"canceled", CancelExitCode(executions[e].signal)>>
    ELSE <<"failed", 1>>

StartsReady(e) ==
    /\ executions[e].sandbox \in Sandboxes
    /\ sandboxes[executions[e].sandbox].status = "ready"

RunExecutionStart(e) ==
    LET out == NotReadyOutcome(e)
        started == [executions EXCEPT ![e].status = "running", ![e].cancel = TRUE]
        refused == [executions EXCEPT ![e] = Finalize(executions[e], out[1], out[2], clock)]
    IN  /\ runners[e].pc = "spawned"
        /\ IsActive(executions[e].status)
        /\ IF StartsReady(e)
           THEN /\ executions' = started
                /\ bus' = RecordExecution(bus, started, {e}, "message")
                /\ runners' = [runners EXCEPT ![e].pc = "adapter"]
                /\ UNCHANGED <<sandboxes, interactive>>
           ELSE /\ PruneState(sandboxes, refused, RecordExit(bus, refused, {e}), {e}, clock)
                /\ runners' = [runners EXCEPT ![e].pc = "exited"]
        /\ UNCHANGED <<requests, cancels, clock>>

(* The callbacks of the adapter while it runs: an output chunk, and the     *)
(* registration of the stdin and resize functions.                          *)
OutputChunk(e) ==
    /\ runners[e].pc = "adapter"
    /\ IsActive(executions[e].status)
    /\ EventRoom(e)
    /\ bus' = RecordExecution(bus, executions, {e}, "output")
    /\ UNCHANGED <<sandboxes, executions, interactive, callers, clock>>

SetAttachIO(e) ==
    /\ runners[e].pc = "adapter"
    /\ IsActive(executions[e].status)
    /\ executions' = [executions EXCEPT ![e].attach = TRUE]
    /\ UNCHANGED <<sandboxes, bus, interactive, callers, clock>>

(* Mutant: a result that arrives after the cancellation wins.               *)
RunOutcomeResultFirst(e, result) ==
    IF result = "zero" THEN <<"succeeded", 0>>
    ELSE IF executions[e].cancelRequested THEN <<"canceled", CancelExitCode(executions[e].signal)>>
    ELSE <<"failed", 1>>

(* The status and exit code with which an execution ends after the adapter  *)
(* returned: result is "error" or the exit code of the command.  The run    *)
(* context has no deadline, so the timed_out branch is never taken.         *)
RunOutcome(e, result) ==
    LET ex == executions[e]
        interrupted == ex.cancelRequested \/ (result = "error" /\ runners[e].canceled)
    IN  IF interrupted THEN <<"canceled", CancelExitCode(ex.signal)>>
        ELSE IF result = "error" THEN <<"failed", 1>>
        ELSE IF result = "zero" THEN <<"succeeded", 0>>
        ELSE <<"failed", 7>>

(* Last critical section of runExecution: an adapter error is reported as   *)
(* output under the final status, a result may add output that was not      *)
(* streamed (merged).  Then the exit event, and the prune.                  *)
RunExecutionFinish(e, result, merged) ==
    LET s == executions[e].sandbox
        out == RunOutcome(e, result)
        ended == [executions EXCEPT ![e] =
                    Finalize(Detached(executions[e]), out[1], out[2], clock)]
        reported == IF result = "error" THEN RecordExecution(bus, ended, {e}, "output")
                    ELSE IF merged THEN RecordExecution(bus, executions, {e}, "output")
                    ELSE bus
        freed == IF s \in Sandboxes /\ sandboxes[s].active = e
                 THEN [sandboxes EXCEPT ![s].active = NoId, ![s].updated = clock]
                 ELSE sandboxes
    IN  /\ runners[e].pc = "adapter"
        /\ runners' = [runners EXCEPT ![e].pc = "exited"]
        /\ IF InMap(executions[e])
           THEN PruneState(freed, ended, RecordExit(reported, ended, {e}), {e}, clock)
           ELSE UNCHANGED <<maps, interactive>>
        /\ UNCHANGED <<requests, cancels, clock>>

(* CancelExecution of an execution that has not started ends it; one that   *)
(* runs is marked and its cancel function is called after the unlock.       *)
CancelQueued(e, signal) ==
    LET marked == [executions EXCEPT ![e] = MarkCanceled(executions[e], signal)]
    IN  /\ executions[e].status = "queued"
        /\ \E t \in 0 .. clock :
             LET ended == [marked EXCEPT ![e] =
                             Finalize(marked[e], "canceled", CancelExitCode(signal), t)]
             IN  PruneState(sandboxes, ended,
                            RecordExit(RecordExecution(bus, marked, {e}, "message"), ended, {e}),
                            {e}, t)
        /\ UNCHANGED <<callers, clock>>

CancelRunning(e, signal) ==
    LET marked == [executions EXCEPT ![e] = MarkCanceled(executions[e], signal)]
    IN  /\ executions[e].status = "running"
        /\ EventRoom(e)
        /\ executions' = marked
        /\ bus' = RecordExecution(bus, marked, {e}, "message")
        /\ cancels' = IF executions[e].cancel THEN cancels \cup {e} ELSE cancels
        /\ UNCHANGED <<sandboxes, interactive, runners, requests, clock>>

(* Mutant: the cancel function is read and not called.                      *)
CancelCallForgotten(e) ==
    /\ e \in cancels
    /\ cancels' = cancels \ {e}
    /\ UNCHANGED <<maps, interactive, runners, requests, clock>>

CancelCall(e) ==
    /\ e \in cancels
    /\ cancels' = cancels \ {e}
    /\ runners' = [runners EXCEPT ![e].canceled = TRUE]
    /\ UNCHANGED <<maps, interactive, requests, clock>>

-----------------------------------------------------------------------------
(* Interactive sessions.                                                    *)

Expire(t) ==
    [x \in Sessions |-> IF sessions[x].status = "pending" /\ t > sessions[x].expires
                        THEN [sessions[x] EXCEPT !.status = "ended"] ELSE sessions[x]]

(* Mutant: a second session may be opened before the first is used.         *)
NoPendingCheck(live, e) == FALSE

HasPendingSession(live, e) == \E x \in Sessions : live[x].status = "pending" /\ live[x].execution = e

(* The expired sessions go even when the call is then refused.              *)
OpenInteractiveExecution(x, e) ==
    /\ sessions[x].status = "unused"
    /\ IsActive(executions[e].status)
    /\ executions[e].kind = "interactive"
    /\ \E t \in 0 .. clock :
         LET live == Expire(t)
         IN  sessions' = IF e \in attached \/ HasPendingSession(live, e) THEN live
                         ELSE [live EXCEPT ![x] =
                                 [status |-> "pending", execution |-> e,
                                  expires |-> t + InteractiveSessionTokenTTL]]
    /\ UNCHANGED <<maps, attached, callers, clock>>

(* A call with the wrong token only drops what expired.  With the right one *)
(* the session is gone either way; it attaches when the execution is alive, *)
(* interactive and free.                                                    *)
ConsumeInteractiveSession(x, rightToken) ==
    /\ sessions[x].status = "pending"
    /\ \E t \in 0 .. clock :
         LET e == sessions[x].execution
             live == Expire(t)
             admits == /\ rightToken
                       /\ live[x].status = "pending"
                       /\ IsActive(executions[e].status)
                       /\ executions[e].kind = "interactive"
                       /\ e \notin attached
         IN  /\ sessions' = IF admits THEN [live EXCEPT ![x].status = "held"]
                            ELSE IF rightToken THEN [live EXCEPT ![x].status = "ended"]
                            ELSE live
             /\ attached' = IF admits THEN attached \cup {e} ELSE attached
    /\ UNCHANGED <<maps, callers, clock>>

(* The connection that consumed the session ends, whatever the reason.      *)
ReleaseInteractiveExecution(x) ==
    /\ sessions[x].status = "held"
    /\ sessions' = [sessions EXCEPT ![x].status = "ended"]
    /\ attached' = attached \ {sessions[x].execution}
    /\ UNCHANGED <<maps, callers, clock>>

-----------------------------------------------------------------------------
Tick ==
    /\ clock < MaxClock
    /\ clock' = clock + 1
    /\ UNCHANGED <<maps, interactive, callers>>

SandboxNext ==
    \/ \E s \in Sandboxes : CreateSandbox(s)
    \/ \E r \in Requests, s \in Sandboxes :
         TerminateBegin(r, s) \/ TerminateStopped(r, s) \/ DownloadBegin(r, s)
    \/ \E r \in Requests :
         \/ TerminateCancel(r)
         \/ \E ok \in BOOLEAN : TerminateBackend(r, ok)
         \/ TerminateCommit(r)
         \/ DownloadEnd(r)

ExecutionNext ==
    \/ \E e \in Executions, s \in Sandboxes, k \in ExecutionKinds : CreateExecution(e, s, k)
    \/ \E s \in Sandboxes : CreateExecutionRefused(s)
    \/ \E e \in Executions :
         \/ RunExecutionSkip(e)
         \/ RunExecutionStart(e)
         \/ OutputChunk(e)
         \/ SetAttachIO(e)
         \/ \E result \in {"error", "zero", "nonzero"}, m \in BOOLEAN :
              RunExecutionFinish(e, result, m)
         \/ \E signal \in CancelSignals : CancelQueued(e, signal) \/ CancelRunning(e, signal)
         \/ CancelCall(e)

SessionNext ==
    \E x \in Sessions :
       \/ \E e \in Executions : OpenInteractiveExecution(x, e)
       \/ \E rightToken \in BOOLEAN : ConsumeInteractiveSession(x, rightToken)
       \/ ReleaseInteractiveExecution(x)

Next == SandboxNext \/ ExecutionNext \/ SessionNext \/ Tick

Spec == Init /\ [][Next]_vars


(* The goroutines that the code starts are scheduled; a call that released  *)
(* the lock goes on.  An adapter is only assumed to return once its context *)
(* is canceled: a command may otherwise run for ever.                       *)
RunExecutionReturn(e) ==
    \E result \in {"error", "zero", "nonzero"}, m \in BOOLEAN : RunExecutionFinish(e, result, m)

Fairness ==
    /\ \A e \in Executions :
         /\ WF_vars(RunExecutionSkip(e) \/ RunExecutionStart(e))
         /\ WF_vars(CancelCall(e))
         /\ WF_vars(runners[e].canceled /\ RunExecutionReturn(e))
    /\ \A r \in Requests :
         /\ WF_vars(TerminateCancel(r))
         /\ WF_vars(\E ok \in BOOLEAN : TerminateBackend(r, ok))
         /\ WF_vars(TerminateCommit(r))
         /\ WF_vars(DownloadEnd(r))

FairSpec == Spec /\ Fairness

-----------------------------------------------------------------------------
(* Properties.                                                              *)

TypeOK ==
    /\ sandboxes \in [Sandboxes -> SandboxStates]
    /\ executions \in [Executions -> ExecutionStates]
    /\ bus \in Buses
    /\ runners \in [Executions -> Runners]
    /\ requests \in [Requests -> RequestStates]
    /\ cancels \in SUBSET Executions
    /\ sessions \in [Sessions -> SessionStates]
    /\ attached \in SUBSET Executions
    /\ clock \in Times

(* A sandbox is used by one caller at a time: it never has two unfinished   *)
(* executions, an unfinished execution and a file download, or two          *)
(* downloads, although creation and download only look at the               *)
(* ActiveExecutionID and DownloadInProgress fields, which other handlers    *)
(* leave stale (CreateExecution, DownloadSandboxFile).                      *)
ExclusiveUse ==
    /\ \A e, f \in Executions :
         (/\ IsActive(executions[e].status)
          /\ IsActive(executions[f].status)
          /\ executions[e].sandbox = executions[f].sandbox) => e = f
    /\ \A r \in Requests : requests[r].pc = "download" =>
         /\ ~HasActiveExecution(executions, requests[r].sandbox)
         /\ \A q \in Requests :
              requests[q].pc = "download" /\ requests[q].sandbox = requests[r].sandbox => q = r

(* An execution ends as canceled exactly when a cancellation was accepted   *)
(* for it (CancelExecution, TerminateSandbox), whatever the adapter         *)
(* returned in the meantime (runExecution).                                 *)
CancelWins ==
    \A e \in Executions : IsFinal(executions[e].status) =>
        (executions[e].cancelRequested <=> executions[e].status = "canceled")

(* A cancellation accepted for a running execution is not lost: its run     *)
(* context is canceled, or a call that has read its cancel function under   *)
(* the lock is about to call it (CancelExecution, TerminateSandbox).        *)
CancelNotLost ==
    \A e \in Executions :
        executions[e].status = "running" /\ executions[e].cancelRequested =>
            \/ runners[e].canceled
            \/ e \in cancels
            \/ \E r \in Requests : requests[r].pc = "cancel" /\ e \in requests[r].cancels

(* The sandbox of an unfinished execution is still in the map, and once it  *)
(* is stopping or stopped the execution is one that had started and has     *)
(* been told to stop.  So the branches of runExecution for a missing or     *)
(* stopping sandbox are never taken.                                        *)
NoWorkOutlivesSandbox ==
    \A e \in Executions : IsActive(executions[e].status) =>
        /\ executions[e].sandbox \in Sandboxes
        /\ \/ sandboxes[executions[e].sandbox].status = "ready"
           \/ /\ sandboxes[executions[e].sandbox].status \in {"stopping", "stopped"}
              /\ executions[e].status = "running"
              /\ executions[e].cancelRequested

(* The exit event closes the history: a retained execution is final exactly *)
(* when its Done channel is closed and exactly when its last event is an    *)
(* exit event, that event carries its status, and no exit event comes       *)
(* before it (finalizeExecutionInternalLocked, recordExecutionOutputChunk). *)
ExitEventLast ==
    \A e \in Executions : InMap(executions[e]) =>
        LET hist == bus.hist[e]
            last == hist[Len(hist)]
        IN  /\ hist # <<>>
            /\ IsFinal(executions[e].status) <=> e \in bus.done
            /\ IsFinal(executions[e].status) <=> last.kind = "exit"
            /\ last.kind = "exit" => last.status = executions[e].status
            /\ \A i \in 1 .. Len(hist) - 1 : hist[i].kind # "exit"

(* The exit code of an ended execution is zero exactly when it succeeded:   *)
(* the command line reports the code, not the status (cancelExitCode,       *)
(* executionRunErrorStatus, runExecution).                                  *)
ExitCodeMeaning ==
    \A e \in Executions : IsFinal(executions[e].status) =>
        (executions[e].exitCode = 0 <=> executions[e].status = "succeeded")

(* The functions that reach into a run are there only while it runs: the    *)
(* cancel function exactly then, the attach functions only then, so a write *)
(* or a resize never goes to a run that is over (runExecution).             *)
HandlesFollowRun ==
    \A e \in Executions :
        /\ executions[e].cancel <=> executions[e].status = "running"
        /\ executions[e].cancel <=> runners[e].pc = "adapter"
        /\ executions[e].attach => executions[e].status = "running"

(* DownloadInProgress is set exactly while a download call is in flight: it *)
(* is neither left behind nor cleared under another caller's download       *)
(* (DownloadSandboxFile).                                                   *)
DownloadFlagExact ==
    \A s \in Sandboxes : InMap(sandboxes[s]) =>
        (sandboxes[s].downloading <=>
           \E r \in Requests : requests[r].pc = "download" /\ requests[r].sandbox = s)

FinishedExecutions == {e \in Executions : IsFinal(executions[e].status)}

(* Retention: the finished executions stay within the limit, plus one for   *)
(* each sandbox that is stopping (TerminateSandbox ends a queued execution  *)
(* without a prune); the stopped sandboxes without an unfinished execution  *)
(* stay within theirs (pruneStateLocked and every caller of it).            *)
RetentionBounded ==
    /\ Cardinality(FinishedExecutions) <=
         MaxRetainedFinishedExecutions
           + Cardinality({s \in Sandboxes : sandboxes[s].status = "stopping"})
    /\ Cardinality({s \in Sandboxes : sandboxes[s].status = "stopped"
                                      /\ ~HasActiveExecution(executions, s)})
         <= MaxRetainedStoppedSandboxes

(* At most one connection drives an execution: no two connections hold a    *)
(* session of the same execution, and none can be opened while one does     *)
(* (OpenInteractiveExecution, ConsumeInteractiveSession, and a release that *)
(* is keyed by the execution, not by the session).                          *)
SingleWriter ==
    \A x, y \in Sessions :
        (/\ sessions[x].status = "held"
         /\ sessions[y].status \in {"held", "pending"}
         /\ sessions[x].execution = sessions[y].execution) => x = y

(* Nothing interactive leaks: an execution marked attached is unfinished    *)
(* and held by a connection that will release it, and a pending session     *)
(* names an unfinished interactive execution, for which it is the only one  *)
(* (clearInteractiveExecutionStateLocked).                                  *)
InteractiveStateLive ==
    /\ \A e \in attached :
         /\ IsActive(executions[e].status)
         /\ \E x \in Sessions : sessions[x].status = "held" /\ sessions[x].execution = e
    /\ \A x \in Sessions : sessions[x].status = "pending" =>
         /\ IsActive(executions[sessions[x].execution].status)
         /\ executions[sessions[x].execution].kind = "interactive"
         /\ \A y \in Sessions :
              (/\ sessions[y].status = "pending"
               /\ sessions[y].execution = sessions[x].execution) => x = y

(* A canceled execution ends: once a cancellation is accepted the execution *)
(* reaches a final status (CancelExecution, TerminateSandbox).              *)
CanceledEnds ==
    \A e \in Executions :
        (IsActive(executions[e].status) /\ executions[e].cancelRequested)
            ~> ~IsActive(executions[e].status)

(* Once termination of a sandbox has begun all its executions end, even if  *)
(* the backend then refuses to stop the VM (TerminateSandbox).              *)
TerminationDrains ==
    \A s \in Sandboxes :
        (sandboxes[s].status = "stopping") ~> ~HasActiveExecution(executions, s)

(* What is left of the service for a client.                                *)
Contract == INSTANCE SandboxContract WITH
    phase <- [s \in Sandboxes |-> sandboxes[s].status],
    outcome <- [e \in Executions |-> executions[e].status],
    home <- [e \in Executions |-> executions[e].sandbox]

(* The service implements SandboxContract: an execution begins only in a    *)
(* ready sandbox without an unfinished one, starts only while the sandbox   *)
(* is ready, ends once, without having started only as canceled, and its    *)
(* outcome never changes until it is forgotten; a sandbox only moves from   *)
(* ready over stopping to stopped and is forgotten only then, with no       *)
(* unfinished execution left (every critical section of the service).       *)
ImplementsContract == Contract!Spec

=============================================================================
