------------------------ MODULE ControlServiceProofs ------------------------
(***************************************************************************)
(* Proofs about ControlService for any number of sandboxes, executions,    *)
(* requests, sessions and subscribers and any retention limits.            *)
(***************************************************************************)
EXTENDS ControlService, SequenceTheorems, TLAPS

-----------------------------------------------------------------------------
(* The event bus.                                                           *)

(* appendBounded keeps the items of the history and the new one.            *)
LEMMA AppendBoundedType ==
    ASSUME NEW items \in Seq(Events), NEW item \in Events, NEW limit \in Nat \ {0}
    PROVE  AppendBounded(items, item, limit) \in Seq(Events)
<1> DEFINE all == Append(items, item)
<1>1. all \in Seq(Events)
  OBVIOUS
<1>2. CASE Len(all) <= limit
  BY <1>1, <1>2 DEF AppendBounded
<1>3. CASE ~(Len(all) <= limit)
  <2>1. Len(all) \in Nat /\ Len(all) - limit + 1 \in 1 .. Len(all) + 1
    BY <1>1, <1>3
  <2>2. SubSeq(all, Len(all) - limit + 1, Len(all)) \in Seq(Events)
    BY <1>1, <2>1, SubSeqProperties
  <2>3. QED
    BY <1>3, <2>2 DEF AppendBounded
<1>4. QED
  BY <1>2, <1>3

(* The position of the newest event is a number.                            *)
LEMMA PublishedType ==
    ASSUME NEW hist \in Seq(Events)
    PROVE  Published(hist) \in Nat
<1>1. CASE hist = <<>>
  BY <1>1 DEF Published
<1>2. CASE hist # <<>>
  <2>1. hist[Len(hist)] \in Events
    BY <1>2
  <2>2. QED
    BY <1>2, <2>1 DEF Published, Events
<1>3. QED
  BY <1>1, <1>2

(* The limits of a topic are positive.                                      *)
LEMMA LimitsType ==
    ASSUME NEW k \in Topics
    PROVE  HistoryLimit(k) \in Nat \ {0} /\ BufferLimit(k) \in Nat \ {0}
BY LimitsAssumption DEF HistoryLimit, BufferLimit

(* Recording an event keeps the bus well formed.                            *)
LEMMA RecordEventType ==
    ASSUME NEW b \in Buses, NEW K \in SUBSET Topics, NEW kind \in EventKinds, NEW statusOf,
           \A k \in K : statusOf[k] \in SandboxStatuses \cup ExecutionStatuses
    PROVE  RecordEvent(b, K, kind, statusOf) \in Buses
<1> DEFINE event(k) == [n |-> Published(b.hist[k]) + 1, kind |-> kind, status |-> statusOf[k]]
           full == {c \in Streams : b.sub[c] \in K /\ Len(b.buf[c]) >= BufferLimit(b.sub[c])}
           r == RecordEvent(b, K, kind, statusOf)
<1>1. \A k \in K : event(k) \in Events
  <2> TAKE k \in K
  <2>1. b.hist[k] \in Seq(Events)
    BY DEF Buses
  <2>2. Published(b.hist[k]) \in Nat
    BY <2>1, PublishedType
  <2>3. QED
    BY <2>2 DEF Events
<1>2. r.hist \in [Topics -> Seq(Events)]
  <2>1. ASSUME NEW k \in K
        PROVE  AppendBounded(b.hist[k], event(k), HistoryLimit(k)) \in Seq(Events)
    <3>1. b.hist[k] \in Seq(Events) /\ HistoryLimit(k) \in Nat \ {0}
      BY LimitsType DEF Buses
    <3>2. QED
      BY <1>1, <3>1, AppendBoundedType
  <2>2. QED
    BY <2>1 DEF RecordEvent, Buses
<1>3. r.buf \in [Streams -> Seq(Events)]
  <2>1. ASSUME NEW c \in Streams, b.sub[c] \in K
        PROVE  Append(b.buf[c], event(b.sub[c])) \in Seq(Events)
    BY <1>1, <2>1 DEF Buses
  <2>2. QED
    BY <2>1 DEF RecordEvent, Buses
<1>4. r.done \in SUBSET Topics /\ r.sub \in [Streams -> Topics \cup {NoId}]
      /\ r.closed \in SUBSET Streams
  BY DEF RecordEvent, Buses
<1>5. r = [hist |-> r.hist, done |-> r.done, sub |-> r.sub, buf |-> r.buf, closed |-> r.closed]
  BY Zenon DEF RecordEvent
<1>6. QED
  BY <1>2, <1>3, <1>4, <1>5 DEF Buses

(* So does closing Done channels and subscribers.                           *)
LEMMA CloseType ==
    ASSUME NEW b \in Buses, NEW K \in SUBSET Topics
    PROVE  CloseDone(b, K) \in Buses /\ CloseSubscribers(b, K) \in Buses
BY Zenon DEF CloseDone, CloseSubscribers, Buses

-----------------------------------------------------------------------------
(* The helpers of the service.                                              *)

(* The initial and the erased records are well formed.                      *)
LEMMA EmptyRecords ==
    \A status \in {"unused", "dropped"} :
        NoSandbox(status) \in SandboxStates /\ NoExecution(status) \in ExecutionStates
BY ServiceAssumption DEF NoSandbox, NoExecution, FreshExecution, SandboxStates, ExecutionStates, Times

(* A prune drops only final executions and keeps the others as they are.    *)
LEMMA PrunedExecutionsFacts ==
    ASSUME NEW exs \in [Executions -> ExecutionStates], NEW t
    PROVE  /\ EvictedExecutions(exs, t) \in SUBSET Executions
           /\ PrunedExecutions(exs, t) \in [Executions -> ExecutionStates]
           /\ \A e \in Executions :
                \/ PrunedExecutions(exs, t)[e] = exs[e]
                \/ /\ IsFinal(exs[e].status)
                   /\ PrunedExecutions(exs, t)[e] = NoExecution("dropped")
<1>1. EvictedExecutions(exs, t) \subseteq {e \in Executions : IsFinal(exs[e].status)}
  BY DEF EvictedExecutions, Evicted
<1>2. NoExecution("dropped") \in ExecutionStates
  BY EmptyRecords
<1>3. QED
  BY <1>1, <1>2 DEF PrunedExecutions

(* A prune drops only stopped sandboxes without an unfinished execution.    *)
LEMMA PrunedSandboxesFacts ==
    ASSUME NEW sbs \in [Sandboxes -> SandboxStates], NEW exs, NEW t
    PROVE  /\ EvictedSandboxes(sbs, exs, t) \in SUBSET Sandboxes
           /\ PrunedSandboxes(sbs, exs, t) \in [Sandboxes -> SandboxStates]
           /\ \A s \in Sandboxes :
                \/ PrunedSandboxes(sbs, exs, t)[s] = sbs[s]
                \/ /\ sbs[s].status = "stopped"
                   /\ ~HasActiveExecution(exs, s)
                   /\ PrunedSandboxes(sbs, exs, t)[s] = NoSandbox("dropped")
<1>1. EvictedSandboxes(sbs, exs, t) \subseteq
        {s \in Sandboxes : sbs[s].status = "stopped" /\ ~HasActiveExecution(exs, s)}
  BY Zenon DEF EvictedSandboxes, Evicted
<1>2. NoSandbox("dropped") \in SandboxStates
  BY EmptyRecords
<1>3. QED
  BY <1>1, <1>2 DEF PrunedSandboxes

(* Clearing sessions keeps them well formed, and makes none pending.        *)
LEMMA ClearSessionsType ==
    ASSUME NEW E, sessions \in [Sessions -> SessionStates]
    PROVE  /\ ClearSessions(E) \in [Sessions -> SessionStates]
           /\ \A x \in Sessions : ClearSessions(E)[x].status = "pending" =>
                ClearSessions(E)[x] = sessions[x]
BY DEF ClearSessions, SessionStates

(* The whole prune keeps the state well formed.                             *)
LEMMA PruneStateType ==
    ASSUME NEW sbs \in [Sandboxes -> SandboxStates],
           NEW exs \in [Executions -> ExecutionStates],
           NEW b \in Buses, NEW F, NEW t,
           sessions \in [Sessions -> SessionStates], attached \in SUBSET Executions,
           PruneState(sbs, exs, b, F, t)
    PROVE  /\ sandboxes' \in [Sandboxes -> SandboxStates]
           /\ executions' \in [Executions -> ExecutionStates]
           /\ bus' \in Buses
           /\ sessions' \in [Sessions -> SessionStates]
           /\ attached' \in SUBSET Executions
<1> DEFINE E == EvictedExecutions(exs, t)
           S == EvictedSandboxes(sbs, exs, t)
<1>1. E \cup S \in SUBSET Topics
  BY PrunedExecutionsFacts, PrunedSandboxesFacts DEF Topics
<1>2. CloseSubscribers(b, E \cup S) \in Buses
  BY <1>1, CloseType
<1>3. bus' \in Buses
  <2>1. bus' = CloseDone(CloseSubscribers(b, E \cup S), E \cup S)
    BY DEF PruneState
  <2> HIDE DEF E, S
  <2>2. QED
    BY <1>1, <1>2, <2>1, CloseType
<1>4. sessions' \in [Sessions -> SessionStates] /\ attached' \in SUBSET Executions
  BY ClearSessionsType DEF PruneState
<1>5. sandboxes' \in [Sandboxes -> SandboxStates] /\ executions' \in [Executions -> ExecutionStates]
  BY PrunedExecutionsFacts, PrunedSandboxesFacts DEF PruneState
<1>6. QED
  BY <1>3, <1>4, <1>5

(* Recording an event of executions that have begun, or of a sandbox.       *)
LEMMA RecordType ==
    ASSUME NEW b \in Buses
    PROVE  /\ \A exs \in [Executions -> ExecutionStates], E \in SUBSET Executions,
                 kind \in EventKinds :
                (\A e \in E : exs[e].status \in ExecutionStatuses) =>
                    /\ RecordExecution(b, exs, E, kind) \in Buses
                    /\ RecordExit(b, exs, E) \in Buses
           /\ \A s \in Sandboxes, status \in SandboxStatuses :
                RecordSandbox(b, s, status) \in Buses
<1>1. ASSUME NEW exs \in [Executions -> ExecutionStates], NEW E \in SUBSET Executions,
             NEW kind \in EventKinds, \A e \in E : exs[e].status \in ExecutionStatuses
      PROVE  RecordExecution(b, exs, E, kind) \in Buses
  <2> DEFINE st == [e \in Executions |-> exs[e].status]
  <2>1. E \in SUBSET Topics /\ \A e \in E : st[e] \in SandboxStatuses \cup ExecutionStatuses
    BY <1>1 DEF Topics
  <2> HIDE DEF st
  <2>2. RecordEvent(b, E, kind, st) \in Buses
    BY <2>1, RecordEventType
  <2>3. QED
    BY <2>2 DEF RecordExecution, st
<1>2. ASSUME NEW exs \in [Executions -> ExecutionStates], NEW E \in SUBSET Executions,
             \A e \in E : exs[e].status \in ExecutionStatuses
      PROVE  RecordExit(b, exs, E) \in Buses
  <2>1. RecordExecution(b, exs, E, "exit") \in Buses
    BY <1>1, <1>2 DEF EventKinds
  <2>2. E \in SUBSET Topics
    BY DEF Topics
  <2>3. QED
    BY <2>1, <2>2, CloseType DEF RecordExit
<1>3. ASSUME NEW s \in Sandboxes, NEW status \in SandboxStatuses
      PROVE  RecordSandbox(b, s, status) \in Buses
  <2> DEFINE st == [k \in {s} |-> status]
  <2>1. {s} \in SUBSET Topics /\ \A k \in {s} : st[k] \in SandboxStatuses \cup ExecutionStatuses
    BY DEF Topics
  <2>2. "state" \in EventKinds
    BY DEF EventKinds
  <2> HIDE DEF st
  <2>3. RecordEvent(b, {s}, "state", st) \in Buses
    BY <2>1, <2>2, RecordEventType
  <2>4. QED
    BY <2>3 DEF RecordSandbox, st
<1>4. QED
  BY <1>1, <1>2, <1>3

-----------------------------------------------------------------------------
(* The inductive invariant, as predicates on the values of the maps so that *)
(* it can be stated of the intermediate values of a critical section.       *)

Placed(exs, rq) ==
    /\ \A r \in Requests : rq[r].pc # "idle" => rq[r].sandbox \in Sandboxes
    /\ \A e \in Executions : IsActive(exs[e].status) => exs[e].sandbox \in Sandboxes

(* An unfinished execution is the active one of its sandbox, which is not   *)
(* downloading, and is ready unless the execution has been told to stop.    *)
OwnedBy(sb, ex, e) ==
    /\ sb.active = e
    /\ ~sb.downloading
    /\ \/ sb.status = "ready"
       \/ /\ sb.status \in {"stopping", "stopped"}
          /\ ex.status = "running"
          /\ ex.cancelRequested

Owned(sbs, exs) ==
    \A e \in Executions : IsActive(exs[e].status) => OwnedBy(sbs[exs[e].sandbox], exs[e], e)

HandlesOf(ex, run) ==
    /\ ex.status = "running" <=> run.pc = "adapter"
    /\ ex.cancel <=> ex.status = "running"
    /\ ex.attach => ex.status = "running"

Handles(exs, rn) == \A e \in Executions : HandlesOf(exs[e], rn[e])

(* Somebody has the cancel function of e and is about to call it, or did.   *)
Called(rn, rq, cn, e) ==
    \/ rn[e].canceled
    \/ e \in cn
    \/ \E r \in Requests : rq[r].pc = "cancel" /\ e \in rq[r].cancels

Canceling(exs, rn, rq, cn) ==
    /\ \A r \in Requests : rq[r].pc # "cancel" => rq[r].cancels = {}
    /\ \A e \in Executions :
         /\ exs[e].status \in {"unused", "queued"} => ~Called(rn, rq, cn, e)
         /\ exs[e].status = "queued" => ~exs[e].cancelRequested
         /\ exs[e].status = "running" => (exs[e].cancelRequested <=> Called(rn, rq, cn, e))
         /\ IsFinal(exs[e].status) =>
              (exs[e].cancelRequested <=> exs[e].status = "canceled")

Downloads(sbs, rq) ==
    /\ \A r \in Requests : rq[r].pc = "download" =>
         /\ sbs[rq[r].sandbox].status # "unused"
         /\ InMap(sbs[rq[r].sandbox]) => sbs[rq[r].sandbox].downloading
         /\ \A q \in Requests : rq[q].pc = "download" /\ rq[q].sandbox = rq[r].sandbox => q = r
    /\ \A s \in Sandboxes : sbs[s].downloading =>
         /\ InMap(sbs[s])
         /\ \E r \in Requests : rq[r].pc = "download" /\ rq[r].sandbox = s

(* A termination is under way only in a sandbox that is no longer ready.    *)
Terminating(sbs, rq) ==
    \A r \in Requests : rq[r].pc \in {"cancel", "backend", "commit"} =>
        sbs[rq[r].sandbox].status \in {"stopping", "stopped", "dropped"}

Usage(sbs, exs, rn, rq, cn) ==
    /\ Placed(exs, rq)
    /\ Owned(sbs, exs)
    /\ Handles(exs, rn)
    /\ Canceling(exs, rn, rq, cn)
    /\ Downloads(sbs, rq)
    /\ Terminating(sbs, rq)

(* A pending session names an execution.                                    *)
Named(ss) == \A x \in Sessions : ss[x].status = "pending" => ss[x].execution \in Executions

UsageInv ==
    /\ TypeOK
    /\ Named(sessions)
    /\ Usage(sandboxes, executions, runners, requests, cancels)

(* A sandbox has one download at most.                                      *)
LEMMA OneDownload ==
    ASSUME NEW sbs, NEW rq, Downloads(sbs, rq)
    PROVE  \A q, t \in Requests :
             (/\ rq[q].pc = "download"
              /\ rq[t].pc = "download"
              /\ rq[t].sandbox = rq[q].sandbox) => t = q
BY Zenon DEF Downloads

(* A termination that is under way in new was under way before, and no      *)
(* sandbox changed its status.                                              *)
LEMMA TerminatingKept ==
    ASSUME NEW sbs, NEW new, NEW exs, NEW rq, NEW moved,
           Placed(exs, rq), Terminating(sbs, rq),
           \A s \in Sandboxes : new[s].status = sbs[s].status,
           \A r \in Requests : moved[r].pc \in {"cancel", "backend", "commit"} =>
               moved[r] = rq[r]
    PROVE  Terminating(new, moved)
<1> SUFFICES ASSUME NEW r \in Requests, moved[r].pc \in {"cancel", "backend", "commit"}
             PROVE  new[moved[r].sandbox].status \in {"stopping", "stopped", "dropped"}
  BY Zenon DEF Terminating
<1>1. moved[r] = rq[r] /\ rq[r].pc # "idle"
  OBVIOUS
<1>2. rq[r].sandbox \in Sandboxes
  BY <1>1 DEF Placed
<1>3. QED
  BY <1>1, <1>2 DEF Terminating

(* Sandboxes that keep their status and their download flag keep their      *)
(* downloads and terminations.                                              *)
LEMMA SameUse ==
    ASSUME NEW sbs, NEW new, NEW exs, NEW rq,
           Placed(exs, rq), Downloads(sbs, rq), Terminating(sbs, rq),
           \A s \in Sandboxes : /\ new[s].status = sbs[s].status
                                /\ new[s].downloading = sbs[s].downloading
    PROVE  Downloads(new, rq) /\ Terminating(new, rq)
<1>1. \A r \in Requests : rq[r].pc # "idle" => rq[r].sandbox \in Sandboxes
  BY DEF Placed
<1>2. \A s \in Sandboxes : InMap(new[s]) <=> InMap(sbs[s])
  BY Zenon DEF InMap
<1>3. Downloads(new, rq)
  BY <1>1, <1>2 DEF Downloads
<1>4. Terminating(new, rq)
  BY <1>1 DEF Terminating
<1>5. QED
  BY <1>3, <1>4

(* The same for a change of the current state.                              *)
LEMMA SameUseNow ==
    ASSUME UsageInv, NEW new,
           \A s \in Sandboxes : /\ new[s].status = sandboxes[s].status
                                /\ new[s].downloading = sandboxes[s].downloading
    PROVE  Downloads(new, requests) /\ Terminating(new, requests)
<1>1. /\ Placed(executions, requests) /\ Downloads(sandboxes, requests)
      /\ Terminating(sandboxes, requests)
  BY Zenon DEF UsageInv, Usage
<1>2. QED
  BY <1>1, SameUse

(* A prune preserves the invariant: it drops neither an unfinished          *)
(* execution nor the sandbox of one.                                        *)
LEMMA PruneUsage ==
    ASSUME NEW sbs \in [Sandboxes -> SandboxStates],
           NEW exs \in [Executions -> ExecutionStates],
           NEW rn, NEW rq, NEW cn, NEW t,
           Usage(sbs, exs, rn, rq, cn)
    PROVE  Usage(PrunedSandboxes(sbs, exs, t), PrunedExecutions(exs, t), rn, rq, cn)
<1> DEFINE sb2 == PrunedSandboxes(sbs, exs, t)
           ex2 == PrunedExecutions(exs, t)
<1>1. \A e \in Executions :
        \/ ex2[e] = exs[e]
        \/ /\ IsFinal(exs[e].status)
           /\ ex2[e].status = "dropped" /\ ~ex2[e].cancel /\ ~ex2[e].attach
  BY PrunedExecutionsFacts DEF NoExecution, FreshExecution
<1>2. \A s \in Sandboxes :
        \/ sb2[s] = sbs[s]
        \/ /\ ~HasActiveExecution(exs, s)
           /\ sb2[s].status = "dropped" /\ ~sb2[s].downloading
  BY PrunedSandboxesFacts DEF NoSandbox
<1>3. \A e \in Executions : IsActive(ex2[e].status) => ex2[e] = exs[e]
  BY <1>1 DEF IsActive
<1> HIDE DEF sb2, ex2
<1>4. Placed(ex2, rq)
  BY <1>3 DEF Usage, Placed
<1>5. Owned(sb2, ex2)
  <2> SUFFICES ASSUME NEW e \in Executions, IsActive(ex2[e].status)
               PROVE  ex2[e] = exs[e] /\ sb2[exs[e].sandbox] = sbs[exs[e].sandbox]
    BY DEF Usage, Owned, OwnedBy
  <2>1. ex2[e] = exs[e] /\ exs[e].sandbox \in Sandboxes
    BY <1>3 DEF Usage, Placed
  <2>2. HasActiveExecution(exs, exs[e].sandbox)
    BY <2>1 DEF HasActiveExecution
  <2>3. QED
    BY <1>2, <2>1, <2>2, SMTT(30)
<1>6. Handles(ex2, rn)
  BY <1>1, SMTT(30) DEF Usage, Handles, HandlesOf, IsFinal, FinalStatuses
<1>7. Canceling(ex2, rn, rq, cn)
  BY <1>1, SMTT(30) DEF Usage, Canceling, IsFinal, FinalStatuses
<1>8. Downloads(sb2, rq)
  <2>1. \A r \in Requests : rq[r].pc = "download" => rq[r].sandbox \in Sandboxes
    BY DEF Usage, Placed
  <2>2. \A s \in Sandboxes : (sb2[s].status = "unused" => sbs[s].status = "unused")
                             /\ (InMap(sb2[s]) => sb2[s] = sbs[s])
                             /\ (sb2[s].downloading => sb2[s] = sbs[s])
    BY <1>2, Zenon DEF InMap
  <2>3. QED
    BY <2>1, <2>2, SMTT(30) DEF Usage, Downloads
<1>9. Terminating(sb2, rq)
  BY <1>2 DEF Usage, Placed, Terminating
<1>10. QED
  BY <1>4, <1>5, <1>6, <1>7, <1>8, <1>9, SMTT(30) DEF Usage, sb2, ex2

(* A critical section that ends with a prune preserves the invariant if its *)
(* intermediate maps satisfy it.                                            *)
LEMMA PruneStep ==
    ASSUME UsageInv,
           NEW sbs \in [Sandboxes -> SandboxStates],
           NEW exs \in [Executions -> ExecutionStates],
           NEW b \in Buses, NEW F, NEW t,
           PruneState(sbs, exs, b, F, t),
           runners' \in [Executions -> Runners], requests' \in [Requests -> RequestStates],
           cancels' \in SUBSET Executions, clock' = clock,
           Usage(sbs, exs, runners', requests', cancels')
    PROVE  UsageInv'
<1>1. sessions \in [Sessions -> SessionStates] /\ attached \in SUBSET Executions /\ clock' \in Times
  BY DEF UsageInv, TypeOK
<1>2. /\ sandboxes' \in [Sandboxes -> SandboxStates]
      /\ executions' \in [Executions -> ExecutionStates]
      /\ bus' \in Buses
      /\ sessions' \in [Sessions -> SessionStates]
      /\ attached' \in SUBSET Executions
  BY <1>1, PruneStateType
<1>3. sandboxes' = PrunedSandboxes(sbs, exs, t) /\ executions' = PrunedExecutions(exs, t)
  BY DEF PruneState
<1>4. Usage(sandboxes', executions', runners', requests', cancels')
  BY <1>3, PruneUsage
<1>5. Named(sessions')
  BY <1>1, ClearSessionsType DEF PruneState, UsageInv, Named
<1>6. QED
  BY <1>1, <1>2, <1>4, <1>5 DEF UsageInv, TypeOK

-----------------------------------------------------------------------------
(* One lemma per action (or per group of actions that write the same maps). *)

(* The service starts empty.                                                *)
LEMMA InitUsage == Init => UsageInv
<1> SUFFICES ASSUME Init PROVE UsageInv
  OBVIOUS
<1>1. TypeOK
  <2>1. bus \in Buses
    BY DEF Init, InitBus, Buses
  <2>2. sandboxes \in [Sandboxes -> SandboxStates] /\ executions \in [Executions -> ExecutionStates]
    BY EmptyRecords, ZenonT(60) DEF Init
  <2>3. sessions \in [Sessions -> SessionStates] /\ attached \in SUBSET Executions
    BY ServiceAssumption DEF Init, SessionStates, Times
  <2>4. runners \in [Executions -> Runners]
    BY DEF Init, Runners
  <2>5. requests \in [Requests -> RequestStates]
    BY ServiceAssumption DEF Init, RequestStates, IdleRequest, Times
  <2>6. cancels \in SUBSET Executions /\ clock \in Times
    BY ServiceAssumption DEF Init, Times
  <2>7. QED
    BY <2>1, <2>2, <2>3, <2>4, <2>5, <2>6, Zenon DEF TypeOK
<1>2. Usage(sandboxes, executions, runners, requests, cancels)
  BY DEF Init, Usage, Placed, Owned, OwnedBy, Handles, HandlesOf, Canceling, Called, Downloads, Terminating, IdleRequest,
         NoExecution, FreshExecution, NoSandbox, IsActive, IsFinal, FinalStatuses
<1>3. Named(sessions)
  BY DEF Init, Named
<1>4. QED
  BY <1>1, <1>2, <1>3 DEF UsageInv

(* CreateSandbox: nothing refers to an id that was not generated.           *)
LEMMA CreateSandboxStep ==
    ASSUME UsageInv, NEW s \in Sandboxes, CreateSandbox(s)
    PROVE  UsageInv'
<1>1. PICK t \in 0 .. clock :
        PruneState([sandboxes EXCEPT ![s] = [NoSandbox("ready") EXCEPT !.updated = clock]],
                   executions, RecordSandbox(bus, s, "ready"), {}, t)
  BY DEF CreateSandbox
<1> DEFINE sbs == [sandboxes EXCEPT ![s] = [NoSandbox("ready") EXCEPT !.updated = clock]]
<1>2. sbs \in [Sandboxes -> SandboxStates]
  BY Zenon DEF UsageInv, TypeOK, SandboxStates, SandboxStatuses, NoSandbox
<1>3. RecordSandbox(bus, s, "ready") \in Buses
  BY RecordType DEF UsageInv, TypeOK, SandboxStatuses
<1>4. Usage(sbs, executions, runners, requests, cancels)
  <2>1. sandboxes[s].status = "unused"
    BY Zenon DEF CreateSandbox
  <2>2. \A e \in Executions : IsActive(executions[e].status) => executions[e].sandbox # s
    BY <2>1 DEF UsageInv, Usage, Owned, OwnedBy
  <2>3. Owned(sbs, executions)
    BY <2>2 DEF UsageInv, TypeOK, Usage, Owned, Placed
  <2>4. Downloads(sbs, requests)
    BY <2>1 DEF UsageInv, TypeOK, Usage, Downloads, Placed, NoSandbox, InMap, SandboxStates
  <2>5. Terminating(sbs, requests)
    BY <2>1 DEF UsageInv, TypeOK, Usage, Terminating, Placed
  <2>6. QED
    BY <2>3, <2>4, <2>5 DEF UsageInv, Usage
<1>5. /\ runners' = runners /\ requests' = requests /\ cancels' = cancels /\ clock' = clock
      /\ runners' \in [Executions -> Runners] /\ requests' \in [Requests -> RequestStates]
      /\ cancels' \in SUBSET Executions
  BY DEF CreateSandbox, callers, UsageInv, TypeOK
<1> HIDE DEF sbs
<1>6. executions \in [Executions -> ExecutionStates]
  BY DEF UsageInv, TypeOK
<1>7. QED
  BY <1>1, <1>2, <1>3, <1>4, <1>5, <1>6, PruneStep, Zenon DEF sbs

(* The exit code of a cancellation is a number, and never 0.                *)
LEMMA CancelExitCodeType ==
    ASSUME NEW signal \in Int
    PROVE  CancelExitCode(signal) \in Int /\ CancelExitCode(signal) # 0
BY DEF CancelExitCode

(* Marking an execution canceled and ending it keep the record well formed  *)
(* and the fields that neither writes.                                      *)
LEMMA MarkedRecord ==
    ASSUME NEW ex \in ExecutionStates, NEW signal \in Int
    PROVE  LET m == MarkCanceled(ex, signal)
           IN  /\ m \in ExecutionStates
               /\ m.cancelRequested /\ m.signal = signal /\ m.status = ex.status
               /\ m.sandbox = ex.sandbox /\ m.cancel = ex.cancel /\ m.attach = ex.attach
BY Zenon DEF ExecutionStates, MarkCanceled

(* Ending an execution writes its status, exit code and time.               *)
LEMMA FinalizedRecord ==
    ASSUME NEW ex \in ExecutionStates, NEW status \in FinalStatuses, NEW code \in Int,
           NEW t \in Times
    PROVE  LET f == Finalize(ex, status, code, t)
           IN  /\ f \in ExecutionStates
               /\ f.status = status /\ f.exitCode = code /\ f.finished = t
               /\ f.sandbox = ex.sandbox /\ f.cancel = ex.cancel /\ f.attach = ex.attach
               /\ f.cancelRequested = ex.cancelRequested /\ f.signal = ex.signal
BY Zenon DEF ExecutionStates, Finalize, ExecutionStatuses

(* TerminateBegin: the executions it leaves running are marked, and it has  *)
(* their cancel functions.                                                  *)
LEMMA TerminateBeginStep ==
    ASSUME UsageInv, NEW r \in Requests, NEW s \in Sandboxes, TerminateBegin(r, s)
    PROVE  UsageInv'
<1> DEFINE live == {e \in Executions : executions[e].sandbox = s /\ IsActive(executions[e].status)}
           queued == {e \in live : executions[e].status = "queued"}
           marked == [e \in Executions |->
                        IF e \in live
                        THEN MarkCanceled(executions[e], 15)
                        ELSE executions[e]]
           ended == [e \in Executions |->
                       IF e \in queued THEN Finalize(marked[e], "canceled", CancelExitCode(15), clock)
                       ELSE marked[e]]
           stopping == IF sandboxes[s].status = "ready"
                       THEN RecordSandbox(bus, s, "stopping") ELSE bus
<1>1. /\ requests[r].pc = "idle"
      /\ sandboxes[s].status \in {"ready", "stopping"}
      /\ sandboxes' = IF sandboxes[s].status = "ready"
                      THEN [sandboxes EXCEPT ![s].status = "stopping", ![s].updated = clock]
                      ELSE sandboxes
      /\ executions' = ended
      /\ bus' = RecordExit(RecordExecution(stopping, marked, live, "message"), ended, queued)
      /\ sessions' = ClearSessions(queued)
      /\ attached' = attached \ queued
      /\ requests' = [requests EXCEPT ![r] =
                        [pc |-> "cancel", sandbox |-> s, now |-> 0,
                         cancels |-> {e \in live \ queued : executions[e].cancel}]]
      /\ runners' = runners /\ cancels' = cancels /\ clock' = clock
  BY DEF TerminateBegin
<1>2. TypeOK /\ Usage(sandboxes, executions, runners, requests, cancels)
  BY DEF UsageInv
<1>3. marked \in [Executions -> ExecutionStates]
  <2>1. ASSUME NEW e \in Executions
        PROVE  MarkCanceled(executions[e], 15) \in ExecutionStates
    BY <1>2, MarkedRecord, SMTT(30) DEF TypeOK
  <2> HIDE DEF live
  <2>2. QED
    BY <1>2, <2>1 DEF TypeOK
<1>4. ended \in [Executions -> ExecutionStates]
  <2>1. CancelExitCode(15) \in Int
    BY CancelExitCodeType
  <2>2. clock \in Times /\ "canceled" \in FinalStatuses
    BY <1>2, Zenon DEF TypeOK, FinalStatuses
  <2> HIDE DEF marked
  <2>3. QED
    BY <1>3, <2>1, <2>2, FinalizedRecord
<1>5. \A e \in Executions :
        /\ executions'[e].sandbox = executions[e].sandbox
        /\ executions'[e].cancel = executions[e].cancel
        /\ executions'[e].attach = executions[e].attach
        /\ e \in queued => executions'[e].status = "canceled" /\ executions'[e].cancelRequested
        /\ e \in live \ queued =>
             /\ executions[e].status = "running" /\ executions'[e].status = "running"
             /\ executions'[e].cancelRequested
        /\ e \notin live => executions'[e] = executions[e]
  <2> SUFFICES ASSUME NEW e \in Executions
               PROVE  /\ ended[e].sandbox = executions[e].sandbox
                      /\ ended[e].cancel = executions[e].cancel
                      /\ ended[e].attach = executions[e].attach
                      /\ e \in queued => ended[e].status = "canceled" /\ ended[e].cancelRequested
                      /\ e \in live \ queued =>
                           /\ executions[e].status = "running" /\ ended[e].status = "running"
                           /\ ended[e].cancelRequested
                      /\ e \notin live => ended[e] = executions[e]
    BY <1>1, Zenon
  <2>1. executions[e] \in ExecutionStates /\ clock \in Times
        /\ 15 \in Int /\ CancelExitCode(15) \in Int /\ "canceled" \in FinalStatuses
    BY <1>2, CancelExitCodeType DEF TypeOK, FinalStatuses
  <2>2. CASE e \notin live
    BY <2>2, Zenon
  <2>3. CASE e \in live \ queued
    <3>1. ended[e] = MarkCanceled(executions[e], 15) /\ executions[e].status = "running"
      BY <2>3, ZenonT(60) DEF IsActive
    <3>2. LET m == MarkCanceled(executions[e], 15)
          IN  /\ m.cancelRequested /\ m.status = executions[e].status
              /\ m.sandbox = executions[e].sandbox
              /\ m.cancel = executions[e].cancel /\ m.attach = executions[e].attach
      BY <2>1, MarkedRecord, ZenonT(60)
    <3> HIDE DEF live, queued, ended
    <3>3. QED
      BY <2>3, <3>1, <3>2, ZenonT(60)
  <2>4. CASE e \in queued
    <3>1. ended[e] = Finalize(MarkCanceled(executions[e], 15), "canceled", CancelExitCode(15), clock)
      BY <2>4, Zenon
    <3> DEFINE m == MarkCanceled(executions[e], 15)
               f == Finalize(m, "canceled", CancelExitCode(15), clock)
    <3>2. /\ m \in ExecutionStates /\ m.cancelRequested
          /\ m.sandbox = executions[e].sandbox
          /\ m.cancel = executions[e].cancel /\ m.attach = executions[e].attach
      BY <2>1, MarkedRecord, ZenonT(60)
    <3>3. ended[e] = f /\ e \in live
      BY <2>4, <3>1
    <3> HIDE DEF live, queued, ended, m
    <3>4. /\ f.status = "canceled" /\ f.cancelRequested = m.cancelRequested
          /\ f.sandbox = m.sandbox /\ f.cancel = m.cancel /\ f.attach = m.attach
      BY <3>2, Zenon DEF Finalize, ExecutionStates
    <3> HIDE DEF f
    <3>5. QED
      BY <2>4, <3>2, <3>3, <3>4, Zenon
  <2>5. QED
    BY <2>2, <2>3, <2>4, Zenon
<1>6. bus' \in Buses
  <2>1. stopping \in Buses
    BY <1>2, RecordType DEF TypeOK, SandboxStatuses
  <2>2. /\ live \in SUBSET Executions /\ queued \in SUBSET Executions
        /\ \A e \in live : marked[e].status \in ExecutionStatuses
        /\ \A e \in queued : ended[e].status \in ExecutionStatuses
    <3>1. live \in SUBSET Executions /\ queued \in SUBSET Executions
      OBVIOUS
    <3>2. \A e \in live : marked[e].status = executions[e].status
      BY <1>2, MarkedRecord, SMTT(30) DEF TypeOK
    <3>3. \A e \in live : executions[e].status \in ExecutionStatuses
      BY Zenon DEF IsActive, ExecutionStatuses
    <3>4. \A e \in queued : ended[e].status = "canceled"
      BY <1>1, <1>5, Zenon
    <3>5. QED
      BY <3>1, <3>2, <3>3, <3>4, Zenon DEF ExecutionStatuses, FinalStatuses
  <2> HIDE DEF stopping, live, queued, marked, ended
  <2>3. RecordExecution(stopping, marked, live, "message") \in Buses
    BY <1>3, <2>1, <2>2, RecordType, ZenonT(60) DEF EventKinds
  <2>4. QED
    BY <1>1, <1>4, <2>2, <2>3, RecordType, SMTT(30) DEF EventKinds
<1>7. TypeOK'
  <2>1. sandboxes' \in [Sandboxes -> SandboxStates]
    BY <1>1, <1>2, ZenonT(60) DEF TypeOK, SandboxStates, SandboxStatuses
  <2>2. requests' \in [Requests -> RequestStates]
    <3> DEFINE C == {e \in live \ queued : executions[e].cancel}
               new == [pc |-> "cancel", sandbox |-> s, now |-> 0, cancels |-> C]
    <3>1. C \in SUBSET Executions /\ 0 \in Times
      BY ServiceAssumption DEF Times
    <3>2. requests' = [requests EXCEPT ![r] = new]
      BY <1>1
    <3> HIDE DEF C
    <3>3. new \in RequestStates
      BY <3>1 DEF RequestStates
    <3> HIDE DEF new
    <3>4. QED
      BY <1>2, <3>2, <3>3 DEF TypeOK
  <2>3. sessions' \in [Sessions -> SessionStates] /\ attached' \in SUBSET Executions
    BY <1>1, <1>2, ClearSessionsType, SMTT(30) DEF TypeOK
  <2>4. executions' \in [Executions -> ExecutionStates]
    BY <1>1, <1>4
  <2>5. QED
    BY <1>1, <1>2, <1>6, <2>1, <2>2, <2>3, <2>4 DEF TypeOK
<1>8. \A q \in Requests : q # r => requests'[q] = requests[q]
  BY <1>1, <1>2, SMTT(30) DEF TypeOK
<1>9. requests'[r].pc = "cancel" /\ requests'[r].sandbox = s
      /\ requests'[r].cancels = {e \in live \ queued : executions[e].cancel}
  BY <1>1, <1>2 DEF TypeOK
<1>10. \A z \in Sandboxes : /\ sandboxes'[z].active = sandboxes[z].active
                            /\ sandboxes'[z].downloading = sandboxes[z].downloading
                            /\ z # s => sandboxes'[z] = sandboxes[z]
       /\ sandboxes'[s].status = "stopping"
  BY <1>1, <1>2, Zenon DEF TypeOK, SandboxStates
<1>11. Placed(executions', requests')
  BY <1>2, <1>5, <1>8, <1>9, Zenon DEF Usage, Placed, IsActive
<1>12. Owned(sandboxes', executions')
  <2> SUFFICES ASSUME NEW e \in Executions, IsActive(executions'[e].status)
               PROVE  OwnedBy(sandboxes'[executions'[e].sandbox], executions'[e], e)
    BY ZenonT(60) DEF Owned
  <2>1. IsActive(executions[e].status) /\ executions[e].sandbox \in Sandboxes
    BY <1>2, <1>5 DEF Usage, Placed, IsActive
  <2> HIDE DEF queued, marked, ended
  <2>2. CASE executions[e].sandbox = s
    <3>1. OwnedBy(sandboxes[s], executions[e], e)
      BY <1>2, <2>1, <2>2, Zenon DEF Usage, Owned
    <3>2. e \in live \ queued
      BY <1>5, <2>1, <2>2 DEF IsActive
    <3>3. /\ executions'[e].sandbox = s /\ executions'[e].status = "running"
          /\ executions'[e].cancelRequested
      BY <1>5, <2>2, <3>2, Zenon
    <3>4. QED
      BY <1>10, <3>1, <3>3, ZenonT(60) DEF OwnedBy
  <2>3. CASE executions[e].sandbox # s
    <3>1. executions'[e] = executions[e]
      BY <1>5, <2>3
    <3>2. QED
      BY <1>2, <1>10, <2>1, <2>3, <3>1, ZenonT(60) DEF Usage, Owned
  <2>4. QED
    BY <2>2, <2>3
<1>13. Handles(executions', runners')
  <2>1. \A e \in Executions : (executions'[e].status = "running") <=> (executions[e].status = "running")
    BY <1>5, Zenon
  <2>2. \A e \in Executions : HandlesOf(executions[e], runners[e])
    BY <1>2, Zenon DEF Usage, Handles
  <2>3. \A e \in Executions : /\ executions'[e].cancel = executions[e].cancel
                              /\ executions'[e].attach = executions[e].attach
    BY <1>5
  <2>4. ASSUME NEW e \in Executions
        PROVE  HandlesOf(executions'[e], runners'[e])
    <3>1. runners' = runners
      BY <1>1, ZenonT(60)
    <3> HIDE DEF ended
    <3>2. QED
      BY <2>1, <2>2, <2>3, <3>1, Zenon DEF HandlesOf
  <2>5. QED
    BY <2>4, Zenon DEF Handles
<1>14. Canceling(executions', runners', requests', cancels')
  <2>1. requests[r].cancels = {}
    BY <1>1, <1>2 DEF Usage, Canceling
  <2>2. \A e \in Executions : e \notin live =>
          (Called(runners', requests', cancels', e) <=> Called(runners, requests, cancels, e))
    BY <1>1, <1>8, <1>9, <2>1, Zenon DEF Called
  <2>3. \A e \in live \ queued : executions[e].cancel
    BY <1>2, <1>5, Zenon DEF Usage, Handles, HandlesOf
  <2>4. \A e \in live \ queued : Called(runners', requests', cancels', e)
    BY <1>9, <2>3, Zenon DEF Called
  <2>5. \A q \in Requests : requests'[q].pc # "cancel" => requests'[q].cancels = {}
    BY <1>2, <1>8, <1>9, Zenon DEF Usage, Canceling
  <2>6. ASSUME NEW e \in Executions
        PROVE  /\ executions'[e].status \in {"unused", "queued"} =>
                    ~Called(runners', requests', cancels', e)
               /\ executions'[e].status = "queued" => ~executions'[e].cancelRequested
               /\ executions'[e].status = "running" =>
                    (executions'[e].cancelRequested <=> Called(runners', requests', cancels', e))
               /\ IsFinal(executions'[e].status) =>
                    (executions'[e].cancelRequested <=> executions'[e].status = "canceled")
    <3>1. CASE e \notin live
      BY <1>2, <1>5, <2>2, <3>1, ZenonT(60) DEF Usage, Canceling
    <3>2. CASE e \in queued
      BY <1>5, <3>2, Zenon
    <3>3. CASE e \in live \ queued
      BY <1>5, <2>4, <3>3, Zenon DEF IsFinal, FinalStatuses
    <3>4. QED
      BY <3>1, <3>2, <3>3, Zenon
  <2>7. QED
    BY <2>5, <2>6, SMTT(30) DEF Canceling
<1>15. Downloads(sandboxes', requests')
  <2>1. \A z \in Sandboxes : /\ sandboxes'[z].status = "unused" => sandboxes[z].status = "unused"
                             /\ InMap(sandboxes'[z]) <=> InMap(sandboxes[z])
    BY <1>1, <1>10, Zenon DEF InMap
  <2>2. \A q \in Requests : requests'[q].pc = "download" =>
          requests'[q] = requests[q] /\ requests[q].sandbox \in Sandboxes
    BY <1>2, <1>8, <1>9, Zenon DEF Usage, Placed
  <2>3. \A q \in Requests : requests[q].pc = "download" => requests'[q] = requests[q]
    BY <1>1, <1>8, Zenon
  <2>4. QED
    <3>1. ASSUME NEW q \in Requests, requests'[q].pc = "download"
          PROVE  /\ sandboxes'[requests'[q].sandbox].status # "unused"
                 /\ InMap(sandboxes'[requests'[q].sandbox]) =>
                      sandboxes'[requests'[q].sandbox].downloading
      <4>1. requests'[q] = requests[q] /\ requests[q].pc = "download"
            /\ requests[q].sandbox \in Sandboxes
        BY <2>2, <3>1, Zenon
      <4>2. QED
        BY <1>2, <1>10, <2>1, <4>1, ZenonT(60) DEF Usage, Downloads
    <3>2. ASSUME NEW q \in Requests, NEW t \in Requests,
                 requests'[q].pc = "download", requests'[t].pc = "download",
                 requests'[t].sandbox = requests'[q].sandbox
          PROVE  t = q
      <4>1. requests'[q] = requests[q] /\ requests'[t] = requests[t]
        BY <2>2, <3>2, Zenon
      <4>2. \A a, b \in Requests :
              (/\ requests[a].pc = "download"
               /\ requests[b].pc = "download"
               /\ requests[b].sandbox = requests[a].sandbox) => b = a
        BY <1>2, OneDownload, Zenon DEF Usage
      <4>3. QED
        BY <3>2, <4>1, <4>2, Zenon
    <3>3. ASSUME NEW z \in Sandboxes, sandboxes'[z].downloading
          PROVE  /\ InMap(sandboxes'[z])
                 /\ \E q \in Requests : requests'[q].pc = "download" /\ requests'[q].sandbox = z
      <4>1. InMap(sandboxes[z]) /\ \E q \in Requests : requests[q].pc = "download" /\ requests[q].sandbox = z
        BY <1>2, <1>10, <3>3, Zenon DEF Usage, Downloads
      <4>2. QED
        BY <2>1, <2>3, <4>1, Zenon
    <3>4. QED
      BY <3>1, <3>2, <3>3, Zenon DEF Downloads
<1>16. Named(sessions')
  BY <1>1, <1>2, ClearSessionsType, Zenon DEF UsageInv, TypeOK, Named
<1>17. Terminating(sandboxes', requests')
  <2> SUFFICES ASSUME NEW q \in Requests, requests'[q].pc \in {"cancel", "backend", "commit"}
               PROVE  sandboxes'[requests'[q].sandbox].status \in {"stopping", "stopped", "dropped"}
    BY Zenon DEF Terminating
  <2>1. CASE q = r
    BY <1>9, <1>10, <2>1, Zenon
  <2>2. CASE q # r
    <3>1. requests'[q] = requests[q] /\ requests[q].pc # "idle"
      BY <1>8, <2>2, Zenon
    <3>2. requests[q].sandbox \in Sandboxes
      BY <1>2, <3>1, Zenon DEF Usage, Placed
    <3>3. QED
      BY <1>2, <1>10, <3>1, <3>2, Zenon DEF Usage, Terminating
  <2>3. QED
    BY <2>1, <2>2, Zenon
<1>18. QED
  BY <1>7, <1>11, <1>12, <1>13, <1>14, <1>15, <1>16, <1>17, ZenonT(60) DEF UsageInv, Usage

(* A call moves on without touching the maps.                               *)
LEMMA RequestMove ==
    ASSUME NEW rq \in [Requests -> RequestStates], NEW r \in Requests, NEW q \in RequestStates,
           rq[r].pc # "download", q.pc \notin {"cancel", "download"}, q.cancels = {},
           q.pc # "idle" => q.sandbox \in Sandboxes
    PROVE  LET moved == [rq EXCEPT ![r] = q]
           IN  /\ moved \in [Requests -> RequestStates]
               /\ \A exs : Placed(exs, rq) => Placed(exs, moved)
               /\ \A sbs : Downloads(sbs, rq) => Downloads(sbs, moved)
               /\ \A sbs : /\ Terminating(sbs, rq)
                           /\ q.pc # "idle" => sbs[q.sandbox].status \in {"stopping", "stopped", "dropped"}
                           => Terminating(sbs, moved)
               /\ rq[r].pc # "cancel" =>
                    \A exs, rn, cn : Canceling(exs, rn, rq, cn) => Canceling(exs, rn, moved, cn)
<1> DEFINE moved == [rq EXCEPT ![r] = q]
<1>1. moved \in [Requests -> RequestStates] /\ moved[r] = q
      /\ \A p \in Requests : p # r => moved[p] = rq[p]
  OBVIOUS
<1> HIDE DEF moved
<1>2. ASSUME NEW exs, Placed(exs, rq) PROVE Placed(exs, moved)
  BY <1>1, <1>2, Zenon DEF Placed
<1>3. ASSUME NEW sbs, Downloads(sbs, rq) PROVE Downloads(sbs, moved)
  <2>1. \A p \in Requests : moved[p].pc = "download" <=> rq[p].pc = "download"
    BY <1>1
  <2>2. \A p \in Requests : rq[p].pc = "download" => moved[p] = rq[p]
    BY <1>1, Zenon
  <2>3. QED
    BY <1>3, <2>1, <2>2 DEF Downloads
<1>4. ASSUME rq[r].pc # "cancel", NEW exs, NEW rn, NEW cn, Canceling(exs, rn, rq, cn)
      PROVE  Canceling(exs, rn, moved, cn)
  <2>1. \A e : Called(rn, moved, cn, e) <=> Called(rn, rq, cn, e)
    BY <1>1, <1>4, Zenon DEF Called
  <2>2. \A p \in Requests : moved[p].pc # "cancel" => moved[p].cancels = {}
    BY <1>1, <1>4, Zenon DEF Canceling
  <2>3. QED
    BY <1>4, <2>1, <2>2, Zenon DEF Canceling
<1>5. ASSUME NEW sbs, Terminating(sbs, rq),
             q.pc # "idle" => sbs[q.sandbox].status \in {"stopping", "stopped", "dropped"}
      PROVE  Terminating(sbs, moved)
  BY <1>1, <1>5, Zenon DEF Terminating
<1>6. QED
  BY <1>1, <1>2, <1>3, <1>4, <1>5, Zenon DEF moved

(* TerminateStopped and TerminateBackend only move the call on.             *)
LEMMA TerminateMoveStep ==
    ASSUME UsageInv, NEW r \in Requests,
           (\E s \in Sandboxes : TerminateStopped(r, s)) \/ (\E ok \in BOOLEAN : TerminateBackend(r, ok))
    PROVE  UsageInv'
<1>1. /\ UNCHANGED <<maps, interactive, runners, cancels, clock>>
      /\ requests[r].pc \in {"idle", "backend"}
  BY DEF TerminateStopped, TerminateBackend
<1>2. UNCHANGED <<sandboxes, executions, bus, sessions, attached, runners, cancels, clock>>
  BY <1>1 DEF maps, interactive
<1>3. requests[r] \in RequestStates /\ clock \in Times /\ 0 \in Times
  BY ServiceAssumption, SMTT(30) DEF UsageInv, TypeOK, Times
<1>4. /\ requests[r].cancels = {}
      /\ requests[r].pc = "backend" =>
           /\ requests[r].sandbox \in Sandboxes
           /\ sandboxes[requests[r].sandbox].status \in {"stopping", "stopped", "dropped"}
  BY <1>1, Zenon DEF UsageInv, Usage, Canceling, Placed, Terminating
<1>5. PICK q \in RequestStates :
        /\ requests' = [requests EXCEPT ![r] = q]
        /\ q.pc \notin {"cancel", "download"} /\ q.cancels = {}
        /\ q.pc # "idle" => /\ q.sandbox \in Sandboxes
                            /\ sandboxes[q.sandbox].status \in {"stopping", "stopped", "dropped"}
  <2>1. CASE \E s \in Sandboxes : TerminateStopped(r, s)
    <3>1. PICK s \in Sandboxes : TerminateStopped(r, s)
      BY <2>1, Zenon
    <3> DEFINE q == [pc |-> "commit", sandbox |-> s, cancels |-> {}, now |-> clock]
    <3>2. /\ q \in RequestStates /\ q.pc = "commit" /\ q.cancels = {} /\ q.sandbox \in Sandboxes
          /\ sandboxes[q.sandbox].status = "stopped"
      BY <1>3, <3>1, Zenon DEF RequestStates, TerminateStopped
    <3>3. requests' = [requests EXCEPT ![r] = q]
      BY <3>1, Zenon DEF TerminateStopped
    <3>4. QED
      BY <3>2, <3>3, Zenon
  <2>2. CASE TerminateBackend(r, TRUE)
    <3> DEFINE q == [requests[r] EXCEPT !.pc = "commit", !.now = clock]
    <3>1. /\ q \in RequestStates /\ q.pc = "commit" /\ q.cancels = {} /\ q.sandbox \in Sandboxes
          /\ sandboxes[q.sandbox].status \in {"stopping", "stopped", "dropped"}
      BY <1>3, <1>4, <2>2, Zenon DEF RequestStates, TerminateBackend
    <3>2. requests' = [requests EXCEPT ![r] = q]
      BY <2>2 DEF TerminateBackend
    <3>3. QED
      BY <3>1, <3>2, Zenon
  <2>3. CASE TerminateBackend(r, FALSE)
    <3>1. IdleRequest \in RequestStates /\ IdleRequest.pc = "idle" /\ IdleRequest.cancels = {}
      BY <1>3 DEF RequestStates, IdleRequest
    <3>2. requests' = [requests EXCEPT ![r] = IdleRequest]
      BY <2>3 DEF TerminateBackend
    <3>3. QED
      BY <3>1, <3>2, ZenonT(60)
  <2>4. QED
    BY <2>1, <2>2, <2>3, Zenon
<1>6. requests \in [Requests -> RequestStates]
  BY DEF UsageInv, TypeOK
<1>7. /\ requests' \in [Requests -> RequestStates]
      /\ Placed(executions, requests')
      /\ Downloads(sandboxes, requests')
      /\ Terminating(sandboxes, requests')
      /\ Canceling(executions, runners, requests', cancels)
  BY <1>1, <1>5, <1>6, RequestMove, Zenon DEF UsageInv, Usage
<1>8. QED
  BY <1>2, <1>7 DEF UsageInv, TypeOK, Usage, Named

(* TerminateCancel: a call that is about to cancel becomes a cancellation.  *)
LEMMA TerminateCancelStep ==
    ASSUME UsageInv, NEW r \in Requests, TerminateCancel(r)
    PROVE  UsageInv'
<1> DEFINE C == requests[r].cancels
           pc == IF PersistentBackend THEN "backend" ELSE "commit"
<1>1. TypeOK /\ Named(sessions) /\ Usage(sandboxes, executions, runners, requests, cancels)
  BY DEF UsageInv
<1>2. /\ requests[r].pc = "cancel"
      /\ runners' = [e \in Executions |->
                       IF e \in C THEN [runners[e] EXCEPT !.canceled = TRUE] ELSE runners[e]]
      /\ requests' = [requests EXCEPT ![r].cancels = {}, ![r].now = clock, ![r].pc = pc]
      /\ UNCHANGED <<sandboxes, executions, bus, sessions, attached, cancels, clock>>
  BY DEF TerminateCancel, maps, interactive
<1>3. /\ requests' \in [Requests -> RequestStates]
      /\ \A q \in Requests : q # r => requests'[q] = requests[q]
      /\ requests'[r].cancels = {} /\ requests'[r].pc \in {"backend", "commit"}
      /\ requests'[r].sandbox = requests[r].sandbox
  BY <1>1, <1>2 DEF TypeOK, RequestStates
<1>4. /\ runners' \in [Executions -> Runners]
      /\ \A e \in Executions : /\ runners'[e].pc = runners[e].pc
                               /\ runners'[e].canceled <=> runners[e].canceled \/ e \in C
  <2>1. ASSUME NEW e \in Executions
        PROVE  /\ [runners[e] EXCEPT !.canceled = TRUE] \in Runners
               /\ [runners[e] EXCEPT !.canceled = TRUE].pc = runners[e].pc
               /\ [runners[e] EXCEPT !.canceled = TRUE].canceled
    BY <1>1, Zenon DEF TypeOK, Runners
  <2> HIDE DEF C
  <2>2. QED
    BY <1>1, <1>2, <2>1 DEF TypeOK
<1>5. TypeOK'
  BY <1>1, <1>2, <1>3, <1>4 DEF TypeOK
<1>6. Placed(executions', requests')
  BY <1>1, <1>2, <1>3 DEF Usage, Placed
<1>7. Handles(executions', runners')
  BY <1>1, <1>2, <1>4 DEF Usage, Handles, HandlesOf
<1>8. Canceling(executions', runners', requests', cancels')
  <2>1. \A e \in Executions : Called(runners', requests', cancels', e) <=> Called(runners, requests, cancels, e)
    <3> SUFFICES ASSUME NEW e \in Executions
                 PROVE  Called(runners', requests', cancels', e) <=> Called(runners, requests, cancels, e)
      OBVIOUS
    <3>1. CASE e \in C
      BY <1>2, <1>4, <3>1 DEF Called
    <3>2. CASE e \notin C
      BY <1>2, <1>3, <1>4, <3>2, Zenon DEF Called
    <3>3. QED
      BY <3>1, <3>2, Zenon
  <2>2. \A q \in Requests : requests'[q].pc # "cancel" => requests'[q].cancels = {}
    BY <1>1, <1>3, ZenonT(60) DEF Usage, Canceling
  <2>3. QED
    BY <1>1, <1>2, <2>1, <2>2, Zenon DEF Usage, Canceling
<1>9. Downloads(sandboxes', requests')
  <2>1. \A q \in Requests : requests'[q].pc = "download" <=> requests[q].pc = "download"
    BY <1>2, <1>3
  <2>2. \A q \in Requests : requests[q].pc = "download" => requests'[q] = requests[q]
    BY <1>2, <1>3
  <2>3. Downloads(sandboxes, requests)
    BY <1>1 DEF Usage
  <2>4. sandboxes' = sandboxes
    BY <1>2
  <2>5. QED
    BY <2>1, <2>2, <2>3, <2>4 DEF Downloads
<1>10. Terminating(sandboxes', requests')
  BY <1>1, <1>2, <1>3 DEF Usage, Terminating
<1>11. QED
  BY <1>1, <1>2, <1>5, <1>6, <1>7, <1>8, <1>9, <1>10, SMTT(30) DEF UsageInv, Usage, Named

(* TerminateCommit: a sandbox stops; what still runs in it has been told to *)
(* stop before.                                                             *)
LEMMA TerminateCommitStep ==
    ASSUME UsageInv, NEW r \in Requests, TerminateCommit(r)
    PROVE  UsageInv'
<1> DEFINE s == requests[r].sandbox
           stops == sandboxes[s].status \in {"ready", "stopping"}
           sbs == IF stops
                  THEN [sandboxes EXCEPT ![s].status = "stopped", ![s].updated = clock]
                  ELSE sandboxes
           b == IF stops THEN CloseDone(RecordSandbox(bus, s, "stopped"), {s}) ELSE bus
<1>1. TypeOK /\ Usage(sandboxes, executions, runners, requests, cancels)
  BY DEF UsageInv
<1>2. /\ requests[r].pc = "commit"
      /\ requests' = [requests EXCEPT ![r] = IdleRequest]
      /\ PruneState(sbs, executions, b, {}, requests[r].now)
      /\ UNCHANGED <<runners, cancels, clock>>
  BY Zenon DEF TerminateCommit
<1>3. s \in Sandboxes /\ sandboxes[s].status \in {"stopping", "stopped", "dropped"}
  BY <1>1, <1>2, ZenonT(60) DEF Usage, Placed, Terminating
<1>4. /\ sbs \in [Sandboxes -> SandboxStates]
      /\ \A z \in Sandboxes : /\ sbs[z].active = sandboxes[z].active
                              /\ sbs[z].downloading = sandboxes[z].downloading
                              /\ z # s => sbs[z] = sandboxes[z]
                              /\ sbs[z].status = "unused" <=> sandboxes[z].status = "unused"
                              /\ InMap(sbs[z]) <=> InMap(sandboxes[z])
      /\ sbs[s].status \in {"stopped", "dropped"}
  BY <1>1, <1>3, SMTT(30) DEF TypeOK, SandboxStates, SandboxStatuses, InMap
<1>5. b \in Buses
  <2>1. RecordSandbox(bus, s, "stopped") \in Buses /\ {s} \in SUBSET Topics
    BY <1>1, <1>3, RecordType, SMTT(30) DEF TypeOK, SandboxStatuses, Topics
  <2>2. QED
    BY <1>1, <2>1, CloseType, Zenon DEF TypeOK
<1>6. IdleRequest \in RequestStates /\ IdleRequest.pc = "idle" /\ IdleRequest.cancels = {}
  BY ServiceAssumption DEF RequestStates, IdleRequest, Times
<1>7. /\ requests' \in [Requests -> RequestStates]
      /\ Placed(executions, requests')
      /\ Downloads(sandboxes, requests')
      /\ Terminating(sandboxes, requests')
      /\ Canceling(executions, runners, requests', cancels)
  <2>1. requests \in [Requests -> RequestStates]
    BY <1>1, SMTT(30) DEF TypeOK
  <2>2. QED
    BY <1>1, <1>2, <1>6, <2>1, RequestMove, Zenon DEF Usage
<1> HIDE DEF sbs, b
<1>8. Owned(sbs, executions)
  <2> SUFFICES ASSUME NEW e \in Executions, IsActive(executions[e].status)
               PROVE  OwnedBy(sbs[executions[e].sandbox], executions[e], e)
    BY DEF Owned
  <2>1. executions[e].sandbox \in Sandboxes
    BY <1>1, Zenon DEF Usage, Placed
  <2>2. CASE executions[e].sandbox # s
    BY <1>1, <1>4, <2>1, <2>2, Zenon DEF Usage, Owned
  <2>3. CASE executions[e].sandbox = s
    <3>1. OwnedBy(sandboxes[s], executions[e], e)
      BY <1>1, <2>3 DEF Usage, Owned
    <3>2. InMap(sandboxes[s])
      BY <3>1, Zenon DEF OwnedBy, InMap
    <3>3. sbs[s].status = "stopped"
      BY <1>3, <1>4, <3>2, Zenon DEF InMap
    <3>4. QED
      BY <1>3, <1>4, <2>3, <3>1, <3>3, ZenonT(60) DEF OwnedBy
  <2>4. QED
    BY <2>2, <2>3
<1>9. Downloads(sbs, requests')
  <2>1. \A q \in Requests : requests'[q].pc = "download" => requests'[q].sandbox \in Sandboxes
    BY <1>7 DEF Placed
  <2>2. QED
    BY <1>4, <1>7, <2>1, ZenonT(60) DEF Downloads
<1>10. Usage(sbs, executions, runners', requests', cancels')
  <2>1. Terminating(sbs, requests')
    BY <1>4, <1>7, Zenon DEF Placed, Terminating
  <2>2. QED
    BY <1>1, <1>2, <1>7, <1>8, <1>9, <2>1 DEF Usage
<1>11. /\ executions \in [Executions -> ExecutionStates] /\ runners' \in [Executions -> Runners]
       /\ cancels' \in SUBSET Executions /\ clock' = clock
  BY <1>1, <1>2 DEF TypeOK
<1>12. QED
  BY <1>2, <1>4, <1>5, <1>7, <1>10, <1>11, PruneStep, Zenon

(* An idle sandbox has no unfinished execution: ActiveExecutionID is exact  *)
(* while it names an unfinished one.                                        *)
LEMMA IdleSandbox ==
    ASSUME UsageInv, NEW s \in Sandboxes, ~SandboxBusy(s)
    PROVE  \A e \in Executions : IsActive(executions[e].status) => executions[e].sandbox # s
<1> SUFFICES ASSUME NEW e \in Executions, IsActive(executions[e].status), executions[e].sandbox = s
             PROVE  FALSE
  BY Zenon
<1>1. sandboxes[s].active = e
  BY Zenon DEF UsageInv, Usage, Owned, OwnedBy
<1>2. e # NoId
  BY IdsAssumption
<1>3. QED
  BY <1>1, <1>2 DEF SandboxBusy

(* DownloadBegin: the sandbox is idle and becomes used by the download.     *)
LEMMA DownloadBeginStep ==
    ASSUME UsageInv, NEW r \in Requests, NEW s \in Sandboxes, DownloadBegin(r, s)
    PROVE  UsageInv'
<1> DEFINE q == [pc |-> "download", sandbox |-> s, cancels |-> {}, now |-> 0]
<1>1. TypeOK /\ Named(sessions) /\ Usage(sandboxes, executions, runners, requests, cancels)
  BY DEF UsageInv
<1>2. /\ requests[r].pc = "idle" /\ sandboxes[s].status = "ready" /\ ~sandboxes[s].downloading
      /\ sandboxes' = [sandboxes EXCEPT ![s].downloading = TRUE]
      /\ requests' = [requests EXCEPT ![r] = q]
      /\ UNCHANGED <<executions, bus, sessions, attached, runners, cancels, clock>>
  BY ZenonT(60) DEF DownloadBegin, interactive
<1>3. q \in RequestStates /\ q.pc = "download" /\ q.sandbox = s /\ q.cancels = {}
  BY ServiceAssumption DEF RequestStates, Times
<1> HIDE DEF q
<1>4. /\ requests' \in [Requests -> RequestStates]
      /\ requests'[r] = q
      /\ \A p \in Requests : p # r => requests'[p] = requests[p]
  BY <1>1, <1>2, <1>3 DEF TypeOK
<1>5. /\ sandboxes' \in [Sandboxes -> SandboxStates]
      /\ sandboxes'[s].status = "ready" /\ sandboxes'[s].downloading
      /\ \A z \in Sandboxes : /\ z # s => sandboxes'[z] = sandboxes[z]
                              /\ sandboxes'[z].status = sandboxes[z].status
  BY <1>1, <1>2, ZenonT(60) DEF TypeOK, SandboxStates
<1>6. \A e \in Executions : IsActive(executions[e].status) => executions[e].sandbox # s
  BY IdleSandbox DEF DownloadBegin
<1>7. TypeOK'
  BY <1>1, <1>2, <1>4, <1>5 DEF TypeOK
<1>8. Placed(executions', requests')
  BY <1>1, <1>2, <1>3, <1>4 DEF Usage, Placed
<1>9. Owned(sandboxes', executions')
  BY <1>1, <1>2, <1>5, <1>6 DEF Usage, Owned, Placed
<1>10. Handles(executions', runners')
  BY <1>1, <1>2 DEF Usage
<1>11. Canceling(executions', runners', requests', cancels')
  <2>1. \A e : Called(runners', requests', cancels', e) <=> Called(runners, requests, cancels, e)
    BY <1>2, <1>3, <1>4 DEF Called
  <2>2. \A p \in Requests : requests'[p].pc # "cancel" => requests'[p].cancels = {}
    BY <1>1, <1>3, <1>4, ZenonT(60) DEF Usage, Canceling
  <2>3. QED
    BY <1>1, <1>2, <2>1, <2>2, Zenon DEF Usage, Canceling
<1>12. Downloads(sandboxes', requests')
  <2>1. \A p \in Requests : requests[p].pc = "download" =>
          requests[p].sandbox # s /\ requests[p].sandbox \in Sandboxes
    BY <1>1, <1>2, Zenon DEF Usage, Downloads, Placed, InMap
  <2>2. \A p \in Requests : requests'[p].pc = "download" =>
          /\ sandboxes'[requests'[p].sandbox].status # "unused"
          /\ InMap(sandboxes'[requests'[p].sandbox]) => sandboxes'[requests'[p].sandbox].downloading
    <3> SUFFICES ASSUME NEW p \in Requests, requests'[p].pc = "download"
                 PROVE  /\ sandboxes'[requests'[p].sandbox].status # "unused"
                        /\ InMap(sandboxes'[requests'[p].sandbox]) =>
                             sandboxes'[requests'[p].sandbox].downloading
      BY Zenon
    <3>1. CASE p = r
      BY <1>3, <1>4, <1>5, <3>1, Zenon
    <3>2. CASE p # r
      <4>1. requests'[p] = requests[p] /\ requests[p].pc = "download"
        BY <1>4, <3>2, Zenon
      <4>2. sandboxes'[requests[p].sandbox] = sandboxes[requests[p].sandbox]
        BY <1>5, <2>1, <4>1, Zenon
      <4>3. QED
        BY <1>1, <4>1, <4>2, ZenonT(60) DEF Usage, Downloads
    <3>3. QED
      BY <3>1, <3>2, Zenon
  <2>3. \A p, t \in Requests :
          (/\ requests'[p].pc = "download"
           /\ requests'[t].pc = "download"
           /\ requests'[t].sandbox = requests'[p].sandbox) => t = p
    <3> SUFFICES ASSUME NEW p \in Requests, NEW t \in Requests,
                        requests'[p].pc = "download", requests'[t].pc = "download",
                        requests'[t].sandbox = requests'[p].sandbox, t # p
                 PROVE  FALSE
      BY Zenon
    <3>1. p # r /\ t # r
      BY <1>3, <1>4, <2>1, Zenon
    <3>2. requests'[p] = requests[p] /\ requests'[t] = requests[t]
      BY <1>4, <3>1, Zenon
    <3>3. \A a, b \in Requests :
            (/\ requests[a].pc = "download"
             /\ requests[b].pc = "download"
             /\ requests[b].sandbox = requests[a].sandbox) => b = a
      BY <1>1, OneDownload, Zenon DEF Usage
    <3>4. QED
      BY <3>2, <3>3, Zenon
  <2>4. \A z \in Sandboxes : sandboxes'[z].downloading =>
          /\ InMap(sandboxes'[z])
          /\ \E p \in Requests : requests'[p].pc = "download" /\ requests'[p].sandbox = z
    <3> SUFFICES ASSUME NEW z \in Sandboxes, sandboxes'[z].downloading
                 PROVE  /\ InMap(sandboxes'[z])
                        /\ \E p \in Requests : requests'[p].pc = "download" /\ requests'[p].sandbox = z
      BY Zenon
    <3>1. CASE z = s
      BY <1>3, <1>4, <1>5, <3>1 DEF InMap
    <3>2. CASE z # s
      BY <1>1, <1>2, <1>4, <1>5, <3>2, ZenonT(60) DEF Usage, Downloads
    <3>3. QED
      BY <3>1, <3>2
  <2>5. QED
    BY <2>2, <2>3, <2>4 DEF Downloads
<1>13. Terminating(sandboxes', requests')
  <2>1. \A p \in Requests : requests'[p].pc \in {"cancel", "backend", "commit"} =>
          requests'[p] = requests[p]
    BY <1>3, <1>4, Zenon
  <2>2. QED
    BY <1>1, <1>5, <2>1, TerminatingKept, SMTT(30) DEF Usage
<1>14. QED
  BY <1>1, <1>2, <1>7, <1>8, <1>9, <1>10, <1>11, <1>12, <1>13, Zenon DEF UsageInv, Usage, Named

(* DownloadEnd: the flag goes with the only download of the sandbox.        *)
LEMMA DownloadEndStep ==
    ASSUME UsageInv, NEW r \in Requests, DownloadEnd(r)
    PROVE  UsageInv'
<1> DEFINE s == requests[r].sandbox
<1>1. TypeOK /\ Named(sessions) /\ Usage(sandboxes, executions, runners, requests, cancels)
  BY DEF UsageInv
<1>2. /\ requests[r].pc = "download"
      /\ sandboxes' = IF InMap(sandboxes[s])
                      THEN [sandboxes EXCEPT ![s].downloading = FALSE] ELSE sandboxes
      /\ requests' = [requests EXCEPT ![r] = IdleRequest]
      /\ UNCHANGED <<executions, bus, sessions, attached, runners, cancels, clock>>
  BY DEF DownloadEnd, interactive
<1>3. s \in Sandboxes
  BY <1>1, <1>2 DEF Usage, Placed
<1>4. IdleRequest \in RequestStates /\ IdleRequest.pc = "idle" /\ IdleRequest.cancels = {}
  BY ServiceAssumption DEF RequestStates, IdleRequest, Times
<1>5. /\ requests' \in [Requests -> RequestStates]
      /\ requests'[r] = IdleRequest
      /\ \A p \in Requests : p # r => requests'[p] = requests[p]
  BY <1>1, <1>2, <1>4, ZenonT(60) DEF TypeOK
<1>6. /\ sandboxes' \in [Sandboxes -> SandboxStates]
      /\ ~sandboxes'[s].downloading
      /\ \A z \in Sandboxes : /\ z # s => sandboxes'[z] = sandboxes[z]
                              /\ sandboxes'[z].status = sandboxes[z].status
                              /\ sandboxes'[z].active = sandboxes[z].active
  <2>1. CASE InMap(sandboxes[s])
    BY <1>1, <1>2, <1>3, <2>1, ZenonT(60) DEF TypeOK, SandboxStates
  <2>2. CASE ~InMap(sandboxes[s])
    <3>1. ~sandboxes[s].downloading
      BY <1>1, <1>3, <2>2, Zenon DEF Usage, Downloads
    <3>2. QED
      BY <1>1, <1>2, <2>2, <3>1 DEF TypeOK
  <2>3. QED
    BY <2>1, <2>2
<1>7. TypeOK'
  BY <1>1, <1>2, <1>5, <1>6 DEF TypeOK
<1>8. Placed(executions', requests')
  BY <1>1, <1>2, <1>4, <1>5 DEF Usage, Placed
<1>9. Owned(sandboxes', executions')
  <2> SUFFICES ASSUME NEW e \in Executions, IsActive(executions[e].status)
               PROVE  OwnedBy(sandboxes'[executions[e].sandbox], executions[e], e)
    BY <1>2, Zenon DEF Owned
  <2>1. executions[e].sandbox \in Sandboxes
    BY <1>1, Zenon DEF Usage, Placed
  <2>2. QED
    <3>1. OwnedBy(sandboxes[executions[e].sandbox], executions[e], e)
      BY <1>1, Zenon DEF Usage, Owned
    <3>2. CASE executions[e].sandbox = s
      BY <1>3, <1>6, <3>1, <3>2, ZenonT(60) DEF OwnedBy
    <3>3. CASE executions[e].sandbox # s
      BY <1>6, <2>1, <3>1, <3>3
    <3>4. QED
      BY <3>2, <3>3
<1>10. Handles(executions', runners')
  BY <1>1, <1>2 DEF Usage
<1>11. Canceling(executions', runners', requests', cancels')
  <2>1. \A e : Called(runners', requests', cancels', e) <=> Called(runners, requests, cancels, e)
    BY <1>2, <1>4, <1>5 DEF Called
  <2>2. \A p \in Requests : requests'[p].pc # "cancel" => requests'[p].cancels = {}
    BY <1>1, <1>4, <1>5, Zenon DEF Usage, Canceling
  <2>3. QED
    BY <1>1, <1>2, <2>1, <2>2, Zenon DEF Usage, Canceling
<1>12. Downloads(sandboxes', requests')
  <2>1. \A p \in Requests : requests'[p].pc = "download" =>
          /\ p # r /\ requests'[p] = requests[p] /\ requests[p].pc = "download"
          /\ requests[p].sandbox \in Sandboxes /\ requests[p].sandbox # s
    BY <1>1, <1>2, <1>4, <1>5, SMTT(30) DEF Usage, Downloads, Placed
  <2>2. \A z \in Sandboxes : sandboxes'[z].downloading => z # s /\ sandboxes'[z] = sandboxes[z]
    BY <1>6
  <2>3. \A p \in Requests : requests[p].pc = "download" /\ requests[p].sandbox # s =>
          requests'[p] = requests[p]
    BY <1>5
  <2>4. \A z \in Sandboxes : z # s => sandboxes'[z] = sandboxes[z]
    BY <1>6, SMTT(30)
  <2> HIDE DEF s
  <2>5. QED
    <3>1. ASSUME NEW p \in Requests, requests'[p].pc = "download"
          PROVE  /\ sandboxes'[requests'[p].sandbox].status # "unused"
                 /\ InMap(sandboxes'[requests'[p].sandbox]) =>
                      sandboxes'[requests'[p].sandbox].downloading
      <4>1. /\ requests'[p] = requests[p] /\ requests[p].pc = "download"
            /\ sandboxes'[requests[p].sandbox] = sandboxes[requests[p].sandbox]
        BY <2>1, <2>4, <3>1, ZenonT(60)
      <4>2. QED
        BY <1>1, <4>1, Zenon DEF Usage, Downloads
    <3>2. ASSUME NEW p \in Requests, NEW t \in Requests,
                 requests'[p].pc = "download", requests'[t].pc = "download",
                 requests'[t].sandbox = requests'[p].sandbox
          PROVE  t = p
      <4>1. /\ requests'[p] = requests[p] /\ requests[p].pc = "download"
            /\ requests'[t] = requests[t] /\ requests[t].pc = "download"
        BY <2>1, <3>2, Zenon
      <4>2. \A a, b \in Requests :
              (/\ requests[a].pc = "download"
               /\ requests[b].pc = "download"
               /\ requests[b].sandbox = requests[a].sandbox) => b = a
        BY <1>1, OneDownload, Zenon DEF Usage
      <4>3. QED
        BY <3>2, <4>1, <4>2, Zenon
    <3>3. ASSUME NEW z \in Sandboxes, sandboxes'[z].downloading
          PROVE  /\ InMap(sandboxes'[z])
                 /\ \E p \in Requests : requests'[p].pc = "download" /\ requests'[p].sandbox = z
      <4>1. z # s /\ sandboxes'[z] = sandboxes[z]
        BY <2>2, <3>3, Zenon
      <4>2. InMap(sandboxes[z]) /\ \E p \in Requests : requests[p].pc = "download" /\ requests[p].sandbox = z
        BY <1>1, <3>3, <4>1, Zenon DEF Usage, Downloads
      <4>3. QED
        BY <2>3, <4>1, <4>2, Zenon
    <3>4. QED
      BY <3>1, <3>2, <3>3, Zenon DEF Downloads
<1>13. Terminating(sandboxes', requests')
  <2>1. \A p \in Requests : requests'[p].pc \in {"cancel", "backend", "commit"} =>
          requests'[p] = requests[p]
    BY <1>4, <1>5, Zenon
  <2>2. QED
    BY <1>1, <1>6, <2>1, TerminatingKept, SMTT(30) DEF Usage
<1>14. QED
  BY <1>1, <1>2, <1>7, <1>8, <1>9, <1>10, <1>11, <1>12, <1>13, SMTT(30) DEF UsageInv, Usage, Named

(* CreateExecution: the sandbox was idle and becomes used by the execution. *)
LEMMA CreateExecutionStep ==
    ASSUME UsageInv, NEW e \in Executions, NEW s \in Sandboxes, NEW kind \in ExecutionKinds,
           CreateExecution(e, s, kind)
    PROVE  UsageInv'
<1> DEFINE created == FreshExecution("queued", s, kind)
           exs == [executions EXCEPT ![e] = created]
<1>1. TypeOK /\ Usage(sandboxes, executions, runners, requests, cancels)
  BY DEF UsageInv
<1>2. /\ executions[e].status = "unused" /\ sandboxes[s].status = "ready"
      /\ ~SandboxBusy(s) /\ ~sandboxes[s].downloading
      /\ runners' = [runners EXCEPT ![e].pc = "spawned"]
      /\ requests' = requests /\ cancels' = cancels /\ clock' = clock
  BY DEF CreateExecution
<1>3. PICK t \in 0 .. clock :
        PruneState([sandboxes EXCEPT ![s].active = e, ![s].updated = t],
                   exs, RecordExecution(bus, exs, {e}, "message"), {}, t)
  BY SMTT(30) DEF CreateExecution
<1> DEFINE sbs == [sandboxes EXCEPT ![s].active = e, ![s].updated = t]
<1>4. /\ created \in ExecutionStates /\ created.status = "queued" /\ created.sandbox = s
      /\ ~created.cancelRequested /\ ~created.cancel /\ ~created.attach
  BY ServiceAssumption DEF FreshExecution, ExecutionStates, ExecutionStatuses, Times
<1> HIDE DEF created
<1>5. /\ exs \in [Executions -> ExecutionStates]
      /\ exs[e] = created
      /\ \A f \in Executions : f # e => exs[f] = executions[f]
  BY <1>1, <1>4 DEF TypeOK
<1>6. t \in Times
  BY <1>1, ServiceAssumption DEF TypeOK, Times
<1>7. /\ sbs \in [Sandboxes -> SandboxStates]
      /\ sbs[s].active = e /\ sbs[s].status = "ready" /\ ~sbs[s].downloading
      /\ \A z \in Sandboxes : /\ z # s => sbs[z] = sandboxes[z]
                              /\ sbs[z].status = sandboxes[z].status
                              /\ sbs[z].downloading = sandboxes[z].downloading
  BY <1>1, <1>2, <1>6, ZenonT(60) DEF TypeOK, SandboxStates
<1>8. /\ runners' \in [Executions -> Runners]
      /\ runners'[e].pc = "spawned"
      /\ \A f \in Executions : /\ f # e => runners'[f] = runners[f]
                               /\ runners'[f].canceled = runners[f].canceled
  BY <1>1, <1>2 DEF TypeOK, Runners
<1>9. RecordExecution(bus, exs, {e}, "message") \in Buses
  <2> HIDE DEF exs
  <2>1. \A f \in {e} : exs[f].status \in ExecutionStatuses
    BY <1>4, <1>5 DEF ExecutionStatuses
  <2>2. bus \in Buses /\ {e} \in SUBSET Executions /\ "message" \in EventKinds
    BY <1>1 DEF TypeOK, EventKinds
  <2>3. QED
    BY <1>5, <2>1, <2>2, RecordType, Zenon
<1> HIDE DEF exs, sbs
<1>10. Placed(exs, requests')
  BY <1>1, <1>2, <1>4, <1>5, ZenonT(60) DEF Usage, Placed
<1>11. Owned(sbs, exs)
  <2>1. \A f \in Executions : IsActive(executions[f].status) => executions[f].sandbox # s
    BY <1>2, IdleSandbox, Zenon
  <2> SUFFICES ASSUME NEW f \in Executions, IsActive(exs[f].status)
               PROVE  OwnedBy(sbs[exs[f].sandbox], exs[f], f)
    BY Zenon DEF Owned
  <2>2. CASE f = e
    BY <1>4, <1>5, <1>7, <2>2, Zenon DEF OwnedBy
  <2>3. CASE f # e
    BY <1>1, <1>5, <1>7, <2>1, <2>3, Zenon DEF Usage, Owned, Placed
  <2>4. QED
    BY <2>2, <2>3
<1>12. Handles(exs, runners')
  BY <1>1, <1>4, <1>5, <1>8, ZenonT(60) DEF Usage, Handles, HandlesOf
<1>13. Canceling(exs, runners', requests', cancels')
  <2>1. \A f \in Executions : Called(runners', requests', cancels', f) <=> Called(runners, requests, cancels, f)
    BY <1>2, <1>8 DEF Called
  <2>2. ~Called(runners, requests, cancels, e)
    BY <1>1, <1>2 DEF Usage, Canceling
  <2>3. QED
    BY <1>1, <1>2, <1>4, <1>5, <2>1, <2>2, Zenon DEF Usage, Canceling, IsFinal, FinalStatuses
<1>14. Downloads(sbs, requests') /\ Terminating(sbs, requests')
  BY <1>2, <1>7, SameUseNow, Zenon
<1>15. Usage(sbs, exs, runners', requests', cancels')
  BY <1>10, <1>11, <1>12, <1>13, <1>14 DEF Usage
<1>16. PruneState(sbs, exs, RecordExecution(bus, exs, {e}, "message"), {}, t)
  BY <1>3 DEF sbs
<1>17. requests' \in [Requests -> RequestStates] /\ cancels' \in SUBSET Executions /\ clock' = clock
  BY <1>1, <1>2 DEF TypeOK
<1>18. QED
  BY <1>5, <1>7, <1>8, <1>9, <1>15, <1>16, <1>17, PruneStep, Zenon

(* CreateExecutionRefused: forgetting a finished active execution is        *)
(* harmless.                                                                *)
LEMMA CreateExecutionRefusedStep ==
    ASSUME UsageInv, NEW s \in Sandboxes, CreateExecutionRefused(s)
    PROVE  UsageInv'
<1>1. TypeOK /\ Named(sessions) /\ Usage(sandboxes, executions, runners, requests, cancels)
  BY DEF UsageInv
<1>2. /\ sandboxes' = [sandboxes EXCEPT ![s].active = NoId]
      /\ UNCHANGED <<executions, bus, sessions, attached, runners, requests, cancels, clock>>
  BY DEF CreateExecutionRefused, interactive, callers
<1>3. /\ sandboxes' \in [Sandboxes -> SandboxStates]
      /\ \A z \in Sandboxes : /\ z # s => sandboxes'[z] = sandboxes[z]
                              /\ sandboxes'[z].status = sandboxes[z].status
                              /\ sandboxes'[z].downloading = sandboxes[z].downloading
  BY <1>1, <1>2 DEF TypeOK, SandboxStates
<1>4. \A e \in Executions : IsActive(executions[e].status) => executions[e].sandbox # s
  BY IdleSandbox DEF CreateExecutionRefused
<1>5. TypeOK'
  BY <1>1, <1>2, <1>3 DEF TypeOK
<1>6. Owned(sandboxes', executions')
  <2>1. \A e \in Executions : IsActive(executions[e].status) =>
          sandboxes'[executions[e].sandbox] = sandboxes[executions[e].sandbox]
    BY <1>1, <1>3, <1>4, Zenon DEF Usage, Placed
  <2>2. QED
    BY <1>1, <1>2, <2>1, Zenon DEF Usage, Owned
<1>7. Downloads(sandboxes', requests') /\ Terminating(sandboxes', requests')
  <2>1. Downloads(sandboxes', requests) /\ Terminating(sandboxes', requests)
    BY <1>3, SameUseNow, Zenon
  <2>2. QED
    BY <1>2, <2>1
<1>8. Placed(executions', requests') /\ Handles(executions', runners')
      /\ Canceling(executions', runners', requests', cancels')
  BY <1>1, <1>2 DEF Usage
<1>9. QED
  BY <1>1, <1>2, <1>5, <1>6, <1>7, <1>8 DEF UsageInv, Usage, Named

(* RunExecutionSkip: only the goroutine moves.                              *)
LEMMA RunExecutionSkipStep ==
    ASSUME UsageInv, NEW e \in Executions, RunExecutionSkip(e)
    PROVE  UsageInv'
<1>1. TypeOK /\ Named(sessions) /\ Usage(sandboxes, executions, runners, requests, cancels)
  BY DEF UsageInv
<1>2. /\ runners[e].pc = "spawned"
      /\ runners' = [runners EXCEPT ![e].pc = "exited"]
      /\ UNCHANGED <<sandboxes, executions, bus, sessions, attached, requests, cancels, clock>>
  BY DEF RunExecutionSkip, maps, interactive
<1>3. /\ runners' \in [Executions -> Runners]
      /\ \A f \in Executions : /\ runners'[f].pc = "adapter" <=> runners[f].pc = "adapter"
                               /\ runners'[f].canceled = runners[f].canceled
  BY <1>1, <1>2 DEF TypeOK, Runners
<1>4. Handles(executions', runners')
  BY <1>1, <1>2, <1>3 DEF Usage, Handles, HandlesOf
<1>5. Canceling(executions', runners', requests', cancels')
  <2>1. \A f \in Executions : Called(runners', requests', cancels', f) <=> Called(runners, requests, cancels, f)
    BY <1>2, <1>3 DEF Called
  <2>2. QED
    BY <1>1, <1>2, <2>1, Zenon DEF Usage, Canceling
<1>6. QED
  BY <1>1, <1>2, <1>3, <1>4, <1>5 DEF UsageInv, TypeOK, Usage, Named

(* RunExecutionStart: an unfinished execution that has not started is in a  *)
(* ready sandbox, so it starts.                                             *)
LEMMA RunExecutionStartStep ==
    ASSUME UsageInv, NEW e \in Executions, RunExecutionStart(e)
    PROVE  UsageInv'
<1> DEFINE started == [executions EXCEPT ![e].status = "running", ![e].cancel = TRUE]
<1>1. TypeOK /\ Named(sessions) /\ Usage(sandboxes, executions, runners, requests, cancels)
  BY DEF UsageInv
<1>2. runners[e].pc = "spawned" /\ IsActive(executions[e].status)
  BY Zenon DEF RunExecutionStart
<1>3. executions[e].status = "queued"
  BY <1>1, <1>2, Zenon DEF Usage, Handles, HandlesOf, IsActive
<1>4. StartsReady(e)
  BY <1>1, <1>2, <1>3, Zenon DEF Usage, Owned, OwnedBy, Placed, StartsReady
<1>5. /\ executions' = started
      /\ bus' = RecordExecution(bus, started, {e}, "message")
      /\ runners' = [runners EXCEPT ![e].pc = "adapter"]
      /\ UNCHANGED <<sandboxes, sessions, attached, requests, cancels, clock>>
  BY <1>4 DEF RunExecutionStart, interactive
<1>6. /\ executions' \in [Executions -> ExecutionStates]
      /\ executions'[e].status = "running" /\ executions'[e].cancel
      /\ executions'[e].sandbox = executions[e].sandbox
      /\ executions'[e].cancelRequested = executions[e].cancelRequested
      /\ \A f \in Executions : f # e => executions'[f] = executions[f]
  <2> DEFINE ex == [executions[e] EXCEPT !.status = "running", !.cancel = TRUE]
  <2>1. executions \in [Executions -> ExecutionStates] /\ executions[e] \in ExecutionStates
    BY <1>1, Zenon DEF TypeOK
  <2>2. ex \in ExecutionStates /\ ex.status = "running" /\ ex.cancel
        /\ ex.sandbox = executions[e].sandbox
        /\ ex.cancelRequested = executions[e].cancelRequested
    BY <2>1, ZenonT(60) DEF ExecutionStates, ExecutionStatuses
  <2>3. started = [executions EXCEPT ![e] = ex]
    BY <2>1, ZenonT(60)
  <2> HIDE DEF ex, started
  <2>4. QED
    BY <1>5, <2>1, <2>2, <2>3, ZenonT(60)
<1>7. /\ runners' \in [Executions -> Runners]
      /\ runners'[e].pc = "adapter"
      /\ \A f \in Executions : /\ f # e => runners'[f] = runners[f]
                               /\ runners'[f].canceled = runners[f].canceled
  BY <1>1, <1>5 DEF TypeOK, Runners
<1>8. bus' \in Buses
  <2>1. bus \in Buses /\ {e} \in SUBSET Executions /\ "message" \in EventKinds
        /\ \A f \in {e} : executions'[f].status \in ExecutionStatuses
    BY <1>1, <1>6 DEF TypeOK, EventKinds, ExecutionStatuses
  <2>2. bus' = RecordExecution(bus, executions', {e}, "message")
    BY <1>5
  <2>3. QED
    BY <1>6, <2>1, <2>2, RecordType, Zenon
<1>9. TypeOK'
  BY <1>1, <1>5, <1>6, <1>7, <1>8 DEF TypeOK
<1>10. Placed(executions', requests')
  BY <1>1, <1>2, <1>5, <1>6, ZenonT(60) DEF Usage, Placed
<1>11. Owned(sandboxes', executions')
  <2> SUFFICES ASSUME NEW f \in Executions, IsActive(executions'[f].status)
               PROVE  OwnedBy(sandboxes[executions'[f].sandbox], executions'[f], f)
    BY <1>5, ZenonT(60) DEF Owned
  <2>1. CASE f = e
    <3>1. OwnedBy(sandboxes[executions[e].sandbox], executions[e], e)
      BY <1>1, <1>2, Zenon DEF Usage, Owned
    <3>2. sandboxes[executions[e].sandbox].status = "ready"
      BY <1>3, <3>1, Zenon DEF OwnedBy
    <3>3. QED
      BY <1>6, <2>1, <3>1, <3>2 DEF OwnedBy
  <2>2. CASE f # e
    BY <1>1, <1>6, <2>2, Zenon DEF Usage, Owned
  <2>3. QED
    BY <2>1, <2>2
<1>12. Handles(executions', runners')
  <2> SUFFICES ASSUME NEW f \in Executions
               PROVE  HandlesOf(executions'[f], runners'[f])
    BY DEF Handles
  <2> HIDE DEF started
  <2>1. CASE f = e
    BY <1>6, <1>7, <2>1, Zenon DEF HandlesOf
  <2>2. CASE f # e
    BY <1>1, <1>6, <1>7, <2>2, Zenon DEF Usage, Handles
  <2>3. QED
    BY <2>1, <2>2, Zenon
<1>13. Canceling(executions', runners', requests', cancels')
  <2>1. \A f \in Executions : Called(runners', requests', cancels', f) <=> Called(runners, requests, cancels, f)
    BY <1>5, <1>7 DEF Called
  <2>2. ~Called(runners, requests, cancels, e) /\ ~executions[e].cancelRequested
    BY <1>1, <1>3, Zenon DEF Usage, Canceling
  <2>3. QED
    BY <1>1, <1>5, <1>6, <2>1, <2>2, ZenonT(60) DEF Usage, Canceling, IsFinal, FinalStatuses
<1>14. QED
  BY <1>1, <1>5, <1>9, <1>10, <1>11, <1>12, <1>13 DEF UsageInv, Usage, Named

(* OutputChunk only records an event.                                       *)
LEMMA OutputChunkStep ==
    ASSUME UsageInv, NEW e \in Executions, OutputChunk(e)
    PROVE  UsageInv'
<1>1. /\ UNCHANGED <<sandboxes, executions, sessions, attached, runners, requests, cancels, clock>>
      /\ bus' = RecordExecution(bus, executions, {e}, "output")
      /\ executions[e].status \in ExecutionStatuses
  BY Zenon DEF OutputChunk, interactive, callers, IsActive, ExecutionStatuses
<1>2. bus \in Buses /\ {e} \in SUBSET Executions /\ "output" \in EventKinds
      /\ executions \in [Executions -> ExecutionStates]
      /\ \A f \in {e} : executions[f].status \in ExecutionStatuses
  BY <1>1, Zenon DEF UsageInv, TypeOK, EventKinds
<1>3. bus' \in Buses
  BY <1>1, <1>2, RecordType, Zenon
<1>4. QED
  BY <1>1, <1>3, Zenon DEF UsageInv, TypeOK, Named

(* SetAttachIO: the adapter runs, so the execution is running.              *)
LEMMA SetAttachIOStep ==
    ASSUME UsageInv, NEW e \in Executions, SetAttachIO(e)
    PROVE  UsageInv'
<1>1. TypeOK /\ Named(sessions) /\ Usage(sandboxes, executions, runners, requests, cancels)
  BY DEF UsageInv
<1>2. /\ runners[e].pc = "adapter"
      /\ executions' = [executions EXCEPT ![e].attach = TRUE]
      /\ UNCHANGED <<sandboxes, bus, sessions, attached, runners, requests, cancels, clock>>
  BY DEF SetAttachIO, interactive, callers
<1>3. /\ executions' \in [Executions -> ExecutionStates]
      /\ \A f \in Executions : /\ executions'[f].status = executions[f].status
                               /\ executions'[f].sandbox = executions[f].sandbox
                               /\ executions'[f].cancel = executions[f].cancel
                               /\ executions'[f].cancelRequested = executions[f].cancelRequested
                               /\ f # e => executions'[f].attach = executions[f].attach
  <2> DEFINE new == [executions[e] EXCEPT !.attach = TRUE]
  <2>1. /\ new \in ExecutionStates
        /\ new.status = executions[e].status /\ new.sandbox = executions[e].sandbox
        /\ new.cancel = executions[e].cancel
        /\ new.cancelRequested = executions[e].cancelRequested
    BY <1>1, ZenonT(60) DEF TypeOK, ExecutionStates
  <2>2. executions' = [executions EXCEPT ![e] = new]
    BY <1>2
  <2> HIDE DEF new
  <2>3. QED
    BY <1>1, <2>1, <2>2 DEF TypeOK
<1>4. executions[e].status = "running"
  BY <1>1, <1>2 DEF Usage, Handles, HandlesOf
<1>5. Placed(executions', requests') /\ Owned(sandboxes', executions')
  BY <1>1, <1>2, <1>3 DEF Usage, Placed, Owned, OwnedBy
<1>6. Handles(executions', runners')
  BY <1>1, <1>2, <1>3, <1>4 DEF Usage, Handles, HandlesOf
<1>7. Canceling(executions', runners', requests', cancels')
  BY <1>1, <1>2, <1>3 DEF Usage, Canceling
<1>8. QED
  BY <1>1, <1>2, <1>3, <1>5, <1>6, <1>7 DEF UsageInv, TypeOK, Usage, Named

(* CancelRunning: the call has the cancel function of the execution.        *)
LEMMA CancelRunningStep ==
    ASSUME UsageInv, NEW e \in Executions, NEW signal \in CancelSignals, CancelRunning(e, signal)
    PROVE  UsageInv'
<1>1. TypeOK /\ Named(sessions) /\ Usage(sandboxes, executions, runners, requests, cancels)
  BY DEF UsageInv
<1> DEFINE m == MarkCanceled(executions[e], signal)
<1>2. /\ executions[e].status = "running"
      /\ executions' = [executions EXCEPT ![e] = m]
      /\ bus' = RecordExecution(bus, executions', {e}, "message")
      /\ cancels' = IF executions[e].cancel THEN cancels \cup {e} ELSE cancels
      /\ UNCHANGED <<sandboxes, sessions, attached, runners, requests, clock>>
  BY Zenon DEF CancelRunning, interactive
<1>3. /\ m \in ExecutionStates /\ m.cancelRequested /\ m.status = "running"
      /\ m.sandbox = executions[e].sandbox /\ m.cancel = executions[e].cancel
      /\ m.attach = executions[e].attach
  <2>1. executions[e] \in ExecutionStates /\ signal \in Int
    BY <1>1, ServiceAssumption, Zenon DEF TypeOK
  <2>2. QED
    BY <1>2, <2>1, MarkedRecord, Zenon
<1> HIDE DEF m
<1>4. /\ executions' \in [Executions -> ExecutionStates]
      /\ executions'[e] = m
      /\ \A f \in Executions : f # e => executions'[f] = executions[f]
  BY <1>1, <1>2, <1>3, Zenon DEF TypeOK
<1>5. cancels' = cancels \cup {e}
  BY <1>1, <1>2, Zenon DEF Usage, Handles, HandlesOf
<1>6. bus' \in Buses
  <2>1. bus \in Buses /\ {e} \in SUBSET Executions /\ "message" \in EventKinds
        /\ \A f \in {e} : executions'[f].status \in ExecutionStatuses
    BY <1>1, <1>3, <1>4, SMTT(30) DEF TypeOK, EventKinds, ExecutionStatuses
  <2>2. QED
    BY <1>2, <1>4, <2>1, RecordType, Zenon
<1>7. TypeOK'
  BY <1>1, <1>2, <1>4, <1>5, <1>6 DEF TypeOK
<1>8. Placed(executions', requests')
  BY <1>1, <1>2, <1>3, <1>4, Zenon DEF Usage, Placed, IsActive
<1>9. Owned(sandboxes', executions')
  <2> SUFFICES ASSUME NEW f \in Executions, IsActive(executions'[f].status)
               PROVE  OwnedBy(sandboxes[executions'[f].sandbox], executions'[f], f)
    BY <1>2, Zenon DEF Owned
  <2>1. CASE f = e
    <3>1. OwnedBy(sandboxes[executions[e].sandbox], executions[e], e)
      BY <1>1, <1>2, Zenon DEF Usage, Owned, IsActive
    <3>2. executions'[f] = m /\ m.sandbox = executions[e].sandbox
      BY <1>3, <1>4, <2>1, Zenon
    <3>3. QED
      BY <1>3, <2>1, <3>1, <3>2, Zenon DEF OwnedBy
  <2>2. CASE f # e
    BY <1>1, <1>4, <2>2, ZenonT(60) DEF Usage, Owned
  <2>3. QED
    BY <2>1, <2>2, Zenon
<1>10. Handles(executions', runners')
  <2> SUFFICES ASSUME NEW f \in Executions
               PROVE  HandlesOf(executions'[f], runners[f])
    BY <1>2, Zenon DEF Handles
  <2>1. CASE f = e
    <3>1. HandlesOf(executions[e], runners[e]) /\ executions'[f] = m
      BY <1>1, <1>4, <2>1, Zenon DEF Usage, Handles
    <3>2. QED
      BY <1>2, <1>3, <2>1, <3>1, Zenon DEF HandlesOf
  <2>2. CASE f # e
    BY <1>1, <1>4, <2>2, Zenon DEF Usage, Handles
  <2>3. QED
    BY <2>1, <2>2
<1>11. Canceling(executions', runners', requests', cancels')
  <2>1. \A f \in Executions : f # e =>
          (Called(runners', requests', cancels', f) <=> Called(runners, requests, cancels, f))
    BY <1>2, <1>5, Zenon DEF Called
  <2>2. Called(runners', requests', cancels', e)
    BY <1>5 DEF Called
  <2>3. QED
    BY <1>1, <1>2, <1>3, <1>4, <2>1, <2>2, Zenon DEF Usage, Canceling, IsFinal, FinalStatuses
<1>12. QED
  BY <1>1, <1>2, <1>7, <1>8, <1>9, <1>10, <1>11, Zenon DEF UsageInv, Usage, Named

(* CancelCall: the call becomes a cancellation of the run context.          *)
LEMMA CancelCallStep ==
    ASSUME UsageInv, NEW e \in Executions, CancelCall(e)
    PROVE  UsageInv'
<1>1. TypeOK /\ Named(sessions) /\ Usage(sandboxes, executions, runners, requests, cancels)
  BY DEF UsageInv
<1>2. /\ e \in cancels
      /\ cancels' = cancels \ {e}
      /\ runners' = [runners EXCEPT ![e].canceled = TRUE]
      /\ UNCHANGED <<sandboxes, executions, bus, sessions, attached, requests, clock>>
  BY DEF CancelCall, maps, interactive
<1>3. /\ runners' \in [Executions -> Runners]
      /\ runners'[e].canceled
      /\ \A f \in Executions : /\ runners'[f].pc = runners[f].pc
                               /\ f # e => runners'[f] = runners[f]
  BY <1>1, <1>2, Zenon DEF TypeOK, Runners
<1>4. Handles(executions', runners')
  BY <1>1, <1>2, <1>3 DEF Usage, Handles, HandlesOf
<1>5. Canceling(executions', runners', requests', cancels')
  <2>1. \A f \in Executions : Called(runners', requests', cancels', f) <=> Called(runners, requests, cancels, f)
    <3> SUFFICES ASSUME NEW f \in Executions
                 PROVE  Called(runners', requests', cancels', f) <=> Called(runners, requests, cancels, f)
      OBVIOUS
    <3>1. CASE f = e
      BY <1>2, <1>3, <3>1 DEF Called
    <3>2. CASE f # e
      BY <1>2, <1>3, <3>2 DEF Called
    <3>3. QED
      BY <3>1, <3>2
  <2>2. QED
    BY <1>1, <1>2, <2>1, Zenon DEF Usage, Canceling
<1>6. cancels' \in SUBSET Executions
  BY <1>1, <1>2, Zenon DEF TypeOK
<1>7. QED
  BY <1>1, <1>2, <1>3, <1>4, <1>5, <1>6 DEF UsageInv, TypeOK, Usage, Named

(* Opening, consuming and releasing a session, and time passing, touch only *)
(* the sessions, the attached executions and the clock.                     *)
LEMMA SessionStep ==
    ASSUME UsageInv, SessionNext \/ Tick
    PROVE  UsageInv'
<1>1. TypeOK /\ Named(sessions) /\ Usage(sandboxes, executions, runners, requests, cancels)
  BY DEF UsageInv
<1>2. UNCHANGED <<sandboxes, executions, bus, runners, requests, cancels>>
  BY DEF SessionNext, Tick, OpenInteractiveExecution, ConsumeInteractiveSession,
         ReleaseInteractiveExecution, maps, callers
<1>3. ASSUME NEW t
      PROVE  /\ Expire(t) \in [Sessions -> SessionStates]
             /\ Named(Expire(t))
             /\ \A y \in Sessions : Expire(t)[y].execution = sessions[y].execution
  BY <1>1 DEF TypeOK, Expire, SessionStates, Named
<1>4. /\ sessions' \in [Sessions -> SessionStates] /\ Named(sessions')
      /\ attached' \in SUBSET Executions /\ clock' \in Times
  <2>1. CASE \E x \in Sessions, e \in Executions : OpenInteractiveExecution(x, e)
    <3>1. PICK x \in Sessions, e \in Executions : OpenInteractiveExecution(x, e)
      BY <2>1, Zenon
    <3>2. PICK t \in 0 .. clock :
            sessions' = IF e \in attached \/ HasPendingSession(Expire(t), e) THEN Expire(t)
                        ELSE [Expire(t) EXCEPT ![x] =
                                [status |-> "pending", execution |-> e,
                                 expires |-> t + InteractiveSessionTokenTTL]]
      BY <3>1, Zenon DEF OpenInteractiveExecution
    <3> DEFINE live == Expire(t)
               new == [status |-> "pending", execution |-> e, expires |-> t + InteractiveSessionTokenTTL]
    <3>3. new \in SessionStates /\ new.execution = e
      BY <1>1, ServiceAssumption, SMTT(30) DEF TypeOK, Times, SessionStates
    <3>4. live \in [Sessions -> SessionStates] /\ Named(live)
      BY <1>3, Zenon
    <3>5. sessions' = live \/ sessions' = [live EXCEPT ![x] = new]
      BY <3>2
    <3> HIDE DEF live, new
    <3>6. sessions' \in [Sessions -> SessionStates] /\ Named(sessions')
      BY <3>3, <3>4, <3>5, ZenonT(60) DEF Named
    <3>7. QED
      BY <1>1, <3>1, <3>6 DEF OpenInteractiveExecution, TypeOK
  <2>2. CASE \E x \in Sessions, token \in BOOLEAN : ConsumeInteractiveSession(x, token)
    <3>1. PICK x \in Sessions, token \in BOOLEAN : ConsumeInteractiveSession(x, token)
      BY <2>2
    <3>2. sessions[x].execution \in Executions
      BY <1>1, <3>1, Zenon DEF ConsumeInteractiveSession, Named
    <3>3. PICK t \in 0 .. clock :
            /\ \/ sessions' = Expire(t)
               \/ sessions' = [Expire(t) EXCEPT ![x].status = "held"]
               \/ sessions' = [Expire(t) EXCEPT ![x].status = "ended"]
            /\ attached' = attached \/ attached' = attached \cup {sessions[x].execution}
      BY <3>1, ZenonT(60) DEF ConsumeInteractiveSession
    <3> DEFINE live == Expire(t)
    <3>4. live \in [Sessions -> SessionStates] /\ Named(live)
      BY <1>3
    <3>5. \/ sessions' = live
          \/ \E st \in {"held", "ended"} : sessions' = [live EXCEPT ![x].status = st]
      BY <3>3
    <3> HIDE DEF live
    <3>6. sessions' \in [Sessions -> SessionStates] /\ Named(sessions')
      BY <3>4, <3>5 DEF Named, SessionStates
    <3>7. QED
      BY <1>1, <3>1, <3>2, <3>3, <3>6, SMTT(30) DEF ConsumeInteractiveSession, TypeOK
  <2>3. CASE \E x \in Sessions : ReleaseInteractiveExecution(x)
    BY <1>1, <2>3, SMTT(30) DEF ReleaseInteractiveExecution, TypeOK, SessionStates, Named
  <2>4. CASE Tick
    BY <1>1, <2>4, ServiceAssumption DEF Tick, interactive, TypeOK, Times, Named
  <2>5. QED
    BY <2>1, <2>2, <2>3, <2>4, ZenonT(60) DEF SessionNext
<1>5. QED
  BY <1>1, <1>2, <1>4 DEF UsageInv, TypeOK

(* One execution e that is unfinished ends, or has ended, in the value exs  *)
(* of the executions: nobody else is affected.                              *)
LEMMA EndedUsage ==
    ASSUME UsageInv, NEW e \in Executions, IsActive(executions[e].status),
           NEW ex \in ExecutionStates, NEW rn \in [Executions -> Runners],
           NEW sbs \in [Sandboxes -> SandboxStates],
           IsFinal(ex.status), ~ex.cancel, ~ex.attach,
           ex.cancelRequested <=> ex.status = "canceled",
           rn[e].pc # "adapter",
           \A f \in Executions : /\ f # e => rn[f] = runners[f]
                                 /\ rn[f].canceled = runners[f].canceled,
           \A s \in Sandboxes : /\ s # executions[e].sandbox => sbs[s] = sandboxes[s]
                                /\ sbs[s].status = sandboxes[s].status
                                /\ sbs[s].downloading = sandboxes[s].downloading
    PROVE  Usage(sbs, [executions EXCEPT ![e] = ex], rn, requests, cancels)
<1> DEFINE exs == [executions EXCEPT ![e] = ex]
<1>1. TypeOK /\ Usage(sandboxes, executions, runners, requests, cancels)
  BY Zenon DEF UsageInv
<1>2. exs[e] = ex /\ \A f \in Executions : f # e => exs[f] = executions[f]
  BY <1>1, Zenon DEF TypeOK
<1>3. ~IsActive(ex.status) /\ ex.status # "running" /\ ex.status \notin {"unused", "queued"}
  BY Zenon DEF IsActive, IsFinal, FinalStatuses
<1> HIDE DEF exs
<1>4. \A f \in Executions : IsActive(exs[f].status) =>
        /\ f # e /\ exs[f] = executions[f]
        /\ executions[f].sandbox \in Sandboxes /\ executions[f].sandbox # executions[e].sandbox
  <2> SUFFICES ASSUME NEW f \in Executions, IsActive(exs[f].status)
               PROVE  /\ f # e /\ exs[f] = executions[f]
                      /\ executions[f].sandbox \in Sandboxes
                      /\ executions[f].sandbox # executions[e].sandbox
    BY Zenon
  <2>1. f # e /\ exs[f] = executions[f]
    BY <1>2, <1>3, Zenon
  <2>2. /\ executions[f].sandbox \in Sandboxes
        /\ sandboxes[executions[f].sandbox].active = f
        /\ sandboxes[executions[e].sandbox].active = e
    BY <1>1, <2>1, Zenon DEF Usage, Owned, OwnedBy, Placed
  <2>3. QED
    BY <2>1, <2>2, Zenon
<1>5. Placed(exs, requests)
  BY <1>1, <1>4, Zenon DEF Usage, Placed
<1>6. Owned(sbs, exs)
  <2> SUFFICES ASSUME NEW f \in Executions, IsActive(exs[f].status)
               PROVE  OwnedBy(sbs[exs[f].sandbox], exs[f], f)
    BY Zenon DEF Owned
  <2>1. exs[f] = executions[f] /\ sbs[executions[f].sandbox] = sandboxes[executions[f].sandbox]
    BY <1>4, Zenon
  <2>2. QED
    BY <1>1, <2>1, Zenon DEF Usage, Owned
<1>7. Handles(exs, rn)
  <2> SUFFICES ASSUME NEW f \in Executions
               PROVE  HandlesOf(exs[f], rn[f])
    BY Zenon DEF Handles
  <2>1. CASE f = e
    BY <1>2, <1>3, <2>1, Zenon DEF HandlesOf
  <2>2. CASE f # e
    BY <1>1, <1>2, <2>2, Zenon DEF Usage, Handles
  <2>3. QED
    BY <2>1, <2>2, Zenon
<1>8. Canceling(exs, rn, requests, cancels)
  <2>1. \A f \in Executions : Called(rn, requests, cancels, f) <=> Called(runners, requests, cancels, f)
    BY Zenon DEF Called
  <2>2. QED
    BY <1>1, <1>2, <1>3, <2>1, ZenonT(60) DEF Usage, Canceling
<1>9. Downloads(sbs, requests) /\ Terminating(sbs, requests)
  <2>1. \A z \in Sandboxes : /\ sbs[z].status = sandboxes[z].status
                             /\ sbs[z].downloading = sandboxes[z].downloading
    BY Zenon
  <2>2. QED
    BY <2>1, SameUseNow, Zenon
<1>10. QED
  BY <1>5, <1>6, <1>7, <1>8, <1>9, Zenon DEF Usage, exs

(* RunExecutionFinish: the outcome is canceled exactly when a cancellation  *)
(* was accepted, since only then the run context is canceled.               *)
LEMMA RunExecutionFinishStep ==
    ASSUME UsageInv, NEW e \in Executions, NEW result, NEW merged,
           RunExecutionFinish(e, result, merged)
    PROVE  UsageInv'
<1> DEFINE s == executions[e].sandbox
           out == RunOutcome(e, result)
           ex == Finalize(Detached(executions[e]), out[1], out[2], clock)
           ended == [executions EXCEPT ![e] = ex]
           reported == IF result = "error" THEN RecordExecution(bus, ended, {e}, "output")
                       ELSE IF merged THEN RecordExecution(bus, executions, {e}, "output")
                       ELSE bus
           freed == IF s \in Sandboxes /\ sandboxes[s].active = e
                    THEN [sandboxes EXCEPT ![s].active = NoId, ![s].updated = clock]
                    ELSE sandboxes
<1>1. TypeOK /\ Usage(sandboxes, executions, runners, requests, cancels)
  BY DEF UsageInv
<1>2. /\ runners[e].pc = "adapter"
      /\ runners' = [runners EXCEPT ![e].pc = "exited"]
      /\ UNCHANGED <<requests, cancels, clock>>
  BY DEF RunExecutionFinish
<1>3. executions[e].status = "running"
  BY <1>1, <1>2, SMTT(30) DEF Usage, Handles, HandlesOf
<1>4. PruneState(freed, ended, RecordExit(reported, ended, {e}), {e}, clock)
  <2>1. InMap(executions[e])
    BY <1>3, Zenon DEF InMap
  <2>2. QED
    BY <2>1, SMTT(30) DEF RunExecutionFinish
<1>5. /\ executions[e] \in ExecutionStates /\ clock \in Times
      /\ Detached(executions[e]) \in ExecutionStates
      /\ ~Detached(executions[e]).cancel /\ ~Detached(executions[e]).attach
      /\ Detached(executions[e]).cancelRequested = executions[e].cancelRequested
  BY <1>1, ZenonT(60) DEF TypeOK, ExecutionStates, Detached
<1>6. /\ out[1] \in FinalStatuses /\ out[2] \in Int
      /\ out[1] = "canceled" <=> executions[e].cancelRequested
  <2>1. runners[e].canceled => executions[e].cancelRequested
    BY <1>1, <1>3, Zenon DEF Usage, Canceling, Called
  <2>2. CancelExitCode(executions[e].signal) \in Int
    BY <1>5, CancelExitCodeType, Zenon DEF ExecutionStates
  <2>3. CASE executions[e].cancelRequested
    <3>1. out = <<"canceled", CancelExitCode(executions[e].signal)>>
      BY <2>3, Zenon DEF RunOutcome
    <3>2. QED
      BY <2>2, <2>3, <3>1 DEF FinalStatuses
  <2>4. CASE ~executions[e].cancelRequested
    <3>1. out \in {<<"failed", 1>>, <<"succeeded", 0>>, <<"failed", 7>>}
      BY <2>1, <2>4, ZenonT(60) DEF RunOutcome
    <3>2. QED
      BY <2>4, <3>1 DEF FinalStatuses
  <2>5. QED
    BY <2>3, <2>4, Zenon
<1> HIDE DEF out
<1>7. /\ ex \in ExecutionStates /\ ex.status = out[1]
      /\ ~ex.cancel /\ ~ex.attach /\ ex.cancelRequested = executions[e].cancelRequested
  <2> DEFINE d == Detached(executions[e])
  <2> HIDE DEF d
  <2>1. d \in ExecutionStates /\ ~d.cancel /\ ~d.attach
        /\ d.cancelRequested = executions[e].cancelRequested
    BY <1>5, Zenon DEF d
  <2>2. Finalize(d, out[1], out[2], clock) \in ExecutionStates
    BY <1>5, <1>6, <2>1, FinalizedRecord, ZenonT(60)
  <2>3. LET f == Finalize(d, out[1], out[2], clock)
        IN  f.status = out[1] /\ ~f.cancel /\ ~f.attach /\ f.cancelRequested = d.cancelRequested
    BY <2>1, Zenon DEF Finalize, ExecutionStates
  <2>4. QED
    BY <2>1, <2>2, <2>3, Zenon DEF d
<1> HIDE DEF ex
<1>8. ended \in [Executions -> ExecutionStates] /\ ended[e] = ex
  BY <1>1, <1>7, Zenon DEF TypeOK
<1>9. /\ freed \in [Sandboxes -> SandboxStates]
      /\ \A z \in Sandboxes : /\ z # s => freed[z] = sandboxes[z]
                              /\ freed[z].status = sandboxes[z].status
                              /\ freed[z].downloading = sandboxes[z].downloading
  BY <1>1, <1>5, SMTT(30) DEF TypeOK, SandboxStates
<1>10. /\ runners' \in [Executions -> Runners]
       /\ runners'[e].pc = "exited"
       /\ \A f \in Executions : /\ f # e => runners'[f] = runners[f]
                                /\ runners'[f].canceled = runners[f].canceled
  BY <1>1, <1>2 DEF TypeOK, Runners
<1>11. RecordExit(reported, ended, {e}) \in Buses
  <2> HIDE DEF ended
  <2>1. \A f \in {e} : ended[f].status \in ExecutionStatuses /\ executions[f].status \in ExecutionStatuses
    BY <1>3, <1>6, <1>7, <1>8, Zenon DEF ExecutionStatuses
  <2>2. /\ bus \in Buses /\ {e} \in SUBSET Executions /\ "output" \in EventKinds
        /\ executions \in [Executions -> ExecutionStates]
    BY <1>1, Zenon DEF TypeOK, EventKinds
  <2>3. reported \in Buses
    BY <1>8, <2>1, <2>2, RecordType, Zenon
  <2> HIDE DEF reported
  <2>4. QED
    BY <1>8, <2>1, <2>2, <2>3, RecordType, Zenon DEF EventKinds
<1>12. /\ IsFinal(ex.status) /\ (ex.cancelRequested <=> ex.status = "canceled")
       /\ IsActive(executions[e].status)
  BY <1>3, <1>6, <1>7, Zenon DEF IsFinal, IsActive
<1> HIDE DEF freed, reported
<1>13. Usage(freed, ended, runners', requests, cancels)
  BY <1>7, <1>9, <1>10, <1>12, EndedUsage, Zenon
<1>14. /\ requests' \in [Requests -> RequestStates] /\ cancels' \in SUBSET Executions
       /\ requests' = requests /\ cancels' = cancels /\ clock' = clock
  BY <1>1, <1>2, Zenon DEF TypeOK
<1> HIDE DEF ended
<1>15. QED
  BY <1>4, <1>8, <1>9, <1>10, <1>11, <1>13, <1>14, PruneStep, Zenon

(* CancelQueued: an execution that has not started ends as canceled.        *)
LEMMA CancelQueuedStep ==
    ASSUME UsageInv, NEW e \in Executions, NEW signal \in CancelSignals, CancelQueued(e, signal)
    PROVE  UsageInv'
<1> DEFINE m == MarkCanceled(executions[e], signal)
           marked == [executions EXCEPT ![e] = m]
<1>1. TypeOK /\ Usage(sandboxes, executions, runners, requests, cancels)
  BY DEF UsageInv
<1>2. /\ executions[e].status = "queued"
      /\ UNCHANGED <<runners, requests, cancels, clock>>
  BY Zenon DEF CancelQueued, callers
<1>3. PICK t \in 0 .. clock :
        LET ended == [marked EXCEPT ![e] = Finalize(marked[e], "canceled", CancelExitCode(signal), t)]
        IN  PruneState(sandboxes, ended,
                       RecordExit(RecordExecution(bus, marked, {e}, "message"), ended, {e}), {e}, t)
  BY Zenon DEF CancelQueued
<1> DEFINE ex == Finalize(m, "canceled", CancelExitCode(signal), t)
           ended == [executions EXCEPT ![e] = ex]
<1>4. /\ m \in ExecutionStates /\ m.cancelRequested /\ m.status = "queued"
      /\ m.cancel = executions[e].cancel /\ m.attach = executions[e].attach
      /\ signal \in Int
  <2>1. executions[e] \in ExecutionStates /\ signal \in Int
    BY <1>1, ServiceAssumption, Zenon DEF TypeOK
  <2>2. QED
    BY <1>2, <2>1, MarkedRecord, Zenon
<1> HIDE DEF m
<1>5. /\ marked \in [Executions -> ExecutionStates] /\ marked[e] = m
      /\ [marked EXCEPT ![e] = ex] = ended
  BY <1>1, <1>4, ZenonT(60) DEF TypeOK
<1>6. /\ ex \in ExecutionStates /\ ex.status = "canceled" /\ ex.cancelRequested
      /\ ex.cancel = m.cancel /\ ex.attach = m.attach
  <2>1. t \in Times /\ CancelExitCode(signal) \in Int /\ "canceled" \in FinalStatuses
    BY <1>1, <1>4, ServiceAssumption, CancelExitCodeType DEF TypeOK, Times, FinalStatuses
  <2>2. QED
    BY <1>4, <2>1, FinalizedRecord, SMTT(30)
<1>7. ~ex.cancel /\ ~ex.attach /\ runners[e].pc # "adapter"
  BY <1>1, <1>2, <1>4, <1>6, Zenon DEF Usage, Handles, HandlesOf
<1>8. PruneState(sandboxes, ended,
                 RecordExit(RecordExecution(bus, marked, {e}, "message"), ended, {e}), {e}, t)
  BY <1>3, <1>5, Zenon
<1> HIDE DEF ex
<1>9. ended \in [Executions -> ExecutionStates] /\ ended[e] = ex
  BY <1>1, <1>6, Zenon DEF TypeOK
<1>10. RecordExit(RecordExecution(bus, marked, {e}, "message"), ended, {e}) \in Buses
  <2> HIDE DEF ended, marked
  <2>1. \A f \in {e} : ended[f].status \in ExecutionStatuses /\ marked[f].status \in ExecutionStatuses
    BY <1>4, <1>5, <1>6, <1>9, Zenon DEF ExecutionStatuses, FinalStatuses
  <2>2. bus \in Buses /\ {e} \in SUBSET Executions /\ "message" \in EventKinds
    BY <1>1, Zenon DEF TypeOK, EventKinds
  <2>3. RecordExecution(bus, marked, {e}, "message") \in Buses
    BY <1>5, <2>1, <2>2, RecordType, ZenonT(60)
  <2>4. QED
    BY <1>9, <2>1, <2>2, <2>3, RecordType, Zenon
<1>11. /\ IsFinal(ex.status) /\ (ex.cancelRequested <=> ex.status = "canceled")
       /\ IsActive(executions[e].status)
  BY <1>2, <1>6 DEF IsFinal, IsActive, FinalStatuses
<1>12. /\ sandboxes \in [Sandboxes -> SandboxStates] /\ runners \in [Executions -> Runners]
       /\ requests' \in [Requests -> RequestStates] /\ cancels' \in SUBSET Executions
       /\ runners' = runners /\ requests' = requests /\ cancels' = cancels /\ clock' = clock
  BY <1>1, <1>2, Zenon DEF TypeOK
<1>13. Usage(sandboxes, ended, runners, requests, cancels)
  BY <1>6, <1>7, <1>11, <1>12, EndedUsage, ZenonT(60)
<1> HIDE DEF ended, marked
<1>14. QED
  BY <1>8, <1>9, <1>10, <1>12, <1>13, PruneStep, Zenon

-----------------------------------------------------------------------------
(* The theorems.                                                            *)

(* Every step of the service preserves the invariant.                       *)
LEMMA NextUsage == UsageInv /\ [Next]_vars => UsageInv'
<1> SUFFICES ASSUME UsageInv, [Next]_vars PROVE UsageInv'
  BY Zenon
<1>1. CASE SandboxNext
  <2>1. CASE \E s \in Sandboxes : CreateSandbox(s)
    BY <2>1, CreateSandboxStep
  <2>2. CASE \E r \in Requests, s \in Sandboxes : TerminateBegin(r, s)
    BY <2>2, TerminateBeginStep
  <2>3. CASE \E r \in Requests, s \in Sandboxes : TerminateStopped(r, s)
    BY <2>3, TerminateMoveStep, Zenon
  <2>4. CASE \E r \in Requests, s \in Sandboxes : DownloadBegin(r, s)
    BY <2>4, DownloadBeginStep
  <2>5. CASE \E r \in Requests : TerminateCancel(r)
    BY <2>5, TerminateCancelStep
  <2>6. CASE \E r \in Requests, ok \in BOOLEAN : TerminateBackend(r, ok)
    BY <2>6, TerminateMoveStep, Zenon
  <2>7. CASE \E r \in Requests : TerminateCommit(r)
    BY <2>7, TerminateCommitStep
  <2>8. CASE \E r \in Requests : DownloadEnd(r)
    BY <2>8, DownloadEndStep
  <2>9. QED
    BY <1>1, <2>1, <2>2, <2>3, <2>4, <2>5, <2>6, <2>7, <2>8, ZenonT(60) DEF SandboxNext
<1>2. CASE ExecutionNext
  <2>1. CASE \E e \in Executions, s \in Sandboxes, k \in ExecutionKinds : CreateExecution(e, s, k)
    BY <2>1, CreateExecutionStep, ZenonT(60)
  <2>2. CASE \E s \in Sandboxes : CreateExecutionRefused(s)
    BY <2>2, CreateExecutionRefusedStep
  <2>3. CASE \E e \in Executions : RunExecutionSkip(e)
    BY <2>3, RunExecutionSkipStep
  <2>4. CASE \E e \in Executions : RunExecutionStart(e)
    BY <2>4, RunExecutionStartStep
  <2>5. CASE \E e \in Executions : OutputChunk(e)
    BY <2>5, OutputChunkStep
  <2>6. CASE \E e \in Executions : SetAttachIO(e)
    BY <2>6, SetAttachIOStep
  <2>7. CASE \E e \in Executions, result \in {"error", "zero", "nonzero"}, m \in BOOLEAN :
               RunExecutionFinish(e, result, m)
    BY <2>7, RunExecutionFinishStep, Zenon
  <2>8. CASE \E e \in Executions, signal \in CancelSignals : CancelQueued(e, signal)
    BY <2>8, CancelQueuedStep
  <2>9. CASE \E e \in Executions, signal \in CancelSignals : CancelRunning(e, signal)
    BY <2>9, CancelRunningStep
  <2>10. CASE \E e \in Executions : CancelCall(e)
    BY <2>10, CancelCallStep
  <2>11. QED
    BY <1>2, <2>1, <2>2, <2>3, <2>4, <2>5, <2>6, <2>7, <2>8, <2>9, <2>10, ZenonT(60) DEF ExecutionNext
<1>3. CASE SessionNext \/ Tick
  BY <1>3, SessionStep, ZenonT(60)
<1>4. CASE UNCHANGED vars
  BY <1>4 DEF vars, maps, interactive, callers, UsageInv, TypeOK, Named
<1>5. QED
  BY <1>1, <1>2, <1>3, <1>4 DEF Next

(* The invariant holds in every reachable state of the service.             *)
THEOREM UsageInvariant == Spec => []UsageInv
BY InitUsage, NextUsage, PTL DEF Spec

(* The maps, the bus and the calls in flight stay well formed, whatever the *)
(* interleaving of the handlers.                                            *)
THEOREM TypeCorrect == Spec => []TypeOK
<1>1. UsageInv => TypeOK
  BY Zenon DEF UsageInv
<1>2. QED
  BY <1>1, UsageInvariant, PTL

(* No two unfinished executions, and no execution and download, or two      *)
(* downloads, ever share a sandbox (CreateExecution, DownloadSandboxFile).  *)
THEOREM ExclusiveUseHolds == Spec => []ExclusiveUse
<1>1. UsageInv => ExclusiveUse
  <2> SUFFICES ASSUME UsageInv PROVE ExclusiveUse
    BY ZenonT(60)
  <2>1. ASSUME NEW e \in Executions, NEW f \in Executions,
               IsActive(executions[e].status), IsActive(executions[f].status),
               executions[e].sandbox = executions[f].sandbox
        PROVE  e = f
    <3>1. /\ OwnedBy(sandboxes[executions[e].sandbox], executions[e], e)
          /\ OwnedBy(sandboxes[executions[f].sandbox], executions[f], f)
      BY <2>1, Zenon DEF UsageInv, Usage, Owned
    <3>2. QED
      BY <2>1, <3>1, Zenon DEF OwnedBy
  <2>2. ASSUME NEW r \in Requests, requests[r].pc = "download"
        PROVE  ~HasActiveExecution(executions, requests[r].sandbox)
    <3> SUFFICES ASSUME NEW e \in Executions, IsActive(executions[e].status),
                        executions[e].sandbox = requests[r].sandbox
                 PROVE  FALSE
      BY Zenon DEF HasActiveExecution
    <3>1. LET sb == sandboxes[requests[r].sandbox]
          IN  ~sb.downloading /\ sb.status \in {"ready", "stopping", "stopped"}
      <4>1. OwnedBy(sandboxes[executions[e].sandbox], executions[e], e)
        BY Zenon DEF UsageInv, Usage, Owned
      <4>2. QED
        BY <4>1, Zenon DEF OwnedBy
    <3>2. QED
      BY <2>2, <3>1, Zenon DEF UsageInv, Usage, Downloads, InMap
  <2>3. ASSUME NEW r \in Requests, NEW q \in Requests, requests[r].pc = "download",
               requests[q].pc = "download", requests[q].sandbox = requests[r].sandbox
        PROVE  q = r
    BY <2>3, Zenon DEF UsageInv, Usage, Downloads
  <2>4. QED
    BY <2>1, <2>2, <2>3, Zenon DEF ExclusiveUse
<1>2. QED
  BY <1>1, UsageInvariant, PTL

(* An execution ends as canceled exactly when a cancellation was accepted,  *)
(* however the adapter's return and the cancellation interleave.            *)
THEOREM CancelWinsHolds == Spec => []CancelWins
<1>1. UsageInv => CancelWins
  BY Zenon DEF UsageInv, Usage, Canceling, CancelWins
<1>2. QED
  BY <1>1, UsageInvariant, PTL

(* A cancellation accepted for a running execution reaches its run context  *)
(* or is on its way there.                                                  *)
THEOREM CancelNotLostHolds == Spec => []CancelNotLost
<1>1. UsageInv => CancelNotLost
  BY Zenon DEF UsageInv, Usage, Canceling, Called, CancelNotLost
<1>2. QED
  BY <1>1, UsageInvariant, PTL

(* An unfinished execution never outlives its sandbox record, and runs in a *)
(* sandbox that is no longer ready only once it has been told to stop.      *)
THEOREM NoWorkOutlivesSandboxHolds == Spec => []NoWorkOutlivesSandbox
<1>1. UsageInv => NoWorkOutlivesSandbox
  BY Zenon DEF UsageInv, Usage, Placed, Owned, OwnedBy, NoWorkOutlivesSandbox
<1>2. QED
  BY <1>1, UsageInvariant, PTL

(* The cancel function is there exactly while the adapter runs, the attach  *)
(* functions only then.                                                     *)
THEOREM HandlesFollowRunHolds == Spec => []HandlesFollowRun
<1>1. UsageInv => HandlesFollowRun
  BY Zenon DEF UsageInv, Usage, Handles, HandlesOf, HandlesFollowRun
<1>2. QED
  BY <1>1, UsageInvariant, PTL

(* DownloadInProgress is set exactly while a download is in flight.         *)
THEOREM DownloadFlagExactHolds == Spec => []DownloadFlagExact
<1>1. UsageInv => DownloadFlagExact
  BY Zenon DEF UsageInv, Usage, Downloads, DownloadFlagExact
<1>2. QED
  BY <1>1, UsageInvariant, PTL

=============================================================================
