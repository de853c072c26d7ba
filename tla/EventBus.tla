------------------------------ MODULE EventBus ------------------------------
(***************************************************************************)
(* The event log that the control service keeps for every sandbox and      *)
(* every execution (a topic): a bounded history, a Done channel and the    *)
(* subscriber channels.  The service mutates it only under its mutex, so   *)
(* each function of the code is an operator from one value of the bus to   *)
(* the next.                                                               *)
(*                                                                         *)
(*   hist[k]    EventHistory of topic k (appendBounded keeps a suffix)     *)
(*   done       the topics whose Done channel is closed                    *)
(*   sub[c]     the topic in whose EventSubscribers channel c is, or NoId  *)
(*   buf[c]     the events buffered in channel c                           *)
(*   closed     the channels that have been closed                         *)
(*                                                                         *)
(* An event carries n, its position among all the events ever published on *)
(* its topic.  The code has no such number; it is there to state that a    *)
(* reader sees no gap and no duplicate.                                    *)
(***************************************************************************)
EXTENDS Integers, Sequences

CONSTANTS
    Sandboxes,                    \* sandbox ids (numbers: evictions break ties by id)
    Executions,                   \* execution ids
    Streams,                      \* subscriber channels
    NoId,                         \* the empty id
    MaxRetainedSandboxEvents,
    MaxRetainedExecutionEvents,
    SandboxSubscriberBuffer,
    ExecutionSubscriberBuffer

Topics == Sandboxes \cup Executions

ASSUME IdsAssumption ==
    /\ Sandboxes \subseteq Nat
    /\ Executions \subseteq Nat
    /\ Sandboxes \cap Executions = {}
    /\ NoId \in Nat \ (Sandboxes \cup Executions)

ASSUME LimitsAssumption ==
    /\ MaxRetainedSandboxEvents \in Nat \ {0}
    /\ MaxRetainedExecutionEvents \in Nat \ {0}
    /\ SandboxSubscriberBuffer \in Nat \ {0}
    /\ ExecutionSubscriberBuffer \in Nat \ {0}

SandboxStatuses == {"ready", "stopping", "stopped"}
FinalStatuses == {"succeeded", "failed", "canceled", "timed_out"}
ExecutionStatuses == {"queued", "running"} \cup FinalStatuses

EventKinds == {"state", "message", "output", "exit"}
Events == [n : Nat \ {0}, kind : EventKinds, status : SandboxStatuses \cup ExecutionStatuses]

Buses == [hist : [Topics -> Seq(Events)], done : SUBSET Topics,
          sub : [Streams -> Topics \cup {NoId}], buf : [Streams -> Seq(Events)],
          closed : SUBSET Streams]

InitBus == [hist |-> [k \in Topics |-> <<>>], done |-> {},
            sub |-> [c \in Streams |-> NoId], buf |-> [c \in Streams |-> <<>>],
            closed |-> {}]

HistoryLimit(k) ==
    IF k \in Sandboxes THEN MaxRetainedSandboxEvents ELSE MaxRetainedExecutionEvents

BufferLimit(k) ==
    IF k \in Sandboxes THEN SandboxSubscriberBuffer ELSE ExecutionSubscriberBuffer

AppendBounded(items, item, limit) ==
    LET all == Append(items, item)
    IN  IF Len(all) <= limit THEN all ELSE SubSeq(all, Len(all) - limit + 1, Len(all))

Published(hist) == IF hist = <<>> THEN 0 ELSE hist[Len(hist)].n

(* Mutant: a full channel loses the event but stays registered.             *)
RecordEventLossy(b, K, kind, statusOf) ==
    LET event(k) == [n |-> Published(b.hist[k]) + 1, kind |-> kind, status |-> statusOf[k]]
    IN  [b EXCEPT
           !.hist = [k \in Topics |-> IF k \in K
                                      THEN AppendBounded(b.hist[k], event(k), HistoryLimit(k))
                                      ELSE b.hist[k]],
           !.buf = [c \in Streams |->
                      IF b.sub[c] \in K /\ Len(b.buf[c]) < BufferLimit(b.sub[c])
                      THEN Append(b.buf[c], event(b.sub[c])) ELSE b.buf[c]]]

(* One event on each topic of K: a subscriber whose channel is full is      *)
(* closed and forgotten.                                                    *)
RecordEvent(b, K, kind, statusOf) ==
    LET event(k) == [n |-> Published(b.hist[k]) + 1, kind |-> kind, status |-> statusOf[k]]
        full == {c \in Streams : b.sub[c] \in K /\ Len(b.buf[c]) >= BufferLimit(b.sub[c])}
    IN  [hist |-> [k \in Topics |-> IF k \in K
                                    THEN AppendBounded(b.hist[k], event(k), HistoryLimit(k))
                                    ELSE b.hist[k]],
         done |-> b.done,
         sub |-> [c \in Streams |-> IF c \in full THEN NoId ELSE b.sub[c]],
         buf |-> [c \in Streams |-> IF b.sub[c] \in K /\ c \notin full
                                    THEN Append(b.buf[c], event(b.sub[c]))
                                    ELSE b.buf[c]],
         closed |-> b.closed \cup full]

CloseDone(b, K) == [b EXCEPT !.done = b.done \cup K]

CloseSubscribers(b, K) ==
    [b EXCEPT !.sub = [c \in Streams |-> IF b.sub[c] \in K THEN NoId ELSE b.sub[c]],
              !.closed = b.closed \cup {c \in Streams : b.sub[c] \in K}]

(* A new channel: born closed when the topic is already done.               *)
Subscribe(b, c, k) ==
    IF k \in b.done THEN [b EXCEPT !.closed = b.closed \cup {c}]
                    ELSE [b EXCEPT !.sub[c] = k]

Unsubscribe(b, c) ==
    IF b.sub[c] = NoId THEN b
    ELSE [b EXCEPT !.sub[c] = NoId, !.closed = b.closed \cup {c}]

(* The reader takes one buffered event.                                     *)
Receive(b, c) == [b EXCEPT !.buf[c] = Tail(b.buf[c])]

=============================================================================
