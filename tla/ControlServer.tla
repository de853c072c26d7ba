---------------------------- MODULE ControlServer ----------------------------
(***************************************************************************)
(* The streaming RPC handlers of the control server                        *)
(* (internal/controlserver/server.go) on top of ControlService:            *)
(* StreamExecution and StreamSandboxEvents subscribe, send the history and *)
(* then follow the subscriber channel until it is closed, the Done channel *)
(* is closed or the client goes away.                                      *)
(*                                                                         *)
(*   streams[c]  the handler that owns subscriber channel c: where it is,  *)
(*               its topic, the history it has yet to send, what it has    *)
(*               sent, how the call ended, and whether the service had     *)
(*               closed its channel by then                                *)
(***************************************************************************)
EXTENDS ControlService

VARIABLE streams

serverVars == <<vars, streams>>

ServerInit ==
    /\ Init
    /\ streams = [c \in Streams |-> [pc |-> "idle", topic |-> NoId, follow |-> FALSE,
                                     todo |-> <<>>, sent |-> <<>>, result |-> "none",
                                     cut |-> FALSE]]

TopicInMap(k) == IF k \in Sandboxes THEN InMap(sandboxes[k]) ELSE InMap(executions[k])

(* unsubscribe() only finds a channel that is still registered.             *)
StreamEnd(c, b, state, result) ==
    /\ bus' = Unsubscribe(b, c)
    /\ streams' = [streams EXCEPT ![c] = [state EXCEPT !.pc = "ended", !.result = result,
                                                              !.cut = b.sub[c] = NoId]]

OnlyStream == UNCHANGED <<sandboxes, executions, interactive, callers, clock>>

StreamBegin(c, k, follow) ==
    /\ streams[c].pc = "idle"
    /\ TopicInMap(k)
    /\ bus' = Subscribe(bus, c, k)
    /\ streams' = [streams EXCEPT ![c] =
                     [pc |-> "history", topic |-> k, follow |-> follow,
                      todo |-> bus.hist[k], sent |-> <<>>, result |-> "none", cut |-> FALSE]]
    /\ OnlyStream

StreamHistory(c) ==
    LET sent == [streams[c] EXCEPT !.sent = streams[c].todo, !.todo = <<>>, !.pc = "follow"]
    IN  /\ streams[c].pc = "history"
        /\ IF streams[c].follow
           THEN streams' = [streams EXCEPT ![c] = sent] /\ UNCHANGED bus
           ELSE StreamEnd(c, bus, sent, "ok")
        /\ OnlyStream

(* An event from the channel, in the loop or in the final drain.            *)
StreamSend(c) ==
    /\ streams[c].pc \in {"follow", "drain"}
    /\ bus.buf[c] # <<>>
    /\ bus' = Receive(bus, c)
    /\ streams' = [streams EXCEPT ![c].sent = Append(streams[c].sent, Head(bus.buf[c]))]
    /\ OnlyStream

(* The channel is closed and empty: streamSubscriberDroppedErr.             *)
StreamClosed(c) ==
    /\ streams[c].pc = "follow"
    /\ bus.buf[c] = <<>>
    /\ c \in bus.closed
    /\ StreamEnd(c, bus, streams[c], IF streams[c].topic \in bus.done THEN "ok" ELSE "dropped")
    /\ OnlyStream

(* Mutant: the Done channel is not watched.                                 *)
StreamDoneIgnored(c) ==
    /\ streams[c].pc = "follow"
    /\ streams[c].topic \in bus.done
    /\ UNCHANGED serverVars

StreamDone(c) ==
    /\ streams[c].pc = "follow"
    /\ streams[c].topic \in bus.done
    /\ streams' = [streams EXCEPT ![c].pc = "drain"]
    /\ UNCHANGED bus
    /\ OnlyStream

(* Mutant: the events that are still buffered are not sent.                 *)
StreamDrainedEarly(c) ==
    /\ streams[c].pc = "drain"
    /\ StreamEnd(c, bus, streams[c], "ok")
    /\ OnlyStream

StreamDrained(c) ==
    /\ streams[c].pc = "drain"
    /\ bus.buf[c] = <<>>
    /\ StreamEnd(c, bus, streams[c], "ok")
    /\ OnlyStream

(* The call's context ends or a send fails.                                 *)
StreamAbort(c) ==
    /\ streams[c].pc \in {"history", "follow", "drain"}
    /\ StreamEnd(c, bus, streams[c], "gone")
    /\ OnlyStream

StreamStep(c) ==
    StreamHistory(c) \/ StreamSend(c) \/ StreamClosed(c) \/ StreamDone(c) \/ StreamDrained(c)

ServerNext ==
    \/ Next /\ UNCHANGED streams
    \/ \E c \in Streams, k \in Topics, follow \in BOOLEAN : StreamBegin(c, k, follow)
    \/ \E c \in Streams : StreamStep(c) \/ StreamAbort(c)

ServerSpec == ServerInit /\ [][ServerNext]_serverVars

(* A handler whose client reads goes on.                                    *)
ServerFairSpec == ServerSpec /\ Fairness /\ \A c \in Streams : WF_serverVars(StreamStep(c))

-----------------------------------------------------------------------------
(* The positions of the events that a stream has sent and still holds.      *)
StreamLine(c) == streams[c].sent \o streams[c].todo \o bus.buf[c]

(* A reader sees a contiguous stretch of the events of its topic: history   *)
(* and updates join without a gap or a duplicate, and while the stream is   *)
(* registered the stretch reaches the newest event (Subscribe*Events reads  *)
(* the history and registers in one critical section).                      *)
NoGapNoDuplicate ==
    \A c \in Streams : streams[c].pc \in {"history", "follow", "drain"} =>
        LET line == StreamLine(c)
        IN  /\ \A i \in 1 .. Len(line) - 1 : line[i + 1].n = line[i].n + 1
            /\ bus.sub[c] # NoId =>
                 /\ line # <<>>
                 /\ line[Len(line)].n = Published(bus.hist[streams[c].topic])

IsLastEvent(ev) == ev.kind = "exit" \/ ev.status = "stopped"

EndsWithExit(c) ==
    streams[c].pc = "ended" /\ streams[c].result = "ok" /\ streams[c].follow =>
        streams[c].sent # <<>> /\ IsLastEvent(streams[c].sent[Len(streams[c].sent)])

(* A followed stream whose channel the service did not close under it, and  *)
(* that ends without an error, has delivered the event that ends its topic: *)
(* the exit event of an execution, the stopped event of a sandbox           *)
(* (StreamExecution, StreamSandboxEvents: the drain after Done).            *)
PromptStreamEndsWithExit == \A c \in Streams : ~streams[c].cut => EndsWithExit(c)

(* "must terminate cleanly with final exit status signaling"                *)
(* (docs/spec.md): so does every followed stream that ends without an       *)
(* error, slow readers included (streamSubscriberDroppedErr).               *)
StreamEndsWithExit == \A c \in Streams : EndsWithExit(c)

(* A followed stream ends once its topic is over.                           *)
StreamTerminates ==
    \A c \in Streams :
        (streams[c].pc # "idle" /\ streams[c].topic \in bus.done) ~> (streams[c].pc = "ended")

=============================================================================
