-------------------------- MODULE InteractiveServer --------------------------
(***************************************************************************)
(* The QUIC server for interactive executions                              *)
(* (internal/interactivequic/server.go) on top of ControlService.  A       *)
(* connection runs three goroutines: handleConnection, the control loop    *)
(* and the stdin loop.  The latter two outlive the first.                  *)
(*                                                                         *)
(*   conns[x]  the connection that says hello with session x:              *)
(*     pc       where handleConnection is                                  *)
(*     frame    the control frame with which it ended, if any              *)
(*     left     the client closed or lost the connection                   *)
(*     cut      the service had closed its channel when the handler        *)
(*              returned                                                   *)
(*     control  the control loop, or what it put into controlErrCh         *)
(*     stdin    the stdin loop, or what it put into stdinErrCh             *)
(*     typed    the number of payloads read from the stdin stream          *)
(*     foreign  a payload of x was written to the execution while another  *)
(*              connection held it                                         *)
(*                                                                         *)
(* Subscriber channels are named by their session.                         *)
(***************************************************************************)
EXTENDS ControlService

CONSTANTS
    MaxStdin,         \* bound on the payloads of a connection
    ClientResizes     \* the clients send terminal sizes

ASSUME ConnAssumption ==
    Sessions = Streams /\ MaxStdin \in Nat /\ ClientResizes \in BOOLEAN

VARIABLE conns

connVars == <<vars, conns>>

ConnInit ==
    /\ Init
    /\ conns = [x \in Sessions |->
                  [pc |-> "idle", frame |-> "none", left |-> FALSE, cut |-> FALSE,
                   control |-> "off", stdin |-> "off", typed |-> 0, foreign |-> FALSE]]

ExecutionOf(x) == sessions[x].execution

-----------------------------------------------------------------------------
(* handleConnection.                                                        *)

Goto(x, pc) == conns' = [conns EXCEPT ![x].pc = pc]

(* return: the deferred calls unsubscribe, then (Unwind) release.           *)
Return(x, b, frame) ==
    /\ bus' = Unsubscribe(b, x)
    /\ conns' = [conns EXCEPT ![x].pc = "unwind", ![x].frame = frame,
                              ![x].cut = b.sub[x] = NoId]

OnlyConn == UNCHANGED <<sandboxes, executions, interactive, callers, clock>>

Hello(x) ==
    /\ conns[x].pc = "idle"
    /\ ConsumeInteractiveSession(x, TRUE)
    /\ conns' = [conns EXCEPT ![x].pc = IF sessions'[x].status = "held" THEN "hello" ELSE "ended",
                              ![x].frame = IF sessions'[x].status = "held" THEN "none" ELSE "error"]

(* The initial terminal size is applied to a live execution (a resize that  *)
(* is not supported yet is ignored); otherwise the connection is refused.   *)
InitialTTYSize(x) ==
    /\ conns[x].pc = "hello"
    /\ IF ClientResizes /\ ~IsActive(executions[ExecutionOf(x)].status)
       THEN Return(x, bus, "error")
       ELSE Goto(x, "subscribe") /\ UNCHANGED bus
    /\ OnlyConn

SubscribePTY(x) ==
    /\ conns[x].pc = "subscribe"
    /\ IF InMap(executions[ExecutionOf(x)])
       THEN /\ bus' = Subscribe(bus, x, ExecutionOf(x))
            /\ conns' = [conns EXCEPT ![x].control = "on", ![x].stdin = "read",
                           ![x].pc = IF \E i \in 1 .. Len(bus.hist[ExecutionOf(x)]) :
                                          bus.hist[ExecutionOf(x)][i].kind = "exit"
                                     THEN "history" ELSE "loop"]
       ELSE Return(x, bus, "error")
    /\ OnlyConn

(* The history holds the exit event.                                        *)
HistoryExit(x) ==
    /\ conns[x].pc = "history"
    /\ Return(x, bus, "exit")
    /\ OnlyConn

(* case event, ok := <-updates, in the loop and in the drain after done.    *)
ForwardEvent(x) ==
    /\ conns[x].pc \in {"loop", "drain"}
    /\ bus.buf[x] # <<>>
    /\ IF Head(bus.buf[x]).kind = "exit"
       THEN Return(x, Receive(bus, x), "exit")
       ELSE bus' = Receive(bus, x) /\ UNCHANGED conns
    /\ OnlyConn

(* Mutant: the drain stops before the channel is empty.                     *)
UpdatesClosedEarly(x) ==
    /\ conns[x].pc \in {"loop", "drain"}
    /\ x \in bus.closed \/ conns[x].pc = "drain"
    /\ Return(x, bus, "none")
    /\ OnlyConn

UpdatesClosed(x) ==
    /\ conns[x].pc \in {"loop", "drain"}
    /\ bus.buf[x] = <<>>
    /\ x \in bus.closed \/ conns[x].pc = "drain"
    /\ Return(x, bus, "none")
    /\ OnlyConn

ExecutionDone(x) ==
    /\ conns[x].pc = "loop"
    /\ ExecutionOf(x) \in bus.done
    /\ Goto(x, "drain")
    /\ UNCHANGED bus
    /\ OnlyConn

ControlErr(x) ==
    /\ conns[x].pc = "loop"
    /\ conns[x].control \in {"error", "eof"}
    /\ Return(x, bus, IF conns[x].control = "error" THEN "error" ELSE "none")
    /\ OnlyConn

StdinErr(x) ==
    /\ conns[x].pc = "loop"
    /\ conns[x].stdin = "error"
    /\ Return(x, bus, "error")
    /\ OnlyConn

Unwind(x) ==
    /\ conns[x].pc = "unwind"
    /\ ReleaseInteractiveExecution(x)
    /\ Goto(x, "ended")

(* The acknowledgement or the PTY stream fails.                             *)
AttachLost(x) ==
    /\ conns[x].pc \in {"hello", "subscribe"}
    /\ bus' = bus
    /\ conns' = [conns EXCEPT ![x].pc = "unwind", ![x].left = TRUE]
    /\ OnlyConn

-----------------------------------------------------------------------------
(* readControlLoop.                                                         *)

Cancel(e, signal) == CancelQueued(e, signal) \/ CancelRunning(e, signal)

ControlSignal(x, signal) ==
    /\ conns[x].control = "on"
    /\ Cancel(ExecutionOf(x), signal)
    /\ UNCHANGED conns

(* A resize that finds the execution over, or a signal that finds it pruned *)
(* ends the loop with an error.                                             *)
ControlRefused(x) ==
    /\ conns[x].control = "on"
    /\ \/ ClientResizes /\ ~IsActive(executions[ExecutionOf(x)].status)
       \/ ~InMap(executions[ExecutionOf(x)])
    /\ conns' = [conns EXCEPT ![x].control = "error"]
    /\ UNCHANGED vars

(* A close frame that does not detach cancels the execution first.          *)
ControlClose(x) ==
    /\ conns[x].control = "on"
    /\ Cancel(ExecutionOf(x), 2)
    /\ conns' = [conns EXCEPT ![x].control = "eof", ![x].left = TRUE]

(* A detaching close frame, or the end of the connection.                   *)
ControlEnd(x) ==
    /\ conns[x].control = "on"
    /\ conns' = [conns EXCEPT ![x].control = "eof", ![x].left = TRUE]
    /\ UNCHANGED vars

-----------------------------------------------------------------------------
(* readStdinLoop and writeInteractiveStdinWithRetry.  The retry stops only  *)
(* when the write is possible, the execution is over or the server stops.   *)

StdinRead(x) ==
    /\ conns[x].stdin = "read"
    /\ conns[x].typed < MaxStdin
    /\ ~conns[x].left
    /\ conns' = [conns EXCEPT ![x].stdin = "write", ![x].typed = conns[x].typed + 1]
    /\ UNCHANGED vars

HeldByAnother(x) ==
    \E y \in Sessions \ {x} : sessions[y].status = "held" /\ ExecutionOf(y) = ExecutionOf(x)

(* Mutant: the retry does not stop when the execution is over.              *)
StdinWriteForever(x) ==
    /\ conns[x].stdin = "write"
    /\ executions[ExecutionOf(x)].attach
    /\ conns' = [conns EXCEPT ![x].stdin = "read"]
    /\ UNCHANGED vars

StdinWrite(x) ==
    /\ conns[x].stdin = "write"
    /\ executions[ExecutionOf(x)].attach \/ ~IsActive(executions[ExecutionOf(x)].status)
    /\ conns' = [conns EXCEPT
                   ![x].stdin = IF IsActive(executions[ExecutionOf(x)].status)
                                THEN "read" ELSE "error",
                   ![x].foreign = \/ conns[x].foreign
                                  \/ /\ IsActive(executions[ExecutionOf(x)].status)
                                     /\ HeldByAnother(x)]
    /\ UNCHANGED vars

StdinEnd(x) ==
    /\ conns[x].stdin = "read"
    /\ conns[x].left \/ conns[x].pc \in {"unwind", "ended"}
    /\ conns' = [conns EXCEPT ![x].stdin = "off"]
    /\ UNCHANGED vars

-----------------------------------------------------------------------------
HandlerStep(x) ==
    \/ InitialTTYSize(x)
    \/ SubscribePTY(x)
    \/ HistoryExit(x)
    \/ ForwardEvent(x)
    \/ UpdatesClosed(x)
    \/ ExecutionDone(x)
    \/ ControlErr(x)
    \/ StdinErr(x)
    \/ Unwind(x)

ConnNext ==
    \/ (SandboxNext \/ ExecutionNext \/ Tick) /\ UNCHANGED conns
    \/ \E x \in Sessions :
         \/ (\E e \in Executions : OpenInteractiveExecution(x, e)) /\ UNCHANGED conns
         \/ Hello(x)
         \/ HandlerStep(x)
         \/ AttachLost(x)
         \/ \E signal \in CancelSignals : ControlSignal(x, signal)
         \/ ControlRefused(x)
         \/ ControlClose(x)
         \/ ControlEnd(x)
         \/ StdinRead(x)
         \/ StdinWrite(x)
         \/ StdinEnd(x)

ConnSpec == ConnInit /\ [][ConnNext]_connVars

(* The goroutines of a connection are scheduled.                            *)
ConnFairSpec ==
    ConnSpec /\ \A x \in Sessions : WF_connVars(HandlerStep(x)) /\ WF_connVars(StdinWrite(x))

-----------------------------------------------------------------------------
(* A connection that follows the execution, whose client stays, whose loops *)
(* report no error and whose channel the service did not close under it     *)
(* ends with the exit frame, whichever of the exit event and Done it sees   *)
(* first (handleConnection: the drain after Done).                          *)
QuietConnectionGetsExit ==
    \A x \in Sessions :
        (/\ conns[x].pc \in {"unwind", "ended"}
         /\ conns[x].control = "on"
         /\ conns[x].stdin # "error"
         /\ ~conns[x].left
         /\ ~conns[x].cut) => conns[x].frame = "exit"

(* "execution canceled/terminated: send exit with status + code, then       *)
(* close" (docs/plans/interactive-tty-streaming.md): a connection that is   *)
(* admitted, and whose client stays, ends with the exit frame of the        *)
(* execution (handleConnection).                                            *)
ExitFrameSent ==
    \A x \in Sessions :
        (/\ conns[x].pc \in {"unwind", "ended"}
         /\ sessions[x].status = "held" \/ conns[x].control # "off"
         /\ ~conns[x].left) => conns[x].frame = "exit"

(* Terminal input reaches an execution only from the connection that holds  *)
(* it, or when none does (writeInteractiveStdinWithRetry).                  *)
OnlyHolderWrites == \A x \in Sessions : ~conns[x].foreign

(* When the execution is over every goroutine that works for one of its     *)
(* connections comes to an end: the handler returns, its deferred call has  *)
(* released the session, on whichever path it returned, and the stdin loop  *)
(* stops retrying (handleConnection, writeInteractiveStdinWithRetry).       *)
ConnectionsWindUp ==
    \A x \in Sessions :
        (ExecutionOf(x) \in bus.done /\ conns[x].pc # "idle")
            ~> (conns[x].pc = "ended" /\ sessions[x].status # "held" /\ conns[x].stdin # "write")

=============================================================================
