--------------------------- MODULE ConsoleClient ---------------------------
(***************************************************************************)
(* cleanroom console (ConsoleCommand.Run of internal/cli/cli.go) and the   *)
(* client's end of an interactive connection                               *)
(* (internal/interactivequic/client.go).  The command reads the terminal   *)
(* stream; readControlEvents decodes control frames into eventCh, and a    *)
(* goroutine turns them into an exit code or an error.  When the exit code *)
(* does not come in time the command asks for the execution.               *)
(*                                                                         *)
(*   pty     the terminal stream: open, ended with output to be read       *)
(*           ("tail") or none ("eof"), ended by the close of the           *)
(*           connection, or broken                                         *)
(*   ctl     the control stream: the frame to be decoded, and its end      *)
(*   events  eventCh and eventErr as readControlEvents leaves them         *)
(*   pump    the goroutine that reads events, with what it put into        *)
(*           exitCodeCh (code) and controlErrCh (err)                      *)
(*   read    what the last ReadPTY returned                                *)
(*                                                                         *)
(* Terminal input, sizes and the bytes of the output are passed on.        *)
(***************************************************************************)
EXTENDS ExecClients

VARIABLES pty, ctl, events, pump, read

sessionVars == <<pty, ctl, events, pump, read>>
consoleVars == <<execVars, sessionVars>>

ConsoleInit ==
    /\ ExecInit
    /\ pty = "none"
    /\ ctl = [frame |-> "none", end |-> "open"]
    /\ events = [frame |-> "none", end |-> "open"]
    /\ pump = [at |-> "off", code |-> NoCode, err |-> "none"]
    /\ read = "none"

-----------------------------------------------------------------------------
(* OpenInteractiveExecution refuses an execution that is over: its history  *)
(* is replayed.  Any other error is returned.                               *)
ConsoleOpen ==
    /\ ClientAt("open")
    /\ \/ plane.exec = "running" /\ ClientGoto("dial") /\ UNCHANGED signals
       \/ plane.exec = "final" /\ ClientGoto("replay") /\ UNCHANGED signals
       \/ Leave("error", NoCode)
    /\ UNCHANGED <<plane, stream, sessionVars>>

(* Dial with its hello: acceptPTY and readControlEvents are started.        *)
SessionOpens ==
    /\ pty' = "open"
    /\ pump' = [pump EXCEPT !.at = "reading"]
    /\ UNCHANGED <<ctl, events, read>>

(* endpoint.Resolve fails; Dial fails; or the goroutines of the command are *)
(* started.                                                                 *)
ConsoleDial ==
    /\ ClientAt("dial")
    /\ \/ Leave("error", NoCode) /\ UNCHANGED sessionVars
       \/ ClientGoto("resolve") /\ UNCHANGED <<signals, sessionVars>>
       \/ /\ ClientGoto("pty")
          /\ signals' = [signals EXCEPT !.at = "idle"]
          /\ SessionOpens
    /\ UNCHANGED <<plane, stream>>

(* replayExecutionHistory: the history of an execution that is over holds   *)
(* its exit event.  After a refused open a stream that fails is an error.   *)
ConsoleReplay ==
    /\ ClientAt("replay")
    /\ \/ FinalExitCode # NoCode /\ Leave("code", FinalExitCode)
       \/ Leave("error", NoCode)
    /\ UNCHANGED <<plane, stream, sessionVars>>

(* After a failed Dial a history without an exit event, or none at all, is  *)
(* followed by GetExecution.                                                *)
ResolveDialFailure ==
    /\ ClientAt("resolve")
    /\ \/ FinalExitCode # NoCode /\ Leave("code", FinalExitCode)
       \/ ClientGoto("fetch") /\ UNCHANGED signals
    /\ UNCHANGED <<plane, stream, sessionVars>>

(* ReadPTY returns output or the end of the stream; output that cannot be   *)
(* written ends the command.                                                *)
ConsoleReadEnd ==
    /\ ClientAt("pty") /\ pty \in {"eof", "closed", "broken"}
    /\ read' = pty
    /\ ClientGoto("poll")
    /\ UNCHANGED <<plane, stream, signals, pty, ctl, events, pump>>

ConsoleReadOutput ==
    /\ ClientAt("pty") /\ pty \in {"open", "tail"}
    /\ pty' = IF pty = "tail" THEN "eof" ELSE pty
    /\ \/ read' = "output" /\ ClientGoto("poll") /\ UNCHANGED signals
       \/ UNCHANGED read /\ Leave("error", NoCode)
    /\ UNCHANGED <<plane, stream, ctl, events, pump>>

(* What follows the poll in the loop.                                       *)
AfterPoll(code) ==
    IF read = "output"
    THEN /\ client' = [client EXCEPT !.at = "pty", !.code = code]
         /\ UNCHANGED signals
    ELSE IF read = "broken" THEN Leave("error", NoCode)
    ELSE IF code # NoCode THEN Leave("code", code)
    ELSE ClientGoto("wait") /\ UNCHANGED signals

(* pollInteractiveExitOrControlErr: first the exit code, then an error,     *)
(* which only matters when it is not the end of the connection.             *)
ConsolePoll ==
    /\ ClientAt("poll")
    /\ IF pump.code # NoCode
       THEN pump' = [pump EXCEPT !.code = NoCode] /\ AfterPoll(pump.code)
       ELSE /\ pump' = [pump EXCEPT !.err = "none"]
            /\ IF pump.err = "fatal" THEN Leave("error", NoCode) ELSE AfterPoll(client.code)
    /\ UNCHANGED <<plane, stream, pty, ctl, events, read>>

(* waitForInteractiveExitOrControlErr.  A channel that is closed drops out  *)
(* of the select.                                                           *)
ConsoleWait ==
    /\ ClientAt("wait")
    /\ \/ /\ pump.code # NoCode
          /\ Leave("code", pump.code)
          /\ UNCHANGED pump
       \/ /\ pump.err # "none"
          /\ pump' = [pump EXCEPT !.err = "none"]
          /\ IF pump.err = "fatal" THEN Leave("error", NoCode) ELSE UNCHANGED <<client, signals>>
    /\ UNCHANGED <<plane, stream, pty, ctl, events, read>>

(* Mutant: the wait for the exit code has no deadline.                      *)
ConsoleWaitsOn ==
    /\ ClientAt("wait") /\ pump.code # NoCode
    /\ ClientGoto("fetch")
    /\ UNCHANGED <<plane, stream, signals, sessionVars>>

ConsoleWaitExpires ==
    /\ ClientAt("wait")
    /\ ClientGoto("fetch")
    /\ UNCHANGED <<plane, stream, signals, sessionVars>>

-----------------------------------------------------------------------------
(* The goroutines.                                                          *)

(* readControlEvents: a frame goes to eventCh; the end of the stream closes *)
(* the channels.                                                            *)
ReadControlEvents ==
    /\ pty # "none" /\ events.end = "open"
    /\ \/ /\ ctl.frame # "none" /\ events.frame = "none"
          /\ events' = [events EXCEPT !.frame = ctl.frame]
          /\ ctl' = [ctl EXCEPT !.frame = "none"]
       \/ /\ ctl.frame = "none" /\ ctl.end # "open"
          /\ events' = [events EXCEPT !.end = ctl.end]
          /\ UNCHANGED ctl
    /\ UNCHANGED <<execVars, pty, pump, read>>

(* The goroutine that ranges over Events and then reads EventErr.           *)
PumpEvents ==
    /\ pump.at = "reading"
    /\ \/ /\ events.frame = "exit"
          /\ pump' = [pump EXCEPT !.at = "done", !.code = plane.code]
          /\ events' = [events EXCEPT !.frame = "none"]
       \/ /\ events.frame = "error"
          /\ pump' = [pump EXCEPT !.at = "done", !.err = "fatal"]
          /\ events' = [events EXCEPT !.frame = "none"]
       \/ /\ events.frame = "none" /\ events.end # "open"
          /\ pump' = [pump EXCEPT !.at = "done",
                                  !.err = IF events.end = "broken" THEN "fatal" ELSE "benign"]
          /\ UNCHANGED events
    /\ UNCHANGED <<execVars, pty, ctl, read>>

(* The goroutine that forwards signals: the server cancels the execution.   *)
ForwardSignal ==
    /\ client.kind = "console"
    /\ signals.at = "idle" /\ signals.pending > 0
    /\ signals' = [signals EXCEPT !.pending = @ - 1]
    /\ \E arrives \in BOOLEAN : plane' = [plane EXCEPT !.cancel = plane.cancel \/ arrives]
    /\ UNCHANGED <<client, stream, sessionVars>>

-----------------------------------------------------------------------------
(* The server's end, as InteractiveServer has it: the exit of the execution *)
(* ends the terminal stream and sends the exit frame, and the connection    *)
(* stays; every other end closes it, after an error frame that may not      *)
(* arrive.  Or the connection is lost.                                      *)
SessionEnds ==
    /\ pty = "open"
    /\ \/ /\ plane.exec = "final"
          /\ pty' \in {"tail", "eof"} /\ ctl' = [ctl EXCEPT !.frame = "exit"]
       \/ /\ pty' = "closed"
          /\ \E f \in {"none", "error"} : ctl' = [frame |-> f, end |-> "closed"]
    /\ UNCHANGED <<execVars, events, pump, read>>

SessionBreaks ==
    /\ pty \in {"open", "tail", "eof"} /\ ctl.end = "open"
    /\ pty' \in {"broken"} \cup ({pty} \cap {"eof"})
    /\ \E f \in {"none", ctl.frame} : ctl' = [frame |-> f, end |-> "broken"]
    /\ UNCHANGED <<execVars, events, pump, read>>

-----------------------------------------------------------------------------
ConsoleStep ==
    \/ ConsoleOpen \/ ConsoleDial \/ ConsoleReplay \/ ResolveDialFailure
    \/ ConsoleReadEnd \/ ConsolePoll \/ ConsoleWait \/ ConsoleWaitExpires

(* What the main goroutine does without waiting for output.                 *)
MainStep ==
    \/ ClientStep /\ UNCHANGED sessionVars
    \/ ConsoleStep
    \/ ConsoleReadOutput /\ pty = "tail"

GoroutineStep == ReadControlEvents \/ PumpEvents

ConsoleNext ==
    \/ ExecNext /\ UNCHANGED sessionVars
    \/ ConsoleStep \/ ConsoleReadOutput
    \/ GoroutineStep \/ ForwardSignal
    \/ SessionEnds \/ SessionBreaks

ConsoleSpec == ConsoleInit /\ [][ConsoleNext]_consoleVars

(* As ExecFair, with the goroutines of the session; the deadline of the     *)
(* wait passes.                                                             *)
ConsoleFair ==
    /\ WF_consoleVars(MainStep)
    /\ WF_consoleVars(SignalStep /\ UNCHANGED sessionVars)
    /\ WF_consoleVars(GoroutineStep)

ConsoleFairSpec == ConsoleSpec /\ ConsoleFair

-----------------------------------------------------------------------------
ClientGone == client.at \in {"returned", "killed"}

(* A client comes back although the execution runs on or its end is not     *)
(* told: exec after the second interrupt, console when the terminal stream  *)
(* is over, although the exit frame may be late or lost and nobody closes   *)
(* the channels (the signal goroutine of exec and streamCancel,             *)
(* waitForInteractiveExitOrControlErr, readControlEvents).                  *)
ClientReturns ==
    /\ (client.kind = "exec" /\ signals.taken + signals.pending >= 2) ~> ClientGone
    /\ (ClientAt("pty") /\ pty # "open") ~> ClientGone

=============================================================================
