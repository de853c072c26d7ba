---------------------------- MODULE ExecClients ----------------------------
(***************************************************************************)
(* The clients that run one command in a sandbox and report its outcome:   *)
(* cleanroom exec (ExecCommand.Run of internal/cli/cli.go) with its signal *)
(* goroutine, and ExecAndWait of the Go client (client/ergonomics.go).     *)
(* ConsoleClient adds cleanroom console.                                   *)
(*                                                                         *)
(*   client  kind, whether --rm was given, where it is, the status and the *)
(*           exit code that it has seen, what it returned; stopped: it has *)
(*           tried to cancel the execution, or to terminate the sandbox    *)
(*   plane   the control plane: the sandbox, the execution and its exit    *)
(*           code, and whether a request to cancel it arrived              *)
(*   stream  StreamExecution as the client finds it: "following" the       *)
(*           execution, with its "exit" event to be read, "over" with no   *)
(*           error, "failed", or "canceled"; a run that failed has put a   *)
(*           "notice" in front, its error as output with the final status  *)
(*   signals interrupts in signalCh, those taken from it, where the signal *)
(*           goroutine is, and the token in secondInterrupt                *)
(*                                                                         *)
(* Any request may fail, before it took effect or after.  Output is passed *)
(* on; only the status that comes with an event is kept: "running", "ended"*)
(* from a notice, or "final" together with the exit code.                  *)
(***************************************************************************)
EXTENDS Naturals

CONSTANTS
    Kinds,            \* the clients of this instance
    ExitCodes, NoCode,
    SignalCapacity    \* of signalCh

ASSUME ClientAssumption ==
    /\ Kinds \subseteq {"exec", "library", "console"}
    /\ NoCode \notin ExitCodes
    /\ SignalCapacity \in Nat \ {0}

VARIABLES client, plane, stream, signals

execVars == <<client, plane, stream, signals>>

Registered == signals.at # "off"

(* An execution that ended by a signal of its own or of the user is like    *)
(* any other: it has an exit code.                                          *)
ExecInit ==
    /\ \E k \in Kinds, remove \in BOOLEAN :
         /\ k = "library" => ~remove
         /\ client = [kind |-> k, remove |-> remove, at |-> "sandbox", seen |-> "none",
                      code |-> NoCode, result |-> "none", stopped |-> FALSE]
    /\ \E sandbox \in {"none", "ready"} :
         /\ client.kind = "library" => sandbox = "ready"
         /\ plane = [sandbox |-> sandbox, exec |-> "none", code |-> NoCode, cancel |-> FALSE]
    /\ stream = "none"
    /\ signals = [pending |-> 0, taken |-> 0, at |-> "off", second |-> FALSE]

-----------------------------------------------------------------------------
ClientAt(label) == client.at = label
ClientGoto(label) == client' = [client EXCEPT !.at = label]

(* A return behind the deferred terminateSandboxBestEffort; stopSignals is  *)
(* the first deferred call to run.                                          *)
Leave(result, code) ==
    /\ client' = [client EXCEPT !.at = IF client.kind = "library" THEN "returned" ELSE "deferred",
                                !.result = result, !.code = code]
    /\ signals' = [signals EXCEPT !.at = "off"]

(* ensureSandboxID, and the id printed on request: the sandbox is given, or *)
(* is created; a failure returns with nothing deferred.                     *)
ObtainSandbox ==
    /\ ClientAt("sandbox")
    /\ \/ /\ ClientGoto("create")
          /\ plane' = [plane EXCEPT !.sandbox = "ready"]
       \/ /\ client.kind # "library"
          /\ client' = [client EXCEPT !.at = "returned", !.result = "refused"]
          /\ \E s \in {plane.sandbox, "ready"} : plane' = [plane EXCEPT !.sandbox = s]
    /\ UNCHANGED <<stream, signals>>

RequestExecution ==
    /\ ClientAt("create")
    /\ \/ /\ plane' = [plane EXCEPT !.exec = "running"]
          /\ ClientGoto(IF client.kind = "console" THEN "open" ELSE "stream")
          /\ UNCHANGED signals
       \/ /\ \E e \in {"none", "running"} : plane' = [plane EXCEPT !.exec = e]
          /\ Leave("not created", NoCode)
    /\ UNCHANGED stream

(* Mutant: ExecAndWait returns the error of the stream as it is.            *)
BrokenStreamKept ==
    /\ Leave("error", NoCode)
    /\ UNCHANGED <<plane, stream>>

(* The stream cannot be had, or breaks: ExecAndWait cancels the execution   *)
(* (cancelExecutionBestEffort), exec does not.                              *)
BrokenStream ==
    /\ IF client.kind = "library"
       THEN ClientGoto("cancel") /\ UNCHANGED signals
       ELSE Leave("error", NoCode)
    /\ UNCHANGED <<plane, stream>>

OpenStream ==
    /\ ClientAt("stream")
    /\ \/ /\ stream' \in IF plane.exec = "final" THEN {"exit", "notice, exit"} ELSE {"following"}
          /\ ClientGoto("receive")
          /\ signals' = IF client.kind = "exec" THEN [signals EXCEPT !.at = "idle"] ELSE signals
          /\ UNCHANGED plane
       \/ BrokenStream

Notices == {"notice, exit", "notice, over"}
Streaming == {"following", "exit"} \cup Notices

(* An event with output arrives.  Only exec returns when it cannot write    *)
(* the output.                                                              *)
TakeOutput(status) ==
    \/ client' = [client EXCEPT !.seen = status] /\ UNCHANGED signals
    \/ client.kind = "exec" /\ Leave("error", NoCode)

(* stream.Receive with an event of the running execution.                   *)
ReceiveOutput ==
    /\ ClientAt("receive") /\ stream \in Streaming
    /\ client.seen # "ended"
    /\ TakeOutput("running")
    /\ UNCHANGED <<plane, stream>>

(* stream.Receive with the error of a failed run: it has the final status   *)
(* and no exit code.                                                        *)
ReceiveNotice ==
    /\ ClientAt("receive") /\ stream \in Notices
    /\ TakeOutput("ended")
    /\ stream' = IF stream = "notice, exit" THEN "exit" ELSE "over"
    /\ UNCHANGED plane

(* The exit event; the stream may still break behind it.                    *)
ReceiveExit ==
    /\ ClientAt("receive") /\ stream = "exit"
    /\ client' = [client EXCEPT !.seen = "final", !.code = plane.code]
    /\ stream' \in {"over", "failed", "canceled"}
    /\ UNCHANGED <<plane, signals>>

(* ExecAndWait after the loop.                                              *)
LibraryStreamEnds ==
    /\ ClientAt("receive") /\ client.kind = "library"
    /\ stream \in {"over", "failed", "canceled"}
    /\ IF stream # "over" THEN BrokenStream
       ELSE /\ IF client.seen = "none" THEN ClientGoto("fetch") /\ UNCHANGED signals
               ELSE Leave("result", client.code)
            /\ UNCHANGED <<plane, stream>>

(* exec after the loop: the token of the signal goroutine, then the error   *)
(* of the stream, then the exit code.                                       *)
ExecStreamEnds ==
    /\ ClientAt("receive") /\ client.kind = "exec"
    /\ stream \in {"over", "failed", "canceled"}
    /\ IF signals.second THEN ClientGoto("detach") /\ UNCHANGED signals
       ELSE IF stream = "failed" THEN Leave("error", NoCode)
       ELSE IF client.code # NoCode THEN Leave("code", client.code)
       ELSE ClientGoto("fetch") /\ UNCHANGED signals
    /\ UNCHANGED <<plane, stream>>

(* Mutant: the status is not looked at.                                     *)
FinalExitCodeUnchecked == IF plane.code = NoCode THEN 0 ELSE plane.code

(* getFinalExecutionExitCode.                                               *)
FinalExitCode == IF plane.exec = "final" THEN plane.code ELSE NoCode

(* GetExecution: ExecAndWait returns whatever it answers.                   *)
FetchOutcome ==
    /\ ClientAt("fetch")
    /\ \/ Leave("error", NoCode)
       \/ IF client.kind = "library"
          THEN /\ client' = [client EXCEPT !.at = "returned", !.result = "result",
                                           !.seen = plane.exec, !.code = plane.code]
               /\ UNCHANGED signals
          ELSE FinalExitCode # NoCode /\ Leave("code", FinalExitCode)
    /\ UNCHANGED <<plane, stream>>

CancelBestEffort ==
    /\ ClientAt("cancel")
    /\ \E arrives \in BOOLEAN : plane' = [plane EXCEPT !.cancel = plane.cancel \/ arrives]
    /\ client' = [client EXCEPT !.at = "returned", !.result = "error", !.code = NoCode,
                                !.stopped = TRUE]
    /\ UNCHANGED <<stream, signals>>

(* terminateSandboxBestEffort: in the detached case with a timeout and at   *)
(* once, otherwise deferred.  Without --rm nothing happens.                 *)
Terminate ==
    /\ ClientAt("detach") \/ ClientAt("deferred")
    /\ client' = [client EXCEPT !.at = "returned",
                                !.result = IF ClientAt("detach") THEN "detached" ELSE @,
                                !.stopped = client.remove]
    /\ \E s \in IF client.remove THEN {plane.sandbox, "stopped"} ELSE {plane.sandbox} :
         plane' = [plane EXCEPT !.sandbox = s]
    /\ signals' = [signals EXCEPT !.at = "off"]
    /\ UNCHANGED stream

-----------------------------------------------------------------------------
(* Interrupts.  One that comes before notifySignals, or after stopSignals,  *)
(* ends the process.                                                        *)

Interrupt ==
    /\ client.kind # "library"
    /\ client.at \notin {"returned", "killed"}
    /\ IF Registered
       THEN /\ signals.pending < SignalCapacity
            /\ signals' = [signals EXCEPT !.pending = @ + 1]
            /\ UNCHANGED client
       ELSE ClientGoto("killed") /\ UNCHANGED signals
    /\ UNCHANGED <<plane, stream>>

TakeSignal ==
    /\ client.kind = "exec"
    /\ signals.at = "idle" /\ signals.pending > 0
    /\ signals' = [signals EXCEPT !.pending = @ - 1,
                                  !.taken = @ + 1,
                                  !.at = IF signals.taken = 0 THEN "cancel" ELSE "second",
                                  !.second = signals.taken > 0]
    /\ UNCHANGED <<client, plane, stream>>

(* CancelExecution was answered or has failed.                              *)
SignalCancels ==
    /\ signals.at = "cancel"
    /\ signals' = [signals EXCEPT !.at = "idle"]
    /\ \E arrives \in BOOLEAN : plane' = [plane EXCEPT !.cancel = plane.cancel \/ arrives]
    /\ UNCHANGED <<client, stream>>

(* streamCancel: the receive loop ends, whatever the stream still held.     *)
SignalDetaches ==
    /\ signals.at = "second"
    /\ signals' = [signals EXCEPT !.at = "gone"]
    /\ stream' = IF stream \in Streaming THEN "canceled" ELSE stream
    /\ UNCHANGED <<client, plane>>

-----------------------------------------------------------------------------
(* The control plane: the execution ends, by itself or because it was asked *)
(* to; a stream that follows gets the exit event, behind the error of a run *)
(* that failed, or just ends in front of either when it was too slow.       *)
PlaneExecEnds ==
    /\ plane.exec = "running"
    /\ \E c \in ExitCodes : plane' = [plane EXCEPT !.exec = "final", !.code = c]
    /\ stream' \in IF stream = "following" THEN {"exit", "over"} \cup Notices ELSE {stream}
    /\ UNCHANGED <<client, signals>>

(* The connection breaks, the server ends, or a slow reader is dropped.     *)
StreamBreaks ==
    /\ stream \in Streaming
    /\ stream' \in {"failed", "canceled"}
    /\ UNCHANGED <<client, plane, signals>>

-----------------------------------------------------------------------------
ClientStep ==
    \/ ObtainSandbox \/ RequestExecution \/ OpenStream
    \/ ReceiveNotice \/ ReceiveExit \/ LibraryStreamEnds \/ ExecStreamEnds
    \/ FetchOutcome \/ CancelBestEffort \/ Terminate

SignalStep == TakeSignal \/ SignalCancels \/ SignalDetaches

ExecNext ==
    \/ ClientStep \/ ReceiveOutput
    \/ SignalStep \/ Interrupt
    \/ PlaneExecEnds \/ StreamBreaks

ExecSpec == ExecInit /\ [][ExecNext]_execVars

(* Requests are answered and the goroutines of the client are scheduled;    *)
(* the execution may run for ever.                                          *)
ExecFair == WF_execVars(ClientStep) /\ WF_execVars(SignalStep)

ExecFairSpec == ExecSpec /\ ExecFair

-----------------------------------------------------------------------------
Ended == client.at = "returned"

(* What a client reports is the outcome of the execution, however the       *)
(* stream ended: the exit code that a command returns with, and the status  *)
(* and exit code of a result, which says that the execution is over only    *)
(* when it is, and has another exit code than the execution only in that it *)
(* has none, when the stream ended in front of the exit event.  exec says   *)
(* 130 instead only after a second interrupt (ExecCommand.Run,              *)
(* getFinalExecutionExitCode, ExecAndWait).                                 *)
ReportsOutcome ==
    /\ Ended /\ client.result = "code" => plane.exec = "final" /\ client.code = plane.code
    /\ Ended /\ client.result = "result" =>
         /\ client.seen \in {"ended", "final"} => plane.exec = "final"
         /\ client.code = IF client.seen = "final" THEN plane.code ELSE NoCode
    /\ Ended /\ client.result = "detached" => signals.taken = 2

(* "ExecResult is the final execution outcome from ExecAndWait."            *)
(* (client/ergonomics.go): a result, returned without an error, has the     *)
(* final status of the execution and its exit code (ExecAndWait).           *)
ExecResultFinal ==
    Ended /\ client.result = "result" => client.seen = "final" /\ client.code = plane.code

(* A client that gives up cleans up: ExecAndWait has tried to cancel an     *)
(* execution whose id it got and that runs on, and a command with --rm has  *)
(* tried to terminate the sandbox on every way out behind the defer         *)
(* (cancelExecutionBestEffort, terminateSandboxBestEffort).                 *)
ClientCleansUp ==
    Ended =>
        /\ client.kind = "library" /\ plane.exec = "running" =>
             client.stopped \/ client.result = "not created"
        /\ client.remove /\ plane.sandbox = "ready" => client.stopped \/ client.result = "refused"

=============================================================================
