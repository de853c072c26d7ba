----------------------------- MODULE GuestAgent -----------------------------
(***************************************************************************)
(* The agent in the guest (cmd/cleanroom-guest-agent) and the host's end   *)
(* of its connections (internal/vsockexec, runGuestCommand of the backend).*)
(* A connection carries one command.  The agent serves one connection at a *)
(* time; the others wait in the backlog of its listener.                   *)
(*                                                                         *)
(*   serving  the connection that the agent handles, or NoConn             *)
(*   hosts[k] the host's end: not connected, waiting for the answer, done  *)
(*            with the result it decoded, or closed early                  *)
(*   procs[k] the command: what it has still to write and whether it runs  *)
(*   pipes[k] the chunks that it has written to each stream and the agent  *)
(*            has not read                                                 *)
(*   copy[k]  the goroutines that copy a stream to the connection          *)
(*   wire[k]  the frames on their way to the host                          *)
(*   owed[k]  per stream, what the command has written and its host, if it *)
(*            has not hung up, has not got                                 *)
(*   input[k] whether readInputFrames still reads, has come to the end of  *)
(*            the input, or could not write it to the command's terminal   *)
(*                                                                         *)
(* A command writes a number of chunks and exits.  With a terminal it has  *)
(* one stream, and what it writes after the terminal was closed is lost.   *)
(* Payloads of stdin and terminal sizes are passed on and left out here.   *)
(***************************************************************************)
EXTENDS Naturals, Sequences

CONSTANTS
    Conns, NoConn,
    MaxChunks,        \* bound on the chunks a command writes
    PipeCapacity,     \* chunks that fit into a pipe
    WireCapacity      \* frames that fit between the guest and the host

ASSUME GuestAssumption ==
    /\ NoConn \notin Conns
    /\ MaxChunks \in Nat /\ PipeCapacity \in Nat \ {0} /\ WireCapacity \in Nat \ {0}

VARIABLES serving, hosts, procs, pipes, copy, wire, owed, input

guestVars == <<serving, hosts, procs, pipes, copy, wire, owed, input>>

StdStreams == {"stdout", "stderr"}
Programs == UNION {[1 .. n -> StdStreams] : n \in 0 .. MaxChunks}
Nothing == [s \in StdStreams |-> 0]

GuestInit ==
    /\ serving = NoConn
    /\ hosts = [k \in Conns |-> "idle"]
    /\ procs = [k \in Conns |-> [state |-> "none", tty |-> FALSE, todo |-> <<>>]]
    /\ pipes = [k \in Conns |-> Nothing]
    /\ copy = [k \in Conns |-> [s \in StdStreams |-> "off"]]
    /\ wire = [k \in Conns |-> <<>>]
    /\ owed = [k \in Conns |-> Nothing]
    /\ input = [k \in Conns |-> "off"]

-----------------------------------------------------------------------------
(* The host: runGuestCommand, DecodeStreamResponse.                         *)

OnlyHost == UNCHANGED <<serving, procs, pipes, copy, input>>

(* The dial succeeds, the request is sent, and end of input follows at once *)
(* unless there is a terminal.                                              *)
HostConnect(k) ==
    /\ hosts[k] = "idle"
    /\ hosts' = [hosts EXCEPT ![k] = "waiting"]
    /\ UNCHANGED <<wire, owed>>
    /\ OnlyHost

HostReceive(k) ==
    /\ hosts[k] = "waiting"
    /\ wire[k] # <<>>
    /\ LET frame == Head(wire[k])
       IN  IF frame \in StdStreams
           THEN /\ owed' = [owed EXCEPT ![k][frame] = @ - 1]
                /\ UNCHANGED hosts
           ELSE /\ hosts' = [hosts EXCEPT ![k] = frame]
                /\ UNCHANGED owed
    /\ wire' = [wire EXCEPT ![k] = Tail(wire[k])]
    /\ OnlyHost

(* The context of the command ends, or its deadline passes: the connection  *)
(* is closed.  Nobody tells the command.                                    *)
HostHangUp(k) ==
    /\ hosts[k] = "waiting"
    /\ hosts' = [hosts EXCEPT ![k] = "hung up"]
    /\ wire' = [wire EXCEPT ![k] = <<>>]
    /\ owed' = [owed EXCEPT ![k] = Nothing]
    /\ OnlyHost

-----------------------------------------------------------------------------
(* The command.                                                             *)

OnlyProc == UNCHANGED <<serving, hosts, copy, wire, input>>

TerminalClosed(k) == procs[k].tty /\ input[k] \in {"ended", "failed"}

ProcWrite(k) ==
    LET s == Head(procs[k].todo)
    IN  /\ procs[k].state = "running"
        /\ procs[k].todo # <<>>
        /\ pipes[k][s] < PipeCapacity \/ TerminalClosed(k)
        /\ procs' = [procs EXCEPT ![k].todo = Tail(procs[k].todo)]
        /\ pipes' = IF TerminalClosed(k) THEN pipes ELSE [pipes EXCEPT ![k][s] = @ + 1]
        /\ owed' = IF hosts[k] = "waiting" THEN [owed EXCEPT ![k][s] = @ + 1] ELSE owed
        /\ OnlyProc

ProcExit(k) ==
    /\ procs[k].state = "running"
    /\ procs[k].todo = <<>>
    /\ procs' = [procs EXCEPT ![k].state = "exited"]
    /\ UNCHANGED <<pipes, owed>>
    /\ OnlyProc

-----------------------------------------------------------------------------
(* The agent: the accept loop and handleConn.                               *)

Answers(k, frame) == IF hosts[k] = "waiting" THEN [wire EXCEPT ![k] = Append(wire[k], frame)] ELSE wire

(* A request that cannot be decoded, names no command or cannot be started  *)
(* is answered at once; the connection is closed.                           *)
AgentRefuse(k) ==
    /\ serving = NoConn
    /\ hosts[k] \in {"waiting", "hung up"} /\ input[k] = "off"
    /\ wire' = Answers(k, "response")
    /\ input' = [input EXCEPT ![k] = "ended"]
    /\ UNCHANGED <<serving, hosts, procs, pipes, copy, owed>>

AgentStart(k, tty, program) ==
    /\ serving = NoConn
    /\ hosts[k] \in {"waiting", "hung up"} /\ input[k] = "off"
    /\ tty => \A i \in 1 .. Len(program) : program[i] = "stdout"
    /\ serving' = k
    /\ procs' = [procs EXCEPT ![k] = [state |-> "running", tty |-> tty, todo |-> program]]
    /\ copy' = [copy EXCEPT ![k] = [s \in StdStreams |->
                  IF tty /\ s = "stderr" THEN "done" ELSE "running"]]
    /\ input' = [input EXCEPT ![k] = "reading"]
    /\ UNCHANGED <<hosts, pipes, wire, owed>>

OnlyAgent == UNCHANGED <<hosts, procs, owed>>

(* readInputFrames returns: end of input, which the host sends at once when *)
(* there is no terminal, or the end of the connection.  It closes stdin or, *)
(* with the terminal, all of it.                                            *)
AgentInputEnds(k) ==
    /\ input[k] = "reading"
    /\ ~procs[k].tty \/ hosts[k] = "hung up"
    /\ input' = [input EXCEPT ![k] = "ended"]
    /\ UNCHANGED <<serving, pipes, copy, wire>>
    /\ OnlyAgent

(* readInputFrames returns because input from the host cannot be written: a *)
(* command that has written all of its output may have closed its end of    *)
(* the terminal, or exited.  The agent's end is closed with what it holds.  *)
AgentInputFails(k) ==
    /\ serving = k /\ input[k] = "reading"
    /\ hosts[k] = "waiting"
    /\ procs[k].tty /\ procs[k].todo = <<>>
    /\ input' = [input EXCEPT ![k] = "failed"]
    /\ UNCHANGED <<serving, pipes, copy, wire>>
    /\ OnlyAgent

(* io.Copy: a chunk becomes a frame; an error of the connection ends it.    *)
AgentCopy(k, s) ==
    /\ copy[k][s] = "running"
    /\ pipes[k][s] > 0 /\ ~TerminalClosed(k)
    /\ hosts[k] = "waiting" => Len(wire[k]) < WireCapacity
    /\ pipes' = [pipes EXCEPT ![k][s] = @ - 1]
    /\ wire' = Answers(k, s)
    /\ copy' = [copy EXCEPT ![k][s] = IF hosts[k] = "waiting" THEN "running" ELSE "done"]
    /\ UNCHANGED <<serving, input>>
    /\ OnlyAgent

(* The stream is at its end: nobody writes it any more and it was read, or  *)
(* the terminal is closed.                                                  *)
AgentCopyEnds(k, s) ==
    /\ copy[k][s] = "running"
    /\ \/ pipes[k][s] = 0 /\ procs[k].state = "exited"
       \/ TerminalClosed(k)
    /\ copy' = [copy EXCEPT ![k][s] = "done"]
    /\ UNCHANGED <<serving, pipes, wire, input>>
    /\ OnlyAgent

(* Mutant: the exit is reported without waiting for the copies.             *)
AgentExitEarly(k) ==
    /\ serving = k
    /\ procs[k].state = "exited"
    /\ wire' = Answers(k, "exit")
    /\ serving' = NoConn
    /\ UNCHANGED <<pipes, copy, input>>
    /\ OnlyAgent

(* Mutant: the agent does not go back to accept.                            *)
AgentExitLast(k) ==
    /\ serving = k
    /\ \A s \in StdStreams : copy[k][s] = "done"
    /\ procs[k].state = "exited" /\ hosts[k] = "waiting"
    /\ wire' = [wire EXCEPT ![k] = <<"exit">>]
    /\ UNCHANGED <<serving, pipes, copy, input>>
    /\ OnlyAgent

(* wg.Wait, then cmd.Wait, then the exit frame; the connection is closed.   *)
AgentExit(k) ==
    /\ serving = k
    /\ \A s \in StdStreams : copy[k][s] = "done"
    /\ procs[k].state = "exited"
    /\ wire' = Answers(k, "exit")
    /\ serving' = NoConn
    /\ UNCHANGED <<pipes, copy, input>>
    /\ OnlyAgent

-----------------------------------------------------------------------------
AgentStep ==
    \E k \in Conns :
        \/ \E tty \in BOOLEAN, program \in Programs : AgentStart(k, tty, program)
        \/ AgentInputEnds(k)
        \/ \E s \in StdStreams : AgentCopy(k, s) \/ AgentCopyEnds(k, s)
        \/ AgentExit(k)

ProcStep(k) == ProcWrite(k) \/ ProcExit(k)

GuestNext ==
    \/ \E k \in Conns : \/ HostConnect(k) \/ HostReceive(k) \/ HostHangUp(k)
                        \/ AgentRefuse(k) \/ AgentInputFails(k) \/ ProcStep(k)
    \/ AgentStep

GuestSpec == GuestInit /\ [][GuestNext]_guestVars

(* The agent, the commands and the decoder of the host are scheduled; a     *)
(* host need not hang up.                                                   *)
GuestFairSpec ==
    /\ GuestSpec
    /\ WF_guestVars(AgentStep)
    /\ \A k \in Conns : WF_guestVars(ProcStep(k)) /\ WF_guestVars(HostReceive(k))

-----------------------------------------------------------------------------
(* When the host decodes an exit the command is over, and all its output    *)
(* has come except for what the agent has not read: no output is overtaken  *)
(* by the exit frame of another goroutine (handleConnPipes, handleConnTTY). *)
(* The agent leaves output unread in one case only, that of a terminal      *)
(* which readInputFrames closed because it could not write input to it.     *)
ExitFollowsAllOutput ==
    \A k \in Conns : hosts[k] = "exit" =>
        /\ procs[k].state = "exited"
        /\ owed[k] = pipes[k]
        /\ pipes[k] # Nothing => procs[k].tty /\ input[k] = "failed"

Unserved(k) == hosts[k] = "waiting" /\ input[k] = "off"

(* "The guest agent accepts multiple sequential connections."               *)
(* (docs/vsock.md): a connection whose host waits for its command is        *)
(* accepted, all commands being programs that come to an end (main,         *)
(* handleConnPipes).                                                        *)
AcceptsSequentially == \A k \in Conns : Unserved(k) ~> ~Unserved(k)

(* A waiting connection is accepted, and its command answered, unless the   *)
(* agent is held up by a connection whose host has gone (handleConn).       *)
AgentServesWaiting ==
    \A k \in Conns :
        []<>(hosts[k] # "waiting" \/ \E j \in Conns : serving = j /\ hosts[j] = "hung up")

=============================================================================
