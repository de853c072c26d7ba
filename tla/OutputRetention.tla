-------------------------- MODULE OutputRetention --------------------------
(***************************************************************************)
(* What the control service keeps of the output of an execution            *)
(* (internal/controlservice/service.go): the last bytes of each stream,    *)
(* from the chunks that the backend streams and, at the end, from the      *)
(* output that it returns in one piece.  To stderr the service adds a line *)
(* of its own, the error of a run or the message of a command that failed. *)
(* The module has one of the two streams.                                  *)
(*                                                                         *)
(*   std       which of the two                                            *)
(*   written   what the command has written, the Stdout or the Stderr of   *)
(*             the result                                                  *)
(*   retained  ex.Stdout or ex.Stderr                                      *)
(*   followed  what the events have brought to a follower                  *)
(*   added     the line of the service                                     *)
(*   missed    a chunk reached no callback                                 *)
(*   phase     the command runs, its result was merged, or it has none     *)
(***************************************************************************)
EXTENDS Naturals, Sequences, SequencesExt

CONSTANTS
    Bytes,
    RetainLimit,      \* maxRetainedExecutionOutputBytes
    MaxWritten        \* bound on what the command writes

ASSUME RetentionAssumption == RetainLimit \in Nat \ {0} /\ MaxWritten \in Nat

VARIABLES std, written, retained, followed, added, missed, phase

retentionVars == <<std, written, retained, followed, added, missed, phase>>

LastBytes(s, n) == SubSeq(s, Len(s) - n + 1, Len(s))

(* appendRetainedOutput, for a limit above 0.                               *)
AppendRetained(existing, chunk, limit) ==
    IF chunk = <<>>
    THEN IF Len(existing) <= limit THEN existing ELSE LastBytes(existing, limit)
    ELSE IF Len(chunk) >= limit THEN LastBytes(chunk, limit)
    ELSE LET keep == limit - Len(chunk)
         IN  (IF keep < Len(existing) THEN LastBytes(existing, keep) ELSE existing) \o chunk

Delta(bytes, replace) == [bytes |-> bytes, replace |-> replace]
Remainder(buffered, kept) == SubSeq(buffered, Len(kept) + 1, Len(buffered))

(* Mutant: an overlap at the end only is always output that was missed.     *)
BufferedResultDeltaReplaying(kept, buffered, limit) ==
    IF buffered = <<>> THEN Delta(<<>>, FALSE)
    ELSE IF IsPrefix(kept, buffered) THEN Delta(Remainder(buffered, kept), FALSE)
    ELSE Delta(buffered, TRUE)

(* bufferedResultDelta: what the result adds, and whether it replaces what  *)
(* was kept.                                                                *)
BufferedResultDelta(kept, buffered, limit) ==
    IF buffered = <<>> THEN Delta(<<>>, FALSE)
    ELSE IF kept = <<>> THEN Delta(buffered, FALSE)
    ELSE IF IsSuffix(kept, buffered) /\ Len(kept) >= limit THEN Delta(<<>>, FALSE)
    ELSE IF IsPrefix(kept, buffered) THEN Delta(Remainder(buffered, kept), FALSE)
    ELSE Delta(buffered, TRUE)

(* A text of the service: one byte is enough to be in the output already or *)
(* not.  A line of nothing is no line.                                      *)
Texts == {<<b>> : b \in Bytes}
Line(text) == IF text = <<>> THEN <<>> ELSE Append(text, "newline")

RetentionInit ==
    /\ std \in {"stdout", "stderr"}
    /\ written = <<>> /\ retained = <<>> /\ followed = <<>> /\ added = <<>>
    /\ missed = FALSE
    /\ phase = "running"

Chunks == UNION {[1 .. n -> Bytes] : n \in 1 .. MaxWritten}

(* recordExecutionOutputChunk and appendExecutionStdoutLocked; a backend    *)
(* that does not stream brings no chunk.                                    *)
RetainChunk(chunk) ==
    /\ phase = "running"
    /\ Len(written) + Len(chunk) <= MaxWritten
    /\ written' = written \o chunk
    /\ \/ /\ retained' = AppendRetained(retained, chunk, RetainLimit)
          /\ followed' = followed \o chunk
          /\ UNCHANGED missed
       \/ missed' = TRUE /\ UNCHANGED <<retained, followed>>
    /\ UNCHANGED <<std, added, phase>>

(* What is retained after the replace or the append function.               *)
Merged(delta) ==
    IF delta.bytes = <<>> THEN retained
    ELSE AppendRetained(IF delta.replace THEN <<>> ELSE retained, delta.bytes, RetainLimit)

(* The service ends the output with a line of its own, on stderr only.      *)
Closes(kept, events, line, next) ==
    /\ added' = IF std = "stderr" THEN line ELSE <<>>
    /\ retained' = AppendRetained(kept, added', RetainLimit)
    /\ followed' = events \o added'
    /\ phase' = next
    /\ UNCHANGED <<std, written, missed>>

(* mergeBufferedResultOutputLocked; the message of the result (none when    *)
(* the exit code is 0) follows unless stderr has it already.                *)
MergeResult(streaming, message) ==
    /\ phase = "running"
    /\ ~streaming => retained = <<>>
    /\ LET delta == IF streaming THEN BufferedResultDelta(retained, written, RetainLimit)
                                 ELSE Delta(written, FALSE)
           kept == Merged(delta)
       IN  Closes(kept, followed \o delta.bytes,
                  IF message \in SubSeqs(kept) THEN <<>> ELSE Line(message), "merged")

(* The run fails without a result: what was streamed stays, and the error   *)
(* follows.                                                                 *)
NoResult(text) ==
    /\ phase = "running"
    /\ Closes(retained, followed, Line(text), "failed")

RetentionNext ==
    \/ \E chunk \in Chunks : RetainChunk(chunk)
    \/ \E streaming \in BOOLEAN, text \in Texts \cup {<<>>} : MergeResult(streaming, text)
    \/ \E text \in Texts \cup {<<>>} : NoResult(text)

RetentionSpec == RetentionInit /\ [][RetentionNext]_retentionVars

-----------------------------------------------------------------------------
(* After the merge the service keeps exactly the last bytes, up to the      *)
(* limit, of what the command wrote and, on stderr, of the line that the    *)
(* service adds behind it, whichever chunks its callbacks brought and       *)
(* wherever the limit cut them; without a merge it keeps those of what was  *)
(* streamed.  A follower gets every byte once and in order when no chunk    *)
(* was missed: the merge does not replay what was streamed, although only   *)
(* its tail is still kept to compare with (bufferedResultDelta,             *)
(* appendRetainedOutput, runExecution).                                     *)
OutputKept ==
    LET all == written \o added
    IN  /\ Len(retained) <= RetainLimit
        /\ phase = "merged" \/ ~missed =>
             retained = LastBytes(all, IF Len(all) < RetainLimit THEN Len(all) ELSE RetainLimit)
        /\ ~missed => followed = all

=============================================================================
