---------------------------- MODULE ImageManager ----------------------------
(***************************************************************************)
(* The cache of image root file systems (internal/imagemgr): one file per  *)
(* digest and one row per digest in a database.  Both are shared by all    *)
(* processes of the host, the server and the "cleanroom image" commands;   *)
(* the mutex of a Manager only orders the callers of one process.          *)
(*                                                                         *)
(*   db[d]     the row of digest d: the source of the image it describes   *)
(*   files[d]  the file <digest>.ext4: the source of the image it holds,   *)
(*             or "part" when it is not completely written                 *)
(*   calls[c]  the call of c: where it is, what it asks for, the row it    *)
(*             has read, its temporary file, its result, and whether       *)
(*             nobody else has used the cache since it took the mutex      *)
(*   locks     the holder of each mutex of each process                    *)
(*   crashes   the number of processes that have died                      *)
(*                                                                         *)
(* Times are left out: only the order of List depends on them.             *)
(***************************************************************************)
EXTENDS Naturals

CONSTANTS
    Callers, Processes, Digests,
    ProcessOf,      \* the process of a caller
    NoOne,
    MaxCrashes      \* bound on the crashes

Mutexes == {"image", "runtime", "kernel"}
Sources == {"registry", "import"}
Contents == Sources \cup {"none", "part"}

ASSUME ImageAssumption ==
    /\ ProcessOf \in [Callers -> Processes]
    /\ NoOne \notin Callers
    /\ MaxCrashes \in Nat

VARIABLES db, files, calls, locks, crashes

imageVars == <<db, files, calls, locks, crashes>>

NewCall(d) == [pc |-> "idle", op |-> "ensure", digest |-> d, row |-> "none",
            temp |-> "none", result |-> "none", alone |-> FALSE]

ImageInit ==
    /\ db = [d \in Digests |-> "none"]
    /\ files = [d \in Digests |-> "none"]
    /\ calls \in [Callers -> {NewCall(d) : d \in Digests}]
    /\ locks = [p \in Processes |-> [k \in Mutexes |-> NoOne]]
    /\ crashes = 0

-----------------------------------------------------------------------------
At(c, pc) == calls[c].pc = pc
Goto(c, pc) == calls' = [calls EXCEPT ![c].pc = pc]
DigestOf(c) == calls[c].digest
SourceOf(c) == IF calls[c].op = "import" THEN "import" ELSE "registry"

Free(c, k) == locks[ProcessOf[c]][k] = NoOne
Locked(c, k) == locks' = [locks EXCEPT ![ProcessOf[c]][k] = c]
Unlocked(c, k) == locks' = [locks EXCEPT ![ProcessOf[c]][k] = NoOne]

(* Mutant: the temporary file is not removed when the call returns.         *)
ReturnKeepingTemp(c, result) ==
    /\ calls' = [calls EXCEPT ![c].pc = "returned", ![c].result = result, ![c].row = "none"]
    /\ Unlocked(c, "image")

(* The deferred calls remove the temporary file and release the mutex.      *)
Return(c, result) ==
    /\ calls' = [calls EXCEPT ![c].pc = "returned", ![c].result = result, ![c].row = "none",
                              ![c].temp = "none"]
    /\ Unlocked(c, "image")

(* A call of Ensure (Pull), Import or Remove; the reference is parsed, and  *)
(* the archive of an import opened, before the mutex is taken.              *)
Call(c, op, d) ==
    /\ At(c, "idle")
    /\ calls' = [calls EXCEPT ![c] = [NewCall(d) EXCEPT !.pc = "lock", !.op = op]]
    /\ UNCHANGED <<db, files, locks, crashes>>

Lock(c) ==
    /\ At(c, "lock")
    /\ Free(c, "image")
    /\ Locked(c, "image")
    /\ calls' = [o \in Callers |->
          IF o = c
          THEN [calls[c] EXCEPT
                  !.pc = CASE calls[c].op = "ensure" -> "lookup"
                           [] calls[c].op = "import" -> "create"
                           [] calls[c].op = "remove" -> "select",
                  !.alone = \A p \in Processes : locks[p]["image"] = NoOne]
          ELSE [calls[o] EXCEPT !.alone = FALSE]]
    /\ UNCHANGED <<db, files, crashes>>

-----------------------------------------------------------------------------
(* Ensure.                                                                  *)

Lookup(c) ==
    /\ At(c, "lookup")
    /\ calls' = [calls EXCEPT ![c].row = db[DigestOf(c)],
                   ![c].pc = IF db[DigestOf(c)] = "none" THEN "create" ELSE "stat"]
    /\ UNCHANGED <<db, files, locks, crashes>>

(* Mutant: the row is trusted without looking for the file.                 *)
StatTrusting(c) ==
    /\ At(c, "stat")
    /\ Goto(c, "touch")
    /\ UNCHANGED <<db, files, locks, crashes>>

Stat(c) ==
    /\ At(c, "stat")
    /\ Goto(c, IF files[DigestOf(c)] # "none" THEN "touch" ELSE "forget")
    /\ UNCHANGED <<db, files, locks, crashes>>

(* The row that was read is written back with the new time of use.          *)
Touch(c) ==
    /\ At(c, "touch")
    /\ db' = [db EXCEPT ![DigestOf(c)] = calls[c].row]
    /\ Return(c, "hit")
    /\ UNCHANGED <<files, crashes>>

(* deleteByDigest: the row names a file that is gone.                       *)
Forget(c) ==
    /\ At(c, "forget")
    /\ db' = [db EXCEPT ![DigestOf(c)] = "none"]
    /\ Goto(c, "create")
    /\ UNCHANGED <<files, locks, crashes>>

-----------------------------------------------------------------------------
(* persistFromTarStream, of Ensure (with the image that it pulls) and of    *)
(* Import.                                                                  *)

CreateTemp(c) ==
    /\ At(c, "create")
    /\ calls' = [calls EXCEPT ![c].pc = "materialize", ![c].temp = "part"]
    /\ UNCHANGED <<db, files, locks, crashes>>

(* Mutant: the image is written under its final name.                       *)
MaterializeInPlace(c) ==
    /\ At(c, "materialize")
    /\ calls' = [calls EXCEPT ![c].pc = "rename", ![c].temp = SourceOf(c)]
    /\ files' = [files EXCEPT ![DigestOf(c)] = "part"]
    /\ UNCHANGED <<db, locks, crashes>>

(* materializeExt4: the archive is unpacked and mkfs writes the file.       *)
Materialize(c) ==
    /\ At(c, "materialize")
    /\ calls' = [calls EXCEPT ![c].pc = "rename", ![c].temp = SourceOf(c)]
    /\ UNCHANGED <<db, files, locks, crashes>>

Rename(c) ==
    /\ At(c, "rename")
    /\ files' = [files EXCEPT ![DigestOf(c)] = calls[c].temp]
    /\ calls' = [calls EXCEPT ![c].pc = "upsert", ![c].temp = "none"]
    /\ UNCHANGED <<db, locks, crashes>>

Upsert(c) ==
    /\ At(c, "upsert")
    /\ db' = [db EXCEPT ![DigestOf(c)] = SourceOf(c)]
    /\ Return(c, "built")
    /\ UNCHANGED <<files, crashes>>

-----------------------------------------------------------------------------
(* Remove: first the files of the selected rows, then the rows.             *)

Select(c) ==
    /\ At(c, "select")
    /\ IF db[DigestOf(c)] = "none"
       THEN Return(c, "removed")
       ELSE Goto(c, "unlink") /\ UNCHANGED locks
    /\ UNCHANGED <<db, files, crashes>>

Unlink(c) ==
    /\ At(c, "unlink")
    /\ files' = [files EXCEPT ![DigestOf(c)] = "none"]
    /\ Goto(c, "delete")
    /\ UNCHANGED <<db, locks, crashes>>

DeleteRow(c) ==
    /\ At(c, "delete")
    /\ db' = [db EXCEPT ![DigestOf(c)] = "none"]
    /\ Return(c, "removed")
    /\ UNCHANGED <<files, crashes>>

-----------------------------------------------------------------------------
(* A query, a download, an unpacking or a file operation fails.  A row that *)
(* cannot be written takes the file that it describes with it.              *)
Fail(c) ==
    /\ calls[c].pc \in {"lookup", "stat", "touch", "forget", "create", "materialize",
                        "rename", "upsert", "select", "unlink", "delete"}
    /\ files' = IF At(c, "upsert") THEN [files EXCEPT ![DigestOf(c)] = "none"] ELSE files
    /\ Return(c, "failed")
    /\ UNCHANGED <<db, crashes>>

(* The caller is done with the result.                                      *)
Dismiss(c) ==
    /\ At(c, "returned")
    /\ calls' = [calls EXCEPT ![c] = NewCall(DigestOf(c))]
    /\ UNCHANGED <<db, files, locks, crashes>>

(* A process dies: files, temporary ones too, and rows stay as they are.    *)
Crash(p) ==
    /\ crashes < MaxCrashes
    /\ crashes' = crashes + 1
    /\ calls' = [c \in Callers |-> IF ProcessOf[c] = p THEN NewCall(DigestOf(c)) ELSE calls[c]]
    /\ locks' = [locks EXCEPT ![p] = [k \in Mutexes |-> NoOne]]

ImageStep(c) ==
    \/ Lookup(c) \/ Stat(c) \/ Touch(c) \/ Forget(c)
    \/ CreateTemp(c) \/ Materialize(c) \/ Rename(c) \/ Upsert(c)
    \/ Select(c) \/ Unlink(c) \/ DeleteRow(c)

-----------------------------------------------------------------------------
(* An Ensure that succeeds while nobody else uses the cache hands out       *)
(* a file that is there and a row that says so, whatever crashes, failed    *)
(* removals and imports have left behind; an image it has built is the one  *)
(* the row describes (Ensure, persistFromTarStream).                        *)
EnsureRestores ==
    \A c \in Callers :
        (At(c, "returned") /\ calls[c].op = "ensure" /\ calls[c].alone) =>
            /\ calls[c].result \in {"hit", "built"} =>
                 db[DigestOf(c)] # "none" /\ files[DigestOf(c)] # "none"
            /\ calls[c].result = "built" => db[DigestOf(c)] = files[DigestOf(c)]

=============================================================================
