----------------------- MODULE LaunchArtifactsProofs -----------------------
(***************************************************************************)
(* What a VM boots from is whole, and a call returns what it holds, for    *)
(* any number of processes, callers, digests and crashes, on both          *)
(* backends.                                                               *)
(*                                                                         *)
(* The argument: only a complete temporary file is renamed, so "part" and  *)
(* "bad" never come back under a final name; a file that was found usable  *)
(* without the mutex can therefore only disappear; and a mutex is held     *)
(* only by a caller inside the section that its deferred call ends.        *)
(***************************************************************************)
EXTENDS LaunchArtifacts, TLAPS

(* Where a caller holds which mutex.                                        *)
InSection(k, pc) ==
    \/ k = "image" /\ pc \in {"lookup", "stat", "touch", "forget", "create", "materialize",
                              "rename", "upsert", "select", "unlink", "delete"}
    \/ k = "kernel" /\ pc \in {"kernel download", "kernel rename"}
    \/ k = "runtime" /\ pc \in {"runtime copy", "runtime install", "runtime rename"}

Labels ==
    {"idle", "lock", "returned", "lookup", "stat", "touch", "forget", "create", "materialize", "rename",
     "upsert", "select", "unlink", "delete", "kernel lock", "kernel download", "kernel rename", "prepared?",
     "discard", "runtime lock", "runtime copy", "runtime install", "runtime rename", "disk"}

Results == {"none", "hit", "built", "removed", "failed", "copy failed", "booted"}

CallRecords ==
    [pc : Labels, op : {"ensure", "import", "remove"}, digest : Digests, row : Contents,
     temp : Contents, result : Results, alone : BOOLEAN]

LocksOK == locks \in [Processes -> [Mutexes -> Callers \cup {NoOne}]]

FilesOK ==
    /\ db \in [Digests -> Contents]
    /\ files \in [Digests -> Contents]
    /\ kernel \in Kernels
    /\ prepared \in [Digests -> Kernels]
    /\ fetch \in [Callers -> Kernels \cup {"part"}]
    /\ disk \in [Callers -> Kernels]

LaunchTypeOK == calls \in [Callers -> CallRecords] /\ LocksOK /\ FilesOK

(* A launch that is past its kernel.                                        *)
HasKernel(c) ==
    \/ calls[c].pc \notin {"idle", "kernel lock", "kernel download", "kernel rename", "returned"}
    \/ calls[c].pc = "returned" /\ calls[c].result \in {"hit", "built", "booted"}

(* What a caller has in hand, by where it is.                               *)
InHand(c) ==
    /\ calls[c].pc = "rename" => calls[c].temp \in Sources
    /\ calls[c].pc \notin {"materialize", "rename"} => calls[c].temp = "none"
    /\ calls[c].pc \in {"kernel rename", "runtime rename"} => fetch[c] = "good"
    /\ calls[c].pc \notin {"idle", "kernel rename", "runtime install", "runtime rename", "returned"} =>
         fetch[c] = "none"
    /\ calls[c].pc = "returned" /\ calls[c].result # "copy failed" => fetch[c] = "none"
    /\ c \notin Launches => fetch[c] = "none"
    /\ calls[c].pc = "disk" => prepared[calls[c].digest] # "bad"
    /\ calls[c].pc = "returned" /\ calls[c].result = "booted" => disk[c] = "good"
    /\ c \in Launches /\ HasKernel(c) => kernel = "good"

(* A prepared file that no validation would catch is never there.           *)
PreparedValid == ~ValidatesPrepared => \A d \in Digests : prepared[d] # "bad"

HeldInSection ==
    \A p \in Processes, k \in Mutexes :
        locks[p][k] # NoOne =>
            ProcessOf[locks[p][k]] = p /\ InSection(k, calls[locks[p][k]].pc)

LaunchInv ==
    /\ LaunchTypeOK
    /\ \A c \in Callers : InHand(c)
    /\ PreparedValid
    /\ HeldInSection

-----------------------------------------------------------------------------
(* The action of FinalNamesWhole.                                           *)
KeepsNamesWhole ==
    /\ \A d \in Digests : files'[d] # files[d] => files'[d] \in Sources \cup {"none"}
    /\ kernel' # kernel => kernel' = "good"
    /\ \A d \in Digests : prepared'[d] # prepared[d] => prepared'[d] \in {"good", "none"}

(* A step of c leaves the other callers alone, except that they are not     *)
(* alone any more.                                                          *)
OnlyMoves(c) ==
    \A o \in Callers \ {c} :
        /\ calls'[o].pc = calls[o].pc /\ calls'[o].digest = calls[o].digest
        /\ calls'[o].temp = calls[o].temp /\ calls'[o].result = calls[o].result
        /\ fetch'[o] = fetch[o] /\ disk'[o] = disk[o]

(* What a step of c does with the mutexes of its process.                   *)
LockMoves(c) ==
    \/ /\ UNCHANGED locks
       /\ \A k \in Mutexes : InSection(k, calls[c].pc) => InSection(k, calls'[c].pc)
    \/ \E k \in Mutexes : /\ Locked(c, k) /\ InSection(k, calls'[c].pc)
                          /\ \A j \in Mutexes : ~InSection(j, calls[c].pc)
    \/ \E k \in Mutexes : /\ Unlocked(c, k)
                          /\ \A j \in Mutexes \ {k} : ~InSection(j, calls[c].pc)

SoundStep(c) ==
    /\ calls' \in [Callers -> CallRecords] /\ FilesOK'
    /\ OnlyMoves(c) /\ InHand(c)' /\ LockMoves(c) /\ KeepsNamesWhole

(* A step that is sound for its caller keeps the invariant: the others have *)
(* lost nothing that they rely on.                                          *)
LEMMA SoundStepsKeep ==
    ASSUME LaunchInv, NEW c \in Callers, SoundStep(c)
    PROVE  LaunchInv'
<1>1. ASSUME NEW o \in Callers PROVE InHand(o)'
  <2>1. CASE o = c
    BY <2>1 DEF SoundStep
  <2>2. CASE o # c
    <3>1. /\ calls'[o].pc = calls[o].pc /\ calls'[o].digest = calls[o].digest
          /\ calls'[o].temp = calls[o].temp /\ calls'[o].result = calls[o].result
          /\ fetch'[o] = fetch[o] /\ disk'[o] = disk[o]
      BY <2>2 DEF SoundStep, OnlyMoves
    <3>2. calls[o].digest \in Digests /\ InHand(o)
      BY DEF LaunchInv, LaunchTypeOK, CallRecords
    <3>3. /\ kernel = "good" => kernel' = "good"
          /\ prepared[calls[o].digest] # "bad" => prepared'[calls[o].digest] # "bad"
      BY <3>2 DEF SoundStep, KeepsNamesWhole
    <3>4. QED
      BY <3>1, <3>2, <3>3 DEF InHand, HasKernel
  <2>3. QED
    BY <2>1, <2>2
<1>2. PreparedValid'
  BY DEF LaunchInv, PreparedValid, SoundStep, KeepsNamesWhole
<1>3. HeldInSection'
  <2> SUFFICES ASSUME NEW p \in Processes, NEW k \in Mutexes, locks'[p][k] # NoOne
               PROVE  ProcessOf[locks'[p][k]] = p /\ InSection(k, calls'[locks'[p][k]].pc)
    BY DEF HeldInSection
  <2>1. /\ locks \in [Processes -> [Mutexes -> Callers \cup {NoOne}]]
        /\ ProcessOf[c] \in Processes /\ NoOne \notin Callers
        /\ locks[p][k] # NoOne => /\ locks[p][k] \in Callers /\ ProcessOf[locks[p][k]] = p
                                  /\ InSection(k, calls[locks[p][k]].pc)
    BY ImageAssumption DEF LaunchInv, LaunchTypeOK, LocksOK, HeldInSection
  <2>2. \A o \in Callers \ {c} : calls'[o].pc = calls[o].pc
    BY DEF SoundStep, OnlyMoves
  <2>3. CASE UNCHANGED locks /\ \A j \in Mutexes : InSection(j, calls[c].pc) => InSection(j, calls'[c].pc)
    BY <2>1, <2>2, <2>3
  <2>4. ASSUME NEW j \in Mutexes, Locked(c, j), InSection(j, calls'[c].pc),
               \A m \in Mutexes : ~InSection(m, calls[c].pc)
        PROVE  ProcessOf[locks'[p][k]] = p /\ InSection(k, calls'[locks'[p][k]].pc)
    <3>1. locks'[p][k] = IF p = ProcessOf[c] /\ k = j THEN c ELSE locks[p][k]
      BY <2>1, <2>4 DEF Locked
    <3>2. QED
      BY <2>1, <2>2, <2>4, <3>1
  <2>5. ASSUME NEW j \in Mutexes, Unlocked(c, j), \A m \in Mutexes \ {j} : ~InSection(m, calls[c].pc)
        PROVE  ProcessOf[locks'[p][k]] = p /\ InSection(k, calls'[locks'[p][k]].pc)
    <3>1. locks'[p][k] = IF p = ProcessOf[c] /\ k = j THEN NoOne ELSE locks[p][k]
      BY <2>1, <2>5 DEF Unlocked
    <3>2. QED
      BY <2>1, <2>2, <2>5, <3>1
  <2>6. QED
    BY <2>3, <2>4, <2>5 DEF SoundStep, LockMoves
<1>4. LocksOK'
  BY ImageAssumption DEF LaunchInv, LaunchTypeOK, LocksOK, SoundStep, LockMoves, Locked, Unlocked
<1>5. QED
  BY <1>1, <1>2, <1>3, <1>4 DEF LaunchInv, LaunchTypeOK, SoundStep

-----------------------------------------------------------------------------
(* The call of c goes on at pc, with this temporary file and this result.   *)
CallMoves(c, pc, temp, result) ==
    /\ calls' \in [Callers -> CallRecords]
    /\ calls'[c].pc = pc /\ calls'[c].temp = temp /\ calls'[c].result = result
    /\ pc = "disk" => calls'[c].digest = calls[c].digest
    /\ \A o \in Callers \ {c} :
         /\ calls'[o].pc = calls[o].pc /\ calls'[o].digest = calls[o].digest
         /\ calls'[o].temp = calls[o].temp /\ calls'[o].result = calls[o].result

(* The forms in which the steps change a call.                              *)
LEMMA GotoMoves ==
    ASSUME LaunchInv, NEW c \in Callers, NEW pc \in Labels, Goto(c, pc)
    PROVE  CallMoves(c, pc, calls[c].temp, calls[c].result)
BY DEF LaunchInv, LaunchTypeOK, CallRecords, CallMoves, Goto

(* Return, with its deferred removal of the temporary file.                 *)
LEMMA ReturnMoves ==
    ASSUME LaunchInv, NEW c \in Callers, NEW result \in Results, Return(c, result)
    PROVE  CallMoves(c, "returned", "none", result) /\ Unlocked(c, "image")
<1>1. calls \in [Callers -> CallRecords] /\ "returned" \in Labels /\ "none" \in Contents
  BY DEF LaunchInv, LaunchTypeOK, Labels, Contents
<1>2. calls' = [calls EXCEPT ![c] = [calls[c] EXCEPT !.pc = "returned", !.result = result,
                                                     !.row = "none", !.temp = "none"]]
  BY DEF Return
<1>3. [calls[c] EXCEPT !.pc = "returned", !.result = result, !.row = "none", !.temp = "none"] \in CallRecords
  BY <1>1 DEF CallRecords
<1>4. QED
  BY <1>1, <1>2, <1>3 DEF CallRecords, CallMoves, Return

(* An error on the way to the disk.                                         *)
LEMMA FailsMoves ==
    ASSUME LaunchInv, NEW c \in Callers, NEW result \in Results,
           calls' = [calls EXCEPT ![c].pc = "returned", ![c].result = result]
    PROVE  CallMoves(c, "returned", calls[c].temp, result)
<1>1. calls \in [Callers -> CallRecords] /\ "returned" \in Labels
  BY DEF LaunchInv, LaunchTypeOK, Labels
<1>2. QED
  BY <1>1 DEF CallRecords, CallMoves

(* A new call.                                                              *)
LEMMA NewCallMoves ==
    ASSUME LaunchInv, NEW c \in Callers, NEW pc \in Labels \ {"disk"}, NEW d \in Digests,
           NEW op \in {"ensure", "import", "remove"},
           \/ calls' = [calls EXCEPT ![c] = [NewCall(d) EXCEPT !.pc = pc, !.op = op]]
           \/ calls' = [calls EXCEPT ![c] = [NewCall(d) EXCEPT !.pc = pc]]
           \/ calls' = [calls EXCEPT ![c] = NewCall(d)] /\ pc = "idle"
    PROVE  CallMoves(c, pc, "none", "none")
<1>1. calls \in [Callers -> CallRecords]
  BY DEF LaunchInv, LaunchTypeOK
<1>2. PICK r \in CallRecords : calls' = [calls EXCEPT ![c] = r] /\ r.pc = pc /\ r.temp = "none" /\ r.result = "none"
  <2>1. NewCall(d) \in CallRecords
    BY DEF CallRecords, NewCall, Contents, Results, Labels
  <2>2. /\ [NewCall(d) EXCEPT !.pc = pc, !.op = op] \in CallRecords
        /\ [NewCall(d) EXCEPT !.pc = pc] \in CallRecords
    BY <2>1 DEF CallRecords, NewCall
  <2>3. QED
    BY <2>1, <2>2 DEF NewCall
<1>3. QED
  BY <1>1, <1>2 DEF CallRecords, CallMoves

(* The steps of the image manager are sound when they go where the caller   *)
(* has in hand what it needs.                                               *)
LEMMA ImageMoves ==
    ASSUME LaunchInv, NEW c \in Callers, UNCHANGED <<kernel, prepared, fetch, disk>>,
           NEW pc, NEW temp, NEW result, CallMoves(c, pc, temp, result), LockMoves(c),
           db' \in [Digests -> Contents], files' \in [Digests -> Contents],
           \A d \in Digests : files'[d] # files[d] => files'[d] \in Sources \cup {"none"},
           pc = "rename" => temp \in Sources,
           pc \notin {"materialize", "rename"} => temp = "none",
           pc \notin {"kernel rename", "runtime rename", "disk"},
           result # "booted" \/ pc # "returned",
           pc # "idle" => fetch[c] = "none",
           c \in Launches => pc = "idle" \/ kernel = "good"
    PROVE  SoundStep(c)
<1>1. FilesOK'
  BY DEF LaunchInv, LaunchTypeOK, FilesOK
<1>2. InHand(c)'
  BY DEF LaunchInv, InHand, HasKernel, CallMoves
<1>3. QED
  BY <1>1, <1>2 DEF SoundStep, CallMoves, OnlyMoves, KeepsNamesWhole

(* Nobody is in two sections.                                               *)
LEMMA SectionsDisjoint ==
    ASSUME NEW pc, NEW k, NEW j, InSection(k, pc), InSection(j, pc)
    PROVE  j = k
BY DEF InSection

(* A caller in a section goes on in it, or releases its mutex.              *)
LEMMA SectionMoves ==
    ASSUME NEW c \in Callers, NEW k \in Mutexes, InSection(k, calls[c].pc),
           (UNCHANGED locks /\ InSection(k, calls'[c].pc)) \/ Unlocked(c, k)
    PROVE  LockMoves(c)
<1>1. \A j \in Mutexes \ {k} : ~InSection(j, calls[c].pc)
  BY SectionsDisjoint
<1>2. QED
  BY <1>1 DEF LockMoves

(* A caller outside the sections need not know about the mutexes.           *)
LEMMA OutsideMoves ==
    ASSUME NEW c \in Callers, UNCHANGED locks, \A k \in Mutexes : ~InSection(k, calls[c].pc)
    PROVE  LockMoves(c)
BY DEF LockMoves

(* The steps of Ensure, persistFromTarStream and Remove.                    *)
LEMMA ImageStepSound ==
    ASSUME LaunchInv, NEW c \in Callers, ImageStep(c) \/ Fail(c), UNCHANGED <<kernel, prepared, fetch, disk>>
    PROVE  SoundStep(c)
<1> DEFINE Next(pc, temp, result) == CallMoves(c, pc, temp, result)
<1>1. /\ "image" \in Mutexes /\ InSection("image", calls[c].pc)
      /\ calls[c].pc \notin {"idle", "kernel lock", "kernel download", "kernel rename", "returned"}
  BY DEF ImageStep, Fail, Lookup, Stat, Touch, Forget, CreateTemp, Materialize, Rename, Upsert,
         Select, Unlink, DeleteRow, At, Mutexes, InSection
<1>2. /\ fetch[c] = "none" /\ (c \in Launches => kernel = "good")
      /\ calls[c].pc \notin {"materialize", "rename"} => calls[c].temp = "none"
      /\ calls[c].pc = "rename" => calls[c].temp \in Sources
  BY <1>1 DEF LaunchInv, InHand, HasKernel, InSection
<1>3. /\ db \in [Digests -> Contents] /\ files \in [Digests -> Contents]
      /\ calls[c].digest \in Digests /\ calls[c].row \in Contents /\ calls[c].temp \in Contents
      /\ "none" \in Contents /\ SourceOf(c) \in Contents /\ SourceOf(c) \in Sources
  BY DEF LaunchInv, LaunchTypeOK, FilesOK, CallRecords, Contents, Sources, SourceOf
<1>4. /\ {"touch", "forget", "create", "stat", "unlink", "delete", "materialize", "rename", "upsert"} \subseteq Labels
      /\ {"hit", "built", "removed", "failed"} \subseteq Results
  BY DEF Labels, Results
<1>5. ASSUME NEW pc \in {"touch", "forget", "create", "stat", "unlink", "delete", "upsert"}, NEW result \in Results,
             Next(pc, "none", result), UNCHANGED locks,
             db' \in [Digests -> Contents], files' \in [Digests -> Contents],
             \A d \in Digests : files'[d] # files[d] => files'[d] \in Sources \cup {"none"}
      PROVE  SoundStep(c)
  <2>1. LockMoves(c)
    BY <1>1, <1>5, SectionMoves DEF InSection, CallMoves
  <2>2. QED
    BY <1>2, <1>5, <2>1, ImageMoves
<1>6. ASSUME NEW result \in {"hit", "built", "removed", "failed"}, Return(c, result),
             db' \in [Digests -> Contents], files' \in [Digests -> Contents],
             \A d \in Digests : files'[d] # files[d] => files'[d] \in Sources \cup {"none"}
      PROVE  SoundStep(c)
  <2>1. CallMoves(c, "returned", "none", result) /\ Unlocked(c, "image")
    BY <1>4, <1>6, ReturnMoves
  <2>2. LockMoves(c)
    BY <1>1, <2>1, SectionMoves
  <2>3. QED
    BY <1>2, <1>6, <2>1, <2>2, ImageMoves
<1>7. calls[c].result \in Results
  BY DEF LaunchInv, LaunchTypeOK, CallRecords
<1>8. CASE Stat(c) \/ Unlink(c) \/ Forget(c)
  <2>1. PICK pc \in {"touch", "forget", "delete", "create"} : Goto(c, pc)
    BY <1>8 DEF Stat, Unlink, Forget
  <2>2. calls[c].temp = "none" /\ UNCHANGED locks
    BY <1>2, <1>8 DEF Stat, Unlink, Forget, At
  <2>3. Next(pc, "none", calls[c].result)
    BY <1>4, <2>1, <2>2, GotoMoves
  <2>4. db' \in [Digests -> Contents] /\ files' \in [Digests -> Contents]
    BY <1>3, <1>8 DEF Stat, Unlink, Forget
  <2>5. \A d \in Digests : files'[d] # files[d] => files'[d] \in Sources \cup {"none"}
    BY <1>3, <1>8 DEF Stat, Unlink, Forget
  <2>6. QED
    BY <1>5, <1>7, <2>1, <2>2, <2>3, <2>4, <2>5
<1>9. CASE Lookup(c)
  <2>1. PICK pc \in {"create", "stat"} : calls' = [calls EXCEPT ![c].row = db[DigestOf(c)], ![c].pc = pc]
    BY <1>9 DEF Lookup
  <2>2. calls[c].temp = "none" /\ UNCHANGED <<locks, db, files>>
    BY <1>2, <1>9 DEF Lookup, At
  <2>3. Next(pc, "none", calls[c].result)
    BY ZenonT(60), <1>3, <1>4, <2>1, <2>2 DEF LaunchInv, LaunchTypeOK, CallRecords, CallMoves, DigestOf
  <2>4. QED
    BY <1>3, <1>5, <1>7, <2>1, <2>2, <2>3
<1>10. CASE Touch(c) \/ Upsert(c) \/ DeleteRow(c) \/ Fail(c)
  <2>1. PICK result \in {"hit", "built", "removed", "failed"} : Return(c, result)
    BY <1>10 DEF Touch, Upsert, DeleteRow, Fail
  <2>2. db' \in [Digests -> Contents] /\ files' \in [Digests -> Contents]
    BY <1>3, <1>10 DEF Touch, Upsert, DeleteRow, Fail
  <2>3. \A d \in Digests : files'[d] # files[d] => files'[d] \in Sources \cup {"none"}
    BY <1>3, <1>10 DEF Touch, Upsert, DeleteRow, Fail
  <2>4. QED
    BY <1>6, <2>1, <2>2, <2>3
<1>11. CASE Select(c)
  <2>1. UNCHANGED <<db, files>> /\ calls[c].temp = "none"
    BY <1>2, <1>11 DEF Select, At
  <2>2. CASE Return(c, "removed")
    BY <1>3, <1>6, <2>1, <2>2
  <2>3. CASE Goto(c, "unlink") /\ UNCHANGED locks
    <3>1. Next("unlink", "none", calls[c].result)
      BY <1>4, <2>1, <2>3, GotoMoves
    <3>2. QED
      BY <1>3, <1>5, <1>7, <2>1, <2>3, <3>1
  <2>4. QED
    BY <1>11, <2>2, <2>3 DEF Select
<1>12. CASE CreateTemp(c) \/ Materialize(c)
  <2>1. UNCHANGED <<db, files, locks>>
    BY <1>12 DEF CreateTemp, Materialize
  <2>2. PICK pc \in {"materialize", "rename"}, temp \in Contents :
          calls' = [calls EXCEPT ![c].pc = pc, ![c].temp = temp] /\ (pc = "rename" => temp \in Sources)
    BY <1>3, <1>12 DEF CreateTemp, Materialize, Contents
  <2>3. Next(pc, temp, calls[c].result)
    BY ZenonT(60), <1>4, <2>2 DEF LaunchInv, LaunchTypeOK, CallRecords, CallMoves
  <2>4. LockMoves(c)
    BY <1>1, <2>1, <2>3, SectionMoves DEF InSection, CallMoves
  <2>5. QED
    BY <1>2, <1>3, <2>1, <2>2, <2>3, <2>4, ImageMoves
<1>13. CASE Rename(c)
  <2>1. calls' = [calls EXCEPT ![c].pc = "upsert", ![c].temp = "none"] /\ UNCHANGED <<db, locks>>
    BY <1>13 DEF Rename
  <2>2. Next("upsert", "none", calls[c].result)
    BY ZenonT(60), <1>3, <1>4, <2>1 DEF LaunchInv, LaunchTypeOK, CallRecords, CallMoves
  <2>3. calls[c].temp \in Sources /\ files' = [files EXCEPT ![calls[c].digest] = calls[c].temp]
    BY <1>2, <1>13 DEF Rename, At, DigestOf
  <2>4. files' \in [Digests -> Contents] /\ \A d \in Digests : files'[d] # files[d] => files'[d] \in Sources \cup {"none"}
    BY <1>3, <2>3
  <2>5. QED
    BY <1>3, <1>5, <1>7, <2>1, <2>2, <2>4
<1>14. QED
  BY <1>8, <1>9, <1>10, <1>11, <1>12, <1>13 DEF ImageStep

(* The mutex of the Manager is taken, a call begins, or its result is used. *)
LEMMA CallSound ==
    ASSUME LaunchInv, NEW c \in Callers, UNCHANGED <<kernel, prepared, fetch, disk>>,
           \/ Lock(c) \/ Dismiss(c)
           \/ c \notin Launches /\ \E op \in {"ensure", "import", "remove"}, d \in Digests : Call(c, op, d)
    PROVE  SoundStep(c)
<1>1. /\ calls \in [Callers -> CallRecords] /\ calls[c] \in CallRecords /\ calls[c].digest \in Digests
      /\ db \in [Digests -> Contents] /\ files \in [Digests -> Contents]
  BY DEF LaunchInv, LaunchTypeOK, FilesOK, CallRecords
<1>2. /\ {"lookup", "create", "select", "lock", "idle"} \subseteq Labels \ {"disk"}
      /\ "image" \in Mutexes /\ "none" # "booted"
  BY DEF Labels, Mutexes
<1>3. InHand(c)
  BY DEF LaunchInv
<1>4. CASE Lock(c)
  <2> DEFINE b == \A q \in Processes : locks[q]["image"] = NoOne
             n == CASE calls[c].op = "ensure" -> "lookup"
                    [] calls[c].op = "import" -> "create"
                    [] calls[c].op = "remove" -> "select"
  <2>1. n \in {"lookup", "create", "select"}
    BY <1>1 DEF CallRecords
  <2>2. b \in BOOLEAN
    OBVIOUS
  <2>3. calls' = [o \in Callers |-> IF o = c THEN [calls[c] EXCEPT !.pc = n, !.alone = b]
                                    ELSE [calls[o] EXCEPT !.alone = FALSE]]
    BY <1>4 DEF Lock
  <2> HIDE DEF b, n
  <2>4. CallMoves(c, n, calls[c].temp, calls[c].result)
    BY <1>1, <1>2, <2>1, <2>2, <2>3 DEF CallRecords, CallMoves
  <2>5. calls[c].pc = "lock" /\ Locked(c, "image") /\ UNCHANGED <<db, files>>
    BY <1>4 DEF Lock, At
  <2>6. InSection("image", n) /\ \A j \in Mutexes : ~InSection(j, "lock")
    BY <2>1 DEF InSection
  <2>7. LockMoves(c)
    BY <1>2, <2>4, <2>5, <2>6 DEF LockMoves, CallMoves
  <2>8. calls[c].temp = "none" /\ fetch[c] = "none" /\ (c \in Launches => kernel = "good")
    BY <1>3, <2>5 DEF InHand, HasKernel
  <2>9. QED
    BY <1>1, <2>1, <2>4, <2>5, <2>7, <2>8, ImageMoves
<1>5. CASE Dismiss(c)
  <2>1. CallMoves(c, "idle", "none", "none")
    BY <1>1, <1>2, <1>5, NewCallMoves DEF Dismiss, DigestOf
  <2>2. LockMoves(c)
    BY <1>5, OutsideMoves DEF Dismiss, At, InSection
  <2>3. QED
    BY <1>1, <1>2, <1>5, <2>1, <2>2, ImageMoves DEF Dismiss
<1>6. ASSUME NEW op \in {"ensure", "import", "remove"}, NEW d \in Digests, Call(c, op, d), c \notin Launches
      PROVE  SoundStep(c)
  <2>1. CallMoves(c, "lock", "none", "none")
    BY <1>2, <1>6, NewCallMoves DEF Call
  <2>2. LockMoves(c)
    BY <1>6, OutsideMoves DEF Call, At, InSection
  <2>3. fetch[c] = "none"
    BY <1>3, <1>6 DEF InHand
  <2>4. QED
    BY <1>1, <1>2, <1>6, <2>1, <2>2, <2>3, ImageMoves DEF Call
<1>7. QED
  BY <1>4, <1>5, <1>6

-----------------------------------------------------------------------------
(* A step of a launch writes the kernel and the prepared file, if at all,   *)
(* completely; afterwards its temporary file is f and its disk is v.        *)
DataMoves(c, f, v) ==
    /\ UNCHANGED <<db, files>>
    /\ kernel' \in {kernel, "good"}
    /\ \/ UNCHANGED prepared
       \/ \E content \in {"good", "none"} : prepared' = [prepared EXCEPT ![calls[c].digest] = content]
    /\ fetch' = [fetch EXCEPT ![c] = f]
    /\ disk' = [disk EXCEPT ![c] = v]

(* With these a launch may be at pc.                                        *)
MayBeAt(c, pc, result, f, v) ==
    /\ pc \notin {"materialize", "rename"}
    /\ f \in Kernels \cup {"part"} /\ v \in Kernels
    /\ pc \in {"kernel rename", "runtime rename"} => f = "good"
    /\ pc \notin {"idle", "kernel rename", "runtime install", "runtime rename", "returned"} => f = "none"
    /\ pc = "returned" /\ result # "copy failed" => f = "none"
    /\ pc = "disk" => prepared'[calls[c].digest] # "bad"
    /\ pc = "returned" /\ result = "booted" => v = "good"
    /\ \/ pc \in {"idle", "kernel lock", "kernel download", "kernel rename"}
       \/ pc = "returned" /\ result \notin {"hit", "built", "booted"}
       \/ kernel' = "good"

(* The steps of a launch are sound when they go where the launch has in     *)
(* hand what it needs.                                                      *)
LEMMA PrepareMoves ==
    ASSUME LaunchInv, NEW c \in Launches, NEW pc, NEW result, NEW f, NEW v, CallMoves(c, pc, "none", result),
           LockMoves(c), DataMoves(c, f, v), MayBeAt(c, pc, result, f, v)
    PROVE  SoundStep(c)
<1>1. c \in Callers /\ calls[c].digest \in Digests
  BY LaunchAssumption DEF LaunchInv, LaunchTypeOK, CallRecords
<1>2. FilesOK /\ FilesOK'
  BY <1>1 DEF LaunchInv, LaunchTypeOK, FilesOK, Kernels, DataMoves, MayBeAt
<1>3. fetch'[c] = f /\ disk'[c] = v /\ \A o \in Callers \ {c} : fetch'[o] = fetch[o] /\ disk'[o] = disk[o]
  BY <1>1, <1>2 DEF FilesOK, DataMoves
<1>4. InHand(c)'
  BY <1>3 DEF InHand, HasKernel, CallMoves, MayBeAt
<1>5. KeepsNamesWhole
  BY <1>1, <1>2 DEF FilesOK, KeepsNamesWhole, DataMoves
<1>6. QED
  BY <1>2, <1>3, <1>4, <1>5 DEF SoundStep, CallMoves, OnlyMoves

(* The steps on the way to the disk of a VM.                                *)
LEMMA PrepareStepSound ==
    ASSUME LaunchInv, NEW c \in Launches, PrepareStep(c)
    PROVE  SoundStep(c)
<1>1. /\ c \in Callers /\ calls[c].digest \in Digests /\ calls[c].result \in Results
      /\ prepared \in [Digests -> Kernels] /\ fetch \in [Callers -> Kernels \cup {"part"}]
      /\ disk \in [Callers -> Kernels] /\ InHand(c)
  BY LaunchAssumption DEF LaunchInv, LaunchTypeOK, FilesOK, CallRecords
<1>2. /\ {"lock", "kernel lock", "kernel download", "kernel rename", "returned", "prepared?", "disk", "discard",
          "runtime lock", "runtime copy", "runtime install", "runtime rename"} \subseteq Labels \ {"materialize", "rename"}
      /\ {"failed", "copy failed", "booted"} \subseteq Results
      /\ {"none", "good", "bad"} = Kernels /\ {"kernel", "runtime"} \subseteq Mutexes
  BY DEF Labels, Results, Kernels, Mutexes
<1>3. fetch = [fetch EXCEPT ![c] = fetch[c]] /\ disk = [disk EXCEPT ![c] = disk[c]]
  BY <1>1
<1>4. calls[c].pc \notin {"materialize", "rename"} => calls[c].temp = "none"
  BY <1>1 DEF InHand
<1>5. calls[c].pc \notin {"idle", "kernel rename", "runtime install", "runtime rename", "returned"} =>
        fetch[c] = "none"
  BY <1>1 DEF InHand
<1>6. calls[c].pc \notin {"idle", "kernel lock", "kernel download", "kernel rename", "returned"} => kernel = "good"
  BY <1>1 DEF InHand, HasKernel
<1>7. Usable(DigestOf(c)) => prepared[calls[c].digest] # "bad"
  BY <1>1, LaunchAssumption DEF LaunchInv, PreparedValid, Usable, DigestOf
<1>8. ASSUME NEW mutex \in {"kernel", "runtime"}, NEW result \in {"failed", "copy failed"}, Fails(c, mutex, result),
             InSection(mutex, calls[c].pc)
      PROVE  CallMoves(c, "returned", "none", result) /\ LockMoves(c)
  <2>1. calls[c].temp = "none"
    BY <1>4, <1>8 DEF InSection
  <2>2. CallMoves(c, "returned", "none", result)
    BY <1>1, <1>2, <1>8, <2>1, FailsMoves DEF Fails
  <2>3. QED
    BY <1>1, <1>2, <1>8, <2>2, SectionMoves DEF Fails
<1>9. CASE BeginLaunch(c)
  <2>1. PICK pc \in {"lock", "kernel lock"} : Goto(c, pc) /\ (pc = "lock" => kernel = "good")
    BY <1>9 DEF BeginLaunch
  <2>2. CallMoves(c, pc, "none", calls[c].result)
    BY <1>1, <1>2, <1>4, <1>9, <2>1, GotoMoves DEF BeginLaunch, At
  <2>3. LockMoves(c)
    BY <1>1, <1>9, OutsideMoves DEF BeginLaunch, At, InSection
  <2>4. DataMoves(c, "none", "none")
    BY <1>2, <1>9, <2>1, <2>2, <2>3 DEF DataMoves, BeginLaunch
  <2>5. MayBeAt(c, pc, calls[c].result, "none", "none")
    BY <1>2, <1>9, <2>1, <2>2, <2>3 DEF MayBeAt, BeginLaunch
  <2>6. QED
    BY <2>1, <2>2, <2>3, <2>4, <2>5, PrepareMoves
<1>10. CASE KernelLock(c)
  <2>1. calls[c].pc = "kernel lock" /\ UNCHANGED <<db, files, kernel, prepared, fetch, disk>>
    BY <1>10 DEF KernelLock, At, OnlyKernel
  <2>2. CASE kernel = "good"
    <3>1. CallMoves(c, "lock", "none", calls[c].result)
      BY <1>1, <1>2, <1>4, <1>10, <2>1, <2>2, GotoMoves DEF KernelLock
    <3>2. LockMoves(c)
      BY <1>1, <1>10, <2>1, <2>2, OutsideMoves DEF KernelLock, InSection
    <3>3. DataMoves(c, fetch[c], disk[c])
      BY <1>1, <1>2, <1>3, <1>5, <2>1, <2>2, <3>1, <3>2 DEF DataMoves
    <3>4. MayBeAt(c, "lock", calls[c].result, fetch[c], disk[c])
      BY <1>1, <1>2, <1>3, <1>5, <2>1, <2>2, <3>1, <3>2 DEF MayBeAt
    <3>5. QED
      BY <2>1, <2>2, <3>1, <3>2, <3>3, <3>4, PrepareMoves
  <2>3. CASE kernel # "good"
    <3>1. CallMoves(c, "kernel download", "none", calls[c].result) /\ Locked(c, "kernel")
      BY <1>1, <1>2, <1>4, <1>10, <2>1, <2>3, GotoMoves DEF KernelLock
    <3>2. LockMoves(c)
      BY <1>2, <2>1, <3>1 DEF LockMoves, CallMoves, InSection
    <3>3. DataMoves(c, fetch[c], disk[c])
      BY <1>1, <1>2, <1>3, <1>5, <2>1, <3>1, <3>2 DEF DataMoves
    <3>4. MayBeAt(c, "kernel download", calls[c].result, fetch[c], disk[c])
      BY <1>1, <1>2, <1>3, <1>5, <2>1, <3>1, <3>2 DEF MayBeAt
    <3>5. QED
      BY <2>1, <3>1, <3>2, <3>3, <3>4, PrepareMoves
  <2>4. QED
    BY <2>2, <2>3
<1>11. ASSUME NEW content \in {"good", "bad"}, KernelDownload(c, content) PROVE SoundStep(c)
  <2>1. calls[c].pc = "kernel download" /\ UNCHANGED <<db, files, kernel, prepared, disk>>
    BY <1>11 DEF KernelDownload, At, OnlyKernel
  <2>2. InSection("kernel", calls[c].pc) /\ InSection("kernel", "kernel rename")
    BY <2>1 DEF InSection
  <2>3. CASE content = "good"
    <3>1. CallMoves(c, "kernel rename", "none", calls[c].result)
      <4>1. Goto(c, "kernel rename")
        BY <1>11, <2>3 DEF KernelDownload
      <4>2. QED
        BY <1>1, <1>2, <1>4, <2>1, <4>1, GotoMoves
    <3>2. LockMoves(c)
      BY <1>1, <1>2, <1>11, <2>2, <2>3, <3>1, SectionMoves DEF KernelDownload, CallMoves
    <3>3. fetch' = [fetch EXCEPT ![c] = "good"]
      BY <1>11, <2>3 DEF KernelDownload
    <3>4. DataMoves(c, "good", disk[c])
      BY <1>1, <1>2, <1>3, <2>1, <3>1, <3>2, <3>3 DEF DataMoves
    <3>5. MayBeAt(c, "kernel rename", calls[c].result, "good", disk[c])
      BY <1>1, <1>2, <1>3, <2>1, <3>1, <3>2, <3>3 DEF MayBeAt
    <3>6. QED
      BY <2>1, <3>1, <3>2, <3>3, <3>4, <3>5, PrepareMoves
  <2>4. CASE content # "good"
    <3>1. CallMoves(c, "returned", "none", "failed") /\ LockMoves(c) /\ fetch' = fetch
      BY <1>8, <1>11, <2>2, <2>4 DEF KernelDownload
    <3>2. DataMoves(c, fetch[c], disk[c])
      BY <1>1, <1>2, <1>3, <1>5, <2>1, <3>1 DEF DataMoves
    <3>3. MayBeAt(c, "returned", "failed", fetch[c], disk[c])
      BY <1>1, <1>2, <1>3, <1>5, <2>1, <3>1 DEF MayBeAt
    <3>4. QED
      BY <2>1, <3>1, <3>2, <3>3, PrepareMoves
  <2>5. QED
    BY <2>3, <2>4
<1>12. ASSUME NEW renamed \in BOOLEAN, KernelRename(c, renamed) PROVE SoundStep(c)
  <2>1. calls[c].pc = "kernel rename" /\ UNCHANGED <<db, files, prepared, disk>> /\ fetch' = [fetch EXCEPT ![c] = "none"]
    BY <1>12 DEF KernelRename, At, OnlyKernel
  <2>2. fetch[c] = "good" /\ kernel' \in {kernel, "good"}
    BY <1>1, <1>12, <2>1 DEF KernelRename, InHand
  <2>3. InSection("kernel", calls[c].pc)
    BY <2>1 DEF InSection
  <2>4. CASE kernel' = "good"
    <3>1. CallMoves(c, "lock", "none", calls[c].result) /\ Unlocked(c, "kernel")
      BY ZenonT(60), <1>1, <1>2, <1>4, <1>12, <2>1, <2>4, GotoMoves DEF KernelRename
    <3>2. LockMoves(c)
      BY <1>1, <1>2, <2>3, <3>1, SectionMoves
    <3>3. DataMoves(c, "none", disk[c])
      BY <1>1, <1>2, <1>3, <2>1, <2>2, <2>4, <3>1, <3>2 DEF DataMoves
    <3>4. MayBeAt(c, "lock", calls[c].result, "none", disk[c])
      BY <1>1, <1>2, <1>3, <2>1, <2>2, <2>4, <3>1, <3>2 DEF MayBeAt
    <3>5. QED
      BY <2>1, <2>2, <2>4, <3>1, <3>2, <3>3, <3>4, PrepareMoves
  <2>5. CASE kernel' # "good"
    <3>1. CallMoves(c, "returned", "none", "failed") /\ LockMoves(c)
      BY <1>8, <1>12, <2>3, <2>5 DEF KernelRename
    <3>2. DataMoves(c, "none", disk[c])
      BY <1>1, <1>2, <1>3, <2>1, <2>2, <3>1 DEF DataMoves
    <3>3. MayBeAt(c, "returned", "failed", "none", disk[c])
      BY <1>1, <1>2, <1>3, <2>1, <2>2, <3>1 DEF MayBeAt
    <3>4. QED
      BY <2>1, <2>2, <3>1, <3>2, <3>3, PrepareMoves
  <2>6. QED
    BY <2>4, <2>5
<1>13. CASE LaunchSource(c)
  <2>1. /\ calls[c].pc = "returned" /\ calls[c].result \in {"hit", "built"}
        /\ UNCHANGED <<db, files, locks, kernel, prepared, fetch, disk>>
    BY <1>13 DEF LaunchSource, At, OnlyPrepared
  <2>2. fetch[c] = "none" /\ kernel = "good" /\ calls[c].temp = "none"
    BY <1>1, <2>1 DEF InHand, HasKernel
  <2>3. LockMoves(c)
    BY <1>1, <2>1, OutsideMoves DEF InSection
  <2>4. CASE calls' = [calls EXCEPT ![c].result = "failed"]
    <3>1. CallMoves(c, "returned", "none", "failed")
      <4>1. calls \in [Callers -> CallRecords] /\ c \in Callers /\ "failed" \in Results
        BY <1>1, <1>2 DEF LaunchInv, LaunchTypeOK
      <4>2. QED
        BY <2>1, <2>2, <2>4, <4>1 DEF CallRecords, CallMoves
    <3>2. DataMoves(c, fetch[c], disk[c])
      BY <1>1, <1>2, <1>3, <2>1, <2>2, <2>3, <3>1 DEF DataMoves
    <3>3. MayBeAt(c, "returned", "failed", fetch[c], disk[c])
      BY <1>1, <1>2, <1>3, <2>1, <2>2, <2>3, <3>1 DEF MayBeAt
    <3>4. QED
      BY <2>1, <2>2, <2>3, <3>1, <3>2, <3>3, PrepareMoves
  <2>5. CASE calls' = [calls EXCEPT ![c] = [NewCall(DigestOf(c)) EXCEPT !.pc = "prepared?"]]
    <3>1. CallMoves(c, "prepared?", "none", "none")
      BY <1>1, <1>2, <2>5, NewCallMoves DEF DigestOf
    <3>2. DataMoves(c, fetch[c], disk[c])
      BY <1>1, <1>2, <1>3, <2>1, <2>2, <2>3, <3>1 DEF DataMoves
    <3>3. MayBeAt(c, "prepared?", "none", fetch[c], disk[c])
      BY <1>1, <1>2, <1>3, <2>1, <2>2, <2>3, <3>1 DEF MayBeAt
    <3>4. QED
      BY <2>1, <2>2, <2>3, <3>1, <3>2, <3>3, PrepareMoves
  <2>6. QED
    BY <1>13, <2>4, <2>5 DEF LaunchSource
<1>14. CASE PreparedLook(c) \/ PreparedDiscard(c)
  <2>1. /\ calls[c].pc \in {"prepared?", "discard"} /\ UNCHANGED <<db, files, locks, kernel, fetch, disk>>
    BY <1>14 DEF PreparedLook, PreparedDiscard, At, OnlyPrepared
  <2>2. PICK pc \in {"disk", "runtime lock", "discard"} :
          Goto(c, pc) /\ (pc = "disk" => Usable(DigestOf(c)) /\ prepared' = prepared)
    BY <1>14 DEF PreparedLook, PreparedDiscard
  <2>3. prepared' = prepared \/ prepared' = [prepared EXCEPT ![calls[c].digest] = "none"]
    BY <1>14 DEF PreparedLook, PreparedDiscard, DigestOf
  <2>4. CallMoves(c, pc, "none", calls[c].result)
    BY <1>1, <1>2, <1>4, <2>1, <2>2, GotoMoves
  <2>5. LockMoves(c)
    BY <1>1, <2>1, OutsideMoves DEF InSection
  <2>6. DataMoves(c, fetch[c], disk[c])
    BY <1>1, <1>2, <1>3, <1>5, <1>6, <1>7, <2>1, <2>2, <2>3, <2>4, <2>5 DEF DataMoves
  <2>7. MayBeAt(c, pc, calls[c].result, fetch[c], disk[c])
    BY <1>1, <1>2, <1>3, <1>5, <1>6, <1>7, <2>1, <2>2, <2>3, <2>4, <2>5 DEF MayBeAt
  <2>8. QED
    BY <2>1, <2>2, <2>3, <2>4, <2>5, <2>6, <2>7, PrepareMoves
<1>15. CASE RuntimeLock(c)
  <2>1. calls[c].pc = "runtime lock" /\ UNCHANGED <<db, files, kernel, fetch, disk>>
    BY <1>15 DEF RuntimeLock, At, OnlyPrepared
  <2>2. CASE Usable(DigestOf(c))
    <3>1. CallMoves(c, "disk", "none", calls[c].result) /\ prepared' = prepared
      BY <1>1, <1>2, <1>4, <1>15, <2>1, <2>2, GotoMoves DEF RuntimeLock
    <3>2. LockMoves(c)
      BY <1>1, <1>15, <2>1, <2>2, OutsideMoves DEF RuntimeLock, InSection
    <3>3. DataMoves(c, fetch[c], disk[c])
      BY <1>1, <1>2, <1>3, <1>5, <1>6, <1>7, <2>1, <2>2, <3>1, <3>2 DEF DataMoves
    <3>4. MayBeAt(c, "disk", calls[c].result, fetch[c], disk[c])
      BY <1>1, <1>2, <1>3, <1>5, <1>6, <1>7, <2>1, <2>2, <3>1, <3>2 DEF MayBeAt
    <3>5. QED
      BY <2>1, <2>2, <3>1, <3>2, <3>3, <3>4, PrepareMoves
  <2>3. CASE ~Usable(DigestOf(c))
    <3>1. /\ CallMoves(c, "runtime copy", "none", calls[c].result) /\ Locked(c, "runtime")
          /\ prepared' = [prepared EXCEPT ![calls[c].digest] = "none"]
      <4>1. /\ Goto(c, "runtime copy") /\ Locked(c, "runtime")
            /\ prepared' = [prepared EXCEPT ![calls[c].digest] = "none"]
        BY <1>15, <2>3 DEF RuntimeLock, DigestOf
      <4>2. QED
        BY <1>1, <1>2, <1>4, <2>1, <4>1, GotoMoves
    <3>2. LockMoves(c)
      BY <1>2, <2>1, <3>1 DEF LockMoves, CallMoves, InSection
    <3>3. DataMoves(c, fetch[c], disk[c])
      BY <1>1, <1>2, <1>3, <1>5, <1>6, <2>1, <3>1, <3>2 DEF DataMoves
    <3>4. MayBeAt(c, "runtime copy", calls[c].result, fetch[c], disk[c])
      BY <1>1, <1>2, <1>3, <1>5, <1>6, <2>1, <3>1, <3>2 DEF MayBeAt
    <3>5. QED
      BY <2>1, <3>1, <3>2, <3>3, <3>4, PrepareMoves
  <2>4. QED
    BY <2>2, <2>3
<1>16. CASE RuntimeCopy(c) \/ RuntimeInstall(c)
  <2>1. /\ calls[c].pc \in {"runtime copy", "runtime install"}
        /\ UNCHANGED <<db, files, locks, kernel, prepared, disk>>
    BY <1>16 DEF RuntimeCopy, RuntimeInstall, At, OnlyPrepared
  <2>2. PICK pc \in {"runtime install", "runtime rename"}, f \in {"good", "bad"} :
          Goto(c, pc) /\ fetch' = [fetch EXCEPT ![c] = f] /\ (pc = "runtime rename" => f = "good")
    BY <1>16 DEF RuntimeCopy, RuntimeInstall
  <2>3. CallMoves(c, pc, "none", calls[c].result)
    BY <1>1, <1>2, <1>4, <2>1, <2>2, GotoMoves
  <2>4. LockMoves(c)
    <3>1. InSection("runtime", calls[c].pc) /\ InSection("runtime", calls'[c].pc)
      BY <2>1, <2>2, <2>3 DEF InSection, CallMoves
    <3>2. QED
      BY <1>1, <1>2, <2>1, <3>1, SectionMoves
  <2>5. DataMoves(c, f, disk[c])
    BY <1>1, <1>2, <1>3, <1>6, <2>1, <2>2, <2>3, <2>4 DEF DataMoves
  <2>6. MayBeAt(c, pc, calls[c].result, f, disk[c])
    BY <1>1, <1>2, <1>3, <1>6, <2>1, <2>2, <2>3, <2>4 DEF MayBeAt
  <2>7. QED
    BY <2>1, <2>2, <2>3, <2>4, <2>5, <2>6, PrepareMoves
<1>17. CASE RuntimeCopyFails(c) \/ RuntimeInstallFails(c)
  <2>1. /\ calls[c].pc \in {"runtime copy", "runtime install"}
        /\ UNCHANGED <<db, files, kernel, prepared, disk>>
    BY <1>17 DEF RuntimeCopyFails, RuntimeInstallFails, At, OnlyPrepared
  <2>2. PICK result \in {"failed", "copy failed"}, f \in {"none", "part"} :
          /\ Fails(c, "runtime", result) /\ fetch' = [fetch EXCEPT ![c] = f]
          /\ result # "copy failed" => f = "none"
    BY <1>17 DEF RuntimeCopyFails, RuntimeInstallFails
  <2>3. CallMoves(c, "returned", "none", result) /\ LockMoves(c)
    BY <1>8, <2>1, <2>2 DEF InSection
  <2>4. DataMoves(c, f, disk[c])
    BY <1>1, <1>2, <1>3, <2>1, <2>2, <2>3 DEF DataMoves
  <2>5. MayBeAt(c, "returned", result, f, disk[c])
    BY <1>1, <1>2, <1>3, <2>1, <2>2, <2>3 DEF MayBeAt
  <2>6. QED
    BY <2>1, <2>2, <2>3, <2>4, <2>5, PrepareMoves
<1>18. ASSUME NEW renamed \in BOOLEAN, RuntimeRename(c, renamed) PROVE SoundStep(c)
  <2>1. /\ calls[c].pc = "runtime rename" /\ UNCHANGED <<db, files, kernel, disk>>
        /\ fetch' = [fetch EXCEPT ![c] = "none"]
    BY <1>18 DEF RuntimeRename, At, OnlyPrepared
  <2>2. InSection("runtime", calls[c].pc) /\ fetch[c] = "good"
    BY <1>1, <2>1 DEF InSection, InHand
  <2>3. prepared' = IF renamed THEN [prepared EXCEPT ![calls[c].digest] = "good"] ELSE prepared
    BY <1>18, <2>2 DEF RuntimeRename, DigestOf
  <2>4. CASE renamed \/ Usable(DigestOf(c))
    <3>1. CallMoves(c, "disk", "none", calls[c].result) /\ Unlocked(c, "runtime")
      BY ZenonT(60), <1>1, <1>2, <1>4, <1>18, <2>1, <2>4, GotoMoves DEF RuntimeRename
    <3>2. LockMoves(c)
      BY <1>1, <1>2, <2>2, <3>1, SectionMoves
    <3>3. prepared'[calls[c].digest] # "bad"
      BY <1>1, <1>7, <2>3, <2>4
    <3>4. DataMoves(c, "none", disk[c])
      BY <1>1, <1>2, <1>3, <1>6, <2>1, <2>3, <3>1, <3>2, <3>3 DEF DataMoves
    <3>5. MayBeAt(c, "disk", calls[c].result, "none", disk[c])
      BY <1>1, <1>2, <1>3, <1>6, <2>1, <2>3, <3>1, <3>2, <3>3 DEF MayBeAt
    <3>6. QED
      BY <2>1, <2>3, <3>1, <3>2, <3>3, <3>4, <3>5, PrepareMoves
  <2>5. CASE ~(renamed \/ Usable(DigestOf(c)))
    <3>1. CallMoves(c, "returned", "none", "failed") /\ LockMoves(c)
      BY <1>8, <1>18, <2>2, <2>5 DEF RuntimeRename
    <3>2. DataMoves(c, "none", disk[c])
      BY <1>1, <1>2, <1>3, <2>1, <2>3, <3>1 DEF DataMoves
    <3>3. MayBeAt(c, "returned", "failed", "none", disk[c])
      BY <1>1, <1>2, <1>3, <2>1, <2>3, <3>1 DEF MayBeAt
    <3>4. QED
      BY <2>1, <2>3, <3>1, <3>2, <3>3, PrepareMoves
  <2>6. QED
    BY <2>4, <2>5
<1>19. CASE CopyDisk(c)
  <2>1. /\ calls[c].pc = "disk" /\ UNCHANGED <<db, files, locks, kernel, prepared, fetch>>
        /\ disk' = [disk EXCEPT ![c] = prepared[calls[c].digest]]
    BY <1>19 DEF CopyDisk, At, DigestOf
  <2>2. prepared[calls[c].digest] \in {"none", "good"}
    BY <1>1, <1>2, <2>1 DEF InHand
  <2>3. PICK result \in {"failed", "booted"} :
          /\ calls' = [calls EXCEPT ![c].pc = "returned", ![c].result = result]
          /\ result = "booted" => prepared[calls[c].digest] = "good"
    BY <1>1, <1>19, <2>1, <2>2 DEF CopyDisk
  <2>4. CallMoves(c, "returned", "none", result)
    BY <1>1, <1>2, <1>4, <2>1, <2>3, FailsMoves
  <2>5. LockMoves(c)
    BY <1>1, <2>1, OutsideMoves DEF InSection
  <2>6. DataMoves(c, fetch[c], prepared[calls[c].digest])
    BY <1>1, <1>2, <1>3, <1>5, <1>6, <2>1, <2>2, <2>3, <2>4, <2>5 DEF DataMoves
  <2>7. MayBeAt(c, "returned", result, fetch[c], prepared[calls[c].digest])
    BY <1>1, <1>2, <1>3, <1>5, <1>6, <2>1, <2>2, <2>3, <2>4, <2>5 DEF MayBeAt
  <2>8. QED
    BY <2>1, <2>2, <2>3, <2>4, <2>5, <2>6, <2>7, PrepareMoves
<1>20. QED
  BY <1>9, <1>10, <1>11, <1>12, <1>13, <1>14, <1>15, <1>16, <1>17, <1>18, <1>19 DEF PrepareStep

-----------------------------------------------------------------------------
(* A process dies: its callers start again and hold nothing.                *)
LEMMA CrashKeeps ==
    ASSUME LaunchInv, NEW p \in Processes, Crash(p), UNCHANGED <<db, files, kernel, prepared>>,
           fetch' = [c \in Callers |-> IF ProcessOf[c] = p THEN "none" ELSE fetch[c]],
           disk' = [c \in Callers |-> IF ProcessOf[c] = p THEN "none" ELSE disk[c]]
    PROVE  LaunchInv'
<1>1. /\ calls \in [Callers -> CallRecords] /\ LocksOK /\ FilesOK /\ PreparedValid /\ HeldInSection
      /\ \A c \in Callers : InHand(c)
  BY DEF LaunchInv, LaunchTypeOK
<1>2. /\ calls' = [c \in Callers |-> IF ProcessOf[c] = p THEN NewCall(DigestOf(c)) ELSE calls[c]]
      /\ locks' = [locks EXCEPT ![p] = [k \in Mutexes |-> NoOne]]
  BY DEF Crash
<1>3. \A c \in Callers : NewCall(DigestOf(c)) \in CallRecords
  BY <1>1 DEF CallRecords, NewCall, DigestOf, Contents, Results, Labels
<1>4. calls' \in [Callers -> CallRecords]
  BY <1>1, <1>2, <1>3
<1>5. LocksOK'
  BY <1>1, <1>2 DEF LocksOK
<1>6. FilesOK'
  BY <1>1 DEF FilesOK, Kernels
<1>7. ASSUME NEW c \in Callers PROVE InHand(c)'
  <2>1. CASE ProcessOf[c] = p
    <3>1. fetch'[c] = "none" /\ calls'[c] = NewCall(DigestOf(c))
      BY <1>2, <2>1
    <3>2. NewCall(DigestOf(c)).pc = "idle" /\ NewCall(DigestOf(c)).temp = "none"
      BY Zenon DEF NewCall
    <3>3. calls'[c].pc = "idle" /\ calls'[c].temp = "none" /\ fetch'[c] = "none"
      BY <3>1, <3>2, Zenon
    <3>4. QED
      BY <3>3 DEF InHand, HasKernel
  <2>2. CASE ProcessOf[c] # p
    <3>1. calls'[c] = calls[c] /\ fetch'[c] = fetch[c] /\ disk'[c] = disk[c]
      BY <1>2, <2>2
    <3>2. InHand(c)
      BY <1>1
    <3>3. kernel' = kernel /\ prepared' = prepared
      OBVIOUS
    <3>4. QED
      BY <3>1, <3>2, <3>3 DEF InHand, HasKernel
  <2>3. QED
    BY <2>1, <2>2
<1>8. HeldInSection'
  <2> SUFFICES ASSUME NEW q \in Processes, NEW k \in Mutexes, locks'[q][k] # NoOne
               PROVE  ProcessOf[locks'[q][k]] = q /\ InSection(k, calls'[locks'[q][k]].pc)
    BY DEF HeldInSection
  <2>1. q # p /\ locks'[q][k] = locks[q][k] /\ locks[q][k] \in Callers
    BY <1>1, <1>2 DEF LocksOK
  <2>2. ProcessOf[locks[q][k]] = q /\ InSection(k, calls[locks[q][k]].pc)
    BY <1>1, <2>1 DEF HeldInSection
  <2>3. calls'[locks[q][k]] = calls[locks[q][k]]
    BY <1>2, <2>1, <2>2
  <2>4. QED
    BY <2>1, <2>2, <2>3
<1>9. QED
  BY <1>1, <1>4, <1>5, <1>6, <1>7, <1>8 DEF LaunchInv, LaunchTypeOK, PreparedValid

(* The caches start with what earlier processes have left.                  *)
LEMMA LaunchInitial == LaunchInit => LaunchInv
<1> SUFFICES ASSUME LaunchInit PROVE LaunchInv
  OBVIOUS
<1>1. calls \in [Callers -> CallRecords] /\ \A c \in Callers : calls[c].pc = "idle" /\ calls[c].temp = "none"
  <2>1. \A d \in Digests : /\ NewCall(d) \in CallRecords
                           /\ NewCall(d).pc = "idle" /\ NewCall(d).temp = "none"
    BY DEF CallRecords, NewCall, Contents, Results, Labels
  <2>2. calls \in [Callers -> {NewCall(d) : d \in Digests}]
    BY DEF LaunchInit, ImageInit
  <2>3. QED
    BY <2>1, <2>2
<1>2. FilesOK /\ LocksOK
  BY DEF LaunchInit, ImageInit, FilesOK, LocksOK, Contents, Kernels
<1>3. \A c \in Callers : InHand(c)
  BY <1>1 DEF LaunchInit, InHand, HasKernel
<1>4. PreparedValid /\ HeldInSection
  BY DEF LaunchInit, ImageInit, PreparedValid, HeldInSection
<1>5. QED
  BY <1>1, <1>2, <1>3, <1>4 DEF LaunchInv, LaunchTypeOK

(* Every step keeps the invariant and the files under their final names.    *)
LEMMA LaunchSteps == LaunchInv /\ [LaunchNext]_launchVars => LaunchInv' /\ (KeepsNamesWhole \/ UNCHANGED launchVars)
<1> SUFFICES ASSUME LaunchInv, [LaunchNext]_launchVars PROVE LaunchInv' /\ (KeepsNamesWhole \/ UNCHANGED launchVars)
  OBVIOUS
<1>1. ASSUME NEW c \in Callers, SoundStep(c) PROVE LaunchInv' /\ KeepsNamesWhole
  BY <1>1, SoundStepsKeep DEF SoundStep
<1>2. ASSUME NEW c \in Launches, PrepareStep(c) PROVE SoundStep(c) /\ c \in Callers
  BY <1>2, PrepareStepSound, LaunchAssumption
<1>3. ASSUME NEW c \in Callers, UNCHANGED <<kernel, prepared, fetch, disk>>,
             \/ Lock(c) \/ ImageStep(c) \/ Fail(c)
             \/ Finished(c) /\ Dismiss(c)
             \/ c \notin Launches /\ \E op \in {"ensure", "import", "remove"}, d \in Digests : Call(c, op, d)
      PROVE  SoundStep(c)
  BY <1>3, ImageStepSound, CallSound
<1>4. ASSUME NEW p \in Processes, Crash(p), UNCHANGED <<db, files, kernel, prepared>>,
             fetch' = [c \in Callers |-> IF ProcessOf[c] = p THEN "none" ELSE fetch[c]],
             disk' = [c \in Callers |-> IF ProcessOf[c] = p THEN "none" ELSE disk[c]]
      PROVE  LaunchInv' /\ KeepsNamesWhole
  BY <1>4, CrashKeeps DEF KeepsNamesWhole
<1>5. CASE UNCHANGED launchVars
  BY ZenonT(60), <1>5 DEF launchVars, imageVars, LaunchInv, LaunchTypeOK, LocksOK, FilesOK, InHand, HasKernel,
              PreparedValid, HeldInSection
<1>6. QED
  BY <1>1, <1>2, <1>3, <1>4, <1>5 DEF LaunchNext

-----------------------------------------------------------------------------
(* What a launch relies on at each of its steps.                            *)
THEOREM LaunchInvariant == LaunchSpec => []LaunchInv
BY LaunchInitial, LaunchSteps, PTL DEF LaunchSpec

(* No crash, failure or race leaves an incomplete image, kernel or prepared *)
(* file under its final name, for any number of processes.                  *)
THEOREM FinalNamesWholeHolds == LaunchSpec => FinalNamesWhole
<1>1. LaunchInv /\ [LaunchNext]_launchVars => [KeepsNamesWhole]_launchVars
  BY LaunchSteps
<1>2. QED
  BY <1>1, LaunchInvariant, PTL DEF LaunchSpec, FinalNamesWhole, KeepsNamesWhole

(* Every VM that is started has a verified kernel and the guest runtime.    *)
THEOREM BootsCompleteHolds == LaunchSpec => []BootsComplete
<1>1. LaunchInv => BootsComplete
  BY LaunchAssumption DEF LaunchInv, InHand, HasKernel, BootsComplete, At
<1>2. QED
  BY <1>1, LaunchInvariant, PTL

(* A call that has returned holds no temporary file and no mutex, except    *)
(* for the copy that copyFile leaves.                                       *)
THEOREM NothingHeldHolds == LaunchSpec => []NothingHeldAfterReturn
<1>1. LaunchInv => NothingHeldAfterReturn
  <2> SUFFICES ASSUME LaunchInv, NEW c \in Callers, calls[c].pc = "returned"
               PROVE  /\ calls[c].result # "copy failed" => calls[c].temp = "none" /\ fetch[c] = "none"
                      /\ \A p \in Processes, k \in Mutexes : locks[p][k] # c
    BY DEF NothingHeldAfterReturn, At
  <2>1. calls[c].result # "copy failed" => calls[c].temp = "none" /\ fetch[c] = "none"
    BY DEF LaunchInv, InHand
  <2>2. ASSUME NEW p \in Processes, NEW k \in Mutexes, locks[p][k] = c PROVE FALSE
    <3>1. InSection(k, calls[c].pc)
      BY <2>2, ImageAssumption DEF LaunchInv, HeldInSection
    <3>2. QED
      BY <3>1 DEF InSection
  <2>3. QED
    BY <2>1, <2>2
<1>2. QED
  BY <1>1, LaunchInvariant, PTL

=============================================================================
