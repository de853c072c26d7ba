-------------------------- MODULE LaunchArtifacts --------------------------
(***************************************************************************)
(* What a VM boots from, on top of ImageManager: the managed kernel        *)
(* (internal/bootassets), the image with the guest runtime installed       *)
(* ("prepared", ensurePreparedRuntimeRootFS of both backends), and the     *)
(* disk of the VM, a copy of it.  A launch is a goroutine of a server that *)
(* takes them in this order.                                               *)
(*                                                                         *)
(*   kernel       the file of the managed kernel; "bad" does not have the  *)
(*                expected hash                                            *)
(*   prepared[d]  the prepared file for digest d; "bad" lacks the runtime  *)
(*   fetch[c]     the temporary file of c for the kernel or for the        *)
(*                preparation                                              *)
(*   disk[c]      the disk of the VM of c                                  *)
(*                                                                         *)
(* The backends differ in one thing: darwin-vz validates the prepared file *)
(* before using it, and removes it when it finds it invalid.               *)
(***************************************************************************)
EXTENDS ImageManager

CONSTANTS
    Launches,           \* the callers that launch VMs; the others are commands
    ValidatesPrepared   \* the backend is darwin-vz

ASSUME LaunchAssumption == Launches \subseteq Callers /\ ValidatesPrepared \in BOOLEAN

VARIABLES kernel, prepared, fetch, disk

launchVars == <<imageVars, kernel, prepared, fetch, disk>>

Kernels == {"none", "bad", "good"}

(* A prepared file of an earlier build may be invalid; firecracker would    *)
(* not notice, and only writes complete ones.                               *)
LaunchInit ==
    /\ ImageInit
    /\ kernel \in {"none", "bad"}
    /\ prepared \in [Digests -> IF ValidatesPrepared THEN {"none", "bad"} ELSE {"none"}]
    /\ fetch = [c \in Callers |-> "none"]
    /\ disk = [c \in Callers |-> "none"]

-----------------------------------------------------------------------------
(* The call returns an error and its deferred call releases the mutex.      *)
Fails(c, mutex, result) ==
    /\ calls' = [calls EXCEPT ![c].pc = "returned", ![c].result = result]
    /\ Unlocked(c, mutex)

OnlyKernel == UNCHANGED <<db, files, crashes, prepared, disk>>
OnlyPrepared == UNCHANGED <<db, files, crashes, kernel, disk>>

(* The managed path: ResolveKernelPath without a configured kernel that is  *)
(* accessible, and on darwin-vz without a configured rootfs.  Such files    *)
(* are used as they are, nothing verifies them, and the module does not     *)
(* have them.  EnsureKernel looks for a valid managed kernel.               *)
BeginLaunch(c) ==
    /\ At(c, "idle")
    /\ Goto(c, IF kernel = "good" THEN "lock" ELSE "kernel lock")
    /\ disk' = [disk EXCEPT ![c] = "none"]
    /\ fetch' = [fetch EXCEPT ![c] = "none"]
    /\ UNCHANGED <<db, files, crashes, locks, kernel, prepared>>

(* The mutex is taken and the file looked at again.                         *)
KernelLock(c) ==
    /\ At(c, "kernel lock")
    /\ Free(c, "kernel")
    /\ IF kernel = "good"
       THEN Goto(c, "lock") /\ UNCHANGED locks
       ELSE Goto(c, "kernel download") /\ Locked(c, "kernel")
    /\ UNCHANGED <<kernel, fetch>>
    /\ OnlyKernel

(* downloadAndVerify: a download that fails or has another hash is removed. *)
KernelDownload(c, content) ==
    /\ At(c, "kernel download")
    /\ IF content = "good"
       THEN /\ fetch' = [fetch EXCEPT ![c] = content]
            /\ Goto(c, "kernel rename")
            /\ UNCHANGED locks
       ELSE Fails(c, "kernel", "failed") /\ UNCHANGED fetch
    /\ UNCHANGED kernel
    /\ OnlyKernel

(* A rename that fails is no failure if another process was faster.         *)
KernelRename(c, renamed) ==
    /\ At(c, "kernel rename")
    /\ kernel' = IF renamed THEN fetch[c] ELSE kernel
    /\ IF kernel' = "good"
       THEN Goto(c, "lock") /\ Unlocked(c, "kernel")
       ELSE Fails(c, "kernel", "failed")
    /\ fetch' = [fetch EXCEPT ![c] = "none"]
    /\ OnlyKernel

-----------------------------------------------------------------------------
(* ensureImageArtifact calls Ensure and the launch goes on with its result: *)
(* the file of the image must still be there.                               *)
LaunchSource(c) ==
    /\ At(c, "returned")
    /\ calls[c].result \in {"hit", "built"}
    /\ IF files[DigestOf(c)] = "none"
       THEN calls' = [calls EXCEPT ![c].result = "failed"]
       ELSE calls' = [calls EXCEPT ![c] = [NewCall(DigestOf(c)) EXCEPT !.pc = "prepared?"]]
    /\ UNCHANGED <<locks, prepared, fetch>>
    /\ OnlyPrepared

-----------------------------------------------------------------------------
(* ensurePreparedRuntimeRootFS.                                             *)

(* Mutant: the prepared file is not validated.                              *)
UsableUnvalidated(d) == prepared[d] # "none"

Usable(d) == prepared[d] # "none" /\ (ValidatesPrepared => prepared[d] # "bad")

(* The first look, without the mutex.                                       *)
PreparedLook(c) ==
    /\ At(c, "prepared?")
    /\ Goto(c, IF Usable(DigestOf(c)) THEN "disk"
               ELSE IF prepared[DigestOf(c)] = "none" THEN "runtime lock" ELSE "discard")
    /\ UNCHANGED <<locks, prepared, fetch>>
    /\ OnlyPrepared

(* darwin-vz removes what it has found invalid, whatever it is by now.      *)
PreparedDiscard(c) ==
    /\ At(c, "discard")
    /\ prepared' = [prepared EXCEPT ![DigestOf(c)] = "none"]
    /\ Goto(c, "runtime lock")
    /\ UNCHANGED <<locks, fetch>>
    /\ OnlyPrepared

(* The mutex is taken and the file looked at again.                         *)
RuntimeLock(c) ==
    /\ At(c, "runtime lock")
    /\ Free(c, "runtime")
    /\ IF Usable(DigestOf(c))
       THEN Goto(c, "disk") /\ UNCHANGED <<locks, prepared>>
       ELSE /\ prepared' = [prepared EXCEPT ![DigestOf(c)] = "none"]
            /\ Goto(c, "runtime copy")
            /\ Locked(c, "runtime")
    /\ UNCHANGED fetch
    /\ OnlyPrepared

(* copyFile opens the file once: it copies what it has opened even when     *)
(* another process replaces or removes it.  A copy that fails is not        *)
(* removed.                                                                 *)
RuntimeCopy(c) ==
    /\ At(c, "runtime copy")
    /\ files[DigestOf(c)] # "none"
    /\ fetch' = [fetch EXCEPT ![c] = "bad"]
    /\ Goto(c, "runtime install")
    /\ UNCHANGED <<locks, prepared>>
    /\ OnlyPrepared

RuntimeCopyFails(c) ==
    /\ At(c, "runtime copy")
    /\ Fails(c, "runtime", "copy failed")
    /\ fetch' = [fetch EXCEPT ![c] = IF files[DigestOf(c)] = "none" THEN "none" ELSE "part"]
    /\ UNCHANGED prepared
    /\ OnlyPrepared

(* installGuestRuntimeIntoRootFS; darwin-vz also validates the result.      *)
RuntimeInstall(c) ==
    /\ At(c, "runtime install")
    /\ fetch' = [fetch EXCEPT ![c] = "good"]
    /\ Goto(c, "runtime rename")
    /\ UNCHANGED <<locks, prepared>>
    /\ OnlyPrepared

RuntimeInstallFails(c) ==
    /\ At(c, "runtime install")
    /\ Fails(c, "runtime", "failed")
    /\ fetch' = [fetch EXCEPT ![c] = "none"]
    /\ UNCHANGED prepared
    /\ OnlyPrepared

RuntimeRename(c, renamed) ==
    /\ At(c, "runtime rename")
    /\ prepared' = IF renamed THEN [prepared EXCEPT ![DigestOf(c)] = fetch[c]] ELSE prepared
    /\ IF renamed \/ Usable(DigestOf(c))
       THEN Goto(c, "disk") /\ Unlocked(c, "runtime")
       ELSE Fails(c, "runtime", "failed")
    /\ fetch' = [fetch EXCEPT ![c] = "none"]
    /\ OnlyPrepared

(* The VM gets a copy of the prepared file, which may be gone by now.       *)
CopyDisk(c) ==
    /\ At(c, "disk")
    /\ disk' = [disk EXCEPT ![c] = prepared[DigestOf(c)]]
    /\ calls' = [calls EXCEPT ![c].pc = "returned",
                   ![c].result = IF disk'[c] = "none" THEN "failed" ELSE "booted"]
    /\ UNCHANGED <<db, files, locks, crashes, kernel, prepared, fetch>>

-----------------------------------------------------------------------------
PrepareStep(c) ==
    \/ BeginLaunch(c)
    \/ KernelLock(c)
    \/ \E content \in {"good", "bad"} : KernelDownload(c, content)
    \/ \E renamed \in BOOLEAN : KernelRename(c, renamed) \/ RuntimeRename(c, renamed)
    \/ LaunchSource(c)
    \/ PreparedLook(c) \/ PreparedDiscard(c) \/ RuntimeLock(c)
    \/ RuntimeCopy(c) \/ RuntimeCopyFails(c) \/ RuntimeInstall(c) \/ RuntimeInstallFails(c)
    \/ CopyDisk(c)

Finished(c) == At(c, "returned") /\ (c \in Launches => calls[c].result \notin {"hit", "built"})

LaunchNext ==
    \/ \E c \in Launches : PrepareStep(c)
    \/ /\ \E c \in Callers :
            \/ Lock(c) \/ ImageStep(c) \/ Fail(c)
            \/ Finished(c) /\ Dismiss(c)
            \/ /\ c \notin Launches
               /\ \E op \in {"ensure", "import", "remove"}, d \in Digests : Call(c, op, d)
       /\ UNCHANGED <<kernel, prepared, fetch, disk>>
    \/ \E p \in Processes :
         /\ Crash(p)
         /\ UNCHANGED <<db, files, kernel, prepared>>
         /\ fetch' = [c \in Callers |-> IF ProcessOf[c] = p THEN "none" ELSE fetch[c]]
         /\ disk' = [c \in Callers |-> IF ProcessOf[c] = p THEN "none" ELSE disk[c]]

LaunchSpec == LaunchInit /\ [][LaunchNext]_launchVars

-----------------------------------------------------------------------------
(* Whatever is found under a final name was completely written, wherever a  *)
(* process dies or fails and whoever else is writing: the file of an image, *)
(* the kernel and the prepared file, except for what was invalid from the   *)
(* start (persistFromTarStream, EnsureKernel, ensurePreparedRuntimeRootFS). *)
FinalNamesWhole ==
    [][/\ \A d \in Digests : files'[d] # files[d] => files'[d] \in Sources \cup {"none"}
       /\ kernel' # kernel => kernel' = "good"
       /\ \A d \in Digests : prepared'[d] # prepared[d] => prepared'[d] \in {"good", "none"}
      ]_launchVars

(* A VM for which nothing was configured by hand is only started from a     *)
(* verified kernel and from a disk with the guest runtime, although both    *)
(* are looked up without the mutex and the prepared file may be removed and *)
(* rebuilt in between (EnsureKernel, ensurePreparedRuntimeRootFS).          *)
BootsComplete ==
    \A c \in Launches :
        (At(c, "returned") /\ calls[c].result = "booted") => disk[c] = "good" /\ kernel = "good"

(* A call that returns leaves neither a temporary file nor a locked mutex   *)
(* behind, whichever of its steps failed; the copy of an image that fails   *)
(* half way is the exception (copyFile in ensurePreparedRuntimeRootFS).     *)
NothingHeldAfterReturn ==
    \A c \in Callers :
        At(c, "returned") =>
            /\ calls[c].result # "copy failed" => calls[c].temp = "none" /\ fetch[c] = "none"
            /\ \A p \in Processes, k \in Mutexes : locks[p][k] # c

=============================================================================
