-------------------------- MODULE FirecrackerAdapter --------------------------
(***************************************************************************)
(* The Firecracker backend (internal/backend/firecracker/backend.go):      *)
(* ProvisionSandbox with launchSandboxVM and its failure paths,            *)
(* TerminateSandbox with shutdown, the goroutine that waits for the VM     *)
(* process, and the commands that RunInSandbox and DownloadSandboxFile run *)
(* in a VM.  The network of a VM is there or not here; HostNetwork has its *)
(* commands.                                                               *)
(*                                                                         *)
(* A sandbox id is provisioned once (the control service makes a fresh one *)
(* for every sandbox), and whoever took it out of the map shuts it down,   *)
(* so stage[s] is the place of the one goroutine that works on s.          *)
(*                                                                         *)
(*   provisioning, instances   the maps under sandboxMu                    *)
(*   vm[s]        the VM process                                           *)
(*   exited[s]    exitReady, then exitedCh of the instance                 *)
(*   runDirs, networks   the sandboxes of which the host still has some    *)
(*   overdue      those whose network was cleaned up too late: the context *)
(*                of the cleanup had ended, five seconds after it was made *)
(*                at the start of the setup                                *)
(*   registry     the gateway's byGuestIP                                  *)
(*   stuck        the VMs that stopVM stopped waiting for                  *)
(*   run[r], runIn[r]    a command: where it is and in which sandbox       *)
(*   canceled     the commands whose context has ended                     *)
(***************************************************************************)
EXTENDS Naturals

CONSTANTS
    Sandboxes,
    Runs,
    GuestIPOf,         \* hostGuestIPs: two sandboxes may share an address
    NoSandbox

ASSUME AdapterAssumption == NoSandbox \notin Sandboxes

IPs == {GuestIPOf[s] : s \in Sandboxes}

VARIABLES
    provisioning, instances, stage, vm, exited, runDirs, networks, overdue, registry, stuck,
    run, runIn, canceled

networkVars == <<networks, overdue>>
hostVars == <<runDirs, networkVars, registry>>
vmVars == <<vm, exited, stuck>>
mapVars == <<provisioning, instances>>
runVars == <<run, runIn, canceled>>
adapterVars == <<mapVars, stage, hostVars, vmVars, runVars>>

LaunchStages == {"artifacts", "files", "network", "register", "start", "boot", "commit"}
UnwindStages == {"unwind kill", "unwind wait", "unwind release", "unwind network",
                 "unwind files", "unwind map"}
ShutdownStages == {"shut release", "shut kill", "shut wait", "shut network", "shut files"}
Stages == {"idle", "ready", "failed", "gone"} \cup LaunchStages \cup UnwindStages \cup ShutdownStages

Init ==
    /\ provisioning = {}
    /\ instances = {}
    /\ stage = [s \in Sandboxes |-> "idle"]
    /\ vm = [s \in Sandboxes |-> "none"]
    /\ exited = [s \in Sandboxes |-> "no"]
    /\ runDirs = {}
    /\ networks = {}
    /\ overdue = {}
    /\ registry = [ip \in IPs |-> NoSandbox]
    /\ stuck = {}
    /\ run = [r \in Runs |-> "idle"]
    /\ runIn = [r \in Runs |-> NoSandbox]
    /\ canceled = {}

(* A process that was killed has not necessarily exited.                    *)
Alive(s) == vm[s] \in {"running", "killed"}

Goto(s, from, to) == stage[s] = from /\ stage' = [stage EXCEPT ![s] = to]

-----------------------------------------------------------------------------
(* ProvisionSandbox and launchSandboxVM.                                    *)

ProvisionSandbox(s) ==
    /\ s \notin instances \cup provisioning
    /\ Goto(s, "idle", "artifacts")
    /\ provisioning' = provisioning \cup {s}
    /\ UNCHANGED <<instances, hostVars, vmVars, runVars>>

(* The binary, the kernel, the image and the prepared rootfs.               *)
ResolveArtifacts(s, ok) ==
    /\ Goto(s, "artifacts", IF ok THEN "files" ELSE "unwind map")
    /\ UNCHANGED <<mapVars, hostVars, vmVars, runVars>>

(* The run directory and in it the copy of the rootfs.                      *)
PrepareRunDir(s, ok) ==
    /\ Goto(s, "files", IF ok THEN "network" ELSE "unwind files")
    /\ runDirs' = runDirs \cup {s}
    /\ UNCHANGED <<mapVars, networkVars, registry, vmVars, runVars>>

(* A setup that fails rolls back with the cleanup that a success returns:   *)
(* when its commands took more than five seconds, that does nothing.        *)
SetupHostNetwork(s, outcome) ==
    /\ Goto(s, "network", IF outcome = "up" THEN "register" ELSE "unwind files")
    /\ networks' = IF outcome = "rolled back" THEN networks ELSE networks \cup {s}
    /\ overdue' = IF outcome = "left" THEN overdue \cup {s} ELSE overdue
    /\ UNCHANGED <<mapVars, runDirs, registry, vmVars, runVars>>

(* Mutant: a refused registration is cleaned up with cleanupAll.            *)
RegisterCleanupAll(s) ==
    LET free == registry[GuestIPOf[s]] = NoSandbox
    IN  /\ Goto(s, "register", IF free THEN "start" ELSE "unwind release")
        /\ registry' = IF free THEN [registry EXCEPT ![GuestIPOf[s]] = s] ELSE registry
        /\ UNCHANGED <<mapVars, runDirs, networkVars, vmVars, runVars>>

(* Registry.Register refuses an address that is taken.                      *)
Register(s) ==
    LET free == registry[GuestIPOf[s]] = NoSandbox
    IN  /\ Goto(s, "register", IF free THEN "start" ELSE "unwind network")
        /\ registry' = IF free THEN [registry EXCEPT ![GuestIPOf[s]] = s] ELSE registry
        /\ UNCHANGED <<mapVars, runDirs, networkVars, vmVars, runVars>>

(* The configuration, the log files and the process.                        *)
StartVM(s, ok) ==
    /\ Goto(s, "start", IF ok THEN "boot" ELSE "unwind release")
    /\ vm' = IF ok THEN [vm EXCEPT ![s] = "running"] ELSE vm
    /\ UNCHANGED <<mapVars, hostVars, exited, stuck, runVars>>

(* dialVsockUntilReady.                                                     *)
AgentReady(s) ==
    /\ Alive(s)
    /\ Goto(s, "boot", "commit")
    /\ UNCHANGED <<mapVars, hostVars, vmVars, runVars>>

(* Mutant: the VM is left running when its agent does not answer.           *)
BootFailsNoKill(s) ==
    /\ Goto(s, "boot", "unwind release")
    /\ UNCHANGED <<mapVars, hostVars, vmVars, runVars>>

(* The process has exited, the launch timed out or the request was          *)
(* canceled.                                                                *)
BootFails(s) ==
    /\ Goto(s, "boot", "unwind kill")
    /\ UNCHANGED <<mapVars, hostVars, vmVars, runVars>>

Commit(s) ==
    /\ Goto(s, "commit", "ready")
    /\ provisioning' = provisioning \ {s}
    /\ instances' = instances \cup {s}
    /\ UNCHANGED <<hostVars, vmVars, runVars>>

-----------------------------------------------------------------------------
(* The steps that unwinding a launch and shutting down share.               *)

Kill(s, from, to) ==
    /\ Goto(s, from, to)
    /\ vm' = IF vm[s] = "running" THEN [vm EXCEPT ![s] = "killed"] ELSE vm
    /\ UNCHANGED <<mapVars, hostVars, exited, stuck, runVars>>

(* stopVM waits for the process, but no longer than two seconds.            *)
AwaitExit(s, from, to) ==
    /\ Goto(s, from, to)
    /\ exited[s] = "closed"
    /\ UNCHANGED <<mapVars, hostVars, vmVars, runVars>>

StopTimesOut(s, from, to) ==
    /\ Goto(s, from, to)
    /\ exited[s] # "closed"
    /\ stuck' = stuck \cup {s}
    /\ UNCHANGED <<mapVars, hostVars, vm, exited, runVars>>

(* Registry.Release.                                                        *)
Release(s, from, to) ==
    /\ Goto(s, from, to)
    /\ registry' = [registry EXCEPT ![GuestIPOf[s]] = NoSandbox]
    /\ UNCHANGED <<mapVars, runDirs, networkVars, vmVars, runVars>>

(* The commands run under the context that the setup made: all of them, or, *)
(* when it has ended or ends among them, not all; their errors are ignored. *)
CleanupNetwork(s, from, to) ==
    /\ Goto(s, from, to)
    /\ \/ networks' = networks \ {s} /\ UNCHANGED overdue
       \/ overdue' = overdue \cup {s} /\ UNCHANGED networks
    /\ UNCHANGED <<mapVars, runDirs, registry, vmVars, runVars>>

RemoveRunDir(s, from, to) ==
    /\ Goto(s, from, to)
    /\ runDirs' = runDirs \ {s}
    /\ UNCHANGED <<mapVars, networkVars, registry, vmVars, runVars>>

(* stopVM, cleanupAll and the deferred removal of the run directory, each   *)
(* failure entering where it has something to undo.                         *)
Unwind(s) ==
    \/ Kill(s, "unwind kill", "unwind wait")
    \/ AwaitExit(s, "unwind wait", "unwind release")
    \/ StopTimesOut(s, "unwind wait", "unwind release")
    \/ Release(s, "unwind release", "unwind network")
    \/ CleanupNetwork(s, "unwind network", "unwind files")
    \/ RemoveRunDir(s, "unwind files", "unwind map")

ProvisionFails(s) ==
    /\ Goto(s, "unwind map", "failed")
    /\ provisioning' = provisioning \ {s}
    /\ UNCHANGED <<instances, hostVars, vmVars, runVars>>

(* TerminateSandbox takes the instance out of the map; a call that finds    *)
(* none returns.                                                            *)
TerminateSandbox(s) ==
    /\ s \in instances
    /\ Goto(s, "ready", "shut release")
    /\ instances' = instances \ {s}
    /\ UNCHANGED <<provisioning, hostVars, vmVars, runVars>>

(* Mutant: the network and the files go while the VM still runs.            *)
ShutdownCleanupFirst(s) ==
    \/ Release(s, "shut release", "shut network")
    \/ CleanupNetwork(s, "shut network", "shut files")
    \/ RemoveRunDir(s, "shut files", "shut kill")
    \/ Kill(s, "shut kill", "shut wait")
    \/ AwaitExit(s, "shut wait", "gone")
    \/ StopTimesOut(s, "shut wait", "gone")

(* Mutant: stopVM waits without a limit for an exit that it does not cause. *)
ShutdownNoKill(s) ==
    \/ Release(s, "shut release", "shut wait")
    \/ AwaitExit(s, "shut wait", "shut network")
    \/ CleanupNetwork(s, "shut network", "shut files")
    \/ RemoveRunDir(s, "shut files", "gone")

Shutdown(s) ==
    \/ Release(s, "shut release", "shut kill")
    \/ Kill(s, "shut kill", "shut wait")
    \/ AwaitExit(s, "shut wait", "shut network")
    \/ StopTimesOut(s, "shut wait", "shut network")
    \/ CleanupNetwork(s, "shut network", "shut files")
    \/ RemoveRunDir(s, "shut files", "gone")

-----------------------------------------------------------------------------
(* The process ends by itself, or because it was killed.                    *)
VMExits(s, from) ==
    /\ vm[s] = from
    /\ vm' = [vm EXCEPT ![s] = "exited"]
    /\ UNCHANGED <<mapVars, stage, hostVars, exited, stuck, runVars>>

(* The goroutine behind fcCmd.Wait: setExited, then close(exitedCh).        *)
SetExited(s) ==
    /\ vm[s] = "exited"
    /\ exited[s] = "no"
    /\ exited' = [exited EXCEPT ![s] = "recorded"]
    /\ UNCHANGED <<mapVars, stage, hostVars, vm, stuck, runVars>>

CloseExitedCh(s) ==
    /\ exited[s] = "recorded"
    /\ exited' = [exited EXCEPT ![s] = "closed"]
    /\ UNCHANGED <<mapVars, stage, hostVars, vm, stuck, runVars>>

-----------------------------------------------------------------------------
(* RunInSandbox and DownloadSandboxFile.                                    *)

runFrame == <<mapVars, stage, hostVars, vmVars>>

(* A call that has returned holds nothing.                                  *)
Returns(r, result) ==
    /\ run' = [run EXCEPT ![r] = result]
    /\ runIn' = [runIn EXCEPT ![r] = NoSandbox]
    /\ canceled' = canceled \ {r}
    /\ UNCHANGED runFrame

RunInSandbox(r, s) ==
    /\ run[r] = "idle"
    /\ IF s \in instances /\ exited[s] = "no"
       THEN /\ run' = [run EXCEPT ![r] = "dial"]
            /\ runIn' = [runIn EXCEPT ![r] = s]
            /\ UNCHANGED <<runFrame, canceled>>
       ELSE Returns(r, "error")

Dialed(r) ==
    /\ run[r] = "dial"
    /\ Alive(runIn[r])
    /\ run' = [run EXCEPT ![r] = "stream"]
    /\ UNCHANGED <<runFrame, runIn, canceled>>

(* The process has exited, or the context of the dial has ended, which it   *)
(* does by itself after the launch timeout.                                 *)
DialFails(r) ==
    /\ run[r] = "dial"
    /\ Returns(r, "error")

Response(r) ==
    /\ run[r] = "stream"
    /\ Alive(runIn[r])
    /\ Returns(r, "done")

(* The VM is gone, or the goroutine that waits for the context has closed   *)
(* the connection.                                                          *)
ConnectionLost(r) ==
    /\ run[r] = "stream"
    /\ vm[runIn[r]] = "exited" \/ r \in canceled
    /\ Returns(r, "error")

CancelRun(r) ==
    /\ run[r] \in {"dial", "stream"}
    /\ r \notin canceled
    /\ canceled' = canceled \cup {r}
    /\ UNCHANGED <<runFrame, run, runIn>>

-----------------------------------------------------------------------------
Launch(s) ==
    \/ \E ok \in BOOLEAN : ResolveArtifacts(s, ok) \/ PrepareRunDir(s, ok) \/ StartVM(s, ok)
    \/ \E outcome \in {"up", "rolled back", "left"} : SetupHostNetwork(s, outcome)
    \/ Register(s)
    \/ AgentReady(s)
    \/ BootFails(s)
    \/ Commit(s)
    \/ Unwind(s)
    \/ ProvisionFails(s)

VMStep(s) == VMExits(s, "killed") \/ SetExited(s) \/ CloseExitedCh(s)

RunStep(r) == Dialed(r) \/ DialFails(r) \/ ConnectionLost(r)

Next ==
    \/ \E s \in Sandboxes : \/ ProvisionSandbox(s) \/ Launch(s)
                            \/ TerminateSandbox(s) \/ Shutdown(s)
                            \/ VMExits(s, "running") \/ VMStep(s)
    \/ \E r \in Runs : \/ \E s \in Sandboxes : RunInSandbox(r, s)
                       \/ RunStep(r) \/ Response(r) \/ CancelRun(r)

Spec == Init /\ [][Next]_adapterVars

(* A launch and a shutdown go on (every wait in them has a time limit), a   *)
(* process that was killed exits and is waited for, and a command notices   *)
(* that its dial failed or that its connection is closed.                   *)
Fairness ==
    /\ \A s \in Sandboxes : WF_adapterVars(Launch(s) \/ Shutdown(s)) /\ WF_adapterVars(VMStep(s))
    /\ \A r \in Runs : WF_adapterVars(RunStep(r))

FairSpec == Spec /\ Fairness

-----------------------------------------------------------------------------
(* Every variable has its type.                                             *)
TypeOK ==
    /\ provisioning \subseteq Sandboxes
    /\ instances \subseteq Sandboxes
    /\ stage \in [Sandboxes -> Stages]
    /\ vm \in [Sandboxes -> {"none", "running", "killed", "exited"}]
    /\ exited \in [Sandboxes -> {"no", "recorded", "closed"}]
    /\ runDirs \subseteq Sandboxes
    /\ networks \subseteq Sandboxes
    /\ overdue \subseteq Sandboxes
    /\ registry \in [IPs -> Sandboxes \cup {NoSandbox}]
    /\ stuck \subseteq Sandboxes
    /\ run \in [Runs -> {"idle", "dial", "stream", "done", "error"}]
    /\ runIn \in [Runs -> Sandboxes \cup {NoSandbox}]
    /\ canceled \subseteq Runs

(* A sandbox that nobody launches, holds or shuts down has left no          *)
(* directory and no entry in the gateway's registry, and there are only two *)
(* ways in which it leaves more on the host: a VM that stopVM stopped       *)
(* waiting for, and a network whose cleanup context had ended, as it does   *)
(* five seconds after the setup began (the failure paths of                 *)
(* launchSandboxVM, ProvisionSandbox, shutdown).                            *)
NothingLeftBehind ==
    \A s \in Sandboxes : stage[s] \in {"idle", "failed", "gone"} =>
        /\ s \notin runDirs \cup provisioning \cup instances
        /\ registry[GuestIPOf[s]] # s
        /\ s \in networks => s \in overdue
        /\ Alive(s) => s \in stuck

(* A sandbox that commands can run in has its directory, its network and    *)
(* the entry of its address in the gateway's registry, whatever happens to  *)
(* the launch of a sandbox with the same address (Register, the cleanup     *)
(* after a refused registration, TerminateSandbox).                         *)
InstanceIntact ==
    \A s \in instances :
        /\ s \in runDirs \cap networks
        /\ registry[GuestIPOf[s]] = s

(* A VM never loses its disk or its network while its process runs, unless  *)
(* stopVM stopped waiting for it (shutdown, cleanupAll).                    *)
VMHasItsHost ==
    \A s \in Sandboxes : Alive(s) /\ s \notin stuck =>
        s \in runDirs \cap networks

Busy(s) == stage[s] \in LaunchStages \cup UnwindStages \cup ShutdownStages

(* Every launch ends with a sandbox or with an error, every termination     *)
(* ends, and a command ends once its context has ended or its sandbox is    *)
(* gone, and never waits for an answer that cannot come (launchSandboxVM,   *)
(* stopVM, runGuestCommand, dialVsockUntilReady).                           *)
CallsEnd ==
    /\ \A s \in Sandboxes : []<>~Busy(s)
    /\ \A r \in Runs :
         (/\ run[r] \in {"dial", "stream"}
          /\ r \in canceled \/ stage[runIn[r]] = "gone") ~> run[r] \in {"done", "error"}

=============================================================================
