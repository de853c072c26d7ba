----------------------- MODULE FirecrackerAdapterProofs -----------------------
(***************************************************************************)
(* Proofs about FirecrackerAdapter for any number of sandboxes, commands   *)
(* and address collisions: its type, NothingLeftBehind, InstanceIntact and *)
(* VMHasItsHost, all from one inductive invariant that says for every      *)
(* stage of a sandbox exactly what the sandbox holds, and that a network   *)
(* outlives its stages only when its cleanup context had ended.            *)
(***************************************************************************)
EXTENDS FirecrackerAdapter, TLAPS

FreshStages == {"idle", "artifacts", "files", "network", "register", "start"}
AliveStages == {"boot", "commit", "ready", "unwind kill", "unwind wait",
                "shut release", "shut kill", "shut wait"}
RegisteredStages == {"start", "boot", "commit", "ready", "unwind kill", "unwind wait",
                     "unwind release", "shut release"}
NetworkStages == RegisteredStages \cup {"register", "unwind network", "shut kill", "shut wait",
                                        "shut network"}
LeftStages == {"unwind files", "unwind map", "failed", "shut files", "gone"}
RunDirStages == NetworkStages \cup {"network", "unwind files", "shut files"}

(* What sandbox s holds follows from its stage, and from whether its        *)
(* network was cleaned up too late.                                         *)
HoldsByStage(s) ==
    /\ s \in provisioning <=> stage[s] \in LaunchStages \cup UnwindStages
    /\ s \in instances <=> stage[s] = "ready"
    /\ s \in runDirs <=> stage[s] \in RunDirStages
    /\ s \in networks <=> stage[s] \in NetworkStages \/ s \in overdue
    /\ s \in overdue => stage[s] \in LeftStages
    /\ registry[GuestIPOf[s]] = s <=> stage[s] \in RegisteredStages
    /\ Alive(s) => stage[s] \in AliveStages \/ s \in stuck
    /\ exited[s] # "no" => vm[s] = "exited"
    /\ stage[s] \in FreshStages => vm[s] = "none"

IndInv == TypeOK /\ \A s \in Sandboxes : HoldsByStage(s)

(* The address of a sandbox is a key of the gateway's registry.             *)
LEMMA GuestIPType == \A s \in Sandboxes : GuestIPOf[s] \in IPs
BY DEF IPs

(* At first no sandbox holds anything.                                      *)
LEMMA InitInv == Init => IndInv
<1> SUFFICES ASSUME Init PROVE IndInv
  OBVIOUS
<1>1. TypeOK
  BY DEF Init, TypeOK, Stages
<1>2. ASSUME NEW s \in Sandboxes PROVE HoldsByStage(s)
  BY <1>2, GuestIPType, AdapterAssumption
     DEF Init, HoldsByStage, Alive, LaunchStages, UnwindStages,
         AliveStages, RegisteredStages, NetworkStages, RunDirStages
<1> QED
  BY <1>1, <1>2 DEF IndInv

(* A step that changes nothing of sandbox t but the context it is in keeps  *)
(* what t holds.                                                            *)
Untouched(t) ==
    /\ stage'[t] = stage[t]
    /\ t \in provisioning' <=> t \in provisioning
    /\ t \in instances' <=> t \in instances
    /\ t \in runDirs' <=> t \in runDirs
    /\ t \in networks' <=> t \in networks
    /\ t \in overdue' <=> t \in overdue
    /\ registry'[GuestIPOf[t]] = t <=> registry[GuestIPOf[t]] = t
    /\ vm'[t] = vm[t]
    /\ exited'[t] = exited[t]
    /\ t \in stuck => t \in stuck'

(* The invariant is kept when the types are, the sandbox of the step holds  *)
(* what its new stage says and the others are untouched.                    *)
LEMMA StepInv ==
    ASSUME IndInv, NEW s \in Sandboxes, TypeOK', HoldsByStage(s)',
           \A t \in Sandboxes \ {s} : Untouched(t)
    PROVE  IndInv'
<1>1. ASSUME NEW t \in Sandboxes \ {s} PROVE HoldsByStage(t)'
  BY <1>1 DEF IndInv, HoldsByStage, Untouched, Alive
<1> QED
  BY <1>1 DEF IndInv

(* A step of the goroutine that launches sandbox s keeps the invariant.     *)
LEMMA LaunchInv ==
    ASSUME IndInv, NEW s \in Sandboxes, ProvisionSandbox(s) \/ Launch(s)
    PROVE  IndInv'
<1>0. TypeOK /\ HoldsByStage(s)
  BY DEF IndInv
<1> USE GuestIPType, AdapterAssumption DEF Goto, mapVars, networkVars, hostVars, vmVars, runVars
<1>1. CASE ProvisionSandbox(s)
  <2>1. TypeOK'
    BY <1>1, <1>0 DEF TypeOK, ProvisionSandbox, Stages, LaunchStages, UnwindStages, ShutdownStages
  <2>2. HoldsByStage(s)'
    BY <1>1, <1>0 DEF TypeOK, HoldsByStage, Alive, ProvisionSandbox,
       LaunchStages, UnwindStages, AliveStages, RegisteredStages,
       NetworkStages, RunDirStages, LeftStages, FreshStages
  <2>3. ASSUME NEW t \in Sandboxes \ {s} PROVE Untouched(t)
    BY <1>1, <1>0, <2>3 DEF TypeOK, Untouched, ProvisionSandbox
  <2> QED
    BY <2>1, <2>2, <2>3, StepInv
<1>2. ASSUME NEW ok \in BOOLEAN, ResolveArtifacts(s, ok) PROVE IndInv'
  <2>1. TypeOK'
    BY <1>2, <1>0 DEF TypeOK, ResolveArtifacts, Stages, LaunchStages, UnwindStages, ShutdownStages
  <2>2. HoldsByStage(s)'
    BY <1>2, <1>0 DEF TypeOK, HoldsByStage, Alive, ResolveArtifacts,
       LaunchStages, UnwindStages, AliveStages, RegisteredStages,
       NetworkStages, RunDirStages, LeftStages, FreshStages
  <2>3. ASSUME NEW t \in Sandboxes \ {s} PROVE Untouched(t)
    BY <1>2, <1>0, <2>3 DEF TypeOK, Untouched, ResolveArtifacts
  <2> QED
    BY <2>1, <2>2, <2>3, StepInv
<1>3. ASSUME NEW ok \in BOOLEAN, PrepareRunDir(s, ok) PROVE IndInv'
  <2>1. TypeOK'
    BY <1>3, <1>0 DEF TypeOK, PrepareRunDir, Stages, LaunchStages, UnwindStages, ShutdownStages
  <2>2. HoldsByStage(s)'
    BY <1>3, <1>0 DEF TypeOK, HoldsByStage, Alive, PrepareRunDir,
       LaunchStages, UnwindStages, AliveStages, RegisteredStages,
       NetworkStages, RunDirStages, LeftStages, FreshStages
  <2>3. ASSUME NEW t \in Sandboxes \ {s} PROVE Untouched(t)
    BY <1>3, <1>0, <2>3 DEF TypeOK, Untouched, PrepareRunDir
  <2> QED
    BY <2>1, <2>2, <2>3, StepInv
<1>4. ASSUME NEW outcome \in {"up", "rolled back", "left"}, SetupHostNetwork(s, outcome) PROVE IndInv'
  <2>1. TypeOK'
    BY <1>4, <1>0 DEF TypeOK, SetupHostNetwork, Stages, LaunchStages, UnwindStages, ShutdownStages
  <2>2. HoldsByStage(s)'
    BY <1>4, <1>0 DEF TypeOK, HoldsByStage, Alive, SetupHostNetwork,
       LaunchStages, UnwindStages, AliveStages, RegisteredStages,
       NetworkStages, RunDirStages, LeftStages, FreshStages
  <2>3. ASSUME NEW t \in Sandboxes \ {s} PROVE Untouched(t)
    BY <1>4, <1>0, <2>3 DEF TypeOK, Untouched, SetupHostNetwork
  <2> QED
    BY <2>1, <2>2, <2>3, StepInv
<1>5. ASSUME NEW ok \in BOOLEAN, StartVM(s, ok) PROVE IndInv'
  <2>1. TypeOK'
    BY <1>5, <1>0 DEF TypeOK, StartVM, Stages, LaunchStages, UnwindStages, ShutdownStages
  <2>2. HoldsByStage(s)'
    BY <1>5, <1>0 DEF TypeOK, HoldsByStage, Alive, StartVM,
       LaunchStages, UnwindStages, AliveStages, RegisteredStages,
       NetworkStages, RunDirStages, LeftStages, FreshStages
  <2>3. ASSUME NEW t \in Sandboxes \ {s} PROVE Untouched(t)
    BY <1>5, <1>0, <2>3 DEF TypeOK, Untouched, StartVM
  <2> QED
    BY <2>1, <2>2, <2>3, StepInv
<1>6. CASE Register(s)
  <2>1. TypeOK'
    BY <1>6, <1>0 DEF TypeOK, Register, Stages, LaunchStages, UnwindStages, ShutdownStages
  <2>2. HoldsByStage(s)'
    BY <1>6, <1>0 DEF TypeOK, HoldsByStage, Alive, Register,
       LaunchStages, UnwindStages, AliveStages, RegisteredStages,
       NetworkStages, RunDirStages, LeftStages, FreshStages
  <2>3. ASSUME NEW t \in Sandboxes \ {s} PROVE Untouched(t)
    BY <1>6, <1>0, <2>3 DEF TypeOK, Untouched, Register
  <2> QED
    BY <2>1, <2>2, <2>3, StepInv
<1>7. CASE AgentReady(s)
  <2>1. TypeOK'
    BY <1>7, <1>0 DEF TypeOK, AgentReady, Stages, LaunchStages, UnwindStages, ShutdownStages
  <2>2. HoldsByStage(s)'
    BY <1>7, <1>0 DEF TypeOK, HoldsByStage, Alive, AgentReady,
       LaunchStages, UnwindStages, AliveStages, RegisteredStages,
       NetworkStages, RunDirStages, LeftStages, FreshStages
  <2>3. ASSUME NEW t \in Sandboxes \ {s} PROVE Untouched(t)
    BY <1>7, <1>0, <2>3 DEF TypeOK, Untouched, AgentReady
  <2> QED
    BY <2>1, <2>2, <2>3, StepInv
<1>8. CASE BootFails(s)
  <2>1. TypeOK'
    BY <1>8, <1>0 DEF TypeOK, BootFails, Stages, LaunchStages, UnwindStages, ShutdownStages
  <2>2. HoldsByStage(s)'
    BY <1>8, <1>0 DEF TypeOK, HoldsByStage, Alive, BootFails,
       LaunchStages, UnwindStages, AliveStages, RegisteredStages,
       NetworkStages, RunDirStages, LeftStages, FreshStages
  <2>3. ASSUME NEW t \in Sandboxes \ {s} PROVE Untouched(t)
    BY <1>8, <1>0, <2>3 DEF TypeOK, Untouched, BootFails
  <2> QED
    BY <2>1, <2>2, <2>3, StepInv
<1>9. CASE Commit(s)
  <2>1. TypeOK'
    BY <1>9, <1>0 DEF TypeOK, Commit, Stages, LaunchStages, UnwindStages, ShutdownStages
  <2>2. HoldsByStage(s)'
    BY <1>9, <1>0, SMTT(60) DEF TypeOK, HoldsByStage, Alive, Commit,
       LaunchStages, UnwindStages, AliveStages, RegisteredStages,
       NetworkStages, RunDirStages, LeftStages, FreshStages
  <2>3. ASSUME NEW t \in Sandboxes \ {s} PROVE Untouched(t)
    BY <1>9, <1>0, <2>3 DEF TypeOK, Untouched, Commit
  <2> QED
    BY <2>1, <2>2, <2>3, StepInv
<1>10. CASE ProvisionFails(s)
  <2>1. TypeOK'
    BY <1>10, <1>0 DEF TypeOK, ProvisionFails, Stages, LaunchStages, UnwindStages, ShutdownStages
  <2>2. HoldsByStage(s)'
    BY <1>10, <1>0 DEF TypeOK, HoldsByStage, Alive, ProvisionFails,
       LaunchStages, UnwindStages, AliveStages, RegisteredStages,
       NetworkStages, RunDirStages, LeftStages, FreshStages
  <2>3. ASSUME NEW t \in Sandboxes \ {s} PROVE Untouched(t)
    BY <1>10, <1>0, <2>3 DEF TypeOK, Untouched, ProvisionFails
  <2> QED
    BY <2>1, <2>2, <2>3, StepInv
<1>11. CASE Kill(s, "unwind kill", "unwind wait")
  <2>1. TypeOK'
    BY <1>11, <1>0 DEF TypeOK, Kill, Stages, LaunchStages, UnwindStages, ShutdownStages
  <2>2. HoldsByStage(s)'
    BY <1>11, <1>0 DEF TypeOK, HoldsByStage, Alive, Kill,
       LaunchStages, UnwindStages, AliveStages, RegisteredStages,
       NetworkStages, RunDirStages, LeftStages, FreshStages
  <2>3. ASSUME NEW t \in Sandboxes \ {s} PROVE Untouched(t)
    BY <1>11, <1>0, <2>3 DEF TypeOK, Untouched, Kill
  <2> QED
    BY <2>1, <2>2, <2>3, StepInv
<1>12. CASE AwaitExit(s, "unwind wait", "unwind release")
  <2>1. TypeOK'
    BY <1>12, <1>0 DEF TypeOK, AwaitExit, Stages, LaunchStages, UnwindStages, ShutdownStages
  <2>2. HoldsByStage(s)'
    BY <1>12, <1>0 DEF TypeOK, HoldsByStage, Alive, AwaitExit,
       LaunchStages, UnwindStages, AliveStages, RegisteredStages,
       NetworkStages, RunDirStages, LeftStages, FreshStages
  <2>3. ASSUME NEW t \in Sandboxes \ {s} PROVE Untouched(t)
    BY <1>12, <1>0, <2>3 DEF TypeOK, Untouched, AwaitExit
  <2> QED
    BY <2>1, <2>2, <2>3, StepInv
<1>13. CASE StopTimesOut(s, "unwind wait", "unwind release")
  <2>1. TypeOK'
    BY <1>13, <1>0 DEF TypeOK, StopTimesOut, Stages, LaunchStages, UnwindStages, ShutdownStages
  <2>2. HoldsByStage(s)'
    BY <1>13, <1>0 DEF TypeOK, HoldsByStage, Alive, StopTimesOut,
       LaunchStages, UnwindStages, AliveStages, RegisteredStages,
       NetworkStages, RunDirStages, LeftStages, FreshStages
  <2>3. ASSUME NEW t \in Sandboxes \ {s} PROVE Untouched(t)
    BY <1>13, <1>0, <2>3 DEF TypeOK, Untouched, StopTimesOut
  <2> QED
    BY <2>1, <2>2, <2>3, StepInv
<1>14. CASE Release(s, "unwind release", "unwind network")
  <2>1. TypeOK'
    BY <1>14, <1>0 DEF TypeOK, Release, Stages, LaunchStages, UnwindStages, ShutdownStages
  <2>2. HoldsByStage(s)'
    BY <1>14, <1>0 DEF TypeOK, HoldsByStage, Alive, Release,
       LaunchStages, UnwindStages, AliveStages, RegisteredStages,
       NetworkStages, RunDirStages, LeftStages, FreshStages
  <2>3. ASSUME NEW t \in Sandboxes \ {s} PROVE Untouched(t)
    BY <1>14, <1>0, <2>3 DEF TypeOK, Untouched, Release, HoldsByStage, RegisteredStages
  <2> QED
    BY <2>1, <2>2, <2>3, StepInv
<1>15. CASE CleanupNetwork(s, "unwind network", "unwind files")
  <2>1. TypeOK'
    BY <1>15, <1>0 DEF TypeOK, CleanupNetwork, Stages, LaunchStages, UnwindStages, ShutdownStages
  <2>2. HoldsByStage(s)'
    BY <1>15, <1>0 DEF TypeOK, HoldsByStage, Alive, CleanupNetwork,
       LaunchStages, UnwindStages, AliveStages, RegisteredStages,
       NetworkStages, RunDirStages, LeftStages, FreshStages
  <2>3. ASSUME NEW t \in Sandboxes \ {s} PROVE Untouched(t)
    BY <1>15, <1>0, <2>3 DEF TypeOK, Untouched, CleanupNetwork
  <2> QED
    BY <2>1, <2>2, <2>3, StepInv
<1>16. CASE RemoveRunDir(s, "unwind files", "unwind map")
  <2>1. TypeOK'
    BY <1>16, <1>0 DEF TypeOK, RemoveRunDir, Stages, LaunchStages, UnwindStages, ShutdownStages
  <2>2. HoldsByStage(s)'
    BY <1>16, <1>0 DEF TypeOK, HoldsByStage, Alive, RemoveRunDir,
       LaunchStages, UnwindStages, AliveStages, RegisteredStages,
       NetworkStages, RunDirStages, LeftStages, FreshStages
  <2>3. ASSUME NEW t \in Sandboxes \ {s} PROVE Untouched(t)
    BY <1>16, <1>0, <2>3 DEF TypeOK, Untouched, RemoveRunDir
  <2> QED
    BY <2>1, <2>2, <2>3, StepInv
<1> QED
  BY <1>1, <1>2, <1>3, <1>4, <1>5, <1>6, <1>7, <1>8, <1>9, <1>10, <1>11, <1>12, <1>13, <1>14, <1>15, <1>16 DEF Launch, Unwind

(* A step of the termination of sandbox s keeps the invariant.              *)
LEMMA ShutdownInv ==
    ASSUME IndInv, NEW s \in Sandboxes, TerminateSandbox(s) \/ Shutdown(s)
    PROVE  IndInv'
<1>0. TypeOK /\ HoldsByStage(s)
  BY DEF IndInv
<1> USE GuestIPType, AdapterAssumption DEF Goto, mapVars, networkVars, hostVars, vmVars, runVars
<1>1. CASE TerminateSandbox(s)
  <2>1. TypeOK'
    BY <1>1, <1>0 DEF TypeOK, TerminateSandbox, Stages, LaunchStages, UnwindStages, ShutdownStages
  <2>2. HoldsByStage(s)'
    BY <1>1, <1>0 DEF TypeOK, HoldsByStage, Alive, TerminateSandbox,
       LaunchStages, UnwindStages, AliveStages, RegisteredStages,
       NetworkStages, RunDirStages, LeftStages, FreshStages
  <2>3. ASSUME NEW t \in Sandboxes \ {s} PROVE Untouched(t)
    BY <1>1, <1>0, <2>3 DEF TypeOK, Untouched, TerminateSandbox
  <2> QED
    BY <2>1, <2>2, <2>3, StepInv
<1>2. CASE Release(s, "shut release", "shut kill")
  <2>1. TypeOK'
    BY <1>2, <1>0 DEF TypeOK, Release, Stages, LaunchStages, UnwindStages, ShutdownStages
  <2>2. HoldsByStage(s)'
    BY <1>2, <1>0 DEF TypeOK, HoldsByStage, Alive, Release,
       LaunchStages, UnwindStages, AliveStages, RegisteredStages,
       NetworkStages, RunDirStages, LeftStages, FreshStages
  <2>3. ASSUME NEW t \in Sandboxes \ {s} PROVE Untouched(t)
    BY <1>2, <1>0, <2>3 DEF TypeOK, Untouched, Release, HoldsByStage, RegisteredStages
  <2> QED
    BY <2>1, <2>2, <2>3, StepInv
<1>3. CASE Kill(s, "shut kill", "shut wait")
  <2>1. TypeOK'
    BY <1>3, <1>0 DEF TypeOK, Kill, Stages, LaunchStages, UnwindStages, ShutdownStages
  <2>2. HoldsByStage(s)'
    BY <1>3, <1>0 DEF TypeOK, HoldsByStage, Alive, Kill,
       LaunchStages, UnwindStages, AliveStages, RegisteredStages,
       NetworkStages, RunDirStages, LeftStages, FreshStages
  <2>3. ASSUME NEW t \in Sandboxes \ {s} PROVE Untouched(t)
    BY <1>3, <1>0, <2>3 DEF TypeOK, Untouched, Kill
  <2> QED
    BY <2>1, <2>2, <2>3, StepInv
<1>4. CASE AwaitExit(s, "shut wait", "shut network")
  <2>1. TypeOK'
    BY <1>4, <1>0 DEF TypeOK, AwaitExit, Stages, LaunchStages, UnwindStages, ShutdownStages
  <2>2. HoldsByStage(s)'
    BY <1>4, <1>0 DEF TypeOK, HoldsByStage, Alive, AwaitExit,
       LaunchStages, UnwindStages, AliveStages, RegisteredStages,
       NetworkStages, RunDirStages, LeftStages, FreshStages
  <2>3. ASSUME NEW t \in Sandboxes \ {s} PROVE Untouched(t)
    BY <1>4, <1>0, <2>3 DEF TypeOK, Untouched, AwaitExit
  <2> QED
    BY <2>1, <2>2, <2>3, StepInv
<1>5. CASE StopTimesOut(s, "shut wait", "shut network")
  <2>1. TypeOK'
    BY <1>5, <1>0 DEF TypeOK, StopTimesOut, Stages, LaunchStages, UnwindStages, ShutdownStages
  <2>2. HoldsByStage(s)'
    BY <1>5, <1>0 DEF TypeOK, HoldsByStage, Alive, StopTimesOut,
       LaunchStages, UnwindStages, AliveStages, RegisteredStages,
       NetworkStages, RunDirStages, LeftStages, FreshStages
  <2>3. ASSUME NEW t \in Sandboxes \ {s} PROVE Untouched(t)
    BY <1>5, <1>0, <2>3 DEF TypeOK, Untouched, StopTimesOut
  <2> QED
    BY <2>1, <2>2, <2>3, StepInv
<1>6. CASE CleanupNetwork(s, "shut network", "shut files")
  <2>1. TypeOK'
    BY <1>6, <1>0 DEF TypeOK, CleanupNetwork, Stages, LaunchStages, UnwindStages, ShutdownStages
  <2>2. HoldsByStage(s)'
    BY <1>6, <1>0 DEF TypeOK, HoldsByStage, Alive, CleanupNetwork,
       LaunchStages, UnwindStages, AliveStages, RegisteredStages,
       NetworkStages, RunDirStages, LeftStages, FreshStages
  <2>3. ASSUME NEW t \in Sandboxes \ {s} PROVE Untouched(t)
    BY <1>6, <1>0, <2>3 DEF TypeOK, Untouched, CleanupNetwork
  <2> QED
    BY <2>1, <2>2, <2>3, StepInv
<1>7. CASE RemoveRunDir(s, "shut files", "gone")
  <2>1. TypeOK'
    BY <1>7, <1>0 DEF TypeOK, RemoveRunDir, Stages, LaunchStages, UnwindStages, ShutdownStages
  <2>2. HoldsByStage(s)'
    BY <1>7, <1>0 DEF TypeOK, HoldsByStage, Alive, RemoveRunDir,
       LaunchStages, UnwindStages, AliveStages, RegisteredStages,
       NetworkStages, RunDirStages, LeftStages, FreshStages
  <2>3. ASSUME NEW t \in Sandboxes \ {s} PROVE Untouched(t)
    BY <1>7, <1>0, <2>3 DEF TypeOK, Untouched, RemoveRunDir
  <2> QED
    BY <2>1, <2>2, <2>3, StepInv
<1> QED
  BY <1>1, <1>2, <1>3, <1>4, <1>5, <1>6, <1>7 DEF Shutdown

(* The exit of the VM of sandbox s, and its recording, keep the invariant.  *)
LEMMA VMInv ==
    ASSUME IndInv, NEW s \in Sandboxes, VMExits(s, "running") \/ VMStep(s)
    PROVE  IndInv'
<1>0. TypeOK /\ HoldsByStage(s)
  BY DEF IndInv
<1> USE GuestIPType, AdapterAssumption DEF Goto, mapVars, networkVars, hostVars, vmVars, runVars
<1>1. ASSUME NEW from \in {"running", "killed"}, VMExits(s, from) PROVE IndInv'
  <2>1. TypeOK'
    BY <1>1, <1>0 DEF TypeOK, VMExits, Stages, LaunchStages, UnwindStages, ShutdownStages
  <2>2. HoldsByStage(s)'
    BY <1>1, <1>0 DEF TypeOK, HoldsByStage, Alive, VMExits,
       LaunchStages, UnwindStages, AliveStages, RegisteredStages,
       NetworkStages, RunDirStages, LeftStages, FreshStages
  <2>3. ASSUME NEW t \in Sandboxes \ {s} PROVE Untouched(t)
    BY <1>1, <1>0, <2>3 DEF TypeOK, Untouched, VMExits
  <2> QED
    BY <2>1, <2>2, <2>3, StepInv
<1>2. CASE SetExited(s)
  <2>1. TypeOK'
    BY <1>2, <1>0 DEF TypeOK, SetExited, Stages, LaunchStages, UnwindStages, ShutdownStages
  <2>2. HoldsByStage(s)'
    BY <1>2, <1>0 DEF TypeOK, HoldsByStage, Alive, SetExited,
       LaunchStages, UnwindStages, AliveStages, RegisteredStages,
       NetworkStages, RunDirStages, LeftStages, FreshStages
  <2>3. ASSUME NEW t \in Sandboxes \ {s} PROVE Untouched(t)
    BY <1>2, <1>0, <2>3 DEF TypeOK, Untouched, SetExited
  <2> QED
    BY <2>1, <2>2, <2>3, StepInv
<1>3. CASE CloseExitedCh(s)
  <2>1. TypeOK'
    BY <1>3, <1>0 DEF TypeOK, CloseExitedCh, Stages, LaunchStages, UnwindStages, ShutdownStages
  <2>2. HoldsByStage(s)'
    BY <1>3, <1>0 DEF TypeOK, HoldsByStage, Alive, CloseExitedCh,
       LaunchStages, UnwindStages, AliveStages, RegisteredStages,
       NetworkStages, RunDirStages, LeftStages, FreshStages
  <2>3. ASSUME NEW t \in Sandboxes \ {s} PROVE Untouched(t)
    BY <1>3, <1>0, <2>3 DEF TypeOK, Untouched, CloseExitedCh
  <2> QED
    BY <2>1, <2>2, <2>3, StepInv
<1> QED
  BY <1>1, <1>2, <1>3 DEF VMStep

(* The steps of a command change nothing that a sandbox holds.              *)
LEMMA RunInv ==
    ASSUME IndInv, NEW r \in Runs,
           (\E s \in Sandboxes : RunInSandbox(r, s)) \/ RunStep(r) \/ Response(r) \/ CancelRun(r)
    PROVE  IndInv'
<1>1. TypeOK'
  BY DEF IndInv, TypeOK, RunInSandbox, RunStep, Dialed, DialFails, ConnectionLost, Response,
         CancelRun, Returns, runFrame, mapVars, networkVars, hostVars, vmVars
<1>2. UNCHANGED runFrame
  BY DEF RunInSandbox, RunStep, Dialed, DialFails, ConnectionLost, Response, CancelRun, Returns
<1>3. ASSUME NEW s \in Sandboxes PROVE HoldsByStage(s)'
  BY <1>2, <1>3 DEF IndInv, HoldsByStage, Alive, runFrame, mapVars, networkVars, hostVars, vmVars
<1> QED
  BY <1>1, <1>3 DEF IndInv

(* No step of the adapter breaks the invariant.                             *)
LEMMA NextInv == IndInv /\ [Next]_adapterVars => IndInv'
<1> SUFFICES ASSUME IndInv, [Next]_adapterVars PROVE IndInv'
  OBVIOUS
<1>1. CASE UNCHANGED adapterVars
  BY <1>1 DEF IndInv, TypeOK, HoldsByStage, Alive, adapterVars, mapVars, networkVars, hostVars, vmVars, runVars
<1>2. CASE Next
  BY <1>2, LaunchInv, ShutdownInv, VMInv, RunInv DEF Next
<1> QED
  BY <1>1, <1>2

(* What a sandbox holds follows in every reachable state from its stage,    *)
(* from whether the cleanup of its network came too late, and from whether  *)
(* stopVM gave up on its VM (launchSandboxVM, shutdown,                     *)
(* setupHostNetworkWithDeps).                                               *)
THEOREM AdapterInvariant == Spec => []IndInv
BY InitInv, NextInv, PTL DEF Spec

(* The types of the variables of the adapter.                               *)
THEOREM TypeCorrect == Spec => []TypeOK
<1>1. IndInv => TypeOK
  BY DEF IndInv
<1> QED
  BY <1>1, AdapterInvariant, PTL

(* Whichever step of a launch fails and whichever way a sandbox ends, it    *)
(* leaves no directory and no registry entry behind, a network only when    *)
(* the context of its cleanup ended before the cleanup, and a VM only when  *)
(* stopVM gave up on it (the failure paths of launchSandboxVM, shutdown).   *)
THEOREM CleanFailure == Spec => []NothingLeftBehind
<1>1. IndInv => NothingLeftBehind
  BY DEF IndInv, HoldsByStage, NothingLeftBehind, LaunchStages, UnwindStages,
         AliveStages, RegisteredStages, NetworkStages, RunDirStages
<1> QED
  BY <1>1, AdapterInvariant, PTL

(* A sandbox in the map of the adapter has all that its commands need, even *)
(* when other sandboxes get its address (Register, TerminateSandbox).       *)
THEOREM ReadyMeansComplete == Spec => []InstanceIntact
<1>1. ASSUME IndInv, NEW s \in instances
      PROVE  s \in runDirs \cap networks /\ registry[GuestIPOf[s]] = s
  <2>1. s \in Sandboxes /\ HoldsByStage(s)
    BY <1>1 DEF IndInv, TypeOK
  <2> QED
    BY <1>1, <2>1 DEF HoldsByStage, RegisteredStages, NetworkStages, RunDirStages
<1>2. IndInv => InstanceIntact
  BY <1>1 DEF InstanceIntact
<1> QED
  BY <1>2, AdapterInvariant, PTL

(* The disk and the network of a VM outlive its process (shutdown,          *)
(* cleanupAll).                                                             *)
THEOREM HostOutlivesVM == Spec => []VMHasItsHost
<1>1. IndInv => VMHasItsHost
  BY DEF IndInv, HoldsByStage, VMHasItsHost, AliveStages, RegisteredStages, NetworkStages,
         RunDirStages
<1> QED
  BY <1>1, AdapterInvariant, PTL

=============================================================================
