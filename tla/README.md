# Verification of cleanroom

cleanroom runs commands in microVM sandboxes. A daemon keeps a registry of
sandboxes and executions, serves it over RPC, attaches terminals to executions
over QUIC, and drives a backend (Firecracker on Linux, Virtualization.framework
on macOS) that boots the VMs. This directory models that code in TLA+, checks
the models with TLC on small instances and proves part of them with TLAPS for
every instance.

## The system

| Part | Source | State | Operations | What is hard about it |
|---|---|---|---|---|
| Control service | `internal/controlservice` | maps of sandboxes, executions and interactive sessions behind one mutex; per topic an event history, a Done channel and subscriber channels | create, terminate, download, execute, cancel, open/consume/release a session, prune | work between two critical sections: adapters run, cancel functions are called, VMs stop while other calls go on |
| Control server | `internal/controlserver` | one handler per streaming call | subscribe, send history, follow, drain | slow readers, the end of a topic racing an overflow |
| Interactive server | `internal/interactivequic/server.go` | three goroutines per connection | hello, attach, forward, signal, stdin | goroutines that outlive the handler, `select` between ready cases |
| Interactive client | `internal/interactivequic/client.go` | event channel, streams | dial, read control events, write stdin | a full event channel blocks the reader |
| Firecracker backend | `internal/backend/firecracker` | map of VM instances, host network rules, gateway registrations, run directories | provision, run, download, terminate, one-shot run | roll-back of a launch that fails half-way, VMs that die, cleanup long after the setup |
| darwin-vz backend | `internal/backend/darwinvz`, `cmd/cleanroom-darwin-vz` | map of VM instances, a helper process per VM | as above, through the helper's socket | the helper dies, requests time out |
| Guest agent | `cmd/cleanroom-guest-agent`, `internal/vsockexec` | one connection at a time | decode request, run, stream frames, exit frame | host hangs up while a command runs; the next connection waits |
| Image manager | `internal/imagemgr`, `internal/ociref` | metadata database and root file system files | ensure, import, list, remove | file and metadata are written and removed in two steps |
| Boot assets | `internal/bootassets` | kernel cache directory | ensure, resolve, download and verify | concurrent downloads, partial files |
| Gateway | `internal/gateway` | registry by guest address and by token | register, release, look up, proxy git | address collisions |
| Client library | `client`, `internal/controlclient` | key lock, cached sandbox | ensure sandbox, execute and wait | a cached sandbox that is gone |
| Command line | `internal/cli` | signal handling, terminal | exec, console, sandboxes, serve | first and second interrupt, removal after use |
| Policy | `internal/policy` | none (pure) | load, validate, compile, hash | normalisation |
| Configuration, paths, TLS, host tools | `internal/runtimeconfig`, `internal/paths`, `internal/tlsconfig`, `internal/endpoint`, `internal/hosttools` | none | load, resolve | input and output only |

`PROJECT.json` lists every part with its status, the hazards with the line where
each one bites, and the source lines behind every definition.

## The modules

The daemon:

* **EventBus** - histories, Done channels and subscribers as operators from one
  value of the bus to the next (`appendBounded`, `record*EventLocked`,
  `close*Locked`, `Subscribe*Events`). Events carry a ghost position.
* **ControlService** (extends EventBus) - one action per critical section of
  `service.go`. What a handler does between two critical sections is either an
  action of its own (calling a cancel function, stopping the VM) or the gap
  between two actions (the adapter runs, a download runs). A time that is read
  before the lock is taken is any time up to now. Ids are numbers because
  evictions break ties by id; `unused` and `dropped` stand for ids that are not
  in the map yet, or not any more.
* **SandboxContract** - what a client may rely on: phases of a sandbox and
  outcomes of executions, without any of the machinery. ControlService
  implements it under the mapping `Contract`.
* **ControlServer** (extends ControlService) - the streaming handlers.
* **InteractiveServer** (extends ControlService) - the three goroutines of a QUIC
  connection: `handleConnection`, `readControlLoop`, `readStdinLoop`.
* **OutputRetention** - what the service keeps of the output of an execution:
  `appendRetainedOutput` and `bufferedResultDelta` as operators on sequences, the
  streaming callbacks, and the merge of the result at the end. `std` says whether
  the stream is stdout or stderr: behind stderr the service puts a line of its
  own, the error of a run that failed, or the message of a result unless the
  retained text contains it already.
* **Policy** - compilation, the message and the second compilation as operators
  (`Compile`, `ToProto`, `FromProto`, `Allows`), and the way of a policy from the
  file, or from `PolicyFromAllowlist`, to the service.
* **Gateway** (extends Policy) - the registry by guest address and by scope token
  and the handling of a request in the steps between which the registry may
  change: identification, decision, answer. An operation is what
  `classifyRequest` makes of the method, the decoded path and the query; how the
  upstream server reads the request that is forwarded is not modelled.

The backends:

* **HostNetwork** - the privileged commands that give a Firecracker VM its TAP
  device and its iptables rules, their rollback and their cleanup, and the
  firewall of the gateway port. `rules` is what the commands left in each chain,
  in order; `Verdict` evaluates a packet against it the way iptables does (first
  match), and the properties compare that with the policy. Four commands with
  nothing to undo count as one, and so does a pair of rules for TCP and UDP. A
  command that reports an error is taken to have done nothing, also when it was
  killed by the end of its context, and a cleanup command that is executed to
  have worked.
* **FirecrackerAdapter** - `ProvisionSandbox` and `launchSandboxVM` step by step
  with every failure path, `TerminateSandbox` and `shutdown`, the process and the
  goroutine that waits for it, commands in a VM. An id is provisioned once and
  the goroutine that works on it is unique, so one stage per sandbox is the
  program counter of all of them. The check for an existing instance at the end
  of `ProvisionSandbox` cannot fail then, and is left out. The network is one
  step here (HostNetwork has the details), and so is its cleanup, which removes it
  or, when its context has ended, leaves it; `overdue` has the sandboxes to which
  the latter happened. The rollback of a setup that fails can come too late as
  well.
* **BackendRun** - the one-shot `run` of each backend as a row of steps with the
  calls they defer. The order in which deferred calls are registered, and which of
  them are registered before their step, is the content of the model. The darwin-vz
  helper can die, and its answer can come after the request timed out. The context
  of the network cleanup may end at any time after the setup (`overdue`).
* **ImageManager** - the cache of images: file and row per digest, the calls
  `Ensure`, `Import` and `Remove` one database or file operation at a time, the
  mutex of each process, failures of each operation, and crashes of a process.
* **LaunchArtifacts** (extends ImageManager) - the rest of what a VM boots from:
  the managed kernel, the prepared root file system, the disk. A launch goes
  through them in the order of the code; the tests made without a mutex are
  steps of their own. Kernels and, on darwin-vz, root file systems that are
  configured by hand are used without verification and are not in the module.
* **GuestAgent** - the agent's accept loop, a command with its pipes or its
  terminal, the goroutines that copy its output, `readInputFrames`, the frames on
  the wire, and the host's decoder. Pipes and wire are bounded, so that a reader
  that stops blocks its writer. `readInputFrames` closes a terminal when it
  returns: at the end of the input, or because input could not be written.

The clients:

* **ClientSandboxes** - `EnsureSandbox` with `lockEnsureKey` and `ensureLocks`. An
  address of a lock can be used again once nobody holds it.
* **ExecClients** - `cleanroom exec` with its signal goroutine and
  `Client.ExecAndWait`, with requests that fail before or after they took effect,
  and streams that break or end early. Of the service it has what a client sees:
  output, the error text of a failed run (a "notice": it has the final status
  and no exit code), and the exit event, any of which may be the last to come.
* **ConsoleClient** (extends ExecClients) - `cleanroom console` and the client's
  end of an interactive connection: `readControlEvents`, the goroutine that reads
  the events, the wait for the exit code and the request that replaces it.

For the tools:

* **ControlServiceProofs**, **FirecrackerAdapterProofs**,
  **ClientSandboxesProofs**, **LaunchArtifactsProofs** - the theorems.
* **MC...** - constants and symmetry for TLC. MCDaemonSide, MCHostSide and
  MCCommandPath put several modules into one run, see below.

Operators whose comment begins with "Mutant" are variants of the definition
below them that a plausible mistake in the code would give. They are used by no
specification; substituting one must break the property PROJECT.json pairs it
with.

## The runs

| Run | Question | Bounds |
|---|---|---|
| ControlServiceLifecycle | Do concurrent creations, cancellations, downloads and terminations leave the registry consistent, and does it implement SandboxContract? | 1 sandbox, 2 executions, 2 concurrent calls, signals 2 and -128, persistent backend |
| ControlServiceSessions | Is the registry bounded whatever expires or ends when; can two connections drive an execution; does anything interactive leak? | 1 sandbox, 2 executions, 2 sessions, clock 0..2, limits 0 and 1, tokens that expire at once |
| DaemonSide | Do followers see what happens, and does what is started end; is retained output, an accepted policy and the registry of the gateway right? Four parts, see below. | per part |
| ControlServerSlowReaderExit (violation) | Does a follower that overflowed always learn the exit? No. | 1 follower, buffer of 1 |
| InteractiveServerBusy | Does a connection without errors end with the exit frame, and do the goroutines of connections with input, resizes and signals wind up? | 2 connections, 1 payload each, buffer of 1 |
| InteractiveServerExit (violation) | Is the exit frame sent when input races the end? No. | 2 connections, 1 payload each |
| InteractiveServerWriter (violation) | Does only the holder write to the execution? No. | 2 connections, 1 payload each |
| HostSide | Is what callers share on the host kept consistent? Four parts, see below. | per part |
| HostNetworkLateCleanup (violation) | Does the cleanup remove the rules? Not after its deadline. | 1 VM, clock 0..2, cleanup deadline 1 |
| CommandPath | Does a command, at each end of its way, leave nothing behind, report the truth and come to an end? Three parts, see below. | per part |
| GuestAgentSequential (violation) | Is every connection of a waiting host accepted? Not behind a command whose host has gone. | 2 connections, up to 3 chunks, pipe of 1, wire of 2 |
| ExecClientsResult (violation) | Is a result of ExecAndWait final? Not if the stream ended early. | the library client, exit codes 0 and 1 |

DaemonSide, HostSide and CommandPath each cover several modules that share no
variable. The variable `part` is chosen initially and never changes; only the named part moves,
and the others stay in one initial state. A behaviour of the run is therefore a
behaviour of one module, every behaviour of every module is one of the run, and
a property of one module says nothing false about the others at rest. Liveness is
checked under the fairness of each module (`PathFair`, `DaemonSpec`), which asks
nothing of a part at rest.

| Part of DaemonSide | Properties | Bounds |
|---|---|---|
| streams (ControlServer) | `NoGapNoDuplicate`, `PromptStreamEndsWithExit`, `StreamTerminates`, `CanceledEnds`, `TerminationDrains` | 1 follower of a sandbox or an execution, slow or prompt, 1 call, buffers of 1 and 2 |
| output (OutputRetention) | `OutputKept` | 2 byte values, up to 4 bytes, limit 2 |
| policy (Policy) | `PolicyPreserved` | up to 2 rules with up to 2 ports each, 2 hosts in two spellings and the empty one, ports 0, 80 and 443, 2 images |
| gateway (Gateway) | `ForwardedIsAllowed` | 2 sandboxes with one address and one token, 1 request |

| Part of HostSide | Properties | Bounds |
|---|---|---|
| network (HostNetwork) | `PolicyEnforced`, `GatewayFenced`, `HostRestored`, `StaleRulesPinTheTap` | 2 VMs that share a guest address (no time passes) or a device name (clock 0..2, deadline 1), 1 destination that policies may or may not name, gateway on |
| launch (LaunchArtifacts) | `EnsureRestores`, `FinalNamesWhole`, `BootsComplete`, `NothingHeldAfterReturn` | a server with 2 launches and a process with an image command, 1 digest, 1 crash, darwin-vz; no kernel and no prepared file, or invalid ones |
| run (BackendRun) | `RunTearsDown` | 1 run of either backend |
| client (ClientSandboxes) | `OneSandboxPerKey`, `LocksReclaimed` | 3 calls, 2 addresses for locks, 2 sandboxes |

| Part of CommandPath | Properties | Bounds |
|---|---|---|
| adapter (FirecrackerAdapter) | `NothingLeftBehind`, `InstanceIntact`, `VMHasItsHost`, `CallsEnd` | 2 sandboxes with one guest address, 1 command |
| guest (GuestAgent) | `ExitFollowsAllOutput`, `AgentServesWaiting` | 2 connections, up to 2 chunks per command, pipe of 1, wire of 2 |
| client (ExecClients, ConsoleClient) | `ReportsOutcome`, `ClientCleansUp`, `ClientReturns` | one client of each kind, exit codes 0 and 1, 2 interrupts pending at most |

Why the bounds are enough: a sandbox admits one execution at a time, so two
executions give a finished (or canceled) one with its leftovers next to a live
one; two concurrent calls give every race between terminate, download and
cancel; limits of zero or one make every prune evict something; a buffer of one
overflows at the second event. Two VMs that share an address or a device name
give every interference of their rules. Two launches of one process and a command
of another give both kinds of exclusion, by the mutex and none; a second digest
would only add a copy. Three calls of EnsureSandbox give a holder, a waiter and a
newcomer that finds the lock or finds it gone, and two addresses let a lock be
replaced while somebody may still have the old one. Output of twice the limit
gives every position of the cut. MaxEvents bounds only the events that could
repeat for ever (output, repeated cancellations, repeated terminations). The
firecracker backend does what darwin-vz does in the launch part, except that it
does not validate the prepared file; the theorems cover both.

Callers that launch, and VMs, are interchangeable and reduced by symmetry in
HostSide, which checks safety only; so are sessions in ControlServiceSessions.
Deadlock checking is off where the bounded system legitimately stops: all ids
used, the clock at its bound, the command reported. In HostSide it is on, and the
parts that come to an end say so in `MayStop`: the callers of the caches and
of EnsureSandbox never all wait for one another.

### Fairness

`FairSpec` assumes that goroutines the code has started are scheduled, that a
call which has released the mutex goes on, and that the adapter's stop call
returns (either way). An adapter run is assumed to return only once its context
is canceled: a command may otherwise run for ever. Nothing is assumed about
clients: no call has to be made. The servers assume that a handler whose client
reads goes on, and that the stdin loop is scheduled. The Firecracker adapter
assumes that a launch and a shutdown go on (each of their waits has a time limit
in the code), that a process that was killed exits and is reaped, and that a
command notices a failed dial or a closed connection. A guest need not answer.
In GuestAgent the goroutines of the agent are scheduled, commands are programs
that write what they have to write and exit, unless they block on a full pipe, and
a host that has not hung up reads; a host need not stay. The clients' goroutines
are scheduled, and their requests are answered or fail; the execution need not
end, the exit frame need not come, and no interrupt has to be given.

### Findings

* A follower whose channel overflowed just before the end gets a normal end of
  stream without the exit event (`streamSubscriberDroppedErr`), against
  `docs/spec.md` section 8.1.
* Input that reaches the server when the execution has ended makes
  `handleConnection` choose between the error and the exit event; the client may
  get an error frame instead of the exit frame, against
  `docs/plans/interactive-tty-streaming.md` section 4.6.
* `writeInteractiveStdinWithRetry` goes on after its connection released the
  execution and may write while another connection holds it, against section 4.3
  of the same document.
* The context of the network cleanup is created with a timeout of five seconds
  when the network is set up (`setupHostNetworkWithDeps`): the cleanup of a VM
  that lived longer executes nothing, and the device and all rules stay, against
  `docs/spec.md` section 6.2.2. `StaleRulesPinTheTap` shows that what stays is
  at least harmless to later VMs: the device name cannot be taken again.
* When the host hangs up, the agent stops reading the pipes of the command but
  still waits for it; a command with more to write blocks, and no later connection
  is accepted (`handleConnPipes`), against `docs/vsock.md` line 110.
  `AgentServesWaiting` shows that this is the only way to be left waiting.
* `ExecAndWait` returns a result without looking whether its status is final when
  the stream ended without an error, which is how the server ends the stream of a
  slow reader (the first finding), against the comment of `ExecResult` in
  `client/ergonomics.go` line 333. The status is RUNNING, or final with exit code 0
  when the last event was the error text of a failed run. `ReportsOutcome` shows
  that a result is never worse than incomplete.

One disagreement has no run: `docs/spec.md` section 6.2.2 says that gateway ports
"must only be reachable from sandbox TAP interfaces", while `setupGatewayFirewall`
accepts the loopback interface too, as its comment says. `GatewayFenced` takes the
side of the code and is about the interfaces that both want closed.

### Exceptions that the properties make

A property that excepts a case says so in its comment; these are the ones.

* `NothingLeftBehind`, `RunTearsDown`: a VM or helper that the code stopped waiting
  for, and a network whose cleanup came after its five seconds. The second is
  the finding above; for sandboxes that live longer it is the normal case, and the
  properties say that everything else is removed even then, and that no other path
  leaves a network. `RunTearsDown` also excepts the partial copy of a disk that
  darwin-vz leaves.
* `ExitFollowsAllOutput`: what a terminal holds when `readInputFrames` closes it
  after a failed write.
* `ReportsOutcome`: a result of `ExecAndWait` without an exit event.

## What is proved

`ControlServiceProofs` proves for every set of sandboxes, executions, calls,
sessions and streams, every limit and every signal:
`TypeCorrect`, `ExclusiveUseHolds`, `CancelWinsHolds`, `CancelNotLostHolds`,
`NoWorkOutlivesSandboxHolds`, `HandlesFollowRunHolds` and
`DownloadFlagExactHolds`, each `Spec => []P` for a property P of ControlService.
`HandlesFollowRun` and `DownloadFlagExact` are close to the invariant and are only
proved; the others are checked by ControlServiceLifecycle too. The
assumptions are the named ASSUMEs of EventBus and ControlService: ids are
distinct numbers, limits are natural numbers, the event limits are not zero.

None of these is inductive alone. `UsageInv` adds to the type invariant:

* `Placed` - an unfinished execution and a call in flight name a sandbox;
* `Owned` - an unfinished execution is the active execution of its sandbox, so
  looking at ActiveExecutionID is enough to see it; the sandbox is not
  downloading, and is ready unless the execution is running and told to stop;
* `Handles` - an execution is running exactly while its runner is in the adapter
  call, has a cancel function exactly then, and attach functions only then;
* `Canceling` - a running execution is marked as canceled exactly when somebody
  called its cancel function or is about to, and a final one exactly when it
  ended as canceled;
* `Downloads` - the flag and the calls agree, and a sandbox has one download at
  most;
* `Terminating` - a terminate call past its first section has a sandbox that is
  not ready any more, so committing never cuts short a ready one;
* `Named` - a pending session names an execution.

There is one lemma per action; prunes are handled by lemmas about eviction
(only final executions and idle stopped sandboxes are dropped), so each action
is proved once for its own effect and once for the prune at its end.

`FirecrackerAdapterProofs` proves `TypeCorrect`, `CleanFailure`
(`NothingLeftBehind`, with its two exceptions), `ReadyMeansComplete` (`InstanceIntact`) and
`HostOutlivesVM` (`VMHasItsHost`) for any number of sandboxes and commands and
any collisions of addresses; the only assumption is that the value for "no
sandbox" is not a sandbox. The properties speak about the ends of launches and
terminations; the inductive invariant `HoldsByStage` says for every stage in
between exactly which of directory, network and registration a sandbox holds
(the network also where `overdue` says that its cleanup came too late, which can
only be behind that cleanup), that a VM is alive only in the stages between its start and the end of `stopVM`
(or stopVM gave up on it), and that an exit is recorded only for a process that
has exited. Two sandboxes interact only through the registry; `Untouched` and
the lemma `StepInv` reduce every action to its own sandbox.

`ClientSandboxesProofs` proves `OneSandboxPerKeyHolds` and `LocksReclaimedHolds`
for any finite number of calls and any locks and sandboxes. That two running
sandboxes never belong to one key follows from no local fact; the invariant
`EnsureInv` says:

* `SameLock` - every call that is not idle uses the lock in `ensureLocks`, so all
  calls queue at one channel;
* `Counted`, `InUse` - the reference count is the number of calls with the lock,
  so the call that removes the lock is the last one, and no call is left behind
  with a lock that a newcomer would not find;
* `OneToken` - the token is in the channel or with exactly one call;
* `Followed` - a sandbox that was made is in `sandboxByKey`, or the call that made
  it is about to record it, and nobody else is creating one.

`LaunchArtifactsProofs` proves `FinalNamesWholeHolds`, `BootsCompleteHolds` and
`NothingHeldHolds` for any number of processes, callers, digests and crashes, and
for both backends. `LaunchInv` says:

* `InHand` - what a caller has in its temporary files, by where it is: what it
  renames is complete, a launch past the kernel has a verified one, a caller that
  copies the prepared file to its disk found one that is not invalid;
* `PreparedValid` - where nothing validates a prepared file, none is invalid;
* `HeldInSection` - a mutex is held only by a caller of its process inside the
  section that ends with the unlock.

The point is that `InHand` of one caller is not disturbed by the others, although
kernel and prepared file are looked up without a mutex: files under final names
only become complete or disappear (`KeepsNamesWhole`). `SoundStepsKeep` reduces
every action to its own caller, and there is one lemma per group of actions
(`ImageStepSound`, `PrepareStepSound`, `CallSound`, `CrashKeeps`). The
assumptions are that every caller has a process and that "nobody" is not a caller.

Only model-checked: `ExitEventLast`, `ExitCodeMeaning`, `RetentionBounded`,
`SingleWriter`, `InteractiveStateLive`, the refinement `ImplementsContract`,
`EnsureRestores`, `RunTearsDown`, `OutputKept`, `PolicyPreserved`,
`ForwardedIsAllowed`, `ExitFollowsAllOutput`, `ReportsOutcome`,
`ClientCleansUp`, all properties of the two servers and of HostNetwork, and
everything about fairness (liveness is out of the prover's reach). `OutputKept` and
`PolicyPreserved` are about functions on sequences and need induction over them,
which is out of its reach too.

## What is not modelled, and why

* Widths of integers: exit codes and signals are small numbers here; the narrowing
  to int32 is left out.
* Calls that only read (`Get`, `List`), error codes, logging, observability and
  status files: no state that a property is about.
* Unary RPC handlers and client methods that forward one request; the other
  commands of the command line, which send one request and print.
* The darwin-vz helper itself (Swift). BackendRun has what its answers, its late
  answers and its death mean to the backend.
* Pulling and unpacking of images, `mkfs`, installation of the guest runtime,
  downloads: one step each that may fail and leave a part behind.
* The doctor of each backend, boot arguments and environment, choice of ports: they
  are computed once from the configuration.
* Transport, TLS and certificate pins, copying of git bodies, credentials,
  configuration, paths, host tools, and the generated RPC code: input and output
  without state that two actors share.
* The modules of CommandPath are checked side by side, not composed. Client and
  service, and adapter and agent, meet only in messages that each side models for
  itself, with every answer the other side may give, its loss included; a joint
  model would restrict those answers and add no behaviour.

Proofs that are worth having and not there yet: the session invariants
(`SingleWriter`, `InteractiveStateLive`), `ExitEventLast`, `RetentionBounded`, the
safety part of the refinement of SandboxContract, and `HostRestored`.
