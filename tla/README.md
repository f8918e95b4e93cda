# A verification of ezx

ezx is a container entrypoint: it runs as PID 1, executes a JavaScript file, and supervises the
processes the script describes. This directory holds TLA+ models of its concurrent core, of the
log rotation and file editing beside it and of the rules a chain must pass, the TLC runs that check
them on small instances, and TLAPS proofs for instances of any size.

Paths below are relative to `src/`; `service.go` alone is `orchestrator/service.go`.

## The system

| Component | Code | State | Operations |
|---|---|---|---|
| DAG coordinator | `orchestrator/service.go` 138-555 | per node: state, counter of waiting edges, `goCh`, started/ready closed, drained; the first fatal error; `Service.active` | `runDAG`, `runNode`, `closeGo`, `signalStarted/Ready/Exited`, `nodeExited`, `failChain` |
| Node lifecycle | `service.go` 561-1072, 1318-1338 | the process handle in use, retries, rotation target, forwarder, the tries of the readiness gate | `runSingleNode`, `runOneshot`, `supervise`, `drain`, `awaitReadiness`, `pollReadinessFunc`, `pollReadiness` |
| Scheduler | `service.go` 1076-1311, `domain/scheduler.go` | trigger channel, in-flight slot, last run, registry | `runScheduled`, `runTick`, `Trigger.Fire` |
| Script-entry gate | `internal/repository/js/runtime.go` | `parkN`, `inFlight`, the entry lock | `Park`, `Unpark`, `Call`, `TryCall`, `Do` |
| Process handle | `internal/repository/system/process.go` | started, `done`, exit code, output buffers and writers | `Start`, `Wait`, `Signal`, `Kill`, `Output` |
| Reaper | `internal/repository/system/reaper.go` | subscribers, cached exits, the SIGCHLD channel | `Register`, `reapAvailable` |
| Probes, signal forwarder | `probe.go`, `signalfwd.go` | none / the process group | `Check`, `StartForwarder` |
| Health | `health/`, `internal/rest/health.go` | one flag | `SetReady`, `/readyz` |
| Chain normalization, validation | `domain/process_chain.go`, `domain/chain_validate.go` | none | `Normalized`, `ValidateChain` |
| Log rotation | `internal/repository/logrotate/`, `rotate.go` | watches, throttle timer; the log, its numbered archives | `Run`, `rotatePass`, `ShiftAndRename`, `KeepTail`, `CompressArchive`, `CopyTruncate`, `PruneBackups` |
| File provisioning, editors | `internal/repository/system/file.go`, `internal/script/editor_scope.go` | the file | the operations of a rule, the verbs of a scope handle |
| Cron expressions | `internal/repository/cron.go` | none | `ParseCron`, `Match`, `Next` |
| Captured-log writer | `internal/repository/system/logging.go` | the file, its size | `Write`, `Close` |
| Config formats, archive, fs, net, crypto | `internal/repository/`, `internal/script/` | none | sequential functions |
| Main, terminal, license, sbom | `app/`, `internal/terminal/`, ... | none | wiring |

How they interact:

- The script calls `chain.run` (`internal/script/chain.go`), which normalizes and validates the chain,
  **parks** the script engine and calls the coordinator. From then on the script's goroutine is
  blocked until every node has left.
- The coordinator starts one goroutine per node; each waits for its counter to reach zero, runs the
  node's **lifecycle**, and reports the result to the router, which releases, skips or drains
  dependents under one lock.
- A lifecycle starts **process handles**. A handle forks a child and registers its pid with the
  **reaper**, the one goroutine that calls `wait4(-1)`; the exit comes back through a channel, the
  handle closes `done`, and the lifecycle's `select` wakes up.
- Lifecycle callbacks (`onStart`, `onExit`, ...), scheduler ticks and HTTP routes run script code.
  goja is single-threaded, so they go through the **gate**, which admits them only while the
  script is parked, one at a time.
- A lifecycle waits for its **readiness gate** and starts a goroutine that polls the probe into the
  one readiness flag of ezx. A supervised node may have a **log rotator**, which watches the files
  the process writes itself and signals whatever process the lifecycle has now (`liveTarget`).
- Before it starts a chain's processes, and at each start of the container, ezx **edits files**: the
  same script runs again on whatever the last start, or a kill in the middle of it, has left.
- A shutdown (SIGTERM) cancels the chain's context: the lifecycles drain their processes
  (signal, timeout, kill) and `chain.run` returns.

What is hard here: goroutines meeting in `select` statements whose cases are ready together,
check-then-act across short critical sections, the exit of a child racing everything, restarts
that leave helpers with a stale handle, and a chain that must come to an end whatever fails.
`PROJECT.json` lists each such place under "hazards".

What makes each component correct:

- *Coordinator*: no node starts before its dependencies allow it; a failure reaches everybody it
  should and nobody else; the run always ends and returns the right error.
- *Lifecycle*: the restart policy is respected, no process is left behind, helpers follow the
  current process, a shutdown ends.
- *Scheduler*: one tick at a time, spaced, contained in the node's life; the slot and the active
  count are given back on every path.
- *Gate*: the VM is never entered twice; callbacks of a chain are never refused; nobody waits for ever.
- *Process and reaper*: every handle learns its own exit, exactly once, and no zombie stays.
- *Readiness*: a crash behind the gate is noticed, the flag follows the process.
- *Log rotation*: no chunk is lost but in stated places, archives stay in order, retention drops only the
  excess, a change that was reported leads to a pass.
- *Editors*: a start that is repeated, or was killed, ends where one undisturbed start ends; blocks
  stay whole and nested.
- *Chain rules*: what passes is what the coordinator relies on; what is refused deserves it.
- *Cron*: a node ticks at times its expression names.

## The modules

| Module | What it is |
|---|---|
| `Coordinator` | the coordinator, a goroutine per node; lifecycles reduced to their outcomes |
| `ChainContract` | what a chain promises: when nodes may start, give up, leave; `Coordinator` implements it |
| `CoordinatorProofs` | the proofs about `Coordinator`: types, the active count, the error of `Run`, the reasons of a skip |
| `CoordinatorOrderProofs` | the proofs that need the counters: no early start, cascades, the exec node, no orphan, the refinement of `ChainContract` |
| `Lifecycle` | one node's lifecycle over several incarnations of its process |
| `LifecycleProofs` | the proofs about `Lifecycle` |
| `NodeContract` | what `Coordinator` assumes of a lifecycle; `Lifecycle` implements it |
| `ChainRules` | `Normalized` and `ValidateChain`, run twice on a script's chain |
| `ChainRulesProofs` | the proofs that an accepted chain has no cycle, and that the verdict is right |
| `Scheduler` | a scheduled node, its ticks and its trigger |
| `ScheduleContract` | what `Coordinator` assumes of a scheduled node; `Scheduler` implements it |
| `SchedulerProofs` | the proofs about `Scheduler` |
| `VMGate` | the gate, the script's goroutine and the callers |
| `VMAccess` | exclusive access to a VM; `VMGate` implements it for the callbacks of a chain |
| `VMGateProofs` | the proofs about `VMGate` |
| `Reaper` | process handles, the reaper, exec probes, the kernel's process table |
| `ProcessContract` | what `Lifecycle` and `Scheduler` assume of a process handle; each handle of `Reaper` implements it |
| `ReaperProofs` | the proofs about `Reaper` |
| `Archives` | the numbered archives of a log, as operators |
| `LogRotation` | the rotator's session and pass, against the process that writes |
| `LogRotationProofs` | the proofs that no chunk and no reported change is lost, of the order and of retention |
| `FileOps` | the operations of `file.go` on a text of words and newlines |
| `EditorScope` | the verbs of `editor_scope.go`, on top of `FileOps` |
| `Bootstrap` | a container start that runs such verbs or operations, killed and repeated |
| `Cron` | cron expressions in the loop of a scheduled node |
| `MC*` | the instances TLC runs |

They are composed by contracts, not by one product: `Coordinator` treats a lifecycle as a few
outcomes, `NodeContract` says what it takes for granted, and `Lifecycle` is shown to implement
that. `ScheduleContract` is the same for a scheduled node, whose ticks count themselves into `active`;
it begins where the expression has been parsed, and an invalid one ends the node before (`SetupFails`).
`Lifecycle` and `Scheduler` in turn see a process as a channel that closes once, after the exit and with
its code: `ProcessContract`, which every handle of `Reaper` is shown to implement. `VMGate` takes from the coordinator that `chain.run` returns after its nodes. `ChainRules!CoordinatorInput`
is what `Coordinator` assumes of its chains (edges that resolve, no cycle). `LogRotation` and `Bootstrap`
are built from `Archives` and from `FileOps`/`EditorScope`, modules of operators without state.

### Coordinator

One action is one critical section of `coordinator.mu`, one channel operation, or one step of a
lifecycle the coordinator can tell apart. `pc[n]` is the position of a node's goroutine, `routing[n]`
what is left to do in `nodeExited`. `config` is picked in `Init` from the CONSTANT `Chains`, so
a run checks many chains at once. An edge list may name a dependency twice, as the code's can.
`Cancel` is the caller's context; `FailChain` cancels it too. A lifecycle is split where another
node can interfere: setup, launch, started, ready, supervised, exited, drained; oneshots, scheduled
nodes and exec nodes have actions of their own. In `Exec`, a successful `execve` ends everything
(`execed`).

### Lifecycle

`pc` walks through `runSingleNode`/`supervise` or `runOneshot`; `gen` numbers the handles, `proc[i]`
is handle `i` ("dead": the process has exited; "exited": `done` is closed too, which is what a
`select` sees). When `ctx.Done` and `proc.Done` are both ready, either action may be taken, as Go
does. `target` is `liveTarget.proc`, `pgid` the forwarder's.

The readiness gate has a step per try (`AttemptPasses`, `AttemptFails`), the interval between tries,
the cancellation, the report to the health service and the signal; whether the process would pass is
`up`, which changes at any time (`Serves`, `Hangs`, `Exits`). A probe is tried once before its counted
attempts, a readinessFunc waits an interval after its last one. `poller` is the goroutine of `pollReadiness`:
a check and the setting of its verdict are separate steps, so the verdict may be old when it is set.

### Scheduler

`clock` advances between any two steps; the cron expression is due at the multiples of `Period`.
`firer[f]` is a caller in `Trigger`/`Fire`, whose three looks (registry, `done`, slot) and the send
are separate steps. The deferred calls of `runScheduled` are two steps: `done` closes, then the
trigger is unregistered.

### VMGate

`script` is the script's goroutine (running, parked, draining in `Unpark`, delivering lines);
`pc[c]` a caller's. The callers in `routes` are HTTP handlers, which may come at any time; the
others are nodes, whose callbacks come only while `chain.run` is parked. `Call` and `Do` share the
admission, so they share the actions. `Blockers` make blocking host calls from a callback and so park again.

### Reaper

`proc` is the kernel's table, with zombies and the reuse of pids (`PidFree`); `Wait4` takes any
zombie, and `Route` is the critical section of `reapAvailable`. `repo[h]` is the handle:
`cmd.Start` ("forked") and `Register` ("waiting") are separate steps, so the exit may come between.
`Copies` is os/exec's goroutine. Fork, exit, adoption and the pipe are not ezx's code and are marked external in the map.

### LogRotation

A log is a function from names (index, extension) to the chunks in the file, numbered as they are
written. The process has a file open by the name it has now: it follows a rename, and writes on to
`path.1` until it takes the signal and reopens. `watch`, `events`, `overflow`, `armed` are fsnotify and the
throttle; a pass looks at the sizes once (`Collect`) and then goes through rename or copy/truncate,
the signal, and per log tail, compression and prune, one system call per step. `Fault` lets one of
them fail, `Crash` kills ezx and the container anywhere, `DropEvents` overflows the queue.
`RewriteTail` is KeepTail's truncate and write in one step, whose failure may stop it before either, between them
or in the write. Four variables are history. `expired`: what retention or the tail limit dropped. `risky`: what was
written to an archive before the process reopened, or between a copy and its truncate. `torn`: the part of a tail
that KeepTail truncated and did not write back. `due`: a write past the limit was heard of and awaits its pass
("heard"), or its pass returned early because the process was down ("skipped"). Opening a file that exists is no
event. The rotator's own renames and truncates are events too, but bring only passes that find nothing more, and
are left out.

### FileOps, EditorScope, Bootstrap

A file is a sequence of words and newlines; a regular expression is the set of the words it finds. The
operations and verbs are functions on such files, with the rules about trailing newlines as the code has
them (they differ between the two files). `Bootstrap` performs the steps of a program one after the other;
`Crash` between two of them, or between the two writes of `opSetProperty`, leads to another start on
the file as it is. `Tear` is the kill inside `os.WriteFile`; the model stops there.

### ChainRules

A script's chain is a list of nodes with the position of their parent. `Normalize` is `Normalized`,
`Check` everything `ValidateChain` looks at before its search, and `StartSearch`, `Descend`, `NextEdge`,
`BackEdge`, `ReturnSearch` are `dfs`, with its calls as `stack` and its marks as `visit`. `Sound` says what
an acceptable chain is without that order of checks, of the script's own tree.

### Cron

`Calendar` stands for package `time`. `CronNext` is `Cron.Next` with its bounded search. The loop is
that of `runScheduled`, without what `Scheduler` is about.

## The runs

| Run | Instance | Shows |
|---|---|---|
| `coordinator` | 3 nodes, 164 chains of services, oneshots, scheduled and exec nodes, some with a dependency listed twice, in one mode or in two | start gates, skips, failures, the active count, the refinement of `ChainContract`; a cancelled chain returns, a drained node leaves |
| `stranded` | one chain | **violated**: a skipped oneshot strands its dependents |
| `vm_gate` | 3 callers, one blocking, 0-2 of the others routes | exclusion, admission, nobody waits in a circle, no lost wakeup, the refinement of `VMAccess` |
| `vm_overlap` | a route beside the script | **violated**: the second check and `inFlight++` are not atomic |
| `reaper` | 2 handles and an exec probe, distinct pids | every handle gets its own exit, no zombie stays, the refinement of `ProcessContract` by each handle |
| `lifecycle` | 1,152 configurations without a gate and 52 with one or a health flag, at most 4 starts | restarts, no stray process, live rotation target, shutdown ends, a crash behind the gate is noticed, the flag follows the process, the refinement of `NodeContract` |
| `scheduler` | 20 kinds of jobs, one caller of `Trigger`, time 0..4 | slot and count, containment, spacing, shutdown ends, the refinement of `ScheduleContract` |
| `rotation` | 6 configurations, 2 logs, 3 chunks, 2 starts of the process, one fault | nothing lost but in the stated places, order, retention, every reported change looked at unless its pass is skipped |
| `reopen` | one log, compression, 3 chunks, no fault | **violated**: what is written to `path.1` before the reopen goes with it |
| `edits` | programs of up to 4 steps on 3 files, 2 starts | repeated and killed starts converge; blocks stay whole and nested |
| `admission` | graphs of 3 nodes, kinds of 2 nodes, log-rotation sections of 1 | accepted exactly when sound; accepted chains are what `Coordinator` assumes |
| `never_due` | 121 expressions, a calendar of two short months | **violated**: `Next` returns a time that does not match |

A run marked violated checks one sentence of the documentation that the code does not keep; the
finding in `PROJECT.json` quotes it. Every property of the other runs has a mutant of a definition
that breaks it. `SkipCascades`, `SkipJustified` and `OwnExitDistinct` are proved but in no run: the refinements `ImplementsContract`
and `ImplementsProcess` allow no step that would break them.

### Bounds

- *Three nodes* give every shape the router tells apart: a dependency, a dependent that is also a
  dependency, and two edges (of different modes) into one node. Edges go to earlier nodes only, which is no loss:
  chains are acyclic after validation. Longer cascades repeat the step from the first to the second node.
  The chains are families and not all combinations, as liveness is checked on each of them; the safety properties
  are proved for every chain.
- *Three callers*: one inside, one at the second check, one waiting for the lock.
- *Two handles and a probe*: a subscriber, a late subscriber and a competing waiter. One chunk of
  output is enough to be lost.
- *Gates*: no limit, one try and two; with and without a flag, restarts `on-failure` and `none`.
- *Three chunks, two logs*: one log to its limit, an archive and one to drop; a shift with two archives;
  a second log for the loops of the pass. *One fault* per behaviour: a failed call, a crash or an overflow at
  any one place. Retention is one archive or none to drop.
- *Two starts* of a container: one that is killed anywhere and one that completes. Programs of two
  verbs after up to two that open blocks; rules of two operations after a block.
- *Three nodes* for the search: every graph with a self-loop, a diamond and cycles of two and three, in
  every order of the list. *A calendar* of two months, of three and of two days: a date
  that comes in one month and not in the other.
- *MaxStarts = 4*: with at most 2 retries, one more start than any limit allows; for unlimited
  restarts the backoff after the fourth start never ends.
- *Time 0..4, period 2, MinInterval 2*: two due times, a tick that ends between them, and a skip.

### Deadlock

Checked in `vm_gate`, where the script never stops for good. Elsewhere a run ends legitimately
(`Run` returned, a process exited), so the cfg turns the check off and liveness properties stand
in its place.

### Fairness

Weak fairness of a goroutine's own steps: the Go runtime schedules runnable goroutines, timers
expire, a probe has a timeout, callbacks return (they must be "short and non-blocking"). Strong fairness where a step is
enabled again and again: `sync.Mutex` starves nobody (`VMGate!Lock`), and a `select` picks a ready
case at random (`Scheduler!Cancelled`, `Drain`). Nothing is assumed of the environment: no
process has to exit, no cancellation to come, no probe to succeed. In `Lifecycle`, `Closes` is fair because the
reaper sees every exit (`Reaper!DoneFollowsExit`), and the poller is a goroutine of its own. In `LogRotation`
the steps of the session are fair but for its stop, which asks that no system call blocks for ever.

## The proofs

`tlapm` checks every theorem for all values of the constants, under the assumptions each module
names (`ChainAssumption`, `GateAssumption`, `ReaperAssumption`, ...), which only type the constants:
sets of configurations, bounds that are naturals, distinct sentinels. No theorem has a hypothesis of its own: where the code
keeps a promise only to some, the property says to whom (`OneMode`, `GuardedOneshots`, `DistinctPids`), explained below.
A proof module defines an inductive invariant, proves that `Init` implies it and that every action keeps
it, and derives the theorems from it. The TLC runs check most of these properties on the instances above; the others are parts of the invariants.

| Theorem | Property | For every |
|---|---|---|
| `CoordinatorProofs!TypeCorrect`, `ActiveBalanced`, `ErrorReported`, `SkipsHaveReasons` | `TypeOK`, `ActiveCount`, `RunError`, `SkipJustified` | set of nodes, chain, interleaving |
| `CoordinatorOrderProofs!NeverEarly`, `SkipsSpread`, `ExecNotRefused`, `NobodyOrphaned`, `RunKeepsContract` | `NoEarlyStart`, `SkipCascades`, `InitThenExec`, `NoOrphan`, `ImplementsContract` | set of nodes, chain, interleaving |
| `VMGateProofs!ChainExclusive`, `InFlightCounts`, `NodesNeverRefused`, `NoneAdmittedLate`, `NoWaitInCircle`, `GateImplementsAccess` | `ChainExclusiveVM`, `InFlightCount`, `NodesAdmitted`, `AdmittedWhileParked`, `NobodyStuck`, `ImplementsAccess` | set of callers, blockers and routes |
| `ReaperProofs!HandleReportsOwnExit`, `NoExitForgotten`, `HandlesKeepContract` | `OwnExitDistinct`, `NothingForgotten`, `ImplementsProcess` | number of handles, probes, orphans |
| `LifecycleProofs!PolicyRespected`, `NothingLeftBehind`, `RotationFollows`, `LifecycleKeepsContract` | `RestartsBounded`, `NoStray`, `TargetLive`, `ImplementsContract` | configuration, number of starts |
| `ChainRulesProofs!AcceptedGraph`, `VerdictIsRight` | `CoordinatorInput`, `VerdictRight` | set of chains of any length |
| `LogRotationProofs!NoChangeLost`, `ChunksKept`, `ArchivesOrdered`, `RetentionRespected` | `WakeupKept`, `Kept`, `ArchiveOrder`, `RetentionKept` | set of logs, configuration, bounds |
| `SchedulerProofs!SlotReleased`, `ProcessEndsWithTick`, `TicksSpaced`, `NoLateAccept`, `ScheduleKeepsContract` | `SlotHeld`, `TickContained`, `Spaced`, `LateRefused`, `ImplementsSchedule` | job, period, interval, number of callers |

- *Coordinator.* `RunInv` reads a node's entry off the position of its goroutine. `Position` and `KindAt` say which
  states and which kinds of node can be where; `Ending`, that an outcome is recorded when the lifecycle is over and
  an entry is `exited` from `nodeExited` on; `Given`, that who has signalled has begun and was never skipped, and that a
  oneshot signals when its process has gone; `Errors`, that a fatal failure is in `errCh` before its goroutine is done
  and that the chain is cancelled with it; `Skips`, that whoever is skipped has a dependency that has exited. Each of
  `ActiveCount`, `RunError` and `SkipJustified` is one of those parts or follows from them, and none of the three is
  inductive alone: the balance of `active`, for one, needs to know that only a service, a oneshot or a tick is
  supervised where it is decremented.
- *The order of the chain.* "A node that began had all its edges signalled" says nothing of the counter that
  decides. `Inv` adds `Counts`: `pending[n]` is never above the number of edges of `n` not yet signalled in their own mode,
  and equals it if the edges of `n` agree on the mode of each dependency (`OneMode`); a signal lowers both by what it
  satisfies (`SignalStep`). The code decrements once per element of `dependents`, and `hasEdgeWaiting` answers for any of the
  edges. A dependency listed twice in one mode is therefore counted down twice by its one signal, as it should be; one listed in
  two modes is counted down twice by the first of its signals, and the node may start before other dependencies have
  signalled at all. Hence `OneMode(n)` in `NoEarlyStart`, `SkipCascades`, `InitThenExec` and the contract's `Start`: it is asked
  of the node at hand only, and the proofs show that such a node disturbs nobody else. `dependsOn` has
  one mode for all its names, so nodes written that way satisfy it; `dependsOnEdges` need not. `SkipsSpread` then
  follows from `Given`.
- *Nobody is orphaned.* `OrphanInv` adds what the exits leave behind: until the chain is cancelled a goroutine returns
  by `nodeExited` only (`Returned`), a routed exit leaves no dependent waiting (`Routed`), a waiting node's counter is
  above zero (`Waits`), nothing has happened yet while the goroutines are launched (`Launching`), and a oneshot that
  depends only on mandatory oneshots is neither skipped nor drained (`Guarded`). A counter above zero means an
  edge without its signal, as no counter is ever too high, so this holds of every node, whatever its modes. The condition of `NoOrphan`, `GuardedOneshots`, is the boundary of the finding of `stranded`.
- *Refinement of `ChainContract`.* The contract's variables are functions of the coordinator's state (`EdgeSets`, `Statuses`,
  `SignalSet`). The steps that signal, begin, skip, end, fail or cancel map to the contract's actions (`SignalMapped`, `RunNodeMapped`,
  `ExitMapped`); all others leave the three functions alone and stutter (`HiddenStep`).
- *Gate.* Exclusion needs who holds the entry lock (`Holders`), that `inFlight` counts whoever is
  between `enter` and `leave` (`Counted`), that `parkN` counts the script's park and that of the
  callback that blocks (`Parks`), and that node callbacks occur only inside `chain.run`
  (`NodesInChain`). That nobody waits in a circle adds that a lock that is taken has a holder
  who gives it back (`LockHeld`), and that a node's `Unpark` inside a callback is never the outermost one, which
  alone waits (`Inner`). It asks that no route blocks: a route whose callback parks may be the outermost to unpark,
  and then waits for its own `leave`. The refinement maps the script frame and the guest to `VMAccess`.
- *Reaper.* An exit is at one station at a time: the kernel's table, the reaper's hand (`InHand`), the
  cache (`Cached`), the handle's channel (`Sent`), its `code` (`Reported`). A subscriber is registered
  under its own pid (`Subscribed`). The stations need distinct pids (`Delivery`). `HandlesKeepContract` reads the contract's phase off the station
  (`Phase`): a step of one child moves one handle (`HandleMapped`), and leaves the others where they are (`OthersUnmoved`).
- *Lifecycle.* `Counting` ties `retries` to the number of handles, `Policy` says a retry was allowed,
  `Incarnations` that all handles but the last have exited, `Leftover` and `Signalled` what is true
  at each way out. `ContractStep` maps each action to a step or a stutter of `NodeContract`. The gate and the
  poller touch nothing that the other parts speak of (`AsideKeeps`).
- *Scheduler.* `Ended` ties `done` to the return, which `Late` needs; `Interval` carries the look at
  `MinInterval` from the loop to the tick; `OneProcess` says where the process must have exited. For `ScheduleContract`, `Early` says
  where a tick that was asked for in the initial delay may be: after it the node returns (`TickOver`), while after any
  other it goes back to the loop.
- *Chain rules.* That an accepted chain has no cycle is the correctness of the depth-first search. `Search`
  says: entries marked done wait only for done ones and not in a circle (`Acyclic`: in every non-empty
  subset somebody waits for nobody of it); the edges a pending call has passed lead to done entries; an
  entry marked "in" is on the stack. An entry whose edges all lead to done ones can join them (`JoinAcyclic`).
  No induction over the graph is needed, as `Acyclic` is stated over sets and not over paths.
- *The verdict.* `VerdictIsRight` is the other direction as well: who is refused deserves it. `SoundIff` says that the
  checks of the flat list hold exactly when the script's own tree is sound but for circles, one lemma per
  group of checks; it is where the inherited parent edge, the canonical edges and the rotation sections meet.
  `Path` says that the stack is a path of the graph, so that a back edge closes a circle (`BackEdgeCircle`), and `Progress`
  that the second `Normalized` finds a list that it leaves as it is (`FlatTwice`). The first attempt failed for a reason
  in the model: `RotationFits` compared with the two bad values TLC enumerates and not with the good ones.
- *No change is lost.* `WakeupKept` is inductive with the type of `due`: every step that takes an event arms the
  timer, and every step that disarms it leads to a pass. It says nothing of a change whose pass was skipped.
- *Log rotation.* The rest follows from one invariant, whose parts say: where the pass is and which log is at hand
  (`Position`); that `path.1` is the plain archive of this pass until its compressed copy is in place (`Archived`); what a
  copy, a tail or a compressed file in the making lacks (`Copies`); which file the process has open (`Open`); that
  higher numbers are older, and that all of `path.1` is younger than the rest while it is rewritten or still written
  to (`Order`, `Aged`, `Young`); that archives have no gap as long as nothing failed (`Dense`), which retention needs
  because it drops by number; that a chunk is in one log (`Separate`) and has been written (`Numbered`). `Safe` is
  `Kept` over the contents of the directory, and `TornInv` says who may tear a tail: a section `Oversized`, and only
  after a fault. `Kept` exempts what was written to `path.1` before the reopen, so it does not claim `ReopenLossless`,
  which fails. The operators of `Archives` have their own lemmas: what a shift, a rename, a copy,
  a removal do to names, contents, order and gaps.

TLC checked the larger invariants on the runs' instances before they were proved: `OrphanInv` on all chains of
`coordinator`, `VerdictInv` on all of `admission`, the invariant of log rotation on `rotation`.

### Only model-checked

- *Liveness* (fairness and ENABLED are outside the provers): `ShutdownReturns`, `DrainedLeaves`, `CallbackRuns`,
  `ResumeReturns` (their safety core, `NobodyStuck`, is proved), `DoneFollowsExit`, `NoZombieStays`, both `ShutdownEnds`, `CrashNoticed`, `FlagFollows`, `CrossingSeen`.
- *The contents of edited files*: `Converges` and `RegionsNested`. `FileOps` and `EditorScope` are folds and recursive
  definitions over files and programs, so both would need an induction over sequences; `Converges` compares
  whole starts with each other and is not claimed for every program (see below).
- *The violations*, which are single behaviours.

## What is not modelled, and why

- *Data*: paths, arguments, environment, log text, YAML/TOML and archive formats. They do not decide
  which step comes next, except by failing, and failing is a branch of `StartFails` or `SetupFails`.
- *Callback-only keepalive nodes* appear with a process that never exits by itself; their missing pid
  matters only to `Kill`, where it is modelled (`KillWithoutProcess`, with the handles whose start is to come or was refused).
- *Probes*: what a TCP, HTTP or exec check does is a system call; the models have its outcome, its timeout, and
  the race of an exec probe with the reaper. `Any` and `All` are folds over such outcomes.
- *The flag of several nodes*: `Lifecycle` has one node, so the interplay of two nodes that both set `Health` is not in it.
- *Captured-log writer*: only its close against the copying goroutine (`Reaper`). Its rotation is `Archives` under a
  mutex; when a step of it fails, `w.f` stays nil and every later write fails, which ends the capture.
- *Editors*: ownership, modes, environment-to-file and templates of `file.go`; the deprecated functions of `editor.go`.
- *Config formats, archive, fs, net, crypto modules, script bindings*: sequential calls of the standard library without
  state of their own; a model would restate them.
- *The module loader and value conversion* of the script engine: sequential, inside the VM the gate guards.
- *The kernel* is modelled as far as `wait4`, pids and pipes go; process groups only by their leader.
- *Main, terminal, license, SBOM*: wiring and read-only data.

## Where comments and code differ

Four runs show one each (`stranded`, `vm_overlap`, `reopen`, `never_due`); the findings in `PROJECT.json` quote both
sides. The others below were met while modelling; where a property is named, it is defined in the module
and can be checked there, but no run does.

Processes and lifecycles:

- *A stale exit* (`Reaper!OwnExit`). `pending` caches the exit of every child nobody subscribed to, and is never trimmed
  (`reaper.go:127`): an orphan exits with 0 and is cached, a new process gets its pid, `Register` takes the cached
  exit, and the handle reports 0 for a process that runs.
- *Lost output* (`Reaper!OutputComplete`). The handle closes `done` when the exit comes (`process.go:173`), while os/exec's
  goroutine still copies: `Output` read after `Wait` may lack the end.
- *The forwarder* (`Lifecycle!ForwardLive`) is started with the first pid (`service.go:698`); after a restart
  `forwardSignals` go to a process group that is gone, although domain/process_chain.go:105-109 says that they go to
  the child's group.
- *An exec probe* may lose its child to the reaper (`probe.go:114`): the command exits 0, the probe reports an error,
  which domain/lifecycle.go:12 does not foresee.
- *Readiness does not gate*: `signalReady` follows a gate that failed as well (`service.go:748`), so `needParentReady`
  (domain/process_chain.go:60) only waits for the gate to end. A readinessFunc with a limit is not called "until it
  returns true or ctx is cancelled" (`service.go:891`); one without is called for ever for a dead process.
  `Health` without any probe and gate leaves `/readyz` false for ever (`service.go:951`). When a lifecycle returns, its flag stays.
- *onStdout* lines of `process.run` are offered to a gate that is closed by then (`internal/script/process.go:306`).
- *A second close of `done`* panics and ends the program, which is where the model ends. A failed start closes it without
  `doneClosed` (`process.go:160`), so a later `Kill` closes it again; after a `Kill` before the start, the start's exit does
  (`process.go:215`). The orchestrator kills only what it has started (`service.go:1334`); a script's `kill()`
  (`internal/script/process.go:126`) may come at any time. `KillWithoutProcess` has the kill, not what may follow it.

Coordinator and scheduler:

- *Exec*: the guard reads `active` and calls `execve` later (`service.go:606`); an exec node with `Scheduler` is to be
  refused (domain/process_chain.go:102), but the exec comes first (`service.go:627`) and the refusal at 642 is not reached.
- *Two wait modes for one dependency* (`Coordinator!EveryEdgeWaits`, on `MCCoordinator!MixedChains`): README.md:45 says "each edge independently
  chooses" its mode, but the dependent is listed once per edge (`service.go:277`) and `hasEdgeWaiting` answers for any of them
  (`service.go:431`), so one signal decrements `pending` twice and the node starts before the dependency is ready. A child
  of the tree form that names its parent in `dependsOnEdges` in another mode than the tree's gets such a pair from
  `Normalized` itself (domain/process_chain.go:215-221).
- *An exit edge* is satisfied by a skipped dependency (`service.go:371`).
- *Children* of an entry of `Nodes` are dropped without an error (domain/process_chain.go:202), although line 190 there says
  that they are flattened.
- *A trigger in the initial delay* (`Scheduler!BlocksUntilCancelled`): the result of that tick is returned from
  `runScheduled` (`service.go:1171`), so the node ends after one tick and is never scheduled again.
- *MinInterval* counts from the end of a tick: a job due every minute misses every second due time (`service.go:1193`).
- *Cron*: day of month and weekday are both required (cron.go:152), where standard cron asks for either.

Files:

- *A skipped pass* (`LogRotation!CrossingSeen`). In signal mode a pass returns at once while the process is down
  (`engine.go:198-205`). What it was made for is not made up: a log past its limit waits for the next write or poll,
  although logrotate.go:3 ("rotates a file when a write pushes it past its threshold") has no such condition.
- *SetBlock* is called idempotent (file.go:634), but without its marker in the file it appends to what is on disk
  (`file.go:692`), not to what it has just cut: each start adds the block (`Bootstrap!SetBlockIdempotent`).
- *Nested blocks* that end with the same line: the outer handle finds the inner one's end (`editor_scope.go:134`), and `reset`
  leaves a closing line without an opening one (`Bootstrap!BlocksBalanced`). A name opened under two parents is found once.
- *A fragment* that is inserted again without its anchor moves to the end of its scope (`editor_scope.go:435`), so a second
  start may order lines differently; the lines are the same (`Converges`).
- *Atomicity*: `os.WriteFile` is not atomic (against `editor_scope.go:40`), and a `CreateOnly` rule skips the cut file
  for ever (`file.go:58`).

## The plan

Done: the coordinator, the gate, processes and reaper, the lifecycle with its readiness, the scheduler, their
contracts, the chain rules, log rotation, file editing, cron, and the proofs above, which state every safety
property and all five refinements that the provers can reach. What is left, in order:

1. `CapturedLog`: the writer of `system/logging.go` on `Archives`, with failing renames, and its reader. The lemmas
   about `Shifted`, `Renamed` and `Excess` in `LogRotationProofs` are about `Archives` and would serve it as well.
2. `ScriptHandle`: the handle scripts hold, with its cancellation watcher and timeout watchdog, `kill` and `wait` from
   several callers.
3. Two nodes that share the health flag, as a composition of two lifecycles.
4. `NobodyStranded` without its condition, once the code routes the skip of a oneshot.
