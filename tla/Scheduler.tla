----------------------------- MODULE Scheduler -----------------------------
(***************************************************************************)
(* A scheduled node: the loop of runScheduled, the tick of runTick         *)
(* (orchestrator/service.go) and the Trigger through which scripts and     *)
(* HTTP routes ask for a tick (domain/scheduler.go, Service.Trigger).      *)
(*                                                                         *)
(* Time is a counter the environment advances between any two steps.  The  *)
(* cron expression is one that is due at every multiple of Period.         *)
(***************************************************************************)
EXTENDS Integers

CONSTANTS
  Jobs,         \* the scheduled nodes that are run
  Firers,       \* the goroutines that call Service.Trigger
  Period,       \* the distance of two due times
  MinInterval,  \* SchedulerConfig.MinInterval
  InitialDelay, \* SchedulerConfig.InitialDelay
  MaxTime,      \* bound on the clock
  MaxRetries    \* RestartPolicy.MaxRetries

(* tick: a callback (scheduler.every) or a process; gated: a Gate probe is *)
(* set; patience = "forever" is a negative shutdown timeout.               *)
Job == [tick : {"callback", "process"}, gated : BOOLEAN,
        restart : {"none", "never", "always", "on-failure"},
        patience : {"timeout", "forever"}, forceKill : BOOLEAN]

ASSUME SchedulerAssumption ==
  /\ Jobs \subseteq Job
  /\ Period \in Nat \ {0} /\ MinInterval \in Nat \ {0}
  /\ InitialDelay \in Nat /\ MaxTime \in Nat /\ MaxRetries \in Nat \ {0}

VARIABLES
  job,         \* the node; never changes
  clock,       \* the time
  ctxDone,     \* the node's context is cancelled
  pc,          \* the position of the node's goroutine
  when,        \* the next due time
  lastRun,     \* when the last tick ended
  early,       \* the tick was triggered during the initial delay
  inflight,    \* Trigger.inflight: the slot is taken
  fire,        \* Trigger.fire: a request is queued
  done,        \* Trigger.done is closed
  registered,  \* Service.triggers has the node's trigger
  active,      \* what the node adds to Service.active
  proc,        \* the tick's process: "none", "running", "killed", "exited"
  code,        \* its exit code
  retries,     \* runTick's retries
  result,      \* what the lifecycle returned
  firer,       \* the position of each call of Service.Trigger
  late         \* that call began when the node had returned

loop == <<pc, when, lastRun, early>>
trigger == <<inflight, fire, done, registered>>
tick == <<active, proc, code, retries>>
calls == <<firer, late>>
vars == <<job, clock, ctxDone, loop, trigger, tick, result, calls>>

Init ==
  /\ job \in Jobs
  /\ clock = 0 /\ ctxDone = FALSE
  /\ pc = "delay" /\ when = 0 /\ early = FALSE
  /\ lastRun = -MinInterval     \* the zero time: long ago
  /\ inflight = FALSE /\ fire = FALSE /\ done = FALSE /\ registered = TRUE
  /\ active = 0 /\ proc = "none" /\ code = 0 /\ retries = 0
  /\ result = "none"
  /\ firer = [f \in Firers |-> "idle"]
  /\ late = [f \in Firers |-> FALSE]

----------------------------------------------------------------------------
(* The environment                                                         *)

Advance ==
  /\ clock < MaxTime
  /\ clock' = clock + 1
  /\ UNCHANGED <<job, ctxDone, loop, trigger, tick, result, calls>>

Cancel ==
  /\ ~ctxDone
  /\ ctxDone' = TRUE
  /\ UNCHANGED <<job, clock, loop, trigger, tick, result, calls>>

ProcExits ==
  /\ proc \in {"running", "killed"}
  /\ proc' = "exited"
  /\ \E c \in IF proc = "killed" THEN {1} ELSE {0, 1} : code' = c
  /\ UNCHANGED <<job, clock, ctxDone, loop, trigger, active, retries, result, calls>>

----------------------------------------------------------------------------
(* Service.Trigger and Trigger.Fire                                        *)

At(f, l) == firer' = [firer EXCEPT ![f] = l]

(* The lookup of the trigger, under Service.mu. *)
LookUp(f) ==
  /\ firer[f] = "idle"
  /\ late' = [late EXCEPT ![f] = result # "none"]
  /\ At(f, IF registered THEN "found" ELSE "refused")
  /\ UNCHANGED <<job, clock, ctxDone, loop, trigger, tick, result>>

(* Mutant: Fire does not look at done. *)
LookAtNothing(f) ==
  /\ firer[f] = "found"
  /\ At(f, "live")
  /\ UNCHANGED <<job, clock, ctxDone, loop, trigger, tick, result, late>>

LookAtDone(f) ==
  /\ firer[f] = "found"
  /\ At(f, IF done THEN "refused" ELSE "live")
  /\ UNCHANGED <<job, clock, ctxDone, loop, trigger, tick, result, late>>

LookAtSlot(f) ==
  /\ firer[f] = "live"
  /\ At(f, IF inflight THEN "refused" ELSE "free")
  /\ UNCHANGED <<job, clock, ctxDone, loop, trigger, tick, result, late>>

(* The send on a channel with room for one request. *)
Queue(f) ==
  /\ firer[f] = "free"
  /\ fire' = TRUE
  /\ At(f, IF fire THEN "refused" ELSE "accepted")
  /\ UNCHANGED <<job, clock, ctxDone, loop, inflight, done, registered, tick, result, late>>

(* The answer is returned; the caller may call again. *)
Answer(f) ==
  /\ firer[f] \in {"refused", "accepted"}
  /\ At(f, "idle")
  /\ UNCHANGED <<job, clock, ctxDone, loop, trigger, tick, result, late>>

----------------------------------------------------------------------------
(* runScheduled                                                            *)

(* The return; of its deferred calls, close(done) comes first. *)
Return(r) == pc' = "returned" /\ result' = r /\ done' = TRUE

Goto(l) == pc' = l /\ UNCHANGED <<done, result>>

Unregister ==
  /\ pc = "returned" /\ registered
  /\ registered' = FALSE
  /\ UNCHANGED <<job, clock, ctxDone, loop, inflight, fire, done, tick, result, calls>>

DelayEnds ==
  /\ pc = "delay" /\ clock >= InitialDelay
  /\ Goto("evaluate")
  /\ UNCHANGED <<job, clock, ctxDone, when, lastRun, early, inflight, fire, registered, tick, calls>>

(* A request during the delay: its tick is the last thing the node does. *)
DelayTriggered ==
  /\ pc = "delay" /\ fire
  /\ fire' = FALSE
  /\ early' = TRUE
  /\ Goto("gate")
  /\ UNCHANGED <<job, clock, ctxDone, when, lastRun, inflight, registered, tick, calls>>

Evaluate ==
  /\ pc = "evaluate"
  /\ when' = Period * (clock \div Period + 1)
  /\ Goto("wait")
  /\ UNCHANGED <<job, clock, ctxDone, lastRun, early, inflight, fire, registered, tick, calls>>

Cancelled ==
  /\ pc \in {"delay", "wait"} /\ ctxDone
  /\ Return("nil")
  /\ UNCHANGED <<job, clock, ctxDone, when, lastRun, early, inflight, fire, registered, tick, calls>>

(* Mutant: the window since the last tick is not looked at. *)
NotTooSoon == Goto("gate")

(* A tick within MinInterval of the last one is skipped. *)
UnlessTooSoon == Goto(IF clock - lastRun < MinInterval THEN "evaluate" ELSE "gate")

(* The timer fired: before the due time (the clocks differ), or at it. *)
TimerFires ==
  /\ pc = "wait"
  /\ IF clock < when THEN Goto("evaluate") ELSE UnlessTooSoon
  /\ UNCHANGED <<job, clock, ctxDone, when, lastRun, early, inflight, fire, registered, tick, calls>>

Triggered ==
  /\ pc = "wait" /\ fire
  /\ fire' = FALSE
  /\ UnlessTooSoon
  /\ UNCHANGED <<job, clock, ctxDone, when, lastRun, early, inflight, registered, tick, calls>>

----------------------------------------------------------------------------
(* runTick                                                                 *)

(* Mutant: the loop ends with a tick, as the initial delay does. *)
TickIsLast(r) == Return(r) /\ UNCHANGED lastRun

(* What runScheduled does with the error of runTick. *)
TickReturns(r) ==
  IF early \/ r # "nil" THEN Return(r) /\ UNCHANGED lastRun
  ELSE Goto("evaluate") /\ lastRun' = clock

(* Mutant: the slot is not released. *)
OverHeld(r) ==
  /\ TickReturns(r)
  /\ active' = 0
  /\ UNCHANGED inflight

(* The deferred endActive and Release. *)
Over(r) ==
  /\ TickReturns(r)
  /\ active' = 0
  /\ inflight' = FALSE

(* The gate's probe fails: no tick, though lastRun is set as after one. *)
GateFails ==
  /\ pc = "gate" /\ job.gated
  /\ TickReturns("nil")
  /\ UNCHANGED <<job, clock, ctxDone, when, early, inflight, fire, registered, tick, calls>>

GatePasses ==
  /\ pc = "gate"
  /\ Goto("acquire")
  /\ UNCHANGED <<job, clock, ctxDone, when, lastRun, early, inflight, fire, registered, tick, calls>>

(* Acquire and beginActive.  The slot is free: nobody else acquires it.   *)
TickBegins ==
  /\ pc = "acquire" /\ ~inflight
  /\ inflight' = TRUE
  /\ active' = 1
  /\ retries' = 0
  /\ proc' = "none"
  /\ Goto(job.tick)
  /\ UNCHANGED <<job, clock, ctxDone, when, lastRun, early, fire, registered, code, calls>>

CallbackReturns ==
  /\ pc = "callback"
  /\ Over("nil")
  /\ UNCHANGED <<job, clock, ctxDone, when, early, fire, registered, proc, code, retries, calls>>

Start ==
  /\ pc = "process"
  /\ proc' = "running"
  /\ Goto("select")
  /\ UNCHANGED <<job, clock, ctxDone, when, lastRun, early, inflight, fire, registered, active, code, retries, calls>>

StartFails ==
  /\ pc = "process"
  /\ Over("error")
  /\ UNCHANGED <<job, clock, ctxDone, when, early, fire, registered, proc, code, retries, calls>>

(* Mutant: a cancelled tick is left to itself. *)
LeaveUndrained ==
  /\ pc = "select" /\ ctxDone
  /\ Over("nil")
  /\ UNCHANGED <<job, clock, ctxDone, when, early, fire, registered, proc, code, retries, calls>>

(* drain: the shutdown signal is sent. *)
Drain ==
  /\ pc = "select" /\ ctxDone
  /\ Goto("draining")
  /\ UNCHANGED <<job, clock, ctxDone, when, lastRun, early, inflight, fire, registered, tick, calls>>

(* shouldRestart and the limit of the restart policy. *)
Restarts ==
  /\ job.restart = "always" \/ (job.restart = "on-failure" /\ code # 0)
  /\ retries < MaxRetries

(* The process is done.  Its exit code is not reported: Wait's error is nil*)
(* whatever the code.                                                      *)
TickExits ==
  /\ pc = "select" /\ proc = "exited"
  /\ IF Restarts
     THEN /\ retries' = retries + 1
          /\ Goto("backoff")
          /\ UNCHANGED <<lastRun, inflight, active>>
     ELSE Over("nil") /\ UNCHANGED retries
  /\ UNCHANGED <<job, clock, ctxDone, when, early, fire, registered, proc, code, calls>>

BackoffEnds ==
  /\ pc = "backoff"
  /\ Goto("process")
  /\ UNCHANGED <<job, clock, ctxDone, when, lastRun, early, inflight, fire, registered, tick, calls>>

(* The backoff returns ctx.Err(). *)
BackoffCancelled ==
  /\ pc = "backoff" /\ ctxDone
  /\ Over("error")
  /\ UNCHANGED <<job, clock, ctxDone, when, early, fire, registered, proc, code, retries, calls>>

DrainDone ==
  /\ pc = "draining" /\ proc = "exited"
  /\ Over("nil")
  /\ UNCHANGED <<job, clock, ctxDone, when, early, fire, registered, proc, code, retries, calls>>

(* Mutant: the drain has no timeout. *)
DrainNever ==
  /\ pc = "draining" /\ job.patience = "timeout" /\ proc = "exited"
  /\ Over("nil")
  /\ UNCHANGED <<job, clock, ctxDone, when, early, fire, registered, proc, code, retries, calls>>

(* Kill of a process that has exited is an error. *)
DrainTimesOut ==
  /\ pc = "draining" /\ job.patience = "timeout"
  /\ proc' = IF job.forceKill /\ proc = "running" THEN "killed" ELSE proc
  /\ Over(IF job.forceKill /\ proc = "exited" THEN "error" ELSE "nil")
  /\ UNCHANGED <<job, clock, ctxDone, when, early, fire, registered, code, retries, calls>>

----------------------------------------------------------------------------
TickStep ==
  \/ GateFails \/ GatePasses \/ TickBegins \/ CallbackReturns \/ Start \/ StartFails
  \/ Drain \/ TickExits \/ BackoffEnds \/ BackoffCancelled \/ DrainDone \/ DrainTimesOut

LoopStep == DelayEnds \/ DelayTriggered \/ Evaluate \/ TimerFires \/ Triggered \/ Unregister

FireStep(f) == LookUp(f) \/ LookAtDone(f) \/ LookAtSlot(f) \/ Queue(f) \/ Answer(f)

Next ==
  \/ Advance \/ Cancel \/ ProcExits
  \/ TickStep \/ LoopStep \/ Cancelled
  \/ \E f \in Firers : FireStep(f)

Spec == Init /\ [][Next]_vars

(* The node's goroutine proceeds, a callback returns (it is short by       *)
(* contract), and a select whose context is done picks that case in the    *)
(* end.  No process has to exit.                                           *)
FairSpec ==
  /\ Spec
  /\ WF_vars(TickStep) /\ WF_vars(LoopStep)
  /\ SF_vars(Cancelled) /\ SF_vars(Drain)

----------------------------------------------------------------------------
Ticking == pc \in {"callback", "process", "select", "backoff", "draining"}

(* Type correctness. *)
TypeOK ==
  /\ job \in Jobs
  /\ clock \in 0..MaxTime /\ ctxDone \in BOOLEAN
  /\ pc \in {"delay", "evaluate", "wait", "gate", "acquire", "callback", "process",
             "select", "backoff", "draining", "returned"}
  /\ when \in Nat /\ lastRun \in -MinInterval..MaxTime /\ early \in BOOLEAN
  /\ inflight \in BOOLEAN /\ fire \in BOOLEAN /\ done \in BOOLEAN /\ registered \in BOOLEAN
  /\ active \in {0, 1} /\ proc \in {"none", "running", "killed", "exited"}
  /\ code \in {0, 1} /\ retries \in 0..MaxRetries
  /\ result \in {"none", "nil", "error"}
  /\ firer \in [Firers -> {"idle", "found", "live", "free", "refused", "accepted"}]
  /\ late \in [Firers -> BOOLEAN]

(* The slot that makes triggers be dropped, and the count that keeps exec  *)
(* nodes away, are held exactly while a tick runs, however it ends.        *)
SlotHeld == (inflight <=> Ticking) /\ (active = 1 <=> Ticking)

(* No process outlives its tick, but for a drain without forceKill.        *)
TickContained ==
  proc = "running" => Ticking \/ (job.patience = "timeout" /\ ~job.forceKill)

(* No tick begins within MinInterval of the end of the one before, whoever *)
(* asks for it.                                                            *)
Spaced ==
  [][pc = "acquire" /\ Ticking' => clock - lastRun >= MinInterval]_vars

(* A Trigger call that begins when the node has returned is refused: while *)
(* the trigger is still registered, done says so.                          *)
LateRefused == \A f \in Firers : late[f] => firer[f] # "accepted"

(* A cancelled scheduler returns, in whatever phase it is, when its        *)
(* shutdown has a timeout.                                                 *)
ShutdownEnds == ctxDone /\ job.patience = "timeout" ~> result # "none"

----------------------------------------------------------------------------
(* A scheduled node implements what the coordinator assumes of it.         *)

Phase ==
  CASE pc = "delay" \/ (pc \in {"gate", "acquire"} /\ early) -> "delay"
    [] Ticking -> IF early THEN "lasttick" ELSE "tick"
    [] pc = "returned" -> "over"
    [] OTHER -> "idle"

Contract == INSTANCE ScheduleContract WITH
  phase <- Phase, active <- active, outcome <- result, cancelled <- ctxDone

(* However timers, triggers, gates, restarts and drains meet, the node is  *)
(* to the chain a loop of ticks that counts itself in and out and ends     *)
(* when it is cancelled, by an error, or after an early tick.              *)
ImplementsSchedule == Contract!Spec

----------------------------------------------------------------------------
(* What comments in the source say and the code does not keep: no run     *)
(* checks it; the README has the traces.                                   *)

(* The scheduler ends without error only when it is cancelled: runScheduled*)
(* "blocks until ctx is cancelled".                                        *)
BlocksUntilCancelled == result = "nil" => ctxDone
=============================================================================
