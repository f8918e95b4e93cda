----------------------------- MODULE Lifecycle -----------------------------
(***************************************************************************)
(* The lifecycle of one supervised or oneshot node: runSingleNode,         *)
(* supervise, runOneshot and drain of orchestrator/service.go, with the    *)
(* processes the node starts one after the other (its incarnations), the   *)
(* signal forwarder and the log rotator that follow them.                  *)
(*                                                                         *)
(* After the start comes the readiness gate, a probe (probe.go) or the     *)
(* node's readinessFunc, and beside it a goroutine that polls the probe for*)
(* the health service (health/service.go).                                 *)
(*                                                                         *)
(* A process handle appears through its Done channel; Reaper.tla models    *)
(* what is behind it.                                                      *)
(***************************************************************************)
EXTENDS Integers

CONSTANTS
  Configs,    \* the nodes that are run
  MaxStarts   \* bound: the backoff after so many starts never ends

(* kind; restart policy, "none" when the node has none; maxRetries, where 0*)
(* is "no limit" for a service and "no retry" for a oneshot; binary = FALSE*)
(* is a callback-only node; patience = "forever" is a negative shutdown    *)
(* timeout; forward: the signals to forward; rotate: logRotate is set.     *)
(* gate: what readiness waits for; attempts: the limit of its tries, 0 for *)
(* none; health: Health is set, "polled" if there is a probe to poll too.  *)
NodeConfig ==
  [kind : {"service", "oneshot"},
   restart : {"none", "never", "always", "on-failure"}, maxRetries : Nat,
   binary : BOOLEAN, patience : {"timeout", "forever"}, forceKill : BOOLEAN,
   forward : {"none", "valid", "invalid"}, rotate : BOOLEAN,
   gate : {"none", "probe", "func"}, attempts : Nat, health : {"none", "flag", "polled"}]

(* Validation refuses a gate or health on a oneshot; a probe is tried once *)
(* at least, and is what Health polls when it has none of its own.         *)
ASSUME LifecycleAssumption ==
  /\ Configs \subseteq NodeConfig /\ MaxStarts \in Nat \ {0}
  /\ \A c \in Configs :
       /\ c.kind = "oneshot" => c.gate = "none" /\ c.health = "none"
       /\ c.gate = "probe" => c.attempts > 0 /\ c.health # "flag"

Ids == 1..MaxStarts

VARIABLES
  cfg,       \* the node; never changes
  pc,        \* the position of the node's goroutine
  ctxDone,   \* the node's context is cancelled
  gen,       \* the handle in use: the number of processes started
  proc,      \* each process: "dead" has exited, "exited" closed its done too
  code,      \* each process's exit code
  retries,   \* supervise's and runOneshot's retries
  target,    \* liveTarget: the process rotation signals, 0 for none
  pgid,      \* the process whose group the forwarder signals, 0 for none
  signals,   \* the signals given to the coordinator
  failure,   \* the error of the onStart the drain answers to
  result,    \* what the lifecycle returned
  up,        \* the process would pass its probe or readinessFunc
  attempt,   \* the failed tries of the readiness gate
  ready,     \* the flag of the health service
  poller     \* the position of pollReadiness, or the verdict it is to set

vars == <<cfg, pc, ctxDone, gen, proc, code, retries, target, pgid, signals, failure, result,
          up, attempt, ready, poller>>
readiness == <<up, attempt, ready, poller>>
handle == <<gen, proc, code>>
helpers == <<target, pgid>>

Service == cfg.kind = "service"

Init ==
  /\ cfg \in Configs
  /\ pc = "start"
  /\ ctxDone = FALSE
  /\ gen = 0
  /\ proc = [i \in Ids |-> "none"]
  /\ code = [i \in Ids |-> 0]
  /\ retries = 0
  /\ target = 0 /\ pgid = 0
  /\ signals = {}
  /\ failure = "nil"
  /\ result = "none"
  /\ up = FALSE /\ attempt = 0 /\ ready = FALSE /\ poller = "off"

(* The return, with the deferred stop of the forwarder. *)
Return(r) == pc' = "returned" /\ result' = r /\ pgid' = 0

Goto(l) == pc' = l /\ UNCHANGED <<result, pgid>>

----------------------------------------------------------------------------
(* The environment                                                         *)

Cancel ==
  /\ ~ctxDone
  /\ ctxDone' = TRUE
  /\ UNCHANGED <<cfg, pc, handle, retries, helpers, signals, failure, result, readiness>>

(* The process exits, by itself or by a signal; SIGKILL leaves a code that *)
(* is not 0.                                                               *)
Exits ==
  /\ gen > 0 /\ cfg.binary /\ proc[gen] \in {"running", "killed"}
  /\ proc' = [proc EXCEPT ![gen] = "dead"]
  /\ \E c \in IF proc[gen] = "killed" THEN {1} ELSE {0, 1} :
       code' = [code EXCEPT ![gen] = c]
  /\ up' = FALSE
  /\ UNCHANGED <<cfg, pc, ctxDone, gen, retries, helpers, signals, failure, result, attempt,
                 ready, poller>>

(* The handle's goroutine closes done. *)
Closes ==
  /\ gen > 0 /\ proc[gen] = "dead"
  /\ proc' = [proc EXCEPT ![gen] = "exited"]
  /\ UNCHANGED <<cfg, pc, ctxDone, gen, code, retries, helpers, signals, failure, result, readiness>>

Done == proc[gen] = "exited"

Probed == cfg.gate # "none" \/ cfg.health = "polled"

(* The process begins to serve, or hangs, whenever it likes. *)
Serves ==
  /\ Probed /\ ~up /\ gen > 0 /\ proc[gen] = "running"
  /\ up' = TRUE
  /\ UNCHANGED <<cfg, pc, ctxDone, handle, retries, helpers, signals, failure, result, attempt,
                 ready, poller>>

Hangs ==
  /\ up
  /\ up' = FALSE
  /\ UNCHANGED <<cfg, pc, ctxDone, handle, retries, helpers, signals, failure, result, attempt,
                 ready, poller>>

----------------------------------------------------------------------------
(* A new handle is started; a callback-only oneshot is done at once. *)
Spawn ==
  /\ gen' = gen + 1
  /\ proc' = [proc EXCEPT ![gen + 1] =
                IF cfg.binary \/ Service THEN "running" ELSE "exited"]
  /\ UNCHANGED code

Start ==
  /\ pc = "start"
  /\ Spawn
  /\ Goto("onStart")
  /\ UNCHANGED <<cfg, ctxDone, retries, target, signals, failure, readiness>>

(* Provisioning, the arguments, or Start fails, at first or on a restart. *)
StartFails ==
  /\ pc \in {"start", "restart"}
  /\ Return("error")
  /\ UNCHANGED <<cfg, ctxDone, handle, retries, target, signals, failure, readiness>>

(* Mutant: a oneshot signals started as a service does. *)
StartedAlways ==
  /\ pc = "onStart"
  /\ signals' = signals \cup {"started"}
  /\ target' = IF Service /\ cfg.rotate THEN gen ELSE 0
  /\ Goto(IF Service THEN "forward" ELSE "select")
  /\ UNCHANGED <<cfg, ctxDone, handle, retries, failure, readiness>>

(* onStart returned: a service signals started and starts its rotator. *)
Started ==
  /\ pc = "onStart"
  /\ IF Service
     THEN /\ signals' = signals \cup {"started"}
          /\ target' = IF cfg.rotate THEN gen ELSE 0
          /\ Goto("forward")
     ELSE Goto("select") /\ UNCHANGED <<signals, target>>
  /\ UNCHANGED <<cfg, ctxDone, handle, retries, failure, readiness>>

(* Mutant: a service whose onStart throws is not drained. *)
ThrowWithoutDrain ==
  /\ pc = "onStart"
  /\ failure' = "error"
  /\ Return("error")
  /\ UNCHANGED <<cfg, ctxDone, handle, retries, target, signals, readiness>>

(* onStart threw: a service drains its process, a oneshot leaves it. *)
OnStartThrows ==
  /\ pc = "onStart"
  /\ failure' = "error"
  /\ IF Service THEN Goto("drain") ELSE Return("error")
  /\ UNCHANGED <<cfg, ctxDone, handle, retries, target, signals, readiness>>

(* The forward signals are resolved and the forwarder started on the pid. *)
Forward ==
  /\ pc = "forward"
  /\ IF cfg.forward = "invalid" THEN Return("error")
     ELSE /\ pgid' = IF cfg.forward = "valid" THEN gen ELSE 0
          /\ pc' = "readiness"
          /\ UNCHANGED result
  /\ UNCHANGED <<cfg, ctxDone, handle, retries, target, signals, failure, readiness>>

----------------------------------------------------------------------------
(* The readiness gate                                                      *)

InGate == UNCHANGED <<cfg, ctxDone, handle, retries, target, signals, failure, up>>

(* The health flag is reset and its poller started; a node without a gate  *)
(* is ready at once, whatever the flag says.                               *)
BeginReadiness ==
  /\ pc = "readiness"
  /\ attempt' = 0
  /\ ready' = (ready /\ cfg.health = "none")
  /\ poller' = IF cfg.health = "polled" THEN "sleep" ELSE poller
  /\ Goto(IF cfg.gate = "none" THEN "announce" ELSE "attempt")
  /\ InGate

(* A call of readinessFunc is not made once the context is done. *)
CallRefused == cfg.gate = "func" /\ ctxDone

AttemptPasses ==
  /\ pc = "attempt" /\ up /\ ~CallRefused
  /\ Goto("passed")
  /\ InGate /\ UNCHANGED <<attempt, ready, poller>>

(* Check tries a probe once before the attempts that are counted. *)
LastAttempt == cfg.gate = "probe" /\ attempt' = cfg.attempts + 1

(* A try fails for its timeout, for the gate of the script engine, or      *)
(* because the process is not up.                                          *)
AttemptFails ==
  /\ pc = "attempt" /\ ~CallRefused
  /\ attempt' = IF cfg.attempts = 0 THEN 0 ELSE attempt + 1
  /\ Goto(IF LastAttempt THEN "missed"
          ELSE IF cfg.gate = "probe" /\ attempt' = 1 THEN "attempt" ELSE "interval")
  /\ InGate /\ UNCHANGED <<ready, poller>>

(* Mutant: the tries are counted anew after each interval. *)
IntervalForgets ==
  /\ pc = "interval"
  /\ Goto("attempt")
  /\ attempt' = 0
  /\ InGate /\ UNCHANGED <<ready, poller>>

(* The interval comes after the last call of readinessFunc too. *)
IntervalEnds ==
  /\ pc = "interval"
  /\ Goto(IF cfg.gate = "func" /\ cfg.attempts > 0 /\ attempt = cfg.attempts
          THEN "missed" ELSE "attempt")
  /\ InGate /\ UNCHANGED <<attempt, ready, poller>>

GateCancelled ==
  /\ ctxDone /\ (pc = "interval" \/ (pc = "attempt" /\ cfg.gate = "func"))
  /\ Goto("missed")
  /\ InGate /\ UNCHANGED <<attempt, ready, poller>>

(* The verdict goes to the health service; onReady is called if it is good.*)
ReportReadiness ==
  /\ pc \in {"passed", "missed"}
  /\ ready' = IF cfg.health = "none" THEN ready ELSE pc = "passed"
  /\ Goto("announce")
  /\ InGate /\ UNCHANGED <<attempt, poller>>

(* The readiness phase is over: it passed, failed or was cancelled. *)
Ready ==
  /\ pc = "announce"
  /\ signals' = signals \cup {"ready"}
  /\ Goto("select")
  /\ UNCHANGED <<cfg, ctxDone, handle, retries, target, failure, readiness>>

----------------------------------------------------------------------------
(* pollReadiness, a goroutine of its own until the lifecycle returns.      *)

Polls == UNCHANGED <<cfg, pc, ctxDone, handle, retries, helpers, signals, failure, result, up,
                     attempt>>

PollStops ==
  /\ poller = "sleep" /\ (ctxDone \/ result # "none")
  /\ poller' = "stopped"
  /\ Polls /\ UNCHANGED ready

PollChecks ==
  /\ poller = "sleep"
  /\ poller' = "down" \/ (up /\ poller' = "up")
  /\ Polls /\ UNCHANGED ready

(* Mutant: the poller is done when the probe has passed once. *)
PollSetsOnce ==
  /\ poller \in {"up", "down"}
  /\ ready' = (poller = "up")
  /\ poller' = IF poller = "up" THEN "stopped" ELSE "sleep"
  /\ Polls

(* The verdict of a probe is set some time after the probe. *)
PollSets ==
  /\ poller \in {"up", "down"}
  /\ ready' = (poller = "up")
  /\ poller' = "sleep"
  /\ Polls

----------------------------------------------------------------------------
(* The loops of supervise and runOneshot.  Go picks either case of a select*)
(* when both are ready.                                                    *)

SelectCtx ==
  /\ pc = "select" /\ ctxDone
  /\ Goto("drain")
  /\ UNCHANGED <<cfg, ctxDone, handle, retries, target, signals, failure, readiness>>

SelectDone ==
  /\ pc = "select" /\ Done
  /\ Goto("exited")
  /\ UNCHANGED <<cfg, ctxDone, handle, retries, target, signals, failure, readiness>>

(* onExit threw: a service goes on (no step), a oneshot fails. *)
OnExitThrows ==
  /\ pc = "exited" /\ ~Service
  /\ Return("error")
  /\ UNCHANGED <<cfg, ctxDone, handle, retries, target, signals, failure, readiness>>

(* Mutant: one restart too many. *)
RestartsOnceMore ==
  IF Service
  THEN /\ cfg.restart = "always" \/ (cfg.restart = "on-failure" /\ code[gen] # 0)
       /\ cfg.maxRetries = 0 \/ retries <= cfg.maxRetries
  ELSE code[gen] # 0 /\ cfg.restart # "none" /\ retries < cfg.maxRetries

(* shouldRestart and the limit; a oneshot looks at the limit only. *)
Restarts ==
  IF Service
  THEN /\ cfg.restart = "always" \/ (cfg.restart = "on-failure" /\ code[gen] # 0)
       /\ cfg.maxRetries = 0 \/ retries < cfg.maxRetries
  ELSE code[gen] # 0 /\ cfg.restart # "none" /\ retries < cfg.maxRetries

Retry == retries' = retries + 1 /\ Goto("backoff")

(* onExit returned: back off, succeed, or report the exit code. *)
Exited ==
  /\ pc = "exited"
  /\ IF Restarts THEN Retry
     ELSE /\ UNCHANGED retries
          /\ IF code[gen] # 0 THEN Return("error")
             ELSE IF Service THEN Return("nil") ELSE Goto("succeeded")
  /\ UNCHANGED <<cfg, ctxDone, handle, target, signals, failure, readiness>>

BackoffEnds ==
  /\ pc = "backoff" /\ gen < MaxStarts
  /\ Goto("restart")
  /\ UNCHANGED <<cfg, ctxDone, handle, retries, target, signals, failure, readiness>>

(* The backoff returns ctx.Err(). *)
BackoffCancelled ==
  /\ pc = "backoff" /\ ctxDone
  /\ Return("error")
  /\ UNCHANGED <<cfg, ctxDone, handle, retries, target, signals, failure, readiness>>

Restart ==
  /\ pc = "restart"
  /\ Spawn
  /\ Goto(IF Service /\ cfg.rotate THEN "retarget" ELSE "select")
  /\ UNCHANGED <<cfg, ctxDone, retries, target, signals, failure, readiness>>

(* Mutant: rotation keeps the handle it was given first. *)
RetargetNothing ==
  /\ pc = "retarget"
  /\ Goto("select")
  /\ UNCHANGED <<cfg, ctxDone, handle, retries, target, signals, failure, readiness>>

Retarget ==
  /\ pc = "retarget"
  /\ target' = gen
  /\ Goto("select")
  /\ UNCHANGED <<cfg, ctxDone, handle, retries, signals, failure, readiness>>

(* The deferred signals of a oneshot that exited 0. *)
SucceedStarted ==
  /\ pc = "succeeded"
  /\ signals' = signals \cup {"started"}
  /\ Goto("signalled")
  /\ UNCHANGED <<cfg, ctxDone, handle, retries, target, failure, readiness>>

SucceedReady ==
  /\ pc = "signalled"
  /\ signals' = signals \cup {"ready"}
  /\ Goto("leave")
  /\ UNCHANGED <<cfg, ctxDone, handle, retries, target, failure, readiness>>

Leave ==
  /\ pc = "leave"
  /\ Return("nil")
  /\ UNCHANGED <<cfg, ctxDone, handle, retries, target, signals, failure, readiness>>

----------------------------------------------------------------------------
(* drain.  Whatever it returns, an onStart that threw is what is reported. *)

(* The shutdown signal is sent; whether and when the process obeys is its  *)
(* own choice (Exits).                                                     *)
SendSignal ==
  /\ pc = "drain"
  /\ Goto("draining")
  /\ UNCHANGED <<cfg, ctxDone, handle, retries, target, signals, failure, readiness>>

DrainDone ==
  /\ pc = "draining" /\ Done
  /\ Return(failure)
  /\ UNCHANGED <<cfg, ctxDone, handle, retries, target, signals, failure, readiness>>

(* Mutant: the timer is looked at when the process is done. *)
TimedOutDone == pc = "draining" /\ cfg.patience = "timeout" /\ Done

TimedOut == pc = "draining" /\ cfg.patience = "timeout"

(* Kill closes the done of a callback-only node, and returns nil as        *)
(* DrainDone does; it kills a process, and is an error (os: process already*)
(* finished) when the process has been reaped.                             *)
Kill ==
  \/ /\ ~cfg.binary /\ proc[gen] = "running"
     /\ proc' = [proc EXCEPT ![gen] = "exited"]
     /\ Goto("draining")
  \/ /\ cfg.binary /\ proc[gen] \in {"running", "killed"}
     /\ proc' = [proc EXCEPT ![gen] = "killed"]
     /\ Return(failure)
  \/ /\ cfg.binary /\ proc[gen] \in {"dead", "exited"}
     /\ UNCHANGED proc
     /\ Return("error")
  \/ /\ cfg.binary /\ proc[gen] = "dead"
     /\ UNCHANGED proc
     /\ Return(failure)

ForceKill ==
  /\ TimedOut /\ cfg.forceKill
  /\ Kill
  /\ UNCHANGED <<cfg, ctxDone, gen, code, retries, target, signals, failure, readiness>>

GiveUp ==
  /\ TimedOut /\ ~cfg.forceKill
  /\ Return(failure)
  /\ UNCHANGED <<cfg, ctxDone, handle, retries, target, signals, failure, readiness>>

----------------------------------------------------------------------------
Drain == SendSignal \/ DrainDone \/ ForceKill \/ GiveUp

Supervise ==
  \/ SelectCtx \/ SelectDone \/ OnExitThrows \/ Exited
  \/ BackoffEnds \/ BackoffCancelled \/ Restart \/ Retarget
  \/ SucceedStarted \/ SucceedReady \/ Leave

Setup == Start \/ StartFails \/ Started \/ OnStartThrows \/ Forward

Gate ==
  \/ BeginReadiness \/ AttemptPasses \/ AttemptFails \/ IntervalEnds \/ GateCancelled
  \/ ReportReadiness

Poller == PollStops \/ PollChecks \/ PollSets

Next ==
  \/ Cancel \/ Exits \/ Closes \/ Serves \/ Hangs
  \/ Setup \/ Gate \/ Ready \/ Poller \/ Supervise \/ Drain

Spec == Init /\ [][Next]_vars

(* The node's goroutine and its poller proceed: callbacks return, timers   *)
(* expire, a probe has a timeout, and the handle closes done after an exit *)
(* (Reaper!DoneFollowsExit).  No process has to exit, to serve or to hang. *)
FairSpec ==
  /\ Spec
  /\ WF_vars(Setup) /\ WF_vars(Supervise) /\ WF_vars(Drain)
  /\ WF_vars(Gate) /\ WF_vars(Ready) /\ WF_vars(Poller)
  /\ WF_vars(Closes)

----------------------------------------------------------------------------
(* Type correctness. *)
TypeOK ==
  /\ cfg \in Configs
  /\ pc \in {"start", "onStart", "forward", "readiness", "attempt", "interval", "passed",
             "missed", "announce", "select", "exited",
             "backoff", "restart", "retarget", "succeeded", "signalled",
             "leave", "drain", "draining", "returned"}
  /\ ctxDone \in BOOLEAN
  /\ gen \in 0..MaxStarts
  /\ proc \in [Ids -> {"none", "running", "killed", "dead", "exited"}]
  /\ code \in [Ids -> {0, 1}]
  /\ retries \in 0..MaxStarts
  /\ target \in 0..MaxStarts /\ pgid \in 0..MaxStarts
  /\ signals \subseteq {"started", "ready"}
  /\ failure \in {"nil", "error"}
  /\ result \in {"none", "nil", "error"}
  /\ up \in BOOLEAN /\ attempt \in Nat /\ ready \in BOOLEAN
  /\ poller \in {"off", "sleep", "up", "down", "stopped"}

(* A node is started again only as its policy allows: at most maxRetries   *)
(* times, and on-failure (as well as any oneshot) only after a crash.      *)
RestartsBounded ==
  /\ ~Service \/ cfg.maxRetries > 0 =>
       gen <= 1 + (IF cfg.restart = "none" THEN 0 ELSE cfg.maxRetries)
  /\ Service /\ cfg.restart \in {"none", "never"} => gen <= 1
  /\ ~Service \/ cfg.restart = "on-failure" =>
       \A i \in Ids : i < gen => code[i] # 0

(* No process runs beside its successor, and none is left when the         *)
(* lifecycle is over, but for a shutdown without forceKill, an unresolvable*)
(* forward signal and a oneshot whose onStart threw.                       *)
Excused ==
  \/ cfg.patience = "timeout" /\ ~cfg.forceKill
  \/ cfg.forward = "invalid"
  \/ ~Service /\ failure = "error"

NoStray ==
  \A i \in Ids :
    proc[i] = "running" => i = gen /\ (result # "none" => Excused)

(* While a node is supervised, log rotation signals the process that runs  *)
(* now and not one that is gone.                                           *)
TargetLive == pc = "select" /\ Service /\ cfg.rotate => target = gen

(* A cancelled node whose shutdown has a timeout returns, whatever its     *)
(* process does.                                                           *)
ShutdownEnds == ctxDone /\ cfg.patience = "timeout" ~> result # "none"

(* A crash does not go unnoticed while the node waits for its readiness:   *)
(* when the gate has a limit, a process that exited is followed by another *)
(* start, by the wait for one, or by the return.  (Nothing in the gate     *)
(* looks at done: a readinessFunc without a limit is called for ever.)     *)
CrashNoticed ==
  \A i \in Ids :
    i = gen /\ proc[i] = "dead" /\ (cfg.gate = "func" => cfg.attempts > 0)
      ~> gen > i \/ pc = "backoff" \/ result # "none"

(* /readyz follows the process: when the process of a polled node hangs for*)
(* good while it is supervised, after any number of restarts and whatever  *)
(* the readiness gate reported meanwhile, the flag goes down and stays.    *)
FlagFollows ==
  <>[](cfg.health = "polled" /\ pc = "select" /\ ~up) => <>[]~ready

(* The lifecycle keeps what the coordinator relies on. *)
Contract ==
  INSTANCE NodeContract WITH
    oneshot <- ~Service, outcome <- result,
    exited0 <- (gen > 0 /\ proc[gen] = "exited" /\ code[gen] = 0),
    cancelled <- ctxDone

ImplementsContract == Contract!Spec

----------------------------------------------------------------------------
(* What comments in the source say and the code does not keep: no run     *)
(* checks it; the README has the traces.                                   *)

(* The process group that signals are forwarded to is that of the process  *)
(* the node supervises (domain/process_chain.go:105-109).                  *)
ForwardLive == pc = "select" /\ cfg.forward = "valid" /\ Service => pgid = gen
=============================================================================
