--------------------------- MODULE LifecycleProofs ---------------------------
(***************************************************************************)
(* Theorems about the lifecycle of a node, for every configuration and     *)
(* however often its process may be started: the restart policy bounds the *)
(* starts, no process is left behind, rotation follows the process that    *)
(* runs, and the coordinator's assumptions (NodeContract) are met.         *)
(***************************************************************************)
EXTENDS Lifecycle, TLAPS

(* retries is the number of starts before the last one, or before the next.*)
Counting ==
  /\ pc = "start" => gen = 0 /\ retries = 0
  /\ pc \in {"backoff", "restart"} => gen = retries /\ gen > 0
  /\ pc = "restart" => gen < MaxStarts
  /\ pc = "returned" => gen <= retries + 1
  /\ pc \notin {"start", "backoff", "restart", "returned"} => gen = retries + 1

(* A retry was allowed by the policy. *)
Policy ==
  retries > 0 =>
    IF Service THEN /\ cfg.restart \in {"always", "on-failure"}
                    /\ cfg.maxRetries = 0 \/ retries <= cfg.maxRetries
    ELSE cfg.restart # "none" /\ retries <= cfg.maxRetries

(* Where the node's goroutine waits for readiness. *)
AtGate == {"readiness", "attempt", "interval", "passed", "missed", "announce"}

(* Where the node's goroutine has seen its process exit. *)
Seen == {"exited", "backoff", "restart", "succeeded", "signalled", "leave"}

(* Only the last process may run; those before it exited, and crashed when *)
(* it takes a crash to be started again.                                   *)
Incarnations ==
  /\ \A i \in Ids : (i > gen => proc[i] = "none") /\ (i < gen => proc[i] = "exited")
  /\ pc \in Seen => proc[gen] = "exited"
  /\ ~Service \/ cfg.restart = "on-failure" =>
       /\ \A i \in Ids : i < gen => code[i] # 0
       /\ pc \in {"backoff", "restart"} => code[gen] # 0

(* From the rotator's start on, rotation knows the last process. *)
Following ==
  Service /\ cfg.rotate /\ pc \in {"forward", "select", "exited", "backoff", "restart"} \cup AtGate
    => target = gen

(* A process that survives the lifecycle has an excuse. *)
Leftover ==
  /\ result = "none" <=> pc # "returned"
  /\ pc = "returned" => \A i \in Ids : proc[i] = "running" => Excused
  /\ pc \in {"forward"} \cup AtGate => Service
  /\ pc \in {"succeeded", "signalled", "leave"} => ~Service

(* What has been signalled to the coordinator. *)
Signalled ==
  /\ "ready" \in signals => "started" \in signals
  /\ pc \in {"forward", "signalled"} \cup AtGate => "started" \in signals
  /\ ~Service /\ signals # {} => pc \in {"signalled", "leave", "returned"} /\ Done /\ code[gen] = 0
  /\ pc \in {"succeeded", "signalled", "leave"} => code[gen] = 0
  /\ ~Service /\ result = "error" => signals = {}
  /\ pc \in {"start", "onStart"} => signals = {}
  /\ pc \in {"drain", "draining"} => failure = "error" \/ ctxDone

LifeInv ==
  TypeOK /\ Counting /\ Policy /\ Incarnations /\ Following /\ Leftover /\ Signalled

----------------------------------------------------------------------------
(* The invariant holds before the first start (runSingleNode). *)
LEMMA InvInit == Init => LifeInv
<1> SUFFICES ASSUME Init PROVE LifeInv
  OBVIOUS
<1> USE LifecycleAssumption DEF Init
<1>0. 0 \in 0..MaxStarts
  OBVIOUS
<1>1. TypeOK
  BY <1>0 DEF TypeOK
<1>2. Counting /\ Policy /\ Incarnations
  BY DEF Counting, Policy, Incarnations, Ids, Seen
<1>3. Following /\ Leftover /\ Signalled
  BY DEF Following, Leftover, Signalled, AtGate
<1> QED
  BY <1>1, <1>2, <1>3 DEF LifeInv

(* What the constants say of a configuration. *)
LEMMA ConfigType ==
  TypeOK => /\ cfg.maxRetries \in Nat /\ cfg.binary \in BOOLEAN /\ cfg.rotate \in BOOLEAN
            /\ cfg.forceKill \in BOOLEAN /\ cfg.kind \in {"service", "oneshot"}
BY LifecycleAssumption DEF TypeOK, NodeConfig

(* The readiness gate moves on by itself, the process behind it and the    *)
(* poller of the health flag beside it: nothing else is touched.           *)
Aside == Gate \/ Poller \/ Serves \/ Hangs

(* Such a step leaves the rest as it is and the gate at the gate.         *)
LEMMA AsideKeeps ==
  ASSUME Aside
  PROVE  /\ UNCHANGED <<cfg, ctxDone, gen, proc, code, retries, target, pgid, signals, failure,
                        result>>
         /\ pc' = pc \/ (pc \in AtGate /\ pc' \in AtGate)
<1>1. CASE Gate
  <2> USE DEF InGate, Goto, handle, AtGate
  <2>1. CASE BeginReadiness
    BY <2>1 DEF BeginReadiness
  <2>2. CASE AttemptPasses \/ AttemptFails
    BY <2>2 DEF AttemptPasses, AttemptFails
  <2>3. CASE IntervalEnds \/ GateCancelled
    BY <2>3 DEF IntervalEnds, GateCancelled
  <2>4. CASE ReportReadiness
    BY <2>4 DEF ReportReadiness
  <2> QED  BY <1>1, <2>1, <2>2, <2>3, <2>4 DEF Gate
<1>2. CASE Poller
  BY <1>2 DEF Poller, PollStops, PollChecks, PollSets, Polls, handle, helpers
<1>3. CASE Serves \/ Hangs
  BY <1>3 DEF Serves, Hangs, handle, helpers
<1> QED  BY <1>1, <1>2, <1>3 DEF Aside

(* What they do touch keeps its type. *)
PhaseType ==
  /\ up \in BOOLEAN /\ attempt \in Nat /\ ready \in BOOLEAN
  /\ poller \in {"off", "sleep", "up", "down", "stopped"}

(* Such a step keeps the types of the gate and of the poller.             *)
LEMMA AsidePhase == ASSUME TypeOK, Aside PROVE PhaseType'
<1>0. PhaseType /\ cfg.attempts \in Nat
  BY LifecycleAssumption DEF TypeOK, PhaseType, NodeConfig
<1> USE DEF PhaseType
<1>1. CASE Gate
  <2> USE <1>0 DEF InGate
  <2>1. CASE BeginReadiness
    <3>1. ready' = (ready /\ cfg.health = "none") /\ poller' \in {"sleep", poller}
          /\ attempt' = 0 /\ up' = up
      BY <2>1 DEF BeginReadiness
    <3>2. ready' \in BOOLEAN
      BY <3>1
    <3> QED  BY <3>1, <3>2
  <2>2. CASE AttemptPasses \/ AttemptFails
    BY <2>2 DEF AttemptPasses, AttemptFails
  <2>3. CASE IntervalEnds \/ GateCancelled
    BY <2>3 DEF IntervalEnds, GateCancelled
  <2>4. CASE ReportReadiness
    <3>1. ready' \in BOOLEAN
      BY <2>4 DEF ReportReadiness
    <3> QED  BY <2>4, <3>1 DEF ReportReadiness
  <2> QED  BY <1>1, <2>1, <2>2, <2>3, <2>4 DEF Gate
<1>2. CASE Poller
  BY <1>0, <1>2 DEF Poller, PollStops, PollChecks, PollSets, Polls
<1>3. CASE Serves \/ Hangs
  BY <1>0, <1>3 DEF Serves, Hangs
<1> QED  BY <1>1, <1>2, <1>3 DEF Aside

(* Every step keeps the types, and the two counters of starts together. *)
LEMMA TypeStep == LifeInv /\ [Next]_vars => TypeOK' /\ Counting'
<1> SUFFICES ASSUME LifeInv, [Next]_vars PROVE TypeOK' /\ Counting'
  OBVIOUS
<1> USE LifecycleAssumption, ConfigType DEF LifeInv, Goto, Return, handle,
          helpers, readiness, AtGate, TypeOK, Counting, Ids, Incarnations, Seen
<1>1. CASE Exits
  <2>1. code' \in [Ids -> {0, 1}] /\ proc' \in [Ids -> {"none", "running", "killed", "dead", "exited"}]
    BY <1>1 DEF Exits
  <2>2. up' \in BOOLEAN /\ attempt' = attempt /\ ready' = ready /\ poller' = poller
    BY <1>1 DEF Exits
  <2>3. UNCHANGED <<cfg, pc, ctxDone, gen, retries, target, pgid, signals, failure, result>>
    BY <1>1 DEF Exits
  <2> QED
    BY <2>1, <2>2, <2>3
<1>2. CASE Closes
  BY <1>2 DEF Closes
<1>3. CASE Start
  BY <1>3 DEF Start, Spawn
<1>4. CASE Started
  <2>1. signals' \subseteq {"started", "ready"}
    BY <1>4 DEF Started
  <2> QED
    BY <1>4, <2>1 DEF Started
<1>5. CASE Forward
  BY <1>5 DEF Forward
<1>6. CASE Ready
  BY <1>6 DEF Ready
<1>7. CASE StartFails
  BY <1>7 DEF StartFails
<1>8. CASE OnStartThrows
  BY <1>8 DEF OnStartThrows
<1>9. CASE OnExitThrows
  BY <1>9 DEF OnExitThrows
<1>10. CASE Exited
  BY <1>10 DEF Exited, Retry, Restarts
<1>11. CASE BackoffEnds
  BY <1>11 DEF BackoffEnds
<1>12. CASE BackoffCancelled
  BY <1>12 DEF BackoffCancelled
<1>13. CASE Restart
  BY <1>13 DEF Restart, Spawn
<1>14. CASE Retarget
  BY <1>14 DEF Retarget
<1>15. CASE SucceedStarted
  BY <1>15 DEF SucceedStarted
<1>16. CASE SucceedReady
  BY <1>16 DEF SucceedReady
<1>17. CASE Leave
  BY <1>17 DEF Leave
<1>18. CASE DrainDone
  BY <1>18 DEF DrainDone, Done
<1>19. CASE ForceKill
  BY <1>19 DEF ForceKill, Kill, TimedOut
<1>20. CASE GiveUp
  BY <1>20 DEF GiveUp, TimedOut
<1>21. CASE Cancel \/ UNCHANGED vars
  <2>1. ctxDone' \in BOOLEAN
    BY <1>21 DEF Cancel, vars
  <2>2. UNCHANGED <<cfg, pc, gen, proc, code, retries, target, pgid, signals, failure, result,
                    up, attempt, ready, poller>>
    BY <1>21 DEF Cancel, vars
  <2> QED
    BY <2>1, <2>2
<1>22. CASE SelectCtx \/ SelectDone \/ SendSignal
  <2>1. pc \in {"select", "drain"} /\ pc' \in {"drain", "exited", "draining"}
    BY <1>22 DEF SelectCtx, SelectDone, SendSignal
  <2>2. UNCHANGED <<cfg, ctxDone, gen, proc, code, retries, target, pgid, signals, failure, result,
                    up, attempt, ready, poller>>
    BY <1>22 DEF SelectCtx, SelectDone, SendSignal
  <2> QED
    BY <2>1, <2>2
<1>a. CASE Aside
  <2>1. PhaseType'
    BY <1>a, AsidePhase
  <2>2. /\ UNCHANGED <<cfg, ctxDone, gen, proc, code, retries, target, pgid, signals, failure,
                       result>>
        /\ pc' = pc \/ (pc \in AtGate /\ pc' \in AtGate)
    BY <1>a, AsideKeeps
  <2>3. Counting'
    BY <2>2
  <2>4. TypeOK'
    BY <2>1, <2>2 DEF PhaseType
  <2> QED
    BY <2>3, <2>4
<1> QED
  BY <1>1, <1>2, <1>3, <1>4, <1>5, <1>6, <1>7, <1>8, <1>9, <1>10, <1>11, <1>12,
     <1>13, <1>14, <1>15, <1>16, <1>17, <1>18, <1>19, <1>20, <1>21, <1>22, <1>a DEF Next, Aside,
     Setup, Supervise, Drain

(* The only step that counts a retry looks at the policy first. *)
LEMMA PolicyStep == LifeInv /\ [Next]_vars => Policy'
<1> SUFFICES ASSUME LifeInv, [Next]_vars PROVE Policy'
  OBVIOUS
<1> USE LifecycleAssumption, ConfigType DEF LifeInv, Goto, Return, handle,
          helpers, readiness, AtGate, TypeOK, Policy, Counting, Service
<1>1. CASE Exited
  BY <1>1 DEF Exited, Retry, Restarts
<1>2. CASE Cancel \/ Exits \/ Closes \/ Start \/ StartFails \/ Started \/
          OnStartThrows \/ Forward \/ Ready \/ SelectCtx \/ SelectDone \/
          OnExitThrows \/ BackoffEnds \/ BackoffCancelled \/ Restart \/
          Retarget \/ SucceedStarted \/ SucceedReady \/ Leave \/ SendSignal \/
          DrainDone \/ ForceKill \/ GiveUp \/ UNCHANGED vars
  BY <1>2 DEF Cancel, Exits, Closes, Start, Spawn, StartFails, Started,
     OnStartThrows, Forward, Ready, SelectCtx, SelectDone, Done, OnExitThrows,
     BackoffEnds, BackoffCancelled, Restart, Retarget, SucceedStarted,
     SucceedReady, Leave, SendSignal, DrainDone, ForceKill, Kill, TimedOut,
     GiveUp, vars
<1>a. CASE Aside
  BY <1>a, AsideKeeps
<1> QED
  BY <1>1, <1>2, <1>a DEF Next, Aside, Setup, Supervise, Drain

(* A process starts when the one before has been seen to exit. *)
LEMMA IncarnationsStep == LifeInv /\ [Next]_vars => Incarnations'
<1> SUFFICES ASSUME LifeInv, [Next]_vars PROVE Incarnations'
  OBVIOUS
<1> USE LifecycleAssumption, ConfigType DEF LifeInv, Goto, Return, handle,
          helpers, readiness, AtGate, TypeOK, Incarnations, Counting, Ids, Seen, Service
<1>1. CASE Exits
  BY <1>1 DEF Exits
<1>2. CASE Closes
  BY <1>2 DEF Closes
<1>3. CASE Start
  BY <1>3 DEF Start, Spawn
<1>4. CASE SelectDone
  BY <1>4 DEF SelectDone, Done
<1>5. CASE Exited
  BY <1>5 DEF Exited, Retry, Restarts
<1>6. CASE Restart
  BY <1>6 DEF Restart, Spawn
<1>7. CASE ForceKill
  BY <1>7 DEF ForceKill, Kill, TimedOut
<1>8. CASE Cancel \/ StartFails \/ Started \/ OnStartThrows \/ Forward \/
          Ready \/ SelectCtx \/ OnExitThrows \/ BackoffEnds \/
          BackoffCancelled \/ Retarget \/ SucceedStarted \/ SucceedReady \/
          Leave \/ SendSignal \/ DrainDone \/ GiveUp \/ UNCHANGED vars
  BY <1>8 DEF Cancel, StartFails, Started, OnStartThrows, Forward, Ready,
     SelectCtx, OnExitThrows, BackoffEnds, BackoffCancelled, Retarget,
     SucceedStarted, SucceedReady, Leave, SendSignal, DrainDone, Done, GiveUp,
     TimedOut, vars
<1>a. CASE Aside
  BY <1>a, AsideKeeps
<1> QED
  BY <1>1, <1>2, <1>3, <1>4, <1>5, <1>6, <1>7, <1>8, <1>a DEF Next, Aside, Setup, Supervise, Drain

(* Only Restart changes the last process, and Retarget comes next. *)
LEMMA FollowingStep == LifeInv /\ [Next]_vars => Following'
<1> SUFFICES ASSUME LifeInv, [Next]_vars PROVE Following'
  OBVIOUS
<1> USE LifecycleAssumption, ConfigType DEF LifeInv, Goto, Return, handle,
          helpers, readiness, AtGate, TypeOK, Following, Service
<1>1. CASE Started
  BY <1>1 DEF Started
<1>2. CASE Restart
  BY <1>2 DEF Restart, Spawn
<1>3. CASE Retarget
  BY <1>3 DEF Retarget
<1>4. CASE Cancel \/ Exits \/ Closes \/ Start \/ StartFails \/ OnStartThrows
          \/ Forward \/ Ready \/ SelectCtx \/ SelectDone \/ OnExitThrows \/
          Exited \/ BackoffEnds \/ BackoffCancelled \/ SucceedStarted \/
          SucceedReady \/ Leave \/ SendSignal \/ DrainDone \/ ForceKill \/
          GiveUp \/ UNCHANGED vars
  BY <1>4 DEF Cancel, Exits, Closes, Start, Spawn, StartFails, OnStartThrows,
     Forward, Ready, SelectCtx, SelectDone, Done, OnExitThrows, Exited, Retry,
     Restarts, BackoffEnds, BackoffCancelled, SucceedStarted, SucceedReady,
     Leave, SendSignal, DrainDone, ForceKill, Kill, TimedOut, GiveUp, vars
<1>a. CASE Aside
  BY <1>a, AsideKeeps
<1> QED
  BY <1>1, <1>2, <1>3, <1>4, <1>a DEF Next, Aside, Setup, Supervise, Drain

(* Every way out has waited for the process, killed it, or is excused. *)
LEMMA LeftoverStep == LifeInv /\ [Next]_vars => Leftover'
<1> SUFFICES ASSUME LifeInv, [Next]_vars PROVE Leftover'
  OBVIOUS
<1> USE LifecycleAssumption, ConfigType DEF LifeInv, Goto, Return, handle,
          helpers, readiness, AtGate, TypeOK, Leftover, Counting, Incarnations, Ids, Seen,
          Service, Excused
<1>1. CASE Exits
  BY <1>1 DEF Exits
<1>2. CASE Closes
  BY <1>2 DEF Closes
<1>3. CASE StartFails
  BY <1>3 DEF StartFails
<1>4. CASE OnStartThrows
  BY <1>4 DEF OnStartThrows
<1>5. CASE Forward
  <2>1. CASE cfg.forward = "invalid"
    BY <1>5, <2>1 DEF Forward
  <2>2. CASE cfg.forward # "invalid"
    BY <1>5, <2>2 DEF Forward
  <2> QED
    BY <2>1, <2>2
<1>6. CASE OnExitThrows
  BY <1>6 DEF OnExitThrows
<1>7. CASE Exited
  BY <1>7 DEF Exited, Retry, Restarts
<1>8. CASE BackoffCancelled
  BY <1>8 DEF BackoffCancelled
<1>9. CASE Leave
  BY <1>9 DEF Leave
<1>10. CASE DrainDone
  BY <1>10 DEF DrainDone, Done
<1>11. CASE ForceKill
  BY <1>11 DEF ForceKill, Kill, TimedOut
<1>12. CASE GiveUp
  BY <1>12 DEF GiveUp, TimedOut
<1>13. CASE Cancel \/ Start \/ Started \/ Ready \/ SelectCtx \/ SelectDone \/
          BackoffEnds \/ Restart \/ Retarget \/ SucceedStarted \/ SucceedReady
          \/ SendSignal \/ UNCHANGED vars
  BY <1>13 DEF Cancel, Start, Spawn, Started, Ready, SelectCtx, SelectDone,
     Done, BackoffEnds, Restart, Retarget, SucceedStarted, SucceedReady,
     SendSignal, vars
<1>a. CASE Aside
  BY <1>a, AsideKeeps
<1> QED
  BY <1>1, <1>2, <1>3, <1>4, <1>5, <1>6, <1>7, <1>8, <1>9, <1>10, <1>11, <1>12,
     <1>13, <1>a DEF Next, Aside, Setup, Supervise, Drain

(* A oneshot signals after its exit; nothing runs between that and its return. *)
LEMMA SignalledStep == LifeInv /\ [Next]_vars => Signalled'
<1> SUFFICES ASSUME LifeInv, [Next]_vars PROVE Signalled'
  OBVIOUS
<1> USE LifecycleAssumption, ConfigType DEF LifeInv, Goto, Return, handle,
          helpers, readiness, AtGate, TypeOK, Signalled, Leftover, Counting, Incarnations, Ids,
          Seen, Service, Done
<1>1. CASE Exits
  BY <1>1 DEF Exits
<1>2. CASE Closes
  BY <1>2 DEF Closes
<1>3. CASE Start
  BY <1>3 DEF Start, Spawn
<1>4. CASE StartFails
  BY <1>4 DEF StartFails
<1>5. CASE Started
  BY <1>5 DEF Started
<1>6. CASE OnStartThrows
  BY <1>6 DEF OnStartThrows
<1>7. CASE Forward
  <2>1. CASE cfg.forward = "invalid"
    BY <1>7, <2>1 DEF Forward
  <2>2. CASE cfg.forward # "invalid"
    BY <1>7, <2>2 DEF Forward
  <2> QED
    BY <2>1, <2>2
<1>8. CASE Ready
  BY <1>8 DEF Ready
<1>9. CASE SelectCtx
  BY <1>9 DEF SelectCtx
<1>10. CASE SelectDone
  BY <1>10 DEF SelectDone, Done
<1>11. CASE OnExitThrows
  BY <1>11 DEF OnExitThrows
<1>12. CASE Exited
  BY <1>12 DEF Exited, Retry, Restarts
<1>13. CASE BackoffCancelled
  BY <1>13 DEF BackoffCancelled
<1>14. CASE Restart
  BY <1>14 DEF Restart, Spawn
<1>15. CASE SucceedStarted
  BY <1>15 DEF SucceedStarted
<1>16. CASE SucceedReady
  BY <1>16 DEF SucceedReady
<1>17. CASE Leave
  BY <1>17 DEF Leave
<1>18. CASE DrainDone
  BY <1>18 DEF DrainDone, Done
<1>19. CASE ForceKill
  BY <1>19 DEF ForceKill, Kill, TimedOut
<1>20. CASE Cancel \/ BackoffEnds \/ Retarget \/ SendSignal \/ GiveUp \/
          UNCHANGED vars
  BY <1>20 DEF Cancel, BackoffEnds, Retarget, SendSignal, GiveUp, TimedOut,
     vars
<1>a. CASE Aside
  BY <1>a, AsideKeeps
<1> QED
  BY <1>1, <1>2, <1>3, <1>4, <1>5, <1>6, <1>7, <1>8, <1>9, <1>10, <1>11, <1>12,
     <1>13, <1>14, <1>15, <1>16, <1>17, <1>18, <1>19, <1>20, <1>a DEF Next, Aside, Setup,
     Supervise, Drain

----------------------------------------------------------------------------
(* The invariant holds of every run of every configured node. *)
THEOREM Invariant == Spec => []LifeInv
<1>1. LifeInv /\ [Next]_vars => LifeInv'
  BY TypeStep, PolicyStep, IncarnationsStep, FollowingStep, LeftoverStep,
     SignalledStep DEF LifeInv
<1> QED
  BY InvInit, <1>1, PTL DEF Spec

(* A node is never started more often than its restart policy allows, and  *)
(* on-failure starts it again only after a crash.                          *)
THEOREM PolicyRespected == Spec => []RestartsBounded
<1>1. LifeInv => RestartsBounded
  <2> SUFFICES ASSUME LifeInv PROVE RestartsBounded
    OBVIOUS
  <2> USE ConfigType DEF LifeInv, TypeOK
  <2>1. gen <= retries + 1
    BY DEF Counting
  <2>2. retries > 0 => Policy
    OBVIOUS
  <2>3. ~Service \/ cfg.maxRetries > 0 =>
          gen <= 1 + (IF cfg.restart = "none" THEN 0 ELSE cfg.maxRetries)
    BY <2>1 DEF Policy
  <2>4. Service /\ cfg.restart \in {"none", "never"} => gen <= 1
    BY <2>1 DEF Policy
  <2> QED
    BY <2>3, <2>4 DEF RestartsBounded, Incarnations
<1> QED
  BY Invariant, <1>1, PTL

(* No process runs beside its successor or after its lifecycle, whatever   *)
(* fails on the way.                                                       *)
THEOREM NothingLeftBehind == Spec => []NoStray
<1>1. LifeInv => NoStray
  BY DEF LifeInv, TypeOK, NoStray, Incarnations, Leftover, Ids
<1> QED
  BY Invariant, <1>1, PTL

(* While a service is supervised, log rotation signals the process that    *)
(* runs, also after restarts.                                              *)
THEOREM RotationFollows == Spec => []TargetLive
<1>1. LifeInv => TargetLive
  BY DEF LifeInv, Following, TargetLive, AtGate
<1> QED
  BY Invariant, <1>1, PTL

----------------------------------------------------------------------------
(* The coordinator's view of a step, in the terms of the contract. *)
exited0 == gen > 0 /\ proc[gen] = "exited" /\ code[gen] = 0

(* Each step of the lifecycle is a step of the contract, or none. *)
LEMMA ContractStep ==
  ASSUME LifeInv, LifeInv', [Next]_vars
  PROVE  Contract!Next \/ UNCHANGED Contract!vars
<1> DEFINE Goal == Contract!Next \/ UNCHANGED Contract!vars
<1>s. ASSUME cfg' = cfg, result' = result, signals' = signals, ctxDone' = ctxDone,
             exited0' = exited0
      PROVE  Goal
  BY <1>s DEF Contract!vars, Service, exited0
<1>r. ASSUME cfg' = cfg, result' = result, signals' = signals, ctxDone' = ctxDone,
             result = "none" \/ exited0' \/ exited0' = exited0,
             Service \/ signals = {} \/ exited0' = exited0
      PROVE  Goal
  BY <1>r, <1>s DEF Contract!Next, Contract!Runs, Service, exited0
<1>o. ASSUME cfg' = cfg, result = "none", result' \in {"nil", "error"},
             signals' = signals, ctxDone' = ctxDone, exited0' = exited0,
             result' = "nil" => exited0 \/ ctxDone,
             ~Service /\ result' = "error" => signals = {}
      PROVE  Goal
  BY <1>o DEF Contract!Next, Contract!Return, Service, exited0
<1>g. ASSUME NEW x \in {"started", "ready"}, cfg' = cfg, result = "none",
             result' = "none", signals' = signals \cup {x}, ctxDone' = ctxDone,
             exited0' = exited0, Service \/ exited0,
             "ready" \in signals' => "started" \in signals'
      PROVE  Goal
  <2>1. Contract!Signal({x})
    BY <1>g DEF Contract!Signal, Service, exited0
  <2> QED
    BY <2>1 DEF Contract!Next
<1>b. exited0 \in BOOLEAN /\ exited0' \in BOOLEAN
  BY DEF exited0
<1> HIDE DEF Goal
<1> USE DEF LifeInv, TypeOK, Leftover, Signalled, Goto, Return, handle, helpers, readiness, AtGate
<1>1. ASSUME Cancel PROVE Goal
  <2>1. cfg' = cfg /\ UNCHANGED <<proc, code, gen, result, signals>> /\ ctxDone' = TRUE
    BY <1>1 DEF Cancel
  <2> QED
    BY <2>1 DEF Goal, Contract!Next, Contract!Cancel, Service
<1>2. ASSUME Exits PROVE Goal
  <2>1. ~exited0 /\ ~exited0'
    BY <1>2 DEF Exits, exited0, Ids
  <2>2. exited0' = exited0
    BY <2>1, <1>b
  <2> QED
    BY <1>2, <2>2, <1>s DEF Exits
<1>3. ASSUME Closes PROVE Goal
  <2>1. ~Service => signals = {}
    BY <1>3 DEF Closes, Done
  <2>2. pc = "returned" /\ ~exited0' => exited0' = exited0
    <3>1. ~exited0
      BY <1>3 DEF Closes, exited0
    <3> QED
      BY <3>1, <1>b
  <2>3. cfg' = cfg /\ UNCHANGED <<result, signals, ctxDone>>
    BY <1>3 DEF Closes
  <2> QED
    BY <2>1, <2>2, <2>3, <1>r
<1>4. ASSUME Start \/ Restart PROVE Goal
  <2>1. result = "none" /\ (~Service => signals = {})
    BY <1>4 DEF Start, Restart
  <2>2. cfg' = cfg /\ UNCHANGED <<result, signals, ctxDone>>
    BY <1>4 DEF Start, Restart
  <2> QED
    BY <2>1, <2>2, <1>r
<1>5. ASSUME Started PROVE Goal
  <2>1. CASE Service
    <3>1. exited0' = exited0
      BY <1>5 DEF Started, exited0
    <3> QED
      BY <1>5, <2>1, <3>1, <1>g DEF Started
  <2>2. CASE ~Service
    BY <1>5, <2>2, <1>s DEF Started, exited0
  <2> QED
    BY <2>1, <2>2
<1>6. ASSUME Ready PROVE Goal
  <2>1. exited0' = exited0
    BY <1>6 DEF Ready, exited0
  <2> QED
    BY <1>6, <2>1, <1>g DEF Ready
<1>7. ASSUME SucceedStarted \/ SucceedReady PROVE Goal
  <2>1. exited0' = exited0 /\ exited0
    BY <1>7 DEF SucceedStarted, SucceedReady, exited0, Incarnations, Seen, Counting
  <2>2. CASE SucceedStarted
    BY <2>2, <2>1, <1>g DEF SucceedStarted
  <2>3. CASE SucceedReady
    BY <2>3, <2>1, <1>g DEF SucceedReady
  <2> QED
    BY <1>7, <2>2, <2>3
<1>8. ASSUME SelectCtx \/ SelectDone \/ BackoffEnds \/ Retarget \/ SendSignal PROVE Goal
  <2>1. exited0' = exited0
    BY <1>8 DEF SelectCtx, SelectDone, BackoffEnds, Retarget, SendSignal, exited0
  <2> QED
    BY <1>8, <2>1, <1>s DEF SelectCtx, SelectDone, BackoffEnds, Retarget, SendSignal
<1>9. ASSUME StartFails \/ OnStartThrows \/ OnExitThrows \/ BackoffCancelled PROVE Goal
  <2>1. exited0' = exited0
    BY <1>9 DEF StartFails, OnStartThrows, OnExitThrows, BackoffCancelled, exited0
  <2>2. cfg' = cfg /\ UNCHANGED <<signals, ctxDone>>
    BY <1>9 DEF StartFails, OnStartThrows, OnExitThrows, BackoffCancelled
  <2>3. result' = result \/ (result = "none" /\ result' = "error")
    BY <1>9 DEF StartFails, OnStartThrows, OnExitThrows, BackoffCancelled
  <2>4. ~Service => signals = {}
    BY <1>9 DEF StartFails, OnStartThrows, OnExitThrows, BackoffCancelled
  <2> QED
    BY <2>1, <2>2, <2>3, <2>4, <1>s, <1>o
<1>10. ASSUME Forward PROVE Goal
  <2>1. exited0' = exited0 /\ Service /\ result = "none"
    BY <1>10 DEF Forward, exited0
  <2>2. cfg' = cfg /\ UNCHANGED <<signals, ctxDone>> /\ result' \in {result, "error"}
    BY <1>10 DEF Forward
  <2> QED
    BY <2>1, <2>2, <1>s, <1>o
<1>11. ASSUME Exited \/ Leave PROVE Goal
  <2>1. exited0' = exited0
    BY <1>11 DEF Exited, Leave, Retry, exited0
  <2>2. cfg' = cfg /\ UNCHANGED <<signals, ctxDone>> /\ result = "none"
    BY <1>11 DEF Exited, Leave, Retry
  <2>3. result' = result \/ result' = "error" \/ (result' = "nil" /\ exited0)
    BY <1>11 DEF Exited, Leave, Retry, exited0, Incarnations, Seen, Counting
  <2>4. ~Service /\ result' = "error" => signals = {}
    BY <2>2 DEF Service
  <2> QED
    BY <2>1, <2>2, <2>3, <2>4, <1>s, <1>o
<1>12. ASSUME DrainDone \/ GiveUp PROVE Goal
  <2>1. exited0' = exited0 /\ cfg' = cfg /\ UNCHANGED <<signals, ctxDone>>
    BY <1>12 DEF DrainDone, GiveUp, exited0
  <2>2. result = "none" /\ result' = failure /\ (failure = "nil" => ctxDone)
        /\ (~Service => signals = {})
    BY <1>12 DEF DrainDone, GiveUp, TimedOut
  <2> QED
    BY <2>1, <2>2, <1>o
<1>13. ASSUME ForceKill PROVE Goal
  <2>1. pc = "draining" /\ result = "none" /\ cfg' = cfg /\ UNCHANGED <<signals, ctxDone>>
        /\ (~Service => signals = {}) /\ (failure = "nil" => ctxDone)
    BY <1>13 DEF ForceKill, TimedOut
  <2>2. CASE result' = result
    BY <2>1, <2>2, <1>r
  <2>3. CASE result' # result
    <3>1. result' \in {failure, "error"}
      BY <1>13, <2>3 DEF ForceKill, Kill
    <3>2. gen > 0 /\ gen \in Ids
      BY <2>1 DEF Counting, Ids
    <3>3. exited0' = exited0
      BY <1>13, <2>3, <3>2 DEF ForceKill, Kill, exited0
    <3> QED
      BY <2>1, <3>1, <3>3, <1>o
  <2> QED
    BY <2>2, <2>3
<1>14. ASSUME UNCHANGED vars PROVE Goal
  BY <1>14, <1>s DEF vars, exited0
<1>a. ASSUME Aside PROVE Goal
  <2>1. cfg' = cfg /\ UNCHANGED <<result, signals, ctxDone, gen, proc, code>>
    BY <1>a, AsideKeeps
  <2> QED
    BY <2>1, <1>s DEF exited0
<1>15. Goal
  BY <1>a, <1>1, <1>2, <1>3, <1>4, <1>5, <1>6, <1>7, <1>8, <1>9, <1>10, <1>11, <1>12,
     <1>13, <1>14
     DEF Next, Aside, Setup, Supervise, Drain
<1> QED
  BY <1>15 DEF Goal

(* What the coordinator assumes of a lifecycle is what the lifecycle does. *)
THEOREM LifecycleKeepsContract == Spec => ImplementsContract
<1>1. Init => Contract!Init
  BY DEF Init, Contract!Init, Service
<1>2. LifeInv /\ LifeInv' /\ [Next]_vars => [Contract!Next]_(Contract!vars)
  BY ContractStep
<1> QED
  BY Invariant, <1>1, <1>2, PTL DEF Spec, ImplementsContract, Contract!Spec
==============================================================================
