--------------------------- MODULE SchedulerProofs ---------------------------
(***************************************************************************)
(* Theorems about a scheduled node, for any job, period, interval, delay,  *)
(* number of callers and length of the run.                                *)
(***************************************************************************)
EXTENDS Scheduler, TLAPS

(* The lifecycle has returned exactly when done is closed. *)
Ended == (result # "none" <=> pc = "returned") /\ (done <=> pc = "returned")

(* Before a process is started, the one before it has exited. *)
OneProcess ==
  /\ pc = "callback" => proc = "none"
  /\ pc = "process" => proc \in {"none", "exited"}
  /\ pc = "backoff" => proc = "exited"
  /\ TickContained

(* From the loop's look at the interval on, it stays respected. *)
Interval ==
  /\ pc = "delay" => lastRun = -MinInterval
  /\ pc \in {"gate", "acquire"} => clock - lastRun >= MinInterval

(* A call that came late has not passed the look at done. *)
Late ==
  \A f \in Firers : late[f] => done /\ firer[f] \notin {"live", "free", "accepted"}

(* An early tick is never in the loop, nor does it come back to it. *)
Early == early => pc \notin {"delay", "evaluate", "wait"}

SchedInv == TypeOK /\ SlotHeld /\ Ended /\ OneProcess /\ Interval /\ Late /\ Early

(* The invariant holds when runScheduled begins. *)
LEMMA InvInit == Init => SchedInv
<1> SUFFICES ASSUME Init PROVE SchedInv
  OBVIOUS
<1> USE SchedulerAssumption DEF Init
<1>1. TypeOK
  <2>1. 0 \in 0..MaxTime /\ 0 \in 0..MaxRetries /\ -MinInterval \in -MinInterval..MaxTime
    OBVIOUS
  <2> QED
    BY <2>1 DEF TypeOK
<1>2. SlotHeld /\ Ended /\ OneProcess /\ Interval /\ Late /\ Early
  BY DEF SlotHeld, Ticking, Ended, OneProcess, TickContained, Interval, Late, Early
<1> QED
  BY <1>1, <1>2 DEF SchedInv

(* What the constants say of the job and the clock. *)
LEMMA Ranges ==
  TypeOK => /\ job.tick \in {"callback", "process"} /\ job.forceKill \in BOOLEAN
            /\ clock \in -MinInterval..MaxTime /\ 0 \in 0..MaxRetries
            /\ retries < MaxRetries => retries + 1 \in 0..MaxRetries
BY SchedulerAssumption DEF TypeOK, Job

(* Every step keeps the types; the retries never exceed their limit. *)
LEMMA TypeStep == SchedInv /\ [Next]_vars => TypeOK'
<1> SUFFICES ASSUME SchedInv, [Next]_vars PROVE TypeOK'
  OBVIOUS
<1> USE SchedulerAssumption, Ranges DEF SchedInv, Goto, Return, loop, trigger,
          tick, calls, TypeOK, Ticking
<1>1. CASE Advance
  BY <1>1 DEF Advance
<1>2. CASE GateFails
  <2>1. CASE early
    BY <1>2, <2>1 DEF GateFails, TickReturns
  <2>2. CASE ~early
    BY <1>2, <2>2 DEF GateFails, TickReturns
  <2> QED
    BY <2>1, <2>2
<1>3. CASE TickBegins
  BY <1>3 DEF TickBegins
<1>4. CASE CallbackReturns
  BY <1>4 DEF CallbackReturns, Over, TickReturns
<1>5. CASE StartFails
  BY <1>5 DEF StartFails, Over, TickReturns
<1>6. CASE TickExits
  <2>1. CASE Restarts
    <3>1. retries < MaxRetries
      BY <2>1 DEF Restarts
    <3> QED
      BY <1>6, <2>1, <3>1 DEF TickExits
  <2>2. CASE ~Restarts
    BY <1>6, <2>2 DEF TickExits, Over, TickReturns
  <2> QED
    BY <2>1, <2>2
<1>7. CASE BackoffCancelled
  BY <1>7 DEF BackoffCancelled, Over, TickReturns
<1>8. CASE DrainDone
  BY <1>8 DEF DrainDone, Over, TickReturns
<1>9. CASE DrainTimesOut
  BY <1>9 DEF DrainTimesOut, Over, TickReturns
<1>10. CASE Cancel
  BY <1>10 DEF Cancel
<1>11. CASE Start
  BY <1>11 DEF Start
<1>12. CASE GatePasses
  BY <1>12 DEF GatePasses
<1>13. CASE ProcExits
  BY <1>13 DEF ProcExits
<1>14. CASE Drain
  BY <1>14 DEF Drain
<1>15. CASE DelayEnds
  BY <1>15 DEF DelayEnds
<1>16. CASE DelayTriggered
  BY <1>16 DEF DelayTriggered
<1>17. CASE Unregister
  BY <1>17 DEF Unregister
<1>18. CASE Cancelled
  BY <1>18 DEF Cancelled
<1>19. CASE Evaluate
  <2>1. Period * (clock \div Period + 1) \in Nat
    <3>1. clock \div Period \in Nat
      OBVIOUS
    <3> QED
      BY <3>1
  <2> QED
    BY <1>19, <2>1 DEF Evaluate
<1>20. CASE TimerFires
  BY <1>20 DEF TimerFires, UnlessTooSoon
<1>21. CASE Triggered
  BY <1>21 DEF Triggered, UnlessTooSoon
<1>22. CASE BackoffEnds \/ UNCHANGED vars
  BY <1>22 DEF BackoffEnds, vars
<1>23. ASSUME NEW f \in Firers, FireStep(f) PROVE TypeOK'
  <2>1. UNCHANGED <<job, clock, ctxDone, loop, inflight, done, registered, tick, result>>
    BY <1>23 DEF FireStep, LookUp, LookAtDone, LookAtSlot, Queue, Answer
  <2>2. firer' \in [Firers -> {"idle", "found", "live", "free", "refused", "accepted"}]
    BY <1>23 DEF FireStep, LookUp, LookAtDone, LookAtSlot, Queue, Answer, At
  <2>3. late' \in [Firers -> BOOLEAN] /\ fire' \in BOOLEAN
    BY <1>23 DEF FireStep, LookUp, LookAtDone, LookAtSlot, Queue, Answer
  <2> QED
    BY <2>1, <2>2, <2>3
<1> QED
  BY <1>1, <1>2, <1>3, <1>4, <1>5, <1>6, <1>7, <1>8, <1>9, <1>10, <1>11, <1>12,
     <1>13, <1>14, <1>15, <1>16, <1>17, <1>18, <1>19, <1>20, <1>21, <1>22, <1>23 DEF
     Next, TickStep, LoopStep

(* TickBegins takes the slot and the count, and every way out of a tick    *)
(* gives them back.                                                        *)
LEMMA SlotStep == SchedInv /\ [Next]_vars => SlotHeld' /\ Ended'
<1> SUFFICES ASSUME SchedInv, [Next]_vars PROVE SlotHeld' /\ Ended'
  OBVIOUS
<1> USE SchedulerAssumption, Ranges DEF SchedInv, Goto, Return, loop, trigger,
          tick, calls, TypeOK, SlotHeld, Ended, Ticking
<1>1. CASE GateFails
  BY <1>1 DEF GateFails, TickReturns
<1>2. CASE TickBegins
  BY <1>2 DEF TickBegins
<1>3. CASE CallbackReturns
  BY <1>3 DEF CallbackReturns, Over, TickReturns
<1>4. CASE StartFails
  BY <1>4 DEF StartFails, Over, TickReturns
<1>5. CASE TickExits
  <2>1. CASE Restarts
    <3>1. retries < MaxRetries
      BY <2>1 DEF Restarts
    <3> QED
      BY <1>5, <2>1, <3>1 DEF TickExits
  <2>2. CASE ~Restarts
    BY <1>5, <2>2 DEF TickExits, Over, TickReturns
  <2> QED
    BY <2>1, <2>2
<1>6. CASE BackoffCancelled
  BY <1>6 DEF BackoffCancelled, Over, TickReturns
<1>7. CASE DrainDone
  BY <1>7 DEF DrainDone, Over, TickReturns
<1>8. CASE DrainTimesOut
  BY <1>8 DEF DrainTimesOut, Over, TickReturns
<1>9. CASE TimerFires
  BY <1>9 DEF TimerFires, UnlessTooSoon
<1>10. CASE Triggered
  BY <1>10 DEF Triggered, UnlessTooSoon
<1>11. CASE Cancelled
  BY <1>11 DEF Cancelled
<1>12. CASE Advance \/ Cancel \/ ProcExits \/ GatePasses \/ Start \/ Drain \/
          BackoffEnds \/ DelayEnds \/ DelayTriggered \/ Evaluate \/ Unregister
          \/ UNCHANGED vars
  BY <1>12 DEF Advance, Cancel, ProcExits, GatePasses, Start, Drain,
     BackoffEnds, DelayEnds, DelayTriggered, Evaluate, Unregister, vars
<1>13. ASSUME NEW f \in Firers, FireStep(f) PROVE SlotHeld' /\ Ended'
  BY <1>13 DEF FireStep, LookUp, LookAtDone, LookAtSlot, Queue, Answer, At
<1> QED
  BY <1>1, <1>2, <1>3, <1>4, <1>5, <1>6, <1>7, <1>8, <1>9, <1>10, <1>11, <1>12,
     <1>13 DEF Next, TickStep, LoopStep

(* A tick that is over has seen its process exit, or killed it. *)
LEMMA ProcessStep == SchedInv /\ [Next]_vars => OneProcess'
<1> SUFFICES ASSUME SchedInv, [Next]_vars PROVE OneProcess'
  OBVIOUS
<1> USE SchedulerAssumption, Ranges DEF SchedInv, Goto, Return, loop, trigger,
          tick, calls, TypeOK, OneProcess, TickContained, Ticking
<1>1. CASE ProcExits
  BY <1>1 DEF ProcExits
<1>2. CASE TickBegins
  BY <1>2 DEF TickBegins
<1>3. CASE CallbackReturns
  BY <1>3 DEF CallbackReturns, Over, TickReturns
<1>4. CASE Start
  BY <1>4 DEF Start
<1>5. CASE StartFails
  BY <1>5 DEF StartFails, Over, TickReturns
<1>6. CASE TickExits
  BY <1>6 DEF TickExits, Restarts, Over, TickReturns
<1>7. CASE BackoffCancelled
  BY <1>7 DEF BackoffCancelled, Over, TickReturns
<1>8. CASE DrainDone
  BY <1>8 DEF DrainDone, Over, TickReturns
<1>9. CASE DrainTimesOut
  BY <1>9 DEF DrainTimesOut, Over, TickReturns
<1>10. CASE Advance \/ Cancel \/ GateFails \/ GatePasses \/ Drain \/
          BackoffEnds \/ DelayEnds \/ DelayTriggered \/ Evaluate \/ TimerFires
          \/ Triggered \/ Unregister \/ Cancelled \/ UNCHANGED vars
  BY <1>10 DEF Advance, Cancel, GateFails, TickReturns, GatePasses, Drain,
     BackoffEnds, DelayEnds, DelayTriggered, Evaluate, TimerFires,
     UnlessTooSoon, Triggered, Unregister, Cancelled, vars
<1>11. ASSUME NEW f \in Firers, FireStep(f) PROVE OneProcess'
  BY <1>11 DEF FireStep, LookUp, LookAtDone, LookAtSlot, Queue, Answer, At
<1> QED
  BY <1>1, <1>2, <1>3, <1>4, <1>5, <1>6, <1>7, <1>8, <1>9, <1>10, <1>11 DEF Next,
     TickStep, LoopStep

(* Every way to the gate looks at the interval, and time only advances. *)
LEMMA IntervalStep == SchedInv /\ [Next]_vars => Interval'
<1> SUFFICES ASSUME SchedInv, [Next]_vars PROVE Interval'
  OBVIOUS
<1> USE SchedulerAssumption, Ranges DEF SchedInv, Goto, Return, loop, trigger,
          tick, calls, TypeOK, Interval
<1>1. CASE Advance
  BY <1>1 DEF Advance
<1>2. CASE DelayTriggered
  BY <1>2 DEF DelayTriggered
<1>3. CASE TimerFires
  BY <1>3 DEF TimerFires, UnlessTooSoon
<1>4. CASE Triggered
  BY <1>4 DEF Triggered, UnlessTooSoon
<1>5. CASE Cancel \/ ProcExits \/ GateFails \/ GatePasses \/ TickBegins \/
          CallbackReturns \/ Start \/ StartFails \/ Drain \/ TickExits \/
          BackoffEnds \/ BackoffCancelled \/ DrainDone \/ DrainTimesOut \/
          DelayEnds \/ Evaluate \/ Unregister \/ Cancelled \/ UNCHANGED vars
  BY <1>5 DEF Cancel, ProcExits, GateFails, TickReturns, GatePasses,
     TickBegins, CallbackReturns, Over, Start, StartFails, Drain, TickExits,
     Restarts, BackoffEnds, BackoffCancelled, DrainDone, DrainTimesOut,
     DelayEnds, Evaluate, Unregister, Cancelled, vars
<1>6. ASSUME NEW f \in Firers, FireStep(f) PROVE Interval'
  BY <1>6 DEF FireStep, LookUp, LookAtDone, LookAtSlot, Queue, Answer, At
<1> QED
  BY <1>1, <1>2, <1>3, <1>4, <1>5, <1>6 DEF Next, TickStep, LoopStep

(* done is closed for ever, and no late call gets past it. *)
LEMMA LateStep == SchedInv /\ [Next]_vars => Late'
<1> SUFFICES ASSUME SchedInv, [Next]_vars PROVE Late'
  OBVIOUS
<1>e. Ended'
  BY SlotStep
<1> USE DEF SchedInv, TypeOK, Late, Ended
<1>1. ASSUME UNCHANGED <<firer, late>>, pc = "returned" => pc' = "returned" PROVE Late'
  BY <1>1, <1>e
<1>2. ASSUME NEW f \in Firers, FireStep(f) PROVE Late'
  <2>1. CASE LookUp(f)
    BY <2>1 DEF LookUp, At, trigger
  <2>2. CASE LookAtDone(f)
    BY <2>2 DEF LookAtDone, At, trigger
  <2>3. CASE LookAtSlot(f) \/ Queue(f) \/ Answer(f)
    BY <2>3 DEF LookAtSlot, Queue, Answer, At, trigger
  <2> QED
    BY <1>2, <2>1, <2>2, <2>3 DEF FireStep
<1>3. ASSUME TickStep \/ LoopStep \/ Cancelled PROVE Late'
  <2>1. UNCHANGED <<firer, late>>
    BY <1>3 DEF TickStep, LoopStep, GateFails, GatePasses, TickBegins,
       CallbackReturns, Start, StartFails, Drain, TickExits, BackoffEnds,
       BackoffCancelled, DrainDone, DrainTimesOut, DelayEnds, DelayTriggered,
       Evaluate, TimerFires, Triggered, Unregister, Cancelled, calls
  <2>2. pc = "returned" => pc' = "returned"
    BY <1>3 DEF TickStep, LoopStep, GateFails, GatePasses, TickBegins,
       CallbackReturns, Start, StartFails, Drain, TickExits, BackoffEnds,
       BackoffCancelled, DrainDone, DrainTimesOut, DelayEnds, DelayTriggered,
       Evaluate, TimerFires, Triggered, Unregister, Cancelled, Goto, Return, Over,
       TickReturns, UnlessTooSoon, loop
  <2> QED
    BY <2>1, <2>2, <1>1
<1>4. CASE Advance \/ Cancel \/ ProcExits \/ UNCHANGED vars
  BY <1>4, <1>1 DEF Advance, Cancel, ProcExits, vars, calls, loop
<1> QED
  BY <1>2, <1>3, <1>4 DEF Next

(* A tick that was asked for during the delay ends in a return. *)
LEMMA EarlyStep == SchedInv /\ [Next]_vars => Early'
<1> SUFFICES ASSUME SchedInv, [Next]_vars PROVE Early'
  OBVIOUS
<1> USE DEF SchedInv, TypeOK, Early, Goto, Return, loop
<1>1. CASE TickStep
  <2> USE <1>1 DEF TickStep
  <2>1. early' = early
    BY DEF GateFails, GatePasses, TickBegins, CallbackReturns, Start, StartFails,
       Drain, TickExits, BackoffEnds, BackoffCancelled, DrainDone, DrainTimesOut
  <2>2. \/ pc' \in {"acquire", "callback", "process", "select", "backoff", "draining"}
        \/ \E r \in {"nil", "error"} : TickReturns(r)
    BY Ranges DEF GateFails, GatePasses, TickBegins, CallbackReturns, Start, StartFails,
       Drain, TickExits, BackoffEnds, BackoffCancelled, DrainDone, DrainTimesOut, Over
  <2> QED
    BY <2>1, <2>2 DEF TickReturns
<1>2. CASE LoopStep \/ Cancelled
  BY <1>2 DEF LoopStep, DelayEnds, DelayTriggered, Evaluate, TimerFires, Triggered, UnlessTooSoon,
     Unregister, Cancelled
<1>3. CASE Advance \/ Cancel \/ ProcExits \/ UNCHANGED vars
  BY <1>3 DEF Advance, Cancel, ProcExits, vars
<1>4. ASSUME NEW f \in Firers, FireStep(f) PROVE Early'
  BY <1>4 DEF FireStep, LookUp, LookAtDone, LookAtSlot, Queue, Answer
<1> QED
  BY <1>1, <1>2, <1>3, <1>4 DEF Next

----------------------------------------------------------------------------
(* The invariant holds of every run. *)
THEOREM Invariant == Spec => []SchedInv
<1>1. SchedInv /\ [Next]_vars => SchedInv'
  BY TypeStep, SlotStep, ProcessStep, IntervalStep, LateStep, EarlyStep DEF SchedInv
<1> QED
  BY InvInit, <1>1, PTL DEF Spec

(* The slot and the active count are held while a tick runs and no longer, *)
(* whichever way the tick ends.                                            *)
THEOREM SlotReleased == Spec => []SlotHeld
<1>1. SchedInv => SlotHeld
  BY DEF SchedInv
<1> QED
  BY Invariant, <1>1, PTL

(* The process of a tick ends with the tick, or is given up by a drain     *)
(* that may not kill it.                                                   *)
THEOREM ProcessEndsWithTick == Spec => []TickContained
<1>1. SchedInv => TickContained
  BY DEF SchedInv, OneProcess
<1> QED
  BY Invariant, <1>1, PTL

(* Two ticks are MinInterval apart, whether the clock or a trigger asks.   *)
THEOREM TicksSpaced == Spec => Spaced
<1>1. SchedInv /\ [Next]_vars
        => [pc = "acquire" /\ Ticking' => clock - lastRun >= MinInterval]_vars
  BY DEF SchedInv, Interval
<1> QED
  BY Invariant, <1>1, PTL DEF Spec, Spaced

(* No request is accepted from a caller that came after the return.        *)
THEOREM NoLateAccept == Spec => []LateRefused
<1>1. SchedInv => LateRefused
  BY DEF SchedInv, Late, LateRefused
<1> QED
  BY Invariant, <1>1, PTL

----------------------------------------------------------------------------
(* A scheduled node implements the contract the coordinator has with it.   *)

(* A step that keeps the phase, the count and the outcome is hidden. *)
LEMMA Hidden ==
  ASSUME UNCHANGED <<early, active, result, ctxDone>>,
         \/ pc' = pc
         \/ pc' \in {"evaluate", "wait"} /\ pc \in {"evaluate", "wait"}
         \/ pc' \in {"evaluate", "gate"} /\ pc = "wait" /\ ~early
         \/ pc = "gate" /\ pc' = "acquire"
         \/ pc = "gate" /\ pc' = "evaluate" /\ ~early
         \/ Ticking /\ Ticking'
  PROVE  UNCHANGED Contract!vars
<1>1. Phase' = Phase
  BY DEF Phase, Ticking
<1> QED
  BY <1>1 DEF Contract!vars

(* Every way out of a tick is an end of the tick or a failure of the node. *)
LEMMA TickOver ==
  ASSUME SchedInv, Ticking, NEW r \in {"nil", "error"}, TickReturns(r), active' = 0,
         UNCHANGED <<early, ctxDone>>
  PROVE  Contract!Next
<1>1. active = 1 /\ active' = active - 1
  BY DEF SchedInv, SlotHeld
<1>2. Phase = IF early THEN "lasttick" ELSE "tick"
  BY DEF Phase, Ticking
<1>3. CASE r = "error"
  <2>1. pc' = "returned" /\ result' = "error"
    BY <1>3 DEF TickReturns, Return
  <2>2. Phase' = "over"
    BY <2>1 DEF Phase, Ticking
  <2> QED
    BY <1>1, <1>2, <2>1, <2>2 DEF Contract!Next, Contract!TickFails, Contract!Return
<1>4. CASE r = "nil" /\ early
  <2>1. pc' = "returned" /\ result' = "nil"
    BY <1>4 DEF TickReturns, Return
  <2>2. Phase' = "over"
    BY <2>1 DEF Phase, Ticking
  <2> QED
    BY <1>1, <1>2, <1>4, <2>1, <2>2 DEF Contract!Next, Contract!TickEnds, Contract!Return
<1>5. CASE r = "nil" /\ ~early
  <2>1. pc' = "evaluate" /\ result' = result
    BY <1>5 DEF TickReturns, Goto
  <2>2. Phase' = "idle"
    BY <1>5, <2>1 DEF Phase, Ticking
  <2> QED
    BY <1>1, <1>2, <1>5, <2>1, <2>2 DEF Contract!Next, Contract!TickEnds
<1> QED
  BY <1>3, <1>4, <1>5

(* The steps of a tick. *)
LEMMA TickMapped ==
  ASSUME SchedInv, TickStep PROVE Contract!Next \/ UNCHANGED Contract!vars
<1> USE DEF Goto, loop, tick, trigger
<1>1. CASE GateFails
  <2>1. pc = "gate" /\ UNCHANGED <<early, active, ctxDone>>
    BY <1>1 DEF GateFails
  <2>2. CASE early
    <3>1. pc' = "returned" /\ result' = "nil"
      BY <1>1, <2>2 DEF GateFails, TickReturns, Return
    <3>2. Phase = "delay" /\ Phase' = "over"
      BY <2>1, <2>2, <3>1 DEF Phase, Ticking
    <3> QED
      BY <2>1, <3>1, <3>2 DEF Contract!Next, Contract!TickRefused, Contract!Return
  <2>3. CASE ~early
    <3>1. pc' = "evaluate" /\ result' = result
      BY <1>1, <2>3 DEF GateFails, TickReturns
    <3> QED
      BY <2>1, <2>3, <3>1, Hidden
  <2> QED
    BY <2>2, <2>3
<1>2. CASE TickBegins
  <2>1. /\ pc = "acquire" /\ pc' = job.tick /\ active' = 1
        /\ UNCHANGED <<early, result, ctxDone>>
    BY <1>2 DEF TickBegins
  <2>2. active = 0 /\ pc' \in {"callback", "process"}
    BY <2>1, Ranges DEF SchedInv, SlotHeld, TypeOK, Ticking
  <2>3. Phase = IF early THEN "delay" ELSE "idle"
    BY <2>1 DEF Phase, Ticking
  <2>4. Phase' = IF early THEN "lasttick" ELSE "tick"
    BY <2>1, <2>2 DEF Phase, Ticking
  <2> QED
    BY <2>1, <2>2, <2>3, <2>4 DEF Contract!Next, Contract!TickBegins
<1>3. CASE GatePasses \/ Start \/ Drain \/ BackoffEnds
  <2>1. UNCHANGED <<early, active, result, ctxDone>>
    BY <1>3 DEF GatePasses, Start, Drain, BackoffEnds
  <2>2. (pc = "gate" /\ pc' = "acquire") \/ (Ticking /\ Ticking')
    BY <1>3 DEF GatePasses, Start, Drain, BackoffEnds, Ticking
  <2> QED
    BY <2>1, <2>2, Hidden
<1>4. CASE CallbackReturns \/ StartFails \/ BackoffCancelled \/ DrainDone \/ DrainTimesOut
  <2>1. Ticking /\ UNCHANGED <<early, ctxDone>>
    BY <1>4 DEF CallbackReturns, StartFails, BackoffCancelled, DrainDone, DrainTimesOut, Ticking
  <2>2. PICK r \in {"nil", "error"} : Over(r)
    BY <1>4 DEF CallbackReturns, StartFails, BackoffCancelled, DrainDone, DrainTimesOut
  <2> QED
    BY <2>1, <2>2, TickOver DEF Over
<1>5. CASE TickExits
  <2>1. Ticking /\ UNCHANGED <<early, ctxDone>>
    BY <1>5 DEF TickExits, Ticking
  <2>2. CASE Restarts
    <3>1. pc' = "backoff" /\ UNCHANGED <<active, result>>
      BY <1>5, <2>2 DEF TickExits
    <3> QED
      BY <2>1, <3>1, Hidden DEF Ticking
  <2>3. CASE ~Restarts
    <3>1. Over("nil")
      BY <1>5, <2>3 DEF TickExits
    <3> QED
      BY <2>1, <3>1, TickOver DEF Over
  <2> QED
    BY <2>2, <2>3
<1> QED
  BY <1>1, <1>2, <1>3, <1>4, <1>5 DEF TickStep

(* The steps of the loop around the ticks. *)
LEMMA LoopMapped ==
  ASSUME SchedInv, LoopStep \/ Cancelled PROVE Contract!Next \/ UNCHANGED Contract!vars
<1> USE DEF Goto, tick, trigger, loop
<1>1. CASE DelayEnds
  <2>1. pc = "delay" /\ pc' = "evaluate" /\ UNCHANGED <<early, active, result, ctxDone>>
    BY <1>1 DEF DelayEnds
  <2>2. Phase = "delay" /\ Phase' = "idle"
    BY <2>1 DEF Phase, Ticking, SchedInv, Early
  <2> QED
    BY <2>1, <2>2 DEF Contract!Next, Contract!DelayEnds
<1>2. CASE DelayTriggered
  <2>1. pc = "delay" /\ pc' = "gate" /\ early' /\ UNCHANGED <<active, result, ctxDone>>
    BY <1>2 DEF DelayTriggered
  <2>2. Phase = "delay" /\ Phase' = "delay"
    BY <2>1 DEF Phase, Ticking
  <2> QED
    BY <2>1, <2>2 DEF Contract!vars
<1>3. CASE Evaluate \/ Unregister
  <2>1. UNCHANGED <<early, active, result, ctxDone>>
    BY <1>3 DEF Evaluate, Unregister
  <2>2. pc' = pc \/ (pc' = "wait" /\ pc = "evaluate")
    BY <1>3 DEF Evaluate, Unregister
  <2> QED
    BY <2>1, <2>2, Hidden
<1>4. CASE TimerFires \/ Triggered
  <2>1. pc = "wait" /\ UNCHANGED <<early, active, result, ctxDone>>
    BY <1>4 DEF TimerFires, Triggered, UnlessTooSoon
  <2>2. pc' \in {"evaluate", "gate"} /\ ~early
    BY <1>4, <2>1 DEF TimerFires, Triggered, UnlessTooSoon, SchedInv, Early
  <2> QED
    BY <2>1, <2>2, Hidden
<1>5. CASE Cancelled
  <2>1. /\ pc \in {"delay", "wait"} /\ ctxDone /\ pc' = "returned" /\ result' = "nil"
        /\ UNCHANGED <<early, active, ctxDone>>
    BY <1>5 DEF Cancelled, Return
  <2>2. Phase \in {"delay", "idle"} /\ Phase' = "over"
    BY <2>1 DEF Phase, Ticking
  <2> QED
    BY <2>1, <2>2 DEF Contract!Next, Contract!Stops, Contract!Return
<1> QED
  BY <1>1, <1>2, <1>3, <1>4, <1>5 DEF LoopStep

(* Every step is a step of the contract or hidden by it. *)
LEMMA ContractStep == SchedInv /\ [Next]_vars => [Contract!Next]_(Contract!vars)
<1> SUFFICES ASSUME SchedInv, [Next]_vars PROVE Contract!Next \/ UNCHANGED Contract!vars
  OBVIOUS
<1>1. CASE Cancel
  <2>1. ctxDone' = TRUE /\ UNCHANGED <<pc, early, active, result>>
    BY <1>1 DEF Cancel, loop, tick
  <2>2. Phase' = Phase
    BY <2>1 DEF Phase, Ticking
  <2> QED
    BY <2>1, <2>2 DEF Contract!Next, Contract!Cancel
<1>2. CASE Advance \/ ProcExits \/ UNCHANGED vars
  <2>1. UNCHANGED <<pc, early, active, result, ctxDone>>
    BY <1>2 DEF Advance, ProcExits, vars, loop, tick
  <2> QED
    BY <2>1, Hidden
<1>3. ASSUME NEW f \in Firers, FireStep(f) PROVE UNCHANGED Contract!vars
  <2>1. UNCHANGED <<pc, early, active, result, ctxDone>>
    BY <1>3 DEF FireStep, LookUp, LookAtDone, LookAtSlot, Queue, Answer, loop, tick
  <2>2. pc' = pc
    BY <2>1
  <2> QED
    BY <2>1, <2>2, Hidden
<1> QED
  BY <1>1, <1>2, <1>3, TickMapped, LoopMapped DEF Next

(* Whatever the job, the gate, the triggers and the drains: a scheduled    *)
(* node is to its chain the loop of ticks that Coordinator takes it for.   *)
THEOREM ScheduleKeepsContract == Spec => ImplementsSchedule
<1>1. Init => Contract!Init
  BY DEF Init, Phase, Ticking, Contract!Init
<1> QED
  BY Invariant, <1>1, ContractStep, PTL DEF Spec, ImplementsSchedule, Contract!Spec
=============================================================================
