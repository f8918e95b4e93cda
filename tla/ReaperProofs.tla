---------------------------- MODULE ReaperProofs ----------------------------
(***************************************************************************)
(* Theorems about the handles and the reaper, for any number of handles,   *)
(* probes and adopted orphans: as long as no pid is given out twice, an    *)
(* exit is on exactly one of its stations - the kernel's table, the        *)
(* reaper's hands, the cache, the handle's channel - until the handle      *)
(* reports it.  The exits of probes and orphans go the same ways without   *)
(* reaching a handle.                                                      *)
(***************************************************************************)
EXTENDS Reaper, TLAPS

(* A handle has a process from Start on. *)
Born ==
  \A h \in Handles :
    /\ repo[h] \in {"new", "keepalive", "rejected"} => proc[h] = "none"
    /\ repo[h] \in {"forked", "waiting"} => proc[h] # "none"

(* The child in the reaper's hands has left the kernel's table. *)
InHand ==
  /\ loop = "routing" <=> held # None
  /\ held # None => proc[held] = "gone"

(* A child that exited has an exit code. *)
HasCode == \A c \in Children : proc[c] \in {"zombie", "gone"} => exit[c] \in Codes

(* Only a handle that waits for its exit is subscribed, under its own pid; *)
(* what is sent to its channel is sent after that.                         *)
Subscribed ==
  /\ \A p \in Pids : waits[p] # None =>
       pid[waits[p]] = p /\ repo[waits[p]] = "waiting" /\ channel[waits[p]] = None
  /\ \A h \in Handles : channel[h] # None => repo[h] \in {"waiting", "done"}

(* The bytes that reach the writer were copied, and were written before. *)
Pipe == \A h \in Handles : kept[h] <= copied[h] /\ copied[h] <= written[h]

(* A cached exit is that of the reaped child with this pid. *)
Cached ==
  \A c \in Children : pending[pid[c]] # None =>
    proc[c] = "gone" /\ pending[pid[c]] = exit[c] /\ held # c

(* A handle's channel holds the handle's exit. *)
Sent ==
  \A h \in Handles : channel[h] # None =>
    proc[h] = "gone" /\ channel[h] = exit[h]

(* A handle that is done has reported its process's exit, if it had one. *)
Reported ==
  \A h \in Handles : repo[h] = "done" /\ proc[h] # "none" =>
    proc[h] = "gone" /\ code[h] = exit[h]

Delivery == DistinctPids => Cached /\ Sent /\ Reported

ReaperInv ==
  /\ TypeOK /\ Born /\ InHand /\ HasCode /\ Subscribed /\ Pipe
  /\ Delivery /\ NothingForgotten

----------------------------------------------------------------------------
(* No child, no subscriber and no cached exit at first (NewReaper). *)
LEMMA InvInit == Init => ReaperInv
<1> SUFFICES ASSUME Init PROVE ReaperInv
  OBVIOUS
<1> USE ReaperAssumption DEF Init
<1>0. pid \in [Children -> Pids] /\ 0 \in 0..MaxOutput /\ 0 \in Codes
  OBVIOUS
<1>1. TypeOK
  BY <1>0 DEF TypeOK
<1>2. Born /\ InHand /\ HasCode /\ Subscribed /\ Pipe
  <2>1. \A h \in Handles : h \in Children
    BY DEF Children
  <2> QED
    BY <2>1 DEF Born, InHand, HasCode, Subscribed, Pipe
<1>3. \A c \in Children : pid[c] \in Pids
  BY <1>1 DEF TypeOK
<1>4. Delivery /\ NothingForgotten
  BY <1>3 DEF Delivery, Cached, Sent, Reported, NothingForgotten, Children
<1> QED
  BY <1>1, <1>2, <1>4 DEF ReaperInv

(* The next-state relation, one action at a time. *)
HandleAction(h) ==
  HandleStep(h) \/ Copies(h) \/ Writes(h) \/ StartCallback(h) \/ StartFails(h)
  \/ Start(h) \/ KillWithoutProcess(h)

KernelAction == \/ \E c \in Children : Appears(c) \/ Exits(c)
                \/ \E o \in Probes : ProbeWaits(o)

(* The next-state relation, action by action. *)
LEMMA Actions ==
  ASSUME [Next]_vars
  PROVE  ReaperStep \/ KernelAction \/ (\E h \in Handles : HandleAction(h)) \/ UNCHANGED vars
BY DEF Next, KernelAction, HandleAction

(* No step leaves the types. *)
LEMMA TypeStep == TypeOK /\ Pipe /\ InHand /\ HasCode /\ [Next]_vars => TypeOK' /\ Pipe'
<1> SUFFICES ASSUME TypeOK, Pipe, InHand, HasCode, [Next]_vars PROVE TypeOK' /\ Pipe'
  OBVIOUS
<1> USE ReaperAssumption DEF TypeOK, Pipe, kernel, reaper, output
<1>1. CASE ReaperStep
  <2>1. CASE TakeSignal \/ NoneLeft \/ \E c \in Children : Wait4(c)
    BY <2>1 DEF TakeSignal, NoneLeft, Wait4
  <2>2. CASE Route
    <3> held \in Children /\ pid[held] \in Pids /\ exit[held] \in Codes
      BY <2>2 DEF Route, InHand, HasCode
    <3>1. CASE waits[pid[held]] # None
      BY <2>2, <3>1 DEF Route
    <3>2. CASE waits[pid[held]] = None
      BY <2>2, <3>2 DEF Route
    <3> QED
      BY <3>1, <3>2
  <2> QED
    BY <1>1, <2>1, <2>2 DEF ReaperStep
<1>2. CASE KernelAction
  <2>1. ASSUME NEW c \in Children, Appears(c) PROVE TypeOK' /\ Pipe'
    BY <2>1 DEF Appears, Fork
  <2>2. ASSUME NEW c \in Children, Exits(c) PROVE TypeOK' /\ Pipe'
    BY <2>2 DEF Exits
  <2>3. ASSUME NEW o \in Probes, ProbeWaits(o) PROVE TypeOK' /\ Pipe'
    BY <2>3 DEF ProbeWaits, Children
  <2> QED
    BY <1>2, <2>1, <2>2, <2>3 DEF KernelAction
<1>3. ASSUME NEW h \in Handles, HandleAction(h) PROVE TypeOK' /\ Pipe'
  <2> h \in Children
    BY DEF Children
  <2>1. CASE Register(h)
    BY <2>1 DEF Register
  <2>2. CASE Finish(h)
    BY <2>2 DEF Finish
  <2>3. CASE Copies(h)
    <3>1. kept[h] + 1 \in 0..MaxOutput /\ copied[h] + 1 \in 0..MaxOutput
      BY <2>3 DEF Copies
    <3> QED
      BY <2>3, <3>1 DEF Copies
  <2>4. CASE Writes(h)
    BY <2>4 DEF Writes
  <2>5. CASE StartCallback(h) \/ StartFails(h) \/ KillWithoutProcess(h)
    BY <2>5 DEF StartCallback, StartFails, KillWithoutProcess
  <2>6. CASE Start(h)
    BY <2>6 DEF Start, Fork
  <2> QED
    BY <1>3, <2>1, <2>2, <2>3, <2>4, <2>5, <2>6 DEF HandleAction, HandleStep
<1>4. CASE UNCHANGED vars
  BY <1>4 DEF vars
<1> QED
  BY <1>1, <1>2, <1>3, <1>4, Actions

(* The facts that hold whether or not pids are distinct. *)
Shape == Born /\ InHand /\ HasCode /\ Subscribed

(* No step leaves the shape of what is cached, held and sent. *)
LEMMA ShapeStep == ReaperInv /\ [Next]_vars => Shape'
<1> SUFFICES ASSUME ReaperInv, [Next]_vars PROVE Shape'
  OBVIOUS
<1>t. TypeOK'
  BY TypeStep DEF ReaperInv
<1> USE ReaperAssumption, <1>t DEF ReaperInv, TypeOK, Shape, Born, InHand, HasCode, Subscribed
<1>1. CASE ReaperStep
  <2>1. CASE TakeSignal \/ NoneLeft
    BY <2>1 DEF TakeSignal, NoneLeft, output, reaper, kernel
  <2>2. ASSUME NEW c \in Children, Wait4(c) PROVE Shape'
    <3>1. InHand' /\ HasCode'
      BY <2>2 DEF Wait4
    <3>2. Born' /\ Subscribed'
      BY <2>2 DEF Wait4, Children
    <3> QED
      BY <3>1, <3>2
  <2>3. CASE Route
    <3>1. CASE waits[pid[held]] # None
      <4>1. \A p, q \in Pids : waits[p] # None /\ waits[p] = waits[q] => p = q
        OBVIOUS
      <4>2. held \in Children /\ pid[held] \in Pids
        BY <2>3 DEF Route
      <4> QED
        BY <2>3, <3>1, <4>1, <4>2 DEF Route, kernel
    <3>2. CASE waits[pid[held]] = None
      BY <2>3, <3>2 DEF Route, kernel
    <3> QED
      BY <3>1, <3>2
  <2> QED
    BY <1>1, <2>1, <2>2, <2>3 DEF ReaperStep
<1>2. CASE KernelAction
  <2> USE DEF reaper, output
  <2>1. ASSUME NEW c \in Children, Appears(c) PROVE Shape'
    BY <2>1 DEF Appears, Fork, Children
  <2>2. ASSUME NEW c \in Children, Exits(c) PROVE Shape'
    <3>1. proc[c] = "running" /\ proc' = [proc EXCEPT ![c] = "zombie"]
      BY <2>2 DEF Exits
    <3>2. HasCode' /\ InHand'
      BY <2>2 DEF Exits
    <3>3. Born'
      BY <2>2, <3>1 DEF Exits, Children
    <3>4. Subscribed'
      BY <2>2 DEF Exits
    <3> QED
      BY <3>2, <3>3, <3>4
  <2>3. ASSUME NEW o \in Probes, ProbeWaits(o) PROVE Shape'
    BY <2>3 DEF ProbeWaits, Children
  <2> QED
    BY <1>2, <2>1, <2>2, <2>3 DEF KernelAction
<1>3. ASSUME NEW h \in Handles, HandleAction(h) PROVE Shape'
  <2> h \in Children /\ pid[h] \in Pids
    BY DEF Children
  <2> USE DEF kernel, reaper, output
  <2>1. CASE Register(h)
    <3>1. repo[h] = "forked" /\ repo' = [repo EXCEPT ![h] = "waiting"]
      BY <2>1 DEF Register
    <3>2. \A p \in Pids : waits[p] # h
      BY <3>1
    <3>3. CASE pending[pid[h]] # None
      BY <2>1, <3>1, <3>2, <3>3 DEF Register
    <3>4. CASE pending[pid[h]] = None
      <4>1. Born' /\ InHand' /\ HasCode'
        BY <2>1, <3>1, <3>4 DEF Register
      <4>2. channel[h] = None
        BY <3>1
      <4> QED
        BY <2>1, <3>1, <3>4, <4>1, <4>2 DEF Register
    <3> QED
      BY <3>3, <3>4
  <2>2. CASE Finish(h)
    BY <2>2 DEF Finish
  <2>3. CASE Copies(h) \/ Writes(h)
    BY <2>3 DEF Copies, Writes
  <2>4. CASE StartCallback(h) \/ StartFails(h) \/ KillWithoutProcess(h)
    BY <2>4 DEF StartCallback, StartFails, KillWithoutProcess
  <2>5. CASE Start(h)
    <3>1. proc[h] = "none" /\ repo[h] = "new"
      BY <2>5 DEF Start, Fork
    <3>2. Born'
      BY <2>5 DEF Start, Fork, Children
    <3>3. InHand' /\ HasCode' /\ Subscribed'
      BY <2>5, <3>1 DEF Start, Fork
    <3> QED
      BY <3>2, <3>3
  <2> QED
    BY <1>3, <2>1, <2>2, <2>3, <2>4, <2>5 DEF HandleAction, HandleStep
<1>4. CASE UNCHANGED vars
  BY <1>4 DEF vars
<1> QED
  BY <1>1, <1>2, <1>3, <1>4, Actions

(* The order of an exit's stations, when every pid is given out once. *)
LEMMA DeliveryStep ==
  ReaperInv /\ [Next]_vars => Delivery' /\ NothingForgotten'
<1> SUFFICES ASSUME ReaperInv, [Next]_vars, DistinctPids'
             PROVE  Cached' /\ Sent' /\ Reported' /\ NothingForgotten'
  BY DEF Delivery, NothingForgotten
<1> DEFINE Goal == Cached' /\ Sent' /\ Reported' /\ NothingForgotten'
<1>p. pid' = pid
  BY DEF Next, vars, ReaperStep, TakeSignal, NoneLeft, Wait4, Route, Appears, Exits, ProbeWaits,
         HandleStep, Register, Finish, Copies, Writes, StartCallback, StartFails, Start,
         KillWithoutProcess
<1>d. DistinctPids
  BY <1>p DEF DistinctPids
<1>t. TypeOK'
  BY TypeStep DEF ReaperInv
<1>c. \A h \in Handles : h \in Children /\ pid[h] \in Pids
  BY DEF ReaperInv, TypeOK, Children
<1>k. \A c \in Children : pid[c] \in Pids
  BY DEF ReaperInv, TypeOK
<1>i. \A c, e \in Children : pid[c] = pid[e] => c = e
  BY <1>d DEF DistinctPids
<1>a. Cached /\ Sent /\ Reported
  BY <1>d DEF ReaperInv, Delivery
<1>f. \A h \in Handles :
        /\ repo[h] = "waiting" /\ channel[h] = None =>
             waits[pid[h]] = h /\ (proc[h] = "gone" => held = h)
        /\ repo[h] = "forked" /\ proc[h] = "gone" =>
             held = h \/ pending[pid[h]] = exit[h]
  BY <1>d DEF ReaperInv, NothingForgotten
<1> HIDE DEF Goal
<1>1. ASSUME ReaperStep PROVE Goal
  <2>1. CASE TakeSignal \/ NoneLeft
    BY <2>1, <1>a, <1>f, <1>p DEF Goal, TakeSignal, NoneLeft, output, reaper, kernel,
       Cached, Sent, Reported, NothingForgotten
  <2>2. ASSUME NEW c \in Children, Wait4(c) PROVE Goal
    <3>1. /\ proc[c] = "zombie" /\ proc' = [proc EXCEPT ![c] = "gone"] /\ held' = c
          /\ held = None
          /\ UNCHANGED <<pid, exit, waits, pending, repo, channel, code>>
      BY <2>2 DEF Wait4, ReaperInv, InHand
    <3>2. Cached'
      BY <3>1, <1>a, <1>k DEF Cached, ReaperInv, TypeOK
    <3>3. Sent' /\ Reported'
      BY <3>1, <1>a, <1>c DEF Sent, Reported, ReaperInv, TypeOK
    <3>4. NothingForgotten'
      BY <3>1, <1>f, <1>c, ReaperAssumption DEF NothingForgotten, ReaperInv, TypeOK
    <3> QED
      BY <3>2, <3>3, <3>4 DEF Goal
  <2>3. CASE Route
    <3>0. held \in Children /\ proc[held] = "gone" /\ exit[held] \in Codes /\ held' = None
          /\ UNCHANGED <<pid, proc, exit, repo, code>>
      BY <2>3, <1>k DEF Route, ReaperInv, InHand, HasCode, TypeOK, kernel
    <3>1. CASE waits[pid[held]] # None
      <4>1. waits[pid[held]] \in Handles /\ pid[waits[pid[held]]] = pid[held]
            /\ repo[waits[pid[held]]] = "waiting"
        BY <3>0, <3>1, <1>k DEF ReaperInv, Subscribed, TypeOK
      <4>2. waits[pid[held]] = held
        BY <4>1, <3>0, <1>i, <1>c
      <4>3. /\ channel' = [channel EXCEPT ![held] = exit[held]]
            /\ waits' = [waits EXCEPT ![pid[held]] = None]
            /\ pending' = pending
        BY <2>3, <3>1, <4>2 DEF Route
      <4>4. Cached'
        BY <3>0, <4>3, <1>a, ReaperAssumption DEF Cached
      <4>5. Sent'
        BY <3>0, <4>1, <4>2, <4>3, <1>a DEF Sent, ReaperInv, TypeOK
      <4>6. Reported'
        BY <3>0, <1>a DEF Reported
      <4>7. NothingForgotten'
        BY <3>0, <4>1, <4>2, <4>3, <1>f, <1>c, <1>i, ReaperAssumption
           DEF NothingForgotten, ReaperInv, TypeOK
      <4> QED
        BY <4>4, <4>5, <4>6, <4>7 DEF Goal
    <3>2. CASE waits[pid[held]] = None
      <4>1. /\ pending' = [pending EXCEPT ![pid[held]] = exit[held]]
            /\ UNCHANGED <<channel, waits>>
        BY <2>3, <3>2 DEF Route
      <4>2. Cached'
        BY <3>0, <4>1, <1>a, <1>k, <1>i, ReaperAssumption DEF Cached, ReaperInv, TypeOK
      <4>3. Sent' /\ Reported'
        BY <3>0, <4>1, <1>a DEF Sent, Reported
      <4>4. NothingForgotten'
        BY <3>0, <3>2, <4>1, <1>f, <1>c, <1>i, ReaperAssumption DEF NothingForgotten, ReaperInv, TypeOK
      <4> QED
        BY <4>2, <4>3, <4>4 DEF Goal
    <3> QED
      BY <3>1, <3>2
  <2> QED
    BY <1>1, <2>1, <2>2, <2>3 DEF ReaperStep
<1>2. ASSUME KernelAction PROVE Goal
  <2>1. ASSUME NEW c \in Children, Appears(c) PROVE Goal
    BY <2>1, <1>a, <1>c, <1>f DEF Appears, Fork, Goal, Cached, Sent, Reported, NothingForgotten,
       ReaperInv, TypeOK, reaper, output
  <2>2. ASSUME NEW c \in Children, Exits(c) PROVE Goal
    BY <2>2, <1>a, <1>c, <1>f DEF Exits, Goal, Cached, Sent, Reported, NothingForgotten,
       ReaperInv, TypeOK, reaper, output
  <2>3. ASSUME NEW o \in Probes, ProbeWaits(o) PROVE Goal
    BY <2>3, <1>a, <1>c, <1>f, ReaperAssumption DEF ProbeWaits, Goal, Cached, Sent, Reported,
       NothingForgotten, ReaperInv, TypeOK, reaper, output, Children
  <2> QED
    BY <1>2, <2>1, <2>2, <2>3 DEF KernelAction
<1>3. ASSUME NEW h \in Handles, HandleAction(h) PROVE Goal
  <2>1. CASE Register(h)
    <3>1. /\ repo[h] = "forked" /\ repo' = [repo EXCEPT ![h] = "waiting"]
          /\ UNCHANGED <<pid, proc, exit, held, code>>
      BY <2>1 DEF Register, kernel, reaper
    <3>2. channel[h] = None
      BY <3>1 DEF ReaperInv, Subscribed
    <3>3. CASE pending[pid[h]] # None
      <4>1. /\ channel' = [channel EXCEPT ![h] = pending[pid[h]]]
            /\ pending' = [pending EXCEPT ![pid[h]] = None]
            /\ waits' = waits
        BY <2>1, <3>3 DEF Register
      <4>2. Cached'
        BY <3>1, <4>1, <1>a, <1>k, <1>i, <1>c DEF Cached, ReaperInv, TypeOK
      <4>3. Sent' /\ Reported'
        BY <3>1, <3>3, <4>1, <1>a, <1>c DEF Sent, Reported, Cached, ReaperInv, TypeOK
      <4>4. NothingForgotten'
        BY <3>1, <3>3, <4>1, <1>f, <1>c, <1>i DEF NothingForgotten, ReaperInv, TypeOK
      <4> QED
        BY <4>2, <4>3, <4>4 DEF Goal
    <3>4. CASE pending[pid[h]] = None
      <4>1. waits' = [waits EXCEPT ![pid[h]] = h] /\ UNCHANGED <<channel, pending>>
        BY <2>1, <3>4 DEF Register
      <4>2. Cached' /\ Sent' /\ Reported'
        BY <3>1, <4>1, <1>a DEF Cached, Sent, Reported, ReaperInv, TypeOK
      <4>3. proc[h] = "gone" => held = h
        BY <3>1, <3>4, <1>f, <1>c, ReaperAssumption DEF ReaperInv, HasCode
      <4>4. NothingForgotten'
        BY <3>1, <4>1, <4>3, <1>f, <1>c, <1>i DEF NothingForgotten, ReaperInv, TypeOK
      <4> QED
        BY <4>2, <4>4 DEF Goal
    <3> QED
      BY <3>3, <3>4
  <2>2. CASE Finish(h)
    BY <2>2, <1>a, <1>c, <1>f DEF Finish, Goal, Cached, Sent, Reported, NothingForgotten,
       ReaperInv, TypeOK, kernel, reaper, output
  <2>3. CASE Copies(h) \/ Writes(h)
    BY <2>3, <1>a, <1>f DEF Copies, Writes, Goal, Cached, Sent, Reported, NothingForgotten,
       kernel, reaper
  <2>4. CASE StartCallback(h) \/ StartFails(h) \/ KillWithoutProcess(h)
    BY <2>4, <1>a, <1>c, <1>f DEF StartCallback, StartFails, KillWithoutProcess, Goal, Cached, Sent,
       Reported, NothingForgotten, ReaperInv, Born, TypeOK, kernel, reaper, output
  <2>5. CASE Start(h)
    BY <2>5, <1>a, <1>c, <1>f DEF Start, Fork, Goal, Cached, Sent, Reported, NothingForgotten,
       ReaperInv, Subscribed, TypeOK, reaper, output
  <2> QED
    BY <1>3, <2>1, <2>2, <2>3, <2>4, <2>5 DEF HandleAction, HandleStep
<1>4. ASSUME UNCHANGED vars PROVE Goal
  BY <1>4, <1>a, <1>f DEF vars, Goal, Cached, Sent, Reported, NothingForgotten
<1>5. Goal
  BY <1>1, <1>2, <1>3, <1>4, Actions
<1> QED
  BY <1>5 DEF Goal

----------------------------------------------------------------------------
(* The invariant holds of every run, for any handles, probes and orphans. *)
THEOREM Invariant == Spec => []ReaperInv
<1>1. ReaperInv /\ [Next]_vars => ReaperInv'
  BY TypeStep, ShapeStep, DeliveryStep DEF ReaperInv, Shape
<1> QED
  BY InvInit, <1>1, PTL DEF Spec

(* A handle that is done reports the exit of its own process, although the *)
(* reaper waits for any child and the exit may come before Register.       *)
THEOREM HandleReportsOwnExit == Spec => []OwnExitDistinct
<1>1. ReaperInv => OwnExitDistinct
  BY DEF ReaperInv, Delivery, Reported, OwnExitDistinct, OwnExit
<1> QED
  BY Invariant, <1>1, PTL

(* An exit is never lost between fork and Register or between wait4 and    *)
(* the lock: the handle is subscribed, or the exit is on its way to it.    *)
THEOREM NoExitForgotten == Spec => []NothingForgotten
<1>1. ReaperInv => NothingForgotten
  BY DEF ReaperInv
<1> QED
  BY Invariant, <1>1, PTL

----------------------------------------------------------------------------
(* Every handle implements the contract of a process handle.               *)

(* A handle whose own variables do not change keeps its place. *)
LEMMA Unmoved ==
  ASSUME NEW h \in Handles, repo'[h] = repo[h], exit'[h] = exit[h], code'[h] = code[h],
         repo[h] \in {"forked", "waiting"} => (proc'[h] = "running" <=> proc[h] = "running")
  PROVE  UNCHANGED Handle(h)!vars
<1>1. Phase(h)' = Phase(h)
  BY DEF Phase
<1> QED
  BY <1>1 DEF Handle!vars

(* What the step of one handle leaves of the others. *)
LEMMA OthersUnmoved ==
  ASSUME TypeOK, NEW g \in Handles, HandleAction(g), NEW h \in Handles \ {g}
  PROVE  UNCHANGED Handle(h)!vars
<1> h \in Children /\ g \in Children
  BY DEF Children
<1>1. exit' = exit /\ proc'[h] = proc[h]
  BY DEF HandleAction, HandleStep, Register, Finish, Copies, Writes, StartCallback, StartFails,
         Start, Fork, KillWithoutProcess, kernel, TypeOK
<1>2. code'[h] = code[h]
  BY DEF HandleAction, HandleStep, Register, Finish, Copies, Writes, StartCallback, StartFails,
         Start, KillWithoutProcess, TypeOK
<1>3. repo'[h] = repo[h]
  BY DEF HandleAction, HandleStep, Register, Finish, Copies, Writes, StartCallback, StartFails,
         Start, KillWithoutProcess, TypeOK
<1> QED
  BY <1>1, <1>2, <1>3, Unmoved

(* Every step is, for each handle, a step of the contract or hidden by it. *)
LEMMA HandleMapped ==
  ASSUME ReaperInv, [Next]_vars, DistinctPids, NEW h \in Handles
  PROVE  [Handle(h)!Next]_(Handle(h)!vars)
<1> DEFINE Goal == Handle(h)!Next \/ UNCHANGED Handle(h)!vars
<1> h \in Children
  BY DEF Children
<1>t. TypeOK
  BY DEF ReaperInv
<1>1. CASE ReaperStep
  <2>1. UNCHANGED <<repo, exit, code>> /\ (proc'[h] = "running" <=> proc[h] = "running")
    BY <1>1, <1>t DEF ReaperStep, TakeSignal, NoneLeft, Wait4, Route, kernel, TypeOK
  <2> QED
    BY <2>1, Unmoved
<1>2. ASSUME NEW c \in Children, Appears(c) PROVE Goal
  <2>1. UNCHANGED <<repo, exit, code>> /\ proc'[h] = proc[h]
    BY <1>2, <1>t DEF Appears, Fork, TypeOK
  <2> QED
    BY <2>1, Unmoved
<1>3. ASSUME NEW c \in Children, Exits(c) PROVE Goal
  <2>1. CASE c = h
    <3>1. /\ proc[h] = "running" /\ proc'[h] = "zombie" /\ exit'[h] \in Codes
          /\ UNCHANGED <<repo, code>>
      BY <1>3, <1>t, <2>1 DEF Exits, TypeOK
    <3>2. repo[h] \in {"forked", "waiting"}
      BY <1>t, <3>1 DEF ReaperInv, Born, Delivery, Reported, TypeOK
    <3>3. Phase(h) = "running" /\ Phase(h)' = "exited"
      BY <3>1, <3>2 DEF Phase
    <3> QED
      BY <3>1, <3>3 DEF Handle!Next, Handle!Exits
  <2>2. CASE c # h
    <3>1. UNCHANGED <<repo, code>> /\ exit'[h] = exit[h] /\ proc'[h] = proc[h]
      BY <1>3, <1>t, <2>2 DEF Exits, TypeOK
    <3> QED
      BY <3>1, Unmoved
  <2> QED
    BY <2>1, <2>2
<1>4. ASSUME NEW o \in Probes, ProbeWaits(o) PROVE Goal
  <2>1. UNCHANGED <<repo, exit, code>> /\ proc'[h] = proc[h]
    BY <1>4, <1>t, ReaperAssumption DEF ProbeWaits, TypeOK
  <2> QED
    BY <2>1, Unmoved
<1>5. ASSUME NEW g \in Handles, HandleAction(g) PROVE Goal
  <2>1. CASE g # h
    BY <1>5, <1>t, <2>1, OthersUnmoved
  <2>2. CASE g = h
    <3>1. CASE Register(h)
      <4>1. repo[h] = "forked" /\ repo'[h] = "waiting" /\ UNCHANGED <<proc, exit, code>>
        BY <1>t, <3>1 DEF Register, kernel, TypeOK
      <4>2. Phase(h)' = Phase(h)
        BY <4>1 DEF Phase
      <4> QED
        BY <4>1, <4>2 DEF Handle!vars
    <3>2. CASE Finish(h)
      <4>1. /\ repo[h] = "waiting" /\ repo'[h] = "done" /\ code'[h] = channel[h]
            /\ channel[h] # None /\ UNCHANGED <<proc, exit>>
        BY <1>t, <3>2 DEF Finish, kernel, TypeOK
      <4>2. proc[h] = "gone" /\ channel[h] = exit[h]
        BY <4>1 DEF ReaperInv, Delivery, Sent
      <4>3. Phase(h) = "exited" /\ Phase(h)' = "done"
        BY <4>1, <4>2 DEF Phase
      <4> QED
        BY <4>1, <4>2, <4>3 DEF Handle!Next, Handle!Closes
    <3>3. CASE Copies(h) \/ Writes(h)
      <4>1. UNCHANGED <<repo, proc, exit, code>>
        BY <3>3 DEF Copies, Writes, kernel
      <4> QED
        BY <4>1, Unmoved
    <3>4. CASE StartCallback(h) \/ StartFails(h)
      <4>1. /\ repo[h] = "new" /\ repo'[h] \in {"done", "keepalive", "rejected"}
            /\ UNCHANGED <<exit, code>>
        BY <1>t, <3>4 DEF StartCallback, StartFails, kernel, TypeOK
      <4>2. Phase(h) = "new" /\ Phase(h)' \in {"failed", "open", "done"}
        BY <4>1 DEF Phase
      <4> QED
        BY <4>1, <4>2 DEF Handle!Next, Handle!StartsNone
    <3>5. CASE Start(h)
      <4>1. /\ repo[h] = "new" /\ repo'[h] = "forked" /\ proc'[h] = "running"
            /\ UNCHANGED <<exit, code>>
        BY <1>t, <3>5 DEF Start, Fork, TypeOK
      <4>2. Phase(h) = "new" /\ Phase(h)' = "running"
        BY <4>1 DEF Phase
      <4> QED
        BY <4>1, <4>2 DEF Handle!Next, Handle!Starts
    <3>6. CASE KillWithoutProcess(h)
      <4>1. /\ repo[h] \in {"new", "keepalive", "rejected"} /\ repo'[h] = "done"
            /\ UNCHANGED <<exit, code>>
        BY <1>t, <3>6 DEF KillWithoutProcess, kernel, TypeOK
      <4>2. Phase(h) \in {"new", "failed", "open"} /\ Phase(h)' = "done"
        BY <4>1 DEF Phase
      <4> QED
        BY <4>1, <4>2 DEF Handle!Next, Handle!Killed
    <3> QED
      BY <1>5, <2>2, <3>1, <3>2, <3>3, <3>4, <3>5, <3>6 DEF HandleAction, HandleStep
  <2> QED
    BY <2>1, <2>2
<1>6. CASE UNCHANGED vars
  <2>1. UNCHANGED <<repo, proc, exit, code>>
    BY <1>6 DEF vars
  <2> QED
    BY <2>1, Unmoved
<1> QED
  BY <1>1, <1>2, <1>3, <1>4, <1>5, <1>6, Actions DEF KernelAction

(* However many handles there are and whoever else has children: a handle  *)
(* closes done once, after its own process exited, with that exit's code.  *)
(* This is what Lifecycle and Scheduler take from a process.               *)
THEOREM HandlesKeepContract == Spec => ImplementsProcess
<1>1. Init => \A h \in Handles : Handle(h)!Init
  BY DEF Init, Phase, Handle!Init
<1>2. ReaperInv /\ [Next]_vars =>
        [DistinctPids => \A h \in Handles : [Handle(h)!Next]_(Handle(h)!vars)]_vars
  BY HandleMapped
<1> QED
  BY Invariant, <1>1, <1>2, PTL DEF Spec, ImplementsProcess
=============================================================================
