---------------------------- MODULE VMGateProofs ----------------------------
(***************************************************************************)
(* Theorems about the script-entry gate, for every set of callers, any of  *)
(* which may block or be HTTP routes.  The invariant says that whoever is  *)
(* between the entry lock and its release holds the lock, that inFlight    *)
(* and parkN count what they are meant to count, and that the callbacks of *)
(* nodes come only while chain.run is parked.                              *)
(***************************************************************************)
EXTENDS VMGate, FiniteSetTheorems, TLAPS

Holding == {"recheck", "enter", "inside", "unlock", "blocked", "idlewait"}

(* The deferred Unlock: every position after entry.Lock holds the lock. *)
Holders == \A c \in Callers : pc[c] \in Holding => entry = c

(* At most one callback is inside, and inFlight counts it. *)
Counted == inFlight = IF Guests = {} THEN 0 ELSE 1

(* parkN counts the script's park and that of the callback that blocks. *)
Parks == parkN = (IF script = "parked" THEN 1 ELSE 0)
                 + (IF \E c \in Callers : pc[c] = "blocked" THEN 1 ELSE 0)

(* Node callbacks come while chain.run is parked, and pass both checks. *)
NodesInChain ==
  \A c \in Nodes : pc[c] # "out" => script = "parked" /\ call = "chain" /\ pc[c] # "refused"

(* The entry lock is not leaked: its holder has the deferred Unlock ahead. *)
LockHeld == entry # Free => pc[entry] \in Holding

(* Only who makes blocking calls parks inside a callback, and the Unpark   *)
(* of a node's callback is never the outermost one.                        *)
Inner ==
  /\ \A c \in Callers : pc[c] \in {"blocked", "idlewait"} => c \in Blockers
  /\ \A c \in Nodes : pc[c] # "idlewait"

GateInv == TypeOK /\ Holders /\ Counted /\ Parks /\ NodesInChain /\ LockHeld /\ Inner

CallerAction(c) == CallerStep(c) \/ Request(c) \/ Lock(c) \/ NestedPark(c)

----------------------------------------------------------------------------
(* The invariant holds of a new gate (newVMGate). *)
LEMMA InvInit == Init => GateInv
<1> SUFFICES ASSUME Init PROVE GateInv
  OBVIOUS
<1> USE GateAssumption DEF Init
<1>1. TypeOK
  BY DEF TypeOK, Pcs
<1>2. Guests = {}
  BY DEF Guests
<1>3. Holders /\ Parks /\ NodesInChain /\ LockHeld /\ Inner
  BY DEF Holders, Holding, Parks, NodesInChain, Nodes, LockHeld, Inner
<1> QED
  BY <1>1, <1>2, <1>3 DEF GateInv, Counted

(* What one caller does leaves the others where they are. *)
LEMMA OthersStay ==
  ASSUME TypeOK, NEW c \in Callers, CallerAction(c)
  PROVE  /\ pc' \in [Callers -> Pcs]
         /\ \A d \in Callers \ {c} : pc'[d] = pc[d]
         /\ UNCHANGED <<routes, script, call, lines>>
<1> USE DEF TypeOK, Pcs, Goto, scriptVars
<1>1. CASE CallerStep(c)
  BY <1>1 DEF CallerStep, Check, Recheck, Enter, Leave, Unlock, Refused, NestedUnpark
<1>2. CASE Request(c) \/ Lock(c) \/ NestedPark(c)
  BY <1>2 DEF Request, Lock, NestedPark
<1> QED
  BY <1>1, <1>2 DEF CallerAction

(* The entry lock is kept by whoever has passed it. *)
LEMMA HoldersStep == GateInv /\ [Next]_vars => Holders'
<1> SUFFICES ASSUME GateInv, [Next]_vars PROVE Holders'
  OBVIOUS
<1> USE DEF GateInv, TypeOK, Holders, Holding
<1>1. CASE ScriptStep \/ (\E k \in {"chain", "run", "capture"} : Park(k)) \/ UNCHANGED vars
  BY <1>1 DEF ScriptStep, Unpark, Drained, DeliverLines, Park, vars
<1>2. ASSUME NEW c \in Callers, CallerAction(c) PROVE Holders'
  <2> USE DEF Goto, scriptVars
  <2>1. CASE CallerStep(c)
    <3>1. CASE Check(c) \/ Recheck(c) \/ Enter(c) \/ Leave(c) \/ Refused(c) \/ NestedUnpark(c)
      BY <3>1 DEF Check, Recheck, Enter, Leave, Refused, NestedUnpark
    <3>2. CASE Unlock(c)
      BY <3>2, GateAssumption DEF Unlock
    <3> QED
      BY <2>1, <3>1, <3>2 DEF CallerStep
  <2>2. CASE Lock(c)
    BY <2>2, GateAssumption DEF Lock
  <2>3. CASE Request(c) \/ NestedPark(c)
    BY <2>3 DEF Request, NestedPark
  <2> QED
    BY <1>2, <2>1, <2>2, <2>3 DEF CallerAction
<1> QED
  BY <1>1, <1>2 DEF Next, CallerAction

(* The cardinality of the callbacks inside is what inFlight is. *)
LEMMA GuestsCounted ==
  ASSUME GateInv
  PROVE  /\ inFlight = Cardinality(Guests)
         /\ \A c, d \in Guests : c = d
<1> USE DEF GateInv, TypeOK, Holders, Holding, Counted
<1>1. \A c \in Guests : c = entry
  BY DEF Guests
<1>2. CASE Guests = {}
  BY <1>2, FS_EmptySet
<1>3. CASE Guests # {}
  <2>1. Guests = {entry}
    BY <1>1, <1>3
  <2> QED
    BY <1>1, <1>3, <2>1, FS_Singleton
<1> QED
  BY <1>1, <1>2, <1>3

(* Who enters is alone, and who leaves was alone. *)
LEMMA CountedStep == GateInv /\ [Next]_vars => Counted'
<1> SUFFICES ASSUME GateInv, [Next]_vars PROVE Counted'
  OBVIOUS
<1> USE DEF GateInv, TypeOK, Holders, Holding, Counted, Guests
<1>1. CASE ScriptStep \/ (\E k \in {"chain", "run", "capture"} : Park(k)) \/ UNCHANGED vars
  <2>1. UNCHANGED <<pc, inFlight>>
    BY <1>1 DEF ScriptStep, Unpark, Drained, DeliverLines, Park, vars
  <2> QED
    BY <2>1
<1>2. ASSUME NEW c \in Callers, CallerAction(c) PROVE Counted'
  <2> USE DEF Goto, scriptVars
  <2>0. \A d \in Callers \ {c} : pc'[d] = pc[d]
    BY <1>2, OthersStay
  <2>1. CASE Enter(c)
    <3>1. pc[c] = "enter" /\ pc' = [pc EXCEPT ![c] = "inside"] /\ inFlight' = inFlight + 1
      BY <2>1 DEF Enter
    <3>2. entry = c
      BY <3>1
    <3>3. Guests = {}
      BY <3>1, <3>2
    <3>4. c \in Guests'
      BY <3>1
    <3> QED
      BY <3>1, <3>3, <3>4
  <2>2. CASE Leave(c)
    <3>1. pc[c] = "inside" /\ pc' = [pc EXCEPT ![c] = "unlock"] /\ inFlight' = inFlight - 1
      BY <2>2 DEF Leave
    <3>2. entry = c /\ c \in Guests
      BY <3>1
    <3>3. Guests' = {}
      BY <3>1, <3>2
    <3> QED
      BY <3>1, <3>2, <3>3
  <2>3. CASE NestedPark(c) \/ NestedUnpark(c)
    <3>1. inFlight' = inFlight /\ c \in Guests /\ c \in Guests'
      BY <2>3 DEF NestedPark, NestedUnpark
    <3> QED
      BY <3>1
  <2>4. CASE Check(c) \/ Recheck(c) \/ Unlock(c) \/ Refused(c) \/ Request(c) \/ Lock(c)
    <3>1. inFlight' = inFlight /\ c \notin Guests /\ c \notin Guests'
      BY <2>4 DEF Check, Recheck, Unlock, Refused, Request, Lock
    <3>2. Guests' = Guests
      BY <2>0, <3>1
    <3> QED
      BY <3>1, <3>2
  <2> QED
    BY <1>2, <2>1, <2>2, <2>3, <2>4 DEF CallerAction, CallerStep
<1> QED
  BY <1>1, <1>2 DEF Next, CallerAction

(* Park, Unpark and the nested ones are the only steps that change parkN,  *)
(* and at most one callback blocks.                                        *)
LEMMA ParksStep == GateInv /\ [Next]_vars => Parks'
<1> SUFFICES ASSUME GateInv, [Next]_vars PROVE Parks'
  OBVIOUS
<1> USE DEF GateInv, TypeOK, Holders, Holding, Parks
<1>1. CASE \E k \in {"chain", "run", "capture"} : Park(k)
  BY <1>1 DEF Park
<1>2. CASE Unpark
  <2>1. script = "parked" /\ parkN' = parkN - 1 /\ pc' = pc
    BY <1>2 DEF Unpark
  <2>2. script' # "parked"
    BY <1>2 DEF Unpark, Resumed
  <2> QED
    BY <2>1, <2>2
<1>3. CASE Drained \/ DeliverLines \/ UNCHANGED vars
  <2>1. UNCHANGED <<parkN, pc>> /\ (script' = "parked" <=> script = "parked")
    BY <1>3 DEF Drained, DeliverLines, Resumed, vars
  <2> QED
    BY <2>1
<1>4. ASSUME NEW c \in Callers, CallerAction(c) PROVE Parks'
  <2> USE DEF Goto, scriptVars
  <2>0. script' = script /\ \A d \in Callers \ {c} : pc'[d] = pc[d]
    BY <1>4, OthersStay
  <2>1. CASE NestedPark(c)
    <3>1. pc[c] = "inside" /\ pc' = [pc EXCEPT ![c] = "blocked"] /\ parkN' = parkN + 1
      BY <2>1 DEF NestedPark
    <3>2. \A d \in Callers : pc[d] # "blocked"
      BY <3>1
    <3> QED
      BY <2>0, <3>1, <3>2
  <2>2. CASE NestedUnpark(c)
    <3>1. pc[c] = "blocked" /\ parkN' = parkN - 1 /\ pc'[c] # "blocked"
      BY <2>2 DEF NestedUnpark
    <3>2. \A d \in Callers : pc'[d] # "blocked"
      BY <2>0, <3>1
    <3> QED
      BY <2>0, <3>1, <3>2
  <2>3. CASE Check(c) \/ Recheck(c) \/ Enter(c) \/ Leave(c) \/ Unlock(c) \/ Refused(c)
             \/ Request(c) \/ Lock(c)
    <3>1. parkN' = parkN /\ pc[c] # "blocked" /\ pc'[c] # "blocked"
      BY <2>3 DEF Check, Recheck, Enter, Leave, Unlock, Refused, Request, Lock
    <3>2. (\E d \in Callers : pc'[d] = "blocked") <=> (\E d \in Callers : pc[d] = "blocked")
      BY <2>0, <3>1
    <3> QED
      BY <2>0, <3>1, <3>2
  <2> QED
    BY <1>4, <2>1, <2>2, <2>3 DEF CallerAction, CallerStep
<1> QED
  BY <1>1, <1>2, <1>3, <1>4 DEF Next, CallerAction, ScriptStep

(* chain.run outlives its nodes, and while it is parked both checks pass. *)
LEMMA NodesInChainStep == GateInv /\ [Next]_vars => NodesInChain'
<1> SUFFICES ASSUME GateInv, [Next]_vars PROVE NodesInChain'
  OBVIOUS
<1> USE DEF GateInv, TypeOK, NodesInChain, Nodes
<1>1. CASE \E k \in {"chain", "run", "capture"} : Park(k)
  BY <1>1 DEF Park
<1>2. CASE Unpark
  BY <1>2 DEF Unpark
<1>3. CASE Drained \/ DeliverLines \/ UNCHANGED vars
  BY <1>3 DEF Drained, DeliverLines, vars
<1>4. ASSUME NEW c \in Callers, CallerAction(c) PROVE NodesInChain'
  <2>0. /\ UNCHANGED <<routes, script, call>>
        /\ \A d \in Callers \ {c} : pc'[d] = pc[d]
    BY <1>4, OthersStay
  <2>1. SUFFICES ASSUME c \notin routes, pc'[c] # "out"
                 PROVE  script = "parked" /\ call = "chain" /\ pc'[c] # "refused"
    BY <2>0
  <2>2. script = "parked" /\ call = "chain"
    <3>1. CASE pc[c] # "out"
      BY <2>1, <3>1
    <3>2. CASE pc[c] = "out"
      BY <1>4, <2>1, <3>2 DEF CallerAction, CallerStep, Request, Check, Recheck, Enter, Leave,
                              Unlock, Refused, NestedUnpark, Lock, NestedPark
    <3> QED
      BY <3>1, <3>2
  <2>3. isParked
    BY <2>2 DEF Parks, isParked
  <2>4. pc'[c] # "refused"
    BY <1>4, <2>1, <2>2, <2>3
      DEF CallerAction, CallerStep, Request, Check, Recheck, Enter, Leave,
          Unlock, Refused, NestedUnpark, Lock, NestedPark, Goto
  <2> QED
    BY <2>2, <2>4
<1> QED
  BY <1>1, <1>2, <1>3, <1>4 DEF Next, CallerAction, ScriptStep

(* Whoever goes past Lock comes to Unlock, and to nowhere else. *)
LEMMA LockHeldStep == GateInv /\ [Next]_vars => LockHeld'
<1> SUFFICES ASSUME GateInv, [Next]_vars PROVE LockHeld'
  OBVIOUS
<1> USE DEF GateInv, TypeOK, Holders, Holding, LockHeld
<1>1. CASE ScriptStep \/ (\E k \in {"chain", "run", "capture"} : Park(k)) \/ UNCHANGED vars
  BY <1>1 DEF ScriptStep, Unpark, Drained, DeliverLines, Park, vars
<1>2. ASSUME NEW c \in Callers, CallerAction(c) PROVE LockHeld'
  <2> USE DEF Goto, scriptVars
  <2>1. CASE Lock(c) \/ Unlock(c)
    BY <2>1 DEF Lock, Unlock
  <2>2. CASE Request(c) \/ Check(c) \/ Refused(c)
    <3>1. pc[c] \notin Holding /\ entry' = entry
      BY <2>2 DEF Request, Check, Refused
    <3>2. \A d \in Callers \ {c} : pc'[d] = pc[d]
      BY <1>2, OthersStay
    <3> QED
      BY <3>1, <3>2
  <2>3. CASE Recheck(c) \/ Enter(c) \/ Leave(c) \/ NestedPark(c) \/ NestedUnpark(c)
    BY <2>3 DEF Recheck, Enter, Leave, NestedPark, NestedUnpark
  <2> QED
    BY <1>2, <2>1, <2>2, <2>3 DEF CallerAction, CallerStep
<1> QED
  BY <1>1, <1>2 DEF Next, CallerAction

(* While the callback of a node blocks, the script is parked as well: its  *)
(* Unpark leaves parkN above zero and does not wait.                       *)
LEMMA InnerStep == GateInv /\ [Next]_vars => Inner'
<1> SUFFICES ASSUME GateInv, [Next]_vars PROVE Inner'
  OBVIOUS
<1> USE DEF GateInv, TypeOK, Inner, Nodes
<1>1. CASE ScriptStep \/ (\E k \in {"chain", "run", "capture"} : Park(k)) \/ UNCHANGED vars
  BY <1>1 DEF ScriptStep, Unpark, Drained, DeliverLines, Park, vars
<1>2. ASSUME NEW c \in Callers, CallerAction(c) PROVE Inner'
  <2>0. /\ \A d \in Callers \ {c} : pc'[d] = pc[d]
        /\ routes' = routes
    BY <1>2, OthersStay
  <2>1. CASE NestedUnpark(c)
    <3>1. c \in Blockers /\ pc[c] = "blocked"
      BY <2>1 DEF NestedUnpark
    <3>2. ASSUME c \in Nodes PROVE pc'[c] # "idlewait"
      <4>1. script = "parked" /\ parkN = 2
        BY <3>1, <3>2 DEF NodesInChain, Parks
      <4>2. parkN' = 1
        BY <2>1, <4>1 DEF NestedUnpark
      <4> QED
        BY <2>1, <4>2 DEF NestedUnpark, Goto
    <3> QED
      BY <2>0, <3>1, <3>2
  <2>2. CASE NestedPark(c)
    BY <2>0, <2>2 DEF NestedPark, Goto
  <2>3. CASE ~NestedUnpark(c) /\ ~NestedPark(c)
    <3>1. pc'[c] \notin {"blocked", "idlewait"}
      BY <1>2, <2>3 DEF CallerAction, CallerStep, Request, Check, Recheck, Enter, Leave, Unlock,
                        Refused, Lock, Goto
    <3> QED
      BY <2>0, <3>1
  <2> QED
    BY <2>1, <2>2, <2>3
<1> QED
  BY <1>1, <1>2 DEF Next, CallerAction

(* No step of the script or of a caller leaves the types. *)
LEMMA TypeStep == GateInv /\ [Next]_vars => TypeOK'
<1> SUFFICES ASSUME GateInv, [Next]_vars PROVE TypeOK'
  OBVIOUS
<1>0. Counted' /\ inFlight' \in Nat
  BY CountedStep DEF Counted
<1> USE DEF GateInv, TypeOK
<1>1. CASE ScriptStep \/ (\E k \in {"chain", "run", "capture"} : Park(k)) \/ UNCHANGED vars
  BY <1>0, <1>1 DEF ScriptStep, Unpark, Drained, DeliverLines, Park, Resumed, vars, Pcs
<1>2. ASSUME NEW c \in Callers, CallerAction(c) PROVE TypeOK'
  <2>1. pc' \in [Callers -> Pcs] /\ UNCHANGED <<routes, script, call, lines>>
    BY <1>2, OthersStay
  <2>2. parkN' \in Nat /\ entry' \in Callers \cup {Free}
    BY <1>2 DEF CallerAction, CallerStep, Request, Check, Recheck, Enter, Leave,
                Unlock, Refused, NestedUnpark, Lock, NestedPark
  <2> QED
    BY <1>0, <2>1, <2>2
<1> QED
  BY <1>1, <1>2 DEF Next, CallerAction

(* The invariant holds of every run of the gate and its callers. *)
THEOREM Invariant == Spec => []GateInv
<1>1. GateInv /\ [Next]_vars => GateInv'
  BY TypeStep, HoldersStep, CountedStep, ParksStep, NodesInChainStep, LockHeldStep, InnerStep
     DEF GateInv
<1> QED
  BY InvInit, <1>1, PTL DEF Spec

----------------------------------------------------------------------------
(* The script frame and the callbacks of a chain are never in the VM       *)
(* together, nor two callbacks: what Unpark and the entry lock are for.    *)
THEOREM ChainExclusive == Spec => []ChainExclusiveVM
<1>1. GateInv => ChainExclusiveVM
  <2> SUFFICES ASSUME GateInv, routes = {} PROVE ExclusiveVM
    BY DEF ChainExclusiveVM
  <2>1. ScriptInside => Guests = {}
    BY DEF GateInv, NodesInChain, Nodes, ScriptInside, Guests
  <2> QED
    BY <2>1, GuestsCounted DEF ExclusiveVM
<1> QED
  BY Invariant, <1>1, PTL

(* No callback of a node is skipped, however callbacks nest. *)
THEOREM NodesNeverRefused == Spec => []NodesAdmitted
<1>1. GateInv => NodesAdmitted
  BY DEF GateInv, NodesInChain, NodesAdmitted
<1> QED
  BY Invariant, <1>1, PTL

(* However many callers wait at the gate: the one they wait for is never   *)
(* waiting himself, and an Unpark waits for a callback that has only to    *)
(* return.                                                                 *)
THEOREM NoWaitInCircle == Spec => []NobodyStuck
<1>1. GateInv => NobodyStuck
  <2> SUFFICES ASSUME GateInv, Blockers \cap routes = {}
               PROVE  /\ entry # Free =>
                           pc[entry] \in {"recheck", "enter", "inside", "unlock", "blocked"}
                      /\ \A c \in Callers : pc[c] # "idlewait"
                      /\ script = "draining" /\ inFlight > 0 => \E c \in routes : pc[c] = "inside"
    BY DEF NobodyStuck
  <2> USE DEF GateInv, TypeOK
  <2>1. \A c \in Callers : pc[c] # "idlewait"
    BY DEF Inner, Nodes
  <2>2. entry # Free => pc[entry] \in {"recheck", "enter", "inside", "unlock", "blocked"}
    BY <2>1 DEF LockHeld, Holding
  <2>3. ASSUME script = "draining", inFlight > 0 PROVE \E c \in routes : pc[c] = "inside"
    <3>1. PICK c \in Callers : pc[c] \in {"inside", "blocked", "idlewait"}
      BY <2>3 DEF Counted, Guests
    <3>2. c \in routes
      BY <2>3, <3>1 DEF NodesInChain, Nodes
    <3>3. pc[c] = "inside"
      BY <3>1, <3>2 DEF Inner
    <3> QED
      BY <3>2, <3>3
  <2> QED
    BY <2>1, <2>2, <2>3
<1> QED
  BY Invariant, <1>1, PTL

(* The counter Unpark waits for is the number of callbacks inside, and the *)
(* entry lock of each is held until it was given back.                     *)
THEOREM InFlightCounts == Spec => []InFlightCount
<1>1. GateInv => InFlightCount
  BY GuestsCounted DEF GateInv, Holders, Holding, Guests, InFlightCount
<1> QED
  BY Invariant, <1>1, PTL

(* The second check admits nobody once the script runs again, whatever     *)
(* else is parked: a caller at the check is the only one past the lock.    *)
THEOREM NoneAdmittedLate == Spec => AdmittedWhileParked
<1>1. GateInv /\ [Next]_vars =>
        [\A c \in Callers : pc[c] # "enter" /\ pc'[c] = "enter" => script = "parked"]_vars
  <2> SUFFICES ASSUME GateInv, Next, NEW c \in Callers, pc[c] # "enter", pc'[c] = "enter"
               PROVE  script = "parked"
    OBVIOUS
  <2> USE DEF GateInv, TypeOK, Goto
  <2>1. PICK d \in Callers : CallerAction(d)
    BY DEF Next, CallerAction, ScriptStep, Unpark, Drained, DeliverLines, Park
  <2>2. d = c
    BY <2>1, OthersStay
  <2>3. pc[c] = "recheck" /\ isParked
    BY <2>1, <2>2 DEF CallerAction, CallerStep, Request, Check, Recheck, Enter, Leave,
                      Unlock, Refused, NestedUnpark, Lock, NestedPark
  <2>4. \A e \in Callers : pc[e] # "blocked"
    BY <2>3 DEF Holders, Holding
  <2> QED
    BY <2>3, <2>4 DEF Parks, isParked
<1> QED
  BY Invariant, <1>1, PTL DEF Spec, AdmittedWhileParked

----------------------------------------------------------------------------
(* Who is inside, as the abstract specification sees it. *)
Guest == IF Guests = {} THEN Free ELSE CHOOSE c \in Callers : c \in Guests

(* The guest of VMAccess is the caller inside the VM, when there is one. *)
LEMMA GuestIs ==
  ASSUME GateInv
  PROVE  /\ Guests = {} => Guest = Free
         /\ \A d \in Guests : Guest = d
<1>1. \A c, d \in Guests : c = d
  BY GuestsCounted
<1>2. Guests \subseteq Callers
  BY DEF Guests
<1> QED
  BY <1>1, <1>2 DEF Guest

(* The gate implements exclusive access to the VM for the callbacks of a   *)
(* chain: every step suspends or resumes the script, lets one callback in  *)
(* or out, or changes nothing of that.                                     *)
THEOREM GateImplementsAccess == Spec => ImplementsAccess
<1>1. Init => Access!Init
  BY DEF Init, Access!Init, Guests, ScriptInside
<1>2. GateInv /\ GateInv' /\ [Next]_vars =>
        [routes = {} => Access!Next \/ UNCHANGED Access!vars]_vars
  <2> SUFFICES ASSUME GateInv, GateInv', Next, routes = {}
               PROVE  Access!Next \/ UNCHANGED <<ScriptInside, Guest>>
    BY DEF Access!vars, Guest
  <2>0. \A c \in Callers : c \in Nodes
    BY DEF Nodes
  <2> USE DEF GateInv, TypeOK
  <2>1. CASE \E k \in {"chain", "run", "capture"} : Park(k)
    <3>1. ScriptInside /\ ~ScriptInside' /\ Guests' = Guests
      BY <2>1 DEF Park, ScriptInside, Guests
    <3>2. Guest' = Guest
      BY <3>1 DEF Guest
    <3>3. Access!Suspend
      BY <3>1, <3>2 DEF Access!Suspend, Guest, ScriptInside
    <3> QED
      BY <3>3 DEF Access!Next
  <2>2. CASE Unpark
    <3>1. Guests = {} /\ Guests' = {}
      BY <2>0, <2>2 DEF Unpark, Guests, NodesInChain
    <3>2. ~ScriptInside /\ inFlight = 0
      BY <2>2, <3>1 DEF Unpark, ScriptInside, Counted
    <3>3. ScriptInside'
      BY <2>2, <3>2 DEF Unpark, Resumed, ScriptInside
    <3> QED
      BY <3>1, <3>2, <3>3 DEF Access!Next, Access!Resume, Guest
  <2>3. CASE Drained
    <3>1. ~ScriptInside /\ ScriptInside'
      BY <2>3 DEF Drained, Resumed, ScriptInside
    <3>2. Guests = {} /\ Guests' = {}
      BY <2>3 DEF Drained, Counted, Guests
    <3> QED
      BY <3>1, <3>2 DEF Access!Next, Access!Resume, Guest
  <2>4. CASE DeliverLines
    <3>1. ScriptInside /\ ScriptInside' /\ Guests' = Guests
      BY <2>4 DEF DeliverLines, ScriptInside, Guests
    <3> QED
      BY <3>1 DEF Guest
  <2>5. ASSUME NEW c \in Callers, CallerAction(c)
        PROVE  Access!Next \/ UNCHANGED <<ScriptInside, Guest>>
    <3>0. /\ ScriptInside' = ScriptInside
          /\ \A d \in Callers \ {c} : pc'[d] = pc[d]
      BY <2>5, OthersStay DEF ScriptInside
    <3>1. CASE Enter(c)
      <4>1. pc[c] = "enter" /\ pc'[c] = "inside"
        BY <3>1 DEF Enter, Goto
      <4>2. Guests = {} /\ c \in Guests'
        BY <4>1 DEF Holders, Holding, Guests
      <4>3. ~ScriptInside
        BY <2>0, <4>1 DEF NodesInChain, ScriptInside
      <4>4. Guest = Free /\ Guest' = c
        BY <4>2, GuestsCounted, GuestIs DEF Guest
      <4> QED
        BY <3>0, <4>3, <4>4 DEF Access!Next, Access!Enter, Guest
    <3>2. CASE Leave(c)
      <4>1. pc[c] = "inside" /\ pc'[c] = "unlock"
        BY <3>2 DEF Leave, Goto
      <4>2. c \in Guests /\ Guests' = {}
        BY <3>0, <4>1 DEF Holders, Holding, Guests
      <4>3. Guest = c /\ Guest' = Free
        BY <4>2, GuestIs DEF Guest
      <4> QED
        BY <3>0, <4>3, GateAssumption DEF Access!Next, Access!Leave, Guest
    <3>3. CASE ~Enter(c) /\ ~Leave(c)
      <4>1. c \in Guests <=> c \in Guests'
        BY <2>5, <3>3 DEF CallerAction, CallerStep, Request, Check, Recheck, Unlock, Refused,
                          NestedUnpark, Lock, NestedPark, Goto, Guests
      <4>2. Guests' = Guests
        BY <3>0, <4>1 DEF Guests
      <4> QED
        BY <3>0, <4>2 DEF Guest
    <3> QED
      BY <3>1, <3>2, <3>3
  <2> QED
    BY <2>1, <2>2, <2>3, <2>4, <2>5 DEF Next, CallerAction, ScriptStep
<1> QED
  BY Invariant, <1>1, <1>2, PTL DEF Spec, ImplementsAccess
=============================================================================
