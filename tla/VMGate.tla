------------------------------- MODULE VMGate -------------------------------
(***************************************************************************)
(* The script-entry gate of the goja engine (internal/repository/js/       *)
(* runtime.go): Park and Unpark by the script's goroutine around a blocking *)
(* host call, Call and Do by the goroutines that deliver callbacks, TryCall *)
(* for the lines of a captured process.                                    *)
(*                                                                         *)
(* One action is one critical section of vmGate.mu or one operation on     *)
(* vmGate.entry.  A caller is a node of the running chain (runCallback and *)
(* scheduler ticks) or the handler of an HTTP route (ApiModule.register),  *)
(* which may come at any time.                                             *)
(***************************************************************************)
EXTENDS Integers, FiniteSets

CONSTANTS
  Callers,   \* the goroutines that deliver callbacks
  Blockers,  \* those whose callbacks make blocking host calls (process.run)
  RouteSets, \* the sets of callers that may be HTTP handlers
  Free       \* vmGate.entry is not locked

ASSUME GateAssumption ==
  /\ Blockers \subseteq Callers /\ Free \notin Callers
  /\ RouteSets \subseteq SUBSET Callers

VARIABLES
  routes,    \* the callers that are HTTP handlers; never changes
  parkN,     \* vmGate.parkN
  inFlight,  \* vmGate.inFlight
  entry,     \* the caller that holds vmGate.entry, or Free
  pc,        \* the position of each caller
  script,    \* the position of the script's goroutine
  call,      \* the blocking host call of the script
  lines      \* the captured lines of the last process.capture

vars == <<routes, parkN, inFlight, entry, pc, script, call, lines>>
scriptVars == <<script, call, lines>>

(* The nodes of the chain: their callbacks come while chain.run blocks. *)
Nodes == Callers \ routes

Goto(c, p) == pc' = [pc EXCEPT ![c] = p]

isParked == parkN > 0

Init ==
  /\ routes \in RouteSets
  /\ parkN = 0
  /\ inFlight = 0
  /\ entry = Free
  /\ pc = [c \in Callers |-> "out"]
  /\ script = "running"
  /\ call = "none"
  /\ lines = "none"

----------------------------------------------------------------------------
(* The script's goroutine                                                  *)

(* Park, at the start of chain.run, process.run, process.capture or sleep. *)
Park(k) ==
  /\ script = "running"
  /\ parkN' = parkN + 1
  /\ script' = "parked"
  /\ call' = k
  /\ lines' = IF k = "capture" THEN "captured" ELSE lines
  /\ UNCHANGED <<routes, inFlight, entry, pc>>

(* After Unpark the script runs on, or delivers the captured lines first. *)
Resumed == IF call = "capture" THEN "delivering" ELSE "running"

(* Mutant: chain.run returns while a node still delivers a callback. *)
UnparkEarly ==
  /\ script = "parked"
  /\ parkN' = IF parkN > 0 THEN parkN - 1 ELSE 0
  /\ script' = IF parkN' = 0 /\ inFlight > 0 THEN "draining" ELSE Resumed
  /\ UNCHANGED <<routes, inFlight, entry, pc, call, lines>>

(* Unpark, when the host call is over: chain.run returns after all its     *)
(* nodes have (Service.Run).                                               *)
Unpark ==
  /\ script = "parked"
  /\ call = "chain" => \A c \in Nodes : pc[c] = "out"
  /\ parkN' = IF parkN > 0 THEN parkN - 1 ELSE 0
  /\ script' = IF parkN' = 0 /\ inFlight > 0 THEN "draining" ELSE Resumed
  /\ UNCHANGED <<routes, inFlight, entry, pc, call, lines>>

(* Unpark: idle.Wait returns because the last callback left. *)
Drained ==
  /\ script = "draining"
  /\ inFlight = 0
  /\ script' = Resumed
  /\ UNCHANGED <<routes, parkN, inFlight, entry, pc, call, lines>>

(* TryCall of a line, from the goroutine that is already inside the VM: it *)
(* is admitted when the gate is open and nobody holds the entry lock.      *)
Admits == isParked /\ entry = Free

DeliverLines ==
  /\ script = "delivering"
  /\ lines' = IF Admits THEN "delivered" ELSE "skipped"
  /\ script' = "running"
  /\ UNCHANGED <<routes, parkN, inFlight, entry, pc, call>>

----------------------------------------------------------------------------
(* Call and Do                                                             *)

(* A callback is due: of a node while its chain runs, of a route any time. *)
Request(c) ==
  /\ pc[c] = "out"
  /\ c \in Nodes => script = "parked" /\ call = "chain"
  /\ Goto(c, "check")
  /\ UNCHANGED <<routes, parkN, inFlight, entry, scriptVars>>

(* The first isParked; the caller is refused when the script runs. *)
Check(c) ==
  /\ pc[c] = "check"
  /\ Goto(c, IF isParked THEN "lock" ELSE "refused")
  /\ UNCHANGED <<routes, parkN, inFlight, entry, scriptVars>>

(* Mutant: callbacks are not serialized. *)
LockShared(c) ==
  /\ pc[c] = "lock"
  /\ entry' = c
  /\ Goto(c, "recheck")
  /\ UNCHANGED <<routes, parkN, inFlight, scriptVars>>

(* entry.Lock *)
Lock(c) ==
  /\ pc[c] = "lock" /\ entry = Free
  /\ entry' = c
  /\ Goto(c, "recheck")
  /\ UNCHANGED <<routes, parkN, inFlight, scriptVars>>

(* The second isParked, with the entry lock held. *)
Recheck(c) ==
  /\ pc[c] = "recheck"
  /\ Goto(c, IF isParked THEN "enter" ELSE "unlock")
  /\ UNCHANGED <<routes, parkN, inFlight, entry, scriptVars>>

(* inFlight++, in a critical section of its own, then the callback runs. *)
Enter(c) ==
  /\ pc[c] = "enter"
  /\ inFlight' = inFlight + 1
  /\ Goto(c, "inside")
  /\ UNCHANGED <<routes, parkN, entry, scriptVars>>

(* Mutant: the callback is not counted out. *)
LeaveCounting(c) ==
  /\ pc[c] = "inside"
  /\ Goto(c, "unlock")
  /\ UNCHANGED <<routes, parkN, inFlight, entry, scriptVars>>

(* The callback returns: inFlight--, Broadcast. *)
Leave(c) ==
  /\ pc[c] = "inside"
  /\ inFlight' = inFlight - 1
  /\ Goto(c, "unlock")
  /\ UNCHANGED <<routes, parkN, entry, scriptVars>>

(* Mutant: the entry lock is leaked when the callback is not admitted. *)
UnlockNothing(c) ==
  /\ pc[c] = "unlock"
  /\ Goto(c, "out")
  /\ UNCHANGED <<routes, parkN, inFlight, entry, scriptVars>>

(* The deferred entry.Unlock. *)
Unlock(c) ==
  /\ pc[c] = "unlock"
  /\ entry' = Free
  /\ Goto(c, "out")
  /\ UNCHANGED <<routes, parkN, inFlight, scriptVars>>

(* ErrNotParked, or false: the caller skips the callback. *)
Refused(c) ==
  /\ pc[c] = "refused"
  /\ Goto(c, "out")
  /\ UNCHANGED <<routes, parkN, inFlight, entry, scriptVars>>

(* Mutant: the park is a flag and not a count. *)
NestedParkFlag(c) ==
  /\ pc[c] = "inside" /\ c \in Blockers
  /\ parkN' = 1
  /\ Goto(c, "blocked")
  /\ UNCHANGED <<routes, inFlight, entry, scriptVars>>

(* A callback parks around a blocking host call of its own. *)
NestedPark(c) ==
  /\ pc[c] = "inside" /\ c \in Blockers
  /\ parkN' = parkN + 1
  /\ Goto(c, "blocked")
  /\ UNCHANGED <<routes, inFlight, entry, scriptVars>>

(* Mutant: an Unpark closes the window whatever the nesting. *)
NestedUnparkAll(c) ==
  /\ pc[c] = "blocked"
  /\ parkN' = 0
  /\ Goto(c, "inside")
  /\ UNCHANGED <<routes, inFlight, entry, scriptVars>>

(* Only the outermost Unpark waits.  That of a callback is not outermost   *)
(* while the script stays parked; when it is, it waits for itself to leave.*)
NestedUnpark(c) ==
  /\ pc[c] = "blocked"
  /\ parkN' = IF parkN > 0 THEN parkN - 1 ELSE 0
  /\ Goto(c, IF parkN' = 0 /\ inFlight > 0 THEN "idlewait" ELSE "inside")
  /\ UNCHANGED <<routes, inFlight, entry, scriptVars>>

----------------------------------------------------------------------------
ScriptStep == Unpark \/ Drained \/ DeliverLines

CallerStep(c) ==
  \/ Check(c) \/ Recheck(c) \/ Enter(c) \/ Leave(c)
  \/ Unlock(c) \/ Refused(c) \/ NestedUnpark(c)

Next ==
  \/ \E k \in {"chain", "run", "capture"} : Park(k)
  \/ ScriptStep
  \/ \E c \in Callers : CallerStep(c) \/ Request(c) \/ Lock(c) \/ NestedPark(c)

Spec == Init /\ [][Next]_vars

(***************************************************************************)
(* Fairness: goroutines proceed, callbacks and the host calls they make    *)
(* return (they are short by contract), and sync.Mutex starves nobody.  A  *)
(* blocking call of the script need not return, nor a callback come.       *)
(***************************************************************************)
FairSpec ==
  /\ Spec
  /\ WF_vars(Drained) /\ WF_vars(DeliverLines)
  /\ \A c \in Callers : WF_vars(CallerStep(c)) /\ SF_vars(Leave(c)) /\ SF_vars(Lock(c))

----------------------------------------------------------------------------
Pcs == {"out", "check", "lock", "recheck", "enter", "inside", "unlock", "refused",
        "blocked", "idlewait"}

(* Type correctness. *)
TypeOK ==
  /\ routes \in SUBSET Callers
  /\ parkN \in Nat /\ inFlight \in Nat
  /\ entry \in Callers \cup {Free}
  /\ pc \in [Callers -> Pcs]
  /\ script \in {"running", "parked", "draining", "delivering"}
  /\ call \in {"none", "chain", "run", "capture"}
  /\ lines \in {"none", "captured", "delivered", "skipped"}

(* Who is executing script code in the VM. *)
ScriptInside == script \in {"running", "delivering"}
Guests == {c \in Callers : pc[c] \in {"inside", "blocked", "idlewait"}}

(* The script frame never runs concurrently with a callback, and callbacks *)
(* are inside one at a time.                                               *)
ExclusiveVM ==
  /\ ScriptInside => Guests = {}
  /\ \A c, d \in Guests : c = d

(* That holds of the callbacks of a chain: chain.run outlives its nodes. *)
ChainExclusiveVM == routes = {} => ExclusiveVM

(* With routes too, callbacks exclude one another, and the entry lock of a *)
(* callback is held until the counter Unpark waits for was given back.     *)
InFlightCount ==
  /\ inFlight = Cardinality(Guests)
  /\ \A c \in Callers : c \in Guests \/ pc[c] \in {"recheck", "enter", "unlock"} => entry = c

(* No callback is admitted by the second check once the script runs again: *)
(* what is left of the race is the window between that check and inFlight. *)
AdmittedWhileParked ==
  [][\A c \in Callers : pc[c] # "enter" /\ pc'[c] = "enter" => script = "parked"]_vars

(* A callback of a node is never refused: the gate is open as long as the  *)
(* chain runs, whatever blocking calls the callbacks make meanwhile.       *)
NodesAdmitted == \A c \in Nodes : pc[c] # "refused"

(* A callback of a node runs in the end, and its node goes on. *)
CallbackRuns ==
  \A c \in Callers : pc[c] = "check" /\ c \notin routes ~> pc[c] = "inside"

(* An Unpark that waits for callbacks returns. *)
ResumeReturns == script = "draining" ~> ScriptInside

(* Behind both: nobody waits in a circle.  The entry lock is with somebody *)
(* who has yet to give it back and never waits for his own leaving, and an *)
(* Unpark of the script waits for a route inside that has only to return.  *)
(* Routes that block are the exception: see the README.                    *)
NobodyStuck ==
  Blockers \cap routes = {} =>
    /\ entry # Free => pc[entry] \in {"recheck", "enter", "inside", "unlock", "blocked"}
    /\ \A c \in Callers : pc[c] # "idlewait"
    /\ script = "draining" /\ inFlight > 0 => \E c \in routes : pc[c] = "inside"

(* A captured line reaches the callback that was given for it. *)
LinesDelivered == lines # "skipped"

----------------------------------------------------------------------------
(* The gate implements exclusive access for the callbacks of a chain.      *)

Access == INSTANCE VMAccess WITH
  suspended <- ~ScriptInside,
  guest     <- IF Guests = {} THEN Free ELSE CHOOSE c \in Callers : c \in Guests

ImplementsAccess ==
  /\ Access!Init
  /\ [][routes = {} => Access!Next \/ UNCHANGED Access!vars]_vars
=============================================================================
