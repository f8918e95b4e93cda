------------------------- MODULE CoordinatorProofs -------------------------
(***************************************************************************)
(* Theorems about the coordinator, for every set of nodes and every set of *)
(* chains: the types, the counter of supervised processes, the error of    *)
(* Run and the reasons of a skip.  They rest on one invariant, RunInv,     *)
(* which says what the position of a node's goroutine tells of its entry.  *)
(***************************************************************************)
EXTENDS Coordinator, FiniteSetTheorems, TLAPS

(* An element of a sequence over S is in S. *)
LEMMA ElementType ==
  ASSUME NEW S, NEW s \in Seq(S), NEW i \in 1..Len(s)
  PROVE  s[i] \in S
  OBVIOUS

(* The facts about a chain that typing a step needs. *)
LEMMA ChainTypes ==
  ASSUME TypeOK, NEW n \in Nodes
  PROVE  /\ config[n] \in NodeConfig
         /\ EdgeIds(n) = 1..Len(Edges(n)) /\ Len(Edges(n)) \in Nat
         /\ \A i \in EdgeIds(n) : Edges(n)[i].name \in Nodes /\ Edges(n)[i].waitFor \in Modes
<1>1. config \in [Nodes -> NodeConfig]
  BY DEF TypeOK
<1>2. config[n] \in NodeConfig
  BY <1>1
<1>3. Edges(n) \in Seq([name : Nodes, waitFor : Modes])
  BY <1>2 DEF Edges, NodeConfig
<1>4. EdgeIds(n) = 1..Len(Edges(n)) /\ Len(Edges(n)) \in Nat
  BY <1>3 DEF EdgeIds
<1>5. \A i \in EdgeIds(n) : Edges(n)[i] \in [name : Nodes, waitFor : Modes]
  BY <1>3, <1>4, ElementType
<1> QED
  BY <1>2, <1>4, <1>5

(* The edges of one node to another are finitely many. *)
LEMMA EdgesFinite ==
  ASSUME TypeOK, NEW d \in Nodes, NEW S \in SUBSET EdgeIds(d)
  PROVE  IsFiniteSet(S) /\ Cardinality(S) \in Nat
<1>1. IsFiniteSet(EdgeIds(d))
  BY ChainTypes, FS_Interval
<1> QED
  BY <1>1, FS_Subset, FS_CardinalityType

(* Both results of a decrement have the type of what they replace. *)
LEMMA DecrementTypes ==
  ASSUME TypeOK, NEW n \in Nodes, NEW m \in Modes
  PROVE  /\ PendingAfter(n, m) \in [Nodes -> Int]
         /\ GoAfter(n, m) \in [Nodes -> BOOLEAN]
<1>1. ASSUME NEW d \in Nodes PROVE Cardinality(EdgesTo(d, n)) \in Nat
  BY EdgesFinite DEF EdgesTo
<1> QED
  BY <1>1 DEF PendingAfter, GoAfter, TypeOK

(* The variables have their types before runDAG opens the frontier. *)
LEMMA TypeInit == Init => TypeOK
<1> SUFFICES ASSUME Init PROVE TypeOK
  OBVIOUS
<1>1. ASSUME NEW n \in Nodes PROVE Len(config[n].edges) \in Int
  <2>1. config[n].edges \in Seq([name : Nodes, waitFor : Modes])
    BY ChainAssumption DEF Init, NodeConfig
  <2> QED BY <2>1
<1>2. pending \in [Nodes -> Int]
  BY <1>1 DEF Init
<1>3. /\ pc \in [Nodes -> Pcs] /\ outcome \in [Nodes -> Outcomes]
      /\ state \in [Nodes -> {"pending", "running", "exited", "skipped"}]
  BY DEF Init, Pcs, Outcomes
<1>4. /\ goClosed \in [Nodes -> BOOLEAN] /\ drained \in [Nodes -> BOOLEAN]
      /\ startedC \in [Nodes -> BOOLEAN] /\ readyC \in [Nodes -> BOOLEAN]
  BY DEF Init
<1>5. /\ active \in Int /\ errCh \in Nodes \cup {NoError}
      /\ main \in {"launching", "waiting", "returned"}
  BY DEF Init
<1>6. config \in [Nodes -> NodeConfig] /\ ctxDone \in BOOLEAN /\ execed \in BOOLEAN
  BY ChainAssumption, Zenon DEF Init
<1> QED
  BY <1>2, <1>3, <1>4, <1>5, <1>6, Zenon DEF TypeOK

(* No step of a node's goroutine or of the router leaves the types. *)
LEMMA TypeStep == TypeOK /\ [Next]_vars => TypeOK'
<1> SUFFICES ASSUME TypeOK, [Next]_vars PROVE TypeOK'
  OBVIOUS
<1> USE DEF TypeOK, Goto, Return, routing, chainVars, Pcs, Outcomes
<1>1. CASE UNCHANGED vars
  BY <1>1 DEF vars
<1>2. CASE OpenFrontier
  BY <1>2 DEF OpenFrontier
<1>3. CASE RunReturns \/ Cancel
  BY <1>3 DEF RunReturns, Cancel
<1>4. ASSUME NEW n \in Nodes, Wake(n) \/ Bail(n) \/ CascadeSkip(n) \/ Begin(n)
      PROVE TypeOK'
  BY <1>4 DEF Wake, Bail, CascadeSkip, Begin
<1>5. ASSUME NEW n \in Nodes, NodeExited(n) PROVE TypeOK'
  <2>1. /\ PendingAfter(n, "exit") \in [Nodes -> Int]
        /\ GoAfter(n, "exit") \in [Nodes -> BOOLEAN]
    BY <1>5, DecrementTypes DEF Modes
  <2> QED
    BY <1>5, <2>1, Zenon DEF NodeExited
<1>6. ASSUME NEW n \in Nodes, FailChain(n) PROVE TypeOK'
  BY <1>6 DEF FailChain
<1>7. ASSUME NEW n \in Nodes, SignalStarted(n) PROVE TypeOK'
  <2>1. /\ PendingAfter(n, "started") \in [Nodes -> Int]
        /\ GoAfter(n, "started") \in [Nodes -> BOOLEAN]
    BY <1>7, DecrementTypes DEF Modes
  <2> QED
    BY <1>7, <2>1 DEF SignalStarted
<1>8. ASSUME NEW n \in Nodes, SignalReady(n) PROVE TypeOK'
  <2>1. /\ PendingAfter(n, "ready") \in [Nodes -> Int]
        /\ GoAfter(n, "ready") \in [Nodes -> BOOLEAN]
    BY <1>8, DecrementTypes DEF Modes
  <2> QED
    BY <1>8, <2>1 DEF SignalReady
<1>9. ASSUME NEW n \in Nodes, Lifecycle(n), ~SignalStarted(n), ~SignalReady(n)
      PROVE TypeOK'
  <2>1. CASE SetupFails(n) \/ SetupDone(n) \/ Launched(n) \/ LaunchFails(n)
    BY <2>1 DEF SetupFails, SetupDone, Launched, LaunchFails
  <2>2. ASSUME NEW o \in {"zero", "error"}, ProcessExits(n, o) PROVE TypeOK'
    BY <2>2 DEF ProcessExits
  <2>3. ASSUME NEW o \in {"stopped", "error"}, Drain(n, o) PROVE TypeOK'
    BY <2>3 DEF Drain
  <2>4. CASE OneshotSucceeds(n) \/ OneshotFails(n)
    BY <2>4 DEF OneshotSucceeds, OneshotFails
  <2>5. CASE ScheduleStarts(n) \/ CronInvalid(n) \/ DelayEnds(n) \/ TickBegins(n)
    BY <2>5 DEF ScheduleStarts, CronInvalid, DelayEnds, TickBegins
  <2>6. CASE TickEnds(n) \/ TickFails(n) \/ TickRefused(n) \/ ScheduleStops(n)
    BY <2>6 DEF TickEnds, TickFails, TickRefused, ScheduleStops
  <2>7. CASE ExecRefused(n) \/ ExecAllowed(n) \/ Exec(n) \/ ExecFails(n)
    BY <2>7 DEF ExecRefused, ExecAllowed, Exec, ExecFails
  <2> QED
    BY <1>9, <2>1, <2>2, <2>3, <2>4, <2>5, <2>6, <2>7 DEF Lifecycle
<1> QED
  BY <1>1, <1>2, <1>3, <1>4, <1>5, <1>6, <1>7, <1>8, <1>9 DEF Next, Router

(* Every variable of the coordinator keeps its type in every behaviour. *)
THEOREM TypeCorrect == Spec => []TypeOK
  BY TypeInit, TypeStep, PTL DEF Spec

----------------------------------------------------------------------------
(* The invariant, one part per idea.                                       *)

(* Where a node's goroutine is says what its entry records. *)
Working == {"setup", "launch", "launched", "readying", "supervise", "wait",
            "succeeded", "succeeded2", "delay", "idle", "tick", "lasttick", "exec"}

Position ==
  \A n \in Nodes :
    /\ pc[n] \in {"blocked", "woken"} =>
         state[n] \in {"pending", "skipped"} /\ outcome[n] = "none"
    /\ pc[n] = "woken" => goClosed[n]
    /\ pc[n] \in Working => state[n] = "running" /\ outcome[n] # "skipped"
    /\ pc[n] = "exiting" => \/ state[n] = "running" /\ outcome[n] # "skipped"
                            \/ state[n] = "skipped" /\ outcome[n] = "skipped"
    /\ pc[n] = "failing" => state[n] = "exited"
    /\ pc[n] = "done" => state[n] # "running"

(* The code paths of a lifecycle belong to the kinds of node. *)
KindAt ==
  \A n \in Nodes :
    /\ pc[n] = "launch" => Kind(n) \in {"service", "oneshot"}
    /\ pc[n] \in {"launched", "readying"} => Kind(n) \in {"service", "scheduled"}
    /\ pc[n] = "supervise" => Kind(n) = "service"
    /\ pc[n] \in {"wait", "succeeded", "succeeded2"} => Kind(n) = "oneshot"
    /\ pc[n] \in {"delay", "idle", "tick", "lasttick"} => Kind(n) = "scheduled"

Leaving == {"exiting", "failing", "done"}

(* An outcome is there when the lifecycle is over, or a oneshot succeeded; *)
(* an entry is exited from nodeExited on.                                  *)
Ending ==
  \A n \in Nodes :
    /\ pc[n] \in {"succeeded", "succeeded2"} => outcome[n] = "zero"
    /\ outcome[n] # "none" => pc[n] \in Leaving \cup {"succeeded", "succeeded2"}
    /\ state[n] = "exited" => pc[n] \in {"failing", "done"}
    /\ pc[n] = "exiting" \/ state[n] = "exited" => outcome[n] # "none"
    /\ pc[n] = "failing" => Fatal(n)

(* Who has signalled has begun, and was never skipped; a oneshot signals   *)
(* when its process has ended, and before it reports a success.            *)
Given ==
  \A n \in Nodes :
    /\ startedC[n] \/ readyC[n] =>
         /\ state[n] \in {"running", "exited"} /\ outcome[n] # "skipped"
         /\ Kind(n) = "oneshot" => pc[n] \in Leaving \cup {"succeeded2"}
    /\ pc[n] = "succeeded2" => startedC[n]
    /\ Kind(n) = "oneshot" /\ outcome[n] = "zero" /\ pc[n] \in Leaving =>
         startedC[n] /\ readyC[n]

(* errCh holds the error of a node that has failed; a node with a fatal    *)
(* error is not done before errCh holds one.                               *)
Errors ==
  /\ errCh # NoError => ctxDone /\ Fatal(errCh)
  /\ \A n \in Nodes : pc[n] = "done" /\ Fatal(n) => errCh # NoError
  /\ main = "returned" => \A n \in Nodes : pc[n] = "done"

(* A skipped node has a dependency that has exited, and its goCh is closed. *)
Skips ==
  \A n \in Nodes :
    /\ state[n] = "skipped" \/ outcome[n] = "skipped" =>
         \E i \in EdgeIds(n) : state[Edges(n)[i].name] = "exited"
    /\ state[n] = "skipped" => goClosed[n]

RunInv == TypeOK /\ Position /\ KindAt /\ Ending /\ Given /\ Errors /\ Skips /\ ActiveCount


----------------------------------------------------------------------------
(* One step of a lifecycle, as the invariant sees it.                      *)

(* Only node n's goroutine moves, and it tells the router nothing. *)
Private(n) ==
  /\ UNCHANGED <<config, routing, ctxDone, errCh, main>>
  /\ \A x \in Nodes \ {n} : pc'[x] = pc[x] /\ outcome'[x] = outcome[x]

(* active follows the supervised process of node n. *)
CountMoves(n) ==
  \/ (Supervised(n)' <=> Supervised(n)) /\ active' = active
  \/ ~Supervised(n) /\ Supervised(n)' /\ active' = active + 1
  \/ Supervised(n) /\ ~Supervised(n)' /\ active' = active - 1

Silent == {"setup", "launch", "readying", "supervise", "wait", "delay", "idle", "tick",
           "lasttick", "exec"}

(* What such a step makes of the position and the outcome of n. *)
SilentStep(n) ==
  /\ Private(n)
  /\ pc[n] \in Silent
  /\ CountMoves(n)
  /\ \/ /\ outcome'[n] = outcome[n]
        /\ pc'[n] = pc[n] \/ pc'[n] \in {"launch", "launched", "wait", "idle", "tick",
                                        "lasttick", "exec"}
     \/ outcome'[n] = "zero" /\ pc'[n] = "succeeded" /\ Kind(n) = "oneshot"
     \/ /\ outcome'[n] \in {"zero", "stopped", "error"} /\ pc'[n] = "exiting"
        /\ Kind(n) = "oneshot" => outcome'[n] # "zero"
        /\ Kind(n) = "oneshot" /\ outcome'[n] = "stopped" => Cancelled(n)
  /\ pc'[n] = "launch" => Kind(n) \in {"service", "oneshot"}
  /\ pc'[n] = "launched" => Kind(n) \in {"service", "scheduled"}
  /\ pc'[n] = "wait" => Kind(n) = "oneshot"
  /\ pc'[n] \in {"idle", "tick", "lasttick"} => Kind(n) = "scheduled"

(* What a step that signals nothing makes of the position of n (runSingleNode, *)
(* runOneshot, runScheduled).                                              *)
LEMMA LifecycleFrame ==
  ASSUME TypeOK, KindAt, NEW n \in Nodes, Lifecycle(n), ~SignalStarted(n), ~SignalReady(n)
  PROVE  SilentStep(n)
<1> USE DEF TypeOK, SilentStep, Private, CountMoves, Supervised, Silent, Goto, Return, chainVars, Kind, KindAt
<1>1. CASE SetupFails(n) \/ SetupDone(n) \/ Launched(n) \/ LaunchFails(n)
  BY <1>1 DEF SetupFails, SetupDone, Launched, LaunchFails
<1>2. ASSUME NEW o \in {"zero", "error"}, ProcessExits(n, o) PROVE SilentStep(n)
  BY <1>2 DEF ProcessExits
<1>3. ASSUME NEW o \in {"stopped", "error"}, Drain(n, o) PROVE SilentStep(n)
  BY <1>3 DEF Drain
<1>4. CASE OneshotSucceeds(n) \/ OneshotFails(n)
  BY <1>4 DEF OneshotSucceeds, OneshotFails
<1>5. CASE ScheduleStarts(n) \/ CronInvalid(n) \/ DelayEnds(n) \/ TickBegins(n)
  BY <1>5 DEF ScheduleStarts, CronInvalid, DelayEnds, TickBegins
<1>6. CASE TickEnds(n) \/ TickFails(n) \/ TickRefused(n) \/ ScheduleStops(n)
  BY <1>6 DEF TickEnds, TickFails, TickRefused, ScheduleStops
<1>7. CASE ExecRefused(n) \/ ExecAllowed(n) \/ Exec(n) \/ ExecFails(n)
  BY <1>7 DEF ExecRefused, ExecAllowed, Exec, ExecFails
<1> QED
  BY <1>1, <1>2, <1>3, <1>4, <1>5, <1>6, <1>7 DEF Lifecycle

----------------------------------------------------------------------------
(* The steps keep the invariant.                                           *)

(* Service.active is incremented and decremented with what it counts.      *)
LEMMA ActiveStep ==
  ASSUME ActiveCount, NEW n \in Nodes, CountMoves(n),
         \A x \in Nodes \ {n} : Supervised(x)' <=> Supervised(x)
  PROVE  ActiveCount'
<1> DEFINE S == {x \in Nodes : Supervised(x)}
           T == {x \in Nodes : Supervised(x)'}
<1>1. IsFiniteSet(S)
  BY ChainAssumption, FS_Subset
<1>2. Cardinality(S) \in Nat /\ active = Cardinality(S)
  BY <1>1, FS_CardinalityType DEF ActiveCount
<1>3. CASE (Supervised(n)' <=> Supervised(n)) /\ active' = active
  <2>1. T = S
    BY <1>3
  <2> QED  BY <1>3, <2>1 DEF ActiveCount
<1>4. CASE ~Supervised(n) /\ Supervised(n)' /\ active' = active + 1
  <2>1. T = S \cup {n} /\ n \notin S
    BY <1>4
  <2>2. Cardinality(T) = Cardinality(S) + 1
    BY <1>1, <2>1, FS_AddElement
  <2> QED  BY <1>2, <1>4, <2>2 DEF ActiveCount
<1>5. CASE Supervised(n) /\ ~Supervised(n)' /\ active' = active - 1
  <2>1. T = S \ {n} /\ n \in S
    BY <1>5
  <2>2. Cardinality(T) = Cardinality(S) - 1
    BY <1>1, <2>1, FS_RemoveElement
  <2> QED  BY <1>2, <1>5, <2>2 DEF ActiveCount
<1> QED  BY <1>3, <1>4, <1>5 DEF CountMoves

(* The graph does not change, and exited entries stay exited.              *)
LEMMA SkipsStep ==
  ASSUME TypeOK, Skips, config' = config,
         \A x \in Nodes : state[x] = "exited" => state'[x] = "exited",
         \A x \in Nodes : goClosed[x] => goClosed'[x],
         \A x \in Nodes : state'[x] = "skipped" \/ outcome'[x] = "skipped" =>
           \/ state[x] = "skipped" \/ outcome[x] = "skipped"
           \/ \E i \in EdgeIds(x) : state'[Edges(x)[i].name] = "exited",
         \A x \in Nodes : state'[x] = "skipped" => state[x] = "skipped" \/ goClosed'[x]
  PROVE  Skips'
<1>1. \A x \in Nodes : EdgeIds(x)' = EdgeIds(x) /\ Edges(x)' = Edges(x)
  BY DEF EdgeIds, Edges
<1>2. \A x \in Nodes : \A i \in EdgeIds(x) : Edges(x)[i].name \in Nodes
  BY ChainTypes
<1>3. ASSUME NEW x \in Nodes, state'[x] = "skipped" \/ outcome'[x] = "skipped"
      PROVE  \E i \in EdgeIds(x) : state'[Edges(x)[i].name] = "exited"
  BY <1>2, <1>3 DEF Skips
<1>4. ASSUME NEW x \in Nodes, state'[x] = "skipped" PROVE goClosed'[x]
  BY <1>4 DEF Skips
<1> QED  BY <1>1, <1>3, <1>4 DEF Skips

(* A step of a lifecycle that signals nothing.                             *)
LEMMA SilentRun ==
  ASSUME RunInv, TypeOK', NEW n \in Nodes, SilentStep(n)
  PROVE  Position' /\ KindAt' /\ Ending' /\ Given' /\ Errors' /\ Skips' /\ ActiveCount'
<1>1. Private(n)
  BY DEF SilentStep
<1>2. /\ UNCHANGED <<config, state, goClosed, startedC, readyC, ctxDone, errCh, main>>
      /\ \A x \in Nodes : Kind(x)' = Kind(x)
      /\ \A x \in Nodes \ {n} : pc'[x] = pc[x] /\ outcome'[x] = outcome[x]
  BY <1>1 DEF Private, routing, Kind
<1>3. pc[n] \in Silent /\ state[n] = "running" /\ outcome[n] = "none"
  BY DEF SilentStep, Silent, RunInv, Position, Working, Ending, Leaving
<1>p. Position'
  BY <1>2, <1>3 DEF SilentStep, RunInv, Position, Silent, Working
<1>4. KindAt'
  BY <1>2, <1>3 DEF SilentStep, RunInv, KindAt, Silent
<1>5. Ending'
  BY <1>2, <1>3 DEF SilentStep, RunInv, Ending, Leaving, Silent, Fatal, Failed
<1>6. Given'
  BY <1>2, <1>3 DEF SilentStep, RunInv, Given, Leaving, Silent
<1>7. Errors'
  <2>1. errCh \in Nodes \cup {NoError}
    BY DEF RunInv, TypeOK
  <2>2. \A x \in Nodes : Fatal(x) => outcome'[x] = outcome[x] /\ Fatal(x)'
    BY <1>2, <1>3 DEF Fatal, Failed
  <2>3. pc[n] # "done" /\ pc'[n] # "done"
    BY <1>3 DEF SilentStep, Silent
  <2> QED  BY <1>2, <2>1, <2>2, <2>3 DEF RunInv, Errors, Fatal, Failed
<1>8. Skips'
  BY <1>2, <1>3, SkipsStep DEF SilentStep, RunInv
<1>9. ActiveCount'
  BY <1>2, ActiveStep DEF SilentStep, RunInv, Supervised
<1> QED  BY <1>p, <1>4, <1>5, <1>6, <1>7, <1>8, <1>9

(* signalStarted and signalReady: the node goes on, or returns nil.        *)
LEMMA SignalRun ==
  ASSUME RunInv, TypeOK', NEW n \in Nodes, SignalStarted(n) \/ SignalReady(n)
  PROVE  Position' /\ KindAt' /\ Ending' /\ Given' /\ Errors' /\ Skips' /\ ActiveCount'
<1>0. TypeOK /\ TypeOK'
  BY DEF RunInv
<1>1. /\ UNCHANGED <<config, state, drained, ctxDone, errCh, main, active>>
      /\ \A x \in Nodes : Kind(x)' = Kind(x)
      /\ \A x \in Nodes \ {n} : pc'[x] = pc[x] /\ outcome'[x] = outcome[x]
      /\ \A x \in Nodes \ {n} : startedC'[x] = startedC[x] /\ readyC'[x] = readyC[x]
  BY <1>0 DEF SignalStarted, SignalReady, Goto, Return, chainVars, Kind, TypeOK
<1>2. \A x \in Nodes : goClosed[x] => goClosed'[x]
  BY Zenon DEF SignalStarted, SignalReady, GoAfter
<1>3. /\ pc[n] \in {"launched", "succeeded", "readying", "succeeded2"}
      /\ state[n] = "running" /\ outcome[n] # "skipped"
  BY DEF SignalStarted, SignalReady, RunInv, Position, Working
<1>p. Position'
  <2>1. pc'[n] \in Working \cup {"exiting"} /\ outcome'[n] # "skipped"
    BY <1>0, <1>3 DEF SignalStarted, SignalReady, Goto, Return, TypeOK, Working
  <2> QED  BY <1>1, <1>2, <1>3, <2>1 DEF RunInv, Position, Working
<1>4. KindAt'
  BY <1>0, <1>1 DEF SignalStarted, SignalReady, Goto, Return, TypeOK, RunInv, KindAt, Kind
<1>5. Ending'
  BY <1>0, <1>1, <1>3
     DEF SignalStarted, SignalReady, Goto, Return, TypeOK, RunInv, Ending, Leaving, Fatal, Failed
<1>6. Given'
  BY <1>0, <1>1, <1>3
     DEF SignalStarted, SignalReady, Goto, Return, TypeOK, RunInv, Given, Leaving, KindAt
<1>7. Errors'
  BY <1>0, <1>1, <1>3
     DEF SignalStarted, SignalReady, Goto, Return, TypeOK, RunInv, Errors, Fatal, Failed, Ending, Leaving
<1>8. Skips'
  <2>1. \A x \in Nodes : outcome'[x] = "skipped" => outcome[x] = "skipped"
    BY <1>0, <1>1, <1>3 DEF SignalStarted, SignalReady, Return, TypeOK
  <2> QED  BY <1>0, <1>1, <1>2, <2>1, SkipsStep DEF RunInv
<1>9. ActiveCount'
  <2>1. CountMoves(n)
    BY <1>0, <1>1 DEF SignalStarted, SignalReady, Goto, Return, TypeOK, CountMoves, Supervised, RunInv, KindAt
  <2> QED  BY <1>1, <2>1, ActiveStep DEF RunInv, Supervised
<1> QED  BY <1>p, <1>4, <1>5, <1>6, <1>7, <1>8, <1>9

(* runNode around the lifecycle: it wakes, gives up, is skipped, begins.   *)
LEMMA RunNodeRun ==
  ASSUME RunInv, TypeOK', NEW n \in Nodes, Wake(n) \/ Bail(n) \/ CascadeSkip(n) \/ Begin(n)
  PROVE  Position' /\ KindAt' /\ Ending' /\ Given' /\ Errors' /\ Skips' /\ ActiveCount'
<1>0. TypeOK /\ TypeOK'
  BY DEF RunInv
<1>1. /\ UNCHANGED <<config, goClosed, startedC, readyC, drained, ctxDone, errCh, main, active>>
      /\ \A x \in Nodes : Kind(x)' = Kind(x)
      /\ \A x \in Nodes \ {n} : pc'[x] = pc[x] /\ outcome'[x] = outcome[x] /\ state'[x] = state[x]
  BY <1>0 DEF Wake, Bail, CascadeSkip, Begin, Goto, Return, routing, chainVars, Kind, TypeOK
<1>2. /\ pc[n] \in {"blocked", "woken"} /\ state[n] \in {"pending", "skipped"} /\ outcome[n] = "none"
      /\ ~startedC[n] /\ ~readyC[n]
  BY DEF Wake, Bail, CascadeSkip, Begin, RunInv, Position, Given
<1>3. \/ pc'[n] = "woken" /\ state'[n] = state[n] /\ outcome'[n] = "none"
      \/ pc'[n] = "done" /\ state'[n] = state[n] /\ outcome'[n] = "none"
      \/ /\ pc'[n] = "exiting" /\ state[n] = "skipped" /\ state'[n] = "skipped"
         /\ outcome'[n] = "skipped"
      \/ pc'[n] = "setup" /\ state'[n] = "running" /\ outcome'[n] = "none"
  BY <1>0, <1>2 DEF Wake, Bail, CascadeSkip, Begin, Goto, Return, routing, TypeOK
<1>p. Position'
  <2>1. pc'[n] = "woken" => goClosed'[n]
    BY <1>0, <1>2 DEF Wake, Bail, CascadeSkip, Begin, Goto, Return, routing, TypeOK
  <2> QED  BY <1>1, <1>2, <1>3, <2>1 DEF RunInv, Position, Working
<1>4. KindAt'
  BY <1>1, <1>3 DEF RunInv, KindAt
<1>5. Ending'
  BY <1>1, <1>2, <1>3 DEF RunInv, Ending, Leaving, Fatal, Failed
<1>6. Given'
  BY <1>1, <1>2, <1>3 DEF RunInv, Given, Leaving
<1>7. Errors'
  <2>1. errCh \in Nodes \cup {NoError}
    BY <1>0 DEF TypeOK
  <2>2. \A x \in Nodes : Fatal(x) => outcome'[x] = outcome[x] /\ Fatal(x)'
    BY <1>1, <1>2 DEF Fatal, Failed
  <2>3. pc[n] # "done" /\ (pc'[n] = "done" => ~Fatal(n)')
    BY <1>2, <1>3 DEF Fatal, Failed
  <2> QED  BY <1>1, <2>1, <2>2, <2>3 DEF RunInv, Errors, Fatal, Failed
<1>8. Skips'
  <2>1. /\ \A x \in Nodes : state[x] = "exited" => state'[x] = "exited"
        /\ \A x \in Nodes : state'[x] = "skipped" => state[x] = "skipped"
        /\ \A x \in Nodes : outcome'[x] = "skipped" => outcome[x] = "skipped" \/ state[x] = "skipped"
    BY <1>1, <1>2, <1>3
  <2> QED  BY <1>0, <1>1, <2>1, SkipsStep DEF RunInv
<1>9. ActiveCount'
  <2>1. CountMoves(n)
    BY <1>1, <1>2, <1>3 DEF CountMoves, Supervised
  <2> QED  BY <1>1, <2>1, ActiveStep DEF RunInv, Supervised
<1> QED  BY <1>p, <1>4, <1>5, <1>6, <1>7, <1>8, <1>9

(* nodeExited: the entry is exited, pending dependents are skipped or      *)
(* released, running ones are drained.                                     *)
LEMMA ExitFrame ==
  ASSUME RunInv, NEW n \in Nodes, NodeExited(n)
  PROVE  /\ UNCHANGED <<config, startedC, readyC, outcome, active, ctxDone, errCh, main>>
         /\ pc[n] = "exiting" /\ pc'[n] = IF Fatal(n) THEN "failing" ELSE "done"
         /\ \A x \in Nodes \ {n} : pc'[x] = pc[x]
         /\ state'[n] = "exited" /\ state[n] \in {"running", "skipped"}
         /\ \A x \in Nodes \ {n} :
              \/ state'[x] = state[x]
              \/ /\ state[x] = "pending" /\ state'[x] = "skipped" /\ goClosed'[x]
                 /\ Routes(n) /\ x \in Dependents(n)
         /\ \A x \in Nodes : goClosed[x] => goClosed'[x]
         /\ \A x \in Dependents(n) : Routes(n) /\ state'[x] = "pending" => goClosed'[x]
         /\ \A x \in Nodes : drained'[x] <=> \/ drained[x]
                                             \/ /\ Routes(n) /\ x \in Dependents(n)
                                                /\ state[x] = "running"
<1> DEFINE go == IF Failed(n) THEN goClosed ELSE GoAfter(n, "exit")
           hit == IF Routes(n) THEN Dependents(n) ELSE {}
           skip == {d \in hit : state[d] = "pending" /\ ~go[d]}
           stop == {d \in hit : state[d] = "running"}
<1>0. TypeOK
  BY DEF RunInv
<1>1. /\ UNCHANGED <<config, startedC, readyC, outcome, active, ctxDone, errCh, main>>
      /\ pc[n] = "exiting" /\ pc'[n] = IF Fatal(n) THEN "failing" ELSE "done"
      /\ \A x \in Nodes \ {n} : pc'[x] = pc[x]
  BY <1>0 DEF NodeExited, Goto, chainVars, TypeOK
<1>2. /\ goClosed' = [d \in Nodes |-> go[d] \/ d \in skip]
      /\ drained' = [d \in Nodes |-> drained[d] \/ d \in stop]
      /\ state' = [d \in Nodes |-> IF d = n THEN "exited"
                                   ELSE IF d \in skip THEN "skipped" ELSE state[d]]
  BY DEF NodeExited
<1>3. state[n] \in {"running", "skipped"}
  BY <1>1 DEF RunInv, Position
<1>4. \A x \in Nodes : goClosed[x] => go[x]
  BY Zenon DEF GoAfter
<1>5. \A x \in hit : x \in Nodes /\ Routes(n) /\ x \in Dependents(n)
  BY DEF Dependents
<1> HIDE DEF go, hit
<1>6. \A x \in Dependents(n) : Routes(n) => x \in hit /\ x \in Nodes
  BY DEF hit, Dependents
<1>7. \A x \in Nodes : goClosed'[x] <=> go[x] \/ x \in skip
  BY <1>2
<1>8. \A x \in Nodes : drained'[x] <=> drained[x] \/ x \in stop
  BY <1>2
<1>9. \A x \in Nodes \ {n} : state'[x] = IF x \in skip THEN "skipped" ELSE state[x]
  BY <1>2
<1>10. state'[n] = "exited"
  BY <1>2
<1> HIDE DEF skip, stop
<1>11. \A x : x \in skip <=> x \in hit /\ state[x] = "pending" /\ ~go[x]
  BY DEF skip
<1>12. \A x : x \in stop <=> x \in hit /\ state[x] = "running"
  BY DEF stop
<1>13. \A x \in Nodes \ {n} :
         \/ state'[x] = state[x]
         \/ /\ state[x] = "pending" /\ state'[x] = "skipped" /\ goClosed'[x]
            /\ Routes(n) /\ x \in Dependents(n)
  BY <1>5, <1>7, <1>9, <1>11
<1>14. \A x \in Nodes : goClosed[x] => goClosed'[x]
  BY <1>4, <1>7
<1>15. \A x \in Dependents(n) : Routes(n) /\ state'[x] = "pending" => goClosed'[x]
  BY <1>6, <1>7, <1>9, <1>10, <1>11
<1>16. \A x \in Nodes : drained'[x] <=> drained[x] \/ (Routes(n) /\ x \in Dependents(n) /\ state[x] = "running")
  BY <1>5, <1>6, <1>8, <1>12
<1> QED  BY <1>1, <1>3, <1>10, <1>13, <1>14, <1>15, <1>16, Zenon

(* nodeExited keeps the invariant.                                         *)
LEMMA ExitRun ==
  ASSUME RunInv, TypeOK', NEW n \in Nodes, NodeExited(n)
  PROVE  Position' /\ KindAt' /\ Ending' /\ Given' /\ Errors' /\ Skips' /\ ActiveCount'
<1>0. TypeOK /\ TypeOK'
  BY DEF RunInv
<1>1. /\ UNCHANGED <<config, startedC, readyC, outcome, active, ctxDone, errCh, main>>
      /\ pc[n] = "exiting" /\ pc'[n] = IF Fatal(n) THEN "failing" ELSE "done"
      /\ \A x \in Nodes \ {n} : pc'[x] = pc[x]
      /\ state'[n] = "exited" /\ state[n] \in {"running", "skipped"}
      /\ \A x \in Nodes \ {n} :
           \/ state'[x] = state[x]
           \/ /\ state[x] = "pending" /\ state'[x] = "skipped" /\ goClosed'[x]
              /\ Routes(n) /\ x \in Dependents(n)
      /\ \A x \in Nodes : goClosed[x] => goClosed'[x]
  BY ExitFrame
<1>2. \A x \in Nodes : Kind(x)' = Kind(x) /\ Fatal(x)' = Fatal(x)
  BY <1>1 DEF Kind, Fatal, Failed
<1>p. Position'
  BY <1>1 DEF RunInv, Position, Working
<1>4. KindAt'
  BY <1>1, <1>2 DEF RunInv, KindAt
<1>5. Ending'
  BY <1>1, <1>2 DEF RunInv, Ending, Leaving
<1>6. Given'
  BY <1>1, <1>2 DEF RunInv, Given, Leaving
<1>7. Errors'
  BY <1>0, <1>1, <1>2 DEF RunInv, Errors, TypeOK, Fatal, Failed
<1>8. Skips'
  <2>1. ASSUME NEW x \in Nodes, x # n, state'[x] # state[x]
        PROVE  \E i \in EdgeIds(x) : state'[Edges(x)[i].name] = "exited"
    <3>1. x \in Dependents(n)
      BY <1>1, <2>1
    <3>2. PICK i \in EdgesTo(x, n) : TRUE
      BY <3>1 DEF Dependents
    <3> QED  BY <3>2, <1>1 DEF EdgesTo
  <2>2. \A x \in Nodes : state[x] = "exited" => state'[x] = "exited"
    BY <1>1
  <2>3. \A x \in Nodes : state'[x] = "skipped" \/ outcome'[x] = "skipped" =>
           \/ state[x] = "skipped" \/ outcome[x] = "skipped"
           \/ \E i \in EdgeIds(x) : state'[Edges(x)[i].name] = "exited"
    BY <1>1, <2>1
  <2>4. \A x \in Nodes : state'[x] = "skipped" => state[x] = "skipped" \/ goClosed'[x]
    BY <1>1
  <2> QED  BY <1>0, <1>1, <2>2, <2>3, <2>4, SkipsStep DEF RunInv
<1>9. ActiveCount'
  <2>1. CountMoves(n)
    BY <1>1 DEF CountMoves, Supervised
  <2> QED  BY <1>1, <1>2, <2>1, ActiveStep DEF RunInv, Supervised
<1> QED  BY <1>p, <1>4, <1>5, <1>6, <1>7, <1>8, <1>9

(* failChain keeps the invariant.                                          *)
LEMMA FailRun ==
  ASSUME RunInv, TypeOK', NEW n \in Nodes, FailChain(n)
  PROVE  Position' /\ KindAt' /\ Ending' /\ Given' /\ Errors' /\ Skips' /\ ActiveCount'
<1>0. TypeOK /\ TypeOK'
  BY DEF RunInv
<1>1. /\ UNCHANGED <<config, state, goClosed, startedC, readyC, outcome, active, main>>
      /\ pc[n] = "failing" /\ pc'[n] = "done"
      /\ \A x \in Nodes \ {n} : pc'[x] = pc[x]
      /\ \/ errCh = NoError /\ errCh' = n /\ ctxDone'
         \/ errCh # NoError /\ errCh' = errCh /\ ctxDone' = ctxDone
  BY <1>0 DEF FailChain, Goto, TypeOK, routing
<1>2. \A x \in Nodes : Kind(x)' = Kind(x) /\ Fatal(x)' = Fatal(x)
  BY <1>1 DEF Kind, Fatal, Failed
<1>3. Fatal(n)
  BY <1>1 DEF RunInv, Ending
<1>p. Position'
  BY <1>1 DEF RunInv, Position, Working
<1>4. KindAt'
  BY <1>1, <1>2 DEF RunInv, KindAt
<1>5. Ending'
  BY <1>1, <1>2 DEF RunInv, Ending, Leaving
<1>6. Given'
  BY <1>1, <1>2 DEF RunInv, Given, Leaving
<1>7. Errors'
  <2>1. errCh \in Nodes \cup {NoError} /\ NoError \notin Nodes
    BY <1>0, ChainAssumption DEF TypeOK
  <2>2. errCh' # NoError /\ ctxDone' /\ Fatal(errCh)'
    BY <1>1, <1>3, <2>1 DEF RunInv, Errors, Fatal, Failed
  <2> QED  BY <1>1, <2>2 DEF RunInv, Errors
<1>8. Skips'
  BY <1>0, <1>1, SkipsStep DEF RunInv
<1>9. ActiveCount'
  <2>1. CountMoves(n)
    BY <1>1 DEF CountMoves, Supervised
  <2> QED  BY <1>1, <1>2, <2>1, ActiveStep DEF RunInv, Supervised
<1> QED  BY <1>p, <1>4, <1>5, <1>6, <1>7, <1>8, <1>9

(* runDAG's own steps, and the caller's cancellation.                      *)
LEMMA MainRun ==
  ASSUME RunInv, TypeOK', OpenFrontier \/ RunReturns \/ Cancel \/ UNCHANGED vars
  PROVE  Position' /\ KindAt' /\ Ending' /\ Given' /\ Errors' /\ Skips' /\ ActiveCount'
<1>0. TypeOK /\ TypeOK'
  BY DEF RunInv
<1>1. /\ UNCHANGED <<config, pc, state, startedC, readyC, outcome, active, errCh>>
      /\ ctxDone => ctxDone'
      /\ main' = main \/ main' = "waiting" \/ (main' = "returned" /\ \A n \in Nodes : pc[n] = "done")
  BY <1>0 DEF OpenFrontier, RunReturns, Cancel, vars, routing
<1>2. \A x \in Nodes : goClosed[x] => goClosed'[x]
  BY <1>0 DEF OpenFrontier, RunReturns, Cancel, vars, routing
<1>3. \A x \in Nodes : Kind(x)' = Kind(x) /\ Fatal(x)' = Fatal(x) /\ Supervised(x)' = Supervised(x)
  BY <1>1 DEF Kind, Fatal, Failed, Supervised
<1>p. Position'
  BY <1>1, <1>2 DEF RunInv, Position
<1>4. KindAt' /\ Ending' /\ Given'
  BY <1>1, <1>3 DEF RunInv, KindAt, Ending, Given, Leaving
<1>5. Errors'
  <2>1. errCh \in Nodes \cup {NoError}
    BY <1>0 DEF TypeOK
  <2>3. errCh' # NoError => ctxDone' /\ Fatal(errCh)'
    BY <1>1, <2>1 DEF RunInv, Errors, Fatal, Failed
  <2>4. \A n \in Nodes : pc'[n] = "done" /\ Fatal(n)' => errCh' # NoError
    BY <1>1, <1>3 DEF RunInv, Errors
  <2>5. main' = "returned" => \A n \in Nodes : pc'[n] = "done"
    BY <1>1 DEF RunInv, Errors
  <2> QED  BY <2>3, <2>4, <2>5 DEF Errors
<1>6. Skips'
  BY <1>0, <1>1, <1>2, SkipsStep DEF RunInv
<1>7. ActiveCount'
  BY <1>1, <1>3 DEF RunInv, ActiveCount
<1> QED  BY <1>p, <1>4, <1>5, <1>6, <1>7

(* Before the frontier is open nothing runs, and nothing has an outcome.   *)
LEMMA RunInit == Init => RunInv
<1> SUFFICES ASSUME Init PROVE RunInv
  OBVIOUS
<1>1. Position /\ KindAt /\ Ending /\ Given /\ Errors /\ Skips
  BY DEF Init, Position, Working, KindAt, Ending, Leaving, Given, Errors, Skips, Fatal, Failed
<1>2. ActiveCount
  <2>1. {n \in Nodes : Supervised(n)} = {}
    BY DEF Init, Supervised
  <2> QED  BY <2>1, FS_EmptySet DEF Init, ActiveCount
<1> QED  BY <1>1, <1>2, TypeInit DEF RunInv

(* No step of the coordinator or of a node breaks the invariant. *)
LEMMA RunStep == RunInv /\ [Next]_vars => RunInv'
<1> SUFFICES ASSUME RunInv, [Next]_vars PROVE RunInv'
  OBVIOUS
<1>1. TypeOK'
  BY TypeStep DEF RunInv
<1> SUFFICES Position' /\ KindAt' /\ Ending' /\ Given' /\ Errors' /\ Skips' /\ ActiveCount'
  BY <1>1 DEF RunInv
<1>2. CASE OpenFrontier \/ RunReturns \/ Cancel \/ UNCHANGED vars
  BY <1>1, <1>2, MainRun
<1>3. ASSUME NEW n \in Nodes, Router(n)
      PROVE  Position' /\ KindAt' /\ Ending' /\ Given' /\ Errors' /\ Skips' /\ ActiveCount'
  BY <1>1, <1>3, RunNodeRun, ExitRun, FailRun DEF Router
<1>4. ASSUME NEW n \in Nodes, Lifecycle(n)
      PROVE  Position' /\ KindAt' /\ Ending' /\ Given' /\ Errors' /\ Skips' /\ ActiveCount'
  <2>1. CASE SignalStarted(n) \/ SignalReady(n)
    BY <1>1, <2>1, SignalRun
  <2>2. CASE ~(SignalStarted(n) \/ SignalReady(n))
    BY <1>1, <1>4, <2>2, LifecycleFrame, SilentRun DEF RunInv
  <2> QED  BY <2>1, <2>2
<1> QED  BY <1>2, <1>3, <1>4 DEF Next

(* Outside its own steps the invariant is all that is used below. *)
LEMMA RunInvariant == Spec => []RunInv
  BY RunInit, RunStep, PTL DEF Spec

(* beginActive and endActive are balanced on every path of every kind of   *)
(* node: Service.active is at all times the number of nodes whose process  *)
(* is supervised, so the exec guard never counts a process that is gone.   *)
THEOREM ActiveBalanced == Spec => []ActiveCount
<1>1. RunInv => ActiveCount
  BY DEF RunInv
<1> QED  BY <1>1, RunInvariant, PTL

(* Run returns an error exactly when a node that is not optional failed,   *)
(* and that of such a node: errOnce loses none and invents none.           *)
THEOREM ErrorReported == Spec => []RunError
<1>1. RunInv => RunError
  BY DEF RunInv, Errors, RunError
<1> QED  BY <1>1, RunInvariant, PTL

(* A node is skipped only when a dependency has left, and only before it   *)
(* signalled anything itself.                                              *)
THEOREM SkipsHaveReasons == Spec => []SkipJustified
<1>1. ASSUME RunInv PROVE SkipJustified
  <2> SUFFICES ASSUME NEW n \in Nodes, state[n] = "skipped" \/ outcome[n] = "skipped"
               PROVE  \E i \in EdgeIds(n) : /\ state[Edges(n)[i].name] = "exited"
                                             /\ ~(startedC[n] \/ readyC[n])
    BY DEF SkipJustified
  <2>1. PICK i \in EdgeIds(n) : state[Edges(n)[i].name] = "exited"
    BY <1>1 DEF RunInv, Skips
  <2>2. ~(startedC[n] \/ readyC[n])
    BY <1>1 DEF RunInv, Given
  <2> QED  BY <2>1, <2>2
<1> QED  BY <1>1, RunInvariant, PTL
=============================================================================
