---------------------- MODULE CoordinatorOrderProofs ----------------------
(***************************************************************************)
(* The order in which the coordinator runs a chain, for every set of nodes *)
(* and chains: no node starts early, a skip reaches every dependent, who   *)
(* waits has a dependency that can still decide, the exec node runs alone; *)
(* and Run implements ChainContract.  The invariant behind all of it ties  *)
(* the counter nodeEntry.pending to the edges that are not satisfied yet.  *)
(***************************************************************************)
EXTENDS CoordinatorProofs

----------------------------------------------------------------------------
(* No node starts early.                                                   *)

Unsatisfied(n) == {i \in EdgeIds(n) : ~Signalled(Edges(n)[i].name, Edges(n)[i].waitFor)}

(* The counter of a node that still waits is never above the number of its *)
(* edges that are not satisfied, and is that number if no two of them      *)
(* differ only in the mode.  Its goCh is closed only when it is spent.     *)
Counts ==
  \A n \in Nodes : state[n] = "pending" =>
    /\ pending[n] <= Cardinality(Unsatisfied(n))
    /\ OneMode(n) => pending[n] = Cardinality(Unsatisfied(n))
    /\ goClosed[n] => pending[n] <= 0

Inv == RunInv /\ Counts /\ NoEarlyStart

(* Signalling (n, m) for the first time satisfies the edges of a waiting    *)
(* node to n in mode m; its counter falls by all its edges to n, or by none. *)
LEMMA SignalStep ==
  ASSUME TypeOK, Counts, NEW n \in Nodes, NEW m \in Modes,
         ~Signalled(n, m), config' = config,
         \A x \in Nodes : \A k \in Modes :
           Signalled(x, k)' <=> Signalled(x, k) \/ (x = n /\ k = m),
         NEW d \in Nodes, state[d] = "pending"
  PROVE  /\ PendingAfter(n, m)[d] <= Cardinality(Unsatisfied(d)')
         /\ OneMode(d) => PendingAfter(n, m)[d] = Cardinality(Unsatisfied(d)')
         /\ GoAfter(n, m)[d] => PendingAfter(n, m)[d] <= 0
<1> DEFINE Now == {i \in EdgesTo(d, n) : Edges(d)[i].waitFor = m}
<1>1. IsFiniteSet(Unsatisfied(d)) /\ Cardinality(Unsatisfied(d)) \in Nat
  BY EdgesFinite DEF Unsatisfied
<1>2. \A i \in EdgeIds(d) : Edges(d)[i].name \in Nodes /\ Edges(d)[i].waitFor \in Modes
  BY ChainTypes
<1>3. /\ pending[d] <= Cardinality(Unsatisfied(d)) /\ (goClosed[d] => pending[d] <= 0)
      /\ OneMode(d) => pending[d] = Cardinality(Unsatisfied(d))
      /\ pending[d] \in Int
  BY DEF Counts, TypeOK
<1>4. Edges(d)' = Edges(d) /\ EdgeIds(d)' = EdgeIds(d)
  BY DEF Edges, EdgeIds
<1>5. Unsatisfied(d)' = Unsatisfied(d) \ Now
  BY <1>2, <1>4 DEF Unsatisfied, EdgesTo
<1>6. /\ Now \subseteq Unsatisfied(d) /\ Now \subseteq EdgesTo(d, n)
      /\ EdgesTo(d, n) \subseteq EdgeIds(d)
  BY DEF Unsatisfied, EdgesTo
<1>7. /\ Cardinality(EdgesTo(d, n)) \in Nat /\ Cardinality(Now) \in Nat
      /\ Cardinality(Now) <= Cardinality(EdgesTo(d, n))
  <2>1. IsFiniteSet(EdgesTo(d, n))
    BY <1>6, EdgesFinite, FS_Subset
  <2>2. IsFiniteSet(Now) /\ Cardinality(Now) <= Cardinality(EdgesTo(d, n))
    BY <1>6, <2>1, FS_Subset
  <2> QED
    BY <2>1, <2>2, FS_CardinalityType
<1>8. Cardinality(Unsatisfied(d)') = Cardinality(Unsatisfied(d)) - Cardinality(Now)
  <2>1. Unsatisfied(d) \cap Now = Now
    BY <1>6
  <2> QED
    BY <1>1, <1>5, <2>1, FS_Difference
<1>9. GoAfter(n, m)[d] => goClosed[d] \/ PendingAfter(n, m)[d] <= 0
  BY Zenon DEF GoAfter
<1>10. CASE HasEdgeWaiting(d, n, m)
  <2>1. OneMode(d) => Now = EdgesTo(d, n)
    BY <1>10 DEF HasEdgeWaiting, OneMode, EdgesTo
  <2>2. d \in Waiting(n, m) /\ PendingAfter(n, m)[d] = pending[d] - Cardinality(EdgesTo(d, n))
    BY <1>10 DEF Waiting, PendingAfter
  <2> HIDE DEF Now
  <2> QED
    BY <1>1, <1>3, <1>7, <1>8, <1>9, <2>1, <2>2
<1>11. CASE ~HasEdgeWaiting(d, n, m)
  <2>1. Now = {}
    BY <1>11 DEF HasEdgeWaiting
  <2>2. d \notin Waiting(n, m) /\ PendingAfter(n, m)[d] = pending[d]
    BY <1>11 DEF Waiting, PendingAfter
  <2>3. Unsatisfied(d)' = Unsatisfied(d)
    BY <1>5, <2>1
  <2> QED
    BY <1>3, <1>9, <2>2, <2>3
<1> QED
  BY <1>10, <1>11

(* Nothing is left unsatisfied when such a node's counter is spent.         *)
LEMMA NothingLeft ==
  ASSUME TypeOK, Counts, NEW n \in Nodes, OneMode(n), state[n] = "pending", goClosed[n]
  PROVE  \A i \in EdgeIds(n) : Signalled(Edges(n)[i].name, Edges(n)[i].waitFor)
<1>1. IsFiniteSet(Unsatisfied(n)) /\ Cardinality(Unsatisfied(n)) \in Nat
  BY EdgesFinite DEF Unsatisfied
<1>2. Cardinality(Unsatisfied(n)) = 0
  BY <1>1 DEF Counts
<1>3. Unsatisfied(n) = {}
  BY <1>1, <1>2, FS_EmptySet
<1> QED
  BY <1>3 DEF Unsatisfied

(* Before anything is signalled every edge is still counted. *)
LEMMA InvInit == Init => Inv
<1> SUFFICES ASSUME Init PROVE Inv
  OBVIOUS
<1>1. TypeOK
  BY TypeInit
<1>2. RunInv /\ NoEarlyStart
  BY RunInit DEF Init, NoEarlyStart, Begun
<1>3. ASSUME NEW n \in Nodes
      PROVE /\ pending[n] = Cardinality(Unsatisfied(n)) /\ ~goClosed[n]
            /\ pending[n] <= Cardinality(Unsatisfied(n))
  <2>1. \A i \in EdgeIds(n) : Edges(n)[i].name \in Nodes /\ Edges(n)[i].waitFor \in Modes
    BY <1>1, ChainTypes
  <2>2. \A x \in Nodes : \A m \in Modes : ~Signalled(x, m)
    BY DEF Init, Signalled, Modes
  <2>3. Unsatisfied(n) = 1..Len(Edges(n)) /\ Len(Edges(n)) \in Nat
    BY <1>1, <2>1, <2>2, ChainTypes DEF Unsatisfied
  <2>4. Cardinality(Unsatisfied(n)) = Len(Edges(n))
    BY <2>3, FS_Interval
  <2> QED
    BY <2>3, <2>4 DEF Init, Edges
<1> QED
  BY <1>1, <1>2, <1>3 DEF Inv, Counts

(* A step that leaves the entries alone, except for a node that begins.    *)
LEMMA QuietStep ==
  ASSUME Inv, TypeOK', config' = config, pending' = pending,
         \A x \in Nodes : \A k \in Modes : Signalled(x, k)' <=> Signalled(x, k),
         \A x \in Nodes : state'[x] = "pending" =>
                            state[x] = "pending" /\ goClosed'[x] = goClosed[x],
         \A x \in Nodes : Begun(x)' => Begun(x) \/ (state[x] = "pending" /\ goClosed[x])
  PROVE  Counts' /\ NoEarlyStart'
<1>1. ASSUME NEW n \in Nodes
      PROVE  /\ Unsatisfied(n)' = Unsatisfied(n)
             /\ Edges(n)' = Edges(n) /\ EdgeIds(n)' = EdgeIds(n)
             /\ OneMode(n)' <=> OneMode(n)
             /\ \A i \in EdgeIds(n) : Edges(n)[i].name \in Nodes /\ Edges(n)[i].waitFor \in Modes
  <2>1. Edges(n)' = Edges(n) /\ EdgeIds(n)' = EdgeIds(n)
    BY DEF Edges, EdgeIds
  <2>2. \A i \in EdgeIds(n) : Edges(n)[i].name \in Nodes /\ Edges(n)[i].waitFor \in Modes
    BY ChainTypes DEF Inv, RunInv
  <2> QED
    BY <2>1, <2>2 DEF Unsatisfied, OneMode
<1>2. Counts'
  BY <1>1 DEF Inv, Counts
<1>3. ASSUME NEW n \in Nodes, Begun(n)', OneMode(n)', NEW i \in EdgeIds(n)'
      PROVE  Signalled(Edges(n)[i].name, Edges(n)[i].waitFor)'
  <2>1. Signalled(Edges(n)[i].name, Edges(n)[i].waitFor)
    BY <1>1, <1>3, NothingLeft DEF Inv, RunInv, NoEarlyStart
  <2> QED
    BY <1>1, <1>3, <2>1
<1> QED
  BY <1>2, <1>3 DEF NoEarlyStart

(* A step that gives the signal (n, m) for the first time. *)
LEMMA LoudStep ==
  ASSUME Inv, NEW n \in Nodes, NEW m \in Modes,
         ~Signalled(n, m), config' = config,
         pending' = PendingAfter(n, m),
         \A x \in Nodes : \A k \in Modes :
           Signalled(x, k)' <=> Signalled(x, k) \/ (x = n /\ k = m),
         \A x \in Nodes : state'[x] = "pending" =>
                            state[x] = "pending" /\ goClosed'[x] = GoAfter(n, m)[x],
         \A x \in Nodes : Begun(x)' => Begun(x)
  PROVE  Counts' /\ NoEarlyStart'
<1>1. Counts'
  <2> SUFFICES ASSUME NEW d \in Nodes, state'[d] = "pending"
               PROVE  /\ pending'[d] <= Cardinality(Unsatisfied(d)')
                      /\ OneMode(d)' => pending'[d] = Cardinality(Unsatisfied(d)')
                      /\ goClosed'[d] => pending'[d] <= 0
    BY DEF Counts
  <2>1. state[d] = "pending" /\ goClosed'[d] = GoAfter(n, m)[d]
    OBVIOUS
  <2>2. /\ PendingAfter(n, m)[d] <= Cardinality(Unsatisfied(d)')
        /\ OneMode(d) => PendingAfter(n, m)[d] = Cardinality(Unsatisfied(d)')
        /\ GoAfter(n, m)[d] => PendingAfter(n, m)[d] <= 0
    BY <2>1, SignalStep DEF Inv, RunInv
  <2>3. OneMode(d)' <=> OneMode(d)
    BY DEF OneMode, Edges, EdgeIds
  <2> QED
    BY <2>1, <2>2, <2>3
<1>2. NoEarlyStart'
  <2> SUFFICES ASSUME NEW d \in Nodes, Begun(d)', OneMode(d)', NEW i \in EdgeIds(d)'
               PROVE  Signalled(Edges(d)[i].name, Edges(d)[i].waitFor)'
    BY DEF NoEarlyStart
  <2>1. Edges(d)' = Edges(d) /\ EdgeIds(d)' = EdgeIds(d) /\ OneMode(d)
    BY DEF Edges, EdgeIds, OneMode
  <2>2. Edges(d)[i].name \in Nodes /\ Edges(d)[i].waitFor \in Modes
    BY <2>1, ChainTypes DEF Inv, RunInv
  <2>3. Signalled(Edges(d)[i].name, Edges(d)[i].waitFor)
    BY <2>1 DEF Inv, NoEarlyStart
  <2> QED
    BY <2>1, <2>2, <2>3
<1> QED
  BY <1>1, <1>2

(* A step of one node's goroutine that does not touch the router's state.  *)
LEMMA LocalStep ==
  ASSUME Inv, TypeOK', config' = config, UNCHANGED routing,
         NEW n \in Nodes, state[n] # "exited" \/ outcome' = outcome,
         \A x \in Nodes \ {n} : outcome'[x] = outcome[x]
  PROVE  Counts' /\ NoEarlyStart'
<1>1. ASSUME NEW x \in Nodes, NEW k \in Modes
      PROVE  Signalled(x, k)' <=> Signalled(x, k)
  BY <1>1 DEF Signalled, routing, Modes
<1>2. ASSUME NEW x \in Nodes, Begun(x)'
      PROVE  Begun(x)
  BY <1>2 DEF Begun, routing
<1> QED
  BY <1>1, <1>2, QuietStep DEF routing

(* Every step keeps the counters and what they stand for. *)
LEMMA InvStep == Inv /\ [Next]_vars => Inv'
<1> SUFFICES ASSUME Inv, [Next]_vars PROVE Inv'
  OBVIOUS
<1>r. RunInv /\ RunInv'
  BY RunStep DEF Inv
<1>t. TypeOK /\ TypeOK'
  BY <1>r DEF RunInv
<1> SUFFICES Counts' /\ NoEarlyStart' /\ config' = config
  BY <1>r DEF Inv
<1>1. CASE UNCHANGED vars \/ RunReturns \/ Cancel
  <2>1. config' = config /\ pc' = pc /\ UNCHANGED routing /\ outcome' = outcome
    BY <1>1 DEF vars, RunReturns, Cancel, routing
  <2>2. \A x \in Nodes : Begun(x)' <=> Begun(x)
    BY <2>1 DEF Begun, routing
  <2>3. \A x \in Nodes : \A k \in Modes : Signalled(x, k)' <=> Signalled(x, k)
    BY <2>1 DEF Signalled, routing
  <2> QED
    BY <2>1, <1>t, <2>2, <2>3, QuietStep DEF routing
<1>2. CASE OpenFrontier
  <2>1. ASSUME NEW n \in Nodes PROVE Unsatisfied(n)' = Unsatisfied(n)
    <3>1. \A i \in EdgeIds(n) : Edges(n)[i].waitFor \in Modes
      BY <1>t, ChainTypes
    <3> QED
      BY <1>2, <3>1 DEF OpenFrontier, Unsatisfied, Signalled, Modes, Edges, EdgeIds
  <2>2. ASSUME NEW n \in Nodes, state'[n] = "pending"
        PROVE  /\ pending'[n] <= Cardinality(Unsatisfied(n)')
               /\ OneMode(n)' => pending'[n] = Cardinality(Unsatisfied(n)')
               /\ goClosed'[n] => pending'[n] <= 0
    <3>1. /\ pending'[n] <= Cardinality(Unsatisfied(n)) /\ pending[n] = pending'[n]
          /\ OneMode(n) => pending'[n] = Cardinality(Unsatisfied(n))
          /\ goClosed[n] => pending[n] <= 0
      BY <1>2, <2>2 DEF OpenFrontier, Inv, Counts
    <3>2. goClosed'[n] => goClosed[n] \/ pending[n] = 0
      BY <1>2, Zenon DEF OpenFrontier
    <3>3. pending[n] \in Int
      BY <1>t DEF TypeOK
    <3>4. OneMode(n)' <=> OneMode(n)
      BY <1>2 DEF OpenFrontier, OneMode, Edges, EdgeIds
    <3> QED
      BY <2>1, <3>1, <3>2, <3>3, <3>4
  <2>3. NoEarlyStart'
    <3>1. ASSUME NEW n \in Nodes, Begun(n)', OneMode(n)', NEW i \in EdgeIds(n)'
          PROVE  Signalled(Edges(n)[i].name, Edges(n)[i].waitFor)'
      <4>1. /\ EdgeIds(n)' = EdgeIds(n) /\ Edges(n)' = Edges(n)
            /\ Begun(n) /\ OneMode(n)
        BY <1>2, <3>1 DEF OpenFrontier, Begun, EdgeIds, Edges, OneMode
      <4>2. i \notin Unsatisfied(n)
        BY <3>1, <4>1 DEF Inv, NoEarlyStart, Unsatisfied
      <4>3. i \notin Unsatisfied(n)'
        BY <2>1, <4>2
      <4> QED
        BY <3>1, <4>3 DEF Unsatisfied
    <3> QED
      BY <3>1 DEF NoEarlyStart
  <2> QED
    BY <1>2, <2>2, <2>3 DEF Counts, OpenFrontier
<1>3. ASSUME NEW n \in Nodes, Wake(n) \/ Bail(n) \/ CascadeSkip(n) \/ FailChain(n)
      PROVE  Counts' /\ NoEarlyStart' /\ config' = config
  <2>1. /\ UNCHANGED routing /\ config' = config
        /\ \A x \in Nodes \ {n} : outcome'[x] = outcome[x]
        /\ state[n] # "exited" \/ outcome' = outcome
    BY <1>3, <1>t DEF Wake, Bail, CascadeSkip, FailChain, Return, TypeOK, chainVars, routing
  <2> QED
    BY <1>t, <2>1, LocalStep
<1>4. ASSUME NEW n \in Nodes, Begin(n)
      PROVE  Counts' /\ NoEarlyStart' /\ config' = config
  <2>1. goClosed[n] /\ state[n] = "pending"
    BY <1>4, <1>r DEF Begin, RunInv, Position
  <2>2. \A x \in Nodes : \A k \in Modes : Signalled(x, k)' <=> Signalled(x, k)
    BY <1>4, <1>t, <2>1 DEF Begin, Signalled, TypeOK, Modes
  <2>3. \A x \in Nodes : Begun(x)' => Begun(x) \/ (state[x] = "pending" /\ goClosed[x])
    BY <1>4, <1>t, <2>1 DEF Begin, Begun, TypeOK
  <2>4. \A x \in Nodes : state'[x] = "pending" => state[x] = "pending"
    BY <1>4, <1>t DEF Begin, TypeOK
  <2> QED
    BY <1>4, <1>t, <2>2, <2>3, <2>4, QuietStep DEF Begin, chainVars
<1>5. ASSUME NEW n \in Nodes, Lifecycle(n), ~SignalStarted(n), ~SignalReady(n)
      PROVE  Counts' /\ NoEarlyStart' /\ config' = config
  <2>1. SilentStep(n)
    BY <1>5, <1>r, LifecycleFrame DEF RunInv
  <2>2. state[n] = "running"
    BY <2>1, <1>r DEF SilentStep, Silent, RunInv, Position, Working
  <2>3. Private(n)
    BY <2>1 DEF SilentStep
  <2> QED
    BY <1>t, <2>2, <2>3, LocalStep DEF Private
<1>6. ASSUME NEW n \in Nodes, SignalStarted(n)
      PROVE  Counts' /\ NoEarlyStart' /\ config' = config
  <2>1. state[n] = "running" /\ config' = config /\ state' = state /\ outcome' = outcome
    BY <1>6, <1>r DEF SignalStarted, RunInv, Position, Working, chainVars
  <2>2. \A x \in Nodes : Begun(x)' <=> Begun(x)
    BY <2>1 DEF Begun
  <2>3. CASE startedC[n]
    <3>1. UNCHANGED routing
      BY <1>6, <1>t, <2>3 DEF SignalStarted, routing, TypeOK
    <3> QED
      BY <1>t, <2>1, <3>1, LocalStep
  <2>4. CASE ~startedC[n]
    <3>1. ~Signalled(n, "started")
      BY <2>4 DEF Signalled
    <3>2. \A x \in Nodes : \A k \in Modes :
            Signalled(x, k)' <=> Signalled(x, k) \/ (x = n /\ k = "started")
      BY <1>6, <1>t, <2>4 DEF SignalStarted, Signalled, TypeOK, Modes
    <3>3. pending' = PendingAfter(n, "started") /\ goClosed' = GoAfter(n, "started")
      BY <1>6, <2>4 DEF SignalStarted
    <3>4. Counts' /\ NoEarlyStart'
      BY <2>1, <2>2, <3>1, <3>2, <3>3, LoudStep DEF Modes
    <3> QED
      BY <2>1, <3>4
  <2> QED
    BY <2>3, <2>4
<1>7. ASSUME NEW n \in Nodes, SignalReady(n)
      PROVE  Counts' /\ NoEarlyStart' /\ config' = config
  <2>1. /\ state[n] = "running" /\ config' = config /\ state' = state
        /\ \A x \in Nodes \ {n} : outcome'[x] = outcome[x]
    BY <1>7, <1>t, <1>r DEF SignalReady, RunInv, Position, Working, chainVars, Return, TypeOK
  <2>2. \A x \in Nodes : Begun(x)' <=> Begun(x)
    BY <2>1 DEF Begun
  <2>3. CASE readyC[n]
    <3>1. UNCHANGED routing
      BY <1>7, <1>t, <2>3 DEF SignalReady, routing, TypeOK
    <3> QED
      BY <1>t, <2>1, <3>1, LocalStep
  <2>4. CASE ~readyC[n]
    <3>1. ~Signalled(n, "ready")
      BY <2>4 DEF Signalled
    <3>2. \A x \in Nodes : \A k \in Modes :
            Signalled(x, k)' <=> Signalled(x, k) \/ (x = n /\ k = "ready")
      BY <1>7, <1>t, <2>1, <2>4 DEF SignalReady, Signalled, TypeOK, Modes
    <3>3. pending' = PendingAfter(n, "ready") /\ goClosed' = GoAfter(n, "ready")
      BY <1>7, <2>4 DEF SignalReady
    <3>4. Counts' /\ NoEarlyStart'
      BY <2>1, <2>2, <3>1, <3>2, <3>3, LoudStep DEF Modes
    <3> QED
      BY <2>1, <3>4
  <2> QED
    BY <2>3, <2>4
<1>8. ASSUME NEW n \in Nodes, NodeExited(n)
      PROVE  Counts' /\ NoEarlyStart' /\ config' = config
  <2> DEFINE go == IF Failed(n) THEN goClosed ELSE GoAfter(n, "exit")
  <2>1. /\ config' = config /\ UNCHANGED <<startedC, readyC, outcome>>
        /\ state'[n] = "exited" /\ state[n] # "exited"
        /\ state[n] = "running" => outcome[n] # "skipped"
        /\ state[n] = "skipped" => outcome[n] = "skipped"
        /\ \A x \in Nodes \ {n} :
             state'[x] = state[x] \/ (state[x] = "pending" /\ state'[x] = "skipped")
    BY <1>8, <1>r, ExitFrame DEF RunInv, Position
  <2>2. state[n] \in {"running", "skipped"}
    BY <1>8, <1>r, ExitFrame
  <2>3. \A x \in Nodes : state'[x] = "pending" => state[x] = "pending"
    BY <2>1
  <2>4. ASSUME NEW x \in Nodes, state'[x] = "pending"
        PROVE  goClosed'[x] = go[x]
    <3>1. go \in [Nodes -> BOOLEAN]
      BY <1>t, DecrementTypes DEF TypeOK, Modes
    <3> QED
      BY <1>8, <2>4, <3>1 DEF NodeExited
  <2>5. \A x \in Nodes : Begun(x)' => Begun(x)
    BY <2>1, <2>2 DEF Begun
  <2>6. CASE Failed(n)
    <3>1. \A x \in Nodes : \A k \in Modes : Signalled(x, k)' <=> Signalled(x, k)
      BY <2>1, <2>6 DEF Signalled, Failed, Modes
    <3>2. pending' = pending
      BY <1>8, <2>6 DEF NodeExited
    <3> QED
      BY <1>t, <2>1, <2>3, <2>4, <2>5, <2>6, <3>1, <3>2, QuietStep
  <2>7. CASE ~Failed(n)
    <3>1. ~Signalled(n, "exit")
      BY <2>1 DEF Signalled
    <3>2. \A x \in Nodes : \A k \in Modes :
            Signalled(x, k)' <=> Signalled(x, k) \/ (x = n /\ k = "exit")
      BY <2>1, <2>7 DEF Signalled, Failed, Modes
    <3>3. pending' = PendingAfter(n, "exit")
      BY <1>8, <2>7 DEF NodeExited
    <3>4. Counts' /\ NoEarlyStart'
      BY <2>3, <2>4, <2>5, <2>7, <3>1, <3>2, <3>3, <2>1, LoudStep DEF Modes
    <3> QED
      BY <2>1, <3>4
  <2> QED
    BY <2>6, <2>7
<1> QED
  BY <1>1, <1>2, <1>3, <1>4, <1>5, <1>6, <1>7, <1>8 DEF Next, Router, OpenFrontier

(* The counters are right at all times. *)
LEMMA OrderInvariant == Spec => []Inv
<1> QED
  BY InvInit, InvStep, PTL DEF Spec

(* Whatever the order in which dependencies start, become ready, exit, are  *)
(* skipped or fail, a node whose edges to one dependency agree on its mode  *)
(* begins only after every edge was signalled in its own wait mode.         *)
THEOREM NeverEarly == Spec => []NoEarlyStart
<1>1. Inv => NoEarlyStart
  BY DEF Inv
<1> QED
  BY <1>1, OrderInvariant, PTL

(* The skip of a node spreads along its started and ready edges: it never  *)
(* signals (Given), so nothing that waits for its signal begins.           *)
THEOREM SkipsSpread == Spec => []SkipCascades
<1>1. ASSUME Inv PROVE SkipCascades
  <2> SUFFICES ASSUME \A x \in Nodes : \A i \in EdgeIds(x) : Edges(x)[i].waitFor # "exit",
                      NEW n \in Nodes, Begun(n), OneMode(n), NEW i \in EdgeIds(n)
               PROVE  outcome[Edges(n)[i].name] # "skipped"
    BY DEF SkipCascades
  <2>1. Edges(n)[i].name \in Nodes /\ Edges(n)[i].waitFor \in {"started", "ready"}
    BY <1>1, ChainTypes DEF Inv, RunInv, Modes
  <2>2. startedC[Edges(n)[i].name] \/ readyC[Edges(n)[i].name]
    BY <1>1, <2>1 DEF Inv, NoEarlyStart, Signalled
  <2> QED
    BY <1>1, <2>1, <2>2 DEF Inv, RunInv, Given
<1> QED
  BY <1>1, OrderInvariant, PTL

(* The process of a oneshot that has signalled in any mode is gone.        *)
LEMMA SignalledOneshot ==
  ASSUME RunInv, NEW d \in Nodes, NEW m \in Modes, Kind(d) = "oneshot", Signalled(d, m)
  PROVE  ~Supervised(d)
<1>1. pc[d] \in Leaving \cup {"succeeded2"}
  BY DEF RunInv, Given, Ending, Signalled, Modes, Leaving
<1> QED
  BY <1>1 DEF Supervised, Leaving

(* "init DAG -> exec main": when every other node is a oneshot dependency  *)
(* of the exec node, with one mode for each, no supervised process is left *)
(* by the time its guard looks.                                            *)
THEOREM ExecNotRefused == Spec => []InitThenExec
<1>1. ASSUME Inv PROVE InitThenExec
  <2> SUFFICES ASSUME NEW n \in Nodes, pc[n] = "setup", Kind(n) = "exec",
                      \A d \in Nodes \ {n} : EdgesTo(n, d) # {} /\ Kind(d) = "oneshot",
                      OneMode(n)
               PROVE  active = 0
    BY DEF InitThenExec
  <2>1. Begun(n)
    BY <1>1 DEF Inv, RunInv, Position, Working, Begun
  <2>2. ASSUME NEW d \in Nodes, d # n PROVE ~Supervised(d)
    <3>1. PICK i \in EdgesTo(n, d) : TRUE
      BY <2>2
    <3>2. i \in EdgeIds(n) /\ Edges(n)[i].name = d
      BY <3>1 DEF EdgesTo
    <3>3. Kind(d) = "oneshot"
      BY <2>2
    <3>4. Edges(n)[i].waitFor \in Modes
      BY <1>1, <3>2, ChainTypes DEF Inv, RunInv
    <3>5. Signalled(d, Edges(n)[i].waitFor)
      BY <1>1, <2>1, <3>2 DEF Inv, NoEarlyStart
    <3> QED
      BY <1>1, <3>3, <3>4, <3>5, SignalledOneshot DEF Inv
  <2>3. ~Supervised(n)
    BY DEF Supervised
  <2>4. {x \in Nodes : Supervised(x)} = {}
    BY <2>2, <2>3
  <2> QED
    BY <1>1, <2>4, FS_EmptySet DEF Inv, RunInv, ActiveCount
<1> QED
  BY <1>1, OrderInvariant, PTL

----------------------------------------------------------------------------
(* Who waits has a dependency that can still decide.                       *)

(* What the exits leave behind, for the waiting nodes: until the chain is  *)
(* cancelled a goroutine returns by nodeExited only; an exit that is       *)
(* routed leaves no dependent waiting; who waits has a counter above zero. *)
Returned == ~ctxDone => \A d \in Nodes : pc[d] = "done" => state[d] = "exited"

Routed ==
  \A d, n \in Nodes : state[d] = "exited" /\ Routes(d) /\ state[n] = "pending"
    /\ n \in Dependents(d) => goClosed[n]

Waits ==
  main # "launching" => \A n \in Nodes :
    state[n] = "pending" /\ ~goClosed[n] => pending[n] > 0

(* A guarded oneshot is not skipped, not drained, and stopped only with    *)
(* the chain.                                                              *)
Guarded ==
  \A d \in Nodes : Kind(d) = "oneshot" =>
    /\ ~drained[d] /\ state[d] # "skipped" /\ outcome[d] # "skipped"
    /\ ~ctxDone => outcome[d] # "stopped"

(* While the goroutines are launched none gets past goCh, so nothing is    *)
(* signalled yet.                                                          *)
Launching ==
  main = "launching" => \A n \in Nodes :
    state[n] = "pending" /\ ~goClosed[n] /\ pending[n] >= 0

OrphanInv ==
  Inv /\ Returned /\ Routed /\ Waits /\ Launching /\ (GuardedOneshots => Guarded)

(* No step reopens an entry or takes an exit back: what is left to show of *)
(* a step is its own return, its own exit and the counters it decrements.  *)
LEMMA OrphanStep ==
  ASSUME TypeOK, Returned, Routed, config' = config, ctxDone => ctxDone',
         \A x \in Nodes : state[x] = "exited" => state'[x] = "exited",
         \A x \in Nodes : state'[x] = "exited" => outcome'[x] = outcome[x],
         \A x \in Nodes : state'[x] = "pending" => state[x] = "pending",
         \A x \in Nodes : goClosed[x] => goClosed'[x],
         \A x \in Nodes : pc'[x] = "done" => pc[x] = "done" \/ ctxDone' \/ state'[x] = "exited",
         \A d, n \in Nodes : state'[d] = "exited" /\ state[d] # "exited" /\ Routes(d)
           /\ state'[n] = "pending" /\ n \in Dependents(d) => goClosed'[n]
  PROVE  Returned' /\ Routed'
<1>1. Returned'
  BY DEF Returned
<1>2. ASSUME NEW d \in Nodes, NEW n \in Nodes, state'[d] = "exited", Routes(d)',
             state'[n] = "pending", n \in Dependents(d)'
      PROVE  goClosed'[n]
  <2>1. Routes(d)
    BY <1>2 DEF Routes, Fatal, Failed, Kind
  <2>2. n \in Dependents(d)
    BY <1>2 DEF Dependents, EdgesTo, EdgeIds, Edges
  <2> QED
    BY <1>2, <2>1, <2>2 DEF Routed
<1> QED
  BY <1>1, <1>2 DEF Routed

(* A decrement that leaves goCh open leaves the counter above zero.        *)
LEMMA WaitsStep ==
  ASSUME TypeOK, Waits, main' = main,
         \A x \in Nodes : state'[x] = "pending" => state[x] = "pending",
         \/ pending' = pending /\ \A x \in Nodes : goClosed[x] => goClosed'[x]
         \/ \E n \in Nodes, m \in Modes :
              /\ pending' = PendingAfter(n, m)
              /\ \A x \in Nodes : GoAfter(n, m)[x] => goClosed'[x]
  PROVE  Waits'
<1> SUFFICES ASSUME main # "launching", NEW d \in Nodes, state'[d] = "pending", ~goClosed'[d]
             PROVE  pending'[d] > 0
  BY DEF Waits
<1>1. CASE pending' = pending /\ \A x \in Nodes : goClosed[x] => goClosed'[x]
  BY <1>1 DEF Waits
<1>2. ASSUME NEW n \in Nodes, NEW m \in Modes, pending' = PendingAfter(n, m),
             \A x \in Nodes : GoAfter(n, m)[x] => goClosed'[x]
      PROVE  pending'[d] > 0
  <2>1. ~GoAfter(n, m)[d] /\ PendingAfter(n, m)[d] \in Int
    BY <1>2, DecrementTypes
  <2>2. ~goClosed[d] /\ (d \notin Waiting(n, m) \/ ~(PendingAfter(n, m)[d] <= 0))
    BY <2>1, Zenon DEF GoAfter
  <2>3. CASE d \in Waiting(n, m)
    BY <1>2, <2>1, <2>2, <2>3
  <2>4. CASE d \notin Waiting(n, m)
    <3>1. PendingAfter(n, m)[d] = pending[d]
      BY <2>4 DEF PendingAfter
    <3> QED
      BY <1>2, <2>2, <3>1 DEF Waits
  <2> QED
    BY <2>3, <2>4
<1> QED
  BY <1>1, <1>2

(* Whoever does more than return is past goCh.                             *)
LEMMA LaunchingStep ==
  ASSUME Launching, main' = main,
         \/ UNCHANGED <<state, goClosed, pending>>
         \/ \E n \in Nodes : goClosed[n] \/ state[n] # "pending"
  PROVE  Launching'
BY DEF Launching

(* In a guarded chain no exit is routed to a oneshot.                      *)
LEMMA NotRouted ==
  ASSUME TypeOK, GuardedOneshots, NEW n \in Nodes, NEW d \in Dependents(n), Kind(d) = "oneshot"
  PROVE  ~Routes(n)
<1>1. PICK i \in EdgesTo(d, n) : TRUE
  BY DEF Dependents
<1>2. d \in Nodes /\ i \in EdgeIds(d) /\ Edges(d)[i].name = n
  BY <1>1 DEF EdgesTo, Dependents
<1>3. Kind(n) = "oneshot" /\ ~config[n].optional
  BY <1>2 DEF GuardedOneshots
<1> QED
  BY <1>3 DEF Routes, Fatal

(* A oneshot's own step stops it only when its context has ended, and only *)
(* a routed exit drains or skips it.                                       *)
LEMMA GuardedStep ==
  ASSUME TypeOK, GuardedOneshots, Guarded, config' = config, ctxDone => ctxDone',
         \A x \in Nodes : drained'[x] => \/ drained[x]
                                         \/ \E n \in Nodes : Routes(n) /\ x \in Dependents(n),
         \A x \in Nodes : state'[x] = "skipped" =>
                            \/ state[x] = "skipped"
                            \/ \E n \in Nodes : Routes(n) /\ x \in Dependents(n),
         \A x \in Nodes : outcome'[x] = "skipped" => outcome[x] = "skipped" \/ state[x] = "skipped",
         \A x \in Nodes : outcome'[x] = "stopped" /\ Kind(x) = "oneshot" =>
                            outcome[x] = "stopped" \/ Cancelled(x)
  PROVE  Guarded'
<1> SUFFICES ASSUME NEW d \in Nodes, Kind(d) = "oneshot"
             PROVE  /\ ~drained'[d] /\ state'[d] # "skipped" /\ outcome'[d] # "skipped"
                    /\ ~ctxDone' => outcome'[d] # "stopped"
  BY DEF Guarded, Kind
<1>1. \A n \in Nodes : d \in Dependents(n) => ~Routes(n)
  BY NotRouted
<1>2. /\ ~drained[d] /\ state[d] # "skipped" /\ outcome[d] # "skipped"
      /\ ~ctxDone => outcome[d] # "stopped"
  BY DEF Guarded
<1> QED
  BY <1>1, <1>2 DEF Cancelled

(* The same for every step of the coordinator. *)
LEMMA OrphanInvStep == OrphanInv /\ [Next]_vars => OrphanInv'
<1> SUFFICES ASSUME OrphanInv, [Next]_vars PROVE OrphanInv'
  OBVIOUS
<1>0. /\ Inv /\ RunInv /\ TypeOK /\ Inv' /\ TypeOK'
      /\ Returned /\ Routed /\ Waits /\ Launching /\ (GuardedOneshots => Guarded)
  BY InvStep DEF OrphanInv, Inv, RunInv
<1> DEFINE Kept ==
      Returned' /\ Routed' /\ Waits' /\ Launching' /\ (GuardedOneshots' => Guarded')
<1> SUFFICES Kept
  BY <1>0 DEF OrphanInv
<1>g. config' = config => (GuardedOneshots' <=> GuardedOneshots)
  BY DEF GuardedOneshots, Kind, EdgeIds, Edges
<1>1. CASE OpenFrontier \/ RunReturns \/ Cancel \/ UNCHANGED vars
  <2>1. /\ UNCHANGED <<config, pc, state, pending, drained, outcome>>
        /\ ctxDone => ctxDone'
        /\ main' = "launching" => main = "launching"
    BY <1>1 DEF OpenFrontier, RunReturns, Cancel, vars, routing
  <2>2. \A x \in Nodes : goClosed[x] => goClosed'[x]
    BY <1>1 DEF OpenFrontier, RunReturns, Cancel, vars, routing
  <2>3. Returned' /\ Routed'
    BY <1>0, <2>1, <2>2, OrphanStep
  <2>4. Waits'
    <3>1. CASE OpenFrontier
      <4>1. ASSUME NEW n \in Nodes, state'[n] = "pending", ~goClosed'[n] PROVE pending'[n] > 0
        <5>1. pending[n] >= 0 /\ pending[n] \in Int
          BY <1>0, <3>1 DEF OpenFrontier, Launching, TypeOK
        <5>2. pending[n] # 0
          BY <3>1, <4>1 DEF OpenFrontier
        <5> QED
          BY <2>1, <5>1, <5>2
      <4> QED
        BY <4>1 DEF Waits
    <3>2. CASE ~OpenFrontier
      <4>1. main # "launching" \/ main' = main
        BY <1>1, <3>2 DEF RunReturns, Cancel, vars
      <4> QED
        BY <1>0, <2>1, <2>2, <4>1 DEF Waits
    <3> QED
      BY <3>1, <3>2
  <2>5. GuardedOneshots' => Guarded'
    BY <1>0, <1>g, <2>1, GuardedStep
  <2>6. Launching'
    BY <1>0, <1>1 DEF OpenFrontier, RunReturns, Cancel, vars, routing, Launching
  <2> QED
    BY <2>3, <2>4, <2>5, <2>6
<1>2. ASSUME NEW n \in Nodes, Wake(n) \/ Bail(n) \/ CascadeSkip(n) \/ Begin(n) PROVE Kept
  <2>1. /\ UNCHANGED <<config, goClosed, pending, drained, ctxDone, main>>
        /\ \A x \in Nodes \ {n} : pc'[x] = pc[x] /\ outcome'[x] = outcome[x] /\ state'[x] = state[x]
        /\ state[n] \in {"pending", "skipped"} /\ state'[n] \in {state[n], "running"}
        /\ pc'[n] = "done" => ctxDone
        /\ outcome'[n] = outcome[n] \/ (outcome'[n] = "skipped" /\ state[n] = "skipped")
    BY <1>0, <1>2 DEF Wake, Bail, CascadeSkip, Begin, Goto, Return, routing, chainVars, TypeOK,
                      RunInv, Position
  <2>2. Returned' /\ Routed'
    BY <1>0, <2>1, OrphanStep
  <2>3. Waits'
    BY <1>0, <2>1, WaitsStep
  <2>4. GuardedOneshots' => Guarded'
    BY <1>0, <1>g, <2>1, GuardedStep
  <2>5. UNCHANGED <<state, goClosed, pending>> \/ goClosed[n]
    BY <1>0, <1>2 DEF Wake, Bail, CascadeSkip, Begin, routing, RunInv, Position
  <2>6. Launching'
    BY <1>0, <2>1, <2>5, LaunchingStep
  <2> QED
    BY <2>2, <2>3, <2>4, <2>6
<1>3. ASSUME NEW n \in Nodes, Lifecycle(n), ~SignalStarted(n), ~SignalReady(n) PROVE Kept
  <2>1. SilentStep(n)
    BY <1>0, <1>3, LifecycleFrame DEF RunInv
  <2>2. /\ UNCHANGED <<config, state, pending, goClosed, drained, ctxDone, main>>
        /\ \A x \in Nodes \ {n} : pc'[x] = pc[x] /\ outcome'[x] = outcome[x]
        /\ pc'[n] # "done" /\ state[n] = "running"
        /\ outcome'[n] # "skipped"
        /\ outcome'[n] = "stopped" /\ Kind(n) = "oneshot" => outcome[n] = "stopped" \/ Cancelled(n)
    BY <1>0, <2>1 DEF SilentStep, Private, Silent, routing, RunInv, Position, Working
  <2>3. Returned' /\ Routed'
    BY <1>0, <2>2, OrphanStep
  <2>4. Waits'
    BY <1>0, <2>2, WaitsStep
  <2>5. GuardedOneshots' => Guarded'
    BY <1>0, <1>g, <2>2, GuardedStep
  <2>6. Launching'
    BY <1>0, <2>2, LaunchingStep
  <2> QED
    BY <2>3, <2>4, <2>5, <2>6
<1>4. ASSUME NEW n \in Nodes, SignalStarted(n) \/ SignalReady(n) PROVE Kept
  <2>1. /\ UNCHANGED <<config, state, drained, ctxDone, main>>
        /\ \A x \in Nodes \ {n} : pc'[x] = pc[x] /\ outcome'[x] = outcome[x]
        /\ pc'[n] # "done" /\ state[n] = "running"
        /\ outcome'[n] \in {outcome[n], "zero"}
    BY <1>0, <1>4 DEF SignalStarted, SignalReady, Goto, Return, chainVars, TypeOK,
                      RunInv, Position, Working
  <2>2. \/ pending' = pending /\ \A x \in Nodes : goClosed[x] => goClosed'[x]
        \/ \E m \in Modes : /\ pending' = PendingAfter(n, m)
                            /\ \A x \in Nodes : GoAfter(n, m)[x] => goClosed'[x]
    BY <1>4 DEF SignalStarted, SignalReady, Modes
  <2>3. \A x \in Nodes : goClosed[x] => goClosed'[x]
    BY <1>4, Zenon DEF SignalStarted, SignalReady, GoAfter
  <2>4. Returned' /\ Routed'
    BY <1>0, <2>1, <2>3, OrphanStep
  <2>5. Waits'
    BY <1>0, <2>1, <2>2, WaitsStep
  <2>6. GuardedOneshots' => Guarded'
    BY <1>0, <1>g, <2>1, GuardedStep
  <2>7. Launching'
    BY <1>0, <2>1, LaunchingStep
  <2> QED
    BY <2>4, <2>5, <2>6, <2>7
<1>5. ASSUME NEW n \in Nodes, NodeExited(n) PROVE Kept
  <2>1. /\ UNCHANGED <<config, outcome, ctxDone, main>>
        /\ state'[n] = "exited" /\ state[n] \in {"running", "skipped"}
        /\ \A x \in Nodes \ {n} :
             \/ state'[x] = state[x]
             \/ /\ state[x] = "pending" /\ state'[x] = "skipped"
                /\ Routes(n) /\ x \in Dependents(n)
        /\ \A x \in Nodes : goClosed[x] => goClosed'[x]
        /\ \A x \in Nodes : pc'[x] = "done" => pc[x] = "done" \/ state'[x] = "exited"
        /\ \A x \in Nodes : drained'[x] => \/ drained[x]
                                           \/ Routes(n) /\ x \in Dependents(n)
        /\ \A x \in Dependents(n) : Routes(n) /\ state'[x] = "pending" => goClosed'[x]
    BY <1>0, <1>5, ExitFrame
  <2>2. Returned' /\ Routed'
    BY <1>0, <2>1, OrphanStep
  <2>3. \/ pending' = pending
        \/ /\ pending' = PendingAfter(n, "exit")
           /\ \A x \in Nodes : GoAfter(n, "exit")[x] => goClosed'[x]
    BY <1>5 DEF NodeExited
  <2>4. Waits'
    BY <1>0, <2>1, <2>3, WaitsStep DEF Modes
  <2>5. GuardedOneshots' => Guarded'
    BY <1>0, <1>g, <2>1, GuardedStep
  <2>6. Launching'
    BY <1>0, <2>1, LaunchingStep
  <2> QED
    BY <2>2, <2>4, <2>5, <2>6
<1>6. ASSUME NEW n \in Nodes, FailChain(n) PROVE Kept
  <2>1. /\ UNCHANGED <<config, state, pending, goClosed, drained, outcome, main>>
        /\ ctxDone => ctxDone'
        /\ \A x \in Nodes : pc'[x] = "done" => pc[x] = "done" \/ state'[x] = "exited"
    BY <1>0, <1>6 DEF FailChain, Goto, routing, TypeOK, RunInv, Position
  <2>2. Returned' /\ Routed'
    BY <1>0, <2>1, OrphanStep
  <2>3. Waits'
    BY <1>0, <2>1, WaitsStep
  <2>4. GuardedOneshots' => Guarded'
    BY <1>0, <1>g, <2>1, GuardedStep
  <2>5. Launching'
    BY <1>0, <2>1, LaunchingStep
  <2> QED
    BY <2>2, <2>3, <2>4, <2>5
<1> QED
  BY <1>1, <1>2, <1>3, <1>4, <1>5, <1>6 DEF Next, Router

(* A waiting node has a dependency that has not returned: one that has     *)
(* returned was routed, or is a oneshot that gave every signal, or failed  *)
(* the chain.                                                              *)
LEMMA OrphanFree == ASSUME OrphanInv PROVE NoOrphan
<1>0. Inv /\ RunInv /\ TypeOK
  BY DEF OrphanInv, Inv, RunInv
<1> SUFFICES ASSUME GuardedOneshots, main # "launching", ~ctxDone,
                    NEW n \in Nodes, pc[n] = "blocked", ~goClosed[n],
                    \A i \in EdgeIds(n) : pc[Edges(n)[i].name] = "done"
             PROVE  FALSE
  BY DEF NoOrphan, NobodyStranded
<1>1. state[n] = "pending"
  BY <1>0 DEF RunInv, Position, Skips
<1>2. pending[n] > 0 /\ pending[n] <= Cardinality(Unsatisfied(n)) /\ pending[n] \in Int
  BY <1>0, <1>1 DEF OrphanInv, Waits, Inv, Counts, TypeOK
<1>3. Unsatisfied(n) # {}
  BY <1>2, FS_EmptySet
<1>4. PICK i \in EdgeIds(n) : ~Signalled(Edges(n)[i].name, Edges(n)[i].waitFor)
  BY <1>3 DEF Unsatisfied
<1> DEFINE d == Edges(n)[i].name
<1>5. d \in Nodes /\ Edges(n)[i].waitFor \in Modes
  BY <1>0, ChainTypes
<1>6. n \in Dependents(d)
  BY <1>4 DEF Dependents, EdgesTo
<1>7. ~Signalled(d, Edges(n)[i].waitFor) /\ pc[d] = "done"
  BY <1>4
<1> HIDE DEF d
<1>8. state[d] = "exited"
  BY <1>5, <1>7 DEF OrphanInv, Returned
<1>9. ~Routes(d)
  BY <1>1, <1>5, <1>6, <1>8 DEF OrphanInv, Routed
<1>10. ~Fatal(d)
  BY <1>0, <1>5, <1>7 DEF RunInv, Errors
<1>11. Kind(d) = "oneshot" /\ ~Failed(d)
  BY <1>9, <1>10 DEF Routes
<1>12. outcome[d] = "zero"
  BY <1>0, <1>5, <1>8, <1>11 DEF OrphanInv, Guarded, RunInv, Ending, TypeOK, Outcomes, Failed
<1>13. startedC[d] /\ readyC[d]
  BY <1>0, <1>5, <1>7, <1>11, <1>12 DEF RunInv, Given, Leaving
<1> QED
  BY <1>5, <1>7, <1>8, <1>12, <1>13 DEF Signalled, Modes

(* While a chain runs whose oneshots depend only on oneshots that are not   *)
(* optional, a node that waits, by whatever modes, has a dependency whose   *)
(* goroutine can still decide its fate, whatever failed, was skipped or was *)
(* drained in whatever order: wg.Wait does not wait for a node nobody will  *)
(* release.                                                                 *)
THEOREM NobodyOrphaned == Spec => []NoOrphan
<1>1. Init => OrphanInv
  <2> SUFFICES ASSUME Init PROVE OrphanInv
    OBVIOUS
  <2>1. Returned /\ Routed /\ Waits /\ Guarded
    BY DEF Init, Returned, Routed, Waits, Guarded
  <2>2. \A n \in Nodes : Len(config[n].edges) \in Nat
    BY TypeInit, ChainTypes DEF Edges
  <2>3. Launching
    BY <2>2 DEF Init, Launching
  <2> QED
    BY <2>1, <2>3, InvInit DEF OrphanInv
<1> QED
  BY <1>1, OrphanInvStep, OrphanFree, PTL DEF Spec

----------------------------------------------------------------------------
(* Run implements the contract of a chain.                                 *)

(* The contract's variables, as functions of the coordinator's state. *)
EdgeSets == [n \in Nodes |-> {<<Edges(n)[i].name, Edges(n)[i].waitFor>> : i \in EdgeIds(n)}]
Statuses == [n \in Nodes |-> Status(n)]
SignalSet == {s \in Nodes \X Modes : Signalled(s[1], s[2])}

(* Edges that agree on their modes as a set agree as a list.               *)
LEMMA ModesAgree ==
  ASSUME NEW n \in Nodes, Contract!OneMode(n)
  PROVE  OneMode(n)
<1> SUFFICES ASSUME NEW i \in EdgeIds(n), NEW j \in EdgeIds(n), Edges(n)[i].name = Edges(n)[j].name
             PROVE  Edges(n)[i].waitFor = Edges(n)[j].waitFor
  BY DEF OneMode
<1>1. /\ <<Edges(n)[i].name, Edges(n)[i].waitFor>> \in EdgeSets[n]
      /\ <<Edges(n)[j].name, Edges(n)[j].waitFor>> \in EdgeSets[n]
  BY DEF EdgeSets
<1>2. \A e, f \in EdgeSets[n] : e[1] = f[1] => e = f
  BY DEF Contract!OneMode, EdgeSets
<1> QED
  BY <1>1, <1>2

(* The chain is fixed; the others follow from what happens to each node.   *)
LEMMA AbstractStep ==
  ASSUME config' = config
  PROVE  /\ EdgeSets' = EdgeSets
         /\ (\A x \in Nodes : Status(x)' = Status(x)) => Statuses' = Statuses
         /\ (\A x \in Nodes : \A k \in Modes : Signalled(x, k)' <=> Signalled(x, k)) =>
              SignalSet' = SignalSet
         /\ \A n \in Nodes : \A m \in Modes :
              (\A x \in Nodes : \A k \in Modes :
                 Signalled(x, k)' <=> Signalled(x, k) \/ (x = n /\ k = m)) =>
              SignalSet' = SignalSet \cup {<<n, m>>}
<1>1. EdgeSets' = EdgeSets
  BY DEF EdgeSets, Edges, EdgeIds
<1>2. (\A x \in Nodes : Status(x)' = Status(x)) => Statuses' = Statuses
  BY DEF Statuses
<1>3. (\A x \in Nodes : \A k \in Modes : Signalled(x, k)' <=> Signalled(x, k)) =>
        SignalSet' = SignalSet
  BY DEF SignalSet
<1>4. ASSUME NEW n \in Nodes, NEW m \in Modes,
             \A x \in Nodes : \A k \in Modes :
               Signalled(x, k)' <=> Signalled(x, k) \/ (x = n /\ k = m)
      PROVE  SignalSet' = SignalSet \cup {<<n, m>>}
  BY <1>4 DEF SignalSet
<1> QED
  BY <1>1, <1>2, <1>3, <1>4

(* A step that changes no status and gives no signal is hidden. *)
LEMMA HiddenStep ==
  ASSUME config' = config, ctxDone' = ctxDone, errCh' = errCh,
         \A x \in Nodes : Status(x)' = Status(x),
         \A x \in Nodes : \A k \in Modes : Signalled(x, k)' <=> Signalled(x, k)
  PROVE  UNCHANGED Contract!vars
<1>1. EdgeSets' = EdgeSets /\ Statuses' = Statuses /\ SignalSet' = SignalSet
  BY AbstractStep
<1> QED
  BY <1>1 DEF Contract!vars, EdgeSets, Statuses, SignalSet

(* signalStarted and signalReady are a Signal of the contract.             *)
LEMMA SignalMapped ==
  ASSUME RunInv, TypeOK', NEW n \in Nodes, SignalStarted(n) \/ SignalReady(n)
  PROVE  Contract!Next
<1>0. TypeOK
  BY DEF RunInv
<1>1. /\ UNCHANGED <<config, state, ctxDone, errCh>> /\ state[n] = "running"
      /\ \A x \in Nodes \ {n} : pc'[x] = pc[x] /\ outcome'[x] = outcome[x]
      /\ \A x \in Nodes \ {n} : startedC'[x] = startedC[x] /\ readyC'[x] = readyC[x]
  BY <1>0 DEF SignalStarted, SignalReady, Goto, Return, chainVars, TypeOK, RunInv, Position, Working
<1>2. \A x \in Nodes : Status(x)' = Status(x)
  BY <1>1 DEF Status
<1>3. EdgeSets' = EdgeSets /\ Statuses' = Statuses /\ Statuses[n] = "running"
  BY <1>1, <1>2, AbstractStep DEF Statuses, Status
<1>4. \E m \in {"started", "ready"} : SignalSet' = SignalSet \cup {<<n, m>>}
  <2>1. CASE SignalStarted(n)
    <3>1. \A x \in Nodes : \A k \in Modes :
            Signalled(x, k)' <=> Signalled(x, k) \/ (x = n /\ k = "started")
      BY <1>0, <1>1, <2>1 DEF SignalStarted, Signalled, TypeOK, Modes
    <3> QED
      BY <1>1, <3>1, AbstractStep DEF Modes
  <2>2. CASE SignalReady(n)
    <3>1. \A x \in Nodes : \A k \in Modes :
            Signalled(x, k)' <=> Signalled(x, k) \/ (x = n /\ k = "ready")
      BY <1>0, <1>1, <2>2 DEF SignalReady, Signalled, TypeOK, Modes
    <3> QED
      BY <1>1, <3>1, AbstractStep DEF Modes
  <2> QED
    BY <2>1, <2>2
<1>5. PICK m \in {"started", "ready"} : SignalSet' = SignalSet \cup {<<n, m>>}
  BY <1>4
<1>6. Contract!Signal(n, m)
  BY <1>1, <1>3, <1>5 DEF Contract!Signal, EdgeSets, Statuses, SignalSet
<1> QED
  BY <1>6 DEF Contract!Next

(* runNode around the lifecycle: it starts, gives up, or is hidden.        *)
LEMMA RunNodeMapped ==
  ASSUME Inv, TypeOK', NEW n \in Nodes, Wake(n) \/ Bail(n) \/ CascadeSkip(n) \/ Begin(n)
  PROVE  Contract!Next \/ UNCHANGED Contract!vars
<1>0. RunInv /\ TypeOK
  BY DEF Inv, RunInv
<1>1. /\ UNCHANGED <<config, goClosed, startedC, readyC, ctxDone, errCh>>
      /\ \A x \in Nodes \ {n} : pc'[x] = pc[x] /\ outcome'[x] = outcome[x] /\ state'[x] = state[x]
      /\ pc[n] \in {"blocked", "woken"} /\ state[n] \in {"pending", "skipped"}
      /\ state'[n] # "exited"
  BY <1>0 DEF Wake, Bail, CascadeSkip, Begin, Goto, Return, routing, chainVars, TypeOK,
              RunInv, Position
<1>2. \A x \in Nodes : \A k \in Modes : Signalled(x, k)' <=> Signalled(x, k)
  BY <1>1 DEF Signalled, Modes
<1>3. \A x \in Nodes \ {n} : Status(x)' = Status(x)
  BY <1>1 DEF Status
<1>4. EdgeSets' = EdgeSets /\ SignalSet' = SignalSet
  BY <1>1, <1>2, AbstractStep
<1>5. CASE Wake(n) \/ CascadeSkip(n)
  <2>1. Status(n)' = Status(n)
    BY <1>0, <1>1, <1>5 DEF Wake, CascadeSkip, Goto, Return, routing, Status, TypeOK
  <2> QED
    BY <1>1, <1>2, <1>3, <2>1, HiddenStep
<1>6. CASE Bail(n)
  <2>1. state[n] = "pending"
    BY <1>0, <1>1, <1>6 DEF Bail, RunInv, Skips
  <2>2. Status(n) = "waiting" /\ Status(n)' = "absent" /\ ctxDone
    BY <1>0, <1>1, <1>6, <2>1 DEF Bail, Goto, routing, Status, TypeOK
  <2>3. Statuses[n] = "waiting" /\ Statuses' = [Statuses EXCEPT ![n] = "absent"]
    BY <1>3, <2>2 DEF Statuses
  <2>4. Contract!GiveUp(n)
    BY <1>1, <1>4, <2>2, <2>3 DEF Contract!GiveUp, EdgeSets, Statuses, SignalSet
  <2> QED
    BY <2>4 DEF Contract!Next
<1>7. CASE Begin(n)
  <2>1. state[n] = "pending" /\ goClosed[n]
    BY <1>0, <1>7 DEF Begin, RunInv, Position
  <2>2. OneMode(n) =>
          \A i \in EdgeIds(n) : Signalled(Edges(n)[i].name, Edges(n)[i].waitFor)
    BY <1>0, <2>1, NothingLeft DEF Inv
  <2>3. \A i \in EdgeIds(n) : Edges(n)[i].name \in Nodes /\ Edges(n)[i].waitFor \in Modes
    BY <1>0, ChainTypes
  <2>4. Contract!OneMode(n) => EdgeSets[n] \subseteq SignalSet
    <3>1. Contract!OneMode(n) => OneMode(n)
      BY ModesAgree
    <3> QED
      BY <2>2, <2>3, <3>1 DEF EdgeSets, SignalSet
  <2>5. Status(n) = "waiting" /\ Status(n)' = "running"
    BY <1>0, <1>1, <1>7 DEF Begin, Goto, Status, TypeOK
  <2>6. Statuses[n] = "waiting" /\ Statuses' = [Statuses EXCEPT ![n] = "running"]
    BY <1>3, <2>5 DEF Statuses
  <2>7. Contract!Start(n)
    BY <1>1, <1>4, <2>4, <2>6 DEF Contract!Start, EdgeSets, Statuses, SignalSet
  <2> QED
    BY <2>7 DEF Contract!Next
<1> QED
  BY <1>5, <1>6, <1>7

(* nodeExited is a Leave, of the dependents that it skips while they wait. *)
LEMMA ExitMapped ==
  ASSUME Inv, TypeOK', NEW n \in Nodes, NodeExited(n)
  PROVE  Contract!Next
<1> DEFINE S == {x \in Nodes \ {n} : state[x] = "pending" /\ state'[x] = "skipped" /\ pc[x] # "done"}
<1>0. RunInv /\ TypeOK
  BY DEF Inv, RunInv
<1>1. /\ UNCHANGED <<config, startedC, readyC, outcome, ctxDone, errCh>>
      /\ pc[n] = "exiting" /\ \A x \in Nodes \ {n} : pc'[x] = pc[x]
      /\ state'[n] = "exited" /\ state[n] \in {"running", "skipped"}
      /\ \A x \in Nodes \ {n} :
           \/ state'[x] = state[x]
           \/ state[x] = "pending" /\ state'[x] = "skipped" /\ x \in Dependents(n)
  BY <1>0, ExitFrame
<1>2. /\ state[n] = "running" => outcome[n] # "skipped"
      /\ state[n] = "skipped" => outcome[n] = "skipped"
  BY <1>0, <1>1 DEF RunInv, Position
<1>3. ASSUME NEW x \in Nodes
      PROVE  Status(x)' = IF x \in S THEN "absent"
                          ELSE IF x = n /\ Status(n) = "running" THEN "left" ELSE Status(x)
  BY <1>1, <1>2 DEF Status
<1>4. Statuses' = [x \in Nodes |-> IF x \in S THEN "absent"
                                   ELSE IF x = n /\ Statuses[n] = "running" THEN "left"
                                   ELSE Statuses[x]]
  BY <1>3 DEF Statuses
<1>5. Statuses[n] \in {"running", "absent"}
  BY <1>1 DEF Statuses, Status
<1>6. \A d \in S : Statuses[d] = "waiting" /\ \E e \in EdgeSets[d] : e[1] = n
  <2> SUFFICES ASSUME NEW d \in S
               PROVE  Statuses[d] = "waiting" /\ \E e \in EdgeSets[d] : e[1] = n
    OBVIOUS
  <2>1. d \in Dependents(n) /\ Status(d) = "waiting"
    BY <1>1 DEF Status
  <2>2. PICK i \in EdgesTo(d, n) : TRUE
    BY <2>1 DEF Dependents
  <2>3. <<Edges(d)[i].name, Edges(d)[i].waitFor>> \in EdgeSets[d] /\ Edges(d)[i].name = n
    BY <2>2 DEF EdgeSets, EdgesTo
  <2> QED
    BY <2>1, <2>3 DEF Statuses
<1>7. SignalSet' \in {SignalSet, SignalSet \cup {<<n, "exit">>}}
  <2>1. CASE Failed(n)
    <3>1. \A x \in Nodes : \A k \in Modes : Signalled(x, k)' <=> Signalled(x, k)
      BY <1>1, <2>1 DEF Signalled, Failed, Modes
    <3> QED
      BY <1>1, <3>1, AbstractStep
  <2>2. CASE ~Failed(n)
    <3>1. \A x \in Nodes : \A k \in Modes :
            Signalled(x, k)' <=> Signalled(x, k) \/ (x = n /\ k = "exit")
      BY <1>1, <2>2 DEF Signalled, Failed, Modes
    <3> QED
      BY <1>1, <3>1, AbstractStep DEF Modes
  <2> QED
    BY <2>1, <2>2
<1>8. EdgeSets' = EdgeSets
  BY <1>1, AbstractStep
<1>9. S \in SUBSET Nodes
  OBVIOUS
<1> HIDE DEF S
<1>10. Contract!Leave(n, S)
  BY <1>1, <1>4, <1>5, <1>6, <1>7, <1>8 DEF Contract!Leave, EdgeSets, Statuses, SignalSet
<1> QED
  BY <1>9, <1>10 DEF Contract!Next

(* Every step of the coordinator is a step of the contract, or hidden. *)
LEMMA ContractStep == Inv /\ Inv' /\ [Next]_vars => [Contract!Next]_(Contract!vars)
<1> SUFFICES ASSUME Inv, Inv', [Next]_vars PROVE Contract!Next \/ UNCHANGED Contract!vars
  OBVIOUS
<1>0. RunInv /\ TypeOK /\ TypeOK'
  BY DEF Inv, RunInv
<1>1. CASE OpenFrontier \/ RunReturns \/ Cancel \/ UNCHANGED vars
  <2>1. UNCHANGED <<config, pc, state, startedC, readyC, outcome, errCh>>
    BY <1>1 DEF OpenFrontier, RunReturns, Cancel, vars, routing
  <2>2. /\ \A x \in Nodes : Status(x)' = Status(x)
        /\ \A x \in Nodes : \A k \in Modes : Signalled(x, k)' <=> Signalled(x, k)
    BY <2>1 DEF Status, Signalled, Modes
  <2>3. CASE ctxDone' = ctxDone
    BY <2>1, <2>2, <2>3, HiddenStep
  <2>4. CASE ctxDone' # ctxDone
    <3>1. ctxDone'
      BY <1>1, <2>4 DEF OpenFrontier, RunReturns, Cancel, vars
    <3>2. EdgeSets' = EdgeSets /\ Statuses' = Statuses /\ SignalSet' = SignalSet
      BY <2>1, <2>2, AbstractStep
    <3>3. Contract!Stop
      BY <1>0, <2>1, <3>1, <3>2 DEF Contract!Stop, EdgeSets, Statuses, SignalSet, TypeOK
    <3> QED
      BY <3>3 DEF Contract!Next
  <2> QED
    BY <2>3, <2>4
<1>2. ASSUME NEW n \in Nodes, FailChain(n)
      PROVE  Contract!Next \/ UNCHANGED Contract!vars
  <2>1. /\ UNCHANGED <<config, state, startedC, readyC, outcome>>
        /\ \A x \in Nodes \ {n} : pc'[x] = pc[x]
        /\ pc[n] = "failing" /\ state[n] = "exited" /\ outcome[n] = "error"
    BY <1>0, <1>2 DEF FailChain, Goto, routing, TypeOK, RunInv, Position, Ending, Fatal, Failed
  <2>2. /\ \A x \in Nodes : Status(x)' = Status(x)
        /\ \A x \in Nodes : \A k \in Modes : Signalled(x, k)' <=> Signalled(x, k)
    BY <2>1 DEF Status, Signalled, Modes
  <2>3. CASE errCh # NoError
    <3>1. errCh' = errCh /\ ctxDone' = ctxDone
      BY <1>2, <2>3 DEF FailChain
    <3> QED
      BY <2>1, <2>2, <3>1, HiddenStep
  <2>4. CASE errCh = NoError
    <3>1. errCh' = n /\ ctxDone' = TRUE
      BY <1>0, <1>2, <2>4 DEF FailChain, TypeOK
    <3>2. EdgeSets' = EdgeSets /\ Statuses' = Statuses /\ SignalSet' = SignalSet
      BY <2>1, <2>2, AbstractStep
    <3>3. Statuses[n] = "left"
      BY <2>1 DEF Statuses, Status
    <3>4. Contract!Fail(n)
      BY <2>4, <3>1, <3>2, <3>3 DEF Contract!Fail, EdgeSets, Statuses, SignalSet
    <3> QED
      BY <3>4 DEF Contract!Next
  <2> QED
    BY <2>3, <2>4
<1>3. ASSUME NEW n \in Nodes, Lifecycle(n), ~SignalStarted(n), ~SignalReady(n)
      PROVE  UNCHANGED Contract!vars
  <2>1. SilentStep(n)
    BY <1>0, <1>3, LifecycleFrame DEF RunInv
  <2>2. /\ UNCHANGED <<config, state, startedC, readyC, ctxDone, errCh>>
        /\ \A x \in Nodes \ {n} : pc'[x] = pc[x] /\ outcome'[x] = outcome[x]
        /\ state[n] = "running"
    BY <1>0, <2>1 DEF SilentStep, Private, Silent, routing, RunInv, Position, Working
  <2>3. /\ \A x \in Nodes : Status(x)' = Status(x)
        /\ \A x \in Nodes : \A k \in Modes : Signalled(x, k)' <=> Signalled(x, k)
    BY <2>2 DEF Status, Signalled, Modes
  <2> QED
    BY <2>2, <2>3, HiddenStep
<1> QED
  BY <1>0, <1>1, <1>2, <1>3, SignalMapped, RunNodeMapped, ExitMapped DEF Next, Router

(* Run keeps the contract of a chain: a node starts only on the signals of *)
(* its edges (if they agree on the mode of a dependency), is given up only *)
(* when a dependency has left or the chain is stopped, and an error of a   *)
(* node that has left stops the chain.                                     *)
THEOREM RunKeepsContract == Spec => ImplementsContract
<1>1. Init => Contract!Init
  <2> SUFFICES ASSUME Init PROVE Contract!Init
    OBVIOUS
  <2>1. TypeOK
    BY TypeInit
  <2>2. \A n \in Nodes : \A i \in EdgeIds(n) :
          Edges(n)[i].name \in Nodes /\ Edges(n)[i].waitFor \in Modes
    BY <2>1, ChainTypes
  <2>3. EdgeSets \in [Nodes -> SUBSET (Nodes \X {"started", "ready", "exit"})]
    BY <2>2 DEF EdgeSets, Modes
  <2>4. Statuses = [n \in Nodes |-> "waiting"]
    BY DEF Init, Statuses, Status
  <2>5. SignalSet = {}
    BY DEF Init, SignalSet, Signalled, Modes
  <2> QED
    BY <2>3, <2>4, <2>5 DEF Init, Contract!Init, EdgeSets, Statuses, SignalSet
<1> QED
  BY OrderInvariant, <1>1, ContractStep, PTL DEF Spec, ImplementsContract, Contract!Spec
=============================================================================
