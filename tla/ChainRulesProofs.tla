-------------------------- MODULE ChainRulesProofs --------------------------
(***************************************************************************)
(* What ValidateChain lets through is a graph without cycles in which      *)
(* every edge leads to one other entry, and Normalized with ValidateChain  *)
(* accepts a script's chain exactly when it is sound, however large it is. *)
(***************************************************************************)
EXTENDS ChainRules, SequenceTheorems, TLAPS

DoneIn(c, v) == {i \in Top(c) : v[i] = "done"}

Calls(c) == [node : Top(c), next : Nat \ {0}]

(* The edges a call of dfs has passed lead to entries that are done. *)
Passed(c, v, f) ==
  \A k \in DOMAIN Edges(c, f.node) : k < f.next => v[Target(c, f.node, k)] = "done"

(* The marks v and the calls s of a search in c: those who are done wait   *)
(* only for others who are, and not in a circle.                           *)
Search(c, v, s) ==
  /\ Resolved(c)
  /\ v \in [Top(c) -> {"none", "in", "done"}]
  /\ s \in Seq(Calls(c))
  /\ \A d \in 1 .. Len(s) : Passed(c, v, s[d])
  /\ \A i \in Top(c) : v[i] = "in" => \E d \in 1 .. Len(s) : s[d].node = i
  /\ \A i \in DoneIn(c, v) : Graph(c)[i] \subseteq DoneIn(c, v)
  /\ Acyclic(DoneIn(c, v), Graph(c))

IInv ==
  /\ TypeOK
  /\ pc = "dfs" => Search(chain, visit, stack)
  /\ CoordinatorInput

----------------------------------------------------------------------------
(* The chain stays a chain when it is normalized (Normalized).             *)
LEMMA WithParentType ==
  ASSUME NEW n \in ProcessNode, NEW p \in Names
  PROVE  WithParent(n, p) \in ProcessNode /\ WithParent(n, p).parent = 0
<1>1. [n EXCEPT !.parent = 0] \in ProcessNode /\ [n EXCEPT !.parent = 0].parent = 0
  BY DEF ProcessNode
<1>2. Append(n.dependsOn, p) \in Seq(Names)
  BY DEF ProcessNode
<1>3. Append(n.dependsOnEdges, [name |-> p, waitFor |-> Mode(n)]) \in Seq(Dependency)
  <2>1. Mode(n) \in {"started", "ready"}
    BY DEF Mode
  <2>2. [name |-> p, waitFor |-> Mode(n)] \in Dependency
    BY <2>1 DEF Dependency
  <2>3. n.dependsOnEdges \in Seq(Dependency)
    BY DEF ProcessNode
  <2> QED  BY <2>2, <2>3
<1> DEFINE inList == [n EXCEPT !.parent = 0, !.dependsOn = Append(@, p)]
           inEdges == [n EXCEPT !.parent = 0,
                         !.dependsOnEdges = Append(@, [name |-> p, waitFor |-> Mode(n)])]
<1>4. inList \in ProcessNode /\ inList.parent = 0
  BY <1>2 DEF ProcessNode
<1>5. inEdges \in ProcessNode /\ inEdges.parent = 0
  BY <1>3 DEF ProcessNode
<1> QED  BY <1>1, <1>4, <1>5 DEF WithParent

(* Normalize turns a script's chain into a flat one.                       *)
LEMMA FlatType ==
  ASSUME NEW c \in ProcessChain, ParentsOk(c)
  PROVE  Flat(c) \in ProcessChain /\ ParentsOk(Flat(c))
<1>1. CASE c.form = "nodes"
  BY <1>1 DEF Flat
<1>2. CASE c.form # "nodes"
  <2> DEFINE node(i) == LET p == c.nodes[i].parent
                        IN  IF p # 0 THEN WithParent(c.nodes[i], c.nodes[p].name) ELSE c.nodes[i]
             nodes == [i \in Positions(c) |-> node(i)]
  <2>1. c.nodes \in Seq(ProcessNode) /\ Positions(c) = 1 .. Len(c.nodes)
    BY DEF ProcessChain, Positions
  <2>2. ASSUME NEW i \in Positions(c)
        PROVE  node(i) \in ProcessNode /\ node(i).parent = 0
    <3>1. c.nodes[i] \in ProcessNode
      BY <2>1
    <3>2. CASE c.nodes[i].parent = 0
      BY <3>1, <3>2
    <3>3. CASE c.nodes[i].parent # 0
      <4>1. c.nodes[i].parent \in Positions(c)
        <5>1. i \in 1 .. Len(c.nodes) /\ Len(c.nodes) \in Nat
          BY <2>1
        <5>2. c.nodes[i].parent \in 0 .. i - 1
          BY DEF ParentsOk
        <5> QED  BY <5>1, <5>2, <2>1, <3>3
      <4>2. c.nodes[c.nodes[i].parent].name \in Names
        <5>1. c.nodes[c.nodes[i].parent] \in ProcessNode
          BY <2>1, <4>1
        <5> QED  BY <5>1 DEF ProcessNode
      <4> QED  BY <3>1, <3>3, <4>2, WithParentType
    <3> QED  BY <3>2, <3>3
  <2>3. nodes \in Seq(ProcessNode) /\ DOMAIN nodes = Positions(c)
    BY <2>1, <2>2
  <2>4. Flat(c) = [form |-> "nodes", nodes |-> nodes]
    BY <1>2 DEF Flat
  <2> HIDE DEF nodes
  <2>5. Flat(c) \in ProcessChain
    BY <2>3, <2>4 DEF ProcessChain
  <2>6. \A i \in Positions(c) : nodes[i].parent = 0
    BY <2>2 DEF nodes
  <2>7. ParentsOk(Flat(c))
    BY <2>1, <2>3, <2>4, <2>6 DEF ParentsOk, Positions
  <2> QED  BY <2>5, <2>7
<1> QED  BY <1>1, <1>2

(* Edges are numbered from 1 (canonicalEdges).                             *)
LEMMA EdgesNumbered ==
  ASSUME NEW c \in ProcessChain, NEW i \in Top(c)
  PROVE  \E m \in Nat : DOMAIN Edges(c, i) = 1 .. m
<1>1. c.nodes[i] \in ProcessNode
  BY DEF ProcessChain, Top, Positions
<1>2. c.nodes[i].dependsOn \in Seq(Names) /\ c.nodes[i].dependsOnEdges \in Seq(Dependency)
  BY <1>1 DEF ProcessNode
<1>3. /\ DOMAIN c.nodes[i].dependsOn = 1 .. Len(c.nodes[i].dependsOn)
      /\ DOMAIN c.nodes[i].dependsOnEdges = 1 .. Len(c.nodes[i].dependsOnEdges)
      /\ Len(c.nodes[i].dependsOn) \in Nat /\ Len(c.nodes[i].dependsOnEdges) \in Nat
  BY <1>2
<1>4. \/ DOMAIN Edges(c, i) = DOMAIN c.nodes[i].dependsOn
      \/ DOMAIN Edges(c, i) = DOMAIN c.nodes[i].dependsOnEdges
  BY DEF Edges, CanonicalEdges
<1> QED  BY <1>3, <1>4

(* The name and edge checks make every edge lead to one other entry.       *)
LEMMA ChecksResolve ==
  ASSUME NEW c, ChecksOk(c)
  PROVE  Resolved(c)
<1> SUFFICES ASSUME NEW i \in Top(c), NEW k \in DOMAIN Edges(c, i)
             PROVE  Target(c, i, k) \in Top(c) \ {i}
  BY DEF Resolved, Graph
<1>1. PICK j \in Top(c) \ {i} : c.nodes[j].name = Edges(c, i)[k].name
  BY DEF ChecksOk, EdgesOk
<1>2. \A a, b \in Top(c) : c.nodes[a].name = c.nodes[b].name => a = b
  BY DEF ChecksOk, NodesOk, NamesOk
<1>3. /\ Target(c, i, k) \in Top(c)
      /\ c.nodes[Target(c, i, k)].name = Edges(c, i)[k].name
  BY <1>1 DEF Target, Index
<1> QED  BY <1>1, <1>2, <1>3

(* An entry whose edges all lead into a set without circles can join it.   *)
LEMMA JoinAcyclic ==
  ASSUME NEW S, NEW i, NEW waits,
         Acyclic(S, waits), \A j \in S : waits[j] \subseteq S,
         waits[i] \subseteq S, i \notin waits[i]
  PROVE  Acyclic(S \cup {i}, waits)
<1> SUFFICES ASSUME NEW ring \in SUBSET (S \cup {i}), ring # {}
             PROVE  \E j \in ring : waits[j] \cap ring = {}
  BY DEF Acyclic
<1>1. CASE ring \cap S = {}
  <2>1. ring = {i}
    BY <1>1
  <2> QED  BY <2>1
<1>2. CASE ring \cap S # {}
  <2>1. ring \cap S \in SUBSET S
    OBVIOUS
  <2>2. PICK j \in ring \cap S : waits[j] \cap (ring \cap S) = {}
    BY <1>2, <2>1 DEF Acyclic
  <2>3. waits[j] \subseteq S
    BY <2>2
  <2> QED  BY <2>2, <2>3
<1> QED  BY <1>1, <1>2

----------------------------------------------------------------------------
(* What the stack of the search (dfs) holds, as a sequence.                *)
LEMMA Elements ==
  ASSUME NEW S, NEW s \in Seq(S)
  PROVE  /\ Len(s) \in Nat /\ \A d \in 1 .. Len(s) : s[d] \in S
         /\ s # <<>> => Len(s) \in 1 .. Len(s) /\ s[Len(s)] \in S
OBVIOUS

(* The stack after a return of dfs.                                        *)
LEMMA Prefix ==
  ASSUME NEW S, NEW s \in Seq(S), s # <<>>
  PROVE  /\ SubSeq(s, 1, Len(s) - 1) \in Seq(S)
         /\ Len(SubSeq(s, 1, Len(s) - 1)) = Len(s) - 1
         /\ \A d \in 1 .. Len(s) - 1 : SubSeq(s, 1, Len(s) - 1)[d] = s[d]
<1> DEFINE n == Len(s) - 1
<1>1. n \in Nat /\ \A i \in 1 .. n : s[i] \in S
  OBVIOUS
<1> HIDE DEF n
<1>2. /\ SubSeq(s, 1, n) \in Seq(S)
      /\ Len(SubSeq(s, 1, n)) = IF 1 <= n THEN n - 1 + 1 ELSE 0
      /\ \A i \in 1 .. n - 1 + 1 : SubSeq(s, 1, n)[i] = s[1 + i - 1]
  BY <1>1, SubSeqProperties
<1>3. Len(SubSeq(s, 1, n)) = n /\ \A i \in 1 .. n : SubSeq(s, 1, n)[i] = s[i]
  BY <1>1, <1>2
<1> QED  BY <1>2, <1>3 DEF n

(* The stack after one of its calls has gone to its next edge.             *)
LEMMA Replaced ==
  ASSUME NEW S, NEW s \in Seq(S), NEW d \in 1 .. Len(s), NEW e \in S
  PROVE  /\ [s EXCEPT ![d] = e] \in Seq(S) /\ Len([s EXCEPT ![d] = e]) = Len(s)
         /\ [s EXCEPT ![d] = e][d] = e
         /\ \A f \in 1 .. Len(s) : f # d => [s EXCEPT ![d] = e][f] = s[f]
OBVIOUS

(* A call of dfs for an entry that was not visited (dfs, first lines).     *)
LEMMA PushKeeps ==
  ASSUME NEW c \in ProcessChain, NEW v, NEW s, Search(c, v, s),
         NEW i \in Top(c), v[i] = "none"
  PROVE  Search(c, [v EXCEPT ![i] = "in"], Append(s, Frame(i)))
<1> DEFINE w == [v EXCEPT ![i] = "in"]
           t == Append(s, Frame(i))
<1>1. v \in [Top(c) -> {"none", "in", "done"}] /\ s \in Seq(Calls(c))
  BY DEF Search
<1>2. w \in [Top(c) -> {"none", "in", "done"}]
  BY <1>1
<1>3. DoneIn(c, w) = DoneIn(c, v)
  BY <1>1 DEF DoneIn
<1>4. /\ t \in Seq(Calls(c)) /\ Len(t) = Len(s) + 1 /\ Len(s) \in Nat
      /\ t[Len(t)] = Frame(i) /\ \A d \in 1 .. Len(s) : t[d] = s[d]
  BY <1>1 DEF Calls, Frame
<1>5. ASSUME NEW d \in 1 .. Len(t)
      PROVE  Passed(c, w, t[d])
  <2>1. CASE d = Len(t)
    <3>1. \A k \in DOMAIN Edges(c, i) : ~(k < 1)
      BY EdgesNumbered
    <3> QED  BY <2>1, <3>1, <1>4 DEF Passed, Frame
  <2>2. CASE d # Len(t)
    <3>1. d \in 1 .. Len(s) /\ t[d] = s[d] /\ s[d].node \in Top(c)
      <4> HIDE DEF t
      <4>1. d \in 1 .. Len(s)
        BY <2>2, <1>4
      <4>2. s[d] \in Calls(c)
        BY <4>1, <1>1, Elements
      <4> QED  BY <4>1, <4>2, <1>4 DEF Calls
    <3>2. Passed(c, v, s[d])
      BY <3>1 DEF Search
    <3>3. \A j \in Top(c) : v[j] = "done" => w[j] = "done"
      BY <1>1
    <3>4. \A k \in DOMAIN Edges(c, s[d].node) : Target(c, s[d].node, k) \in Top(c)
      BY <3>1 DEF Search, Resolved, Graph
    <3> QED  BY <3>1, <3>2, <3>3, <3>4 DEF Passed
  <2> QED  BY <2>1, <2>2
<1>6. \A j \in Top(c) : w[j] = "in" => \E d \in 1 .. Len(t) : t[d].node = j
  <2> SUFFICES ASSUME NEW j \in Top(c), w[j] = "in"
               PROVE  \E d \in 1 .. Len(t) : t[d].node = j
    OBVIOUS
  <2>1. CASE j = i
    BY <2>1, <1>4 DEF Frame
  <2>2. CASE j # i
    <3>1. PICK d \in 1 .. Len(s) : s[d].node = j
      BY <2>2, <1>1 DEF Search
    <3> QED  BY <3>1, <1>4
  <2> QED  BY <2>1, <2>2
<1> HIDE DEF w, t
<1>7. Search(c, w, t)
  BY <1>2, <1>3, <1>4, <1>5, <1>6 DEF Search
<1> QED  BY <1>7 DEF w, t

(* The edge of the call on top leads to an entry that is done.             *)
LEMMA NextKeeps ==
  ASSUME NEW c \in ProcessChain, NEW v, NEW s, Search(c, v, s), s # <<>>,
         s[Len(s)].next \in DOMAIN Edges(c, s[Len(s)].node),
         v[Target(c, s[Len(s)].node, s[Len(s)].next)] = "done"
  PROVE  Search(c, v, [s EXCEPT ![Len(s)].next = @ + 1])
<1> DEFINE top == s[Len(s)]
           t == [s EXCEPT ![Len(s)].next = @ + 1]
<1>1. s \in Seq(Calls(c))
  BY DEF Search
<1>2. /\ Len(s) \in 1 .. Len(s) /\ top \in Calls(c)
      /\ top.node \in Top(c) /\ top.next \in Nat \ {0}
  <2>1. Len(s) \in 1 .. Len(s) /\ top \in Calls(c)
    BY <1>1, Elements
  <2> QED  BY <2>1 DEF Calls
<1>3. /\ [top EXCEPT !.next = @ + 1] \in Calls(c)
      /\ [top EXCEPT !.next = @ + 1].node = top.node
      /\ [top EXCEPT !.next = @ + 1].next = top.next + 1
  BY <1>2 DEF Calls
<1>4. t = [s EXCEPT ![Len(s)] = [top EXCEPT !.next = @ + 1]]
  OBVIOUS
<1>5. /\ t \in Seq(Calls(c)) /\ Len(t) = Len(s)
      /\ t[Len(s)] = [top EXCEPT !.next = @ + 1]
      /\ \A d \in 1 .. Len(s) : d # Len(s) => t[d] = s[d]
  BY <1>1, <1>2, <1>3, <1>4, Replaced
<1>6. \A d \in 1 .. Len(s) : t[d].node = s[d].node
  BY <1>2, <1>3, <1>5
<1>7. ASSUME NEW d \in 1 .. Len(t)
      PROVE  Passed(c, v, t[d])
  <2>0. d \in 1 .. Len(s) /\ Passed(c, v, s[d])
    BY <1>5 DEF Search
  <2>1. CASE d = Len(s)
    <3>1. PICK m \in Nat : DOMAIN Edges(c, top.node) = 1 .. m
      BY <1>2, EdgesNumbered
    <3>2. \A k \in 1 .. m : k < top.next + 1 => k < top.next \/ k = top.next
      BY <1>2
    <3>3. t[d].node = top.node /\ t[d].next = top.next + 1
      BY <2>1, <1>2, <1>3, <1>5
    <3>4. \A k \in DOMAIN Edges(c, top.node) : k < top.next => v[Target(c, top.node, k)] = "done"
      BY <2>0, <2>1 DEF Passed
    <3> QED  BY <3>1, <3>2, <3>3, <3>4 DEF Passed
  <2>2. CASE d # Len(s)
    BY <2>0, <2>2, <1>5
  <2> QED  BY <2>1, <2>2
<1> HIDE DEF t
<1>8. \A i \in Top(c) : v[i] = "in" => \E d \in 1 .. Len(t) : t[d].node = i
  BY <1>5, <1>6 DEF Search
<1>9. Search(c, v, t)
  BY <1>5, <1>7, <1>8 DEF Search
<1> QED  BY <1>9 DEF t

(* A call that has passed all its edges returns.                           *)
LEMMA PopKeeps ==
  ASSUME NEW c \in ProcessChain, NEW v, NEW s, Search(c, v, s), s # <<>>,
         s[Len(s)].next \notin DOMAIN Edges(c, s[Len(s)].node)
  PROVE  Search(c, [v EXCEPT ![s[Len(s)].node] = "done"], SubSeq(s, 1, Len(s) - 1))
<1> DEFINE top == s[Len(s)]
           i == top.node
           w == [v EXCEPT ![i] = "done"]
           t == SubSeq(s, 1, Len(s) - 1)
<1>1. s \in Seq(Calls(c)) /\ v \in [Top(c) -> {"none", "in", "done"}] /\ Resolved(c)
  BY DEF Search
<1>2. /\ Len(s) \in 1 .. Len(s) /\ Len(s) \in Nat
      /\ i \in Top(c) /\ top.next \in Nat \ {0}
  <2>1. Len(s) \in 1 .. Len(s) /\ top \in Calls(c) /\ Len(s) \in Nat
    BY <1>1, Elements
  <2> QED  BY <2>1 DEF Calls
<1>3. w \in [Top(c) -> {"none", "in", "done"}]
  BY <1>1
<1>4. t \in Seq(Calls(c)) /\ Len(t) = Len(s) - 1 /\ \A d \in 1 .. Len(s) - 1 : t[d] = s[d]
  BY <1>1, Prefix
<1>5. Graph(c)[i] \subseteq DoneIn(c, v)
  <2>1. PICK m \in Nat : DOMAIN Edges(c, i) = 1 .. m
    BY <1>2, EdgesNumbered
  <2>2. \A k \in DOMAIN Edges(c, i) : k < top.next
    BY <2>1, <1>2
  <2>3. Passed(c, v, top)
    BY <1>2 DEF Search
  <2>4. \A k \in DOMAIN Edges(c, i) : v[Target(c, i, k)] = "done" /\ Target(c, i, k) \in Top(c)
    BY <2>2, <2>3, <1>1, <1>2 DEF Passed, Resolved, Graph
  <2> QED  BY <2>4, <1>2 DEF Graph, DoneIn
<1>6. DoneIn(c, w) = DoneIn(c, v) \cup {i}
  BY <1>1, <1>2 DEF DoneIn
<1>7. \A j \in DoneIn(c, w) : Graph(c)[j] \subseteq DoneIn(c, w)
  BY <1>5, <1>6 DEF Search
<1>8. Acyclic(DoneIn(c, w), Graph(c))
  <2>1. i \notin Graph(c)[i]
    BY <1>1, <1>2 DEF Resolved
  <2>2. /\ Acyclic(DoneIn(c, v), Graph(c))
        /\ \A j \in DoneIn(c, v) : Graph(c)[j] \subseteq DoneIn(c, v)
    BY DEF Search
  <2> HIDE DEF i, w
  <2>3. Acyclic(DoneIn(c, v) \cup {i}, Graph(c))
    BY <2>1, <2>2, <1>5, JoinAcyclic
  <2> QED  BY <2>3, <1>6
<1>9. \A d \in 1 .. Len(t) : Passed(c, w, t[d])
  <2> SUFFICES ASSUME NEW d \in 1 .. Len(t) PROVE Passed(c, w, t[d])
    OBVIOUS
  <2>1. d \in 1 .. Len(s) /\ t[d] = s[d]
    BY <1>2, <1>4
  <2>2. s[d].node \in Top(c) /\ Passed(c, v, s[d])
    <3>1. s[d] \in Calls(c)
      BY <2>1, <1>1, Elements
    <3> QED  BY <3>1, <2>1 DEF Calls, Search
  <2>3. \A j \in Top(c) : v[j] = "done" => w[j] = "done"
    BY <1>1
  <2>4. \A k \in DOMAIN Edges(c, s[d].node) : Target(c, s[d].node, k) \in Top(c)
    BY <2>2, <1>1 DEF Resolved, Graph
  <2> QED  BY <2>1, <2>2, <2>3, <2>4 DEF Passed
<1>10. \A j \in Top(c) : w[j] = "in" => \E d \in 1 .. Len(t) : t[d].node = j
  <2> SUFFICES ASSUME NEW j \in Top(c), w[j] = "in"
               PROVE  \E d \in 1 .. Len(t) : t[d].node = j
    OBVIOUS
  <2>1. j # i /\ v[j] = "in"
    BY <1>1, <1>2
  <2>2. PICK d \in 1 .. Len(s) : s[d].node = j
    BY <2>1 DEF Search
  <2>3. d # Len(s)
    BY <2>1, <2>2
  <2> HIDE DEF t
  <2>4. d \in 1 .. Len(t) /\ t[d] = s[d]
    BY <2>3, <1>2, <1>4
  <2> QED  BY <2>2, <2>4
<1> HIDE DEF w, t
<1>11. Search(c, w, t)
  BY <1>1, <1>3, <1>4, <1>7, <1>8, <1>9, <1>10 DEF Search
<1> QED  BY <1>11 DEF w, t

----------------------------------------------------------------------------
(* The invariant holds before Normalize is called.                         *)
LEMMA InitInv == Init => IInv
<1> SUFFICES ASSUME Init PROVE IInv
  OBVIOUS
<1>1. chain \in ProcessChain /\ ParentsOk(chain)
  BY ScriptsAssumption DEF Init, ParentsOk, Positions
<1> QED  BY <1>1 DEF Init, IInv, TypeOK, CoordinatorInput

(* When the loop over the entries ends, they are all done.                 *)
LEMMA SearchComplete ==
  ASSUME IInv, SearchEnds
  PROVE  Resolved(chain) /\ Acyclic(Top(chain), Graph(chain))
<1>1. Search(chain, visit, stack) /\ stack = <<>>
  BY DEF IInv, SearchEnds
<1>2. DoneIn(chain, visit) = Top(chain)
  BY <1>1 DEF Search, SearchEnds, DoneIn
<1> QED  BY <1>1, <1>2 DEF Search

(* No step of chain.run or Service.Run leaves the invariant.               *)
LEMMA NextInv == IInv /\ [Next]_vars => IInv'
<1> SUFFICES ASSUME IInv, [Next]_vars PROVE IInv'
  OBVIOUS
<1> USE DEF IInv
<1>1. CASE Normalize
  <2>1. chain' \in ProcessChain /\ ParentsOk(chain')
    BY <1>1, FlatType DEF TypeOK, Normalize
  <2> QED  BY <1>1, <2>1 DEF TypeOK, Normalize, CoordinatorInput, ParentsOk, Positions
<1>2. CASE NormalizeRejects
  BY <1>2 DEF TypeOK, NormalizeRejects, Reject, CoordinatorInput, ParentsOk, Positions
<1>3. CASE Check
  <2>1. Resolved(chain)
    BY <1>3, ChecksResolve DEF Check
  <2>2. Search(chain, visit', stack')
    <3>1. visit' = [i \in Top(chain) |-> "none"] /\ stack' = <<>>
      BY <1>3 DEF Check
    <3>2. DoneIn(chain, visit') = {}
      BY <3>1 DEF DoneIn
    <3>3. Acyclic({}, Graph(chain))
      BY DEF Acyclic
    <3>4. /\ visit' \in [Top(chain) -> {"none", "in", "done"}]
          /\ \A i \in Top(chain) : visit'[i] # "in"
      BY <3>1
    <3>5. stack' \in Seq(Calls(chain)) /\ Len(stack') = 0
      BY <3>1
    <3>6. \A d \in 1 .. Len(stack') : Passed(chain, visit', stack'[d])
      BY <3>5
    <3>7. /\ Acyclic(DoneIn(chain, visit'), Graph(chain))
          /\ \A i \in DoneIn(chain, visit') : Graph(chain)[i] \subseteq DoneIn(chain, visit')
      BY <3>2, <3>3
    <3> QED  BY <2>1, <3>4, <3>5, <3>6, <3>7 DEF Search
  <2> QED  BY <1>3, <2>2 DEF TypeOK, Check, CoordinatorInput, ParentsOk, Positions
<1>4. CASE CheckRejects
  BY <1>4 DEF TypeOK, CheckRejects, Reject, CoordinatorInput, ParentsOk, Positions
<1>5. ASSUME NEW i \in Top(chain), StartSearch(i) PROVE IInv'
  <2>1. stack' = Append(stack, Frame(i)) /\ visit' = [visit EXCEPT ![i] = "in"] /\ visit[i] = "none"
    BY <1>5 DEF StartSearch
  <2>2. Search(chain, visit', stack')
    <3>1. Search(chain, visit, stack) /\ chain \in ProcessChain
      BY <1>5 DEF StartSearch, Searching, TypeOK
    <3>2. Search(chain, [visit EXCEPT ![i] = "in"], Append(stack, Frame(i)))
      BY <2>1, <3>1, PushKeeps
    <3> QED  BY <2>1, <3>2
  <2> QED  BY <1>5, <2>2 DEF TypeOK, StartSearch, Searching, CoordinatorInput, ParentsOk, Positions
<1>6. CASE Descend
  <2>1. Search(chain, visit, stack) /\ chain \in ProcessChain
    BY <1>6 DEF Descend, Searching, TypeOK
  <2>2. EdgeTo \in Top(chain)
    <3>1. stack[Len(stack)] \in Calls(chain)
      BY <1>6, <2>1, Elements DEF Descend, HasEdge, Search
    <3> QED  BY <3>1, <1>6, <2>1 DEF Descend, HasEdge, EdgeTo, Call, Calls, Search, Resolved, Graph
  <2>3. Search(chain, visit', stack')
    BY <2>1, <2>2, <1>6, PushKeeps DEF Descend
  <2> QED  BY <1>6, <2>3 DEF TypeOK, Descend, Searching, CoordinatorInput, ParentsOk, Positions
<1>7. CASE NextEdge
  <2>1. Search(chain, visit, stack) /\ chain \in ProcessChain
    BY <1>7 DEF NextEdge, Searching, TypeOK
  <2>2. Search(chain, visit', stack')
    <3>1. /\ stack # <<>>
          /\ stack[Len(stack)].next \in DOMAIN Edges(chain, stack[Len(stack)].node)
          /\ visit[Target(chain, stack[Len(stack)].node, stack[Len(stack)].next)] = "done"
      BY <1>7 DEF NextEdge, HasEdge, EdgeTo, Call
    <3>2. visit' = visit /\ stack' = [stack EXCEPT ![Len(stack)].next = @ + 1]
      BY <1>7 DEF NextEdge
    <3>3. Search(chain, visit, [stack EXCEPT ![Len(stack)].next = @ + 1])
      BY <2>1, <3>1, NextKeeps
    <3> QED  BY <3>2, <3>3
  <2> QED  BY <1>7, <2>2 DEF TypeOK, NextEdge, Searching, CoordinatorInput, ParentsOk, Positions
<1>8. CASE BackEdge
  BY <1>8 DEF TypeOK, BackEdge, Reject, CoordinatorInput, ParentsOk, Positions
<1>9. CASE ReturnSearch
  <2>1. Search(chain, visit, stack) /\ chain \in ProcessChain
    BY <1>9 DEF ReturnSearch, Searching, TypeOK
  <2>2. Search(chain, visit', stack')
    BY <2>1, <1>9, PopKeeps DEF ReturnSearch, HasEdge, Call
  <2> QED  BY <1>9, <2>2 DEF TypeOK, ReturnSearch, Searching, CoordinatorInput, ParentsOk, Positions
<1>10. CASE HandOver
  BY <1>10 DEF TypeOK, HandOver, SearchEnds, CoordinatorInput, ParentsOk, Positions
<1>11. CASE Accept
  <2>1. Resolved(chain) /\ Acyclic(Top(chain), Graph(chain))
    BY <1>11, SearchComplete DEF Accept
  <2> QED  BY <1>11, <2>1 DEF TypeOK, Accept, CoordinatorInput, ParentsOk, Positions
<1>12. CASE UNCHANGED vars
  BY <1>12 DEF vars, TypeOK, CoordinatorInput, ParentsOk, Positions
<1> QED  BY <1>1, <1>2, <1>3, <1>4, <1>5, <1>6, <1>7, <1>8, <1>9, <1>10, <1>11, <1>12 DEF Next

(* Whatever the script's chain, the one that reaches runDAG has edges that *)
(* each lead to one other entry, and no cycle.                             *)
THEOREM AcceptedGraph == Spec => []CoordinatorInput
<1>1. Spec => []IInv
  BY InitInv, NextInv, PTL DEF Spec
<1>2. IInv => CoordinatorInput
  BY DEF IInv
<1> QED  BY <1>1, <1>2, PTL

----------------------------------------------------------------------------
(* A chain of calls: the edge each is at leads to the entry of the next.   *)
Path(c, s) ==
  \A d \in 1 .. Len(s) - 1 :
    /\ s[d].next \in DOMAIN Edges(c, s[d].node)
    /\ Target(c, s[d].node, s[d].next) = s[d + 1].node

(* Where the two normalizations have brought the script's chain, and what  *)
(* has been found of it.                                                   *)
Progress ==
  /\ script \in ProcessChain /\ ParentsOk(script)
  /\ pc = "normalize" => chain = (IF pass = 1 THEN script ELSE Flat(script))
  /\ pass = 2 \/ pc \in {"validate", "dfs", "accepted"} => ~NormalizeFails(script)
  /\ pc \in {"validate", "dfs", "accepted"} => chain = Flat(script)
  /\ pc \in {"dfs", "accepted"} => ChecksOk(chain)
  /\ pc = "dfs" => Path(chain, stack)

VerdictInv == IInv /\ Progress /\ VerdictRight

(* What the walk of Normalized copies from a node to the flat list.        *)
SameKind(n, m) ==
  /\ n.name = m.name
  /\ n.exec = m.exec /\ n.oneshot = m.oneshot /\ n.scheduler = m.scheduler
  /\ n.health = m.health /\ n.needParentReady = m.needParentReady
  /\ n.logWithoutPath = m.logWithoutPath /\ n.logRotate = m.logRotate

UnknownWait(n) ==
  \E k \in DOMAIN n.dependsOnEdges : n.dependsOnEdges[k].waitFor = "unknown"

EdgeNames(n) == {CanonicalEdges(n)[k].name : k \in DOMAIN CanonicalEdges(n)}

(* What is at a position of a list.                                        *)
LEMMA ListElement ==
  ASSUME NEW S, NEW q \in Seq(S), NEW k \in DOMAIN q
  PROVE  q[k] \in S
OBVIOUS

(* A list is empty when it has no positions.                               *)
LEMMA EmptyDomain ==
  ASSUME NEW S, NEW q \in Seq(S)
  PROVE  q = <<>> <=> DOMAIN q = {}
<1>1. DOMAIN q = 1 .. Len(q) /\ Len(q) \in Nat
  OBVIOUS
<1>2. q = <<>> <=> Len(q) = 0
  BY EmptySeq
<1>3. 1 .. Len(q) = {} <=> Len(q) = 0
  <2>1. Len(q) # 0 => 1 \in 1 .. Len(q)
    BY <1>1
  <2>2. Len(q) = 0 => 1 .. Len(q) = {}
    BY <1>1
  <2> QED  BY <2>1, <2>2
<1> QED  BY <1>1, <1>2, <1>3

(* A list of dependencies with one more at its end, as the walk writes it. *)
LEMMA Appended ==
  ASSUME NEW S, NEW q \in Seq(S), NEW e \in S
  PROVE  /\ DOMAIN Append(q, e) = DOMAIN q \cup {Len(q) + 1}
         /\ Append(q, e)[Len(q) + 1] = e
         /\ \A k \in DOMAIN q : Append(q, e)[k] = q[k]
         /\ Append(q, e) # <<>>
<1> DEFINE t == Append(q, e)
<1>1. /\ t \in Seq(S) /\ Len(t) = Len(q) + 1 /\ Len(q) \in Nat
      /\ \A k \in 1 .. Len(q) : t[k] = q[k]
      /\ t[Len(q) + 1] = e
  BY AppendProperties
<1> HIDE DEF t
<1>2. DOMAIN t = 1 .. Len(q) + 1 /\ DOMAIN q = 1 .. Len(q)
  BY <1>1
<1>3. 1 .. Len(q) + 1 = 1 .. Len(q) \cup {Len(q) + 1}
  BY <1>1
<1>4. t # <<>>
  BY <1>1, EmptySeq
<1>5. /\ DOMAIN t = DOMAIN q \cup {Len(q) + 1}
      /\ t[Len(q) + 1] = e
      /\ \A k \in DOMAIN q : t[k] = q[k]
      /\ t # <<>>
  BY <1>1, <1>2, <1>3, <1>4
<1> QED  BY <1>5 DEF t

(* canonicalEdges fails on a node with both forms or an unknown wait mode. *)
LEMMA EdgesFailIff ==
  ASSUME NEW n \in ProcessNode
  PROVE  EdgesFail(n) <=> BothForms(n) \/ UnknownWait(n)
<1>1. n.dependsOn \in Seq(Names) /\ n.dependsOnEdges \in Seq(Dependency)
  BY DEF ProcessNode
<1>2. Mode(n) \in {"started", "ready"}
  BY DEF Mode
<1>3. CASE n.dependsOnEdges = <<>>
  <2>1. ~UnknownWait(n)
    BY <1>3 DEF UnknownWait
  <2>2. \A k \in DOMAIN CanonicalEdges(n) : CanonicalEdges(n)[k].waitFor = Mode(n)
    BY <1>3 DEF CanonicalEdges
  <2> QED  BY <2>1, <2>2, <1>2 DEF EdgesFail
<1>4. CASE n.dependsOnEdges # <<>>
  <2>1. /\ DOMAIN CanonicalEdges(n) = DOMAIN n.dependsOnEdges
        /\ \A k \in DOMAIN n.dependsOnEdges :
             CanonicalEdges(n)[k].waitFor = WaitOf(n.dependsOnEdges[k])
    BY <1>4 DEF CanonicalEdges
  <2>2. \A k \in DOMAIN n.dependsOnEdges : n.dependsOnEdges[k] \in Dependency
    BY <1>1
  <2>3. \A d \in Dependency : WaitOf(d) \notin {"started", "ready", "exit"} <=> d.waitFor = "unknown"
    BY DEF Dependency, WaitOf
  <2> QED  BY <2>1, <2>2, <2>3 DEF EdgesFail, UnknownWait
<1> QED  BY <1>3, <1>4

(* With one form of dependencies the edges name what the node declares.    *)
LEMMA EdgesDeclared ==
  ASSUME NEW n \in ProcessNode, ~BothForms(n)
  PROVE  EdgeNames(n) = DeclaredWaits(n)
<1>1. CASE n.dependsOnEdges = <<>>
  <2>1. /\ DOMAIN CanonicalEdges(n) = DOMAIN n.dependsOn
        /\ \A k \in DOMAIN n.dependsOn : CanonicalEdges(n)[k].name = n.dependsOn[k]
    BY <1>1 DEF CanonicalEdges
  <2>2. DOMAIN n.dependsOnEdges = {}
    BY <1>1
  <2> QED  BY <2>1, <2>2 DEF EdgeNames, DeclaredWaits
<1>2. CASE n.dependsOnEdges # <<>>
  <2>1. /\ DOMAIN CanonicalEdges(n) = DOMAIN n.dependsOnEdges
        /\ \A k \in DOMAIN n.dependsOnEdges :
             CanonicalEdges(n)[k].name = n.dependsOnEdges[k].name
    BY <1>2 DEF CanonicalEdges
  <2>2. n.dependsOn = <<>>
    BY <1>2 DEF BothForms
  <2>3. DOMAIN n.dependsOn = {}
    BY <2>2
  <2> QED  BY <2>1, <2>3 DEF EdgeNames, DeclaredWaits
<1> QED  BY <1>1, <1>2

(* A node declares nothing exactly when it has no dependencies of its own. *)
LEMMA NothingDeclared ==
  ASSUME NEW n \in ProcessNode
  PROVE  OwnDependencies(n) <=> DeclaredWaits(n) # {}
<1>1. n.dependsOn \in Seq(Names) /\ n.dependsOnEdges \in Seq(Dependency)
  BY DEF ProcessNode
<1>2. n.dependsOn # <<>> <=> DOMAIN n.dependsOn # {}
  BY <1>1, EmptyDomain
<1>3. n.dependsOnEdges # <<>> <=> DOMAIN n.dependsOnEdges # {}
  BY <1>1, EmptyDomain
<1> QED  BY <1>2, <1>3 DEF OwnDependencies, DeclaredWaits

(* The parent joins what the node declares, in the form it already has.    *)
LEMMA ParentJoins ==
  ASSUME NEW n \in ProcessNode, NEW p \in Names
  PROVE  LET m == WithParent(n, p) IN
         /\ SameKind(m, n)
         /\ BothForms(m) <=> BothForms(n)
         /\ UnknownWait(m) <=> UnknownWait(n)
         /\ p # NoName => DeclaredWaits(m) = DeclaredWaits(n) \cup {p}
<1> DEFINE m == WithParent(n, p)
           e == [name |-> p, waitFor |-> Mode(n)]
<1>1. n.dependsOn \in Seq(Names) /\ n.dependsOnEdges \in Seq(Dependency)
  BY DEF ProcessNode
<1>2. e \in Dependency /\ e.waitFor # "unknown" /\ e.name = p
  BY DEF Mode, Dependency
<1>3. CASE p = NoName
  <2>1. m = [n EXCEPT !.parent = 0]
    BY <1>3 DEF WithParent
  <2>2. SameKind(m, n) /\ m.dependsOn = n.dependsOn /\ m.dependsOnEdges = n.dependsOnEdges
    BY <2>1 DEF SameKind, ProcessNode
  <2> QED  BY <2>2, <1>3 DEF BothForms, UnknownWait
<1>4. CASE p # NoName /\ n.dependsOnEdges # <<>>
  <2>1. m = [n EXCEPT !.parent = 0, !.dependsOnEdges = Append(@, e)]
    BY <1>4 DEF WithParent
  <2>2. SameKind(m, n) /\ m.dependsOn = n.dependsOn
        /\ m.dependsOnEdges = Append(n.dependsOnEdges, e)
    BY <2>1 DEF SameKind, ProcessNode
  <2> HIDE DEF m, e
  <2>3. /\ DOMAIN m.dependsOnEdges = DOMAIN n.dependsOnEdges \cup {Len(n.dependsOnEdges) + 1}
        /\ m.dependsOnEdges[Len(n.dependsOnEdges) + 1] = e
        /\ \A k \in DOMAIN n.dependsOnEdges : m.dependsOnEdges[k] = n.dependsOnEdges[k]
        /\ m.dependsOnEdges # <<>>
    BY <1>1, <1>2, <2>2, Appended
  <2>4. DeclaredWaits(m) = DeclaredWaits(n) \cup {p}
    BY <2>2, <2>3, <1>2 DEF DeclaredWaits
  <2>5. UnknownWait(m) <=> UnknownWait(n)
    BY <2>3, <1>2 DEF UnknownWait
  <2> QED  BY <2>2, <2>3, <2>4, <2>5, <1>4 DEF BothForms, m
<1>5. CASE p # NoName /\ n.dependsOnEdges = <<>>
  <2>1. m = [n EXCEPT !.parent = 0, !.dependsOn = Append(@, p)]
    BY <1>5 DEF WithParent
  <2>2. SameKind(m, n) /\ m.dependsOnEdges = n.dependsOnEdges
        /\ m.dependsOn = Append(n.dependsOn, p)
    BY <2>1 DEF SameKind, ProcessNode
  <2> HIDE DEF m
  <2>3. /\ DOMAIN m.dependsOn = DOMAIN n.dependsOn \cup {Len(n.dependsOn) + 1}
        /\ m.dependsOn[Len(n.dependsOn) + 1] = p
        /\ \A k \in DOMAIN n.dependsOn : m.dependsOn[k] = n.dependsOn[k]
    BY <1>1, <2>2, Appended
  <2>4. DeclaredWaits(m) = DeclaredWaits(n) \cup {p}
    BY <2>2, <2>3 DEF DeclaredWaits
  <2> QED  BY <2>2, <2>4, <1>5 DEF BothForms, UnknownWait, m
<1> QED  BY <1>3, <1>4, <1>5

(* validateLogRotate asks what the rotation needs.                         *)
LEMMA RotationChecked ==
  ASSUME NEW n \in ProcessNode
  PROVE  LogRotateOk(n) <=> RotationFits(n)
<1> DEFINE r == n.logRotate
<1>1. CASE r = NoRotate
  BY <1>1 DEF LogRotateOk, RotationFits
<1>2. CASE r # NoRotate
  <2>1. r \in LogRotateConfig /\ n.exec \in BOOLEAN /\ n.oneshot \in BOOLEAN /\ n.scheduler \in BOOLEAN
    BY <1>2 DEF ProcessNode
  <2>2. /\ r.filePath \in BOOLEAN /\ r.signal \in BOOLEAN /\ r.interval \in Int
        /\ r.files \in Seq([include : BOOLEAN, signal : BOOLEAN])
        /\ r.oversized \in SUBSET [maxBytes : Int, keepTail : Int]
    BY <2>1 DEF LogRotateConfig
  <2>3. r.files # <<>> <=> DOMAIN r.files # {}
    BY <2>2, EmptyDomain
  <2>4. ASSUME NEW k \in DOMAIN r.files
        PROVE  r.files[k].include \in BOOLEAN /\ r.files[k].signal \in BOOLEAN
    <3>1. r.files[k] \in [include : BOOLEAN, signal : BOOLEAN]
      BY <2>2, ListElement
    <3> QED  BY <3>1
  <2>5. \A o \in r.oversized :
          (o.maxBytes > 0 /\ o.keepTail > 0 /\ o.keepTail < o.maxBytes)
            <=> o.keepTail \in 1 .. o.maxBytes - 1
    BY <2>2
  <2> HIDE DEF r
  <2> DEFINE fileGiven == r.filePath # (r.files # <<>>)
             included == \A k \in DOMAIN r.files : r.files[k].include
             oneSource == (r.filePath /\ r.files = <<>>)
                            \/ (~r.filePath /\ {k \in DOMAIN r.files : r.files[k].include} # {}
                                  /\ \A k \in DOMAIN r.files : r.files[k].include)
  <2>6. fileGiven /\ included <=> oneSource
    BY <2>2, <2>3
  <2>7. ASSUME oneSource
        PROVE  (r.reopen \in {"", "signal", "copytruncate"} /\ (SignalReopen(r) => SignalGiven(r)))
                 <=> Reopens(r)
    <3> DEFINE targets == IF r.filePath THEN {r.signal}
                          ELSE {r.signal \/ r.files[k].signal : k \in DOMAIN r.files}
    <3>1. SignalGiven(r) <=> FALSE \notin targets
      <4>1. CASE r.filePath
        BY <4>1, <2>2, <2>3, <2>7 DEF SignalGiven
      <4>2. CASE ~r.filePath
        BY <4>2, <2>2, <2>3, <2>4, <2>7 DEF SignalGiven
      <4> QED  BY <4>1, <4>2, <2>2
    <3>2. Reopens(r) <=> (r.reopen = "copytruncate" \/ (r.reopen \in {"", "signal"} /\ FALSE \notin targets))
      BY DEF Reopens
    <3> HIDE DEF targets
    <3> QED  BY <3>1, <3>2 DEF SignalReopen
  <2>8. LogRotateOk(n) <=>
          /\ ~n.exec /\ ~n.oneshot /\ ~n.scheduler
          /\ fileGiven /\ included
          /\ r.reopen \in {"", "signal", "copytruncate"}
          /\ r.onMissingPid \in {"", "skip", "fail"}
          /\ r.interval >= 0
          /\ SignalReopen(r) => SignalGiven(r)
          /\ \A o \in r.oversized : o.maxBytes > 0 /\ o.keepTail > 0 /\ o.keepTail < o.maxBytes
    BY <1>2 DEF LogRotateOk, r
  <2>9. RotationFits(n) <=>
          /\ ~(n.exec \/ n.oneshot \/ n.scheduler)
          /\ oneSource
          /\ Reopens(r)
          /\ r.onMissingPid \in {"", "skip", "fail"} /\ r.interval >= 0
          /\ \A o \in r.oversized : o.keepTail \in 1 .. o.maxBytes - 1
    BY <1>2 DEF RotationFits, r
  <2> HIDE DEF fileGiven, included, oneSource
  <2> QED  BY <2>5, <2>6, <2>7, <2>8, <2>9
<1> QED  BY <1>1, <1>2

----------------------------------------------------------------------------
(* Normalized keeps the nodes and their names, and every edge of the flat  *)
(* list is one the script's chain declares: written, or to the parent.     *)
LEMMA FlatNodes ==
  ASSUME NEW s \in ProcessChain, ParentsOk(s)
  PROVE  LET c == Flat(s) IN
         /\ Top(c) = Members(s) /\ Members(s) \subseteq Positions(s)
         /\ \A i \in Members(s) :
              /\ s.nodes[i] \in ProcessNode /\ c.nodes[i] \in ProcessNode
              /\ SameKind(c.nodes[i], s.nodes[i])
              /\ BothForms(c.nodes[i]) <=> BothForms(s.nodes[i])
              /\ UnknownWait(c.nodes[i]) <=> UnknownWait(s.nodes[i])
         /\ (\A i \in Members(s) : s.nodes[i].name # NoName) =>
              \A i \in Members(s) : DeclaredWaits(c.nodes[i]) = WaitNames(s, i)
<1> DEFINE c == Flat(s)
<1>1. s.nodes \in Seq(ProcessNode) /\ s.form \in {"nodes", "roots"}
  BY DEF ProcessChain
<1>2. \A i \in Positions(s) : s.nodes[i] \in ProcessNode
  BY <1>1, ListElement DEF Positions
<1>3. CASE s.form = "nodes"
  <2>1. c = s
    BY <1>3 DEF Flat
  <2>2. Members(s) = Top(s) /\ Top(s) \subseteq Positions(s)
    BY <1>3 DEF Members, Top
  <2>3. \A i \in Members(s) : WaitNames(s, i) = DeclaredWaits(s.nodes[i])
    BY <2>2 DEF WaitNames, Top
  <2>4. \A n : SameKind(n, n)
    BY DEF SameKind
  <2> HIDE DEF c
  <2> QED  BY <1>2, <2>1, <2>2, <2>3, <2>4 DEF c
<1>4. CASE s.form = "roots"
  <2> DEFINE node(i) == LET p == s.nodes[i].parent
                        IN  IF p # 0 THEN WithParent(s.nodes[i], s.nodes[p].name) ELSE s.nodes[i]
  <2>1. c = [form |-> "nodes", nodes |-> [i \in Positions(s) |-> node(i)]]
    BY <1>4 DEF Flat
  <2>2. Members(s) = Positions(s)
    BY <1>4 DEF Members
  <2>3. Positions(c) = Positions(s) /\ \A i \in Positions(s) : c.nodes[i] = node(i)
    BY <2>1 DEF Positions
  <2>4. ASSUME NEW i \in Positions(s)
        PROVE  /\ node(i) \in ProcessNode /\ node(i).parent = 0
               /\ SameKind(node(i), s.nodes[i])
               /\ BothForms(node(i)) <=> BothForms(s.nodes[i])
               /\ UnknownWait(node(i)) <=> UnknownWait(s.nodes[i])
               /\ (\A j \in Positions(s) : s.nodes[j].name # NoName) =>
                    DeclaredWaits(node(i)) = WaitNames(s, i)
    <3> DEFINE p == s.nodes[i].parent
    <3>1. s.nodes[i] \in ProcessNode
      BY <1>2
    <3>2. CASE p = 0
      <4>1. node(i) = s.nodes[i]
        BY <3>2
      <4>2. WaitNames(s, i) = DeclaredWaits(s.nodes[i])
        BY <3>2 DEF WaitNames
      <4> HIDE DEF node
      <4> QED  BY <3>1, <3>2, <4>1, <4>2 DEF SameKind
    <3>3. CASE p # 0
      <4>1. p \in Positions(s)
        <5>1. i \in 1 .. Len(s.nodes) /\ Len(s.nodes) \in Nat /\ Positions(s) = 1 .. Len(s.nodes)
          BY <1>1 DEF Positions
        <5>2. p \in 0 .. i - 1
          BY DEF ParentsOk
        <5> QED  BY <5>1, <5>2, <3>3
      <4>2. s.nodes[p].name \in Names
        <5>1. s.nodes[p] \in ProcessNode
          BY <1>2, <4>1
        <5> QED  BY <5>1 DEF ProcessNode
      <4>3. node(i) = WithParent(s.nodes[i], s.nodes[p].name)
        BY <3>3
      <4>4. WaitNames(s, i) = DeclaredWaits(s.nodes[i]) \cup {s.nodes[p].name}
        BY <3>3 DEF WaitNames
      <4> HIDE DEF node, p
      <4>5. node(i) \in ProcessNode /\ node(i).parent = 0
        BY <3>1, <4>2, <4>3, WithParentType
      <4>6. /\ SameKind(node(i), s.nodes[i])
            /\ BothForms(node(i)) <=> BothForms(s.nodes[i])
            /\ UnknownWait(node(i)) <=> UnknownWait(s.nodes[i])
            /\ s.nodes[p].name # NoName =>
                 DeclaredWaits(node(i)) = DeclaredWaits(s.nodes[i]) \cup {s.nodes[p].name}
        BY <3>1, <4>2, <4>3, ParentJoins
      <4> QED  BY <4>1, <4>4, <4>5, <4>6
    <3> QED  BY <3>2, <3>3
  <2> HIDE DEF node, c
  <2>5. Top(c) = Positions(s)
    BY <2>3, <2>4 DEF Top
  <2> QED  BY <1>2, <2>2, <2>3, <2>4, <2>5 DEF c
<1> QED  BY <1>1, <1>3, <1>4

(* The script's chain has names that tell its nodes apart, every wait is   *)
(* for another node, and no node has both forms of dependencies.           *)
Wired(s) ==
  /\ \A i \in Members(s) :
       /\ s.nodes[i].name # NoName
       /\ \A j \in Members(s) \ {i} : s.nodes[j].name # s.nodes[i].name
  /\ \A i \in Members(s) :
       WaitNames(s, i) \subseteq {s.nodes[j].name : j \in Members(s) \ {i}}
  /\ \A i \in Members(s) : ~BothForms(s.nodes[i])

(* In a wired chain the index of ValidateChain finds the declared graph.   *)
LEMMA GraphDeclared ==
  ASSUME NEW s \in ProcessChain, ParentsOk(s), Wired(s)
  PROVE  LET c == Flat(s) IN
         /\ \A i \in Members(s) : \A k \in DOMAIN Edges(c, i) :
              /\ Target(c, i, k) \in Members(s) \ {i}
              /\ s.nodes[Target(c, i, k)].name = Edges(c, i)[k].name
         /\ \A i \in Members(s) : Graph(c)[i] = DeclaredGraph(s)[i]
         /\ Graph(c) = DeclaredGraph(s)
<1> DEFINE c == Flat(s)
           M == Members(s)
<1>1. /\ Top(c) = M
      /\ \A i \in M : /\ c.nodes[i] \in ProcessNode
                      /\ c.nodes[i].name = s.nodes[i].name
                      /\ ~BothForms(c.nodes[i])
                      /\ DeclaredWaits(c.nodes[i]) = WaitNames(s, i)
  BY FlatNodes DEF SameKind, Wired
<1>2. \A i \in M : {Edges(c, i)[k].name : k \in DOMAIN Edges(c, i)} = WaitNames(s, i)
  BY <1>1, EdgesDeclared DEF Edges, EdgeNames
<1>3. \A i \in M : WaitNames(s, i) \subseteq {s.nodes[j].name : j \in M \ {i}}
  BY DEF Wired
<1>4. \A i, j \in M : s.nodes[i].name = s.nodes[j].name => i = j
  BY DEF Wired
<1> HIDE DEF c, M
<1>5. ASSUME NEW i \in M, NEW k \in DOMAIN Edges(c, i)
      PROVE  Target(c, i, k) \in M \ {i} /\ s.nodes[Target(c, i, k)].name = Edges(c, i)[k].name
  <2>1. PICK j \in M \ {i} : s.nodes[j].name = Edges(c, i)[k].name
    BY <1>2, <1>3
  <2>2. j \in Top(c) /\ c.nodes[j].name = Edges(c, i)[k].name
    BY <1>1, <2>1
  <2>3. Target(c, i, k) \in Top(c) /\ c.nodes[Target(c, i, k)].name = Edges(c, i)[k].name
    BY <2>2 DEF Target, Index
  <2>4. Target(c, i, k) \in M /\ s.nodes[Target(c, i, k)].name = Edges(c, i)[k].name
    BY <2>3, <1>1
  <2> QED  BY <2>1, <2>4, <1>4
<1>6. ASSUME NEW i \in M
      PROVE  {Target(c, i, k) : k \in DOMAIN Edges(c, i)} = {j \in M : s.nodes[j].name \in WaitNames(s, i)}
  <2>1. \A k \in DOMAIN Edges(c, i) : Edges(c, i)[k].name \in WaitNames(s, i)
    BY <1>2
  <2>2. ASSUME NEW j \in M, s.nodes[j].name \in WaitNames(s, i)
        PROVE  \E k \in DOMAIN Edges(c, i) : Target(c, i, k) = j
    <3>1. PICK k \in DOMAIN Edges(c, i) : Edges(c, i)[k].name = s.nodes[j].name
      BY <1>2, <2>2
    <3> QED  BY <3>1, <1>4, <1>5
  <2> QED  BY <2>1, <2>2, <1>5
<1>7. Graph(c) = [i \in M |-> {Target(c, i, k) : k \in DOMAIN Edges(c, i)}]
  BY <1>1 DEF Graph
<1>8. DeclaredGraph(s) = [i \in M |-> {j \in M : s.nodes[j].name \in WaitNames(s, i)}]
  BY DEF DeclaredGraph, M
<1>9. Graph(c) = DeclaredGraph(s)
  BY <1>6, <1>7, <1>8
<1> QED  BY <1>5, <1>9 DEF c, M

(* What Service.Run gives to runDAG is a sound chain, and only that: the   *)
(* checks of the flat list are those soundness makes of the script's own.  *)
LEMMA SoundIff ==
  ASSUME NEW s \in ProcessChain, ParentsOk(s)
  PROVE  Sound(s) <=> /\ ~NormalizeFails(s)
                      /\ ChecksOk(Flat(s))
                      /\ Acyclic(Top(Flat(s)), Graph(Flat(s)))
<1> DEFINE c == Flat(s)
           M == Members(s)
           waits == DeclaredGraph(s)
<1>1. /\ Top(c) = M /\ M \subseteq Positions(s)
      /\ \A i \in M : /\ s.nodes[i] \in ProcessNode /\ c.nodes[i] \in ProcessNode
                      /\ SameKind(c.nodes[i], s.nodes[i])
                      /\ BothForms(c.nodes[i]) <=> BothForms(s.nodes[i])
                      /\ UnknownWait(c.nodes[i]) <=> UnknownWait(s.nodes[i])
      /\ (\A i \in M : s.nodes[i].name # NoName) =>
           \A i \in M : DeclaredWaits(c.nodes[i]) = WaitNames(s, i)
  BY FlatNodes
<1>2. \A i \in M : EdgesFail(c.nodes[i]) <=> BothForms(s.nodes[i]) \/ UnknownWait(s.nodes[i])
  BY <1>1, EdgesFailIff
<1>3. \A i \in M : /\ LogRotateOk(c.nodes[i]) <=> RotationFits(s.nodes[i])
                   /\ OneshotOk(c.nodes[i]) <=>
                        (s.nodes[i].oneshot =>
                           ~(s.nodes[i].exec \/ s.nodes[i].scheduler
                               \/ s.nodes[i].health \/ s.nodes[i].needParentReady))
  <2>1. ASSUME NEW i \in M PROVE LogRotateOk(c.nodes[i]) <=> RotationFits(s.nodes[i])
    <3>1. RotationFits(c.nodes[i]) <=> RotationFits(s.nodes[i])
      BY <1>1 DEF SameKind, RotationFits
    <3> QED  BY <3>1, <1>1, RotationChecked
  <2>2. ASSUME NEW i \in M
        PROVE  OneshotOk(c.nodes[i]) <=>
                 (s.nodes[i].oneshot =>
                    ~(s.nodes[i].exec \/ s.nodes[i].scheduler
                        \/ s.nodes[i].health \/ s.nodes[i].needParentReady))
    BY <1>1 DEF SameKind, OneshotOk
  <2> QED  BY <2>1, <2>2
<1>4. (~WalkFails(s) /\ \A i \in M : ~(HasChildren(c, i) /\ OwnDependencies(c.nodes[i])))
        <=> \A i \in M : HasChildren(s, i) => DeclaredWaits(s.nodes[i]) = {}
  <2>1. \A i \in M : OwnDependencies(s.nodes[i]) <=> DeclaredWaits(s.nodes[i]) # {}
    BY <1>1, NothingDeclared
  <2>2. CASE s.form = "nodes"
    <3>1. c = s /\ ~WalkFails(s)
      BY <2>2 DEF Flat, WalkFails
    <3> HIDE DEF c, M
    <3> QED  BY <2>1, <3>1
  <2>3. CASE s.form = "roots"
    <3>1. M = Positions(s)
      BY <2>3 DEF Members
    <3>2. \A i \in M : ~HasChildren(c, i)
      <4>1. Positions(c) = Positions(s)
        BY <2>3 DEF Flat, Positions
      <4>2. \A i \in Positions(c) : c.nodes[i].parent = 0
        BY <4>1, <3>1, <1>1 DEF Top
      <4>3. \A i \in M : i # 0
        BY <3>1 DEF Positions, ProcessChain
      <4> HIDE DEF c, M
      <4> QED  BY <4>2, <4>3 DEF HasChildren
    <3>3. WalkFails(s) <=> \E i \in M : HasChildren(s, i) /\ OwnDependencies(s.nodes[i])
      BY <2>3, <3>1 DEF WalkFails
    <3> HIDE DEF c, M
    <3> QED  BY <2>1, <3>2, <3>3
  <2>4. s.form \in {"nodes", "roots"}
    BY DEF ProcessChain
  <2> QED  BY <2>2, <2>3, <2>4
<1>5. NormalizeFails(s) <=> WalkFails(s) \/ \E i \in M : EdgesFail(c.nodes[i])
  BY <1>1 DEF NormalizeFails
<1>6. ASSUME Wired(s)
      PROVE  /\ Graph(c) = waits
             /\ \A i \in M : waits[i] = {Target(c, i, k) : k \in DOMAIN Edges(c, i)}
             /\ \A i \in M : \A k \in DOMAIN Edges(c, i) :
                  /\ Target(c, i, k) \in M \ {i}
                  /\ c.nodes[Target(c, i, k)].name = Edges(c, i)[k].name
  <2>1. /\ Graph(c) = waits
        /\ \A i \in M : \A k \in DOMAIN Edges(c, i) :
             /\ Target(c, i, k) \in M \ {i}
             /\ s.nodes[Target(c, i, k)].name = Edges(c, i)[k].name
    BY <1>6, GraphDeclared
  <2> HIDE DEF c, M, waits
  <2>2. \A i \in M : Graph(c)[i] = {Target(c, i, k) : k \in DOMAIN Edges(c, i)}
    BY <1>1 DEF Graph
  <2> QED  BY <2>1, <2>2, <1>1 DEF SameKind
<1>7. ASSUME \A i \in M : ~BothForms(s.nodes[i]), \A i \in M : s.nodes[i].name # NoName
      PROVE  \A i \in M : {Edges(c, i)[k].name : k \in DOMAIN Edges(c, i)} = WaitNames(s, i)
  BY <1>1, <1>7, EdgesDeclared DEF Edges, EdgeNames
<1>8. Sound(s) <=>
        /\ Wired(s)
        /\ Acyclic(M, waits)
        /\ \A i \in M : s.nodes[i].exec =>
             /\ \A j \in M : i \notin waits[j] /\ (s.nodes[j].exec => j = i)
             /\ \A j \in waits[i] : s.nodes[j].oneshot
        /\ \A i \in M : s.nodes[i].oneshot =>
             ~(s.nodes[i].exec \/ s.nodes[i].scheduler
                 \/ s.nodes[i].health \/ s.nodes[i].needParentReady)
        /\ \A i \in M : HasChildren(s, i) => DeclaredWaits(s.nodes[i]) = {}
        /\ \A i \in M : ~UnknownWait(s.nodes[i])
        /\ \A i \in M : ~s.nodes[i].logWithoutPath /\ RotationFits(s.nodes[i])
  BY DEF Sound, Wired, UnknownWait
<1> HIDE DEF c, M, waits
<1>9. ASSUME ~NormalizeFails(s), ChecksOk(c), Acyclic(Top(c), Graph(c))
      PROVE  Sound(s)
  <2>1. NodesOk(c) /\ EdgesOk(c) /\ ExecOk(c)
    BY <1>9 DEF ChecksOk
  <2>2. Wired(s)
    <3>1. \A i \in M : ~BothForms(s.nodes[i])
      BY <1>2, <1>5, <1>9
    <3>2. \A i \in M : s.nodes[i].name # NoName /\ \A j \in M \ {i} : s.nodes[j].name # s.nodes[i].name
      BY <1>1, <2>1 DEF NodesOk, NamesOk, SameKind
    <3>3. \A i \in M : WaitNames(s, i) \subseteq {s.nodes[j].name : j \in M \ {i}}
      BY <1>1, <1>7, <2>1, <3>1, <3>2 DEF EdgesOk, SameKind
    <3> QED  BY <3>1, <3>2, <3>3 DEF Wired, M
  <2>3. Acyclic(M, waits)
    BY <1>1, <1>6, <1>9, <2>2
  <2>4. ASSUME NEW i \in M, s.nodes[i].exec
        PROVE  /\ \A j \in M : i \notin waits[j] /\ (s.nodes[j].exec => j = i)
               /\ \A j \in waits[i] : s.nodes[j].oneshot
    <3>1. \A j \in M : s.nodes[j].exec => j = i
      BY <1>1, <2>1, <2>4 DEF ExecOk, SameKind
    <3>2. \A j \in waits[i] : s.nodes[j].oneshot
      BY <1>1, <1>6, <2>1, <2>2, <2>4 DEF ExecOk, SameKind
    <3>3. ASSUME NEW j \in M, i \in waits[j] PROVE FALSE
      <4>1. PICK k \in DOMAIN Edges(c, j) : Target(c, j, k) = i
        BY <1>6, <2>2, <3>3
      <4>2. PICK h \in M \ {j} : c.nodes[h].name = Edges(c, j)[k].name /\ ~c.nodes[h].exec
        BY <1>1, <2>1, <4>1 DEF EdgesOk
      <4>3. c.nodes[i].name = c.nodes[h].name
        BY <1>6, <2>2, <4>1, <4>2
      <4>4. i = h
        BY <1>1, <2>1, <4>3 DEF NodesOk, NamesOk
      <4> QED  BY <1>1, <2>4, <4>2, <4>4 DEF SameKind
    <3> QED  BY <3>1, <3>2, <3>3
  <2>5. \A i \in M : ~UnknownWait(s.nodes[i])
    BY <1>2, <1>5, <1>9
  <2>6. \A i \in M : ~s.nodes[i].logWithoutPath /\ RotationFits(s.nodes[i]) /\ OneshotOk(c.nodes[i])
    BY <1>1, <1>3, <2>1 DEF NodesOk, SameKind
  <2>7. \A i \in M : HasChildren(s, i) => DeclaredWaits(s.nodes[i]) = {}
    BY <1>1, <1>4, <1>5, <1>9, <2>1 DEF NodesOk
  <2> QED  BY <1>3, <1>8, <2>2, <2>3, <2>4, <2>5, <2>6, <2>7
<1>10. ASSUME Sound(s)
       PROVE  ~NormalizeFails(s) /\ ChecksOk(c) /\ Acyclic(Top(c), Graph(c))
  <2>1. Wired(s) /\ Acyclic(M, waits)
    BY <1>8, <1>10
  <2>2. Acyclic(Top(c), Graph(c))
    BY <1>1, <1>6, <2>1
  <2>3. \A i \in M : ~EdgesFail(c.nodes[i])
    BY <1>2, <1>8, <1>10 DEF Wired, M
  <2>4. ~WalkFails(s) /\ \A i \in M : ~(HasChildren(c, i) /\ OwnDependencies(c.nodes[i]))
    BY <1>4, <1>8, <1>10
  <2>5. ~NormalizeFails(s)
    BY <1>5, <2>3, <2>4
  <2>6. NamesOk(c)
    BY <1>1, <2>1 DEF Wired, M, NamesOk, SameKind
  <2>7. NodesOk(c)
    BY <1>1, <1>3, <1>8, <1>10, <2>4, <2>6 DEF NodesOk, SameKind
  <2>8. EdgesOk(c)
    <3> SUFFICES ASSUME NEW i \in M, NEW k \in DOMAIN Edges(c, i)
                 PROVE  \E j \in M \ {i} : c.nodes[j].name = Edges(c, i)[k].name /\ ~c.nodes[j].exec
      BY <1>1, <2>3 DEF EdgesOk
    <3>1. /\ Target(c, i, k) \in M \ {i} /\ Target(c, i, k) \in waits[i]
          /\ c.nodes[Target(c, i, k)].name = Edges(c, i)[k].name
      BY <1>6, <2>1
    <3>2. ~s.nodes[Target(c, i, k)].exec
      BY <1>8, <1>10, <3>1
    <3> QED  BY <1>1, <3>1, <3>2 DEF SameKind
  <2>9. ExecOk(c)
    <3>1. \A i, j \in M : c.nodes[i].exec /\ c.nodes[j].exec => i = j
      BY <1>1, <1>8, <1>10 DEF SameKind
    <3>2. ASSUME NEW i \in M, c.nodes[i].exec, NEW k \in DOMAIN Edges(c, i)
          PROVE  c.nodes[Target(c, i, k)].oneshot
      <4>1. Target(c, i, k) \in M /\ Target(c, i, k) \in waits[i] /\ s.nodes[i].exec
        BY <1>1, <1>6, <2>1, <3>2 DEF SameKind
      <4>2. s.nodes[Target(c, i, k)].oneshot
        BY <1>8, <1>10, <4>1
      <4> QED  BY <1>1, <4>1, <4>2 DEF SameKind
    <3> QED  BY <1>1, <3>1, <3>2 DEF ExecOk
  <2> QED  BY <2>2, <2>5, <2>7, <2>8, <2>9 DEF ChecksOk
<1> QED  BY <1>9, <1>10 DEF c

(* Normalizing a normalized chain, as Service.Run does, changes nothing    *)
(* and finds no fault the first time did not.                              *)
LEMMA FlatTwice ==
  ASSUME NEW s \in ProcessChain
  PROVE  /\ Flat(Flat(s)) = Flat(s)
         /\ NormalizeFails(Flat(s)) => NormalizeFails(s)
<1>1. Flat(s).form = "nodes"
  BY DEF Flat, ProcessChain
<1>2. Flat(Flat(s)) = Flat(s)
  BY <1>1 DEF Flat
<1>3. ~WalkFails(Flat(s))
  BY <1>1 DEF WalkFails
<1> QED  BY <1>2, <1>3 DEF NormalizeFails

(* An edge back to an entry whose call has not returned closes a circle:   *)
(* the entries of the calls from that one to the last wait for each other. *)
LEMMA BackEdgeCircle ==
  ASSUME NEW c, NEW v, NEW s, Search(c, v, s), Path(c, s), s # <<>>,
         s[Len(s)].next \in DOMAIN Edges(c, s[Len(s)].node),
         v[Target(c, s[Len(s)].node, s[Len(s)].next)] = "in"
  PROVE  ~Acyclic(Top(c), Graph(c))
<1> DEFINE last == Len(s)
           back == Target(c, s[last].node, s[last].next)
<1>1. /\ s \in Seq(Calls(c)) /\ last \in Nat /\ last \in 1 .. last
      /\ \A d \in 1 .. last : s[d].node \in Top(c)
  <2>1. s \in Seq(Calls(c))
    BY DEF Search
  <2>2. last \in Nat /\ last \in 1 .. last /\ \A d \in 1 .. last : s[d] \in Calls(c)
    BY <2>1, Elements
  <2> HIDE DEF last
  <2> QED  BY <2>1, <2>2 DEF Calls
<1>2. back \in Graph(c)[s[last].node] /\ back \in Top(c)
  BY <1>1 DEF Graph, Search, Resolved
<1>3. PICK d \in 1 .. last : s[d].node = back
  BY <1>2 DEF Search
<1> DEFINE ring == {s[e].node : e \in d .. last}
<1>4. \A e \in d .. last : e \in 1 .. last
  BY <1>1, <1>3
<1>5. ring \subseteq Top(c) /\ back \in ring
  BY <1>1, <1>3, <1>4
<1>6. ASSUME NEW e \in d .. last
      PROVE  Graph(c)[s[e].node] \cap ring # {}
  <2>1. CASE e = last
    BY <2>1, <1>2, <1>5
  <2>2. CASE e # last
    <3>1. e \in 1 .. last - 1 /\ e + 1 \in d .. last
      BY <2>2, <1>1, <1>3, <1>4
    <3>2. /\ s[e].next \in DOMAIN Edges(c, s[e].node)
          /\ Target(c, s[e].node, s[e].next) = s[e + 1].node
      BY <3>1 DEF Path
    <3>3. s[e + 1].node \in Graph(c)[s[e].node]
      BY <3>2, <1>1, <1>4 DEF Graph
    <3> QED  BY <3>1, <3>3
  <2> QED  BY <2>1, <2>2
<1> HIDE DEF ring
<1>7. \A i \in ring : Graph(c)[i] \cap ring # {}
  BY <1>6 DEF ring
<1> QED  BY <1>5, <1>7 DEF Acyclic

(* A call for the entry the last one's edge leads to.                      *)
LEMMA PathPush ==
  ASSUME NEW c, NEW s \in Seq(Calls(c)), Path(c, s), NEW i \in Top(c),
         s # <<>> => /\ s[Len(s)].next \in DOMAIN Edges(c, s[Len(s)].node)
                     /\ Target(c, s[Len(s)].node, s[Len(s)].next) = i
  PROVE  Path(c, Append(s, Frame(i)))
<1> DEFINE t == Append(s, Frame(i))
<1>1. Frame(i) \in Calls(c) /\ Frame(i).node = i
  BY DEF Frame, Calls
<1>2. /\ Len(t) = Len(s) + 1 /\ Len(s) \in Nat /\ t[Len(s) + 1] = Frame(i)
      /\ \A d \in 1 .. Len(s) : t[d] = s[d]
  BY <1>1, AppendProperties
<1> HIDE DEF t
<1>3. ASSUME NEW d \in 1 .. Len(t) - 1
      PROVE  /\ t[d].next \in DOMAIN Edges(c, t[d].node)
             /\ Target(c, t[d].node, t[d].next) = t[d + 1].node
  <2>1. d \in 1 .. Len(s) /\ t[d] = s[d]
    BY <1>2
  <2>2. CASE d = Len(s)
    <3>1. s # <<>>
      BY <2>1, <2>2
    <3> QED  BY <3>1, <2>1, <2>2, <1>1, <1>2
  <2>3. CASE d # Len(s)
    <3>1. d \in 1 .. Len(s) - 1 /\ d + 1 \in 1 .. Len(s)
      BY <2>1, <2>3, <1>2
    <3> QED  BY <3>1, <2>1, <1>2 DEF Path
  <2> QED  BY <2>2, <2>3
<1>4. Path(c, t)
  BY <1>3 DEF Path
<1> QED  BY <1>4 DEF t

(* Only the last call moves on to its next edge.                           *)
LEMMA PathNext ==
  ASSUME NEW c, NEW s \in Seq(Calls(c)), Path(c, s), s # <<>>
  PROVE  Path(c, [s EXCEPT ![Len(s)].next = @ + 1])
<1> DEFINE t == [s EXCEPT ![Len(s)].next = @ + 1]
           moved == [s[Len(s)] EXCEPT !.next = @ + 1]
<1>1. Len(s) \in Nat /\ Len(s) \in 1 .. Len(s) /\ s[Len(s)] \in Calls(c)
  BY Elements
<1>2. moved \in Calls(c) /\ moved.node = s[Len(s)].node
  BY <1>1 DEF Calls
<1>3. t = [s EXCEPT ![Len(s)] = moved]
  OBVIOUS
<1> HIDE DEF t, moved
<1>4. /\ Len(t) = Len(s) /\ t[Len(s)] = moved
      /\ \A d \in 1 .. Len(s) : d # Len(s) => t[d] = s[d]
  BY <1>1, <1>2, <1>3, Replaced
<1>5. ASSUME NEW d \in 1 .. Len(s) - 1
      PROVE  t[d] = s[d] /\ t[d + 1].node = s[d + 1].node
  <2>1. d \in 1 .. Len(s) /\ d # Len(s) /\ d + 1 \in 1 .. Len(s)
    BY <1>1
  <2> QED  BY <2>1, <1>2, <1>4
<1>6. Path(c, t)
  BY <1>4, <1>5 DEF Path
<1> QED  BY <1>6 DEF t

(* A call returns.                                                         *)
LEMMA PathPop ==
  ASSUME NEW c, NEW s \in Seq(Calls(c)), Path(c, s), s # <<>>
  PROVE  Path(c, SubSeq(s, 1, Len(s) - 1))
<1> DEFINE t == SubSeq(s, 1, Len(s) - 1)
<1>1. Len(t) = Len(s) - 1 /\ Len(s) \in Nat /\ \A d \in 1 .. Len(s) - 1 : t[d] = s[d]
  BY Prefix, Elements
<1> HIDE DEF t
<1>2. \A d \in 1 .. Len(t) - 1 : d \in 1 .. Len(s) - 1 /\ d + 1 \in 1 .. Len(s) - 1
  BY <1>1
<1>3. Path(c, t)
  BY <1>1, <1>2 DEF Path
<1> QED  BY <1>3 DEF t

----------------------------------------------------------------------------
(* Before the first Normalized nothing has been found.                     *)
LEMMA InitVerdict == Init => VerdictInv
<1> SUFFICES ASSUME Init PROVE VerdictInv
  OBVIOUS
<1>1. script \in ProcessChain /\ ParentsOk(script)
  BY ScriptsAssumption DEF Init, ParentsOk, Positions
<1> QED  BY <1>1, InitInv DEF Init, VerdictInv, Progress, VerdictRight

(* Neither ChainModule.Run nor Service.Run rejects a sound chain.          *)
LEMMA RejectedUnsound ==
  ASSUME VerdictInv, NormalizeRejects \/ CheckRejects \/ BackEdge
  PROVE  ~Sound(script)
<1>1. script \in ProcessChain /\ ParentsOk(script)
  BY DEF VerdictInv, Progress
<1>2. CASE NormalizeRejects
  <2>1. NormalizeFails(chain) /\ (chain = script \/ chain = Flat(script))
    BY <1>2 DEF NormalizeRejects, VerdictInv, Progress
  <2>2. NormalizeFails(script)
    BY <2>1, <1>1, FlatTwice
  <2> QED  BY <1>1, <2>2, SoundIff
<1>3. CASE CheckRejects
  <2>1. chain = Flat(script) /\ ~ChecksOk(chain)
    BY <1>3 DEF CheckRejects, VerdictInv, Progress
  <2> QED  BY <1>1, <2>1, SoundIff
<1>4. CASE BackEdge
  <2>1. chain = Flat(script) /\ Path(chain, stack) /\ Search(chain, visit, stack)
    BY <1>4 DEF BackEdge, VerdictInv, Progress, IInv
  <2>2. ~Acyclic(Top(chain), Graph(chain))
    BY <2>1, <1>4, BackEdgeCircle DEF BackEdge, HasEdge, EdgeTo, Call
  <2> QED  BY <1>1, <2>1, <2>2, SoundIff
<1> QED  BY <1>2, <1>3, <1>4

(* No step of chain.run or Service.Run leaves the stronger invariant.      *)
LEMMA NextVerdict == VerdictInv /\ [Next]_vars => VerdictInv'
<1> SUFFICES ASSUME VerdictInv, [Next]_vars PROVE VerdictInv'
  OBVIOUS
<1>1. IInv'
  BY NextInv DEF VerdictInv
<1>2. IInv /\ Progress /\ script \in ProcessChain /\ ParentsOk(script)
  BY DEF VerdictInv, Progress
<1>3. chain \in ProcessChain
  BY <1>2 DEF IInv, TypeOK
<1>4. script' = script
  BY DEF Next, vars, Normalize, NormalizeRejects, Check, CheckRejects, Reject, StartSearch,
         Searching, Descend, NextEdge, BackEdge, ReturnSearch, HandOver, Accept
<1>5. script' \in ProcessChain /\ ParentsOk(script)'
  BY <1>2, <1>4 DEF ParentsOk, Positions
<1>6. SUFFICES (Progress /\ VerdictRight)'
  BY <1>1 DEF VerdictInv
<1>7. CASE Normalize
  <2>1. chain' = Flat(script) /\ ~NormalizeFails(script) /\ pc' = "validate"
    <3>1. chain = script \/ (pass = 2 /\ chain = Flat(script))
      BY <1>7, <1>2 DEF Normalize, Progress, IInv, TypeOK
    <3> QED  BY <1>7, <1>2, <3>1, FlatTwice DEF Normalize, Progress
  <2> QED  BY <1>4, <1>5, <2>1 DEF Progress, VerdictRight
<1>8. CASE NormalizeRejects \/ CheckRejects \/ BackEdge
  <2>1. ~Sound(script)
    BY <1>8, RejectedUnsound
  <2>2. pc' = "rejected" /\ UNCHANGED <<script, chain, pass, visit, stack>>
    BY <1>8 DEF NormalizeRejects, CheckRejects, BackEdge, Reject
  <2>3. pass' = 2 => ~NormalizeFails(script)
    BY <1>2, <2>2 DEF Progress
  <2> QED  BY <1>4, <1>5, <2>1, <2>2, <2>3 DEF Progress, VerdictRight
<1>9. CASE Check
  <2>1. Path(chain, stack')
    <3>1. Len(stack') = 0
      BY <1>9 DEF Check
    <3> QED  BY <3>1 DEF Path
  <2>2. pc = "validate" /\ pc' = "dfs" /\ ChecksOk(chain) /\ chain' = chain
    BY <1>9 DEF Check
  <2>3. chain = Flat(script) /\ ~NormalizeFails(script)
    BY <1>2, <2>2 DEF Progress
  <2> QED  BY <1>4, <1>5, <2>1, <2>2, <2>3 DEF Progress, VerdictRight
<1>10. ASSUME Searching, pc' = "dfs", Path(chain, stack')
       PROVE  (Progress /\ VerdictRight)'
  <2>1. /\ pc = "dfs" /\ chain' = chain
        /\ chain = Flat(script) /\ ~NormalizeFails(script) /\ ChecksOk(chain)
    BY <1>2, <1>10 DEF Progress, Searching
  <2> QED  BY <1>4, <1>5, <1>10, <2>1 DEF Progress, VerdictRight
<1>11. pc = "dfs" => Search(chain, visit, stack) /\ Path(chain, stack) /\ stack \in Seq(Calls(chain))
  BY <1>2 DEF IInv, Search, Progress
<1>12. ASSUME NEW i \in Top(chain), StartSearch(i) PROVE (Progress /\ VerdictRight)'
  <2>1. Searching /\ pc = "dfs" /\ pc' = "dfs" /\ stack = <<>> /\ stack' = <<Frame(i)>>
    BY <1>12 DEF StartSearch, Searching
  <2>2. Path(chain, stack')
    <3>1. Len(stack') = 1
      BY <2>1
    <3> QED  BY <3>1 DEF Path
  <2> QED  BY <1>10, <2>1, <2>2
<1>13. CASE Descend
  <2>1. Searching /\ pc = "dfs" /\ pc' = "dfs" /\ HasEdge /\ stack' = Append(stack, Frame(EdgeTo))
    BY <1>13 DEF Descend, Searching
  <2>2. EdgeTo \in Top(chain)
    <3>1. stack[Len(stack)] \in Calls(chain)
      BY <1>11, <2>1, Elements DEF HasEdge
    <3> QED  BY <3>1, <1>11, <2>1 DEF HasEdge, EdgeTo, Call, Calls, Search, Resolved, Graph
  <2>3. Path(chain, stack')
    BY <1>11, <2>1, <2>2, PathPush DEF HasEdge, EdgeTo, Call
  <2> QED  BY <1>10, <2>1, <2>3
<1>14. CASE NextEdge
  <2>1. /\ Searching /\ pc = "dfs" /\ pc' = "dfs" /\ stack # <<>>
        /\ stack' = [stack EXCEPT ![Len(stack)].next = @ + 1]
    BY <1>14 DEF NextEdge, Searching, HasEdge
  <2> QED  BY <1>10, <1>11, <2>1, PathNext
<1>15. CASE ReturnSearch
  <2>1. /\ Searching /\ pc = "dfs" /\ pc' = "dfs" /\ stack # <<>>
        /\ stack' = SubSeq(stack, 1, Len(stack) - 1)
    BY <1>15 DEF ReturnSearch, Searching
  <2> QED  BY <1>10, <1>11, <2>1, PathPop
<1>16. CASE HandOver
  <2>1. pc = "dfs" /\ pc' = "normalize" /\ pass' = 2 /\ chain' = chain
    BY <1>16 DEF HandOver, SearchEnds
  <2>2. chain = Flat(script) /\ ~NormalizeFails(script)
    BY <1>2, <2>1 DEF Progress
  <2> QED  BY <1>4, <1>5, <2>1, <2>2 DEF Progress, VerdictRight
<1>17. CASE Accept
  <2>1. pc = "dfs" /\ pc' = "accepted" /\ chain' = chain
    BY <1>17 DEF Accept, SearchEnds
  <2>2. chain = Flat(script) /\ ~NormalizeFails(script) /\ ChecksOk(chain)
    BY <1>2, <2>1 DEF Progress
  <2>3. Acyclic(Top(chain), Graph(chain))
    BY <1>2, <1>17, SearchComplete DEF Accept
  <2>4. Sound(script)
    BY <1>2, <2>2, <2>3, SoundIff
  <2> QED  BY <1>4, <1>5, <2>1, <2>2, <2>4 DEF Progress, VerdictRight
<1>18. CASE UNCHANGED vars
  BY <1>18 DEF vars, VerdictInv, Progress, VerdictRight, Path, ParentsOk, Positions
<1> QED  BY <1>7, <1>8, <1>9, <1>12, <1>13, <1>14, <1>15, <1>16, <1>17, <1>18 DEF Next

(* The two passes of Normalized and ValidateChain accept a script's chain  *)
(* only when it is sound and reject it only when it is not, however large  *)
(* it is and however its entries are ordered.                              *)
THEOREM VerdictIsRight == Spec => []VerdictRight
<1>1. Spec => []VerdictInv
  BY InitVerdict, NextVerdict, PTL DEF Spec
<1>2. VerdictInv => VerdictRight
  BY DEF VerdictInv
<1> QED  BY <1>1, <1>2, PTL
=============================================================================
