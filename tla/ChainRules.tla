----------------------------- MODULE ChainRules -----------------------------
(***************************************************************************)
(* What chain.run accepts: ProcessChain.Normalized                         *)
(* (domain/process_chain.go) turns a script's chain into a flat list with  *)
(* canonical edges, ValidateChain (domain/chain_validate.go) checks it, and *)
(* both are done twice, by ChainModule.Run and by Service.Run, before the  *)
(* coordinator relies on the result.                                       *)
(*                                                                         *)
(* A chain is a list of nodes in the order a walk of the tree meets them.  *)
(* parent is the position of the node whose Children it is in, 0 for a     *)
(* node of Nodes or Roots itself.                                          *)
(***************************************************************************)
EXTENDS Integers, Sequences

CONSTANTS
  Names,     \* the names nodes and dependencies may have
  NoName,    \* the empty name
  NoRotate,  \* a node without LogRotate
  Scripts    \* sets of chains the script may give to chain.run

(* "unknown" is any string that is not a wait mode. *)
Dependency == [name : Names, waitFor : {"", "started", "ready", "exit", "unknown"}]

(* oversized has one element when the section is set; a file has an        *)
(* include pattern, and a signal of its own, or not.                       *)
LogRotateConfig ==
  [filePath : BOOLEAN, files : Seq([include : BOOLEAN, signal : BOOLEAN]),
   reopen : STRING, onMissingPid : STRING, interval : Int, signal : BOOLEAN,
   oversized : SUBSET [maxBytes : Int, keepTail : Int]]

ProcessNode ==
  [name : Names, parent : Nat, dependsOn : Seq(Names), dependsOnEdges : Seq(Dependency),
   needParentReady : BOOLEAN, exec : BOOLEAN, oneshot : BOOLEAN, scheduler : BOOLEAN,
   health : BOOLEAN, logWithoutPath : BOOLEAN, logRotate : LogRotateConfig \cup {NoRotate}]

ProcessChain == [form : {"nodes", "roots"}, nodes : Seq(ProcessNode)]

ASSUME ScriptsAssumption ==
  /\ NoName \in Names
  /\ \A family \in Scripts : \A s \in family :
       /\ s \in ProcessChain
       /\ \A i \in DOMAIN s.nodes : s.nodes[i].parent \in 0 .. i - 1

VARIABLES
  script,    \* the chain the script wrote; never changes
  chain,     \* the chain as normalized so far
  pass,      \* 1: ChainModule.Run, 2: Service.Run
  pc,        \* what is done next with the chain
  visit,     \* the visit mark of every node, as in ValidateChain
  stack      \* the calls of dfs that have not returned: node and next edge

vars == <<script, chain, pass, pc, visit, stack>>

----------------------------------------------------------------------------
(* Normalization. *)

Positions(c) == DOMAIN c.nodes

(* The nodes that are entries of the list, not inside one's Children. *)
Top(c) == {i \in Positions(c) : c.nodes[i].parent = 0}

HasChildren(c, i) == \E j \in Positions(c) : c.nodes[j].parent = i

OwnDependencies(n) == n.dependsOn # <<>> \/ n.dependsOnEdges # <<>>

(* walk refuses Children together with dependencies of the node's own. *)
WalkFails(c) ==
  c.form = "roots" /\ \E i \in Positions(c) : HasChildren(c, i) /\ OwnDependencies(c.nodes[i])

Mode(n) == IF n.needParentReady THEN "ready" ELSE "started"

(* Mutant: the parent always goes to DependsOn. *)
ParentName(n, p) == [n EXCEPT !.parent = 0, !.dependsOn = Append(@, p)]

(* The parent p is added to the form of dependencies the node already has. *)
WithParent(n, p) ==
  IF p = NoName THEN [n EXCEPT !.parent = 0]
  ELSE IF n.dependsOnEdges # <<>>
    THEN [n EXCEPT !.parent = 0,
                   !.dependsOnEdges = Append(@, [name |-> p, waitFor |-> Mode(n)])]
    ELSE [n EXCEPT !.parent = 0, !.dependsOn = Append(@, p)]

(* canonicalEdges; the two forms exclude one another. *)
BothForms(n) == n.dependsOn # <<>> /\ n.dependsOnEdges # <<>>
WaitOf(d) == IF d.waitFor = "" THEN "started" ELSE d.waitFor

CanonicalEdges(n) ==
  IF n.dependsOnEdges # <<>>
  THEN [k \in DOMAIN n.dependsOnEdges |->
          [name |-> n.dependsOnEdges[k].name, waitFor |-> WaitOf(n.dependsOnEdges[k])]]
  ELSE [k \in DOMAIN n.dependsOn |-> [name |-> n.dependsOn[k], waitFor |-> Mode(n)]]

EdgesFail(n) ==
  BothForms(n) \/ \E k \in DOMAIN CanonicalEdges(n) :
                    CanonicalEdges(n)[k].waitFor \notin {"started", "ready", "exit"}

(* A list given as Nodes is kept, and what is in the Children of its       *)
(* entries with it; Roots become a list in which every node is an entry.   *)
Flat(c) ==
  IF c.form = "nodes" THEN c
  ELSE [form |-> "nodes",
        nodes |-> [i \in Positions(c) |->
          LET p == c.nodes[i].parent
          IN  IF p # 0 THEN WithParent(c.nodes[i], c.nodes[p].name) ELSE c.nodes[i]]]

NormalizeFails(c) ==
  WalkFails(c) \/ \E i \in Top(Flat(c)) : EdgesFail(Flat(c).nodes[i])

----------------------------------------------------------------------------
(* Validation of a normalized chain. *)

Edges(c, i) == CanonicalEdges(c.nodes[i])

(* The entry an edge names; index in ValidateChain. *)
Index(c, name) == CHOOSE j \in Top(c) : c.nodes[j].name = name
Target(c, i, k) == Index(c, Edges(c, i)[k].name)

NamesOk(c) ==
  /\ \A i \in Top(c) : c.nodes[i].name # NoName
  /\ \A i, j \in Top(c) : c.nodes[i].name = c.nodes[j].name => i = j

SignalReopen(r) == r.reopen \in {"", "signal"}

(* The single-file shorthand has no signal of its own. *)
SignalGiven(r) ==
  r.signal \/ (r.files # <<>> /\ \A k \in DOMAIN r.files : r.files[k].signal)

(* validateLogRotate *)
LogRotateOk(n) ==
  LET r == n.logRotate IN
  r # NoRotate =>
    /\ ~n.exec /\ ~n.oneshot /\ ~n.scheduler
    /\ r.filePath # (r.files # <<>>)
    /\ \A k \in DOMAIN r.files : r.files[k].include
    /\ r.reopen \in {"", "signal", "copytruncate"}
    /\ r.onMissingPid \in {"", "skip", "fail"}
    /\ r.interval >= 0
    /\ SignalReopen(r) => SignalGiven(r)
    /\ \A o \in r.oversized : o.maxBytes > 0 /\ o.keepTail > 0 /\ o.keepTail < o.maxBytes

(* A oneshot ends, and is ready only when it has exited 0. *)
OneshotOk(n) == n.oneshot => ~n.exec /\ ~n.scheduler /\ ~n.health /\ ~n.needParentReady

NodesOk(c) ==
  /\ NamesOk(c)
  /\ \A i \in Top(c) :
       /\ ~(HasChildren(c, i) /\ OwnDependencies(c.nodes[i]))
       /\ ~c.nodes[i].logWithoutPath
       /\ LogRotateOk(c.nodes[i])
       /\ OneshotOk(c.nodes[i])

EdgesOk(c) ==
  \A i \in Top(c) :
    /\ ~EdgesFail(c.nodes[i])
    /\ \A k \in DOMAIN Edges(c, i) :
         \E j \in Top(c) \ {i} : c.nodes[j].name = Edges(c, i)[k].name /\ ~c.nodes[j].exec

ExecOk(c) ==
  /\ \A i, j \in Top(c) : c.nodes[i].exec /\ c.nodes[j].exec => i = j
  /\ \A i \in Top(c) : c.nodes[i].exec =>
       \A k \in DOMAIN Edges(c, i) : c.nodes[Target(c, i, k)].oneshot

----------------------------------------------------------------------------
Init ==
  /\ \E family \in Scripts : script \in family
  /\ chain = script
  /\ pass = 1
  /\ pc = "normalize"
  /\ visit = <<>>
  /\ stack = <<>>

ParentsOk(c) == \A i \in Positions(c) : c.nodes[i].parent \in 0 .. i - 1

TypeOK ==
  /\ chain \in ProcessChain /\ ParentsOk(chain)
  /\ pass \in {1, 2}
  /\ pc \in {"normalize", "validate", "dfs", "rejected", "accepted"}

Reject == pc' = "rejected" /\ UNCHANGED <<script, chain, pass, visit, stack>>

Normalize ==
  /\ pc = "normalize"
  /\ ~NormalizeFails(chain)
  /\ chain' = Flat(chain)
  /\ pc' = "validate"
  /\ UNCHANGED <<script, pass, visit, stack>>

NormalizeRejects == pc = "normalize" /\ NormalizeFails(chain) /\ Reject

ChecksOk(c) == NodesOk(c) /\ EdgesOk(c) /\ ExecOk(c)

(* Everything ValidateChain checks before it looks for a cycle. *)
Check ==
  /\ pc = "validate"
  /\ ChecksOk(chain)
  /\ pc' = "dfs"
  /\ visit' = [i \in Top(chain) |-> "none"]
  /\ stack' = <<>>
  /\ UNCHANGED <<script, chain, pass>>

CheckRejects == pc = "validate" /\ ~ChecksOk(chain) /\ Reject

----------------------------------------------------------------------------
(* The search for a cycle: one step is one decision of dfs.  When a call   *)
(* returns, the edge it was made for is looked at again and found done.    *)

Frame(i) == [node |-> i, next |-> 1]
Call == stack[Len(stack)]

(* The call has an edge it has not dealt with, and the entry it leads to. *)
HasEdge == stack # <<>> /\ Call.next \in DOMAIN Edges(chain, Call.node)
EdgeTo == Target(chain, Call.node, Call.next)

Searching == pc = "dfs" /\ UNCHANGED <<script, chain, pass>>

(* The loop over the entries calls dfs for the first one not visited. *)
StartSearch(i) ==
  /\ Searching
  /\ stack = <<>>
  /\ visit[i] = "none"
  /\ \A j \in Top(chain) : j < i => visit[j] # "none"
  /\ visit' = [visit EXCEPT ![i] = "in"]
  /\ stack' = <<Frame(i)>>
  /\ UNCHANGED pc

Descend ==
  /\ Searching
  /\ HasEdge
  /\ visit[EdgeTo] = "none"
  /\ visit' = [visit EXCEPT ![EdgeTo] = "in"]
  /\ stack' = Append(stack, Frame(EdgeTo))
  /\ UNCHANGED pc

NextEdge ==
  /\ Searching
  /\ HasEdge
  /\ visit[EdgeTo] = "done"
  /\ stack' = [stack EXCEPT ![Len(stack)].next = @ + 1]
  /\ UNCHANGED <<pc, visit>>

BackEdge == pc = "dfs" /\ HasEdge /\ visit[EdgeTo] = "in" /\ Reject

ReturnSearch ==
  /\ Searching
  /\ stack # <<>> /\ ~HasEdge
  /\ visit' = [visit EXCEPT ![Call.node] = "done"]
  /\ stack' = SubSeq(stack, 1, Len(stack) - 1)
  /\ UNCHANGED pc

(* Mutant: dfs is called for the first entry only. *)
OneSearch == pc = "dfs" /\ stack = <<>> /\ \E i \in Top(chain) : visit[i] # "none"

SearchEnds ==
  /\ pc = "dfs"
  /\ stack = <<>>
  /\ \A i \in Top(chain) : visit[i] # "none"

(* ChainModule.Run gives the chain to Service.Run, which starts again. *)
HandOver ==
  /\ SearchEnds
  /\ pass = 1
  /\ pass' = 2
  /\ pc' = "normalize"
  /\ UNCHANGED <<script, chain, visit, stack>>

(* Service.Run gives it to runDAG. *)
Accept ==
  /\ SearchEnds
  /\ pass = 2
  /\ pc' = "accepted"
  /\ UNCHANGED <<script, chain, pass, visit, stack>>

Next ==
  \/ Normalize \/ NormalizeRejects \/ Check \/ CheckRejects
  \/ \E i \in Top(chain) : StartSearch(i)
  \/ Descend \/ NextEdge \/ BackEdge \/ ReturnSearch
  \/ HandOver \/ Accept

Spec == Init /\ [][Next]_vars

----------------------------------------------------------------------------
(* What the coordinator relies on, stated of the script's chain itself.    *)

(* No set of nodes in which everyone waits for another one of the set.     *)
Acyclic(nodes, waits) ==
  \A ring \in SUBSET nodes : ring # {} => \E i \in ring : waits[i] \cap ring = {}

Members(s) == IF s.form = "roots" THEN Positions(s) ELSE Top(s)

DeclaredWaits(n) ==
  {n.dependsOn[k] : k \in DOMAIN n.dependsOn}
    \cup {n.dependsOnEdges[k].name : k \in DOMAIN n.dependsOnEdges}

(* The names a node of the script waits for: those it lists and its parent. *)
WaitNames(s, i) ==
  DeclaredWaits(s.nodes[i]) \cup
    (IF s.nodes[i].parent = 0 THEN {} ELSE {s.nodes[s.nodes[i].parent].name})

DeclaredGraph(s) ==
  [i \in Members(s) |-> {j \in Members(s) : s.nodes[j].name \in WaitNames(s, i)}]

(* Every file the rotation watches can be handed back to the process.      *)
Reopens(r) ==
  LET targets == IF r.filePath THEN {r.signal}
                 ELSE {r.signal \/ r.files[k].signal : k \in DOMAIN r.files}
  IN  IF r.reopen = "copytruncate" THEN TRUE
      ELSE r.reopen \in {"", "signal"} /\ FALSE \notin targets

RotationFits(n) ==
  n.logRotate # NoRotate =>
    LET r == n.logRotate IN
    /\ ~(n.exec \/ n.oneshot \/ n.scheduler)
    /\ (r.filePath /\ r.files = <<>>)
         \/ (~r.filePath /\ {k \in DOMAIN r.files : r.files[k].include} # {}
                         /\ \A k \in DOMAIN r.files : r.files[k].include)
    /\ Reopens(r)
    /\ r.onMissingPid \in {"", "skip", "fail"} /\ r.interval >= 0
    /\ \A o \in r.oversized : o.keepTail \in 1 .. o.maxBytes - 1

Sound(s) ==
  LET M == Members(s)
      node(i) == s.nodes[i]
      waits == DeclaredGraph(s)
  IN  /\ \A i \in M : node(i).name # NoName /\ \A j \in M \ {i} : node(j).name # node(i).name
      /\ \A i \in M : WaitNames(s, i) \subseteq {node(j).name : j \in M \ {i}}
      /\ Acyclic(M, waits)
      /\ \A i \in M : node(i).exec =>
           /\ \A j \in M : i \notin waits[j] /\ (node(j).exec => j = i)
           /\ \A j \in waits[i] : node(j).oneshot
      /\ \A i \in M : node(i).oneshot =>
           ~(node(i).exec \/ node(i).scheduler \/ node(i).health \/ node(i).needParentReady)
      /\ \A i \in M : ~BothForms(node(i)) /\ (HasChildren(s, i) => DeclaredWaits(node(i)) = {})
      /\ \A i \in M : \A k \in DOMAIN node(i).dependsOnEdges :
           node(i).dependsOnEdges[k].waitFor # "unknown"
      /\ \A i \in M : ~node(i).logWithoutPath /\ RotationFits(node(i))

----------------------------------------------------------------------------
(* A chain reaches the coordinator exactly when it is sound: every wait    *)
(* leads to another node that will run, nothing waits in a circle, and     *)
(* what replaces ezx waits for oneshots only.  The checks are made of the  *)
(* desugared list, in an order of their own; soundness is stated of the    *)
(* script's chain, tree or list (ValidateChain, Normalized).               *)
VerdictRight ==
  /\ pc = "accepted" => Sound(script)
  /\ pc = "rejected" => ~Sound(script)

Graph(c) == [i \in Top(c) |-> {Target(c, i, k) : k \in DOMAIN Edges(c, i)}]

(* Every edge leads to one other entry. *)
Resolved(c) == \A i \in Top(c) : Graph(c)[i] \subseteq Top(c) \ {i}

(* In the chain runDAG gets every edge leads to another entry and nothing  *)
(* waits in a circle: ValidateChain missed no cycle, whatever the order in *)
(* which its search came by the entries.                                   *)
CoordinatorInput ==
  pc = "accepted" => Resolved(chain) /\ Acyclic(Top(chain), Graph(chain))
=============================================================================
