--------------------------- MODULE ChainContract ---------------------------
(***************************************************************************)
(* What a run of a process chain promises its caller, without the counters,*)
(* channels and locks of the coordinator: a node waits, runs and leaves,   *)
(* or never runs; it runs only after every dependency gave the signal its  *)
(* edge waits for; it gives up waiting only after a dependency has left or *)
(* the chain was stopped; and an error of the run stops the chain.         *)
(***************************************************************************)
CONSTANTS Nodes, NoError

VARIABLES
  edges,    \* edges[n]: the set of <<dependency, mode>> n waits for
  status,   \* "waiting", "running", "left" (ran), "absent" (never runs)
  signals,  \* the set of <<node, mode>> given so far
  stopped,  \* the chain is being shut down
  error     \* the node whose error Run will return

vars == <<edges, status, signals, stopped, error>>

Init ==
  /\ edges \in [Nodes -> SUBSET (Nodes \X {"started", "ready", "exit"})]
  /\ status = [n \in Nodes |-> "waiting"]
  /\ signals = {}
  /\ stopped = FALSE
  /\ error = NoError

(* Of a node that waits for one dependency in two modes nothing is said.   *)
OneMode(n) == \A e, f \in edges[n] : e[1] = f[1] => e = f

Start(n) ==
  /\ status[n] = "waiting"
  /\ OneMode(n) => edges[n] \subseteq signals
  /\ status' = [status EXCEPT ![n] = "running"]
  /\ UNCHANGED <<edges, signals, stopped, error>>

Signal(n, mode) ==
  /\ status[n] = "running"
  /\ signals' = signals \cup {<<n, mode>>}
  /\ UNCHANGED <<edges, status, stopped, error>>

(* A running node leaves, a skipped one is done; a clean exit is signalled. *)
(* The dependents in S, which still waited for n, will never run.           *)
Leave(n, S) ==
  /\ status[n] \in {"running", "absent"}
  /\ \A d \in S : status[d] = "waiting" /\ \E e \in edges[d] : e[1] = n
  /\ status' = [d \in Nodes |-> IF d \in S THEN "absent"
                                ELSE IF d = n /\ status[n] = "running" THEN "left"
                                ELSE status[d]]
  /\ signals' \in {signals, signals \cup {<<n, "exit">>}}
  /\ UNCHANGED <<edges, stopped, error>>

(* After the stop a waiting node gives up by itself. *)
GiveUp(n) ==
  /\ status[n] = "waiting" /\ stopped
  /\ status' = [status EXCEPT ![n] = "absent"]
  /\ UNCHANGED <<edges, signals, stopped, error>>

Stop ==
  /\ stopped' = TRUE
  /\ UNCHANGED <<edges, status, signals, error>>

(* The first error of a node that has left stops the chain. *)
Fail(n) ==
  /\ status[n] = "left" /\ error = NoError
  /\ error' = n
  /\ stopped' = TRUE
  /\ UNCHANGED <<edges, status, signals>>

Next ==
  \/ Stop
  \/ \E n \in Nodes :
       \/ Start(n) \/ GiveUp(n) \/ Fail(n)
       \/ \E m \in {"started", "ready"} : Signal(n, m)
       \/ \E S \in SUBSET Nodes : Leave(n, S)

Spec == Init /\ [][Next]_vars
=============================================================================
