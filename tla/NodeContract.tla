---------------------------- MODULE NodeContract ----------------------------
(***************************************************************************)
(* What the coordinator relies on of a node's lifecycle, and what its own  *)
(* Lifecycle actions assume: a node signals started before ready, a oneshot*)
(* only after it succeeded; it returns once, with no error only when its   *)
(* process exited 0 or its context ended.                                  *)
(***************************************************************************)
VARIABLES
  oneshot,   \* the node runs to completion; never changes
  outcome,   \* "none" until the lifecycle returns "nil" or "error"
  signals,   \* the signals given to the coordinator
  exited0,   \* the node's last process exited with code 0
  cancelled  \* the node's context ended

vars == <<oneshot, outcome, signals, exited0, cancelled>>

Init ==
  /\ oneshot \in BOOLEAN
  /\ outcome = "none" /\ signals = {} /\ exited0 = FALSE /\ cancelled = FALSE

Cancel == cancelled' = TRUE /\ UNCHANGED <<oneshot, outcome, signals, exited0>>

(* A process of the node starts or exits; after the return, one the drain  *)
(* left behind may still exit.  No process of a oneshot that has succeeded *)
(* starts again.                                                           *)
Runs ==
  /\ exited0' \in BOOLEAN
  /\ outcome # "none" => exited0'
  /\ oneshot => signals = {}
  /\ UNCHANGED <<oneshot, outcome, signals, cancelled>>

Signal(S) ==
  /\ outcome = "none"
  /\ oneshot => exited0
  /\ signals' = signals \cup S
  /\ "ready" \in signals' => "started" \in signals'
  /\ UNCHANGED <<oneshot, outcome, exited0, cancelled>>

Return(o) ==
  /\ outcome = "none"
  /\ o = "nil" => exited0 \/ cancelled
  /\ oneshot /\ o = "error" => signals = {}
  /\ outcome' = o
  /\ UNCHANGED <<oneshot, signals, exited0, cancelled>>

Next ==
  \/ Cancel \/ Runs
  \/ Signal({"started"}) \/ Signal({"ready"})
  \/ Return("nil") \/ Return("error")

Spec == Init /\ [][Next]_vars
=============================================================================
