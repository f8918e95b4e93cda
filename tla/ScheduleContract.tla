-------------------------- MODULE ScheduleContract --------------------------
(***************************************************************************)
(* What the coordinator relies on of a scheduled node whose expression has *)
(* been parsed, and what its own actions assume: ticks come one at a time, *)
(* the node is counted as active during a tick and only then, and it ends  *)
(* without error only when it is cancelled between two ticks or after a    *)
(* tick that was asked for before the first due time.                      *)
(***************************************************************************)
EXTENDS Integers

VARIABLES
  phase,     \* "delay", "idle" between ticks, "tick", "lasttick", "over"
  active,    \* what the node adds to Service.active
  outcome,   \* "none" until the lifecycle returns "nil" or "error"
  cancelled  \* the node's context ended

vars == <<phase, active, outcome, cancelled>>

Init == phase = "delay" /\ active = 0 /\ outcome = "none" /\ cancelled = FALSE

Return(o) == phase' = "over" /\ outcome' = o

Cancel == cancelled' = TRUE /\ UNCHANGED <<phase, active, outcome>>

DelayEnds == phase = "delay" /\ phase' = "idle" /\ UNCHANGED <<active, outcome, cancelled>>

TickBegins ==
  /\ phase \in {"delay", "idle"}
  /\ phase' = IF phase = "delay" THEN "lasttick" ELSE "tick"
  /\ active' = active + 1
  /\ UNCHANGED <<outcome, cancelled>>

TickEnds ==
  /\ phase \in {"tick", "lasttick"}
  /\ IF phase = "lasttick" THEN Return("nil") ELSE phase' = "idle" /\ UNCHANGED outcome
  /\ active' = active - 1
  /\ UNCHANGED cancelled

TickFails ==
  /\ phase \in {"tick", "lasttick"}
  /\ Return("error")
  /\ active' = active - 1
  /\ UNCHANGED cancelled

(* The gate refuses the tick that was asked for during the delay. *)
TickRefused == phase = "delay" /\ Return("nil") /\ UNCHANGED <<active, cancelled>>

Stops == phase \in {"delay", "idle"} /\ cancelled /\ Return("nil") /\ UNCHANGED <<active, cancelled>>

Next ==
  Cancel \/ DelayEnds \/ TickBegins \/ TickEnds \/ TickFails \/ TickRefused \/ Stops

Spec == Init /\ [][Next]_vars
=============================================================================
