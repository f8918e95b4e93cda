-------------------------- MODULE ProcessContract --------------------------
(***************************************************************************)
(* What the lifecycles and ticks rely on of one process handle: Done       *)
(* closes once, after the process exited and never before; the code that   *)
(* Wait returns is then that of this exit, and does not change any more.   *)
(* A handle without a process is done at once, or when it is killed.       *)
(***************************************************************************)
CONSTANT Codes

VARIABLES
  phase,  \* "new", "failed", "open" (no process), "running", "exited", "done"
  exit,   \* what the process exited with
  code    \* what Wait returns

vars == <<phase, exit, code>>

Init == phase = "new" /\ code = 0

Starts == phase = "new" /\ phase' = "running" /\ UNCHANGED <<exit, code>>

(* Start fails or has no process to start. *)
StartsNone == phase = "new" /\ phase' \in {"failed", "open", "done"} /\ UNCHANGED <<exit, code>>

Exits == phase = "running" /\ phase' = "exited" /\ exit' \in Codes /\ UNCHANGED code

Closes == phase = "exited" /\ phase' = "done" /\ code' = exit /\ UNCHANGED exit

Killed == phase \in {"new", "failed", "open"} /\ phase' = "done" /\ UNCHANGED <<exit, code>>

Next == Starts \/ StartsNone \/ Exits \/ Closes \/ Killed

Spec == Init /\ [][Next]_vars
=============================================================================
