-------------------------------- MODULE Cron --------------------------------
(***************************************************************************)
(* Cron expressions (internal/repository/cron.go) and the loop of a        *)
(* scheduled node that sleeps until the next due minute (runScheduled in   *)
(* orchestrator/service.go).  Scheduler.tla has the rest of that loop, for *)
(* an expression that is always due again; here any expression is run.     *)
(*                                                                         *)
(* Time counts minutes.  Calendar stands for Go's package time: it gives a *)
(* minute its five fields.                                                 *)
(***************************************************************************)
EXTENDS Integers, Sequences

CONSTANTS
  Calendar(_),  \* the minute, hour, day, month and weekday of a time
  Ranges,       \* the least and greatest value of each field
  Window,       \* how far Next searches: five years
  Exprs,        \* the expressions a node may have
  MaxTime       \* bound on the clock

VARIABLES
  expr,    \* CronSchedule.Expression; never changes
  clock,   \* the time
  pc,      \* the position of runScheduled
  when     \* the next due time

vars == <<expr, clock, pc, when>>

----------------------------------------------------------------------------
(* An atom of an expression: star or a range, with a step or step = 0.     *)

InRange(atom, r) == atom.lo <= atom.hi /\ r.min <= atom.lo /\ atom.hi <= r.max

ParseAtom(atom, r) == (atom.stepped => atom.step > 0) /\ (atom.star \/ InRange(atom, r))

ParseField(field, r) == field # <<>> /\ \A k \in DOMAIN field : ParseAtom(field[k], r)

ParseCron(e) == Len(e) = 5 /\ \A i \in 1 .. 5 : ParseField(e[i], Ranges[i])

(* A stepped star counts from 0, a stepped range from its lower end.       *)
AtomMatches(atom, v) ==
  LET from == IF atom.star THEN 0 ELSE atom.lo
  IN  /\ atom.star \/ v \in atom.lo .. atom.hi
      /\ atom.stepped => (v - from) % atom.step = 0

(* All five fields count: a weekday does not stand in for a day of month.  *)
Match(e, t) ==
  \A i \in 1 .. 5 : \E k \in DOMAIN e[i] : AtomMatches(e[i][k], Calendar(t)[i])

(* The minutes Next tries that match. *)
Candidates(e, t) == {c \in t + 1 .. t + Window - 1 : Match(e, c)}

(* The first of them, or t itself. *)
CronNext(e, t) ==
  IF Candidates(e, t) = {} THEN t
  ELSE CHOOSE c \in Candidates(e, t) : \A d \in Candidates(e, t) : c <= d

----------------------------------------------------------------------------
Init ==
  /\ expr \in Exprs
  /\ clock \in 0 .. MaxTime
  /\ pc = "parse"
  /\ when = clock

(* A refused expression ends the node with the error. *)
Parse ==
  /\ pc = "parse"
  /\ pc' = IF ParseCron(expr) THEN "loop" ELSE "failed"
  /\ UNCHANGED <<expr, clock, when>>

Evaluate ==
  /\ pc = "loop"
  /\ when' = CronNext(expr, clock)
  /\ pc' = "sleep"
  /\ UNCHANGED <<expr, clock>>

Advance ==
  /\ clock < MaxTime
  /\ clock' = clock + 1
  /\ UNCHANGED <<expr, pc, when>>

(* The timer fires once the due time has come. *)
Fire ==
  /\ pc = "sleep" /\ clock >= when
  /\ pc' = "tick"
  /\ UNCHANGED <<expr, clock, when>>

(* runTick has returned. *)
Ticked ==
  /\ pc = "tick"
  /\ pc' = "loop"
  /\ UNCHANGED <<expr, clock, when>>

Next == Parse \/ Evaluate \/ Advance \/ Fire \/ Ticked

Spec == Init /\ [][Next]_vars

----------------------------------------------------------------------------
(* A node ticks for a minute its expression names (Cron.Next: the time it  *)
(* returns matches, and the line that returns another one is unreachable   *)
(* for valid expressions).                                                 *)
TicksWhenDue == pc = "tick" => Match(expr, when)
=============================================================================
