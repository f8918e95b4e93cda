----------------------------- MODULE Bootstrap -----------------------------
(***************************************************************************)
(* A container start that edits a file: a script with the verbs of         *)
(* ezx/editor, or a FileProvision rule with its operations, step by step.  *)
(* The container may be killed between two writes or in one, and started   *)
(* again on the file it left.                                              *)
(***************************************************************************)
EXTENDS EditorScope

CONSTANTS
  Programs,   \* what a start does: [steps, createOnly]
  Files,      \* the contents the file may have at first
  Blocks,     \* the scopes with markers that occur in them
  MaxStarts   \* bound on the starts of the container

ASSUME BootstrapAssumption == MaxStarts \in Nat /\ NL # "error"

VARIABLES
  prog,    \* the program; never changes
  file,    \* what the file holds
  exists,  \* the file is there
  pc,      \* the step that comes next
  state,   \* of the start: "idle", "running", "half" (set-property), "done", "failed", "torn"
  starts,  \* starts so far
  goal     \* what one undisturbed start makes of the first file

vars == <<prog, file, exists, pc, state, starts, goal>>

TypeOK ==
  /\ exists \in BOOLEAN
  /\ pc \in 1 .. Len(prog.steps) + 1
  /\ state \in {"idle", "running", "half", "done", "failed", "torn"}
  /\ starts \in 0 .. MaxStarts
  /\ file # Error

(* The verbs of a handle, and executeOperation. *)
Effect(step, text) ==
  CASE step.verb = "line"     -> Line(text, step.view, step.re, step.value)
    [] step.verb = "add"      -> Add(text, step.view, step.value)
    [] step.verb = "repeat"   -> Repeat(text, step.view, step.value)
    [] step.verb = "raw"      -> Raw(text, step.view, step.value)
    [] step.verb = "reset"    -> Reset(text, step.view)
    [] step.verb = "remove"   -> RemoveScope(text, step.view, step.re)
    [] step.verb = "wrap"     -> Wrap(text, step.view, step.child)
    [] step.verb = "section"  -> Section(text, step.view, step.child)
    [] step.verb = "fragment" -> Fragment(text, step.view, step.child, <<step.value>>, step.re)
    [] step.verb = "fragment-off" -> RemoveFragment(text, step.view, step.child)
    [] step.verb \in {"op-replace", "op-copy"} -> OpReplace(step.value)
    [] step.verb = "op-append" -> AppendContent(text, step.value)
    [] step.verb = "op-remove" -> OpRemove(text, step.re)
    [] step.verb = "op-ensure" -> OpEnsure(text, step.value)
    [] step.verb = "op-set-property"  -> OpSetProperty(text, step.re, step.value)
    [] step.verb = "op-insert-before" -> OpInsert(text, step.re, step.value, FALSE)
    [] step.verb = "op-insert-after"  -> OpInsert(text, step.re, step.value, TRUE)
    [] step.verb = "op-replace-block" -> OpReplaceBlock(text, step.re, step.end, step.value)
    [] step.verb = "op-set-block" -> OpSetBlock(text, step.re, step.end, step.marker, step.value)

(* The verbs that a script calls; the others are operations of a rule too. *)
Fluent == {"line", "add", "repeat", "raw", "reset", "remove", "wrap", "section", "fragment",
           "fragment-off"}

Undisturbed(steps, text) ==
  FoldLeft(LAMBDA t, step : IF t = Error THEN Error ELSE Effect(step, t), text, steps)

Init ==
  /\ prog \in Programs /\ file \in Files
  /\ exists \in {file # << >>, TRUE}
  /\ pc = 1 /\ state = "idle" /\ starts = 0
  /\ goal = IF prog.createOnly /\ exists THEN file ELSE Undisturbed(prog.steps, file)

Cur == prog.steps[pc]
Running == state = "running" /\ pc <= Len(prog.steps)

(* A CreateOnly rule leaves a file alone that is already there. *)
Start ==
  /\ state \in {"idle", "done", "failed"} /\ starts < MaxStarts
  /\ starts' = starts + 1
  /\ pc' = 1
  /\ state' = IF prog.createOnly /\ exists THEN "done" ELSE "running"
  /\ UNCHANGED <<prog, file, exists, goal>>

(* Operations that look for a match write nothing when the file is missing. *)
Writes == Cur.verb \notin {"op-insert-before", "op-insert-after", "op-replace-block"}

Perform ==
  /\ Running /\ Cur.verb # "op-set-property"
  /\ Effect(Cur, file) # Error
  /\ file' = Effect(Cur, file)
  /\ exists' = (exists \/ Writes)
  /\ pc' = pc + 1
  /\ UNCHANGED <<prog, state, starts, goal>>

(* opSetProperty writes what it keeps, then appends. *)
DropMatches ==
  /\ Running /\ Cur.verb = "op-set-property"
  /\ file' = OpRemove(file, Cur.re)
  /\ exists' = TRUE
  /\ state' = "half"
  /\ UNCHANGED <<prog, pc, starts, goal>>

AppendValue ==
  /\ state = "half"
  /\ file' = AppendContent(file, Cur.value)
  /\ pc' = pc + 1 /\ state' = "running"
  /\ UNCHANGED <<prog, exists, starts, goal>>

(* An error ends the script, or the rule, and the container. *)
Fail ==
  /\ Running /\ Effect(Cur, file) = Error
  /\ state' = "failed"
  /\ UNCHANGED <<prog, file, exists, pc, starts, goal>>

Finish ==
  /\ state = "running" /\ pc > Len(prog.steps)
  /\ state' = "done"
  /\ UNCHANGED <<prog, file, exists, pc, starts, goal>>

Crash ==
  /\ state \in {"running", "half"}
  /\ state' = "idle"
  /\ UNCHANGED <<prog, file, exists, pc, starts, goal>>

(* os.WriteFile truncates the file and then writes.  What the next start   *)
(* makes of such a file depends on where it was cut: it is not followed.   *)
Tear ==
  /\ Running /\ Effect(Cur, file) \notin {Error, file}
  /\ \E i \in 0 .. Len(Effect(Cur, file)) - 1 : file' = SubSeq(Effect(Cur, file), 1, i)
  /\ exists' = TRUE /\ state' = "torn"
  /\ UNCHANGED <<prog, pc, starts, goal>>

Next ==
  Start \/ Perform \/ DropMatches \/ AppendValue \/ Fail \/ Finish \/ Crash \/ Tear

Spec == Init /\ [][Next]_vars

----------------------------------------------------------------------------
(* Properties                                                              *)

Uses(verbs) == \E i \in DOMAIN prog.steps : prog.steps[i].verb \in verbs

(* Steps that are documented to add a line each time, and block operations *)
(* on a block or a marker that no earlier step has opened.                 *)
Opens(step) == IF step.verb = "wrap" THEN ToSet(step.child.frame) ELSE {}
Anchor(step) == IF step.verb = "op-set-block" THEN step.marker ELSE step.re

Accumulates ==
  \/ Uses({"repeat", "op-append", "op-insert-before", "op-insert-after"})
  \/ \E i \in DOMAIN prog.steps :
       /\ prog.steps[i].verb \in {"op-set-block", "op-replace-block"}
       /\ \A j \in 1 .. i - 1 : Opens(prog.steps[j]) \cap Anchor(prog.steps[i]) = {}

(* What clears comes before what builds (editor_scope.go:240-244).         *)
Clearing == {"raw", "reset", "remove", "fragment-off", "op-replace", "op-copy", "op-remove"}
Building == {"line", "add", "fragment", "op-ensure", "op-set-property", "op-set-block",
             "op-replace-block"}

ClearsFirst ==
  \A i, j \in DOMAIN prog.steps :
    prog.steps[i].verb \in Building /\ prog.steps[j].verb \in Clearing => j < i

LinesOf(text) == ToBag(ScopeLines(text))

(* However often the container was killed between two writes and started   *)
(* again, a start that completes leaves what one undisturbed start leaves: *)
(* the same file when the program uses in-place verbs only, the same lines *)
(* when it uses fragments or operations, which move lines to the end.      *)
Converges ==
  state = "done" /\ goal # Error /\ ~Accumulates /\ ClearsFirst /\ ~prog.createOnly =>
    /\ LinesOf(file) = LinesOf(goal)
    /\ ~Uses({"fragment"}) /\ (\A i \in DOMAIN prog.steps : prog.steps[i].verb \in Fluent) =>
         file = goal

Marks(lines, b) == {i \in DOMAIN lines : lines[i] \in {b.frame, b.close}}

(* Each block with markers of its own is there whole or not at all, and    *)
(* two blocks are disjoint or nested, whatever the verbs of one handle do  *)
(* inside the scope of another, between two steps and after a crash.       *)
RegionsNested ==
  state # "torn" =>
    LET lines == ScopeLines(file) IN
    /\ \A b \in Blocks : Marks(lines, b) # {} =>
         \E i, j \in DOMAIN lines :
           i < j /\ Marks(lines, b) = {i, j} /\ lines[i] = b.frame /\ lines[j] = b.close
    /\ \A b, c \in Blocks : b # c =>
         ~\E i, k \in Marks(lines, b), j, l \in Marks(lines, c) : i < j /\ j < k /\ k < l

----------------------------------------------------------------------------
(* What comments in the source say and the code does not keep: no run     *)
(* checks it; the README has the traces.                                   *)

Depth(lines, n) ==
  Cardinality({i \in 1 .. n : \E b \in Blocks : lines[i] = b.frame})
    - Cardinality({i \in 1 .. n : \E b \in Blocks : lines[i] = b.close})

(* A fluent verb never breaks the blocks of a block-structured file: every *)
(* opening line keeps a closing line (editor_scope.go:158-162).            *)
BlocksBalanced ==
  state # "torn" =>
    LET lines == ScopeLines(file) IN
    Depth(lines, Len(lines)) = 0 /\ \A n \in DOMAIN lines : Depth(lines, n) >= 0

(* SetBlock is idempotent (system/file.go:634-635): a second start does    *)
(* not add the block again.                                                *)
SetBlockIdempotent ==
  state = "done" /\ Uses({"op-set-block"}) => LinesOf(file) = LinesOf(goal)
=============================================================================
