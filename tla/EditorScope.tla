---------------------------- MODULE EditorScope ----------------------------
(***************************************************************************)
(* The fluent verbs of scripts (internal/script/editor_scope.go).  A handle *)
(* stands for a scope of the file: the whole file, or the lines between    *)
(* the first line that equals its frame and the first line after it that   *)
(* equals its closing marker.                                              *)
(***************************************************************************)
EXTENDS FileOps

Root == [frame |-> << >>, close |-> << >>]

(* readLines of the verbs drops one trailing newline only. *)
ScopeLines(file) ==
  IF file = << >> THEN << >>
  ELSE LET lines == Split(file) IN IF Last(lines) = << >> THEN Front(lines) ELSE lines

(* The index of the first such line from a position on, or 0. *)
IndexOfLine(lines, want, from) ==
  SelectInSubSeq(lines, from, Len(lines), LAMBDA line : line = want)

(* Mutant: the closing marker belongs to the scope. *)
BoundsWithMarker(lines, view) ==
  LET open == IndexOfLine(lines, view.frame, 1)
      close == IndexOfLine(lines, view.close, open + 1)
  IN IF view = Root THEN {[from |-> 0, to |-> Len(lines)]}
     ELSE IF open = 0 \/ close = 0 THEN {}
     ELSE {[from |-> open, to |-> close]}

(* scopeBounds: the lines from + 1 .. to; none when a marker is missing.   *)
Bounds(lines, view) ==
  LET open == IndexOfLine(lines, view.frame, 1)
      close == IndexOfLine(lines, view.close, open + 1)
  IN IF view = Root THEN {[from |-> 0, to |-> Len(lines)]}
     ELSE IF open = 0 \/ close = 0 THEN {}
     ELSE {[from |-> open, to |-> close - 1]}

(* A verb reads the lines, finds its scope b in them, and writes.           *)
InScope(lines, view, Verb(_, _)) ==
  IF Bounds(lines, view) = {} THEN Error
  ELSE Verb(lines, CHOOSE b \in Bounds(lines, view) : TRUE)

Edit(file, view, Verb(_, _)) == InScope(ScopeLines(file), view, Verb)

Body(lines, b) == SubSeq(lines, b.from + 1, b.to)

WithBody(lines, b, body) ==
  WriteLines(SubSeq(lines, 1, b.from) \o body \o SubSeq(lines, b.to + 1, Len(lines)))

(* appendInScope *)
AppendInScope(lines, b, line) == WriteLines(InsertLines(lines, b.to, <<line>>))

FirstMatch(lines, b, re) ==
  SelectInSubSeq(lines, b.from + 1, b.to, LAMBDA line : Matches(line, re))

(* Line, Property and Define: the first match is replaced where it is. *)
Line(file, view, re, new) ==
  Edit(file, view, LAMBDA lines, b :
    LET i == FirstMatch(lines, b, re) IN
    IF i = 0 THEN AppendInScope(lines, b, new) ELSE WriteLines([lines EXCEPT ![i] = new]))

Add(file, view, line) ==
  Edit(file, view, LAMBDA lines, b :
    IF Contains(Body(lines, b), line) THEN file ELSE AppendInScope(lines, b, line))

Repeat(file, view, line) ==
  Edit(file, view, LAMBDA lines, b : AppendInScope(lines, b, line))

Raw(file, view, text) ==
  Edit(file, view, LAMBDA lines, b :
    WithBody(lines, b, IF TrimRight(text) = << >> THEN << >> ELSE Split(TrimRight(text))))

Reset(file, view) == Edit(file, view, LAMBDA lines, b : WithBody(lines, b, << >>))

RemoveScope(file, view, re) ==
  Edit(file, view, LAMBDA lines, b :
    WithBody(lines, b, SelectSeq(Body(lines, b), LAMBDA line : ~Matches(line, re))))

(* The child's markers are looked for from one line on, past the scope's   *)
(* end too; when one of them is not there, both are put at the end.        *)
Open(file, view, child, From(_)) ==
  Edit(file, view, LAMBDA lines, b :
    IF 0 \in {IndexOfLine(lines, marker, From(b)) : marker \in {child.frame, child.close}}
    THEN WriteLines(InsertLines(lines, b.to, <<child.frame, child.close>>)) ELSE file)

Wrap(file, view, child) == Open(file, view, child, LAMBDA b : b.from + 1)

(* Section and SectionNamed look in the whole file. *)
Section(file, view, child) == Open(file, view, child, LAMBDA b : 1)

(* The fenced block of a fragment is removed, wherever it is. *)
Unfenced(lines, fence) ==
  LET first == IndexOfLine(lines, fence.frame, 1)
      last == IndexOfLine(lines, fence.close, 1)
  IN IF first = 0 \/ last < first THEN lines
     ELSE SubSeq(lines, 1, first - 1) \o SubSeq(lines, last + 1, Len(lines))

(* Then it is put after the first match in the scope, or at its end. *)
Fragment(file, view, fence, body, after) ==
  Edit(file, view, LAMBDA all, _b :
    InScope(Unfenced(all, fence), view, LAMBDA lines, b :
      LET i == FirstMatch(lines, b, after) IN
      WriteLines(InsertLines(lines, IF i = 0 THEN b.to ELSE i,
                             <<fence.frame>> \o body \o <<fence.close>>))))

RemoveFragment(file, view, fence) ==
  Edit(file, view, LAMBDA all, _b :
    InScope(Unfenced(all, fence), view, LAMBDA lines, b : WriteLines(lines)))
=============================================================================
