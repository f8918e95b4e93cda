------------------------------ MODULE FileOps ------------------------------
(***************************************************************************)
(* The file operations of internal/repository/system/file.go.  A file is a *)
(* sequence of tokens: words, and NL for a newline.  A line is a sequence  *)
(* of words, and a regular expression is the set of the words it finds.    *)
(***************************************************************************)
EXTENDS Integers, SequencesExt, FiniteSetsExt

CONSTANT NL

(* What the code answers with an error; the file stays as it was. *)
Error == <<"error">>

Split(text) ==
  FoldLeft(LAMBDA ls, t : IF t = NL THEN Append(ls, << >>)
                          ELSE [ls EXCEPT ![Len(ls)] = Append(@, t)], << << >> >>, text)

Join(lines) ==
  FlattenSeq([i \in DOMAIN lines |-> IF i < Len(lines) THEN Append(lines[i], NL) ELSE lines[i]])

TrimRight(text) ==
  SubSeq(text, 1, Max({0} \cup {i \in DOMAIN text : text[i] # NL}))

EndsLine(text) == text # << >> /\ Last(text) = NL

Matches(line, re) == \E i \in DOMAIN line : line[i] \in re

(* readLines: a missing file has no lines, and neither has an empty one. *)
ReadLines(file) == IF file = << >> THEN << >> ELSE Split(TrimRight(file))

WriteLines(lines) ==
  LET text == Join(lines) IN IF text = << >> THEN << >> ELSE Append(text, NL)

OpReplace(value) == value

(* appendContent: a newline is put before and after where it is missing. *)
AppendContent(file, content) ==
  LET out == IF file = << >> \/ EndsLine(file) THEN file ELSE Append(file, NL) IN
  IF content = << >> THEN out
  ELSE IF EndsLine(content) THEN out \o content ELSE Append(out \o content, NL)

OpRemove(file, re) ==
  WriteLines(SelectSeq(ReadLines(file), LAMBDA line : ~Matches(line, re)))

(* Mutant: the value is looked for with its newline. *)
EnsureWithNewline(file, value) ==
  IF value = << >> \/ Contains(ReadLines(file), Append(value, NL)) THEN file
  ELSE AppendContent(file, value)

OpEnsure(file, value) ==
  IF value = << >> \/ Contains(ReadLines(file), value) THEN file ELSE AppendContent(file, value)

(* Two writes: the lines that are kept, then those and the value. *)
OpSetProperty(file, re, value) == AppendContent(OpRemove(file, re), value)

(* splitValueLines *)
ValueLines(value) == Split(IF EndsLine(value) THEN Front(value) ELSE value)

InsertLines(lines, at, new) == SubSeq(lines, 1, at) \o new \o SubSeq(lines, at + 1, Len(lines))

(* Before or after the first line that matches; nothing when there is none. *)
OpInsert(file, re, value, after) ==
  LET lines == ReadLines(file)
      i == SelectInSeq(lines, LAMBDA line : Matches(line, re))
  IN IF value = << >> \/ i = 0 THEN file
     ELSE WriteLines(InsertLines(lines, IF after THEN i ELSE i - 1, ValueLines(value)))

(* The index of the first token from..Len(file) that re finds, or 0. *)
Find(file, re, from) == SelectInSubSeq(file, from, Len(file), LAMBDA t : t \in re)

(* consumeTrailingNewline *)
ConsumeNewline(file, last) == IF last < Len(file) /\ file[last + 1] = NL THEN last + 1 ELSE last

BlockLast(file, first, end) ==
  IF end = {} THEN first ELSE Find(file, end, first + 1)

Cut(file, first, last, value) ==
  SubSeq(file, 1, first - 1) \o value \o SubSeq(file, ConsumeNewline(file, last) + 1, Len(file))

OpReplaceBlock(file, start, end, value) ==
  LET first == Find(file, start, 1)
      last == BlockLast(file, first, end)
  IN IF first = 0 THEN file ELSE IF last = 0 THEN Error ELSE Cut(file, first, last, value)

(* appendContent reads the file again: the block is removed from it only   *)
(* when the marker is found.                                               *)
OpSetBlock(file, start, end, marker, value) ==
  LET first == Find(file, start, 1)
      last == BlockLast(file, first, end)
      rest == IF first = 0 THEN file ELSE Cut(file, first, last, << >>)
      m == Find(rest, marker, 1)
  IN IF value = << >> THEN file
     ELSE IF first # 0 /\ last = 0 THEN Error
     ELSE IF m = 0 THEN AppendContent(file, value)
     ELSE SubSeq(rest, 1, m - 1) \o (IF EndsLine(value) THEN value ELSE Append(value, NL))
            \o SubSeq(rest, m, Len(rest))
=============================================================================
