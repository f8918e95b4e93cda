------------------------------ MODULE Archives ------------------------------
(***************************************************************************)
(* The numbered archives of a log file (internal/repository/rotate.go):    *)
(* path.1, path.2, ... and their compressed forms path.1.gz, path.2.gz.    *)
(*                                                                         *)
(* A directory is a function from the names that exist to what the files   *)
(* hold.  A name is an index and an extension; the log itself has index 0. *)
(***************************************************************************)
EXTENDS Integers, Sequences, FiniteSets

Exts == {"", ".gz"}
Active == <<0, "">>
First == <<1, "">>
FirstGz == <<1, ".gz">>

(* The directory is scanned, so a gap in the indexes hides nothing. *)
Backups(d) == {s \in DOMAIN d : s[1] >= 1}

Without(d, gone) == [s \in DOMAIN d \ gone |-> d[s]]
With(d, s, content) == [t \in DOMAIN d \cup {s} |-> IF t = s THEN content ELSE d[t]]

(* The names that shiftBackups renames before it comes to name s: indexes  *)
(* from the highest down, the plain name before the compressed one.        *)
Before(d, s) ==
  {t \in Backups(d) : t[1] > s[1] \/ (t[1] = s[1] /\ t[2] = "" /\ s[2] = ".gz")}

Up(s) == <<s[1] + 1, s[2]>>
Down(s) == <<s[1] - 1, s[2]>>

(* The renames of moved, a set that Before yields, or all the backups. *)
Shifted(d, moved) ==
  [s \in (DOMAIN d \ moved) \cup {Up(t) : t \in moved} |->
     IF Down(s) \in moved THEN d[Down(s)] ELSE d[s]]

ShiftBackups(d) == Shifted(d, Backups(d))

(* Mutant: the archives are numbered upwards, the new one last. *)
RenameLast(d) ==
  LET last == CHOOSE i \in 1 .. Cardinality(DOMAIN d) : \A s \in Backups(d) : s[1] < i
  IN  With(Without(d, {Active}), <<last, "">>, d[Active])

(* os.Rename(path, path.1) after the shift. *)
ShiftAndRename(d) ==
  LET e == ShiftBackups(d) IN With(Without(e, {Active}), First, e[Active])

(* Mutant: one archive too few is kept. *)
ExcessOrEqual(d, maxBackups) ==
  IF maxBackups < 0 THEN {} ELSE {s \in Backups(d) : s[1] >= maxBackups}

(* The archives PruneBackups removes; none when the limit is negative. *)
Excess(d, maxBackups) ==
  IF maxBackups < 0 THEN {} ELSE {s \in Backups(d) : s[1] > maxBackups}

PruneBackups(d, maxBackups) == Without(d, Excess(d, maxBackups))

(* The last k elements; k = 0 keeps the file as it is. *)
KeepTail(content, k) ==
  IF k = 0 \/ Len(content) <= k THEN content
  ELSE SubSeq(content, Len(content) - k + 1, Len(content))
=============================================================================
