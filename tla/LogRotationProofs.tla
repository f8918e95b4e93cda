------------------------- MODULE LogRotationProofs -------------------------
(***************************************************************************)
(* What is proved of LogRotation for every set of logs, every              *)
(* configuration and every bound: the throttle of Rotator.Run loses no     *)
(* change it was told of but when it skips a pass; no chunk is lost but    *)
(* for those dropped on purpose, written to an archive or during a copy,   *)
(* or cut off when a tail is rewritten; the archives stay in the order     *)
(* they were written in; and only what exceeds the retention is dropped.   *)
(***************************************************************************)
EXTENDS LogRotation, TLAPS

(* due says for each log whether a crossing of its limit awaits a pass, or *)
(* the pass it brought was skipped.                                        *)
DueType == due \in [Logs -> {"no", "heard", "skipped"}]

WakeupInv == DueType /\ WakeupKept

(* What the process does: only a write brings a crossing, and it queues    *)
(* the event that tells of it; nothing it does takes an event back.        *)
LEMMA ProcessKeepsWakeup == ASSUME WakeupInv, Process PROVE WakeupInv'
<1> USE DEF WakeupInv, DueType, WakeupKept
<1>1. ASSUME NEW l \in cfg.files, Write(l) PROVE WakeupInv'
  <2>1. CASE ~(fd[l] = Active /\ watch = "dir" /\ Crossed(dir'[l]))
    <3>1. due' = due /\ events \subseteq events' /\ UNCHANGED <<overflow, armed, pc>>
      BY <1>1, <2>1 DEF Write, Heard
    <3> QED  BY <3>1
  <2>2. CASE fd[l] = Active /\ watch = "dir" /\ Crossed(dir'[l])
    <3>1. /\ due' = [due EXCEPT ![l] = "heard"] /\ events' = events \cup {l}
          /\ UNCHANGED <<overflow, armed, pc>>
      BY <1>1, <2>2 DEF Write, Heard
    <3> QED  BY <3>1
  <2> QED  BY <2>1, <2>2
<1>2. ASSUME NEW l \in cfg.files, Reopen(l) PROVE WakeupInv'
  <2>1. due' = due /\ events \subseteq events' /\ UNCHANGED <<overflow, armed, pc>>
    BY <1>2 DEF Reopen, Heard
  <2> QED  BY <2>1
<1>3. ASSUME StartProcess \/ Exits PROVE WakeupInv'
  <2>1. due' = due /\ events \subseteq events' /\ UNCHANGED <<overflow, armed, pc>>
    BY <1>3 DEF StartProcess, Exits, session, Heard
  <2> QED  BY <2>1
<1> QED  BY <1>1, <1>2, <1>3 DEF Process

(* What the session does: an event that is taken arms the timer, the timer,*)
(* an overflow and a poll lead to a pass, and the pass looks at every log  *)
(* or, without a process to signal, at none and is skipped.                *)
LEMMA SessionKeepsWakeup == ASSUME WakeupInv, Session PROVE WakeupInv'
<1> USE DEF WakeupInv, DueType, WakeupKept
<1>1. CASE StartRun
  BY <1>1 DEF StartRun
<1>2. ASSUME NEW e \in cfg.files \cup {Dir}, HandleEvent(e) PROVE WakeupInv'
  <2>1. /\ due' = due /\ UNCHANGED <<overflow, pc>>
        /\ events' = events \ {e}
        /\ armed' = (armed \/ Changed \/ e \in Logs)
    BY <1>2 DEF HandleEvent
  <2> QED  BY <2>1
<1>3. CASE TimerFires \/ Poll \/ HandleOverflow
  BY <1>3 DEF TimerFires, Poll, HandleOverflow, RotatePass
<1>4. CASE Resync \/ RemoveWatches
  BY <1>4 DEF Resync, RemoveWatches
<1>5. CASE Collect
  BY <1>5 DEF Collect
<1>6. CASE Rename \/ CopyActive \/ Truncate \/ SignalOnce \/ ReadTail \/ RewriteTail
           \/ Zip \/ Install \/ Remove \/ Prune
  <2>1. due' = due /\ UNCHANGED <<events, overflow, armed>>
    BY <1>6 DEF Rename, CopyActive, Truncate, SignalOnce, ReadTail, RewriteTail, Zip, Install,
       Remove, Prune, session
  <2>2. pc \notin {"start", "pass", "stopped"}
    BY <1>6 DEF Rename, CopyActive, Truncate, SignalOnce, ReadTail, RewriteTail, Zip, Install,
       Remove, Prune
  <2> QED  BY <2>1, <2>2
<1> QED  BY <1>1, <1>2, <1>3, <1>4, <1>5, <1>6 DEF Session, Phases

(* Rotator.Run: a write past the limit that a watch told of does not stay  *)
(* without a pass: until one has looked at the log, has been skipped       *)
(* because the process to signal was down (then nothing makes up for it),  *)
(* or the session has ended, an event, an overflow or the armed timer is   *)
(* there to bring it.                                                      *)
THEOREM NoChangeLost == Spec => []WakeupKept
<1>1. Init => WakeupInv
  BY DEF Init, WakeupInv, DueType, WakeupKept
<1>2. WakeupInv /\ [Next]_vars => WakeupInv'
  <2> SUFFICES ASSUME WakeupInv, [Next]_vars PROVE WakeupInv'
    OBVIOUS
  <2>1. CASE Process
    BY <2>1, ProcessKeepsWakeup
  <2>2. CASE Session
    BY <2>2, SessionKeepsWakeup
  <2>3. CASE MakeDir
    BY <2>3 DEF MakeDir, WakeupInv, DueType, WakeupKept
  <2>4. CASE Stop
    BY <2>4 DEF Stop, session, WakeupInv, DueType, WakeupKept
  <2>5. CASE DropEvents
    BY <2>5 DEF DropEvents, WakeupInv, DueType, WakeupKept
  <2>6. CASE Crash
    BY <2>6 DEF Crash, WakeupInv, DueType, WakeupKept
  <2>7. CASE UNCHANGED vars
    BY <2>7 DEF vars, session, WakeupInv, DueType, WakeupKept
  <2> QED  BY <2>1, <2>2, <2>3, <2>4, <2>5, <2>6, <2>7 DEF Next
<1>3. WakeupInv => WakeupKept
  BY DEF WakeupInv
<1> QED  BY <1>1, <1>2, <1>3, PTL DEF Spec

----------------------------------------------------------------------------
(* The contents of files, as sets of chunks.                               *)

(* A write adds its chunk to what the file holds. *)
LEMMA AppendElements ==
  ASSUME NEW c \in Seq(Nat), NEW n \in Nat
  PROVE  Append(c, n) \in Seq(Nat) /\ Elements(Append(c, n)) = Elements(c) \cup {n}
<1>1. /\ Len(Append(c, n)) = Len(c) + 1 /\ Append(c, n)[Len(c) + 1] = n
      /\ \A i \in 1 .. Len(c) : Append(c, n)[i] = c[i]
      /\ DOMAIN Append(c, n) = 1 .. Len(c) + 1 /\ DOMAIN c = 1 .. Len(c) /\ Len(c) \in Nat
  OBVIOUS
<1>2. Elements(Append(c, n)) \subseteq Elements(c) \cup {n}
  BY <1>1 DEF Elements
<1>3. \A x \in Elements(c) : x \in Elements(Append(c, n))
  BY <1>1 DEF Elements
<1>4. n \in Elements(Append(c, n))
  BY <1>1 DEF Elements
<1> QED  BY <1>2, <1>3, <1>4

(* A new or truncated file holds nothing. *)
LEMMA NoElements == << >> \in Seq(Nat) /\ Elements(<< >>) = {}
  BY DEF Elements

(* A part of a file holds no more than the file. *)
LEMMA SubElements ==
  ASSUME NEW c \in Seq(Nat), NEW i \in 1 .. Len(c) + 1, NEW j \in 0 .. Len(c)
  PROVE  SubSeq(c, i, j) \in Seq(Nat) /\ Elements(SubSeq(c, i, j)) \subseteq Elements(c)
<1>1. SubSeq(c, i, j) \in Seq(Nat)
  OBVIOUS
<1>2. \A k \in 1 .. Len(SubSeq(c, i, j)) : SubSeq(c, i, j)[k] = c[i + k - 1] /\ i + k - 1 \in 1 .. Len(c)
  OBVIOUS
<1> QED  BY <1>1, <1>2 DEF Elements

(* KeepTail keeps chunks of the file, and all of them when it keeps the file. *)
LEMMA TailElements ==
  ASSUME NEW c \in Seq(Nat), NEW k \in Nat
  PROVE  /\ KeepTail(c, k) \in Seq(Nat) /\ Elements(KeepTail(c, k)) \subseteq Elements(c)
         /\ KeepTail(c, 0) = c
<1>1. CASE k = 0 \/ Len(c) <= k
  BY <1>1 DEF KeepTail
<1>2. CASE ~(k = 0 \/ Len(c) <= k)
  <2>1. Len(c) - k + 1 \in 1 .. Len(c) + 1 /\ Len(c) \in 0 .. Len(c)
    BY <1>2
  <2> QED  BY <1>2, <2>1, SubElements DEF KeepTail
<1> QED  BY <1>1, <1>2

----------------------------------------------------------------------------
(* A directory of archives, and what its operations do to it.              *)

(* The names of the log and its archives: <<0, "">> is the log itself. *)
Names == {Active} \cup ((Nat \ {0}) \X Exts)

(* Not compressed. *)
Plain(s) == s[2] = ""

(* The names every pass uses: the log, path.1 and path.1.gz. *)
LEMMA FixedNames ==
  /\ Active[1] = 0 /\ First[1] = 1 /\ FirstGz[1] = 1
  /\ Plain(Active) /\ Plain(First) /\ ~Plain(FirstGz)
  /\ Active \in Names /\ First \in Names /\ FirstGz \in Names
<1>1. Active[1] = 0 /\ First[1] = 1 /\ FirstGz[1] = 1
  BY DEF Active, First, FirstGz
<1>2. Plain(Active) /\ Plain(First) /\ ~Plain(FirstGz)
  BY DEF Active, First, FirstGz, Plain
<1>3. 1 \in Nat \ {0}
  OBVIOUS
<1>4. First \in Names /\ FirstGz \in Names
  BY <1>3 DEF Names, First, FirstGz, Exts
<1> QED  BY <1>1, <1>2, <1>4 DEF Names

(* A removed file has none of the names. *)
LEMMA UnlinkedName ==
  /\ Unlinked \notin Names /\ Unlinked # Active /\ Unlinked # First /\ ~(Unlinked[1] >= 1)
<1>1. Unlinked[1] = -1
  BY DEF Unlinked
<1>2. \A s \in Names : s[1] >= 0
  <2>1. \A s \in (Nat \ {0}) \X Exts : s[1] \in Nat
    OBVIOUS
  <2> QED  BY <2>1, FixedNames DEF Names
<1> QED  BY <1>1, <1>2, FixedNames

(* A name is an index and an extension; only the log has index 0. *)
LEMMA NameParts ==
  ASSUME NEW s \in Names
  PROVE  /\ s[1] \in Nat
         /\ s[1] = 0 => s = Active
         /\ s[1] # 0 => s \in (Nat \ {0}) \X Exts
         /\ s[2] \in Exts /\ s = <<s[1], s[2]>>
<1>1. CASE s = Active
  <2>1. s[2] \in Exts /\ s = <<s[1], s[2]>>
    BY <1>1 DEF Active, Exts
  <2> QED  BY <1>1, <2>1, FixedNames
<1>2. CASE s \in (Nat \ {0}) \X Exts
  <2>1. s[1] \in Nat \ {0} /\ s[2] \in Exts /\ s = <<s[1], s[2]>>
    BY <1>2, Z3
  <2> QED  BY <1>2, <2>1
<1> QED  BY <1>1, <1>2 DEF Names

(* An index has one plain name and one compressed name. *)
LEMMA SameName ==
  ASSUME NEW s \in Names, NEW t \in Names, s[1] = t[1], Plain(s) <=> Plain(t)
  PROVE  s = t
<1>1. s[2] = t[2]
  BY NameParts DEF Plain, Exts
<1> QED  BY <1>1, NameParts

(* A map from such names to contents. *)
Directory(d) == DOMAIN d \subseteq Names /\ \A s \in DOMAIN d : d[s] \in Seq(Nat)

(* All chunks the files of a directory hold. *)
Contents(d) == UNION {Elements(d[s]) : s \in DOMAIN d}

(* What shiftBackups has renamed when it stops: the highest, and of one    *)
(* index the plain archive first.                                          *)
Top(d, moved) ==
  /\ moved \subseteq Backups(d)
  /\ \A s \in DOMAIN d, t \in moved : s[1] > t[1] => s \in moved
  /\ \A s \in DOMAIN d, t \in moved : s[1] = t[1] /\ Plain(s) => s \in moved

(* The loops of ShiftBackups leave no archive in the way of another: what is*)
(* still to be moved up lies above what is not.                             *)
LEMMA TopMoves ==
  ASSUME NEW d, Directory(d)
  PROVE  Top(d, Backups(d)) /\ \A s \in Backups(d) : Top(d, Before(d, s))
<1>1. \A s \in DOMAIN d : s[1] \in Nat /\ s[2] \in Exts
  BY NameParts DEF Directory
<1>2. Top(d, Backups(d))
  BY <1>1 DEF Top, Backups
<1>3. ASSUME NEW s \in Backups(d) PROVE Top(d, Before(d, s))
  <2>1. s[1] \in Nat /\ s[1] >= 1 /\ \A t \in DOMAIN d : t[1] \in Nat
    BY <1>1 DEF Backups
  <2> DEFINE B == Before(d, s)
  <2>2. \A t : t \in B <=> /\ t \in DOMAIN d /\ t[1] >= 1
                           /\ t[1] > s[1] \/ (t[1] = s[1] /\ Plain(t) /\ ~Plain(s))
    BY <1>1 DEF Before, Backups, Plain, Exts
  <2> HIDE DEF B
  <2>3. B \subseteq Backups(d)
    BY <2>2 DEF Backups
  <2>4. ASSUME NEW u \in DOMAIN d, NEW t \in B, u[1] > t[1] PROVE u \in B
    BY <2>1, <2>2, <2>4
  <2>5. ASSUME NEW u \in DOMAIN d, NEW t \in B, u[1] = t[1], Plain(u) PROVE u \in B
    BY <2>1, <2>2, <2>5
  <2>6. Top(d, B)
    BY <2>3, <2>4, <2>5 DEF Top
  <2> QED  BY <2>6 DEF B
<1> QED  BY <1>2, <1>3

(* No rename of a shift overwrites a file: every name keeps what it held.  *)
LEMMA ShiftedFiles ==
  ASSUME NEW d, Directory(d), NEW moved, Top(d, moved)
  PROVE  /\ \A s \in DOMAIN d \ moved : s \in DOMAIN Shifted(d, moved) /\ Shifted(d, moved)[s] = d[s]
         /\ \A s \in moved : Up(s) \in DOMAIN Shifted(d, moved) /\ Shifted(d, moved)[Up(s)] = d[s]
         /\ \A s \in DOMAIN Shifted(d, moved) :
              \/ s \in DOMAIN d \ moved
              \/ \E t \in moved : s = Up(t)
         /\ \A s \in moved : /\ s \in DOMAIN d /\ s[1] \in Nat \ {0} /\ s[2] \in Exts
                              /\ Up(s)[1] = s[1] + 1 /\ Up(s)[2] = s[2] /\ Up(s) \in Names
<1>1. \A s \in DOMAIN d : s \in Names
  BY DEF Directory
<1>2. ASSUME NEW s \in moved PROVE s \in DOMAIN d /\ s \in (Nat \ {0}) \X Exts
  <2>1. s \in DOMAIN d /\ s[1] >= 1
    BY DEF Top, Backups
  <2> QED  BY <1>1, <2>1, NameParts
<1>3. \A s \in moved : /\ s[1] \in Nat \ {0} /\ s[2] \in Exts /\ Down(Up(s)) = s
                       /\ Up(s)[1] = s[1] + 1 /\ Up(s)[2] = s[2] /\ Up(s) \in Names
  BY <1>2 DEF Down, Up, Names
<1>4. DOMAIN Shifted(d, moved) = (DOMAIN d \ moved) \cup {Up(t) : t \in moved}
  BY DEF Shifted
<1>5. ASSUME NEW s \in DOMAIN d \ moved PROVE Shifted(d, moved)[s] = d[s]
  <2>1. CASE Down(s) \in moved
    <3>1. s[1] - 1 = Down(s)[1]
      BY DEF Down
    <3>2. s[1] \in Nat
      BY <1>1, NameParts
    <3>3. s[1] > Down(s)[1]
      BY <3>1, <3>2
    <3> QED  BY <2>1, <3>3 DEF Top
  <2> QED  BY <2>1, <1>4 DEF Shifted
<1>6. ASSUME NEW s \in moved PROVE Shifted(d, moved)[Up(s)] = d[s]
  BY <1>3, <1>4 DEF Shifted
<1> QED  BY <1>2, <1>3, <1>4, <1>5, <1>6

(* A directory d whose archives have all moved up, with c under path.1.    *)
Renumbered(d, e, c) ==
  /\ First \in DOMAIN e /\ e[First] = c /\ FirstGz \notin DOMAIN e
  /\ \A s \in Backups(d) : Up(s) \in DOMAIN e /\ e[Up(s)] = d[s]
  /\ \A s \in DOMAIN e : s = First \/ s = Active \/ \E t \in Backups(d) : s = Up(t)

(* The backups are what the log itself is not. *)
LEMMA BackupsOf ==
  ASSUME NEW d, Directory(d)
  PROVE  /\ Active \notin Backups(d) /\ Backups(d) \subseteq DOMAIN d
         /\ \A s \in DOMAIN d : s \in Backups(d) \/ s = Active
         /\ \A s \in Backups(d) : s[1] \in Nat /\ s[1] >= 1
<1>1. \A s \in DOMAIN d : s[1] \in Nat /\ (s[1] = 0 => s = Active)
  BY NameParts DEF Directory
<1> QED  BY <1>1, FixedNames DEF Backups

(* ShiftAndRename moves every file up by one, the log to path.1. *)
LEMMA RenamedFiles ==
  ASSUME NEW d, Directory(d), Active \in DOMAIN d
  PROVE  /\ Directory(ShiftAndRename(d)) /\ Renumbered(d, ShiftAndRename(d), d[Active])
         /\ Active \notin DOMAIN ShiftAndRename(d)
<1> DEFINE f == Shifted(d, Backups(d))
           e == ShiftAndRename(d)
<1>1. Top(d, Backups(d)) /\ Active \notin Backups(d) /\ \A s \in DOMAIN d : s \in Backups(d) \/ s = Active
  BY TopMoves, BackupsOf
<1>2. /\ Active \in DOMAIN f /\ f[Active] = d[Active]
      /\ \A s \in Backups(d) : Up(s) \in DOMAIN f /\ f[Up(s)] = d[s]
      /\ \A s \in DOMAIN f : s = Active \/ \E t \in Backups(d) : s = Up(t)
      /\ \A s \in Backups(d) : s \in DOMAIN d /\ Up(s)[1] = s[1] + 1 /\ Up(s) \in Names
                              /\ s[1] \in Nat \ {0}
  BY <1>1, ShiftedFiles
<1> HIDE DEF f
<1>3. e = [t \in (DOMAIN f \ {Active}) \cup {First} |->
             IF t = First THEN f[Active] ELSE Without(f, {Active})[t]]
  BY DEF ShiftAndRename, ShiftBackups, With, Without, f
<1>4. /\ DOMAIN e = (DOMAIN f \ {Active}) \cup {First}
      /\ e[First] = d[Active]
      /\ \A t \in DOMAIN f \ {Active} : t # First => e[t] = f[t]
  BY <1>2, <1>3 DEF Without
<1>5. \A s \in Backups(d) : Up(s) # First /\ Up(s) # Active /\ Up(s) # FirstGz
  BY <1>2, FixedNames
<1>6. First # FirstGz /\ First # Active /\ FirstGz # Active
  BY FixedNames
<1> HIDE DEF e
<1>7. Renumbered(d, e, d[Active])
  BY <1>2, <1>4, <1>5, <1>6 DEF Renumbered
<1>8. Active \notin DOMAIN e
  BY <1>4, <1>6
<1>9. ASSUME NEW s \in DOMAIN e PROVE s \in Names /\ e[s] \in Seq(Nat)
  <2>1. CASE s = First
    BY <2>1, <1>4, FixedNames DEF Directory
  <2>2. CASE s # First
    <3>1. PICK t \in Backups(d) : s = Up(t)
      BY <1>2, <1>4, <2>2
    <3> QED  BY <1>2, <1>4, <2>2, <3>1 DEF Directory
  <2> QED  BY <2>1, <2>2
<1> QED  BY <1>7, <1>8, <1>9 DEF Directory, e

(* copyTruncate moves the archives up and leaves the log in place. *)
LEMMA CopiedFiles ==
  ASSUME NEW d, Directory(d), Active \in DOMAIN d, NEW c \in Seq(Nat)
  PROVE  /\ Directory(With(ShiftBackups(d), First, c)) /\ Renumbered(d, With(ShiftBackups(d), First, c), c)
         /\ Active \in DOMAIN With(ShiftBackups(d), First, c)
         /\ With(ShiftBackups(d), First, c)[Active] = d[Active]
<1> DEFINE f == Shifted(d, Backups(d))
           e == With(ShiftBackups(d), First, c)
<1>1. Top(d, Backups(d)) /\ Active \notin Backups(d) /\ \A s \in DOMAIN d : s \in Backups(d) \/ s = Active
  BY TopMoves, BackupsOf
<1>2. /\ Active \in DOMAIN f /\ f[Active] = d[Active]
      /\ \A s \in Backups(d) : Up(s) \in DOMAIN f /\ f[Up(s)] = d[s]
      /\ \A s \in DOMAIN f : s = Active \/ \E t \in Backups(d) : s = Up(t)
      /\ \A s \in Backups(d) : s \in DOMAIN d /\ Up(s)[1] = s[1] + 1 /\ Up(s) \in Names
                              /\ s[1] \in Nat \ {0}
  BY <1>1, ShiftedFiles
<1> HIDE DEF f
<1>3. e = [t \in DOMAIN f \cup {First} |-> IF t = First THEN c ELSE f[t]]
  BY DEF ShiftBackups, With, f
<1>4. /\ DOMAIN e = DOMAIN f \cup {First} /\ e[First] = c
      /\ \A t \in DOMAIN f : t # First => e[t] = f[t]
  BY <1>3
<1>5. \A s \in Backups(d) : Up(s) # First /\ Up(s) # Active /\ Up(s) # FirstGz
  BY <1>2, FixedNames
<1>6. First # FirstGz /\ First # Active /\ FirstGz # Active
  BY FixedNames
<1> HIDE DEF e
<1>7. Renumbered(d, e, c)
  BY <1>2, <1>4, <1>5, <1>6 DEF Renumbered
<1>8. Active \in DOMAIN e /\ e[Active] = d[Active]
  BY <1>2, <1>4, <1>6
<1>9. ASSUME NEW s \in DOMAIN e PROVE s \in Names /\ e[s] \in Seq(Nat)
  <2>1. CASE s = First
    BY <2>1, <1>4, FixedNames
  <2>2. CASE s = Active
    BY <1>8, <2>2, FixedNames DEF Directory
  <2>3. CASE s # First /\ s # Active
    <3>1. PICK t \in Backups(d) : s = Up(t)
      BY <1>2, <1>4, <2>3
    <3> QED  BY <1>2, <1>4, <2>3, <3>1 DEF Directory
  <2> QED  BY <2>1, <2>2, <2>3
<1> QED  BY <1>7, <1>8, <1>9 DEF Directory, e

(* A file that is written, or files that are removed: With, a change of one*)
(* file, and Without.                                                      *)
Put(d, e, s, c) ==
  /\ Directory(e) /\ DOMAIN e = DOMAIN d \cup {s} /\ e[s] = c
  /\ \A t \in DOMAIN d : t # s => e[t] = d[t]

Removed(d, e, gone) ==
  Directory(e) /\ DOMAIN e = DOMAIN d \ gone /\ \A t \in DOMAIN e : e[t] = d[t]

(* A file that is created or overwritten. *)
LEMMA WithFiles ==
  ASSUME NEW d, Directory(d), NEW c \in Seq(Nat), NEW s \in Names
  PROVE  Put(d, With(d, s, c), s, c)
  BY DEF Directory, With, Put

(* A file that is written in place. *)
LEMMA EditedFiles ==
  ASSUME NEW d, Directory(d), NEW c \in Seq(Nat), NEW s \in DOMAIN d
  PROVE  Put(d, [d EXCEPT ![s] = c], s, c)
  BY DEF Directory, Put

(* Files that are removed. *)
LEMMA WithoutFiles ==
  ASSUME NEW d, Directory(d), NEW gone
  PROVE  Removed(d, Without(d, gone), gone)
  BY DEF Directory, Without, Removed

----------------------------------------------------------------------------
(* No operation loses or invents a chunk.                                  *)

(* A chunk is in a directory when one of its files holds it. *)
LEMMA InContents ==
  ASSUME NEW d, NEW x
  PROVE  x \in Contents(d) <=> \E s \in DOMAIN d : x \in Elements(d[s])
  BY DEF Contents

(* Renaming archives loses nothing: the targets are free. *)
LEMMA ShiftedContents ==
  ASSUME NEW d, Directory(d), NEW moved, Top(d, moved)
  PROVE  /\ Directory(Shifted(d, moved)) /\ Contents(Shifted(d, moved)) = Contents(d)
         /\ Active \in DOMAIN d => /\ Active \in DOMAIN Shifted(d, moved)
                                  /\ Shifted(d, moved)[Active] = d[Active]
<1> DEFINE e == Shifted(d, moved)
<1>1. /\ \A s \in DOMAIN d \ moved : s \in DOMAIN e /\ e[s] = d[s]
      /\ \A s \in moved : Up(s) \in DOMAIN e /\ e[Up(s)] = d[s] /\ s \in DOMAIN d /\ Up(s) \in Names
      /\ \A s \in DOMAIN e : s \in DOMAIN d \ moved \/ \E t \in moved : s = Up(t)
  BY ShiftedFiles
<1>2. Active \notin moved
  BY BackupsOf DEF Top
<1> HIDE DEF e
<1>3. Directory(e)
  BY <1>1 DEF Directory
<1>4. ASSUME NEW x PROVE x \in Contents(e) <=> x \in Contents(d)
  BY <1>1, InContents
<1>5. Contents(e) = Contents(d)
  BY <1>4
<1> QED  BY <1>1, <1>2, <1>3, <1>5 DEF e

(* Making path.1 from the log loses nothing and adds nothing. *)
LEMMA RenumberedContents ==
  ASSUME NEW d, Directory(d), Active \in DOMAIN d, NEW e, NEW c, Renumbered(d, e, c),
         Elements(c) \subseteq Elements(d[Active]),
         \/ Active \in DOMAIN e /\ e[Active] = d[Active]
         \/ Active \notin DOMAIN e /\ c = d[Active]
  PROVE  Contents(e) = Contents(d)
<1>1. /\ \A s \in DOMAIN d : s \in Backups(d) \/ s = Active
      /\ Backups(d) \subseteq DOMAIN d
  BY BackupsOf
<1>2. ASSUME NEW x PROVE x \in Contents(e) <=> x \in Contents(d)
  <2>1. ASSUME NEW s \in DOMAIN d, x \in Elements(d[s]) PROVE x \in Contents(e)
    BY <1>1, <2>1, InContents DEF Renumbered
  <2>2. ASSUME NEW s \in DOMAIN e, x \in Elements(e[s]) PROVE x \in Contents(d)
    BY <1>1, <2>2, InContents DEF Renumbered
  <2> QED  BY <2>1, <2>2, InContents
<1> QED  BY <1>2

(* Writing one file changes what that file holds and no more. *)
LEMMA PutContents ==
  ASSUME NEW d, NEW e, NEW s, NEW c, Put(d, e, s, c)
  PROVE  /\ Contents(e) \subseteq Contents(d) \cup Elements(c) /\ Elements(c) \subseteq Contents(e)
         /\ s \in DOMAIN d => Contents(d) \subseteq Contents(e) \cup Elements(d[s])
         /\ s \notin DOMAIN d => Contents(d) \subseteq Contents(e)
<1>1. ASSUME NEW x
      PROVE  /\ x \in Contents(e) => x \in Contents(d) \/ x \in Elements(c)
             /\ x \in Elements(c) => x \in Contents(e)
             /\ x \in Contents(d) => \/ x \in Contents(e)
                                     \/ s \in DOMAIN d /\ x \in Elements(d[s])
  BY InContents DEF Put
<1> QED  BY <1>1

(* Removing files loses what only they held. *)
LEMMA RemovedContents ==
  ASSUME NEW d, NEW e, NEW gone, Removed(d, e, gone)
  PROVE  /\ Contents(e) \subseteq Contents(d)
         /\ \A x \in Contents(d) : x \in Contents(e) \/ \E t \in gone \cap DOMAIN d : x \in Elements(d[t])
<1>1. ASSUME NEW x
      PROVE  /\ x \in Contents(e) => x \in Contents(d)
             /\ x \in Contents(d) => \/ x \in Contents(e)
                                     \/ \E t \in gone \cap DOMAIN d : x \in Elements(d[t])
  BY InContents DEF Removed
<1> QED  BY <1>1

----------------------------------------------------------------------------
(* The archives of a log that is rotated by renames keep its order.        *)

Older(A, B) == \A m \in A, n \in B : m < n

(* A higher index is older, or its file is one of which a compression that *)
(* was cut short has left the copy at the lower index; of one index the    *)
(* compressed archive is a copy of the plain one.                          *)
Aged(d) ==
  /\ \A s, t \in DOMAIN d : s[1] > t[1] =>
       \/ Older(Elements(d[s]), Elements(d[t]))
       \/ t # Active /\ Elements(d[t]) \subseteq Elements(d[s])
  /\ \A s, t \in DOMAIN d : s[1] = t[1] /\ Plain(s) => Elements(d[t]) \subseteq Elements(d[s])

(* What index 1 holds is younger than all above it: it is no copy.         *)
Young(d) == \A s, t \in DOMAIN d : s[1] > 1 /\ t[1] = 1 => Older(Elements(d[s]), Elements(d[t]))

(* Archives that move up together stay in order. *)
LEMMA ShiftedAged ==
  ASSUME NEW d, Directory(d), Aged(d), NEW moved, Top(d, moved)
  PROVE  Aged(Shifted(d, moved))
<1> DEFINE e == Shifted(d, moved)
<1>1. /\ \A s \in DOMAIN d \ moved : s \in DOMAIN e /\ e[s] = d[s]
      /\ \A s \in moved : /\ Up(s) \in DOMAIN e /\ e[Up(s)] = d[s] /\ s \in DOMAIN d
                           /\ Up(s)[1] = s[1] + 1 /\ Up(s)[2] = s[2]
      /\ \A s \in DOMAIN e : s \in DOMAIN d \ moved \/ \E t \in moved : s = Up(t)
  BY ShiftedFiles
<1> HIDE DEF e
<1>2. \A s \in DOMAIN d : s \in Names /\ s[1] \in Nat
  BY NameParts DEF Directory
<1>3. ASSUME NEW s \in DOMAIN e
      PROVE  \E o \in DOMAIN d : /\ e[s] = d[o] /\ (Plain(s) <=> Plain(o))
                                /\ \/ o \in moved /\ s[1] = o[1] + 1 /\ s # Active
                                   \/ o \notin moved /\ s = o
  <2>1. CASE s \in DOMAIN d \ moved
    BY <1>1, <2>1
  <2>2. ASSUME NEW o \in moved, s = Up(o)
        PROVE  \E q \in DOMAIN d : /\ e[s] = d[q] /\ (Plain(s) <=> Plain(q))
                                  /\ q \in moved /\ s[1] = q[1] + 1 /\ s # Active
    <3>1. o \in DOMAIN d /\ e[s] = d[o] /\ (Plain(s) <=> Plain(o)) /\ s[1] = o[1] + 1
      BY <1>1, <2>2 DEF Plain
    <3>2. s # Active
      BY <1>2, <3>1, FixedNames
    <3> QED  BY <3>1, <3>2
  <2> QED  BY <1>1, <2>1, <2>2
<1>4. ASSUME NEW s \in DOMAIN d, NEW t \in DOMAIN d, s \in moved, t \notin moved
      PROVE  /\ s[1] >= t[1] /\ s # Active
             /\ s[1] = t[1] => Plain(s)
  <2>1. s[1] >= t[1]
    BY <1>2, <1>4 DEF Top
  <2>2. ASSUME s[1] = t[1], ~Plain(s) PROVE FALSE
    <3>1. ~Plain(t)
      BY <1>4, <2>2 DEF Top
    <3>2. s = t
      BY <1>2, <2>2, <3>1, SameName
    <3> QED  BY <1>4, <3>2
  <2>3. s # Active
    BY <1>4, BackupsOf DEF Top
  <2> QED  BY <2>1, <2>2, <2>3
<1>5. ASSUME NEW s \in DOMAIN e, NEW t \in DOMAIN e, s[1] > t[1]
      PROVE  \/ Older(Elements(e[s]), Elements(e[t]))
             \/ t # Active /\ Elements(e[t]) \subseteq Elements(e[s])
  <2>1. PICK o \in DOMAIN d : /\ e[s] = d[o] /\ (Plain(s) <=> Plain(o))
                             /\ \/ o \in moved /\ s[1] = o[1] + 1 /\ s # Active
                                \/ o \notin moved /\ s = o
    BY <1>3
  <2>2. PICK q \in DOMAIN d : /\ e[t] = d[q] /\ (Plain(t) <=> Plain(q))
                             /\ \/ q \in moved /\ t[1] = q[1] + 1 /\ t # Active
                                \/ q \notin moved /\ t = q
    BY <1>3
  <2>3. o[1] \in Nat /\ q[1] \in Nat
    BY <1>2
  <2>4. o[1] > q[1] \/ (o[1] = q[1] /\ o \in moved /\ q \notin moved)
    BY <1>4, <1>5, <2>1, <2>2, <2>3
  <2>5. CASE o[1] > q[1]
    <3>1. \/ Older(Elements(d[o]), Elements(d[q]))
          \/ q # Active /\ Elements(d[q]) \subseteq Elements(d[o])
      BY <2>5 DEF Aged
    <3>2. t = Active => q = Active
      BY <2>2
    <3> QED  BY <2>1, <2>2, <3>1, <3>2
  <2>6. CASE o[1] = q[1] /\ o \in moved /\ q \notin moved
    <3>1. Plain(o) /\ o # Active
      BY <1>4, <2>6
    <3>2. Elements(d[q]) \subseteq Elements(d[o])
      BY <2>6, <3>1 DEF Aged
    <3>3. q # Active
      <4>1. o[1] # 0
        BY <1>2, <3>1, NameParts
      <4> QED  BY <2>6, <4>1, FixedNames
    <3> QED  BY <2>1, <2>2, <2>6, <3>2, <3>3
  <2> QED  BY <2>4, <2>5, <2>6
<1>6. ASSUME NEW s \in DOMAIN e, NEW t \in DOMAIN e, s[1] = t[1], Plain(s)
      PROVE  Elements(e[t]) \subseteq Elements(e[s])
  <2>1. PICK o \in DOMAIN d : /\ e[s] = d[o] /\ (Plain(s) <=> Plain(o))
                             /\ \/ o \in moved /\ s[1] = o[1] + 1 /\ s # Active
                                \/ o \notin moved /\ s = o
    BY <1>3
  <2>2. PICK q \in DOMAIN d : /\ e[t] = d[q] /\ (Plain(t) <=> Plain(q))
                             /\ \/ q \in moved /\ t[1] = q[1] + 1 /\ t # Active
                                \/ q \notin moved /\ t = q
    BY <1>3
  <2>3. o[1] \in Nat /\ q[1] \in Nat
    BY <1>2
  <2>4. o[1] = q[1]
    BY <1>4, <1>6, <2>1, <2>2, <2>3
  <2> QED  BY <1>6, <2>1, <2>2, <2>4 DEF Aged
<1> QED  BY <1>5, <1>6 DEF Aged, e

(* The log, which is younger than every archive, becomes path.1.           *)
LEMMA RenamedAged ==
  ASSUME NEW d, Directory(d), Aged(d), Active \in DOMAIN d, NEW e,
         Renumbered(d, e, d[Active]), Active \notin DOMAIN e
  PROVE  Aged(e) /\ Young(e)
<1>1. \A s \in Backups(d) : s \in DOMAIN d /\ s \in Names /\ s[1] \in Nat /\ s[1] >= 1
  BY BackupsOf DEF Directory
<1>2. \A s \in Backups(d) : Up(s)[1] = s[1] + 1 /\ (Plain(Up(s)) <=> Plain(s))
  BY <1>1 DEF Up, Plain
<1>3. ASSUME NEW s \in DOMAIN e
      PROVE  \/ s = First /\ e[s] = d[Active] /\ s[1] = 1
             \/ \E o \in DOMAIN d : /\ e[s] = d[o] /\ (Plain(s) <=> Plain(o)) /\ o[1] \in Nat
                                   /\ o[1] >= 1 /\ s[1] = o[1] + 1
  BY <1>1, <1>2, <1>3, FixedNames DEF Renumbered
<1>4. \A o \in DOMAIN d : o[1] \in Nat /\ o[1] >= 1 => Older(Elements(d[o]), Elements(d[Active]))
  BY FixedNames DEF Aged
<1>5. ASSUME NEW s \in DOMAIN e, NEW t \in DOMAIN e, s[1] > t[1]
      PROVE  /\ \/ Older(Elements(e[s]), Elements(e[t]))
                \/ t # Active /\ Elements(e[t]) \subseteq Elements(e[s])
             /\ t[1] = 1 => Older(Elements(e[s]), Elements(e[t]))
  <2>1. PICK o \in DOMAIN d : /\ e[s] = d[o] /\ o[1] \in Nat /\ o[1] >= 1 /\ s[1] = o[1] + 1
    BY <1>3, <1>5
  <2>2. CASE t = First
    <3>1. e[t] = d[Active] /\ t # Active
      BY <2>2, FixedNames DEF Renumbered
    <3>2. Older(Elements(d[o]), Elements(d[Active]))
      BY <1>4, <2>1
    <3> QED  BY <2>1, <3>1, <3>2
  <2>3. CASE t # First
    <3>1. PICK q \in DOMAIN d : /\ e[t] = d[q] /\ q[1] \in Nat /\ q[1] >= 1 /\ t[1] = q[1] + 1
      BY <1>3, <2>3
    <3>2. o[1] > q[1] /\ t[1] # 1
      BY <1>5, <2>1, <3>1
    <3> QED  BY <2>1, <3>1, <3>2 DEF Aged
  <2> QED  BY <2>2, <2>3
<1>6. ASSUME NEW s \in DOMAIN e, NEW t \in DOMAIN e, s[1] = t[1], Plain(s)
      PROVE  Elements(e[t]) \subseteq Elements(e[s])
  <2>1. CASE s = First /\ t = First
    BY <2>1
  <2>2. CASE s # First /\ t # First
    <3>1. PICK o \in DOMAIN d : /\ e[s] = d[o] /\ (Plain(s) <=> Plain(o)) /\ o[1] \in Nat
                               /\ s[1] = o[1] + 1
      BY <1>3, <2>2
    <3>2. PICK q \in DOMAIN d : e[t] = d[q] /\ q[1] \in Nat /\ t[1] = q[1] + 1
      BY <1>3, <2>2
    <3>3. o[1] \in Nat /\ q[1] \in Nat /\ o[1] + 1 = q[1] + 1
      BY <1>6, <3>1, <3>2
    <3>4. o[1] = q[1]
      BY <3>3
    <3> QED  BY <1>6, <3>1, <3>2, <3>4 DEF Aged
  <2>3. CASE s = First /\ t # First
    BY <1>3, <1>6, <2>3, FixedNames
  <2>4. CASE s # First /\ t = First
    BY <1>3, <1>6, <2>4, FixedNames
  <2> QED  BY <2>1, <2>2, <2>3, <2>4
<1>7. Aged(e)
  BY <1>5, <1>6 DEF Aged
<1>8. Young(e)
  <2>1. \A s, t \in DOMAIN e : s[1] > 1 /\ t[1] = 1 => s[1] > t[1]
    OBVIOUS
  <2> QED  BY <1>5, <2>1 DEF Young
<1> QED  BY <1>7, <1>8

(* Removing files, and opening the log anew. *)
LEMMA FewerAged ==
  ASSUME NEW d, NEW e, DOMAIN e \subseteq DOMAIN d, \A s \in DOMAIN e : e[s] = d[s]
  PROVE  (Aged(d) => Aged(e)) /\ (Young(d) => Young(e))
  BY DEF Aged, Young

(* A process that opens a new log file leaves the archives in order. *)
LEMMA OpenedAged ==
  ASSUME NEW d, Directory(d), Active \notin DOMAIN d, NEW e, Put(d, e, Active, << >>)
  PROVE  (Aged(d) => Aged(e)) /\ (Young(d) => Young(e))
<1>1. Elements(e[Active]) = {} /\ DOMAIN e = DOMAIN d \cup {Active}
  BY NoElements DEF Put
<1>2. \A t \in DOMAIN d : t[1] \in Nat /\ t[1] # 0 /\ t # Active /\ e[t] = d[t]
  BY NameParts DEF Directory, Put
<1>3. Aged(d) => Aged(e)
  BY <1>1, <1>2, FixedNames DEF Aged, Older
<1>4. Young(d) => Young(e)
  BY <1>1, <1>2, FixedNames DEF Young
<1> QED  BY <1>3, <1>4

(* A chunk younger than all is appended to the log, or to path.1 while the *)
(* log is not there.                                                       *)
LEMMA AppendedAged ==
  ASSUME NEW d, Directory(d), Aged(d), NEW n \in Nat, NEW s \in DOMAIN d,
         \A m \in Contents(d) : m \in Nat /\ m < n,
         s = Active \/ (s = First /\ Active \notin DOMAIN d /\ Young(d)),
         NEW e, Put(d, e, s, Append(d[s], n))
  PROVE  Aged(e) /\ (Young(d) => Young(e))
<1>1. /\ DOMAIN e = DOMAIN d /\ \A t \in DOMAIN d : t # s => e[t] = d[t]
      /\ Elements(e[s]) = Elements(d[s]) \cup {n}
  BY AppendElements DEF Directory, Put
<1>2. \A t \in DOMAIN d : /\ t \in Names /\ t[1] \in Nat /\ (t[1] = 0 => t = Active)
                        /\ \A m \in Elements(d[t]) : m < n
  BY NameParts, InContents DEF Directory
<1>3. \A t \in DOMAIN d : t[1] > s[1] => Older(Elements(d[t]), Elements(d[s]))
  BY <1>2, FixedNames DEF Aged, Young
<1>4. \A t \in DOMAIN d : t[1] > s[1] => Older(Elements(e[t]), Elements(e[s]))
  BY <1>1, <1>2, <1>3 DEF Older
<1>5. \A t \in DOMAIN d : ~(s[1] > t[1])
  BY <1>2, FixedNames
<1>6. ASSUME NEW x \in DOMAIN e, NEW t \in DOMAIN e, x[1] > t[1]
      PROVE  \/ Older(Elements(e[x]), Elements(e[t]))
             \/ t # Active /\ Elements(e[t]) \subseteq Elements(e[x])
  BY <1>1, <1>4, <1>5, <1>6 DEF Aged
<1>7. ASSUME NEW x \in DOMAIN e, NEW t \in DOMAIN e, x[1] = t[1], Plain(x)
      PROVE  Elements(e[t]) \subseteq Elements(e[x])
  <2>1. CASE t = s
    <3>1. x = s
      BY <1>1, <1>2, <1>7, <2>1, FixedNames, SameName
    <3> QED  BY <2>1, <3>1
  <2>2. CASE t # s
    BY <1>1, <1>7, <2>2 DEF Aged
  <2> QED  BY <2>1, <2>2
<1>8. ASSUME Young(d) PROVE Young(e)
  BY <1>1, <1>4, <1>5, <1>8 DEF Young
<1> QED  BY <1>6, <1>7, <1>8 DEF Aged

(* path.1 loses its head, or is compressed beside itself. *)
LEMMA RewrittenAged ==
  ASSUME NEW d, Directory(d), Aged(d), Young(d), First \in DOMAIN d, FirstGz \notin DOMAIN d,
         NEW c, Elements(c) \subseteq Elements(d[First]),
         NEW e, NEW s, s = First \/ s = FirstGz, Put(d, e, s, c)
  PROVE  Aged(e) /\ Young(e)
<1>1. \A t \in DOMAIN d : /\ t \in Names /\ t[1] \in Nat /\ (t[1] = 0 => t = Active)
                        /\ (t[1] = 1 => t = First)
  <2>1. ASSUME NEW t \in DOMAIN d, t[1] = 1 PROVE t = First
    <3>1. t \in Names /\ t # FirstGz
      BY DEF Directory
    <3> QED  BY <2>1, <3>1, FixedNames, SameName
  <2> QED  BY <2>1, NameParts DEF Directory
<1>2. /\ s[1] = 1 /\ s \in DOMAIN e /\ DOMAIN e = DOMAIN d \cup {s} /\ e[s] = c
      /\ \A t \in DOMAIN d : t # s => e[t] = d[t]
  BY FixedNames DEF Put
<1>3. Aged(e) /\ Young(e)
  <2>0. /\ \A t \in DOMAIN e : t[1] \in Nat /\ (t[1] = 0 => t = Active) /\ (t # s => t \in DOMAIN d)
        /\ \A t \in DOMAIN e : t[1] > 1 => t # s /\ t # First
        /\ s # Active
    BY <1>1, <1>2, FixedNames
  <2>1. \A t \in DOMAIN e : t[1] > 1 => Older(Elements(e[t]), Elements(e[s]))
    <3>1. ASSUME NEW t \in DOMAIN e, t[1] > 1 PROVE Older(Elements(e[t]), Elements(e[s]))
      <4>1. t \in DOMAIN d /\ e[t] = d[t]
        BY <1>2, <2>0, <3>1
      <4>2. Older(Elements(d[t]), Elements(d[First]))
        BY <3>1, <4>1, FixedNames DEF Young
      <4> QED  BY <1>2, <4>1, <4>2 DEF Older
    <3> QED  BY <3>1
  <2>2. ASSUME NEW t \in DOMAIN d, t[1] = 0 PROVE Older(Elements(e[s]), Elements(e[t]))
    <3>1. t = Active /\ e[t] = d[t]
      BY <1>1, <1>2, <2>0, <2>2
    <3>2. Older(Elements(d[First]), Elements(d[t]))
      <4>1. First[1] > t[1]
        BY <2>2, FixedNames
      <4> QED  BY <3>1, <4>1 DEF Aged
    <3> QED  BY <1>2, <3>1, <3>2 DEF Older
  <2>3. ASSUME NEW x \in DOMAIN e, NEW t \in DOMAIN e, x[1] > t[1]
        PROVE  \/ Older(Elements(e[x]), Elements(e[t]))
               \/ t # Active /\ Elements(e[t]) \subseteq Elements(e[x])
    <3>1. CASE t = s
      BY <1>2, <2>1, <2>3, <3>1
    <3>2. CASE x = s
      <4>1. t[1] = 0 /\ t \in DOMAIN d
        BY <1>2, <2>0, <2>3, <3>2
      <4> QED  BY <2>2, <3>2, <4>1
    <3>3. CASE x # s /\ t # s
      BY <1>2, <2>3, <3>3 DEF Aged
    <3> QED  BY <3>1, <3>2, <3>3
  <2>4. ASSUME NEW x \in DOMAIN e, NEW t \in DOMAIN e, x[1] = t[1], Plain(x)
        PROVE  Elements(e[t]) \subseteq Elements(e[x])
    <3>1. CASE x # s /\ t # s
      BY <1>2, <2>4, <3>1 DEF Aged
    <3>2. CASE t = s
      <4>1. x[1] = 1 /\ (x = s \/ x = First)
        BY <1>1, <1>2, <2>0, <2>4, <3>2
      <4> QED  BY <1>2, <3>2, <4>1
    <3>3. CASE x = s /\ t # s
      <4>1. t = First /\ s = First
        BY <1>1, <1>2, <2>0, <2>4, <3>3, FixedNames
      <4> QED  BY <3>3, <4>1
    <3> QED  BY <3>1, <3>2, <3>3
  <2>5. Young(e)
    <3>1. ASSUME NEW x \in DOMAIN e, NEW t \in DOMAIN e, x[1] > 1, t[1] = 1
          PROVE  Older(Elements(e[x]), Elements(e[t]))
      BY <1>2, <2>0, <2>1, <3>1 DEF Young
    <3> QED  BY <3>1 DEF Young
  <2> QED  BY <2>3, <2>4, <2>5 DEF Aged
<1> QED  BY <1>3

----------------------------------------------------------------------------
(* The inductive invariant of the rotation.                                *)

Phase3 == {"tail", "retail", "zip", "install", "remove", "prune"}
Idle == {"start", "select", "pass", "resync", "rewatch", "readd", "stopped"}

(* The types, and the positions the pass can be at. *)
Types ==
  /\ cfg \in Configs
  /\ DOMAIN dir = Logs /\ \A l \in Logs : Directory(dir[l])
  /\ fd \in [Logs -> Names \cup {Unlinked}]
  /\ written \in Nat /\ faults \in Nat
  /\ todo \subseteq Logs /\ rotated \subseteq Logs
  /\ buffer \in Seq(Nat)
  /\ after \in {"select", "resync", "rewatch"}
  /\ pc \in Idle \cup {"rename", "truncate", "signal"} \cup Phase3

(* The logs whose path.1 is the archive of this pass. *)
Fresh ==
  {l \in Logs : \/ pc \in {"rename", "truncate", "signal"} /\ l \in rotated
                \/ pc = "truncate" /\ l = Cur
                \/ pc \in Phase3 /\ l \in todo}

(* What the position in the pass says: which log is at hand, that a crossed*)
(* log is there until it is rotated, and that only some configurations     *)
(* rewrite or compress.                                                    *)
Position ==
  /\ pc \in {"rename", "truncate"} \cup Phase3 => todo # {}
  /\ pc \in {"rename", "truncate"} =>
       todo \cap rotated = {} /\ \A l \in todo : Active \in DOMAIN dir[l]
  /\ pc = "truncate" => cfg.reopen = "copytruncate"
  /\ pc \in Phase3 \ {"prune"} => Lossy

(* path.1 is plain until its compressed copy is in place. *)
Archived(l) ==
  l \in Fresh =>
    /\ First \in DOMAIN dir[l] \/ (pc = "prune" /\ l = Cur)
    /\ FirstGz \notin DOMAIN dir[l] \/ (pc \in {"remove", "prune"} /\ l = Cur)

(* What a copy lacks was dropped on purpose or written behind its back. *)
Copies ==
  /\ pc = "truncate" =>
       Elements(dir[Cur][Active]) \subseteq Elements(dir[Cur][First]) \cup expired \cup risky
  /\ pc = "retail" =>
       /\ Elements(buffer) \subseteq Elements(dir[Cur][First])
       /\ Elements(dir[Cur][First]) \subseteq Elements(buffer) \cup expired \cup risky
  /\ pc = "install" =>
       /\ Elements(buffer) \subseteq Elements(dir[Cur][First])
       /\ Elements(dir[Cur][First]) \subseteq Elements(buffer) \cup risky
  /\ pc = "remove" =>
       /\ FirstGz \in DOMAIN dir[Cur]
       /\ Elements(dir[Cur][First]) \subseteq Elements(dir[Cur][FirstGz]) \cup risky

(* The file that the process has open. *)
Open(l) ==
  /\ fd[l] = Active => Active \in DOMAIN dir[l]
  /\ cfg.reopen = "signal" =>
       /\ fd[l] \in {Active, First, Unlinked}
       /\ fd[l] = First => Active \notin DOMAIN dir[l]
       /\ ~Lossy /\ up /\ l \in cfg.files => fd[l] \in DOMAIN dir[l]

(* With reopening on a signal the archives are in the order of their       *)
(* numbers, and all of path.1 is younger than the others while the pass    *)
(* rewrites it or the process still writes to it.                          *)
Order(l) ==
  cfg.reopen = "signal" =>
    Aged(dir[l]) /\ (l \in Fresh \/ fd[l] = First => Young(dir[l]))

(* Without a fault the indexes of the archives have no gap. *)
Gapless(d) == \A i \in Indexes(d) : 1 .. i \subseteq Indexes(d)

Dense(l) == faults = 0 => Gapless(dir[l])

(* Only chunks that were written are stored. *)
Numbered == \A l \in Logs : Contents(dir[l]) \subseteq 1 .. written

(* No chunk is in two logs. *)
Separate == \A l, m \in Logs : l # m => Contents(dir[l]) \cap Contents(dir[m]) = {}

(* What was written is stored, was dropped on purpose, was at risk, or was *)
(* in a tail that was not written back.                                    *)
Safe ==
  \A n \in 1 .. written :
    \/ \E l \in Logs : n \in Contents(dir[l])
    \/ n \in expired
    \/ Lossy /\ n \in risky
    \/ n \in torn

PerLog == \A l \in Logs : Archived(l) /\ Open(l) /\ Order(l) /\ Dense(l)

Inv == Types /\ Position /\ PerLog /\ Copies /\ Numbered /\ Separate /\ Safe

----------------------------------------------------------------------------
(* What every step is made of.                                             *)

(* The log at hand is one of those the phase has left. *)
LEMMA CurrentLog == ASSUME Types, todo # {} PROVE Cur \in todo /\ Cur \in Logs
  BY DEF Cur, Types

(* The parts of a configuration the proofs use. *)
LEMMA ConfigParts ==
  ASSUME Types
  PROVE  /\ cfg.backups \in Int /\ cfg.backups # 0 /\ cfg.tail \in Nat
         /\ cfg.files \subseteq Logs /\ cfg.reopen \in {"signal", "copytruncate"}
  BY RotationAssumption DEF Config, Types

(* What a step that writes no chunk may do to a log. *)
Keeps(l) ==
  /\ Contents(dir'[l]) \subseteq Contents(dir[l])
  /\ \A n \in Contents(dir[l]) :
       n \in Contents(dir'[l]) \/ n \in expired' \/ (Lossy /\ n \in risky') \/ n \in torn'

(* The conjuncts that speak of all logs follow from a step that keeps the   *)
(* contents of each.                                                        *)
LEMMA StoredStep ==
  ASSUME Inv, UNCHANGED <<cfg, written>>, expired \subseteq expired', risky \subseteq risky', torn \subseteq torn',
         \A l \in Logs : Keeps(l)
  PROVE  Numbered' /\ Separate' /\ Safe'
<1>1. Numbered'
  BY DEF Inv, Numbered, Keeps
<1>2. Separate'
  BY DEF Inv, Separate, Keeps
<1>3. Lossy' <=> Lossy
  BY DEF Lossy
<1>4. Safe'
  BY <1>3 DEF Inv, Safe, Keeps
<1> QED  BY <1>1, <1>2, <1>4

(* A log that a step leaves alone. *)
Same(l) ==
  /\ dir'[l] = dir[l] /\ fd'[l] = fd[l]
  /\ l \in Fresh' => l \in Fresh
  /\ pc \in {"remove", "prune"} /\ l = Cur /\ l \in Fresh' =>
       l = Cur' /\ (pc' = pc \/ pc' = "prune")

(* A log whose files a step does not touch keeps its conjuncts. *)
LEMMA SameLog ==
  ASSUME Inv, UNCHANGED cfg, up' => up, faults' = 0 => faults = 0, NEW l \in Logs, Same(l)
  PROVE  Archived(l)' /\ Open(l)' /\ Order(l)' /\ Dense(l)' /\ Keeps(l)
<1> USE DEF Inv, PerLog
<1>1. Archived(l)'
  BY DEF Archived, Same
<1>2. Open(l)'
  BY DEF Open, Same, Lossy
<1>3. Order(l)'
  BY DEF Order, Same
<1>4. Dense(l)'
  BY DEF Dense, Same
<1>5. Keeps(l)
  BY DEF Keeps, Same
<1> QED  BY <1>1, <1>2, <1>3, <1>4, <1>5

(* No position of the pass changes and no file that it is about is cut. *)
LEMMA SamePosition ==
  ASSUME Inv, UNCHANGED <<cfg, pc, todo, rotated, buffer, expired>>, risky \subseteq risky',
         \A l \in Logs, s \in {Active, First, FirstGz} : s \in DOMAIN dir[l] =>
            s \in DOMAIN dir'[l] /\ Elements(dir[l][s]) \subseteq Elements(dir'[l][s]),
         todo # {} /\ First \in DOMAIN dir[Cur] =>
            Elements(dir'[Cur][First]) \subseteq Elements(dir[Cur][First]) \cup risky',
         pc = "truncate" => Elements(dir'[Cur][Active]) \subseteq Elements(dir[Cur][Active]) \cup risky'
  PROVE  Position' /\ Copies'
<1>1. Cur' = Cur /\ (Lossy' <=> Lossy) /\ Types /\ Position /\ Copies /\ PerLog
  BY DEF Cur, Lossy, Inv
<1>2. Position'
  BY <1>1 DEF Position, Types
<1>3. todo # {} => Cur \in todo /\ Cur \in Logs
  BY <1>1, CurrentLog
<1>4. CASE pc \in {"truncate", "retail", "install", "remove"}
  <2>1. todo # {} /\ Cur \in Fresh
    BY <1>1, <1>3, <1>4 DEF Position, Fresh, Phase3
  <2>2. First \in DOMAIN dir[Cur]
    BY <1>1, <1>3, <1>4, <2>1 DEF PerLog, Archived
  <2>3. pc = "truncate" => Active \in DOMAIN dir[Cur]
    BY <1>1, <1>3, <2>1 DEF Position
  <2> DEFINE F == Elements(dir[Cur][First])  G == Elements(dir'[Cur][First])
             A == Elements(dir[Cur][Active]) B == Elements(dir'[Cur][Active])
             Y == Elements(dir[Cur][FirstGz]) Z == Elements(dir'[Cur][FirstGz])
  <2>4. /\ F \subseteq G /\ G \subseteq F \cup risky'
        /\ pc = "truncate" => B \subseteq A \cup risky'
        /\ pc = "remove" => FirstGz \in DOMAIN dir'[Cur] /\ Y \subseteq Z
    BY <1>1, <1>3, <2>1, <2>2 DEF Copies
  <2>5. /\ pc = "truncate" => A \subseteq F \cup expired \cup risky
        /\ pc = "retail" => Elements(buffer) \subseteq F /\ F \subseteq Elements(buffer) \cup expired \cup risky
        /\ pc = "install" => Elements(buffer) \subseteq F /\ F \subseteq Elements(buffer) \cup risky
        /\ pc = "remove" => F \subseteq Y \cup risky
    BY <1>1 DEF Copies
  <2>6. /\ pc = "truncate" => B \subseteq G \cup expired \cup risky'
        /\ pc = "retail" => Elements(buffer) \subseteq G /\ G \subseteq Elements(buffer) \cup expired \cup risky'
        /\ pc = "install" => Elements(buffer) \subseteq G /\ G \subseteq Elements(buffer) \cup risky'
        /\ pc = "remove" => FirstGz \in DOMAIN dir'[Cur] /\ G \subseteq Z \cup risky'
    <3> HIDE DEF F, G, A, B, Y, Z
    <3> QED  BY <2>4, <2>5
  <2> QED  BY <1>1, <1>2, <2>6 DEF Copies
<1>5. CASE pc \notin {"truncate", "retail", "install", "remove"}
  BY <1>2, <1>5 DEF Copies
<1> QED  BY <1>4, <1>5

----------------------------------------------------------------------------
(* The steps outside a pass and of the process.                            *)

(* The files stay as they are, and so does the position in the pass, unless*)
(* the step leads out of it.                                               *)
LEMMA QuietStep ==
  ASSUME Inv, UNCHANGED <<cfg, dir, written, expired, risky, torn>>,
         \/ UNCHANGED <<fd, up>>
         \/ fd' = [l \in Logs |-> Unlinked] /\ up' = FALSE,
         \/ UNCHANGED <<pc, todo, rotated, buffer>>
         \/ pc' \in Idle /\ todo' \subseteq Logs /\ rotated' \subseteq Logs /\ buffer' \in Seq(Nat),
         after' \in {"select", "resync", "rewatch"},
         faults' = faults \/ faults' = faults + 1
  PROVE  Inv'
<1>1. Types'
  <2>1. faults' \in Nat /\ fd' \in [Logs -> Names \cup {Unlinked}]
    BY DEF Inv, Types
  <2> QED  BY <2>1 DEF Inv, Types
<1>2. faults' = 0 => faults = 0
  BY DEF Inv, Types
<1>3. Position' /\ Copies'
  <2>1. CASE UNCHANGED <<pc, todo, rotated, buffer>>
    BY <2>1, SamePosition
  <2>2. CASE pc' \in Idle
    BY <2>2 DEF Idle, Phase3, Position, Copies
  <2> QED  BY <2>1, <2>2
<1>4. ASSUME NEW l \in Logs PROVE l \in Fresh' => l \in Fresh /\ UNCHANGED <<pc, todo>>
  BY DEF Fresh, Idle, Phase3, Cur
<1>5. ASSUME NEW l \in Logs PROVE Archived(l)' /\ Open(l)' /\ Order(l)' /\ Dense(l)' /\ Keeps(l)
  <2>1. CASE UNCHANGED <<fd, up>>
    <3>1. Same(l)
      BY <1>4, <2>1 DEF Same, Cur
    <3> QED  BY <1>2, <2>1, <3>1, SameLog
  <2>2. CASE fd' = [m \in Logs |-> Unlinked] /\ up' = FALSE
    <3>1. Unlinked # Active /\ Unlinked # First
      BY UnlinkedName
    <3>2. Open(l)'
      BY <2>2, <3>1 DEF Open
    <3>3. Archived(l)'
      BY <1>4 DEF Archived, Inv, PerLog, Cur
    <3>4. Order(l)'
      BY <1>4, <2>2, <3>1 DEF Order, Inv, PerLog
    <3>5. Dense(l)' /\ Keeps(l)
      BY <1>2 DEF Dense, Keeps, Inv, PerLog
    <3> QED  BY <3>2, <3>3, <3>4, <3>5
  <2> QED  BY <2>1, <2>2
<1>6. Numbered' /\ Separate' /\ Safe'
  BY <1>5, StoredStep
<1> QED  BY <1>1, <1>3, <1>5, <1>6 DEF Inv, PerLog

(* A log that the process opens by its name. *)
LEMMA OpenedLog ==
  ASSUME Inv, UNCHANGED <<cfg, pc, todo, rotated, faults>>, NEW l \in Logs,
         dir'[l] = Opened(l), fd'[l] = Active
  PROVE  /\ Directory(dir'[l]) /\ Archived(l)' /\ Open(l)' /\ Order(l)' /\ Dense(l)' /\ Keeps(l)
         /\ \A s \in DOMAIN dir[l] : s \in DOMAIN dir'[l] /\ dir'[l][s] = dir[l][s]
         /\ \A s \in DOMAIN dir'[l] : s = Active \/ s \in DOMAIN dir[l]
<1>1. Directory(dir[l])
  BY DEF Inv, Types
<1> DEFINE d == dir[l]
           e == dir'[l]
<1>2. /\ Directory(e) /\ Contents(e) = Contents(d)
      /\ DOMAIN e = DOMAIN d \cup {Active} /\ \A s \in DOMAIN d : e[s] = d[s]
      /\ Aged(d) => Aged(e)
      /\ Young(d) => Young(e)
  <2>1. CASE Active \in DOMAIN d
    BY <1>1, <2>1 DEF Opened
  <2>2. CASE Active \notin DOMAIN d
    <3>1. Put(d, e, Active, << >>)
      <4>1. Active \in Names /\ << >> \in Seq(Nat)
        BY FixedNames, NoElements
      <4> QED  BY <1>1, <2>2, <4>1, WithFiles DEF Opened
    <3>2. Contents(e) = Contents(d)
      <4>1. Contents(e) \subseteq Contents(d) \cup Elements(<< >>) /\ Contents(d) \subseteq Contents(e)
        BY <2>2, <3>1, PutContents
      <4> QED  BY <4>1, NoElements
    <3>3. (Aged(d) => Aged(e)) /\ (Young(d) => Young(e))
      BY <1>1, <2>2, <3>1, OpenedAged
    <3> QED  BY <2>2, <3>1, <3>2, <3>3 DEF Put
  <2> QED  BY <2>1, <2>2
<1>3. Fresh' = Fresh /\ Cur' = Cur /\ (Lossy' <=> Lossy)
  BY DEF Fresh, Cur, Lossy
<1>4. Active # First /\ Active # FirstGz
  BY FixedNames
<1>5. Archived(l)'
  BY <1>2, <1>3, <1>4 DEF Archived, Inv, PerLog
<1>6. Open(l)'
  BY <1>2, <1>3, <1>4 DEF Open
<1>7. Order(l)'
  BY <1>2, <1>3, <1>4 DEF Order, Inv, PerLog
<1>8. Dense(l)'
  <2>1. Backups(e) = Backups(d)
    BY <1>2, FixedNames DEF Backups
  <2> QED  BY <2>1 DEF Dense, Gapless, Indexes, Inv, PerLog
<1>9. Keeps(l)
  BY <1>2 DEF Keeps
<1> QED  BY <1>2, <1>5, <1>6, <1>7, <1>8, <1>9

(* The process takes the signal, or starts: logs are opened by name, and   *)
(* the others are left alone or closed.                                    *)
LEMMA OpenStep ==
  ASSUME Inv, UNCHANGED <<cfg, written, expired, risky, torn, pc, todo, rotated, buffer, after, faults>>,
         DOMAIN dir' = Logs, fd' \in [Logs -> Names \cup {Unlinked}],
         \A l \in Logs : \/ dir'[l] = Opened(l) /\ fd'[l] = Active
                         \/ dir'[l] = dir[l] /\ fd'[l] = Unlinked /\ l \notin cfg.files
                         \/ dir'[l] = dir[l] /\ fd'[l] = fd[l] /\ (up' => up)
  PROVE  Inv'
<1>1. Fresh' = Fresh /\ Cur' = Cur /\ (Lossy' <=> Lossy)
  BY DEF Fresh, Cur, Lossy
<1>2. ASSUME NEW l \in Logs
      PROVE  /\ Directory(dir'[l]) /\ Archived(l)' /\ Open(l)' /\ Order(l)' /\ Dense(l)' /\ Keeps(l)
             /\ \A s \in DOMAIN dir[l] : s \in DOMAIN dir'[l] /\ dir'[l][s] = dir[l][s]
  <2>1. CASE dir'[l] = Opened(l) /\ fd'[l] = Active
    BY <2>1, OpenedLog
  <2>2. CASE dir'[l] = dir[l]
    <3>1. Archived(l)' /\ Dense(l)' /\ Keeps(l) /\ Directory(dir'[l])
      BY <1>1, <2>2 DEF Archived, Dense, Keeps, Inv, PerLog, Types
    <3>2. CASE fd'[l] = Unlinked /\ l \notin cfg.files
      <4>1. Unlinked # Active /\ Unlinked # First
        BY UnlinkedName
      <4>2. Open(l)'
        BY <3>2, <4>1 DEF Open
      <4>3. Order(l)'
        BY <1>1, <2>2, <3>2, <4>1 DEF Order, Inv, PerLog
      <4> QED  BY <2>2, <3>1, <4>2, <4>3
    <3>3. CASE fd'[l] = fd[l] /\ (up' => up)
      <4>1. Open(l)'
        BY <1>1, <2>2, <3>3 DEF Open, Inv, PerLog
      <4>2. Order(l)'
        BY <1>1, <2>2, <3>3 DEF Order, Inv, PerLog
      <4> QED  BY <2>2, <3>1, <4>1, <4>2
    <3>4. CASE dir'[l] = Opened(l) /\ fd'[l] = Active
      BY <3>4, OpenedLog
    <3> QED  BY <3>2, <3>3, <3>4
  <2> QED  BY <2>1, <2>2
<1>3. Types'
  BY <1>2 DEF Inv, Types
<1>4. Numbered' /\ Separate' /\ Safe'
  BY <1>2, StoredStep
<1>5. Position' /\ Copies'
  <2>1. todo # {} => Cur \in todo /\ Cur \in Logs
    BY CurrentLog DEF Inv
  <2>2. pc = "truncate" => todo # {} /\ Active \in DOMAIN dir[Cur]
    BY <2>1 DEF Inv, Position
  <2>3. todo # {} /\ First \in DOMAIN dir[Cur] =>
          Elements(dir'[Cur][First]) \subseteq Elements(dir[Cur][First]) \cup risky'
    BY <1>2, <2>1
  <2>4. pc = "truncate" => Elements(dir'[Cur][Active]) \subseteq Elements(dir[Cur][Active]) \cup risky'
    BY <1>2, <2>1, <2>2
  <2>5. \A l \in Logs, s \in {Active, First, FirstGz} : s \in DOMAIN dir[l] =>
            s \in DOMAIN dir'[l] /\ Elements(dir[l][s]) \subseteq Elements(dir'[l][s])
    BY <1>2
  <2> QED  BY <2>3, <2>4, <2>5, SamePosition
<1> QED  BY <1>2, <1>3, <1>4, <1>5 DEF Inv, PerLog

(* The process writes a chunk: its number is new, so it is in one file     *)
(* only, the youngest of its log; a chunk written to an archive, or between*)
(* a copy and its truncate, is at risk; without a loss the file has a name.*)
LEMMA WriteStep == ASSUME Inv, NEW l \in cfg.files, Write(l) PROVE Inv'
<1> DEFINE n == written + 1
           s == fd[l]
           d == dir[l]
           e == dir'[l]
<1>1. n \in Nat /\ l \in Logs /\ Directory(d) /\ s \in Names \cup {Unlinked}
  BY ConfigParts DEF Inv, Types
<1>2. /\ written' = n
      /\ UNCHANGED <<cfg, fd, up, pc, todo, rotated, buffer, after, faults, expired, torn>>
      /\ risky' = IF s # Active \/ (pc = "truncate" /\ l = Cur) THEN risky \cup {n} ELSE risky
      /\ dir' = IF s \in DOMAIN d THEN [dir EXCEPT ![l] = [d EXCEPT ![s] = Append(d[s], n)]] ELSE dir
  BY DEF Write, pass
<1>3. /\ DOMAIN dir' = Logs /\ \A m \in Logs \ {l} : dir'[m] = dir[m]
      /\ e = IF s \in DOMAIN d THEN [d EXCEPT ![s] = Append(d[s], n)] ELSE d
  BY <1>1, <1>2 DEF Inv, Types
<1>4. ASSUME s \in DOMAIN d
      PROVE  Put(d, e, s, Append(d[s], n)) /\ Elements(Append(d[s], n)) = Elements(d[s]) \cup {n}
  <2>1. d[s] \in Seq(Nat)
    BY <1>1, <1>4 DEF Directory
  <2>2. Append(d[s], n) \in Seq(Nat) /\ Elements(Append(d[s], n)) = Elements(d[s]) \cup {n}
    BY <1>1, <2>1, AppendElements
  <2>3. Put(d, [d EXCEPT ![s] = Append(d[s], n)], s, Append(d[s], n))
    BY <1>1, <1>4, <2>2, EditedFiles
  <2> QED  BY <1>3, <1>4, <2>2, <2>3
<1>5. /\ Directory(e) /\ DOMAIN e = DOMAIN d
      /\ \A t \in DOMAIN d : t # s => e[t] = d[t]
      /\ s \in DOMAIN d => Elements(e[s]) = Elements(d[s]) \cup {n}
  BY <1>1, <1>3, <1>4 DEF Put
<1>6. /\ Contents(e) \subseteq Contents(d) \cup {n} /\ Contents(d) \subseteq Contents(e)
      /\ s \in DOMAIN d => n \in Contents(e)
  <2>1. CASE s \in DOMAIN d
    <3>1. /\ Contents(e) \subseteq Contents(d) \cup Elements(Append(d[s], n))
          /\ Elements(Append(d[s], n)) \subseteq Contents(e)
          /\ Contents(d) \subseteq Contents(e) \cup Elements(d[s])
      BY <1>4, <2>1, PutContents
    <3>2. Elements(d[s]) \subseteq Contents(d)
      BY <2>1, InContents
    <3> QED  BY <1>4, <2>1, <3>1, <3>2
  <2>2. CASE s \notin DOMAIN d
    BY <1>3, <2>2
  <2> QED  BY <2>1, <2>2
<1>7. Fresh' = Fresh /\ Cur' = Cur /\ (Lossy' <=> Lossy)
  BY <1>2 DEF Fresh, Cur, Lossy
<1>8. Types'
  BY <1>1, <1>2, <1>3, <1>5 DEF Inv, Types
<1>9. PerLog'
  <2>1. ASSUME NEW m \in Logs, m # l PROVE Archived(m)' /\ Open(m)' /\ Order(m)' /\ Dense(m)'
    <3>1. Same(m)
      BY <1>2, <1>3, <1>7, <2>1 DEF Same
    <3> QED  BY <1>2, <3>1, SameLog
  <2>2. Archived(l)' /\ Open(l)' /\ Dense(l)'
    <3>1. Backups(e) = Backups(d)
      BY <1>5 DEF Backups
    <3>2. Dense(l)'
      BY <1>1, <1>2, <3>1 DEF Dense, Gapless, Indexes, Inv, PerLog
    <3>3. Archived(l)'
      BY <1>1, <1>2, <1>5, <1>7 DEF Archived, Inv, PerLog
    <3>4. Open(l)'
      BY <1>1, <1>2, <1>5, <1>7 DEF Open, Inv, PerLog
    <3> QED  BY <3>2, <3>3, <3>4
  <2>3. ASSUME cfg.reopen = "signal" PROVE Aged(e) /\ (Young(d) => Young(e))
    <3>1. Aged(d)
      BY <1>1, <2>3 DEF Order, Inv, PerLog
    <3>2. CASE s \in DOMAIN d
      <4>1. \A m \in Contents(d) : m \in Nat /\ m < n
        BY <1>1 DEF Inv, Numbered, Types
      <4>2. s = Active \/ (s = First /\ Active \notin DOMAIN d)
        <5>1. s # Unlinked
          BY <1>1, <3>2, UnlinkedName DEF Directory
        <5> QED  BY <1>1, <2>3, <5>1 DEF Open, Inv, PerLog
      <4>3. s = First => Young(d)
        BY <1>1, <2>3 DEF Order, Inv, PerLog
      <4> QED  BY <1>1, <1>4, <3>1, <3>2, <4>1, <4>2, <4>3, AppendedAged
    <3>3. CASE s \notin DOMAIN d
      BY <1>3, <3>1, <3>3
    <3> QED  BY <3>2, <3>3
  <2>4. Order(l)'
    BY <1>1, <1>2, <1>7, <2>3 DEF Order, Inv, PerLog
  <2> QED  BY <2>1, <2>2, <2>4 DEF PerLog
<1>10. Position' /\ Copies'
  <2>1. ASSUME NEW m \in Logs, NEW t, t \in DOMAIN dir[m]
        PROVE  /\ t \in DOMAIN dir'[m] /\ Elements(dir[m][t]) \subseteq Elements(dir'[m][t])
               /\ \/ Elements(dir'[m][t]) \subseteq Elements(dir[m][t])
                  \/ /\ m = l /\ t = s
                     /\ Elements(dir'[m][t]) \subseteq Elements(dir[m][t]) \cup {n}
    BY <1>3, <1>5, <2>1
  <2>2. todo # {} => Cur \in todo /\ Cur \in Logs
    BY CurrentLog DEF Inv
  <2>3. todo # {} /\ First \in DOMAIN dir[Cur] =>
            Elements(dir'[Cur][First]) \subseteq Elements(dir[Cur][First]) \cup risky'
    <3>1. ASSUME todo # {}, First \in DOMAIN dir[Cur]
          PROVE  \/ Elements(dir'[Cur][First]) \subseteq Elements(dir[Cur][First])
                 \/ /\ First = s
                    /\ Elements(dir'[Cur][First]) \subseteq Elements(dir[Cur][First]) \cup {n}
      BY <2>1, <2>2, <3>1
    <3>2. First = s => n \in risky'
      BY <1>2, FixedNames
    <3> QED  BY <3>1, <3>2
  <2>4. pc = "truncate" => Elements(dir'[Cur][Active]) \subseteq Elements(dir[Cur][Active]) \cup risky'
    <3>1. pc = "truncate" => todo # {} /\ Active \in DOMAIN dir[Cur]
      BY <2>2 DEF Inv, Position
    <3> QED  BY <1>2, <2>1, <2>2, <3>1
  <2>5. UNCHANGED <<cfg, pc, todo, rotated, buffer, expired>> /\ risky \subseteq risky'
    BY <1>2
  <2> QED  BY <2>1, <2>3, <2>4, <2>5, SamePosition
<1>11. Numbered'
  <2>1. ASSUME NEW m \in Logs PROVE Contents(dir'[m]) \subseteq 1 .. n
    <3>1. Contents(dir[m]) \subseteq 1 .. written /\ Contents(d) \subseteq 1 .. written
      BY <1>1 DEF Inv, Numbered
    <3>2. 1 .. written \subseteq 1 .. n /\ n \in 1 .. n
      BY <1>1 DEF Inv, Types
    <3>3. Contents(dir'[m]) \subseteq Contents(dir[m]) \cup {n}
      BY <1>3, <1>6
    <3> QED  BY <3>1, <3>2, <3>3
  <2> QED  BY <1>2, <2>1 DEF Numbered
<1>12. Separate'
  <2>1. \A m \in Logs : n \notin Contents(dir[m])
    BY <1>1 DEF Inv, Numbered, Types
  <2>2. \A m \in Logs : Contents(dir'[m]) \subseteq Contents(dir[m]) \cup (IF m = l THEN {n} ELSE {})
    BY <1>3, <1>6
  <2>3. ASSUME NEW k \in Logs, NEW m \in Logs, k # m
        PROVE  Contents(dir'[k]) \cap Contents(dir'[m]) = {}
    <3>1. Contents(dir[k]) \cap Contents(dir[m]) = {}
      BY <2>3 DEF Inv, Separate
    <3>2. /\ Contents(dir'[k]) \subseteq Contents(dir[k]) \cup (IF k = l THEN {n} ELSE {})
          /\ Contents(dir'[m]) \subseteq Contents(dir[m]) \cup (IF m = l THEN {n} ELSE {})
          /\ n \notin Contents(dir[k]) /\ n \notin Contents(dir[m])
      BY <2>1, <2>2
    <3> QED  BY <2>3, <3>1, <3>2
  <2> QED  BY <2>3 DEF Separate
<1>13. Safe'
  <2>1. \/ n \in Contents(e) \/ (Lossy /\ n \in risky')
    <3>1. s = Active => s \in DOMAIN d
      BY <1>1 DEF Open, Inv, PerLog
    <3>2. ~Lossy => s \in DOMAIN d
      <4>1. ~Lossy => cfg.reopen = "signal"
        BY ConfigParts DEF Lossy, Inv
      <4> QED  BY <1>1, <4>1 DEF Write, Open, Inv, PerLog
    <3> QED  BY <1>2, <1>6, <3>1, <3>2
  <2>2. ASSUME NEW m \in 1 .. written
        PROVE  \/ \E k \in Logs : m \in Contents(dir'[k])
               \/ m \in expired'
               \/ Lossy' /\ m \in risky'
               \/ m \in torn'
    BY <1>2, <1>3, <1>6, <1>7 DEF Inv, Safe
  <2>3. \A m \in 1 .. n : m \in 1 .. written \/ m = n
    BY <1>1 DEF Inv, Types
  <2> QED  BY <1>1, <1>2, <1>7, <2>1, <2>2, <2>3 DEF Safe
<1> QED  BY <1>8, <1>9, <1>10, <1>11, <1>12, <1>13 DEF Inv

(* Nothing the process does, a write, a reopen, a start or an exit, breaks  *)
(* the invariant.                                                           *)
LEMMA ProcessStep == ASSUME Inv, Process PROVE Inv'
<1>1. ASSUME NEW l \in cfg.files, Reopen(l) PROVE Inv'
  <2>1. l \in Logs /\ DOMAIN dir = Logs /\ fd \in [Logs -> Names \cup {Unlinked}] /\ Active \in Names
    BY ConfigParts, FixedNames DEF Inv, Types
  <2>2. /\ dir' = [dir EXCEPT ![l] = Opened(l)] /\ fd' = [fd EXCEPT ![l] = Active]
        /\ UNCHANGED <<cfg, up, written, expired, risky, torn, pc, todo, rotated, buffer, after, faults>>
    BY <1>1 DEF Reopen, pass
  <2>3. /\ DOMAIN dir' = Logs /\ fd' \in [Logs -> Names \cup {Unlinked}]
        /\ dir'[l] = Opened(l) /\ fd'[l] = Active
        /\ \A m \in Logs \ {l} : dir'[m] = dir[m] /\ fd'[m] = fd[m]
    BY <2>1, <2>2
  <2> QED  BY <2>2, <2>3, OpenStep
<1>2. CASE StartProcess
  <2>1. Active \in Names
    BY FixedNames
  <2>2. /\ dir' = [l \in Logs |-> IF l \in cfg.files THEN Opened(l) ELSE dir[l]]
        /\ fd' = [l \in Logs |-> IF l \in cfg.files THEN Active ELSE Unlinked]
        /\ UNCHANGED <<cfg, written, expired, risky, torn, pc, todo, rotated, buffer, after, faults>>
    BY <1>2 DEF StartProcess, pass
  <2>3. /\ DOMAIN dir' = Logs /\ fd' \in [Logs -> Names \cup {Unlinked}]
        /\ \A l \in Logs : \/ dir'[l] = Opened(l) /\ fd'[l] = Active
                           \/ dir'[l] = dir[l] /\ fd'[l] = Unlinked /\ l \notin cfg.files
    BY <2>1, <2>2
  <2> QED  BY <2>2, <2>3, OpenStep
<1>3. CASE Exits
  <2>1. after \in {"select", "resync", "rewatch"}
    BY DEF Inv, Types
  <2> QED  BY <1>3, <2>1, QuietStep DEF Exits, pass, session
<1> QED  BY <1>1, <1>2, <1>3, WriteStep DEF Process

(* What Run does outside a pass. *)
LEMMA SessionStep ==
  ASSUME Inv, \/ StartRun \/ (\E e \in cfg.files \cup {Dir} : HandleEvent(e)) \/ TimerFires \/ Poll
              \/ HandleOverflow \/ Resync \/ RemoveWatches
              \/ MakeDir \/ Stop \/ DropEvents \/ Crash
  PROVE  Inv'
<1>1. after \in {"select", "resync", "rewatch"} /\ buffer \in Seq(Nat) /\ todo \subseteq Logs /\ rotated \subseteq Logs
  BY DEF Inv, Types
<1>2. CASE Crash
  <2>1. << >> \in Seq(Nat)
    OBVIOUS
  <2> QED  BY <1>2, <2>1, QuietStep DEF Crash, Fault, Idle
<1>3. CASE MakeDir \/ DropEvents
  BY <1>1, <1>3, QuietStep DEF MakeDir, DropEvents, Fault, process, pass
<1>4. CASE Stop
  BY <1>1, <1>4, QuietStep DEF Stop, process, session, pass, Idle
<1>5. CASE StartRun \/ Resync
  BY <1>1, <1>5, QuietStep DEF StartRun, Resync, SyncWatches, Fault, process, pass, Idle
<1>6. ASSUME NEW e \in cfg.files \cup {Dir}, HandleEvent(e) PROVE Inv'
  BY <1>1, <1>6, QuietStep DEF HandleEvent, SyncWatches, Fault, process, pass, Idle
<1>7. CASE TimerFires \/ Poll \/ HandleOverflow
  BY <1>1, <1>7, QuietStep DEF TimerFires, Poll, HandleOverflow, RotatePass, process, pass, Idle
<1>8. CASE RemoveWatches
  BY <1>1, <1>8, QuietStep DEF RemoveWatches, process, pass, Idle
<1> QED  BY <1>2, <1>3, <1>4, <1>5, <1>6, <1>7, <1>8

----------------------------------------------------------------------------
(* The steps of a pass.                                                    *)

Fits(l) ==
  Directory(dir'[l]) /\ Keeps(l) /\ Archived(l)' /\ Open(l)' /\ Order(l)' /\ Dense(l)'

(* A step of a pass leaves a log alone or keeps what the invariant says of it. *)
LEMMA PassStep ==
  ASSUME Inv, UNCHANGED <<cfg, up, written, after>>, faults' = faults \/ faults' = faults + 1,
         expired \subseteq expired', risky \subseteq risky', torn \subseteq torn',
         todo' \subseteq Logs, rotated' \subseteq Logs, buffer' \in Seq(Nat),
         pc' \in Idle \cup {"rename", "truncate", "signal"} \cup Phase3,
         DOMAIN dir' = Logs, fd' \in [Logs -> Names \cup {Unlinked}],
         Position', Copies', \A l \in Logs : Same(l) \/ Fits(l)
  PROVE  Inv'
<1>1. faults' \in Nat /\ (faults' = 0 => faults = 0)
  BY DEF Inv, Types
<1>2. ASSUME NEW l \in Logs PROVE Fits(l)
  <2>1. CASE Same(l)
    <3>1. Directory(dir'[l])
      BY <2>1 DEF Same, Inv, Types
    <3> QED  BY <1>1, <2>1, <3>1, SameLog DEF Fits
  <2> QED  BY <2>1
<1>3. Types'
  BY <1>1, <1>2 DEF Fits, Inv, Types
<1>4. Numbered' /\ Separate' /\ Safe'
  BY <1>2, StoredStep DEF Fits
<1> QED  BY <1>2, <1>3, <1>4 DEF Fits, Inv, PerLog

(* Where a phase leads when it is done with some logs: the next has at most*)
(* the archives, and it may count on the crossed logs it has not touched.  *)
Leads(archives, touched) ==
  /\ todo' \subseteq Logs /\ rotated' \subseteq Logs
  /\ pc' \in Idle \cup {"rename", "signal", "tail", "zip", "prune"}
  /\ \A l \in Fresh' : l \in archives
  /\ pc' \in {"rename"} \cup Phase3 => todo' # {}
  /\ pc' = "rename" =>
       todo' \cap rotated' = {} /\ \A l \in todo' : l \notin touched /\ Active \in DOMAIN dir[l]
  /\ pc' \in {"tail", "zip"} => Lossy

(* The next phase (archive, prune) begins on logs that have been rotated. *)
LEMMA ArchiveLeads ==
  ASSUME Inv, NEW logs \in SUBSET Logs, Archive(logs), rotated' \subseteq Logs, NEW touched
  PROVE  Leads(logs, touched)
<1>1. CASE logs = {}
  <2>1. todo' = {} /\ pc' \in Idle
    BY <1>1 DEF Archive, Inv, Types, Idle
  <2>2. Fresh' = {}
    BY <2>1 DEF Fresh, Idle, Phase3
  <2> QED  BY <2>1, <2>2 DEF Leads, Idle, Phase3
<1>2. CASE logs # {}
  <2>1. /\ todo' = logs /\ pc' \in {"tail", "zip", "prune"}
        /\ pc' \in {"tail", "zip"} => Lossy
    BY <1>2 DEF Archive, FirstStep, Oversized, Lossy
  <2>2. Fresh' \subseteq logs
    BY <2>1 DEF Fresh, Phase3
  <2> QED  BY <1>2, <2>1, <2>2 DEF Leads
<1> QED  BY <1>1, <1>2

(* Where the pass goes after a log that is rotated: to the next one, to the *)
(* signal, or to the archives.                                              *)
LEMMA NextLeads ==
  ASSUME Inv, pc \in {"rename", "truncate"}, NEW archives \in SUBSET (rotated \cup {Cur}),
         NextCrossed(archives)
  PROVE  Leads(archives, {Cur})
<1>1. Cur \in todo /\ Cur \in Logs /\ todo \subseteq Logs /\ archives \subseteq Logs
  BY CurrentLog DEF Inv, Position, Types
<1>2. CASE todo \ {Cur} # {}
  <2>1. rotated' = archives /\ todo' = todo \ {Cur} /\ pc' = "rename"
    BY <1>2 DEF NextCrossed
  <2>2. todo' \cap rotated' = {} /\ \A l \in todo' : Active \in DOMAIN dir[l]
    BY <2>1 DEF Inv, Position
  <2>3. Fresh' \subseteq archives
    BY <2>1 DEF Fresh, Phase3
  <2> QED  BY <1>1, <1>2, <2>1, <2>2, <2>3 DEF Leads
<1>3. CASE todo \ {Cur} = {} /\ cfg.reopen = "signal"
  <2>1. rotated' = archives /\ todo' = {} /\ pc' = "signal"
    BY <1>3 DEF NextCrossed
  <2>2. Fresh' \subseteq archives
    BY <2>1 DEF Fresh, Phase3
  <2> QED  BY <1>1, <2>1, <2>2 DEF Leads, Phase3
<1>4. CASE todo \ {Cur} = {} /\ cfg.reopen # "signal"
  <2>1. Archive(archives) /\ rotated' = archives
    BY <1>4 DEF NextCrossed
  <2> QED  BY <1>1, <2>1, ArchiveLeads
<1> QED  BY <1>2, <1>3, <1>4

(* A step that follows the phases of the pass and keeps the logs it touches *)
(* keeps the invariant.                                                     *)
LEMMA LeadStep ==
  ASSUME Inv, NEW archives, NEW touched \in SUBSET Logs, Leads(archives, touched),
         UNCHANGED <<cfg, up, written, after, buffer>>, faults' = faults \/ faults' = faults + 1,
         expired \subseteq expired', risky \subseteq risky', torn \subseteq torn',
         DOMAIN dir' = Logs, fd' \in [Logs -> Names \cup {Unlinked}],
         \A l \in touched : /\ Directory(dir'[l]) /\ Keeps(l) /\ Open(l)' /\ Dense(l)'
                            /\ l \in archives => First \in DOMAIN dir'[l] /\ FirstGz \notin DOMAIN dir'[l]
                            /\ cfg.reopen = "signal" =>
                                 /\ Aged(dir'[l])
                                 /\ l \in archives \/ fd'[l] = First => Young(dir'[l]),
         \A l \in Logs \ touched : /\ dir'[l] = dir[l] /\ fd'[l] = fd[l]
                                   /\ l \in archives =>
                                        l \in Fresh /\ ~(pc \in {"remove", "prune"} /\ l = Cur)
  PROVE  Inv'
<1>1. Position'
  <2>1. Lossy' <=> Lossy
    BY DEF Lossy
  <2>2. pc' # "truncate" /\ (pc' \in Phase3 \ {"prune"} => pc' \in {"tail", "zip"})
    BY DEF Leads, Idle, Phase3
  <2>3. pc' = "rename" => todo' \cap rotated' = {} /\ \A l \in todo' : Active \in DOMAIN dir'[l]
    BY DEF Leads
  <2> QED  BY <2>1, <2>2, <2>3 DEF Leads, Position
<1>2. Copies'
  BY DEF Leads, Idle, Copies
<1>3. ASSUME NEW l \in touched PROVE Fits(l)
  <2>1. l \in Fresh' => l \in archives
    BY DEF Leads
  <2>2. Archived(l)' /\ Order(l)'
    BY <2>1 DEF Archived, Order
  <2> QED  BY <2>2 DEF Fits
<1>4. ASSUME NEW l \in Logs \ touched PROVE Same(l)
  BY DEF Leads, Same
<1>5. /\ todo' \subseteq Logs /\ rotated' \subseteq Logs
      /\ pc' \in Idle \cup {"rename", "truncate", "signal"} \cup Phase3
  BY DEF Leads, Phase3
<1>6. buffer' \in Seq(Nat)
  BY DEF Inv, Types
<1>7. \A l \in Logs : Same(l) \/ Fits(l)
  BY <1>3, <1>4
<1> QED  BY <1>1, <1>2, <1>5, <1>6, <1>7, PassStep

(* Collecting the crossed logs (the head of rotatePass). *)
LEMMA CollectStep == ASSUME Inv, Collect PROVE Inv'
<1>1. /\ UNCHANGED <<cfg, dir, fd, up, written, expired, risky, torn, after, buffer, faults>>
      /\ rotated' = {} /\ todo' \subseteq {l \in cfg.files : Crossed(dir[l])}
      /\ pc' = IF todo' = {} THEN after ELSE "rename"
  BY DEF Collect, process, session
<1>2. Leads({}, {})
  <2>1. todo' \subseteq Logs /\ \A l \in todo' : Active \in DOMAIN dir[l]
    BY <1>1, ConfigParts DEF Crossed, Inv
  <2>2. CASE todo' = {}
    <3>1. pc' \in Idle
      BY <1>1, <2>2 DEF Inv, Types, Idle
    <3> QED  BY <1>1, <2>1, <2>2, <3>1 DEF Leads, Idle, Phase3, Fresh
  <2>3. CASE todo' # {}
    BY <1>1, <2>1, <2>3 DEF Leads, Idle, Phase3, Fresh
  <2> QED  BY <2>2, <2>3
<1>3. DOMAIN dir' = Logs /\ fd' \in [Logs -> Names \cup {Unlinked}]
  BY <1>1 DEF Inv, Types
<1> QED  BY <1>1, <1>2, <1>3, LeadStep

(* The signal of the pass, sent once for all its logs. *)
LEMMA SignalStep == ASSUME Inv, SignalOnce PROVE Inv'
<1>1. /\ UNCHANGED <<cfg, dir, fd, up, written, expired, risky, torn, after, buffer, rotated>>
      /\ faults' = faults \/ faults' = faults + 1
      /\ Archive(rotated)
  BY DEF SignalOnce, session, Fault
<1>2. rotated \subseteq Logs
  BY DEF Inv, Types
<1>3. Leads(rotated, {})
  BY <1>1, <1>2, ArchiveLeads
<1>4. \A l \in rotated : l \in Fresh
  BY <1>2 DEF SignalOnce, Fresh
<1>5. DOMAIN dir' = Logs /\ fd' \in [Logs -> Names \cup {Unlinked}] /\ pc = "signal"
  BY <1>1 DEF Inv, Types, SignalOnce
<1> QED  BY <1>1, <1>3, <1>4, <1>5, LeadStep

(* The indexes of the archives after a rotation, an edit of path.1 and a prune. *)
LEMMA InIndexes ==
  ASSUME NEW d, NEW i
  PROVE  i \in Indexes(d) <=> \E s \in DOMAIN d : s[1] >= 1 /\ s[1] = i
  BY DEF Indexes, Backups

(* Moving all archives up by one leaves no gap when there was none. *)
LEMMA RenumberedGapless ==
  ASSUME NEW d, Directory(d), NEW e, NEW c, Renumbered(d, e, c), Gapless(d)
  PROVE  Gapless(e)
<1>1. ASSUME NEW i \in Indexes(e), NEW j \in 1 .. i PROVE j \in Indexes(e)
  <2>1. PICK s \in DOMAIN e : s[1] >= 1 /\ s[1] = i
    BY InIndexes
  <2>2. First \in DOMAIN e /\ First[1] = 1 /\ 1 \in Indexes(e)
    BY FixedNames, InIndexes DEF Renumbered
  <2>3. CASE s = First
    BY <2>1, <2>2, <2>3
  <2>4. CASE s # First
    <3>1. s # Active
      BY <2>1, FixedNames
    <3>2. PICK t \in Backups(d) : s = Up(t)
      BY <2>4, <3>1 DEF Renumbered
    <3>3. t[1] \in Nat /\ t[1] >= 1 /\ i = t[1] + 1 /\ t[1] \in Indexes(d)
      BY <2>1, <3>2, BackupsOf DEF Up, Indexes
    <3>4. CASE j = 1
      BY <2>2, <3>4
    <3>5. CASE j # 1
      <4>1. j - 1 \in 1 .. t[1] /\ j \in Nat
        BY <3>3, <3>5
      <4>2. j - 1 \in Indexes(d)
        BY <3>3, <4>1 DEF Gapless
      <4>3. PICK u \in Backups(d) : u[1] = j - 1
        BY <4>2 DEF Indexes
      <4>4. Up(u) \in DOMAIN e /\ Up(u)[1] = j
        BY <4>1, <4>3 DEF Renumbered, Up
      <4>5. j >= 1
        OBVIOUS
      <4> QED  BY <4>4, <4>5, InIndexes
    <3> QED  BY <3>4, <3>5
  <2> QED  BY <2>3, <2>4
<1> QED  BY <1>1 DEF Gapless

(* Two directories with the same indexes have the same gaps. *)
LEMMA SameGapless ==
  ASSUME NEW d, NEW e, Gapless(d),
         \A s \in DOMAIN e : \E t \in DOMAIN d : t[1] = s[1],
         \A s \in DOMAIN d : \E t \in DOMAIN e : t[1] = s[1]
  PROVE  Gapless(e)
<1>1. \A i : i \in Indexes(e) <=> i \in Indexes(d)
  BY InIndexes
<1>2. Indexes(e) = Indexes(d)
  BY <1>1
<1> QED  BY <1>2 DEF Gapless

(* The archives PruneBackups removes. *)
LEMMA InExcess ==
  ASSUME NEW d, NEW k \in Int, NEW s
  PROVE  s \in Excess(d, k) <=> ~(k < 0) /\ s \in DOMAIN d /\ s[1] >= 1 /\ s[1] > k
  BY DEF Excess, Backups

(* Removing the archives beyond the retention leaves no gap. *)
LEMMA PrunedGapless ==
  ASSUME NEW d, Directory(d), NEW k \in Int, NEW e, Removed(d, e, Excess(d, k)), Gapless(d)
  PROVE  Gapless(e)
<1>1. ASSUME NEW i \in Indexes(e), NEW j \in 1 .. i PROVE j \in Indexes(e)
  <2>1. PICK s \in DOMAIN e : s[1] >= 1 /\ s[1] = i
    BY InIndexes
  <2>2. s \in DOMAIN d /\ s \notin Excess(d, k) /\ s[1] \in Nat
    BY <2>1, NameParts DEF Removed, Directory
  <2>3. PICK t \in DOMAIN d : t[1] >= 1 /\ t[1] = j
    BY <2>1, <2>2, InIndexes DEF Gapless
  <2>4. t \notin Excess(d, k)
    <3>1. j \in Nat /\ j <= s[1]
      BY <2>1, <2>2
    <3>2. k < 0 \/ s[1] <= k
      BY <2>1, <2>2, InExcess
    <3> QED  BY <2>3, <2>2, <3>1, <3>2, InExcess
  <2>5. t \in DOMAIN e
    BY <2>3, <2>4 DEF Removed
  <2> QED  BY <2>3, <2>5, InIndexes
<1> QED  BY <1>1 DEF Gapless

(* A phase changes the directory of the log at hand only. *)
LEMMA CurDirectory ==
  ASSUME Inv, todo # {}, NEW e, dir' = [dir EXCEPT ![Cur] = e]
  PROVE  DOMAIN dir' = Logs /\ dir'[Cur] = e /\ \A l \in Logs \ {Cur} : dir'[l] = dir[l]
  BY CurrentLog DEF Inv, Types

(* The rename of the log: its archives move up, it becomes path.1, and the *)
(* descriptor follows it; a shift that stops halfway overwrites nothing.   *)
LEMMA RenameStep == ASSUME Inv, Rename PROVE Inv'
<1>0. PICK k \in Logs : k = Cur /\ k \in todo
  BY CurrentLog DEF Inv, Position, Rename
<1> DEFINE d == dir[k]
           e == dir'[k]
<1>1. /\ Directory(d) /\ Active \in DOMAIN d
      /\ todo # {} /\ k \notin rotated /\ rotated \subseteq Logs
  BY <1>0 DEF Inv, Types, Position, Rename
<1>2. /\ UNCHANGED <<cfg, up, written, risky, expired, torn, after, buffer>>
      /\ faults' = faults \/ faults' = faults + 1
      /\ pc = "rename" /\ cfg.reopen = "signal"
  BY DEF Rename, session, Fault
<1>3. Aged(d) /\ Open(k) /\ Dense(k)
  BY <1>0, <1>1, <1>2 DEF Inv, PerLog, Order
<1>4. fd[k] \in {Active, Unlinked} /\ fd \in [Logs -> Names \cup {Unlinked}]
  BY <1>0, <1>1, <1>2, <1>3 DEF Open, Inv, Types
<1>5. ~Lossy /\ up /\ k \in cfg.files => fd[k] = Active
  <2>1. Unlinked \notin DOMAIN d
    BY <1>0, <1>1, UnlinkedName DEF Directory
  <2> QED  BY <1>0, <1>2, <1>3, <1>4, <2>1 DEF Open
<1>6. \A moved \in SUBSET Backups(d) : Follow(moved) = fd[k]
  <2>1. Active \notin Backups(d) /\ Unlinked \notin Backups(d)
    BY <1>0, <1>1, BackupsOf, UnlinkedName DEF Backups
  <2> QED  BY <1>0, <1>4, <2>1 DEF Follow
<1>7. Lossy' <=> Lossy
  BY <1>0, <1>2 DEF Lossy
<1>8. \A l \in rotated : l \in Fresh
  BY <1>0, <1>1, <1>2 DEF Fresh
<1>9. CASE /\ dir' = [dir EXCEPT ![k] = ShiftAndRename(@)]
           /\ fd' = [fd EXCEPT ![k] = IF @ = Active THEN First ELSE Follow(Backups(dir[k]))]
           /\ NextCrossed(rotated \cup {k})
           /\ faults' = faults
  <2>1. DOMAIN dir' = Logs /\ e = ShiftAndRename(d) /\ \A l \in Logs \ {k} : dir'[l] = dir[l]
    BY <1>0, <1>1, <1>9, CurDirectory
  <2>2. /\ fd' \in [Logs -> Names \cup {Unlinked}]
        /\ fd'[k] = IF fd[k] = Active THEN First ELSE Unlinked
        /\ \A l \in Logs \ {k} : fd'[l] = fd[l]
    <3>1. Follow(Backups(d)) = fd[k] /\ First \in Names
      BY <1>6, FixedNames
    <3> QED  BY <1>0, <1>1, <1>4, <1>9, <3>1
  <2>3. Directory(e) /\ Renumbered(d, e, d[Active]) /\ Active \notin DOMAIN e
    BY <1>0, <1>1, <2>1, RenamedFiles
  <2>4. Aged(e) /\ Young(e)
    BY <1>0, <1>1, <1>3, <2>3, RenamedAged
  <2>5. Keeps(k)
    <3>1. Contents(e) = Contents(d)
      BY <1>0, <1>1, <2>3, RenumberedContents
    <3> QED  BY <3>1 DEF Keeps
  <2>6. First \in DOMAIN e /\ FirstGz \notin DOMAIN e
    BY <2>3 DEF Renumbered
  <2>7. Open(k)'
    <3>1. fd'[k] # Active /\ fd'[k] \in {First, Unlinked}
      BY <2>2, FixedNames, UnlinkedName
    <3>2. ~Lossy /\ up' /\ k \in cfg.files => fd'[k] = First
      BY <1>0, <1>2, <1>5, <2>2
    <3> QED  BY <1>0, <1>2, <1>7, <2>3, <2>6, <3>1, <3>2 DEF Open
  <2>8. Dense(k)'
    BY <1>0, <1>1, <1>3, <1>9, <2>3, RenumberedGapless DEF Dense
  <2>9. Leads(rotated \cup {k}, {k})
    BY <1>0, <1>2, <1>9, NextLeads
  <2>10. \A l \in Logs \ {k} : l \in rotated \cup {k} => l \in Fresh
    BY <1>8
  <2>11. pc \notin {"remove", "prune"} /\ {k} \subseteq Logs
    BY <1>0, <1>1, <1>2
  <2> QED  BY <1>0, <1>2, <2>1, <2>2, <2>3, <2>4, <2>5, <2>6, <2>7, <2>8, <2>9, <2>10, <2>11, LeadStep
<1>10. ASSUME NEW s \in Backups(dir[k]) \cup {Active}, NEW moved,
              moved = IF s = Active THEN Backups(dir[k]) ELSE Before(dir[k], s),
              dir' = [dir EXCEPT ![k] = Shifted(@, moved)],
              fd' = [fd EXCEPT ![k] = Follow(moved)],
              NextCrossed(rotated), Fault
       PROVE  Inv'
  <2>1. DOMAIN dir' = Logs /\ e = Shifted(d, moved) /\ \A l \in Logs \ {k} : dir'[l] = dir[l]
    BY <1>0, <1>1, <1>10, CurDirectory
  <2>2. Top(d, moved) /\ moved \subseteq Backups(d)
    BY <1>0, <1>1, <1>10, TopMoves DEF Top
  <2>3. fd' = fd
    BY <1>0, <1>1, <1>4, <1>6, <1>10, <2>2
  <2>4. Directory(e) /\ Contents(e) = Contents(d) /\ Active \in DOMAIN e
    BY <1>0, <1>1, <2>1, <2>2, ShiftedContents
  <2>5. Aged(e)
    BY <1>0, <1>1, <1>3, <2>1, <2>2, ShiftedAged
  <2>6. Keeps(k)
    BY <2>4 DEF Keeps
  <2>7. fd'[k] # First
    BY <1>0, <1>4, <2>3, FixedNames, UnlinkedName
  <2>8. Open(k)'
    BY <1>0, <1>2, <1>4, <1>5, <1>7, <2>3, <2>4, <2>7 DEF Open
  <2>9. Dense(k)'
    BY <1>0, <1>10 DEF Dense, Fault, Inv, Types
  <2>10. Leads(rotated, {k})
    BY <1>0, <1>2, <1>10, NextLeads
  <2>11. pc \notin {"remove", "prune"} /\ {k} \subseteq Logs
    BY <1>0, <1>1, <1>2
  <2> QED  BY <1>0, <1>1, <1>2, <1>4, <1>8, <2>1, <2>3, <2>4, <2>5, <2>6, <2>7, <2>8, <2>9, <2>10, <2>11, LeadStep
<1> QED  BY <1>0, <1>9, <1>10 DEF Rename

(* What a phase that changes only files of the log at hand leaves to show. *)
LEMMA CurStep ==
  ASSUME Inv, todo # {}, NEW k \in Logs, k = Cur, NEW e, dir' = [dir EXCEPT ![k] = e],
         NEW f \in Names \cup {Unlinked}, fd' = [fd EXCEPT ![k] = f]
  PROVE  /\ DOMAIN dir' = Logs /\ dir'[k] = e /\ \A l \in Logs \ {k} : dir'[l] = dir[l]
         /\ fd' \in [Logs -> Names \cup {Unlinked}]
         /\ fd'[k] = f /\ \A l \in Logs \ {k} : fd'[l] = fd[l]
  BY DEF Inv, Types

(* In the copytruncate mode a log is copied to path.1 and stays; a copy    *)
(* that is cut short stays too, and the log is not truncated then.         *)
LEMMA CopyStep == ASSUME Inv, CopyActive PROVE Inv'
<1>0. PICK k \in Logs : k = Cur /\ k \in todo
  BY CurrentLog DEF Inv, Position, CopyActive
<1> DEFINE d == dir[k]
           e == dir'[k]
<1>1. /\ Directory(d) /\ Active \in DOMAIN d /\ d[Active] \in Seq(Nat)
      /\ todo # {} /\ k \notin rotated /\ rotated \subseteq Logs /\ todo \subseteq Logs
      /\ todo \cap rotated = {} /\ \A l \in todo : Active \in DOMAIN dir[l]
  BY <1>0 DEF Inv, Types, Position, CopyActive, Directory
<1>2. /\ UNCHANGED <<cfg, fd, up, written, risky, torn, after, buffer>>
      /\ faults' = faults \/ faults' = faults + 1
      /\ pc = "rename" /\ cfg.reopen = "copytruncate" /\ expired \subseteq expired'
  BY DEF CopyActive, session, process, Fault
<1>3. Open(k) /\ Dense(k)
  BY DEF Inv, PerLog
<1>4. /\ Copied \in Seq(Nat) /\ Elements(Copied) \subseteq Elements(d[Active])
  <2>1. cfg.tail \in Nat
    BY ConfigParts DEF Inv
  <2> QED  BY <1>0, <1>1, <2>1, TailElements DEF Copied
<1>5. \A l \in rotated : l \in Fresh
  BY <1>1, <1>2 DEF Fresh
<1>6. fd' \in [Logs -> Names \cup {Unlinked}]
  BY <1>2 DEF Inv, Types
<1>7. ASSUME NEW c \in Seq(Nat), Elements(c) \subseteq Elements(d[Active]),
             dir' = [dir EXCEPT ![Cur] = With(ShiftBackups(@), First, c)]
      PROVE  /\ DOMAIN dir' = Logs /\ \A l \in Logs \ {k} : dir'[l] = dir[l]
             /\ Directory(e) /\ Keeps(k) /\ Renumbered(d, e, c)
             /\ Active \in DOMAIN e /\ e[Active] = d[Active]
  <2>1. DOMAIN dir' = Logs /\ e = With(ShiftBackups(d), First, c) /\ \A l \in Logs \ {k} : dir'[l] = dir[l]
    BY <1>0, <1>1, <1>7, CurDirectory
  <2>2. Directory(e) /\ Renumbered(d, e, c) /\ Active \in DOMAIN e /\ e[Active] = d[Active]
    BY <1>1, <2>1, CopiedFiles
  <2>3. Contents(e) = Contents(d)
    BY <1>1, <1>7, <2>2, RenumberedContents
  <2> QED  BY <2>1, <2>2, <2>3 DEF Keeps
<1>8. ASSUME DOMAIN dir' = Logs, \A l \in Logs \ {k} : dir'[l] = dir[l],
             Directory(e), Keeps(k), Active \in DOMAIN e, NextCrossed(rotated), Fault
      PROVE  Inv'
  <2>1. Open(k)' /\ Dense(k)'
    BY <1>2, <1>8 DEF Open, Dense, Fault, Inv, Types
  <2>2. Leads(rotated, {k})
    BY <1>0, <1>2, <1>8, NextLeads
  <2>3. pc \notin {"remove", "prune"} /\ {k} \subseteq Logs /\ cfg.reopen # "signal"
    BY <1>2
  <2> QED  BY <1>1, <1>2, <1>5, <1>6, <1>8, <2>1, <2>2, <2>3, LeadStep
<1>9. CASE /\ dir' = [dir EXCEPT ![Cur] = With(ShiftBackups(@), First, Copied)]
           /\ expired' = expired \cup (Elements(dir[Cur][Active]) \ Elements(Copied))
           /\ pc' = "truncate"
           /\ UNCHANGED <<todo, rotated, faults>>
  <2>1. /\ DOMAIN dir' = Logs /\ \A l \in Logs \ {k} : dir'[l] = dir[l]
        /\ Directory(e) /\ Keeps(k) /\ Renumbered(d, e, Copied)
        /\ Active \in DOMAIN e /\ e[Active] = d[Active]
    BY <1>4, <1>7, <1>9
  <2>2. First \in DOMAIN e /\ e[First] = Copied /\ FirstGz \notin DOMAIN e
    BY <2>1 DEF Renumbered
  <2>3. Cur' = Cur
    BY <1>9 DEF Cur
  <2>4. Position'
    <3>1. \A l \in todo : Active \in DOMAIN dir'[l]
      BY <1>1, <2>1
    <3> QED  BY <1>1, <1>2, <1>9, <3>1 DEF Position, Phase3
  <2>5. Copies'
    <3>1. Elements(dir'[k][Active]) \subseteq Elements(dir'[k][First]) \cup expired' \cup risky'
      BY <1>0, <1>9, <2>1, <2>2
    <3>2. Cur' = k
      BY <1>0, <2>3
    <3> QED  BY <1>9, <3>1, <3>2 DEF Copies
  <2>6. Fits(k)
    <3>1. Dense(k)'
      BY <1>1, <1>3, <1>9, <2>1, RenumberedGapless DEF Dense
    <3>2. Archived(k)'
      BY <2>2 DEF Archived
    <3>3. Open(k)' /\ Order(k)'
      BY <1>2, <2>1 DEF Open, Order
    <3> QED  BY <2>1, <3>1, <3>2, <3>3 DEF Fits
  <2>7. ASSUME NEW l \in Logs \ {k} PROVE Same(l)
    <3>1. l \in Fresh' => l \in rotated
      BY <1>0, <1>9, <2>3 DEF Fresh, Phase3
    <3> QED  BY <1>2, <1>5, <2>1, <3>1 DEF Same
  <2>8. buffer' \in Seq(Nat) /\ rotated' \subseteq Logs /\ todo' \subseteq Logs /\ risky \subseteq risky'
    BY <1>1, <1>2, <1>9 DEF Inv, Types
  <2> QED  BY <1>2, <1>6, <1>9, <2>1, <2>4, <2>5, <2>6, <2>7, <2>8, PassStep
<1>10. ASSUME NEW s \in Backups(dir[Cur]), dir' = [dir EXCEPT ![Cur] = Shifted(@, Before(@, s))],
              NextCrossed(rotated), Fault
       PROVE  Inv'
  <2>1. /\ DOMAIN dir' = Logs /\ e = Shifted(d, Before(d, s)) /\ \A l \in Logs \ {k} : dir'[l] = dir[l]
    BY <1>0, <1>1, <1>10, CurDirectory
  <2>2. Top(d, Before(d, s))
    BY <1>0, <1>1, <1>10, TopMoves
  <2>3. Directory(e) /\ Contents(e) = Contents(d) /\ Active \in DOMAIN e
    BY <1>1, <2>1, <2>2, ShiftedContents
  <2>4. Keeps(k)
    BY <2>3 DEF Keeps
  <2> QED  BY <1>8, <1>10, <2>1, <2>3, <2>4
<1>11. ASSUME NEW i \in 0 .. Len(Copied),
              dir' = [dir EXCEPT ![Cur] = With(ShiftBackups(@), First, SubSeq(Copied, 1, i))],
              NextCrossed(rotated), Fault
       PROVE  Inv'
  <2>1. SubSeq(Copied, 1, i) \in Seq(Nat) /\ Elements(SubSeq(Copied, 1, i)) \subseteq Elements(Copied)
    <3>1. 1 \in 1 .. Len(Copied) + 1
      BY <1>4
    <3> QED  BY <1>4, <3>1, SubElements
  <2> QED  BY <1>4, <1>7, <1>8, <1>11, <2>1
<1> QED  BY <1>9, <1>10, <1>11 DEF CopyActive

(* The log loses what its copy holds, or what was written behind it. *)
LEMMA TruncateStep == ASSUME Inv, Truncate PROVE Inv'
<1>0. PICK k \in Logs : k = Cur /\ k \in todo
  BY CurrentLog DEF Inv, Position, Truncate
<1> DEFINE d == dir[k]
           e == dir'[k]
<1>1. /\ Directory(d) /\ Active \in DOMAIN d
      /\ todo # {} /\ k \notin rotated /\ rotated \subseteq Logs
      /\ cfg.reopen = "copytruncate" /\ k \in Fresh
  BY <1>0 DEF Inv, Types, Position, Truncate, Fresh
<1>2. /\ UNCHANGED <<cfg, fd, up, written, risky, expired, torn, after, buffer>>
      /\ faults' = faults \/ faults' = faults + 1
      /\ pc = "truncate"
  BY DEF Truncate, session, process, Fault
<1>3. Open(k) /\ Dense(k) /\ First \in DOMAIN d /\ FirstGz \notin DOMAIN d
  BY <1>1, <1>2 DEF Inv, PerLog, Archived
<1>4. fd' \in [Logs -> Names \cup {Unlinked}]
  BY <1>2 DEF Inv, Types
<1>5. \A l \in rotated : l \in Fresh
  BY <1>1, <1>2 DEF Fresh
<1>6. CASE dir' = [dir EXCEPT ![Cur][Active] = << >>] /\ NextCrossed(rotated \cup {Cur}) /\ faults' = faults
  <2>1. DOMAIN dir' = Logs /\ e = [d EXCEPT ![Active] = << >>] /\ \A l \in Logs \ {k} : dir'[l] = dir[l]
    BY <1>0, <1>6 DEF Inv, Types
  <2>2. Put(d, e, Active, << >>)
    <3>1. << >> \in Seq(Nat)
      BY NoElements
    <3>2. Put(d, [d EXCEPT ![Active] = << >>], Active, << >>)
      BY <1>1, <3>1, EditedFiles
    <3> QED  BY <2>1, <3>2
  <2>3. Directory(e) /\ DOMAIN e = DOMAIN d /\ e[First] = d[First]
    BY <1>1, <1>3, <2>2, FixedNames DEF Put
  <2>4. Keeps(k)
    <3>1. /\ Contents(e) \subseteq Contents(d) \cup Elements(<< >>)
          /\ Contents(d) \subseteq Contents(e) \cup Elements(d[Active])
      BY <1>1, <2>2, PutContents
    <3>2. Elements(d[Active]) \subseteq Elements(d[First]) \cup expired \cup risky
      BY <1>0, <1>2 DEF Inv, Copies
    <3>3. Elements(d[First]) \subseteq Contents(e)
      BY <1>3, <2>3, InContents
    <3>4. Lossy
      BY <1>1 DEF Lossy
    <3> QED  BY <1>2, <3>1, <3>2, <3>3, <3>4, NoElements DEF Keeps
  <2>5. Open(k)' /\ Dense(k)'
    <3>1. Backups(e) = Backups(d)
      BY <2>2, <2>3, FixedNames DEF Backups
    <3> QED  BY <1>1, <1>2, <1>3, <1>6, <2>3, <3>1 DEF Open, Dense, Gapless, Indexes
  <2>6. Leads(rotated \cup {k}, {k})
    BY <1>0, <1>2, <1>6, NextLeads
  <2>7. \A l \in Logs \ {k} : l \in rotated \cup {k} => l \in Fresh
    BY <1>5
  <2>8. First \in DOMAIN e /\ FirstGz \notin DOMAIN e
    BY <1>3, <2>3
  <2>9. pc \notin {"remove", "prune"} /\ {k} \subseteq Logs /\ cfg.reopen # "signal"
    BY <1>1, <1>2
  <2> QED  BY <1>2, <1>4, <2>1, <2>3, <2>4, <2>5, <2>6, <2>7, <2>8, <2>9, LeadStep
<1>7. CASE NextCrossed(rotated) /\ Fault /\ UNCHANGED dir
  <2>1. Leads(rotated, {k})
    BY <1>0, <1>2, <1>7, NextLeads
  <2>2. Keeps(k) /\ Directory(e) /\ DOMAIN dir' = Logs
    BY <1>1, <1>7 DEF Keeps, Inv, Types
  <2>3. Open(k)' /\ Dense(k)'
    BY <1>1, <1>2, <1>3, <1>7 DEF Open, Dense, Fault, Inv, Types
  <2>4. pc \notin {"remove", "prune"} /\ {k} \subseteq Logs /\ cfg.reopen # "signal"
    BY <1>1, <1>2
  <2> QED  BY <1>1, <1>2, <1>4, <1>5, <1>7, <2>1, <2>2, <2>3, <2>4, LeadStep
<1> QED  BY <1>6, <1>7 DEF Truncate

(* What the steps of phase 3 find, and what they leave to show. *)
LEMMA AtArchive ==
  ASSUME Inv, pc \in Phase3 \ {"prune"}, NEW k \in Logs, k = Cur
  PROVE  /\ k \in todo /\ k \in Fresh /\ Lossy
         /\ Directory(dir[k]) /\ First \in DOMAIN dir[k] /\ dir[k][First] \in Seq(Nat)
         /\ pc # "remove" => FirstGz \notin DOMAIN dir[k]
         /\ cfg.reopen = "signal" => Aged(dir[k]) /\ Young(dir[k])
         /\ Open(k) /\ Dense(k)
<1>1. k \in todo /\ Lossy /\ pc \in Phase3 /\ pc # "prune" /\ Directory(dir[k])
  BY CurrentLog DEF Inv, Position, Types
<1>2. k \in Fresh
  BY <1>1 DEF Fresh
<1>3. First \in DOMAIN dir[k] /\ (pc # "remove" => FirstGz \notin DOMAIN dir[k])
  BY <1>1, <1>2 DEF Inv, PerLog, Archived
<1>4. (cfg.reopen = "signal" => Aged(dir[k]) /\ Young(dir[k])) /\ Open(k) /\ Dense(k)
  BY <1>2 DEF Inv, PerLog, Order
<1> QED  BY <1>1, <1>2, <1>3, <1>4 DEF Directory

(* A step on the archives of one log that stays in the archive phase keeps  *)
(* the invariant.                                                           *)
LEMMA ArchiveStep ==
  ASSUME Inv, pc \in Phase3 \ {"prune"}, pc' \in Phase3, NEW k \in Logs, k = Cur,
         UNCHANGED <<cfg, up, written, after, todo, rotated>>,
         faults' = faults \/ faults' = faults + 1,
         expired \subseteq expired', risky \subseteq risky', torn \subseteq torn', buffer' \in Seq(Nat),
         DOMAIN dir' = Logs, fd' \in [Logs -> Names \cup {Unlinked}],
         \A l \in Logs \ {k} : dir'[l] = dir[l] /\ fd'[l] = fd[l],
         Copies', Directory(dir'[k]), Keeps(k), Open(k)', Dense(k)',
         First \in DOMAIN dir'[k] \/ pc' = "prune",
         FirstGz \notin DOMAIN dir'[k] \/ pc' \in {"remove", "prune"},
         cfg.reopen = "signal" => Aged(dir'[k]) /\ Young(dir'[k])
  PROVE  Inv'
<1>1. Fresh' = Fresh /\ Cur' = Cur /\ (Lossy' <=> Lossy) /\ k \in todo /\ Lossy
  BY AtArchive DEF Fresh, Cur, Lossy, Phase3
<1>2. Position'
  BY <1>1 DEF Position, Phase3
<1>3. Fits(k)
  <2>1. Archived(k)' /\ Order(k)'
    BY <1>1 DEF Archived, Order
  <2> QED  BY <2>1 DEF Fits
<1>4. ASSUME NEW l \in Logs \ {k} PROVE Same(l)
  BY <1>1 DEF Same
<1>5. todo' \subseteq Logs /\ rotated' \subseteq Logs
  BY DEF Inv, Types
<1> QED  BY <1>2, <1>3, <1>4, <1>5, PassStep

(* KeepTail and CompressArchive read the archive before they replace it. *)
LEMMA ReadStep == ASSUME Inv, ReadTail \/ Zip PROVE Inv'
<1>0. PICK k \in Logs : k = Cur
  BY CurrentLog DEF Inv, Position, ReadTail, Zip, Phase3
<1> DEFINE d == dir[k]
<1>1. pc \in Phase3 \ {"prune"} /\ pc # "remove" /\ pc' \in Phase3
  BY DEF ReadTail, Zip, Phase3
<1>2. /\ Directory(d) /\ First \in DOMAIN d /\ d[First] \in Seq(Nat) /\ FirstGz \notin DOMAIN d
      /\ cfg.reopen = "signal" => Aged(d) /\ Young(d)
      /\ Open(k) /\ Dense(k)
  BY <1>0, <1>1, AtArchive
<1>3. /\ UNCHANGED <<cfg, dir, fd, up, written, risky, torn, after, todo, rotated>>
      /\ faults' = faults \/ faults' = faults + 1
      /\ expired \subseteq expired'
  BY DEF ReadTail, Zip, session, process, Fault
<1>4. Cur' = Cur
  BY <1>3 DEF Cur
<1>5. buffer' \in Seq(Nat) /\ Copies'
  <2>1. CASE ReadTail
    <3>1. KeepTail(d[First], cfg.tail) \in Seq(Nat) /\ Elements(KeepTail(d[First], cfg.tail)) \subseteq Elements(d[First])
      BY <1>2, ConfigParts, TailElements DEF Inv
    <3>2. \/ /\ buffer' = KeepTail(d[First], cfg.tail)
             /\ expired' = expired \cup (Elements(d[First]) \ Elements(buffer'))
             /\ pc' \in {"zip", "prune", "retail"}
          \/ buffer' = buffer /\ pc' \in {"zip", "prune"}
      BY <1>0, <2>1 DEF ReadTail
    <3>3. buffer' \in Seq(Nat)
      BY <3>1, <3>2 DEF Inv, Types
    <3>4. pc' = "retail" => /\ Elements(buffer') \subseteq Elements(d[First])
                            /\ Elements(d[First]) \subseteq Elements(buffer') \cup expired' \cup risky'
      BY <3>1, <3>2
    <3>5. Copies'
      BY <1>0, <1>3, <1>4, <3>2, <3>4 DEF Copies
    <3> QED  BY <3>3, <3>5
  <2>2. CASE Zip
    <3>1. \/ pc' = "install" /\ buffer' = d[First]
          \/ pc' = "prune" /\ buffer' = buffer
      BY <1>0, <2>2 DEF Zip
    <3> QED  BY <1>0, <1>2, <1>3, <1>4, <3>1 DEF Copies, Inv, Types
  <2> QED  BY <2>1, <2>2
<1>6. Keeps(k) /\ Open(k)' /\ Dense(k)'
  BY <1>2, <1>3 DEF Keeps, Open, Dense, Lossy, Inv, Types
<1>7. /\ DOMAIN dir' = Logs /\ fd' \in [Logs -> Names \cup {Unlinked}]
      /\ \A l \in Logs : dir'[l] = dir[l] /\ fd'[l] = fd[l]
  BY <1>3 DEF Inv, Types
<1>8. risky \subseteq risky'
  BY <1>3
<1> QED  BY <1>0, <1>1, <1>2, <1>3, <1>5, <1>6, <1>7, <1>8, ArchiveStep

(* path.1 loses what its tail does not keep, and what of the tail is not   *)
(* written again.                                                          *)
LEMMA RewriteStep == ASSUME Inv, RewriteTail PROVE Inv'
<1>0. PICK k \in Logs : k = Cur
  BY CurrentLog DEF Inv, Position, RewriteTail, Phase3
<1> DEFINE d == dir[k]
           e == dir'[k]
<1>1. pc = "retail" /\ pc \in Phase3 \ {"prune"} /\ pc # "remove" /\ pc' \in Phase3 /\ pc' \in {"zip", "prune"}
  BY DEF RewriteTail, Phase3
<1>2. /\ Directory(d) /\ First \in DOMAIN d /\ d[First] \in Seq(Nat) /\ FirstGz \notin DOMAIN d
      /\ cfg.reopen = "signal" => Aged(d) /\ Young(d)
      /\ Open(k) /\ Dense(k) /\ Lossy
  BY <1>0, <1>1, AtArchive
<1>3. /\ UNCHANGED <<cfg, fd, up, written, risky, expired, after, todo, rotated, buffer>>
      /\ faults' = faults \/ faults' = faults + 1
      /\ risky \subseteq risky' /\ torn \subseteq torn'
  BY DEF RewriteTail, process, session, pass, Fault
<1>4. /\ buffer \in Seq(Nat) /\ Elements(buffer) \subseteq Elements(d[First])
      /\ Elements(d[First]) \subseteq Elements(buffer) \cup expired \cup risky
  BY <1>0, <1>1 DEF Inv, Types, Copies
<1>5. buffer' \in Seq(Nat) /\ fd' \in [Logs -> Names \cup {Unlinked}] /\ Copies'
  BY <1>1, <1>3 DEF Inv, Types, Copies
<1>6. CASE UNCHANGED dir
  <2>1. Keeps(k) /\ Open(k)' /\ Dense(k)'
    BY <1>2, <1>3, <1>6 DEF Keeps, Open, Dense, Lossy, Inv, Types
  <2>2. DOMAIN dir' = Logs /\ \A l \in Logs : dir'[l] = dir[l] /\ fd'[l] = fd[l]
    BY <1>3, <1>6 DEF Inv, Types
  <2> QED  BY <1>0, <1>1, <1>2, <1>3, <1>5, <1>6, <2>1, <2>2, ArchiveStep
<1>7. ASSUME NEW c \in Seq(Nat), dir' = [dir EXCEPT ![k] = [d EXCEPT ![First] = c]],
             Elements(c) \subseteq Elements(buffer), Elements(buffer) \subseteq Elements(c) \cup torn'
      PROVE  Inv'
  <2>1. DOMAIN dir' = Logs /\ e = [d EXCEPT ![First] = c] /\ \A l \in Logs \ {k} : dir'[l] = dir[l]
    BY <1>0, <1>7 DEF Inv, Types
  <2>2. Put(d, e, First, c)
    <3>1. Put(d, [d EXCEPT ![First] = c], First, c)
      BY <1>2, EditedFiles
    <3> QED  BY <2>1, <3>1
  <2>3. /\ Elements(c) \subseteq Elements(d[First])
        /\ Elements(d[First]) \subseteq Elements(c) \cup expired \cup risky' \cup torn'
    BY <1>3, <1>4, <1>7
  <2>4. Directory(e) /\ DOMAIN e = DOMAIN d
    BY <1>2, <2>2 DEF Put
  <2>5. Keeps(k)
    <3>1. /\ Contents(e) \subseteq Contents(d) \cup Elements(c) /\ Elements(c) \subseteq Contents(e)
          /\ Contents(d) \subseteq Contents(e) \cup Elements(d[First])
      BY <1>2, <2>2, PutContents
    <3>2. Elements(d[First]) \subseteq Contents(d)
      BY <1>2, InContents
    <3> QED  BY <1>2, <1>3, <2>3, <3>1, <3>2 DEF Keeps
  <2>6. cfg.reopen = "signal" => Aged(e) /\ Young(e)
    BY <1>2, <2>2, <2>3, RewrittenAged
  <2>7. Open(k)' /\ Dense(k)'
    <3>1. Backups(e) = Backups(d)
      BY <2>4, FixedNames DEF Backups
    <3> QED  BY <1>2, <1>3, <2>4, <3>1 DEF Open, Dense, Gapless, Indexes, Lossy, Inv, Types
  <2>8. First \in DOMAIN e /\ FirstGz \notin DOMAIN e
    BY <1>2, <2>4
  <2> QED  BY <1>0, <1>1, <1>3, <1>5, <2>1, <2>4, <2>5, <2>6, <2>7, <2>8, ArchiveStep
<1>8. CASE dir' = [dir EXCEPT ![Cur][First] = buffer]
  <2>1. dir' = [dir EXCEPT ![k] = [d EXCEPT ![First] = buffer]]
    BY <1>0, <1>8
  <2> QED  BY <1>4, <1>7, <2>1
<1>9. ASSUME NEW i \in 0 .. Len(buffer) - 1,
             dir' = [dir EXCEPT ![Cur][First] = SubSeq(buffer, 1, i)],
             torn' = torn \cup (Elements(buffer) \ Elements(SubSeq(buffer, 1, i)))
      PROVE  Inv'
  <2> DEFINE c == SubSeq(buffer, 1, i)
  <2>1. c \in Seq(Nat) /\ Elements(c) \subseteq Elements(buffer)
    <3>1. 1 \in 1 .. Len(buffer) + 1 /\ i \in 0 .. Len(buffer)
      BY <1>4
    <3> QED  BY <1>4, <3>1, SubElements
  <2> HIDE DEF c
  <2>2. dir' = [dir EXCEPT ![k] = [d EXCEPT ![First] = c]]
    BY <1>0, <1>9 DEF c
  <2>3. Elements(buffer) \subseteq Elements(c) \cup torn'
    BY <1>9 DEF c
  <2> QED  BY <1>7, <2>1, <2>2, <2>3
<1> QED  BY <1>6, <1>8, <1>9 DEF RewriteTail

(* The compressed copy takes its place beside path.1. *)
LEMMA InstallStep == ASSUME Inv, Install PROVE Inv'
<1>0. PICK k \in Logs : k = Cur
  BY CurrentLog DEF Inv, Position, Install, Phase3
<1> DEFINE d == dir[k]
           e == dir'[k]
<1>1. pc = "install" /\ pc \in Phase3 \ {"prune"} /\ pc # "remove" /\ pc' \in Phase3
  BY DEF Install, Phase3
<1>2. /\ Directory(d) /\ First \in DOMAIN d /\ d[First] \in Seq(Nat) /\ FirstGz \notin DOMAIN d
      /\ cfg.reopen = "signal" => Aged(d) /\ Young(d)
      /\ Open(k) /\ Dense(k) /\ Lossy
  BY <1>0, <1>1, AtArchive
<1>3. /\ UNCHANGED <<cfg, fd, up, written, risky, expired, torn, after, todo, rotated, buffer>>
      /\ faults' = faults \/ faults' = faults + 1
  BY DEF Install, process, session, pass, Fault
<1>4. /\ buffer \in Seq(Nat) /\ Elements(buffer) \subseteq Elements(d[First])
      /\ Elements(d[First]) \subseteq Elements(buffer) \cup risky
  BY <1>0, <1>1 DEF Inv, Types, Copies
<1>5. fd' \in [Logs -> Names \cup {Unlinked}] /\ buffer' \in Seq(Nat) /\ Cur' = k
      /\ expired \subseteq expired' /\ risky \subseteq risky'
  BY <1>0, <1>3 DEF Inv, Types, Cur
<1>6. CASE pc' = "remove" /\ dir' = [dir EXCEPT ![Cur] = With(@, FirstGz, buffer)]
  <2>1. DOMAIN dir' = Logs /\ e = With(d, FirstGz, buffer) /\ \A l \in Logs \ {k} : dir'[l] = dir[l]
    BY <1>0, <1>6 DEF Inv, Types
  <2>2. Put(d, e, FirstGz, buffer)
    <3>1. Put(d, With(d, FirstGz, buffer), FirstGz, buffer)
      BY <1>2, <1>4, FixedNames, WithFiles
    <3> QED  BY <2>1, <3>1
  <2>3. /\ Directory(e) /\ DOMAIN e = DOMAIN d \cup {FirstGz} /\ e[First] = d[First] /\ e[FirstGz] = buffer
    BY <1>2, <2>2, FixedNames DEF Put
  <2>4. Keeps(k)
    <3>1. /\ Contents(e) \subseteq Contents(d) \cup Elements(buffer) /\ Contents(d) \subseteq Contents(e)
      BY <1>2, <2>2, PutContents
    <3>2. Elements(d[First]) \subseteq Contents(d)
      BY <1>2, InContents
    <3> QED  BY <1>4, <3>1, <3>2 DEF Keeps
  <2>5. cfg.reopen = "signal" => Aged(e) /\ Young(e)
    BY <1>2, <1>4, <2>2, RewrittenAged
  <2>6. Dense(k)'
    <3>1. Gapless(d) => Gapless(e)
      <4>1. /\ \A s \in DOMAIN e : \E t \in DOMAIN d : t[1] = s[1]
            /\ \A s \in DOMAIN d : \E t \in DOMAIN e : t[1] = s[1]
        BY <1>2, <2>3, FixedNames
      <4> QED  BY <4>1, SameGapless
    <3> QED  BY <1>2, <1>3, <3>1 DEF Dense, Inv, Types
  <2>7. Open(k)'
    <3>1. Active \in DOMAIN e <=> Active \in DOMAIN d
      BY <2>3, FixedNames
    <3> QED  BY <1>2, <1>3, <3>1 DEF Open, Lossy
  <2>8. Copies'
    BY <1>3, <1>4, <1>5, <1>6, <2>3 DEF Copies
  <2>9. First \in DOMAIN e
    BY <1>2, <2>3
  <2> QED  BY <1>0, <1>1, <1>3, <1>5, <1>6, <2>1, <2>3, <2>4, <2>5, <2>6, <2>7, <2>8, <2>9, ArchiveStep
<1>7. CASE pc' = "prune" /\ UNCHANGED dir
  <2>1. Copies' /\ Keeps(k) /\ Open(k)' /\ Dense(k)'
    BY <1>2, <1>3, <1>7 DEF Copies, Keeps, Open, Dense, Lossy, Inv, Types
  <2>2. DOMAIN dir' = Logs /\ \A l \in Logs : dir'[l] = dir[l] /\ fd'[l] = fd[l]
    BY <1>3, <1>7 DEF Inv, Types
  <2> QED  BY <1>0, <1>1, <1>2, <1>3, <1>5, <1>7, <2>1, <2>2, ArchiveStep
<1> QED  BY <1>6, <1>7 DEF Install

(* path.1 goes when its compressed copy holds what it held. *)
LEMMA RemoveStep == ASSUME Inv, Remove PROVE Inv'
<1>0. PICK k \in Logs : k = Cur
  BY CurrentLog DEF Inv, Position, Remove, Phase3
<1> DEFINE d == dir[k]
           e == dir'[k]
<1>1. pc = "remove" /\ pc \in Phase3 \ {"prune"} /\ pc' = "prune" /\ pc' \in Phase3
  BY DEF Remove, Phase3
<1>2. /\ Directory(d) /\ First \in DOMAIN d
      /\ cfg.reopen = "signal" => Aged(d) /\ Young(d)
      /\ Open(k) /\ Dense(k) /\ Lossy
  BY <1>0, <1>1, AtArchive
<1>3. /\ UNCHANGED <<cfg, up, written, risky, expired, torn, after, todo, rotated, buffer>>
      /\ faults' = faults \/ faults' = faults + 1
  BY DEF Remove, session, pass, Fault
<1>4. FirstGz \in DOMAIN d /\ Elements(d[First]) \subseteq Elements(d[FirstGz]) \cup risky
  BY <1>0, <1>1 DEF Inv, Copies
<1>5. buffer' \in Seq(Nat) /\ expired \subseteq expired' /\ risky \subseteq risky' /\ Copies'
  BY <1>1, <1>3 DEF Inv, Types, Copies
<1>6. CASE dir' = [dir EXCEPT ![Cur] = Without(@, {First})] /\ Unlink({First}) /\ faults' = faults
  <2>1. DOMAIN dir' = Logs /\ e = Without(d, {First}) /\ \A l \in Logs \ {k} : dir'[l] = dir[l]
    BY <1>0, <1>6 DEF Inv, Types
  <2>2. Removed(d, e, {First})
    BY <1>2, <2>1, WithoutFiles
  <2>3. /\ fd' \in [Logs -> Names \cup {Unlinked}]
        /\ fd'[k] = IF fd[k] = First THEN Unlinked ELSE fd[k]
        /\ \A l \in Logs \ {k} : fd'[l] = fd[l]
    BY <1>0, <1>6 DEF Unlink, Inv, Types
  <2>4. /\ Directory(e) /\ DOMAIN e = DOMAIN d \ {First} /\ \A s \in DOMAIN e : e[s] = d[s]
        /\ FirstGz \in DOMAIN e
    BY <1>4, <2>2, FixedNames DEF Removed
  <2>5. Keeps(k)
    <3>1. /\ Contents(e) \subseteq Contents(d)
          /\ \A x \in Contents(d) : x \in Contents(e) \/ x \in Elements(d[First])
      BY <2>2, RemovedContents
    <3>2. Elements(d[FirstGz]) \subseteq Contents(e)
      BY <2>4, InContents
    <3> QED  BY <1>2, <1>3, <1>4, <3>1, <3>2 DEF Keeps
  <2>6. cfg.reopen = "signal" => Aged(e) /\ Young(e)
    BY <1>2, <2>4, FewerAged
  <2>7. Open(k)'
    <3>1. /\ fd'[k] = Active => fd[k] = Active
          /\ fd'[k] # First
          /\ fd[k] \in {Active, First, Unlinked} => fd'[k] \in {Active, First, Unlinked}
      BY <2>3, FixedNames, UnlinkedName
    <3>2. Active \in DOMAIN d => Active \in DOMAIN e
      BY <2>4, FixedNames
    <3> QED  BY <1>2, <1>3, <3>1, <3>2 DEF Open, Lossy
  <2>8. Dense(k)'
    <3>1. Gapless(d) => Gapless(e)
      <4>1. /\ \A s \in DOMAIN e : \E t \in DOMAIN d : t[1] = s[1]
            /\ \A s \in DOMAIN d : \E t \in DOMAIN e : t[1] = s[1]
        BY <2>4, FixedNames
      <4> QED  BY <4>1, SameGapless
    <3> QED  BY <1>2, <1>6, <3>1 DEF Dense
  <2> QED  BY <1>0, <1>1, <1>3, <1>5, <2>1, <2>3, <2>4, <2>5, <2>6, <2>7, <2>8, ArchiveStep
<1>7. CASE UNCHANGED <<dir, fd>> /\ Fault
  <2>1. Keeps(k) /\ Open(k)' /\ Dense(k)'
    BY <1>2, <1>3, <1>7 DEF Keeps, Open, Dense, Lossy, Fault, Inv, Types
  <2>2. /\ DOMAIN dir' = Logs /\ fd' \in [Logs -> Names \cup {Unlinked}]
        /\ \A l \in Logs : dir'[l] = dir[l] /\ fd'[l] = fd[l]
    BY <1>7 DEF Inv, Types
  <2> QED  BY <1>0, <1>1, <1>2, <1>3, <1>5, <2>1, <2>2, ArchiveStep
<1> QED  BY <1>6, <1>7 DEF Remove

(* Retention drops the archives beyond its limit, which is never below one:*)
(* neither the log nor path.1.                                             *)
LEMMA PruneStep == ASSUME Inv, Prune PROVE Inv'
<1>0. PICK k \in Logs : k = Cur /\ k \in todo
  BY CurrentLog DEF Inv, Position, Prune, Phase3
<1> DEFINE d == dir[k]
           e == dir'[k]
<1>1. pc = "prune" /\ Directory(d) /\ Open(k) /\ Order(k) /\ Dense(k) /\ todo \subseteq Logs /\ todo # {}
  BY <1>0 DEF Prune, Inv, PerLog, Types
<1>2. /\ UNCHANGED <<cfg, up, written, risky, torn, after, rotated, buffer>>
      /\ Archive(todo \ {k})
      /\ faults' = faults \/ faults' = faults + 1
      /\ expired \subseteq expired'
  BY <1>0 DEF Prune, session, Fault
<1> DEFINE Pruned(l, gone) ==
             /\ IF gone = Excess(dir[l], cfg.backups) THEN faults' = faults ELSE Fault
             /\ dir' = [dir EXCEPT ![l] = Without(@, gone)]
             /\ expired' = expired \cup UNION {Elements(dir[l][s]) : s \in gone}
             /\ fd' = [fd EXCEPT ![l] = IF @ \in gone THEN Unlinked ELSE @]
<1>3. PICK gone \in SUBSET Excess(d, cfg.backups) : Pruned(k, gone)
  <2>1. \E gone \in SUBSET Excess(dir[Cur], cfg.backups) : Pruned(Cur, gone)
    BY DEF Prune, Unlink
  <2> HIDE DEF Pruned
  <2> QED  BY <1>0, <2>1
<1>4. \A s \in gone : s \in DOMAIN d /\ s # Active /\ s # First
  <2>1. cfg.backups \in Int /\ cfg.backups # 0
    BY ConfigParts DEF Inv
  <2>2. \A s \in gone : ~(cfg.backups < 0) /\ s \in DOMAIN d /\ s[1] >= 1 /\ s[1] > cfg.backups
    BY <2>1, InExcess
  <2>3. \A s \in gone : s[1] # 1 /\ s[1] # 0
    BY <2>1, <2>2
  <2> QED  BY <2>2, <2>3, FixedNames
<1>5. DOMAIN dir' = Logs /\ e = Without(d, gone) /\ \A l \in Logs \ {k} : dir'[l] = dir[l]
  BY <1>3 DEF Inv, Types
<1>6. /\ fd' \in [Logs -> Names \cup {Unlinked}]
      /\ fd'[k] = IF fd[k] \in gone THEN Unlinked ELSE fd[k]
      /\ \A l \in Logs \ {k} : fd'[l] = fd[l]
  BY <1>3 DEF Inv, Types
<1>7. Removed(d, e, gone)
  BY <1>1, <1>5, WithoutFiles
<1>8. Directory(e) /\ DOMAIN e = DOMAIN d \ gone /\ \A s \in DOMAIN e : e[s] = d[s]
  BY <1>7 DEF Removed
<1>9. Keeps(k)
  <2>1. /\ Contents(e) \subseteq Contents(d)
        /\ \A x \in Contents(d) : x \in Contents(e) \/ \E s \in gone \cap DOMAIN d : x \in Elements(d[s])
    BY <1>7, RemovedContents
  <2>2. \A x, s : s \in gone /\ x \in Elements(d[s]) => x \in expired'
    BY <1>3
  <2> QED  BY <2>1, <2>2 DEF Keeps
<1>10. Open(k)'
  <2>1. /\ fd'[k] = Active => fd[k] = Active
        /\ fd'[k] = First => fd[k] = First
        /\ fd[k] \in {Active, First, Unlinked} => fd'[k] = fd[k]
    <3>1. Unlinked \notin DOMAIN d
      BY <1>1, UnlinkedName DEF Directory
    <3> QED  BY <1>4, <1>6, <3>1, UnlinkedName
  <2>2. Active \in DOMAIN e <=> Active \in DOMAIN d
    BY <1>4, <1>8
  <2>3. fd[k] \in {Active, First, Unlinked} /\ fd[k] \in DOMAIN d => fd[k] \in DOMAIN e
    <3>1. Unlinked \notin DOMAIN d
      BY <1>1, UnlinkedName DEF Directory
    <3> QED  BY <1>4, <1>8, <3>1
  <2> QED  BY <1>1, <1>2, <2>1, <2>2, <2>3 DEF Open, Lossy
<1>11. Dense(k)'
  <2>1. CASE gone = Excess(d, cfg.backups)
    <3>1. Gapless(d) => Gapless(e)
      BY <1>1, <1>7, <2>1, PrunedGapless, ConfigParts DEF Inv
    <3> QED  BY <1>1, <1>3, <2>1, <3>1 DEF Dense
  <2>2. CASE gone # Excess(d, cfg.backups)
    BY <1>3, <2>2 DEF Dense, Fault, Inv, Types
  <2> QED  BY <2>1, <2>2
<1>12. cfg.reopen = "signal" => Aged(e) /\ (fd'[k] = First => Young(e))
  <2>1. (Aged(d) => Aged(e)) /\ (Young(d) => Young(e))
    BY <1>8, FewerAged
  <2>2. fd'[k] = First => fd[k] = First
    BY <1>6, UnlinkedName
  <2> QED  BY <1>1, <2>1, <2>2 DEF Order
<1>13. Leads(todo \ {k}, {k})
  <2>1. rotated' \subseteq Logs
    BY <1>2 DEF Inv, Types
  <2>2. todo \ {k} \in SUBSET Logs /\ Archive(todo \ {k})
    BY <1>1, <1>2
  <2> QED  BY <2>1, <2>2, ArchiveLeads
<1>14. \A l \in Logs \ {k} : l \in todo \ {k} => l \in Fresh /\ l # Cur
  BY <1>0, <1>1 DEF Fresh, Phase3
<1>15. k \notin todo \ {k} /\ {k} \subseteq Logs /\ risky \subseteq risky'
  BY <1>2
<1> QED  BY <1>2, <1>5, <1>6, <1>8, <1>9, <1>10, <1>11, <1>12, <1>13, <1>14, <1>15, LeadStep

----------------------------------------------------------------------------
(* The theorems.                                                           *)

(* The invariant holds before the rotator runs. *)
LEMMA RotationInit == Init => Inv
<1> SUFFICES ASSUME Init PROVE Inv
  OBVIOUS
<1>1. DOMAIN dir = Logs /\ \A l \in Logs : dir[l] = << >> /\ DOMAIN dir[l] = {} /\ Contents(dir[l]) = {}
  BY DEF Init, Contents
<1>2. Types
  <2>1. \A l \in Logs : Directory(dir[l])
    BY <1>1 DEF Directory
  <2> QED  BY <1>1, <2>1, RotationAssumption DEF Init, Types, Idle
<1>3. Position /\ Copies
  BY DEF Init, Position, Copies, Phase3
<1>4. PerLog
  <2>1. \A l \in Logs : fd[l] = Unlinked /\ l \notin Fresh
    BY DEF Init, Fresh, Phase3
  <2>2. ASSUME NEW l \in Logs PROVE Archived(l) /\ Open(l) /\ Order(l) /\ Dense(l)
    <3>1. Archived(l)
      BY <2>1 DEF Archived
    <3>2. Open(l)
      BY <2>1, UnlinkedName DEF Open, Init
    <3>3. Order(l)
      BY <1>1, <2>1, UnlinkedName DEF Order, Aged
    <3>4. Dense(l)
      BY <1>1 DEF Dense, Gapless, Indexes, Backups
    <3> QED  BY <3>1, <3>2, <3>3, <3>4
  <2> QED  BY <2>2 DEF PerLog
<1>5. Numbered /\ Separate /\ Safe
  BY <1>1 DEF Numbered, Separate, Safe, Init
<1> QED  BY <1>2, <1>3, <1>4, <1>5 DEF Inv

(* No step of the process, the session or the environment breaks it. *)
LEMMA RotationNext == Inv /\ [Next]_vars => Inv'
<1> SUFFICES ASSUME Inv, [Next]_vars PROVE Inv'
  OBVIOUS
<1>1. CASE Process
  BY <1>1, ProcessStep
<1>2. CASE Phases
  BY <1>2, CollectStep, RenameStep, CopyStep, TruncateStep, SignalStep, ReadStep, RewriteStep,
     InstallStep, RemoveStep, PruneStep DEF Phases
<1>3. CASE (Session /\ ~Phases) \/ MakeDir \/ Stop \/ DropEvents \/ Crash
  BY <1>3, SessionStep DEF Session
<1>4. CASE UNCHANGED vars
  <2>1. after \in {"select", "resync", "rewatch"}
    BY DEF Inv, Types
  <2> QED  BY <1>4, <2>1, QuietStep DEF vars, process, session, pass
<1> QED  BY <1>1, <1>2, <1>3, <1>4 DEF Next

(* The inductive invariant holds in every reachable state, for every set of *)
(* logs, configuration and bound.                                           *)
THEOREM RotationInvariant == Spec => []Inv
  BY RotationInit, RotationNext, PTL DEF Spec

(* A tail is rewritten only where one is configured, and torn only by a    *)
(* failed call.                                                            *)
TornInv ==
  /\ faults \in Nat /\ after \in {"select", "resync", "rewatch"}
  /\ pc \in {"tail", "retail"} => cfg.tail > 0
  /\ torn # {} => cfg.tail > 0 /\ faults > 0

(* Only RewriteTail tears a tail, and only an oversized archive leads to it.*)
LEMMA OnlyTailsTorn == Spec => []TornInv
<1>1. Init => TornInv
  BY DEF Init, TornInv
<1>2. TornInv /\ [Next]_vars => TornInv'
  <2> SUFFICES ASSUME TornInv, [Next]_vars PROVE TornInv'
    OBVIOUS
  <2> USE DEF TornInv
  <2>1. ASSUME NEW logs, Archive(logs), UNCHANGED after PROVE pc' \in {"tail", "retail"} => cfg.tail > 0
    BY <2>1 DEF Archive, FirstStep, Oversized
  <2>2. ASSUME NEW logs, NextCrossed(logs), UNCHANGED after PROVE pc' \in {"tail", "retail"} => cfg.tail > 0
    BY <2>1, <2>2 DEF NextCrossed
  <2>3. CASE Process \/ MakeDir \/ Stop \/ DropEvents
    <3>1. CASE Process
      <4>1. UNCHANGED <<cfg, torn, after, pc, faults>>
        BY <3>1 DEF Process, Write, Reopen, StartProcess, Exits, session
      <4> QED  BY <4>1
    <3>2. CASE MakeDir \/ Stop \/ DropEvents
      BY <3>2 DEF MakeDir, Stop, DropEvents, Fault, session
    <3> QED  BY <2>3, <3>1, <3>2
  <2>4. CASE Crash
    BY <2>4 DEF Crash, Fault
  <2>5. CASE StartRun \/ (\E e \in cfg.files \cup {Dir} : HandleEvent(e)) \/ TimerFires \/ Poll
             \/ HandleOverflow \/ Resync \/ RemoveWatches
    BY <2>5 DEF StartRun, HandleEvent, TimerFires, Poll, HandleOverflow, Resync, RemoveWatches,
       SyncWatches, RotatePass, Fault
  <2>6. CASE Collect
    BY <2>6 DEF Collect, session
  <2>7. CASE Rename \/ Truncate
    <3>1. /\ faults' \in Nat /\ faults' >= faults /\ UNCHANGED <<cfg, after, torn>>
          /\ \E logs : NextCrossed(logs)
      BY <2>7 DEF Rename, Truncate, Fault, session
    <3> QED  BY <2>2, <3>1
  <2>8. CASE CopyActive
    <3>1. /\ faults' \in Nat /\ faults' >= faults /\ UNCHANGED <<cfg, after, torn>>
          /\ pc' = "truncate" \/ NextCrossed(rotated)
      BY <2>8 DEF CopyActive, Fault, session
    <3> QED  BY <2>2, <3>1
  <2>9. CASE SignalOnce
    <3>1. /\ faults' \in Nat /\ faults' >= faults /\ UNCHANGED <<cfg, after, torn>>
          /\ Archive(rotated)
      BY <2>9 DEF SignalOnce, Fault, session
    <3> QED  BY <2>1, <3>1
  <2>10. CASE Prune
    <3>1. /\ faults' \in Nat /\ faults' >= faults /\ UNCHANGED <<cfg, after, torn>>
          /\ Archive(todo \ {Cur})
      BY <2>10 DEF Prune, Fault, session
    <3> QED  BY <2>1, <3>1
  <2>11. CASE ReadTail \/ RewriteTail \/ Zip \/ Install \/ Remove
    BY <2>11 DEF ReadTail, RewriteTail, Zip, Install, Remove, Fault, session
  <2>12. CASE UNCHANGED vars
    BY <2>12 DEF vars, session
  <2> QED  BY <2>3, <2>4, <2>5, <2>6, <2>7, <2>8, <2>9, <2>10, <2>11, <2>12 DEF Next, Session, Phases
<1> QED  BY <1>1, <1>2, PTL DEF Spec

(* rotatePass, whatever fails and whenever ezx is killed: every chunk that *)
(* the process wrote is in the log, in an archive, or was dropped by       *)
(* retention or with the head of an oversized file.  Otherwise compression,*)
(* KeepTail and copytruncate lose no more than what was written to an      *)
(* archive (before the process reopened) or between a copy and its         *)
(* truncate, and a KeepTail whose rewrite failed what it did not write back.*)
THEOREM ChunksKept == Spec => []Kept
<1>1. Inv /\ TornInv => Kept
  BY DEF Inv, Safe, TornInv, Kept, Stored, Contents
<1> QED  BY <1>1, RotationInvariant, OnlyTailsTorn, PTL

(* Renumbering in shiftBackups and ShiftAndRename: in the signal mode a    *)
(* higher index is older, also after a shift that stopped halfway, and the *)
(* only exception is an archive beside the copy that compression left.     *)
THEOREM ArchivesOrdered == Spec => []ArchiveOrder
<1>1. Inv => ArchiveOrder
  BY DEF Inv, PerLog, Order, Aged, Older, ArchiveOrder
<1> QED  BY <1>1, RotationInvariant, PTL

(* Only retention drops chunks when nothing is cut to its tail. *)
LEMMA OnlyPruneExpires ==
  ASSUME Inv, [Next]_vars, cfg.tail = 0, expired' # expired
  PROVE  Prune
<1>1. ASSUME CopyActive PROVE FALSE
  <2>1. Copied = dir[Cur][Active]
    BY DEF Copied, Oversized, KeepTail, Inv
  <2> QED  BY <1>1, <2>1 DEF CopyActive
<1>2. ASSUME ReadTail PROVE FALSE
  <2>1. KeepTail(dir[Cur][First], cfg.tail) = dir[Cur][First]
    BY DEF KeepTail
  <2> QED  BY <1>2, <2>1 DEF ReadTail
<1>3. ~Process /\ ~MakeDir /\ ~Stop /\ ~DropEvents /\ ~Crash /\ ~UNCHANGED vars
  BY DEF Process, Write, Reopen, StartProcess, Exits, MakeDir, Stop, DropEvents, Crash, vars
<1>4. Session
  BY <1>3 DEF Next
<1>5. Phases
  BY <1>4 DEF Session, StartRun, HandleEvent, TimerFires, Poll, HandleOverflow, Resync, RemoveWatches
<1> QED  BY <1>1, <1>2, <1>5 DEF Phases, Collect, Rename, Truncate, SignalOnce, RewriteTail, Zip,
            Install, Remove

(* PruneBackups: as long as no rotation failed, nothing is dropped from a  *)
(* log before it has all the archives that MaxBackups asks for.            *)
THEOREM RetentionRespected == Spec => RetentionKept
<1>1. ASSUME Inv, [Next]_vars, faults' = 0, cfg.tail = 0, NEW l \in Logs,
             Stored(l) \cap (expired' \ expired) # {}
      PROVE  1 .. cfg.backups \subseteq Indexes(dir'[l])
  <2>1. Prune
    BY <1>1, OnlyPruneExpires
  <2>2. PICK k \in Logs : k = Cur /\ k \in todo
    BY <1>1, <2>1, CurrentLog DEF Inv, Position, Prune, Phase3
  <2> DEFINE X(c) == Excess(dir[c], cfg.backups)
             Pruned(c, gone) ==
               /\ IF gone = X(c) THEN faults' = faults ELSE Fault
               /\ dir' = [dir EXCEPT ![c] = Without(@, gone)]
               /\ expired' = expired \cup UNION {Elements(dir[c][s]) : s \in gone}
  <2>3. PICK gone \in SUBSET X(k) : Pruned(k, gone)
    <3>1. \E gone \in SUBSET X(Cur) : Pruned(Cur, gone)
      BY <2>1 DEF Prune
    <3> HIDE DEF Pruned, X
    <3> QED  BY <2>2, <3>1
  <2>4. gone = X(k) /\ faults = 0
    <3>1. faults \in Nat
      BY <1>1 DEF Inv, Types
    <3> QED  BY <1>1, <2>3, <3>1 DEF Fault
  <2>5. cfg.backups \in Int /\ cfg.backups # 0
    BY <1>1, ConfigParts DEF Inv
  <2>6. PICK x : x \in Stored(l) /\ \E s \in gone : x \in Elements(dir[k][s])
    BY <1>1, <2>3
  <2>7. PICK s \in gone : x \in Elements(dir[k][s])
    BY <2>6
  <2>8. s \in DOMAIN dir[k] /\ s[1] >= 1 /\ ~(cfg.backups < 0) /\ s[1] > cfg.backups
    BY <2>3, <2>5, <2>7, InExcess
  <2>9. l = k
    <3>1. x \in Contents(dir[k]) /\ x \in Contents(dir[l])
      BY <2>6, <2>7, <2>8, InContents DEF Stored, Contents
    <3> QED  BY <1>1, <2>2, <3>1 DEF Inv, Separate
  <2>10. Directory(dir[k]) /\ Gapless(dir[k]) /\ s[1] \in Nat
    <3>1. Directory(dir[k]) /\ Dense(k)
      BY <1>1 DEF Inv, PerLog, Types
    <3> QED  BY <2>4, <2>8, <3>1, NameParts DEF Dense, Directory
  <2>11. dir'[k] = Without(dir[k], X(k))
    BY <1>1, <2>3, <2>4 DEF Inv, Types
  <2>12. Removed(dir[k], dir'[k], X(k))
    BY <2>10, <2>11, WithoutFiles
  <2>13. ASSUME NEW j \in 1 .. cfg.backups PROVE j \in Indexes(dir'[k])
    <3>1. s[1] \in Indexes(dir[k]) /\ j \in 1 .. s[1]
      BY <2>5, <2>8, <2>10, InIndexes
    <3>2. PICK t \in DOMAIN dir[k] : t[1] >= 1 /\ t[1] = j
      BY <2>10, <3>1, InIndexes DEF Gapless
    <3>3. t \notin X(k)
      BY <2>5, <3>2, InExcess
    <3>4. t \in DOMAIN dir'[k]
      BY <2>12, <3>2, <3>3 DEF Removed
    <3> QED  BY <3>2, <3>4, InIndexes
  <2> QED  BY <2>9, <2>13
<1>2. Inv /\ [Next]_vars =>
        [faults' = 0 /\ cfg.tail = 0 =>
           \A l \in Logs : Stored(l) \cap (expired' \ expired) # {} =>
             1 .. cfg.backups \subseteq Indexes(dir'[l])]_vars
  BY <1>1
<1> QED  BY <1>2, RotationInvariant, PTL DEF Spec, RetentionKept
=============================================================================
