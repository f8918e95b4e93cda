---------------------------- MODULE LogRotation ----------------------------
(***************************************************************************)
(* The rotation of the log files that a supervised process writes itself   *)
(* (internal/repository/logrotate): the session of Rotator.Run with its    *)
(* watches, timer and poll, the pass of rotatePass step by step, and the   *)
(* process that writes, reopens on a signal, dies and comes back meanwhile.*)
(*                                                                         *)
(* A log holds chunks, numbered in the order they are written.  What the   *)
(* process has open is the name its file has now: the descriptor follows a *)
(* rename, and a removed file has no name.                                 *)
(***************************************************************************)
EXTENDS Archives

CONSTANTS
  Logs,      \* the log files
  Dir,       \* stands for the directory in the event queue
  Configs,   \* the configurations that are run
  MaxChunks, \* bound on the chunks written
  MaxStarts, \* bound on the starts of the process
  MaxFaults  \* bound on failed calls, dropped events and crashes

(* files are those the patterns match; limit is the threshold in chunks;   *)
(* tail > 0 stands for an Oversized section with a limit of its own, big,  *)
(* that keeps tail chunks; known: the signal has a name the system knows;  *)
(* late: the directory appears at run time.                                *)
Config == [files : SUBSET Logs, reopen : {"signal", "copytruncate"}, limit : Nat, backups : Int,
           compress : BOOLEAN, tail : Nat, big : Nat, gzipTail : BOOLEAN,
           known : BOOLEAN, poll : BOOLEAN, late : BOOLEAN]

ASSUME RotationAssumption ==
  /\ Configs \subseteq Config
  /\ \A c \in Configs : c.limit >= 1 /\ c.backups # 0
  /\ MaxChunks \in Nat /\ MaxStarts \in Nat /\ MaxFaults \in Nat
  /\ Dir \notin Logs

VARIABLES
  cfg,      \* domain.LogRotateConfig; never changes
  dir,      \* for every log, its names and what the files hold
  fd,       \* the name of the file the process has open
  up,       \* the process runs
  starts,   \* how often it was started
  pending,  \* logs the process will reopen when it takes the signal
  written,  \* chunks written so far
  expired,  \* chunks that retention or KeepTail dropped
  risky,    \* chunks written to an archive, or between a copy and its truncate
  torn,     \* chunks of a tail that KeepTail truncated and did not write back
  made,     \* the log directory exists
  watch,    \* what is watched: "dir", its "ancestor" or "none"
  events,   \* queued change events
  overflow, \* the kernel dropped events
  armed,    \* the throttle timer runs
  pc,       \* the position of Run and of rotatePass
  after,    \* what Run does after the pass
  todo,     \* crossed logs the current phase has not handled
  size,     \* the size of a crossed log; 0 for the others
  rotated,  \* crossed logs that got their archive
  buffer,   \* what KeepTail or CompressArchive has read
  due,      \* a change past the limit awaits its pass, or its pass was skipped
  faults    \* faults so far

process == <<fd, up, starts, pending, written, risky>>
session == <<watch, events, overflow, armed, after>>
pass == <<todo, size, rotated, buffer>>
vars == <<cfg, dir, process, expired, torn, made, session, pc, pass, due, faults>>

Unlinked == <<-1, "">>

TypeOK ==
  /\ cfg \in Configs
  /\ \A l \in Logs : DOMAIN dir[l] \subseteq Nat \X Exts
  /\ fd \in [Logs -> (Nat \X Exts) \cup {Unlinked}]
  /\ up \in BOOLEAN /\ made \in BOOLEAN /\ overflow \in BOOLEAN /\ armed \in BOOLEAN
  /\ pending \subseteq Logs /\ events \subseteq Logs \cup {Dir}
  /\ todo \subseteq Logs /\ rotated \subseteq Logs
  /\ size \in [Logs -> Nat]
  /\ written \in Nat /\ starts \in Nat /\ faults \in Nat
  /\ expired \subseteq 1 .. written /\ risky \subseteq 1 .. written /\ torn \subseteq 1 .. written
  /\ watch \in {"dir", "ancestor", "none"}
  /\ after \in {"select", "resync", "rewatch"}
  /\ due \in [Logs -> {"no", "heard", "skipped"}]
  /\ pc \in {"start", "select", "pass", "rename", "truncate", "signal", "tail", "retail",
             "zip", "install", "remove", "prune", "resync", "rewatch", "readd", "stopped"}

(* rotateThreshold *)
Limit == IF cfg.tail > 0 /\ cfg.big < cfg.limit THEN cfg.big ELSE cfg.limit

Crossed(d) == Active \in DOMAIN d /\ Len(d[Active]) >= Limit

Oversized(l) == cfg.tail > 0 /\ size[l] >= cfg.big

Elements(content) == {content[i] : i \in DOMAIN content}
Stored(l) == UNION {Elements(dir[l][s]) : s \in DOMAIN dir[l]}

(* The log a phase is at: the logs are handled in a fixed order. *)
Cur == CHOOSE l \in todo : TRUE

Watched == IF made THEN "dir" ELSE "ancestor"

Init ==
  /\ cfg \in Configs
  /\ dir = [l \in Logs |-> << >>]
  /\ fd = [l \in Logs |-> Unlinked]
  /\ up = FALSE /\ starts = 0 /\ pending = {} /\ written = 0
  /\ expired = {} /\ risky = {} /\ torn = {}
  /\ made = ~cfg.late
  /\ watch = "none" /\ events = {} /\ overflow = FALSE /\ armed = FALSE
  /\ pc = "start" /\ after = "select"
  /\ todo = {} /\ size = [l \in Logs |-> 0] /\ rotated = {} /\ buffer = << >>
  /\ due = [l \in Logs |-> "no"]
  /\ faults = 0

----------------------------------------------------------------------------
(* The process                                                             *)

(* What a watch of the directory tells of. *)
Heard(logs) == IF watch = "dir" THEN events \cup logs ELSE events

(* Open with O_CREATE and O_APPEND: only a new file is a change. *)
Created(logs) == {l \in logs : Active \notin DOMAIN dir[l]}
Opened(l) == IF Active \in DOMAIN dir[l] THEN dir[l] ELSE With(dir[l], Active, << >>)

(* The process appends a chunk to the file it has open. *)
Write(l) ==
  /\ up /\ written < MaxChunks
  /\ LET n == written + 1 IN
     /\ written' = n
     /\ dir' = IF fd[l] \in DOMAIN dir[l]
               THEN [dir EXCEPT ![l][fd[l]] = Append(@, n)] ELSE dir
     /\ risky' = IF fd[l] # Active \/ (pc = "truncate" /\ l = Cur)
                 THEN risky \cup {n} ELSE risky
     /\ events' = IF fd[l] = Active THEN Heard({l}) ELSE events
     /\ due' = IF fd[l] = Active /\ watch = "dir" /\ Crossed(dir'[l])
               THEN [due EXCEPT ![l] = "heard"] ELSE due
  /\ UNCHANGED <<cfg, fd, up, starts, pending, expired, torn, made, watch, overflow, armed,
                 after, pc, pass, faults>>

(* It takes the signal, some time after it was sent. *)
Reopen(l) ==
  /\ up /\ l \in pending
  /\ pending' = pending \ {l}
  /\ dir' = [dir EXCEPT ![l] = Opened(l)]
  /\ fd' = [fd EXCEPT ![l] = Active]
  /\ events' = Heard(Created({l}))
  /\ UNCHANGED <<cfg, up, starts, written, expired, risky, torn, made, watch, overflow, armed,
                 after, pc, pass, due, faults>>

MakeDir ==
  /\ ~made
  /\ made' = TRUE
  /\ events' = IF watch = "ancestor" THEN events \cup {Dir} ELSE events
  /\ UNCHANGED <<cfg, dir, process, expired, torn, watch, overflow, armed, after, pc, pass, due,
                 faults>>

StartProcess ==
  /\ ~up /\ made /\ starts < MaxStarts
  /\ up' = TRUE /\ starts' = starts + 1
  /\ dir' = [l \in Logs |-> IF l \in cfg.files THEN Opened(l) ELSE dir[l]]
  /\ fd' = [l \in Logs |-> IF l \in cfg.files THEN Active ELSE Unlinked]
  /\ events' = Heard(Created(cfg.files))
  /\ UNCHANGED <<cfg, pending, written, expired, risky, torn, made, watch, overflow, armed,
                 after, pc, pass, due, faults>>

Exits ==
  /\ up
  /\ up' = FALSE /\ pending' = {}
  /\ fd' = [l \in Logs |-> Unlinked]
  /\ UNCHANGED <<cfg, dir, starts, written, expired, risky, torn, made, session, pc, pass, due,
                 faults>>

----------------------------------------------------------------------------
(* Rotator.Run                                                             *)

Fault == faults < MaxFaults /\ faults' = faults + 1

(* syncWatches: when the directory cannot be added, the watch on its       *)
(* ancestor is dropped all the same.                                       *)
SyncWatches ==
  \/ watch' = Watched /\ faults' = faults
  \/ watch # Watched /\ watch' = "none" /\ Fault

(* A new watch is a change, and so is a dropped one. *)
Changed == watch' # watch

StartRun ==
  /\ pc = "start"
  /\ SyncWatches
  /\ pc' = "pass" /\ after' = "select"
  /\ UNCHANGED <<cfg, dir, process, expired, torn, made, events, overflow, armed, pass, due>>

(* Mutant: only a changed watch arms the timer. *)
HandleEventOfWatch(e) ==
  /\ pc = "select" /\ e \in events
  /\ events' = events \ {e}
  /\ SyncWatches
  /\ armed' = (armed \/ Changed)
  /\ UNCHANGED <<cfg, dir, process, expired, torn, made, overflow, after, pc, pass, due>>

HandleEvent(e) ==
  /\ pc = "select" /\ e \in events
  /\ events' = events \ {e}
  /\ SyncWatches
  /\ armed' = (armed \/ Changed \/ e \in Logs)
  /\ UNCHANGED <<cfg, dir, process, expired, torn, made, overflow, after, pc, pass, due>>

RotatePass(next) == pc = "select" /\ pc' = "pass" /\ after' = next

TimerFires ==
  /\ armed /\ RotatePass("resync")
  /\ armed' = FALSE
  /\ UNCHANGED <<cfg, dir, process, expired, torn, made, watch, events, overflow, pass, due, faults>>

Poll ==
  /\ cfg.poll /\ RotatePass("resync")
  /\ UNCHANGED <<cfg, dir, process, expired, torn, made, watch, events, overflow, armed, pass, due,
                 faults>>

(* Mutant: the watches are added again, but no pass is made. *)
OverflowWithoutPass ==
  /\ overflow /\ pc = "select" /\ pc' = "rewatch"
  /\ overflow' = FALSE
  /\ UNCHANGED <<cfg, dir, process, expired, torn, made, watch, events, armed, after, pass, due, faults>>

HandleOverflow ==
  /\ overflow /\ RotatePass("rewatch")
  /\ overflow' = FALSE
  /\ UNCHANGED <<cfg, dir, process, expired, torn, made, watch, events, armed, pass, due, faults>>

(* The context of the node is cancelled. *)
Stop ==
  /\ pc = "select"
  /\ pc' = "stopped"
  /\ UNCHANGED <<cfg, dir, process, expired, torn, made, session, pass, due, faults>>

(* The watches are reconciled after a pass, and what changed is ignored. *)
Resync ==
  /\ pc \in {"resync", "readd"}
  /\ SyncWatches
  /\ pc' = "select"
  /\ UNCHANGED <<cfg, dir, process, expired, torn, made, events, overflow, armed, after, pass, due>>

(* After an overflow every watch is removed before it is added again. *)
RemoveWatches ==
  /\ pc = "rewatch"
  /\ watch' = "none" /\ pc' = "readd"
  /\ UNCHANGED <<cfg, dir, process, expired, torn, made, events, overflow, armed, after, pass, due,
                 faults>>

----------------------------------------------------------------------------
(* rotatePass                                                              *)

(* The target is looked at once, before any file is; without one the pass  *)
(* is skipped.                                                             *)
NoTarget == cfg.reopen = "signal" /\ ~up

Collect ==
  /\ pc = "pass"
  /\ todo' = IF NoTarget THEN {} ELSE {l \in cfg.files : Crossed(dir[l])}
  /\ size' = [l \in Logs |-> IF l \in todo' THEN Len(dir[l][Active]) ELSE 0]
  /\ rotated' = {}
  /\ due' = [l \in Logs |-> IF NoTarget /\ due[l] # "no" THEN "skipped" ELSE "no"]
  /\ pc' = IF todo' = {} THEN after ELSE "rename"
  /\ UNCHANGED <<cfg, dir, process, expired, torn, made, session, buffer, faults>>

(* Where phase 3 begins with log l. *)
FirstStep(l) == IF Oversized(l) THEN "tail" ELSE IF cfg.compress THEN "zip" ELSE "prune"

(* Phase 3 begins with the logs that have an archive, or the pass is over. *)
Archive(logs) ==
  /\ todo' = logs
  /\ pc' = IF logs = {} THEN after ELSE FirstStep(CHOOSE l \in logs : TRUE)

(* Phase 1 is done with the current log. *)
NextCrossed(archives) ==
  /\ rotated' = archives
  /\ IF todo \ {Cur} # {} THEN todo' = todo \ {Cur} /\ pc' = "rename"
     ELSE IF cfg.reopen = "signal" THEN todo' = {} /\ pc' = "signal"
     ELSE Archive(archives)

(* The descriptor follows the renames of a shift. *)
Follow(moved) == IF fd[Cur] \in moved THEN Up(fd[Cur]) ELSE fd[Cur]

Rename ==
  /\ pc = "rename" /\ cfg.reopen = "signal"
  /\ \/ /\ dir' = [dir EXCEPT ![Cur] = ShiftAndRename(@)]
        /\ fd' = [fd EXCEPT ![Cur] = IF @ = Active THEN First ELSE Follow(Backups(dir[Cur]))]
        /\ NextCrossed(rotated \cup {Cur})
        /\ faults' = faults
     \/ \E s \in Backups(dir[Cur]) \cup {Active} :
        LET moved == IF s = Active THEN Backups(dir[Cur]) ELSE Before(dir[Cur], s) IN
        /\ dir' = [dir EXCEPT ![Cur] = Shifted(@, moved)]
        /\ fd' = [fd EXCEPT ![Cur] = Follow(moved)]
        /\ NextCrossed(rotated)
        /\ Fault
  /\ UNCHANGED <<cfg, up, starts, pending, written, risky, expired, torn, made, session, size,
                 buffer, due>>

(* What a copy is to hold. *)
Copied == KeepTail(dir[Cur][Active], IF Oversized(Cur) THEN cfg.tail ELSE 0)

CopyActive ==
  /\ pc = "rename" /\ cfg.reopen = "copytruncate"
  /\ \/ /\ dir' = [dir EXCEPT ![Cur] = With(ShiftBackups(@), First, Copied)]
        /\ expired' = expired \cup (Elements(dir[Cur][Active]) \ Elements(Copied))
        /\ pc' = "truncate"
        /\ UNCHANGED <<todo, rotated, faults>>
     \/ /\ \/ \E s \in Backups(dir[Cur]) :
                dir' = [dir EXCEPT ![Cur] = Shifted(@, Before(@, s))]
           \/ \E i \in 0 .. Len(Copied) :     \* a short copy stays
                dir' = [dir EXCEPT ![Cur] = With(ShiftBackups(@), First, SubSeq(Copied, 1, i))]
        /\ NextCrossed(rotated)
        /\ Fault /\ UNCHANGED expired
  /\ UNCHANGED <<cfg, process, torn, made, session, size, buffer, due>>

Truncate ==
  /\ pc = "truncate"
  /\ \/ /\ dir' = [dir EXCEPT ![Cur][Active] = << >>]
        /\ NextCrossed(rotated \cup {Cur})
        /\ faults' = faults
     \/ NextCrossed(rotated) /\ Fault /\ UNCHANGED dir
  /\ UNCHANGED <<cfg, process, expired, torn, made, session, size, buffer, due>>

(* Phase 2: nobody may be left to take the signal. *)
SignalOnce ==
  /\ pc = "signal"
  /\ \/ /\ pending' = IF up /\ cfg.known THEN pending \cup rotated ELSE pending
        /\ faults' = faults
     \/ rotated # {} /\ Fault /\ UNCHANGED pending
  /\ Archive(rotated)
  /\ UNCHANGED <<cfg, dir, fd, up, starts, written, risky, expired, torn, made, session, size, rotated,
                 buffer, due>>

(* Phase 3: KeepTail reads what it keeps, then truncates and rewrites. *)
ReadTail ==
  /\ pc = "tail"
  /\ \/ /\ buffer' = KeepTail(dir[Cur][First], cfg.tail)
        /\ expired' = expired \cup (Elements(dir[Cur][First]) \ Elements(buffer'))
        /\ pc' = IF buffer' = dir[Cur][First] THEN IF cfg.gzipTail THEN "zip" ELSE "prune"
                 ELSE "retail"
        /\ faults' = faults
     \/ /\ pc' = IF cfg.gzipTail THEN "zip" ELSE "prune"
        /\ Fault /\ UNCHANGED <<buffer, expired>>
  /\ UNCHANGED <<cfg, dir, process, torn, made, session, todo, size, rotated, due>>

RewriteTail ==
  /\ pc = "retail"
  /\ \/ /\ dir' = [dir EXCEPT ![Cur][First] = buffer]
        /\ UNCHANGED <<torn, faults>>
     \/ UNCHANGED <<dir, torn>> /\ Fault     \* not even truncated
     \/ \E i \in 0 .. Len(buffer) - 1 :     \* truncated, and not all written back
        /\ dir' = [dir EXCEPT ![Cur][First] = SubSeq(buffer, 1, i)]
        /\ torn' = torn \cup (Elements(buffer) \ Elements(SubSeq(buffer, 1, i)))
        /\ Fault
  /\ pc' = IF cfg.gzipTail THEN "zip" ELSE "prune"
  /\ UNCHANGED <<cfg, process, expired, made, session, pass, due>>

(* CompressArchive: read into a temporary file, rename it, remove. *)
Zip ==
  /\ pc = "zip"
  /\ \/ pc' = "install" /\ buffer' = dir[Cur][First] /\ faults' = faults
     \/ pc' = "prune" /\ UNCHANGED buffer /\ Fault
  /\ UNCHANGED <<cfg, dir, process, expired, torn, made, session, todo, size, rotated, due>>

(* Mutant: the archive is removed whether or not its copy is in place. *)
InstallUnchecked ==
  /\ pc = "install"
  /\ \/ dir' = [dir EXCEPT ![Cur] = With(@, FirstGz, buffer)] /\ faults' = faults
     \/ UNCHANGED dir /\ Fault
  /\ pc' = "remove"
  /\ UNCHANGED <<cfg, process, expired, torn, made, session, pass, due>>

Install ==
  /\ pc = "install"
  /\ \/ pc' = "remove" /\ dir' = [dir EXCEPT ![Cur] = With(@, FirstGz, buffer)] /\ faults' = faults
     \/ pc' = "prune" /\ UNCHANGED dir /\ Fault
  /\ UNCHANGED <<cfg, process, expired, torn, made, session, pass, due>>

(* Removing what the process has open leaves it without a name. *)
Unlink(gone) == fd' = [fd EXCEPT ![Cur] = IF @ \in gone THEN Unlinked ELSE @]

Remove ==
  /\ pc = "remove"
  /\ pc' = "prune"
  /\ \/ dir' = [dir EXCEPT ![Cur] = Without(@, {First})] /\ Unlink({First}) /\ faults' = faults
     \/ UNCHANGED <<dir, fd>> /\ Fault
  /\ UNCHANGED <<cfg, up, starts, pending, written, risky, expired, torn, made, session, pass, due>>

(* A prune that fails has removed some of the excess. *)
Prune ==
  /\ pc = "prune"
  /\ \E gone \in SUBSET Excess(dir[Cur], cfg.backups) :
     /\ IF gone = Excess(dir[Cur], cfg.backups) THEN faults' = faults ELSE Fault
     /\ dir' = [dir EXCEPT ![Cur] = Without(@, gone)]
     /\ expired' = expired \cup UNION {Elements(dir[Cur][s]) : s \in gone}
     /\ Unlink(gone)
  /\ Archive(todo \ {Cur})
  /\ UNCHANGED <<cfg, up, starts, pending, written, risky, torn, made, session, size, rotated, buffer,
                 due>>

----------------------------------------------------------------------------
(* Faults                                                                  *)

DropEvents ==
  /\ events # {} /\ pc # "stopped"
  /\ events' = {} /\ overflow' = TRUE
  /\ Fault
  /\ UNCHANGED <<cfg, dir, process, expired, torn, made, watch, armed, after, pc, pass, due>>

(* ezx is killed, and the container with it; the files stay. *)
Crash ==
  /\ Fault
  /\ up' = FALSE /\ pending' = {} /\ fd' = [l \in Logs |-> Unlinked]
  /\ pc' = "start" /\ after' = "select"
  /\ watch' = "none" /\ events' = {} /\ overflow' = FALSE /\ armed' = FALSE
  /\ todo' = {} /\ rotated' = {} /\ buffer' = << >> /\ size' = [l \in Logs |-> 0]
  /\ UNCHANGED <<cfg, dir, starts, written, risky, expired, torn, made, due>>

Process == (\E l \in cfg.files : Write(l) \/ Reopen(l)) \/ StartProcess \/ Exits

Phases ==
  \/ Collect \/ Rename \/ CopyActive \/ Truncate \/ SignalOnce
  \/ ReadTail \/ RewriteTail \/ Zip \/ Install \/ Remove \/ Prune

Session ==
  \/ StartRun \/ (\E e \in cfg.files \cup {Dir} : HandleEvent(e)) \/ TimerFires \/ Poll
  \/ HandleOverflow \/ Resync \/ RemoveWatches \/ Phases

Next == Process \/ MakeDir \/ Session \/ Stop \/ DropEvents \/ Crash

Spec == Init /\ [][Next]_vars

(* The goroutine of the session runs; nothing has to stop it. *)
FairSpec == Spec /\ WF_vars(Session)

----------------------------------------------------------------------------
(* Properties                                                              *)

Lossy == cfg.compress \/ cfg.tail > 0 \/ cfg.reopen = "copytruncate"

(* No chunk is lost, through failed calls and crashes as well: what the    *)
(* process wrote is in the log, in an archive, or was dropped by retention *)
(* or with the head of an oversized file, but for two exceptions.  With    *)
(* compression, KeepTail or copytruncate, it is a chunk that was written   *)
(* to an archive, before the process reopened, or between a copy and its   *)
(* truncate.  With KeepTail it is a chunk of the tail that was not written *)
(* back when that failed or was cut short.                                 *)
Kept ==
  \A n \in 1 .. written :
    \/ \E l \in Logs : n \in Stored(l)
    \/ n \in expired
    \/ Lossy /\ n \in risky
    \/ cfg.tail > 0 /\ faults > 0 /\ n \in torn

(* The comments promise more of the signal mode: the signal comes before   *)
(* the compression, "so a rename+compress can never archive bytes the app  *)
(* writes before it reopens".  That such bytes are not lost with path.1 is *)
(* what the code does not keep: the signal does not wait for the process   *)
(* (rotatePass, CompressArchive).                                          *)
ReopenLossless ==
  cfg.reopen = "signal" =>
    \A n \in risky \ expired : \E l \in Logs : n \in Stored(l)

(* In the signal mode the archives keep the order of the chunks: a higher  *)
(* index is older, the log itself the youngest, whatever failed in between *)
(* (a compression that was cut short leaves its archive twice).            *)
ArchiveOrder ==
  cfg.reopen = "signal" =>
    \A l \in Logs : \A s, t \in DOMAIN dir[l] : s[1] > t[1] =>
      \/ Elements(dir[l][t]) \subseteq Elements(dir[l][s])
      \/ \A m \in Elements(dir[l][s]), n \in Elements(dir[l][t]) : m < n

(* A write past the limit that was heard of is not forgotten: until a pass *)
(* has looked at the log, or was skipped because the process was down, an  *)
(* event, an overflow, the timer or a pass that is about to look is there  *)
(* (the throttle of Run loses no change).                                  *)
WakeupKept ==
  \A l \in Logs : due[l] = "heard" =>
    l \in events \/ overflow \/ armed \/ pc \in {"start", "pass", "stopped"}

(* So such a write is looked at as long as the session lasts, unless the   *)
(* pass it brought found the process down; a skipped pass is not made up.  *)
CrossingSeen ==
  \A l \in Logs :
    due[l] = "heard" ~> (due[l] = "no" \/ due[l] = "skipped" \/ pc = "stopped")

Indexes(d) == {s[1] : s \in Backups(d)}

(* Nothing is dropped while fewer than MaxBackups archives are left, as    *)
(* long as no rotation failed (a failed one ages the archives).            *)
RetentionKept ==
  [][faults' = 0 /\ cfg.tail = 0 =>
       \A l \in Logs : Stored(l) \cap (expired' \ expired) # {} =>
         1 .. cfg.backups \subseteq Indexes(dir'[l])]_vars
=============================================================================
