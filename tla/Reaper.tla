------------------------------- MODULE Reaper -------------------------------
(***************************************************************************)
(* The process handle and the reaper (internal/repository/system/process.go*)
(* and reaper.go) over the kernel's process table: Start forks a child and *)
(* registers its pid, the reaper waits for any child with wait4(-1) and    *)
(* hands the exit to the registered handle or caches it, the handle closes *)
(* its writers and then done.                                              *)
(*                                                                         *)
(* Not every child is a handle's: an exec probe (probe.go) runs a command  *)
(* and waits for it by itself, and orphaned grandchildren are adopted.     *)
(***************************************************************************)
EXTENDS Integers, FiniteSets

CONSTANTS
  Handles,    \* ProcessRepository values, each started once
  Probes,     \* commands of exec probes
  Orphans,    \* grandchildren adopted by the subreaper
  Pids, PidMaps, \* process ids, and the ways the kernel may give them out
  Codes,      \* exit codes
  MaxOutput,  \* bound on the chunks a child writes
  None

Children == Handles \cup Probes \cup Orphans

ASSUME ReaperAssumption ==
  /\ 0 \in Codes /\ None \notin Codes /\ None \notin Children
  /\ Handles \cap Probes = {}
  /\ PidMaps \subseteq [Children -> Pids]
  /\ MaxOutput \in Nat

VARIABLES
  pid,      \* the pid each child gets; never changes
  proc,     \* the kernel's view of each child
  exit,     \* the exit code of a child that exited
  sigCh,    \* a SIGCHLD is buffered for waitLoop
  loop,     \* the position of the reaper's goroutine
  held,     \* the child wait4 returned, not routed yet
  waits,    \* Reaper.waits: pid -> handle
  pending,  \* Reaper.pending: pid -> exit code
  repo,     \* the position of each handle
  channel,  \* the exit sent to the handle's channel
  code,     \* ProcessRepository.code
  written,  \* chunks the child wrote to its pipe
  copied,   \* chunks os/exec's goroutine read from the pipe
  kept,     \* chunks that reached the writer before it was closed
  verdict   \* what the probe reports

vars == <<pid, proc, exit, sigCh, loop, held, waits, pending, repo, channel,
          code, written, copied, kept, verdict>>

kernel == <<proc, exit, sigCh>>
reaper == <<loop, held>>
output == <<written, copied, kept>>

Alive(c) == proc[c] \in {"running", "zombie"}

(* The kernel gives out no pid that a child, or a zombie, still has. *)
PidFree(c) == \A d \in Children : Alive(d) => pid[d] # pid[c]

Init ==
  /\ pid \in PidMaps
  /\ proc = [c \in Children |-> "none"]
  /\ exit = [c \in Children |-> None]
  /\ sigCh = FALSE
  /\ loop = "select" /\ held = None
  /\ waits = [p \in Pids |-> None]
  /\ pending = [p \in Pids |-> None]
  /\ repo = [h \in Handles |-> "new"]
  /\ channel = [h \in Handles |-> None]
  /\ code = [h \in Handles |-> 0]
  /\ written = [h \in Handles |-> 0]
  /\ copied = [h \in Handles |-> 0]
  /\ kept = [h \in Handles |-> 0]
  /\ verdict = [o \in Probes |-> None]

----------------------------------------------------------------------------
(* The kernel                                                              *)

Fork(c) ==
  /\ proc[c] = "none" /\ PidFree(c)
  /\ proc' = [proc EXCEPT ![c] = "running"]

(* A probe starts its command, or a grandchild loses its parent. *)
Appears(c) ==
  /\ c \notin Handles
  /\ Fork(c)
  /\ UNCHANGED <<pid, exit, sigCh, reaper, waits, pending, repo, channel, code, output, verdict>>

(* A child exits, by itself or by a signal; SIGCHLD signals coalesce. *)
Exits(c) ==
  /\ proc[c] = "running"
  /\ proc' = [proc EXCEPT ![c] = "zombie"]
  /\ \E x \in Codes : exit' = [exit EXCEPT ![c] = x]
  /\ sigCh' = TRUE
  /\ UNCHANGED <<pid, reaper, waits, pending, repo, channel, code, output, verdict>>

Writes(h) ==
  /\ proc[h] = "running" /\ written[h] < MaxOutput
  /\ written' = [written EXCEPT ![h] = @ + 1]
  /\ UNCHANGED <<pid, kernel, reaper, waits, pending, repo, channel, code, copied, kept, verdict>>

(* The probe's own wait for its command: it gets the exit, or no child. *)
ProbeWaits(o) ==
  /\ verdict[o] = None /\ proc[o] \in {"zombie", "gone"}
  /\ proc' = [proc EXCEPT ![o] = "gone"]
  /\ verdict' = [verdict EXCEPT ![o] =
       IF proc[o] = "zombie" /\ exit[o] = 0 THEN "ready" ELSE "error"]
  /\ UNCHANGED <<pid, exit, sigCh, reaper, waits, pending, repo, channel, code, output>>

----------------------------------------------------------------------------
(* The handle                                                              *)

(* A callback-only node: a oneshot is done, any other keeps done open. *)
StartCallback(h) ==
  /\ repo[h] = "new"
  /\ \E r \in {"done", "keepalive"} : repo' = [repo EXCEPT ![h] = r]
  /\ UNCHANGED <<pid, kernel, reaper, waits, pending, channel, code, output, verdict>>

(* cmd.Start fails: done is closed.  When the environment, the credential  *)
(* or a log file is at fault, Start returns before and done stays open.    *)
StartFails(h) ==
  /\ repo[h] = "new"
  /\ \E r \in {"done", "rejected"} : repo' = [repo EXCEPT ![h] = r]
  /\ UNCHANGED <<pid, kernel, reaper, waits, pending, channel, code, output, verdict>>

(* cmd.Start *)
Start(h) ==
  /\ repo[h] = "new"
  /\ Fork(h)
  /\ repo' = [repo EXCEPT ![h] = "forked"]
  /\ UNCHANGED <<pid, exit, sigCh, reaper, waits, pending, channel, code, output, verdict>>

(* Mutant: a pending exit is taken whatever its pid. *)
RegisterAny(h) ==
  /\ repo[h] = "forked"
  /\ repo' = [repo EXCEPT ![h] = "waiting"]
  /\ IF \E p \in Pids : pending[p] # None
     THEN LET p == CHOOSE q \in Pids : pending[q] # None
          IN /\ channel' = [channel EXCEPT ![h] = pending[p]]
             /\ pending' = [pending EXCEPT ![p] = None]
             /\ UNCHANGED waits
     ELSE waits' = [waits EXCEPT ![pid[h]] = h] /\ UNCHANGED <<channel, pending>>
  /\ UNCHANGED <<pid, kernel, reaper, code, output, verdict>>

(* Mutant: the handle waits although its exit is already cached. *)
RegisterLate(h) ==
  /\ repo[h] = "forked"
  /\ repo' = [repo EXCEPT ![h] = "waiting"]
  /\ waits' = [waits EXCEPT ![pid[h]] = h]
  /\ UNCHANGED <<pid, kernel, reaper, channel, pending, code, output, verdict>>

(* Register: the pid's exit may have been reaped before. *)
Register(h) ==
  /\ repo[h] = "forked"
  /\ repo' = [repo EXCEPT ![h] = "waiting"]
  /\ IF pending[pid[h]] # None
     THEN /\ channel' = [channel EXCEPT ![h] = pending[pid[h]]]
          /\ pending' = [pending EXCEPT ![pid[h]] = None]
          /\ UNCHANGED waits
     ELSE waits' = [waits EXCEPT ![pid[h]] = h] /\ UNCHANGED <<channel, pending>>
  /\ UNCHANGED <<pid, kernel, reaper, code, output, verdict>>

(* The handle's goroutine: the code, closeFileWriters, close(done). *)
Finish(h) ==
  /\ repo[h] = "waiting" /\ channel[h] # None
  /\ code' = [code EXCEPT ![h] = channel[h]]
  /\ repo' = [repo EXCEPT ![h] = "done"]
  /\ UNCHANGED <<pid, kernel, reaper, waits, pending, channel, output, verdict>>

(* os/exec's goroutine copies the pipe; nobody calls cmd.Wait to join it.  *)
Copies(h) ==
  /\ copied[h] < written[h]
  /\ copied' = [copied EXCEPT ![h] = @ + 1]
  /\ kept' = [kept EXCEPT ![h] = IF repo[h] = "done" THEN @ ELSE @ + 1]
  /\ UNCHANGED <<pid, kernel, reaper, waits, pending, repo, channel, code, written, verdict>>

(* Kill of a handle without a process closes done: one that is not started,*)
(* keeps done open or was rejected.  A start after it, and a kill where    *)
(* Start has closed done, close it twice: the program ends there.          *)
KillWithoutProcess(h) ==
  /\ repo[h] \in {"new", "keepalive", "rejected"}
  /\ repo' = [repo EXCEPT ![h] = "done"]
  /\ UNCHANGED <<pid, kernel, reaper, waits, pending, channel, code, output, verdict>>

----------------------------------------------------------------------------
(* The reaper                                                              *)

(* waitLoop receives a SIGCHLD and calls reapAvailable. *)
TakeSignal ==
  /\ loop = "select" /\ sigCh
  /\ loop' = "reaping" /\ sigCh' = FALSE
  /\ UNCHANGED <<pid, proc, exit, held, waits, pending, repo, channel, code, output, verdict>>

(* wait4(-1, WNOHANG) takes a zombie, whoever it belongs to. *)
Wait4(c) ==
  /\ loop = "reaping" /\ proc[c] = "zombie"
  /\ proc' = [proc EXCEPT ![c] = "gone"]
  /\ held' = c /\ loop' = "routing"
  /\ UNCHANGED <<pid, exit, sigCh, waits, pending, repo, channel, code, output, verdict>>

(* Mutant: one child is reaped for each SIGCHLD. *)
RouteOne ==
  /\ loop = "routing"
  /\ LET p == pid[held]
     IN IF waits[p] # None
        THEN /\ channel' = [channel EXCEPT ![waits[p]] = exit[held]]
             /\ waits' = [waits EXCEPT ![p] = None]
             /\ UNCHANGED pending
        ELSE pending' = [pending EXCEPT ![p] = exit[held]] /\ UNCHANGED <<channel, waits>>
  /\ held' = None /\ loop' = "select"
  /\ UNCHANGED <<pid, kernel, repo, code, output, verdict>>

(* Mutant: an exit nobody waits for yet is dropped. *)
RouteNoCache ==
  /\ loop = "routing"
  /\ LET p == pid[held]
     IN IF waits[p] # None
        THEN /\ channel' = [channel EXCEPT ![waits[p]] = exit[held]]
             /\ waits' = [waits EXCEPT ![p] = None]
        ELSE UNCHANGED <<channel, waits>>
  /\ held' = None /\ loop' = "reaping"
  /\ UNCHANGED <<pid, kernel, pending, repo, code, output, verdict>>

(* Under Reaper.mu: to the subscriber of the pid, or into the cache. *)
Route ==
  /\ loop = "routing"
  /\ LET p == pid[held]
     IN IF waits[p] # None
        THEN /\ channel' = [channel EXCEPT ![waits[p]] = exit[held]]
             /\ waits' = [waits EXCEPT ![p] = None]
             /\ UNCHANGED pending
        ELSE pending' = [pending EXCEPT ![p] = exit[held]] /\ UNCHANGED <<channel, waits>>
  /\ held' = None /\ loop' = "reaping"
  /\ UNCHANGED <<pid, kernel, repo, code, output, verdict>>

(* No child has exited: back to the select. *)
NoneLeft ==
  /\ loop = "reaping" /\ \A c \in Children : proc[c] # "zombie"
  /\ loop' = "select"
  /\ UNCHANGED <<pid, kernel, held, waits, pending, repo, channel, code, output, verdict>>

----------------------------------------------------------------------------
ReaperStep == TakeSignal \/ Route \/ NoneLeft \/ \E c \in Children : Wait4(c)

HandleStep(h) == Register(h) \/ Finish(h)

Next ==
  \/ ReaperStep
  \/ \E c \in Children : Appears(c) \/ Exits(c)
  \/ \E o \in Probes : ProbeWaits(o)
  \/ \E h \in Handles :
       \/ HandleStep(h) \/ Copies(h) \/ Writes(h)
       \/ StartCallback(h) \/ StartFails(h) \/ Start(h) \/ KillWithoutProcess(h)

Spec == Init /\ [][Next]_vars

(* Goroutines proceed.  No child is assumed to exit, nor a pipe to be read *)
(* in time, nor a probe to win its race with the reaper.                   *)
FairSpec ==
  /\ Spec
  /\ WF_vars(ReaperStep)
  /\ \A h \in Handles : WF_vars(HandleStep(h))

----------------------------------------------------------------------------
(* Type correctness. *)
TypeOK ==
  /\ pid \in [Children -> Pids]
  /\ proc \in [Children -> {"none", "running", "zombie", "gone"}]
  /\ exit \in [Children -> Codes \cup {None}]
  /\ sigCh \in BOOLEAN
  /\ loop \in {"select", "reaping", "routing"}
  /\ held \in Children \cup {None}
  /\ waits \in [Pids -> Handles \cup {None}]
  /\ pending \in [Pids -> Codes \cup {None}]
  /\ repo \in [Handles -> {"new", "forked", "waiting", "done", "keepalive", "rejected"}]
  /\ channel \in [Handles -> Codes \cup {None}]
  /\ code \in [Handles -> Codes]
  /\ written \in [Handles -> 0..MaxOutput]
  /\ copied \in [Handles -> 0..MaxOutput]
  /\ kept \in [Handles -> 0..MaxOutput]
  /\ verdict \in [Probes -> {None, "ready", "error"}]

(* A handle that spawned a process is done only when that process exited,  *)
(* and reports that process's exit code.                                   *)
OwnExit ==
  \A h \in Handles : repo[h] = "done" /\ proc[h] # "none" =>
    ~(proc[h] = "running") /\ code[h] = exit[h]

DistinctPids == \A c, d \in Children : c # d => pid[c] # pid[d]

(* That holds when no pid is given out twice. *)
OwnExitDistinct == DistinctPids => OwnExit

(* A registered handle is subscribed, or its exit has been sent: the exit  *)
(* falls neither between fork and Register nor between wait4 and the lock. *)
NothingForgotten ==
  DistinctPids =>
    \A h \in Handles :
      /\ repo[h] = "waiting" /\ channel[h] = None =>
           waits[pid[h]] = h /\ (proc[h] = "gone" => held = h)
      /\ repo[h] = "forked" /\ proc[h] = "gone" =>
           held = h \/ pending[pid[h]] = exit[h]

(* The handle of a process that exited is done in the end. *)
DoneFollowsExit ==
  \A h \in Handles : proc[h] = "zombie" /\ DistinctPids ~> repo[h] = "done"

(* No child stays a zombie, although SIGCHLD signals coalesce. *)
NoZombieStays == \A c \in Children : proc[c] = "zombie" ~> proc[c] = "gone"

----------------------------------------------------------------------------
(* Each handle implements the contract that Lifecycle and Scheduler have   *)
(* with it.                                                                *)

Phase(h) ==
  CASE repo[h] \in {"forked", "waiting"} -> IF proc[h] = "running" THEN "running" ELSE "exited"
    [] repo[h] = "keepalive" -> "open"
    [] repo[h] = "rejected" -> "failed"
    [] OTHER -> repo[h]

Handle(h) == INSTANCE ProcessContract WITH
  phase <- Phase(h), exit <- exit[h], code <- code[h]

(* Whatever the reaper takes for other children, and in whatever order it  *)
(* comes, a handle starts once, its exit comes once and is reported once,  *)
(* as long as no pid is given out twice.                                   *)
ImplementsProcess ==
  /\ \A h \in Handles : Handle(h)!Init
  /\ [][DistinctPids => \A h \in Handles : [Handle(h)!Next]_(Handle(h)!vars)]_vars

----------------------------------------------------------------------------
(* What comments in the source say and the code does not keep: no run     *)
(* checks it; the README has the traces.                                   *)

(* Wait and Output return when everything the process wrote is in the      *)
(* writer (system/process.go:167-169).                                     *)
OutputComplete ==
  \A h \in Handles : repo[h] = "done" => kept[h] = written[h]

=============================================================================
