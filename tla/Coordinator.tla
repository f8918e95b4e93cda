---------------------------- MODULE Coordinator ----------------------------
(***************************************************************************)
(* The DAG coordinator of orchestrator/service.go: Run of a normalized and *)
(* validated chain.  Every node has a goroutine (runNode) that waits for   *)
(* its dependencies, drives its lifecycle and reports its exit; the event  *)
(* router (signalStarted, signalReady, nodeExited, failChain) releases,    *)
(* skips or drains the dependents under coordinator.mu.                    *)
(*                                                                         *)
(* One action is one critical section of coordinator.mu or Service.mu, or  *)
(* one step of a node's lifecycle between two of them.  The process of a   *)
(* node, its probes and its callbacks appear only through the outcomes the *)
(* coordinator can tell apart; Lifecycle.tla models them in detail.        *)
(***************************************************************************)
EXTENDS Integers, Sequences, FiniteSets

CONSTANTS
  Nodes,     \* the names of the chain's nodes
  NoError,   \* errCh is empty
  Chains     \* the normalized chains Run may be given

Kinds == {"service", "oneshot", "scheduled", "exec"}
Modes == {"started", "ready", "exit"}

NodeConfig == [kind : Kinds, optional : BOOLEAN,
               edges : Seq([name : Nodes, waitFor : Modes])]

ASSUME ChainAssumption ==
  /\ IsFiniteSet(Nodes) /\ NoError \notin Nodes
  /\ Chains \subseteq [Nodes -> NodeConfig]

VARIABLES
  config,    \* node: the chain being run; never changes
  pc,        \* the position of each node's goroutine
  state,     \* nodeEntry.state
  pending,   \* nodeEntry.pending: edges not satisfied yet
  goClosed,  \* nodeEntry.goClosed (goCh is closed)
  startedC,  \* nodeEntry.startedC
  readyC,    \* nodeEntry.readyC
  drained,   \* drainCancel was called for the node
  outcome,   \* what the node's lifecycle returned
  active,    \* Service.active
  ctxDone,   \* chainCtx is cancelled
  errCh,     \* the node whose error is in errCh, or NoError
  main,      \* the position of runDAG
  execed     \* an exec node has replaced the ezx process

vars == <<config, pc, state, pending, goClosed, startedC, readyC, drained,
          outcome, active, ctxDone, errCh, main, execed>>

routing == <<state, pending, goClosed, startedC, readyC, drained>>
chainVars == <<config, ctxDone, errCh, main, execed>>

----------------------------------------------------------------------------
(* The graph, as built by runDAG from the canonical edges.                 *)

Kind(n) == config[n].kind
Edges(n) == config[n].edges
EdgeIds(n) == DOMAIN Edges(n)

(* The edges of d that name n: n's dependents list holds d once for each. *)
EdgesTo(d, n) == {i \in EdgeIds(d) : Edges(d)[i].name = n}

(* Mutant: the exit of a node is routed to the whole graph. *)
WholeGraph(n) == Nodes \ {n}

Dependents(n) == {d \in Nodes : EdgesTo(d, n) # {}}

(* Mutant: any edge to n satisfies the dependent, whatever its mode. *)
AnyEdgeWaiting(d, n, mode) == EdgesTo(d, n) # {}

HasEdgeWaiting(d, n, mode) ==
  \E i \in EdgesTo(d, n) : Edges(d)[i].waitFor = mode

(* The pending dependents that a transition of n decrements: once for each *)
(* of their edges to n, whatever the mode of the others.                   *)
Waiting(n, mode) == {d \in Nodes : state[d] = "pending" /\ HasEdgeWaiting(d, n, mode)}

PendingAfter(n, mode) ==
  [d \in Nodes |-> IF d \in Waiting(n, mode)
                   THEN pending[d] - Cardinality(EdgesTo(d, n)) ELSE pending[d]]

GoAfter(n, mode) ==
  [d \in Nodes |-> goClosed[d] \/ (d \in Waiting(n, mode) /\ PendingAfter(n, mode)[d] <= 0)]

(* Mutant: the context given to the lifecycle is the chain's. *)
ChainContextOnly(n) == ctxDone

(* The node's context: derived from chainCtx, and cancelled by drainCancel. *)
Cancelled(n) == ctxDone \/ drained[n]

Goto(n, p) == pc' = [pc EXCEPT ![n] = p]

(* The lifecycle returns: nil for every outcome but "error". *)
Return(n, o) == Goto(n, "exiting") /\ outcome' = [outcome EXCEPT ![n] = o]

----------------------------------------------------------------------------
Init ==
  /\ config \in Chains
  /\ pc = [n \in Nodes |-> "blocked"]
  /\ state = [n \in Nodes |-> "pending"]
  /\ pending = [n \in Nodes |-> Len(config[n].edges)]
  /\ goClosed = [n \in Nodes |-> FALSE]
  /\ startedC = [n \in Nodes |-> FALSE]
  /\ readyC = [n \in Nodes |-> FALSE]
  /\ drained = [n \in Nodes |-> FALSE]
  /\ outcome = [n \in Nodes |-> "none"]
  /\ active = 0
  /\ ctxDone = FALSE
  /\ errCh = NoError
  /\ main = "launching"
  /\ execed = FALSE

(* runDAG, after it launched the goroutines: unblock the initial frontier. *)
OpenFrontier ==
  /\ main = "launching"
  /\ main' = "waiting"
  /\ goClosed' = [n \in Nodes |-> goClosed[n] \/ pending[n] = 0]
  /\ UNCHANGED <<config, pc, state, pending, startedC, readyC, drained,
                 outcome, active, ctxDone, errCh, execed>>

(* runDAG: wg.Wait returns, then errCh is read. *)
RunReturns ==
  /\ main = "waiting"
  /\ \A n \in Nodes : pc[n] = "done"
  /\ main' = "returned"
  /\ UNCHANGED <<config, pc, routing, outcome, active, ctxDone, errCh, execed>>

(* The caller's context is cancelled (SIGTERM, end of the script). *)
Cancel ==
  /\ ~ctxDone /\ main # "returned"
  /\ ctxDone' = TRUE
  /\ UNCHANGED <<config, pc, routing, outcome, active, errCh, main, execed>>

----------------------------------------------------------------------------
(* runNode                                                                 *)

(* The select sees goCh closed, directly or after chainCtx.Done. *)
Wake(n) ==
  /\ pc[n] = "blocked" /\ goClosed[n]
  /\ Goto(n, "woken")
  /\ UNCHANGED <<routing, outcome, active, chainVars>>

(* The select sees chainCtx.Done while goCh is open: return, unreported. *)
Bail(n) ==
  /\ pc[n] = "blocked" /\ ctxDone /\ ~goClosed[n]
  /\ Goto(n, "done")
  /\ UNCHANGED <<routing, outcome, active, chainVars>>

(* A skipped node reports its exit with a nil error. *)
CascadeSkip(n) ==
  /\ pc[n] = "woken" /\ state[n] = "skipped"
  /\ Return(n, "skipped")
  /\ UNCHANGED <<routing, active, chainVars>>

(* The node enters its lifecycle with a context of its own. *)
Begin(n) ==
  /\ pc[n] = "woken" /\ state[n] = "pending"
  /\ state' = [state EXCEPT ![n] = "running"]
  /\ Goto(n, "setup")
  /\ UNCHANGED <<pending, goClosed, startedC, readyC, drained, outcome, active, chainVars>>

----------------------------------------------------------------------------
(* The lifecycle: runSingleNode, runOneshot, runScheduled                  *)

(* Files.Provision or Args.Build fails. *)
SetupFails(n) ==
  /\ pc[n] = "setup"
  /\ Return(n, "error")
  /\ UNCHANGED <<routing, active, chainVars>>

(* beginActive *)
SetupDone(n) ==
  /\ pc[n] = "setup" /\ Kind(n) \in {"service", "oneshot"}
  /\ active' = active + 1
  /\ Goto(n, "launch")
  /\ UNCHANGED <<routing, outcome, chainVars>>

(* proc.Start succeeded and onStart returned. *)
Launched(n) ==
  /\ pc[n] = "launch"
  /\ Goto(n, IF Kind(n) = "oneshot" THEN "wait" ELSE "launched")
  /\ UNCHANGED <<routing, outcome, active, chainVars>>

(* Mutant: an error path without endActive. *)
LaunchFailsActive(n) ==
  /\ \/ pc[n] = "launch"
     \/ pc[n] = "readying" /\ Kind(n) = "service"
  /\ Return(n, "error")
  /\ UNCHANGED <<active, routing, chainVars>>

(* endActive, deferred or called, before an error is returned; *)
(* Start or onStart failed, or a forwarded signal does not resolve. *)
LaunchFails(n) ==
  /\ \/ pc[n] = "launch"
     \/ pc[n] = "readying" /\ Kind(n) = "service"
  /\ active' = active - 1
  /\ Return(n, "error")
  /\ UNCHANGED <<routing, chainVars>>

SignalStarted(n) ==
  /\ pc[n] \in {"launched", "succeeded"}
  /\ startedC' = [startedC EXCEPT ![n] = TRUE]
  /\ IF startedC[n] THEN UNCHANGED <<pending, goClosed>>
     ELSE pending' = PendingAfter(n, "started") /\ goClosed' = GoAfter(n, "started")
  /\ Goto(n, IF pc[n] = "launched" THEN "readying" ELSE "succeeded2")
  /\ UNCHANGED <<state, readyC, drained, outcome, active, chainVars>>

(* The readiness phase is over, whether or not the probe ever passed. *)
SignalReady(n) ==
  /\ pc[n] \in {"readying", "succeeded2"}
  /\ readyC' = [readyC EXCEPT ![n] = TRUE]
  /\ IF readyC[n] THEN UNCHANGED <<pending, goClosed>>
     ELSE pending' = PendingAfter(n, "ready") /\ goClosed' = GoAfter(n, "ready")
  /\ IF pc[n] = "succeeded2" THEN Return(n, "zero")
     ELSE /\ Goto(n, IF Kind(n) = "service" THEN "supervise" ELSE "delay")
          /\ UNCHANGED outcome
  /\ UNCHANGED <<state, startedC, drained, active, chainVars>>

(* supervise: the process exits for good (no restart left). *)
ProcessExits(n, o) ==
  /\ pc[n] = "supervise"
  /\ active' = active - 1
  /\ Return(n, o)
  /\ UNCHANGED <<routing, chainVars>>

(* supervise and runOneshot: the context ended, so the process is drained; *)
(* the error is the context's (during a backoff) or Kill's.                *)
Drain(n, o) ==
  /\ pc[n] \in {"supervise", "wait"} /\ Cancelled(n)
  /\ active' = active - 1
  /\ Return(n, o)
  /\ UNCHANGED <<routing, chainVars>>

(* Mutant: the active window of a oneshot is never ended on success. *)
SucceedsActive(n) ==
  /\ pc[n] = "wait"
  /\ Goto(n, "succeeded")
  /\ outcome' = [outcome EXCEPT ![n] = "zero"]
  /\ UNCHANGED <<active, routing, chainVars>>

(* runOneshot: code 0 ends the active window before anything is signalled. *)
OneshotSucceeds(n) ==
  /\ pc[n] = "wait"
  /\ active' = active - 1
  /\ Goto(n, "succeeded")
  /\ outcome' = [outcome EXCEPT ![n] = "zero"]
  /\ UNCHANGED <<routing, chainVars>>

(* runOneshot: non-zero and no retry left, or onExit threw. *)
OneshotFails(n) ==
  /\ pc[n] = "wait"
  /\ active' = active - 1
  /\ Return(n, "error")
  /\ UNCHANGED <<routing, chainVars>>

(* A scheduled node signals started, then ready, before runScheduled. *)
ScheduleStarts(n) ==
  /\ pc[n] = "setup" /\ Kind(n) = "scheduled"
  /\ Goto(n, "launched")
  /\ UNCHANGED <<routing, outcome, active, chainVars>>

(* runScheduled: the cron expression does not parse. *)
CronInvalid(n) ==
  /\ pc[n] = "delay"
  /\ Return(n, "error")
  /\ UNCHANGED <<routing, active, chainVars>>

(* runScheduled: the initial delay is over; the loop begins. *)
DelayEnds(n) ==
  /\ pc[n] = "delay"
  /\ Goto(n, "idle")
  /\ UNCHANGED <<routing, outcome, active, chainVars>>

(* runTick: beginActive.  A manual trigger during the initial delay runs *)
(* the tick that runScheduled returns.                                   *)
TickBegins(n) ==
  /\ pc[n] \in {"delay", "idle"}
  /\ active' = active + 1
  /\ Goto(n, IF pc[n] = "delay" THEN "lasttick" ELSE "tick")
  /\ UNCHANGED <<routing, outcome, chainVars>>

(* runTick returns nil: back to the loop, or out of runScheduled. *)
TickEnds(n) ==
  /\ pc[n] \in {"tick", "lasttick"}
  /\ active' = active - 1
  /\ IF pc[n] = "lasttick" THEN Return(n, "stopped")
     ELSE Goto(n, "idle") /\ UNCHANGED outcome
  /\ UNCHANGED <<routing, chainVars>>

(* runTick returns an error, and runScheduled with it. *)
TickFails(n) ==
  /\ pc[n] \in {"tick", "lasttick"}
  /\ active' = active - 1
  /\ Return(n, "error")
  /\ UNCHANGED <<routing, chainVars>>

(* A trigger during the initial delay whose tick the gate refuses: runTick, *)
(* and runScheduled with it, return nil.                                    *)
TickRefused(n) ==
  /\ pc[n] = "delay"
  /\ Return(n, "stopped")
  /\ UNCHANGED <<routing, active, chainVars>>

(* Mutant: between two ticks only a drain is seen, not the end of the chain. *)
ScheduleStopsDrained(n) ==
  /\ pc[n] \in {"delay", "idle"} /\ drained[n]
  /\ Return(n, "stopped")
  /\ UNCHANGED <<routing, active, chainVars>>

(* runScheduled: the context ended between two ticks. *)
ScheduleStops(n) ==
  /\ pc[n] \in {"delay", "idle"} /\ Cancelled(n)
  /\ Return(n, "stopped")
  /\ UNCHANGED <<routing, active, chainVars>>

(* runSingleNode: the exec guard finds another supervised process. *)
ExecRefused(n) ==
  /\ pc[n] = "setup" /\ Kind(n) = "exec"
  /\ active > 0
  /\ Return(n, "error")
  /\ UNCHANGED <<routing, active, chainVars>>

ExecAllowed(n) ==
  /\ pc[n] = "setup" /\ Kind(n) = "exec"
  /\ active = 0
  /\ Goto(n, "exec")
  /\ UNCHANGED <<routing, outcome, active, chainVars>>

(* syscall.Exec replaces the process image: ezx takes no further step. *)
Exec(n) ==
  /\ pc[n] = "exec"
  /\ execed' = TRUE
  /\ UNCHANGED <<config, pc, routing, outcome, active, ctxDone, errCh, main>>

ExecFails(n) ==
  /\ pc[n] = "exec"
  /\ Return(n, "error")
  /\ UNCHANGED <<routing, active, chainVars>>

----------------------------------------------------------------------------
(* nodeExited and failChain                                                *)

Failed(n) == outcome[n] = "error"
Fatal(n) == Failed(n) /\ ~config[n].optional

(* Mutant: the exit of a oneshot is never routed, even when it failed. *)
RoutesServices(n) == ~Fatal(n) /\ Kind(n) # "oneshot"

(* The exit is routed to the dependents: not after a fatal error, and not *)
(* after a oneshot that returned nil.                                      *)
Routes(n) == ~Fatal(n) /\ (Kind(n) = "oneshot" => Failed(n))

NodeExited(n) ==
  /\ pc[n] = "exiting"
  /\ LET go == IF Failed(n) THEN goClosed ELSE GoAfter(n, "exit")
         hit == IF Routes(n) THEN Dependents(n) ELSE {}
         skip == {d \in hit : state[d] = "pending" /\ ~go[d]}
         stop == {d \in hit : state[d] = "running"}
     IN /\ pending' = IF Failed(n) THEN pending ELSE PendingAfter(n, "exit")
        /\ goClosed' = [d \in Nodes |-> go[d] \/ d \in skip]
        /\ drained' = [d \in Nodes |-> drained[d] \/ d \in stop]
        /\ state' = [d \in Nodes |-> IF d = n THEN "exited"
                                     ELSE IF d \in skip THEN "skipped" ELSE state[d]]
  /\ Goto(n, IF Fatal(n) THEN "failing" ELSE "done")
  /\ UNCHANGED <<startedC, readyC, outcome, active, chainVars>>

(* Mutant: the first error is kept but the chain goes on. *)
FailWithoutCancel(n) ==
  /\ pc[n] = "failing"
  /\ errCh' = IF errCh = NoError THEN n ELSE errCh
  /\ Goto(n, "done")
  /\ UNCHANGED <<config, ctxDone, routing, outcome, active, main, execed>>

(* failChain: errOnce keeps the first error and cancels the chain. *)
FailChain(n) ==
  /\ pc[n] = "failing"
  /\ IF errCh = NoError THEN errCh' = n /\ ctxDone' = TRUE
     ELSE UNCHANGED <<errCh, ctxDone>>
  /\ Goto(n, "done")
  /\ UNCHANGED <<config, routing, outcome, active, main, execed>>

----------------------------------------------------------------------------
Lifecycle(n) ==
  \/ SetupFails(n) \/ SetupDone(n) \/ Launched(n) \/ LaunchFails(n)
  \/ SignalStarted(n) \/ SignalReady(n)
  \/ \E o \in {"zero", "error"} : ProcessExits(n, o)
  \/ \E o \in {"stopped", "error"} : Drain(n, o)
  \/ OneshotSucceeds(n) \/ OneshotFails(n)
  \/ ScheduleStarts(n) \/ CronInvalid(n) \/ DelayEnds(n) \/ TickBegins(n)
  \/ TickEnds(n) \/ TickFails(n) \/ TickRefused(n) \/ ScheduleStops(n)
  \/ ExecRefused(n) \/ ExecAllowed(n) \/ Exec(n) \/ ExecFails(n)

Router(n) == Wake(n) \/ Bail(n) \/ CascadeSkip(n) \/ Begin(n)
             \/ NodeExited(n) \/ FailChain(n)

(* After a successful exec the ezx process no longer exists. *)
Next ==
  /\ ~execed
  /\ \/ OpenFrontier \/ RunReturns \/ Cancel
     \/ \E n \in Nodes : Router(n) \/ Lifecycle(n)

Spec == Init /\ [][Next]_vars

(***************************************************************************)
(* The fairness the Go runtime justifies: a goroutine that can take a step *)
(* takes one eventually.  A drained process ends (by its signal, or by the *)
(* kill after the shutdown timeout) and a select between a ready ctx.Done  *)
(* and another ready case does not avoid ctx.Done for ever.  No process is *)
(* assumed to exit by itself, and the caller need not cancel.              *)
(***************************************************************************)
Step(n) ==
  ~execed /\ (\/ Router(n)
              \/ SetupDone(n) \/ Launched(n) \/ SignalStarted(n) \/ SignalReady(n)
              \/ ScheduleStarts(n) \/ DelayEnds(n) \/ (Cancelled(n) /\ TickEnds(n))
              \/ ExecRefused(n) \/ ExecAllowed(n) \/ Exec(n))

Stop(n) == ~execed /\ (Drain(n, "stopped") \/ ScheduleStops(n))

FairSpec ==
  /\ Spec
  /\ WF_vars(~execed /\ OpenFrontier) /\ WF_vars(~execed /\ RunReturns)
  /\ \A n \in Nodes : WF_vars(Step(n)) /\ SF_vars(Stop(n))

----------------------------------------------------------------------------
(* Type correctness. *)
Pcs == {"blocked", "woken", "setup", "launch", "launched", "readying", "supervise",
        "wait", "succeeded", "succeeded2", "delay", "idle", "tick", "lasttick",
        "exec", "exiting", "failing", "done"}

Outcomes == {"none", "zero", "stopped", "skipped", "error"}

TypeOK ==
  /\ config \in [Nodes -> NodeConfig]
  /\ pc \in [Nodes -> Pcs]
  /\ state \in [Nodes -> {"pending", "running", "exited", "skipped"}]
  /\ pending \in [Nodes -> Int]
  /\ goClosed \in [Nodes -> BOOLEAN]
  /\ startedC \in [Nodes -> BOOLEAN] /\ readyC \in [Nodes -> BOOLEAN]
  /\ drained \in [Nodes -> BOOLEAN]
  /\ outcome \in [Nodes -> Outcomes]
  /\ active \in Int
  /\ ctxDone \in BOOLEAN /\ execed \in BOOLEAN
  /\ errCh \in Nodes \cup {NoError}
  /\ main \in {"launching", "waiting", "returned"}

(* What a dependent that waits for the mode has been promised.  The code   *)
(* takes every nil return for a clean exit.                                *)
Signalled(n, mode) ==
  CASE mode = "started" -> startedC[n]
    [] mode = "ready"   -> readyC[n]
    [] mode = "exit"    -> state[n] = "exited" /\ outcome[n] # "error"

Begun(n) == state[n] = "running" \/ (state[n] = "exited" /\ outcome[n] # "skipped")

(* The edges of the node to one dependency have one wait mode, as those of *)
(* dependsOn do.  Normalized and ValidateChain let dependsOnEdges do       *)
(* otherwise, and then one signal counts for all of them.                  *)
OneMode(n) ==
  \A i, j \in EdgeIds(n) :
    Edges(n)[i].name = Edges(n)[j].name => Edges(n)[i].waitFor = Edges(n)[j].waitFor

(* No node enters its lifecycle before every one of its edges, each in its *)
(* own wait mode, has been signalled by the dependency: whatever the order *)
(* of the signals, the exits and the skips that race for its counter, and  *)
(* whatever the modes by which the rest of the chain waits.                *)
NoEarlyStart ==
  \A n \in Nodes : Begun(n) /\ OneMode(n) =>
    \A i \in EdgeIds(n) : Signalled(Edges(n)[i].name, Edges(n)[i].waitFor)

(* A skip reaches every transitive dependent: in a chain without exit      *)
(* edges, no node runs when one of its dependencies was itself skipped.    *)
SkipCascades ==
  (\A n \in Nodes : \A i \in EdgeIds(n) : Edges(n)[i].waitFor # "exit") =>
    \A n \in Nodes : Begun(n) /\ OneMode(n) =>
      \A i \in EdgeIds(n) : outcome[Edges(n)[i].name] # "skipped"

(* A node that still waits has a dependency that can still decide its      *)
(* fate: its goroutine has not returned.  Otherwise wg.Wait never returns. *)
NobodyStranded ==
  main # "launching" /\ ~ctxDone =>
    \A n \in Nodes : pc[n] = "blocked" /\ ~goClosed[n] =>
      \E i \in EdgeIds(n) : pc[Edges(n)[i].name] # "done"

(* The oneshots of a chain whose failure or success is always routed: they *)
(* depend on nothing but oneshots that are not optional.                   *)
GuardedOneshots ==
  \A n \in Nodes : Kind(n) = "oneshot" =>
    \A i \in EdgeIds(n) : LET d == Edges(n)[i].name
                          IN Kind(d) = "oneshot" /\ ~config[d].optional

(* The router strands no node of such a chain.                             *)
NoOrphan == GuardedOneshots => NobodyStranded

(* A node is skipped only because a dependency left without satisfying it. *)
SkipJustified ==
  \A n \in Nodes : state[n] = "skipped" \/ outcome[n] = "skipped" =>
    \E i \in EdgeIds(n) : /\ state[Edges(n)[i].name] = "exited"
                           /\ ~(startedC[n] \/ readyC[n])

(* Run returns an error exactly when a node that is not optional failed,   *)
(* and the error is that of such a node.                                   *)
RunError ==
  /\ errCh # NoError => Fatal(errCh) /\ ctxDone
  /\ main = "returned" /\ (\E n \in Nodes : Fatal(n)) => errCh # NoError

(* Service.active counts the nodes whose process is supervised: it neither *)
(* leaks on an error path nor goes below what the exec guard relies on.    *)
Supervised(n) == pc[n] \in {"launch", "supervise", "wait", "tick", "lasttick"}
                 \/ (pc[n] \in {"launched", "readying"} /\ Kind(n) = "service")

ActiveCount == active = Cardinality({n \in Nodes : Supervised(n)})

(* The "init DAG -> exec main" pattern: when every other node is a oneshot *)
(* dependency of the exec node, one mode for each, its guard never refuses. *)
InitThenExec ==
  \A n \in Nodes :
    /\ pc[n] = "setup" /\ Kind(n) = "exec"
    /\ \A d \in Nodes \ {n} : EdgesTo(n, d) # {} /\ Kind(d) = "oneshot"
    /\ OneMode(n)
    => active = 0

(* Once the chain is cancelled, by the caller or by a fatal error, Run     *)
(* returns (or an exec replaced the process in the meantime).              *)
ShutdownReturns == ctxDone ~> (main = "returned" \/ execed)

(* A node drained by the exit of a dependency leaves the graph. *)
DrainedLeaves == \A n \in Nodes : drained[n] ~> (state[n] = "exited" \/ execed)

----------------------------------------------------------------------------
(* The coordinator implements the contract of a chain.                     *)

Status(n) ==
  CASE state[n] = "running" -> "running"
    [] state[n] = "exited" /\ outcome[n] # "skipped" -> "left"
    [] state[n] = "pending" /\ pc[n] # "done" -> "waiting"
    [] OTHER -> "absent"

Contract == INSTANCE ChainContract WITH
  edges   <- [n \in Nodes |-> {<<Edges(n)[i].name, Edges(n)[i].waitFor>> : i \in EdgeIds(n)}],
  status  <- [n \in Nodes |-> Status(n)],
  signals <- {s \in Nodes \X Modes : Signalled(s[1], s[2])},
  stopped <- ctxDone,
  error   <- errCh

(* Every step of the coordinator is a step of the contract or hidden by it: *)
(* no node starts, gives up, leaves or fails the run in any other way.      *)
ImplementsContract == Contract!Spec

----------------------------------------------------------------------------
(* What the README of the source says and the code does not keep: no run   *)
(* checks it; the README here has the trace.                               *)

(* Each edge chooses its own mode (README.md:45): a node begins only after *)
(* all its edges were signalled, also those to one dependency.             *)
EveryEdgeWaits ==
  \A n \in Nodes : Begun(n) =>
    \A i \in EdgeIds(n) : Signalled(Edges(n)[i].name, Edges(n)[i].waitFor)
=============================================================================
