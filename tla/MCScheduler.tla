---------------------------- MODULE MCScheduler ----------------------------
(* The scheduled nodes TLC runs. *)
EXTENDS Scheduler

CONSTANT f1

(* Callback and process ticks, with and without a gate; a process with the *)
(* restart policies and shutdowns.                                         *)
AllJobs ==
  {j \in [tick : {"callback", "process"}, gated : BOOLEAN,
          restart : {"none", "always", "on-failure"},
          patience : {"timeout", "forever"}, forceKill : BOOLEAN] :
     /\ j.tick = "callback" => j.restart = "none" /\ j.patience = "timeout"
     /\ j.gated => j.restart = "none" /\ j.forceKill}
=============================================================================
