---------------------------- MODULE MCLogRotation ----------------------------
(* Two small logs for TLC. *)
EXTENDS LogRotation

CONSTANTS a, b

Base == [files |-> {a}, reopen |-> "signal", limit |-> 1, backups |-> 1, compress |-> FALSE, tail |-> 0,
         big |-> 0, gzipTail |-> FALSE, known |-> TRUE, poll |-> FALSE, late |-> FALSE]

AllConfigs ==
  {[Base EXCEPT !.files = {a, b}],
   [Base EXCEPT !.limit = 2, !.late = TRUE],
   [Base EXCEPT !.compress = TRUE, !.known = FALSE, !.backups = -1],
   [Base EXCEPT !.compress = TRUE, !.poll = TRUE],
   [Base EXCEPT !.tail = 1, !.big = 2, !.gzipTail = TRUE],
   [Base EXCEPT !.reopen = "copytruncate", !.tail = 1, !.big = 2]}

(* One log, compressed after the signal, and nothing that fails. *)
Compressing == {[Base EXCEPT !.compress = TRUE]}
=============================================================================
