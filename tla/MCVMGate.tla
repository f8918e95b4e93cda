------------------------------ MODULE MCVMGate ------------------------------
(* Three callers for TLC; the callbacks of the first one block. *)
EXTENDS VMGate

CONSTANTS c1, c2, c3

(* The callers that never block may be nodes or routes. *)
SomeRoutes == SUBSET {c2, c3}

(* One route alone beside the script. *)
OneRoute == {{c1}}
=============================================================================
