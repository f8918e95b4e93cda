------------------------------ MODULE MCReaper ------------------------------
(* Two handles and a probe, or a handle and an orphan, for TLC. *)
EXTENDS Reaper, TLC

CONSTANTS h1, h2, o1, g1, p1, p2, p3

(* Every child has a pid of its own. *)
Distinct == {(h1 :> p1) @@ (h2 :> p2) @@ (o1 :> p3)}

(* A handle gets the pid of an orphan that was reaped before. *)
Reused == {(h1 :> p1) @@ (g1 :> p1)}

(* One handle alone. *)
Single == {(h1 :> p1)}
=============================================================================
