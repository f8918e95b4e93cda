----------------------------- MODULE MCLifecycle -----------------------------
(* The lifecycles TLC runs. *)
EXTENDS Lifecycle

(* Every configuration without a gate, with 0, 1 or 2 retries. *)
Plain ==
  {[kind |-> k, restart |-> r, maxRetries |-> n, binary |-> b, patience |-> p,
    forceKill |-> f, forward |-> w, rotate |-> t,
    gate |-> "none", attempts |-> 0, health |-> "none"] :
     k \in {"service", "oneshot"}, r \in {"none", "never", "always", "on-failure"},
     n \in 0..2, b \in BOOLEAN, p \in {"timeout", "forever"}, f \in BOOLEAN,
     w \in {"none", "valid", "invalid"}, t \in BOOLEAN}

(* Services with a gate, with /readyz, or with both. *)
Gated ==
  {[kind |-> "service", restart |-> r, maxRetries |-> 1, binary |-> TRUE, patience |-> "timeout",
    forceKill |-> f, forward |-> "none", rotate |-> FALSE,
    gate |-> g[1], attempts |-> g[2], health |-> h] :
     r \in {"none", "on-failure"}, f \in BOOLEAN, h \in {"none", "flag", "polled"},
     g \in {<<"none", 0>>, <<"probe", 1>>, <<"probe", 2>>, <<"func", 0>>, <<"func", 2>>}}

AllConfigs == Plain \cup {c \in Gated : c.gate = "probe" => c.health # "flag"}

(* A service that is restarted and has signals forwarded. *)
Forwarding ==
  {c \in AllConfigs :
     c.kind = "service" /\ c.restart = "on-failure" /\ c.binary /\ c.forward = "valid"}
=============================================================================
