--------------------------- MODULE MCCoordinator ---------------------------
(* Small chains for TLC: three nodes, edges only to earlier ones. *)
EXTENDS Coordinator, TLC

CONSTANTS a, b, c

Edge(n, m) == [name |-> n, waitFor |-> m]
Node(k, o, es) == [kind |-> k, optional |-> o, edges |-> es]

(* No edge to n, or one in one of the modes. *)
UpTo(n, ms) == {<<>>} \cup {<<Edge(n, m)>> : m \in ms}

(* The edges of the last node: to a, to b, or to both. *)
ToBoth(ms) == {x \o y : x \in UpTo(a, ms), y \in UpTo(b, ms)}

Chain3(x, y, z) == (a :> x) @@ (b :> y) @@ (c :> z)

(* Services one after the other; the first may be optional. *)
ServiceChains ==
  {Chain3(Node("service", o, <<>>), Node("service", FALSE, y), Node("service", FALSE, z)) :
     o \in BOOLEAN, y \in {<<Edge(a, "started")>>, <<Edge(a, "exit")>>},
     z \in {<<Edge(b, "started")>>, <<Edge(a, "started"), Edge(b, "ready")>>,
            <<Edge(a, "ready"), Edge(b, "started")>>}}

(* Oneshots, possibly optional, and a scheduled node before a service. *)
OneshotChains ==
  {Chain3(Node("oneshot", o, <<>>), Node(k, FALSE, y), Node("service", FALSE, z)) :
     o \in BOOLEAN, k \in {"oneshot", "scheduled"}, y \in UpTo(a, {"ready", "exit"}),
     z \in {<<Edge(b, "exit")>>, <<Edge(a, "exit"), Edge(b, "started")>>,
            <<Edge(a, "started"), Edge(b, "exit")>>}}

(* A failure that is not fatal spreads along started and ready edges. *)
SkipChains ==
  {Chain3(Node(j, TRUE, <<>>), Node(k, TRUE, y), Node("service", FALSE, z)) :
     j \in {"service", "oneshot"}, k \in {"service", "oneshot"},
     y \in {<<Edge(a, "started")>>, <<Edge(a, "ready")>>},
     z \in {<<Edge(b, "started")>>, <<Edge(a, "ready"), Edge(b, "ready")>>}}

(* An exec node after oneshots that may depend on one another. *)
ExecChains ==
  {Chain3(Node("oneshot", o, <<>>), Node("oneshot", FALSE, y), Node("exec", FALSE, z)) :
     o \in BOOLEAN, y \in UpTo(a, Modes), z \in ToBoth({"started", "ready"})}

(* A dependency that is listed twice is counted twice. *)
RepeatChains ==
  {Chain3(Node("oneshot", TRUE, <<>>), Node(k, FALSE, <<Edge(a, m), Edge(a, m)>>),
          Node("service", FALSE, <<Edge(b, w), Edge(a, "exit"), Edge(b, w)>>)) :
     k \in {"service", "oneshot"}, m \in {"started", "exit"}, w \in {"started", "ready"}}

(* Nodes that wait for one dependency in two modes, beside others that do  *)
(* not: what they miss is their own affair.                                *)
MixedChains ==
  {Chain3(Node(j, FALSE, <<>>), Node(k, FALSE, y), Node("service", FALSE, z)) :
     j \in {"service", "oneshot"}, k \in {"service", "oneshot"},
     y \in {<<Edge(a, "started"), Edge(a, m)>> : m \in {"ready", "exit"}},
     z \in {<<Edge(b, "started")>>, <<Edge(b, "ready"), Edge(a, "started"), Edge(b, "exit")>>}}

(* Nodes of which some wait for nothing. *)
LooseChains ==
  {Chain3(Node("service", TRUE, <<>>), Node(k, FALSE, <<Edge(a, "started")>>),
          Node("oneshot", FALSE, z)) :
     k \in {"service", "scheduled"}, z \in {<<>>, <<Edge(a, "exit")>>}}

AllChains ==
  ServiceChains \cup OneshotChains \cup SkipChains \cup ExecChains \cup RepeatChains
  \cup MixedChains \cup LooseChains

(* A chain on which the documentation and the code disagree. *)
SkippedOneshot ==
  {Chain3(Node("oneshot", TRUE, <<>>), Node("oneshot", FALSE, <<Edge(a, "ready")>>),
          Node("service", FALSE, <<Edge(b, "started")>>))}
=============================================================================
