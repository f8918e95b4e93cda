---------------------------- MODULE MCChainRules ----------------------------
(* Three families of chains: graphs, kinds of nodes, LogRotate sections. *)
EXTENDS ChainRules

CONSTANTS a, b, c, other

Plain == [name |-> a, parent |-> 0, dependsOn |-> <<>>, dependsOnEdges |-> <<>>,
          needParentReady |-> FALSE, exec |-> FALSE, oneshot |-> FALSE,
          scheduler |-> FALSE, health |-> FALSE, logWithoutPath |-> FALSE,
          logRotate |-> NoRotate]

Dep(n, w) == [name |-> n, waitFor |-> w]
Chain(form, nodes) == [form |-> form, nodes |-> nodes]

(* Any waits among three nodes, in one form or the other, below any parent. *)
Waits == {<<<<>>, <<>>>>}
  \cup {<<<<n>>, <<>>>> : n \in {a, b, c}}
  \cup {<<<<m, n>>, <<>>>> : m \in {a, b}, n \in {b, c}}
  \cup {<<<<>>, <<Dep(n, "")>>>> : n \in {a, b, c}}

Named(n, p, w) == [Plain EXCEPT !.name = n, !.parent = p, !.dependsOn = w[1], !.dependsOnEdges = w[2]]

Graphs ==
  {Chain(f, <<Named(a, 0, x), Named(b, p, y), Named(c, q, z)>>) :
     f \in {"nodes", "roots"}, x \in Waits, y \in Waits, z \in Waits,
     p \in {0, 1}, q \in {0, 1, 2}}

(* Two nodes with any flags and names, one waiting for the other or not. *)
Flags(k, npr) == [Plain EXCEPT !.exec = "exec" \in k, !.oneshot = "oneshot" \in k,
                     !.scheduler = "scheduler" \in k, !.health = "health" \in k,
                     !.logWithoutPath = "log" \in k, !.needParentReady = npr]

Single == {{}, {"exec"}, {"oneshot"}, {"scheduler"}, {"health"}, {"log"}}
Pairs == {k \cup l : k \in Single, l \in Single}

OddWaits == {<<<<>>, <<>>>>, <<<<a>>, <<>>>>, <<<<a, a>>, <<>>>>, <<<<other>>, <<>>>>,
             <<<<>>, <<Dep(a, "exit")>>>>, <<<<>>, <<Dep(a, "unknown")>>>>, <<<<a>>, <<Dep(a, "")>>>>}

Kinds ==
  {Chain(f, <<[Flags(k, FALSE) EXCEPT !.name = m],
              [Flags(l, r) EXCEPT !.name = n, !.parent = p,
                                  !.dependsOn = w[1], !.dependsOnEdges = w[2]]>>) :
     f \in {"nodes", "roots"}, k \in Pairs, l \in Pairs, r \in BOOLEAN,
     m \in {NoName, a}, n \in {a, b}, p \in {0, 1}, w \in OddWaits}

(* One node of any kind with any LogRotate section. *)
Files == {<<>>} \cup {<<[include |-> i, signal |-> s]>> : i \in BOOLEAN, s \in BOOLEAN}
  \cup {<<[include |-> TRUE, signal |-> TRUE], [include |-> i, signal |-> s]>> :
          i \in BOOLEAN, s \in BOOLEAN}

Oversizes == {{}} \cup {{[maxBytes |-> m, keepTail |-> k]} : m \in {0, 2}, k \in 0 .. 2}

Rotations ==
  [filePath : BOOLEAN, files : Files, reopen : {"", "signal", "copytruncate", "unknown"},
   onMissingPid : {"", "unknown"}, interval : {-1, 0}, signal : BOOLEAN, oversized : Oversizes]

Rotated == {Chain("nodes", <<[Flags(k, FALSE) EXCEPT !.logRotate = r]>>) :
              k \in {{}, {"exec"}, {"oneshot"}, {"scheduler"}}, r \in Rotations}

AllScripts == {{Chain("roots", <<>>)}, Graphs, Kinds, Rotated}
=============================================================================
