---------------------------- MODULE MCBootstrap ----------------------------
(* Programs of up to four steps over a few words, for TLC. *)
EXTENDS Bootstrap

Newline == "\n"

A == [frame |-> <<"A">>, close |-> <<"/A">>]
S == [frame |-> <<"S">>, close |-> <<"/S">>]
F == [frame |-> <<"F">>, close |-> <<"/F">>]

Base == [verb |-> "line", view |-> Root, child |-> Root, re |-> {}, end |-> {}, marker |-> {},
         value |-> << >>]

Verb(v, view) == [Base EXCEPT !.verb = v, !.view = view]
Set(view, n) == [Verb("line", view) EXCEPT !.re = {"k"}, !.value = <<"k", n>>]
Put(v, view, line) == [Verb(v, view) EXCEPT !.value = line]
Scope(v, view, child) == [Verb(v, view) EXCEPT !.child = child]
Include(view, re) == [Scope("fragment", view, F) EXCEPT !.re = re, !.value = <<"f">>]

Script ==
  {Set(v, "1") : v \in {Root, A, S}} \cup {Set(A, "2"), Put("add", A, <<"l">>), Put("add", S, <<"l">>),
   Put("repeat", S, <<"l">>), Put("raw", S, <<"r", NL, "l", NL>>), Verb("reset", A),
   [Verb("remove", A) EXCEPT !.re = {"l"}], Scope("wrap", Root, A), Scope("wrap", A, S),
   Scope("section", Root, S), Include(Root, {"k"}), Include(A, {}), Scope("fragment-off", Root, F)}

Op(v, re, value) == [Base EXCEPT !.verb = v, !.re = re, !.value = value]

Rule ==
  {Op("op-replace", {}, <<"k", "3">>), Op("op-copy", {}, <<"A", NL, "/A", NL>>),
   Op("op-append", {}, <<"l">>), Op("op-remove", {"k"}, << >>), Op("op-ensure", {}, <<"l">>),
   Op("op-set-property", {"k"}, <<"k", "1">>), Op("op-set-property", {"l"}, <<"l">>),
   Op("op-insert-before", {"k"}, <<"h", NL>>), Op("op-insert-after", {"A"}, <<"h">>),
   [Op("op-replace-block", {"A"}, <<"A", NL, "k", "2", NL, "/A", NL>>) EXCEPT !.end = {"/A"}],
   [Op("op-replace-block", {"h"}, <<"h", NL>>) EXCEPT !.end = {}],
   [Op("op-set-block", {"h"}, <<"h">>) EXCEPT !.marker = {"A"}],
   Scope("wrap", Root, A), Set(A, "1"), Include(Root, {})}

(* A script has the handles it uses from earlier steps. *)
Openings ==
  {<< >>, <<Scope("wrap", Root, A)>>, <<Scope("wrap", Root, A), Scope("wrap", A, S)>>,
   <<Scope("section", Root, S), Scope("wrap", Root, A)>>}

Opened(o) == {Root} \cup {o[i].child : i \in DOMAIN o}

(* A block that stands elsewhere already is found by its first line, so a  *)
(* name is opened under one parent.                                        *)
OneHome(p) ==
  ~\E i, j \in DOMAIN p : i < j /\ p[i].verb = "section" /\ p[j] = Scope("wrap", A, S)

Scripts ==
  {p \in UNION {{o \o p : p \in [1 .. 2 -> {s \in Script : s.view \in Opened(o)}]} : o \in Openings} :
     OneHome(p)}

Rules(n) == {<<Scope("wrap", Root, A)>> \o p : p \in [1 .. n -> Rule]} \cup [1 .. n -> Rule \ {Set(A, "1")}]

Plain(p) == [steps |-> p, createOnly |-> FALSE]
Once(p) == [steps |-> p, createOnly |-> TRUE]

AllPrograms ==
  {Plain(p) : p \in Scripts} \cup {Plain(p) : p \in Rules(2)} \cup {Once(p) : p \in Rules(1)}

(* Two blocks that end with the same line, as Apache's do. *)
Outer == [frame |-> <<"A">>, close |-> <<"/">>]
Inner == [frame |-> <<"S">>, close |-> <<"/">>]

NestedPrograms ==
  {Plain(<<Scope("wrap", Root, Outer), Scope("wrap", Outer, Inner), s>>) :
     s \in {Put("add", Outer, <<"l">>), Verb("reset", Outer), Put("raw", Outer, <<"r">>)}}

NestedFiles == {<< >>, <<"A", NL, "k", "0", NL, "/", NL>>}
NestedBlocks == {Outer, Inner}

(* A block that is set at the end of a file, as tests do. *)
SetBlockPrograms ==
  {Plain(<<[Op("op-set-block", {"S"}, <<"S", NL, "/S">>) EXCEPT !.end = {"/S"}]>>)}

AllFiles == {<< >>, <<"k", "0">>, <<"A", NL, "k", "0", NL, "/A", NL>>}

AllBlocks == {A, S, F}
=============================================================================
