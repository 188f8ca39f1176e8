----------------------------- MODULE MCDelivery -----------------------------
(***************************************************************************)
(* A small instance of Delivery.  The state space is the sum of the        *)
(* scenarios and not their product.                                        *)
(***************************************************************************)
EXTENDS Delivery

Behaviour(may, n, phase) == [may |-> may, faults |-> n, phase |-> phase]

MCScenarios ==
  { Behaviour({"arm1", "arm2", "arm3"}, 0, "clean_terminated"),
    Behaviour({"arm4", "arm5", "s1", "s2"}, 1, "clean_terminated"),
    Behaviour({"arm4", "arm5", "s1", "q1"}, 1, "clean_terminated"),
    Behaviour({"d3"}, 0, "created"),
    Behaviour({"d1", "q1"}, 1, "created"),
    Behaviour({"d1", "d2", "q1"}, 1, "created"),
    Behaviour({"d2", "r1"}, 1, "created"),
    Behaviour({"q1"}, 2, "clean_terminated"),
    Behaviour({"q1", "q2", "m2", "approve"}, 0, "clean_terminated"),
    Behaviour({"q1", "m2", "w1", "approve", "label"}, 0, "clean_terminated"),
    Behaviour({"q1", "w1", "w2", "approve", "label"}, 1, "clean_terminated"),
    Behaviour({"q1", "m1", "m2", "status"}, 1, "clean_terminated"),
    Behaviour({"q1", "m2", "approve"}, 1, "clean_terminated"),
    Behaviour({"i1", "i2", "q1"}, 1, "none"),
    Behaviour({"l1", "m1"}, 1, "none"),
    Behaviour({"l1", "d3"}, 0, "none") }

\* One issue, and no request that fails.
OneIssue == {Behaviour({"i1"}, 0, "none")}

(* Arms: the first three differ in their metrics, the others in the rest. *)

Arm(m, flaws, completed, sel, tree) ==
  [metrics |-> m, flaws |-> flaws, completed |-> completed, selection |-> sel,
   tree |-> tree]

Samples ==
  [cost : {1, 2}, latency : {5, 20000}, quality : {1, 2}, churn : {1},
   coverage : {1, 2}, duration : {1, 2}]

Middling ==
  [cost |-> 1, latency |-> 10, quality |-> 2, churn |-> 2, coverage |-> 2,
   duration |-> 2]

MCArmNames == <<"arm1", "arm2", "arm3", "arm4", "arm5">>

MCArmsOf ==
  [a \in DOMAIN MCArmNames |->
     CASE a = 1 -> {Arm(m, {}, TRUE, "unselected", NoTree) : m \in Samples}
       [] a = 2 -> {Arm(m, f, TRUE, "unselected", NoTree) :
                      m \in Samples, f \in {{}, {"erg"}}}
       [] a = 3 -> {Arm(Middling, {}, c, "unselected", NoTree) : c \in BOOLEAN}
       [] a = 4 -> {Arm(Middling, {}, c, w, <<"object">>) :
                      c \in BOOLEAN, w \in {"unselected", "winner"}}
       [] a = 5 -> {Arm(Middling, {}, c, "unselected", t) :
                      c \in BOOLEAN, t \in {NoTree, <<"hash">>}}]

MCPolicies ==
  [strategy : Strategies, required : {Flaws, {}}, minCoverage : {0, 2}]

(* Dispatches: the third tries AGENTS.md and patterns. *)

Plain == [digest |-> "none", content |-> "none", allowed |-> {<<"**">>},
          immutable |-> {}]

Patterns == {<<"s", "/", "**">>, <<"s", "/">>, <<"*", ".", "j">>, <<"a", ".", "*">>}

Digests ==
  [digest : {"none", "admitted", "other", "malformed"},
   content : {"none", "admitted", "other", "forbidden"},
   allowed : {{<<"**">>}}, immutable : {{}}]
Globs ==
  [digest : {"none"}, content : {"none"}, allowed : SUBSET Patterns,
   immutable : {{}} \cup {{p} : p \in Patterns}]

Files == {<<"s", "/", "a">>, <<"a", ".", "j">>, <<"a", "/", "j">>}

MCPlansOf ==
  [d \in Dispatches |-> IF d = "d1" THEN {<<"plan", "build">>} ELSE {<<"build">>}]
MCBodiesOf ==
  [d \in Dispatches |-> IF d = "d3" THEN Digests \cup Globs ELSE {Plain}]
MCChangesOf ==
  [d \in Dispatches |-> IF d = "d3" THEN SUBSET Files ELSE {{}, {<<"a">>}}]

\* The two requests to merge.
Options(approval, deploy) == [approval : approval, deploy : deploy]
MCOptionsOf ==
  [m \in Merges |-> IF m = "m1" THEN Options({FALSE}, BOOLEAN)
                    ELSE Options(BOOLEAN, {TRUE})]
MCObjects == {ParentTree, <<"object">>}
=============================================================================
