---------------------------- MODULE RunRegistry ----------------------------
(***************************************************************************)
(* What admission promises, with no table, no lease and no failure in      *)
(* sight: an idempotency key is bound to one run for ever, and whoever asks *)
(* with that key is told that run.                                         *)
(***************************************************************************)
EXTENDS Naturals

CONSTANTS Keys, Requests

VARIABLES
  registry,  \* the run of each key, 0 before there is one
  answers    \* what each request was told: a key and its run

vars == <<registry, answers>>

Unanswered == [key |-> "none", run |-> 0]

Init ==
  /\ registry = [k \in Keys |-> 0]
  /\ answers = [q \in Requests |-> Unanswered]

Register(k) ==
  /\ registry[k] = 0
  /\ registry'[k] \in Nat \ {0}
  /\ \A j \in Keys : registry[j] # registry'[k]
  /\ registry' = [registry EXCEPT ![k] = registry'[k]]
  /\ UNCHANGED answers

Answer(q) ==
  /\ answers[q] = Unanswered
  /\ \E k \in Keys :
       /\ registry[k] # 0
       /\ answers' = [answers EXCEPT ![q] = [key |-> k, run |-> registry[k]]]
  /\ UNCHANGED registry

Next ==
  \/ \E k \in Keys : Register(k)
  \/ \E q \in Requests : Answer(q)

Spec == Init /\ [][Next]_vars
=============================================================================
