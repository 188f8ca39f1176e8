---------------------------- MODULE EvidenceLog ----------------------------
(***************************************************************************)
(* What the evidence ledger promises of one run, with no second request    *)
(* and no failure in sight: a record is appended to a log in one step, its *)
(* writer may be told its place, nothing is ever taken back, and an        *)
(* attestation is of the whole log as it is then.                          *)
(***************************************************************************)
EXTENDS Naturals, Sequences

CONSTANT Writers

VARIABLES
  log,       \* who wrote each record
  answers,   \* the places that writers were told, with the writers
  attested   \* the lengths that were attested

vars == <<log, answers, attested>>

Init == log = <<>> /\ answers = {} /\ attested = {}

Record(w) ==
  /\ log' = Append(log, w)
  /\ answers' \in {answers, answers \cup {[at |-> Len(log'), to |-> w]}}
  /\ UNCHANGED attested

Attest ==
  /\ attested' = attested \cup {Len(log)}
  /\ UNCHANGED <<log, answers>>

Next == (\E w \in Writers : Record(w)) \/ Attest

Spec == Init /\ [][Next]_vars
=============================================================================
