----------------------------- MODULE RunPhases -----------------------------
(***************************************************************************)
(* What the state machine promises of one run, with no client, no database *)
(* and no failure in sight: the phase moves along the table of permitted   *)
(* transitions, and every move takes the next state version.               *)
(***************************************************************************)
EXTENDS Naturals, Phases

VARIABLES phase, version

vars == <<phase, version>>

Init == phase = "created" /\ version = 1

Transition(target) ==
  /\ canTransition(phase, target)
  /\ phase' = target
  /\ version' = version + 1

Next == \E target \in Phase : Transition(target)

Spec == Init /\ [][Next]_vars
=============================================================================
