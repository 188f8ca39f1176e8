------------------------------- MODULE Phases -------------------------------
(***************************************************************************)
(* The life-cycle phases of a factory run and the table of transitions     *)
(* that RunStateMachine.transition enforces (core/stateMachine.ts).        *)
(***************************************************************************)

Phase ==
  {"created", "provisioning", "delegated", "in_progress", "evaluating",
   "terminal", "clean_terminated", "quarantined"}

ALLOWED_TRANSITIONS ==
  [p \in Phase |->
     CASE p = "created"          -> {"provisioning", "quarantined"}
       [] p = "provisioning"     -> {"delegated", "quarantined", "terminal"}
       [] p = "delegated"        -> {"in_progress", "quarantined", "terminal"}
       [] p = "in_progress"      -> {"evaluating", "quarantined", "terminal"}
       [] p = "evaluating"       -> {"terminal", "quarantined"}
       [] p = "terminal"         -> {"clean_terminated", "quarantined"}
       [] p = "clean_terminated" -> {"provisioning", "quarantined"}
       [] p = "quarantined"      -> {}]

canTransition(currentPhase, targetPhase) ==
  targetPhase \in ALLOWED_TRANSITIONS[currentPhase]

\* What listInFlightRuns returns to the recovery engine: "terminal" is not
\* among the phases the code calls non-terminal.
InFlightPhases ==
  {"created", "provisioning", "delegated", "in_progress", "evaluating"}
=============================================================================
