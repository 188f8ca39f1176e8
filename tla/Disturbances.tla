---------------------------- MODULE Disturbances ----------------------------
(***************************************************************************)
(* What a behaviour has to cope with: the requests and events that occur   *)
(* in it, named by its workload, and the number of requests to the store,  *)
(* the provider, the tailnet, git or GitHub that may still fail.           *)
(***************************************************************************)
EXTENDS Naturals

VARIABLES
  faults,    \* how many more requests may fail
  workload   \* the requests and events of this behaviour

\* A request that fails, and one that does not.
Fault == faults > 0 /\ faults' = faults - 1
NoFault == faults' = faults

\* Several requests of one step fail.
Faults(n) == n <= faults /\ faults' = faults - n
=============================================================================
