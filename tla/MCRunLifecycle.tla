--------------------------- MODULE MCRunLifecycle ---------------------------
(***************************************************************************)
(* RunLifecycle with interchangeable dispatchers, for the safety runs.     *)
(***************************************************************************)
EXTENDS RunLifecycle, TLC

SymmetricDispatchers == Permutations(Dispatchers)
=============================================================================
