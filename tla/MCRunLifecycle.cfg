\* Two dispatches, a teardown and a reconcile of a run on its way to its
\* first VM, and one request that fails.
SPECIFICATION Spec
CONSTANTS
  Dispatchers = {d1, d2}
  Teardowns = {t1}
  Recoverers = {r1}
  MaxVersion = 3
  MaxBoots = 1
  MaxFaults = 1
  MaxCrashes = 0
SYMMETRY SymmetricDispatchers
INVARIANTS
  TypeOK
  OneDriver
  CleanIsProvenOrExplained
PROPERTY VmOutlivesItsRun
