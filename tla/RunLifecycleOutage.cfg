\* One dispatch alone, and a provider that fails twice.  The model stops
\* where the bounds on versions and VMs keep the dispatcher idle.
SPECIFICATION Spec
CONSTANTS
  Dispatchers = {d1}
  Teardowns = {}
  Recoverers = {}
  MaxVersion = 3
  MaxBoots = 1
  MaxFaults = 2
  MaxCrashes = 0
INVARIANT CleanMeansNoVm
CHECK_DEADLOCK FALSE
