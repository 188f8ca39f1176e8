\* A crash anywhere in a run on its way to its first VM, and one request that
\* fails.
SPECIFICATION FairSpec
CONSTANTS
  Dispatchers = {d1}
  Teardowns = {t1}
  Recoverers = {r1}
  MaxVersion = 3
  MaxBoots = 1
  MaxFaults = 1
  MaxCrashes = 1
INVARIANT InFlightIsAttended
PROPERTY InFlightEnds
