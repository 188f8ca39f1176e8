\* One dispatch and a crash, with the recovery at the next boot.
SPECIFICATION FairSpec
CONSTANTS
  Dispatchers = {d1}
  Teardowns = {}
  Recoverers = {r1}
  MaxVersion = 2
  MaxBoots = 1
  MaxFaults = 0
  MaxCrashes = 1
PROPERTY TerminalIsRecovered
