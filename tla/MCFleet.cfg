CONSTANTS
  Keys = {"k1", "k2"}
  NoKey = "fresh"
  LiveKey = "live_run"
  KeysOf <- MCKeysOf
  MaxRuns = 3
  MaxVersion = 5
  MaxDevices = 2
  Scenarios <- MCScenarios
  Admissions = {"a1", "a2", "a3", "a4", "a5"}
  Drafting = {"a3"}
  Chats = {"c1", "c2"}
  Limit = 2
  MaxCharge = 2
  Cycles = {"daemon", "p1"}
  Daemon = "daemon"
  PageSize = 2
SPECIFICATION FairSpec
INVARIANTS
  TypeOK
  UnleasedRunIsExplained
  AdmissionIsExact
  StoredCostIsSound
  SpendIsMeteredUnlessRaced
  PruneSparesRunsInFlight
  VerifiedDevicesArePrunable
  StrandedIsExplained
PROPERTIES
  ImplementsRunRegistry
  LeftoversArePruned
CHECK_DEADLOCK FALSE
