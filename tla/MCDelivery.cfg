CONSTANTS
  PhaseNames = {"plan", "build"}
  Objects <- MCObjects
  MaxVersion = 7
  MaxCommits = 2
  MaxPulls = 2
  Scenarios <- MCScenarios
  ArmNames <- MCArmNames
  ArmsOf <- MCArmsOf
  Policies <- MCPolicies
  Selections = {"s1", "s2"}
  MayAuto = {"s1"}
  Dispatches = {"d1", "d2", "d3", "l1", "i1", "i2"}
  LiveRuns = {"l1", "i1", "i2"}
  Issues = {"i1", "i2"}
  PlansOf <- MCPlansOf
  BodiesOf <- MCBodiesOf
  ChangesOf <- MCChangesOf
  Reviews = {"r1"}
  Approvals = {"q1", "q2"}
  Merges = {"m1", "m2"}
  OptionsOf <- MCOptionsOf
  Webhooks = {"w1", "w2"}
SPECIFICATION Spec
INVARIANTS
  TypeOK
  RecommendationIsSound
  OneWinnerUnlessRaced
  GatesAreExact
  HarvestedTreeIsAttested
  LatestTreeIsHarvested
  MergedIsAttested
  MergedHeadIsReviewed
CHECK_DEADLOCK FALSE
