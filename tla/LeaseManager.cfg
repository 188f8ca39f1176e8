\* Two overlapping calls, two workers.
SPECIFICATION Spec
CONSTANTS
  Calls = {k1, k2}
  Holders = {w1, w2}
  NoHolder = nobody
  Ttl = 1
  MaxTime = 3
  MaxAcquisitions = 3
INVARIANTS
  TypeOK
  TokenCountsAcquisitions
PROPERTIES
  ActiveLeaseIsNotTaken
  ImplementsAtomicLease
