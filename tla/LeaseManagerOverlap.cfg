\* The smallest instance in which two acquisitions overlap.
SPECIFICATION Spec
CONSTANTS
  Calls = {k1, k2}
  Holders = {w1, w2}
  NoHolder = nobody
  Ttl = 1
  MaxTime = 2
  MaxAcquisitions = 3
PROPERTY FencingTokenIncreases
