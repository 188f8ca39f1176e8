\* Three writers racing for the head of a chain of at most four records.
SPECIFICATION Spec
CONSTANTS
  Writers = {w1, w2, w3}
  MaxRecords = 4
INVARIANTS
  TypeOK
  ChainAlwaysVerifies
  AttestedPrefixIsFinal
PROPERTY ImplementsEvidenceLog
