\* Two callers of the run's tenant and one of another, Supabase store.
SPECIFICATION Spec
CONSTANTS
  Clients = {c1, c2, c3}
  Strangers = {c3}
  OutboxAtomic = FALSE
  MaxVersion = 4
INVARIANTS
  TypeOK
  OneChainOfCommits
  OutboxTellsTheTruth
  KnowledgeIsHistory
  MissingEventExplained
PROPERTY ImplementsRunPhases
