\* Two callers of the run's tenant, Supabase store, one transition.
SPECIFICATION Spec
CONSTANTS
  Clients = {c1, c2}
  Strangers = {}
  OutboxAtomic = FALSE
  MaxVersion = 2
INVARIANT TransactionalOutbox
