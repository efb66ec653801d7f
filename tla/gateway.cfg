SPECIFICATION FairSpec
CONSTANTS
  r1 = r1
  r2 = r2
  o1 = o1
  o2 = o2
  a1 = a1
  a2 = a2
  Requests = {r1, r2}
  Outcomes = {o1, o2}
  Adapters = {a1, a2}
  AdapterOf <- MCAdapterOf
  NoRequest = NoRequest
  NoReceipt = NoReceipt
  Faults = {"lost", "late"}
  CanCrash = TRUE
  DurableState = TRUE
  PersistMarksState = FALSE
  ReconcileTargets = {"COMPLETED", "FAILED"}
INVARIANTS
  TypeOK
  AtMostOnce
  CompletionHasReceipt
  EvidenceLineage
  ExecutedAreTerminal
  MemoryNeverOverclaims
PROPERTIES
  ImplementsLifecycle
  OpenOutcomesSettle
  OnlyRecordedFailureRefused
