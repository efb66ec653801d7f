SPECIFICATION ReadersSpec
CONSTANTS
  r1 = r1
  r2 = r2
  o1 = o1
  o2 = o2
  a1 = a1
  Requests = {r1, r2}
  Outcomes = {o1, o2}
  Adapters = {a1}
  AdapterOf <- MCAdapterOf
  NoRequest = NoRequest
  NoReceipt = NoReceipt
  Faults = {"lost", "late"}
  CanCrash = TRUE
  DurableState = TRUE
  PersistMarksState = TRUE
  ReconcileTargets = {"COMPLETED", "FAILED"}
  RecoveryAdapters = {a1}
  PayloadNamesAdapter = TRUE
SYMMETRY MCSymmetry
INVARIANTS
  RecoveryTypeOK
  RecoveredCompletionIsFinal
  AuditTypeOK
  RejectedIffReconciled
  RecoveredCompletionIsAudited
