SPECIFICATION Spec
CONSTANTS
  r1 = r1
  r2 = r2
  o1 = o1
  o2 = o2
  a1 = a1
  a2 = a2
  Requests = {r1, r2}
  Outcomes = {o1, o2}
  Adapters = {a1, a2}
  AdapterOf <- MCAdapterOf
  NoRequest = NoRequest
  NoReceipt = NoReceipt
  Faults = {}
  CanCrash = FALSE
  DurableState = TRUE
  PersistMarksState = FALSE
  ReconcileTargets = {"COMPLETED", "FAILED"}
INVARIANTS
  NothingLeftRunning
CHECK_DEADLOCK FALSE
