SPECIFICATION AuthSpec
CONSTANTS
  a1 = a1
  x1 = x1
  z1 = z1
  ExecutionIds = {x1}
  Contents = {c1, c2}
  IdOf <- MCIdOf
  AuthorizationOf <- MCAuthorizationOf
  Names = {n1}
  Authorizations = {z1}
  l1 = l1
  l2 = l2
  Authorities = {l1, l2}
  NoAuthority = NoAuthority
  Renewals <- MCRenewals
  MaxKnown = 3
  MaxStored = 2
  Unbound = Unbound
  Requests <- MCRequests
  Outcomes = {o1}
  Adapters = {a1}
  AdapterOf <- MCAdapterOf
  NoRequest = NoRequest
  NoReceipt = NoReceipt
  Faults = {}
  CanCrash = TRUE
  DurableState = TRUE
  PersistMarksState = TRUE
  ReconcileTargets = {"COMPLETED"}
SYMMETRY MCSymmetry
INVARIANTS
  BoundRunsAreChecked
