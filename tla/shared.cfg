SPECIFICATION Spec
CONSTANTS
  Gateways = {g1, g2}
  Adapters = {a1, a2}
  NoAdapter = NoAdapter
  NoGateway = NoGateway
  Outcomes = {o1, o2}
  NoReceipt = NoReceipt
  Faults = {"lost", "late"}
SYMMETRY MCSymmetry
INVARIANTS
  SharedTypeOK
  RunsAgainOnlyWhenRaced
  CompletedHasReceipt
  OutcomeHasRun
PROPERTIES
  TurnsFollowLifecycle
