SPECIFICATION Spec
CONSTANTS
  Kinds <- MCKinds
  Base <- MCBase
  ClientNodes <- MCClientNodes
  ClientEdges <- MCClientEdges
  ClientUpdates <- MCClientUpdates
  NoFile = NoFile
  Torn = Torn
  MaxCalls = 4
  Paths = {"p", "q"}
  PathLists <- MCPathLists
  Unparsed = Unparsed
  Sources <- MCSources
  Policies <- MCPolicies
  Contracts <- MCContracts
  Evidence <- MCEvidence
INVARIANTS
  GraphTypeOK
  StructureSound
  OnlyRecordsInvalidate
  RoundTrip
  ScansHonourScope
  OneScopePerPath
PROPERTIES
  CandidatesPersist
