SPECIFICATION Spec
CONSTANTS
  Hypotheses = {"holds", "violated"}
  Items <- MCItems
  Outcomes <- MCOutcomes
  Observations <- MCObservations
  Precision = 3
  MaxCalls = 6
  Invariants = {"i1", "i2"}
  CandidateLists <- MCCandidateLists
  Namings <- MCNamings
  Evidence = {"e1"}
  Own = "own"
INVARIANTS
  BeliefTypeOK
  NoEarlyCertainty
  QuestionStaysOpen
  OneQuestionPerHypothesis
PROPERTIES
  BeliefMovesWithState
  InformedWhenSupported
CHECK_DEADLOCK FALSE
