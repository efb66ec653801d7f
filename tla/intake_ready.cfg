SPECIFICATION Spec
CONSTANTS
  Refs = {b, d, e}
  KnownIssues = KnownIssues
  PageContents <- MCPageContents
  PageEdits <- MCPageEdits
  RefContents <- MCRefContents
  MaxDepth = 2
CHECK_DEADLOCK FALSE
INVARIANTS
  UnresolvedNotReady
