CONSTANTS
  None = None
  Empty = Empty
  Shared = Shared
  Priv = Priv
  Work = Work
  \* Every failure the code handles may happen.
  Timeouts = TRUE
  Corrupt = TRUE
  MarshalMayFail = TRUE
  Skew = TRUE
SPECIFICATION Spec
\* A session ends after its last call returns.
CHECK_DEADLOCK FALSE
INVARIANTS
  TypeOK
  ConnectOutcomeExclusive
  ReportMatchesOutcome
PROPERTIES
  SessionRefinement
  StrandedOnlyAfterError
