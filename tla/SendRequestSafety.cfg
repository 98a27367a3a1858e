\* Two threads, two servers that expire an id once; setHost between any two steps.
\* No symmetry, because liveness is checked.
SPECIFICATION FairSpec
CONSTANTS
  Calls = {c1, c2}
  Hosts = {h1, h2}
  Paths = {p1}
  RetryCount = 3
  MaxIssued = 2
  BareConflicts = TRUE
  Overlap = TRUE
  PathByReference = FALSE
CHECK_DEADLOCK FALSE
INVARIANTS
  TypeOK
  OneRequestAtATime
  OutcomeIsTruthful
  OnlyTransportErrorsLinger
  UndisturbedRetryIsAccepted
PROPERTIES
  ContractHolds
  EveryCallReturns
