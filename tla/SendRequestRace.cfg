\* Two threads, one server that never expires an id.
SPECIFICATION Spec
SYMMETRY Symmetry
CONSTANTS
  Calls = {c1, c2}
  Hosts = {h1}
  Paths = {p1}
  RetryCount = 5
  MaxIssued = 1
  BareConflicts = FALSE
  Overlap = TRUE
  PathByReference = FALSE
CHECK_DEADLOCK FALSE
INVARIANT NoDataRace
