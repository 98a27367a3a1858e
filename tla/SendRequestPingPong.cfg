\* Two threads, two servers that never expire an id, no overlapping accesses.
SPECIFICATION Spec
CONSTANTS
  Calls = {c1, c2}
  Hosts = {h1, h2}
  Paths = {p1}
  RetryCount = 5
  MaxIssued = 1
  BareConflicts = FALSE
  Overlap = FALSE
  PathByReference = FALSE
CHECK_DEADLOCK FALSE
INVARIANT OkMeansAnswered
