\* Two calls on the WinINet back-end, whose requests refer to the path of the session.
SPECIFICATION Spec
CONSTANTS
  Calls = {c1, c2}
  Hosts = {h1}
  Paths = {p1, p2}
  RetryCount = 5
  MaxIssued = 1
  BareConflicts = FALSE
  Overlap = FALSE
  PathByReference = TRUE
CHECK_DEADLOCK FALSE
INVARIANT OngoingRequestKeepsTarget
