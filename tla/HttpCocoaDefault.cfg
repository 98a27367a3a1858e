\* A client that was told nothing: are the errors of certificates acknowledged?
SPECIFICATION Spec
CONSTANTS
  Threads = {t1}
  Hosts = {h1}
  Ports = {9091}
  Paths = {p1}
  Users = {u1}
  Timeouts = {5000}
  Statuses = {200}
  Codes = {"TimedOut"}
  Nil = Nil
  StoresInOrder = TRUE
CHECK_DEADLOCK FALSE
INVARIANTS
  ErrorsAreAcknowledgedByDefault
