\* Two threads, with a port set or none, requests sent again with other headers,
\* connections lost anywhere.
SPECIFICATION Spec
CONSTANTS
  Threads = {t1, t2}
  Handles = {k1, k2}
  Lists = {l1, l2}
  Null = Null
  Hosts = {h1}
  Ports <- SomePorts
  Paths = {p1}
  Users = {u1}
  Timeouts = {5000}
  Names = {n1}
  Values = {v1, v2}
  Bodies = {b1}
  Statuses = {200}
  Codes <- SomeCodes
  Chunks = 2
SYMMETRY Symmetry
INVARIANTS
  TypeOK
  TransfersOwnWhatTheyUse
PROPERTIES
  RequestsCopyTheSettings
  SendIsAnExchange
