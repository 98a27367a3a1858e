\* Two threads, requests to one host of this and of other clients; x86, where
\* stores are seen in their order.
SPECIFICATION FairSpec
CONSTANTS
  Threads = {t1, t2}
  Hosts = {h1}
  Ports = {9091}
  Paths = {p1}
  Users = {u1}
  Timeouts = {5000}
  Statuses = {200}
  Codes <- SomeCodes
  Nil = Nil
  StoresInOrder = TRUE
CHECK_DEADLOCK FALSE
INVARIANTS
  TypeOK
  CertificatesAreHandledAsAsked
PROPERTIES
  RequestsCopyTheSettings
  SendIsAnExchange
  EverySendEnds
