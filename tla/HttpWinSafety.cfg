\* Two threads create requests between changes of every setting.
SPECIFICATION Spec
CONSTANTS
  Threads = {t1, t2}
  Handles = {h1, h2, h3}
  Null = Null
  Hosts <- TwoHosts
  Ports <- SomePorts
  Users = {"u"}
  Timeouts = {"5 s", "0 s"}
SYMMETRY Symmetry
INVARIANTS
  TypeOK
  CachedSessionIsCurrent
  SessionsLiveWhileOwned
  RequestsGoWhereAsked
  TimeoutsUnlessOverlapped
PROPERTY
  RequestsCopyTheSettings
