\* Three operations on two Torrents, in any order and overlapping.
SPECIFICATION Spec
CONSTANTS
  Ops = {o1, o2, o3}
  Handles = {h1, h2}
  Lists <- Pairs
  Ids = {1, 2}
  MaxVersion = 1
SYMMETRY Symmetry
CHECK_DEADLOCK FALSE
INVARIANTS
  TypeOK
  SessionInvalidIsTruthful
  RemovedIsGone
PROPERTIES
  UpdatesKeepTheTorrent
  UpdatesAreTruthful
  HollowOnlyBehindAnEqual
  SessionStaysDead
  OnlySharingCrashes
