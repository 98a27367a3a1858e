\* Operations that may use one Torrent at the same time.
SPECIFICATION Spec
CONSTANTS
  Ops = {o1, o2, o3}
  Handles = {h1, h2}
  Lists <- Pairs
  Ids = {1}
  MaxVersion = 0
SYMMETRY Symmetry
CHECK_DEADLOCK FALSE
INVARIANT NoCrash
