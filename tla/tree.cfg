CONSTANTS
  d1 = d1
  d2 = d2
  Space = 64
  NodeSize = 1
  MaxKey = 8
  MaxDepth = 2
  CacheMax = 3
  MaxWalks = 2
  None = None
  Volumes <- MCVolumes
  Ranges <- MCRanges
SPECIFICATION Spec
CHECK_DEADLOCK FALSE
INVARIANTS
  ShowsTheTree
  FailsOnlyWhenLost
  NoLoopEntered
  OpensTheNewest
