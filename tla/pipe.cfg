CONSTANTS
  Clients = {c1, c2}
  Pids = {1, 2}
  MaxStarts = 3
  MaxBuild = 2
  Nil = Nil
  Free = Free
  Left = Left
  Broken = Broken
  Other = Other
  Gone = Gone
SPECIFICATION FairPipeSpec
INVARIANTS
  NameHeld
  TrustsOnlyService
PROPERTY HandsOver
