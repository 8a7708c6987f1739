CONSTANTS
  Up = 0
  MaxClimb = 3
  MAX_FIND_DEPTH = 4
  Error = Error
  None = None
  Hash <- MCHash
  Parts <- MCParts
  Filesystems <- MCFilesystems
  Starts <- MCStarts
  Wishes <- MCWishes
SPECIFICATION FairSpec
CHECK_DEADLOCK FALSE
INVARIANTS
  FindsWhatResolves
  EachDirectoryOnce
  SubvolsResolve
  SeenAreOpen
PROPERTY Terminates
