CONSTANTS
  U64 = 15
  Chunk = 2
  NodeSize = 4
  PlainLen <- MCPlainLen
  Lzo = {1}
  Layouts <- MCLayouts
  Ranges <- MCRanges
  None = none
SPECIFICATION FairSpec
INVARIANTS
  OutputCorrect
  CompleteWhenDone
  NeverPanics
PROPERTY Terminates
