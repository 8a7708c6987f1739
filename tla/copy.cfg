CONSTANTS
  Sources <- MCSources
  Options <- MCOptions
  Priors <- MCPriors
  HostName <- MCHostName
  Rank <- MCRank
  Lower <- MCLower
  CodeFolds = TRUE
  HostFolds = TRUE
  Tilde <- MCTilde
  Partial = "partial"
  Dest <- b
  MaxDepth = 2
  Theirs = theirs
  Links <- MCLinks
  Elsewhere = elsewhere
  ReadErrors = {"other"}
SPECIFICATION FairSpec
INVARIANTS
  TypeOK
  PartialIsMarked
  KeepsEveryEntry
  PartialNeverExitsZero
  AncestorsAreStack
  NeverIntoItself
PROPERTIES
  KeepsTheirs
  Terminates
