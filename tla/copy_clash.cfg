CONSTANTS
  Sources <- ClashingSources
  Options <- MCOptions
  Priors <- MCPriors
  HostName <- MCHostName
  Rank <- MCRank
  Lower <- MCLower
  CodeFolds = FALSE
  HostFolds = FALSE
  Tilde <- MCTilde
  Partial = "partial"
  Dest <- b
  MaxDepth = 2
  Theirs = theirs
  Links <- MCLinks
  Elsewhere = elsewhere
  ReadErrors = {"other"}
SPECIFICATION Spec
INVARIANT KeepsEveryEntry
