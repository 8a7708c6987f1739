CONSTANTS
  Paths <- MCPaths
  Offsets = {0, 1}
  Sizes = {1, 2, 3}
  MAX_PATH = 1
  MAX_READ = 1
  ClientMaxPath = 2
  ClientMaxRead = 2
  MAX_MESSAGE = 1
  TextLen = 1
  Protocols = {1, 2}
  MaxCalls = 4
  None = None
  Lost = Lost
  Refused = Refused
SPECIFICATION FairSpec
INVARIANTS
  InStep
PROPERTIES
  KeepsPromise
  NeitherWaits
CHECK_DEADLOCK FALSE
