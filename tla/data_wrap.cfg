CONSTANTS
  d1 = d1
  d2 = d2
  Space = 64
  Align = 4
  MAX_IO = 5
  MaxInterrupts = 1
  None = None
  Sector = 8
  MAX_RAM_BYTES = 32
  MaxStored = 40
  Cases <- MCCases
SPECIFICATION Spec
CHECK_DEADLOCK FALSE
INVARIANT OutsideIsReported
