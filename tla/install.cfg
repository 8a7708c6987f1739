CONSTANTS
  Builds = {b1, b2}
  MaxGen = 3
  MaxFaults = 2
  None = None
  Junk = Junk
SPECIFICATION Spec
SYMMETRY Symmetry
INVARIANTS
  SuccessIsTrue
  NoHalfService
