SPECIFICATION Spec
CONSTANTS
  Run = {p1, p2}
  Name = {n1, n2}
  Version = {v1, v2}
  None = None
  MaxReleases = 2
  MaxLost = 2
  MaxMeddling = 2
INVARIANTS SuccessIsExact OnlyTheWindowEscapes
SYMMETRY Symmetry
CHECK_DEADLOCK FALSE
