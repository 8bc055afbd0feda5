SPECIFICATION Spec
CONSTANTS
  Caller = {c1, c2}
  Session = {a, b}
  Image = {i1, i2}
  Exit = {x1}
  Stamp = {t1, t2}
  None = None
  MaxLines = 6
  MaxCalls = 3
  MaxMishaps = 1
  MaxLosses = 1
INVARIANTS EvidenceOnce ChainUnforked RetryAccepted
PROPERTIES Agreement
SYMMETRY Symmetry
CHECK_DEADLOCK FALSE
