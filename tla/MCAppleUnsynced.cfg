SPECIFICATION Spec
CONSTANTS
  Caller = {c1}
  Session = {a}
  Image = {i1}
  Exit = {x1}
  Stamp = {t1}
  None = None
  MaxLines = 5
  MaxCalls = 2
  MaxMishaps = 0
  MaxLosses = 0
INVARIANTS AckedIsDurable
CHECK_DEADLOCK FALSE
