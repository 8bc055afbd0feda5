SPECIFICATION Spec
CONSTANTS
  Conn = {c1, c2}
  MaxConcurrent = 1
  MaxFaults = 1
INVARIANTS SignalsOwnGroup OwnStatusIsWhole NothingLeftBehind HelpersBounded
PROPERTIES HandlersEnd
CHECK_DEADLOCK FALSE
