SPECIFICATION Spec
CONSTANTS
  Pid = {p, q}
  None = None
  Settings <- MCSettings
  MaxSpawns <- FewSpawns
  MaxPolls = 1
  MaxFaults = 1
INVARIANTS OnlyProfileSignalled GroupSignalsStayHome ReapedMeansDead ReportedMeansGone
SYMMETRY Symmetry
CHECK_DEADLOCK FALSE
