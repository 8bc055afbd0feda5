SPECIFICATION Spec
CONSTANTS
  Stopper = {stop, again}
  Sender = {send}
  Attacher = {attach}
  Deleter = {delete}
  Mixes = {{stop, again}, {stop, attach}, {send, delete}}
  HasProxy = TRUE
  MaxFaults <- FewFaults
INVARIANTS StopMeansExited EndedSessionIsSealed TerminalMeansProxyDown StopLeavesSeal DeleteSparesRunning
PROPERTIES RecordOnlyAdvances EndIsRecorded
CHECK_DEADLOCK FALSE
