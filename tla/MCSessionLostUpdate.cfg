SPECIFICATION Spec
CONSTANTS
  Stopper = {stop}
  Sender = {send}
  Attacher = {attach}
  Deleter = {delete}
  Mixes = {{stop}}
  HasProxy = TRUE
  MaxFaults <- NoFaults
PROPERTIES TerminalIsFinal
CHECK_DEADLOCK FALSE
