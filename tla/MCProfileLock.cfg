SPECIFICATION Spec
CONSTANTS
  first = first
  second = second
  other = other
  Proc <- MCProc
  Pid <- MCPid
  PidOf <- MCPidOf
  Absent = Absent
  Ownerless = Ownerless
  NoHelper = NoHelper
  MaxFaults = 1
INVARIANTS HolderOwnsLock
PROPERTIES ImplementsLockService StaleLockIsReclaimed
CHECK_DEADLOCK FALSE
