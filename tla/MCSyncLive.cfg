CONSTANTS
  ReadLocks = {r1}
  WriteLocks = {w1, w2}
  TryReadLocks = {}
  TryWriteLocks = {}
  N = 2
  Priorities = {0}
  DebugAssertions = TRUE
  None = None
  Threads <- MCThreads
  Owner <- MCOwner
  MaxCalls = 4
SPECIFICATION LiveSpec
PROPERTIES EveryWaiterGetsIn
CHECK_DEADLOCK FALSE
