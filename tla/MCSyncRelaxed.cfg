CONSTANTS
  ReadLocks = {r1}
  WriteLocks = {w1}
  TryReadLocks = {}
  TryWriteLocks = {}
  N = 1
  Priorities = {0}
  DebugAssertions = TRUE
  None = None
  Threads <- MCThreads
  Owner <- MCOwner
SPECIFICATION SyncSpec
INVARIANTS GuardsSeeWrites
