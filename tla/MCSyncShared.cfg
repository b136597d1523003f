CONSTANTS
  ReadLocks = {r1}
  WriteLocks = {w1}
  TryReadLocks = {q1}
  TryWriteLocks = {x1}
  N = 2
  Priorities = {0}
  DebugAssertions = TRUE
  None = None
  Threads <- SharedThreads
  Owner <- SharedOwner
SPECIFICATION FairSyncSpec
PROPERTIES GrantedReturns UnlockTerminates
