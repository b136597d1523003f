CONSTANTS
  ReadLocks = {r1}
  WriteLocks = {w1, w2}
  TryReadLocks = {}
  TryWriteLocks = {x1}
  N = 2
  Priorities = {0}
  DebugAssertions = TRUE
  None = None
  Tasks = {t1, t2}
SPECIFICATION FairAsyncSpec
INVARIANTS AsyncTypeOK NoLostWakeup ReadyExclusive
PROPERTIES WakesOnlyPoller CompletedResolves
