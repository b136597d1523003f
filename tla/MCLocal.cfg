CONSTANTS
  ReadLocks = {}
  WriteLocks = {}
  TryReadLocks = {r1, r2}
  TryWriteLocks = {w1, w2}
  N = 4
  Priorities = {0}
  DebugAssertions = TRUE
  None = None
SPECIFICATION LocalSpec
SYMMETRY Symmetry
INVARIANTS RefusedForHeldLock
