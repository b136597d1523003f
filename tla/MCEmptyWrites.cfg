CONSTANTS
  ReadLocks = {}
  WriteLocks = {}
  TryReadLocks = {}
  TryWriteLocks = {x1, x2, x3, x4}
  N = 2
  Priorities = {0}
  DebugAssertions = FALSE
  None = None
SPECIFICATION TreeCoreSpec
SYMMETRY Symmetry
INVARIANTS BorrowsExclusive
