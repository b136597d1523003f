CONSTANTS
  ReadLocks = {r1}
  WriteLocks = {w1}
  TryReadLocks = {}
  TryWriteLocks = {}
  N = 2
  Priorities = {0}
  DebugAssertions = FALSE
  None = None
SPECIFICATION Spec
INVARIANTS RemovalCompletes
