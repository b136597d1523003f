CONSTANTS
  ReadLocks = {r1}
  WriteLocks = {w1, w2}
  TryReadLocks = {q1}
  TryWriteLocks = {x1}
  N = 3
  Priorities = {0, 1}
  DebugAssertions = TRUE
  None = None
SPECIFICATION Spec
SYMMETRY Symmetry
INVARIANTS IInv TypeOK MutualExclusion BorrowsExclusive BorrowIsPrefix PendingBlocked DeadlockFree DropValidation
PROPERTIES NoOvertaking OnlyUnlockShrinks ImplementsVirtualLocks
