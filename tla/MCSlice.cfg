CONSTANTS
  ReadLocks = {}
  WriteLocks = {w1, w2}
  TryReadLocks = {q1}
  TryWriteLocks = {x1}
  Boxed = {w2, x1}
  N = 2
  MaxGen = 2
  Priorities = {0}
  DebugAssertions = TRUE
  None = None
  Settings <- MCSettings
SPECIFICATION SliceSpec
INVARIANTS SliceTypeOK NoDanglingNode OriginCorrect GuardsPointIntoContainer
PROPERTIES NoWalkOverDead
CHECK_DEADLOCK FALSE
