CONSTANTS
  ReadLocks = {r1}
  WriteLocks = {w1, w2}
  TryReadLocks = {q1}
  TryWriteLocks = {x1}
  N = 2
  Priorities = {0, 1}
  DebugAssertions = TRUE
  None = None
SPECIFICATION TreeCoreSpec
SYMMETRY Symmetry
INVARIANTS TreesSound SearchesAgree FirstEndpointIsLower
PROPERTIES ImplementsCore
