CONSTANTS
  ReadLocks = {r1}
  WriteLocks = {w1, w2}
  TryReadLocks = {}
  TryWriteLocks = {}
  N = 2
  Priorities = {0}
  DebugAssertions = TRUE
  None = None
  Threads <- MCThreads
  Owner <- MCOwner
SPECIFICATION SyncSpec
SYMMETRY Symmetry
INVARIANTS SyncTypeOK GuardIsGranted GuardsExclusive FlagOutlivesBorrow NoLostUnpark OrderedAfterWriters
