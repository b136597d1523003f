\* Trees of up to ten nodes: removal then restores the black height over
\* more than one level.
CONSTANTS
  Nil = Nil
  Size = 10
  Small = 4
  Large = 7
  Nodes <- MCNodes
  Weight <- MCWeight
  WeightOf <- MCWeightOf
SPECIFICATION TreeSpec
CONSTRAINT Bounded
ACTION_CONSTRAINT Placed
INVARIANTS
  LoopsKeepInvariant
  NothingUnreachable
  SummariesExact
  QueriesExact
  RanksExact
