\* 3 x 3 cells, 24 grids, 2 vectors; quota 3 = more than exist.
SPECIFICATION FairSpec
CONSTANTS
  NC = 3
  Vec = {v1, v2}
  Grids <- MCGrids
  Quotas = {1, 2, 3}
  FltMax = 6
INVARIANTS
  IdenticalResults
PROPERTIES
  ImplementsRetrieval
  Terminates
CHECK_DEADLOCK FALSE
