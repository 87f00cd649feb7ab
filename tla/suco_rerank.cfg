\* 4 vectors, 2 subspaces, every SC-score, every k and every budget.
SPECIFICATION RerankSpec
CONSTANTS
  N = 4
  TopTier = 2
  MaxScore = 2
  Dists <- MCDists
INVARIANTS
  BudgetExact
  BestGathered
  NothingBetterLeft
CHECK_DEADLOCK FALSE
