\* 3 vectors, levels 0 and 2, every permutation.
SPECIFICATION IndexSpec
CONSTANTS
  v1 = v1
  v2 = v2
  v3 = v3
  Vector = {v1, v2, v3}
  Zero = Zero
  Levels = {0, 2}
  MaxVecs = 3
INVARIANTS
  RepsInStep
PROPERTIES
  PermuteKeepsGraph
