\* 3 partitions, up to 3 vectors, every sample and deal; lambda = 1/3.
SPECIFICATION IndexSpec
CONSTANTS
  NP = 3
  LNum = 1
  LDen = 3
  Ns = {1, 2, 3}
INVARIANTS
  OneSplit
  SearchDefined
