\* 2 partitions of 3 vectors, all graphs without isolated vectors, 4 queries,
\* result lists of 1, 2 and 3 (of 4 vectors), every seed.
SPECIFICATION FairSpec
CONSTANTS
  NP = 2
  Gid = {0, 1, 2, 3}
  Routing = {0, 1}
  Home <- MCHome
  Graphs <- MCGraphs
  Dists <- MCDists
  Efs = {1, 2, 3}
INVARIANTS
  EachVectorOnce
  PoolSuffices
  BestOfSeen
  AllGraphsSearched
PROPERTIES
  Terminates
CHECK_DEADLOCK FALSE
