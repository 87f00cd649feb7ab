\* 4 places (a heap of three levels), 6 ids pushed in any order, 3 distances.
SPECIFICATION HeapSpec
CONSTANTS
  Id = {0, 1, 2, 3, 4, 5}
  Dist = {1, 2, 3}
  Cap = 4
PROPERTIES
  ImplementsPool
CHECK_DEADLOCK FALSE
