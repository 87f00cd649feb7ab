SPECIFICATION FairSpec
CONSTANTS
  D = 8
  Eta = 2
  Point <- MCPoint
  Graphs <- MCGraphs
  Data <- MCData
  Shortcuts <- MCShortcuts
  Sizes <- MCSizes
  Batch = 2
INVARIANTS
  LevelsExist
  PrunedIsFarther
  BestOfEvaluated
  BeamComplete
PROPERTY
  Terminates
CHECK_DEADLOCK FALSE
