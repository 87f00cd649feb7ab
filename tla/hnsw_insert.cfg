SPECIFICATION FairSpec
CONSTANTS
  t1 = t1
  t2 = t2
  Thread = {t1, t2}
  First = t1
  Adds <- MCAdds
  ParMin = 1
  M = 1
  MaxPoint = 6
  MaxLevel = 2
  MaxStops = 1
INVARIANTS
  ListsSound
  EntryIsTop
  NoDeadEnd
  LinkedBothWays
PROPERTIES
  UpperLevelsFrozen
  Terminates
CHECK_DEADLOCK FALSE
