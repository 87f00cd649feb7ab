SPECIFICATION FairSpec
CONSTANTS
  Worker = {1, 2}
  Task <- MCTask
  NoTask = NoTask
  Kinds = {"shards", "successive", "replicas", "split", "plain"}
  Caller = {1, 2}
  Batches = {1, 3}
  Queries = {3}
  MaxCalls = 6
  MaxRaises = 1
INVARIANTS
  FuturesKept
  NoLateTask
  SearchExact
PROPERTIES
  CallsReturn
CHECK_DEADLOCK FALSE
