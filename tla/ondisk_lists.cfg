\* Ids of 4 bytes and codes of 1: lists stay below a capacity of 5 entries.
SPECIFICATION FairSpec
CONSTANTS
  Adder = {1, 2, 3}
  Worker = {w1}
  Thread <- MCThread
  Nobody = Nobody
  List = {0, 1}
  CodeSize = 1
  IdSize = 4
  FirstSize = 8
  Batches = {1, 2}
  Sizes = {1}
  Requests <- MCRequests
  Merges <- MCMerges
  AddToMerged = FALSE
  MaxRequests = 1
INVARIANTS
  WriterAlone
  NobodyForgotten
  BytesOwnedOnce
PROPERTIES
  ReadUndisturbed
  ImplementsStore
  CallsReturn
