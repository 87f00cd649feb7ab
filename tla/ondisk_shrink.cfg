\* The sizes of the code: ids of 8 bytes, a first file of 32.  A list of 9
\* codes of one byte (capacity 16) is cut to 1 entry, whose 9 bytes fit into
\* the 16 that free_slot gives back.
SPECIFICATION Spec
CONSTANTS
  Adder = {1, 2}
  Worker = {}
  Thread <- MCThread
  Nobody = Nobody
  List = {0}
  CodeSize = 1
  IdSize = 8
  FirstSize = 32
  Batches = {9}
  Sizes = {1}
  Requests = {}
  Merges = {}
  AddToMerged = FALSE
  MaxRequests = 0
PROPERTIES
  ImplementsStore
