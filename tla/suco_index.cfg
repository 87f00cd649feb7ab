\* 2 subspaces, 2 buckets, 2 vectors, 2 trainings; xb never holds more than 2.
SPECIFICATION Spec
CONSTANTS
  v1 = v1
  v2 = v2
  t1 = t1
  t2 = t2
  b1 = b1
  b2 = b2
  NS = 2
  Bucket = {b1, b2}
  Vector = {v1, v2}
  Model = {t1, t2}
  mixed = mixed
  Blank = mixed
  Junk = Junk
  CellOf <- MCCellOf
  Batches <- MCBatches
  MaxVecs = 2
  MaxStops = 2
INVARIANTS
  Coherent
  OpenIsBacked
