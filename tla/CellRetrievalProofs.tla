------------------------ MODULE CellRetrievalProofs ------------------------
(***************************************************************************)
(* What the promise of CellRetrieval amounts to, for every grid, placement *)
(* of the vectors and quota: the invariant Inv.                            *)
(***************************************************************************)
EXTENDS CellRetrieval, FiniteSetTheorems, TLAPS

\* A cell is the pair of its ranks.
LEMMA CellPairs ==
  /\ \A c \in Cells : c[1] \in Int /\ c[2] \in Int
  /\ \A c, u \in Cells : c[1] = u[1] /\ c[2] = u[2] => c = u
BY NCAssumption DEF Rank, Cells

\* The order of the cells is total.
LEMMA OrderTotal ==
  ASSUME NEW g \in Grids, NEW c \in Cells, NEW u \in Cells
  PROVE  NotAfter(g, c, u) \/ NotAfter(g, u, c)
<1>1. g[c] \in Nat /\ g[u] \in Nat
  BY GridsAssumption
<1>2. QED
  BY <1>1, CellPairs DEF NotAfter

\* The vectors of a set of cells can be counted, and more cells hold no less.
LEMMA VecsInFinite ==
  ASSUME NEW a \in [Vec -> Cells], NEW S, NEW T, S \subseteq T
  PROVE  /\ IsFiniteSet(VecsIn(a, S))
         /\ Cardinality(VecsIn(a, S)) \in Nat
         /\ Cardinality(VecsIn(a, S)) <= Cardinality(VecsIn(a, T))
<1>1. VecsIn(a, T) \subseteq Vec /\ VecsIn(a, S) \subseteq VecsIn(a, T)
  BY DEF VecsIn
<1>2. IsFiniteSet(VecsIn(a, T))
  BY <1>1, VecAssumption, FS_Subset
<1>3. QED
  BY <1>1, <1>2, FS_Subset, FS_CardinalityType

\* A cell that was not counted yet adds its vectors.
LEMMA BucketAdds ==
  ASSUME NEW a \in [Vec -> Cells], NEW S, NEW c, c \notin S
  PROVE  /\ Cardinality(Bucket(a, c)) \in Nat
         /\ Cardinality(VecsIn(a, S \cup {c})) =
              Cardinality(VecsIn(a, S)) + Cardinality(Bucket(a, c))
<1>1. Bucket(a, c) = VecsIn(a, {c})
  BY DEF Bucket, VecsIn
<1>2. IsFiniteSet(Bucket(a, c)) /\ IsFiniteSet(VecsIn(a, S))
  BY <1>1, VecsInFinite
<1>3. VecsIn(a, S \cup {c}) = VecsIn(a, S) \cup Bucket(a, c)
  BY DEF VecsIn, Bucket
<1>4. VecsIn(a, S) \cap Bucket(a, c) = {}
  BY DEF VecsIn, Bucket
<1>5. Cardinality(VecsIn(a, S) \cap Bucket(a, c)) = 0
  BY <1>4, FS_EmptySet
<1>6. /\ Cardinality(Bucket(a, c)) \in Nat
      /\ Cardinality(VecsIn(a, S)) \in Nat
  BY <1>2, FS_CardinalityType
<1>7. Cardinality(VecsIn(a, S \cup {c})) =
        Cardinality(VecsIn(a, S)) + Cardinality(Bucket(a, c))
        - Cardinality(VecsIn(a, S) \cap Bucket(a, c))
  BY <1>2, <1>3, FS_Union
<1>8. Cardinality(VecsIn(a, S \cup {c})) =
        Cardinality(VecsIn(a, S)) + Cardinality(Bucket(a, c)) - 0
  BY <1>5, <1>7
<1>9. QED
  BY <1>6, <1>8

LEMMA InitInv == Init => Inv
<1>1. ASSUME Init PROVE Inv
  <2>1. VecsIn(assign, seen) = {}
    BY <1>1 DEF Init, VecsIn
  <2>2. CountsVectors
    BY <1>1, <2>1, FS_EmptySet DEF Init, CountsVectors
  <2>3. TypeOK
    BY <1>1 DEF Init, TypeOK
  <2>4. ScoredOnce
    BY <1>1 DEF Init, ScoredOnce
  <2>5. TakenInOrder /\ LastWasNeeded
    BY <1>1 DEF Init, TakenInOrder, LastWasNeeded
  <2>6. NotEnoughYet /\ EnoughOrAll
    BY <1>1, QuotasAssumption DEF Init, InputOK, NotEnoughYet, EnoughOrAll
  <2>7. QED
    BY <2>2, <2>3, <2>4, <2>5, <2>6 DEF Inv
<1>2. QED
  BY <1>1

LEMMA RetrieveInv ==
  ASSUME Inv, NEW c \in Cells, Retrieve(c)
  PROVE  Inv'
<1> USE DEF Inv
<1>1. dist \in Grids /\ assign \in [Vec -> Cells] /\ quota \in Nat \ {0}
  BY QuotasAssumption DEF TypeOK, InputOK
<1>2. dist' = dist /\ assign' = assign /\ quota' = quota
  BY DEF Retrieve, input
<1>3. seen \subseteq Cells /\ seen' = seen \cup {c} /\ c \notin seen
  BY DEF TypeOK, Retrieve
<1>4. /\ Cardinality(Bucket(assign, c)) \in Nat
      /\ Cardinality(VecsIn(assign, seen \cup {c})) =
           Cardinality(VecsIn(assign, seen)) + Cardinality(Bucket(assign, c))
  BY <1>1, <1>3, BucketAdds
<1>5. TypeOK'
  BY <1>1, <1>2, <1>3, <1>4 DEF TypeOK, InputOK, Retrieve, Scored
<1>6. TakenInOrder'
  BY <1>1, <1>2, <1>3 DEF TakenInOrder, Retrieve
<1>7. CountsVectors'
  BY <1>2, <1>3, <1>4 DEF CountsVectors, Retrieve
<1>8. ScoredOnce'
  BY <1>1, <1>2, <1>3 DEF ScoredOnce, Retrieve, Scored, Bucket, TypeOK
<1>9. EnoughOrAll' /\ NotEnoughYet'
  <2>1. retrieved' \in Nat /\ quota' \in Nat
    BY <1>1, <1>2, <1>5 DEF TypeOK
  <2>2. CASE retrieved' >= quota'
    BY <1>2, <2>1, <2>2 DEF EnoughOrAll, NotEnoughYet, Retrieve
  <2>3. CASE ~(retrieved' >= quota')
    <3>1. ~(retrieved' >= quota)
      BY <1>2, <2>3
    <3>2. ~done'
      BY <3>1, Zenon DEF Retrieve
    <3>3. retrieved' < quota'
      BY <2>1, <2>3
    <3>4. QED
      BY <3>2, <3>3 DEF EnoughOrAll, NotEnoughYet
  <2>4. QED
    BY <2>2, <2>3
<1>10. LastWasNeeded'
  <2>1. c \in seen' /\ seen' \ {c} = seen
    BY <1>3
  <2>2. \A u \in seen' : NotAfter(dist', u, c)
    <3>1. \A u \in seen : NotAfter(dist, u, c)
      BY <1>3 DEF TakenInOrder
    <3>2. NotAfter(dist, c, c)
      BY <1>1, OrderTotal
    <3>3. QED
      BY <1>2, <1>3, <3>1, <3>2
  <2>3. Cardinality(VecsIn(assign', seen' \ {c})) < quota'
    BY <1>2, <2>1 DEF CountsVectors, NotEnoughYet, Retrieve
  <2>4. QED
    BY <2>1, <2>2, <2>3 DEF LastWasNeeded
<1>11. QED
  BY <1>5, <1>6, <1>7, <1>8, <1>9, <1>10

LEMMA StepInv == Inv /\ [Next]_vars => Inv'
<1> SUFFICES ASSUME Inv, [Next]_vars PROVE Inv'
  OBVIOUS
<1>1. ASSUME NEW c \in Cells, Retrieve(c) PROVE Inv'
  BY <1>1, RetrieveInv
<1>2. CASE RunOut
  BY <1>2 DEF Inv, RunOut, input, TypeOK, InputOK, TakenInOrder, CountsVectors,
              ScoredOnce, EnoughOrAll, LastWasNeeded, NotEnoughYet
<1>3. CASE UNCHANGED vars
  BY <1>3 DEF Inv, vars, TypeOK, InputOK, TakenInOrder, CountsVectors,
              ScoredOnce, EnoughOrAll, LastWasNeeded, NotEnoughYet
<1>4. QED
  BY <1>1, <1>2, <1>3 DEF Next

\* Whatever keeps the promise of CellRetrieval takes the cells in order, counts
\* and scores every vector once, and stops with the cell that was needed.
THEOREM RetrievalSafe == Spec => []Inv
BY InitInv, StepInv, PTL DEF Spec
=============================================================================
