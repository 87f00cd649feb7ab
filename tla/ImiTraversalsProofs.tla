------------------------ MODULE ImiTraversalsProofs ------------------------
(***************************************************************************)
(* dynamic_activate and dynamic_activate_multisequence implement           *)
(* CellRetrieval, and the two traversals agree, for every number of        *)
(* centroids, every set of vectors, every quota and every grid (of the     *)
(* first, whose sums stay below the sentinel FLT_MAX).                     *)
(*                                                                         *)
(* The names that begin with DA are about DynamicActivation, those with MS *)
(* about MultiSequence; DARP and MSRP are the proofs about CellRetrieval,  *)
(* at the variables of the one and the other.                              *)
(***************************************************************************)
EXTENDS ImiTraversals, FiniteSetTheorems, TLAPS

DARP == INSTANCE CellRetrievalProofs
         WITH seen <- daSeen, retrieved <- daRetrieved,
              scores <- daScores, done <- daDone

MSRP == INSTANCE CellRetrievalProofs
         WITH seen <- msSeen, retrieved <- msRetrieved,
              scores <- msScores, done <- msDone

\* A cell is the pair of its ranks.
LEMMA CellPairs ==
  /\ \A c \in Cells : c[1] \in Int /\ c[2] \in Int /\ c = <<c[1], c[2]>>
  /\ \A c, u \in Cells : c[1] = u[1] /\ c[2] = u[2] => c = u
BY NCAssumption DEF Rank, Cells

\* The order of the cells is antisymmetric.
LEMMA OrderAntisymmetric ==
  ASSUME NEW g \in Grids, NEW c \in Cells, NEW u \in Cells,
         NotAfter(g, c, u), NotAfter(g, u, c)
  PROVE  c = u
<1>1. g[c] \in Nat /\ g[u] \in Nat
  BY GridsAssumption
<1>2. c[1] = u[1] /\ c[2] = u[2]
  BY <1>1, NCAssumption DEF NotAfter, Cells, Rank
<1>3. QED
  BY <1>2 DEF Cells

\* The vectors of a set of cells can be counted, and more cells hold no less.
LEMMA VecsInFinite ==
  ASSUME NEW a \in [Vec -> Cells], NEW S, NEW T, S \subseteq T
  PROVE  /\ IsFiniteSet(VecsIn(a, S))
         /\ Cardinality(VecsIn(a, S)) \in Nat
         /\ Cardinality(VecsIn(a, S)) <= Cardinality(VecsIn(a, T))
<1>1. VecsIn(a, T) \subseteq Vec /\ VecsIn(a, S) \subseteq VecsIn(a, T)
  BY DEF VecsIn
<1>2. IsFiniteSet(VecsIn(a, T))
  BY <1>1, VecAssumption, FS_Subset
<1>3. QED
  BY <1>1, <1>2, FS_Subset, FS_CardinalityType

\* Of two prefixes one holds the other: traversals do not diverge.
LEMMA PrefixesNested ==
  ASSUME NEW g \in Grids, NEW S \in SUBSET Cells, NEW T \in SUBSET Cells,
         Prefix(g, S), Prefix(g, T)
  PROVE  S \subseteq T \/ T \subseteq S
<1> SUFFICES ASSUME NEW c \in S \ T, NEW u \in T \ S
             PROVE  FALSE
  OBVIOUS
<1>1. NotAfter(g, c, u) /\ NotAfter(g, u, c)
  BY DEF Prefix
<1>2. c = u
  BY <1>1, OrderAntisymmetric
<1>3. QED
  BY <1>2

\* The cells T, the last of which was needed to reach the quota q, hold no
\* smaller prefix that reaches it.
LEMMA NoShorterPrefix ==
  ASSUME NEW g \in Grids, NEW a \in [Vec -> Cells], NEW q \in Nat,
         NEW S \in SUBSET Cells, NEW T \in SUBSET Cells,
         Prefix(g, S), S \subseteq T, S # T,
         NEW c \in T, \A u \in T : NotAfter(g, u, c),
         Cardinality(VecsIn(a, T \ {c})) < q
  PROVE  ~(Cardinality(VecsIn(a, S)) >= q)
<1>1. PICK u \in T \ S : TRUE
  OBVIOUS
<1>2. c \notin S
  <2> SUFFICES ASSUME c \in S PROVE FALSE
    OBVIOUS
  <2>1. NotAfter(g, c, u) /\ NotAfter(g, u, c)
    BY <1>1 DEF Prefix
  <2>2. QED
    BY <1>1, <2>1, OrderAntisymmetric
<1>3. S \subseteq T \ {c}
  BY <1>2
<1>4. /\ Cardinality(VecsIn(a, S)) <= Cardinality(VecsIn(a, T \ {c}))
      /\ Cardinality(VecsIn(a, S)) \in Nat
      /\ Cardinality(VecsIn(a, T \ {c})) \in Nat
  BY <1>3, VecsInFinite
<1>5. QED
  BY <1>4

\* The cells of a traversal that has returned hold those of any other traversal
\* of the same grid.
LEMMA ReturnedIsLongest ==
  ASSUME NEW g, NEW a, NEW q, NEW S, NEW sc, NEW T, NEW st, NEW fin,
         RetrievalResult(g, a, q, S, sc, TRUE),
         RetrievalResult(g, a, q, T, st, fin)
  PROVE  T \subseteq S
<1> USE DEF RetrievalResult
<1>1. S \subseteq T \/ T \subseteq S
  BY PrefixesNested
<1> SUFFICES ASSUME S \subseteq T, S # T PROVE FALSE
  BY <1>1
<1>2. T # {} /\ S # Cells
  OBVIOUS
<1>3. PICK c \in T : /\ \A u \in T : NotAfter(g, u, c)
                     /\ Cardinality(VecsIn(a, T \ {c})) < q
  BY <1>2
<1>4. ~(Cardinality(VecsIn(a, S)) >= q)
  BY <1>3, NoShorterPrefix
<1>5. QED
  BY <1>2, <1>4

\* Two traversals that have returned gave the same scores.
LEMMA SameScores ==
  ASSUME NEW g, NEW a, NEW q, NEW S, NEW sc, NEW T, NEW st,
         RetrievalResult(g, a, q, S, sc, TRUE),
         RetrievalResult(g, a, q, T, st, TRUE)
  PROVE  S = T /\ sc = st
<1>1. S = T
  BY ReturnedIsLongest
<1>2. QED
  BY <1>1 DEF RetrievalResult


\* The operators of ImiGrid that dynamic_activate uses are those used here.
LEMMA DAOperators ==
  /\ DA!Rank = Rank
  /\ DA!Cells = Cells
  /\ \A g, c, u : DA!NotAfter(g, c, u) <=> NotAfter(g, c, u)
  /\ \A c, u : DA!Dominates(c, u) <=> Dominates(c, u)
  /\ \A a, c : DA!Bucket(a, c) = Bucket(a, c)
  /\ \A s, a, c : DA!Scored(s, a, c) = Scored(s, a, c)
  /\ \A S : DA!Cardinality(S) = Cardinality(S)
<1>1. DA!Rank = Rank
  BY DEF DA!Rank, Rank
<1>2. DA!Cells = Cells
  BY <1>1 DEF DA!Cells, Cells
<1>3. \A g, c, u : DA!NotAfter(g, c, u) <=> NotAfter(g, c, u)
  BY Zenon DEF DA!NotAfter, NotAfter
<1>4. \A c, u : DA!Dominates(c, u) <=> Dominates(c, u)
  BY DEF DA!Dominates, Dominates
<1>5. \A a, c : DA!Bucket(a, c) = Bucket(a, c)
  BY DEF DA!Bucket, Bucket
<1>6. \A s, a, c : DA!Scored(s, a, c) = Scored(s, a, c)
  BY <1>5 DEF DA!Scored, Scored
<1>7. \A S : DA!Cardinality(S) = Cardinality(S)
  BY DEF DA!Cardinality, Cardinality, DA!IsFiniteSet, IsFiniteSet
<1>8. QED
  BY <1>1, <1>2, <1>3, <1>4, <1>5, <1>6, <1>7

\* From here on they are replaced by those.
USE DAOperators


DAExhaustedRows == { i \in DA!ActiveRows : DA!Exhausted(i) }

DAIInv == DA!TypeOK /\ DA!RowsAgree

\* The distances of the query are those of a grid below the sentinel.
LEMMA DADistType ==
  ASSUME SumsBelowSentinel, DA!TypeOK
  PROVE  /\ dist \in Grids
         /\ \A c \in Cells : dist[c] \in Nat /\ dist[c] < FltMax
         /\ \A c, u \in Cells : Dominates(c, u) => dist[c] <= dist[u]
<1>1. dist \in Grids
  BY DEF DA!TypeOK, DA!R!TypeOK, DA!R!InputOK
<1>2. QED
  BY <1>1, GridsAssumption DEF SumsBelowSentinel, Monotone

LEMMA DARowTypes ==
  ASSUME DA!TypeOK
  PROVE  /\ NC \in Nat \ {0}
         /\ active \in 1 .. NC
         /\ DA!ActiveRows \subseteq Rank
         /\ \A i \in Rank : /\ i \in Nat /\ i >= 1 /\ i <= NC
                            /\ ptr[i] \in Nat /\ ptr[i] >= 1 /\ ptr[i] <= NC
                            /\ combined[i] \in Nat
                            /\ <<i, ptr[i]>> \in Cells
<1>1. NC \in Nat \ {0} /\ active \in 1 .. NC
  BY NCAssumption DEF DA!TypeOK, Rank
<1>2. DA!ActiveRows \subseteq Rank
  BY <1>1 DEF DA!ActiveRows, Rank
<1>3. ASSUME NEW i \in Rank
      PROVE  /\ ptr[i] \in Rank /\ combined[i] \in Nat
             /\ <<i, ptr[i]>> \in Cells
  BY <1>3 DEF DA!TypeOK, Cells
<1>4. \A i \in Rank : i \in Nat /\ i >= 1 /\ i <= NC
  BY <1>1 DEF Rank
<1>5. QED
  BY <1>1, <1>2, <1>3, <1>4

LEMMA DAInitIInv == SumsBelowSentinel /\ DA!Init => DAIInv
<1> SUFFICES ASSUME SumsBelowSentinel, DA!Init PROVE DAIInv
  OBVIOUS
<1>1. dist \in Grids /\ <<1, 1>> \in Cells /\ 1 \in Rank
  BY NCAssumption DEF DA!Init, DA!R!Init, DA!R!InputOK, Cells, Rank
<1>2. dist[<<1, 1>>] \in Nat /\ dist[<<1, 1>>] < FltMax
  BY <1>1, GridsAssumption DEF SumsBelowSentinel
<1>3. DA!TypeOK
  BY <1>1, <1>2 DEF DA!Init, DA!R!Init, DA!TypeOK, DA!R!TypeOK
<1>4. DA!ActiveRows = {1}
  BY DEF DA!Init, DA!ActiveRows
<1>5. combined[1] = dist[<<1, 1>>] /\ ptr[1] = 1 /\ ~DA!Exhausted(1)
  BY <1>1, <1>2, FltMaxAssumption DEF DA!Init, DA!Exhausted
<1>6. DA!EntriesMatch /\ DA!LastRowFresh
  BY <1>1, <1>4, <1>5 DEF DA!Init, DA!EntriesMatch, DA!LastRowFresh
<1>7. DA!PointersAreSeen
  <2>1. \A c \in Cells : ~(c[1] <= active /\ (c[2] < ptr[c[1]] \/ DA!Exhausted(c[1])))
    BY <1>1, <1>5, CellPairs, NCAssumption DEF DA!Init, Cells, Rank
  <2>2. QED
    BY <2>1 DEF DA!PointersAreSeen, DA!Init, DA!R!Init
<1>8. DA!ExhaustedCounted
  BY <1>4, <1>5, FS_EmptySet DEF DA!Init, DA!ExhaustedCounted
<1>9. QED
  BY <1>3, <1>6, <1>7, <1>8 DEF DAIInv, DA!RowsAgree

\* While the loop's condition holds some row is not exhausted, so the row
\* chosen is not.
LEMMA DAChosenRow ==
  ASSUME SumsBelowSentinel, DAIInv, ~daDone, exhausted < active,
         NEW pos \in DA!ActiveRows, DA!FirstMin(pos)
  PROVE  ~DA!Exhausted(pos) /\ combined[pos] = dist[<<pos, ptr[pos]>>]
<1> USE DEF DAIInv, DA!RowsAgree
<1>1. /\ IsFiniteSet(DA!ActiveRows)
      /\ Cardinality(DA!ActiveRows) = active
  BY DARowTypes, FS_Interval DEF DA!ActiveRows
<1>2. DAExhaustedRows # DA!ActiveRows
  BY <1>1, DARowTypes DEF DAExhaustedRows, DA!ExhaustedCounted, DA!TypeOK
<1>3. PICK z \in DA!ActiveRows : ~DA!Exhausted(z)
  BY <1>2 DEF DAExhaustedRows
<1>4. combined[z] < FltMax
  BY <1>3, DADistType, DARowTypes DEF DA!EntriesMatch
<1>5. ~DA!Exhausted(pos)
  <2>1. combined[pos] <= combined[z]
    BY <1>3 DEF DA!FirstMin
  <2>2. combined[pos] \in Nat /\ combined[z] \in Nat
    BY <1>3, DARowTypes
  <2>3. QED
    BY <1>4, <2>1, <2>2, FltMaxAssumption DEF DA!Exhausted
<1>6. QED
  BY <1>5 DEF DA!EntriesMatch

\* The cell an iteration retrieves is the first that was not retrieved.
LEMMA DAChosenCell ==
  ASSUME SumsBelowSentinel, DAIInv, ~daDone, exhausted < active,
         NEW pos \in DA!ActiveRows, DA!FirstMin(pos)
  PROVE  /\ <<pos, ptr[pos]>> \in Cells \ daSeen
         /\ \A u \in Cells \ daSeen : NotAfter(dist, <<pos, ptr[pos]>>, u)
<1> USE DEF DAIInv, DA!RowsAgree
<1> DEFINE c == <<pos, ptr[pos]>>
<1>1. ~DA!Exhausted(pos) /\ combined[pos] = dist[c]
  BY DAChosenRow
<1>2. c \in Cells /\ c \notin daSeen
  BY <1>1, DARowTypes DEF DA!PointersAreSeen
<1>3. ASSUME NEW u \in Cells \ daSeen
      PROVE  NotAfter(dist, c, u)
  <2>1. /\ u[1] \in Rank /\ u[2] \in Rank /\ u = <<u[1], u[2]>>
        /\ u[1] \in Int /\ u[2] \in Int
    BY CellPairs DEF Cells, Rank
  <2>2. dist[c] \in Nat /\ dist[u] \in Nat
    BY <1>2, DADistType
  <2>3. CASE u[1] <= active
    <3>1. u[1] \in DA!ActiveRows
      BY <2>1, <2>3, DARowTypes DEF DA!ActiveRows, Rank
    <3>2. ptr[u[1]] <= u[2] /\ ~DA!Exhausted(u[1])
      <4>1. ~(u[2] < ptr[u[1]] \/ DA!Exhausted(u[1]))
        BY <1>3, <2>3 DEF DA!PointersAreSeen
      <4>2. u[2] \in Int /\ ptr[u[1]] \in Int
        <5>1. u[1] \in Rank /\ u[2] \in Int
          BY <2>1
        <5>2. ptr[u[1]] \in Nat
          BY <5>1, DARowTypes
        <5>3. QED
          BY <5>1, <5>2
      <4>3. QED
        BY <4>1, <4>2
    <3>3. combined[u[1]] = dist[<<u[1], ptr[u[1]]>>]
      BY <3>1, <3>2 DEF DA!EntriesMatch
    <3>4. combined[u[1]] <= dist[u]
      <4>1. Dominates(<<u[1], ptr[u[1]]>>, u) /\ <<u[1], ptr[u[1]]>> \in Cells
        BY <2>1, <3>2, DARowTypes DEF Dominates
      <4>2. QED
        BY <3>3, <4>1, DADistType
    <3>5. /\ combined[pos] <= combined[u[1]]
          /\ u[1] < pos => combined[pos] < combined[u[1]]
      BY <3>1 DEF DA!FirstMin
    <3>6. combined[u[1]] \in Nat /\ pos \in Nat /\ ptr[pos] \in Nat
      BY <2>1, DARowTypes
    <3>7. CASE u[1] = pos
      BY <1>1, <2>1, <2>2, <3>2, <3>4, <3>5, <3>6, <3>7 DEF NotAfter
    <3>8. CASE u[1] # pos
      BY <1>1, <2>1, <2>2, <3>4, <3>5, <3>6, <3>8 DEF NotAfter
    <3>9. QED
      BY <3>7, <3>8
  <2>4. CASE ~(u[1] <= active)
    <3>1. active \in DA!ActiveRows /\ active < NC /\ active < u[1]
      BY <2>1, <2>4, DARowTypes DEF DA!ActiveRows, Rank
    <3>2. ptr[active] = 1 /\ ~DA!Exhausted(active)
      BY <3>1 DEF DA!LastRowFresh
    <3>3. combined[active] = dist[<<active, 1>>] /\ <<active, 1>> \in Cells
      BY <3>1, <3>2, DARowTypes DEF DA!EntriesMatch
    <3>4. combined[active] <= dist[u]
      <4>1. Dominates(<<active, 1>>, u)
        BY <2>1, <3>1, DARowTypes DEF Dominates, Rank
      <4>2. QED
        BY <3>3, <4>1, DADistType
    <3>5. combined[pos] <= combined[active]
      BY <3>1 DEF DA!FirstMin
    <3>6. pos <= active /\ pos \in Nat
      BY DARowTypes DEF DA!ActiveRows
    <3>7. active \in Nat /\ combined[active] \in Nat /\ combined[pos] \in Nat
      BY <3>1, DARowTypes
    <3>8. QED
      BY <1>1, <2>1, <2>2, <3>1, <3>4, <3>5, <3>6, <3>7 DEF NotAfter
  <2>5. QED
    BY <2>3, <2>4
<1>4. QED
  BY <1>2, <1>3

\* The abstract module's copies of the operators of ImiGrid are those of ImiGrid.
LEMMA DASameOperators ==
  /\ DA!R!Cells = Cells
  /\ \A g, c, u : DA!R!NotAfter(g, c, u) <=> NotAfter(g, c, u)
  /\ \A a, c : DA!R!Bucket(a, c) = Bucket(a, c)
  /\ \A s, a, c : DA!R!Scored(s, a, c) = Scored(s, a, c)
  /\ \A S : DA!R!Cardinality(S) = Cardinality(S)
<1>1. DA!R!Cells = Cells
  BY DEF DA!R!Cells, Cells, DA!R!Rank, Rank
<1>2. \A g, c, u : DA!R!NotAfter(g, c, u) <=> NotAfter(g, c, u)
  BY Zenon DEF DA!R!NotAfter, NotAfter
<1>3. \A a, c : DA!R!Bucket(a, c) = Bucket(a, c)
  BY DEF DA!R!Bucket, Bucket
<1>4. \A s, a, c : DA!R!Scored(s, a, c) = Scored(s, a, c)
  BY <1>3 DEF DA!R!Scored, Scored
<1>5. \A S : DA!R!Cardinality(S) = Cardinality(S)
  BY DEF DA!R!Cardinality, Cardinality, DA!R!IsFiniteSet, IsFiniteSet
<1>6. QED
  BY <1>1, <1>2, <1>3, <1>4, <1>5

\* An iteration retrieves that cell, as CellRetrieval demands.
LEMMA DAIterateRetrieves ==
  ASSUME SumsBelowSentinel, DAIInv, NEW pos \in DA!ActiveRows, DA!Iterate(pos)
  PROVE  DA!R!Retrieve(<<pos, ptr[pos]>>)
<1>1. /\ <<pos, ptr[pos]>> \in Cells \ daSeen
      /\ \A u \in Cells \ daSeen : NotAfter(dist, <<pos, ptr[pos]>>, u)
  BY DAChosenCell DEF DA!Iterate
<1>2. QED
  BY <1>1, DASameOperators DEF DA!Iterate, DA!R!Retrieve, DA!input, DA!R!input

\* When every active row is exhausted all rows were activated: nothing is left.
LEMMA DAEndMeansAll ==
  ASSUME SumsBelowSentinel, DAIInv, ~daDone, ~(exhausted < active)
  PROVE  daSeen = Cells
<1> USE DEF DAIInv, DA!RowsAgree
<1>1. DAExhaustedRows = DA!ActiveRows
  <2>1. IsFiniteSet(DA!ActiveRows) /\ Cardinality(DA!ActiveRows) = active
    BY DARowTypes, FS_Interval DEF DA!ActiveRows
  <2>2. DAExhaustedRows \subseteq DA!ActiveRows
    BY DEF DAExhaustedRows
  <2>3. Cardinality(DAExhaustedRows) = exhausted
    BY DEF DA!ExhaustedCounted, DAExhaustedRows
  <2>4. Cardinality(DAExhaustedRows) <= Cardinality(DA!ActiveRows)
    BY <2>1, <2>2, FS_Subset
  <2>5. Cardinality(DAExhaustedRows) = Cardinality(DA!ActiveRows)
    BY <2>1, <2>3, <2>4, DARowTypes DEF DA!TypeOK
  <2>6. QED
    BY <2>1, <2>2, <2>5, FS_Subset
<1>2. active \in DA!ActiveRows
  BY DARowTypes DEF DA!ActiveRows
<1>3. active = NC
  BY <1>1, <1>2, DARowTypes DEF DA!LastRowFresh, DAExhaustedRows
<1>4. \A c \in Cells : c[1] \in DA!ActiveRows /\ c[1] <= active
  BY <1>3, DARowTypes DEF Cells, Rank, DA!ActiveRows
<1>5. QED
  BY <1>1, <1>4 DEF DA!PointersAreSeen, DAExhaustedRows

-----------------------------------------------------------------------------
LEMMA DAIterateType ==
  ASSUME SumsBelowSentinel, DAIInv, NEW pos \in DA!ActiveRows, DA!Iterate(pos)
  PROVE  DA!TypeOK'
<1> USE DEF DAIInv
<1> DEFINE c == <<pos, ptr[pos]>>
<1>1. c \in Cells
  BY DARowTypes
<1>2. /\ IsFiniteSet(Bucket(assign, c))
      /\ Cardinality(Bucket(assign, c)) \in Nat
  BY VecAssumption, FS_Subset, FS_CardinalityType DEF Bucket
<1>3. DA!R!TypeOK'
  <2>1. /\ dist' = dist /\ assign' = assign /\ quota' = quota
        /\ daSeen' = daSeen \cup {c} /\ daScores' = Scored(daScores, assign, c)
        /\ daRetrieved' = daRetrieved + Cardinality(Bucket(assign, c))
        /\ daDone' \in BOOLEAN
    BY DEF DA!Iterate, DA!input
  <2>2. Scored(daScores, assign, c) \in [Vec -> Nat]
    BY DEF Scored, DA!TypeOK, DA!R!TypeOK
  <2>3. QED
    BY <1>1, <1>2, <2>1, <2>2, DASameOperators
       DEF DA!TypeOK, DA!R!TypeOK, DA!R!InputOK
<1>4. CASE UNCHANGED DA!rows
  BY <1>3, <1>4 DEF DA!TypeOK, DA!rows
<1>5. CASE DA!Advance(pos)
  <2>1. active' \in Rank
    BY <1>5, DARowTypes DEF DA!Advance, DA!Activates, Rank
  <2>2. DA!NextDist(pos) \in Nat
    <3>1. CASE ptr[pos] < NC
      <4>1. <<pos, ptr[pos] + 1>> \in Cells
        <5>1. pos \in Rank /\ ptr[pos] \in Nat /\ ptr[pos] >= 1 /\ NC \in Nat
          BY DARowTypes
        <5>2. ptr[pos] + 1 \in Rank
          BY <3>1, <5>1 DEF Rank
        <5>3. QED
          BY <5>1, <5>2 DEF Cells
      <4>2. QED
        BY <3>1, <4>1, DADistType DEF DA!NextDist
    <3>2. CASE ~(ptr[pos] < NC)
      BY <3>2, FltMaxAssumption DEF DA!NextDist
    <3>3. QED
      BY <3>1, <3>2
  <2>3. combined' \in [Rank -> Nat]
    <3>1. \A i \in Rank : dist[<<i, 1>>] \in Nat
      BY NCAssumption, DADistType DEF Cells, Rank
    <3>2. QED
      BY <1>5, <2>2, <3>1, DARowTypes DEF DA!Advance
  <2>4. ptr' \in [Rank -> Rank]
    <3>1. 1 \in Rank /\ \A r \in Rank : r < NC => r + 1 \in Rank
      BY NCAssumption DEF Rank
    <3>2. QED
      BY <1>5, <3>1 DEF DA!Advance, DA!TypeOK
  <2>5. exhausted' \in Nat
    BY <1>5 DEF DA!Advance, DA!TypeOK
  <2>6. QED
    BY <1>3, <2>1, <2>3, <2>4, <2>5 DEF DA!TypeOK
<1>6. QED
  BY <1>4, <1>5 DEF DA!Iterate

\* Moving on keeps pointers, sentinels, counter and retrieved cells together.
LEMMA DAAdvanceAgrees ==
  ASSUME SumsBelowSentinel, DAIInv, DA!TypeOK', ~daDone, exhausted < active,
         NEW pos \in DA!ActiveRows, DA!FirstMin(pos), DA!Advance(pos),
         dist' = dist, daSeen' = daSeen \cup {<<pos, ptr[pos]>>}
  PROVE  /\ DA!EntriesMatch' /\ DA!PointersAreSeen'
         /\ DA!LastRowFresh' /\ DA!ExhaustedCounted'
<1> USE DEF DAIInv, DA!RowsAgree
<1>1. /\ ~DA!Exhausted(pos)
      /\ \A i \in Rank : i \in Int /\ ptr[i] \in Int /\ i <= NC /\ ptr[i] <= NC
                         /\ 1 <= i /\ 1 <= ptr[i]
      /\ NC \in Int /\ active \in Int /\ 1 <= active /\ active <= NC
      /\ pos \in Rank /\ pos \in Int /\ 1 <= pos /\ pos <= active
  <2>1. \A i \in Rank : i \in Int /\ ptr[i] \in Int /\ i <= NC /\ ptr[i] <= NC
                         /\ 1 <= i /\ 1 <= ptr[i]
    <3> SUFFICES ASSUME NEW i \in Rank
                 PROVE  /\ i \in Int /\ ptr[i] \in Int /\ i <= NC /\ ptr[i] <= NC
                        /\ 1 <= i /\ 1 <= ptr[i]
      OBVIOUS
    <3>1. /\ i \in Nat /\ i >= 1 /\ i <= NC
          /\ ptr[i] \in Nat /\ ptr[i] >= 1 /\ ptr[i] <= NC
      BY DARowTypes
    <3>2. QED
      BY <3>1
  <2>2. NC \in Int /\ active \in Int /\ 1 <= active /\ active <= NC
    BY DARowTypes
  <2>3. pos \in Rank /\ pos \in Int /\ 1 <= pos /\ pos <= active
    BY <2>2, DARowTypes DEF DA!ActiveRows
  <2>4. QED
    BY <2>1, <2>2, <2>3, DAChosenRow
<1>2. \A i \in Rank : dist[<<i, 1>>] \in Nat /\ dist[<<i, 1>>] < FltMax
  BY NCAssumption, DADistType DEF Cells, Rank
<1>3. ptr[pos] < NC =>
        /\ DA!NextDist(pos) = dist[<<pos, ptr[pos] + 1>>]
        /\ DA!NextDist(pos) \in Nat /\ DA!NextDist(pos) < FltMax
  BY <1>1, DADistType DEF DA!NextDist, Cells, Rank
<1>4. ~(ptr[pos] < NC) => DA!NextDist(pos) = FltMax /\ ptr[pos] = NC
  BY <1>1 DEF DA!NextDist
\* The row pos after the step, the row it may activate, and the others.
<1>5. /\ combined'[pos] = DA!NextDist(pos)
      /\ ptr'[pos] = IF ptr[pos] < NC THEN ptr[pos] + 1 ELSE ptr[pos]
      /\ (DA!Exhausted(pos))' <=> ~(ptr[pos] < NC)
  BY <1>1, <1>3, <1>4, FltMaxAssumption DEF DA!Advance, DA!Exhausted
<1>6. DA!Activates(pos) =>
           /\ active' = active + 1 /\ active' = pos + 1 /\ pos + 1 \in Rank
           /\ combined'[pos + 1] = dist[<<pos + 1, 1>>]
           /\ ptr'[pos + 1] = 1
           /\ ~(DA!Exhausted(pos + 1))'
  BY <1>1, <1>2, FltMaxAssumption DEF DA!Advance, DA!Activates, DA!Exhausted, Rank
<1>7. ~DA!Activates(pos) => active' = active
  BY DEF DA!Advance
<1>8. \A i \in Rank : i # pos /\ ~(DA!Activates(pos) /\ i = pos + 1) =>
        /\ combined'[i] = combined[i] /\ ptr'[i] = ptr[i]
        /\ (DA!Exhausted(i))' <=> DA!Exhausted(i)
  BY DEF DA!Advance, DA!Exhausted
<1>9. DA!EntriesMatch'
  <2> SUFFICES ASSUME NEW i \in DA!ActiveRows'
               PROVE  \/ combined'[i] = dist'[<<i, ptr'[i]>>]
                      \/ (DA!Exhausted(i))' /\ ptr'[i] = NC
    BY DEF DA!EntriesMatch
  <2>1. i \in Rank /\ i \in Int /\ i <= active' /\ 1 <= i
    BY <1>1, <1>6, <1>7 DEF DA!ActiveRows, Rank
  <2>2. CASE i = pos
    BY <1>1, <1>3, <1>4, <1>5, <2>2
  <2>3. CASE DA!Activates(pos) /\ i = pos + 1
    BY <1>6, <2>3
  <2>4. CASE i # pos /\ ~(DA!Activates(pos) /\ i = pos + 1)
    <3>1. i \in DA!ActiveRows
      BY <1>1, <1>6, <1>7, <2>1, <2>4 DEF DA!ActiveRows, DA!Activates
    <3>2. QED
      BY <1>8, <2>1, <2>4, <3>1 DEF DA!EntriesMatch
  <2>5. QED
    BY <2>2, <2>3, <2>4
<1>10. DA!PointersAreSeen'
  <2>1. ASSUME NEW u \in Cells
        PROVE  u \in daSeen' <=> /\ u[1] <= active'
                                 /\ u[2] < ptr'[u[1]] \/ (DA!Exhausted(u[1]))'
    <3>1. /\ u[1] \in Rank /\ u[1] \in Int /\ u[1] <= NC
          /\ u[2] \in Int /\ u[2] >= 1 /\ u[2] <= NC
      BY <1>1 DEF Cells, Rank
    <3>2. u \in daSeen <=> /\ u[1] <= active
                           /\ u[2] < ptr[u[1]] \/ DA!Exhausted(u[1])
      BY DEF DA!PointersAreSeen
    <3>3. u = <<pos, ptr[pos]>> <=> u[1] = pos /\ u[2] = ptr[pos]
      BY DEF Cells
    <3>4. CASE u[1] = pos
      <4>1. u \in daSeen' <=> u[2] <= ptr[pos]
        BY <1>1, <3>1, <3>2, <3>3, <3>4
      <4>2. u[1] <= active'
        BY <1>1, <1>6, <1>7, <3>4
      <4>3. u[2] <= ptr[pos] <=> u[2] < ptr'[pos] \/ (DA!Exhausted(pos))'
        BY <1>1, <1>5, <3>1
      <4>4. QED
        BY <3>4, <4>1, <4>2, <4>3
    <3>5. CASE DA!Activates(pos) /\ u[1] = pos + 1
      <4>1. u \notin daSeen'
        BY <1>1, <3>2, <3>3, <3>5 DEF DA!Activates
      <4>2. ~(u[2] < ptr'[u[1]]) /\ ~(DA!Exhausted(u[1]))'
        BY <1>6, <3>1, <3>5
      <4>3. QED
        BY <4>1, <4>2
    <3>6. CASE u[1] # pos /\ ~(DA!Activates(pos) /\ u[1] = pos + 1)
      <4>1. u \in daSeen' <=> u \in daSeen
        BY <3>3, <3>6
      <4>2. u[1] <= active' <=> u[1] <= active
        BY <1>1, <1>6, <1>7, <3>1, <3>6 DEF DA!Activates
      <4>3. QED
        BY <1>8, <3>1, <3>2, <3>6, <4>1, <4>2
    <3>7. QED
      BY <3>4, <3>5, <3>6
  <2>2. daSeen' \subseteq Cells
    BY DEF DA!TypeOK, DA!R!TypeOK, DA!R!Cells, Cells, DA!R!Rank, Rank
  <2>3. QED
    BY <2>1, <2>2 DEF DA!PointersAreSeen
<1>11. DA!LastRowFresh'
  <2> SUFFICES ASSUME active' < NC
               PROVE  ptr'[active'] = 1 /\ combined'[active'] # FltMax
    BY DEF DA!LastRowFresh, DA!Exhausted
  <2>1. CASE DA!Activates(pos)
    <3>1. /\ active' = pos + 1 /\ pos + 1 \in Rank /\ ptr'[pos + 1] = 1
          /\ combined'[pos + 1] = dist[<<pos + 1, 1>>]
      BY <1>6, <2>1
    <3>2. dist[<<pos + 1, 1>>] # FltMax
      BY <1>2, <3>1, FltMaxAssumption
    <3>3. QED
      BY <3>1, <3>2
  <2>2. CASE ~DA!Activates(pos)
    <3>1. ptr[active] = 1 /\ ~DA!Exhausted(active) /\ active' = active
      BY <1>7, <2>2 DEF DA!LastRowFresh
    <3>2. pos # active
      BY <1>1, <2>2, <3>1 DEF DA!Activates
    <3>3. active \in Rank
      BY <1>1 DEF Rank
    <3>4. ptr'[active] = 1 /\ combined'[active] = combined[active]
      BY <1>8, <2>2, <3>1, <3>2, <3>3
    <3>5. QED
      BY <3>1, <3>4 DEF DA!Exhausted
  <2>3. QED
    BY <2>1, <2>2
<1>12. DA!ExhaustedCounted'
  <2> DEFINE E == { i \in DA!ActiveRows : DA!Exhausted(i) }
             E2 == { i \in DA!ActiveRows' : (DA!Exhausted(i))' }
  <2>1. IsFiniteSet(E) /\ pos \notin E
    <3>1. IsFiniteSet(DA!ActiveRows)
      BY DARowTypes, FS_Interval DEF DA!ActiveRows
    <3>2. QED
      BY <1>1, <3>1, FS_Subset
  <2>2. E2 = IF ptr[pos] < NC THEN E ELSE E \cup {pos}
    <3>1. ASSUME NEW i \in Rank
          PROVE  i \in E2 <=> i \in E \/ (i = pos /\ ~(ptr[pos] < NC))
      <4>1. i \in DA!ActiveRows' <=> i <= active'
        BY <1>1, <1>6, <1>7 DEF DA!ActiveRows
      <4>2. i \in DA!ActiveRows <=> i <= active
        BY <1>1 DEF DA!ActiveRows
      <4>3. CASE i = pos
        BY <1>1, <1>5, <1>6, <1>7, <4>1, <4>2, <4>3
      <4>4. CASE DA!Activates(pos) /\ i = pos + 1
        BY <1>1, <1>6, <4>1, <4>2, <4>4
      <4>5. CASE i # pos /\ ~(DA!Activates(pos) /\ i = pos + 1)
        <5>1. i <= active' <=> i <= active
          BY <1>1, <1>6, <1>7, <4>5 DEF DA!Activates
        <5>2. QED
          BY <1>8, <4>1, <4>2, <4>5, <5>1
      <4>6. QED
        BY <4>3, <4>4, <4>5
    <3>2. DA!ActiveRows \subseteq Rank /\ DA!ActiveRows' \subseteq Rank
      BY <1>1, <1>6, <1>7 DEF DA!ActiveRows, Rank
    <3>3. QED
      BY <1>1, <3>1, <3>2
  <2>3. Cardinality(E2) = IF ptr[pos] < NC THEN Cardinality(E)
                          ELSE Cardinality(E) + 1
    BY <2>1, <2>2, FS_AddElement
  <2>4. exhausted = Cardinality(E)
    BY DEF DA!ExhaustedCounted
  <2>5. exhausted' = Cardinality(E2)
    BY <2>3, <2>4 DEF DA!Advance
  <2>6. QED
    BY <2>5 DEF DA!ExhaustedCounted
<1>13. QED
  BY <1>9, <1>10, <1>11, <1>12

LEMMA DAStepIInv == SumsBelowSentinel /\ DAIInv /\ [DA!Next]_DA!vars => DAIInv'
<1> SUFFICES ASSUME SumsBelowSentinel, DAIInv, [DA!Next]_DA!vars PROVE DAIInv'
  OBVIOUS
<1>1. ASSUME NEW pos \in DA!ActiveRows, DA!Iterate(pos) PROVE DAIInv'
  <2>1. DA!TypeOK'
    BY <1>1, DAIterateType
  <2>2. CASE daRetrieved' >= quota
    <3>1. daDone'
      BY <1>1, <2>2 DEF DA!Iterate
    <3>2. QED
      BY <2>1, <3>1 DEF DAIInv, DA!RowsAgree
  <2>3. CASE ~(daRetrieved' >= quota)
    <3>1. /\ ~daDone /\ exhausted < active /\ DA!FirstMin(pos) /\ DA!Advance(pos)
          /\ dist' = dist /\ daSeen' = daSeen \cup {<<pos, ptr[pos]>>}
      BY <1>1, <2>3 DEF DA!Iterate, DA!input
    <3>2. QED
      BY <2>1, <3>1, DAAdvanceAgrees DEF DAIInv, DA!RowsAgree
  <2>4. QED
    BY <2>2, <2>3
<1>2. CASE DA!LoopEnds
  BY <1>2 DEF DAIInv, DA!RowsAgree, DA!LoopEnds, DA!input, DA!rows,
              DA!TypeOK, DA!R!TypeOK, DA!R!InputOK
<1>3. CASE UNCHANGED DA!vars
  <2>1. DA!TypeOK'
    BY <1>3 DEF DAIInv, DA!vars, DA!TypeOK, DA!R!TypeOK, DA!R!InputOK
  <2>2. DA!RowsAgree'
    BY <1>3 DEF DAIInv, DA!vars, DA!RowsAgree, DA!EntriesMatch,
                DA!PointersAreSeen, DA!LastRowFresh,
                  DA!ExhaustedCounted, DA!ActiveRows, DA!Exhausted
  <2>3. QED
    BY <2>1, <2>2 DEF DAIInv
<1>4. QED
  BY <1>1, <1>2, <1>3 DEF DA!Next

\* Every step of dynamic_activate is a step of CellRetrieval, or none.
LEMMA DAStepSimulates ==
  SumsBelowSentinel /\ DAIInv /\ [DA!Next]_DA!vars => [DA!R!Next]_DA!R!vars
<1> SUFFICES ASSUME SumsBelowSentinel, DAIInv, [DA!Next]_DA!vars
             PROVE  [DA!R!Next]_DA!R!vars
  OBVIOUS
<1>1. ASSUME NEW pos \in DA!ActiveRows, DA!Iterate(pos) PROVE DA!R!Next
  <2>1. <<pos, ptr[pos]>> \in DA!R!Cells
    BY DARowTypes, DASameOperators DEF DAIInv
  <2>2. QED
    BY <1>1, <2>1, DAIterateRetrieves DEF DA!R!Next
<1>2. CASE DA!LoopEnds
  <2>1. daSeen = DA!R!Cells
    <3>1. ~(exhausted < active)
      BY <1>2, DARowTypes DEF DA!LoopEnds, DAIInv, DA!TypeOK
    <3>2. QED
      BY <1>2, <3>1, DAEndMeansAll, DASameOperators DEF DA!LoopEnds
  <2>2. QED
    BY <1>2, <2>1 DEF DA!LoopEnds, DA!R!Next, DA!R!RunOut, DA!input, DA!R!input
<1>3. CASE UNCHANGED DA!vars
  BY <1>3 DEF DA!vars, DA!R!vars
<1>4. QED
  BY <1>1, <1>2, <1>3 DEF DA!Next

\* The entries of the active rows, their sentinels, the counter of exhausted
\* rows and the cells retrieved agree in every iteration of dynamic_activate.
THEOREM RowsAlwaysAgree ==
  ASSUME SumsBelowSentinel
  PROVE  DA!Spec => [](DA!TypeOK /\ DA!RowsAgree)
<1>1. DA!Init => DAIInv
  BY DAInitIInv
<1>2. DAIInv /\ [DA!Next]_DA!vars => DAIInv'
  BY DAStepIInv
<1>3. DAIInv => DA!TypeOK /\ DA!RowsAgree
  BY DEF DAIInv
<1>4. QED
  BY <1>1, <1>2, <1>3, PTL DEF DA!Spec

\* dynamic_activate retrieves the cells of the grid in ascending order of
\* (distance, row, column), each once, until the quota is reached.
THEOREM DynamicActivationImplementsRetrieval ==
  ASSUME SumsBelowSentinel
  PROVE  DA!Spec => DA!ImplementsRetrieval
<1>1. DA!Init => DA!R!Init
  BY DEF DA!Init
<1>2. DAIInv /\ [DA!Next]_DA!vars => [DA!R!Next]_DA!R!vars
  BY DAStepSimulates
<1>3. DA!Init => DAIInv
  BY DAInitIInv
<1>4. DAIInv /\ [DA!Next]_DA!vars => DAIInv'
  BY DAStepIInv
<1>5. QED
  BY <1>1, <1>2, <1>3, <1>4, PTL DEF DA!Spec, DA!ImplementsRetrieval, DA!R!Spec
-----------------------------------------------------------------------------
\* Hence all that CellRetrieval guarantees (the copies of its operators that
\* come with its proofs are those of the specification).
LEMMA DASameInProofs ==
  /\ DARP!Cells = Cells
  /\ \A g, c, u : DARP!NotAfter(g, c, u) <=> NotAfter(g, c, u)
  /\ \A a, c : DARP!Bucket(a, c) = Bucket(a, c)
  /\ \A s, a, c : DARP!Scored(s, a, c) = Scored(s, a, c)
  /\ \A a, S : DA!R!VecsIn(a, S) = DARP!VecsIn(a, S)
  /\ \A S : DARP!Cardinality(S) = Cardinality(S)
<1>1. DARP!Cells = Cells
  BY DEF DARP!Cells, Cells, DARP!Rank, Rank
<1>2. \A g, c, u : DARP!NotAfter(g, c, u) <=> NotAfter(g, c, u)
  BY Zenon DEF DARP!NotAfter, NotAfter
<1>3. \A a, c : DARP!Bucket(a, c) = Bucket(a, c)
  BY DEF DARP!Bucket, Bucket
<1>4. \A s, a, c : DARP!Scored(s, a, c) = Scored(s, a, c)
  BY <1>3 DEF DARP!Scored, Scored
<1>5. \A a, S : DA!R!VecsIn(a, S) = DARP!VecsIn(a, S)
  BY DEF DARP!VecsIn, DA!R!VecsIn
<1>6. \A S : DARP!Cardinality(S) = Cardinality(S)
  BY DEF DARP!Cardinality, Cardinality, DARP!IsFiniteSet, IsFiniteSet
<1>7. QED
  BY <1>1, <1>2, <1>3, <1>4, <1>5, <1>6

LEMMA DASameSpec ==
  /\ DA!R!Init => DARP!Init
  /\ [DA!R!Next]_DA!R!vars => [DARP!Next]_DARP!vars
  /\ DARP!Inv => DA!R!Inv
<1> USE DASameOperators, DASameInProofs
<1>1. DA!R!Init => DARP!Init
  BY DEF DA!R!Init, DARP!Init, DA!R!InputOK, DARP!InputOK
<1>2. [DA!R!Next]_DA!R!vars => [DARP!Next]_DARP!vars
  <2>1. ASSUME NEW c, DA!R!Retrieve(c) PROVE DARP!Retrieve(c)
    BY <2>1 DEF DA!R!Retrieve, DARP!Retrieve, DA!R!input, DARP!input
  <2>2. DA!R!RunOut => DARP!RunOut
    BY DEF DA!R!RunOut, DARP!RunOut, DA!R!input, DARP!input
  <2>3. QED
    BY <2>1, <2>2 DEF DA!R!Next, DARP!Next, DA!R!vars, DARP!vars
<1>3. DARP!Inv => DA!R!Inv
  <2> SUFFICES ASSUME DARP!Inv PROVE DA!R!Inv
    OBVIOUS
  <2>1. DA!R!TypeOK
    BY DEF DARP!Inv, DARP!TypeOK, DA!R!TypeOK, DARP!InputOK, DA!R!InputOK
  <2>2. DA!R!TakenInOrder /\ DA!R!ScoredOnce
    BY DEF DARP!Inv, DARP!TakenInOrder, DA!R!TakenInOrder,
           DARP!ScoredOnce, DA!R!ScoredOnce
  <2>3. DA!R!CountsVectors /\ DA!R!EnoughOrAll /\ DA!R!NotEnoughYet
    BY DEF DARP!Inv, DARP!CountsVectors, DA!R!CountsVectors, DARP!EnoughOrAll,
             DA!R!EnoughOrAll, DARP!NotEnoughYet, DA!R!NotEnoughYet
  <2>4. DA!R!LastWasNeeded
    BY DEF DARP!Inv, DARP!LastWasNeeded, DA!R!LastWasNeeded
  <2>5. QED
    BY <2>1, <2>2, <2>3, <2>4 DEF DA!R!Inv
<1>4. QED
  BY <1>1, <1>2, <1>3

\* dynamic_activate scores every vector of the cells it retrieves once, the
\* others not at all, and stops with the cell that filled the quota.
THEOREM DynamicActivationSafe ==
  ASSUME SumsBelowSentinel
  PROVE  DA!Spec => [](DA!ScoredOnce /\ DA!LastWasNeeded /\ DA!R!Inv)
<1>1. DA!Spec => DA!R!Spec
  BY DynamicActivationImplementsRetrieval DEF DA!ImplementsRetrieval
<1>2. DA!R!Spec => DARP!Spec
  BY DASameSpec, PTL DEF DA!R!Spec, DARP!Spec
<1>3. DARP!Spec => []DARP!Inv
  <2>1. /\ NC \in Nat \ {0} /\ IsFiniteSet(Vec) /\ DARP!IsFiniteSet(Vec)
        /\ Quotas \subseteq Nat \ {0}
        /\ FltMax \in Nat
        /\ \A g \in Grids : g \in [DARP!Cells -> Nat] /\ DARP!Monotone(g)
    BY NCAssumption, VecAssumption, QuotasAssumption, FltMaxAssumption,
       GridsAssumption, DASameInProofs
       DEF DARP!Monotone, Monotone, DARP!Dominates, Dominates,
           DARP!IsFiniteSet, IsFiniteSet
  <2>2. QED
    BY <2>1, DARP!RetrievalSafe, PTL
<1>4. DARP!Inv => DA!ScoredOnce /\ DA!LastWasNeeded /\ DA!R!Inv
  BY DASameSpec DEF DA!R!Inv, DA!ScoredOnce, DA!LastWasNeeded
<1>5. QED
  BY <1>1, <1>2, <1>3, <1>4, PTL

DAResult == RetrievalResult(dist, assign, quota, daSeen, daScores, daDone)

\* The same in terms of the grid alone.
THEOREM DynamicActivationResult ==
  ASSUME SumsBelowSentinel
  PROVE  DA!Spec => []DAResult
<1>1. DA!R!Inv => DAResult
  <2> SUFFICES ASSUME DA!R!Inv PROVE DAResult
    OBVIOUS
  <2>1. /\ dist \in Grids /\ assign \in [Vec -> Cells] /\ quota \in Nat
        /\ daSeen \in SUBSET Cells /\ daScores \in [Vec -> Nat]
    BY QuotasAssumption, DASameOperators DEF DA!R!Inv, DA!R!TypeOK, DA!R!InputOK
  <2>2. Prefix(dist, daSeen)
    BY DASameOperators DEF DA!R!Inv, DA!R!TakenInOrder, Prefix
  <2>3. \A v \in Vec : daScores[v] = IF assign[v] \in daSeen THEN 1 ELSE 0
    BY DEF DA!R!Inv, DA!R!ScoredOnce
  <2>4. \A S : DA!R!VecsIn(assign, S) = VecsIn(assign, S)
    BY DEF DA!R!VecsIn, VecsIn
  <2>5. daDone => Cardinality(VecsIn(assign, daSeen)) >= quota \/ daSeen = Cells
    BY <2>4, DASameOperators DEF DA!R!Inv, DA!R!EnoughOrAll, DA!R!CountsVectors
  <2>6. daSeen # {} => \E c \in daSeen :
                         /\ \A u \in daSeen : NotAfter(dist, u, c)
                         /\ Cardinality(VecsIn(assign, daSeen \ {c})) < quota
    BY <2>4, DASameOperators DEF DA!R!Inv, DA!R!LastWasNeeded
  <2>7. QED
    BY <2>1, <2>2, <2>3, <2>5, <2>6 DEF DAResult, RetrievalResult
<1>2. QED
  BY <1>1, DynamicActivationSafe, PTL
-----------------------------------------------------------------------------


\* The operators of ImiGrid that the heap traversal uses are those used here.
LEMMA MSOperators ==
  /\ MS!Rank = Rank
  /\ MS!Cells = Cells
  /\ \A g, c, u : MS!NotAfter(g, c, u) <=> NotAfter(g, c, u)
  /\ \A c, u : MS!Dominates(c, u) <=> Dominates(c, u)
  /\ \A a, c : MS!Bucket(a, c) = Bucket(a, c)
  /\ \A s, a, c : MS!Scored(s, a, c) = Scored(s, a, c)
  /\ \A S : MS!Cardinality(S) = Cardinality(S)
<1>1. MS!Rank = Rank
  BY DEF MS!Rank, Rank
<1>2. MS!Cells = Cells
  BY <1>1 DEF MS!Cells, Cells
<1>3. \A g, c, u : MS!NotAfter(g, c, u) <=> NotAfter(g, c, u)
  BY Zenon DEF MS!NotAfter, NotAfter
<1>4. \A c, u : MS!Dominates(c, u) <=> Dominates(c, u)
  BY DEF MS!Dominates, Dominates
<1>5. \A a, c : MS!Bucket(a, c) = Bucket(a, c)
  BY DEF MS!Bucket, Bucket
<1>6. \A s, a, c : MS!Scored(s, a, c) = Scored(s, a, c)
  BY <1>5 DEF MS!Scored, Scored
<1>7. \A S : MS!Cardinality(S) = Cardinality(S)
  BY DEF MS!Cardinality, Cardinality, MS!IsFiniteSet, IsFiniteSet
<1>8. QED
  BY <1>1, <1>2, <1>3, <1>4, <1>5, <1>6, <1>7

\* From here on they are replaced by those.
USE MSOperators

\* The order of the cells is transitive.
LEMMA OrderTransitive ==
  ASSUME NEW g \in Grids, NEW c \in Cells, NEW u \in Cells, NEW w \in Cells,
         NotAfter(g, c, u), NotAfter(g, u, w)
  PROVE  NotAfter(g, c, w)
<1>1. g[c] \in Nat /\ g[u] \in Nat /\ g[w] \in Nat
  BY GridsAssumption
<1>2. QED
  BY <1>1, CellPairs DEF NotAfter

MSIInv == MS!TypeOK /\ MS!Frontier

\* The abstract module's copies of the operators of ImiGrid are those of ImiGrid.
LEMMA MSSameOperators ==
  /\ MS!R!Cells = Cells
  /\ \A g, c, u : MS!R!NotAfter(g, c, u) <=> NotAfter(g, c, u)
  /\ \A a, c : MS!R!Bucket(a, c) = Bucket(a, c)
  /\ \A s, a, c : MS!R!Scored(s, a, c) = Scored(s, a, c)
  /\ \A S : MS!R!Cardinality(S) = Cardinality(S)
<1>1. MS!R!Cells = Cells
  BY DEF MS!R!Cells, Cells, MS!R!Rank, Rank
<1>2. \A g, c, u : MS!R!NotAfter(g, c, u) <=> NotAfter(g, c, u)
  BY Zenon DEF MS!R!NotAfter, NotAfter
<1>3. \A a, c : MS!R!Bucket(a, c) = Bucket(a, c)
  BY DEF MS!R!Bucket, Bucket
<1>4. \A s, a, c : MS!R!Scored(s, a, c) = Scored(s, a, c)
  BY <1>3 DEF MS!R!Scored, Scored
<1>5. \A S : MS!R!Cardinality(S) = Cardinality(S)
  BY DEF MS!R!Cardinality, Cardinality, MS!R!IsFiniteSet, IsFiniteSet
<1>6. QED
  BY <1>1, <1>2, <1>3, <1>4, <1>5

LEMMA MSDistType ==
  ASSUME MS!TypeOK
  PROVE  /\ dist \in Grids /\ msSeen \subseteq Cells
         /\ \A c \in Cells : dist[c] \in Nat
         /\ \A c, u \in Cells : Dominates(c, u) => dist[c] <= dist[u]
<1>1. dist \in Grids /\ msSeen \subseteq Cells
  BY MSSameOperators DEF MS!TypeOK, MS!R!TypeOK, MS!R!InputOK
<1>2. QED
  BY <1>1, GridsAssumption DEF Monotone

\* A cell that is no farther in both halves comes no later.
LEMMA MSDominatesNotAfter ==
  ASSUME MS!TypeOK, NEW c \in Cells, NEW u \in Cells, Dominates(c, u)
  PROVE  NotAfter(dist, c, u)
<1>1. dist[c] \in Nat /\ dist[u] \in Nat /\ dist[c] <= dist[u]
  BY MSDistType
<1>2. QED
  BY <1>1, CellPairs DEF Dominates, NotAfter

LEMMA MSInitIInv == MS!Init => MSIInv
<1> SUFFICES ASSUME MS!Init PROVE MSIInv
  OBVIOUS
<1>1. MS!First \in Cells /\ \A u \in Cells : Dominates(MS!First, u)
  BY NCAssumption DEF MS!First, Cells, Rank, Dominates
<1>2. MS!TypeOK
  BY <1>1 DEF MS!Init, MS!R!Init, MS!TypeOK, MS!R!TypeOK
<1>3. MS!Queued = {MS!First} /\ msSeen = {}
  BY <1>1 DEF MS!Init, MS!R!Init, MS!Queued
<1>4. MS!PushedOnce
  BY <1>1, <1>3 DEF MS!Init, MS!PushedOnce
<1>5. MS!SeenClosed /\ MS!HeapIsFrontier
  BY <1>1, <1>3 DEF MS!SeenClosed, MS!HeapIsFrontier
<1>6. QED
  BY <1>2, <1>4, <1>5 DEF MSIInv, MS!Frontier

\* The top of the heap is the first cell that was not retrieved.
LEMMA MSTopIsFirst ==
  ASSUME MSIInv, ~msDone, NEW c \in MS!Queued, MS!IsTop(c)
  PROVE  /\ c \in Cells \ msSeen
         /\ \A u \in Cells \ msSeen : NotAfter(dist, c, u)
<1> USE DEF MSIInv, MS!Frontier
<1>1. c \in Cells \ msSeen
  BY DEF MS!PushedOnce, MS!Queued
<1>2. ASSUME NEW u \in Cells \ msSeen PROVE NotAfter(dist, c, u)
  <2>1. PICK h \in MS!Queued : Dominates(h, u)
    BY DEF MS!HeapIsFrontier
  <2>2. h \in Cells /\ NotAfter(dist, c, h)
    BY <2>1 DEF MS!IsTop, MS!Queued
  <2>3. NotAfter(dist, h, u)
    BY <2>1, <2>2, MSDominatesNotAfter
  <2>4. QED
    BY <1>1, <2>2, <2>3, MSDistType, OrderTransitive
<1>3. QED
  BY <1>1, <1>2

LEMMA MSPopRetrieves ==
  ASSUME MSIInv, NEW c \in MS!Queued, MS!Pop(c)
  PROVE  MS!R!Retrieve(c)
<1>1. /\ c \in Cells \ msSeen
      /\ \A u \in Cells \ msSeen : NotAfter(dist, c, u)
  BY MSTopIsFirst DEF MS!Pop
<1>2. QED
  BY <1>1, MSSameOperators DEF MS!Pop, MS!R!Retrieve, MS!input, MS!R!input

LEMMA MSPopType ==
  ASSUME MSIInv, NEW c \in MS!Queued, MS!Pop(c)
  PROVE  MS!TypeOK'
<1> USE DEF MSIInv
<1>1. c \in Cells /\ heap[c] \in Nat /\ heap[c] > 0
  BY DEF MS!Queued, MS!TypeOK
<1>2. Cardinality(Bucket(assign, c)) \in Nat
  BY VecAssumption, FS_Subset, FS_CardinalityType DEF Bucket
<1>3. MS!R!TypeOK'
  <2>1. /\ dist' = dist /\ assign' = assign /\ quota' = quota
        /\ msSeen' = msSeen \cup {c} /\ msScores' = Scored(msScores, assign, c)
        /\ msRetrieved' = msRetrieved + Cardinality(Bucket(assign, c))
        /\ msDone' \in BOOLEAN
    BY DEF MS!Pop, MS!input
  <2>2. Scored(msScores, assign, c) \in [Vec -> Nat]
    BY DEF Scored, MS!TypeOK, MS!R!TypeOK
  <2>3. QED
    BY <1>1, <1>2, <2>1, <2>2, MSSameOperators
       DEF MS!TypeOK, MS!R!TypeOK, MS!R!InputOK
<1>4. heap' \in [Cells -> Nat]
  BY <1>1 DEF MS!Pop, MS!TypeOK
<1>5. visited' \in SUBSET Cells
  BY DEF MS!Pop, MS!TypeOK, MS!Pushed, MS!Successors
<1>6. QED
  BY <1>3, <1>4, <1>5 DEF MS!TypeOK

\* Popping the top and pushing its successors moves the frontier on.
LEMMA MSPopFrontier ==
  ASSUME MSIInv, NEW c \in MS!Queued, MS!Pop(c)
  PROVE  MS!Frontier'
<1> USE DEF MSIInv, MS!Frontier
<1> DEFINE pushed == IF msRetrieved' >= quota THEN {} ELSE MS!Pushed(c)
<1>1. /\ c \in Cells /\ c \notin msSeen /\ c \in visited /\ heap[c] = 1
      /\ \A u \in Cells : heap[u] \in Nat /\ (u \in MS!Queued <=> heap[u] = 1)
  BY DEF MS!PushedOnce, MS!Queued, MS!TypeOK
<1>2. /\ pushed \subseteq Cells /\ pushed \cap visited = {}
      /\ pushed \subseteq MS!Successors(c)
  BY DEF MS!Pushed, MS!Successors
<1>3. /\ heap' = [u \in Cells |-> IF u = c THEN heap[u] - 1
                                  ELSE IF u \in pushed THEN heap[u] + 1
                                  ELSE heap[u]]
      /\ visited' = visited \cup pushed /\ msSeen' = msSeen \cup {c}
  BY DEF MS!Pop
<1>4. \A u \in Cells : heap'[u] = IF u \in (MS!Queued \ {c}) \cup pushed THEN 1 ELSE 0
  BY <1>1, <1>2, <1>3 DEF MS!PushedOnce, MS!Queued, MS!TypeOK
<1>5. MS!Queued' = (MS!Queued \ {c}) \cup pushed
  BY <1>2, <1>4 DEF MS!Queued
<1>6. MS!PushedOnce'
  <2>1. \A u \in Cells : heap'[u] <= 1
    BY <1>4
  <2>2. visited' = msSeen' \cup MS!Queued' /\ msSeen' \cap MS!Queued' = {}
    BY <1>1, <1>2, <1>3, <1>5 DEF MS!PushedOnce
  <2>3. QED
    BY <2>1, <2>2 DEF MS!PushedOnce
<1>7. MS!SeenClosed'
  <2> SUFFICES ASSUME NEW p \in Cells, Dominates(p, c), p # c, p \notin msSeen
               PROVE  FALSE
    BY <1>3 DEF MS!SeenClosed
  <2>1. PICK h \in MS!Queued : Dominates(h, p)
    BY DEF MS!HeapIsFrontier, MS!Pop
  <2>2. h \in Cells
    BY DEF MS!Queued
  <2>3. Dominates(h, c)
    BY <1>1, <2>1, <2>2, CellPairs DEF Dominates
  <2>4. NotAfter(dist, h, c) /\ NotAfter(dist, c, h)
    BY <1>1, <2>2, <2>3, MSDominatesNotAfter DEF MS!Pop, MS!IsTop
  <2>5. h = c
    BY <1>1, <2>2, <2>4, MSDistType, OrderAntisymmetric
  <2>6. p[1] = c[1] /\ p[2] = c[2]
    BY <1>1, <2>1, <2>5, CellPairs DEF Dominates
  <2>7. QED
    BY <1>1, <2>6, CellPairs
<1>8. MS!HeapIsFrontier'
  <2> SUFFICES ASSUME ~msDone', NEW u \in Cells, u \notin msSeen, u # c
               PROVE  \E h \in MS!Queued' : Dominates(h, u)
    BY <1>3 DEF MS!HeapIsFrontier
  <2>1. pushed = MS!Pushed(c)
    BY DEF MS!Pop
  <2>2. PICK h \in MS!Queued : Dominates(h, u)
    BY DEF MS!HeapIsFrontier, MS!Pop
  <2>3. CASE h # c
    BY <1>5, <2>2, <2>3
  <2>4. CASE h = c
    <3>1. /\ c[1] \in Rank /\ c[2] \in Rank /\ u[1] \in Rank /\ u[2] \in Rank
          /\ c[1] <= u[1] /\ c[2] <= u[2]
      BY <1>1, <2>2, <2>4 DEF Cells, Dominates
    <3>2. c[1] < u[1] \/ c[2] < u[2]
      BY <1>1, <3>1, CellPairs
    <3>3. PICK s \in MS!Successors(c) : Dominates(s, u) /\ Dominates(c, s)
      <4>1. CASE c[1] < u[1]
        <5>1. c[1] + 1 \in Rank
          BY <3>1, <4>1, NCAssumption DEF Rank
        <5>2. <<c[1] + 1, c[2]>> \in MS!Successors(c)
          BY <3>1, <5>1 DEF MS!Successors, Cells
        <5>3. Dominates(<<c[1] + 1, c[2]>>, u) /\ Dominates(c, <<c[1] + 1, c[2]>>)
          BY <3>1, <4>1, NCAssumption DEF Dominates, Rank
        <5>4. QED
          BY <5>2, <5>3
      <4>2. CASE c[2] < u[2]
        <5>1. c[2] + 1 \in Rank
          BY <3>1, <4>2, NCAssumption DEF Rank
        <5>2. <<c[1], c[2] + 1>> \in MS!Successors(c)
          BY <3>1, <5>1 DEF MS!Successors, Cells
        <5>3. Dominates(<<c[1], c[2] + 1>>, u) /\ Dominates(c, <<c[1], c[2] + 1>>)
          BY <3>1, <4>2, NCAssumption DEF Dominates, Rank
        <5>4. QED
          BY <5>2, <5>3
      <4>3. QED
        BY <3>2, <4>1, <4>2
    <3>4. s \in Cells /\ s # c
      <4>1. s \in Cells /\ (s = <<c[1] + 1, c[2]>> \/ s = <<c[1], c[2] + 1>>)
        BY <3>3 DEF MS!Successors
      <4>2. s[1] # c[1] \/ s[2] # c[2]
        BY <1>1, <4>1, CellPairs
      <4>3. QED
        BY <4>1, <4>2
    <3>5. s \notin msSeen
      BY <1>1, <3>3, <3>4 DEF MS!SeenClosed
    <3>6. s \in MS!Queued'
      BY <1>5, <2>1, <3>3, <3>4, <3>5 DEF MS!Pushed, MS!PushedOnce
    <3>7. QED
      BY <3>3, <3>6
  <2>5. QED
    BY <2>3, <2>4
<1>9. QED
  BY <1>6, <1>7, <1>8

-----------------------------------------------------------------------------
LEMMA MSStepIInv == MSIInv /\ [MS!Next]_MS!vars => MSIInv'
<1> SUFFICES ASSUME MSIInv, [MS!Next]_MS!vars PROVE MSIInv'
  OBVIOUS
<1>1. ASSUME NEW c \in MS!Queued, MS!Pop(c) PROVE MSIInv'
  BY <1>1, MSPopType, MSPopFrontier DEF MSIInv
<1>2. CASE MS!HeapEmpty
  BY <1>2 DEF MSIInv, MS!HeapEmpty, MS!input, MS!queue, MS!TypeOK, MS!R!TypeOK,
              MS!R!InputOK, MS!Frontier,
                MS!PushedOnce, MS!SeenClosed, MS!HeapIsFrontier, MS!Queued
<1>3. CASE UNCHANGED MS!vars
  BY <1>3 DEF MSIInv, MS!vars, MS!TypeOK, MS!R!TypeOK,
              MS!R!InputOK,
              MS!Frontier, MS!PushedOnce,
                MS!SeenClosed, MS!HeapIsFrontier, MS!Queued
<1>4. QED
  BY <1>1, <1>2, <1>3 DEF MS!Next

\* Every step of the traversal is a step of CellRetrieval, or none.
LEMMA MSStepSimulates == MSIInv /\ [MS!Next]_MS!vars => [MS!R!Next]_MS!R!vars
<1> SUFFICES ASSUME MSIInv, [MS!Next]_MS!vars PROVE [MS!R!Next]_MS!R!vars
  OBVIOUS
<1>1. ASSUME NEW c \in MS!Queued, MS!Pop(c) PROVE MS!R!Next
  <2>1. c \in MS!R!Cells
    BY MSSameOperators DEF MS!Queued
  <2>2. QED
    BY <1>1, <2>1, MSPopRetrieves DEF MS!R!Next
<1>2. CASE MS!HeapEmpty
  <2>1. msSeen = MS!R!Cells
    BY <1>2, MSDistType, MSSameOperators
       DEF MS!HeapEmpty, MSIInv, MS!Frontier, MS!HeapIsFrontier
  <2>2. QED
    BY <1>2, <2>1 DEF MS!HeapEmpty, MS!R!Next, MS!R!RunOut, MS!input, MS!R!input
<1>3. CASE UNCHANGED MS!vars
  BY <1>3 DEF MS!vars, MS!R!vars
<1>4. QED
  BY <1>1, <1>2, <1>3 DEF MS!Next

\* The heap is at every step the frontier of the cells retrieved, each cell of
\* it pushed once.
THEOREM FrontierInvariant == MS!Spec => [](MS!TypeOK /\ MS!Frontier)
<1>1. MSIInv => MS!TypeOK /\ MS!Frontier
  BY DEF MSIInv
<1>2. QED
  BY <1>1, MSInitIInv, MSStepIInv, PTL DEF MS!Spec

\* dynamic_activate_multisequence retrieves the cells of the grid in ascending
\* order of (distance, row, column), each once, until the quota is reached.
THEOREM MultiSequenceImplementsRetrieval == MS!Spec => MS!ImplementsRetrieval
<1>1. MS!Init => MS!R!Init
  BY DEF MS!Init
<1>2. QED
  BY <1>1, MSInitIInv, MSStepIInv, MSStepSimulates, PTL
     DEF MS!Spec, MS!ImplementsRetrieval, MS!R!Spec
-----------------------------------------------------------------------------
\* Hence all that CellRetrieval guarantees (the copies of its operators that
\* come with its proofs are those of the specification).
LEMMA MSSameInProofs ==
  /\ MSRP!Cells = Cells
  /\ \A g, c, u : MSRP!NotAfter(g, c, u) <=> NotAfter(g, c, u)
  /\ \A a, c : MSRP!Bucket(a, c) = Bucket(a, c)
  /\ \A s, a, c : MSRP!Scored(s, a, c) = Scored(s, a, c)
  /\ \A a, S : MS!R!VecsIn(a, S) = MSRP!VecsIn(a, S)
  /\ \A S : MSRP!Cardinality(S) = Cardinality(S)
<1>1. MSRP!Cells = Cells
  BY DEF MSRP!Cells, Cells, MSRP!Rank, Rank
<1>2. \A g, c, u : MSRP!NotAfter(g, c, u) <=> NotAfter(g, c, u)
  BY Zenon DEF MSRP!NotAfter, NotAfter
<1>3. \A a, c : MSRP!Bucket(a, c) = Bucket(a, c)
  BY DEF MSRP!Bucket, Bucket
<1>4. \A s, a, c : MSRP!Scored(s, a, c) = Scored(s, a, c)
  BY <1>3 DEF MSRP!Scored, Scored
<1>5. \A a, S : MS!R!VecsIn(a, S) = MSRP!VecsIn(a, S)
  BY DEF MSRP!VecsIn, MS!R!VecsIn
<1>6. \A S : MSRP!Cardinality(S) = Cardinality(S)
  BY DEF MSRP!Cardinality, Cardinality, MSRP!IsFiniteSet, IsFiniteSet
<1>7. QED
  BY <1>1, <1>2, <1>3, <1>4, <1>5, <1>6

LEMMA MSSameSpec ==
  /\ MS!R!Init => MSRP!Init
  /\ [MS!R!Next]_MS!R!vars => [MSRP!Next]_MSRP!vars
  /\ MSRP!Inv => MS!R!Inv
<1> USE MSSameOperators, MSSameInProofs
<1>1. MS!R!Init => MSRP!Init
  BY DEF MS!R!Init, MSRP!Init, MS!R!InputOK, MSRP!InputOK
<1>2. [MS!R!Next]_MS!R!vars => [MSRP!Next]_MSRP!vars
  <2>1. ASSUME NEW c, MS!R!Retrieve(c) PROVE MSRP!Retrieve(c)
    BY <2>1 DEF MS!R!Retrieve, MSRP!Retrieve, MS!R!input, MSRP!input
  <2>2. MS!R!RunOut => MSRP!RunOut
    BY DEF MS!R!RunOut, MSRP!RunOut, MS!R!input, MSRP!input
  <2>3. QED
    BY <2>1, <2>2 DEF MS!R!Next, MSRP!Next, MS!R!vars, MSRP!vars
<1>3. MSRP!Inv => MS!R!Inv
  <2> SUFFICES ASSUME MSRP!Inv PROVE MS!R!Inv
    OBVIOUS
  <2>1. MS!R!TypeOK
    BY DEF MSRP!Inv, MSRP!TypeOK, MS!R!TypeOK, MSRP!InputOK, MS!R!InputOK
  <2>2. MS!R!TakenInOrder /\ MS!R!ScoredOnce
    BY DEF MSRP!Inv, MSRP!TakenInOrder, MS!R!TakenInOrder,
           MSRP!ScoredOnce, MS!R!ScoredOnce
  <2>3. MS!R!CountsVectors /\ MS!R!EnoughOrAll /\ MS!R!NotEnoughYet
    BY DEF MSRP!Inv, MSRP!CountsVectors, MS!R!CountsVectors, MSRP!EnoughOrAll,
             MS!R!EnoughOrAll, MSRP!NotEnoughYet, MS!R!NotEnoughYet
  <2>4. MS!R!LastWasNeeded
    BY DEF MSRP!Inv, MSRP!LastWasNeeded, MS!R!LastWasNeeded
  <2>5. QED
    BY <2>1, <2>2, <2>3, <2>4 DEF MS!R!Inv
<1>4. QED
  BY <1>1, <1>2, <1>3

\* dynamic_activate_multisequence keeps all that CellRetrieval guarantees.
THEOREM MultiSequenceSafe == MS!Spec => []MS!R!Inv
<1>1. MS!Spec => MS!R!Spec
  BY MultiSequenceImplementsRetrieval DEF MS!ImplementsRetrieval
<1>2. MS!R!Spec => MSRP!Spec
  BY MSSameSpec, PTL DEF MS!R!Spec, MSRP!Spec
<1>3. MSRP!Spec => []MSRP!Inv
  <2>1. /\ NC \in Nat \ {0} /\ IsFiniteSet(Vec) /\ MSRP!IsFiniteSet(Vec)
        /\ Quotas \subseteq Nat \ {0}
        /\ FltMax \in Nat
        /\ \A g \in Grids : g \in [MSRP!Cells -> Nat] /\ MSRP!Monotone(g)
    BY NCAssumption, VecAssumption, QuotasAssumption, FltMaxAssumption,
       GridsAssumption, MSSameInProofs
       DEF MSRP!Monotone, Monotone, MSRP!Dominates, Dominates,
           MSRP!IsFiniteSet, IsFiniteSet
  <2>2. QED
    BY <2>1, MSRP!RetrievalSafe, PTL
<1>4. MSRP!Inv => MS!R!Inv
  BY MSSameSpec
<1>5. QED
  BY <1>1, <1>2, <1>3, <1>4, PTL

MSResult == RetrievalResult(dist, assign, quota, msSeen, msScores, msDone)

\* The same in terms of the grid alone.
THEOREM MultiSequenceResult ==
  MS!Spec => []MSResult
<1>1. MS!R!Inv => MSResult
  <2> SUFFICES ASSUME MS!R!Inv PROVE MSResult
    OBVIOUS
  <2>1. /\ dist \in Grids /\ assign \in [Vec -> Cells] /\ quota \in Nat
        /\ msSeen \in SUBSET Cells /\ msScores \in [Vec -> Nat]
    BY QuotasAssumption, MSSameOperators DEF MS!R!Inv, MS!R!TypeOK, MS!R!InputOK
  <2>2. Prefix(dist, msSeen)
    BY MSSameOperators DEF MS!R!Inv, MS!R!TakenInOrder, Prefix
  <2>3. \A v \in Vec : msScores[v] = IF assign[v] \in msSeen THEN 1 ELSE 0
    BY DEF MS!R!Inv, MS!R!ScoredOnce
  <2>4. \A S : MS!R!VecsIn(assign, S) = VecsIn(assign, S)
    BY DEF MS!R!VecsIn, VecsIn
  <2>5. msDone => Cardinality(VecsIn(assign, msSeen)) >= quota \/ msSeen = Cells
    BY <2>4, MSSameOperators DEF MS!R!Inv, MS!R!EnoughOrAll, MS!R!CountsVectors
  <2>6. msSeen # {} => \E c \in msSeen :
                         /\ \A u \in msSeen : NotAfter(dist, u, c)
                         /\ Cardinality(VecsIn(assign, msSeen \ {c})) < quota
    BY <2>4, MSSameOperators DEF MS!R!Inv, MS!R!LastWasNeeded
  <2>7. QED
    BY <2>1, <2>2, <2>3, <2>5, <2>6 DEF MSResult, RetrievalResult
<1>2. QED
  BY <1>1, MultiSequenceSafe, PTL
-----------------------------------------------------------------------------
\* The steps of the composition are steps of the one traversal or the other.
LEMMA SpecOfBoth == Spec => DA!Spec /\ MS!Spec
<1>1. Init => DA!Init /\ MS!Init
  BY DEF Init
<1>2. [Next]_vars => [DA!Next]_DA!vars /\ [MS!Next]_MS!vars
  <2>1. CASE DAStep
    BY <2>1 DEF DAStep, msVars, MS!vars, DA!Next, DA!Iterate, DA!LoopEnds, DA!input
  <2>2. CASE MSStep
    BY <2>2 DEF MSStep, daVars, DA!vars, MS!Next, MS!Pop, MS!HeapEmpty, MS!input
  <2>3. CASE UNCHANGED vars
    BY <2>3 DEF vars, daVars, msVars, DA!vars, MS!vars
  <2>4. QED
    BY <2>1, <2>2, <2>3 DEF Next
<1>3. QED
  BY <1>1, <1>2, PTL DEF Spec, DA!Spec, MS!Spec

\* search() and search_multisequence() give every vector the same score, and at
\* every moment the cells of one are a prefix of those of the other.
THEOREM TraversalsAgree ==
  ASSUME SumsBelowSentinel
  PROVE  Spec => [](IdenticalResults /\ OneIsPrefix)
<1>1. DAResult /\ MSResult => IdenticalResults
  <2> SUFFICES ASSUME DAResult, MSResult, daDone, msDone PROVE daScores = msScores
    BY DEF IdenticalResults
  <2>1. /\ RetrievalResult(dist, assign, quota, daSeen, daScores, TRUE)
        /\ RetrievalResult(dist, assign, quota, msSeen, msScores, TRUE)
    BY DEF DAResult, MSResult, RetrievalResult
  <2>2. QED
    BY <2>1, SameScores
<1>2. DAResult /\ MSResult => OneIsPrefix
  BY PrefixesNested DEF DAResult, MSResult, RetrievalResult, OneIsPrefix
<1>3. QED
  BY <1>1, <1>2, SpecOfBoth, DynamicActivationResult, MultiSequenceResult, PTL

\* Both traversals retrieve the cells in ascending order until the quota is
\* reached, for every number of centroids, quota and grid below the sentinel.
THEOREM BothImplementRetrieval ==
  ASSUME SumsBelowSentinel
  PROVE  Spec => ImplementsRetrieval
BY SpecOfBoth, DynamicActivationImplementsRetrieval,
   MultiSequenceImplementsRetrieval, PTL
   DEF ImplementsRetrieval, DA!ImplementsRetrieval, MS!ImplementsRetrieval

\* The rows of the one and the heap of the other always describe what was
\* retrieved, no vector is scored twice, and no cell is retrieved too many.
THEOREM BothSafe ==
  ASSUME SumsBelowSentinel
  PROVE  Spec => [](RowsAgree /\ Frontier /\ ScoredOnce /\ LastWasNeeded)
<1>1. DA!RowsAgree /\ DA!R!Inv /\ MS!Frontier /\ MS!R!Inv
        => RowsAgree /\ Frontier /\ ScoredOnce /\ LastWasNeeded
  BY DEF RowsAgree, Frontier, ScoredOnce, LastWasNeeded, DA!R!Inv, MS!R!Inv
<1>2. QED
  BY <1>1, SpecOfBoth, RowsAlwaysAgree, DynamicActivationSafe,
     FrontierInvariant, MultiSequenceSafe, PTL
=============================================================================
