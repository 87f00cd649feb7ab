----------------------------- MODULE SHGProofs -----------------------------
(***************************************************************************)
(* A query of IndexSHG, for any graph whose lists lead to points of their  *)
(* level, any distances, shortcuts and sizes of the beam.                  *)
(***************************************************************************)
EXTENDS SHGSearch, SHGIndex, FiniteSetTheorems, WellFoundedInduction, TLAPS

InputOK ==
  /\ graph \in Graphs /\ shortcut \in Shortcuts
  /\ dist \in [Point -> Nat]
  /\ comp \in [1 .. MaxLevel + MaxFix -> [Point -> Nat]]
  /\ k \in Nat \ {0} /\ ef \in Nat /\ k <= ef
  /\ MaxLevel \in Nat

TypeOK ==
  /\ InputOK
  /\ pc \in {"enter", "skip", "greedy", "seed", "base", "done"}
  /\ near \in Point /\ lv \in 0 .. MaxLevel /\ d \in Nat
  /\ pool \in SUBSET [id : Point, d : Nat, live : BOOLEAN]
  /\ top \in SUBSET [id : Point, d : Nat]
  /\ visited \in SUBSET Point /\ pruned \in SUBSET Point
  /\ todo \in Seq(Point) /\ buf \in Seq(Point)
  /\ flush \in BOOLEAN /\ nstep \in Nat

Buffered == {buf[i] : i \in DOMAIN buf}

\* The descent begins at the entry point; the base level begins empty and
\* ends with nothing left to look at.
Phases ==
  /\ pc = "enter" => near = graph.entry /\ lv = MaxLevel
  /\ pc \notin {"base", "done"} =>
       /\ pool = {} /\ top = {} /\ visited = {} /\ pruned = {}
       /\ todo = <<>> /\ buf = <<>>
  /\ pc = "done" => todo = <<>> /\ buf = <<>>

\* A point waits in the buffer once, and was looked at before; what was
\* pruned is not in it.
BufferOK ==
  /\ Buffered \subseteq visited /\ pruned \subseteq visited
  /\ Buffered \cap pruned = {}
  /\ \A i, j \in DOMAIN buf : buf[i] = buf[j] => i = j

\* The candidates are evaluated points, each with its distance and once.
PoolOK ==
  /\ \A x \in pool : x.id \in Evaluated /\ x.d = dist[x.id]
  /\ \A x, y \in pool : x.id = y.id => x = y

ResultsFit == IsFiniteSet(top) /\ Cardinality(top) <= k

\* e is no nearer than k results: a point at e is no result.
TooFar(e) == Full /\ \A x \in top : x.d <= e

AsNear(p) == {q \in Evaluated \ {p} : dist[q] <= dist[p]}

\* All neighbours of p were looked at or will be.
Expanded(p) ==
  \A i \in DOMAIN Links(p, 0) :
    Links(p, 0)[i] \in visited \/ \E j \in DOMAIN todo : todo[j] = Links(p, 0)[i]

\* An evaluated point waits in the pool, was expanded, or has ef points
\* that are at least as near.
BeamOK ==
  \A p \in Evaluated :
    \/ \E x \in pool : x.id = p /\ x.live
    \/ Expanded(p)
    \/ Cardinality(AsNear(p)) >= ef

ResultsOK ==
  /\ \A x \in top : x.id \in Evaluated /\ x.d = dist[x.id]
  /\ \A p \in Evaluated : (\E x \in top : x.id = p) \/ TooFar(dist[p])

\* Where the lower bound is one, what it keeps away is too far.
PrunedOK ==
  LowerBoundHolds =>
    /\ \A p \in Point : LowerBound(p) \in Nat /\ LowerBound(p) <= dist[p]
    /\ \A p \in pruned : TooFar(dist[p])

IInv ==
  /\ TypeOK /\ Phases /\ LevelsExist
  /\ BufferOK /\ PoolOK /\ ResultsFit /\ ResultsOK
  /\ BeamOK /\ BeamComplete
  /\ PrunedOK

----------------------------------------------------------------------------
\* A set of numbers that is not empty has a least one.
LEMMA LeastExists ==
  ASSUME NEW S \in SUBSET Nat, S # {}
  PROVE  \E n \in S : \A m \in S : n <= m
<1>1. IsWellFoundedOn(OpToRel(<, Nat), Nat)
  BY NatLessThanWellFounded
<1>2. PICK n \in S : \A m \in S : <<m, n>> \notin OpToRel(<, Nat)
  BY <1>1, WFMin, Zenon
<1>3. \A m \in S : ~(m < n)
  BY <1>2 DEF OpToRel
<1>4. QED
  BY <1>3

\* A finite set of records has one whose d is largest.
LEMMA LargestExists ==
  ASSUME NEW S, IsFiniteSet(S), S # {}, \A x \in S : x.d \in Nat
  PROVE  \E x \in S : \A y \in S : y.d <= x.d
<1> DEFINE Above(x) == {y \in S : y.d > x.d}
           T == {Above(x) : x \in S}
<1>1. IsWellFoundedOn(StrictSubsetOrdering(S), SUBSET S)
  BY FS_StrictSubsetOrderingWellFounded, FS_FiniteSubsetsOfFinite
<1>2. T \subseteq SUBSET S /\ T # {}
  OBVIOUS
<1>3. PICK U \in T : \A V \in T : <<V, U>> \notin StrictSubsetOrdering(S)
  BY <1>1, <1>2, WFMin, Zenon
<1>4. PICK x \in S : U = Above(x)
  OBVIOUS
<1>5. ASSUME NEW y \in S, y.d > x.d
      PROVE  FALSE
  <2>1. Above(y) \subseteq Above(x) /\ y \in Above(x) /\ y \notin Above(y)
    BY <1>5
  <2>2. <<Above(y), Above(x)>> \in StrictSubsetOrdering(S)
    BY <2>1 DEF StrictSubsetOrdering
  <2>3. QED
    BY <1>3, <1>4, <2>2
<1>6. QED
  BY <1>5

LEMMA TailIs ==
  ASSUME NEW S, NEW s \in Seq(S), s # <<>>
  PROVE  /\ Head(s) \in S /\ 1 \in DOMAIN s /\ Head(s) = s[1]
         /\ Tail(s) \in Seq(S)
         /\ \A j \in DOMAIN Tail(s) : j + 1 \in DOMAIN s /\ Tail(s)[j] = s[j + 1]
         /\ \A j \in DOMAIN s : j = 1 \/ (j - 1 \in DOMAIN Tail(s) /\ Tail(s)[j - 1] = s[j])
OBVIOUS

\* Records with different ids are no more than the ids.
LEMMA DistinctIds ==
  ASSUME NEW S, NEW T, IsFiniteSet(T),
         \A x \in S : x.id \in T, \A x, y \in S : x.id = y.id => x = y
  PROVE  IsFiniteSet(S) /\ Cardinality(S) <= Cardinality(T)
<1> DEFINE f == [x \in S |-> x.id]
<1>1. f \in [S -> T] /\ \A x, y \in S : f[x] = f[y] => x = y
  OBVIOUS
<1>2. f \in Injection(S, T)
  BY <1>1 DEF Injection, IsInjective
<1>3. QED
  BY <1>2, FS_Injection

LEMMA SameCardinality == \A S : H!Cardinality(S) = Cardinality(S)
BY DEF H!Cardinality, Cardinality, H!IsFiniteSet, IsFiniteSet

\* The lists of a point lead to points of their level.
LEMMA LinksAre ==
  ASSUME graph \in Graphs, NEW p \in Point, NEW l \in 0 .. graph.level[p]
  PROVE  /\ graph.level[p] \in Nat
         /\ Links(p, l) \in Seq(Point)
         /\ \A i \in DOMAIN Links(p, l) :
              Links(p, l)[i] \in Point /\ graph.level[Links(p, l)[i]] >= l
<1>1. graph.level[p] \in Nat /\ Links(p, l) \in Seq({q \in Point : graph.level[q] >= l})
  BY GraphsAssumption DEF Links
<1>2. QED
  BY <1>1

\* A prediction leads downwards.
LEMMA PredictIs ==
  ASSUME shortcut \in Shortcuts, NEW x \in Nat
  PROVE  Predict(x) \in Nat \ {0}
<1>1. shortcut \in Seq(Nat \X (Nat \ {0}))
  BY InputAssumption
<1>2. CASE \E i \in DOMAIN shortcut : shortcut[i][1] >= x
  <2> DEFINE S == {i \in DOMAIN shortcut : shortcut[i][1] >= x}
             First(i) == /\ shortcut[i][1] >= x
                         /\ \A j \in 1 .. i - 1 : shortcut[j][1] < x
  <2>1. S \in SUBSET Nat /\ S # {}
    <3>1. DOMAIN shortcut \subseteq Nat
      BY <1>1
    <3>2. QED
      BY <1>2, <3>1
  <2>2. PICK n \in S : \A m \in S : n <= m
    BY <2>1, LeastExists, Zenon
  <2>3. ASSUME NEW j \in 1 .. n - 1
        PROVE  shortcut[j][1] < x
    <3>1. j \in DOMAIN shortcut /\ j \notin S
      BY <1>1, <2>2
    <3>2. shortcut[j] \in Nat \X (Nat \ {0})
      BY <1>1, <3>1
    <3>3. shortcut[j][1] \in Nat /\ ~(shortcut[j][1] >= x)
      BY <3>1, <3>2
    <3>4. QED
      BY <3>3
  <2>4. \E i \in DOMAIN shortcut : First(i)
    BY <2>2, <2>3
  <2>5. (CHOOSE i \in DOMAIN shortcut : First(i)) \in DOMAIN shortcut
    BY <2>4, Zenon
  <2>6. Predict(x) = shortcut[CHOOSE i \in DOMAIN shortcut : First(i)][2]
    BY <1>2, Zenon DEF Predict
  <2> HIDE DEF First
  <2>7. QED
    BY <1>1, <2>5, <2>6
<1>3. CASE ~\E i \in DOMAIN shortcut : shortcut[i][1] >= x
  BY <1>3 DEF Predict
<1>4. QED
  BY <1>2, <1>3

----------------------------------------------------------------------------
\* The distances are those of a pair of the data, and so is the bound.
LEMMA InitIInv == Init => IInv
<1> SUFFICES ASSUME Init PROVE IInv
  OBVIOUS
<1>1. PICK x \in Data :
        /\ dist = [p \in Point |-> L2(x[1][p], x[2])]
        /\ comp = [l \in 1 .. MaxLevel + MaxFix |->
                     [p \in Point |-> CompressedDistance(l, x[1][p], x[2])]]
  BY DEF Init
<1>2. /\ graph \in Graphs /\ shortcut \in Shortcuts /\ near = graph.entry /\ lv = MaxLevel
      /\ pc = "enter" /\ d = 0 /\ pool = {} /\ top = {} /\ visited = {} /\ pruned = {}
      /\ todo = <<>> /\ buf = <<>> /\ flush = FALSE /\ nstep = 0
  BY DEF Init
<1>3. near \in Point /\ MaxLevel \in Nat /\ MaxFix \in Nat \ {0}
  BY <1>2, GraphsAssumption, SearchAssumption DEF MaxLevel
<1>4. k \in Nat \ {0} /\ ef \in Nat /\ k <= ef
  BY InputAssumption DEF Init
<1>5. dist \in [Point -> Nat]
  BY <1>1, InputAssumption
<1>6. comp \in [1 .. MaxLevel + MaxFix -> [Point -> Nat]]
  <2>1. ASSUME NEW l \in 1 .. MaxLevel + MaxFix, NEW p \in Point
        PROVE  CompressedDistance(l, x[1][p], x[2]) \in Nat
    <3>1. CASE l <= MaxFix
      BY <1>3, <3>1, InputAssumption
    <3>2. CASE l > MaxFix
      <4>1. Least(l, MaxFix) = MaxFix /\ Least(MaxFix, MaxFix) = MaxFix
        BY <1>3, <3>2 DEF Least
      <4>2. CompressedDistance(l, x[1][p], x[2])
              = CompressedDistance(MaxFix, x[1][p], x[2])
        BY <4>1, Zenon DEF CompressedDistance
      <4>3. MaxFix \in 1 .. MaxFix
        BY <1>3
      <4>4. QED
        BY <4>2, <4>3, InputAssumption
    <3>3. QED
      BY <1>3, <3>1, <3>2
  <2>2. QED
    BY <1>1, <2>1
<1>7. TypeOK
  <2>1. InputOK
    BY <1>2, <1>3, <1>4, <1>5, <1>6 DEF InputOK
  <2>2. lv \in 0 .. MaxLevel
    BY <1>2, <1>3
  <2>3. todo \in Seq(Point) /\ buf \in Seq(Point) /\ d \in Nat /\ nstep \in Nat
    BY <1>2
  <2>4. /\ pool \in SUBSET [id : Point, d : Nat, live : BOOLEAN]
        /\ top \in SUBSET [id : Point, d : Nat]
        /\ visited \in SUBSET Point /\ pruned \in SUBSET Point
    BY <1>2, Zenon
  <2>5. QED
    BY <1>2, <1>3, <2>1, <2>2, <2>3, <2>4, Zenon DEF TypeOK
<1>8. Phases /\ LevelsExist /\ BufferOK /\ PoolOK
  BY <1>2 DEF Phases, LevelsExist, BufferOK, Buffered, PoolOK
<1>9. ResultsFit /\ ResultsOK /\ BeamOK /\ BeamComplete
  BY <1>2, <1>4, FS_EmptySet
     DEF ResultsFit, ResultsOK, BeamOK, BeamComplete, Evaluated
<1>10. PrunedOK
  <2> SUFFICES ASSUME LowerBoundHolds, NEW p \in Point
               PROVE  LowerBound(p) \in Nat /\ LowerBound(p) <= dist[p]
    BY <1>2 DEF PrunedOK
  <2>1. MaxFix \in 1 .. MaxLevel + MaxFix
    BY <1>3
  <2>2. /\ comp[MaxFix][p] = CompressedDistance(MaxFix, x[1][p], x[2])
        /\ dist[p] = L2(x[1][p], x[2])
    BY <1>1, <2>1
  <2>3. QED
    BY <2>2 DEF LowerBoundHolds, LowerBound
<1>11. QED
  BY <1>7, <1>8, <1>9, <1>10 DEF IInv

----------------------------------------------------------------------------
\* The descent touches nothing of the base level.
LEMMA DescentStep ==
  ASSUME IInv, UNCHANGED <<input, base>>, pc \notin {"base", "done"},
         pc' \in {"skip", "greedy", "seed"},
         near' \in Point, lv' \in 0 .. MaxLevel, d' \in Nat,
         pc' \in {"skip", "greedy"} => lv' >= 1 /\ graph.level[near'] >= lv'
  PROVE  IInv'
<1> USE DEF input, base
<1>1. TypeOK' /\ Phases' /\ LevelsExist'
  BY DEF IInv, TypeOK, InputOK, MaxLevel, Phases, LevelsExist
<1>2. Evaluated' = Evaluated /\ Evaluated = {} /\ pool' = {} /\ top' = {} /\ pruned' = {}
  BY DEF IInv, Phases, Evaluated
<1>3. BufferOK' /\ PoolOK' /\ ResultsFit'
  BY <1>2 DEF IInv, BufferOK, Buffered, PoolOK, ResultsFit
<1>4. ResultsOK' /\ BeamOK' /\ BeamComplete'
  BY <1>2 DEF ResultsOK, BeamOK, BeamComplete
<1>5. PrunedOK'
  BY <1>2 DEF IInv, PrunedOK, LowerBound
<1>6. QED
  BY <1>1, <1>3, <1>4, <1>5 DEF IInv

\* Every level of the descent has distances.
LEMMA LevelDistance ==
  ASSUME TypeOK, NEW l \in 1 .. MaxLevel, NEW p \in Point
  PROVE  comp[l][p] \in Nat
<1>1. l \in 1 .. MaxLevel + MaxFix
  BY SearchAssumption DEF TypeOK, InputOK
<1>2. QED
  BY <1>1 DEF TypeOK, InputOK

LEMMA EnterTopIInv == IInv /\ EnterTop => IInv'
<1> SUFFICES ASSUME IInv, EnterTop PROVE IInv'
  OBVIOUS
<1>1. /\ pc = "enter" /\ near = graph.entry /\ lv = MaxLevel
      /\ UNCHANGED <<input, base>> /\ near' = near
  BY DEF IInv, Phases, EnterTop
<1>2. near \in Point /\ lv \in 0 .. MaxLevel /\ d \in Nat /\ MaxLevel \in Nat
      /\ graph.level[near] = MaxLevel
  BY <1>1 DEF IInv, TypeOK, InputOK, MaxLevel
<1>3. CASE MaxLevel = 0
  <2>1. pc' = "seed" /\ lv' = lv /\ d' = d
    BY <1>2, <1>3 DEF EnterTop
  <2>2. QED
    BY <1>1, <1>2, <2>1, DescentStep
<1>4. CASE MaxLevel > 0
  <2>1. MaxLevel \in 1 .. MaxLevel /\ comp[MaxLevel][near] \in Nat
    BY <1>2, <1>4, LevelDistance DEF IInv
  <2>2. pc' \in {"skip", "greedy"} /\ lv' = MaxLevel /\ d' = comp[MaxLevel][near]
    BY <1>1, <1>4 DEF EnterTop, ToLevel
  <2>3. QED
    BY <1>1, <1>2, <2>1, <2>2, DescentStep
<1>5. QED
  BY <1>2, <1>3, <1>4

LEMMA SkipIInv == IInv /\ Skip => IInv'
<1> SUFFICES ASSUME IInv, Skip PROVE IInv'
  OBVIOUS
<1> DEFINE l == lv - Predict(d)
<1>1. pc = "skip" /\ UNCHANGED <<input, base>> /\ near' = near
  BY DEF Skip
<1>2. /\ near \in Point /\ lv \in 1 .. MaxLevel /\ d \in Nat /\ MaxLevel \in Nat
      /\ graph.level[near] \in Nat /\ graph.level[near] >= lv
  BY <1>1, GraphsAssumption DEF IInv, TypeOK, InputOK, LevelsExist
<1>3. l \in Int /\ l < lv
  <2>1. shortcut \in Shortcuts
    BY DEF IInv, TypeOK, InputOK
  <2>2. Predict(d) \in Nat \ {0}
    BY <1>2, <2>1, PredictIs
  <2>3. QED
    BY <1>2, <2>2
<1>4. CASE l < 1
  <2>1. pc' = "seed" /\ lv' = lv /\ d' = d
    BY <1>4 DEF Skip
  <2>2. QED
    BY <1>1, <1>2, <2>1, DescentStep
<1>5. CASE ~(l < 1)
  <2>1. pc' = "greedy" /\ lv' = l /\ d' = comp[l][near]
    BY <1>2, <1>3, <1>5 DEF Skip, ToLevel
  <2> HIDE DEF l
  <2>2. l \in 1 .. MaxLevel /\ graph.level[near] >= l
    BY <1>2, <1>3, <1>5
  <2>3. comp[l][near] \in Nat
    BY <1>2, <2>2, LevelDistance DEF IInv
  <2>4. QED
    BY <1>1, <1>2, <2>1, <2>2, <2>3, DescentStep
<1>6. QED
  BY <1>4, <1>5

LEMMA SettleIInv == IInv /\ Settle => IInv'
<1> SUFFICES ASSUME IInv, Settle PROVE IInv'
  OBVIOUS
<1>1. pc = "greedy" /\ UNCHANGED <<input, base>> /\ near' = near
  BY DEF Settle
<1>2. /\ near \in Point /\ lv \in 1 .. MaxLevel /\ d \in Nat /\ MaxLevel \in Nat
      /\ graph.level[near] \in Nat /\ graph.level[near] >= lv
  BY <1>1, GraphsAssumption DEF IInv, TypeOK, InputOK, LevelsExist
<1>3. CASE pc' \in {"seed", "skip"} /\ lv' = lv /\ d' = d
  BY <1>1, <1>2, <1>3, DescentStep
<1>4. CASE lv > 1 /\ ToLevel(lv - 1)
  <2>1. lv - 1 \in 1 .. MaxLevel /\ graph.level[near] >= lv - 1
    BY <1>2, <1>4
  <2>2. comp[lv - 1][near] \in Nat
    BY <1>2, <2>1, LevelDistance DEF IInv
  <2>3. QED
    BY <1>1, <1>2, <1>4, <2>1, <2>2, DescentStep DEF ToLevel
<1>5. QED
  BY <1>3, <1>4 DEF Settle

\* Among the nearer neighbours one is nearest, the first of equal ones.
LEMMA BetterHasNearest ==
  ASSUME IInv, pc = "greedy", Better # {}
  PROVE  \E i \in Better : \A j \in Better :
           LET di == comp[lv][Links(near, lv)[i]]
               dj == comp[lv][Links(near, lv)[j]]
           IN  di < dj \/ (di = dj /\ i <= j)
<1> DEFINE D_(i) == comp[lv][Links(near, lv)[i]]
           S == {D_(i) : i \in Better}
<1>1. near \in Point /\ lv \in 1 .. MaxLevel /\ lv \in 0 .. graph.level[near]
  BY GraphsAssumption DEF IInv, TypeOK, InputOK, LevelsExist
<1>2. /\ Links(near, lv) \in Seq(Point)
      /\ \A i \in DOMAIN Links(near, lv) : Links(near, lv)[i] \in Point
  BY <1>1, LinksAre DEF IInv, TypeOK, InputOK
<1>3. \A i \in Better : i \in Nat /\ D_(i) \in Nat
  BY <1>1, <1>2, LevelDistance DEF IInv, Better
<1>4. PICK m \in S : \A n \in S : m <= n
  BY <1>3, LeastExists
<1> DEFINE T == {i \in Better : D_(i) = m}
<1>5. T \in SUBSET Nat /\ T # {}
  BY <1>3, <1>4
<1>6. PICK i \in T : \A j \in T : i <= j
  <2> HIDE DEF T
  <2>1. QED
    BY <1>5, LeastExists
<1>7. \A j \in Better : D_(i) < D_(j) \/ (D_(i) = D_(j) /\ i <= j)
  <2> SUFFICES ASSUME NEW j \in Better, ~(D_(i) < D_(j))
               PROVE  D_(i) = D_(j) /\ i <= j
    OBVIOUS
  <2>1. D_(j) \in S /\ D_(j) \in Nat /\ D_(i) \in Nat /\ D_(i) = m
    BY <1>3, <1>6
  <2>2. D_(i) = D_(j)
    <3>1. m <= D_(j)
      BY <1>4, <2>1, Zenon
    <3> HIDE DEF D_
    <3>2. QED
      BY <2>1, <3>1
  <2>3. QED
    BY <1>6, <2>1, <2>2
<1>8. QED
  BY <1>6, <1>7

LEMMA NearerIInv == IInv /\ Nearer => IInv'
<1> SUFFICES ASSUME IInv, Nearer PROVE IInv'
  OBVIOUS
<1> DEFINE Is(i) == \A j \in Better :
                      LET di == comp[lv][Links(near, lv)[i]]
                          dj == comp[lv][Links(near, lv)[j]]
                      IN  di < dj \/ (di = dj /\ i <= j)
<1>1. /\ pc = "greedy" /\ Better # {} /\ UNCHANGED <<input, base>>
      /\ pc' = pc /\ lv' = lv
  BY DEF Nearer
<1>2. \E i \in Better : Is(i)
  BY <1>1, BetterHasNearest
<1>3. near' = Links(near, lv)[CHOOSE i \in Better : Is(i)] /\ d' = comp[lv][near']
  BY Zenon DEF Nearer
<1> HIDE DEF Is
<1>4. PICK i \in Better : near' = Links(near, lv)[i]
  BY <1>2, <1>3
<1>5. near \in Point /\ lv \in 1 .. MaxLevel /\ lv \in 0 .. graph.level[near]
  BY <1>1, GraphsAssumption DEF IInv, TypeOK, InputOK, LevelsExist
<1>6. near' \in Point /\ graph.level[near'] >= lv
  BY <1>4, <1>5, LinksAre DEF IInv, TypeOK, InputOK, Better
<1>7. comp[lv][near'] \in Nat
  BY <1>5, <1>6, LevelDistance DEF IInv
<1>8. QED
  BY <1>1, <1>3, <1>5, <1>6, <1>7, DescentStep

----------------------------------------------------------------------------
\* What is not below the threshold is too far.
LEMMA ThresholdIs ==
  ASSUME IInv, NEW e \in Nat
  PROVE  ~BelowThreshold(e) <=> TooFar(e)
<1>1. IsFiniteSet(top) /\ k \in Nat \ {0} /\ \A x \in top : x.d \in Nat
  BY DEF IInv, ResultsFit, TypeOK, InputOK
<1>2. CASE Full
  <2>1. top # {}
    BY <1>1, <1>2, FS_EmptySet DEF Full
  <2>2. PICK w \in top : \A y \in top : y.d <= w.d
    BY <1>1, <2>1, LargestExists
  <2>3. w \in Worst /\ \A y \in Worst : y.d = w.d
    BY <1>1, <2>2 DEF Worst
  <2>4. TooFar(e) <=> w.d <= e
    BY <1>1, <1>2, <2>2 DEF TooFar
  <2>5. BelowThreshold(e) <=> e < w.d
    BY <1>2, <2>3 DEF BelowThreshold
  <2>6. QED
    BY <1>1, <2>4, <2>5
<1>3. CASE ~Full
  BY <1>3 DEF BelowThreshold, TooFar
<1>4. QED
  BY <1>2, <1>3

\* What an offered point does to the results: they stay at most k, it is one
\* of them or too far, and what was too far before, or goes, is too far.
LEMMA ResultsStep ==
  ASSUME IInv, NEW p \in Point, \A x \in top : x.id # p,
         top' \in WithResult(p), k' = k, dist' = dist
  PROVE  /\ top' \in SUBSET [id : Point, d : Nat]
         /\ IsFiniteSet(top') /\ Cardinality(top') <= k
         /\ \A x \in top' : x \in top \/ (x.id = p /\ x.d = dist[p])
         /\ (\E x \in top' : x.id = p) \/ TooFar(dist[p])'
         /\ \A e \in Nat : TooFar(e) => TooFar(e)'
         /\ \A x \in top \ top' : TooFar(x.d)'
<1> DEFINE r == [id |-> p, d |-> dist[p]]
<1>1. /\ k \in Nat \ {0} /\ dist[p] \in Nat
      /\ top \in SUBSET [id : Point, d : Nat]
      /\ IsFiniteSet(top) /\ Cardinality(top) \in Nat /\ Cardinality(top) <= k
  BY FS_CardinalityType DEF IInv, TypeOK, InputOK, ResultsFit
<1>2. r \in [id : Point, d : Nat] /\ r.id = p /\ r.d = dist[p] /\ r \notin top
  BY <1>1
<1>3. CASE ~BelowThreshold(dist[p])
  <2>1. top' = top
    BY <1>3, Zenon DEF WithResult
  <2>2. \A e : TooFar(e)' <=> TooFar(e)
    BY <2>1 DEF TooFar, Full
  <2>3. TooFar(dist[p])
    BY <1>1, <1>3, ThresholdIs
  <2>4. TooFar(dist[p])'
    <3>1. Full /\ \A x \in top : x.d <= dist[p]
      BY <2>3 DEF TooFar
    <3>2. QED
      BY <2>1, <3>1 DEF TooFar, Full
  <2>5. QED
    BY <1>1, <2>1, <2>2, <2>4
<1>4. CASE BelowThreshold(dist[p]) /\ ~Full
  <2>1. top' = top \cup {r}
    BY <1>4, Zenon DEF WithResult
  <2>2. IsFiniteSet(top') /\ Cardinality(top') = Cardinality(top) + 1
    BY <1>1, <1>2, <2>1, FS_AddElement
  <2>3. Cardinality(top') <= k
    BY <1>1, <1>4, <2>2 DEF Full
  <2>4. \A e : ~TooFar(e)
    BY <1>4 DEF TooFar
  <2> HIDE DEF r
  <2>5. QED
    BY <1>1, <1>2, <2>1, <2>2, <2>3, <2>4
<1>5. CASE BelowThreshold(dist[p]) /\ Full
  <2>1. top' \in {(top \ {w}) \cup {r} : w \in Worst}
    BY <1>5, Zenon DEF WithResult
  <2> HIDE DEF r
  <2>2. PICK w \in Worst : top' = (top \ {w}) \cup {r}
    BY <2>1
  <2>3. w \in top /\ w.d \in Nat /\ \A y \in top : y.d \in Nat /\ y.d <= w.d
    BY <1>1, <2>2 DEF Worst
  <2>4. dist[p] < w.d
    <3>1. ~TooFar(dist[p])
      BY <1>1, <1>5, ThresholdIs
    <3>2. ~(w.d <= dist[p])
      <4> SUFFICES ASSUME w.d <= dist[p] PROVE FALSE
        OBVIOUS
      <4>1. \A x \in top : x.d <= dist[p]
        BY <1>1, <2>3
      <4>2. QED
        BY <1>5, <3>1, <4>1 DEF TooFar
    <3>3. QED
      BY <1>1, <2>3, <3>2
  <2>5. IsFiniteSet(top') /\ Cardinality(top') = Cardinality(top)
    <3>1. IsFiniteSet(top \ {w}) /\ Cardinality(top \ {w}) = Cardinality(top) - 1
      BY <1>1, <2>3, FS_RemoveElement
    <3>2. r \notin top \ {w}
      BY <1>2
    <3>3. Cardinality(top') = Cardinality(top \ {w}) + 1 /\ IsFiniteSet(top')
      BY <2>2, <3>1, <3>2, FS_AddElement
    <3>4. QED
      BY <1>1, <3>1, <3>3
  <2>6. Full'
    BY <1>5, <2>5 DEF Full
  <2>7. \A y \in top' : y.d \in Nat /\ y.d <= w.d
    BY <1>1, <1>2, <2>2, <2>3, <2>4
  <2>8. \A e \in Nat : e >= w.d => TooFar(e)'
    <3> SUFFICES ASSUME NEW e \in Nat, e >= w.d PROVE TooFar(e)'
      OBVIOUS
    <3>1. \A y \in top' : y.d <= e
      BY <2>3, <2>7
    <3>2. QED
      BY <2>6, <3>1 DEF TooFar
  <2>9. \A e \in Nat : TooFar(e) => e >= w.d
    BY <2>3 DEF TooFar
  <2>10. \A e \in Nat : TooFar(e) => TooFar(e)'
    BY <2>8, <2>9
  <2>11. \A x \in top \ top' : TooFar(x.d)'
    <3>1. \A x \in top \ top' : x = w
      BY <2>2
    <3>2. TooFar(w.d)'
      BY <2>3, <2>8
    <3>3. QED
      BY <3>1, <3>2
  <2>12. /\ top' \in SUBSET [id : Point, d : Nat]
         /\ r \in top' /\ \A x \in top' : x \in top \/ (x.id = p /\ x.d = dist[p])
    BY <1>1, <1>2, <2>2
  <2>13. QED
    BY <1>1, <1>2, <2>5, <2>10, <2>11, <2>12
<1>6. QED
  BY <1>3, <1>4, <1>5

\* What a push does to the pool: the candidate is the only new one, and what
\* is refused or thrown out has ef others that are as near.
LEMMA PoolStep ==
  ASSUME IInv, NEW c \in [id : Point, d : Nat, live : BOOLEAN],
         \A x \in pool : x.id # c.id,
         NEW P \in H!Pushed(pool, ef, c)
  PROVE  /\ P \subseteq pool \cup {c}
         /\ \A x \in (pool \cup {c}) \ P :
              Cardinality({y \in (pool \cup {c}) \ {x} : y.d <= x.d}) >= ef
<1>1. /\ ef \in Nat \ {0} /\ IsFiniteSet(pool) /\ Cardinality(pool) \in Nat
      /\ pool \in SUBSET [id : Point, d : Nat, live : BOOLEAN]
  <2>1. ef \in Nat \ {0} /\ pool \in SUBSET [id : Point, d : Nat, live : BOOLEAN]
    BY DEF IInv, TypeOK, InputOK
  <2>2. IsFiniteSet(pool)
    BY <2>1, SearchAssumption, DistinctIds DEF IInv, PoolOK
  <2>3. QED
    BY <2>1, <2>2, FS_CardinalityType
<1>2. c \notin pool /\ c.d \in Nat
  OBVIOUS
<1>3. CASE Cardinality(pool) < ef
  <2>1. P = pool \cup {c}
    BY <1>3, SameCardinality DEF H!Pushed
  <2>2. QED
    BY <2>1
<1>4. CASE ~(Cardinality(pool) < ef)
  <2>1. CASE \E x \in H!Farthest(pool) : c.d >= x.d
    <3>1. P = pool
      BY <1>4, <2>1, SameCardinality DEF H!Pushed
    <3>2. \A y \in pool : y.d <= c.d
      BY <1>1, <1>2, <2>1 DEF H!Farthest
    <3>3. {y \in (pool \cup {c}) \ {c} : y.d <= c.d} = pool
      BY <1>2, <3>2
    <3>4. \A x \in (pool \cup {c}) \ P : x = c
      BY <3>1
    <3>5. QED
      BY <1>1, <1>4, <3>1, <3>3, <3>4
  <2>2. CASE ~\E x \in H!Farthest(pool) : c.d >= x.d
    <3>1. PICK x \in H!Farthest(pool) : P = (pool \ {x}) \cup {c}
      BY <1>4, <2>2, SameCardinality DEF H!Pushed
    <3>2. x \in pool /\ x.d \in Nat /\ \A y \in pool : y.d <= x.d
      BY <1>1, <3>1 DEF H!Farthest
    <3>3. c.d <= x.d
      BY <1>2, <2>2, <3>1, <3>2
    <3>4. {y \in (pool \cup {c}) \ {x} : y.d <= x.d} = (pool \ {x}) \cup {c}
      BY <1>2, <3>2, <3>3
    <3>5. IsFiniteSet(pool \ {x}) /\ Cardinality(pool \ {x}) = Cardinality(pool) - 1
      BY <1>1, <3>2, FS_RemoveElement
    <3>6. Cardinality((pool \ {x}) \cup {c}) = Cardinality(pool)
      <4>1. Cardinality((pool \ {x}) \cup {c}) = Cardinality(pool \ {x}) + 1
        BY <1>2, <3>5, FS_AddElement
      <4>2. QED
        BY <1>1, <3>5, <4>1
    <3>7. \A z \in (pool \cup {c}) \ P : z = x
      BY <3>1
    <3>8. P \subseteq pool \cup {c}
      BY <3>1
    <3>9. Cardinality({y \in (pool \cup {c}) \ {x} : y.d <= x.d}) >= ef
      <4>1. Cardinality({y \in (pool \cup {c}) \ {x} : y.d <= x.d}) = Cardinality(pool)
        BY <3>4, <3>6
      <4>2. QED
        BY <1>1, <1>4, <4>1
    <3>10. QED
      BY <3>7, <3>8, <3>9
  <2>3. QED
    BY <2>1, <2>2
<1>5. QED
  BY <1>3, <1>4

\* Candidates whose points are in a set are no more than the set has.
LEMMA EnoughNear ==
  ASSUME NEW n \in Nat, NEW T \in SUBSET Point, NEW S,
         \A y \in S : y.id \in T,
         \A x, y \in S : x.id = y.id => x = y,
         Cardinality(S) >= n
  PROVE  Cardinality(T) >= n
<1>1. IsFiniteSet(T)
  BY SearchAssumption, FS_Subset
<1>2. IsFiniteSet(S) /\ Cardinality(S) <= Cardinality(T)
  BY <1>1, DistinctIds
<1>3. Cardinality(S) \in Nat /\ Cardinality(T) \in Nat
  BY <1>1, <1>2, FS_CardinalityType
<1>4. QED
  BY <1>2, <1>3

\* More evaluated points leave as many as near.
LEMMA StillEnoughNear ==
  ASSUME ef \in Nat, dist \in [Point -> Nat], ef' = ef, dist' = dist,
         Evaluated \subseteq Evaluated', Evaluated' \subseteq Point,
         NEW p \in Point, Cardinality(AsNear(p)) >= ef
  PROVE  Cardinality(AsNear(p)') >= ef'
<1>1. IsFiniteSet(AsNear(p)')
  BY SearchAssumption, FS_Subset DEF AsNear
<1>2. AsNear(p) \subseteq AsNear(p)'
  BY DEF AsNear
<1>3. IsFiniteSet(AsNear(p)) /\ Cardinality(AsNear(p)) <= Cardinality(AsNear(p)')
  BY <1>1, <1>2, FS_Subset
<1>4. Cardinality(AsNear(p)) \in Nat /\ Cardinality(AsNear(p)') \in Nat
  BY <1>1, <1>3, FS_CardinalityType
<1>5. QED
  BY <1>3, <1>4

----------------------------------------------------------------------------
\* Distances do not change, so what is said of numbers holds of points.
LEMMA PointsTooFar ==
  ASSUME dist \in [Point -> Nat], dist' = dist,
         \A e \in Nat : TooFar(e) => TooFar(e)'
  PROVE  \A p \in Point : TooFar(dist[p]) => TooFar(dist[p])'
<1> SUFFICES ASSUME NEW p \in Point, TooFar(dist[p]) PROVE TooFar(dist[p])'
  OBVIOUS
<1>1. PICK e \in Nat : e = dist[p]
  OBVIOUS
<1>2. TooFar(e)' /\ dist'[p] = e
  BY <1>1
<1>3. QED
  BY <1>2 DEF TooFar

LEMMA PrunedStays ==
  ASSUME IInv, UNCHANGED input, pruned' = pruned,
         \A e \in Nat : TooFar(e) => TooFar(e)'
  PROVE  PrunedOK'
<1>1. dist \in [Point -> Nat] /\ dist' = dist /\ comp' = comp /\ pruned \subseteq Point
  BY DEF IInv, TypeOK, InputOK, input
<1>2. \A p \in Point : TooFar(dist[p]) => TooFar(dist[p])'
  BY <1>1, PointsTooFar
<1>3. QED
  BY <1>1, <1>2 DEF IInv, PrunedOK, LowerBound

LEMMA SeedIInv == IInv /\ Seed => IInv'
<1> SUFFICES ASSUME IInv, Seed PROVE IInv'
  OBVIOUS
<1> DEFINE c == H!Candidate(near, dist[near])
<1>1. /\ UNCHANGED input /\ dist' = dist /\ k' = k /\ ef' = ef /\ graph' = graph
      /\ near' = near /\ lv' = lv /\ d' = d /\ todo' = todo /\ buf' = buf
      /\ flush' = flush /\ nstep' = nstep /\ pruned' = pruned
      /\ pc = "seed" /\ pc' = "base" /\ pool' = {c} /\ visited' = {near}
      /\ top' \in WithResult(near)
  BY DEF Seed, input
<1>2. /\ pool = {} /\ top = {} /\ visited = {} /\ pruned = {}
      /\ todo = <<>> /\ buf = <<>>
  BY <1>1 DEF IInv, Phases
<1>3. near \in Point /\ dist \in [Point -> Nat] /\ k \in Nat \ {0}
  BY DEF IInv, TypeOK, InputOK
<1>4. /\ c \in [id : Point, d : Nat, live : BOOLEAN]
      /\ c.id = near /\ c.d = dist[near] /\ c.live
  BY <1>3 DEF H!Candidate
<1> HIDE DEF c
<1>5. /\ top' \in SUBSET [id : Point, d : Nat]
      /\ IsFiniteSet(top') /\ Cardinality(top') <= k
      /\ \A x \in top' : x \in top \/ (x.id = near /\ x.d = dist[near])
      /\ (\E x \in top' : x.id = near) \/ TooFar(dist[near])'
      /\ \A e \in Nat : TooFar(e) => TooFar(e)'
  BY <1>1, <1>2, <1>3, ResultsStep
<1>6. Evaluated' = {near}
  BY <1>1, <1>2 DEF Evaluated
<1>7. TypeOK' /\ Phases' /\ LevelsExist'
  <2>1. InputOK'
    BY <1>1 DEF IInv, TypeOK, InputOK, input, MaxLevel
  <2>2. MaxLevel' = MaxLevel
    BY <1>1 DEF MaxLevel
  <2>3. pool' \in SUBSET [id : Point, d : Nat, live : BOOLEAN] /\ visited' \in SUBSET Point
    BY <1>1, <1>3, <1>4
  <2>4. TypeOK'
    BY <1>1, <1>5, <2>1, <2>2, <2>3 DEF IInv, TypeOK
  <2>5. QED
    BY <1>1, <2>4 DEF Phases, LevelsExist
<1>8. BufferOK' /\ PoolOK' /\ ResultsFit'
  BY <1>1, <1>2, <1>4, <1>5, <1>6 DEF BufferOK, Buffered, PoolOK, ResultsFit
<1>9. ResultsOK'
  BY <1>1, <1>2, <1>5, <1>6 DEF ResultsOK
<1>10. BeamOK' /\ BeamComplete'
  BY <1>1, <1>4, <1>6 DEF BeamOK, BeamComplete
<1>11. PrunedOK'
  BY <1>1, <1>5, PrunedStays
<1>12. QED
  BY <1>7, <1>8, <1>9, <1>10, <1>11 DEF IInv

LEMMA PopIInv == IInv /\ Pop => IInv'
<1> SUFFICES ASSUME IInv, Pop PROVE IInv'
  OBVIOUS
<1>1. PICK x \in H!Nearest(pool) :
        /\ pool' = H!Popped(pool, x) /\ todo' = Links(x.id, 0)
        /\ nstep' = IF check THEN 0 ELSE nstep + 1
  BY DEF Pop
<1> DEFINE z == [id |-> x.id, d |-> x.d, live |-> FALSE]
<1>2. /\ UNCHANGED input /\ dist' = dist /\ k' = k /\ ef' = ef /\ graph' = graph
      /\ pc' = pc /\ near' = near /\ lv' = lv /\ d' = d /\ top' = top
      /\ visited' = visited /\ buf' = buf /\ flush' = flush /\ pruned' = pruned
      /\ pc = "base" /\ todo = <<>> /\ buf = <<>>
  BY DEF Pop, Idle, input
<1>3. /\ x \in pool /\ x.live /\ x.id \in Point
      /\ pool \in SUBSET [id : Point, d : Nat, live : BOOLEAN]
  BY DEF IInv, TypeOK, H!Nearest, H!Live
<1>4. /\ z \in [id : Point, d : Nat, live : BOOLEAN]
      /\ z.id = x.id /\ z.d = x.d /\ pool' = (pool \ {x}) \cup {z}
  BY <1>1, <1>3 DEF H!Popped
<1> HIDE DEF z
<1>5. Evaluated' = Evaluated /\ \A e : TooFar(e)' <=> TooFar(e)
  BY <1>2 DEF Evaluated, TooFar, Full
<1>6. TypeOK' /\ Phases' /\ LevelsExist'
  <2>1. InputOK' /\ MaxLevel' = MaxLevel
    BY <1>2 DEF IInv, TypeOK, InputOK, input, MaxLevel
  <2>2. todo' \in Seq(Point)
    <3>1. graph \in Graphs /\ 0 \in 0 .. graph.level[x.id]
      BY <1>3, GraphsAssumption DEF IInv, TypeOK, InputOK
    <3>2. QED
      BY <1>1, <1>3, <3>1, LinksAre
  <2>3. nstep' \in Nat
    BY <1>1 DEF IInv, TypeOK
  <2>4. pool' \in SUBSET [id : Point, d : Nat, live : BOOLEAN]
    BY <1>3, <1>4
  <2>5. TypeOK'
    BY <1>2, <2>1, <2>2, <2>3, <2>4 DEF IInv, TypeOK
  <2>6. QED
    BY <1>2, <2>5 DEF Phases, LevelsExist
<1>7. BufferOK' /\ ResultsFit' /\ PrunedOK'
  <2>1. PrunedOK'
    BY <1>2, <1>5, PrunedStays
  <2>2. QED
    BY <1>2, <2>1 DEF IInv, BufferOK, Buffered, ResultsFit
<1>8. PoolOK'
  BY <1>2, <1>3, <1>4, <1>5 DEF IInv, PoolOK
<1>9. ResultsOK'
  <2>1. \A p : TooFar(dist[p])' <=> TooFar(dist[p])
    BY <1>2 DEF TooFar, Full
  <2>2. QED
    BY <1>2, <1>5, <2>1 DEF IInv, ResultsOK
<1>10. BeamOK' /\ BeamComplete'
  <2> SUFFICES ASSUME NEW p \in Evaluated
               PROVE  \/ \E y \in pool' : y.id = p /\ y.live
                      \/ Expanded(p)'
                      \/ Cardinality(AsNear(p)') >= ef'
    BY <1>2, <1>5 DEF BeamOK, BeamComplete
  <2>1. AsNear(p)' = AsNear(p)
    BY <1>2, <1>5 DEF AsNear
  <2>2. CASE p = x.id
    <3>1. Expanded(p)'
      BY <1>1, <1>2, <2>2 DEF Expanded, Links
    <3>2. QED
      BY <3>1
  <2>3. CASE p # x.id
    <3>1. CASE \E y \in pool : y.id = p /\ y.live
      BY <1>4, <2>3, <3>1
    <3>2. CASE Expanded(p)
      <4>1. Expanded(p)'
        BY <1>2, <3>2 DEF Expanded, Links
      <4>2. QED
        BY <4>1
    <3>3. CASE Cardinality(AsNear(p)) >= ef
      BY <1>2, <2>1, <3>3
    <3>4. QED
      BY <3>1, <3>2, <3>3 DEF IInv, BeamOK
  <2>4. QED
    BY <2>2, <2>3
<1>11. QED
  BY <1>6, <1>7, <1>8, <1>9, <1>10 DEF IInv

\* Where the search stops, whatever still waits has ef points before it.
LEMMA StopIInv == IInv /\ Stop => IInv'
<1> SUFFICES ASSUME IInv, Stop PROVE IInv'
  OBVIOUS
<1>1. /\ UNCHANGED <<input, near, lv, d, base>>
      /\ pc = "base" /\ pc' = "done" /\ todo = <<>> /\ buf = <<>>
  BY DEF Stop, Idle
<1>2. /\ Evaluated' = Evaluated /\ Evaluated \subseteq Point /\ MaxLevel' = MaxLevel
      /\ \A e : TooFar(e)' <=> TooFar(e)
      /\ \A p : TooFar(dist[p])' <=> TooFar(dist[p])
      /\ \A p : AsNear(p)' = AsNear(p)
      /\ \A p : Expanded(p)' <=> Expanded(p)
  BY <1>1 DEF input, base, Evaluated, TooFar, Full, AsNear, Expanded, Links, MaxLevel,
              IInv, TypeOK
<1>3. TypeOK' /\ Phases' /\ LevelsExist'
  BY <1>1, <1>2 DEF IInv, TypeOK, InputOK, input, base, Phases, LevelsExist
<1>4. BufferOK' /\ PoolOK' /\ ResultsFit'
  BY <1>1, <1>2 DEF IInv, input, base, BufferOK, Buffered, PoolOK, ResultsFit
<1>5. ResultsOK' /\ BeamOK'
  BY <1>1, <1>2 DEF IInv, input, base, ResultsOK, BeamOK
<1>6. PrunedOK'
  BY <1>1, <1>2, PrunedStays DEF base
<1>7. BeamComplete'
  <2> SUFFICES ASSUME check, NEW p \in Evaluated
               PROVE  \/ Cardinality(AsNear(p)) >= ef
                      \/ \A i \in DOMAIN Links(p, 0) : Links(p, 0)[i] \in visited
    BY <1>1, <1>2 DEF BeamComplete, AsNear, Links, input, base
  <2>1. CASE Expanded(p)
    BY <1>1, <2>1 DEF Expanded
  <2>2. CASE \E y \in pool : y.id = p /\ y.live
    <3>1. PICK y \in pool : y.id = p /\ y.live
      BY <2>2
    <3>2. y \in H!Live(pool) /\ H!Live(pool) # {}
      BY <3>1 DEF H!Live
    <3>3. PICK x \in H!Nearest(pool) : EnoughBelow(x)
      BY <3>2 DEF Stop, Tired
    <3>4. /\ dist \in [Point -> Nat] /\ ef \in Nat /\ p \in Point
          /\ pool \in SUBSET [id : Point, d : Nat, live : BOOLEAN]
      BY <1>2 DEF IInv, TypeOK, InputOK
    <3>5. x.d \in Nat /\ y.d = dist[p] /\ x.d <= y.d
      BY <3>1, <3>2, <3>3, <3>4 DEF H!Nearest, H!Live, IInv, PoolOK
    <3> DEFINE S == {w \in pool : w.d < x.d}
    <3>6. \A w \in S : w.id \in Evaluated \ {p} /\ dist[w.id] <= dist[p]
      <4> SUFFICES ASSUME NEW w \in pool, w.d < x.d
                   PROVE  w.id \in Evaluated /\ w.id # p /\ dist[w.id] <= dist[p]
        OBVIOUS
      <4>1. w.id \in Evaluated /\ w.d = dist[w.id] /\ w.d \in Nat
        BY <3>4 DEF IInv, PoolOK
      <4>2. w.d < dist[p] /\ dist[p] \in Nat
        BY <3>4, <3>5, <4>1
      <4>3. dist[w.id] # dist[p] /\ dist[w.id] <= dist[p]
        BY <4>1, <4>2
      <4>4. QED
        BY <4>1, <4>3
    <3>7. \A v, w \in S : v.id = w.id => v = w
      BY DEF IInv, PoolOK
    <3>8. Cardinality(S) >= ef
      BY <3>3 DEF EnoughBelow
    <3> HIDE DEF S
    <3>9. AsNear(p) \in SUBSET Point /\ \A w \in S : w.id \in AsNear(p)
      BY <1>2, <3>6 DEF AsNear
    <3>10. QED
      BY <3>4, <3>7, <3>8, <3>9, EnoughNear
  <2>3. QED
    BY <2>1, <2>2 DEF IInv, BeamOK
<1>8. QED
  BY <1>3, <1>4, <1>5, <1>6, <1>7 DEF IInv

\* What is pruned is too far, where the lower bound is one.
LEMMA PrunesTooFar ==
  ASSUME IInv, LowerBoundHolds, NEW p \in Point, Prunes(p)
  PROVE  TooFar(dist[p])
<1>1. /\ IsFiniteSet(top) /\ k \in Nat \ {0} /\ \A x \in top : x.d \in Nat
      /\ dist[p] \in Nat
  BY DEF IInv, ResultsFit, TypeOK, InputOK
<1>2. top # {}
  BY <1>1, FS_EmptySet DEF Prunes, Full
<1>3. PICK w \in top : \A y \in top : y.d <= w.d
  BY <1>1, <1>2, LargestExists
<1>4. LowerBound(p) \in Nat /\ LowerBound(p) <= dist[p]
  BY DEF IInv, PrunedOK
<1>5. w.d < LowerBound(p)
  BY <1>1, <1>3, <1>4 DEF Prunes, Worst
<1>6. QED
  BY <1>1, <1>3, <1>4, <1>5 DEF TooFar, Prunes

LEMMA LookIInv == IInv /\ Look => IInv'
<1> SUFFICES ASSUME IInv, Look PROVE IInv'
  OBVIOUS
<1> DEFINE h == Head(todo)
<1>1. /\ UNCHANGED input /\ dist' = dist /\ comp' = comp /\ k' = k /\ ef' = ef
      /\ graph' = graph /\ pc' = pc /\ near' = near /\ lv' = lv /\ d' = d
      /\ pool' = pool /\ top' = top /\ nstep' = nstep
      /\ pc = "base" /\ todo # <<>> /\ todo' = Tail(todo)
      /\ visited' = visited \cup {h}
  BY DEF Look, input
<1>2. /\ h \in Point /\ 1 \in DOMAIN todo /\ h = todo[1]
      /\ Tail(todo) \in Seq(Point)
      /\ \A j \in DOMAIN todo :
           j = 1 \/ (j - 1 \in DOMAIN Tail(todo) /\ Tail(todo)[j - 1] = todo[j])
  BY <1>1, TailIs DEF IInv, TypeOK
<1>3. \/ h \in visited /\ buf' = buf /\ flush' = flush /\ pruned' = pruned
      \/ h \notin visited /\ Prunes(h) /\ pruned' = pruned \cup {h}
         /\ buf' = buf /\ flush' = flush
      \/ h \notin visited /\ buf' = Append(buf, h) /\ flush' \in BOOLEAN
         /\ pruned' = pruned
  BY DEF Look
<1> HIDE DEF h
<1>4. buf \in Seq(Point) /\ pruned \subseteq Point /\ flush \in BOOLEAN
  BY DEF IInv, TypeOK
<1>5. \/ buf' = buf
      \/ /\ h \notin visited /\ buf' = Append(buf, h)
         /\ DOMAIN buf' = DOMAIN buf \cup {Len(buf) + 1}
         /\ buf'[Len(buf) + 1] = h
         /\ \A i \in DOMAIN buf : i # Len(buf) + 1 /\ buf'[i] = buf[i]
  <2>1. CASE buf' = Append(buf, h)
    <3>1. DOMAIN buf = 1 .. Len(buf) /\ Len(buf) \in Nat
      BY <1>4
    <3>2. DOMAIN buf' = 1 .. Len(buf) + 1
      BY <1>2, <1>4, <2>1
    <3>3. buf'[Len(buf) + 1] = h /\ \A i \in 1 .. Len(buf) : buf'[i] = buf[i]
      BY <1>2, <1>4, <2>1
    <3>4. DOMAIN buf' = DOMAIN buf \cup {Len(buf) + 1}
      BY <3>1, <3>2
    <3>5. \A i \in DOMAIN buf : i # Len(buf) + 1
      BY <3>1
    <3>6. CASE buf' # buf
      BY <1>3, <2>1, <3>1, <3>3, <3>4, <3>5, <3>6
    <3>7. QED
      BY <3>6
  <2>2. QED
    BY <1>3, <2>1
<1>6. BufferOK' /\ Evaluated' = Evaluated
  <2>1. Buffered' = Buffered \/ (h \notin visited /\ Buffered' = Buffered \cup {h})
    BY <1>5 DEF Buffered
  <2>2. Buffered' \subseteq visited' /\ pruned' \subseteq visited' /\ Buffered' \cap pruned' = {}
    <3>1. CASE h \in visited
      BY <1>1, <1>3, <2>1, <3>1 DEF IInv, BufferOK
    <3>2. CASE h \notin visited /\ pruned' = pruned
      BY <1>1, <2>1, <3>2 DEF IInv, BufferOK
    <3>3. CASE h \notin visited /\ pruned' = pruned \cup {h} /\ buf' = buf
      <4>1. Buffered' = Buffered
        BY <3>3 DEF Buffered
      <4>2. QED
        BY <1>1, <3>3, <4>1 DEF IInv, BufferOK
    <3>4. QED
      BY <1>3, <3>1, <3>2, <3>3
  <2>3. \A i, j \in DOMAIN buf' : buf'[i] = buf'[j] => i = j
    <3>1. \A i \in DOMAIN buf : buf[i] \in visited
      BY DEF IInv, BufferOK, Buffered
    <3>2. QED
      BY <1>5, <3>1 DEF IInv, BufferOK
  <2>4. h \notin visited => h \in pruned' \cup Buffered'
    BY <1>3, <1>5 DEF Buffered
  <2>5. pruned' \cup Buffered' \subseteq pruned \cup Buffered \cup ({h} \ visited)
    BY <1>3, <2>1 DEF IInv, BufferOK
  <2>6. pruned \cup Buffered \subseteq pruned' \cup Buffered'
    BY <1>3, <2>1
  <2>7. Evaluated = visited \ (pruned \cup Buffered)
        /\ Evaluated' = visited' \ (pruned' \cup Buffered')
    BY DEF Evaluated, Buffered
  <2>8. Evaluated' = Evaluated
    BY <1>1, <2>4, <2>5, <2>6, <2>7
  <2>9. QED
    BY <2>2, <2>3, <2>8 DEF BufferOK
<1>7. TypeOK' /\ Phases' /\ LevelsExist'
  <2>1. InputOK' /\ MaxLevel' = MaxLevel
    BY <1>1 DEF IInv, TypeOK, InputOK, input, MaxLevel
  <2>2. buf' \in Seq(Point)
    BY <1>2, <1>3, <1>4
  <2>3. pruned' \in SUBSET Point /\ flush' \in BOOLEAN
    BY <1>2, <1>3, <1>4
  <2>4. visited' \in SUBSET Point
    BY <1>1, <1>2 DEF IInv, TypeOK
  <2>5. TypeOK'
    BY <1>1, <1>2, <2>1, <2>2, <2>3, <2>4 DEF IInv, TypeOK
  <2>6. QED
    BY <1>1, <2>5 DEF Phases, LevelsExist
<1>8. PoolOK' /\ ResultsFit' /\ BeamComplete'
  BY <1>1, <1>6 DEF IInv, PoolOK, ResultsFit, BeamComplete
<1>9. /\ \A e : TooFar(e)' <=> TooFar(e)
      /\ \A p : TooFar(dist[p])' <=> TooFar(dist[p])
  BY <1>1 DEF TooFar, Full
<1>10. ResultsOK'
  BY <1>1, <1>6, <1>9 DEF IInv, ResultsOK
<1>11. BeamOK'
  <2>1. \A p : AsNear(p)' = AsNear(p)
    BY <1>1, <1>6 DEF AsNear
  <2>2. \A p : Expanded(p) => Expanded(p)'
    <3> SUFFICES ASSUME NEW p, Expanded(p), NEW i \in DOMAIN Links(p, 0)
                 PROVE  \/ Links(p, 0)[i] \in visited'
                        \/ \E j \in DOMAIN todo' : todo'[j] = Links(p, 0)[i]
      BY <1>1 DEF Expanded, Links
    <3>1. CASE Links(p, 0)[i] \in visited
      BY <1>1, <3>1
    <3>2. CASE \E j \in DOMAIN todo : todo[j] = Links(p, 0)[i]
      BY <1>1, <1>2, <3>2
    <3>3. QED
      BY <3>1, <3>2 DEF Expanded
  <2>3. QED
    BY <1>1, <1>6, <2>1, <2>2 DEF IInv, BeamOK
<1>12. PrunedOK'
  <2>1. LowerBoundHolds /\ Prunes(h) => TooFar(dist[h])
    BY <1>2, PrunesTooFar
  <2>2. \A p : LowerBound(p)' = LowerBound(p)
    BY <1>1 DEF LowerBound
  <2>3. \A p \in pruned' : p \in pruned \/ (p = h /\ Prunes(h))
    BY <1>3
  <2>4. QED
    BY <1>1, <1>9, <2>1, <2>2, <2>3 DEF IInv, PrunedOK
<1>13. QED
  BY <1>6, <1>7, <1>8, <1>10, <1>11, <1>12 DEF IInv

LEMMA AddIInv == IInv /\ Add => IInv'
<1> SUFFICES ASSUME IInv, Add PROVE IInv'
  OBVIOUS
<1>0. PICK h : h = Head(buf)
  OBVIOUS
<1> DEFINE c == H!Candidate(h, dist[h])
<1>1. /\ UNCHANGED input /\ dist' = dist /\ k' = k /\ ef' = ef
      /\ graph' = graph /\ pc' = pc /\ near' = near /\ lv' = lv /\ d' = d
      /\ visited' = visited /\ todo' = todo /\ nstep' = nstep /\ pruned' = pruned
      /\ pc = "base" /\ buf # <<>> /\ buf' = Tail(buf) /\ flush' \in BOOLEAN
      /\ top' \in WithResult(h) /\ pool' \in H!Pushed(pool, ef, c)
  BY <1>0 DEF Add, input, IInv, TypeOK
<1>2. /\ h \in Point /\ 1 \in DOMAIN buf /\ h = buf[1]
      /\ Tail(buf) \in Seq(Point)
      /\ \A j \in DOMAIN Tail(buf) : j + 1 \in DOMAIN buf /\ Tail(buf)[j] = buf[j + 1]
      /\ \A j \in DOMAIN buf :
           j = 1 \/ (j - 1 \in DOMAIN Tail(buf) /\ Tail(buf)[j - 1] = buf[j])
  BY <1>0, <1>1, TailIs DEF IInv, TypeOK
<1>3. /\ dist \in [Point -> Nat] /\ ef \in Nat /\ k \in Nat \ {0}
      /\ pool \in SUBSET [id : Point, d : Nat, live : BOOLEAN]
      /\ top \in SUBSET [id : Point, d : Nat]
      /\ Evaluated \subseteq Point
  BY DEF IInv, TypeOK, InputOK, Evaluated
<1>4. /\ c \in [id : Point, d : Nat, live : BOOLEAN]
      /\ c.id = h /\ c.d = dist[h] /\ c.live
  BY <1>2, <1>3 DEF H!Candidate
<1> HIDE DEF c
<1>5. /\ Buffered = Buffered' \cup {h} /\ h \notin Buffered'
      /\ \A i, j \in DOMAIN buf' : buf'[i] = buf'[j] => i = j
  <2>1. \A j \in DOMAIN buf' : j \in Nat \ {0} /\ j + 1 \in DOMAIN buf /\ buf'[j] = buf[j + 1]
    BY <1>1, <1>2
  <2>2. Buffered = Buffered' \cup {h}
    <3>1. \A j \in DOMAIN buf' : buf'[j] \in Buffered
      BY <2>1 DEF Buffered
    <3>2. \A j \in DOMAIN buf : buf[j] \in Buffered' \cup {h}
      <4> SUFFICES ASSUME NEW j \in DOMAIN buf, j # 1 PROVE buf[j] \in Buffered'
        BY <1>2
      <4>1. j - 1 \in DOMAIN buf' /\ buf'[j - 1] = buf[j]
        BY <1>1, <1>2
      <4>2. QED
        BY <4>1 DEF Buffered
    <3>3. QED
      BY <1>2, <3>1, <3>2 DEF Buffered
  <2>3. h \notin Buffered'
    <3> SUFFICES ASSUME NEW j \in DOMAIN buf', buf'[j] = h PROVE FALSE
      BY DEF Buffered
    <3>1. j + 1 = 1
      BY <1>2, <2>1 DEF IInv, BufferOK
    <3>2. QED
      BY <2>1, <3>1
  <2>4. \A i, j \in DOMAIN buf' : buf'[i] = buf'[j] => i = j
    <3> SUFFICES ASSUME NEW i \in DOMAIN buf', NEW j \in DOMAIN buf', buf'[i] = buf'[j]
                 PROVE  i = j
      OBVIOUS
    <3>1. i + 1 = j + 1
      BY <2>1 DEF IInv, BufferOK
    <3>2. QED
      BY <2>1, <3>1
  <2>5. QED
    BY <2>2, <2>3, <2>4
<1>6. /\ Evaluated' = Evaluated \cup {h} /\ h \notin Evaluated
      /\ Evaluated' \subseteq Point
  <2>1. Evaluated = visited \ (pruned \cup Buffered)
        /\ Evaluated' = visited' \ (pruned' \cup Buffered')
    BY DEF Evaluated, Buffered
  <2>2. h \in visited /\ h \notin pruned
    BY <1>5 DEF IInv, BufferOK
  <2>3. QED
    BY <1>1, <1>2, <1>3, <1>5, <2>1, <2>2
<1>7. /\ \A x \in top : x.id # h /\ x.d = dist[x.id] /\ x.id \in Evaluated
      /\ \A x \in pool : x.id # h /\ x.d = dist[x.id] /\ x.id \in Evaluated
  BY <1>6 DEF IInv, ResultsOK, PoolOK
<1>8. /\ top' \in SUBSET [id : Point, d : Nat]
      /\ IsFiniteSet(top') /\ Cardinality(top') <= k
      /\ \A x \in top' : x \in top \/ (x.id = h /\ x.d = dist[h])
      /\ (\E x \in top' : x.id = h) \/ TooFar(dist[h])'
      /\ \A e \in Nat : TooFar(e) => TooFar(e)'
      /\ \A x \in top \ top' : TooFar(x.d)'
  BY <1>1, <1>2, <1>7, ResultsStep
<1>9. /\ pool' \subseteq pool \cup {c}
      /\ \A x \in (pool \cup {c}) \ pool' :
           Cardinality({y \in (pool \cup {c}) \ {x} : y.d <= x.d}) >= ef
  BY <1>1, <1>4, <1>7, PoolStep
<1>10. TypeOK' /\ Phases' /\ LevelsExist'
  <2>1. InputOK' /\ MaxLevel' = MaxLevel
    BY <1>1 DEF IInv, TypeOK, InputOK, input, MaxLevel
  <2>2. pool' \in SUBSET [id : Point, d : Nat, live : BOOLEAN]
    BY <1>3, <1>4, <1>9
  <2>3. TypeOK'
    BY <1>1, <1>2, <1>8, <2>1, <2>2 DEF IInv, TypeOK
  <2>4. QED
    BY <1>1, <2>3 DEF Phases, LevelsExist
<1>11. BufferOK' /\ ResultsFit' /\ BeamComplete'
  BY <1>1, <1>5, <1>8 DEF IInv, BufferOK, ResultsFit, BeamComplete
<1>12. PoolOK'
  <2>1. \A x \in pool' : x \in pool \/ x = c
    BY <1>9
  <2>2. QED
    BY <1>1, <1>4, <1>6, <1>7, <2>1 DEF IInv, PoolOK
<1>13. ResultsOK'
  <2>1. \A x \in top' : x.id \in Evaluated' /\ x.d = dist'[x.id]
    BY <1>1, <1>6, <1>7, <1>8
  <2>2. \A p \in Point : TooFar(dist[p]) => TooFar(dist[p])'
    BY <1>1, <1>3, <1>8, PointsTooFar
  <2>3. ASSUME NEW p \in Evaluated'
        PROVE  (\E x \in top' : x.id = p) \/ TooFar(dist[p])'
    <3>1. CASE p = h
      BY <1>8, <3>1
    <3>2. CASE p # h /\ TooFar(dist[p])
      BY <1>6, <2>2, <3>2
    <3>3. CASE \E x \in top : x.id = p
      <4>1. PICK x \in top : x.id = p
        BY <3>3
      <4>2. CASE x \in top'
        BY <4>1, <4>2
      <4>3. CASE x \notin top'
        <5>1. TooFar(x.d)' /\ x.d = dist'[p]
          BY <1>1, <1>7, <1>8, <4>1, <4>3
        <5>2. QED
          BY <5>1 DEF TooFar
      <4>4. QED
        BY <4>2, <4>3
    <3>4. QED
      BY <1>6, <3>1, <3>2, <3>3 DEF IInv, ResultsOK
  <2>4. QED
    BY <2>1, <2>3 DEF ResultsOK
<1>14. BeamOK'
  <2> SUFFICES ASSUME NEW p \in Evaluated'
               PROVE  \/ \E x \in pool' : x.id = p /\ x.live
                      \/ Expanded(p)'
                      \/ Cardinality(AsNear(p)') >= ef'
    BY DEF BeamOK
  <2>1. p \in Point
    BY <1>6
  <2>2. CASE Expanded(p)
    <3>1. Expanded(p)'
      BY <1>1, <2>2 DEF Expanded, Links
    <3>2. QED
      BY <3>1
  <2>3. CASE p # h /\ Cardinality(AsNear(p)) >= ef
    <3>1. Cardinality(AsNear(p)') >= ef'
      BY <1>1, <1>3, <1>6, <2>1, <2>3, StillEnoughNear
    <3>2. QED
      BY <3>1
  <2>4. CASE \E x \in pool \cup {c} : x.id = p /\ x.live
    <3>1. PICK x \in pool \cup {c} : x.id = p /\ x.live
      BY <2>4
    <3>2. CASE x \in pool'
      BY <3>1, <3>2
    <3>3. CASE x \notin pool'
      <4> DEFINE S == {y \in (pool \cup {c}) \ {x} : y.d <= x.d}
      <4>1. Cardinality(S) >= ef
        BY <1>9, <3>1, <3>3
      <4>2. \A y, z \in pool \cup {c} : y.id = z.id => y = z
        BY <1>4, <1>7 DEF IInv, PoolOK
      <4>3. \A y \in pool \cup {c} : y.id \in Evaluated' /\ y.d = dist[y.id]
        BY <1>4, <1>6, <1>7
      <4>4. \A y \in S : y.id \in Evaluated' \ {p} /\ dist[y.id] <= dist[p]
        BY <3>1, <4>2, <4>3
      <4>5. \A y, z \in S : y.id = z.id => y = z
        BY <4>2
      <4> HIDE DEF S
      <4>6. AsNear(p)' \in SUBSET Point /\ \A y \in S : y.id \in AsNear(p)'
        BY <1>1, <1>6, <4>4 DEF AsNear
      <4>7. Cardinality(AsNear(p)') >= ef
        BY <1>3, <4>1, <4>5, <4>6, EnoughNear
      <4>8. QED
        BY <1>1, <4>7
    <3>4. QED
      BY <3>2, <3>3
  <2>5. CASE p = h
    BY <1>4, <2>4, <2>5
  <2>6. QED
    BY <1>6, <2>2, <2>3, <2>4, <2>5 DEF IInv, BeamOK
<1>15. PrunedOK'
  BY <1>1, <1>8, PrunedStays
<1>16. QED
  BY <1>10, <1>11, <1>12, <1>13, <1>14, <1>15 DEF IInv

LEMMA StutterIInv == IInv /\ UNCHANGED vars => IInv'
<1> SUFFICES ASSUME IInv, UNCHANGED vars PROVE IInv'
  OBVIOUS
<1> USE DEF vars
<1>1. /\ Evaluated' = Evaluated /\ MaxLevel' = MaxLevel
      /\ \A e : TooFar(e)' <=> TooFar(e)
      /\ \A p : TooFar(dist[p])' <=> TooFar(dist[p])
      /\ \A p : AsNear(p)' = AsNear(p)
      /\ \A p : Expanded(p)' <=> Expanded(p)
  BY DEF Evaluated, TooFar, Full, AsNear, Expanded, Links, MaxLevel
<1>2. TypeOK' /\ Phases' /\ LevelsExist'
  BY <1>1 DEF IInv, TypeOK, InputOK, Phases, LevelsExist
<1>3. BufferOK' /\ PoolOK' /\ ResultsFit' /\ ResultsOK' /\ BeamOK'
  BY <1>1 DEF IInv, BufferOK, Buffered, PoolOK, ResultsFit, ResultsOK, BeamOK
<1>4. BeamComplete' /\ PrunedOK'
  BY <1>1 DEF IInv, BeamComplete, Links, PrunedOK, LowerBound
<1>5. QED
  BY <1>2, <1>3, <1>4 DEF IInv

LEMMA StepIInv == IInv /\ [Next]_vars => IInv'
BY EnterTopIInv, SkipIInv, NearerIInv, SettleIInv, SeedIInv, PopIInv, StopIInv,
   LookIInv, AddIInv, StutterIInv DEF Next

LEMMA AlwaysIInv == Spec => []IInv
BY InitIInv, StepIInv, PTL DEF Spec

\* Whatever the shortcut predicts, the descent reads lists of points only at
\* levels these have (IndexSHG.cpp:1092).
THEOREM LevelsAlwaysExist == Spec => []LevelsExist
<1>1. IInv => LevelsExist
  BY DEF IInv
<1>2. QED
  BY <1>1, AlwaysIInv, PTL

\* The results are the nearest of the points that were evaluated, although
\* they are added in batches, after the threshold was read (IndexSHG.cpp:322).
THEOREM ResultsAlwaysBest == Spec => []BestOfEvaluated
<1>1. IInv => BestOfEvaluated
  BY DEF IInv, ResultsOK, TooFar, BestOfEvaluated
<1>2. QED
  BY <1>1, AlwaysIInv, PTL

\* With the distance check the beam is not cut short: the pool of ef places,
\* in which popped candidates keep theirs, loses only points that have ef
\* others as near, and count_below counts as many (IndexSHG.cpp:304).
THEOREM BeamAlwaysComplete == Spec => []BeamComplete
<1>1. IInv => BeamComplete
  BY DEF IInv
<1>2. QED
  BY <1>1, AlwaysIInv, PTL

\* Where dis_0^2 >= dis_L^2 * eta^L holds (IndexSHG.cpp:276), the lower bound
\* keeps away nothing that could become a result, although it is compared
\* with a threshold that is behind by the points in the buffer.
THEOREM PruningAlwaysSafe ==
  ASSUME LowerBoundHolds
  PROVE  Spec => []PrunedIsFarther
<1>1. IInv => PrunedIsFarther
  BY DEF IInv, PrunedOK, PrunedIsFarther, TooFar
<1>2. QED
  BY <1>1, AlwaysIInv, PTL

----------------------------------------------------------------------------
(* The life of an index: storage, graph and compressed vectors.             *)

IndexTypeOK ==
  /\ xb \in Seq(Vector) /\ reps \in Seq(Vector \cup {Zero})
  /\ origin \in [DOMAIN xb -> DOMAIN xb]
  /\ level \in [DOMAIN xb -> Nat]
  /\ links \in [DOMAIN xb -> SUBSET DOMAIN xb]

\* There is an entry point as soon as there is a node.
EntryOK == xb # <<>> => entry \in DOMAIN xb

NoEntry == xb = <<>> => entry = NoOne

IndexInv == IndexTypeOK /\ EntryOK /\ NoEntry /\ RepsInStep

LEMMA IndexInitInv == IndexInit => IndexInv
<1> SUFFICES ASSUME IndexInit PROVE IndexInv
  OBVIOUS
<1>1. /\ xb = <<>> /\ reps = <<>> /\ level = <<>> /\ links = <<>> /\ entry = NoOne
      /\ origin = <<>>
  BY DEF IndexInit
<1>2. /\ xb \in Seq(Vector) /\ reps \in Seq(Vector \cup {Zero}) /\ DOMAIN xb = {}
  BY <1>1
<1>3. level \in [DOMAIN xb -> Nat] /\ links \in [DOMAIN xb -> SUBSET DOMAIN xb]
      /\ origin \in [DOMAIN xb -> DOMAIN xb]
  BY <1>1
<1>4. QED
  BY <1>1, <1>2, <1>3 DEF IndexInv, IndexTypeOK, EntryOK, NoEntry, RepsInStep

LEMMA ConcatIs ==
  ASSUME NEW S, NEW s \in Seq(S), NEW t \in Seq(S)
  PROVE  s \o t \in Seq(S) /\ Len(s \o t) = Len(s) + Len(t)
OBVIOUS

LEMMA SameFunction ==
  ASSUME NEW S, NEW T, NEW f \in [S -> T], NEW g \in [S -> T],
         \A x \in S : f[x] = g[x]
  PROVE  f = g
OBVIOUS

\* What a call of add is given.
LEMMA BatchIs ==
  ASSUME NEW vs \in Batches, NEW ls \in [DOMAIN vs -> Levels]
  PROVE  /\ vs \in Seq(Vector) /\ ls \in Seq(Nat) /\ Len(ls) = Len(vs)
         /\ Len(vs) \in Nat \ {0} /\ DOMAIN ls = DOMAIN vs
         /\ \E i \in DOMAIN ls : Max(Values(ls)) = ls[i]
<1>1. PICK v \in Vector, w \in Vector : vs = <<v>> \/ vs = <<v, w>>
  BY DEF Batches
<1>2. /\ vs \in Seq(Vector) /\ Len(vs) \in {1, 2} /\ DOMAIN vs = 1 .. Len(vs)
  <2>1. CASE vs = <<v>>
    BY <2>1
  <2>2. CASE vs = <<v, w>>
    BY <2>2
  <2>3. QED
    BY <1>1, <2>1, <2>2
<1>3. /\ ls \in Seq(Nat) /\ Len(ls) = Len(vs) /\ DOMAIN ls = DOMAIN vs
      /\ \A i \in DOMAIN ls : ls[i] \in Nat
  <2>1. PICK n \in {1, 2} : n = Len(vs)
    BY <1>2
  <2>2. ls \in [1 .. n -> Nat]
    BY <1>2, <2>1, BoundAssumption
  <2>3. ls \in Seq(Nat) /\ Len(ls) = n /\ DOMAIN ls = 1 .. n
    BY <2>2
  <2>4. QED
    BY <1>2, <2>1, <2>2, <2>3
<1>4. \E x \in Values(ls) : \A y \in Values(ls) : x >= y
  <2>1. CASE Len(vs) = 1
    <3>1. Values(ls) = {ls[1]} /\ ls[1] \in Nat
      BY <1>2, <1>3, <2>1 DEF Values
    <3>2. QED
      BY <3>1
  <2>2. CASE Len(vs) = 2
    <3>1. DOMAIN ls = {1, 2}
      BY <1>2, <1>3, <2>2
    <3>2. Values(ls) = {ls[1], ls[2]} /\ ls[1] \in Nat /\ ls[2] \in Nat
      BY <1>3, <3>1 DEF Values
    <3>3. QED
      BY <3>2
  <2>3. QED
    BY <1>2, <2>1, <2>2
<1>5. Max(Values(ls)) \in Values(ls)
  BY <1>4, Zenon DEF Max
<1>6. \E i \in DOMAIN ls : Max(Values(ls)) = ls[i]
  <2>1. \A x \in Values(ls) : \E i \in DOMAIN ls : x = ls[i]
    BY DEF Values
  <2>2. QED
    BY <1>5, <2>1, Zenon
<1>7. Len(vs) \in Nat \ {0}
  BY <1>2
<1>8. QED
  BY <1>2, <1>3, <1>6, <1>7

LEMMA WiderRange ==
  ASSUME NEW a \in Nat, NEW b \in Nat, NEW j \in 1 .. a
  PROVE  j \in 1 .. (a + b) /\ j <= a
OBVIOUS

LEMMA AddVectorsInv ==
  ASSUME IndexInv, NEW vs \in Batches, NEW ls \in [DOMAIN vs -> Levels],
         AddVectors(vs, ls)
  PROVE  IndexInv'
<1> DEFINE n0 == Len(xb)
           n == n0 + Len(vs)
<1>1. /\ vs \in Seq(Vector) /\ ls \in Seq(Nat) /\ Len(ls) = Len(vs)
      /\ Len(vs) \in Nat \ {0} /\ DOMAIN ls = DOMAIN vs
      /\ \E i \in DOMAIN ls : Max(Values(ls)) = ls[i]
  BY BatchIs
<1>2. /\ xb' = xb \o vs /\ reps' = Reps(n0, xb') /\ level' = level \o ls
      /\ links' \in Linked(n0, n)
      /\ origin' = [i \in DOMAIN xb' |-> IF i <= n0 THEN origin[i] ELSE i]
  BY DEF AddVectors
<1>3. /\ xb \in Seq(Vector) /\ reps \in Seq(Vector \cup {Zero})
      /\ level \in [DOMAIN xb -> Nat] /\ origin \in [DOMAIN xb -> DOMAIN xb]
      /\ n0 \in Nat /\ DOMAIN xb = 1 .. n0
  BY DEF IndexInv, IndexTypeOK
<1>4. /\ xb' \in Seq(Vector) /\ Len(xb') = n /\ DOMAIN xb' = 1 .. n /\ n \in Nat \ {0}
      /\ \A i \in 1 .. n : xb'[i] \in Vector /\ (i <= n0 => xb'[i] = xb[i])
  BY <1>1, <1>2, <1>3
<1>5. level' \in [DOMAIN xb' -> Nat]
  <2>1. level \in Seq(Nat) /\ Len(level) = n0
    BY <1>3
  <2>2. level' \in Seq(Nat) /\ Len(level') = n
    <3>1. level \o ls \in Seq(Nat) /\ Len(level \o ls) = Len(level) + Len(ls)
      BY <1>1, <2>1, ConcatIs
    <3>2. QED
      BY <1>1, <1>2, <2>1, <3>1
  <2>3. QED
    BY <1>4, <2>2
<1>6. links' \in [DOMAIN xb' -> SUBSET DOMAIN xb']
  BY <1>2, <1>4 DEF Linked
<1>7. reps' \in Seq(Vector \cup {Zero})
  <2>1. \A i \in 1 .. n : i <= Len(reps) => reps[i] \in Vector \cup {Zero}
    BY <1>3
  <2>2. reps' \in [1 .. n -> Vector \cup {Zero}]
    BY <1>2, <1>4, <2>1 DEF Reps
  <2>3. QED
    BY <1>4, <2>2
<1>8. RepsInStep' /\ origin' \in [DOMAIN xb' -> DOMAIN xb']
  <2>1. DOMAIN reps' = 1 .. n /\ Len(reps') = n
    BY <1>2, <1>4, <1>7 DEF Reps
  <2>2. ASSUME NEW i \in 1 .. n
        PROVE  origin'[i] \in 1 .. n /\ reps'[origin'[i]] = xb'[i]
    <3>1. CASE i <= n0
      <4>1. i \in 1 .. n0
        BY <1>3, <3>1
      <4>2. origin[i] \in 1 .. n0
        BY <1>3, <4>1
      <4>3. origin'[i] = origin[i]
        BY <1>2, <1>4, <3>1
      <4>4. xb # <<>>
        BY <1>3, <4>1
      <4>5. Len(reps) = n0 /\ reps[origin[i]] = xb[i]
        BY <1>3, <4>1, <4>4 DEF IndexInv, RepsInStep
      <4>6. PICK slot \in 1 .. n0 : slot = origin[i]
        BY <4>2
      <4>7. slot \in 1 .. n /\ slot <= n0
        BY <1>1, <1>3, WiderRange
      <4>8. reps'[slot] = reps[slot]
        <5>1. slot <= n0 /\ ~(slot > n0) /\ slot <= Len(reps)
          BY <1>3, <4>5, <4>7
        <5>2. reps'[slot] = IF slot > n0 THEN xb'[slot]
                            ELSE IF slot <= Len(reps) THEN reps[slot] ELSE Zero
          BY <1>2, <1>4, <4>7 DEF Reps
        <5>3. QED
          BY <5>1, <5>2
      <4>9. xb'[i] = xb[i]
        BY <1>4, <3>1
      <4>10. QED
        BY <4>3, <4>5, <4>6, <4>7, <4>8, <4>9
    <3>2. CASE ~(i <= n0)
      <4>1. origin'[i] = i
        BY <1>2, <1>4, <3>2
      <4>2. i > n0
        BY <1>3, <3>2
      <4>3. reps'[i] = xb'[i]
        BY <1>2, <1>4, <4>2 DEF Reps
      <4>4. QED
        BY <4>1, <4>3
    <3>3. QED
      BY <3>1, <3>2
  <2>3. origin' \in [DOMAIN xb' -> DOMAIN xb']
    BY <1>2, <1>4, <2>2
  <2>4. QED
    BY <1>4, <2>1, <2>2, <2>3 DEF RepsInStep
<1>9. entry' \in DOMAIN xb'
  <2>1. CASE Max(Values(ls)) > TopLevel
    <3>1. PICK i \in DOMAIN ls : entry' = n0 + i
      BY <2>1 DEF AddVectors
    <3>2. QED
      BY <1>1, <1>3, <1>4, <3>1
  <2>2. CASE ~(Max(Values(ls)) > TopLevel)
    <3>1. entry' = entry
      BY <2>2 DEF AddVectors
    <3>2. xb # <<>>
      <4> SUFFICES ASSUME xb = <<>> PROVE FALSE
        OBVIOUS
      <4>1. TopLevel = -1
        BY DEF IndexInv, NoEntry, TopLevel
      <4>2. Max(Values(ls)) \in Nat
        BY <1>1
      <4>3. QED
        BY <2>2, <4>1, <4>2
    <3>3. entry \in 1 .. n0
      BY <1>3, <3>2 DEF IndexInv, EntryOK
    <3>4. QED
      BY <1>1, <1>3, <1>4, <3>1, <3>3
  <2>3. QED
    BY <2>1, <2>2
<1>10. xb' # <<>>
  BY <1>4
<1>11. QED
  BY <1>2, <1>3, <1>4, <1>5, <1>6, <1>7, <1>8, <1>9, <1>10
     DEF IndexInv, IndexTypeOK, EntryOK, NoEntry

\* A permutation reaches every id, and no two ids lead to one.
LEMMA PermIs ==
  ASSUME IndexTypeOK, NEW p \in Perms
  PROVE  /\ p \in [DOMAIN xb -> DOMAIN xb]
         /\ \A j \in DOMAIN xb : \E i \in DOMAIN xb : p[i] = j
         /\ \A i, j \in DOMAIN xb : p[i] = p[j] => i = j
<1>1. p \in [DOMAIN xb -> DOMAIN xb] /\ Values(p) = DOMAIN xb
  BY DEF Perms
<1>2. \A j \in DOMAIN xb : \E i \in DOMAIN xb : p[i] = j
  BY <1>1 DEF Values
<1>3. p \in Surjection(DOMAIN xb, DOMAIN xb)
  BY <1>1, <1>2 DEF Surjection
<1>4. IsFiniteSet(DOMAIN xb)
  <2>1. DOMAIN xb = 1 .. Len(xb) /\ Len(xb) \in Nat
    BY DEF IndexTypeOK
  <2>2. QED
    BY <2>1, FS_Interval
<1>5. p \in Injection(DOMAIN xb, DOMAIN xb)
  BY <1>3, <1>4, FS_SurjSameCardinalityImpliesInj
<1>6. QED
  BY <1>1, <1>2, <1>5 DEF Injection, IsInjective

LEMMA PermuteInv ==
  ASSUME IndexInv, xb # <<>>, NEW p \in Perms, Permute(p)
  PROVE  IndexInv'
<1>1. /\ xb' = [i \in DOMAIN xb |-> xb[p[i]]]
      /\ level' = [i \in DOMAIN xb |-> level[p[i]]]
      /\ links' = [i \in DOMAIN xb |-> Renamed(p, links[p[i]])]
      /\ entry' = CHOOSE i \in DOMAIN xb : p[i] = entry
      /\ origin' = [i \in DOMAIN xb |-> origin[p[i]]] /\ reps' = reps
  BY DEF Permute
<1>2. /\ p \in [DOMAIN xb -> DOMAIN xb]
      /\ \A j \in DOMAIN xb : \E i \in DOMAIN xb : p[i] = j
  BY PermIs DEF IndexInv
<1>3. /\ DOMAIN xb = 1 .. Len(xb) /\ Len(xb) \in Nat \ {0}
      /\ xb \in [DOMAIN xb -> Vector]
      /\ level \in [DOMAIN xb -> Nat] /\ links \in [DOMAIN xb -> SUBSET DOMAIN xb]
      /\ reps \in Seq(Vector \cup {Zero}) /\ entry \in DOMAIN xb
  BY DEF IndexInv, IndexTypeOK, EntryOK
<1>4. xb' \in [DOMAIN xb -> Vector] /\ DOMAIN xb' = DOMAIN xb
  BY <1>1, <1>2, <1>3
<1>5. xb' \in Seq(Vector) /\ xb' # <<>>
  <2>1. PICK m \in Nat \ {0} : m = Len(xb)
    BY <1>3
  <2>2. xb' \in [1 .. m -> Vector]
    BY <1>3, <1>4, <2>1
  <2>3. QED
    BY <2>2
<1>6. /\ level' \in [DOMAIN xb' -> Nat]
      /\ links' \in [DOMAIN xb' -> SUBSET DOMAIN xb']
  BY <1>1, <1>2, <1>3, <1>4 DEF Renamed
<1>7. entry' \in DOMAIN xb'
  BY <1>1, <1>2, <1>3, <1>4
<1>8. origin' \in [DOMAIN xb' -> DOMAIN xb']
  BY <1>1, <1>2, <1>4 DEF IndexInv, IndexTypeOK
<1>9. RepsInStep'
  <2>1. Len(reps') = Len(xb) /\ \A i \in DOMAIN xb : reps[origin[i]] = xb[i]
    BY <1>1, <1>3 DEF IndexInv, RepsInStep
  <2>2. Len(xb') = Len(xb)
    BY <1>3, <1>4, <1>5
  <2>3. \A i \in DOMAIN xb' : reps'[origin'[i]] = xb'[i]
    BY <1>1, <1>2, <1>4, <2>1
  <2>4. QED
    BY <2>1, <2>2, <2>3 DEF RepsInStep
<1>10. QED
  BY <1>1, <1>3, <1>5, <1>6, <1>7, <1>8, <1>9
     DEF IndexInv, IndexTypeOK, EntryOK, NoEntry

LEMMA IndexStepInv == IndexInv /\ [IndexNext]_indexVars => IndexInv'
<1> SUFFICES ASSUME IndexInv, [IndexNext]_indexVars PROVE IndexInv'
  OBVIOUS
<1>1. CASE \E vs \in Batches : \E ls \in [DOMAIN vs -> Levels] : AddVectors(vs, ls)
  BY <1>1, AddVectorsInv
<1>2. CASE Reset
  <2>1. /\ xb' = <<>> /\ level' = <<>> /\ links' = <<>> /\ entry' = NoOne
        /\ origin' = <<>> /\ reps' = reps /\ reps \in Seq(Vector \cup {Zero})
    BY <1>2 DEF Reset, IndexInv, IndexTypeOK
  <2>2. xb' \in Seq(Vector) /\ DOMAIN xb' = {}
    BY <2>1
  <2>3. level' \in [DOMAIN xb' -> Nat] /\ links' \in [DOMAIN xb' -> SUBSET DOMAIN xb']
        /\ origin' \in [DOMAIN xb' -> DOMAIN xb']
    BY <2>1
  <2>4. QED
    BY <2>1, <2>2, <2>3 DEF IndexInv, IndexTypeOK, EntryOK, NoEntry, RepsInStep
<1>3. CASE xb # <<>> /\ \E p \in Perms : Permute(p)
  BY <1>3, PermuteInv
<1>4. CASE BuildShortcut
  <2>1. /\ xb' = xb /\ level' = level /\ links' = links /\ entry' = entry
        /\ reps' = IF reps = <<>> THEN xb ELSE reps
        /\ origin' = IF reps = <<>> THEN [i \in DOMAIN xb |-> i] ELSE origin
        /\ xb # <<>>
    BY <1>4 DEF BuildShortcut, hnsw
  <2>2. xb \in Seq(Vector \cup {Zero})
    BY DEF IndexInv, IndexTypeOK
  <2>3. reps' \in Seq(Vector \cup {Zero})
    BY <2>1, <2>2 DEF IndexInv, IndexTypeOK
  <2>4. reps # <<>>
    <3>1. Len(xb) # 0 /\ Len(reps) = Len(xb)
      BY <2>1 DEF IndexInv, IndexTypeOK, RepsInStep
    <3>2. QED
      BY <3>1
  <2>5. QED
    BY <2>1, <2>3, <2>4 DEF IndexInv, IndexTypeOK, EntryOK, NoEntry, RepsInStep
<1>5. CASE UNCHANGED indexVars
  BY <1>5 DEF indexVars, IndexInv, IndexTypeOK, EntryOK, NoEntry, RepsInStep
<1>6. QED
  BY <1>1, <1>2, <1>3, <1>4, <1>5 DEF IndexNext

LEMMA IndexAlwaysInv == IndexSpec => []IndexInv
BY IndexInitInv, IndexStepInv, PTL DEF IndexSpec

\* Each stored vector has its own compressed vector, in the slot of the number
\* it was added under, through any adds, resets, trainings and permutations.
THEOREM RepsAlwaysInStep == IndexSpec => []RepsInStep
<1>1. IndexInv => RepsInStep
  BY DEF IndexInv
<1>2. QED
  BY <1>1, IndexAlwaysInv, PTL

\* A permutation of the ids renames links, levels and the entry point alike.
LEMMA PermuteKeeps ==
  ASSUME IndexInv, xb # <<>>, NEW p \in Perms, Permute(p)
  PROVE  GraphOnVectors' = GraphOnVectors
<1>1. /\ xb' = [i \in DOMAIN xb |-> xb[p[i]]]
      /\ level' = [i \in DOMAIN xb |-> level[p[i]]]
      /\ links' = [i \in DOMAIN xb |-> Renamed(p, links[p[i]])]
      /\ entry' = CHOOSE i \in DOMAIN xb : p[i] = entry
  BY DEF Permute
<1>2. /\ p \in [DOMAIN xb -> DOMAIN xb]
      /\ \A j \in DOMAIN xb : \E i \in DOMAIN xb : p[i] = j
  BY PermIs DEF IndexInv
<1>3. links \in [DOMAIN xb -> SUBSET DOMAIN xb] /\ entry \in DOMAIN xb
  BY DEF IndexInv, IndexTypeOK, EntryOK
<1>4. DOMAIN xb' = DOMAIN xb
  BY <1>1
<1> DEFINE E == UNION {{<<xb[i], xb[j]>> : j \in links[i]} : i \in DOMAIN xb}
           L == {<<xb[i], level[i]>> : i \in DOMAIN xb}
<1>5. ASSUME NEW i \in DOMAIN xb, NEW j \in links'[i]
      PROVE  \E a \in DOMAIN xb : \E b \in links[a] : xb'[i] = xb[a] /\ xb'[j] = xb[b]
  <2>1. j \in DOMAIN xb /\ p[j] \in links[p[i]] /\ p[i] \in DOMAIN xb
    BY <1>1, <1>2 DEF Renamed
  <2>2. xb'[i] = xb[p[i]] /\ xb'[j] = xb[p[j]]
    BY <1>1, <2>1
  <2>3. QED
    BY <2>1, <2>2
<1>6. ASSUME NEW a \in DOMAIN xb, NEW b \in links[a]
      PROVE  \E i \in DOMAIN xb : \E j \in links'[i] : xb'[i] = xb[a] /\ xb'[j] = xb[b]
  <2>1. b \in DOMAIN xb
    BY <1>3
  <2>2. PICK i \in DOMAIN xb : p[i] = a
    BY <1>2
  <2>3. PICK j \in DOMAIN xb : p[j] = b
    BY <1>2, <2>1
  <2>4. j \in links'[i]
    BY <1>1, <1>2, <2>2, <2>3 DEF Renamed
  <2>5. xb'[i] = xb[a] /\ xb'[j] = xb[b]
    BY <1>1, <2>2, <2>3
  <2>6. QED
    BY <2>4, <2>5
<1>7. E' = E
  <2>1. E' \subseteq E
    BY <1>4, <1>5
  <2>2. E \subseteq E'
    BY <1>4, <1>6
  <2>3. QED
    BY <2>1, <2>2
<1>8. L' = L
  <2>1. \A i \in DOMAIN xb : xb'[i] = xb[p[i]] /\ level'[i] = level[p[i]]
    BY <1>1
  <2>2. L' \subseteq L
    BY <1>2, <1>4, <2>1
  <2>3. L \subseteq L'
    BY <1>2, <1>4, <2>1
  <2>4. QED
    BY <2>2, <2>3
<1>9. xb'[entry'] = xb[entry]
  <2>1. entry' \in DOMAIN xb /\ p[entry'] = entry
    BY <1>1, <1>2, <1>3
  <2>2. QED
    BY <1>1, <2>1
<1> HIDE DEF E, L
<1>10. GraphOnVectors = [edges |-> E, level |-> L, entry |-> xb[entry]]
  BY DEF GraphOnVectors, E, L
<1>11. GraphOnVectors' = [edges |-> E', level |-> L', entry |-> xb'[entry']]
  BY DEF GraphOnVectors, E, L
<1>12. QED
  BY <1>7, <1>8, <1>9, <1>10, <1>11

\* permute_entries renames the nodes and changes nothing else, whatever the
\* graph, the levels and the permutation are.
THEOREM PermuteAlwaysKeepsGraph == IndexSpec => PermuteKeepsGraph
<1>1. IndexInv => GraphKept
  BY PermuteKeeps DEF GraphKept
<1>2. QED
  BY <1>1, IndexAlwaysInv, PTL DEF PermuteKeepsGraph, IndexSpec
=============================================================================
