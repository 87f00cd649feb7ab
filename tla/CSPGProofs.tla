---------------------------- MODULE CSPGProofs ----------------------------
(***************************************************************************)
(* Stage 2 of a CSPG query, for any partitions, graphs, routing vectors,   *)
(* distances and widths of the beam; and the split of the vectors that     *)
(* IndexCSPG makes of any vectors, for any sample and any deal.            *)
(***************************************************************************)
EXTENDS CSPGSearch, CSPGIndex, FiniteSetTheorems, WellFoundedInduction, TLAPS

\* Every copy of g was marked.
Everywhere(g) == \A p \in Part : g \in Member(p) => g \in visited[p]

\* A result is what it says, and all of its copies are marked.
ResultsMarked ==
  \A x \in top : x.g \in Member(x.p) /\ x.d = dist[x.g] /\ Everywhere(x.g)

\* So are the copies in the pool and those on their way to it ...
PoolMarked ==
  /\ \A x \in pool : x.d = dist[x.id[2]] /\ Everywhere(x.id[2])
  /\ \A j \in DOMAIN pushes : Everywhere(pushes[j][2])

\* ... and each of them is pushed once.
PushedOnce ==
  /\ \A x, y \in pool : x.id = y.id => x = y
  /\ \A x \in pool, j \in DOMAIN pushes : x.id # pushes[j]
  /\ \A i, j \in DOMAIN pushes : pushes[i] = pushes[j] => i = j

Sizes ==
  /\ IsFiniteSet(top) /\ Cardinality(top) <= ef
  /\ IsFiniteSet(pool)

\* Before the seed there is nothing, after the end nothing is left to do.
Phases ==
  /\ pc = "seed" => /\ top = {} /\ pool = {} /\ pushes = <<>> /\ todo = <<>>
                    /\ lost = {} /\ \A p \in Part : visited[p] = {}
  /\ pc = "done" => pushes = <<>> /\ todo = <<>>

\* Every neighbour of g in partition p was looked at or will be.
Followed(p, g) ==
  \A j \in DOMAIN nbrs[p][g] :
    \/ nbrs[p][g][j] \in visited[p]
    \/ cur = p /\ \E i \in DOMAIN todo : todo[i] = nbrs[p][g][j]

\* A copy of a result is on its way to the pool, waits in it, was expanded, or
\* need not be.
Covered(p, g) ==
  \/ \E j \in DOMAIN pushes : pushes[j] = <<p, g>>
  \/ \E y \in pool : y.id = <<p, g>> /\ y.live
  \/ Followed(p, g)
  \/ TooFar(dist[g])

CopiesCovered ==
  \A x \in top, p \in Part : x.g \in Member(p) => Covered(p, x.g)

Inv ==
  /\ TypeOK /\ Phases /\ Sizes
  /\ ResultsMarked /\ PoolMarked /\ PushedOnce
  /\ EachVectorOnce /\ BestOfSeen /\ PoolSuffices
  /\ CopiesCovered /\ AllGraphsSearched

----------------------------------------------------------------------------
\* A finite set of records has one whose d is largest.
LEMMA LargestExists ==
  ASSUME NEW S, IsFiniteSet(S), S # {}, \A x \in S : x.d \in Nat
  PROVE  \E x \in S : \A y \in S : y.d <= x.d
<1> DEFINE Above(x) == {y \in S : y.d > x.d}
           T == {Above(x) : x \in S}
<1>1. IsWellFoundedOn(StrictSubsetOrdering(S), SUBSET S)
  BY FS_StrictSubsetOrderingWellFounded, FS_FiniteSubsetsOfFinite
<1>2. T \subseteq SUBSET S /\ T # {}
  OBVIOUS
<1>3. PICK U \in T : \A V \in T : <<V, U>> \notin StrictSubsetOrdering(S)
  BY <1>1, <1>2, WFMin, Zenon
<1>4. PICK x \in S : U = Above(x)
  OBVIOUS
<1>5. ASSUME NEW y \in S, y.d > x.d
      PROVE  FALSE
  <2>1. Above(y) \subseteq Above(x) /\ y \in Above(x) /\ y \notin Above(y)
    BY <1>5
  <2>2. <<Above(y), Above(x)>> \in StrictSubsetOrdering(S)
    BY <2>1 DEF StrictSubsetOrdering
  <2>3. QED
    BY <1>3, <1>4, <2>2
<1>6. QED
  BY <1>5

\* Being at least as far as the worst is being at least as far as all.
LEMMA WorstBounds ==
  ASSUME NEW S, IsFiniteSet(S), S # {}, \A x \in S : x.d \in Nat, NEW d \in Nat
  PROVE  (\E x \in {x \in S : \A y \in S : y.d <= x.d} : d >= x.d)
           <=> \A y \in S : d >= y.d
<1>1. PICK x \in S : \A y \in S : y.d <= x.d
  BY LargestExists
<1>2. QED
  BY <1>1

\* What is marked when vector g is accepted in partition p.
LEMMA MarkedIs ==
  ASSUME TypeOK, NEW p \in Part, NEW g \in Member(p), visited' = Marked(g, p)
  PROVE  /\ visited' \in [Part -> SUBSET Gid]
         /\ Everywhere(g)'
         /\ \A q \in Part : visited[q] \subseteq visited'[q]
         /\ \A q \in Part : visited'[q] \subseteq visited[q] \cup {g}
<1>1. Member(p) \subseteq Gid
  BY GidAssumption DEF Member
<1>2. \A q \in Part : g \in Member(q) => q = p \/ g \in Routing
  BY DEF Member
<1>3. QED
  BY <1>1, <1>2 DEF TypeOK, Marked, Everywhere

\* The copies of a vector: all in partitions that have it, no two the same.
LEMMA CopiesAre ==
  ASSUME NEW p \in Part, NEW g \in Member(p)
  PROVE  /\ Copies(g, p) \in Seq(Copy)
         /\ \A j \in DOMAIN Copies(g, p) : Copies(g, p)[j][2] = g
         /\ \A i, j \in DOMAIN Copies(g, p) :
              Copies(g, p)[i] = Copies(g, p)[j] => i = j
         /\ \A q \in Part : g \in Member(q) =>
              \E j \in DOMAIN Copies(g, p) : Copies(g, p)[j] = <<q, g>>
<1>1. p \in Int /\ NP \in Nat \ {0} /\ p >= 0 /\ p < NP
  BY NPAssumption DEF Part
<1>2. g \in Gid
  BY GidAssumption DEF Member
<1>3. CASE g \notin Routing
  <2>1. Copies(g, p) = <<<<p, g>>>> /\ <<p, g>> \in Copy
    BY <1>2, <1>3 DEF Copies, Copy
  <2>2. \A q \in Part : g \in Member(q) => q = p
    BY <1>3 DEF Member
  <2>3. QED
    BY <2>1, <2>2
<1>4. CASE g \in Routing
  <2> DEFINE At(j) == IF j = 1 THEN p ELSE IF j - 2 < p THEN j - 2 ELSE j - 1
  <2>1. \A j \in 1 .. NP : At(j) \in Part
    BY <1>1 DEF Part
  <2>2. \A i, j \in 1 .. NP : At(i) = At(j) => i = j
    BY <1>1
  <2>3. \A q \in Part : \E j \in 1 .. NP : At(j) = q
    <3> SUFFICES ASSUME NEW q \in Part PROVE \E j \in 1 .. NP : At(j) = q
      OBVIOUS
    <3>1. CASE q = p
      BY <1>1, <3>1
    <3>2. CASE q < p
      <4>1. q + 2 \in 1 .. NP /\ At(q + 2) = q
        BY <1>1, <3>2 DEF Part
      <4>2. QED
        BY <4>1
    <3>3. CASE q > p
      <4>1. q + 1 \in 1 .. NP /\ At(q + 1) = q
        BY <1>1, <3>3 DEF Part
      <4>2. QED
        BY <4>1
    <3>4. QED
      BY <1>1, <3>1, <3>2, <3>3 DEF Part
  <2>4. Copies(g, p) = [j \in 1 .. NP |-> <<At(j), g>>]
    BY <1>4, Zenon DEF Copies
  <2>5. \A q \in Part : <<q, g>> \in Copy
    BY <1>2, <1>4 DEF Copy, Member
  <2> HIDE DEF At
  <2>6. /\ DOMAIN Copies(g, p) = 1 .. NP
        /\ \A j \in 1 .. NP : Copies(g, p)[j] = <<At(j), g>>
    BY <2>4
  <2>7. Copies(g, p) \in [1 .. NP -> Copy]
    BY <2>1, <2>4, <2>5
  <2>8. Copies(g, p) \in Seq(Copy)
    BY <1>1, <2>7
  <2>9. ASSUME NEW i \in 1 .. NP, NEW j \in 1 .. NP,
               Copies(g, p)[i] = Copies(g, p)[j]
        PROVE  i = j
    <3>1. <<At(i), g>> = <<At(j), g>>
      BY <2>6, <2>9
    <3>2. QED
      BY <2>2, <3>1
  <2>10. \A q \in Part : \E j \in 1 .. NP : Copies(g, p)[j] = <<q, g>>
    <3>1. ASSUME NEW q \in Part PROVE \E j \in 1 .. NP : Copies(g, p)[j] = <<q, g>>
      <4>1. PICK j \in 1 .. NP : At(j) = q
        BY <2>3
      <4>2. QED
        BY <2>6, <4>1
    <3>2. QED
      BY <3>1
  <2>11. QED
    BY <2>6, <2>8, <2>9, <2>10
<1>5. QED
  BY <1>3, <1>4

----------------------------------------------------------------------------
\* What accepting a vector does to the results: they stay at most ef, the
\* vector is new among them, and what was too far before, or goes, is too far.
LEMMA AcceptResults ==
  ASSUME Inv, NEW g \in Member(cur), Accept(g)
  PROVE  /\ top' \in SUBSET [g : Gid, p : Part, d : Nat]
         /\ IsFiniteSet(top') /\ Cardinality(top') <= ef
         /\ \A x \in top : x.g # g
         /\ Result(g, cur) \in top' /\ top' \subseteq top \cup {Result(g, cur)}
         /\ \A d \in Nat : TooFar(d) => TooFar(d)'
         /\ \A x \in top \ top' : TooFar(x.d)'
<1> DEFINE r == Result(g, cur)
<1>1. /\ dist \in [Gid -> Nat] /\ ef \in Nat \ {0} /\ ef' = ef
      /\ cur \in Part /\ g \in Gid
  BY DistsAssumption, EfsAssumption, GidAssumption
     DEF Inv, TypeOK, InputOK, Accept, input, Member
<1>2. r \in [g : Gid, p : Part, d : Nat] /\ r.g = g /\ r.d = dist[g]
  BY <1>1 DEF Result
<1>3. top \in SUBSET [g : Gid, p : Part, d : Nat]
  BY DEF Inv, TypeOK
<1>4. IsFiniteSet(top) /\ Cardinality(top) \in Nat /\ Cardinality(top) <= ef
  BY FS_CardinalityType DEF Inv, Sizes
<1>5. \A x \in top : x.g # g
  BY DEF Inv, ResultsMarked, Everywhere, Accept, TypeOK
<1>6. r \notin top
  BY <1>2, <1>5
<1>7. CASE ~Full
  <2>1. top' = top \cup {r}
    BY <1>7 DEF Accept
  <2>2. IsFiniteSet(top') /\ Cardinality(top') = Cardinality(top) + 1
    BY <1>4, <1>6, <2>1, FS_AddElement
  <2>3. Cardinality(top') <= ef
    BY <1>1, <1>4, <1>7, <2>2 DEF Full
  <2>4. \A d : ~TooFar(d)
    BY <1>7 DEF TooFar
  <2>5. top \ top' = {}
    BY <2>1
  <2> HIDE DEF r
  <2>6. QED
    BY <1>2, <1>3, <1>5, <2>1, <2>2, <2>3, <2>4, <2>5 DEF r
<1>8. CASE Full
  <2>1. PICK x \in Worst : top' = (top \ {x}) \cup {r}
    BY <1>8 DEF Accept, Expellable
  <2>2. x \in top /\ \A y \in top : y.d <= x.d
    BY <2>1 DEF Worst
  <2>3. dist[g] < x.d
    <3>1. ~AtLeastWorst(dist[g])
      BY <1>8 DEF Accept, TooFar
    <3>2. ~(dist[g] >= x.d)
      BY <2>1, <3>1 DEF AtLeastWorst
    <3>3. QED
      BY <1>1, <1>3, <2>2, <3>2
  <2>4. IsFiniteSet(top') /\ Cardinality(top') = Cardinality(top)
    <3>1. IsFiniteSet(top \ {x}) /\ Cardinality(top \ {x}) = Cardinality(top) - 1
      BY <1>4, <2>2, FS_RemoveElement
    <3>2. r \notin top \ {x}
      BY <1>6
    <3>3. Cardinality(top') = Cardinality(top \ {x}) + 1 /\ IsFiniteSet(top')
      BY <2>1, <3>1, <3>2, FS_AddElement
    <3>4. QED
      BY <1>4, <3>1, <3>3
  <2>5. Full'
    BY <1>1, <1>8, <2>4 DEF Full
  <2>6. top' # {} /\ top # {} /\ top' \in SUBSET [g : Gid, p : Part, d : Nat]
    BY <1>2, <1>3, <2>1, <2>2
  <2>7. \A y \in top' : y.d <= x.d
    BY <1>1, <1>2, <1>3, <2>1, <2>2, <2>3
  <2>8. ASSUME NEW d \in Nat, d >= x.d
        PROVE  TooFar(d)'
    <3>1. \A y \in top' : y.d \in Nat /\ d >= y.d
      BY <1>3, <2>2, <2>6, <2>7, <2>8
    <3>2. AtLeastWorst(d)'
      BY <2>4, <2>6, <3>1, WorstBounds DEF AtLeastWorst, Worst
    <3>3. QED
      BY <2>5, <3>2 DEF TooFar
  <2>9. ASSUME NEW d \in Nat, TooFar(d)
        PROVE  d >= x.d
    BY <1>3, <2>2, <2>9 DEF TooFar, AtLeastWorst, Worst
  <2>10. \A d \in Nat : TooFar(d) => TooFar(d)'
    BY <2>8, <2>9
  <2>11. \A y \in top \ top' : TooFar(y.d)'
    <3>1. \A y \in top \ top' : y = x
      BY <2>1
    <3>2. x.d \in Nat /\ x.d >= x.d
      BY <1>3, <2>2
    <3>3. QED
      BY <2>8, <3>1, <3>2
  <2> HIDE DEF r
  <2>12. QED
    BY <1>4, <1>5, <2>1, <2>4, <2>6, <2>10, <2>11 DEF r
<1>9. QED
  BY <1>7, <1>8

LEMMA FactorGoes ==
  ASSUME NEW a \in Nat, NEW b \in Nat, NEW n \in Nat \ {0}, a * n <= n * b
  PROVE  a <= b
<1> SUFFICES ASSUME a >= b + 1 PROVE FALSE
  OBVIOUS
<1>1. a * n >= (b + 1) * n
  OBVIOUS
<1>2. QED
  BY <1>1

\* The pool has NP places for each of ef vectors.  When it is full, either a
\* vector in it is no result any more, or the ef results fill it with their
\* copies: whatever is as far as all of the pool is too far.
LEMMA FullPool ==
  ASSUME Inv, NEW d \in Nat, Cardinality(pool) >= Cap, \A x \in pool : x.d <= d
  PROVE  TooFar(d)
<1>1. /\ dist \in [Gid -> Nat] /\ ef \in Nat \ {0} /\ NP \in Nat \ {0}
      /\ pool \in SUBSET [id : Copy, d : Nat, live : BOOLEAN]
      /\ top \in SUBSET [g : Gid, p : Part, d : Nat]
  BY DistsAssumption, EfsAssumption, NPAssumption DEF Inv, TypeOK, InputOK
<1>2. /\ IsFiniteSet(top) /\ Cardinality(top) \in Nat /\ Cardinality(top) <= ef
      /\ IsFiniteSet(pool) /\ Cardinality(pool) \in Nat
  BY FS_CardinalityType DEF Inv, Sizes
<1>3. CASE \E x \in pool : \A y \in top : y.g # x.id[2]
  <2>1. PICK x \in pool : \A y \in top : y.g # x.id[2]
    BY <1>3
  <2>2. x.id \in Copy /\ x.d \in Nat /\ x.d = dist[x.id[2]] /\ Everywhere(x.id[2])
    BY <1>1 DEF Inv, PoolMarked
  <2>3. x.id[1] \in Part /\ x.id[2] \in visited[x.id[1]]
    BY <2>2 DEF Copy, Everywhere
  <2>4. TooFar(x.d)
    BY <2>1, <2>2, <2>3 DEF Inv, BestOfSeen
  <2>5. QED
    BY <1>1, <2>2, <2>4 DEF TooFar, AtLeastWorst, Worst
<1>4. CASE \A x \in pool : \E y \in top : y.g = x.id[2]
  <2> DEFINE f == [x \in pool |-> <<x.id[1], CHOOSE y \in top : y.g = x.id[2]>>]
  <2>1. \A x \in pool : /\ x.id \in Part \X Gid /\ f[x][1] = x.id[1]
                        /\ f[x][2] \in top /\ f[x][2].g = x.id[2]
                        /\ f[x] \in Part \X top
    BY <1>1, <1>4 DEF Copy
  <2>2. f \in Injection(pool, Part \X top)
    <3>1. f \in [pool -> Part \X top]
      BY <2>1
    <3>2. ASSUME NEW x \in pool, NEW z \in pool, f[x] = f[z]
          PROVE  x = z
      <4>1. x.id = z.id
        BY <2>1, <3>2
      <4>2. QED
        BY <4>1 DEF Inv, PushedOnce
    <3> HIDE DEF f
    <3>3. QED
      BY <3>1, <3>2 DEF Injection, IsInjective
  <2> HIDE DEF f
  <2>3. /\ IsFiniteSet(Part \X top)
        /\ Cardinality(Part \X top) = NP * Cardinality(top)
    <3>1. IsFiniteSet(Part) /\ Cardinality(Part) = NP
      BY <1>1, FS_Interval DEF Part
    <3>2. QED
      BY <1>2, <3>1, FS_Product
  <2>4. /\ Cardinality(pool) <= NP * Cardinality(top)
        /\ Cardinality(pool) = NP * Cardinality(top) => f \in Surjection(pool, Part \X top)
    BY <2>2, <2>3, FS_Injection
  <2>5. Cardinality(top) = ef
    <3>1. ef * NP <= NP * Cardinality(top)
      BY <1>1, <1>2, <2>4 DEF Cap
    <3>2. ef <= Cardinality(top)
      BY <1>1, <1>2, <3>1, FactorGoes
    <3>3. QED
      BY <1>1, <1>2, <3>2
  <2>6. f \in Surjection(pool, Part \X top)
    BY <1>1, <1>2, <2>4, <2>5 DEF Cap
  <2>7. ASSUME NEW y \in top
        PROVE  y.d \in Nat /\ d >= y.d
    <3>1. <<0, y>> \in Part \X top
      BY <1>1 DEF Part
    <3>2. PICK x \in pool : f[x] = <<0, y>>
      BY <2>6, <3>1 DEF Surjection
    <3>3. y.g = x.id[2] /\ y.d = dist[y.g] /\ x.d = dist[x.id[2]]
      BY <2>1, <3>2 DEF Inv, ResultsMarked, PoolMarked
    <3>4. QED
      BY <1>1, <3>3
  <2>8. top # {}
    BY <1>1, <2>5, FS_EmptySet
  <2>9. AtLeastWorst(d)
    BY <1>2, <2>7, <2>8, WorstBounds DEF AtLeastWorst, Worst
  <2>10. QED
    BY <1>1, <2>5, <2>9 DEF TooFar, Full
<1>5. QED
  BY <1>3, <1>4

LEMMA TailIs ==
  ASSUME NEW S, NEW s \in Seq(S), s # <<>>
  PROVE  /\ Head(s) \in S /\ 1 \in DOMAIN s /\ Head(s) = s[1]
         /\ Tail(s) \in Seq(S)
         /\ \A j \in DOMAIN Tail(s) : j + 1 \in DOMAIN s /\ Tail(s)[j] = s[j + 1]
         /\ \A j \in DOMAIN s : j = 1 \/ (j - 1 \in DOMAIN Tail(s) /\ Tail(s)[j - 1] = s[j])
OBVIOUS

----------------------------------------------------------------------------
LEMMA InitInv == Init => Inv
<1> SUFFICES ASSUME Init PROVE Inv
  OBVIOUS
<1>1. TypeOK
  BY NPAssumption DEF Init, TypeOK, Part
<1>2. ef \in Nat \ {0}
  BY EfsAssumption DEF Init, InputOK
<1>3. Sizes
  BY <1>2, FS_EmptySet DEF Init, Sizes
<1>4. Phases /\ ResultsMarked /\ PoolMarked /\ PushedOnce
  BY DEF Init, Phases, ResultsMarked, PoolMarked, PushedOnce
<1>5. EachVectorOnce /\ BestOfSeen /\ PoolSuffices /\ CopiesCovered /\ AllGraphsSearched
  BY DEF Init, EachVectorOnce, BestOfSeen, PoolSuffices, CopiesCovered, AllGraphsSearched
<1>6. QED
  BY <1>1, <1>3, <1>4, <1>5 DEF Inv

LEMMA SeedInv ==
  ASSUME Inv, NEW g \in Member(0), Seed(g)
  PROVE  Inv'
<1> DEFINE r == Result(g, 0)
<1>1. 0 \in Part /\ g \in Gid
  BY NPAssumption, GidAssumption DEF Part, Member
<1>2. /\ dist \in [Gid -> Nat] /\ ef \in Nat \ {0}
      /\ nbrs' = nbrs /\ dist' = dist /\ ef' = ef
      /\ pool' = pool /\ cur' = cur /\ todo' = todo /\ lost' = lost
      /\ pc' = "run" /\ top' = {r} /\ pushes' = Copies(g, 0)
  BY DistsAssumption, EfsAssumption DEF Inv, TypeOK, InputOK, Seed, input
<1>3. /\ pool = {} /\ todo = <<>> /\ lost = {}
      /\ \A p \in Part : visited[p] = {}
  BY DEF Inv, Phases, Seed
<1>4. /\ visited' \in [Part -> SUBSET Gid] /\ Everywhere(g)'
      /\ \A q \in Part : visited'[q] \subseteq {g}
  BY <1>1, <1>3, MarkedIs DEF Inv, Seed
<1>5. /\ Copies(g, 0) \in Seq(Copy)
      /\ \A j \in DOMAIN Copies(g, 0) : Copies(g, 0)[j][2] = g
      /\ \A i, j \in DOMAIN Copies(g, 0) : Copies(g, 0)[i] = Copies(g, 0)[j] => i = j
      /\ \A q \in Part : g \in Member(q) =>
           \E j \in DOMAIN Copies(g, 0) : Copies(g, 0)[j] = <<q, g>>
  BY <1>1, CopiesAre
<1>6. r \in [g : Gid, p : Part, d : Nat] /\ r.g = g /\ r.p = 0 /\ r.d = dist[g]
  BY <1>1, <1>2 DEF Result
<1> HIDE DEF r
<1>7. TypeOK'
  BY <1>2, <1>4, <1>5, <1>6 DEF Inv, TypeOK, InputOK
<1>8. Sizes'
  BY <1>2, FS_Singleton DEF Inv, Sizes
<1>9. Phases' /\ AllGraphsSearched'
  BY <1>2 DEF Phases, AllGraphsSearched
<1>10. ResultsMarked' /\ PoolMarked' /\ PushedOnce'
  BY <1>2, <1>3, <1>4, <1>5, <1>6 DEF ResultsMarked, PoolMarked, PushedOnce
<1>11. EachVectorOnce' /\ BestOfSeen' /\ PoolSuffices'
  BY <1>2, <1>3, <1>4, <1>6 DEF EachVectorOnce, BestOfSeen, PoolSuffices
<1>12. CopiesCovered'
  BY <1>2, <1>5, <1>6 DEF CopiesCovered, Covered
<1>13. QED
  BY <1>7, <1>8, <1>9, <1>10, <1>11, <1>12 DEF Inv

LEMMA SameCardinality == \A S : H!Cardinality(S) = Cardinality(S)
BY DEF H!Cardinality, Cardinality, H!IsFiniteSet, IsFiniteSet

\* What a push does to the pool: the candidate is the only new one, and what
\* is refused or thrown out is too far.
LEMMA PushPool ==
  ASSUME Inv, NEW c \in [id : Copy, d : Nat, live : BOOLEAN], c.live,
         NEW P \in H!Pushed(pool, Cap, c)
  PROVE  /\ IsFiniteSet(P) /\ P \subseteq pool \cup {c}
         /\ \A x \in (H!Live(pool) \cup {c}) \ P : TooFar(x.d)
<1>1. /\ IsFiniteSet(pool) /\ ef \in Nat /\ NP \in Nat
      /\ pool \in SUBSET [id : Copy, d : Nat, live : BOOLEAN]
  BY EfsAssumption, NPAssumption DEF Inv, Sizes, TypeOK, InputOK
<1>2. Cardinality(pool) \in Nat /\ Cap \in Nat
  BY <1>1, FS_CardinalityType DEF Cap
<1>3. CASE Cardinality(pool) < Cap
  <2>1. P = pool \cup {c}
    BY <1>3, SameCardinality DEF H!Pushed
  <2>2. QED
    BY <1>1, <2>1, FS_AddElement DEF H!Live
<1>4. CASE ~(Cardinality(pool) < Cap)
  <2>0. Cardinality(pool) >= Cap
    BY <1>2, <1>4
  <2>1. CASE \E x \in H!Farthest(pool) : c.d >= x.d
    <3>1. P = pool
      BY <1>4, <2>1, SameCardinality DEF H!Pushed
    <3>2. \A x \in pool : x.d <= c.d
      BY <1>1, <2>1 DEF H!Farthest
    <3>3. TooFar(c.d)
      BY <2>0, <3>2, FullPool
    <3>4. QED
      BY <1>1, <3>1, <3>3 DEF H!Live
  <2>2. CASE ~\E x \in H!Farthest(pool) : c.d >= x.d
    <3>1. PICK x \in H!Farthest(pool) : P = (pool \ {x}) \cup {c}
      BY <1>4, <2>2, SameCardinality DEF H!Pushed
    <3>2. x \in pool /\ x.d \in Nat /\ \A y \in pool : y.d <= x.d
      BY <1>1, <3>1 DEF H!Farthest
    <3>3. TooFar(x.d)
      BY <2>0, <3>2, FullPool
    <3>4. IsFiniteSet(P)
      BY <1>1, <3>1, FS_RemoveElement, FS_AddElement
    <3>5. QED
      BY <3>1, <3>2, <3>3, <3>4 DEF H!Live
  <2>3. QED
    BY <2>1, <2>2
<1>5. QED
  BY <1>3, <1>4

LEMMA PushInv == Inv /\ Push => Inv'
<1> SUFFICES ASSUME Inv, Push PROVE Inv'
  OBVIOUS
<1> DEFINE c == H!Candidate(Head(pushes), dist[Head(pushes)[2]])
<1>1. /\ dist \in [Gid -> Nat] /\ pushes # <<>> /\ pc = "run"
      /\ nbrs' = nbrs /\ dist' = dist /\ ef' = ef /\ visited' = visited
      /\ top' = top /\ cur' = cur /\ todo' = todo /\ pc' = pc
      /\ pushes' = Tail(pushes)
  BY DistsAssumption DEF Inv, TypeOK, InputOK, Push, input
<1>2. /\ pool' \in H!Pushed(pool, Cap, c)
      /\ lost' = lost \cup {x.d : x \in (H!Live(pool) \cup {c}) \ pool'}
  BY DEF Push
<1>3. /\ Head(pushes) \in Copy /\ 1 \in DOMAIN pushes /\ Head(pushes) = pushes[1]
      /\ Tail(pushes) \in Seq(Copy)
      /\ \A j \in DOMAIN Tail(pushes) :
           j + 1 \in DOMAIN pushes /\ Tail(pushes)[j] = pushes[j + 1]
      /\ \A j \in DOMAIN pushes :
           j = 1 \/ (j - 1 \in DOMAIN Tail(pushes) /\ Tail(pushes)[j - 1] = pushes[j])
  BY <1>1, TailIs DEF Inv, TypeOK
<1>4. /\ c \in [id : Copy, d : Nat, live : BOOLEAN] /\ c.live
      /\ c.id = Head(pushes) /\ c.d = dist[c.id[2]]
  BY <1>1, <1>3 DEF H!Candidate, Copy
<1> HIDE DEF c
<1>5. /\ IsFiniteSet(pool') /\ pool' \subseteq pool \cup {c}
      /\ \A x \in (H!Live(pool) \cup {c}) \ pool' : TooFar(x.d)
  BY <1>2, <1>4, PushPool
<1>6. /\ \A d : TooFar(d)' <=> TooFar(d)
      /\ \A g : TooFar(dist[g])' <=> TooFar(dist[g])
  BY <1>1 DEF TooFar, Full, AtLeastWorst, Worst
<1>7. TypeOK'
  <2>1. pool' \in SUBSET [id : Copy, d : Nat, live : BOOLEAN]
    BY <1>4, <1>5 DEF Inv, TypeOK
  <2>2. lost' \in SUBSET Nat
    BY <1>2, <1>4 DEF Inv, TypeOK, H!Live
  <2>3. QED
    BY <1>1, <1>3, <2>1, <2>2 DEF Inv, TypeOK, InputOK
<1>8. Sizes' /\ Phases'
  BY <1>1, <1>5 DEF Inv, Sizes, Phases
<1>9. ResultsMarked' /\ EachVectorOnce' /\ BestOfSeen' /\ AllGraphsSearched'
  BY <1>1, <1>6
     DEF Inv, ResultsMarked, Everywhere, EachVectorOnce, BestOfSeen, AllGraphsSearched
<1>10. PoolMarked'
  BY <1>1, <1>3, <1>4, <1>5 DEF Inv, PoolMarked, Everywhere
<1>11. PushedOnce'
  <2>1. \A x \in pool : x.id # c.id
    BY <1>3, <1>4 DEF Inv, PushedOnce
  <2>2. \A j \in DOMAIN Tail(pushes) : Tail(pushes)[j] # c.id
    <3> SUFFICES ASSUME NEW j \in DOMAIN Tail(pushes), Tail(pushes)[j] = c.id
                 PROVE  FALSE
      OBVIOUS
    <3>1. j \in Nat \ {0}
      BY <1>3
    <3>2. j + 1 = 1
      BY <1>3, <1>4 DEF Inv, PushedOnce
    <3>3. QED
      BY <3>1, <3>2
  <2>3. \A i, j \in DOMAIN Tail(pushes) : Tail(pushes)[i] = Tail(pushes)[j] => i = j
    <3> SUFFICES ASSUME NEW i \in DOMAIN Tail(pushes), NEW j \in DOMAIN Tail(pushes),
                        Tail(pushes)[i] = Tail(pushes)[j]
                 PROVE  i = j
      OBVIOUS
    <3>1. i \in Nat /\ j \in Nat
      BY <1>3
    <3>2. i + 1 = j + 1
      BY <1>3 DEF Inv, PushedOnce
    <3>3. QED
      BY <3>1, <3>2
  <2>4. \A x \in pool, j \in DOMAIN Tail(pushes) : x.id # Tail(pushes)[j]
    BY <1>3 DEF Inv, PushedOnce
  <2>5. QED
    BY <1>1, <1>5, <2>1, <2>2, <2>3, <2>4 DEF Inv, PushedOnce
<1>12. PoolSuffices'
  BY <1>2, <1>5, <1>6 DEF Inv, PoolSuffices
<1>13. CopiesCovered'
  <2> SUFFICES ASSUME NEW x \in top, NEW p \in Part, x.g \in Member(p)
               PROVE  Covered(p, x.g)'
    BY <1>1 DEF CopiesCovered
  <2>1. Covered(p, x.g)
    BY DEF Inv, CopiesCovered
  <2>2. CASE \E j \in DOMAIN pushes : pushes[j] = <<p, x.g>>
    <3>1. PICK j \in DOMAIN pushes : pushes[j] = <<p, x.g>>
      BY <2>2
    <3>2. CASE j = 1
      <4>1. c.id = <<p, x.g>> /\ c.d = dist[x.g]
        BY <1>3, <1>4, <3>1, <3>2
      <4>2. c \in pool' \/ TooFar(dist[x.g])'
        BY <1>5, <1>6, <4>1
      <4>3. QED
        BY <1>1, <1>4, <4>1, <4>2 DEF Covered
    <3>3. CASE j # 1
      <4>1. j - 1 \in DOMAIN pushes' /\ pushes'[j - 1] = <<p, x.g>>
        BY <1>1, <1>3, <3>1, <3>3
      <4>2. QED
        BY <4>1 DEF Covered
    <3>4. QED
      BY <3>2, <3>3
  <2>3. CASE \E y \in pool : y.id = <<p, x.g>> /\ y.live
    <3>1. PICK y \in pool : y.id = <<p, x.g>> /\ y.live
      BY <2>3
    <3>2. y.d = dist[x.g]
      BY <3>1 DEF Inv, PoolMarked
    <3>3. y \in pool' \/ TooFar(dist[x.g])'
      BY <1>5, <1>6, <3>1, <3>2 DEF H!Live
    <3>4. QED
      BY <1>1, <3>1, <3>3 DEF Covered
  <2>4. CASE Followed(p, x.g) \/ TooFar(dist[x.g])
    BY <1>1, <1>6, <2>4 DEF Covered, Followed
  <2>5. QED
    BY <2>1, <2>2, <2>3, <2>4 DEF Covered
<1>14. QED
  BY <1>7, <1>8, <1>9, <1>10, <1>11, <1>12, <1>13 DEF Inv

\* Looking at a neighbour marks it, and nothing is overlooked.
LEMMA StillFollowed ==
  ASSUME Inv, todo # <<>>, todo' = Tail(todo), cur' = cur, nbrs' = nbrs,
         Head(todo) \in visited'[cur],
         \A q \in Part : visited[q] \subseteq visited'[q],
         NEW p \in Part, NEW h, Followed(p, h)
  PROVE  Followed(p, h)'
<1>1. /\ Head(todo) = todo[1]
      /\ \A j \in DOMAIN todo :
           j = 1 \/ (j - 1 \in DOMAIN Tail(todo) /\ Tail(todo)[j - 1] = todo[j])
  BY TailIs DEF Inv, TypeOK
<1>2. ASSUME NEW j \in DOMAIN nbrs[p][h]
      PROVE  \/ nbrs[p][h][j] \in visited'[p]
             \/ cur' = p /\ \E i \in DOMAIN todo' : todo'[i] = nbrs[p][h][j]
  <2>1. CASE nbrs[p][h][j] \in visited[p]
    BY <2>1
  <2>2. CASE cur = p /\ \E i \in DOMAIN todo : todo[i] = nbrs[p][h][j]
    BY <1>1, <2>2
  <2>3. QED
    BY <2>1, <2>2 DEF Followed
<1>3. QED
  BY <1>2 DEF Followed

LEMMA SkipInv ==
  ASSUME Inv, NEW g \in Member(cur), Skip(g)
  PROVE  Inv'
<1>1. /\ nbrs' = nbrs /\ dist' = dist /\ ef' = ef /\ visited' = visited
      /\ pool' = pool /\ top' = top /\ cur' = cur /\ pushes' = pushes
      /\ pc' = pc /\ pc = "run" /\ lost' = lost
      /\ todo # <<>> /\ todo' = Tail(todo) /\ Head(todo) \in visited[cur]
  BY DEF Skip, LooksAt, input
<1>2. todo' \in Seq(Member(cur'))
  BY <1>1, TailIs DEF Inv, TypeOK
<1>3. /\ \A d : TooFar(d)' <=> TooFar(d)
      /\ \A h : TooFar(dist[h])' <=> TooFar(dist[h])
  BY <1>1 DEF TooFar, Full, AtLeastWorst, Worst
<1>4. TypeOK' /\ Sizes' /\ Phases'
  BY <1>1, <1>2 DEF Inv, TypeOK, InputOK, Sizes, Phases
<1>5. ResultsMarked' /\ PoolMarked' /\ PushedOnce' /\ EachVectorOnce'
  BY <1>1 DEF Inv, ResultsMarked, PoolMarked, Everywhere, PushedOnce, EachVectorOnce
<1>6. BestOfSeen' /\ PoolSuffices' /\ AllGraphsSearched'
  BY <1>1, <1>3 DEF Inv, BestOfSeen, PoolSuffices, AllGraphsSearched
<1>7. CopiesCovered'
  <2>1. \A p \in Part : \A h : Followed(p, h) => Followed(p, h)'
    BY <1>1, StillFollowed
  <2>2. QED
    BY <1>1, <1>3, <2>1 DEF Inv, CopiesCovered, Covered
<1>8. QED
  BY <1>4, <1>5, <1>6, <1>7 DEF Inv

LEMMA RejectInv ==
  ASSUME Inv, NEW g \in Member(cur), Reject(g)
  PROVE  Inv'
<1>1. /\ nbrs' = nbrs /\ dist' = dist /\ ef' = ef
      /\ visited' = [visited EXCEPT ![cur] = @ \cup {g}]
      /\ pool' = pool /\ top' = top /\ cur' = cur /\ pushes' = pushes
      /\ pc' = pc /\ pc = "run" /\ lost' = lost
      /\ todo # <<>> /\ todo' = Tail(todo) /\ Head(todo) = g /\ TooFar(dist[g])
  BY DEF Reject, LooksAt, input
<1>2. todo' \in Seq(Member(cur'))
  BY <1>1, TailIs DEF Inv, TypeOK
<1>3. /\ \A d : TooFar(d)' <=> TooFar(d)
      /\ \A h : TooFar(dist[h])' <=> TooFar(dist[h])
  BY <1>1 DEF TooFar, Full, AtLeastWorst, Worst
<1>4. /\ g \in Gid /\ cur \in Part
      /\ visited' \in [Part -> SUBSET Gid] /\ g \in visited'[cur]
      /\ \A q \in Part : visited[q] \subseteq visited'[q]
      /\ \A q \in Part : visited'[q] \subseteq visited[q] \cup {g}
  BY <1>1, GidAssumption DEF Inv, TypeOK, Member
<1>5. TypeOK' /\ Sizes' /\ Phases'
  BY <1>1, <1>2, <1>4 DEF Inv, TypeOK, InputOK, Sizes, Phases
<1>6. ResultsMarked' /\ PoolMarked' /\ PushedOnce' /\ EachVectorOnce'
  BY <1>1, <1>4
     DEF Inv, ResultsMarked, PoolMarked, Everywhere, PushedOnce, EachVectorOnce
<1>7. BestOfSeen' /\ PoolSuffices' /\ AllGraphsSearched'
  BY <1>1, <1>3, <1>4 DEF Inv, BestOfSeen, PoolSuffices, AllGraphsSearched
<1>8. CopiesCovered'
  <2>1. \A p \in Part : \A h : Followed(p, h) => Followed(p, h)'
    BY <1>1, <1>4, StillFollowed
  <2>2. QED
    BY <1>1, <1>3, <2>1 DEF Inv, CopiesCovered, Covered
<1>9. QED
  BY <1>5, <1>6, <1>7, <1>8 DEF Inv

LEMMA AcceptInv ==
  ASSUME Inv, NEW g \in Member(cur), Accept(g)
  PROVE  Inv'
<1> DEFINE r == Result(g, cur)
<1>1. /\ nbrs' = nbrs /\ dist' = dist /\ ef' = ef
      /\ visited' = Marked(g, cur) /\ pushes' = Copies(g, cur) /\ pushes = <<>>
      /\ pool' = pool /\ cur' = cur /\ pc' = pc /\ pc = "run" /\ lost' = lost
      /\ todo # <<>> /\ todo' = Tail(todo) /\ Head(todo) = g /\ g \notin visited[cur]
  BY DEF Accept, LooksAt, input
<1>2. cur \in Part /\ g \in Gid /\ dist \in [Gid -> Nat] /\ lost \in SUBSET Nat
  BY GidAssumption, DistsAssumption DEF Inv, TypeOK, InputOK, Member
<1>3. todo' \in Seq(Member(cur'))
  BY <1>1, TailIs DEF Inv, TypeOK
<1>4. /\ visited' \in [Part -> SUBSET Gid] /\ Everywhere(g)'
      /\ \A q \in Part : visited[q] \subseteq visited'[q]
      /\ \A q \in Part : visited'[q] \subseteq visited[q] \cup {g}
  BY <1>1, <1>2, MarkedIs DEF Inv
<1>5. /\ Copies(g, cur) \in Seq(Copy)
      /\ \A j \in DOMAIN Copies(g, cur) : Copies(g, cur)[j][2] = g
      /\ \A i, j \in DOMAIN Copies(g, cur) :
           Copies(g, cur)[i] = Copies(g, cur)[j] => i = j
      /\ \A q \in Part : g \in Member(q) =>
           \E j \in DOMAIN Copies(g, cur) : Copies(g, cur)[j] = <<q, g>>
  BY <1>2, CopiesAre
<1>6. /\ top' \in SUBSET [g : Gid, p : Part, d : Nat]
      /\ IsFiniteSet(top') /\ Cardinality(top') <= ef
      /\ \A x \in top : x.g # g
      /\ r \in top' /\ top' \subseteq top \cup {r}
      /\ \A d \in Nat : TooFar(d) => TooFar(d)'
      /\ \A x \in top \ top' : TooFar(x.d)'
  BY AcceptResults
<1>7. r.g = g /\ r.p = cur /\ r.d = dist[g]
  BY DEF Result
<1> HIDE DEF r
<1>8. \A h \in Gid : TooFar(dist[h]) => TooFar(dist[h])'
  <2> SUFFICES ASSUME NEW h \in Gid, TooFar(dist[h]) PROVE TooFar(dist[h])'
    OBVIOUS
  <2>1. PICK d \in Nat : d = dist[h]
    BY <1>2
  <2>2. TooFar(d)'
    BY <1>6, <2>1
  <2>3. dist'[h] = d
    BY <1>1, <2>1
  <2>4. QED
    BY <2>2, <2>3 DEF TooFar, AtLeastWorst
<1>9. \A x \in top \ top' : TooFar(dist[x.g])'
  <2> SUFFICES ASSUME NEW x \in top \ top' PROVE TooFar(dist[x.g])'
    OBVIOUS
  <2>1. TooFar(x.d)' /\ x.d = dist'[x.g]
    BY <1>1, <1>6 DEF Inv, ResultsMarked
  <2>2. QED
    BY <2>1 DEF TooFar, AtLeastWorst
<1>10. TypeOK' /\ Sizes' /\ Phases'
  BY <1>1, <1>3, <1>4, <1>5, <1>6 DEF Inv, TypeOK, InputOK, Sizes, Phases
<1>11. ResultsMarked'
  <2>1. \A x \in top' : x = r \/ x \in top
    BY <1>6
  <2>2. QED
    BY <1>1, <1>4, <1>7, <2>1 DEF Inv, ResultsMarked, Everywhere
<1>12. PoolMarked'
  BY <1>1, <1>4, <1>5 DEF Inv, PoolMarked, Everywhere
<1>13. PushedOnce'
  <2>1. \A x \in pool : x.id[2] # g
    BY <1>1, <1>2 DEF Inv, PoolMarked, Everywhere
  <2>2. QED
    BY <1>1, <1>5, <2>1 DEF Inv, PushedOnce
<1>14. EachVectorOnce'
  BY <1>6, <1>7 DEF Inv, EachVectorOnce
<1>15. BestOfSeen'
  <2> SUFFICES ASSUME NEW p \in Part, NEW h \in visited'[p]
               PROVE  (\E x \in top' : x.g = h) \/ TooFar(dist[h])'
    BY DEF BestOfSeen
  <2>1. CASE h = g
    BY <1>6, <1>7, <2>1
  <2>2. CASE h # g
    <3>1. h \in visited[p] /\ h \in Gid
      BY <1>4, <2>2
    <3>2. CASE TooFar(dist[h])
      BY <1>8, <3>1, <3>2
    <3>3. CASE \E x \in top : x.g = h
      BY <1>9, <3>3
    <3>4. QED
      BY <3>1, <3>2, <3>3 DEF Inv, BestOfSeen
  <2>3. QED
    BY <2>1, <2>2
<1>16. PoolSuffices'
  BY <1>1, <1>2, <1>6 DEF Inv, PoolSuffices
<1>17. AllGraphsSearched'
  BY <1>1 DEF AllGraphsSearched
<1>18. CopiesCovered'
  <2> SUFFICES ASSUME NEW x \in top', NEW p \in Part, x.g \in Member(p)
               PROVE  Covered(p, x.g)'
    BY DEF CopiesCovered
  <2>1. CASE x = r
    BY <1>1, <1>5, <1>7, <2>1 DEF Covered
  <2>2. CASE x # r
    <3>1. x \in top /\ x.g \in Gid
      BY <1>6, <2>2
    <3>2. \/ \E y \in pool : y.id = <<p, x.g>> /\ y.live
          \/ Followed(p, x.g)
          \/ TooFar(dist[x.g])
      BY <1>1, <3>1 DEF Inv, CopiesCovered, Covered
    <3>3. Followed(p, x.g) => Followed(p, x.g)'
      BY <1>1, <1>2, <1>4, StillFollowed DEF Everywhere
    <3>4. TooFar(dist[x.g]) => TooFar(dist[x.g])'
      BY <1>8, <3>1
    <3>5. QED
      BY <1>1, <3>2, <3>3, <3>4 DEF Covered
  <2>3. QED
    BY <2>1, <2>2
<1>19. QED
  BY <1>10, <1>11, <1>12, <1>13, <1>14, <1>15, <1>16, <1>17, <1>18 DEF Inv

----------------------------------------------------------------------------
\* Popping a candidate leaves it where it was, as a dead one.
LEMMA PoppedPool ==
  ASSUME Inv, pushes = <<>>, NEW x \in H!Nearest(pool), pool' = H!Popped(pool, x),
         visited' = visited, dist' = dist, pushes' = pushes
  PROVE  /\ x \in pool /\ x.id \in Copy /\ x.d = dist[x.id[2]]
         /\ \A y \in pool : y.live => y.d \in Nat /\ x.d \in Nat /\ x.d <= y.d
         /\ pool' \in SUBSET [id : Copy, d : Nat, live : BOOLEAN]
         /\ IsFiniteSet(pool')
         /\ PoolMarked' /\ PushedOnce'
         /\ \A y \in pool : y = x \/ y \in pool'
<1> DEFINE z == [id |-> x.id, d |-> x.d, live |-> FALSE]
<1>1. /\ x \in pool /\ \A y \in pool : y.live => x.d <= y.d
      /\ pool \in SUBSET [id : Copy, d : Nat, live : BOOLEAN]
  BY DEF Inv, TypeOK, H!Nearest, H!Live
<1>2. /\ z \in [id : Copy, d : Nat, live : BOOLEAN]
      /\ z.id = x.id /\ z.d = x.d /\ pool' = (pool \ {x}) \cup {z}
  BY <1>1 DEF H!Popped
<1> HIDE DEF z
<1>3. IsFiniteSet(pool')
  <2>1. IsFiniteSet(pool \ {x})
    BY FS_RemoveElement DEF Inv, Sizes
  <2>2. QED
    BY <1>2, <2>1, FS_AddElement
<1>4. PoolMarked'
  BY <1>1, <1>2 DEF Inv, PoolMarked, Everywhere
<1>5. PushedOnce'
  BY <1>1, <1>2 DEF Inv, PushedOnce
<1>6. x.d = dist[x.id[2]]
  BY <1>1 DEF Inv, PoolMarked
<1>7. QED
  BY <1>1, <1>2, <1>3, <1>4, <1>5, <1>6

LEMMA ExpandInv == Inv /\ Expand => Inv'
<1> SUFFICES ASSUME Inv, Expand PROVE Inv'
  OBVIOUS
<1>1. PICK x \in H!Nearest(pool) :
        /\ pool' = H!Popped(pool, x)
        /\ cur' = x.id[1] /\ todo' = nbrs[x.id[1]][x.id[2]]
  BY DEF Expand
<1>2. /\ nbrs' = nbrs /\ dist' = dist /\ ef' = ef /\ visited' = visited
      /\ top' = top /\ pushes' = pushes /\ pc' = pc /\ lost' = lost
      /\ pc = "run" /\ pushes = <<>> /\ todo = <<>>
  BY DEF Expand, Idle, input
<1>3. /\ x \in pool /\ x.id \in Copy /\ x.d = dist[x.id[2]]
      /\ pool' \in SUBSET [id : Copy, d : Nat, live : BOOLEAN]
      /\ IsFiniteSet(pool') /\ PoolMarked' /\ PushedOnce'
      /\ \A y \in pool : y = x \/ y \in pool'
  BY <1>1, <1>2, PoppedPool
<1>4. /\ x.id[1] \in Part /\ x.id[2] \in Member(x.id[1])
      /\ x.id = <<x.id[1], x.id[2]>>
  BY <1>3 DEF Copy
<1>5. cur' \in Part /\ todo' \in Seq(Member(cur'))
  BY <1>1, <1>4, GraphsAssumption DEF Inv, TypeOK, InputOK
<1>6. /\ \A d : TooFar(d)' <=> TooFar(d)
      /\ \A h : TooFar(dist[h])' <=> TooFar(dist[h])
  BY <1>2 DEF TooFar, Full, AtLeastWorst, Worst
<1>7. TypeOK' /\ Sizes' /\ Phases'
  BY <1>2, <1>3, <1>5 DEF Inv, TypeOK, InputOK, Sizes, Phases
<1>8. ResultsMarked' /\ EachVectorOnce' /\ BestOfSeen' /\ PoolSuffices'
  BY <1>2, <1>6
     DEF Inv, ResultsMarked, Everywhere, EachVectorOnce, BestOfSeen, PoolSuffices
<1>9. AllGraphsSearched'
  BY <1>2 DEF AllGraphsSearched
<1>10. CopiesCovered'
  <2> SUFFICES ASSUME NEW w \in top, NEW p \in Part, w.g \in Member(p)
               PROVE  Covered(p, w.g)'
    BY <1>2 DEF CopiesCovered
  <2>1. \/ \E y \in pool : y.id = <<p, w.g>> /\ y.live
        \/ Followed(p, w.g)
        \/ TooFar(dist[w.g])
    <3>1. DOMAIN pushes = {} /\ Covered(p, w.g)
      BY <1>2 DEF Inv, CopiesCovered
    <3>2. QED
      BY <3>1 DEF Covered
  <2>2. CASE x.id = <<p, w.g>>
    <3>1. cur' = p /\ todo' = nbrs'[p][w.g]
      BY <1>1, <1>2, <2>2
    <3>2. Followed(p, w.g)'
      BY <3>1 DEF Followed
    <3>3. QED
      BY <3>2 DEF Covered
  <2>3. CASE x.id # <<p, w.g>>
    <3>1. Followed(p, w.g) => Followed(p, w.g)'
      BY <1>2 DEF Followed
    <3>2. QED
      BY <1>2, <1>3, <1>6, <2>1, <2>3, <3>1 DEF Covered
  <2>4. QED
    BY <2>2, <2>3
<1>11. QED
  BY <1>3, <1>7, <1>8, <1>9, <1>10 DEF Inv

LEMMA StopInv == Inv /\ Stop => Inv'
<1> SUFFICES ASSUME Inv, Stop PROVE Inv'
  OBVIOUS
<1>1. PICK x \in H!Nearest(pool) : Stops(x.d) /\ pool' = H!Popped(pool, x)
  BY DEF Stop
<1>2. /\ nbrs' = nbrs /\ dist' = dist /\ ef' = ef /\ visited' = visited
      /\ top' = top /\ cur' = cur /\ todo' = todo /\ pushes' = pushes
      /\ pc' = "done" /\ lost' = lost
      /\ pushes = <<>> /\ todo = <<>>
  BY DEF Stop, Idle, input
<1>3. /\ x \in pool /\ x.id \in Copy /\ x.d = dist[x.id[2]]
      /\ \A y \in pool : y.live => y.d \in Nat /\ x.d \in Nat /\ x.d <= y.d
      /\ pool' \in SUBSET [id : Copy, d : Nat, live : BOOLEAN]
      /\ IsFiniteSet(pool') /\ PoolMarked' /\ PushedOnce'
  BY <1>1, <1>2, PoppedPool
<1>4. /\ \A d : TooFar(d)' <=> TooFar(d)
      /\ \A h : TooFar(dist[h])' <=> TooFar(dist[h])
  BY <1>2 DEF TooFar, Full, AtLeastWorst, Worst
<1>5. \A y \in pool : y.live => TooFar(y.d)
  <2>1. PICK w \in Worst : x.d > w.d
    BY <1>1 DEF Stops, BeyondWorst
  <2>2. w.d \in Nat
    BY <2>1 DEF Worst, Inv, TypeOK
  <2>3. \A y \in pool : y.live => y.d >= w.d
    BY <1>3, <2>1, <2>2
  <2>4. QED
    BY <1>1, <2>1, <2>3 DEF TooFar, Stops, AtLeastWorst
<1>6. \A w \in top, p \in Part :
        w.g \in Member(p) => Followed(p, w.g) \/ TooFar(dist[w.g])
  <2> SUFFICES ASSUME NEW w \in top, NEW p \in Part, w.g \in Member(p),
                      NEW y \in pool, y.id = <<p, w.g>>, y.live
               PROVE  TooFar(dist[w.g])
    BY <1>2 DEF Inv, CopiesCovered, Covered
  <2>1. y.d = dist[w.g]
    BY DEF Inv, PoolMarked
  <2>2. QED
    BY <1>5, <2>1
<1>7. TypeOK' /\ Sizes' /\ Phases'
  BY <1>2, <1>3 DEF Inv, TypeOK, InputOK, Sizes, Phases
<1>8. ResultsMarked' /\ EachVectorOnce' /\ BestOfSeen' /\ PoolSuffices'
  BY <1>2, <1>4
     DEF Inv, ResultsMarked, Everywhere, EachVectorOnce, BestOfSeen, PoolSuffices
<1>9. CopiesCovered' /\ AllGraphsSearched'
  <2>1. CopiesCovered'
    <3>1. \A p, g : Followed(p, g)' <=> Followed(p, g)
      BY <1>2 DEF Followed
    <3>2. QED
      BY <1>2, <1>4, <1>6, <3>1 DEF CopiesCovered, Covered
  <2>2. DOMAIN todo = {}
    BY <1>2
  <2>3. ASSUME NEW p \in Part, NEW g, NEW w \in top, w.g = g, g \in Member(p),
               ~TooFar(dist[g]), NEW j \in DOMAIN nbrs[p][g]
        PROVE  nbrs[p][g][j] \in visited[p]
    BY <1>6, <2>2, <2>3 DEF Followed
  <2>4. AllGraphsSearched'
    BY <1>2, <1>4, <2>3 DEF AllGraphsSearched
  <2>5. QED
    BY <2>1, <2>4
<1>10. QED
  BY <1>3, <1>7, <1>8, <1>9 DEF Inv

LEMMA ExhaustedInv == Inv /\ Exhausted => Inv'
<1> SUFFICES ASSUME Inv, Exhausted PROVE Inv'
  OBVIOUS
<1>1. /\ nbrs' = nbrs /\ dist' = dist /\ ef' = ef /\ visited' = visited
      /\ pool' = pool /\ top' = top /\ cur' = cur /\ todo' = todo
      /\ pushes' = pushes /\ pc' = "done" /\ lost' = lost
      /\ pushes = <<>> /\ todo = <<>> /\ H!Live(pool) = {}
  BY DEF Exhausted, Idle, input
<1>2. /\ \A d : TooFar(d)' <=> TooFar(d)
      /\ \A h : TooFar(dist[h])' <=> TooFar(dist[h])
  BY <1>1 DEF TooFar, Full, AtLeastWorst, Worst
<1>3. \A w \in top, p \in Part :
        w.g \in Member(p) => Followed(p, w.g) \/ TooFar(dist[w.g])
  BY <1>1 DEF Inv, CopiesCovered, Covered, H!Live
<1>4. TypeOK' /\ Sizes' /\ Phases'
  BY <1>1 DEF Inv, TypeOK, InputOK, Sizes, Phases
<1>5. ResultsMarked' /\ PoolMarked' /\ PushedOnce'
  BY <1>1 DEF Inv, ResultsMarked, PoolMarked, Everywhere, PushedOnce
<1>6. EachVectorOnce' /\ BestOfSeen' /\ PoolSuffices'
  BY <1>1, <1>2 DEF Inv, EachVectorOnce, BestOfSeen, PoolSuffices
<1>7. CopiesCovered' /\ AllGraphsSearched'
  <2>1. CopiesCovered'
    <3>1. \A p, g : Followed(p, g)' <=> Followed(p, g)
      BY <1>1 DEF Followed
    <3>2. QED
      BY <1>1, <1>2, <1>3, <3>1 DEF CopiesCovered, Covered
  <2>2. DOMAIN todo = {}
    BY <1>1
  <2>3. ASSUME NEW p \in Part, NEW g, NEW w \in top, w.g = g, g \in Member(p),
               ~TooFar(dist[g]), NEW j \in DOMAIN nbrs[p][g]
        PROVE  nbrs[p][g][j] \in visited[p]
    BY <1>3, <2>2, <2>3 DEF Followed
  <2>4. AllGraphsSearched'
    BY <1>1, <1>2, <2>3 DEF AllGraphsSearched
  <2>5. QED
    BY <2>1, <2>4
<1>8. QED
  BY <1>4, <1>5, <1>6, <1>7 DEF Inv

LEMMA StutterInv == Inv /\ UNCHANGED vars => Inv'
<1> SUFFICES ASSUME Inv, UNCHANGED vars PROVE Inv'
  OBVIOUS
<1> USE DEF vars
<1>1. /\ \A d : TooFar(d)' <=> TooFar(d)
      /\ \A h : TooFar(dist[h])' <=> TooFar(dist[h])
  BY DEF TooFar, Full, AtLeastWorst, Worst
<1>2. \A p, g : Followed(p, g)' <=> Followed(p, g)
  BY DEF Followed
<1>3. TypeOK' /\ Sizes' /\ Phases'
  BY DEF Inv, TypeOK, InputOK, Sizes, Phases
<1>4. ResultsMarked' /\ PoolMarked' /\ PushedOnce' /\ EachVectorOnce'
  BY DEF Inv, ResultsMarked, PoolMarked, Everywhere, PushedOnce, EachVectorOnce
<1>5. BestOfSeen' /\ PoolSuffices' /\ AllGraphsSearched'
  BY <1>1 DEF Inv, BestOfSeen, PoolSuffices, AllGraphsSearched
<1>6. CopiesCovered'
  BY <1>1, <1>2 DEF Inv, CopiesCovered, Covered
<1>7. QED
  BY <1>3, <1>4, <1>5, <1>6 DEF Inv

LEMMA StepInv == Inv /\ [Next]_vars => Inv'
<1> SUFFICES ASSUME Inv, [Next]_vars PROVE Inv'
  OBVIOUS
<1>1. CASE \E g \in Member(0) : Seed(g)
  BY <1>1, SeedInv
<1>2. CASE \E g \in Member(cur) : Skip(g) \/ Accept(g) \/ Reject(g)
  BY <1>2, SkipInv, AcceptInv, RejectInv
<1>3. CASE Push \/ Expand \/ Stop \/ Exhausted
  BY <1>3, PushInv, ExpandInv, StopInv, ExhaustedInv
<1>4. CASE UNCHANGED vars
  BY <1>4, StutterInv
<1>5. QED
  BY <1>1, <1>2, <1>3, <1>4 DEF Next

LEMMA SearchInv == Spec => []Inv
BY InitInv, StepInv, PTL DEF Spec

\* "No runtime dedup needed" (IndexCSPG.cpp:597): whatever the graphs and the
\* routing vectors are, no vector is in the result list twice.
THEOREM NoVectorTwice == Spec => []EachVectorOnce
<1>1. Inv => EachVectorOnce
  BY DEF Inv
<1>2. QED
  BY <1>1, SearchInv, PTL

\* "Oversized so that cross-partition expansion does not crowd out good
\* candidates" (IndexCSPG.cpp:24-26): ef * NP places are enough for any ef and
\* any number of partitions, although popped candidates keep theirs.
THEOREM PoolAlwaysSuffices == Spec => []PoolSuffices
<1>1. Inv => PoolSuffices
  BY DEF Inv
<1>2. QED
  BY <1>1, SearchInv, PTL

\* process_neighbor turns away nothing that belongs among the results: they
\* are the best of all that the search met.
THEOREM ResultsAreBest == Spec => []BestOfSeen
<1>1. Inv => BestOfSeen
  BY DEF Inv
<1>2. QED
  BY <1>1, SearchInv, PTL

\* When the search ends, each result nearer than the worst was expanded in
\* every partition that has it: the crossing, the bound of the pool and the
\* early end (IndexCSPG.cpp:498-504) overlook no neighbour.
THEOREM NoGraphOverlooked == Spec => []AllGraphsSearched
<1>1. Inv => AllGraphsSearched
  BY DEF Inv
<1>2. QED
  BY <1>1, SearchInv, PTL

----------------------------------------------------------------------------
(* The split of the vectors.                                                *)

LEMMA SeqOfLarger ==
  ASSUME NEW S, NEW T, S \subseteq T, NEW s \in Seq(S)
  PROVE  s \in Seq(T)
<1>1. PICK n \in Nat : n = Len(s)
  OBVIOUS
<1>2. s \in [1 .. n -> T]
  BY <1>1
<1>3. QED
  BY <1>2

LEMMA ItemOfSeq ==
  ASSUME NEW S, NEW s \in Seq(S), NEW j \in DOMAIN s PROVE s[j] \in S
OBVIOUS

\* How many members of S are below g.
Rank(S, g) == Cardinality({h \in S : h < g})

\* The ranks of n numbers are 0 .. n - 1, each one once.
LEMMA RanksAre ==
  ASSUME NEW S \in SUBSET Int, IsFiniteSet(S)
  PROVE  /\ Cardinality(S) \in Nat
         /\ \A g \in S : Rank(S, g) \in 0 .. Cardinality(S) - 1
         /\ \A g, h \in S : Rank(S, g) = Rank(S, h) => g = h
         /\ \A r \in 0 .. Cardinality(S) - 1 : \E g \in S : Rank(S, g) = r
<1> DEFINE n == Cardinality(S)
           Below(g) == {h \in S : h < g}
           f == [g \in S |-> Rank(S, g)]
<1>1. n \in Nat
  BY FS_CardinalityType
<1>2. ASSUME NEW g \in S
      PROVE  IsFiniteSet(Below(g)) /\ Rank(S, g) \in 0 .. n - 1
  <2>1. Below(g) \in SUBSET S /\ g \in S /\ g \notin Below(g)
    OBVIOUS
  <2>2. /\ IsFiniteSet(Below(g)) /\ Cardinality(Below(g)) <= n
        /\ (n = Cardinality(Below(g)) => S = Below(g))
    BY <2>1, FS_Subset
  <2>3. Cardinality(Below(g)) \in Nat
    BY <2>2, FS_CardinalityType
  <2>4. QED
    BY <1>1, <2>1, <2>2, <2>3 DEF Rank
<1>3. ASSUME NEW g \in S, NEW h \in S, g < h
      PROVE  Rank(S, g) < Rank(S, h)
  <2>1. Below(g) \in SUBSET Below(h) /\ g \in Below(h) /\ g \notin Below(g)
    <3>1. \A x \in S : x \in Int
      OBVIOUS
    <3>2. \A x \in S : x < g => x < h
      BY <1>3, <3>1
    <3>3. ~(g < g)
      BY <3>1
    <3>4. QED
      BY <1>3, <3>2, <3>3
  <2>2. IsFiniteSet(Below(h)) /\ IsFiniteSet(Below(g))
    BY <1>2
  <2>3. /\ Cardinality(Below(g)) <= Cardinality(Below(h))
        /\ (Cardinality(Below(h)) = Cardinality(Below(g)) => Below(h) = Below(g))
    BY <2>1, <2>2, FS_Subset
  <2>4. Cardinality(Below(g)) \in Nat /\ Cardinality(Below(h)) \in Nat
    BY <2>2, FS_CardinalityType
  <2>5. Cardinality(Below(g)) # Cardinality(Below(h))
    BY <2>1, <2>3
  <2>6. QED
    BY <2>3, <2>4, <2>5 DEF Rank
<1>4. \A g, h \in S : Rank(S, g) = Rank(S, h) => g = h
  <2> SUFFICES ASSUME NEW g \in S, NEW h \in S, g # h
               PROVE  Rank(S, g) # Rank(S, h)
    OBVIOUS
  <2>1. Rank(S, g) \in Int /\ Rank(S, h) \in Int
    <3>1. Rank(S, g) \in 0 .. n - 1 /\ Rank(S, h) \in 0 .. n - 1
      BY <1>2
    <3>2. 0 .. n - 1 \subseteq Int
      BY <1>1
    <3>3. QED
      BY <3>1, <3>2, Zenon
  <2>2. g < h \/ h < g
    OBVIOUS
  <2>3. QED
    BY <1>3, <2>1, <2>2
<1>5. f \in Injection(S, 0 .. n - 1)
  <2>1. f \in [S -> 0 .. n - 1] /\ \A g \in S : f[g] = Rank(S, g)
    BY <1>2
  <2> HIDE DEF f, n
  <2>2. QED
    BY <1>4, <2>1 DEF Injection, IsInjective
<1>6. IsFiniteSet(0 .. n - 1) /\ Cardinality(0 .. n - 1) = n
  BY <1>1, FS_Interval
<1>7. f \in Surjection(S, 0 .. n - 1)
  <2> HIDE DEF f
  <2>1. QED
    BY <1>5, <1>6, FS_Injection
<1>8. \A r \in 0 .. n - 1 : \E g \in S : Rank(S, g) = r
  <2> SUFFICES ASSUME NEW r \in 0 .. n - 1 PROVE \E g \in S : Rank(S, g) = r
    OBVIOUS
  <2>1. PICK g \in S : f[g] = r
    <3> HIDE DEF f
    <3>1. QED
      BY <1>7 DEF Surjection
  <2>2. QED
    BY <2>1
<1>9. QED
  BY <1>1, <1>2, <1>4, <1>8

\* InOrder lists each member of S once.
LEMMA InOrderIs ==
  ASSUME NEW S \in SUBSET Int, IsFiniteSet(S)
  PROVE  /\ Cardinality(S) \in Nat
         /\ InOrder(S) \in Seq(S) /\ Len(InOrder(S)) = Cardinality(S)
         /\ DOMAIN InOrder(S) = 1 .. Cardinality(S)
         /\ \A i \in DOMAIN InOrder(S) : InOrder(S)[i] \in S
         /\ \A i, j \in DOMAIN InOrder(S) : InOrder(S)[i] = InOrder(S)[j] => i = j
         /\ \A g \in S : \E i \in DOMAIN InOrder(S) : InOrder(S)[i] = g
<1>1. PICK n \in Nat : n = Cardinality(S)
  BY FS_CardinalityType
<1> DEFINE s == InOrder(S)
<1>2. s = [i \in 1 .. n |-> CHOOSE g \in S : Rank(S, g) = i - 1]
  BY <1>1 DEF InOrder, Rank
<1>3. ASSUME NEW i \in 1 .. n
      PROVE  s[i] \in S /\ Rank(S, s[i]) = i - 1
  <2>1. i - 1 \in 0 .. n - 1
    BY <1>1
  <2>2. \E g \in S : Rank(S, g) = i - 1
    BY <1>1, <2>1, RanksAre
  <2>3. s[i] = CHOOSE g \in S : Rank(S, g) = i - 1
    BY <1>2
  <2> HIDE DEF s
  <2>4. QED
    BY <2>2, <2>3
<1>4. DOMAIN s = 1 .. n
  BY <1>2
<1> HIDE DEF s
<1>5. s \in [1 .. n -> S]
  <2>1. s = [i \in 1 .. n |-> s[i]]
    BY <1>2
  <2>2. QED
    BY <1>3, <2>1
<1>6. s \in Seq(S) /\ Len(s) = n
  BY <1>5
<1>7. \A i, j \in 1 .. n : s[i] = s[j] => i = j
  <2> SUFFICES ASSUME NEW i \in 1 .. n, NEW j \in 1 .. n, s[i] = s[j] PROVE i = j
    OBVIOUS
  <2>1. i - 1 = j - 1
    BY <1>3
  <2>2. QED
    BY <2>1
<1>8. \A g \in S : \E i \in 1 .. n : s[i] = g
  <2> SUFFICES ASSUME NEW g \in S PROVE \E i \in 1 .. n : s[i] = g
    OBVIOUS
  <2>1. Rank(S, g) \in 0 .. n - 1
    BY <1>1, RanksAre
  <2>2. Rank(S, g) + 1 \in 1 .. n
    BY <1>1, <2>1
  <2>3. Rank(S, s[Rank(S, g) + 1]) = Rank(S, g) /\ s[Rank(S, g) + 1] \in S
    BY <1>3, <2>1, <2>2
  <2>4. s[Rank(S, g) + 1] = g
    <3>1. \A x, y \in S : Rank(S, x) = Rank(S, y) => x = y
      BY RanksAre
    <3>2. QED
      BY <2>3, <3>1
  <2>5. QED
    BY <2>2, <2>4
<1>9. QED
  BY <1>1, <1>3, <1>4, <1>6, <1>7, <1>8 DEF s

\* A deal of n vectors: a sample and, for the others, a partition.
LEMMA DealIs ==
  ASSUME NEW n \in Ns, NEW c \in Deals(n)
  PROVE  /\ n \in Nat \ {0}
         /\ c[1] \in SUBSET (0 .. n - 1) /\ IsFiniteSet(c[1])
         /\ Cardinality(c[1]) = NumRouting(n)
         /\ c[2] \in [0 .. n - 1 -> Part]
         /\ NumRouting(n) \in Nat /\ (n > 1 => NumRouting(n) > 0)
<1>1. n \in Nat \ {0}
  BY NsAssumption
<1>2. /\ c[1] \in SUBSET (0 .. n - 1) /\ Cardinality(c[1]) = NumRouting(n)
      /\ c[2] \in [0 .. n - 1 -> Part]
  BY DEF Deals
<1>3. IsFiniteSet(c[1])
  <2>1. IsFiniteSet(0 .. n - 1)
    BY <1>1, FS_Interval
  <2>2. QED
    BY <1>2, <2>1, FS_Subset
<1>4. NumRouting(n) \in Nat /\ (n > 1 => NumRouting(n) > 0)
  <2> DEFINE r == (n * LNum) \div LDen
  <2>1. r \in Int
    BY <1>1, LambdaAssumption
  <2> HIDE DEF r
  <2>2. NumRouting(n) = IF (IF r < 1 THEN 1 ELSE r) >= n
                        THEN n - 1 ELSE (IF r < 1 THEN 1 ELSE r)
    BY DEF NumRouting, r
  <2>3. QED
    BY <1>1, <2>1, <2>2
<1>5. QED
  BY <1>1, <1>2, <1>3, <1>4

\* a is the members of R, k of them, each one once.
Listed(a, R, k) ==
  /\ a \in Seq(R) /\ Len(a) = k
  /\ \A i \in 1 .. k : a[i] \in R
  /\ \A i, j \in 1 .. k : a[i] = a[j] => i = j
  /\ \A g \in R : \E i \in 1 .. k : a[i] = g

\* s has the members of R and T, each one once, those of R first, as a has them.
Glued(s, a, S, R, T, k) ==
  /\ s \in Seq(S) /\ k <= Len(s)
  /\ \A j \in 1 .. k : s[j] = a[j] /\ s[j] \in R
  /\ \A g \in R : \E j \in 1 .. k : s[j] = g
  /\ \A i, j \in DOMAIN s : s[i] = s[j] => i = j
  /\ \A g \in S : (\E j \in DOMAIN s : s[j] = g) <=> (g \in R \/ g \in T)

\* Two such lists, one behind the other.
LEMMA GluedIs ==
  ASSUME NEW S, NEW R \in SUBSET S, NEW T \in SUBSET S, R \cap T = {},
         NEW k \in Nat, NEW m \in Nat, NEW a, NEW b,
         Listed(a, R, k), Listed(b, T, m)
  PROVE  Glued(a \o b, a, S, R, T, k)
<1> DEFINE s == a \o b
<1>1. /\ a \in Seq(R) /\ Len(a) = k
      /\ \A i \in 1 .. k : a[i] \in R
      /\ \A i, j \in 1 .. k : a[i] = a[j] => i = j
      /\ \A g \in R : \E i \in 1 .. k : a[i] = g
  BY DEF Listed
<1>2. /\ b \in Seq(T) /\ Len(b) = m
      /\ \A i \in 1 .. m : b[i] \in T
      /\ \A i, j \in 1 .. m : b[i] = b[j] => i = j
      /\ \A g \in T : \E i \in 1 .. m : b[i] = g
  BY DEF Listed
<1>3. a \in Seq(S) /\ b \in Seq(S)
  BY <1>1, <1>2, SeqOfLarger
<1>4. /\ s \in Seq(S) /\ Len(s) = k + m /\ DOMAIN s = 1 .. k + m
      /\ \A j \in 1 .. k : s[j] = a[j]
      /\ \A j \in 1 .. k + m : j > k => j - k \in 1 .. m /\ s[j] = b[j - k]
  <2>1. s \in Seq(S) /\ Len(s) = k + m
    BY <1>1, <1>2, <1>3
  <2>2. DOMAIN s = 1 .. k + m
    BY <2>1
  <2>3. \A j \in 1 .. k : s[j] = a[j]
    BY <1>1, <1>2, <1>3
  <2>4. \A j \in 1 .. k + m : j > k => j - k \in 1 .. m /\ s[j] = b[j - k]
    BY <1>1, <1>2, <1>3
  <2>5. QED
    BY <2>1, <2>2, <2>3, <2>4
<1> HIDE DEF s
<1>5. \A i, j \in DOMAIN s : s[i] = s[j] => i = j
  <2> SUFFICES ASSUME NEW i \in 1 .. k + m, NEW j \in 1 .. k + m, s[i] = s[j]
               PROVE  i = j
    BY <1>4
  <2>1. CASE i <= k /\ j <= k
    BY <1>1, <1>4, <2>1
  <2>2. CASE i > k /\ j > k
    <3>1. i - k \in 1 .. m /\ j - k \in 1 .. m /\ b[i - k] = b[j - k]
      BY <1>4, <2>2
    <3>2. i - k = j - k
      BY <1>2, <3>1
    <3>3. QED
      BY <3>2
  <2>3. CASE i <= k /\ j > k
    <3>1. s[i] \in R /\ s[j] \in T
      BY <1>1, <1>2, <1>4, <2>3
    <3>2. QED
      BY <3>1
  <2>4. CASE i > k /\ j <= k
    <3>1. s[j] \in R /\ s[i] \in T
      BY <1>1, <1>2, <1>4, <2>4
    <3>2. QED
      BY <3>1
  <2>5. QED
    BY <2>1, <2>2, <2>3, <2>4
<1>6. ASSUME NEW g \in S
       PROVE  (\E j \in DOMAIN s : s[j] = g) <=> (g \in R \/ g \in T)
  <2>1. ASSUME NEW j \in 1 .. k + m, s[j] = g
        PROVE  g \in R \/ g \in T
    <3>1. CASE j <= k
      BY <1>1, <1>4, <2>1, <3>1
    <3>2. CASE j > k
      BY <1>2, <1>4, <2>1, <3>2
    <3>3. QED
      BY <3>1, <3>2
  <2>2. ASSUME g \in R
        PROVE  \E j \in DOMAIN s : s[j] = g
    <3>1. PICK j \in 1 .. k : a[j] = g
      BY <1>1, <2>2
    <3>2. j \in 1 .. k + m /\ s[j] = g
      BY <1>4, <3>1
    <3>3. QED
      BY <1>4, <3>2
  <2>3. ASSUME g \in T
        PROVE  \E j \in DOMAIN s : s[j] = g
    <3>1. PICK j \in 1 .. m : b[j] = g
      BY <1>2, <2>3
    <3>2. k + j \in 1 .. k + m /\ k + j > k /\ (k + j) - k = j
      OBVIOUS
    <3>3. s[k + j] = g
      BY <1>4, <3>1, <3>2
    <3>4. QED
      BY <1>4, <3>2, <3>3
  <2>4. QED
    BY <1>4, <2>1, <2>2, <2>3
<1>7. /\ \A j \in 1 .. k : s[j] = a[j] /\ s[j] \in R
      /\ \A g \in R : \E j \in 1 .. k : s[j] = g
  BY <1>1, <1>4
<1>8. k <= Len(s)
  BY <1>4
<1>9. QED
  BY <1>4, <1>5, <1>6, <1>7, <1>8 DEF Glued, s

\* A partition has the sample and what was dealt to it, each vector once, the
\* sample first and in the same order everywhere.
IsDeal(s, n, R, home, p, k) ==
  /\ s \in Seq(0 .. n - 1) /\ k <= Len(s)
  /\ \A j \in 1 .. k : s[j] = InOrder(R)[j] /\ s[j] \in R
  /\ \A g \in R : \E j \in 1 .. k : s[j] = g
  /\ \A i, j \in DOMAIN s : s[i] = s[j] => i = j
  /\ \A g \in 0 .. n - 1 :
       (\E j \in DOMAIN s : s[j] = g) <=> (g \in R \/ home[g] = p)

LEMMA SplitIs ==
  ASSUME NEW n \in Nat, NEW R \in SUBSET (0 .. n - 1), IsFiniteSet(R),
         NEW home \in [0 .. n - 1 -> Part], NEW p \in Part,
         NEW k \in Nat, k = Cardinality(R)
  PROVE  IsDeal(Split(n, R, home)[p], n, R, home, p, k)
<1> DEFINE V == 0 .. n - 1
           T == {g \in V \ R : home[g] = p /\ g < n}
           s == Split(n, R, home)[p]
<1>1. s = InOrder(R) \o InOrder(T)
  BY DEF Split, Dealt
<1>2. /\ R \in SUBSET V /\ T \in SUBSET V /\ R \cap T = {}
      /\ \A g \in V : (g \in R \/ g \in T) <=> (g \in R \/ home[g] = p)
  <2>1. \A g \in V : g < n
    OBVIOUS
  <2>2. QED
    BY <2>1
<1>3. IsFiniteSet(V) /\ V \in SUBSET Int
  BY FS_Interval
<1> HIDE DEF V, T
<1>4. IsFiniteSet(T) /\ T \in SUBSET Int /\ R \in SUBSET Int
  BY <1>2, <1>3, FS_Subset
<1>5. PICK m \in Nat : m = Cardinality(T)
  BY <1>4, FS_CardinalityType
<1>6. Listed(InOrder(R), R, k)
  BY <1>4, InOrderIs DEF Listed
<1>7. Listed(InOrder(T), T, m)
  BY <1>4, <1>5, InOrderIs DEF Listed
<1>8. Glued(InOrder(R) \o InOrder(T), InOrder(R), V, R, T, k)
  BY <1>2, <1>5, <1>6, <1>7, GluedIs
<1> HIDE DEF s
<1>9. Glued(s, InOrder(R), V, R, T, k)
  BY <1>1, <1>8
<1>10. IsDeal(s, n, R, home, p, k)
  BY <1>2, <1>9, Zenon DEF V, Glued, IsDeal
<1>11. QED
  BY <1>10 DEF s

----------------------------------------------------------------------------
(* The life of an index.                                                    *)

\* The fields of the object are those of o.
IsNow(o) ==
  /\ ntotal = o.ntotal /\ routing = o.routing /\ refn = o.refn
  /\ g2l = o.g2l /\ shared = o.shared /\ parts = o.parts

\* What a complete add to an empty index leads to.
Whole(n, R, home) ==
  LET f == Split(n, R, home) IN
  [ntotal |-> n, routing |-> NumRouting(n), refn |-> f,
   g2l |-> ReverseMap(n, f, <<>>), shared |-> n,
   parts |-> [p \in Part |-> IF p < NP THEN Len(f[p]) ELSE -1]]

\* An index is empty, or it stopped in the split, or it has the split of one
\* deal and the reverse map of that split or none, and all the rest unless add
\* threw.
ObjectOK ==
  \/ IsNow(Empty)
  \/ failed = "split" /\ ntotal \in Ns /\ g2l = <<>>
  \/ \E n \in Ns : \E c \in Deals(n) :
       /\ ntotal = n /\ routing = NumRouting(n) /\ refn = Split(n, c[1], c[2])
       /\ g2l = <<>> \/ g2l = ReverseMap(n, refn, <<>>)
       /\ failed = "no" => IsNow(Whole(n, c[1], c[2]))

\* A stream holds a whole index.
FileOK ==
  file = Empty \/ \E n \in Ns : \E c \in Deals(n) : file = Whole(n, c[1], c[2])

LifeInv == ObjectOK /\ FileOK

LEMMA LifeInitInv == IndexInit => LifeInv
BY DEF IndexInit, LifeInv, ObjectOK, FileOK, IsNow, Empty

LEMMA LifeStepInv == LifeInv /\ [IndexNext]_indexVars => LifeInv'
<1> SUFFICES ASSUME LifeInv, [IndexNext]_indexVars PROVE LifeInv'
  OBVIOUS
<1>1. ASSUME NEW o, Holds(o) PROVE IsNow(o)'
  BY <1>1 DEF Holds, IsNow
<1>2. ASSUME ntotal = 0
      PROVE  g2l = <<>>
  <2>1. \A n \in Ns : n # 0
    BY NsAssumption
  <2>2. QED
    BY <1>2, <2>1 DEF LifeInv, ObjectOK, IsNow, Empty
<1>3. ASSUME NEW n, NEW f, NEW map, NEW s, NEW ps, Holds(Made(n, f, map, s, ps))
      PROVE  /\ ntotal' = n /\ routing' = NumRouting(n) /\ refn' = f
             /\ g2l' = map /\ shared' = s /\ parts' = ps
  BY <1>3 DEF Holds, Made
<1>4. ASSUME NEW n \in Ns, NEW c \in Deals(n), Add(n, c[1], c[2])
      PROVE  LifeInv'
  <2> DEFINE f == Split(n, c[1], c[2])
  <2>1. ntotal = 0 /\ Holds(Built(n, f, NP)) /\ file' = file
    BY <1>4 DEF Add
  <2>2. Built(n, f, NP) = Whole(n, c[1], c[2])
    BY <1>2, <2>1 DEF Built, Whole, Made
  <2>3. IsNow(Whole(n, c[1], c[2]))'
    BY <1>1, <2>1, <2>2
  <2>4. ObjectOK'
    BY <2>3 DEF ObjectOK, IsNow, Whole
  <2>5. QED
    BY <2>1, <2>4 DEF LifeInv, FileOK
<1>5. ASSUME NEW n \in Ns, NEW c \in Deals(n), AddFailsInSplit(n, c[1], c[2])
      PROVE  LifeInv'
  <2>1. PICK f : Holds(Made(n, f, g2l, shared, parts))
    BY <1>5 DEF AddFailsInSplit
  <2>2. ntotal = 0 /\ failed' = "split" /\ file' = file
    BY <1>5 DEF AddFailsInSplit
  <2>3. ntotal' = n /\ g2l' = <<>>
    BY <1>2, <1>3, <2>1, <2>2
  <2>4. QED
    BY <2>2, <2>3 DEF LifeInv, ObjectOK, FileOK
<1>6. ASSUME NEW n \in Ns, NEW c \in Deals(n), AddFailsInBuild(n, c[1], c[2])
      PROVE  LifeInv'
  <2> DEFINE f == Split(n, c[1], c[2])
  <2>1. ntotal = 0 /\ failed' = "build" /\ file' = file
    BY <1>6 DEF AddFailsInBuild
  <2>2. PICK map, s, ps : /\ map = g2l \/ map = ReverseMap(n, f, g2l)
                          /\ Holds(Made(n, f, map, s, ps))
    BY <1>6 DEF AddFailsInBuild, Built
  <2>3. /\ ntotal' = n /\ routing' = NumRouting(n) /\ refn' = f
        /\ g2l' = <<>> \/ g2l' = ReverseMap(n, f, <<>>)
    BY <1>2, <1>3, <2>1, <2>2
  <2>4. ObjectOK'
    BY <2>1, <2>3 DEF ObjectOK
  <2>5. QED
    BY <2>1, <2>4 DEF LifeInv, FileOK
<1>7. CASE Reset
  <2>1. IsNow(Empty)' /\ file' = file
    BY <1>1, <1>7 DEF Reset
  <2>2. QED
    BY <2>1 DEF LifeInv, ObjectOK, FileOK
<1>8. CASE Write
  <2>1. /\ ntotal > 0 /\ failed = "no" /\ failed' = failed
        /\ file' = [ntotal |-> ntotal, routing |-> routing, refn |-> refn,
                    g2l |-> g2l, shared |-> shared, parts |-> parts]
        /\ ntotal' = ntotal /\ routing' = routing /\ refn' = refn
        /\ g2l' = g2l /\ shared' = shared /\ parts' = parts
    BY <1>8 DEF Write, object
  <2>2. ObjectOK'
    BY <2>1 DEF LifeInv, ObjectOK, IsNow
  <2>3. ~IsNow(Empty)
    BY <2>1 DEF IsNow, Empty
  <2>4. PICK n \in Ns : \E c \in Deals(n) : IsNow(Whole(n, c[1], c[2]))
    BY <2>1, <2>3 DEF LifeInv, ObjectOK
  <2>5. PICK c \in Deals(n) : IsNow(Whole(n, c[1], c[2]))
    BY <2>4
  <2>6. file' = Whole(n, c[1], c[2])
    BY <2>1, <2>5 DEF IsNow, Whole
  <2>7. QED
    BY <2>2, <2>6 DEF LifeInv, FileOK
<1>9. CASE Read
  <2>1. IsNow(file)' /\ file' = file /\ file # Empty
    BY <1>9 DEF Read, Holds, IsNow
  <2>2. PICK n \in Ns : \E c \in Deals(n) : file = Whole(n, c[1], c[2])
    BY <2>1 DEF LifeInv, FileOK
  <2>3. PICK c \in Deals(n) : file = Whole(n, c[1], c[2])
    BY <2>2
  <2>4. IsNow(Whole(n, c[1], c[2]))'
    BY <2>1, <2>3 DEF IsNow
  <2>5. ObjectOK'
    BY <2>4 DEF ObjectOK, IsNow, Whole
  <2>6. QED
    BY <2>1, <2>5 DEF LifeInv, FileOK
<1>10. CASE UNCHANGED indexVars
  BY <1>10 DEF indexVars, LifeInv, ObjectOK, FileOK, IsNow
<1>11. QED
  BY <1>4, <1>5, <1>6, <1>7, <1>8, <1>9, <1>10 DEF IndexNext

LEMMA LifeAlwaysInv == IndexSpec => []LifeInv
BY LifeInitInv, LifeStepInv, PTL DEF IndexSpec

\* The partitions as the split of a deal leaves them.
LEMMA OneSplitOf ==
  ASSUME NEW n \in Ns, NEW c \in Deals(n),
         ntotal = n, routing = NumRouting(n), refn = Split(n, c[1], c[2])
  PROVE  SplitSound
<1> DEFINE R == c[1]
           home == c[2]
<1>1. /\ n \in Nat \ {0} /\ R \in SUBSET (0 .. n - 1) /\ IsFiniteSet(R)
      /\ home \in [0 .. n - 1 -> Part] /\ Cardinality(R) = NumRouting(n)
      /\ Cardinality(R) \in Nat
  BY DealIs, FS_CardinalityType
<1>2. /\ ntotal = n /\ routing = Cardinality(R)
      /\ refn = Split(n, R, home)
  BY <1>1
<1> HIDE DEF R, home
<1>3. ASSUME NEW p \in Part
      PROVE  /\ refn[p] \in Seq(0 .. n - 1) /\ routing <= Len(refn[p])
             /\ \A j \in 1 .. routing : refn[p][j] = InOrder(R)[j] /\ refn[p][j] \in R
             /\ \A g \in R : \E j \in 1 .. routing : refn[p][j] = g
             /\ \A i, j \in DOMAIN refn[p] : refn[p][i] = refn[p][j] => i = j
             /\ \A g \in 0 .. n - 1 :
                  (\E j \in DOMAIN refn[p] : refn[p][j] = g) <=> (g \in R \/ home[g] = p)
  <2>1. refn[p] = Split(n, R, home)[p] /\ routing \in Nat /\ routing = Cardinality(R)
    BY <1>1, <1>2
  <2>2. n \in Nat
    BY <1>1
  <2>3. IsDeal(Split(n, R, home)[p], n, R, home, p, routing)
    BY <1>1, <2>1, <2>2, SplitIs
  <2>4. IsDeal(refn[p], n, R, home, p, routing)
    BY <2>1, <2>3
  <2>5. QED
    BY <2>4, Zenon DEF IsDeal
<1>4. 0 \in Part
  BY NPAssumption DEF Part
<1>5. ASSUME NEW p \in Part, NEW g \in 0 .. n - 1
      PROVE  Times(g, p) = IF g \in R \/ home[g] = p THEN 1 ELSE 0
  <2> DEFINE J == {j \in DOMAIN refn[p] : refn[p][j] = g}
  <2>1. CASE g \in R \/ home[g] = p
    <3>1. PICK j \in DOMAIN refn[p] : refn[p][j] = g
      BY <1>3, <2>1
    <3>2. J = {j}
      BY <1>3, <3>1
    <3>3. QED
      BY <2>1, <3>2, FS_Singleton DEF Times
  <2>2. CASE ~(g \in R \/ home[g] = p)
    <3>1. J = {}
      BY <1>3, <2>2
    <3>2. QED
      BY <2>2, <3>1, FS_EmptySet DEF Times
  <2>3. QED
    BY <2>1, <2>2
<1>6. Sample = R
  <2>1. Sample \subseteq R
    BY <1>3, <1>4 DEF Sample
  <2>2. R \subseteq Sample
    BY <1>3, <1>4 DEF Sample
  <2>3. QED
    BY <2>1, <2>2
<1>7. \A p \in Part : \A j \in 1 .. routing : refn[p][j] = refn[0][j]
  BY <1>3, <1>4
<1>8. \A g \in Sample, p \in Part : Times(g, p) = 1
  BY <1>1, <1>5, <1>6
<1>9. ASSUME NEW g \in Vecs \ Sample
      PROVE  \E p \in Part : /\ Times(g, p) = 1
                             /\ \A q \in Part \ {p} : Times(g, q) = 0
  <2>1. g \in 0 .. n - 1 /\ g \notin R
    BY <1>2, <1>6 DEF Vecs
  <2>2. home[g] \in Part
    BY <1>1, <2>1
  <2>3. Times(g, home[g]) = 1
    BY <1>5, <2>1, <2>2
  <2>4. \A q \in Part \ {home[g]} : Times(g, q) = 0
    BY <1>5, <2>1
  <2>5. QED
    BY <2>2, <2>3, <2>4
<1>10. QED
  BY <1>7, <1>8, <1>9 DEF SplitSound

LEMMA LeastExists ==
  ASSUME NEW S \in SUBSET Nat, S # {}
  PROVE  \E n \in S : \A m \in S : n <= m
<1>1. IsWellFoundedOn(OpToRel(<, Nat), Nat)
  BY NatLessThanWellFounded
<1>2. PICK n \in S : \A m \in S : <<m, n>> \notin OpToRel(<, Nat)
  BY <1>1, WFMin, Zenon
<1>3. \A m \in S : ~(m < n)
  BY <1>2 DEF OpToRel
<1>4. QED
  BY <1>3

\* The reverse map finds the vector in the first partition that has it.
LEMMA ReverseSoundOf ==
  ASSUME NEW n \in Ns, NEW c \in Deals(n), refn = Split(n, c[1], c[2]),
         g2l = ReverseMap(n, refn, <<>>)
  PROVE  ReverseSound
<1> DEFINE R == c[1]
           home == c[2]
<1>1. /\ n \in Nat \ {0} /\ R \in SUBSET (0 .. n - 1) /\ IsFiniteSet(R)
      /\ home \in [0 .. n - 1 -> Part]
  BY DealIs
<1>2. /\ refn = Split(n, R, home) /\ g2l = ReverseMap(n, refn, <<>>)
  OBVIOUS
<1> HIDE DEF R, home
<1>3. ASSUME NEW p \in Part
      PROVE  /\ refn[p] \in Seq(0 .. n - 1)
             /\ \A g \in 0 .. n - 1 :
                  (\E j \in DOMAIN refn[p] : refn[p][j] = g) <=> (g \in R \/ home[g] = p)
  <2>1. refn[p] = Split(n, R, home)[p] /\ n \in Nat
    BY <1>1, <1>2
  <2>2. Cardinality(R) \in Nat
    BY <1>1, FS_CardinalityType
  <2>3. IsDeal(Split(n, R, home)[p], n, R, home, p, Cardinality(R))
    BY <1>1, <2>1, <2>2, SplitIs
  <2>4. IsDeal(refn[p], n, R, home, p, Cardinality(R))
    BY <2>1, <2>3
  <2>5. QED
    BY <2>4, Zenon DEF IsDeal
<1>4. ASSUME NEW g \in 0 .. n - 1
      PROVE  LET p == g2l[g][1]  j == g2l[g][2] + 1 IN
             p \in DOMAIN refn /\ j \in DOMAIN refn[p] /\ refn[p][j] = g
  <2> DEFINE First(p) == /\ \E j \in DOMAIN refn[p] : refn[p][j] = g
                         /\ \A q \in Part : q < p =>
                              \A j \in DOMAIN refn[q] : refn[q][j] # g
             P == CHOOSE p \in Part : First(p)
             Q == {p \in Part : \E j \in DOMAIN refn[p] : refn[p][j] = g}
  <2>1. Q \in SUBSET Nat /\ Q # {}
    <3>1. home[g] \in Part /\ \E j \in DOMAIN refn[home[g]] : refn[home[g]][j] = g
      BY <1>1, <1>3
    <3>2. Part \subseteq Nat
      BY NPAssumption DEF Part
    <3>3. QED
      BY <3>1, <3>2
  <2>2. PICK p \in Q : \A q \in Q : p <= q
    <3> HIDE DEF Q
    <3>1. QED
      BY <2>1, LeastExists
  <2>3. First(p)
    <3>1. \A q \in Part : q < p => q \notin Q
      <4>1. \A q \in Q : q \in Nat /\ p \in Nat /\ p <= q
        BY <2>1, <2>2
      <4>2. \A q \in Q : ~(q < p)
        BY <4>1
      <4>3. QED
        BY <4>2
    <3>2. QED
      BY <2>2, <3>1
  <2>4. p \in Part
    BY <2>2
  <2>5. P \in Part /\ First(P)
    <3> HIDE DEF First
    <3>1. QED
      BY <2>3, <2>4
  <2>6. PICK i \in DOMAIN refn[P] : refn[P][i] = g
    BY <2>5
  <2> DEFINE J == CHOOSE j \in DOMAIN refn[P] : refn[P][j] = g
  <2>7. g2l[g] = <<P, J - 1>>
    <3>1. g \notin DOMAIN <<>>
      OBVIOUS
    <3>2. QED
      BY <1>2, <3>1, Zenon DEF ReverseMap
  <2> HIDE DEF P
  <2>8. J \in DOMAIN refn[P] /\ refn[P][J] = g
    BY <2>6
  <2> HIDE DEF J
  <2>9. J \in Nat
    BY <1>3, <2>5, <2>8
  <2>10. g2l[g][1] = P /\ g2l[g][2] + 1 = J
    BY <2>7, <2>9
  <2>11. DOMAIN refn = Part
    BY <1>2 DEF Split, Dealt
  <2>12. QED
    BY <2>5, <2>8, <2>10, <2>11
<1>5. DOMAIN g2l = 0 .. n - 1
  BY <1>2 DEF ReverseMap
<1>6. QED
  BY <1>4, <1>5 DEF ReverseSound

\* Whatever the sample and the deal are, the id maps of all partitions
\* describe one split of the vectors, the present one
\* (benchs/verify_cspg_invariants.py, checks 1-3), through adds that throw
\* anywhere after or before the split, resets and round trips.
THEOREM AlwaysOneSplit == IndexSpec => []OneSplit
<1>1. LifeInv => OneSplit
  <2> SUFFICES ASSUME LifeInv PROVE OneSplit
    OBVIOUS
  <2>0. ASSUME g2l = <<>> PROVE ReverseSound
    <3>1. DOMAIN g2l = {}
      BY <2>0
    <3>2. QED
      BY <3>1 DEF ReverseSound
  <2>1. CASE IsNow(Empty)
    BY <2>0, <2>1 DEF OneSplit, SplitSound, IsNow, Empty
  <2>2. CASE failed = "split" /\ g2l = <<>>
    BY <2>0, <2>2 DEF OneSplit, SplitSound
  <2>3. ASSUME NEW n \in Ns, NEW c \in Deals(n),
               ntotal = n, routing = NumRouting(n), refn = Split(n, c[1], c[2]),
               g2l = <<>> \/ g2l = ReverseMap(n, refn, <<>>)
        PROVE  OneSplit
    BY <2>0, <2>3, OneSplitOf, ReverseSoundOf DEF OneSplit
  <2>4. QED
    BY <2>1, <2>2, <2>3 DEF LifeInv, ObjectOK
<1>2. QED
  BY <1>1, LifeAlwaysInv, PTL

\* What search follows is there as soon as it follows it, unless an add threw
\* half way (IndexCSPG.cpp:188); partition 0 and the sample are not empty.
THEOREM SearchAlwaysDefined == IndexSpec => []SearchDefined
<1>1. LifeInv => SearchDefined
  <2> SUFFICES ASSUME LifeInv PROVE SearchDefined
    OBVIOUS
  <2>1. CASE IsNow(Empty)
    BY <2>1 DEF IsNow, Empty, SearchDefined
  <2>2. CASE failed = "split"
    BY <2>2 DEF SearchDefined
  <2>3. ASSUME NEW n \in Ns, NEW c \in Deals(n),
               ntotal = n, routing = NumRouting(n), refn = Split(n, c[1], c[2]),
               failed = "no" => IsNow(Whole(n, c[1], c[2]))
        PROVE  SearchDefined
    <3> DEFINE R == c[1]
               home == c[2]
    <3>1. /\ n \in Nat \ {0} /\ R \in SUBSET (0 .. n - 1) /\ IsFiniteSet(R)
          /\ home \in [0 .. n - 1 -> Part] /\ Cardinality(R) = NumRouting(n)
          /\ NumRouting(n) \in Nat /\ (n > 1 => NumRouting(n) > 0)
      BY DealIs
    <3>2. /\ ntotal = n /\ routing = NumRouting(n) /\ refn = Split(n, R, home)
          /\ failed = "no" =>
               /\ shared = n
               /\ parts = [p \in Part |-> IF p < NP THEN Len(refn[p]) ELSE -1]
      BY <2>3 DEF IsNow, Whole
    <3> HIDE DEF R, home
    <3>3. ASSUME NEW p \in Part
          PROVE  refn[p] \in Seq(0 .. n - 1) /\ NumRouting(n) <= Len(refn[p])
      <4>1. refn[p] = Split(n, R, home)[p] /\ n \in Nat
        BY <3>1, <3>2
      <4>2. IsDeal(Split(n, R, home)[p], n, R, home, p, NumRouting(n))
        BY <3>1, <4>1, SplitIs
      <4>3. IsDeal(refn[p], n, R, home, p, NumRouting(n))
        BY <4>1, <4>2
      <4>4. QED
        BY <4>3, Zenon DEF IsDeal
    <3>4. 0 \in Part /\ \A p \in Part : p < NP
      BY NPAssumption DEF Part
    <3>5. failed = "no" => \A p \in Part : parts[p] = Len(refn[p])
      BY <3>2, <3>4
    <3>6. \A p \in Part : \A j \in DOMAIN refn[p] : refn[p][j] \in Vecs
      <4> SUFFICES ASSUME NEW p \in Part, NEW j \in DOMAIN refn[p]
                   PROVE  refn[p][j] \in Vecs
        OBVIOUS
      <4>1. refn[p] \in Seq(0 .. n - 1)
        BY <3>3
      <4>2. refn[p][j] \in 0 .. n - 1
        BY <4>1, ItemOfSeq, Zenon
      <4>3. QED
        BY <3>2, <4>2 DEF Vecs
    <3>7. ntotal > 1 => routing > 0 /\ Len(refn[0]) > 0
      <4>1. Len(refn[0]) \in Nat /\ NumRouting(n) <= Len(refn[0])
        BY <3>3, <3>4
      <4>2. QED
        BY <3>1, <3>2, <4>1
    <3>8. QED
      BY <3>2, <3>5, <3>6, <3>7 DEF SearchDefined
  <2>4. QED
    BY <2>1, <2>2, <2>3 DEF LifeInv, ObjectOK
<1>2. QED
  BY <1>1, LifeAlwaysInv, PTL
=============================================================================
