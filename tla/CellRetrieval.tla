--------------------------- MODULE CellRetrieval ---------------------------
(***************************************************************************)
(* What a traversal of the cells of a subspace promises: "Retrieves IMI    *)
(* cells in ascending (dist1[c1] + dist2[c2]) order from                   *)
(* inv_lists[subspace_idx] until at least collision_num data points have   *)
(* been collected" (IndexSuCo.h:362-366).  DynamicActivation and           *)
(* MultiSequence are shown to implement it.                                *)
(***************************************************************************)
EXTENDS ImiGrid

VARIABLES
  dist,       \* the grid of cell distances of the query       (input)
  assign,     \* the cell of each vector                       (input)
  quota,      \* collision_num                                 (input)
  seen,       \* the cells retrieved so far
  retrieved,  \* how many vectors they held
  scores,     \* sc_scores: per vector, how often it was met
  done        \* the traversal has returned

input == <<dist, assign, quota>>
vars  == <<dist, assign, quota, seen, retrieved, scores, done>>

InputOK ==
  /\ dist \in Grids
  /\ assign \in [Vec -> Cells]
  /\ quota \in Quotas

Init ==
  /\ InputOK
  /\ seen = {}
  /\ retrieved = 0
  /\ scores = [v \in Vec |-> 0]
  /\ done = FALSE

\* Take the first cell not taken yet, and stop when the quota is reached.
Retrieve(c) ==
  /\ ~done
  /\ c \notin seen
  /\ \A u \in Cells \ seen : NotAfter(dist, c, u)
  /\ seen' = seen \cup {c}
  /\ retrieved' = retrieved + Cardinality(Bucket(assign, c))
  /\ scores' = Scored(scores, assign, c)
  /\ done' = (retrieved' >= quota)
  /\ UNCHANGED input

\* Every cell was taken and the quota was not reached.
RunOut ==
  /\ ~done
  /\ seen = Cells
  /\ done' = TRUE
  /\ UNCHANGED <<input, seen, retrieved, scores>>

Next == (\E c \in Cells : Retrieve(c)) \/ RunOut

Spec == Init /\ [][Next]_vars

TypeOK ==
  /\ InputOK
  /\ seen \in SUBSET Cells
  /\ retrieved \in Nat
  /\ scores \in [Vec -> Nat]
  /\ done \in BOOLEAN

\* No cell was passed over: what was taken comes before what was not.
TakenInOrder ==
  \A c \in seen, u \in Cells \ seen : NotAfter(dist, c, u)

\* retrieved counts the vectors of the cells taken, each of them once.
CountsVectors == retrieved = Cardinality(VecsIn(assign, seen))

\* A vector was scored once if its cell was taken, and not at all otherwise.
ScoredOnce ==
  \A v \in Vec : scores[v] = IF assign[v] \in seen THEN 1 ELSE 0

\* It goes on as long as it must.
EnoughOrAll == done => retrieved >= quota \/ seen = Cells

\* ... and not one cell longer: the cell taken last was needed.
\* All other cells taken come before it.
LastWasNeeded ==
  seen # {} =>
    \E c \in seen :
      /\ \A u \in seen : NotAfter(dist, u, c)
      /\ Cardinality(VecsIn(assign, seen \ {c})) < quota

\* While it runs the quota is not reached.
NotEnoughYet == ~done => retrieved < quota

Inv ==
  /\ TypeOK
  /\ TakenInOrder
  /\ CountsVectors
  /\ ScoredOnce
  /\ EnoughOrAll
  /\ LastWasNeeded
  /\ NotEnoughYet
=============================================================================
