------------------------------ MODULE ImiGrid ------------------------------
(***************************************************************************)
(* The grid of cells of one subspace of IndexSuCo, as the two traversals   *)
(* of it see the grid.                                                     *)
(*                                                                         *)
(* A subspace is split in two halves of NC centroids each; the vectors of  *)
(* the database are spread over the NC x NC cells of an inverted           *)
(* multi-index.  A query sorts the centroids of each half by distance, so  *)
(* a cell is named here by the two RANKS of its centroids: row i is        *)
(* idx1[i], column j is idx2[j].  Ranks count from 1 (from 0 in the code). *)
(*                                                                         *)
(* The distance of a cell is the float sum dists1[idx1[i]]+dists2[idx2[j]].*)
(* Rounding a sum is monotone in both summands but not additive, so all    *)
(* that is assumed of a grid of distances is that it is monotone along its *)
(* rows and columns: nothing below depends on exact arithmetic.            *)
(***************************************************************************)
EXTENDS Integers, FiniteSets

CONSTANTS
  NC,      \* ncentroids_half: centroids per half of the subspace
  Vec,     \* the ids of the database vectors
  Grids,   \* the grids of cell distances a query may bring
  Quotas,  \* the values collision_num may have
  FltMax   \* FLT_MAX, the sentinel of an exhausted row

Rank  == 1 .. NC
Cells == Rank \X Rank

\* u is no nearer than c in either half.
Dominates(c, u) == c[1] <= u[1] /\ c[2] <= u[2]

Monotone(g) == \A c, u \in Cells : Dominates(c, u) => g[c] <= g[u]

ASSUME NCAssumption     == NC \in Nat \ {0}
ASSUME VecAssumption    == IsFiniteSet(Vec)
ASSUME QuotasAssumption == Quotas \subseteq Nat \ {0}
ASSUME FltMaxAssumption == FltMax \in Nat
ASSUME GridsAssumption  == \A g \in Grids : g \in [Cells -> Nat] /\ Monotone(g)

\* No sum of two distances reaches the sentinel.
SumsBelowSentinel == \A g \in Grids : \A c \in Cells : g[c] < FltMax

\* The order of the tuples (dist, i, j).
NotAfter(g, c, u) ==
  \/ g[c] < g[u]
  \/ g[c] = g[u] /\ c[1] < u[1]
  \/ g[c] = g[u] /\ c[1] = u[1] /\ c[2] <= u[2]

\* inv_lists[s][c]: every vector lies in one cell of the subspace.
Bucket(assign, c) == { v \in Vec : assign[v] = c }

\* The vectors of a set of cells.
VecsIn(assign, S) == { v \in Vec : assign[v] \in S }

\* for (vid : lst) sc_scores[vid]++
Scored(scores, assign, c) ==
  [v \in Vec |-> IF v \in Bucket(assign, c) THEN scores[v] + 1 ELSE scores[v]]

\* S holds the first cells of the grid.
Prefix(g, S) == \A c \in S, u \in Cells \ S : NotAfter(g, c, u)

\* What is left behind by a traversal of grid g for quota q: the cells S taken,
\* the scores sc given, and whether it has returned (fin).
RetrievalResult(g, a, q, S, sc, fin) ==
  /\ g \in Grids /\ a \in [Vec -> Cells] /\ q \in Nat
  /\ S \in SUBSET Cells /\ Prefix(g, S)
  /\ sc \in [Vec -> Nat]
  /\ \A v \in Vec : sc[v] = IF a[v] \in S THEN 1 ELSE 0
  /\ fin => Cardinality(VecsIn(a, S)) >= q \/ S = Cells
  /\ S # {} => \E c \in S : /\ \A u \in S : NotAfter(g, u, c)
                           /\ Cardinality(VecsIn(a, S \ {c})) < q
=============================================================================
