----------------------------- MODULE SuCoRerank -----------------------------
(***************************************************************************)
(* IndexSuCo::rerank: from the SC-scores of all vectors pick the           *)
(* candidate_num best, by score and then by id, and return the k of them   *)
(* that are nearest to the query.  The threshold score is found on a       *)
(* histogram, so that the scores need not be sorted.                       *)
(***************************************************************************)
EXTENDS Integers, Sequences, FiniteSets

CONSTANTS
  N,         \* ntotal
  TopTier,   \* nsubspaces: the highest tier of the histogram
  MaxScore,  \* the highest SC-score there is
  Dists      \* the exact distances a query may have to the N vectors

Vecs == 0 .. N - 1

ASSUME NAssumption     == N \in Nat \ {0} /\ TopTier \in Nat
ASSUME ScoreAssumption == MaxScore \in Nat
ASSUME DistAssumption  == Dists \subseteq [Vecs -> Nat]

VARIABLES
  score,       \* sc_scores                              (input)
  dist,        \* exact distance of each vector          (input)
  k,           \* how many results are asked for         (input)
  cand,        \* candidate_num                          (input)
  pc,          \* "tiers", "gather", "sort" or "done"
  sc,          \* the tier the threshold loop looks at
  cumul,       \* cumul_above
  threshold,   \* threshold_score
  i,           \* the next id of the gather loop
  atCount,     \* at_count
  candidates,  \* the ids gathered
  labels       \* out_labels

input == <<score, dist, k, cand>>
rerankVars  == <<score, dist, k, cand, pc, sc, cumul, threshold, i, atCount,
           candidates, labels>>

InputOK ==
  /\ score \in [Vecs -> 0 .. MaxScore]
  /\ dist \in Dists
  /\ k \in 1 .. N
  /\ cand \in k .. N

\* More candidates asked for than there are vectors: they all are.
Degenerate == cand >= N

RerankInit ==
  /\ InputOK
  /\ pc = IF Degenerate THEN "sort" ELSE "tiers"
  /\ candidates = IF Degenerate THEN [j \in 1 .. N |-> j - 1] ELSE <<>>
  /\ sc = TopTier
  /\ cumul = 0
  /\ threshold = 0
  /\ i = 0
  /\ atCount = 0
  /\ labels = <<>>

----------------------------------------------------------------------------
Tier(t)  == {j \in Vecs : (IF score[j] < TopTier THEN score[j] ELSE TopTier) = t}
ScoreHist(t) == Cardinality(Tier(t))

\* The whole tier sc is among the candidates.
TierFits == cumul + ScoreHist(sc) <= cand

TakeTier ==
  /\ pc = "tiers"
  /\ TierFits
  /\ cumul' = cumul + ScoreHist(sc)
  /\ sc' = sc - 1
  /\ UNCHANGED <<input, pc, threshold, i, atCount, candidates, labels>>

\* The comment of the loop says that it always gets here: see TierFound.
FindThreshold ==
  /\ pc = "tiers"
  /\ ~TierFits
  /\ threshold' = sc
  /\ pc' = "gather"
  /\ UNCHANGED <<input, sc, cumul, i, atCount, candidates, labels>>

----------------------------------------------------------------------------
Above == score[i] > threshold

\* Mutant: the rest of the budget goes to any vector not above the threshold.
AtOrBelow == score[i] <= threshold /\ atCount < cand - cumul

\* Mutant: one id too few of the threshold tier.
AtOneShort == score[i] = threshold /\ atCount + 1 < cand - cumul

\* Vector i is of the threshold tier and there is room left for it.
At == score[i] = threshold /\ atCount < cand - cumul

Gather ==
  /\ pc = "gather"
  /\ i < N
  /\ candidates' = IF Above \/ At THEN Append(candidates, i) ELSE candidates
  /\ atCount' = IF ~Above /\ At THEN atCount + 1 ELSE atCount
  /\ i' = i + 1
  /\ UNCHANGED <<input, pc, sc, cumul, threshold, labels>>

GatherEnds ==
  /\ pc = "gather"
  /\ i = N
  /\ pc' = "sort"
  /\ UNCHANGED <<input, sc, cumul, threshold, i, atCount, candidates, labels>>

----------------------------------------------------------------------------
Chosen == {candidates[j] : j \in 1 .. Len(candidates)}

\* Mutant: the first r candidates, in the order of their ids.
NearestUnsorted(r) == {[j \in 1 .. r |-> candidates[j]]}

\* The first r of an order of the candidates by distance; std::partial_sort
\* may leave ties in any order.
Nearest(r) ==
  {p \in [1 .. r -> Chosen] :
     /\ \A a, b \in 1 .. r : a < b => p[a] # p[b] /\ dist[p[a]] <= dist[p[b]]
     /\ \A a \in 1 .. r, c \in Chosen :
          (\A b \in 1 .. r : p[b] # c) => dist[p[a]] <= dist[c]}

Sort ==
  /\ pc = "sort"
  /\ LET r == IF k < Len(candidates) THEN k ELSE Len(candidates) IN
     \E p \in Nearest(r) :
       labels' = [j \in 1 .. k |-> IF j <= r THEN p[j] ELSE -1]
  /\ pc' = "done"
  /\ UNCHANGED <<input, sc, cumul, threshold, i, atCount, candidates>>

RerankNext == TakeTier \/ FindThreshold \/ Gather \/ GatherEnds \/ Sort

RerankSpec == RerankInit /\ [][RerankNext]_rerankVars

----------------------------------------------------------------------------
RerankTypeOK ==
  /\ InputOK
  /\ pc \in {"tiers", "gather", "sort", "done"}
  /\ sc \in -1 .. TopTier
  /\ cumul \in 0 .. N
  /\ threshold \in 0 .. TopTier
  /\ i \in 0 .. N
  /\ atCount \in 0 .. N
  /\ candidates \in Seq(Vecs)
  /\ labels \in Seq(Vecs \cup {-1})

\* "the loop always breaks before sc reaches -1" (IndexSuCo.cpp:487).
TierFound == pc = "tiers" => sc >= 0

\* "nc == candidate_num by construction" (IndexSuCo.cpp:536): the histogram
\* pass and the gather pass agree on how many vectors are compared.
BudgetExact == pc \in {"sort", "done"} => Len(candidates) = cand

\* Vector a comes before b by score, and by id among equal scores.
Outranks(a, b) == score[a] > score[b] \/ (score[a] = score[b] /\ a < b)

\* What was gathered are the best by score, ties by id, as if all vectors
\* had been sorted.
BestGathered ==
  pc \in {"sort", "done"} =>
    \A a \in Chosen, b \in Vecs \ Chosen : Outranks(a, b)

\* End to end: a vector that is not returned is no nearer than any that is,
\* or as many vectors as the budget outrank it by score.
NothingBetterLeft ==
  pc = "done" =>
    \A b \in Vecs :
      \/ \E a \in 1 .. k : labels[a] = b
      \/ \A a \in 1 .. k : dist[labels[a]] <= dist[b]
      \/ Cardinality({a \in Vecs : Outranks(a, b)}) >= cand
=============================================================================
