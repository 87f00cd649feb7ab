------------------------------ MODULE SuCoProofs ------------------------------
(***************************************************************************)
(* A SuCo query spends its budget exactly and on the best vectors, for any *)
(* number of vectors, any scores, distances and budget (SuCoRerank).  An   *)
(* index that no call stopped half way in is coherent, and one that search *)
(* accepts is backed, whatever the number of subspaces, buckets and        *)
(* vectors, and whatever the trainings learned (SuCoIndex).                *)
(***************************************************************************)
EXTENDS SuCoIndex, SuCoRerank, FiniteSetTheorems, TLAPS

----------------------------------------------------------------------------
(* The query.                                                              *)

Higher(t)  == {j \in Vecs : score[j] > t}
Equal(t)   == {j \in Vecs : score[j] = t}
UpTo(S, x) == {j \in S : j < x}

\* What the threshold loop and the gather loop keep true, each in terms of
\* the vectors it has gone over.
TiersInv ==
  pc = "tiers" => /\ cand < N
                  /\ sc \in 0 .. TopTier
                  /\ cumul = Cardinality(Higher(sc))
                  /\ cumul <= cand
                  /\ i = 0 /\ atCount = 0 /\ candidates = <<>>

RoomInv ==
  /\ threshold \in 0 .. TopTier
  /\ cumul = Cardinality(Higher(threshold))
  /\ cumul <= cand
  /\ cand < cumul + Cardinality(Equal(threshold))

GatherInv ==
  pc = "gather" =>
    /\ RoomInv
    /\ i \in 0 .. N
    /\ atCount \in Nat /\ atCount <= cand - cumul
    /\ atCount < cand - cumul => /\ atCount = Cardinality(UpTo(Equal(threshold), i))
                                 /\ UpTo(Equal(threshold), i) \subseteq Chosen
    /\ Len(candidates) = Cardinality(UpTo(Higher(threshold), i)) + atCount
    /\ UpTo(Higher(threshold), i) \subseteq Chosen
    /\ Chosen \subseteq UpTo(Higher(threshold), i) \cup UpTo(Equal(threshold), i)
    /\ \A a, b \in Equal(threshold) : a < b /\ b \in Chosen => a \in Chosen

RerankInv ==
  /\ InputOK
  /\ pc \in {"tiers", "gather", "sort", "done"}
  /\ candidates \in Seq(Vecs)
  /\ TiersInv
  /\ GatherInv
  /\ BudgetExact
  /\ BestGathered

----------------------------------------------------------------------------
LEMMA VecsFinite == IsFiniteSet(Vecs) /\ Cardinality(Vecs) = N
<1>1. N - 1 >= 0 /\ N \in Nat
  BY NAssumption
<1>. QED  BY <1>1, FS_Interval DEF Vecs

LEMMA Subfinite ==
  ASSUME NEW S \in SUBSET Vecs
  PROVE  IsFiniteSet(S) /\ Cardinality(S) \in Nat /\ Cardinality(S) <= N
BY VecsFinite, FS_Subset, FS_CardinalityType

\* A score is at most the number of subspaces; the histogram clips nothing.
LEMMA TierIsEqual ==
  ASSUME MaxScore <= TopTier, InputOK, NEW t
  PROVE  Tier(t) = Equal(t)
<1>1. \A j \in Vecs : (IF score[j] < TopTier THEN score[j] ELSE TopTier) = score[j]
  BY NAssumption, ScoreAssumption DEF InputOK
<1>. QED  BY <1>1 DEF Tier, Equal

\* Going one tier down adds that tier to what is above.
LEMMA HigherDown ==
  ASSUME MaxScore <= TopTier, InputOK, NEW t \in 0 .. TopTier
  PROVE  Cardinality(Higher(t - 1)) = Cardinality(Higher(t)) + ScoreHist(t)
<1>1. Higher(t - 1) = Higher(t) \cup Equal(t) /\ Higher(t) \cap Equal(t) = {}
  <2>1. \A j \in Vecs : score[j] \in Nat
    BY ScoreAssumption DEF InputOK
  <2>2. \A j \in Vecs : score[j] > t - 1 <=> score[j] > t \/ score[j] = t
    BY <2>1, NAssumption
  <2>3. \A j \in Vecs : ~(score[j] > t /\ score[j] = t)
    BY <2>1, NAssumption
  <2>. QED  BY <2>2, <2>3 DEF Higher, Equal
<1>2. IsFiniteSet(Higher(t)) /\ IsFiniteSet(Equal(t))
  BY Subfinite DEF Higher, Equal
<1>3. Cardinality(Higher(t) \cap Equal(t)) = 0
  BY <1>1, FS_EmptySet
<1>4. Cardinality(Higher(t)) \in Nat /\ Cardinality(Equal(t)) \in Nat
  BY <1>2, FS_CardinalityType
<1>5. Cardinality(Higher(t) \cup Equal(t))
        = Cardinality(Higher(t)) + Cardinality(Equal(t)) - Cardinality(Higher(t) \cap Equal(t))
  BY <1>2, FS_Union
<1>6. ScoreHist(t) = Cardinality(Equal(t))
  BY TierIsEqual DEF ScoreHist
<1>7. Cardinality(Higher(t - 1)) = Cardinality(Higher(t) \cup Equal(t))
  BY <1>1
<1>. QED  BY <1>3, <1>4, <1>5, <1>6, <1>7

\* All vectors are above tier -1, and none is above the highest one.
LEMMA HigherEnds ==
  ASSUME MaxScore <= TopTier, InputOK
  PROVE  Cardinality(Higher(-1)) = N /\ Cardinality(Higher(TopTier)) = 0
<1>1. \A j \in Vecs : score[j] \in 0 .. TopTier
  BY NAssumption, ScoreAssumption DEF InputOK
<1>2. Higher(-1) = Vecs
  BY <1>1, NAssumption DEF Higher
<1>3. Higher(TopTier) = {}
  BY <1>1, NAssumption DEF Higher
<1>. QED  BY <1>2, <1>3, VecsFinite, FS_EmptySet

\* Appending adds one id to the chosen ones.
LEMMA AppendChosen ==
  ASSUME NEW cs \in Seq(Vecs), NEW x \in Vecs
  PROVE  /\ Append(cs, x) \in Seq(Vecs)
         /\ Len(Append(cs, x)) = Len(cs) + 1
         /\ {Append(cs, x)[j] : j \in 1 .. Len(Append(cs, x))}
              = {cs[j] : j \in 1 .. Len(cs)} \cup {x}
<1>1. Len(cs) \in Nat /\ Len(Append(cs, x)) = Len(cs) + 1
  OBVIOUS
<1>2. \A j \in 1 .. Len(cs) : Append(cs, x)[j] = cs[j]
  OBVIOUS
<1>3. Append(cs, x)[Len(cs) + 1] = x
  OBVIOUS
<1>4. 1 .. Len(cs) + 1 = (1 .. Len(cs)) \cup {Len(cs) + 1}
  BY <1>1
<1>. QED  BY <1>1, <1>2, <1>3, <1>4

\* The part of a set below x + 1: its part below x, and x if x is in it.
LEMMA UpToStep ==
  ASSUME NEW S \in SUBSET Vecs, NEW x \in Vecs
  PROVE  /\ UpTo(S, x + 1) = IF x \in S THEN UpTo(S, x) \cup {x} ELSE UpTo(S, x)
         /\ Cardinality(UpTo(S, x + 1)) =
              IF x \in S THEN Cardinality(UpTo(S, x)) + 1 ELSE Cardinality(UpTo(S, x))
<1>0. x \in Nat /\ (\A j \in S : j \in Nat)
  BY NAssumption DEF Vecs
<1>1. \A j \in S : j < x + 1 <=> j < x \/ j = x
  BY <1>0
<1>2. UpTo(S, x + 1) = IF x \in S THEN UpTo(S, x) \cup {x} ELSE UpTo(S, x)
  BY <1>1 DEF UpTo
<1>3. x \notin UpTo(S, x) /\ IsFiniteSet(UpTo(S, x))
  BY <1>0, Subfinite DEF UpTo
<1>4. Cardinality(UpTo(S, x) \cup {x}) = Cardinality(UpTo(S, x)) + 1
  BY <1>3, FS_AddElement
<1>. QED  BY <1>2, <1>4

\* Nothing is below 0, and everything below N.
LEMMA UpToEnds ==
  ASSUME NEW S \in SUBSET Vecs
  PROVE  UpTo(S, 0) = {} /\ Cardinality(UpTo(S, 0)) = 0 /\ UpTo(S, N) = S
<1>0. \A j \in S : j \in Nat /\ j < N /\ ~(j < 0)
  BY NAssumption DEF Vecs
<1>1. UpTo(S, 0) = {} /\ UpTo(S, N) = S
  BY <1>0 DEF UpTo
<1>. QED  BY <1>1, FS_EmptySet

LEMMA HigherEqualSets ==
  ASSUME InputOK, NEW t \in Nat
  PROVE  /\ Higher(t) \in SUBSET Vecs /\ Equal(t) \in SUBSET Vecs
         /\ Higher(t) \cap Equal(t) = {}
         /\ Cardinality(Higher(t)) \in Nat /\ Cardinality(Equal(t)) \in Nat
<1>1. \A j \in Vecs : score[j] \in Nat
  BY ScoreAssumption DEF InputOK
<1>2. \A j \in Vecs : ~(score[j] > t /\ score[j] = t)
  BY <1>1
<1>. QED  BY <1>2, Subfinite DEF Higher, Equal

----------------------------------------------------------------------------
\* In the degenerate case all vectors are candidates.
LEMMA RerankInitInv == MaxScore <= TopTier /\ RerankInit => RerankInv
<1>. SUFFICES ASSUME MaxScore <= TopTier, RerankInit PROVE RerankInv
  OBVIOUS
<1>0. InputOK /\ N \in Nat \ {0} /\ TopTier \in Nat /\ cand \in Nat /\ cand <= N
  BY NAssumption DEF RerankInit, InputOK
<1>1. CASE Degenerate
  <2>1. cand = N
    BY <1>0, <1>1 DEF Degenerate
  <2>2. candidates = [j \in 1 .. N |-> j - 1] /\ pc = "sort"
    BY <1>1 DEF RerankInit
  <2>3. candidates \in Seq(Vecs) /\ Len(candidates) = N
    BY <1>0, <2>2 DEF Vecs
  <2>4. Vecs \subseteq Chosen
    <3>1. ASSUME NEW a \in Vecs PROVE a \in Chosen
      <4>1. a + 1 \in 1 .. N /\ candidates[a + 1] = a
        BY <1>0, <2>2 DEF Vecs
      <4>. QED  BY <4>1, <2>3 DEF Chosen
    <3>. QED  BY <3>1
  <2>. QED  BY <1>0, <2>1, <2>2, <2>3, <2>4 DEF RerankInv, TiersInv, GatherInv,
            BudgetExact, BestGathered
<1>2. CASE ~Degenerate
  <2>1. /\ pc = "tiers" /\ candidates = <<>> /\ sc = TopTier /\ cumul = 0
        /\ i = 0 /\ atCount = 0
    BY <1>2 DEF RerankInit
  <2>2. cand < N
    BY <1>0, <1>2 DEF Degenerate
  <2>3. TiersInv
    BY <1>0, <2>1, <2>2, HigherEnds DEF TiersInv
  <2>4. candidates \in Seq(Vecs)
    BY <2>1
  <2>. QED  BY <1>0, <2>1, <2>3, <2>4 DEF RerankInv, GatherInv, BudgetExact,
            BestGathered
<1>. QED  BY <1>1, <1>2

\* One step of the threshold loop.  It cannot run out of tiers: above tier -1
\* are all N vectors, more than the budget.
LEMMA TakeTierInv ==
  ASSUME MaxScore <= TopTier, RerankInv, TakeTier
  PROVE  RerankInv'
<1>0. /\ pc = "tiers" /\ sc \in 0 .. TopTier /\ cand < N /\ TopTier \in Nat
      /\ cumul = Cardinality(Higher(sc)) /\ InputOK /\ N \in Nat
      /\ cand \in Nat
  BY NAssumption DEF TakeTier, RerankInv, TiersInv, InputOK
<1>1. cumul' = Cardinality(Higher(sc - 1))
  BY <1>0, HigherDown DEF TakeTier
<1>2. cumul' <= cand
  BY <1>0 DEF TakeTier, TierFits
<1>3. sc # 0
  <2>. SUFFICES ASSUME sc = 0 PROVE FALSE
    OBVIOUS
  <2>1. cumul' = N
    BY <1>0, <1>1, HigherEnds
  <2>. QED  BY <1>0, <1>2, <2>1
<1>4. sc' \in 0 .. TopTier /\ sc' = sc - 1
  BY <1>0, <1>3 DEF TakeTier
<1>5. score' = score
  BY DEF TakeTier, input
<1>6. cumul' = Cardinality({j \in Vecs : score'[j] > sc'})
  BY <1>1, <1>4, <1>5 DEF Higher
<1>7. TiersInv'
  BY <1>0, <1>2, <1>4, <1>6 DEF TakeTier, input, TiersInv, RerankInv, Higher
<1>. QED  BY <1>0, <1>7 DEF TakeTier, input, RerankInv, InputOK, GatherInv,
          BudgetExact, BestGathered

LEMMA FindThresholdInv ==
  ASSUME MaxScore <= TopTier, RerankInv, FindThreshold
  PROVE  RerankInv'
<1>0. /\ pc = "tiers" /\ sc \in 0 .. TopTier /\ TopTier \in Nat /\ N \in Nat
      /\ cumul = Cardinality(Higher(sc)) /\ InputOK /\ cand \in Nat
      /\ cumul <= cand /\ i = 0 /\ atCount = 0 /\ candidates = <<>>
  BY NAssumption DEF FindThreshold, RerankInv, TiersInv, InputOK
<1>1. /\ pc' = "gather" /\ threshold' = sc
      /\ UNCHANGED <<score, dist, k, cand, sc, cumul, i, atCount, candidates, labels>>
  BY DEF FindThreshold, input
<1>2. Cardinality(Equal(sc)) \in Nat /\ cumul \in Nat
  BY <1>0, HigherEqualSets
<1>3. cand < cumul + Cardinality(Equal(sc))
  BY <1>0, <1>2, TierIsEqual DEF FindThreshold, TierFits, ScoreHist
<1>4. Higher(threshold)' = Higher(sc) /\ Equal(threshold)' = Equal(sc)
  BY <1>1 DEF Higher, Equal
<1>5. RoomInv'
  BY <1>0, <1>1, <1>3, <1>4 DEF RoomInv
<1>6. /\ UpTo(Higher(threshold), i)' = {} /\ UpTo(Equal(threshold), i)' = {}
      /\ Cardinality({}) = 0
  <2>1. UpTo(Higher(sc), 0) = {} /\ UpTo(Equal(sc), 0) = {}
    <3>1. sc \in Nat
      BY <1>0
    <3>2. Higher(sc) \in SUBSET Vecs /\ Equal(sc) \in SUBSET Vecs
      BY <1>0, <3>1, HigherEqualSets
    <3>. QED  BY <3>2, UpToEnds
  <2>2. UpTo(Higher(threshold), i)' = UpTo(Higher(sc), 0)
        /\ UpTo(Equal(threshold), i)' = UpTo(Equal(sc), 0)
    BY <1>0, <1>1, <1>4 DEF UpTo
  <2>. QED  BY <2>1, <2>2, FS_EmptySet
<1>7. Chosen' = {} /\ Len(candidates') = 0
  BY <1>0, <1>1 DEF Chosen
<1>8. GatherInv'
  <2>1. i' \in 0 .. N /\ atCount' \in Nat /\ atCount' <= cand' - cumul'
    BY <1>0, <1>1, <1>2
  <2>2. atCount' = Cardinality(UpTo(Equal(threshold), i)')
        /\ Len(candidates') = Cardinality(UpTo(Higher(threshold), i)') + atCount'
    <3>1. atCount' = 0 /\ Len(candidates') = 0
      BY <1>0, <1>1
    <3>. QED  BY <1>6, <3>1
  <2>. QED  BY <1>5, <1>6, <1>7, <2>1, <2>2 DEF GatherInv
<1>. QED  BY <1>0, <1>1, <1>8 DEF RerankInv, InputOK, TiersInv, BudgetExact, BestGathered

\* One step of the gather loop, for an id of each of the three kinds.
LEMMA GatherStepInv ==
  ASSUME MaxScore <= TopTier, RerankInv, Gather
  PROVE  RerankInv'
<1> DEFINE H == Higher(threshold)
           E == Equal(threshold)
<1>0. /\ pc = "gather" /\ InputOK /\ RoomInv /\ i \in Vecs /\ i \in Nat
      /\ N \in Nat /\ TopTier \in Nat /\ cand \in Nat /\ threshold \in Nat
      /\ candidates \in Seq(Vecs) /\ atCount \in Nat /\ i + 1 \in 0 .. N
  <2>1. pc = "gather" /\ InputOK /\ RoomInv /\ i \in 0 .. N /\ i < N
        /\ candidates \in Seq(Vecs) /\ atCount \in Nat
    BY DEF Gather, RerankInv, GatherInv
  <2>2. N \in Nat /\ TopTier \in Nat /\ cand \in Nat /\ threshold \in Nat
    BY <2>1, NAssumption DEF InputOK, RoomInv
  <2>3. i \in Nat /\ i \in Vecs /\ i + 1 \in 0 .. N
    BY <2>1, <2>2 DEF Vecs
  <2>4. QED
    BY <2>1, <2>2, <2>3
<1>1. UNCHANGED <<score, dist, k, cand, pc, sc, cumul, threshold, labels>>
      /\ i' = i + 1
  BY DEF Gather, input
<1>2. RoomInv' /\ H' = H /\ E' = E
  BY <1>0, <1>1 DEF RoomInv, Higher, Equal
<1>3. /\ H \in SUBSET Vecs /\ E \in SUBSET Vecs /\ H \cap E = {}
      /\ cumul \in Nat
  BY <1>0, HigherEqualSets DEF RoomInv
<1>4. UpTo(H, i)' = UpTo(H, i + 1) /\ UpTo(E, i)' = UpTo(E, i + 1)
  BY <1>1, <1>2 DEF UpTo
<1>5. /\ UpTo(H, i + 1) = IF i \in H THEN UpTo(H, i) \cup {i} ELSE UpTo(H, i)
      /\ Cardinality(UpTo(H, i + 1)) =
           IF i \in H THEN Cardinality(UpTo(H, i)) + 1 ELSE Cardinality(UpTo(H, i))
      /\ UpTo(E, i + 1) = IF i \in E THEN UpTo(E, i) \cup {i} ELSE UpTo(E, i)
      /\ Cardinality(UpTo(E, i + 1)) =
           IF i \in E THEN Cardinality(UpTo(E, i)) + 1 ELSE Cardinality(UpTo(E, i))
  BY <1>0, <1>3, UpToStep
<1>6. /\ Cardinality(UpTo(H, i)) \in Nat /\ Cardinality(UpTo(E, i)) \in Nat
  <2>1. UpTo(H, i) \in SUBSET Vecs /\ UpTo(E, i) \in SUBSET Vecs
    BY <1>3 DEF UpTo
  <2>. QED  BY <2>1, Subfinite
<1>7. /\ atCount <= cand - cumul
      /\ atCount < cand - cumul => /\ atCount = Cardinality(UpTo(E, i))
                                   /\ UpTo(E, i) \subseteq Chosen
      /\ Len(candidates) = Cardinality(UpTo(H, i)) + atCount
      /\ UpTo(H, i) \subseteq Chosen
      /\ Chosen \subseteq UpTo(H, i) \cup UpTo(E, i)
      /\ \A a, b \in E : a < b /\ b \in Chosen => a \in Chosen
  BY <1>0 DEF RerankInv, GatherInv
<1>8. Above <=> i \in H
  BY <1>0 DEF Above, Higher
<1>9. At <=> i \in E /\ atCount < cand - cumul
  BY <1>0 DEF At, Equal
<1>10. ASSUME candidates' = Append(candidates, i)
       PROVE  /\ candidates' \in Seq(Vecs) /\ Len(candidates') = Len(candidates) + 1
              /\ Chosen' = Chosen \cup {i}
  BY <1>0, <1>10, AppendChosen DEF Chosen
<1>11. ASSUME candidates' = candidates
       PROVE  candidates' \in Seq(Vecs) /\ Chosen' = Chosen
  BY <1>0, <1>11 DEF Chosen
<1>12. i \notin UpTo(E, i) /\ i \notin UpTo(H, i)
  BY <1>0 DEF UpTo
<1>13. Len(candidates) \in Nat
  BY <1>0
<1> DEFINE Kept ==
      /\ candidates' \in Seq(Vecs)
      /\ atCount' \in Nat /\ atCount' <= cand - cumul
      /\ atCount' < cand - cumul => /\ atCount' = Cardinality(UpTo(E, i + 1))
                                    /\ UpTo(E, i + 1) \subseteq Chosen'
      /\ Len(candidates') = Cardinality(UpTo(H, i + 1)) + atCount'
      /\ UpTo(H, i + 1) \subseteq Chosen'
      /\ Chosen' \subseteq UpTo(H, i + 1) \cup UpTo(E, i + 1)
      /\ \A a, b \in E : a < b /\ b \in Chosen' => a \in Chosen'
<1>14. ASSUME i \in H PROVE Kept
  <2>1. candidates' = Append(candidates, i) /\ atCount' = atCount /\ i \notin E
    BY <1>3, <1>8, <1>14 DEF Gather
  <2>2. Chosen' = Chosen \cup {i} /\ Len(candidates') = Len(candidates) + 1
        /\ candidates' \in Seq(Vecs)
    BY <1>10, <2>1
  <2>3. Len(candidates') = Cardinality(UpTo(H, i + 1)) + atCount'
    BY <1>0, <1>5, <1>6, <1>7, <1>14, <2>1, <2>2
  <2>. QED  BY <1>0, <1>5, <1>7, <1>14, <2>1, <2>2, <2>3
<1>15. ASSUME i \in E /\ atCount < cand - cumul PROVE Kept
  <2>1. candidates' = Append(candidates, i) /\ atCount' = atCount + 1 /\ i \notin H
    BY <1>3, <1>8, <1>9, <1>15 DEF Gather
  <2>2. Chosen' = Chosen \cup {i} /\ Len(candidates') = Len(candidates) + 1
        /\ candidates' \in Seq(Vecs)
    BY <1>10, <2>1
  <2>3. Len(candidates') = Cardinality(UpTo(H, i + 1)) + atCount'
    BY <1>0, <1>5, <1>6, <1>7, <1>13, <2>1, <2>2
  <2>4. atCount' \in Nat /\ atCount' <= cand - cumul
        /\ atCount' = Cardinality(UpTo(E, i + 1))
    BY <1>0, <1>3, <1>5, <1>7, <1>15, <2>1
  <2>5. UpTo(E, i + 1) \subseteq Chosen' /\ UpTo(H, i + 1) \subseteq Chosen'
        /\ Chosen' \subseteq UpTo(H, i + 1) \cup UpTo(E, i + 1)
    BY <1>5, <1>7, <1>15, <2>1, <2>2
  <2>6. ASSUME NEW a \in E, NEW b \in E, a < b, b \in Chosen' PROVE a \in Chosen'
    <3>1. CASE b = i
      BY <1>7, <1>15, <2>2, <2>6, <3>1 DEF UpTo
    <3>2. CASE b # i
      BY <1>7, <2>2, <2>6, <3>2
    <3>. QED  BY <3>1, <3>2
  <2>. QED  BY <2>2, <2>3, <2>4, <2>5, <2>6
<1>16. ASSUME i \notin H /\ ~(i \in E /\ atCount < cand - cumul) PROVE Kept
  <2>1. candidates' = candidates /\ atCount' = atCount
    BY <1>8, <1>9, <1>16 DEF Gather
  <2>2. Chosen' = Chosen /\ candidates' \in Seq(Vecs)
    BY <1>11, <2>1
  <2>. QED  BY <1>0, <1>5, <1>7, <1>16, <2>1, <2>2
<1>17. Kept
  BY <1>14, <1>15, <1>16, Zenon
<1>18. GatherInv'
  <2>1. i' \in 0 .. N /\ cand' - cumul' = cand - cumul
    BY <1>0, <1>1
  <2>. QED  BY <1>2, <1>4, <1>17, <2>1 DEF GatherInv
<1>19. pc' = "gather" /\ InputOK'
  BY <1>0, <1>1 DEF InputOK
<1>. QED  BY <1>17, <1>18, <1>19 DEF RerankInv, TiersInv, BudgetExact, BestGathered

\* All ids gone over: the threshold tier has filled what was left of the
\* budget, since it holds more than that.
LEMMA GatherEndsInv ==
  ASSUME MaxScore <= TopTier, RerankInv, GatherEnds
  PROVE  RerankInv'
<1> DEFINE H == Higher(threshold)
           E == Equal(threshold)
<1>0. /\ i = N /\ InputOK /\ RoomInv /\ N \in Nat /\ cand \in Nat
      /\ threshold \in Nat /\ candidates \in Seq(Vecs) /\ atCount \in Nat
  BY NAssumption DEF GatherEnds, RerankInv, GatherInv, InputOK, RoomInv
<1>1. /\ H \in SUBSET Vecs /\ E \in SUBSET Vecs /\ cumul \in Nat
      /\ Cardinality(H) \in Nat /\ Cardinality(E) \in Nat
      /\ cumul = Cardinality(H) /\ cand < cumul + Cardinality(E)
  BY <1>0, HigherEqualSets DEF RoomInv
<1>2. UpTo(H, i) = H /\ UpTo(E, i) = E
  BY <1>0, <1>1, UpToEnds
<1>3. /\ atCount <= cand - cumul
      /\ atCount < cand - cumul => atCount = Cardinality(E)
      /\ Len(candidates) = Cardinality(H) + atCount
      /\ H \subseteq Chosen
      /\ Chosen \subseteq H \cup E
      /\ \A a, b \in E : a < b /\ b \in Chosen => a \in Chosen
  BY <1>2 DEF GatherEnds, RerankInv, GatherInv
<1>4. atCount = cand - cumul
  BY <1>0, <1>1, <1>3
<1>5. Len(candidates) = cand
  BY <1>0, <1>1, <1>3, <1>4
<1>6. ASSUME NEW a \in Chosen, NEW b \in Vecs \ Chosen PROVE Outranks(a, b)
  <2>0. a \in Vecs /\ b \in Vecs /\ score[a] \in Nat /\ score[b] \in Nat
        /\ a \in Nat /\ b \in Nat
    <3>1. a \in Vecs /\ b \in Vecs
      BY <1>1, <1>3
    <3>2. \A j \in Vecs : j \in Nat /\ score[j] \in Nat
      BY <1>0, NAssumption, ScoreAssumption DEF InputOK, Vecs
    <3>. QED  BY <3>1, <3>2
  <2>1. score[a] >= threshold
    BY <1>0, <1>3, <2>0 DEF Higher, Equal
  <2>2. score[b] <= threshold
    BY <1>0, <1>3, <2>0 DEF Higher
  <2>3. CASE score[a] = threshold /\ score[b] = threshold
    <3>1. a \in E /\ b \in E
      BY <2>0, <2>3 DEF Equal
    <3>2. ~(b < a) /\ a # b
      BY <1>3, <3>1
    <3>. QED  BY <2>0, <2>3, <3>2 DEF Outranks
  <2>4. CASE ~(score[a] = threshold /\ score[b] = threshold)
    BY <1>0, <2>0, <2>1, <2>2, <2>4 DEF Outranks
  <2>. QED  BY <2>3, <2>4
<1>7. /\ pc' = "sort"
      /\ UNCHANGED <<score, dist, k, cand, candidates>>
  BY DEF GatherEnds, input
<1>8. BestGathered'
  BY <1>6, <1>7 DEF BestGathered, Chosen, Outranks
<1>. QED  BY <1>0, <1>5, <1>7, <1>8 DEF RerankInv, InputOK, TiersInv, GatherInv, BudgetExact

LEMMA RerankStepInv == MaxScore <= TopTier /\ RerankInv /\ [RerankNext]_rerankVars => RerankInv'
<1>. SUFFICES ASSUME MaxScore <= TopTier, RerankInv, [RerankNext]_rerankVars PROVE RerankInv'
  OBVIOUS
<1>1. CASE Sort
  BY <1>1 DEF Sort, input, RerankInv, InputOK, TiersInv, GatherInv, BudgetExact,
     BestGathered, Chosen, Outranks
<1>2. CASE UNCHANGED rerankVars
  BY <1>2 DEF rerankVars, input, RerankInv, InputOK, TiersInv, GatherInv, RoomInv,
     BudgetExact, BestGathered, Chosen, Outranks, Higher, Equal, UpTo
<1>. QED  BY <1>1, <1>2, TakeTierInv, FindThresholdInv, GatherStepInv,
          GatherEndsInv DEF RerankNext

\* Exactly candidate_num vectors are compared, whatever the scores.
THEOREM BudgetAlwaysExact ==
  ASSUME MaxScore <= TopTier
  PROVE  RerankSpec => []BudgetExact
<1>1. RerankInv => BudgetExact
  BY DEF RerankInv
<1>. QED  BY <1>1, RerankInitInv, RerankStepInv, PTL DEF RerankSpec

\* They are the best by score, ties by id.
THEOREM BestAlwaysGathered ==
  ASSUME MaxScore <= TopTier
  PROVE  RerankSpec => []BestGathered
<1>1. RerankInv => BestGathered
  BY DEF RerankInv
<1>. QED  BY <1>1, RerankInitInv, RerankStepInv, PTL DEF RerankSpec

\* The threshold loop never runs off the histogram.
THEOREM TierAlwaysFound ==
  ASSUME MaxScore <= TopTier
  PROVE  RerankSpec => []TierFound
<1>1. RerankInv => TierFound
  BY NAssumption DEF RerankInv, TiersInv, TierFound
<1>. QED  BY <1>1, RerankInitInv, RerankStepInv, PTL DEF RerankSpec
----------------------------------------------------------------------------
(* The results.                                                            *)

\* No id is gathered twice.
ChosenOnce == Cardinality(Chosen) = Len(candidates)

EndInv == RerankInv /\ ChosenOnce /\ NothingBetterLeft

LEMMA ChosenOnceInit == MaxScore <= TopTier /\ RerankInit => ChosenOnce
<1>. SUFFICES ASSUME MaxScore <= TopTier, RerankInit PROVE ChosenOnce
  OBVIOUS
<1>1. CASE Degenerate
  <2>1. cand = N /\ pc = "sort" /\ candidates = [j \in 1 .. N |-> j - 1]
    BY <1>1, NAssumption DEF RerankInit, InputOK, Degenerate
  <2>2. Len(candidates) = N
    BY <2>1, NAssumption
  <2>3. Chosen = Vecs
    <3>1. ASSUME NEW a \in Vecs PROVE a \in Chosen
      <4>1. a + 1 \in 1 .. N /\ candidates[a + 1] = a
        BY <2>1, NAssumption DEF Vecs
      <4>. QED  BY <4>1, <2>2 DEF Chosen
    <3>2. Chosen \subseteq Vecs
      BY <2>1, <2>2, NAssumption DEF Chosen, Vecs
    <3>. QED  BY <3>1, <3>2
  <2>. QED  BY <2>2, <2>3, VecsFinite DEF ChosenOnce
<1>2. CASE ~Degenerate
  <2>1. candidates = <<>>
    BY <1>2 DEF RerankInit
  <2>2. Chosen = {} /\ Len(candidates) = 0
    BY <2>1 DEF Chosen
  <2>. QED  BY <2>2, FS_EmptySet DEF ChosenOnce
<1>. QED  BY <1>1, <1>2

\* The gather loop adds ids it has not come to before.
LEMMA ChosenOnceStep == RerankInv /\ ChosenOnce /\ [RerankNext]_rerankVars => ChosenOnce'
<1>. SUFFICES ASSUME RerankInv, ChosenOnce, [RerankNext]_rerankVars PROVE ChosenOnce'
  OBVIOUS
<1>1. CASE candidates' = candidates
  BY <1>1 DEF ChosenOnce, Chosen
<1>2. CASE Gather /\ candidates' = Append(candidates, i)
  <2>1. /\ pc = "gather" /\ i \in Vecs /\ i \in Nat /\ candidates \in Seq(Vecs)
        /\ Chosen \subseteq UpTo(Higher(threshold), i) \cup UpTo(Equal(threshold), i)
    BY <1>2, NAssumption DEF Gather, RerankInv, GatherInv, Vecs
  <2>2. i \notin Chosen
    BY <2>1 DEF UpTo
  <2>3. Chosen' = Chosen \cup {i} /\ Len(candidates') = Len(candidates) + 1
    BY <1>2, <2>1, AppendChosen DEF Chosen
  <2>4. IsFiniteSet(Chosen)
    <3>1. Chosen \in SUBSET Vecs
      BY <2>1 DEF Chosen
    <3>. QED  BY <3>1, Subfinite
  <2>. QED  BY <2>2, <2>3, <2>4, FS_AddElement DEF ChosenOnce
<1>. QED  BY <1>1, <1>2 DEF RerankNext, TakeTier, FindThreshold, Gather, GatherEnds, Sort, rerankVars

\* The sort: what is left out of the candidates is outranked by all of them,
\* and what is left out of the results is not nearer than any.
LEMMA SortResult == ASSUME RerankInv, ChosenOnce, Sort PROVE NothingBetterLeft'
<1>1. /\ pc = "sort" /\ InputOK /\ candidates \in Seq(Vecs) /\ BestGathered
      /\ Len(candidates) = cand /\ k \in Nat /\ k >= 1 /\ cand \in Nat /\ k <= cand
  BY NAssumption DEF Sort, RerankInv, BudgetExact, InputOK
<1>2. PICK p \in Nearest(k) :
        labels' = [j \in 1 .. k |-> IF j <= k THEN p[j] ELSE -1]
  <2>1. (IF k < Len(candidates) THEN k ELSE Len(candidates)) = k
    BY <1>1
  <2>. QED  BY <2>1 DEF Sort
<1>3. UNCHANGED <<score, dist, k, cand>>
  BY DEF Sort, input
<1>4. \A j \in 1 .. k : labels'[j] = p[j] /\ p[j] \in Chosen
  BY <1>1, <1>2 DEF Nearest
<1>5. ASSUME NEW b \in Chosen
      PROVE  \/ \E a \in 1 .. k : labels'[a] = b
             \/ \A a \in 1 .. k : dist[labels'[a]] <= dist[b]
  <2>1. \A a \in 1 .. k, c \in Chosen :
          (\A e \in 1 .. k : p[e] # c) => dist[p[a]] <= dist[c]
    BY <1>2 DEF Nearest
  <2>. QED  BY <1>4, <2>1
<1>6. ASSUME NEW b \in Vecs \ Chosen
      PROVE  Cardinality({a \in Vecs : Outranks(a, b)}) >= cand
  <2> DEFINE Higher0 == {a \in Vecs : Outranks(a, b)}
  <2>1. Chosen \subseteq Higher0
    BY <1>1, <1>6 DEF BestGathered, Chosen
  <2>2. Higher0 \in SUBSET Vecs
    OBVIOUS
  <2>3. IsFiniteSet(Higher0) /\ Cardinality(Higher0) \in Nat
    BY <2>2, Subfinite
  <2> HIDE DEF Higher0
  <2>4. Cardinality(Chosen) <= Cardinality(Higher0)
    BY <2>1, <2>3, FS_Subset
  <2>5. Cardinality(Chosen) = cand
    BY <1>1 DEF ChosenOnce
  <2>6. Cardinality(Higher0) >= cand
    BY <1>1, <2>3, <2>4, <2>5
  <2>. QED  BY <2>6 DEF Higher0
<1>. QED  BY <1>3, <1>5, <1>6 DEF NothingBetterLeft, Outranks

LEMMA EndInvStep == MaxScore <= TopTier /\ EndInv /\ [RerankNext]_rerankVars => EndInv'
<1>. SUFFICES ASSUME MaxScore <= TopTier, EndInv, [RerankNext]_rerankVars PROVE EndInv'
  OBVIOUS
<1>1. RerankInv' /\ ChosenOnce'
  BY RerankStepInv, ChosenOnceStep DEF EndInv
<1>2. NothingBetterLeft'
  <2>1. CASE Sort
    BY <2>1, SortResult DEF EndInv
  <2>2. CASE ~Sort
    <3>1. pc' = "done" => UNCHANGED rerankVars
      BY <2>2 DEF RerankNext, TakeTier, FindThreshold, Gather, GatherEnds, EndInv, RerankInv, rerankVars
    <3>. QED  BY <3>1 DEF EndInv, NothingBetterLeft, Outranks, rerankVars
  <2>. QED  BY <2>1, <2>2
<1>. QED  BY <1>1, <1>2 DEF EndInv

\* End to end: a vector that rerank does not return is no nearer to the query
\* than any that it returns, or as many as the budget outrank it by score.
THEOREM NothingBetterIsLeft ==
  ASSUME MaxScore <= TopTier
  PROVE  RerankSpec => []NothingBetterLeft
<1>1. RerankInit => EndInv
  BY RerankInitInv, ChosenOnceInit DEF EndInv, NothingBetterLeft, RerankInit
<1>2. EndInv => NothingBetterLeft
  BY DEF EndInv
<1>. QED  BY <1>1, <1>2, EndInvStep, PTL DEF RerankSpec

----------------------------------------------------------------------------
(* The index.                                                              *)

\* What write_index was asked to write is as sound as the object was.
FileInv ==
  cut > 0 =>
    /\ fileDamage = "none"  => Fit(file.cents, file.lists, file.xb, file.ntotal)
    /\ fileDamage # "torn" => Backed(file.cents, file.lists, file.xb, file.ntotal)

\* The strengthening: the two properties need the same of the stream.
IndexInv == TypeOK /\ Coherent /\ OpenIsBacked /\ FileInv

\* Taking the ids of a batch keeps the shape of the lists.
LEMMA PushedType ==
  ASSUME TypeOK, NEW batch \in Batches, NEW upto \in 0 .. NS
  PROVE  Pushed(batch, upto) \in Lists
<1>1. \A s \in Sub, b \in Bucket, id \in Ids : lists[s][b][id] \in Nat
  BY DEF TypeOK, Lists
<1>2. \A s \in Sub, b \in Bucket, id \in Ids : lists[s][b][id] + 1 \in Nat
  BY <1>1
<1>. QED  BY <1>1, <1>2 DEF Pushed, Lists

\* Appending a batch: the length, and which vector stands where.
LEMMA AppendFacts ==
  ASSUME NEW x \in Stored, NEW y \in Stored
  PROVE  /\ x \o y \in Stored
         /\ Len(x \o y) = Len(x) + Len(y)
         /\ Len(x) \in Nat /\ Len(y) \in Nat
         /\ \A id \in 1 .. Len(x) : (x \o y)[id] = x[id]
         /\ \A id \in 1 .. Len(y) : (x \o y)[Len(x) + id] = y[id]
BY DEF Stored

LEMMA BatchesStored == Batches \subseteq Stored
<1>1. Seq(Vector) \subseteq Seq(Vector \cup {Junk})
  OBVIOUS
<1>. QED  BY <1>1, BatchAssumption DEF Stored

\* A complete add keeps lists, vectors and count in step: an id of the batch
\* was nowhere, and goes to the bucket of the vector stored under it.
LEMMA AddFits ==
  ASSUME TypeOK, NEW batch \in Batches, Fit(cents, lists, xb, ntotal)
  PROVE  Fit(cents, Pushed(batch, NS), xb \o batch, ntotal + Len(batch))
<1>1. batch \in Stored /\ xb \in Stored
  BY BatchesStored DEF TypeOK
<1>2. Len(xb) = ntotal
  BY DEF Fit
<1>3. Len(xb \o batch) = ntotal + Len(batch)
  BY <1>1, <1>2, AppendFacts
<1>4. ASSUME NEW s \in Sub, NEW b \in Bucket, NEW id \in Ids
      PROVE  Pushed(batch, NS)[s][b][id] =
               IF id < ntotal + Len(batch) /\ CellOf[cents][s][(xb \o batch)[id + 1]] = b
               THEN 1 ELSE 0
  <2>0. /\ ntotal \in Nat /\ Len(batch) \in Nat /\ id \in Nat /\ s <= NS
    BY <1>1, AppendFacts, NSAssumption, BoundAssumption DEF TypeOK, Ids, Sub
  <2>1. Pushed(batch, NS)[s][b][id] =
          IF /\ s <= NS
             /\ ntotal <= id /\ id < ntotal + Len(batch)
             /\ CellOf[cents][s][batch[id - ntotal + 1]] = b
          THEN lists[s][b][id] + 1
          ELSE lists[s][b][id]
    BY DEF Pushed
  <2>2. lists[s][b][id] = IF id < ntotal /\ CellOf[cents][s][xb[id + 1]] = b THEN 1 ELSE 0
    BY DEF Fit
  <2>3. CASE id < ntotal
    <3>1. id + 1 \in 1 .. Len(xb)
      BY <2>0, <2>3, <1>2
    <3>2. (xb \o batch)[id + 1] = xb[id + 1]
      BY <3>1, <1>1, AppendFacts
    <3>3. ~(ntotal <= id) /\ id < ntotal + Len(batch)
      BY <2>0, <2>3
    <3>. QED  BY <2>1, <2>2, <2>3, <3>2, <3>3
  <2>4. CASE ntotal <= id /\ id < ntotal + Len(batch)
    <3>1. id - ntotal + 1 \in 1 .. Len(batch)
      BY <2>0, <2>4
    <3>2. (xb \o batch)[Len(xb) + (id - ntotal + 1)] = batch[id - ntotal + 1]
      BY <3>1, <1>1, AppendFacts
    <3>3. Len(xb) + (id - ntotal + 1) = id + 1
      BY <2>0, <1>2
    <3>4. (xb \o batch)[id + 1] = batch[id - ntotal + 1]
      BY <3>2, <3>3
    <3>5. ~(id < ntotal)
      BY <2>0, <2>4
    <3>6. lists[s][b][id] = 0
      BY <2>2, <3>5
    <3>. QED  BY <2>0, <2>1, <2>4, <3>4, <3>6
  <2>5. CASE ~(id < ntotal + Len(batch))
    <3>1. ~(id < ntotal)
      BY <2>0, <2>5
    <3>. QED  BY <2>1, <2>2, <2>5, <3>1
  <2>6. \/ id < ntotal
        \/ ntotal <= id /\ id < ntotal + Len(batch)
        \/ ~(id < ntotal + Len(batch))
    BY <2>0
  <2>. QED  BY <2>3, <2>4, <2>5, <2>6, Zenon
<1>. QED  BY <1>3, <1>4 DEF Fit

\* A batch leaves an index backed, whether all subspaces take it or not: its
\* vectors are stored before its ids go anywhere.
LEMMA PushedBacked ==
  ASSUME TypeOK, NEW batch \in Batches, NEW upto \in 0 .. NS, NEW n \in Nat,
         Backed(cents, lists, xb, ntotal), n <= ntotal + Len(batch)
  PROVE  Backed(cents, Pushed(batch, upto), xb \o batch, n)
<1>1. batch \in Stored /\ xb \in Stored /\ ntotal \in Nat
  BY BatchesStored, BoundAssumption DEF TypeOK
<1>2. Len(xb \o batch) = Len(xb) + Len(batch) /\ Len(xb) \in Nat /\ Len(batch) \in Nat
  BY <1>1, AppendFacts
<1>3. cents \in Model /\ ntotal <= Len(xb)
  BY DEF Backed
<1>4. n <= Len(xb \o batch)
  BY <1>1, <1>2, <1>3
<1>5. ASSUME NEW s \in Sub, NEW b \in Bucket, NEW id \in Ids,
             Pushed(batch, upto)[s][b][id] > 0
      PROVE  id < Len(xb \o batch)
  <2>1. id \in Nat
    BY BoundAssumption DEF Ids
  <2>2. CASE ntotal <= id /\ id < ntotal + Len(batch)
    BY <1>1, <1>2, <1>3, <2>1, <2>2
  <2>3. CASE ~(ntotal <= id /\ id < ntotal + Len(batch))
    <3>1. Pushed(batch, upto)[s][b][id] = lists[s][b][id]
      BY <2>3 DEF Pushed
    <3>2. id < Len(xb)
      BY <3>1, <1>5 DEF Backed
    <3>. QED  BY <1>2, <2>1, <3>2
  <2>. QED  BY <2>2, <2>3
<1>. QED  BY <1>3, <1>4, <1>5 DEF Backed

\* Reading a part of a subspace leaves it with the shape of lists.
LEMMA TornListsType ==
  ASSUME NEW old \in [Bucket -> [Ids -> Nat]], NEW new \in [Bucket -> [Ids -> Nat]],
         NEW torn \in TornLists(old, new)
  PROVE  torn \in [Bucket -> [Ids -> Nat]]
<1>1. ASSUME NEW last \in Bucket, NEW t \in TornBucket(old[last], new[last])
      PROVE  t \in [Ids -> Nat]
  BY <1>1 DEF TornBucket
<1>2. PICK last \in Bucket : torn \in
        UNION {{[b \in Bucket |-> IF b = last THEN t ELSE IF b \in read THEN new[b] ELSE old[b]] :
                  t \in TornBucket(old[last], new[last])} : read \in SUBSET Bucket}
  BY DEF TornLists
<1>3. PICK read \in SUBSET Bucket : torn \in
        {[b \in Bucket |-> IF b = last THEN t ELSE IF b \in read THEN new[b] ELSE old[b]] :
           t \in TornBucket(old[last], new[last])}
  BY <1>2
<1>4. PICK t \in TornBucket(old[last], new[last]) :
        torn = [b \in Bucket |-> IF b = last THEN t ELSE IF b \in read THEN new[b] ELSE old[b]]
  BY <1>3
<1>. QED  BY <1>1, <1>4

\* The same of the vectors.
LEMMA TornVectorsType ==
  ASSUME NEW old \in Stored, NEW new \in Stored, NEW torn \in TornVectors(old, new)
  PROVE  torn \in Stored
<1>1. CASE torn = old
  BY <1>1
<1>2. ASSUME NEW n \in DOMAIN new,
             torn = [j \in DOMAIN new |-> IF j < n THEN new[j]
                                          ELSE IF n < j /\ j <= Len(old) THEN old[j]
                                          ELSE Junk]
      PROVE  torn \in Stored
  <2>1. DOMAIN new = 1 .. Len(new) /\ Len(new) \in Nat /\ Len(old) \in Nat
    BY DEF Stored
  <2>2. ASSUME NEW j \in 1 .. Len(new) PROVE torn[j] \in Vector \cup {Junk}
    BY <1>2, <2>1, <2>2 DEF Stored
  <2>. QED  BY <1>2, <2>1, <2>2 DEF Stored
<1>. QED  BY <1>1, <1>2 DEF TornVectors

LEMMA IndexInitInv == Init => IndexInv
<1>. SUFFICES ASSUME Init PROVE IndexInv
  OBVIOUS
<1>1. NoLists \in Lists
  BY DEF NoLists, Lists
<1>2. 0 \in 0 .. MaxVecs /\ 0 \in 0 .. MaxStops /\ 0 \in 0 .. Whole
  BY NSAssumption, BoundAssumption DEF Whole
<1>3. <<>> \in Stored
  BY DEF Stored
<1>4. file \in [ntotal : 0 .. MaxVecs, cents : Cents, lists : Lists, xb : Stored]
  BY <1>1, <1>2, <1>3 DEF Init, Cents
<1>5. TypeOK
  BY <1>1, <1>2, <1>3, <1>4 DEF Init, TypeOK, Cents, Damage
<1>. QED  BY <1>2, <1>5 DEF Init, IndexInv, Coherent, OpenIsBacked, FileInv

\* Every call of the object keeps the invariant, one step per call.
LEMMA IndexStepInv == IndexInv /\ [Next]_vars => IndexInv'
<1>. SUFFICES ASSUME IndexInv, [Next]_vars PROVE IndexInv'
  OBVIOUS
<1>. USE DEF IndexInv
<1>0. /\ NoLists \in Lists /\ <<>> \in Stored /\ NS \in Nat /\ MaxVecs \in Nat
      /\ Whole \in Nat /\ Whole > 0 /\ MaxStops \in Nat
  BY NSAssumption, BoundAssumption DEF NoLists, Lists, Whole, Stored
<1>a. ASSUME Cleared PROVE
        /\ lists' = NoLists /\ xb' = <<>> /\ ntotal' = 0 /\ damage' = "none"
        /\ UNCHANGED <<file, cut, fileDamage, stops>>
        /\ lists' \in Lists /\ xb' \in Stored /\ ntotal' \in 0 .. MaxVecs
        /\ damage' \in Damage
  <2>1. 0 \in 0 .. MaxVecs /\ "none" \in Damage
    BY <1>0 DEF Damage
  <2>2. lists' = NoLists /\ xb' = <<>> /\ ntotal' = 0 /\ damage' = "none"
        /\ UNCHANGED <<file, cut, fileDamage, stops>>
    BY <1>a, Zenon DEF Cleared, stream
  <2>. QED  BY <1>0, <2>1, <2>2, Zenon
<1>1. CASE Reset
  <2>1. TypeOK'
    BY <1>a, <1>1 DEF Reset, TypeOK, Cents
  <2>. QED  BY <1>1, <2>1, <1>a DEF Reset, Coherent, OpenIsBacked, FileInv
<1>2. ASSUME NEW m \in Model, Train(m) PROVE IndexInv'
  <2>1. TypeOK'
    BY <1>a, <1>2 DEF Train, TypeOK, Cents
  <2>2. Fit(cents, lists, xb, ntotal)' /\ Backed(cents, lists, xb, ntotal)'
    <3>1. ASSUME NEW s \in Sub, NEW b \in Bucket, NEW id \in Ids
          PROVE  lists'[s][b][id] = 0 /\ ~(id < ntotal')
      BY <1>0, <1>a, <1>2 DEF Train, NoLists, Ids
    <3>2. Len(xb') = ntotal' /\ cents' \in Model /\ ntotal' = 0
      BY <1>a, <1>2 DEF Train
    <3>. QED  BY <3>1, <3>2 DEF Fit, Backed
  <2>. QED  BY <1>a, <1>2, <2>1, <2>2 DEF Train, Coherent, OpenIsBacked, FileInv
<1>3. CASE TrainInterrupted
  <2>1. TypeOK'
    BY <1>a, <1>3 DEF TrainInterrupted, TypeOK, Cents
  <2>. QED  BY <1>3, <2>1, <1>a DEF TrainInterrupted, Coherent, OpenIsBacked, FileInv
<1>4. ASSUME NEW batch \in Batches, Add(batch) PROVE IndexInv'
  <2>0. batch \in Stored /\ Len(batch) \in Nat /\ ntotal \in Nat /\ NS \in 0 .. NS
    BY <1>0, BatchesStored, AppendFacts DEF TypeOK
  <2>1. xb' \in Stored
    BY <1>4, <2>0, AppendFacts DEF Add, TypeOK
  <2>2. lists' \in Lists
    BY <1>4, <2>0, PushedType DEF Add
  <2>3. ntotal' \in 0 .. MaxVecs
    BY <1>0, <1>4, <2>0 DEF Add, Fits
  <2>4. TypeOK'
    BY <1>4, <2>1, <2>2, <2>3 DEF Add, stream, TypeOK
  <2>5. damage = "none" => Fit(cents, lists, xb, ntotal)'
    BY <1>4, AddFits DEF Add, Coherent
  <2>6. damage # "torn" => Backed(cents, lists, xb, ntotal)'
    BY <1>4, <2>0, PushedBacked DEF Add, OpenIsBacked
  <2>. QED  BY <1>4, <2>4, <2>5, <2>6 DEF Add, stream, Coherent, OpenIsBacked, FileInv
<1>5. ASSUME NEW batch \in Batches, NEW upto \in 0 .. NS - 1,
             AddInterrupted(batch, upto)
      PROVE  IndexInv'
  <2>0. batch \in Stored /\ upto \in 0 .. NS /\ ntotal \in Nat
        /\ Len(batch) \in Nat
    BY <1>0, BatchesStored, AppendFacts DEF TypeOK
  <2>1. xb' \in Stored
    BY <1>5, <2>0, AppendFacts DEF AddInterrupted, TypeOK
  <2>2. lists' \in Lists
    BY <1>5, <2>0, PushedType DEF AddInterrupted
  <2>3. damage' \in Damage /\ damage' # "none" /\ (damage' # "torn" => damage # "torn")
    BY <1>5 DEF AddInterrupted, Damage
  <2>4. TypeOK'
    BY <1>0, <1>5, <2>1, <2>2, <2>3 DEF AddInterrupted, Stops, stream, TypeOK
  <2>5. damage' # "torn" => Backed(cents, lists, xb, ntotal)'
    BY <1>5, <2>0, <2>3, PushedBacked DEF AddInterrupted, OpenIsBacked
  <2>. QED  BY <1>5, <2>3, <2>4, <2>5
            DEF AddInterrupted, stream, Coherent, OpenIsBacked, FileInv
<1>6. ASSUME NEW c \in 0 .. Whole, WriteIndex(c) PROVE IndexInv'
  <2>1. TypeOK'
    BY <1>6 DEF WriteIndex, object, TypeOK
  <2>2. FileInv'
    BY <1>6 DEF WriteIndex, Coherent, OpenIsBacked, FileInv, Fit, Backed
  <2>. QED  BY <1>6, <2>1, <2>2 DEF WriteIndex, object, Coherent, OpenIsBacked,
     Fit, Backed
<1>7. CASE ReadIndex
  <2>1. TypeOK'
    BY <1>7 DEF ReadIndex, stream, TypeOK
  <2>. QED  BY <1>0, <1>7, <2>1 DEF ReadIndex, stream, Coherent, OpenIsBacked, FileInv
<1>8. CASE ReadIndexFails
  <2>1. ntotal' \in 0 .. MaxVecs /\ cents' \in Cents
    BY <1>8 DEF ReadIndexFails, Interrupted, TypeOK, Cents
  <2>2. lists' \in Lists
    <3>1. PICK new \in IF cut - 1 \in Sub THEN TornLists(lists[cut - 1], file.lists[cut - 1])
                       ELSE {{}} :
            lists' = [s \in Sub |-> IF s < cut - 1 THEN file.lists[s]
                                    ELSE IF s = cut - 1 THEN new ELSE lists[s]]
      BY <1>8 DEF ReadIndexFails, Interrupted
    <3>2. cut - 1 \in Sub => new \in [Bucket -> [Ids -> Nat]]
      BY <3>1, TornListsType DEF TypeOK, Lists
    <3>. QED  BY <3>1, <3>2 DEF TypeOK, Lists
  <2>3. xb' \in Stored
    BY <1>8, TornVectorsType DEF ReadIndexFails, Interrupted, TypeOK
  <2>4. damage' \in Damage /\ damage' # "none" /\ (trained => damage' = "torn")
    BY <1>8 DEF ReadIndexFails, Damage
  <2>5. TypeOK'
    BY <1>0, <1>8, <2>1, <2>2, <2>3, <2>4 DEF ReadIndexFails, Stops, stream, TypeOK
  <2>. QED  BY <1>8, <2>4, <2>5 DEF ReadIndexFails, stream, Coherent, OpenIsBacked, FileInv
<1>9. CASE UNCHANGED vars
  BY <1>9 DEF vars, TypeOK, Coherent, OpenIsBacked, FileInv, Fit, Backed
<1>. QED
  BY <1>1, <1>2, <1>3, <1>4, <1>5, <1>6, <1>7, <1>8, <1>9 DEF Next

\* An index that no call stopped half way in (or that was reset, trained or
\* completely read since) finds every vector once per subspace, in its bucket
\* and under its id, and holds nothing when it is not trained.
THEOREM IndexCoherent == Spec => [](TypeOK /\ Coherent)
<1>1. IndexInv => TypeOK /\ Coherent
  BY DEF IndexInv
<1>. QED  BY <1>1, IndexInitInv, IndexStepInv, PTL DEF Spec

\* An index that search and add accept has centroids of one training and a
\* vector for every id, whatever was interrupted, written and read before,
\* unless a read stopped in an index that was open.
THEOREM OpenAlwaysBacked == Spec => []OpenIsBacked
<1>1. IndexInv => OpenIsBacked
  BY DEF IndexInv
<1>. QED  BY <1>1, IndexInitInv, IndexStepInv, PTL DEF Spec
=============================================================================
