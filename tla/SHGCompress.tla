---------------------------- MODULE SHGCompress ----------------------------
(***************************************************************************)
(* The compressed vectors of IndexSHG.  Level 0 is the vector, each level  *)
(* above it holds the means of Eta neighbouring coordinates of the level   *)
(* below, and the last mean of a level may be of fewer.  Vectors are       *)
(* sequences of integers that are multiples of Eta^MaxFix, so that no mean *)
(* of whole blocks is rounded.  Distances are squared, as in the code.     *)
(***************************************************************************)
EXTENDS Integers, Sequences, FiniteSetsExt

CONSTANTS D,    \* d
          Eta   \* eta

ASSUME CompressAssumption == D \in Nat \ {0} /\ Eta \in Nat /\ Eta >= 2

\* dim_at_level, and maxFixLevel_, where it ends.
Dim[l \in Nat] == IF l = 0 THEN D ELSE (Dim[l - 1] + Eta - 1) \div Eta

MaxFix == CHOOSE l \in 0 .. D :
            /\ Dim[l] \div Eta < Eta
            /\ \A m \in 0 .. l - 1 : Dim[m] \div Eta >= Eta

\* The means of the blocks of one level.
Means(v) ==
  [i \in 1 .. (Len(v) + Eta - 1) \div Eta |->
     LET block == {j \in DOMAIN v : (j - 1) \div Eta = i - 1}
         value(j) == v[j]
     IN  MapThenSumSet(value, block) \div Cardinality(block)]

\* compress_node, and build_compressed_query_rep for a query.
Compressed(v) ==
  LET rep[l \in Nat] == IF l = 0 THEN v ELSE Means(rep[l - 1])
  IN  [l \in 0 .. MaxFix |-> rep[l]]

\* fvec_L2sqr
L2(a, b) == LET square(i) == (a[i] - b[i]) * (a[i] - b[i])
            IN  MapThenSumSet(square, DOMAIN a)

Least(a, b) == IF a <= b THEN a ELSE b

\* HNSW level l uses compression level min(l, maxFixLevel_).
CompressedDistance(l, a, b) ==
  L2(Compressed(a)[Least(l, MaxFix)], Compressed(b)[Least(l, MaxFix)])
=============================================================================
