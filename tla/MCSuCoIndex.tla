---------------------------- MODULE MCSuCoIndex ----------------------------
(* Two subspaces of two buckets; v1 and v2 share a bucket in one subspace  *)
(* and not in the other, and the two trainings place them differently.     *)
EXTENDS SuCoIndex

CONSTANTS v1, v2, t1, t2, b1, b2, mixed

MCCellOf ==
  [m \in {t1, t2, mixed} |-> [s \in 1 .. 2 |-> [v \in {v1, v2} |->
     IF v = v1 \/ (m = t1 /\ s = 1) THEN b1 ELSE b2]]]

MCBatches == {<<v1>>, <<v2>>, <<v1, v2>>}
=============================================================================
