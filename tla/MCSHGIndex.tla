----------------------------- MODULE MCSHGIndex -----------------------------
(* Three vectors, so that a permutation and its inverse differ. *)
EXTENDS SHGIndex
CONSTANTS v1, v2, v3
=============================================================================
