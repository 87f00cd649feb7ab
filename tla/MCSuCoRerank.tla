---------------------------- MODULE MCSuCoRerank ----------------------------
(* Any assignment of two distances, so that there are ties and non-ties.   *)
EXTENDS SuCoRerank

MCDists == [0 .. N - 1 -> {1, 2}]
=============================================================================
