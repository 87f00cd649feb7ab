-------------------------- MODULE MCThreadedIndex --------------------------
(* Two sub-indexes and two threads that call.                              *)
EXTENDS ThreadedIndex

MCTask == Caller \X {"hello", "work"}
=============================================================================
