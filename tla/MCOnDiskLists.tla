--------------------------- MODULE MCOnDiskLists ---------------------------
(* Threads that add or cut, each once, and threads that read ahead.        *)
EXTENDS OnDiskLists

MCThread   == Adder \cup Worker
MCRequests == {<<0, -1>>}
MCMerges   == {[l \in List |-> l + 1]}
=============================================================================
