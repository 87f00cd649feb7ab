--------------------------- MODULE ImiTraversals ---------------------------
(***************************************************************************)
(* The two traversals of a subspace on the same query: search() runs       *)
(* dynamic_activate, search_multisequence() dynamic_activate_multisequence *)
(* (IndexSuCo.cpp:610, 858), with the arguments of one query.  Each has    *)
(* its own counters and scratch buffer, so their steps interleave freely.  *)
(***************************************************************************)
EXTENDS ImiGrid

VARIABLES
  dist, assign, quota,
  daSeen, daRetrieved, daScores, daDone, active, combined, ptr, exhausted,
  msSeen, msRetrieved, msScores, msDone, heap, visited

DA == INSTANCE DynamicActivation
        WITH seen <- daSeen, retrieved <- daRetrieved,
             scores <- daScores, done <- daDone

MS == INSTANCE MultiSequence
        WITH seen <- msSeen, retrieved <- msRetrieved,
             scores <- msScores, done <- msDone

daVars == <<daSeen, daRetrieved, daScores, daDone,
            active, combined, ptr, exhausted>>
msVars == <<msSeen, msRetrieved, msScores, msDone, heap, visited>>
vars   == <<dist, assign, quota, daVars, msVars>>

Init == DA!Init /\ MS!Init

DAStep == DA!Next /\ UNCHANGED msVars
MSStep == MS!Next /\ UNCHANGED daVars

Next == DAStep \/ MSStep

Spec == Init /\ [][Next]_vars

\* Each traversal is a loop of a thread that waits for nothing.
FairSpec == Spec /\ WF_vars(DAStep) /\ WF_vars(MSStep)
-----------------------------------------------------------------------------
TypeOK == DA!TypeOK /\ MS!TypeOK

\* The invariants that make the two refinements inductive: the rows of the
\* one and the heap of the other describe what was retrieved.
RowsAgree == DA!RowsAgree
Frontier  == MS!Frontier

\* A vector adds at most one collision per subspace (IndexSuCo.h:283-284): it
\* is what keeps an SC-score within the nsubspaces <= 255 of its uint8.
ScoredOnce == DA!R!ScoredOnce /\ MS!R!ScoredOnce

\* Neither goes on after the cell that fills the quota (IndexSuCo.cpp:402).
LastWasNeeded == DA!R!LastWasNeeded /\ MS!R!LastWasNeeded

\* Both retrieve the cells "in ascending ... order" (IndexSuCo.h:362-366), each
\* once, until the quota is reached.
ImplementsRetrieval == DA!R!Spec /\ MS!R!Spec

\* Both loops end, on every grid and for every quota.
Terminates == <>(daDone /\ msDone)

\* "The two algorithms produce identical results" (IndexSuCo.h:299): when both
\* have returned they have given every vector the same score.
IdenticalResults == daDone /\ msDone => daScores = msScores

\* Even while they run, one has retrieved a prefix of the other's cells: two
\* searches with a different collision_ratio differ in how far they go only.
OneIsPrefix == daSeen \subseteq msSeen \/ msSeen \subseteq daSeen
=============================================================================
