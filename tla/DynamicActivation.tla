------------------------- MODULE DynamicActivation -------------------------
(***************************************************************************)
(* IndexSuCo::dynamic_activate (IndexSuCo.cpp:358-426), the traversal that *)
(* search() runs: rows are activated one after the other, every active row *)
(* keeps a pointer to its next cell, and each iteration retrieves the cell *)
(* of the row whose next cell is nearest.                                  *)
(*                                                                         *)
(* The vector `active` of the code is the count `active` with the two      *)
(* functions `combined` and `ptr` (the fields combined_dist and idx2_ptr   *)
(* of its entries); above `active` they hold their initial values.  The    *)
(* variable seen is a history variable: the code does not keep it.         *)
(***************************************************************************)
EXTENDS ImiGrid

VARIABLES
  dist, assign, quota,             \* arguments and inv_lists, never changed
  seen, retrieved, scores, done,   \* as in CellRetrieval
  active,                          \* active.size()
  combined,                        \* active[i].combined_dist
  ptr,                             \* active[i].idx2_ptr
  exhausted                        \* exhausted_count

input == <<dist, assign, quota>>
rows  == <<active, combined, ptr, exhausted>>
vars  == <<dist, assign, quota, seen, retrieved, scores, done,
           active, combined, ptr, exhausted>>

R == INSTANCE CellRetrieval

\* The function is entered and activates the first row.
Init ==
  /\ R!Init
  /\ active = 1
  /\ combined = [i \in Rank |-> IF i = 1 THEN dist[<<1, 1>>] ELSE 0]
  /\ ptr = [i \in Rank |-> 1]
  /\ exhausted = 0

ActiveRows == 1 .. active

\* Mutant: the scan with <=, which settles for the last of the smallest entries.
LastMin(pos) ==
  \A z \in ActiveRows :
    /\ combined[pos] <= combined[z]
    /\ z > pos => combined[pos] < combined[z]

\* The linear scan for the minimum: the first of the smallest entries.
FirstMin(pos) ==
  \A z \in ActiveRows :
    /\ combined[pos] <= combined[z]
    /\ z < pos => combined[pos] < combined[z]

\* The row below pos is activated when pos, the last row, is met first.
Activates(pos) == ptr[pos] = 1 /\ pos < NC /\ pos = active

\* The distance of row pos after its cell ptr[pos]; FLT_MAX at its end.
NextDist(pos) == IF ptr[pos] < NC THEN dist[<<pos, ptr[pos] + 1>>] ELSE FltMax

\* What the rows are after cell (pos, ptr[pos]) was retrieved: a row may be
\* activated, and row pos moves to its next cell or is exhausted.
Advance(pos) ==
  /\ active' = IF Activates(pos) THEN active + 1 ELSE active
  /\ combined' = [i \in Rank |->
                    IF i = pos THEN NextDist(pos)
                    ELSE IF Activates(pos) /\ i = pos + 1 THEN dist[<<i, 1>>]
                    ELSE combined[i]]
  /\ ptr' = [i \in Rank |->
                IF i = pos THEN IF ptr[i] < NC THEN ptr[i] + 1 ELSE ptr[i]
                ELSE IF Activates(pos) /\ i = pos + 1 THEN 1
                ELSE ptr[i]]
  /\ exhausted' = IF ptr[pos] < NC THEN exhausted ELSE exhausted + 1

\* One iteration of the loop.
Iterate(pos) ==
  LET c == <<pos, ptr[pos]>> IN
  /\ ~done
  /\ exhausted < active
  /\ FirstMin(pos)
  /\ seen' = seen \cup {c}
  /\ retrieved' = retrieved + Cardinality(Bucket(assign, c))
  /\ scores' = Scored(scores, assign, c)
  /\ done' = (retrieved' >= quota)
  /\ IF retrieved' >= quota THEN UNCHANGED rows ELSE Advance(pos)
  /\ UNCHANGED input

\* Mutant: the loop goes on while exhausted_count <= active.size().
LoopEndsLate ==
  /\ ~done
  /\ exhausted > active
  /\ done' = TRUE
  /\ UNCHANGED <<input, seen, retrieved, scores, rows>>

\* The loop's condition fails: every active row is exhausted.
LoopEnds ==
  /\ ~done
  /\ exhausted >= active
  /\ done' = TRUE
  /\ UNCHANGED <<input, seen, retrieved, scores, rows>>

Next == (\E pos \in ActiveRows : Iterate(pos)) \/ LoopEnds

Spec == Init /\ [][Next]_vars
-----------------------------------------------------------------------------
TypeOK ==
  /\ R!TypeOK
  /\ active \in Rank
  /\ combined \in [Rank -> Nat]
  /\ ptr \in [Rank -> Rank]
  /\ exhausted \in Nat

Exhausted(i) == combined[i] = FltMax

\* An entry is at its next cell, or exhausted at the end of its row.
EntriesMatch ==
  \A i \in ActiveRows :
    \/ combined[i] = dist[<<i, ptr[i]>>]
    \/ Exhausted(i) /\ ptr[i] = NC

\* The pointers describe exactly what was retrieved.
PointersAreSeen ==
  seen = { c \in Cells : /\ c[1] <= active
                         /\ c[2] < ptr[c[1]] \/ Exhausted(c[1]) }

\* Rows that are not active are beyond a row of which nothing was taken yet.
LastRowFresh == active < NC => ptr[active] = 1 /\ ~Exhausted(active)

ExhaustedCounted == exhausted = Cardinality({ i \in ActiveRows : Exhausted(i) })

\* The pointers, the sentinels, the counter and what was retrieved agree in
\* every iteration (IndexSuCo.cpp:404-424): the strengthening that makes the
\* refinement inductive.
RowsAgree ==
  ~done => EntriesMatch /\ PointersAreSeen /\ LastRowFresh /\ ExhaustedCounted

\* dynamic_activate retrieves the cells of the grid in ascending order, each
\* once, until the quota is reached (IndexSuCo.h:362-366).
ImplementsRetrieval == R!Spec

\* A vector adds at most one collision per subspace (IndexSuCo.h:283-285): it
\* is what keeps an SC-score within the nsubspaces <= 255 of its uint8.
ScoredOnce == R!ScoredOnce

\* The loop stops after the cell that fills the quota and not a cell later
\* (IndexSuCo.cpp:402).
LastWasNeeded == R!LastWasNeeded
=============================================================================
