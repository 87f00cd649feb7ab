--------------------------- MODULE MultiSequence ---------------------------
(***************************************************************************)
(* IndexSuCo::dynamic_activate_multisequence (IndexSuCo.cpp:760-809), the  *)
(* traversal of search_multisequence(): a heap of cells ordered by         *)
(* (dist, i, j) and a bitset of the cells that were ever pushed.           *)
(*                                                                         *)
(* The heap is a multiset: heap[c] is how many entries of cell c the       *)
(* priority queue holds.  An entry's distance is that of its cell.  seen   *)
(* is a history variable.                                                  *)
(***************************************************************************)
EXTENDS ImiGrid

VARIABLES
  dist, assign, quota,
  seen, retrieved, scores, done,
  heap,       \* the priority queue
  visited     \* the bitset

input == <<dist, assign, quota>>
queue == <<heap, visited>>
vars  == <<dist, assign, quota, seen, retrieved, scores, done, heap, visited>>

R == INSTANCE CellRetrieval

First == <<1, 1>>

Init ==
  /\ R!Init
  /\ heap = [c \in Cells |-> IF c = First THEN 1 ELSE 0]
  /\ visited = {First}

Queued == { c \in Cells : heap[c] > 0 }

\* The cell of the heap's top entry.
IsTop(c) == \A u \in Queued : NotAfter(dist, c, u)

\* The cells one row below and one column to the right, those of them in the
\* grid that were not pushed before.
Successors(c) ==
  { u \in Cells : u = <<c[1] + 1, c[2]>> \/ u = <<c[1], c[2] + 1>> }

\* Mutant: the visited bitset is not consulted.
PushedAgain(c) == Successors(c)

Pushed(c) == Successors(c) \ visited

\* Mutant: heap.top() without heap.pop().
PopKeeps(c) ==
  /\ ~done
  /\ IsTop(c)
  /\ seen' = seen \cup {c}
  /\ retrieved' = retrieved + Cardinality(Bucket(assign, c))
  /\ scores' = Scored(scores, assign, c)
  /\ done' = (retrieved' >= quota)
  /\ UNCHANGED <<input, queue>>

\* One iteration of the loop: pop c, retrieve it, push its successors.
Pop(c) ==
  /\ ~done
  /\ IsTop(c)
  /\ seen' = seen \cup {c}
  /\ retrieved' = retrieved + Cardinality(Bucket(assign, c))
  /\ scores' = Scored(scores, assign, c)
  /\ done' = (retrieved' >= quota)
  /\ LET pushed == IF retrieved' >= quota THEN {} ELSE Pushed(c) IN
     /\ heap' = [u \in Cells |-> IF u = c THEN heap[u] - 1
                                 ELSE IF u \in pushed THEN heap[u] + 1
                                 ELSE heap[u]]
     /\ visited' = visited \cup pushed
  /\ UNCHANGED input

\* The heap is empty.
HeapEmpty ==
  /\ ~done
  /\ Queued = {}
  /\ done' = TRUE
  /\ UNCHANGED <<input, seen, retrieved, scores, queue>>

Next == (\E c \in Queued : Pop(c)) \/ HeapEmpty

Spec == Init /\ [][Next]_vars
-----------------------------------------------------------------------------
TypeOK ==
  /\ R!TypeOK
  /\ heap \in [Cells -> Nat]
  /\ visited \in SUBSET Cells

\* A cell was pushed once: it is in the heap or was retrieved, not both.
PushedOnce ==
  /\ \A c \in Cells : heap[c] <= 1
  /\ visited = seen \cup Queued
  /\ seen \cap Queued = {}

\* The cells retrieved are closed under being nearer in both halves.
SeenClosed == \A c \in seen, p \in Cells : Dominates(p, c) => p \in seen

\* Every cell still to come lies behind an entry of the heap.
HeapIsFrontier ==
  ~done => \A u \in Cells \ seen : \E h \in Queued : Dominates(h, u)

\* The heap is the frontier of the cells retrieved, with every cell of it
\* queued once (IndexSuCo.cpp:776, 794-808): the strengthening that makes the
\* refinement inductive.
Frontier == PushedOnce /\ SeenClosed /\ HeapIsFrontier

\* dynamic_activate_multisequence implements the same promise as
\* dynamic_activate: cells in globally optimal ascending order
\* (IndexSuCo.h:381-387).
ImplementsRetrieval == R!Spec
=============================================================================
