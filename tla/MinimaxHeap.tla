---------------------------- MODULE MinimaxHeap ----------------------------
(***************************************************************************)
(* HNSW::MinimaxHeap (impl/HNSW.cpp) on the array heap of utils/Heap.h:    *)
(* the candidate pool of every beam search of the repository.  dis and ids *)
(* are the two arrays, ordered as a max-heap on dis; pop_min takes the     *)
(* smallest by a scan and only overwrites its id with -1, which breaks the *)
(* order that the heap has among equal distances.                          *)
(***************************************************************************)
EXTENDS Integers, Sequences, FiniteSets

CONSTANTS
  Id,    \* what is pushed: naturals, as ids are compared
  Dist,  \* the distances
  Cap    \* n

ASSUME CapAssumption  == Cap \in Nat \ {0}
ASSUME IdAssumption   == Id \subseteq Nat /\ Dist \subseteq Nat

VARIABLES
  heap,    \* heap[j] = [d, id, who]: dis, ids, and (history) the id pushed
  nvalid,
  pushed,  \* history: the ids pushed so far
  lost     \* history: distances refused or evicted before they were popped

heapVars == <<heap, nvalid, pushed, lost>>

HeapInit == heap = <<>> /\ nvalid = 0 /\ pushed = {} /\ lost = {}

----------------------------------------------------------------------------
\* CMax::cmp2: a goes above b.
Cmp2(a, b) == a.d > b.d \/ (a.d = b.d /\ a.id > b.id)

\* Where a hole comes along that starts at i and goes from each j to next[j].
Path(next, i) ==
  LET at[j \in 0 .. Len(next)] == IF j = 0 THEN i ELSE next[at[j - 1]]
  IN  {at[j] : j \in 0 .. Len(next)}

\* What stands where the hole goes moves to where it came from, and e into the
\* hole where it stays.
Shift(h, next, i, e) ==
  [j \in 1 .. Len(next) |-> IF j \notin Path(next, i) THEN h[j]
                            ELSE IF next[j] = j THEN e ELSE h[next[j]]]

\* heap_push: the hole at the end of h rises until its father is not below e.
Up(h, e) ==
  [i \in 1 .. Len(h) + 1 |->
     IF i > 1 /\ Cmp2(e, h[i \div 2]) THEN i \div 2 ELSE i]

HeapPush(h, e) == Shift(h, Up(h, e), Len(h) + 1, e)

\* heap_pop: the hole at the root sinks along the greater child until the last
\* element is above it.
Child(h, i) ==
  IF 2 * i = Len(h) \/ Cmp2(h[2 * i], h[2 * i + 1]) THEN 2 * i ELSE 2 * i + 1

Down(h) ==
  [i \in 1 .. Len(h) |->
     IF 2 * i > Len(h) \/ Cmp2(h[Len(h)], h[Child(h, i)]) THEN i ELSE Child(h, i)]

HeapPop(h) == SubSeq(Shift(h, Down(h), 1, h[Len(h)]), 1, Len(h) - 1)

Full == Len(heap) = Cap
Refused(d) == Full /\ d >= heap[1].d

Evict(e) ==
  /\ Full /\ ~Refused(e.d)
  /\ heap' = HeapPush(HeapPop(heap), e)
  /\ nvalid' = IF heap[1].id # -1 THEN nvalid ELSE nvalid + 1
  /\ lost' = IF heap[1].id # -1 THEN lost \cup {heap[1].d} ELSE lost

Push(id, d) ==
  LET e == [d |-> d, id |-> id, who |-> id] IN
  /\ id \notin pushed
  /\ pushed' = pushed \cup {id}
  /\ \/ /\ Refused(d)
        /\ lost' = lost \cup {d}
        /\ UNCHANGED <<heap, nvalid>>
     \/ Evict(e)
     \/ /\ ~Full
        /\ heap' = HeapPush(heap, e)
        /\ nvalid' = nvalid + 1
        /\ UNCHANGED lost

\* Mutant: the scan takes any live candidate.
IsAnyLive(j) == heap[j].id # -1

\* The scan from the end keeps the first smallest it meets.
IsMin(j) ==
  /\ heap[j].id # -1
  /\ \A l \in 1 .. Len(heap) : heap[l].id # -1 =>
       \/ heap[j].d < heap[l].d
       \/ heap[j].d = heap[l].d /\ l <= j

PopMin ==
  /\ nvalid > 0
  /\ \E j \in 1 .. Len(heap) : IsMin(j) /\ heap' = [heap EXCEPT ![j].id = -1]
  /\ nvalid' = nvalid - 1
  /\ UNCHANGED <<pushed, lost>>

HeapNext == (\E id \in Id, d \in Dist : Push(id, d)) \/ PopMin

HeapSpec == HeapInit /\ [][HeapNext]_heapVars

----------------------------------------------------------------------------
\* The array heap behaves as the pool that its users rely on.  push compares
\* with dis[0] and throws out dis[0], so a farthest one must stay at the root
\* although the ids that pop_min overwrites break the order of cmp2.
InPool(x) == [id |-> x.who, d |-> x.d, live |-> x.id # -1]
PoolOf(h) == {InPool(h[j]) : j \in 1 .. Len(h)}

Pool == INSTANCE BoundedPool WITH pool <- PoolOf(heap)

ImplementsPool == Pool!Spec
=============================================================================
