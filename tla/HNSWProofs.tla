---------------------------- MODULE HNSWProofs ----------------------------
(***************************************************************************)
(* The lists of HNSWInsert stay sound, whatever the number of threads, of  *)
(* points, of levels and of adds, if the adds are quiet (QuietAdds): no    *)
(* add but a first one has more than ParMin points at its top level, if    *)
(* that is above the tops of all adds before it.  Then no two threads      *)
(* share a batch that lies above all points (NoSharedRise), and the rest   *)
(* follows.                                                                *)
(*                                                                         *)
(* All rests on one observation: a point becomes visible level by level.   *)
(* Until its own list at a level is written nobody can have met it there   *)
(* (GraphOK), so its list is empty and its neighbours do not know it.      *)
(*                                                                         *)
(* MinimaxHeap implements BoundedPool, whatever its size.  heap_push and   *)
(* heap_pop are a hole that moves along a path (PathLeads) and leaves the  *)
(* array permuted (ShiftPermutes); no father is nearer than its children   *)
(* all the while (HeapOrder), so a farthest one is at the root, although   *)
(* pop_min breaks the order among equal distances.                         *)
(***************************************************************************)
EXTENDS HNSWInsert, MinimaxHeap, FiniteSetTheorems, WellFoundedInduction, TLAPS

----------------------------------------------------------------------------
(* The inductive invariant.                                                *)

Calls == Seq(Seq(Levels) \ {<<>>})

IndexTypeOK ==
  /\ calls \in Calls
  /\ level \in Seq(Levels)
  /\ Len(level) <= MaxPoint
  /\ links \in [Point -> [Levels -> SUBSET Point]]
  /\ entry \in Point \cup {NoOne}
  /\ maxLevel \in Levels \cup {-1}
  /\ lock \in [Point -> Thread \cup {Free}]
  /\ ptLevel \in Levels \cup {-1}
  /\ batch \subseteq Point
  /\ shared \in BOOLEAN
  /\ inserted \subseteq Point
  /\ shrunk \subseteq Point \X Levels

WorkTypeOK ==
  /\ pc \in [Thread -> {"idle", "lock", "descend", "search", "links", "back",
                        "publish", "enter"}]
  /\ pt \in [Thread -> Point \cup {NoOne}]
  /\ near \in [Thread -> Point \cup {NoOne}]
  /\ lv \in [Thread -> Levels]
  /\ seen \in [Thread -> SUBSET Point]
  /\ todo \in [Thread -> SUBSET Point]
  /\ other \in [Thread -> Point \cup {NoOne}]
  /\ copy \in [Thread -> SUBSET Point]

TypeOK == IndexTypeOK /\ WorkTypeOK

\* How many points there were before the add that is running.
Before == Len(level) - Len(Head(calls))

\* The batch is of one level, its points are new, and so are those to come.
DriverOK ==
  /\ ptLevel >= 0 =>
       /\ calls # <<>> /\ Before \in Nat
       /\ \A p \in inserted : p <= Before \/ level[p] >= ptLevel
  /\ \A p \in batch : p \in 1 .. Len(level) /\ level[p] = ptLevel /\ p \notin inserted
  /\ inserted \subseteq 1 .. Len(level)

\* A thread at work has a point of the batch for itself; it goes through the
\* graph at points that have the level where it is.
Works(t) ==
  /\ ptLevel >= 0
  /\ pt[t] \in 1 .. Len(level) /\ level[pt[t]] = ptLevel
  /\ pt[t] \notin inserted /\ pt[t] \notin batch
  /\ near[t] \in inserted
  /\ level[near[t]] >= IF pc[t] = "lock" THEN maxLevel ELSE lv[t]
  /\ pc[t] \in {"search", "links", "back"} => lv[t] <= ptLevel
  /\ pc[t] = "enter" => maxLevel = ptLevel /\ ~shared

ThreadsOK ==
  /\ \A t \in Thread : pc[t] # "idle" => Works(t)
  /\ \A t, u \in Thread : t # u /\ pc[t] # "idle" /\ pc[u] # "idle" => pt[t] # pt[u]
  /\ \A t \in Thread : ~shared /\ pc[t] # "idle" => t = First

\* The entry point is on top, but for a thread that is about to write it.
EntryOK ==
  /\ entry = NoOne => inserted = {} /\ maxLevel = -1
  /\ entry # NoOne =>
       /\ entry \in inserted /\ maxLevel >= 0
       /\ level[entry] = maxLevel \/ \E t \in Thread : pc[t] = "enter"
  /\ \A p \in inserted : level[p] <= maxLevel

\* Who holds the lock of p.
Holds(t, p) == \/ pc[t] \in {"descend", "search"} /\ p = pt[t]
               \/ pc[t] = "back" /\ p = other[t]

\* A thread holds one lock, and the list that it has read is still the list.
LocksOK ==
  /\ \A t \in Thread, p \in Point : lock[p] = t <=> Holds(t, p)
  /\ \A t \in Thread : pc[t] = "back" =>
       other[t] \in todo[t] /\ copy[t] = links[other[t]][lv[t]]

\* The point of t has its list at level l (or is above all, where it gets none).
Listed(t, l) ==
  /\ l <= ptLevel
  /\ \/ pc[t] \in {"links", "back"} /\ lv[t] <= l
     \/ pc[t] \in {"descend", "search"} /\ lv[t] < l
     \/ pc[t] \in {"publish", "enter"}

\* p may be met at level l.
InGraph(p, l) ==
  \/ p \in inserted /\ level[p] >= l
  \/ \E t \in Thread : pc[t] # "idle" /\ pt[t] = p /\ Listed(t, l)

\* The points that t has met, and those it links to.
MetOK(t) ==
  /\ \A l \in Levels, q \in seen[t] \cup todo[t] : lv[t] = l => InGraph(q, l)
  /\ pc[t] # "search" => seen[t] = {}
  /\ pc[t] \notin {"links", "back"} => todo[t] = {}

GraphOK ==
  /\ \A p \in Point, l \in Levels : \A q \in links[p][l] : InGraph(p, l) /\ InGraph(q, l)
  /\ \A t \in Thread : MetOK(t)

\* The points that a thread still has to link back to do not know its point.
OnceOK ==
  \A t \in Thread : \A q \in todo[t] : q # pt[t] /\ pt[t] \notin links[q][lv[t]]

\* A link that is missing on one side was dropped there, or is still to come.
PairsOK ==
  /\ \A p \in Point, l \in Levels : \A q \in links[p][l] :
       \/ p \in links[q][l] \/ <<q, l>> \in shrunk
       \/ \E t \in Thread : pt[t] = p /\ lv[t] = l /\ q \in todo[t]
  /\ \A t \in Thread : \A q \in todo[t] :
       q \in links[pt[t]][lv[t]] \/ <<pt[t], lv[t]>> \in shrunk

\* Nobody gets past the first point of all before it has a link.
AtGround(t) ==
  \/ pc[t] \in {"publish", "enter"}
  \/ pc[t] \in {"links", "back"} /\ lv[t] = 0

LinksTo(t, p) ==
  /\ pc[t] \notin {"publish", "enter"}
  /\ near[t] = p
  /\ lv[t] = 0 => seen[t] \subseteq {p}
  /\ AtGround(t) => todo[t] = {p}

GroundOK ==
  /\ \A t \in Thread : AtGround(t) => links[pt[t]][0] # {}
  /\ \A p \in inserted : links[p][0] = {} =>
       inserted = {p} /\ \A t \in Thread : pc[t] # "idle" => LinksTo(t, p)

IInv == /\ TypeOK /\ DriverOK /\ ThreadsOK /\ EntryOK /\ LocksOK
        /\ GraphOK /\ OnceOK /\ PairsOK /\ ListsFit /\ GroundOK

----------------------------------------------------------------------------
(* What the steps rest on.                                                 *)

LEMMA ConstantsOK ==
  /\ M \in Nat \ {0} /\ MaxPoint \in Nat /\ MaxLevel \in Nat /\ ParMin \in Nat
  /\ First \in Thread /\ Free \notin Thread
  /\ IsFiniteSet(Point) /\ IsFiniteSet(Levels)
  /\ Point \subseteq Nat \ {0} /\ Levels \subseteq Nat /\ NoOne \notin Point
  /\ \A p : p \in Point <=> p \in Nat /\ 1 <= p /\ p <= MaxPoint
  /\ \A l : l \in Levels <=> l \in Nat /\ l <= MaxLevel
BY BoundAssumption, ThreadAssumption, FS_Interval DEF Point, Levels, NoOne

\* A finite set of numbers has a largest one: otherwise each of them could be
\* replaced by a larger one for ever.
LEMMA LargestExists ==
  ASSUME NEW S, IsFiniteSet(S), S # {}, S \subseteq Nat
  PROVE  \E m \in S : \A n \in S : n <= m
<1> DEFINE Above(m) == {n \in S : n > m}
           T == {Above(m) : m \in S}
<1>1. IsWellFoundedOn(StrictSubsetOrdering(S), SUBSET S)
  BY FS_StrictSubsetOrderingWellFounded, FS_FiniteSubsetsOfFinite
<1>2. T \subseteq SUBSET S /\ T # {}
  OBVIOUS
<1>3. PICK U \in T : \A V \in T : <<V, U>> \notin StrictSubsetOrdering(S)
  BY <1>1, <1>2, WFMin, Zenon
<1>4. PICK m \in S : U = Above(m)
  OBVIOUS
<1>5. ASSUME NEW n \in S, n > m
      PROVE  FALSE
  <2>1. m \in Nat /\ n \in Nat /\ \A k \in S : k \in Nat
    OBVIOUS
  <2>2. Above(n) \subseteq Above(m) /\ n \in Above(m) /\ n \notin Above(n)
    <3>1. \A k \in S : k > n => k > m
      BY <1>5, <2>1
    <3>2. n > m /\ ~(n > n)
      BY <1>5, <2>1
    <3>3. QED
      BY <3>1, <3>2
  <2>3. <<Above(n), Above(m)>> \in StrictSubsetOrdering(S)
    BY <2>2 DEF StrictSubsetOrdering
  <2>4. QED
    BY <1>3, <1>4, <2>3
<1>6. QED
  BY <1>5

LEMMA TopIs ==
  ASSUME NEW ls \in Seq(Levels), ls # <<>>
  PROVE  /\ Top(ls) \in Levels /\ \A i \in DOMAIN ls : ls[i] <= Top(ls)
         /\ \E i \in DOMAIN ls : ls[i] = Top(ls)
<1> DEFINE S == {ls[i] : i \in DOMAIN ls}
<1>1. S \subseteq Levels /\ S # {} /\ S \subseteq Nat
  <2>1. \A i \in DOMAIN ls : ls[i] \in Levels
    OBVIOUS
  <2>2. 1 \in DOMAIN ls
    OBVIOUS
  <2>3. QED
    BY <2>1, <2>2, ConstantsOK
<1>2. IsFiniteSet(S)
  BY <1>1, ConstantsOK, FS_Subset
<1>3. \E m \in S : \A n \in S : n <= m
  <2> HIDE DEF S
  <2> QED
    BY <1>1, <1>2, LargestExists
<1>4. \E l \in Levels : (\E i \in DOMAIN ls : ls[i] = l) /\ \A i \in DOMAIN ls : ls[i] <= l
  BY <1>1, <1>3
<1>5. QED
  BY <1>4 DEF Top

LEMMA BatchIs ==
  ASSUME NEW lvls \in Seq(Levels), NEW n0 \in Nat, NEW l
  PROVE  \A p : p \in Batch(lvls, n0, l) <=>
                  p \in Nat /\ n0 < p /\ p <= Len(lvls) /\ lvls[p] = l
BY DEF Batch

\* The head and the tail of the calls that are left.
LEMMA HeadIs ==
  ASSUME calls \in Calls, calls # <<>>
  PROVE  Head(calls) \in Seq(Levels) /\ Head(calls) # <<>> /\ Tail(calls) \in Calls
BY DEF Calls

\* What a thread at work may rely on.
LEMMA AtWork ==
  ASSUME IInv, NEW t \in Thread, pc[t] # "idle"
  PROVE  /\ ptLevel \in Levels /\ maxLevel \in Levels
         /\ pt[t] \in Point /\ near[t] \in Point /\ near[t] \in inserted
         /\ lv[t] \in Levels /\ Room(lv[t]) \in Nat
BY ConstantsOK DEF IInv, TypeOK, IndexTypeOK, WorkTypeOK, ThreadsOK, Works, EntryOK, Room, NoOne

\* The list of p at level l becomes s, the others stay.
ListIs(p, l, s) ==
  \A q \in Point, k \in Levels :
    links'[q][k] = IF q = p /\ k = l THEN s ELSE links[q][k]

\* What happens to one list happens to no other.
LEMMA OneList ==
  ASSUME IndexTypeOK, NEW p \in Point, NEW l \in Levels, NEW s \in SUBSET Point,
         links' = [links EXCEPT ![p][l] = s]
  PROVE  /\ links' \in [Point -> [Levels -> SUBSET Point]]
         /\ ListIs(p, l, s)
BY DEF IndexTypeOK, ListIs

\* Nobody has met a point at the level where it looks for its neighbours.
LEMMA Unmet ==
  ASSUME IInv, NEW t \in Thread, pc[t] = "search"
  PROVE  ~InGraph(pt[t], lv[t])
<1>1. ThreadsOK /\ pt[t] \notin inserted
  BY DEF IInv, ThreadsOK, Works
<1>2. lv[t] \in Levels /\ ptLevel \in Levels
  BY AtWork
<1>3. ~Listed(t, lv[t])
  BY <1>2, ConstantsOK DEF Listed
<1>4. \A u \in Thread : pc[u] # "idle" /\ pt[u] = pt[t] => u = t
  BY <1>1 DEF ThreadsOK
<1>5. QED
  BY <1>1, <1>3, <1>4 DEF InGraph

\* The list that a thread writes first is empty before.
LEMMA ChooseIs ==
  ASSUME IInv, NEW t \in Thread, Choose(t)
  PROVE  \E c \in SUBSET seen[t] :
           /\ c # {} /\ c \subseteq Point /\ Cardinality(c) <= Room(lv[t])
           /\ pt[t] \notin c
           /\ todo' = [todo EXCEPT ![t] = c]
           /\ links' \in [Point -> [Levels -> SUBSET Point]]
           /\ links[pt[t]][lv[t]] = {}
           /\ ListIs(pt[t], lv[t], c)
<1>1. pc[t] = "search" /\ pc[t] # "idle"
  BY DEF Choose
<1>2. IndexTypeOK /\ WorkTypeOK /\ ThreadsOK /\ GraphOK
  BY DEF IInv, TypeOK
<1>3. pt[t] \in Point /\ lv[t] \in Levels /\ ptLevel \in Levels
  BY <1>1, AtWork
<1>4. ~InGraph(pt[t], lv[t])
  BY <1>1, Unmet
<1>5. links[pt[t]][lv[t]] = {}
  BY <1>2, <1>3, <1>4 DEF GraphOK, IndexTypeOK
<1>6. pt[t] \notin seen[t]
  BY <1>2, <1>3, <1>4 DEF GraphOK, MetOK
<1>7. PICK c \in SUBSET seen[t] :
        /\ c # {} /\ Cardinality(c) <= Room(lv[t])
        /\ todo' = [todo EXCEPT ![t] = c]
        /\ links' = [links EXCEPT ![pt[t]][lv[t]] = @ \cup c]
  BY DEF Choose
<1>8. c \in SUBSET Point
  BY <1>2, <1>7 DEF WorkTypeOK
<1>9. links' = [links EXCEPT ![pt[t]][lv[t]] = c]
  BY <1>2, <1>3, <1>5, <1>7 DEF IndexTypeOK
<1>10. /\ links' \in [Point -> [Levels -> SUBSET Point]]
       /\ ListIs(pt[t], lv[t], c)
  BY <1>2, <1>3, <1>8, <1>9, OneList
<1>11. QED
  BY <1>5, <1>6, <1>7, <1>8, <1>10

\* The list of the other point, which nobody else has written meanwhile, takes
\* the link, and loses none unless that is noted.
LEMMA LinkBackIs ==
  ASSUME IInv, NEW t \in Thread, LinkBack(t)
  PROVE  /\ other[t] \in Point /\ other[t] \in todo[t]
         /\ \E s \in SUBSET (links[other[t]][lv[t]] \cup {pt[t]}) :
              /\ s # {} /\ Cardinality(s) <= Room(lv[t])
              /\ \/ s = links[other[t]][lv[t]] \cup {pt[t]}
                 \/ <<other[t], lv[t]>> \in shrunk'
              /\ links' \in [Point -> [Levels -> SUBSET Point]]
              /\ ListIs(other[t], lv[t], s)
         /\ shrunk \subseteq shrunk' /\ shrunk' \subseteq Point \X Levels
<1>1. pc[t] = "back" /\ pc[t] # "idle"
  BY DEF LinkBack
<1>2. IndexTypeOK /\ WorkTypeOK /\ LocksOK
  BY DEF IInv, TypeOK
<1>3. pt[t] \in Point /\ lv[t] \in Levels /\ Room(lv[t]) \in Nat
  BY <1>1, AtWork
<1>4. other[t] \in todo[t] /\ other[t] \in Point /\ copy[t] = links[other[t]][lv[t]]
  BY <1>1, <1>2 DEF LocksOK, WorkTypeOK
<1>5. copy[t] \subseteq Point /\ IsFiniteSet(copy[t])
  BY <1>2, ConstantsOK, FS_Subset DEF WorkTypeOK
<1>6. PICK s \in AddLink(copy[t], pt[t], lv[t]) :
        links' = [links EXCEPT ![other[t]][lv[t]] = s]
  BY DEF LinkBack
<1>7. /\ s \subseteq copy[t] \cup {pt[t]} /\ s # {} /\ Cardinality(s) <= Room(lv[t])
      /\ s = copy[t] \cup {pt[t]} \/ <<other[t], lv[t]>> \in shrunk'
  <2>1. CASE Cardinality(copy[t]) < Room(lv[t])
    <3>1. s = copy[t] \cup {pt[t]}
      BY <1>6, <2>1 DEF AddLink
    <3>2. /\ Cardinality(copy[t]) \in Nat /\ Cardinality(s) \in Nat
          /\ Cardinality(s) <= Cardinality(copy[t]) + 1
      <4> DEFINE C == copy[t]
      <4>1. IsFiniteSet(C) /\ s = C \cup {pt[t]}
        BY <1>5, <3>1
      <4> HIDE DEF C
      <4>2. Cardinality(s) = IF pt[t] \in C THEN Cardinality(C) ELSE Cardinality(C) + 1
        BY <4>1, FS_AddElement
      <4>3. Cardinality(C) \in Nat
        BY <4>1, FS_CardinalityType
      <4>4. QED
        BY <4>2, <4>3 DEF C
    <3>3. QED
      BY <1>3, <2>1, <3>1, <3>2
  <2>2. CASE ~(Cardinality(copy[t]) < Room(lv[t]))
    <3>1. s \subseteq copy[t] \cup {pt[t]} /\ s # {} /\ Cardinality(s) <= Room(lv[t])
      BY <1>6, <2>2 DEF AddLink
    <3>2. <<other[t], lv[t]>> \in shrunk'
      BY <2>2 DEF LinkBack
    <3>3. QED
      BY <3>1, <3>2
  <2>3. QED
    BY <2>1, <2>2
<1>8. s \in SUBSET Point
  BY <1>3, <1>5, <1>7
<1>9. shrunk \subseteq shrunk' /\ shrunk' \subseteq Point \X Levels
  BY <1>2, <1>3, <1>4 DEF LinkBack, IndexTypeOK
<1>10. /\ links' \in [Point -> [Levels -> SUBSET Point]]
       /\ ListIs(other[t], lv[t], s)
  <2>1. links' = [links EXCEPT ![other[t]][lv[t]] = s]
    BY <1>4, <1>6
  <2>2. IndexTypeOK /\ other[t] \in Point /\ lv[t] \in Levels
    BY <1>2, <1>3, <1>4
  <2>3. QED
    BY <1>8, <2>1, <2>2, OneList
<1>11. QED
  BY <1>4, <1>7, <1>9, <1>10

\* A thread changes its own variables only.
LEMMA OthersStay ==
  ASSUME IInv, NEW t \in Thread, Step(t)
  PROVE  \A u \in Thread : u # t =>
           /\ pc'[u] = pc[u] /\ pt'[u] = pt[u] /\ near'[u] = near[u] /\ lv'[u] = lv[u]
           /\ seen'[u] = seen[u] /\ todo'[u] = todo[u]
           /\ other'[u] = other[u] /\ copy'[u] = copy[u]
<1>0. WorkTypeOK
  BY DEF IInv, TypeOK
<1>1. CASE Take(t) \/ LockOwn(t)
  BY <1>0, <1>1 DEF Take, LockOwn, WorkTypeOK, link
<1>2. CASE Greedy(t) \/ Begin(t) \/ Look(t)
  BY <1>0, <1>2 DEF Greedy, Begin, Look, WorkTypeOK, link
<1>3. CASE Choose(t) \/ LockOther(t)
  BY <1>0, <1>3 DEF Choose, LockOther, WorkTypeOK, link
<1>4. CASE LinkBack(t)
  BY <1>0, <1>4 DEF LinkBack, WorkTypeOK
<1>5. CASE Relock(t)
  BY <1>0, <1>5 DEF Relock, WorkTypeOK, link
<1>6. CASE Publish(t) \/ Enter(t)
  BY <1>0, <1>6 DEF Publish, Enter, Returns, WorkTypeOK, link
<1>7. QED
  BY <1>1, <1>2, <1>3, <1>4, <1>5, <1>6 DEF Step

LEMMA IndexTypeStep ==
  ASSUME IInv, NoSharedRise, [Next]_vars
  PROVE  IndexTypeOK'
<1>0. IndexTypeOK /\ WorkTypeOK
  BY DEF IInv, TypeOK
<1> USE <1>0 DEF IndexTypeOK
<1>1. CASE StartAdd
  <2>1. Head(calls) \in Seq(Levels) /\ Head(calls) # <<>>
    BY <1>1, HeadIs DEF StartAdd
  <2> DEFINE ls == Head(calls)
             grown == level \o ls
  <2>2. Top(ls) \in Levels
    BY <2>1, TopIs
  <2>3. grown \in Seq(Levels) /\ Len(grown) = Len(level) + Len(ls)
    BY <2>1
  <2>4. level' = grown /\ ptLevel' = Top(ls) /\ batch' = Batch(grown, Len(level), Top(ls))
    BY <1>1 DEF StartAdd, Starts
  <2>5. Len(level') <= MaxPoint
    BY <1>1, <2>3, <2>4 DEF StartAdd
  <2>6. batch' \subseteq Point
    <3>1. \A p \in batch' : p \in Nat /\ Len(level) < p /\ p <= Len(grown)
      <4>1. Len(level) \in Nat
        OBVIOUS
      <4> HIDE DEF grown
      <4>2. QED
        BY <2>3, <2>4, <4>1, BatchIs
    <3>2. Len(level) \in Nat /\ Len(grown) <= MaxPoint /\ Len(grown) \in Nat
      BY <2>3, <2>4, <2>5
    <3>3. ASSUME NEW p \in batch' PROVE p \in Nat /\ 1 <= p /\ p <= MaxPoint
      <4>1. p \in Nat /\ Len(level) < p /\ p <= Len(grown)
        BY <3>1
      <4>2. Len(grown) <= MaxPoint /\ MaxPoint \in Nat
        BY <2>4, <2>5, ConstantsOK
      <4> HIDE DEF grown
      <4>3. QED
        BY <3>2, <4>1, <4>2
    <3>4. QED
      BY <3>3, ConstantsOK, Zenon
  <2>7. shared' \in BOOLEAN
    BY <1>1 DEF StartAdd, Starts
  <2>8. QED
    BY <1>1, <2>2, <2>3, <2>4, <2>5, <2>6, <2>7 DEF StartAdd, hist, local
<1>2. CASE NextBatch
  <2>1. calls # <<>> /\ Before \in Nat /\ ptLevel \in Levels
    BY <1>2, ConstantsOK DEF NextBatch, IInv, DriverOK
  <2>2. calls' \in Calls
    BY <1>2, <2>1, HeadIs DEF NextBatch
  <2>3. ptLevel' = ptLevel - 1 /\ batch' = Batch(level, Before, ptLevel - 1)
    BY <1>2 DEF NextBatch, Starts, Before
  <2>4. ptLevel' \in Levels \cup {-1}
    <3>1. ptLevel \in Nat /\ ptLevel <= MaxLevel
      BY <2>1, ConstantsOK
    <3>2. ptLevel = 0 => ptLevel' = -1
      BY <2>3
    <3>3. ptLevel # 0 => ptLevel' \in Levels
      <4>1. ptLevel # 0 => ptLevel - 1 \in Nat /\ ptLevel - 1 <= MaxLevel
        BY <3>1, ConstantsOK
      <4>2. QED
        BY <2>3, <4>1, ConstantsOK
    <3>4. QED
      BY <3>2, <3>3
  <2>5. batch' \subseteq Point
    <3>1. \A p \in batch' : p \in Nat /\ Before < p /\ p <= Len(level)
      BY <2>1, <2>3, BatchIs
    <3>2. QED
      BY <2>1, <3>1, ConstantsOK
  <2>6. shared' \in BOOLEAN
    BY <1>2 DEF NextBatch, Starts
  <2>7. QED
    BY <1>2, <2>2, <2>4, <2>5, <2>6 DEF NextBatch, index, hist
<1>3. CASE Throw
  <2>1. calls # <<>>
    BY <1>3 DEF Throw, IInv, DriverOK
  <2>2. calls' \in Calls
    BY <1>3, <2>1, HeadIs DEF Throw
  <2>3. QED
    BY <1>3, <2>2 DEF Throw, index, hist
<1>4. ASSUME NEW t \in Thread, Take(t)
      PROVE  IndexTypeOK'
  BY <1>4, ConstantsOK DEF Take
<1>5. ASSUME NEW t \in Thread, LockOwn(t)
      PROVE  IndexTypeOK'
  <2>1. pt[t] \in Point
    BY <1>5, AtWork DEF LockOwn
  <2>2. QED
    BY <1>5, <2>1 DEF LockOwn, index, driver, hist
<1>6. ASSUME NEW t \in Thread, Greedy(t) \/ Begin(t) \/ Look(t)
      PROVE  IndexTypeOK'
  BY <1>6 DEF Greedy, Begin, Look, index, driver, hist
<1>7. ASSUME NEW t \in Thread, Choose(t)
      PROVE  IndexTypeOK'
  <2>1. links' \in [Point -> [Levels -> SUBSET Point]]
    BY <1>7, ChooseIs
  <2>2. pt[t] \in Point
    BY <1>7, AtWork DEF Choose
  <2>3. QED
    BY <1>7, <2>1, <2>2 DEF Choose, driver, hist
<1>8. ASSUME NEW t \in Thread, LockOther(t)
      PROVE  IndexTypeOK'
  <2>1. todo[t] \subseteq Point
    BY DEF WorkTypeOK
  <2>2. PICK q \in todo[t] : lock' = [lock EXCEPT ![q] = t]
    BY <1>8 DEF LockOther
  <2>3. QED
    BY <1>8, <2>1, <2>2 DEF LockOther, index, driver, hist
<1>9. ASSUME NEW t \in Thread, LinkBack(t)
      PROVE  IndexTypeOK'
  <2>1. /\ links' \in [Point -> [Levels -> SUBSET Point]]
        /\ other[t] \in Point /\ shrunk' \subseteq Point \X Levels
    BY <1>9, LinkBackIs
  <2>2. QED
    BY <1>9, <2>1 DEF LinkBack, driver
<1>10. ASSUME NEW t \in Thread, Relock(t)
       PROVE  IndexTypeOK'
  <2>1. pt[t] \in Point
    BY <1>10, AtWork DEF Relock
  <2>2. lock' = lock \/ lock' = [lock EXCEPT ![pt[t]] = t]
    BY <1>10 DEF Relock
  <2>3. lock' \in [Point -> Thread \cup {Free}]
    BY <2>1, <2>2
  <2>4. QED
    BY <1>10, <2>3 DEF Relock, index, driver, hist
<1>11. ASSUME NEW t \in Thread, Publish(t) \/ Enter(t)
       PROVE  IndexTypeOK'
  <2>1. pt[t] \in Point
    BY <1>11, AtWork DEF Publish, Enter
  <2>2. QED
    BY <1>11, <2>1 DEF Publish, Enter, Returns
<1>12. CASE UNCHANGED vars
  BY <1>12 DEF vars
<1>13. QED
  BY <1>1, <1>2, <1>3, <1>4, <1>5, <1>6, <1>7, <1>8, <1>9, <1>10, <1>11, <1>12
     DEF Next, Step

LEMMA WorkTypeStep ==
  ASSUME IInv, NoSharedRise, [Next]_vars
  PROVE  WorkTypeOK'
<1>0. IndexTypeOK /\ WorkTypeOK
  BY DEF IInv, TypeOK
<1> USE <1>0 DEF WorkTypeOK
<1>1. CASE StartAdd \/ NextBatch \/ Throw
  BY <1>1 DEF StartAdd, NextBatch, Throw, local
<1>2. ASSUME NEW t \in Thread, Take(t)
      PROVE  WorkTypeOK'
  <2>1. batch \subseteq Point /\ entry \in Point \cup {NoOne}
    BY DEF IndexTypeOK
  <2>2. QED
    BY <1>2, <2>1 DEF Take, link
<1>3. ASSUME NEW t \in Thread, LockOwn(t)
      PROVE  WorkTypeOK'
  <2>1. maxLevel \in Levels
    BY <1>3, AtWork DEF LockOwn
  <2>2. QED
    BY <1>3, <2>1 DEF LockOwn, link
<1>4. ASSUME NEW t \in Thread, Greedy(t)
      PROVE  WorkTypeOK'
  <2>1. ptLevel \in Levels /\ lv[t] > ptLevel
    BY <1>4, AtWork DEF Greedy
  <2>2. lv[t] - 1 \in Levels
    BY <2>1, ConstantsOK
  <2>3. PICK q \in Point : near' = [near EXCEPT ![t] = q]
    BY <1>4 DEF Greedy, Reach
  <2>4. QED
    BY <1>4, <2>2, <2>3 DEF Greedy, link
<1>5. ASSUME NEW t \in Thread, Begin(t)
      PROVE  WorkTypeOK'
  <2>1. near[t] \in Point
    BY <1>5, AtWork DEF Begin
  <2>2. QED
    BY <1>5, <2>1 DEF Begin, link
<1>6. ASSUME NEW t \in Thread, Look(t)
      PROVE  WorkTypeOK'
  BY <1>6 DEF Look, link, IndexTypeOK
<1>7. ASSUME NEW t \in Thread, Choose(t)
      PROVE  WorkTypeOK'
  BY <1>7 DEF Choose, link
<1>8. ASSUME NEW t \in Thread, LockOther(t)
      PROVE  WorkTypeOK'
  BY <1>8 DEF LockOther, IndexTypeOK
<1>9. ASSUME NEW t \in Thread, LinkBack(t)
      PROVE  WorkTypeOK'
  BY <1>9 DEF LinkBack
<1>10. ASSUME NEW t \in Thread, Relock(t)
       PROVE  WorkTypeOK'
  <2>1. CASE lv[t] > 0
    <3>1. lv[t] - 1 \in Levels
      BY <2>1, ConstantsOK
    <3>2. QED
      BY <1>10, <2>1, <3>1 DEF Relock, link
  <2>2. CASE ~(lv[t] > 0)
    BY <1>10, <2>2 DEF Relock, link
  <2>3. QED
    BY <2>1, <2>2
<1>11. ASSUME NEW t \in Thread, Publish(t) \/ Enter(t)
       PROVE  WorkTypeOK'
  BY <1>11, ConstantsOK DEF Publish, Enter, Returns, link
<1>12. CASE UNCHANGED vars
  BY <1>12 DEF vars
<1>13. QED
  BY <1>1, <1>2, <1>3, <1>4, <1>5, <1>6, <1>7, <1>8, <1>9, <1>10, <1>11, <1>12
     DEF Next, Step
----------------------------------------------------------------------------
(* The driver.                                                             *)

\* What is in level stays there: the lists of levels only grow.
LEMMA LevelStays ==
  ASSUME IInv, [Next]_vars
  PROVE  /\ Len(level) <= Len(level')
         /\ \A p \in 1 .. Len(level) : level'[p] = level[p]
<1>1. level \in Seq(Levels)
  BY DEF IInv, TypeOK, IndexTypeOK
<1>2. CASE StartAdd
  <2>1. Head(calls) \in Seq(Levels) /\ level' = level \o Head(calls)
    BY <1>2, HeadIs DEF StartAdd, IInv, TypeOK, IndexTypeOK
  <2>2. QED
    BY <1>1, <2>1
<1>3. CASE level' = level
  BY <1>1, <1>3
<1>4. QED
  BY <1>2, <1>3 DEF Next, Step, NextBatch, Throw, Take, LockOwn, Greedy, Begin, Look,
     Choose, LockOther, LinkBack, Relock, Publish, Enter, vars, index

\* Between adds nobody is at work.
LEMMA IdleBetween ==
  ASSUME IInv, ptLevel = -1
  PROVE  AllIdle /\ batch = {}
<1>1. AllIdle
  BY DEF IInv, AllIdle, ThreadsOK, Works
<1>2. ASSUME NEW p \in batch
      PROVE  FALSE
  <2>1. p \in 1 .. Len(level) /\ level[p] = -1 /\ level \in Seq(Levels)
    BY DEF IInv, DriverOK, TypeOK, IndexTypeOK
  <2>2. level[p] \in Levels
    BY <2>1
  <2>3. QED
    BY <2>1, <2>2, ConstantsOK
<1>3. QED
  BY <1>1, <1>2

LEMMA DriverStep ==
  ASSUME IInv, NoSharedRise, [Next]_vars
  PROVE  DriverOK'
<1>0. IndexTypeOK /\ WorkTypeOK /\ DriverOK
  BY DEF IInv, TypeOK
<1>1. CASE StartAdd
  <2>1. Head(calls) \in Seq(Levels) /\ Head(calls) # <<>>
    BY <1>0, <1>1, HeadIs DEF StartAdd, IndexTypeOK
  <2> DEFINE ls == Head(calls)
             grown == level \o ls
  <2>2. level \in Seq(Levels) /\ Len(level) \in Nat
    BY <1>0 DEF IndexTypeOK
  <2>3. grown \in Seq(Levels) /\ Len(grown) = Len(level) + Len(ls) /\ Len(ls) \in Nat
    BY <2>1, <2>2
  <2>4. /\ level' = grown /\ ptLevel' = Top(ls) /\ calls' = calls /\ inserted' = inserted
        /\ batch' = Batch(grown, Len(level), Top(ls)) /\ calls # <<>>
    BY <1>1 DEF StartAdd, Starts, hist
  <2>5. Before' = Len(level)
    BY <2>2, <2>3, <2>4 DEF Before
  <2>6. inserted \subseteq 1 .. Len(level)
    BY <1>0 DEF DriverOK
  <2>7. \A p \in batch' : p \in Nat /\ Len(level) < p /\ p <= Len(grown) /\ grown[p] = ptLevel'
    <3> HIDE DEF grown
    <3> QED
      BY <2>2, <2>3, <2>4, BatchIs
  <2>8. \A p \in inserted' : p <= Before'
    BY <2>4, <2>5, <2>6
  <2>9. \A p \in batch' : p \in 1 .. Len(level') /\ level'[p] = ptLevel' /\ p \notin inserted'
    BY <2>2, <2>3, <2>4, <2>6, <2>7
  <2>10. inserted' \subseteq 1 .. Len(level')
    BY <2>2, <2>3, <2>4, <2>6
  <2>11. QED
    BY <2>2, <2>4, <2>5, <2>8, <2>9, <2>10 DEF DriverOK
<1>2. CASE NextBatch
  <2>1. /\ ptLevel >= 0 /\ ptLevel \in Nat /\ Before \in Nat /\ calls # <<>>
        /\ \A p \in inserted : p <= Before \/ level[p] >= ptLevel
    BY <1>0, <1>2, ConstantsOK DEF NextBatch, DriverOK, IndexTypeOK
  <2>2. /\ ptLevel' = ptLevel - 1 /\ batch' = Batch(level, Before, ptLevel - 1)
        /\ level' = level /\ inserted' = inserted
        /\ ptLevel # 0 => calls' = calls
    BY <1>2 DEF NextBatch, Starts, Before, index, hist
  <2>3. level \in Seq(Levels)
    BY <1>0 DEF IndexTypeOK
  <2>4. \A p \in batch' : p \in Nat /\ Before < p /\ p <= Len(level) /\ level[p] = ptLevel - 1
    BY <2>1, <2>2, <2>3, BatchIs
  <2>5. inserted \subseteq 1 .. Len(level)
    BY <1>0 DEF DriverOK
  <2>6. \A p \in inserted : level[p] \in Nat
    BY <2>3, <2>5, ConstantsOK
  <2>7. \A p \in batch' : p \notin inserted
    BY <2>1, <2>4, <2>5
  <2>8. ptLevel' >= 0 => calls' = calls /\ Before' = Before
    BY <2>1, <2>2 DEF Before
  <2>9. \A p \in inserted : p <= Before \/ level[p] >= ptLevel - 1
    BY <2>1, <2>6
  <2>10. \A p \in batch' : p \in 1 .. Len(level) /\ level[p] = ptLevel' /\ p \notin inserted
    BY <2>1, <2>2, <2>4, <2>7
  <2>11. QED
    BY <2>1, <2>2, <2>5, <2>8, <2>9, <2>10 DEF DriverOK
<1>3. CASE Throw
  BY <1>0, <1>3 DEF Throw, DriverOK, Before, index, hist
<1>4. ASSUME NEW t \in Thread, Take(t)
      PROVE  DriverOK'
  <2>1. PICK p \in batch :
          /\ batch' = batch \ {p}
          /\ inserted' = inserted \/ inserted' = inserted \cup {p}
    BY <1>4 DEF Take
  <2>2. p \in 1 .. Len(level) /\ level[p] = ptLevel
    BY <1>0 DEF DriverOK
  <2>3. level' = level /\ calls' = calls /\ ptLevel' = ptLevel /\ Before' = Before
    BY <1>4 DEF Take, Before
  <2>4. ptLevel >= 0 => ptLevel \in Nat
    BY <1>0, ConstantsOK DEF IndexTypeOK
  <2>5. ptLevel' >= 0 => \A q \in inserted' : q <= Before' \/ level'[q] >= ptLevel'
    <3>1. SUFFICES ASSUME ptLevel >= 0, NEW q \in inserted'
                   PROVE  q <= Before \/ level[q] >= ptLevel
      BY <2>3
    <3>2. CASE q \in inserted
      BY <1>0, <3>1, <3>2 DEF DriverOK
    <3>3. CASE q = p
      BY <2>2, <2>4, <3>1, <3>3
    <3>4. QED
      BY <2>1, <3>2, <3>3
  <2>6. \A q \in batch' : q \in batch /\ q # p
    BY <2>1
  <2>7. \A q \in batch' : q \in 1 .. Len(level) /\ level[q] = ptLevel /\ q \notin inserted'
    BY <1>0, <2>1, <2>6 DEF DriverOK
  <2>8. inserted' \subseteq 1 .. Len(level)
    BY <1>0, <2>1, <2>2 DEF DriverOK
  <2>9. QED
    BY <1>0, <2>3, <2>5, <2>7, <2>8 DEF DriverOK
<1>5. ASSUME NEW t \in Thread, Publish(t) \/ Enter(t)
      PROVE  DriverOK'
  <2>1. inserted' = inserted \/ inserted' = inserted \cup {pt[t]}
    BY <1>5 DEF Publish, Enter, Returns
  <2>2. pc[t] # "idle"
    BY <1>5 DEF Publish, Enter
  <2>3. /\ pt[t] \in 1 .. Len(level) /\ level[pt[t]] = ptLevel /\ pt[t] \notin batch
        /\ ptLevel \in Nat
    BY <2>2, AtWork, ConstantsOK DEF IInv, ThreadsOK, Works
  <2>4. /\ level' = level /\ calls' = calls /\ ptLevel' = ptLevel /\ Before' = Before
        /\ batch' = batch
    BY <1>5 DEF Publish, Enter, Returns, Before
  <2>5. ptLevel' >= 0 => \A q \in inserted' : q <= Before' \/ level'[q] >= ptLevel'
    <3>1. SUFFICES ASSUME ptLevel >= 0, NEW q \in inserted'
                   PROVE  q <= Before \/ level[q] >= ptLevel
      BY <2>4
    <3>2. CASE q \in inserted
      BY <1>0, <3>1, <3>2 DEF DriverOK
    <3>3. CASE q = pt[t]
      BY <2>3, <3>3
    <3>4. QED
      BY <2>1, <3>2, <3>3
  <2>6. \A q \in batch' : q \in 1 .. Len(level) /\ level[q] = ptLevel /\ q \notin inserted'
    BY <1>0, <2>1, <2>3, <2>4 DEF DriverOK
  <2>7. inserted' \subseteq 1 .. Len(level)
    BY <1>0, <2>1, <2>3 DEF DriverOK
  <2>8. QED
    BY <1>0, <2>4, <2>5, <2>6, <2>7 DEF DriverOK
<1>6. CASE UNCHANGED <<level, calls, ptLevel, batch, inserted>>
  BY <1>0, <1>6 DEF DriverOK, Before
<1>7. QED
  BY <1>1, <1>2, <1>3, <1>4, <1>5, <1>6 DEF Next, Step, LockOwn, Greedy, Begin, Look,
     Choose, LockOther, LinkBack, Relock, vars, index, driver, hist
----------------------------------------------------------------------------
(* The threads and the entry point.                                        *)

\* An inserted point is a point, and its level is one.
LEMMA InsertedIs ==
  ASSUME IInv, NEW p \in inserted
  PROVE  p \in Point /\ p \in 1 .. Len(level) /\ level[p] \in Levels /\ level[p] \in Nat
<1>1. p \in 1 .. Len(level) /\ level \in Seq(Levels) /\ p \in Point
  BY DEF IInv, DriverOK, TypeOK, IndexTypeOK
<1>2. QED
  BY <1>1, ConstantsOK

\* The greedy search goes to points that were inserted before this batch and
\* have the level: no others are linked above it.
LEMMA ReachIs ==
  ASSUME IInv, NEW t \in Thread, pc[t] = "descend", lv[t] > ptLevel,
         NEW q \in Reach(near[t], lv[t])
  PROVE  /\ q \in inserted /\ level[q] >= lv[t]
         /\ links[near[t]][0] = {} => q = near[t]
<1> DEFINE S == {p \in inserted : level[p] >= lv[t]}
<1>1. lv[t] \in Levels /\ lv[t] \in Nat /\ ptLevel \in Nat /\ near[t] \in inserted
  BY AtWork, ConstantsOK
<1>2. near[t] \in S
  BY <1>1 DEF IInv, ThreadsOK, Works
<1>3. \A u \in Thread : ~Listed(u, lv[t])
  BY <1>1 DEF Listed
<1>4. \A p \in Point : InGraph(p, lv[t]) => p \in S
  BY <1>3 DEF InGraph
<1>5. S \subseteq Point
  BY InsertedIs
<1>6. \A x \in S : links[x][lv[t]] \subseteq S
  <2>1. SUFFICES ASSUME NEW x \in S, NEW y \in links[x][lv[t]]
                 PROVE  y \in S
    OBVIOUS
  <2>2. x \in Point /\ y \in Point
    BY <1>1, <1>5 DEF IInv, TypeOK, IndexTypeOK
  <2>3. InGraph(y, lv[t])
    BY <1>1, <2>2 DEF IInv, GraphOK
  <2>4. QED
    BY <1>4, <2>2, <2>3
<1>7. q \in S
  <2> HIDE DEF S
  <2> QED
    BY <1>2, <1>5, <1>6 DEF Reach
<1>8. links[near[t]][0] = {} => inserted = {near[t]}
  BY <1>1 DEF IInv, GroundOK
<1>9. QED
  BY <1>7, <1>8

\* The entry point that a thread reads has the highest level.
LEMMA EntryRead ==
  ASSUME IInv, NEW t \in Thread, Take(t), entry # NoOne
  PROVE  entry \in inserted /\ level[entry] = maxLevel
<1>1. pc[t] = "idle" /\ (shared \/ t = First)
  BY DEF Take
<1>2. \A u \in Thread : pc[u] # "enter"
  BY <1>1 DEF IInv, ThreadsOK, Works
<1>3. QED
  BY <1>2 DEF IInv, EntryOK

LEMMA EntryStep ==
  ASSUME IInv, NoSharedRise, [Next]_vars
  PROVE  EntryOK'
<1>0. EntryOK /\ IndexTypeOK /\ WorkTypeOK
  BY DEF IInv, TypeOK
<1>1. \A p \in inserted : p \in 1 .. Len(level) /\ level'[p] = level[p]
  BY InsertedIs, LevelStays
<1>2. ASSUME NEW t \in Thread, Take(t)
      PROVE  EntryOK'
  <2>1. CASE entry = NoOne
    <3>1. PICK p \in batch : /\ entry' = p /\ maxLevel' = ptLevel
                             /\ inserted' = inserted \cup {p}
      BY <1>2, <2>1 DEF Take
    <3>2. inserted' = {p} /\ level' = level
      BY <1>0, <1>2, <2>1, <3>1 DEF EntryOK, Take
    <3>3. p \in 1 .. Len(level) /\ level[p] = ptLevel /\ p # NoOne
      BY <1>0, <3>1, ConstantsOK DEF IInv, DriverOK, IndexTypeOK
    <3>4. ptLevel \in Nat
      <4>1. level[p] \in Levels
        BY <1>0, <3>3 DEF IndexTypeOK
      <4>2. QED
        BY <3>3, <4>1, ConstantsOK
    <3>5. QED
      BY <3>1, <3>2, <3>3, <3>4 DEF EntryOK
  <2>2. CASE entry # NoOne
    <3>1. entry' = entry /\ maxLevel' = maxLevel /\ inserted' = inserted /\ level' = level
      BY <1>2, <2>2 DEF Take
    <3>2. level[entry] = maxLevel
      BY <1>2, <2>2, EntryRead
    <3>3. QED
      BY <1>0, <2>2, <3>1, <3>2 DEF EntryOK
  <2>3. QED
    BY <2>1, <2>2
<1>3. ASSUME NEW t \in Thread, Publish(t)
      PROVE  EntryOK'
  <2>1. /\ pc[t] = "publish" /\ pt[t] \in 1 .. Len(level) /\ level[pt[t]] = ptLevel
        /\ ptLevel \in Nat /\ maxLevel \in Nat /\ near[t] \in inserted
    BY <1>3, AtWork, ConstantsOK DEF Publish, IInv, ThreadsOK, Works
  <2>2. entry # NoOne /\ entry' = entry /\ level' = level /\ entry \in inserted
    BY <1>0, <1>3, <2>1 DEF EntryOK, Publish
  <2>3. \A p \in inserted : level[p] <= maxLevel /\ level[p] \in Nat
    BY <1>0, InsertedIs DEF EntryOK
  <2>4. CASE ptLevel > maxLevel
    <3>1. maxLevel' = ptLevel /\ inserted' = inserted /\ pc'[t] = "enter"
      BY <1>0, <1>3, <2>1, <2>4 DEF Publish, WorkTypeOK
    <3>2. \A p \in inserted' : level'[p] <= maxLevel'
      BY <2>1, <2>2, <2>3, <2>4, <3>1
    <3>3. QED
      BY <2>1, <2>2, <3>1, <3>2 DEF EntryOK
  <2>5. CASE ptLevel <= maxLevel
    <3>1. maxLevel' = maxLevel /\ inserted' = inserted \cup {pt[t]}
      BY <1>3, <2>1, <2>5 DEF Publish, Returns
    <3>2. \A u \in Thread : pc[u] = "enter" => pc'[u] = "enter"
      BY <1>0, <1>3, <2>1, <2>5 DEF Publish, Returns, WorkTypeOK
    <3>3. QED
      BY <1>0, <2>1, <2>2, <2>5, <3>1, <3>2 DEF EntryOK
  <2>6. QED
    BY <2>1, <2>4, <2>5
<1>4. ASSUME NEW t \in Thread, Enter(t)
      PROVE  EntryOK'
  <2>1. /\ pc[t] = "enter" /\ pt[t] \in 1 .. Len(level) /\ level[pt[t]] = maxLevel
        /\ ptLevel \in Nat /\ maxLevel \in Nat /\ pt[t] # NoOne
    BY <1>4, AtWork, ConstantsOK DEF Enter, IInv, ThreadsOK, Works
  <2>2. /\ entry' = pt[t] /\ maxLevel' = maxLevel /\ inserted' = inserted \cup {pt[t]}
        /\ level' = level
    BY <1>4 DEF Enter, Returns
  <2>3. QED
    BY <1>0, <2>1, <2>2 DEF EntryOK
<1>5. ASSUME UNCHANGED <<entry, maxLevel, inserted>>,
             \A t \in Thread : pc[t] = "enter" => pc'[t] = "enter"
      PROVE  EntryOK'
  BY <1>0, <1>1, <1>5 DEF EntryOK
<1>6. ASSUME StartAdd \/ NextBatch \/ Throw \/ UNCHANGED vars
      PROVE  EntryOK'
  BY <1>5, <1>6 DEF StartAdd, NextBatch, Throw, vars, index, hist, local
<1>7. ASSUME NEW t \in Thread,
             \/ LockOwn(t) \/ Greedy(t) \/ Begin(t) \/ Look(t) \/ Choose(t)
             \/ LockOther(t) \/ LinkBack(t) \/ Relock(t)
      PROVE  EntryOK'
  <2>1. UNCHANGED <<entry, maxLevel, inserted>>
    BY <1>7 DEF LockOwn, Greedy, Begin, Look, Choose, LockOther, LinkBack, Relock, index, hist
  <2>2. pc[t] # "enter"
    BY <1>7 DEF LockOwn, Greedy, Begin, Look, Choose, LockOther, LinkBack, Relock
  <2>3. \A u \in Thread : u # t => pc'[u] = pc[u]
    BY <1>7, OthersStay DEF Step
  <2>4. QED
    BY <1>5, <2>1, <2>2, <2>3
<1>8. QED
  BY <1>2, <1>3, <1>4, <1>6, <1>7 DEF Next, Step

LEMMA ThreadsStep ==
  ASSUME IInv, NoSharedRise, [Next]_vars
  PROVE  ThreadsOK'
<1>0. ThreadsOK /\ EntryOK /\ IndexTypeOK /\ WorkTypeOK
  BY DEF IInv, TypeOK
<1>1. CASE AllIdle /\ pc' = pc
  BY <1>1 DEF AllIdle, ThreadsOK
<1>2. CASE StartAdd \/ NextBatch \/ Throw
  BY <1>1, <1>2, IdleBetween DEF StartAdd, NextBatch, Throw, local
<1>3. CASE UNCHANGED vars
  BY <1>0, <1>3 DEF ThreadsOK, Works, vars
<1>4. ASSUME NEW t \in Thread, Step(t)
      PROVE  ThreadsOK'
  <2>1. level' = level /\ ptLevel' = ptLevel /\ shared' = shared /\ batch' \subseteq batch
    BY <1>4 DEF Step, Take, LockOwn, Greedy, Begin, Look, Choose, LockOther, LinkBack,
       Relock, Publish, Enter, index, driver
  <2>2. ~shared => t = First /\ \A u \in Thread : u # t => pc[u] = "idle"
    <3>1. ~shared => t = First
      <4>1. CASE pc[t] = "idle"
        BY <1>4, <4>1 DEF Step, Take, LockOwn, Greedy, Begin, Look, Choose, LockOther,
           LinkBack, Relock, Publish, Enter
      <4>2. CASE pc[t] # "idle"
        BY <1>0, <4>2 DEF ThreadsOK
      <4>3. QED
        BY <4>1, <4>2
    <3>2. QED
      BY <1>0, <3>1 DEF ThreadsOK
  <2>3. \/ inserted' = inserted
        \/ pc[t] # "idle" /\ inserted' = inserted \cup {pt[t]}
        \/ entry = NoOne /\ inserted \subseteq inserted'
    BY <1>4 DEF Step, Take, LockOwn, Greedy, Begin, Look, Choose, LockOther, LinkBack,
       Relock, Publish, Enter, Returns, hist
  <2>4. \A u \in Thread : pc[u] # "idle" => entry # NoOne
    BY <1>0 DEF ThreadsOK, Works, EntryOK
  <2>5. \A u \in Thread : u # t /\ pc[u] # "idle" => pt[u] \notin inserted'
    BY <1>0, <2>3, <2>4 DEF ThreadsOK, Works
  <2>6. \/ maxLevel' = maxLevel
        \/ ptLevel > maxLevel /\ pc[t] # "idle"
        \/ entry = NoOne
    BY <1>4 DEF Step, Take, LockOwn, Greedy, Begin, Look, Choose, LockOther, LinkBack,
       Relock, Publish, Enter, index
  <2>7. \A u \in Thread : u # t /\ pc[u] # "idle" => maxLevel' = maxLevel /\ shared
    BY <2>2, <2>4, <2>6 DEF NoSharedRise
  <2>8. ASSUME NEW u \in Thread, u # t, pc'[u] # "idle"
        PROVE  Works(u)'
    BY <1>0, <1>4, <2>1, <2>3, <2>4, <2>5, <2>7, <2>8, OthersStay DEF ThreadsOK, Works
  <2>9. ASSUME pc'[t] # "idle"
        PROVE  /\ Works(t)'
               /\ (pt'[t] = pt[t] /\ pc[t] # "idle") \/ pt'[t] \in batch
    <3>1. CASE Take(t)
      <4>1. entry # NoOne /\ pc[t] = "idle"
        BY <1>0, <2>9, <3>1 DEF Take, WorkTypeOK
      <4>2. PICK p \in batch : /\ batch' = batch \ {p} /\ pc'[t] = "lock"
                               /\ pt'[t] = p /\ near'[t] = entry
                               /\ inserted' = inserted /\ maxLevel' = maxLevel
        BY <1>0, <3>1, <4>1 DEF Take, WorkTypeOK
      <4>3. entry \in inserted /\ level[entry] = maxLevel /\ maxLevel \in Nat
        BY <3>1, <4>1, EntryRead, InsertedIs
      <4>4. p \in 1 .. Len(level) /\ level[p] = ptLevel /\ p \notin inserted
        BY DEF IInv, DriverOK
      <4>5. ptLevel >= 0
        <5>1. level[p] \in Levels
          BY <1>0, <4>4 DEF IndexTypeOK
        <5>2. QED
          BY <4>4, <5>1, ConstantsOK
      <4>6. QED
        BY <2>1, <4>2, <4>3, <4>4, <4>5 DEF Works
    <3> DEFINE Rest == Works(t)' /\ pt'[t] = pt[t]
    <3>2. ASSUME pc[t] # "idle"
          PROVE  /\ Works(t) /\ lv[t] \in Nat /\ ptLevel \in Nat /\ maxLevel \in Nat
                 /\ level[near[t]] \in Nat /\ near[t] \in inserted
      BY <1>0, <3>2, AtWork, InsertedIs, ConstantsOK DEF ThreadsOK
    <3>3. CASE LockOwn(t)
      <4>1. pc[t] = "lock" /\ lv'[t] = maxLevel /\ pc'[t] = "descend"
        BY <1>0, <3>3 DEF LockOwn, WorkTypeOK
      <4>2. QED
        BY <2>1, <3>2, <3>3, <4>1 DEF LockOwn, Works, index, driver, hist
    <3>4. CASE Greedy(t)
      <4>1. /\ pc[t] = "descend" /\ lv[t] > ptLevel /\ lv'[t] = lv[t] - 1
            /\ near'[t] \in Reach(near[t], lv[t])
        BY <1>0, <3>4 DEF Greedy, WorkTypeOK
      <4>2. near'[t] \in inserted /\ level[near'[t]] >= lv[t] /\ level[near'[t]] \in Nat
        BY <4>1, ReachIs, InsertedIs
      <4>3. QED
        BY <2>1, <3>2, <3>4, <4>1, <4>2 DEF Greedy, Works, index, driver, hist
    <3>5. CASE Begin(t) \/ Look(t) \/ Choose(t)
      <4>1. /\ pc[t] \in {"descend", "search"} /\ lv[t] <= ptLevel
            /\ pc'[t] \in {"search", "links"}
        BY <1>0, <3>2, <3>5 DEF Begin, Look, Choose, WorkTypeOK, Works
      <4>2. UNCHANGED <<pt, near, lv, inserted, maxLevel, batch>>
        BY <3>5 DEF Begin, Look, Choose, index, driver, hist
      <4>3. QED
        BY <2>1, <3>2, <4>1, <4>2 DEF Works
    <3>6. CASE LockOther(t) \/ LinkBack(t)
      <4>1. /\ pc[t] \in {"links", "back"} /\ pc'[t] \in {"links", "back"}
            /\ UNCHANGED <<pt, near, lv, inserted, maxLevel, batch>>
        BY <1>0, <3>6 DEF LockOther, LinkBack, WorkTypeOK, index, driver, hist
      <4>2. QED
        BY <2>1, <3>2, <4>1 DEF Works
    <3>7. CASE Relock(t)
      <4>1. /\ pc[t] = "links" /\ pc'[t] \in {"descend", "publish"}
            /\ lv'[t] = lv[t] - 1 \/ lv'[t] = lv[t]
            /\ UNCHANGED <<pt, near, inserted, maxLevel, batch>>
        BY <1>0, <3>7 DEF Relock, WorkTypeOK, index, driver, hist
      <4>2. QED
        BY <2>1, <3>2, <4>1 DEF Works
    <3>8. CASE Publish(t)
      <4>1. /\ pc[t] = "publish" /\ ptLevel > maxLevel /\ maxLevel' = ptLevel
            /\ pc'[t] = "enter"
            /\ UNCHANGED <<pt, near, lv, inserted, batch>>
        BY <1>0, <2>9, <3>8 DEF Publish, Returns, WorkTypeOK
      <4>2. ~shared
        BY <2>4, <4>1 DEF NoSharedRise
      <4>3. QED
        BY <2>1, <3>2, <4>1, <4>2 DEF Works
    <3>9. CASE Enter(t)
      BY <1>0, <2>9, <3>9 DEF Enter, Returns, WorkTypeOK
    <3>10. QED
      BY <1>4, <3>1, <3>3, <3>4, <3>5, <3>6, <3>7, <3>8, <3>9 DEF Step
  <2>10. \A u \in Thread : u # t /\ pc[u] # "idle" /\ pc'[t] # "idle" => pt'[t] # pt[u]
    BY <1>0, <2>9 DEF ThreadsOK, Works
  <2>11. \A u \in Thread : u # t => pc'[u] = pc[u] /\ pt'[u] = pt[u]
    BY <1>4, OthersStay
  <2>12. QED
    BY <1>0, <2>1, <2>2, <2>8, <2>9, <2>10, <2>11 DEF ThreadsOK
<1>5. QED
  BY <1>2, <1>3, <1>4 DEF Next
----------------------------------------------------------------------------
(* The locks.                                                              *)

\* A thread that holds no lock may wait for one; one that holds a lock does not.
LEMMA LocksStep ==
  ASSUME IInv, NoSharedRise, [Next]_vars
  PROVE  LocksOK'
<1>0. LocksOK /\ IndexTypeOK /\ WorkTypeOK /\ Free \notin Thread
  BY ConstantsOK DEF IInv, TypeOK
<1>1. CASE UNCHANGED <<links, lock, local>>
  BY <1>0, <1>1 DEF LocksOK, Holds, local
<1>2. CASE StartAdd \/ NextBatch \/ Throw \/ UNCHANGED vars
  BY <1>1, <1>2 DEF StartAdd, NextBatch, Throw, vars, index, local
<1>3. ASSUME NEW t \in Thread, Step(t)
      PROVE  LocksOK'
  <2>1. \A u \in Thread : u # t =>
          /\ \A p \in Point : Holds(u, p)' <=> Holds(u, p)
          /\ pc'[u] = pc[u] /\ other'[u] = other[u] /\ copy'[u] = copy[u]
          /\ todo'[u] = todo[u] /\ lv'[u] = lv[u]
    BY <1>3, OthersStay DEF Holds
  <2>2. ASSUME NEW u \in Thread, u # t, pc[u] = "back"
        PROVE  links'[other[u]][lv[u]] = links[other[u]][lv[u]]
    <3>1. lock[other[u]] = u /\ other[u] \in Point /\ lv[u] \in Levels
      BY <1>0, <2>2 DEF LocksOK, Holds, WorkTypeOK
    <3>2. CASE Choose(t)
      <4>1. lock[pt[t]] = t
        BY <1>0, <3>2, AtWork DEF LocksOK, Holds, Choose
      <4>2. QED
        BY <2>2, <3>1, <3>2, <4>1, ChooseIs DEF ListIs
    <3>3. CASE LinkBack(t)
      <4>1. lock[other[t]] = t
        BY <1>0, <3>3, LinkBackIs DEF LocksOK, Holds, LinkBack
      <4>2. other[u] # other[t]
        BY <2>2, <3>1, <4>1
      <4>3. \A q \in Point, k \in Levels : q # other[t] => links'[q][k] = links[q][k]
        <5>1. PICK s \in SUBSET (links[other[t]][lv[t]] \cup {pt[t]}) :
              ListIs(other[t], lv[t], s)
          BY <3>3, LinkBackIs
        <5> USE DEF ListIs
        <5>2. QED
          BY <5>1
      <4>4. QED
        BY <3>1, <4>2, <4>3
    <3>4. CASE links' = links
      BY <3>4
    <3>5. QED
      BY <1>3, <3>2, <3>3, <3>4 DEF Step, Take, LockOwn, Greedy, Begin, Look, LockOther,
         Relock, Publish, Enter, index
  <2>3. \A u \in Thread : u # t /\ pc'[u] = "back" =>
          other'[u] \in todo'[u] /\ copy'[u] = links'[other'[u]][lv'[u]]
    BY <1>0, <2>1, <2>2 DEF LocksOK
  <2>4. ASSUME pc'[t] = "back"
        PROVE  other'[t] \in todo'[t] /\ copy'[t] = links'[other'[t]][lv'[t]]
    <3>1. LockOther(t)
      BY <1>0, <1>3, <2>4 DEF Step, Take, LockOwn, Greedy, Begin, Look, Choose, LockOther,
         LinkBack, Relock, Publish, Enter, Returns, WorkTypeOK
    <3>2. QED
      BY <1>0, <3>1 DEF LockOther, WorkTypeOK, index
  \* What the step takes and gives back.
  <2>5. ASSUME NEW p \in Point
        PROVE  /\ lock'[p] = t <=> Holds(t, p)'
               /\ \A u \in Thread : u # t => (lock'[p] = u <=> lock[p] = u)
    <3>1. CASE LockOwn(t)
      BY <1>0, <3>1, AtWork DEF LockOwn, LocksOK, Holds, IndexTypeOK, WorkTypeOK
    <3>2. CASE Choose(t)
      BY <1>0, <3>2, AtWork DEF Choose, LocksOK, Holds, IndexTypeOK, WorkTypeOK
    <3>3. CASE LockOther(t)
      <4>1. PICK q \in todo[t] : /\ lock[q] = Free /\ lock' = [lock EXCEPT ![q] = t]
                                /\ other' = [other EXCEPT ![t] = q]
        BY <3>3 DEF LockOther
      <4>2. q \in Point /\ pc[t] = "links" /\ pc'[t] = "back" /\ other'[t] = q
        BY <1>0, <3>3, <4>1 DEF LockOther, WorkTypeOK
      <4>3. Holds(t, p)' <=> p = q
        BY <4>2 DEF Holds
      <4>4. lock'[p] = IF p = q THEN t ELSE lock[p]
        BY <1>0, <4>1 DEF IndexTypeOK
      <4>5. lock[p] # t
        BY <1>0, <4>2 DEF LocksOK, Holds
      <4>6. QED
        BY <1>0, <4>1, <4>3, <4>4, <4>5
    <3>4. CASE LinkBack(t)
      <4>1. other[t] \in Point /\ lock' = [lock EXCEPT ![other[t]] = Free]
        BY <3>4, LinkBackIs DEF LinkBack
      <4>2. pc[t] = "back" /\ pc'[t] = "links"
        BY <1>0, <3>4 DEF LinkBack, WorkTypeOK
      <4>3. ~Holds(t, p)' /\ (lock[p] = t <=> p = other[t])
        BY <1>0, <4>2 DEF Holds, LocksOK
      <4>4. lock'[p] = IF p = other[t] THEN Free ELSE lock[p]
        BY <1>0, <4>1 DEF IndexTypeOK
      <4>5. QED
        BY <1>0, <4>3, <4>4
    <3>5. CASE Relock(t)
      BY <1>0, <3>5, AtWork DEF Relock, LocksOK, Holds, IndexTypeOK, WorkTypeOK
    <3>6. CASE Take(t) \/ Greedy(t) \/ Begin(t) \/ Look(t) \/ Publish(t) \/ Enter(t)
      <4>1. lock' = lock
        BY <3>6 DEF Take, Greedy, Begin, Look, Publish, Enter
      <4>2. Holds(t, p)' <=> Holds(t, p)
        BY <1>0, <3>6 DEF Take, Greedy, Begin, Look, Publish, Enter, Returns, Holds,
           WorkTypeOK, link
      <4>3. QED
        BY <1>0, <4>1, <4>2 DEF LocksOK
    <3>7. QED
      BY <1>3, <3>1, <3>2, <3>3, <3>4, <3>5, <3>6 DEF Step
  <2>6. QED
    BY <1>0, <2>1, <2>3, <2>4, <2>5 DEF LocksOK
<1>4. QED
  BY <1>2, <1>3 DEF Next
----------------------------------------------------------------------------
(* Who has been met where.                                                 *)

\* A point that may be met at a level may be met there ever after.
LEMMA InGraphStays ==
  ASSUME IInv, [Next]_vars, NEW p \in Point, NEW l \in Levels, InGraph(p, l)
  PROVE  InGraph(p, l)'
<1>0. IndexTypeOK /\ WorkTypeOK /\ ThreadsOK
  BY DEF IInv, TypeOK
<1>1. CASE p \in inserted /\ level[p] >= l
  <2>1. p \in inserted'
    BY <1>1 DEF Next, Step, StartAdd, NextBatch, Throw, Take, LockOwn, Greedy, Begin, Look,
       Choose, LockOther, LinkBack, Relock, Publish, Enter, Returns, vars, hist
  <2>2. level'[p] = level[p]
    BY <1>1, InsertedIs, LevelStays
  <2>3. QED
    BY <1>1, <2>1, <2>2 DEF InGraph
<1>2. ASSUME NEW u \in Thread, pc[u] # "idle", pt[u] = p, Listed(u, l)
      PROVE  InGraph(p, l)'
  <2>1. CASE UNCHANGED <<pc, pt, lv, ptLevel>>
    BY <1>2, <2>1 DEF InGraph, Listed
  <2>2. CASE StartAdd \/ NextBatch \/ Throw
    BY <1>2, <2>2, IdleBetween DEF StartAdd, NextBatch, Throw, AllIdle
  <2>3. ASSUME NEW t \in Thread, Step(t)
        PROVE  InGraph(p, l)'
    <3>1. ptLevel' = ptLevel /\ level' = level
      BY <2>3 DEF Step, Take, LockOwn, Greedy, Begin, Look, Choose, LockOther, LinkBack,
         Relock, Publish, Enter, index, driver
    <3>2. CASE t # u
      BY <1>2, <2>3, <3>1, <3>2, OthersStay DEF InGraph, Listed
    <3>3. CASE t = u
      <4>1. lv[t] \in Nat /\ ptLevel \in Nat /\ level[p] = ptLevel
        BY <1>0, <1>2, <3>3, AtWork, ConstantsOK DEF ThreadsOK, Works
      <4>2. CASE Take(t) \/ LockOwn(t)
        BY <1>2, <3>3, <4>2 DEF Take, LockOwn, Listed
      <4>3. CASE Greedy(t)
        <5>1. pc[t] = "descend" /\ lv[t] > ptLevel
          BY <4>3 DEF Greedy
        <5>2. QED
          BY <1>2, <3>3, <4>1, <5>1, ConstantsOK DEF Listed
      <4>4. CASE Begin(t) \/ Look(t) \/ Choose(t) \/ LockOther(t) \/ LinkBack(t)
        <5>1. /\ pc[t] \in {"descend", "search"} => pc'[t] \in {"search", "links"}
              /\ pc[t] \in {"links", "back"} => pc'[t] \in {"links", "back"}
              /\ pt' = pt /\ lv' = lv
              /\ pc[t] \in {"descend", "search", "links", "back"}
          BY <1>0, <4>4 DEF Begin, Look, Choose, LockOther, LinkBack, WorkTypeOK
        <5>2. Listed(t, l)'
          BY <1>2, <3>1, <3>3, <4>1, <5>1, ConstantsOK DEF Listed
        <5>3. QED
          BY <1>2, <3>3, <5>1, <5>2 DEF InGraph
      <4>5. CASE Relock(t)
        <5>1. /\ pc[t] = "links" /\ pt' = pt
              /\ \/ pc'[t] = "descend" /\ lv'[t] = lv[t] - 1
                 \/ pc'[t] = "publish"
          BY <1>0, <4>5 DEF Relock, WorkTypeOK
        <5>2. Listed(t, l)'
          BY <1>2, <3>1, <3>3, <4>1, <5>1, ConstantsOK DEF Listed
        <5>3. QED
          BY <1>2, <3>3, <5>1, <5>2 DEF InGraph
      <4>6. CASE Publish(t) \/ Enter(t)
        <5>1. CASE inserted' = inserted \cup {p}
          BY <1>2, <3>1, <4>1, <5>1, ConstantsOK DEF InGraph, Listed
        <5>2. CASE ~(inserted' = inserted \cup {p})
          <6>1. pc'[t] = "enter" /\ pt' = pt
            BY <1>0, <1>2, <3>3, <4>6, <5>2 DEF Publish, Enter, Returns, WorkTypeOK
          <6>2. QED
            BY <1>2, <3>1, <3>3, <6>1 DEF InGraph, Listed
        <5>3. QED
          BY <5>1, <5>2
      <4>7. QED
        BY <2>3, <4>2, <4>3, <4>4, <4>5, <4>6 DEF Step
    <3>4. QED
      BY <3>2, <3>3
  <2>4. QED
    BY <2>1, <2>2, <2>3 DEF Next, vars
<1>3. QED
  BY <1>1, <1>2 DEF InGraph

LEMMA GraphStep ==
  ASSUME IInv, NoSharedRise, [Next]_vars
  PROVE  GraphOK'
<1>0. IndexTypeOK /\ WorkTypeOK /\ ThreadsOK /\ GraphOK
  BY DEF IInv, TypeOK
<1>1. CASE UNCHANGED <<links, local>>
  <2>1. \A t \in Thread : seen[t] \subseteq Point /\ todo[t] \subseteq Point /\ lv[t] \in Levels
    BY <1>0 DEF WorkTypeOK
  <2>2. \A p \in Point, l \in Levels : links[p][l] \subseteq Point
    BY <1>0 DEF IndexTypeOK
  <2>3. \A p \in Point, l \in Levels : InGraph(p, l) => InGraph(p, l)'
    BY InGraphStays
  <2>4. QED
    BY <1>0, <1>1, <2>1, <2>2, <2>3 DEF GraphOK, MetOK, local
<1>2. CASE StartAdd \/ NextBatch \/ Throw \/ UNCHANGED vars
  BY <1>1, <1>2 DEF StartAdd, NextBatch, Throw, vars, index, local
<1>3. ASSUME NEW t \in Thread, Step(t)
      PROVE  GraphOK'
  <2>1. \A p \in Point, l \in Levels : InGraph(p, l) => InGraph(p, l)'
    BY InGraphStays
  <2>2. /\ lv[t] \in Levels /\ seen[t] \subseteq Point /\ todo[t] \subseteq Point
        /\ \A p \in Point, l \in Levels : links[p][l] \subseteq Point
    BY <1>0 DEF WorkTypeOK, IndexTypeOK
  <2>3. ASSUME NEW p \in Point, NEW l \in Levels, NEW q \in links'[p][l]
        PROVE  InGraph(p, l)' /\ InGraph(q, l)'
    <3>1. CASE Choose(t)
      <4>1. PICK c \in SUBSET seen[t] :
              /\ c # {} /\ c \subseteq Point
              /\ ListIs(pt[t], lv[t], c)
        BY <3>1, ChooseIs
      <4> USE DEF ListIs
      <4>2. CASE p = pt[t] /\ l = lv[t]
        <5>1. q \in seen[t]
          BY <2>3, <4>1, <4>2
        <5>2. InGraph(q, l)'
          BY <1>0, <2>1, <2>2, <4>2, <5>1 DEF GraphOK, MetOK
        <5>3. pc[t] = "search" /\ pc'[t] = "links" /\ pt' = pt /\ lv' = lv /\ ptLevel' = ptLevel
          BY <1>0, <3>1 DEF Choose, WorkTypeOK, driver
        <5>4. lv[t] <= ptLevel /\ lv[t] \in Nat
          BY <1>0, <2>2, <5>3, ConstantsOK DEF ThreadsOK, Works
        <5>5. InGraph(p, l)'
          BY <4>2, <5>3, <5>4 DEF InGraph, Listed
        <5>6. QED
          BY <5>2, <5>5
      <4>3. CASE ~(p = pt[t] /\ l = lv[t])
        <5>1. q \in links[p][l]
          BY <2>3, <4>1, <4>3
        <5>2. QED
          BY <1>0, <2>1, <2>2, <5>1 DEF GraphOK
      <4>4. QED
        BY <4>2, <4>3
    <3>2. CASE LinkBack(t)
      <4>1. PICK s \in SUBSET (links[other[t]][lv[t]] \cup {pt[t]}) :
              ListIs(other[t], lv[t], s)
        BY <3>2, LinkBackIs
      <4> USE DEF ListIs
      <4>2. other[t] \in todo[t] /\ other[t] \in Point
        BY <3>2, LinkBackIs
      <4>3. pc[t] = "back" /\ pc[t] # "idle"
        BY <3>2 DEF LinkBack
      <4>4. InGraph(pt[t], lv[t]) /\ pt[t] \in Point
        BY <1>0, <2>2, <4>3, AtWork, ConstantsOK DEF InGraph, Listed, ThreadsOK, Works
      <4>5. CASE p = other[t] /\ l = lv[t]
        <5>1. q \in links[p][l] \/ q = pt[t]
          BY <2>3, <4>1, <4>5
        <5>2. InGraph(q, l) /\ InGraph(p, l) /\ q \in Point
          BY <1>0, <2>2, <4>2, <4>4, <4>5, <5>1 DEF GraphOK, MetOK
        <5>3. QED
          BY <2>1, <5>2
      <4>6. CASE ~(p = other[t] /\ l = lv[t])
        <5>1. q \in links[p][l]
          BY <2>3, <4>1, <4>6
        <5>2. QED
          BY <1>0, <2>1, <2>2, <5>1 DEF GraphOK
      <4>7. QED
        BY <4>5, <4>6
    <3>3. CASE links' = links
      BY <1>0, <2>1, <2>2, <2>3, <3>3 DEF GraphOK
    <3>4. QED
      BY <1>3, <3>1, <3>2, <3>3 DEF Step, Take, LockOwn, Greedy, Begin, Look, LockOther,
         Relock, Publish, Enter, index
  <2>4. ASSUME NEW u \in Thread, u # t
        PROVE  MetOK(u)'
    <3>1. /\ seen'[u] = seen[u] /\ todo'[u] = todo[u] /\ lv'[u] = lv[u] /\ pc'[u] = pc[u]
          /\ seen[u] \subseteq Point /\ todo[u] \subseteq Point
      BY <1>0, <1>3, <2>4, OthersStay DEF WorkTypeOK
    <3>2. \A l \in Levels, q \in seen[u] \cup todo[u] : lv[u] = l => InGraph(q, l)'
      BY <1>0, <2>1, <3>1 DEF GraphOK, MetOK
    <3>3. QED
      BY <1>0, <3>1, <3>2 DEF GraphOK, MetOK
  <2>5. MetOK(t)'
    <3>0. MetOK(t)
      BY <1>0 DEF GraphOK
    <3>1. CASE \/ Take(t) \/ LockOwn(t) \/ Greedy(t) \/ Relock(t) \/ Publish(t) \/ Enter(t)
      <4>1. pc[t] # "search" /\ (pc[t] \in {"links", "back"} => todo[t] = {})
        BY <3>1 DEF Take, LockOwn, Greedy, Relock, Publish, Enter
      <4>2. seen[t] = {} /\ todo[t] = {}
        BY <3>0, <4>1 DEF MetOK
      <4>3. seen' = seen /\ todo' = todo
        BY <3>1 DEF Take, LockOwn, Greedy, Relock, Publish, Enter
      <4>4. QED
        BY <4>2, <4>3 DEF MetOK
    <3>2. CASE Begin(t)
      <4>1. /\ pc[t] = "descend" /\ pc'[t] = "search" /\ seen'[t] = {near[t]}
            /\ todo' = todo /\ lv' = lv
        BY <1>0, <3>2 DEF Begin, WorkTypeOK
      <4>2. todo[t] = {}
        BY <3>0, <4>1 DEF MetOK
      <4>3. near[t] \in Point /\ near[t] \in inserted /\ level[near[t]] >= lv[t]
        BY <1>0, <4>1, AtWork DEF ThreadsOK, Works
      <4>4. \A l \in Levels : lv[t] = l => InGraph(near[t], l)
        BY <4>3 DEF InGraph
      <4>5. PICK n \in Point : n = near[t]
        BY <4>3
      <4>6. \A l \in Levels : lv[t] = l => InGraph(n, l)'
        BY <2>1, <4>4, <4>5
      <4>7. QED
        BY <4>1, <4>2, <4>5, <4>6 DEF MetOK
    <3>3. CASE Look(t)
      <4>1. PICK p \in seen[t] : seen' = [seen EXCEPT ![t] = @ \cup links[p][lv[t]]]
        BY <3>3 DEF Look
      <4>2. /\ pc[t] = "search" /\ pc' = pc /\ todo' = todo /\ lv' = lv
            /\ seen'[t] = seen[t] \cup links[p][lv[t]]
        BY <1>0, <3>3, <4>1 DEF Look, WorkTypeOK
      <4>3. \A l \in Levels, q \in seen'[t] \cup todo[t] :
              lv[t] = l => q \in Point /\ InGraph(q, l)
        BY <1>0, <2>2, <3>0, <4>2 DEF GraphOK, MetOK
      <4>4. QED
        BY <2>1, <3>0, <4>2, <4>3 DEF MetOK
    <3>4. CASE Choose(t)
      <4>1. /\ pc[t] = "search" /\ pc'[t] = "links" /\ seen'[t] = {} /\ lv' = lv
            /\ todo'[t] \subseteq seen[t]
        BY <1>0, <3>4 DEF Choose, WorkTypeOK
      <4>2. \A l \in Levels, q \in todo'[t] : lv[t] = l => q \in Point /\ InGraph(q, l)
        BY <2>2, <3>0, <4>1 DEF MetOK
      <4>3. QED
        BY <2>1, <4>1, <4>2 DEF MetOK
    <3>5. CASE LockOther(t) \/ LinkBack(t)
      <4>1. /\ pc[t] \in {"links", "back"} /\ pc'[t] \in {"links", "back"}
            /\ seen' = seen /\ lv' = lv /\ todo'[t] \subseteq todo[t]
        BY <1>0, <3>5 DEF LockOther, LinkBack, WorkTypeOK
      <4>2. seen[t] = {}
        BY <3>0, <4>1 DEF MetOK
      <4>3. \A l \in Levels, q \in todo'[t] : lv[t] = l => q \in Point /\ InGraph(q, l)
        BY <2>2, <3>0, <4>1 DEF MetOK
      <4>4. QED
        BY <2>1, <4>1, <4>2, <4>3 DEF MetOK
    <3>6. QED
      BY <1>3, <3>1, <3>2, <3>3, <3>4, <3>5 DEF Step
  <2>6. \A u \in Thread : MetOK(u)'
    BY <2>4, <2>5
  <2>7. QED
    BY <2>3, <2>6 DEF GraphOK
<1>4. QED
  BY <1>2, <1>3 DEF Next
----------------------------------------------------------------------------
(* The links of a point.                                                   *)

\* Only a thread that links is about to link to somebody.
LEMMA LinkingIs ==
  ASSUME IInv, NEW t \in Thread, NEW q \in todo[t]
  PROVE  /\ pc[t] \in {"links", "back"} /\ pc[t] # "idle"
         /\ q \in Point /\ lv[t] \in Levels /\ InGraph(q, lv[t])
         /\ pt[t] \in Point
<1>1. MetOK(t) /\ WorkTypeOK
  BY DEF IInv, GraphOK, TypeOK
<1>2. pc[t] \in {"links", "back"} /\ pc[t] # "idle"
  BY <1>1 DEF MetOK
<1>3. lv[t] \in Levels /\ q \in Point
  BY <1>1 DEF WorkTypeOK
<1>4. QED
  BY <1>1, <1>2, <1>3, AtWork DEF MetOK

\* A step that writes no list leaves everybody's neighbours to add, or takes
\* them from a thread that has none.
LEMMA TodoStays ==
  ASSUME IInv, NEW t \in Thread, Step(t), ~Choose(t), ~LinkBack(t)
  PROVE  /\ links' = links /\ shrunk' = shrunk /\ todo' = todo
         /\ \A u \in Thread : todo[u] # {} => pt'[u] = pt[u] /\ lv'[u] = lv[u]
<1>1. links' = links /\ shrunk' = shrunk /\ todo' = todo
  BY DEF Step, Take, LockOwn, Greedy, Begin, Look, LockOther, Relock, Publish, Enter,
     Returns, index, hist
<1>2. ASSUME todo[t] # {}
      PROVE  pt'[t] = pt[t] /\ lv'[t] = lv[t]
  <2>1. pc[t] \in {"links", "back"}
    BY <1>2, LinkingIs
  <2>2. LockOther(t)
    BY <1>2, <2>1 DEF Step, Take, LockOwn, Greedy, Begin, Look, LockOther, Relock, Publish, Enter
  <2>3. QED
    BY <2>2 DEF LockOther
<1>3. QED
  BY <1>1, <1>2, OthersStay

LEMMA OnceStep ==
  ASSUME IInv, NoSharedRise, [Next]_vars
  PROVE  OnceOK'
<1>0. OnceOK /\ WorkTypeOK /\ ThreadsOK
  BY DEF IInv, TypeOK
<1>1. CASE StartAdd \/ NextBatch \/ Throw \/ UNCHANGED vars
  BY <1>0, <1>1 DEF StartAdd, NextBatch, Throw, vars, index, local, OnceOK
<1>2. ASSUME NEW t \in Thread, Step(t)
      PROVE  OnceOK'
  <2>1. CASE Choose(t)
    <3>1. PICK c \in SUBSET seen[t] :
            /\ c # {} /\ c \subseteq Point /\ pt[t] \notin c
            /\ todo' = [todo EXCEPT ![t] = c]
            /\ ListIs(pt[t], lv[t], c)
      BY <2>1, ChooseIs
    <3> USE DEF ListIs
    <3>2. /\ pc[t] = "search" /\ pt' = pt /\ lv' = lv
          /\ lv[t] \in Levels /\ pt[t] \in Point
      BY <1>0, <2>1, AtWork DEF Choose, WorkTypeOK
    <3>3. ~InGraph(pt[t], lv[t])
      BY <3>2, Unmet
    <3>4. \A q \in Point : pt[t] \notin links[q][lv[t]]
      BY <3>2, <3>3 DEF IInv, GraphOK
    <3>5. \A q \in todo'[t] : q # pt[t] /\ pt[t] \notin links'[q][lv[t]]
      BY <1>0, <3>1, <3>2, <3>4 DEF WorkTypeOK
    <3>6. ASSUME NEW u \in Thread, u # t, NEW q \in todo[u]
          PROVE  q # pt[u] /\ pt[u] \notin links'[q][lv[u]]
      <4>1. q \in Point /\ lv[u] \in Levels /\ InGraph(q, lv[u])
        BY LinkingIs
      <4>2. links'[q][lv[u]] = links[q][lv[u]]
        BY <3>1, <3>3, <4>1
      <4>3. QED
        BY <1>0, <4>2 DEF OnceOK
    <3>7. \A u \in Thread : u # t => todo'[u] = todo[u]
      BY <1>0, <3>1 DEF WorkTypeOK
    <3>8. QED
      BY <3>2, <3>5, <3>6, <3>7 DEF OnceOK
  <2>2. CASE LinkBack(t)
    <3>1. PICK s \in SUBSET (links[other[t]][lv[t]] \cup {pt[t]}) :
            ListIs(other[t], lv[t], s)
      BY <2>2, LinkBackIs
    <3> USE DEF ListIs
    <3>2. /\ pc[t] = "back" /\ pc[t] # "idle" /\ pt' = pt /\ lv' = lv
          /\ todo' = [todo EXCEPT ![t] = @ \ {other[t]}]
      BY <2>2 DEF LinkBack
    <3>3. ASSUME NEW u \in Thread, NEW q \in todo'[u]
          PROVE  q # pt[u] /\ pt[u] \notin links'[q][lv[u]]
      <4>1. q \in todo[u] /\ (u = t => q # other[t])
        BY <1>0, <3>2, <3>3 DEF WorkTypeOK
      <4>2. q \in Point /\ lv[u] \in Levels /\ pc[u] # "idle"
        BY <4>1, LinkingIs
      <4>3. q # pt[u] /\ pt[u] \notin links[q][lv[u]]
        BY <1>0, <4>1 DEF OnceOK
      <4>4. u # t => pt[u] # pt[t]
        BY <1>0, <3>2, <4>2 DEF ThreadsOK
      <4>5. QED
        BY <3>1, <4>1, <4>2, <4>3, <4>4
    <3>4. QED
      BY <3>2, <3>3 DEF OnceOK
  <2>3. CASE ~Choose(t) /\ ~LinkBack(t)
    BY <1>0, <1>2, <2>3, TodoStays DEF OnceOK
  <2>4. QED
    BY <2>1, <2>2, <2>3
<1>3. QED
  BY <1>1, <1>2 DEF Next

LEMMA FitStep ==
  ASSUME IInv, NoSharedRise, [Next]_vars
  PROVE  ListsFit'
<1>0. ListsFit
  BY DEF IInv
<1>1. CASE links' = links
  BY <1>0, <1>1 DEF ListsFit, Room
<1>2. ASSUME NEW t \in Thread, Choose(t)
      PROVE  ListsFit'
  <2>1. PICK c \in SUBSET seen[t] :
          /\ c # {} /\ c \subseteq Point /\ Cardinality(c) <= Room(lv[t])
          /\ ListIs(pt[t], lv[t], c)
    BY <1>2, ChooseIs
  <2> USE DEF ListIs
  <2>2. QED
    BY <1>0, <2>1 DEF ListsFit, Room
<1>3. ASSUME NEW t \in Thread, LinkBack(t)
      PROVE  ListsFit'
  <2>1. PICK s \in SUBSET (links[other[t]][lv[t]] \cup {pt[t]}) :
          /\ Cardinality(s) <= Room(lv[t])
          /\ ListIs(other[t], lv[t], s)
    BY <1>3, LinkBackIs
  <2> USE DEF ListIs
  <2>2. QED
    BY <1>0, <2>1 DEF ListsFit, Room
<1>4. QED
  BY <1>1, <1>2, <1>3 DEF Next, Step, StartAdd, NextBatch, Throw, Take, LockOwn, Greedy,
     Begin, Look, LockOther, Relock, Publish, Enter, vars, index

LEMMA PairsStep ==
  ASSUME IInv, NoSharedRise, [Next]_vars
  PROVE  PairsOK'
<1>0. PairsOK /\ OnceOK /\ WorkTypeOK /\ IndexTypeOK /\ ThreadsOK
  BY DEF IInv, TypeOK
<1>1. \A p \in Point, l \in Levels : links[p][l] \subseteq Point
  BY <1>0 DEF IndexTypeOK
<1>2. CASE StartAdd \/ NextBatch \/ Throw \/ UNCHANGED vars
  BY <1>0, <1>2 DEF StartAdd, NextBatch, Throw, vars, index, local, hist, PairsOK
<1>3. ASSUME NEW t \in Thread, Choose(t)
      PROVE  PairsOK'
  <2>1. PICK c \in SUBSET seen[t] :
          /\ c # {} /\ c \subseteq Point /\ pt[t] \notin c
          /\ todo' = [todo EXCEPT ![t] = c]
          /\ ListIs(pt[t], lv[t], c)
    BY <1>3, ChooseIs
  <2> USE DEF ListIs
  <2>2. /\ pt' = pt /\ lv' = lv /\ shrunk' = shrunk /\ pc[t] = "search"
        /\ lv[t] \in Levels /\ pt[t] \in Point /\ links[pt[t]][lv[t]] = {}
    BY <1>3, AtWork, ChooseIs DEF Choose, hist
  <2>3. todo[t] = {} /\ todo'[t] = c /\ \A u \in Thread : u # t => todo'[u] = todo[u]
    BY <1>0, <2>1, <2>2, LinkingIs DEF WorkTypeOK
  <2>4. ASSUME NEW p \in Point, NEW l \in Levels, NEW q \in links'[p][l]
        PROVE  \/ p \in links'[q][l] \/ <<q, l>> \in shrunk'
               \/ \E u \in Thread : pt'[u] = p /\ lv'[u] = l /\ q \in todo'[u]
    <3>1. CASE p = pt[t] /\ l = lv[t]
      BY <2>1, <2>2, <2>3, <2>4, <3>1
    <3>2. CASE ~(p = pt[t] /\ l = lv[t])
      <4>1. q \in links[p][l] /\ q \in Point
        BY <1>1, <2>1, <2>4, <3>2
      <4>2. p \in links[q][l] => p \in links'[q][l]
        BY <2>1, <2>2, <4>1
      <4>3. QED
        BY <1>0, <2>2, <2>3, <4>1, <4>2 DEF PairsOK
    <3>3. QED
      BY <3>1, <3>2
  <2>5. ASSUME NEW u \in Thread, NEW q \in todo'[u]
        PROVE  q \in links'[pt'[u]][lv'[u]] \/ <<pt'[u], lv'[u]>> \in shrunk'
    <3>1. CASE u = t
      BY <2>1, <2>2, <2>3, <2>5, <3>1
    <3>2. CASE u # t
      <4>1. q \in todo[u] /\ pt[u] \in Point /\ lv[u] \in Levels /\ pt[u] # pt[t]
        BY <1>0, <2>2, <2>3, <2>5, <3>2, LinkingIs DEF ThreadsOK
      <4>2. links'[pt[u]][lv[u]] = links[pt[u]][lv[u]]
        BY <2>1, <4>1
      <4>3. QED
        BY <1>0, <2>2, <4>1, <4>2 DEF PairsOK
    <3>3. QED
      BY <3>1, <3>2
  <2>6. QED
    BY <2>4, <2>5 DEF PairsOK
<1>4. ASSUME NEW t \in Thread, LinkBack(t)
      PROVE  PairsOK'
  <2> DEFINE o == other[t]
             L == lv[t]
  <2>1. o \in Point /\ o \in todo[t] /\ shrunk \subseteq shrunk'
    BY <1>4, LinkBackIs
  <2>2. PICK s \in SUBSET (links[o][L] \cup {pt[t]}) :
          /\ s = links[o][L] \cup {pt[t]} \/ <<o, L>> \in shrunk'
          /\ ListIs(o, L, s)
    BY <1>4, LinkBackIs
  <2> USE DEF ListIs
  <2>3. /\ pt' = pt /\ lv' = lv /\ L \in Levels /\ pt[t] \in Point
        /\ todo'[t] = todo[t] \ {o}
        /\ \A u \in Thread : u # t => todo'[u] = todo[u]
    BY <1>0, <1>4, AtWork DEF LinkBack, WorkTypeOK
  <2>4. o # pt[t] /\ (o \in links[pt[t]][L] \/ <<pt[t], L>> \in shrunk)
    BY <1>0, <2>1 DEF OnceOK, PairsOK
  <2> HIDE DEF o, L
  \* What was there, or is noted as dropped, still is.
  <2>5. ASSUME NEW p \in Point, NEW l \in Levels, NEW q \in links[p][l]
        PROVE  q \in links'[p][l] \/ <<p, l>> \in shrunk'
    BY <2>2, <2>5
  <2>6. ASSUME NEW p \in Point, NEW l \in Levels, NEW q \in links'[p][l]
        PROVE  \/ p \in links'[q][l] \/ <<q, l>> \in shrunk'
               \/ \E u \in Thread : pt'[u] = p /\ lv'[u] = l /\ q \in todo'[u]
    <3>1. CASE q = pt[t] /\ p = o /\ l = L
      BY <2>1, <2>2, <2>3, <2>4, <3>1
    <3>2. CASE q \in links[p][l]
      <4>0. q \in Point
        BY <1>1, <3>2
      <4>1. CASE p \in links[q][l] \/ <<q, l>> \in shrunk
        BY <2>1, <2>5, <4>0, <4>1
      <4>2. ASSUME NEW u \in Thread, pt[u] = p, lv[u] = l, q \in todo[u]
            PROVE  \/ p \in links'[q][l] \/ <<q, l>> \in shrunk'
                   \/ \E v \in Thread : pt'[v] = p /\ lv'[v] = l /\ q \in todo'[v]
        <5>1. CASE u = t /\ q = o
          BY <2>2, <2>3, <4>0, <4>2, <5>1 DEF L
        <5>2. CASE ~(u = t /\ q = o)
          BY <2>3, <4>2, <5>2
        <5>3. QED
          BY <5>1, <5>2
      <4>3. QED
        BY <1>0, <3>2, <4>1, <4>2 DEF PairsOK
    <3>3. QED
      BY <2>2, <2>6, <3>1, <3>2
  <2>7. ASSUME NEW u \in Thread, NEW q \in todo'[u]
        PROVE  q \in links'[pt'[u]][lv'[u]] \/ <<pt'[u], lv'[u]>> \in shrunk'
    <3>1. q \in todo[u]
      BY <2>3, <2>7
    <3>2. pt[u] \in Point /\ lv[u] \in Levels
      BY <3>1, LinkingIs
    <3>3. q \in links[pt[u]][lv[u]] \/ <<pt[u], lv[u]>> \in shrunk
      BY <1>0, <3>1 DEF PairsOK
    <3>4. QED
      BY <2>1, <2>3, <2>5, <3>2, <3>3
  <2>8. QED
    BY <2>6, <2>7 DEF PairsOK
<1>5. ASSUME NEW t \in Thread, Step(t), ~Choose(t), ~LinkBack(t)
      PROVE  PairsOK'
  BY <1>0, <1>5, TodoStays DEF PairsOK
<1>6. QED
  BY <1>2, <1>3, <1>4, <1>5 DEF Next

\* A list that is not empty never gets empty again.
LEMMA NonemptyStays ==
  ASSUME IInv, [Next]_vars, NEW p \in Point, NEW l \in Levels, links[p][l] # {}
  PROVE  links'[p][l] # {}
<1>1. ASSUME NEW t \in Thread, Choose(t)
      PROVE  links'[p][l] # {}
  <2>1. PICK c \in SUBSET seen[t] :
          /\ c # {} /\ c \subseteq Point
          /\ ListIs(pt[t], lv[t], c)
    BY <1>1, ChooseIs
  <2> USE DEF ListIs
  <2>2. QED
    BY <2>1
<1>2. ASSUME NEW t \in Thread, LinkBack(t)
      PROVE  links'[p][l] # {}
  <2>1. PICK s \in SUBSET (links[other[t]][lv[t]] \cup {pt[t]}) :
          /\ s # {}
          /\ ListIs(other[t], lv[t], s)
    BY <1>2, LinkBackIs
  <2> USE DEF ListIs
  <2>2. QED
    BY <2>1
<1>3. CASE links' = links
  BY <1>3
<1>4. QED
  BY <1>1, <1>2, <1>3 DEF Next, Step, StartAdd, NextBatch, Throw, Take, LockOwn, Greedy,
     Begin, Look, LockOther, Relock, Publish, Enter, vars, index
LEMMA GroundStep ==
  ASSUME IInv, NoSharedRise, [Next]_vars
  PROVE  GroundOK'
<1>0. GroundOK /\ WorkTypeOK /\ IndexTypeOK /\ ThreadsOK /\ 0 \in Levels
  BY ConstantsOK DEF IInv, TypeOK
<1>1. CASE StartAdd \/ NextBatch \/ Throw \/ UNCHANGED vars
  BY <1>0, <1>1 DEF StartAdd, NextBatch, Throw, vars, index, local, hist, GroundOK, AtGround,
     LinksTo
<1>2. ASSUME NEW t \in Thread, Step(t)
      PROVE  GroundOK'
  <2>1. ASSUME NEW u \in Thread, AtGround(u)'
        PROVE  links'[pt'[u]][0] # {}
    <3>1. CASE AtGround(u) /\ pt'[u] = pt[u] /\ pc[u] # "idle"
      BY <1>0, <3>1, NonemptyStays, AtWork DEF GroundOK
    <3>2. CASE u # t
      BY <1>2, <2>1, <3>1, <3>2, OthersStay DEF AtGround
    <3>3. CASE u = t /\ Choose(t)
      <4>1. PICK c \in SUBSET seen[t] :
              /\ c # {} /\ c \subseteq Point
              /\ ListIs(pt[t], lv[t], c)
        BY <3>3, ChooseIs
      <4> USE DEF ListIs
      <4>2. lv[t] = 0 /\ pt' = pt /\ pt[t] \in Point
        BY <1>0, <2>1, <3>3, AtWork DEF AtGround, Choose, WorkTypeOK
      <4>3. QED
        BY <1>0, <3>3, <4>1, <4>2
    <3>4. CASE u = t /\ Relock(t)
      <4>1. /\ pc[t] = "links" /\ pt' = pt
            /\ lv[t] > 0 => pc'[t] = "descend"
        BY <1>0, <3>4 DEF Relock, WorkTypeOK
      <4>2. lv[t] = 0
        BY <1>0, <2>1, <3>4, <4>1, ConstantsOK DEF AtGround, WorkTypeOK
      <4>3. QED
        BY <3>1, <3>4, <4>1, <4>2 DEF AtGround
    <3>5. CASE u = t /\ (LockOther(t) \/ LinkBack(t) \/ Publish(t) \/ Enter(t))
      <4>1. CASE LockOther(t) \/ LinkBack(t)
        <5>1. pc[t] \in {"links", "back"} /\ pc'[t] \in {"links", "back"} /\ pt' = pt /\ lv' = lv
          BY <1>0, <4>1 DEF LockOther, LinkBack, WorkTypeOK
        <5>2. QED
          BY <2>1, <3>1, <3>5, <5>1 DEF AtGround
      <4>2. CASE Publish(t)
        <5>1. pc[t] = "publish" /\ ((pc'[t] = "enter" /\ pt' = pt) \/ pc'[t] = "idle")
          BY <1>0, <4>2 DEF Publish, Returns, WorkTypeOK
        <5>2. QED
          BY <2>1, <3>1, <3>5, <5>1 DEF AtGround
      <4>3. CASE Enter(t)
        <5>1. pc'[t] = "idle"
          BY <1>0, <4>3 DEF Enter, Returns, WorkTypeOK
        <5>2. QED
          BY <2>1, <3>5, <5>1 DEF AtGround
      <4>4. QED
        BY <3>5, <4>1, <4>2, <4>3
    <3>6. CASE u = t /\ (Take(t) \/ LockOwn(t) \/ Greedy(t) \/ Begin(t) \/ Look(t))
      <4>1. pc'[t] \in {"idle", "lock", "descend", "search"}
        BY <1>0, <3>6 DEF Take, LockOwn, Greedy, Begin, Look, WorkTypeOK
      <4>2. QED
        BY <2>1, <3>6, <4>1 DEF AtGround
    <3>7. QED
      BY <1>2, <3>2, <3>3, <3>4, <3>5, <3>6 DEF Step
  <2>2. ASSUME NEW p \in inserted, links'[p][0] = {}
        PROVE  inserted' = {p} /\ \A u \in Thread : pc'[u] # "idle" => LinksTo(u, p)'
    <3>1. p \in Point /\ links[p][0] = {}
      BY <1>0, <2>2, InsertedIs, NonemptyStays
    <3>2. inserted = {p} /\ \A u \in Thread : pc[u] # "idle" => LinksTo(u, p)
      BY <1>0, <3>1 DEF GroundOK
    <3>3. entry = p
      BY <3>2 DEF IInv, EntryOK
    <3>4. ~Publish(t) /\ ~Enter(t)
      BY <3>2 DEF Publish, Enter, LinksTo
    <3>5. inserted' = inserted
      BY <1>2, <3>1, <3>3, <3>4, ConstantsOK DEF Step, Take, LockOwn, Greedy, Begin, Look,
         Choose, LockOther, LinkBack, Relock, hist
    <3>6. \A u \in Thread : u # t /\ pc'[u] # "idle" => LinksTo(u, p)'
      BY <1>2, <3>2, OthersStay DEF LinksTo, AtGround
    <3>7. LinksTo(t, p)'
      <4>0. /\ pc[t] # "search" => seen[t] = {}
            /\ pc[t] # "idle" => LinksTo(t, p) /\ lv[t] \in Nat
        BY <1>0, <3>2, ConstantsOK DEF IInv, GraphOK, MetOK, WorkTypeOK
      <4>1. CASE Take(t)
        <5>1. pc'[t] = "lock" /\ near'[t] = p /\ seen'[t] = {}
          BY <1>0, <3>1, <3>3, <4>0, <4>1, ConstantsOK DEF Take, WorkTypeOK
        <5>2. QED
          BY <5>1 DEF LinksTo, AtGround
      <4>2. CASE LockOwn(t)
        <5>1. pc'[t] = "descend" /\ near' = near /\ seen'[t] = {} /\ pc[t] # "idle"
          BY <1>0, <4>0, <4>2 DEF LockOwn, WorkTypeOK
        <5>2. QED
          BY <4>0, <5>1 DEF LinksTo, AtGround
      <4>3. CASE Greedy(t)
        <5>1. /\ pc[t] = "descend" /\ pc' = pc /\ seen'[t] = {} /\ lv[t] > ptLevel
              /\ near'[t] \in Reach(near[t], lv[t])
          BY <1>0, <4>0, <4>3 DEF Greedy, WorkTypeOK
        <5>2. near[t] = p
          BY <4>0, <5>1 DEF LinksTo
        <5>3. near'[t] = p
          BY <3>1, <5>1, <5>2, ReachIs
        <5>4. QED
          BY <5>1, <5>3 DEF LinksTo, AtGround
      <4>4. CASE Begin(t)
        <5>1. /\ pc[t] = "descend" /\ pc'[t] = "search" /\ near' = near
              /\ seen'[t] = {near[t]}
          BY <1>0, <4>4 DEF Begin, WorkTypeOK
        <5>2. QED
          BY <4>0, <5>1 DEF LinksTo, AtGround
      <4>5. CASE Look(t)
        <5>1. /\ pc[t] = "search" /\ pc' = pc /\ near' = near /\ lv' = lv
              /\ \E x \in seen[t] : ~(links[x][lv[t]] \subseteq seen[t])
          BY <4>5 DEF Look
        <5>2. lv[t] # 0
          BY <3>1, <4>0, <5>1 DEF LinksTo
        <5>3. QED
          BY <4>0, <5>1, <5>2 DEF LinksTo, AtGround
      <4>6. CASE Choose(t)
        <5>1. /\ pc[t] = "search" /\ pc'[t] = "links" /\ near' = near /\ lv' = lv
              /\ seen'[t] = {} /\ todo'[t] \subseteq seen[t] /\ todo'[t] # {}
          BY <1>0, <4>6 DEF Choose, WorkTypeOK
        <5>2. lv[t] = 0 => todo'[t] = {p}
          BY <4>0, <5>1 DEF LinksTo
        <5>3. QED
          BY <4>0, <5>1, <5>2 DEF LinksTo, AtGround
      <4>7. CASE LockOther(t)
        <5>1. /\ pc[t] = "links" /\ pc'[t] = "back" /\ near' = near /\ lv' = lv
              /\ seen' = seen /\ todo' = todo
          BY <1>0, <4>7 DEF LockOther, WorkTypeOK
        <5>2. QED
          BY <4>0, <5>1 DEF LinksTo, AtGround
      <4>8. CASE LinkBack(t)
        <5>1. /\ pc[t] = "back" /\ pc'[t] = "links" /\ near' = near /\ lv' = lv
              /\ seen' = seen
          BY <1>0, <4>8 DEF LinkBack, WorkTypeOK
        <5>2. PICK s \in SUBSET (links[other[t]][lv[t]] \cup {pt[t]}) :
                /\ s # {}
                /\ ListIs(other[t], lv[t], s)
          BY <4>8, LinkBackIs
        <5> USE DEF ListIs
        <5>3. other[t] \in todo[t]
          BY <4>8, LinkBackIs
        <5>4. lv[t] # 0
          BY <1>0, <2>2, <3>1, <4>0, <5>1, <5>2, <5>3 DEF LinksTo, AtGround
        <5>5. QED
          BY <4>0, <5>1, <5>4 DEF LinksTo, AtGround
      <4>9. CASE Relock(t)
        <5>1. /\ pc[t] = "links" /\ todo[t] = {} /\ near' = near /\ seen'[t] = {}
              /\ lv[t] > 0 => pc'[t] = "descend"
          BY <1>0, <4>0, <4>9 DEF Relock, WorkTypeOK
        <5>2. lv[t] # 0
          BY <4>0, <5>1 DEF LinksTo, AtGround
        <5>3. QED
          BY <4>0, <5>1, <5>2 DEF LinksTo, AtGround
      <4>10. QED
        BY <1>2, <3>4, <4>1, <4>2, <4>3, <4>4, <4>5, <4>6, <4>7, <4>8, <4>9 DEF Step
    <3>8. QED
      BY <3>2, <3>5, <3>6, <3>7
  \* A point that returns has links, unless it is the first.
  <2>3. ASSUME NEW p \in inserted', p \notin inserted, links'[p][0] = {}
        PROVE  inserted' = {p} /\ \A u \in Thread : pc'[u] = "idle"
    <3>1. CASE Take(t)
      <4>1. entry = NoOne /\ inserted' = inserted \cup {p} /\ pc' = pc
        BY <2>3, <3>1 DEF Take
      <4>2. inserted = {}
        BY <4>1 DEF IInv, EntryOK
      <4>3. \A u \in Thread : pc[u] = "idle"
        BY <1>0, <4>2 DEF ThreadsOK, Works
      <4>4. QED
        BY <4>1, <4>2, <4>3
    <3>2. CASE Publish(t) \/ Enter(t)
      <4>1. p = pt[t] /\ AtGround(t) /\ pc[t] # "idle" /\ links' = links
        BY <2>3, <3>2 DEF Publish, Enter, Returns, AtGround
      <4>2. QED
        BY <1>0, <2>3, <4>1 DEF GroundOK
    <3>3. QED
      BY <1>2, <2>3, <3>1, <3>2 DEF Step, LockOwn, Greedy, Begin, Look, Choose, LockOther,
         LinkBack, Relock, hist
  <2>4. QED
    BY <2>1, <2>2, <2>3 DEF GroundOK
<1>3. QED
  BY <1>1, <1>2 DEF Next

----------------------------------------------------------------------------
(* The theorems.                                                           *)

LEMMA InitOK == Init => IInv
<1> SUFFICES ASSUME Init
             PROVE  IInv
  OBVIOUS
<1>1. calls \in Calls
  BY AddsAssumption DEF Init, Calls
<1>2. IndexTypeOK
  <2>1. level \in Seq(Levels) /\ Len(level) <= MaxPoint
    BY ConstantsOK DEF Init
  <2>2. links \in [Point -> [Levels -> SUBSET Point]]
    BY DEF Init
  <2>3. QED
    BY <1>1, <2>1, <2>2, ConstantsOK DEF Init, IndexTypeOK
<1>3. WorkTypeOK
  BY ConstantsOK DEF Init, WorkTypeOK
<1>4. DriverOK /\ EntryOK
  BY DEF Init, DriverOK, EntryOK
<1>5. ThreadsOK
  BY DEF Init, ThreadsOK
<1>6. LocksOK
  BY ConstantsOK DEF Init, LocksOK, Holds
<1>7. GraphOK /\ OnceOK /\ PairsOK
  BY DEF Init, GraphOK, MetOK, OnceOK, PairsOK
<1>8. ListsFit
  BY ConstantsOK, FS_EmptySet DEF Init, ListsFit, Room
<1>9. GroundOK
  BY DEF Init, GroundOK, AtGround
<1>10. QED
  BY <1>2, <1>3, <1>4, <1>5, <1>6, <1>7, <1>8, <1>9 DEF IInv, TypeOK

LEMMA StepOK == IInv /\ NoSharedRise /\ [Next]_vars => IInv'
BY IndexTypeStep, WorkTypeStep, DriverStep, ThreadsStep, EntryStep, LocksStep, GraphStep,
   OnceStep, PairsStep, FitStep, GroundStep DEF IInv, TypeOK

----------------------------------------------------------------------------
(* Nobody rises together: what an add draws decides it, if those before it *)
(* have left a point at their tops.                                        *)

\* An add has left a point at its top level when it ends, also if it throws:
\* the flag is raised after a point was added.
RisenOK ==
  ptLevel >= 0 =>
    /\ ptLevel <= Top(Head(calls))
    /\ \/ maxLevel >= Top(Head(calls))
       \/ ptLevel = Top(Head(calls)) /\ (batch # {} \/ ~AllIdle) /\ ~interrupt

\* The adds to come are quiet on top of those that were made.
LeftOK ==
  \A i \in 1 .. Len(calls) :
    (i = 1 => ptLevel = -1 /\ entry # NoOne) /\ Crowded(calls[i]) =>
      \/ maxLevel >= Top(calls[i])
      \/ \E j \in 1 .. i - 1 : Top(calls[j]) >= Top(calls[i])

QInv == RisenOK /\ LeftOK /\ NoSharedRise

LEMMA BatchSize ==
  ASSUME NEW lvls \in Seq(Levels), NEW ls \in Seq(Levels), NEW l
  PROVE  Cardinality(Batch(lvls \o ls, Len(lvls), l)) = Cardinality(Batch(ls, 0, l))
<1> DEFINE grown == lvls \o ls
           S == Batch(ls, 0, l)
           T == Batch(grown, Len(lvls), l)
           f == [p \in S |-> p + Len(lvls)]
<1>1. /\ grown \in Seq(Levels) /\ Len(grown) = Len(lvls) + Len(ls)
      /\ Len(lvls) \in Nat /\ Len(ls) \in Nat
      /\ \A p \in 1 .. Len(ls) : grown[p + Len(lvls)] = ls[p]
  OBVIOUS
<1>2. \A p : p \in S <=> p \in Nat /\ 0 < p /\ p <= Len(ls) /\ ls[p] = l
  BY BatchIs
<1>3. \A p : p \in T <=> p \in Nat /\ Len(lvls) < p /\ p <= Len(grown) /\ grown[p] = l
  <2> HIDE DEF grown
  <2> QED
    BY <1>1, BatchIs
<1> HIDE DEF grown, S, T
<1>4. IsFiniteSet(S)
  <2>1. S \subseteq 1 .. Len(ls)
    BY <1>1, <1>2
  <2>2. IsFiniteSet(1 .. Len(ls))
    BY <1>1, FS_Interval
  <2>3. QED
    BY <2>1, <2>2, FS_Subset
<1>5. f \in [S -> T]
  <2>1. ASSUME NEW p \in S
        PROVE  p + Len(lvls) \in T
    <3>1. p \in Nat /\ p \in 1 .. Len(ls) /\ ls[p] = l
      BY <1>1, <1>2
    <3>2. grown[p + Len(lvls)] = l
      BY <1>1, <3>1
    <3>3. p + Len(lvls) \in Nat /\ Len(lvls) < p + Len(lvls) /\ p + Len(lvls) <= Len(grown)
      BY <1>1, <3>1
    <3>4. QED
      BY <1>3, <3>2, <3>3
  <2>2. QED
    BY <2>1
<1>6. \A a, b \in S : f[a] = f[b] => a = b
  BY <1>1, <1>2
<1>7. ASSUME NEW q \in T
      PROVE  \E p \in S : f[p] = q
  <2> DEFINE p == q - Len(lvls)
  <2>1. p \in Nat /\ 0 < p /\ p <= Len(ls) /\ p + Len(lvls) = q
    BY <1>1, <1>3
  <2>2. ls[p] = l
    BY <1>1, <1>3, <2>1
  <2>3. p \in S /\ f[p] = q
    BY <1>2, <2>1, <2>2
  <2>4. QED
    BY <2>3
<1>8. ExistsBijection(S, T)
  <2> HIDE DEF f
  <2>1. f \in Bijection(S, T)
    BY <1>5, <1>6, <1>7 DEF Bijection, Injection, Surjection, IsInjective
  <2>2. QED
    BY <2>1 DEF ExistsBijection
<1>9. Cardinality(T) = Cardinality(S)
  BY <1>4, <1>8, FS_Bijection
<1>10. QED
  BY <1>9 DEF grown, S, T

\* What the steps of the threads do to what matters here.
LEMMA RiseSteps ==
  ASSUME IInv, NEW t \in Thread, Step(t)
  PROVE  /\ calls' = calls /\ ptLevel' = ptLevel /\ shared' = shared
         /\ ptLevel \in Levels
         /\ maxLevel' = maxLevel \/ (maxLevel' = ptLevel /\ ptLevel > maxLevel)
         /\ entry # NoOne => entry' # NoOne
         /\ entry = NoOne => maxLevel' = ptLevel
         /\ \/ maxLevel' >= ptLevel
            \/ ~AllIdle' /\ interrupt' = interrupt
<1>0. IndexTypeOK /\ WorkTypeOK /\ DriverOK /\ ThreadsOK /\ EntryOK
  BY DEF IInv, TypeOK
<1>1. \A u \in Thread : pc[u] # "idle" => /\ ptLevel \in Levels /\ maxLevel \in Levels
                                          /\ pt[u] # NoOne /\ entry # NoOne
  BY <1>0, AtWork, ConstantsOK DEF EntryOK
<1>2. CASE Take(t)
  <2>1. PICK p \in batch : \/ entry = NoOne /\ entry' = p /\ maxLevel' = ptLevel
                          \/ /\ entry # NoOne /\ pc' = [pc EXCEPT ![t] = "lock"]
                             /\ entry' = entry /\ maxLevel' = maxLevel
                             /\ interrupt' = interrupt
    BY <1>2 DEF Take
  <2>2. p \in Point /\ p # NoOne /\ ptLevel # -1
    BY <1>0, ConstantsOK, IdleBetween DEF IndexTypeOK
  <2>3. ptLevel \in Levels /\ ptLevel \in Int /\ ptLevel > -1
    BY <1>0, <2>2, ConstantsOK DEF IndexTypeOK
  <2>4. entry = NoOne => maxLevel = -1
    BY <1>0 DEF EntryOK
  <2>5. entry # NoOne => ~AllIdle'
    BY <1>0, <2>1 DEF WorkTypeOK, AllIdle
  <2>6. QED
    BY <1>2, <2>1, <2>2, <2>3, <2>4, <2>5 DEF Take
<1>3. CASE Publish(t) \/ Enter(t)
  <2>1. pc[t] # "idle" /\ (Enter(t) => maxLevel = ptLevel)
    BY <1>0, <1>3 DEF Publish, Enter, ThreadsOK, Works
  <2>2. ptLevel \in Levels /\ maxLevel \in Levels /\ ptLevel \in Int /\ maxLevel \in Int
    BY <1>1, <2>1, ConstantsOK
  <2>3. QED
    BY <1>1, <1>3, <2>1, <2>2 DEF Publish, Enter
<1>4. CASE LockOwn(t) \/ Greedy(t) \/ Begin(t) \/ Look(t) \/ Choose(t) \/ LockOther(t)
           \/ LinkBack(t) \/ Relock(t)
  <2>1. pc[t] # "idle" /\ pc'[t] # "idle"
    BY <1>0, <1>4 DEF LockOwn, Greedy, Begin, Look, Choose, LockOther, LinkBack, Relock,
       WorkTypeOK
  <2>2. UNCHANGED <<calls, ptLevel, shared, maxLevel, entry, interrupt>>
    BY <1>4 DEF LockOwn, Greedy, Begin, Look, Choose, LockOther, LinkBack, Relock, index, driver
  <2>3. QED
    BY <1>1, <2>1, <2>2 DEF AllIdle
<1>5. QED
  BY <1>2, <1>3, <1>4 DEF Step

LEMMA RiseInit == Init /\ QuietAdds => QInv
<1> SUFFICES ASSUME Init, QuietAdds
             PROVE  QInv
  OBVIOUS
<1>1. RisenOK /\ NoSharedRise
  BY DEF Init, RisenOK, NoSharedRise
<1>2. ASSUME NEW i \in 1 .. Len(calls), i = 1 => entry # NoOne, Crowded(calls[i])
      PROVE  \E j \in 1 .. i - 1 : Top(calls[j]) >= Top(calls[i])
  <2>1. calls \in Seq(Seq(Levels) \ {<<>>}) /\ Quiet(calls)
    BY AddsAssumption DEF Init, QuietAdds
  <2>2. i \in 2 .. Len(calls)
    BY <1>2, <2>1 DEF Init
  <2>3. QED
    BY <1>2, <2>1, <2>2 DEF Quiet
<1>3. LeftOK
  BY <1>2 DEF LeftOK
<1>4. QED
  BY <1>1, <1>3 DEF QInv

\* An add that ends leaves the rest quiet on top of what there is by then.
LEMMA LeftTail ==
  ASSUME calls \in Calls, calls # <<>>, maxLevel \in Int, LeftOK,
         maxLevel >= Top(Head(calls)),
         NEW i \in 1 .. Len(Tail(calls)), Crowded(Tail(calls)[i])
  PROVE  \/ maxLevel >= Top(Tail(calls)[i])
         \/ \E j \in 1 .. i - 1 : Top(Tail(calls)[j]) >= Top(Tail(calls)[i])
<1>1. /\ Len(calls) \in Nat /\ Len(Tail(calls)) = Len(calls) - 1
      /\ Head(calls) = calls[1]
      /\ \A j \in 1 .. Len(calls) - 1 : Tail(calls)[j] = calls[j + 1]
  BY DEF Calls
<1>2. \A j \in 1 .. Len(calls) : Top(calls[j]) \in Int
  <2>1. ASSUME NEW j \in 1 .. Len(calls)
        PROVE  Top(calls[j]) \in Int
    <3>1. calls[j] \in Seq(Levels) /\ calls[j] # <<>>
      BY DEF Calls
    <3>2. QED
      BY <3>1, TopIs, ConstantsOK
  <2>2. QED
    BY <2>1
<1>3. i + 1 \in 1 .. Len(calls) /\ i + 1 # 1 /\ (i + 1) - 1 = i /\ i \in Nat
      /\ i \in 1 .. Len(calls) - 1 /\ 1 \in 1 .. Len(calls)
  BY <1>1
<1>4. Tail(calls)[i] = calls[i + 1]
  BY <1>1, <1>3
<1>5. \/ maxLevel >= Top(calls[i + 1])
      \/ \E j \in 1 .. i : Top(calls[j]) >= Top(calls[i + 1])
  BY <1>3, <1>4 DEF LeftOK
<1>6. ASSUME NEW j \in 1 .. i, Top(calls[j]) >= Top(calls[i + 1])
      PROVE  \/ maxLevel >= Top(calls[i + 1])
             \/ \E m \in 1 .. i - 1 : Top(Tail(calls)[m]) >= Top(calls[i + 1])
  <2>1. CASE j = 1
    <3>1. maxLevel >= Top(calls[1]) /\ Top(calls[1]) >= Top(calls[i + 1])
      BY <1>1, <1>6, <2>1
    <3>2. Top(calls[1]) \in Int /\ Top(calls[i + 1]) \in Int
      BY <1>2, <1>3
    <3>3. QED
      BY <3>1, <3>2
  <2>2. CASE j # 1
    <3>1. j - 1 \in 1 .. i - 1 /\ j - 1 \in 1 .. Len(calls) - 1 /\ (j - 1) + 1 = j
      BY <1>1, <1>3, <2>2
    <3>2. Tail(calls)[j - 1] = calls[j]
      BY <1>1, <3>1
    <3>3. QED
      BY <1>6, <3>1, <3>2
  <2>3. QED
    BY <2>1, <2>2
<1>7. QED
  BY <1>4, <1>5, <1>6

LEMMA RiseStep ==
  ASSUME IInv, QInv, [Next]_vars
  PROVE  QInv'
<1>0. /\ IndexTypeOK /\ DriverOK /\ EntryOK /\ RisenOK /\ LeftOK /\ NoSharedRise
      /\ maxLevel \in Int /\ ptLevel \in Int
  BY ConstantsOK DEF IInv, QInv, TypeOK, IndexTypeOK
<1>1. calls # <<>> => /\ Head(calls) \in Seq(Levels) /\ Head(calls) # <<>>
                      /\ Head(calls) = calls[1] /\ Len(calls) \in Nat /\ Len(calls) >= 1
  BY <1>0, HeadIs DEF IndexTypeOK, Calls
<1>2. calls # <<>> => Top(Head(calls)) \in Levels /\ Top(Head(calls)) \in Nat
  BY <1>1, TopIs, ConstantsOK
<1>3. ASSUME calls # <<>>, maxLevel >= Top(Head(calls)), calls' = Tail(calls),
             ptLevel' = -1, maxLevel' = maxLevel
      PROVE  QInv'
  <2>1. ASSUME NEW i \in 1 .. Len(calls'), Crowded(calls'[i])
        PROVE  \/ maxLevel' >= Top(calls'[i])
               \/ \E j \in 1 .. i - 1 : Top(calls'[j]) >= Top(calls'[i])
    BY <1>0, <1>3, <2>1, LeftTail DEF IndexTypeOK
  <2>2. LeftOK'
    BY <2>1 DEF LeftOK, Crowded
  <2>3. RisenOK'
    BY <1>3 DEF RisenOK
  <2>4. NoSharedRise'
    <3>1. ~(ptLevel' > maxLevel')
      BY <1>0, <1>2, <1>3
    <3>2. QED
      BY <3>1 DEF NoSharedRise
  <2>5. QED
    BY <2>2, <2>3, <2>4 DEF QInv
<1>4. CASE StartAdd
  <2> DEFINE ls == Head(calls)
  <2>1. /\ calls # <<>> /\ ptLevel = -1 /\ calls' = calls /\ entry' = entry
        /\ maxLevel' = maxLevel /\ ptLevel' = Top(ls) /\ ~interrupt'
        /\ batch' = Batch(level \o ls, Len(level), Top(ls))
        /\ shared' = (Cardinality(batch') > ParMin)
    BY <1>4 DEF StartAdd, Starts
  <2>2. ls \in Seq(Levels) /\ ls # <<>> /\ level \in Seq(Levels) /\ Top(ls) \in Nat
    BY <1>0, <1>1, <1>2, <2>1 DEF IndexTypeOK
  <2>3. batch' # {}
    <3>1. PICK i \in DOMAIN ls : ls[i] = Top(ls)
      BY <2>2, TopIs
    <3>2. /\ level \o ls \in Seq(Levels) /\ Len(level \o ls) = Len(level) + Len(ls)
          /\ Len(level) \in Nat /\ Len(ls) \in Nat /\ i \in 1 .. Len(ls)
          /\ (level \o ls)[Len(level) + i] = ls[i]
      BY <2>2
    <3>3. Len(level) + i \in Nat /\ Len(level) < Len(level) + i
          /\ Len(level) + i <= Len(level \o ls)
      BY <3>2
    <3>4. Len(level) + i \in batch'
      <4> DEFINE grown == level \o ls
                 n == Len(level) + i
      <4>1. /\ grown \in Seq(Levels) /\ grown[n] = Top(ls) /\ n \in Nat
            /\ Len(level) < n /\ n <= Len(grown) /\ batch' = Batch(grown, Len(level), Top(ls))
        BY <2>1, <3>1, <3>2, <3>3
      <4>2. Len(level) \in Nat
        BY <3>2
      <4> HIDE DEF grown, n
      <4>3. n \in batch'
        BY <4>1, <4>2, BatchIs
      <4>4. QED
        BY <4>3 DEF n
    <3>5. QED
      BY <3>4
  <2>4. RisenOK'
    BY <2>1, <2>2, <2>3 DEF RisenOK
  <2>5. LeftOK'
    <3>1. ptLevel' # -1
      BY <2>1, <2>2
    <3>2. QED
      BY <1>0, <2>1, <3>1 DEF LeftOK, Crowded
  <2>6. shared' = Crowded(ls)
    BY <2>1, <2>2, BatchSize DEF Crowded
  <2>7. entry # NoOne /\ Crowded(ls) => maxLevel >= Top(ls)
    <3>1. ls = calls[1] /\ 1 \in 1 .. Len(calls)
      BY <1>1, <2>1
    <3>2. ~\E j \in 1 .. 1 - 1 : TRUE
      OBVIOUS
    <3>3. QED
      BY <1>0, <2>1, <3>1, <3>2 DEF LeftOK
  <2>8. maxLevel >= Top(ls) => ~(Top(ls) > maxLevel)
    BY <1>0, <2>2
  <2>9. NoSharedRise'
    BY <2>1, <2>6, <2>7, <2>8 DEF NoSharedRise
  <2>10. QED
    BY <2>4, <2>5, <2>9 DEF QInv
<1>5. CASE NextBatch
  <2>1. /\ ptLevel >= 0 /\ batch = {} /\ AllIdle /\ calls # <<>>
        /\ ptLevel' = ptLevel - 1 /\ maxLevel' = maxLevel /\ entry' = entry
        /\ calls' = IF ptLevel = 0 THEN Tail(calls) ELSE calls
    BY <1>0, <1>5 DEF NextBatch, Starts, DriverOK, index
  <2>2. maxLevel >= Top(Head(calls)) /\ ptLevel <= Top(Head(calls))
    BY <1>0, <2>1 DEF RisenOK
  <2>3. CASE ptLevel = 0
    BY <1>3, <2>1, <2>2, <2>3
  <2>4. CASE ptLevel # 0
    <3>1. calls' = calls /\ ptLevel' # -1 /\ ptLevel' <= Top(Head(calls))
          /\ ~(ptLevel' > maxLevel)
      BY <1>0, <1>2, <2>1, <2>2, <2>4
    <3>2. RisenOK' /\ NoSharedRise'
      BY <2>1, <2>2, <3>1 DEF RisenOK, NoSharedRise
    <3>3. LeftOK'
      BY <1>0, <2>1, <3>1 DEF LeftOK, Crowded
    <3>4. QED
      BY <3>2, <3>3 DEF QInv
  <2>5. QED
    BY <2>3, <2>4
<1>6. CASE Throw
  <2>1. /\ ptLevel >= 0 /\ interrupt /\ calls # <<>> /\ ptLevel' = -1
        /\ maxLevel' = maxLevel /\ calls' = Tail(calls)
    BY <1>0, <1>6 DEF Throw, DriverOK, index
  <2>2. maxLevel >= Top(Head(calls))
    BY <1>0, <2>1 DEF RisenOK
  <2>3. QED
    BY <1>3, <2>1, <2>2
<1>7. ASSUME NEW t \in Thread, Step(t)
      PROVE  QInv'
  <2>1. /\ calls' = calls /\ ptLevel' = ptLevel /\ shared' = shared
        /\ ptLevel \in Levels
        /\ maxLevel' = maxLevel \/ (maxLevel' = ptLevel /\ ptLevel > maxLevel)
        /\ entry = NoOne => maxLevel' = ptLevel
        /\ \/ maxLevel' >= ptLevel
           \/ ~AllIdle' /\ interrupt' = interrupt
    BY <1>7, RiseSteps
  <2>2. /\ ptLevel >= 0 /\ ptLevel # -1 /\ calls # <<>> /\ Top(Head(calls)) \in Nat
        /\ maxLevel' \in Int
    BY <1>0, <1>2, <2>1, ConstantsOK DEF DriverOK
  <2>3. maxLevel' >= maxLevel /\ \A n \in Int : maxLevel >= n => maxLevel' >= n
    BY <1>0, <2>1, <2>2
  <2>4. RisenOK'
    BY <1>0, <2>1, <2>2, <2>3 DEF RisenOK
  <2>5. LeftOK'
    <3>1. ASSUME NEW i \in 1 .. Len(calls), i # 1, Crowded(calls[i])
          PROVE  \/ maxLevel' >= Top(calls[i])
                 \/ \E j \in 1 .. i - 1 : Top(calls[j]) >= Top(calls[i])
      <4>1. calls[i] \in Seq(Levels) /\ calls[i] # <<>>
        BY <1>0 DEF IndexTypeOK, Calls
      <4>2. Top(calls[i]) \in Int
        BY <4>1, TopIs, ConstantsOK
      <4>3. QED
        BY <1>0, <2>3, <3>1, <4>2 DEF LeftOK
    <3>2. QED
      BY <2>1, <2>2, <3>1 DEF LeftOK, Crowded
  <2>6. NoSharedRise'
    <3>1. ptLevel > maxLevel' => maxLevel' = maxLevel /\ maxLevel' # ptLevel
      BY <1>0, <2>1, <2>2
    <3>2. QED
      BY <1>0, <2>1, <3>1 DEF NoSharedRise
  <2>7. QED
    BY <2>4, <2>5, <2>6 DEF QInv
<1>8. CASE UNCHANGED vars
  BY <1>0, <1>8 DEF QInv, RisenOK, LeftOK, NoSharedRise, Crowded, AllIdle, vars
<1>9. QED
  BY <1>4, <1>5, <1>6, <1>7, <1>8 DEF Next

\* All of it holds in each state of a run with quiet adds.
LEMMA AlwaysOK ==
  ASSUME QuietAdds
  PROVE  Spec => [](IInv /\ NoSharedRise)
<1>1. Init => IInv /\ QInv
  BY InitOK, RiseInit
<1>2. IInv /\ QInv /\ [Next]_vars => IInv' /\ QInv'
  BY StepOK, RiseStep DEF QInv
<1>3. IInv /\ QInv => IInv /\ NoSharedRise
  BY DEF QInv
<1>4. QED
  BY <1>1, <1>2, <1>3, PTL DEF Spec

\* A list of neighbours is read and written only at a level that its point has,
\* takes a point only once and never more points than it has places: HNSW.cpp
\* checks none of this, the lists of all points lie in one array.
THEOREM ListsAlwaysSound ==
  ASSUME QuietAdds
  PROVE  Spec => []ListsSound
<1>1. IInv => ListsSound
  <2> SUFFICES ASSUME IInv
               PROVE  ListsSound
    OBVIOUS
  <2>1. ListsFit
    BY DEF IInv
  <2>2. \A p \in Point, l \in Levels : InGraph(p, l) => level[p] >= l
    <3>1. \A t \in Thread : pc[t] # "idle" => level[pt[t]] = ptLevel
      BY DEF IInv, ThreadsOK, Works
    <3>2. ptLevel \in Int /\ \A l \in Levels : l \in Int
      BY ConstantsOK DEF IInv, TypeOK, IndexTypeOK
    <3>3. QED
      BY <3>1, <3>2 DEF InGraph, Listed
  <2>3. ListsExist
    <3>1. ASSUME NEW t \in Thread
          PROVE  /\ pc[t] = "descend" => level[near[t]] >= lv[t]
                 /\ \A p \in seen[t] \cup todo[t] : level[p] >= lv[t]
      <4>1. pc[t] = "descend" => level[near[t]] >= lv[t]
        BY DEF IInv, ThreadsOK, Works
      <4>2. MetOK(t) /\ lv[t] \in Levels /\ seen[t] \subseteq Point /\ todo[t] \subseteq Point
        BY DEF IInv, GraphOK, TypeOK, WorkTypeOK
      <4>3. QED
        BY <2>2, <4>1, <4>2 DEF MetOK
    <3>2. ASSUME NEW p \in Point, NEW l \in Levels, links[p][l] # {},
                 NEW q \in links[p][l] \cup {p}
          PROVE  level[q] >= l
      <4>1. links[p][l] \subseteq Point
        BY DEF IInv, TypeOK, IndexTypeOK
      <4>2. InGraph(q, l) /\ q \in Point
        BY <3>2, <4>1 DEF IInv, GraphOK
      <4>3. QED
        BY <2>2, <4>2
    <3>3. QED
      BY <3>1, <3>2 DEF ListsExist
  <2>4. LinkedOnce
    <3>1. ASSUME NEW t \in Thread, pc[t] = "search"
          PROVE  pt[t] \notin seen[t] /\ links[pt[t]][lv[t]] = {}
      <4>1. ~InGraph(pt[t], lv[t])
        BY <3>1, Unmet
      <4>2. pt[t] \in Point /\ lv[t] \in Levels
        BY <3>1, AtWork
      <4>3. QED
        BY <4>1, <4>2 DEF IInv, GraphOK, MetOK
    <3>2. ASSUME NEW t \in Thread, pc[t] = "back"
          PROVE  pt[t] \notin copy[t] /\ pt[t] # other[t]
      BY <3>2 DEF IInv, LocksOK, OnceOK
    <3>3. QED
      BY <3>1, <3>2 DEF LinkedOnce
  <2>5. QED
    BY <2>1, <2>3, <2>4 DEF ListsSound
<1>2. QED
  BY <1>1, AlwaysOK, PTL

\* Whenever no thread is at work the entry point is an inserted point of the
\* highest level, although entry_point and max_level are written one after the
\* other and the last add may have been interrupted.
THEOREM EntryAlwaysTop ==
  ASSUME QuietAdds
  PROVE  Spec => []EntryIsTop
<1>1. IInv => EntryIsTop
  BY DEF IInv, EntryOK, EntryIsTop, AllIdle
<1>2. QED
  BY <1>1, AlwaysOK, PTL

\* No link is lost when threads link to the same point: at rest, one that is
\* missing on one side was dropped when that list overflowed.
THEOREM NoLinkLost ==
  ASSUME QuietAdds
  PROVE  Spec => []LinkedBothWays
<1>1. IInv => LinkedBothWays
  <2> SUFFICES ASSUME IInv, AllIdle
               PROVE  LinkedBothWays
    BY DEF LinkedBothWays
  <2>1. \A t \in Thread : todo[t] = {}
    BY DEF AllIdle, IInv, GraphOK, MetOK
  <2>2. PairsOK
    BY DEF IInv
  <2>3. ASSUME NEW p \in Point, NEW l \in Levels, NEW q \in links[p][l]
        PROVE  p \in links[q][l] \/ <<q, l>> \in shrunk
    BY <2>1, <2>2 DEF PairsOK
  <2>4. QED
    BY <2>3 DEF LinkedBothWays
<1>2. QED
  BY <1>1, AlwaysOK, PTL

\* At rest each inserted point has a neighbour at the base level, unless it is
\* the only one: a search gets away from every point.
THEOREM NeverDeadEnd ==
  ASSUME QuietAdds
  PROVE  Spec => []NoDeadEnd
<1>1. IInv => NoDeadEnd
  <2> SUFFICES ASSUME IInv, Cardinality(inserted) > 1, NEW p \in inserted, links[p][0] = {}
               PROVE  FALSE
    BY DEF NoDeadEnd
  <2>1. inserted = {p}
    BY DEF IInv, GroundOK
  <2>2. Cardinality({p}) = 1
    BY FS_Singleton
  <2>3. QED
    BY <2>1, <2>2
<1>2. QED
  BY <1>1, AlwaysOK, PTL

\* While a batch is added no list above its level changes, so that the greedy
\* descent of one thread is not disturbed by the others.
THEOREM UpperLevelsAlwaysFrozen ==
  ASSUME QuietAdds
  PROVE  Spec => UpperLevelsFrozen
<1>1. IInv /\ [Next]_vars =>
        [\A p \in Point, l \in Levels :
           l > ptLevel /\ ptLevel >= 0 => links'[p][l] = links[p][l]]_vars
  <2> SUFFICES ASSUME IInv, [Next]_vars, NEW p \in Point, NEW l \in Levels,
                      l > ptLevel, ptLevel >= 0
               PROVE  links'[p][l] = links[p][l]
    OBVIOUS
  <2>1. ASSUME NEW t \in Thread, pc[t] \in {"search", "back"}
        PROVE  lv[t] # l
    <3>1. lv[t] <= ptLevel /\ lv[t] \in Nat /\ ptLevel \in Nat /\ l \in Nat
      BY <2>1, AtWork, ConstantsOK DEF IInv, ThreadsOK, Works
    <3>2. QED
      BY <3>1
  <2>2. ASSUME NEW t \in Thread, Choose(t)
        PROVE  links'[p][l] = links[p][l]
    <3>1. PICK c \in SUBSET seen[t] :
            /\ c # {} /\ c \subseteq Point
            /\ ListIs(pt[t], lv[t], c)
      BY <2>2, ChooseIs
    <3> USE DEF ListIs
    <3>2. QED
      BY <2>1, <2>2, <3>1 DEF Choose
  <2>3. ASSUME NEW t \in Thread, LinkBack(t)
        PROVE  links'[p][l] = links[p][l]
    <3>1. PICK s \in SUBSET (links[other[t]][lv[t]] \cup {pt[t]}) :
            ListIs(other[t], lv[t], s)
      BY <2>3, LinkBackIs
    <3> USE DEF ListIs
    <3>2. QED
      BY <2>1, <2>3, <3>1 DEF LinkBack
  <2>4. CASE links' = links
    BY <2>4
  <2>5. QED
    BY <2>2, <2>3, <2>4 DEF Next, Step, StartAdd, NextBatch, Throw, Take, LockOwn, Greedy,
       Begin, Look, LockOther, Relock, Publish, Enter, vars, index
<1>2. QED
  BY <1>1, AlwaysOK, PTL DEF Spec, UpperLevelsFrozen

NoWaitHolding ==
  \A t \in Thread : pc[t] \in {"lock", "links"} => \A p \in Point : lock[p] # t

\* A thread that waits for a lock, its own or that of a neighbour, holds none:
\* threads cannot wait for one another in a circle.
THEOREM WaitersHoldNothing ==
  ASSUME QuietAdds
  PROVE  Spec => []NoWaitHolding
<1>1. IInv => NoWaitHolding
  BY DEF IInv, LocksOK, Holds, NoWaitHolding
<1>2. QED
  BY <1>1, AlwaysOK, PTL

----------------------------------------------------------------------------
(* The way of a hole.                                                      *)

LEMMA LeastExists ==
  ASSUME NEW S \in SUBSET Nat, S # {}
  PROVE  \E n \in S : \A m \in S : n <= m
<1>1. IsWellFoundedOn(OpToRel(<, Nat), Nat)
  BY NatLessThanWellFounded
<1>2. PICK n \in S : \A m \in S : <<m, n>> \notin OpToRel(<, Nat)
  BY <1>1, WFMin, Zenon
<1>3. \A m \in S : ~(m < n)
  BY <1>2 DEF OpToRel
<1>4. QED
  BY <1>3

\* The step before.
LEMMA StepBefore ==
  ASSUME NEW n \in Nat, NEW m \in 0 .. n, m # 0
  PROVE  /\ m - 1 \in 0 .. n /\ m \in 1 .. n /\ ~(m <= m - 1)
         /\ \A j \in 0 .. n : m >= j /\ m # j => m - 1 >= j
OBVIOUS

\* Of the first n positions, m steps of a hole that starts at i.
Goes(at, m, n, next, i) ==
  /\ at \in [0 .. m -> 1 .. n] /\ at[0] = i
  /\ \A j \in 1 .. m : at[j] = next[at[j - 1]]

\* There is a way of any length.
LEMMA GoesExists ==
  ASSUME NEW n \in Nat, NEW next \in [1 .. n -> 1 .. n], NEW i \in 1 .. n,
         NEW k \in Nat
  PROVE  \E at : Goes(at, k, n, next, i)
<1> DEFINE Bad == {m \in 0 .. k : ~ \E at : Goes(at, m, n, next, i)}
<1>1. Bad = {}
  <2> SUFFICES ASSUME Bad # {} PROVE FALSE
    OBVIOUS
  <2>1. PICK m \in Bad : \A o \in Bad : m <= o
    <3>1. Bad \in SUBSET Nat
      OBVIOUS
    <3> HIDE DEF Bad
    <3>2. QED
      BY <3>1, LeastExists
  <2>2. CASE m = 0
    <3>1. Goes([j \in 0 .. 0 |-> i], 0, n, next, i)
      BY DEF Goes
    <3>2. QED
      BY <2>2, <3>1
  <2>3. CASE m > 0
    <3>1. m - 1 \in 0 .. k /\ m \in 1 .. k /\ m - 1 \notin Bad
      <4>1. m \in 0 .. k
        BY <2>1
      <4>2. m # 0
        BY <2>3
      <4> HIDE DEF Bad
      <4>3. m - 1 \in 0 .. k /\ m \in 1 .. k /\ ~(m <= m - 1)
        BY <4>1, <4>2, StepBefore
      <4>4. QED
        BY <2>1, <4>3
    <3>2. PICK at : Goes(at, m - 1, n, next, i)
      BY <3>1
    <3> DEFINE on == [j \in 0 .. m |-> IF j = m THEN next[at[m - 1]] ELSE at[j]]
    <3>3. at[m - 1] \in 1 .. n /\ next[at[m - 1]] \in 1 .. n
      BY <3>1, <3>2 DEF Goes
    <3>4. on \in [0 .. m -> 1 .. n] /\ on[0] = i
      <4>1. at \in [0 .. m - 1 -> 1 .. n] /\ at[0] = i
        BY <3>2 DEF Goes
      <4>2. ASSUME NEW j \in 0 .. m
            PROVE  (IF j = m THEN next[at[m - 1]] ELSE at[j]) \in 1 .. n
        <5>1. j = m \/ j \in 0 .. m - 1
          BY <3>1
        <5>2. QED
          BY <3>3, <4>1, <5>1
      <4>3. 0 \in 0 .. m /\ 0 # m
        BY <3>1
      <4>4. QED
        BY <4>1, <4>2, <4>3
    <3>5. ASSUME NEW j \in 1 .. m PROVE on[j] = next[on[j - 1]]
      <4>1. j \in 0 .. m /\ j - 1 \in 0 .. m /\ j - 1 # m
        BY <3>1
      <4>2. on[j - 1] = at[j - 1]
        BY <4>1
      <4>3. CASE j = m
        BY <4>1, <4>2, <4>3
      <4>4. CASE j # m
        <5>1. j \in 1 .. m - 1 /\ on[j] = at[j]
          BY <3>1, <4>1, <4>4
        <5>2. at[j] = next[at[j - 1]]
          BY <3>2, <5>1 DEF Goes
        <5>3. QED
          BY <4>2, <5>1, <5>2
      <4>5. QED
        BY <4>3, <4>4
    <3>6. QED
      BY <3>4, <3>5 DEF Goes
  <2>4. QED
    BY <2>1, <2>2, <2>3
<1>2. k \in 0 .. k
  OBVIOUS
<1>3. k \notin Bad
  <2> HIDE DEF Bad
  <2>1. QED
    BY <1>1
<1>4. QED
  BY <1>2, <1>3

\* The path is the positions of such a way.
LEMMA PathIs ==
  ASSUME NEW next, NEW i, Len(next) \in Nat,
         next \in [1 .. Len(next) -> 1 .. Len(next)], i \in 1 .. Len(next)
  PROVE  \E at : /\ Goes(at, Len(next), Len(next), next, i)
                 /\ Path(next, i) = {at[j] : j \in 0 .. Len(next)}
<1> DEFINE n == Len(next)
           step(f, j) == IF j = 0 THEN i ELSE next[f[j - 1]]
<1>1. n \in Nat /\ next \in [1 .. n -> 1 .. n] /\ i \in 1 .. n
  OBVIOUS
<1>2. PICK at : Goes(at, n, n, next, i)
  <2> HIDE DEF n
  <2>1. QED
    BY <1>1, GoesExists
<1>3. at = [j \in 0 .. n |-> step(at, j)]
  <2> HIDE DEF n
  <2>1. at = [j \in 0 .. n |-> at[j]]
    BY <1>2 DEF Goes
  <2>2. ASSUME NEW j \in 0 .. n PROVE at[j] = step(at, j)
    <3>1. CASE j = 0
      BY <1>2, <3>1 DEF Goes
    <3>2. CASE j # 0
      <4>1. j \in 1 .. n
        BY <1>1, <3>2
      <4>2. QED
        BY <1>2, <3>2, <4>1 DEF Goes
    <3>3. QED
      BY <3>1, <3>2
  <2> HIDE DEF step
  <2>3. QED
    BY <2>1, <2>2
<1> DEFINE f == CHOOSE g : g = [j \in 0 .. n |-> step(g, j)]
<1>4. f = [j \in 0 .. n |-> step(f, j)]
  <2> HIDE DEF n, step
  <2>1. \E g : g = [j \in 0 .. n |-> step(g, j)]
    BY <1>3
  <2>2. QED
    BY <2>1, Zenon
<1>5. Path(next, i) = {f[j] : j \in 0 .. n}
  BY DEF Path
<1> HIDE DEF f, n
<1>6. f[0] = i /\ \A j \in 1 .. n : j \in 0 .. n /\ f[j] = next[f[j - 1]]
  <2>1. \A j \in 0 .. n : f[j] = step(f, j)
    BY <1>4
  <2>2. 0 \in 0 .. n /\ \A j \in 1 .. n : j \in 0 .. n /\ j # 0
    BY <1>1
  <2>3. QED
    BY <2>1, <2>2
<1>7. \A j \in 0 .. n : f[j] = at[j]
  <2> DEFINE Bad == {m \in 0 .. n : f[m] # at[m]}
  <2> SUFFICES ASSUME Bad # {} PROVE FALSE
    OBVIOUS
  <2>1. PICK m \in Bad : \A o \in Bad : m <= o
    <3>1. Bad \in SUBSET Nat
      BY <1>1
    <3> HIDE DEF Bad
    <3>2. QED
      BY <3>1, LeastExists
  <2>2. m # 0
    <3>1. f[m] # at[m]
      BY <2>1
    <3>2. f[0] = at[0]
      BY <1>2, <1>6 DEF Goes
    <3> HIDE DEF Bad
    <3>3. QED
      BY <3>1, <3>2
  <2>3. m - 1 \in 0 .. n /\ m \in 1 .. n /\ m - 1 \notin Bad
    <3>1. m \in 0 .. n
      BY <2>1
    <3> HIDE DEF Bad
    <3>2. m - 1 \in 0 .. n /\ m \in 1 .. n /\ ~(m <= m - 1)
      BY <1>1, <2>2, <3>1, StepBefore
    <3>3. QED
      BY <2>1, <3>2
  <2>4. QED
    BY <1>2, <1>6, <2>3 DEF Goes
<1>8. Path(next, i) = {at[j] : j \in 0 .. n}
  BY <1>5, <1>7
<1>9. QED
  BY <1>2, <1>8 DEF n

\* P is a way from i to e: it goes on until it stays, and only at e, which no
\* position of it outranks; and no two go on to the same.
Leads(P, n, next, i, e, rank) ==
  /\ P \subseteq 1 .. n /\ i \in P /\ e \in P /\ next[e] = e
  /\ \A p \in P : next[p] \in P /\ (next[p] = p => p = e)
  /\ \A p \in P : p # i => \E q \in P : q # p /\ next[q] = p
  /\ \A p \in P : rank[p] <= rank[e]
  /\ \A p, q \in P : next[p] # p /\ next[q] # q /\ next[p] = next[q] => p = q

\* Arithmetic, for terms that are applications of functions.
LEMMA Ranks ==
  ASSUME NEW n \in Nat
  PROVE  /\ \A x \in 1 .. n : x \in Int /\ x >= 0 + 1 /\ ~(x >= n + 1)
         /\ \A x, y, m \in Int : x >= m /\ y > x => y >= m + 1
OBVIOUS

LEMMA RanksRise ==
  /\ \A x \in Int : x >= x /\ x <= x
  /\ \A x, y \in Int : ~(y > x /\ x >= y)
OBVIOUS

LEMMA RanksBetween ==
  /\ \A x, y, z \in Int : x >= y /\ z > x => z >= y
  /\ \A x, y, z \in Int : y >= x /\ z >= y => x <= z
OBVIOUS

\* n steps are enough for a hole that moves to ever higher ranks.
LEMMA WayEnds ==
  ASSUME NEW n \in Nat, NEW next \in [1 .. n -> 1 .. n], NEW i \in 1 .. n,
         NEW at, Goes(at, n, n, next, i),
         NEW rank \in [1 .. n -> 1 .. n],
         \A p \in 1 .. n : next[p] # p => rank[next[p]] > rank[p]
  PROVE  Leads({at[j] : j \in 0 .. n}, n, next, i, at[n], rank)
<1>1. /\ at \in [0 .. n -> 1 .. n] /\ at[0] = i
      /\ \A j \in 1 .. n : at[j] = next[at[j - 1]]
  BY DEF Goes
<1>2. \A j \in 0 .. n : at[j] \in 1 .. n /\ rank[at[j]] \in 1 .. n
  BY <1>1
<1>3. \A j \in 0 .. n : rank[at[j]] >= j + 1 \/ next[at[j]] = at[j]
  <2> DEFINE Bad == {m \in 0 .. n : ~(rank[at[m]] >= m + 1 \/ next[at[m]] = at[m])}
  <2> SUFFICES ASSUME Bad # {} PROVE FALSE
    OBVIOUS
  <2>1. PICK m \in Bad : \A o \in Bad : m <= o
    <3>1. Bad \in SUBSET Nat
      OBVIOUS
    <3> HIDE DEF Bad
    <3>2. QED
      BY <3>1, LeastExists
  <2>2. m \in 0 .. n /\ ~(rank[at[m]] >= m + 1) /\ next[at[m]] # at[m]
    BY <2>1
  <2> HIDE DEF Bad
  <2>3. m # 0
    <3>1. rank[at[m]] >= 0 + 1
      BY <1>2, <2>2, Ranks, Zenon
    <3>2. QED
      BY <2>2, <3>1, Zenon
  <2>4. m - 1 \in 0 .. n /\ m \in 1 .. n /\ ~(m <= m - 1)
    BY <2>2, <2>3, StepBefore
  <2>5. m - 1 \notin Bad
    BY <2>1, <2>4
  <2>6. rank[at[m - 1]] >= m \/ next[at[m - 1]] = at[m - 1]
    <3>1. (m - 1) + 1 = m
      BY <2>2
    <3>2. QED
      BY <2>4, <2>5, <3>1 DEF Bad
  <2>7. at[m] = next[at[m - 1]]
    BY <1>1, <2>4
  <2>8. next[at[m - 1]] # at[m - 1]
    BY <2>2, <2>7
  <2>9. rank[at[m]] > rank[at[m - 1]]
    BY <1>2, <2>4, <2>7, <2>8
  <2>10. rank[at[m]] \in 1 .. n /\ rank[at[m - 1]] \in 1 .. n
    BY <1>2, <2>2, <2>4, Zenon
  <2>11. rank[at[m]] \in Int /\ rank[at[m - 1]] \in Int
    BY <2>10, Ranks, Zenon
  <2>12. m \in Int
    BY <2>2
  <2>13. rank[at[m - 1]] >= m /\ ~(rank[at[m]] >= m + 1)
    BY <2>2, <2>6, <2>8
  <2>14. QED
    BY <2>9, <2>11, <2>13, <2>12, Ranks, Zenon
<1>4. n \in 0 .. n /\ 0 \in 0 .. n
  OBVIOUS
<1>5. next[at[n]] = at[n]
  <2>1. ~(rank[at[n]] >= n + 1)
    <3>1. rank[at[n]] \in 1 .. n
      BY <1>2, <1>4, Zenon
    <3>2. QED
      BY <3>1, Ranks, Zenon
  <2>2. QED
    BY <1>3, <1>4, <2>1
<1>6. ASSUME NEW j \in 0 .. n, next[at[j]] = at[j] PROVE at[j] = at[n]
  <2> DEFINE Bad == {m \in 0 .. n : m >= j /\ at[m] # at[j]}
  <2>0. n >= j
    OBVIOUS
  <2> SUFFICES ASSUME Bad # {} PROVE FALSE
    BY <1>4, <2>0
  <2>1. PICK m \in Bad : \A o \in Bad : m <= o
    <3>1. Bad \in SUBSET Nat
      OBVIOUS
    <3> HIDE DEF Bad
    <3>2. QED
      BY <3>1, LeastExists
  <2>2. m \in 0 .. n /\ m >= j /\ at[m] # at[j] /\ m # j
    BY <2>1
  <2>3. m - 1 \in 0 .. n /\ m \in 1 .. n /\ ~(m <= m - 1) /\ m - 1 >= j
    <3>1. m # 0
      BY <2>2
    <3> HIDE DEF Bad
    <3>2. QED
      BY <2>2, <3>1, StepBefore
  <2>4. m - 1 \notin Bad
    <3> HIDE DEF Bad
    <3>1. QED
      BY <2>1, <2>3
  <2>5. at[m - 1] = at[j]
    BY <2>3, <2>4
  <2>6. at[m] = next[at[m - 1]]
    BY <1>1, <2>3
  <2>7. QED
    BY <1>6, <2>2, <2>5, <2>6
<1>7. ASSUME NEW j \in 0 .. n, NEW k \in 0 .. n, j <= k
       PROVE  at[j] = at[k] \/ rank[at[k]] >= rank[next[at[j]]]
  <2> DEFINE OK(m) == at[j] = at[m] \/ rank[at[m]] >= rank[next[at[j]]]
             Bad == {m \in 0 .. n : m >= j /\ ~OK(m)}
  <2>1. Bad = {}
    <3> SUFFICES ASSUME Bad # {} PROVE FALSE
      OBVIOUS
    <3>1. PICK m \in Bad : \A o \in Bad : m <= o
      <4>1. Bad \in SUBSET Nat
        OBVIOUS
      <4> HIDE DEF Bad
      <4>2. QED
        BY <4>1, LeastExists
    <3>2. m \in 0 .. n /\ m >= j /\ ~OK(m)
      BY <3>1
    <3>3. m # j
      BY <3>2
    <3>4. m - 1 \in 0 .. n /\ m \in 1 .. n /\ ~(m <= m - 1) /\ m - 1 >= j
      <4>1. m # 0
        BY <3>2, <3>3
      <4> HIDE DEF Bad, OK
      <4>2. QED
        BY <3>2, <3>3, <4>1, StepBefore
    <3>5. m - 1 \notin Bad
      <4> HIDE DEF Bad
      <4>1. QED
        BY <3>1, <3>4
    <3>6. OK(m - 1)
      BY <3>4, <3>5
    <3>7. at[m] = next[at[m - 1]] /\ at[m - 1] \in 1 .. n /\ at[m] \in 1 .. n
      BY <1>1, <1>2, <3>2, <3>4
    <3>8. /\ rank[at[m]] \in Int /\ rank[at[m - 1]] \in Int
          /\ rank[next[at[j]]] \in Int
      <4>1. next[at[j]] \in 1 .. n
        BY <1>2
      <4>2. /\ rank[at[m]] \in 1 .. n /\ rank[at[m - 1]] \in 1 .. n
            /\ rank[next[at[j]]] \in 1 .. n
        BY <3>7, <4>1
      <4>3. QED
        BY <4>2, Ranks, Zenon
    <3>9. at[m] = at[m - 1] \/ rank[at[m]] > rank[at[m - 1]]
      BY <3>7
    <3> HIDE DEF Bad
    <3>10. CASE at[j] = at[m - 1]
      <4>1. rank[at[m]] = rank[next[at[j]]]
        BY <3>7, <3>10
      <4>2. QED
        BY <3>2, <3>8, <4>1, RanksRise, Zenon DEF OK
    <3>11. CASE at[j] # at[m - 1]
      <4>1. rank[at[m - 1]] >= rank[next[at[j]]]
        BY <3>6, <3>11
      <4>2. CASE at[m] = at[m - 1]
        BY <3>2, <4>1, <4>2
      <4>3. CASE rank[at[m]] > rank[at[m - 1]]
        <5>1. rank[at[m]] >= rank[next[at[j]]]
          BY <3>8, <4>1, <4>3, RanksBetween, Zenon
        <5>2. QED
          BY <3>2, <5>1
      <4>4. QED
        BY <3>9, <4>2, <4>3
    <3>12. QED
      BY <3>10, <3>11
  <2>2. k \notin Bad
    <3> HIDE DEF Bad
    <3>1. QED
      BY <2>1
  <2>3. OK(k)
    BY <1>7, <2>2
  <2>4. QED
    BY <2>3
<1>8. ASSUME NEW p \in 1 .. n
       PROVE  /\ rank[p] \in Int /\ next[p] \in 1 .. n /\ rank[next[p]] \in Int
              /\ next[p] # p => rank[next[p]] > rank[p]
              /\ rank[next[p]] >= rank[p]
  <2>1. next[p] \in 1 .. n
    OBVIOUS
  <2>2. rank[p] \in 1 .. n /\ rank[next[p]] \in 1 .. n
    BY <2>1
  <2>3. rank[p] \in Int /\ rank[next[p]] \in Int
    BY <2>2, Ranks, Zenon
  <2>4. CASE next[p] = p
    BY <2>1, <2>3, <2>4
  <2>5. CASE next[p] # p
    <3>1. rank[next[p]] > rank[p]
      BY <2>5
    <3>2. QED
      BY <2>1, <2>3, <3>1
  <2>6. QED
    BY <2>4, <2>5
<1> DEFINE P == {at[j] : j \in 0 .. n}
<1>9. ASSUME NEW p \in P PROVE rank[p] <= rank[at[n]]
  <2>1. PICK j \in 0 .. n : p = at[j]
    OBVIOUS
  <2>2. j <= n
    OBVIOUS
  <2>3. p = at[n] \/ rank[at[n]] >= rank[next[p]]
    BY <1>4, <1>7, <2>1, <2>2
  <2>4. p \in 1 .. n /\ at[n] \in 1 .. n
    BY <1>2, <1>4, <2>1
  <2>5. /\ rank[p] \in Int /\ rank[next[p]] \in Int /\ rank[at[n]] \in Int
        /\ rank[next[p]] >= rank[p]
    BY <1>8, <2>4
  <2>6. CASE p = at[n]
    BY <2>5, <2>6, RanksRise, Zenon
  <2>7. CASE rank[at[n]] >= rank[next[p]]
    BY <2>5, <2>7, RanksBetween, Zenon
  <2>8. QED
    BY <2>3, <2>6, <2>7
<1>10. ASSUME NEW j \in 0 .. n, NEW k \in 0 .. n, j <= k, next[at[k]] # at[k],
              next[at[j]] = next[at[k]]
       PROVE  at[j] = at[k]
  <2>1. at[j] = at[k] \/ rank[at[k]] >= rank[next[at[k]]]
    BY <1>7, <1>10
  <2>2. at[k] \in 1 .. n
    BY <1>2
  <2>3. /\ rank[at[k]] \in Int /\ rank[next[at[k]]] \in Int
        /\ rank[next[at[k]]] > rank[at[k]]
    BY <1>8, <1>10, <2>2
  <2>4. QED
    BY <2>1, <2>3, RanksRise, Zenon
<1>11. ASSUME NEW p \in P, NEW q \in P,
              next[p] # p, next[q] # q, next[p] = next[q]
       PROVE  p = q
  <2>1. PICK j \in 0 .. n : p = at[j]
    OBVIOUS
  <2>2. PICK k \in 0 .. n : q = at[k]
    OBVIOUS
  <2>3. j <= k \/ k <= j
    OBVIOUS
  <2>4. QED
    BY <1>10, <1>11, <2>1, <2>2, <2>3
<1>12. P \subseteq 1 .. n /\ i \in P /\ at[n] \in P
  BY <1>1, <1>2, <1>4
<1>13. ASSUME NEW p \in P PROVE next[p] \in P /\ (next[p] = p => p = at[n])
  <2>1. PICK j \in 0 .. n : p = at[j]
    OBVIOUS
  <2>2. CASE j = n
    BY <1>5, <1>12, <2>1, <2>2
  <2>3. CASE j # n
    <3>1. j + 1 \in 1 .. n /\ j + 1 \in 0 .. n /\ (j + 1) - 1 = j
      BY <2>3
    <3>2. at[j + 1] = next[p]
      BY <1>1, <2>1, <3>1
    <3>3. next[p] \in P
      BY <3>1, <3>2
    <3>4. QED
      BY <1>6, <2>1, <3>3
  <2>4. QED
    BY <2>2, <2>3
<1>14. ASSUME NEW p \in P, p # i PROVE \E q \in P : q # p /\ next[q] = p
  <2> DEFINE S == {j \in 0 .. n : at[j] = p}
  <2>1. S \in SUBSET Nat /\ S # {}
    OBVIOUS
  <2>2. PICK m \in S : \A o \in S : m <= o
    <3> HIDE DEF S
    <3>1. QED
      BY <2>1, LeastExists
  <2>3. m \in 0 .. n /\ at[m] = p /\ m # 0
    <3>1. m \in 0 .. n /\ at[m] = p
      BY <2>2
    <3>2. at[0] # p
      BY <1>1, <1>14
    <3> HIDE DEF S
    <3>3. QED
      BY <3>1, <3>2
  <2>4. m - 1 \in 0 .. n /\ m \in 1 .. n /\ ~(m <= m - 1)
    <3> HIDE DEF S
    <3>1. QED
      BY <2>3, StepBefore
  <2>5. m - 1 \notin S
    <3> HIDE DEF S
    <3>1. QED
      BY <2>2, <2>4
  <2>6. at[m - 1] # p /\ at[m - 1] \in P
    BY <2>4, <2>5
  <2>7. next[at[m - 1]] = p
    BY <1>1, <2>3, <2>4
  <2>8. QED
    BY <2>6, <2>7
<1> HIDE DEF P
<1>15. Leads(P, n, next, i, at[n], rank)
  BY <1>5, <1>12, <1>13, <1>14, <1>9, <1>11 DEF Leads
<1>16. QED
  BY <1>15 DEF P

\* The hole moves to ever higher ranks, never again to where it starts.
Ranked(next, i, rank) ==
  LET n == Len(next) IN
  /\ n \in Nat
  /\ next \in [1 .. n -> 1 .. n] /\ i \in 1 .. n
  /\ rank \in [1 .. n -> 1 .. n]
  /\ \A p \in 1 .. n : next[p] # p => rank[next[p]] > rank[p] /\ next[p] # i

LEMMA PathLeads ==
  ASSUME NEW next, NEW i, NEW rank, Ranked(next, i, rank)
  PROVE  \E e : Leads(Path(next, i), Len(next), next, i, e, rank)
<1> DEFINE n == Len(next)
<1>1. /\ n \in Nat /\ next \in [1 .. n -> 1 .. n] /\ i \in 1 .. n
      /\ rank \in [1 .. n -> 1 .. n]
      /\ \A p \in 1 .. n : next[p] # p => rank[next[p]] > rank[p]
  BY DEF Ranked
<1>2. PICK at : Goes(at, n, n, next, i) /\ Path(next, i) = {at[j] : j \in 0 .. n}
  BY <1>1, PathIs
<1> HIDE DEF n
<1>3. Leads({at[j] : j \in 0 .. n}, n, next, i, at[n], rank)
  BY <1>1, <1>2, WayEnds
<1>4. QED
  BY <1>2, <1>3 DEF n

\* A permutation of the places 1 .. n.
Permutes(src, n) ==
  /\ src \in [1 .. n -> 1 .. n]
  /\ \A a, b \in 1 .. n : src[a] = src[b] => a = b
  /\ \A p \in 1 .. n : \E a \in 1 .. n : src[a] = p

\* The hole leaves all in the array that was not where it started.
LEMMA ShiftPermutes ==
  ASSUME NEW next, NEW i, NEW rank, Ranked(next, i, rank), NEW h, NEW e
  PROVE  \E src :
           /\ Permutes(src, Len(next))
           /\ \A j \in Path(next, i) : next[j] = j => src[j] = i
           /\ \A j \in 1 .. Len(next) :
                /\ j \notin Path(next, i) => src[j] = j
                /\ Shift(h, next, i, e)[j] = IF src[j] = i THEN e ELSE h[src[j]]
<1> DEFINE n == Len(next)
           P == Path(next, i)
<1>1. /\ n \in Nat /\ next \in [1 .. n -> 1 .. n] /\ i \in 1 .. n
      /\ \A p \in 1 .. n : next[p] # p => next[p] # i
  BY DEF Ranked
<1>2. PICK end : Leads(P, n, next, i, end, rank)
  BY PathLeads
<1> DEFINE src == [j \in 1 .. n |-> IF j \notin P THEN j
                                   ELSE IF next[j] = j THEN i ELSE next[j]]
<1>3. \A j \in 1 .. n : Shift(h, next, i, e)[j] =
        IF j \notin P THEN h[j] ELSE IF next[j] = j THEN e ELSE h[next[j]]
  BY DEF Shift
<1> HIDE DEF n, P
<1>4. \A j \in 1 .. n : /\ j \notin P => src[j] = j /\ src[j] # i
                        /\ j \in P /\ next[j] = j => src[j] = i
                        /\ j \in P /\ next[j] # j => src[j] = next[j] /\ src[j] # i
  BY <1>1, <1>2 DEF Leads
<1>5. src \in [1 .. n -> 1 .. n]
  BY <1>1
<1>6. \A p \in P : p \in 1 .. n /\ next[p] \in P /\ (next[p] = p => p = end)
  BY <1>2 DEF Leads
<1> HIDE DEF src
<1>7. ASSUME NEW a \in 1 .. n, NEW b \in 1 .. n, src[a] = src[b] PROVE a = b
  <2>1. CASE a \in P /\ b \in P
    <3>1. CASE next[a] = a
      BY <1>4, <1>6, <1>7, <2>1, <3>1
    <3>2. CASE next[a] # a
      <4>1. next[b] # b /\ next[a] = next[b]
        BY <1>4, <1>7, <2>1, <3>2
      <4>2. QED
        BY <1>2, <2>1, <3>2, <4>1 DEF Leads
    <3>3. QED
      BY <3>1, <3>2
  <2>2. CASE a \in P /\ b \notin P
    BY <1>4, <1>6, <1>7, <2>2
  <2>3. CASE a \notin P /\ b \in P
    BY <1>4, <1>6, <1>7, <2>3
  <2>4. CASE a \notin P /\ b \notin P
    BY <1>4, <1>7, <2>4
  <2>5. QED
    BY <2>1, <2>2, <2>3, <2>4
<1>8. ASSUME NEW p \in 1 .. n PROVE \E a \in 1 .. n : src[a] = p
  <2>1. CASE p \notin P
    BY <1>4, <2>1
  <2>2. CASE p = i
    <3>1. end \in P /\ end \in 1 .. n /\ next[end] = end
      BY <1>2 DEF Leads
    <3>2. QED
      BY <1>4, <2>2, <3>1
  <2>3. CASE p \in P /\ p # i
    <3>1. PICK q \in P : q # p /\ next[q] = p
      BY <1>2, <2>3 DEF Leads
    <3>2. QED
      BY <1>4, <1>6, <3>1
  <2>4. QED
    BY <2>1, <2>2, <2>3
<1>9. \A j \in 1 .. n :
        Shift(h, next, i, e)[j] = IF src[j] = i THEN e ELSE h[src[j]]
  BY <1>3, <1>4
<1>10. Permutes(src, n)
  BY <1>5, <1>7, <1>8 DEF Permutes
<1>11. \A j \in P : next[j] = j => src[j] = i
  BY <1>4, <1>6
<1>12. QED
  BY <1>4, <1>9, <1>10, <1>11 DEF n, P

----------------------------------------------------------------------------
(* What heap_push and heap_pop do to the array.                            *)

Entry == [d : Dist, id : Id \cup {-1}, who : Id]

\* r has what stands in h at the places S, in some order.
Rearranges(r, h, S) ==
  \E s \in [1 .. Len(r) -> S] :
    /\ \A a, b \in 1 .. Len(r) : s[a] = s[b] => a = b
    /\ \A p \in S : \E a \in 1 .. Len(r) : s[a] = p
    /\ \A a \in 1 .. Len(r) : r[a] = h[s[a]]

\* The father of a place.
LEMMA Halves ==
  ASSUME NEW i \in Nat, i > 1
  PROVE  /\ i \div 2 \in Nat /\ i \div 2 >= 1 /\ i \div 2 < i
         /\ i = 2 * (i \div 2) \/ i = 2 * (i \div 2) + 1
OBVIOUS

LEMMA UpRanked ==
  ASSUME NEW h \in Seq(Entry), NEW e \in Entry
  PROVE  /\ Len(Up(h, e)) = Len(h) + 1
         /\ Ranked(Up(h, e), Len(h) + 1, [p \in 1 .. Len(h) + 1 |-> Len(h) + 2 - p])
<1> DEFINE n == Len(h) + 1
           rank == [p \in 1 .. n |-> Len(h) + 2 - p]
<1>1. n \in Nat /\ n \in 1 .. n /\ Len(h) + 2 = n + 1
  OBVIOUS
<1>2. \A i \in 1 .. n : Up(h, e)[i] \in 1 .. n /\ (Up(h, e)[i] = i \/ Up(h, e)[i] < i)
  <2> SUFFICES ASSUME NEW i \in 1 .. n
               PROVE  Up(h, e)[i] \in 1 .. n /\ (Up(h, e)[i] = i \/ Up(h, e)[i] < i)
    OBVIOUS
  <2>1. Up(h, e)[i] = IF i > 1 /\ Cmp2(e, h[i \div 2]) THEN i \div 2 ELSE i
    BY DEF Up
  <2>2. i > 1 => i \div 2 \in 1 .. n /\ i \div 2 < i
    BY Halves
  <2>3. QED
    BY <2>1, <2>2
<1>3. Up(h, e) = [i \in 1 .. n |-> Up(h, e)[i]]
  BY DEF Up
<1>4. Up(h, e) \in [1 .. n -> 1 .. n]
  BY <1>2, <1>3
<1>5. Len(Up(h, e)) = n
  BY <1>1, <1>4
<1>6. \A p \in 1 .. n : rank[p] \in 1 .. n
  BY <1>1
<1>7. ASSUME NEW p \in 1 .. n, Up(h, e)[p] # p
      PROVE  rank[Up(h, e)[p]] > rank[p] /\ Up(h, e)[p] # n
  <2>1. Up(h, e)[p] \in 1 .. n /\ Up(h, e)[p] < p
    BY <1>2, <1>7
  <2>2. QED
    BY <1>1, <2>1
<1> HIDE DEF n, rank
<1>8. rank \in [1 .. n -> 1 .. n]
  BY <1>6 DEF rank
<1>9. Ranked(Up(h, e), n, rank)
  BY <1>1, <1>4, <1>5, <1>7, <1>8 DEF Ranked
<1>10. QED
  BY <1>5, <1>9 DEF n, rank

LEMMA DownRanked ==
  ASSUME NEW h \in Seq(Entry), h # <<>>
  PROVE  /\ Len(Down(h)) = Len(h)
         /\ Ranked(Down(h), 1, [p \in 1 .. Len(h) |-> p])
<1> DEFINE n == Len(h)
           rank == [p \in 1 .. n |-> p]
<1>1. n \in Nat /\ 1 \in 1 .. n
  OBVIOUS
<1>2. \A i \in 1 .. n : Down(h)[i] \in 1 .. n /\ (Down(h)[i] = i \/ Down(h)[i] > i)
  <2> SUFFICES ASSUME NEW i \in 1 .. n
               PROVE  Down(h)[i] \in 1 .. n /\ (Down(h)[i] = i \/ Down(h)[i] > i)
    OBVIOUS
  <2>1. Down(h)[i] = IF 2 * i > n \/ Cmp2(h[n], h[Child(h, i)])
                     THEN i ELSE Child(h, i)
    BY DEF Down
  <2>2. ~(2 * i > n) => Child(h, i) \in 1 .. n /\ Child(h, i) > i
    BY <1>1 DEF Child
  <2>3. QED
    BY <2>1, <2>2
<1>3. Down(h) = [i \in 1 .. n |-> Down(h)[i]]
  BY DEF Down
<1>4. Down(h) \in [1 .. n -> 1 .. n]
  BY <1>2, <1>3
<1>5. Len(Down(h)) = n
  BY <1>1, <1>4
<1>7. ASSUME NEW p \in 1 .. n, Down(h)[p] # p
      PROVE  rank[Down(h)[p]] > rank[p] /\ Down(h)[p] # 1
  <2>1. Down(h)[p] \in 1 .. n /\ Down(h)[p] > p
    BY <1>2, <1>7
  <2>2. QED
    BY <1>1, <2>1
<1> HIDE DEF n, rank
<1>8. rank \in [1 .. n -> 1 .. n]
  BY DEF rank
<1>9. Ranked(Down(h), 1, rank)
  BY <1>1, <1>4, <1>5, <1>7, <1>8 DEF Ranked
<1>10. QED
  BY <1>5, <1>9 DEF n, rank

\* heap_push adds e to what is in the heap.
LEMMA PushIs ==
  ASSUME NEW h \in Seq(Entry), NEW e \in Entry
  PROVE  /\ HeapPush(h, e) \in Seq(Entry)
         /\ Len(HeapPush(h, e)) = Len(h) + 1
         /\ Rearranges(HeapPush(h, e), Append(h, e), 1 .. Len(h) + 1)
<1> DEFINE n == Len(h) + 1
           a == Append(h, e)
           r == HeapPush(h, e)
<1>1. n \in Nat /\ n \in 1 .. n
  OBVIOUS
<1>2. a \in Seq(Entry) /\ Len(a) = n /\ a[n] = e /\ \A j \in 1 .. n : j # n => a[j] = h[j]
  OBVIOUS
<1>3. Len(Up(h, e)) = n /\ Ranked(Up(h, e), n, [p \in 1 .. n |-> Len(h) + 2 - p])
  BY UpRanked
<1>4. PICK src : /\ Permutes(src, n)
                 /\ \A j \in 1 .. n : Shift(h, Up(h, e), n, e)[j] =
                                        IF src[j] = n THEN e ELSE h[src[j]]
  <2> HIDE DEF n
  <2>1. QED
    BY <1>3, ShiftPermutes
<1>5. r = Shift(h, Up(h, e), n, e)
  BY DEF HeapPush
<1>6. r = [j \in 1 .. n |-> r[j]]
  BY <1>3, <1>5 DEF Shift
<1> HIDE DEF r
<1>7. \A j \in 1 .. n : src[j] \in 1 .. n /\ r[j] = a[src[j]]
  <2> HIDE DEF n, a
  <2>1. QED
    BY <1>2, <1>4, <1>5 DEF Permutes
<1> HIDE DEF n, a
<1>8. \A j \in 1 .. n : r[j] \in Entry
  BY <1>2, <1>7
<1>9. r \in [1 .. n -> Entry]
  BY <1>6, <1>8
<1>10. r \in Seq(Entry) /\ Len(r) = n
  BY <1>1, <1>9
<1>11. Rearranges(r, a, 1 .. n)
  <2>1. src \in [1 .. Len(r) -> 1 .. n]
    BY <1>4, <1>10 DEF Permutes
  <2>2. /\ \A j, l \in 1 .. Len(r) : src[j] = src[l] => j = l
        /\ \A p \in 1 .. n : \E j \in 1 .. Len(r) : src[j] = p
    BY <1>4, <1>10 DEF Permutes
  <2>3. \A j \in 1 .. Len(r) : r[j] = a[src[j]]
    BY <1>7, <1>10
  <2>4. QED
    BY <2>1, <2>2, <2>3, Zenon DEF Rearranges
<1>12. QED
  BY <1>10, <1>11 DEF n, a, r

\* heap_pop takes out the root.
LEMMA PopIs ==
  ASSUME NEW h \in Seq(Entry), h # <<>>
  PROVE  /\ HeapPop(h) \in Seq(Entry)
         /\ Len(HeapPop(h)) = Len(h) - 1
         /\ \A j \in 1 .. Len(h) - 1 :
              HeapPop(h)[j] = Shift(h, Down(h), 1, h[Len(h)])[j]
         /\ Rearranges(HeapPop(h), h, 2 .. Len(h))
<1> DEFINE n == Len(h)
           e == h[n]
           t == Shift(h, Down(h), 1, e)
           r == HeapPop(h)
<1>1. n \in Nat /\ n \in 1 .. n /\ 1 \in 1 .. n /\ n >= 1 /\ n - 1 \in Nat
  OBVIOUS
<1>2. e \in Entry /\ \A j \in 1 .. n : h[j] \in Entry
  BY <1>1
<1>3. Len(Down(h)) = n /\ Ranked(Down(h), 1, [p \in 1 .. n |-> p])
  BY DownRanked
<1>4. PICK src :
        /\ Permutes(src, n)
        /\ \A j \in Path(Down(h), 1) : Down(h)[j] = j => src[j] = 1
        /\ \A j \in 1 .. n : /\ j \notin Path(Down(h), 1) => src[j] = j
                             /\ t[j] = IF src[j] = 1 THEN e ELSE h[src[j]]
  <2> HIDE DEF n
  <2>1. \E src :
           /\ Permutes(src, Len(Down(h)))
           /\ \A j \in Path(Down(h), 1) : Down(h)[j] = j => src[j] = 1
           /\ \A j \in 1 .. Len(Down(h)) :
                /\ j \notin Path(Down(h), 1) => src[j] = j
                /\ Shift(h, Down(h), 1, e)[j] = IF src[j] = 1 THEN e ELSE h[src[j]]
    <3> DEFINE next == Down(h)
               rank == [p \in 1 .. n |-> p]
    <3>1. Ranked(next, 1, rank)
      BY <1>3
    <3> HIDE DEF e, next, rank
    <3>2. \E src :
             /\ Permutes(src, Len(next))
             /\ \A j \in Path(next, 1) : next[j] = j => src[j] = 1
             /\ \A j \in 1 .. Len(next) :
                  /\ j \notin Path(next, 1) => src[j] = j
                  /\ Shift(h, next, 1, e)[j] = IF src[j] = 1 THEN e ELSE h[src[j]]
      BY <3>1, ShiftPermutes
    <3>3. QED
      BY <3>2 DEF next
  <2>2. QED
    BY <1>3, <2>1
<1>5. Down(h)[n] = n
  BY <1>1 DEF Down
<1>6. src[n] = 1 \/ src[n] = n
  <2> HIDE DEF n
  <2>1. QED
    BY <1>1, <1>4, <1>5
<1>7. r = SubSeq(t, 1, n - 1) /\ t = [j \in 1 .. n |-> t[j]]
  BY <1>3 DEF HeapPop, Shift
<1> HIDE DEF t, r
<1>8. \A j \in 1 .. n : src[j] \in 1 .. n /\ t[j] \in Entry
  <2> HIDE DEF n, e
  <2>1. QED
    BY <1>2, <1>4 DEF Permutes
<1>9. t \in [1 .. n -> Entry]
  BY <1>7, <1>8
<1>10. t \in Seq(Entry) /\ Len(t) = n
  BY <1>1, <1>9
<1>11. r \in Seq(Entry) /\ Len(r) = n - 1 /\ \A j \in 1 .. n - 1 : r[j] = t[j]
  <2> HIDE DEF n
  <2>1. 1 \in Int /\ n - 1 \in Int /\ 1 \in 1 .. Len(t) + 1 /\ n - 1 \in 0 .. Len(t)
    BY <1>1, <1>10
  <2>2. QED
    BY <1>1, <1>7, <1>10, <2>1
<1> DEFINE s == [j \in 1 .. n - 1 |-> IF src[j] = 1 THEN n ELSE src[j]]
<1>12. ASSUME NEW j \in 1 .. n - 1 PROVE s[j] \in 2 .. n /\ r[j] = h[s[j]] /\ j \in 1 .. n /\ j # n
  <2>1. j \in 1 .. n /\ j # n
    BY <1>1
  <2>2. src[j] \in 1 .. n /\ r[j] = IF src[j] = 1 THEN h[n] ELSE h[src[j]]
    BY <1>4, <1>8, <1>11, <2>1
  <2>3. n # 1 /\ n \in 2 .. n /\ \A x \in 1 .. n : x # 1 => x \in 2 .. n
    <3> HIDE DEF n
    <3>1. QED
      BY <1>1
  <2>4. CASE src[j] = 1
    BY <2>1, <2>2, <2>3, <2>4
  <2>5. CASE src[j] # 1
    BY <2>1, <2>2, <2>3, <2>5
  <2>6. QED
    BY <2>4, <2>5
<1>13. /\ \A a, b \in 1 .. n : src[a] = src[b] => a = b
       /\ \A p \in 1 .. n : \E a \in 1 .. n : src[a] = p
  BY <1>4 DEF Permutes
<1>14. ASSUME NEW a \in 1 .. n - 1, NEW b \in 1 .. n - 1, s[a] = s[b] PROVE a = b
  <2>1. a \in 1 .. n /\ b \in 1 .. n /\ a # n /\ b # n
    BY <1>12
  <2>2. src[a] # src[n] /\ src[b] # src[n]
    BY <1>1, <1>13, <2>1
  <2>3. src[a] = src[b]
    BY <1>6, <1>14, <2>1, <2>2
  <2>4. QED
    BY <1>13, <2>1, <2>3
<1>15. ASSUME NEW p \in 2 .. n PROVE \E a \in 1 .. n - 1 : s[a] = p
  <2>1. p \in 1 .. n /\ p # 1
    OBVIOUS
  <2>2. \A a \in 1 .. n : a # n => a \in 1 .. n - 1
    OBVIOUS
  <2>3. CASE p # n \/ src[n] = 1
    <3>1. PICK a \in 1 .. n : src[a] = p
      BY <1>13, <2>1
    <3>2. a # n
      BY <1>6, <2>1, <2>3, <3>1
    <3>3. s[a] = p
      BY <2>1, <2>2, <3>1, <3>2
    <3>4. QED
      BY <2>2, <3>2, <3>3
  <2>4. CASE p = n /\ src[n] # 1
    <3>1. PICK a \in 1 .. n : src[a] = 1
      BY <1>1, <1>13
    <3>2. a # n
      BY <2>4, <3>1
    <3>3. s[a] = p
      BY <2>2, <2>4, <3>1, <3>2
    <3>4. QED
      BY <2>2, <3>2, <3>3
  <2>5. QED
    BY <2>3, <2>4
<1> HIDE DEF n, s
<1>16. s \in [1 .. Len(r) -> 2 .. n]
  BY <1>11, <1>12 DEF s
<1>17. Rearranges(r, h, 2 .. n)
  <2>1. /\ \A j, l \in 1 .. Len(r) : s[j] = s[l] => j = l
        /\ \A p \in 2 .. n : \E j \in 1 .. Len(r) : s[j] = p
    BY <1>11, <1>14, <1>15
  <2>2. \A j \in 1 .. Len(r) : r[j] = h[s[j]]
    BY <1>11, <1>12
  <2>3. QED
    BY <1>16, <2>1, <2>2, Zenon DEF Rearranges
<1>18. QED
  BY <1>11, <1>17 DEF n, r, t

----------------------------------------------------------------------------
(* The order of the heap.                                                  *)

\* No father is nearer than its children: the order of cmp2, without that
\* among equal distances, which pop_min breaks.
HeapOrder(h) == \A i \in 2 .. Len(h) : h[i].d <= h[i \div 2].d

LEMMA EntryDist ==
  ASSUME NEW x \in Entry
  PROVE  x.d \in Nat /\ x.id \in Int /\ x.who \in Nat
<1>1. x.d \in Dist /\ x.id \in Id \cup {-1} /\ x.who \in Id
  BY DEF Entry
<1>2. Dist \subseteq Nat /\ Id \subseteq Nat
  BY IdAssumption
<1>3. x.d \in Nat /\ x.who \in Nat
  BY <1>1, <1>2
<1>4. x.id \in Nat \/ x.id = -1
  BY <1>1, <1>2
<1>5. QED
  BY <1>3, <1>4

\* The order of distances, for terms that are fields of entries.
LEMMA DistOrder ==
  /\ \A x \in Nat : x <= x
  /\ \A x, y, z \in Nat : x <= y /\ y <= z => x <= z
OBVIOUS

LEMMA Cmp2Order ==
  ASSUME NEW a \in Entry, NEW b \in Entry
  PROVE  /\ Cmp2(a, b) => b.d <= a.d
         /\ ~Cmp2(a, b) => a.d <= b.d
BY EntryDist DEF Cmp2

LEMMA PushOrder ==
  ASSUME NEW h \in Seq(Entry), NEW e \in Entry, HeapOrder(h)
  PROVE  HeapOrder(HeapPush(h, e))
<1> DEFINE n == Len(h) + 1
           next == Up(h, e)
           P == Path(next, n)
           r == HeapPush(h, e)
           rank == [p \in 1 .. n |-> Len(h) + 2 - p]
<1>1. n \in Nat /\ n \in 1 .. n /\ \A i \in 1 .. n : i # n => i \in 1 .. Len(h)
  OBVIOUS
<1>2. Len(next) = n /\ Ranked(next, n, rank)
  BY UpRanked
<1>3. PICK end : Leads(P, n, next, n, end, rank)
  <2> HIDE DEF n, next, rank
  <2>1. QED
    BY <1>2, PathLeads
<1>4. r = [j \in 1 .. n |-> IF j \notin P THEN h[j]
                           ELSE IF next[j] = j THEN e ELSE h[next[j]]]
  BY <1>2 DEF HeapPush, Shift
<1>5. \A j \in 1 .. n :
        next[j] = IF j > 1 /\ Cmp2(e, h[j \div 2]) THEN j \div 2 ELSE j
  BY DEF Up
<1>6. \A p \in P : end <= p
  <2> SUFFICES ASSUME NEW p \in P PROVE end <= p
    OBVIOUS
  <2>1. p \in 1 .. n /\ end \in 1 .. n /\ rank[p] <= rank[end]
    BY <1>3 DEF Leads
  <2>2. Len(h) + 2 - p <= Len(h) + 2 - end
    BY <2>1
  <2>3. QED
    BY <2>1, <2>2
<1>7. Len(r) = n
  BY PushIs
<1>8. /\ \A j \in 1 .. Len(h) : h[j] \in Entry
      /\ P \subseteq 1 .. n
      /\ \A p \in P : next[p] \in P /\ (next[p] = p => p = end)
      /\ \A p \in P : p # n => \E q \in P : q # p /\ next[q] = p
  BY <1>3 DEF Leads
<1> HIDE DEF next, P, r, rank
<1>9. ASSUME NEW i \in 1 .. n, next[i] # i
      PROVE  /\ next[i] = i \div 2 /\ i > 1 /\ i \div 2 \in 1 .. Len(h)
             /\ h[i \div 2].d <= e.d
  <2>1. i > 1 /\ next[i] = i \div 2 /\ Cmp2(e, h[i \div 2])
    BY <1>5, <1>9
  <2>2. i \div 2 \in 1 .. Len(h)
    BY <2>1, Halves
  <2>3. QED
    BY <1>8, <2>1, <2>2, Cmp2Order
<1>10. ASSUME NEW p \in P, p # n
       PROVE  p \in 1 .. Len(h) /\ h[p].d <= e.d /\ h[p].d <= r[p].d
  <2>1. PICK q \in P : q # p /\ next[q] = p
    BY <1>8, <1>10
  <2>2. q \in 1 .. n /\ next[q] # q /\ p \in 1 .. n
    BY <1>8, <2>1
  <2>3. p \in 1 .. Len(h) /\ h[p].d <= e.d
    BY <1>9, <2>1, <2>2
  <2>4. CASE next[p] = p
    BY <1>4, <2>2, <2>3, <2>4
  <2>5. CASE next[p] # p
    <3>1. r[p] = h[p \div 2] /\ p > 1
      BY <1>4, <1>9, <2>2, <2>5
    <3>2. p \in 2 .. Len(h)
      BY <2>3, <3>1
    <3>3. h[p].d <= h[p \div 2].d
      BY <3>2 DEF HeapOrder
    <3>4. QED
      BY <2>3, <3>1, <3>3
  <2>6. QED
    BY <2>4, <2>5
<1>11. \A j \in 1 .. n : r[j].d \in Nat
  <2> SUFFICES ASSUME NEW j \in 1 .. n PROVE r[j].d \in Nat
    OBVIOUS
  <2>1. j \notin P => j \in 1 .. Len(h) /\ r[j] = h[j]
    BY <1>1, <1>3, <1>4 DEF Leads
  <2>2. j \in P /\ next[j] # j => next[j] \in 1 .. Len(h) /\ r[j] = h[next[j]]
    BY <1>4, <1>9
  <2>3. j \in P /\ next[j] = j => r[j] = e
    BY <1>4
  <2>4. r[j] \in Entry
    BY <1>8, <2>1, <2>2, <2>3
  <2>5. QED
    BY <2>4, EntryDist
<1>12. e.d \in Nat /\ \A j \in 1 .. Len(h) : h[j].d \in Nat
  BY <1>8, EntryDist
<1>13. ASSUME NEW i \in 2 .. n PROVE r[i].d <= r[i \div 2].d
  <2> DEFINE p == i \div 2
  <2>1. i \in 1 .. n /\ i > 1 /\ p \in 1 .. Len(h) /\ p \in 1 .. n /\ p # n /\ p < i
    BY Halves
  <2>2. h[p].d \in Nat /\ r[p].d \in Nat /\ r[i].d \in Nat
    BY <1>11, <1>12, <2>1
  <2> HIDE DEF p
  <2>3. h[p].d <= r[p].d
    <3>1. CASE p \in P
      BY <1>10, <2>1, <3>1
    <3>2. CASE p \notin P
      <4>1. r[p] = h[p]
        BY <1>4, <2>1, <3>2
      <4>2. QED
        BY <2>2, <4>1, DistOrder, Zenon
    <3>3. QED
      BY <3>1, <3>2
  <2>4. CASE i \notin P
    <3>1. i \in 2 .. Len(h) /\ r[i] = h[i]
      BY <1>1, <1>3, <1>4, <2>1, <2>4 DEF Leads
    <3>2. h[i].d <= h[p].d
      BY <3>1 DEF HeapOrder, p
    <3>3. r[i].d <= r[p].d
      BY <2>2, <2>3, <3>1, <3>2, DistOrder, Zenon
    <3>4. QED
      BY <3>3 DEF p
  <2>5. CASE i \in P /\ next[i] = i
    <3>1. r[i] = e
      BY <1>4, <2>1, <2>5
    <3>2. p \notin P
      <4>1. i = end
        BY <1>8, <2>5
      <4>2. end \in 1 .. n
        BY <2>1, <4>1
      <4>3. QED
        BY <1>6, <2>1, <4>1, <4>2
    <3>3. r[p] = h[p]
      BY <1>4, <2>1, <3>2
    <3>4. ~Cmp2(e, h[p])
      BY <1>5, <2>1, <2>5 DEF p
    <3>5. e.d <= h[p].d
      BY <1>8, <2>1, <3>4, Cmp2Order
    <3>6. QED
      BY <3>1, <3>3, <3>5 DEF p
  <2>6. CASE i \in P /\ next[i] # i
    <3>1. r[i] = h[p]
      BY <1>4, <1>9, <2>1, <2>6 DEF p
    <3>2. QED
      BY <2>3, <3>1 DEF p
  <2>7. QED
    BY <2>4, <2>5, <2>6
<1>14. QED
  BY <1>7, <1>13 DEF HeapOrder, r

\* The children of a place, and which of them is the greater.
LEMMA ChildIs ==
  ASSUME NEW h \in Seq(Entry), NEW i \in 1 .. Len(h), 2 * i <= Len(h)
  PROVE  /\ Child(h, i) \in 2 .. Len(h) /\ Child(h, i) > i
         /\ \A c \in 2 .. Len(h) : c \div 2 = i => h[c].d <= h[Child(h, i)].d
<1> DEFINE n == Len(h)
<1>1. /\ n \in Nat /\ 2 * i \in 2 .. n /\ 2 * i > i
      /\ 2 * i # n => 2 * i + 1 \in 2 .. n /\ 2 * i + 1 > i
  OBVIOUS
<1>2. \A c \in 2 .. n : h[c] \in Entry /\ h[c].d \in Nat
  BY EntryDist
<1>3. Child(h, i) = IF 2 * i = n \/ Cmp2(h[2 * i], h[2 * i + 1])
                    THEN 2 * i ELSE 2 * i + 1
  BY DEF Child
<1> HIDE DEF n
<1>4. Child(h, i) \in 2 .. n /\ Child(h, i) > i
  BY <1>1, <1>3
<1>5. ASSUME NEW c \in 2 .. n, c \div 2 = i PROVE h[c].d <= h[Child(h, i)].d
  <2>1. c = 2 * i \/ (c = 2 * i + 1 /\ 2 * i # n)
    BY <1>1, <1>5, Halves
  <2>2. CASE c = Child(h, i)
    BY <1>2, <2>2, DistOrder, Zenon
  <2>3. CASE c # Child(h, i) /\ c = 2 * i
    <3>1. ~Cmp2(h[2 * i], h[2 * i + 1]) /\ Child(h, i) = 2 * i + 1 /\ 2 * i # n
      BY <1>3, <2>3
    <3>2. QED
      BY <1>1, <1>2, <2>3, <3>1, Cmp2Order
  <2>4. CASE c # Child(h, i) /\ c = 2 * i + 1 /\ 2 * i # n
    <3>1. Cmp2(h[2 * i], h[2 * i + 1]) /\ Child(h, i) = 2 * i
      BY <1>3, <2>4
    <3>2. QED
      BY <1>1, <1>2, <2>4, <3>1, Cmp2Order
  <2>5. QED
    BY <2>1, <2>2, <2>3, <2>4
<1>6. QED
  BY <1>4, <1>5 DEF n

LEMMA PopOrder ==
  ASSUME NEW h \in Seq(Entry), h # <<>>, HeapOrder(h)
  PROVE  HeapOrder(HeapPop(h))
<1> DEFINE n == Len(h)
           e == h[n]
           next == Down(h)
           P == Path(next, 1)
           r == HeapPop(h)
           rank == [p \in 1 .. n |-> p]
<1>1. n \in Nat /\ n >= 1 /\ n \in 1 .. n /\ n - 1 \in Nat /\ e \in Entry
  OBVIOUS
<1>2. Len(next) = n /\ Ranked(next, 1, rank)
  BY DownRanked
<1>3. PICK end : Leads(P, n, next, 1, end, rank)
  <2> HIDE DEF n, next, rank
  <2>1. QED
    BY <1>2, PathLeads
<1>4. /\ Len(r) = n - 1
      /\ \A j \in 1 .. n - 1 : r[j] = Shift(h, next, 1, e)[j]
  BY PopIs
<1>5. \A j \in 1 .. n - 1 : /\ j \in 1 .. n
                            /\ r[j] = IF j \notin P THEN h[j]
                                      ELSE IF next[j] = j THEN e ELSE h[next[j]]
  <2>1. \A j \in 1 .. n - 1 : j \in 1 .. n
    BY <1>1
  <2>2. \A j \in 1 .. n : Shift(h, next, 1, e)[j] =
          IF j \notin P THEN h[j] ELSE IF next[j] = j THEN e ELSE h[next[j]]
    <3> HIDE DEF n, e, next
    <3>1. QED
      BY <1>2 DEF Shift
  <2> HIDE DEF n, e, next, P, r
  <2>3. QED
    BY <1>4, <2>1, <2>2
<1>6. \A j \in 1 .. n :
        next[j] = IF 2 * j > n \/ Cmp2(e, h[Child(h, j)]) THEN j ELSE Child(h, j)
  BY DEF Down
<1>7. /\ \A j \in 1 .. n : h[j] \in Entry
      /\ P \subseteq 1 .. n
      /\ \A p \in P : next[p] \in P
      /\ \A p \in P : p # 1 => \E q \in P : q # p /\ next[q] = p
  BY <1>3 DEF Leads
<1>8. \A j \in 1 .. n : 2 * j <= n =>
        /\ Child(h, j) \in 2 .. n /\ Child(h, j) > j
        /\ \A c \in 2 .. n : c \div 2 = j => h[c].d <= h[Child(h, j)].d
  BY ChildIs
<1>9. \A c \in 2 .. n : h[c].d <= h[c \div 2].d
  BY DEF HeapOrder
<1> HIDE DEF n, e, next, P, r, rank
<1>10. ASSUME NEW j \in 1 .. n, next[j] # j
       PROVE  /\ next[j] = Child(h, j) /\ 2 * j <= n /\ h[next[j]] \in Entry
              /\ e.d <= h[next[j]].d
  <2>1. ~(2 * j > n) /\ next[j] = Child(h, j) /\ ~Cmp2(e, h[next[j]])
    BY <1>6, <1>10
  <2>2. 2 * j <= n
    BY <1>1, <2>1
  <2>3. next[j] \in 1 .. n
    BY <1>8, <2>1, <2>2
  <2>4. QED
    BY <1>1, <1>7, <2>1, <2>2, <2>3, Cmp2Order
<1>11. \A j \in 1 .. n - 1 : r[j] \in Entry
  BY <1>1, <1>5, <1>7, <1>10
<1>12. e.d \in Nat /\ \A j \in 1 .. n : h[j].d \in Nat
  BY <1>1, <1>7, EntryDist
<1>13. ASSUME NEW i \in 2 .. n - 1 PROVE r[i].d <= r[i \div 2].d
  <2> DEFINE p == i \div 2
  <2>1. /\ i \in 2 .. n /\ i \in 1 .. n - 1 /\ i \in 1 .. n /\ i > 1
        /\ p \in 1 .. n - 1 /\ p \in 1 .. n /\ 2 * p <= n
    BY <1>1, Halves
  <2>2. p = i \div 2
    OBVIOUS
  <2> HIDE DEF p
  <2>3. /\ h[p].d \in Nat /\ r[p].d \in Nat /\ r[i].d \in Nat /\ h[i].d \in Nat
        /\ h[Child(h, p)].d \in Nat
    BY <1>8, <1>11, <1>12, <2>1, EntryDist
  <2>4. h[i].d <= h[p].d /\ h[i].d <= h[Child(h, p)].d
    BY <1>8, <1>9, <2>1, <2>2
  <2>5. CASE i \notin P
    <3>1. r[i] = h[i]
      BY <1>5, <2>1, <2>5
    <3>2. CASE p \notin P
      BY <1>5, <2>1, <2>2, <2>4, <3>1, <3>2
    <3>3. CASE p \in P /\ next[p] # p
      BY <1>5, <1>10, <2>1, <2>2, <2>4, <3>1, <3>3
    <3>4. CASE p \in P /\ next[p] = p
      <4>1. r[p] = e
        BY <1>5, <2>1, <3>4
      <4>2. Child(h, p) # p /\ ~(2 * p > n)
        BY <1>1, <1>8, <2>1
      <4>3. Cmp2(e, h[Child(h, p)])
        BY <1>6, <2>1, <3>4, <4>2
      <4>4. h[Child(h, p)].d <= e.d
        <5>1. Child(h, p) \in 1 .. n
          BY <1>8, <2>1
        <5>2. QED
          BY <1>1, <1>7, <4>3, <5>1, Cmp2Order
      <4>5. h[i].d <= e.d
        BY <1>12, <2>3, <2>4, <4>4, DistOrder, Zenon
      <4>6. QED
        BY <2>2, <3>1, <4>1, <4>5
    <3>5. QED
      BY <3>2, <3>3, <3>4
  <2>6. CASE i \in P
    <3>1. PICK q \in P : q # i /\ next[q] = i
      BY <1>7, <2>1, <2>6
    <3>2. q \in 1 .. n /\ next[q] # q
      BY <1>7, <3>1
    <3>3. i = Child(h, q) /\ 2 * q <= n /\ e.d <= h[i].d
      BY <1>10, <3>1, <3>2
    <3>4. i = 2 * q \/ i = 2 * q + 1
      BY <3>3 DEF Child
    <3>5. q = p
      BY <2>2, <3>2, <3>4
    <3>6. r[p] = h[i]
      BY <1>5, <2>1, <3>1, <3>5
    <3>7. r[i].d <= h[i].d
      <4>1. CASE next[i] = i
        BY <1>5, <2>1, <2>6, <3>3, <4>1
      <4>2. CASE next[i] # i
        <5>1. next[i] = Child(h, i) /\ 2 * i <= n
          BY <1>10, <2>1, <4>2
        <5>2. Child(h, i) \div 2 = i
          <6>1. Child(h, i) = 2 * i \/ Child(h, i) = 2 * i + 1
            BY DEF Child
          <6>2. QED
            BY <2>1, <6>1
        <5>3. Child(h, i) \in 2 .. n
          BY <1>8, <2>1, <5>1
        <5>4. h[next[i]].d <= h[i].d
          BY <1>9, <5>1, <5>2, <5>3
        <5>5. QED
          BY <1>5, <2>1, <2>6, <4>2, <5>4
      <4>3. QED
        BY <4>1, <4>2
    <3>8. QED
      BY <2>2, <3>6, <3>7
  <2>7. QED
    BY <2>5, <2>6
<1>14. QED
  BY <1>4, <1>13 DEF HeapOrder, r

\* The root is a farthest one.
LEMMA RootFarthest ==
  ASSUME NEW h \in Seq(Entry), HeapOrder(h)
  PROVE  \A j \in 1 .. Len(h) : h[j].d <= h[1].d
<1> DEFINE Bad == {j \in 1 .. Len(h) : ~(h[j].d <= h[1].d)}
<1> SUFFICES ASSUME Bad # {} PROVE FALSE
  OBVIOUS
<1>1. PICK m \in Bad : \A o \in Bad : m <= o
  <2>1. Bad \in SUBSET Nat
    OBVIOUS
  <2> HIDE DEF Bad
  <2>2. QED
    BY <2>1, LeastExists
<1>2. m \in 1 .. Len(h) /\ ~(h[m].d <= h[1].d)
  BY <1>1
<1>3. \A j \in 1 .. Len(h) : h[j].d \in Nat
  BY EntryDist
<1>4. 1 \in 1 .. Len(h)
  BY <1>2
<1>5. m # 1
  BY <1>2, <1>3, <1>4, DistOrder, Zenon
<1>6. m \in 2 .. Len(h) /\ m \div 2 \in 1 .. Len(h) /\ m \div 2 < m
  BY <1>2, <1>5, Halves
<1>7. m \div 2 \notin Bad
  <2> HIDE DEF Bad
  <2>1. QED
    BY <1>1, <1>6
<1>8. h[m \div 2].d <= h[1].d
  BY <1>6, <1>7
<1>9. h[m].d <= h[m \div 2].d
  BY <1>6 DEF HeapOrder
<1>10. h[m].d \in Nat /\ h[1].d \in Nat /\ h[m \div 2].d \in Nat
  BY <1>2, <1>3, <1>4, <1>6
<1>11. h[m].d <= h[1].d
  BY <1>8, <1>9, <1>10
<1>12. QED
  BY <1>2, <1>11

----------------------------------------------------------------------------
(* The pool that the heap stands for.                                      *)

\* Every id has a place of its own.
OnePlace(h) == \A a, b \in 1 .. Len(h) : h[a].who = h[b].who => a = b

LEMMA InPoolIs ==
  ASSUME NEW x
  PROVE  InPool(x).id = x.who /\ InPool(x).d = x.d /\ InPool(x).live = (x.id # -1)
BY DEF InPool

LEMMA RearrangesPool ==
  ASSUME NEW r, NEW a, NEW S, Rearranges(r, a, S)
  PROVE  /\ PoolOf(r) = {InPool(a[p]) : p \in S}
         /\ (\A p, q \in S : a[p].who = a[q].who => p = q) => OnePlace(r)
         /\ \A j \in 1 .. Len(r) : \E p \in S : r[j] = a[p]
<1>1. PICK s \in [1 .. Len(r) -> S] :
        /\ \A j, l \in 1 .. Len(r) : s[j] = s[l] => j = l
        /\ \A p \in S : \E j \in 1 .. Len(r) : s[j] = p
        /\ \A j \in 1 .. Len(r) : r[j] = a[s[j]]
  BY DEF Rearranges
<1>2. \A j \in 1 .. Len(r) : s[j] \in S /\ r[j] = a[s[j]]
  BY <1>1
<1>3. ASSUME NEW x \in PoolOf(r) PROVE x \in {InPool(a[p]) : p \in S}
  <2>1. PICK j \in 1 .. Len(r) : x = InPool(r[j])
    BY DEF PoolOf
  <2>2. s[j] \in S /\ x = InPool(a[s[j]])
    BY <1>2, <2>1
  <2>3. QED
    BY <2>2
<1>4. ASSUME NEW x \in {InPool(a[p]) : p \in S} PROVE x \in PoolOf(r)
  <2>1. PICK p \in S : x = InPool(a[p])
    OBVIOUS
  <2>2. PICK j \in 1 .. Len(r) : s[j] = p
    BY <1>1
  <2>3. x = InPool(r[j])
    BY <1>2, <2>1, <2>2
  <2>4. QED
    BY <2>3 DEF PoolOf
<1>5. ASSUME \A p, q \in S : a[p].who = a[q].who => p = q,
             NEW j \in 1 .. Len(r), NEW l \in 1 .. Len(r), r[j].who = r[l].who
      PROVE  j = l
  <2>1. s[j] = s[l]
    BY <1>2, <1>5
  <2>2. QED
    BY <1>1, <2>1
<1>6. QED
  BY <1>2, <1>3, <1>4, <1>5 DEF OnePlace

\* After heap_push the pool has e too.
LEMMA PoolPush ==
  ASSUME NEW h \in Seq(Entry), NEW e \in Entry,
         OnePlace(h), \A j \in 1 .. Len(h) : h[j].who # e.who
  PROVE  /\ PoolOf(HeapPush(h, e)) = PoolOf(h) \cup {InPool(e)}
         /\ OnePlace(HeapPush(h, e))
         /\ \A j \in 1 .. Len(HeapPush(h, e)) :
              \/ HeapPush(h, e)[j] = e
              \/ \E p \in 1 .. Len(h) : HeapPush(h, e)[j] = h[p]
<1> DEFINE r == HeapPush(h, e)
           a == Append(h, e)
           n == Len(h) + 1
<1>1. Rearranges(r, a, 1 .. n)
  BY PushIs
<1>2. /\ n \in 1 .. n /\ a[n] = e
      /\ \A p \in 1 .. n : p = n \/ (p \in 1 .. Len(h) /\ a[p] = h[p])
      /\ \A p \in 1 .. Len(h) : p \in 1 .. n /\ a[p] = h[p] /\ p # n
  OBVIOUS
<1> HIDE DEF r, a, n
<1>3. /\ PoolOf(r) = {InPool(a[p]) : p \in 1 .. n}
      /\ (\A p, q \in 1 .. n : a[p].who = a[q].who => p = q) => OnePlace(r)
      /\ \A j \in 1 .. Len(r) : \E p \in 1 .. n : r[j] = a[p]
  <2> DEFINE S == 1 .. n
  <2>1. Rearranges(r, a, S)
    BY <1>1
  <2> HIDE DEF S
  <2>2. /\ PoolOf(r) = {InPool(a[p]) : p \in S}
        /\ (\A p, q \in S : a[p].who = a[q].who => p = q) => OnePlace(r)
        /\ \A j \in 1 .. Len(r) : \E p \in S : r[j] = a[p]
    BY <2>1, RearrangesPool
  <2>3. QED
    BY <2>2 DEF S
<1>4. {InPool(a[p]) : p \in 1 .. n} = PoolOf(h) \cup {InPool(e)}
  <2>1. ASSUME NEW x \in {InPool(a[p]) : p \in 1 .. n}
        PROVE  x \in PoolOf(h) \cup {InPool(e)}
    <3>1. PICK p \in 1 .. n : x = InPool(a[p])
      OBVIOUS
    <3>2. CASE p = n
      BY <1>2, <3>1, <3>2
    <3>3. CASE p # n
      BY <1>2, <3>1, <3>3 DEF PoolOf
    <3>4. QED
      BY <3>2, <3>3
  <2>2. ASSUME NEW x \in PoolOf(h) PROVE x \in {InPool(a[p]) : p \in 1 .. n}
    <3>1. PICK p \in 1 .. Len(h) : x = InPool(h[p])
      BY DEF PoolOf
    <3>2. p \in 1 .. n /\ x = InPool(a[p])
      BY <1>2, <3>1
    <3>3. QED
      BY <3>2
  <2>3. InPool(e) \in {InPool(a[p]) : p \in 1 .. n}
    BY <1>2
  <2>4. QED
    BY <2>1, <2>2, <2>3
<1>5. \A p, q \in 1 .. n : a[p].who = a[q].who => p = q
  BY <1>2 DEF OnePlace
<1>6. ASSUME NEW j \in 1 .. Len(r)
      PROVE  r[j] = e \/ \E p \in 1 .. Len(h) : r[j] = h[p]
  BY <1>2, <1>3
<1>7. QED
  BY <1>3, <1>4, <1>5, <1>6 DEF r

\* After heap_pop it has lost the root.
LEMMA PoolPop ==
  ASSUME NEW h \in Seq(Entry), h # <<>>, OnePlace(h)
  PROVE  /\ PoolOf(HeapPop(h)) = PoolOf(h) \ {InPool(h[1])}
         /\ OnePlace(HeapPop(h))
         /\ \A j \in 1 .. Len(HeapPop(h)) : \E p \in 2 .. Len(h) : HeapPop(h)[j] = h[p]
<1> DEFINE r == HeapPop(h)
           n == Len(h)
<1>1. Rearranges(r, h, 2 .. n)
  BY PopIs
<1>2. /\ 1 \in 1 .. n
      /\ \A p \in 2 .. n : p \in 1 .. n /\ p # 1
      /\ \A p \in 1 .. n : p = 1 \/ p \in 2 .. n
  OBVIOUS
<1>3. \A p, q \in 1 .. n : h[p].who = h[q].who => p = q
  BY DEF OnePlace
<1> HIDE DEF r, n
<1>4. /\ PoolOf(r) = {InPool(h[p]) : p \in 2 .. n}
      /\ (\A p, q \in 2 .. n : h[p].who = h[q].who => p = q) => OnePlace(r)
      /\ \A j \in 1 .. Len(r) : \E p \in 2 .. n : r[j] = h[p]
  <2> DEFINE S == 2 .. n
  <2>1. Rearranges(r, h, S)
    BY <1>1
  <2> HIDE DEF S
  <2>2. /\ PoolOf(r) = {InPool(h[p]) : p \in S}
        /\ (\A p, q \in S : h[p].who = h[q].who => p = q) => OnePlace(r)
        /\ \A j \in 1 .. Len(r) : \E p \in S : r[j] = h[p]
    BY <2>1, RearrangesPool
  <2>3. QED
    BY <2>2 DEF S
<1>5. PoolOf(h) = {InPool(h[p]) : p \in 1 .. n}
  BY DEF PoolOf, n
<1>6. ASSUME NEW p \in 2 .. n PROVE InPool(h[p]) # InPool(h[1])
  <2>1. h[p].who # h[1].who
    BY <1>2, <1>3
  <2>2. QED
    BY <2>1, InPoolIs
<1>7. PoolOf(r) = PoolOf(h) \ {InPool(h[1])}
  <2>1. ASSUME NEW x \in PoolOf(r) PROVE x \in PoolOf(h) \ {InPool(h[1])}
    BY <1>2, <1>4, <1>5, <1>6
  <2>2. ASSUME NEW x \in PoolOf(h) \ {InPool(h[1])} PROVE x \in PoolOf(r)
    BY <1>2, <1>4, <1>5
  <2>3. QED
    BY <2>1, <2>2
<1>8. OnePlace(r)
  BY <1>2, <1>3, <1>4
<1>9. QED
  BY <1>4, <1>7, <1>8 DEF r, n

\* What pop_min makes of the array h when it returns place i.
Killed(r, h, i) == r = [h EXCEPT ![i].id = -1]

\* pop_min takes a live one out of the living.
LEMMA PoolKill ==
  ASSUME NEW h \in Seq(Entry), OnePlace(h), NEW i \in 1 .. Len(h), h[i].id # -1,
         NEW r, Killed(r, h, i)
  PROVE  /\ r \in Seq(Entry) /\ Len(r) = Len(h)
         /\ \A j \in 1 .. Len(h) : r[j].who = h[j].who /\ r[j].d = h[j].d
         /\ PoolOf(r) = Pool!Popped(PoolOf(h), InPool(h[i]))
         /\ Pool!Live(PoolOf(r)) = Pool!Live(PoolOf(h)) \ {InPool(h[i])}
<1> DEFINE n == Len(h)
           x == InPool(h[i])
           y == [id |-> x.id, d |-> x.d, live |-> FALSE]
<1>1. n \in Nat /\ h \in [1 .. n -> Entry]
  OBVIOUS
<1>2. \A j \in 1 .. n : h[j] \in Entry
  BY <1>1
<1>3. \A j \in 1 .. n : r[j] = IF j = i THEN [h[i] EXCEPT !.id = -1] ELSE h[j]
  BY <1>1 DEF Killed
<1>4. [h[i] EXCEPT !.id = -1] \in Entry
  BY <1>2 DEF Entry
<1>5. r \in [1 .. n -> Entry]
  <2>1. r = [j \in 1 .. n |-> r[j]]
    BY <1>1 DEF Killed
  <2>2. \A j \in 1 .. n : r[j] \in Entry
    BY <1>2, <1>3, <1>4
  <2> HIDE DEF n
  <2>3. QED
    BY <2>1, <2>2
<1>6. r \in Seq(Entry) /\ Len(r) = n
  <2> HIDE DEF n
  <2>1. QED
    BY <1>1, <1>5
<1>7. \A j \in 1 .. n : r[j].who = h[j].who /\ r[j].d = h[j].d
  BY <1>2, <1>3 DEF Entry
<1>8. x = [id |-> h[i].who, d |-> h[i].d, live |-> TRUE]
  BY DEF InPool
<1>9. InPool(r[i]) = y
  <2>1. r[i].who = h[i].who /\ r[i].d = h[i].d /\ r[i].id = -1
    BY <1>2, <1>3 DEF Entry
  <2>2. y = [id |-> h[i].who, d |-> h[i].d, live |-> FALSE]
    BY InPoolIs
  <2> HIDE DEF y
  <2>3. QED
    BY <2>1, <2>2 DEF InPool
<1>10. ~y.live /\ x.live
  BY <1>8
<1>11. \A j \in 1 .. n : j # i => InPool(r[j]) = InPool(h[j]) /\ InPool(h[j]) # x
  <2> SUFFICES ASSUME NEW j \in 1 .. n, j # i
               PROVE  InPool(r[j]) = InPool(h[j]) /\ InPool(h[j]) # x
    OBVIOUS
  <2>1. r[j] = h[j] /\ h[j].who # h[i].who
    BY <1>3 DEF OnePlace
  <2>2. QED
    BY <2>1, InPoolIs
<1>12. PoolOf(h) = {InPool(h[j]) : j \in 1 .. n}
  BY DEF PoolOf
<1>13. PoolOf(r) = {InPool(r[j]) : j \in 1 .. n}
  BY <1>6 DEF PoolOf
<1> HIDE DEF n, x, y
<1>14. PoolOf(r) = (PoolOf(h) \ {x}) \cup {y}
  <2>1. ASSUME NEW u \in PoolOf(r) PROVE u \in (PoolOf(h) \ {x}) \cup {y}
    <3>1. PICK j \in 1 .. n : u = InPool(r[j])
      BY <1>13
    <3>2. CASE j = i
      BY <1>9, <3>1, <3>2
    <3>3. CASE j # i
      BY <1>11, <1>12, <3>1, <3>3
    <3>4. QED
      BY <3>2, <3>3
  <2>2. ASSUME NEW u \in PoolOf(h), u # x PROVE u \in PoolOf(r)
    <3>1. PICK j \in 1 .. n : u = InPool(h[j])
      BY <1>12
    <3>2. j # i
      BY <2>2, <3>1 DEF x
    <3>3. QED
      BY <1>11, <1>13, <3>1, <3>2
  <2>3. y \in PoolOf(r)
    BY <1>9, <1>13 DEF n
  <2>4. QED
    BY <2>1, <2>2, <2>3
<1>15. PoolOf(r) = Pool!Popped(PoolOf(h), x)
  BY <1>14 DEF Pool!Popped, y
<1>16. Pool!Live(PoolOf(r)) = Pool!Live(PoolOf(h)) \ {x}
  BY <1>10, <1>14 DEF Pool!Live
<1>17. QED
  BY <1>6, <1>7, <1>15, <1>16 DEF n, x

\* Cardinality is the same in every module.
LEMMA PoolCardinality == \A S : Pool!Cardinality(S) = Cardinality(S)
BY DEF Cardinality, Pool!Cardinality

\* What push may make of the pool.
LEMMA PushedIs ==
  ASSUME NEW p, NEW c
  PROVE  /\ Cardinality(p) < Cap => p \cup {c} \in Pool!Pushed(p, Cap, c)
         /\ ~(Cardinality(p) < Cap) =>
              /\ (\E x \in Pool!Farthest(p) : c.d >= x.d) => p \in Pool!Pushed(p, Cap, c)
              /\ (~ \E x \in Pool!Farthest(p) : c.d >= x.d) =>
                   \A x \in Pool!Farthest(p) : (p \ {x}) \cup {c} \in Pool!Pushed(p, Cap, c)
<1> DEFINE far == \E x \in Pool!Farthest(p) : c.d >= x.d
           room == Cardinality(p) < Cap
           evicted == {(p \ {x}) \cup {c} : x \in Pool!Farthest(p)}
<1>1. Pool!Pushed(p, Cap, c) = IF room THEN {p \cup {c}} ELSE IF far THEN {p} ELSE evicted
  BY PoolCardinality DEF Pool!Pushed
<1>2. \A x \in Pool!Farthest(p) : (p \ {x}) \cup {c} \in evicted
  OBVIOUS
<1> HIDE DEF far, room, evicted
<1>3. CASE room
  BY <1>1, <1>3 DEF room
<1>4. CASE ~room /\ far
  BY <1>1, <1>4 DEF room, far
<1>5. CASE ~room /\ ~far
  <2>1. Pool!Pushed(p, Cap, c) = evicted
    BY <1>1, <1>5
  <2>2. QED
    BY <1>2, <1>5, <2>1 DEF room, far
<1>6. QED
  BY <1>3, <1>4, <1>5

----------------------------------------------------------------------------
(* The inductive invariant of the heap.                                    *)

HeapOK ==
  /\ heap \in Seq(Entry) /\ Len(heap) <= Cap
  /\ HeapOrder(heap)
  /\ OnePlace(heap)
  /\ \A j \in 1 .. Len(heap) : heap[j].who \in pushed /\ heap[j].id \in {-1, heap[j].who}

\* The pool is as large as the heap, and nvalid counts what lives in it.
CountsOK ==
  /\ IsFiniteSet(PoolOf(heap))
  /\ Cardinality(PoolOf(heap)) = Len(heap)
  /\ nvalid = Cardinality(Pool!Live(PoolOf(heap)))

HeapInv == HeapOK /\ CountsOK

\* What the pool knows of the root, of a candidate and of a new one.
LEMMA PoolKnows ==
  ASSUME HeapInv
  PROVE  /\ \A j \in 1 .. Len(heap) : InPool(heap[j]) \in PoolOf(heap)
         /\ \A x \in PoolOf(heap) : x.d \in Nat /\ x.id \in pushed
         /\ heap # <<>> =>
              /\ heap[1] \in Entry
              /\ InPool(heap[1]) \in Pool!Farthest(PoolOf(heap))
              /\ \A x \in Pool!Farthest(PoolOf(heap)) : x.d = heap[1].d
<1>1. /\ heap \in Seq(Entry) /\ HeapOrder(heap)
      /\ \A j \in 1 .. Len(heap) : heap[j] \in Entry /\ heap[j].who \in pushed
  BY DEF HeapInv, HeapOK
<1>2. \A j \in 1 .. Len(heap) : InPool(heap[j]) \in PoolOf(heap)
  BY DEF PoolOf
<1>3. \A x \in PoolOf(heap) : \E j \in 1 .. Len(heap) : x = InPool(heap[j])
  BY DEF PoolOf
<1>4. \A j \in 1 .. Len(heap) : heap[j].d \in Nat
  BY <1>1, EntryDist
<1>5. \A x \in PoolOf(heap) : x.d \in Nat /\ x.id \in pushed
  BY <1>1, <1>3, <1>4, InPoolIs
<1>6. ASSUME heap # <<>>
      PROVE  /\ heap[1] \in Entry
             /\ InPool(heap[1]) \in Pool!Farthest(PoolOf(heap))
             /\ \A x \in Pool!Farthest(PoolOf(heap)) : x.d = heap[1].d
  <2>1. 1 \in 1 .. Len(heap)
    BY <1>1, <1>6
  <2>2. \A j \in 1 .. Len(heap) : heap[j].d <= heap[1].d
    BY <1>1, RootFarthest
  <2>3. InPool(heap[1]) \in PoolOf(heap) /\ InPool(heap[1]).d = heap[1].d
    BY <1>2, <2>1, InPoolIs
  <2>4. \A x \in PoolOf(heap) : x.d <= heap[1].d
    BY <1>3, <2>2, InPoolIs
  <2>5. InPool(heap[1]) \in Pool!Farthest(PoolOf(heap))
    BY <2>3, <2>4 DEF Pool!Farthest
  <2>6. ASSUME NEW x \in Pool!Farthest(PoolOf(heap)) PROVE x.d = heap[1].d
    <3>1. x \in PoolOf(heap) /\ heap[1].d <= x.d
      BY <2>3, <2>6 DEF Pool!Farthest
    <3>2. x.d \in Nat /\ heap[1].d \in Nat /\ x.d <= heap[1].d
      BY <1>4, <1>5, <2>1, <2>4, <3>1
    <3>3. QED
      BY <3>1, <3>2
  <2>7. QED
    BY <1>1, <2>1, <2>5, <2>6
<1>7. QED
  BY <1>2, <1>5, <1>6

\* One more in the pool, or one less of the living.
LEMMA CountMore ==
  ASSUME NEW S, IsFiniteSet(S), NEW x, x \notin S
  PROVE  /\ IsFiniteSet(S \cup {x}) /\ Cardinality(S) \in Nat
         /\ Cardinality(S \cup {x}) = Cardinality(S) + 1
BY FS_AddElement, FS_CardinalityType

LEMMA CountLess ==
  ASSUME NEW S, IsFiniteSet(S), NEW x \in S
  PROVE  /\ IsFiniteSet(S \ {x}) /\ Cardinality(S) \in Nat
         /\ Cardinality(S \ {x}) = Cardinality(S) - 1
BY FS_RemoveElement, FS_CardinalityType

\* heap_push, with room for e, into h: the heap or what heap_pop left of it.
LEMMA PushHeapOK ==
  ASSUME NEW h \in Seq(Entry), Len(h) < Cap, HeapOrder(h), OnePlace(h),
         NEW e \in Entry, e.id = e.who, NEW S,
         \A j \in 1 .. Len(h) : h[j].who \in S /\ h[j].id \in {-1, h[j].who},
         e.who \notin S,
         heap' = HeapPush(h, e), pushed' = S \cup {e.who}
  PROVE  HeapOK'
<1>1. /\ heap' \in Seq(Entry) /\ Len(heap') = Len(h) + 1 /\ HeapOrder(heap')
  BY PushIs, PushOrder
<1>2. \A j \in 1 .. Len(h) : h[j].who # e.who
  OBVIOUS
<1>3. /\ OnePlace(heap')
      /\ \A j \in 1 .. Len(heap') : heap'[j] = e \/ \E p \in 1 .. Len(h) : heap'[j] = h[p]
  BY <1>2, PoolPush
<1>4. Len(heap') <= Cap
  BY <1>1, CapAssumption
<1>5. ASSUME NEW j \in 1 .. Len(heap')
      PROVE  heap'[j].who \in pushed' /\ heap'[j].id \in {-1, heap'[j].who}
  BY <1>3
<1>6. HeapOrder(heap)' /\ OnePlace(heap)'
  BY <1>1, <1>3 DEF HeapOrder, OnePlace
<1>7. QED
  BY <1>1, <1>4, <1>5, <1>6 DEF HeapOK

\* A new candidate: live, in no place, and what is pushed for it.
New(id, d) == [d |-> d, id |-> id, who |-> id]

LEMMA NewIs ==
  ASSUME NEW id \in Id, NEW d \in Dist
  PROVE  /\ New(id, d) \in Entry /\ New(id, d).id = New(id, d).who
         /\ New(id, d).who = id /\ New(id, d).d = d /\ d \in Nat
         /\ InPool(New(id, d)) = Pool!Candidate(id, d)
         /\ Pool!Candidate(id, d).id = id /\ Pool!Candidate(id, d).d = d
         /\ Pool!Candidate(id, d).live
<1>1. id \in Nat /\ d \in Nat
  BY IdAssumption
<1>2. New(id, d) \in Entry
  BY DEF New, Entry
<1>3. id # -1
  BY <1>1
<1>4. /\ New(id, d).who = id /\ New(id, d).d = d /\ New(id, d).id = id
  BY DEF New
<1>5. InPool(New(id, d)) = Pool!Candidate(id, d)
  BY <1>3, <1>4 DEF InPool, Pool!Candidate
<1>6. QED
  BY <1>1, <1>2, <1>4, <1>5 DEF Pool!Candidate

----------------------------------------------------------------------------
(* Every step of the heap is one of the pool.                              *)

\* push, with room.
LEMMA PushStep ==
  ASSUME HeapInv, NEW id \in Id, NEW d \in Dist, id \notin pushed,
         pushed' = pushed \cup {id}, ~Full,
         heap' = HeapPush(heap, New(id, d)), nvalid' = nvalid + 1, lost' = lost
  PROVE  HeapInv' /\ Pool!Push(id, d)
<1> DEFINE e == New(id, d)
           c == Pool!Candidate(id, d)
           p == PoolOf(heap)
           q == PoolOf(heap')
<1>1. /\ e \in Entry /\ e.id = e.who /\ e.who = id /\ InPool(e) = c /\ c.id = id /\ c.live
  BY NewIs
<1>2. /\ heap \in Seq(Entry) /\ Len(heap) <= Cap /\ HeapOrder(heap) /\ OnePlace(heap)
      /\ \A j \in 1 .. Len(heap) : heap[j].who \in pushed /\ heap[j].id \in {-1, heap[j].who}
      /\ IsFiniteSet(p) /\ Cardinality(p) = Len(heap)
      /\ nvalid = Cardinality(Pool!Live(p))
  BY DEF HeapInv, HeapOK, CountsOK
<1>3. Len(heap) < Cap
  BY <1>2, CapAssumption DEF Full
<1> HIDE DEF e, c, p
<1>4. HeapOK'
  BY <1>1, <1>2, <1>3, PushHeapOK DEF e
<1>5. q = p \cup {c}
  <2>1. \A j \in 1 .. Len(heap) : heap[j].who # e.who
    BY <1>1, <1>2
  <2>2. QED
    BY <1>1, <1>2, <2>1, PoolPush DEF e, p
<1>6. c \notin p
  BY <1>1, PoolKnows DEF p
<1>7. Pool!Live(q) = Pool!Live(p) \cup {c} /\ c \notin Pool!Live(p)
  BY <1>1, <1>5, <1>6 DEF Pool!Live
<1>8. CountsOK'
  <2>1. Len(heap') = Len(heap) + 1
    BY <1>1, <1>2, PushIs DEF e
  <2>2. IsFiniteSet(q) /\ Cardinality(q) = Cardinality(p) + 1
    BY <1>2, <1>5, <1>6, CountMore
  <2>3. IsFiniteSet(Pool!Live(p))
    BY <1>2, FS_Subset DEF Pool!Live
  <2>4. Cardinality(Pool!Live(q)) = Cardinality(Pool!Live(p)) + 1
    BY <1>7, <2>3, CountMore
  <2>5. IsFiniteSet(q) /\ Cardinality(q) = Len(heap') /\ nvalid' = Cardinality(Pool!Live(q))
    BY <1>2, <2>1, <2>2, <2>4
  <2>6. PoolOf(heap)' = q /\ Pool!Live(PoolOf(heap))' = Pool!Live(q)
    BY DEF PoolOf, Pool!Live
  <2>7. QED
    BY <2>5, <2>6 DEF CountsOK
<1>9. Pool!Push(id, d)
  <2>1. q \in Pool!Pushed(p, Cap, c)
    <3> HIDE DEF q
    <3>1. QED
      BY <1>2, <1>3, <1>5, PushedIs
  <2>2. {x.d : x \in (Pool!Live(p) \cup {c}) \ q} = {}
    BY <1>5 DEF Pool!Live
  <2>3. lost' = lost \cup {x.d : x \in (Pool!Live(p) \cup {c}) \ q}
    BY <2>2
  <2>4. PoolOf(heap)' = q
    BY DEF PoolOf
  <2> HIDE DEF q
  <2>5. QED
    BY <2>1, <2>3, <2>4 DEF Pool!Push, c, p
<1>10. QED
  BY <1>4, <1>8, <1>9 DEF HeapInv

\* push, refused.
LEMMA RefuseStep ==
  ASSUME HeapInv, NEW id \in Id, NEW d \in Dist, id \notin pushed,
         pushed' = pushed \cup {id}, Refused(d),
         lost' = lost \cup {d}, heap' = heap, nvalid' = nvalid
  PROVE  HeapInv' /\ Pool!Push(id, d)
<1> DEFINE c == Pool!Candidate(id, d)
           p == PoolOf(heap)
<1>1. c.id = id /\ c.d = d /\ c.live /\ d \in Nat
  BY NewIs
<1>2. /\ heap \in Seq(Entry) /\ Cardinality(p) = Len(heap)
  BY DEF HeapInv, HeapOK, CountsOK
<1>3. Len(heap) = Cap /\ heap # <<>> /\ d >= heap[1].d
  BY <1>2, CapAssumption DEF Refused, Full
<1> HIDE DEF c, p
<1>4. HeapInv'
  BY DEF HeapInv, HeapOK, CountsOK, HeapOrder, OnePlace, PoolOf
<1>5. Pool!Push(id, d)
  <2>1. PICK x \in Pool!Farthest(p) : x.d = heap[1].d
    BY <1>3, PoolKnows, InPoolIs DEF p
  <2>2. c.d >= x.d
    BY <1>1, <1>3, <2>1
  <2>3. p \in Pool!Pushed(p, Cap, c)
    <3>1. ~(Cardinality(p) < Cap)
      BY <1>2, <1>3, CapAssumption
    <3>2. QED
      BY <2>1, <2>2, <3>1, PushedIs
  <2>4. c \notin p
    BY <1>1, PoolKnows DEF p
  <2>5. (Pool!Live(p) \cup {c}) \ p = {c}
    BY <2>4 DEF Pool!Live
  <2>6. {y.d : y \in (Pool!Live(p) \cup {c}) \ p} = {d}
    BY <1>1, <2>5
  <2>7. PoolOf(heap)' = p
    BY DEF PoolOf, p
  <2>8. QED
    BY <2>3, <2>6, <2>7 DEF Pool!Push, c, p
<1>6. QED
  BY <1>4, <1>5

\* push, at the expense of the root.
LEMMA EvictStep ==
  ASSUME HeapInv, NEW id \in Id, NEW d \in Dist, id \notin pushed,
         pushed' = pushed \cup {id}, Evict(New(id, d))
  PROVE  HeapInv' /\ Pool!Push(id, d)
<1> DEFINE e == New(id, d)
           c == Pool!Candidate(id, d)
           h == HeapPop(heap)
           x == InPool(heap[1])
           p == PoolOf(heap)
           o == PoolOf(h)
           q == PoolOf(heap')
<1>1. /\ e \in Entry /\ e.id = e.who /\ e.who = id /\ InPool(e) = c
      /\ e.d = d /\ c.id = id /\ c.d = d /\ c.live /\ d \in Nat
  BY NewIs
<1>2. /\ heap \in Seq(Entry) /\ Len(heap) <= Cap /\ HeapOrder(heap) /\ OnePlace(heap)
      /\ \A j \in 1 .. Len(heap) : heap[j].who \in pushed /\ heap[j].id \in {-1, heap[j].who}
      /\ IsFiniteSet(p) /\ Cardinality(p) = Len(heap)
      /\ nvalid = Cardinality(Pool!Live(p))
  BY DEF HeapInv, HeapOK, CountsOK
<1>3. /\ Len(heap) = Cap /\ ~(e.d >= heap[1].d) /\ heap' = HeapPush(h, e)
      /\ nvalid' = IF heap[1].id # -1 THEN nvalid ELSE nvalid + 1
      /\ lost' = IF heap[1].id # -1 THEN lost \cup {heap[1].d} ELSE lost
  BY DEF Evict, Refused, Full
<1>4. heap # <<>> /\ 1 \in 1 .. Len(heap) /\ \A j \in 2 .. Len(heap) : j \in 1 .. Len(heap)
  BY <1>2, <1>3, CapAssumption
<1>5. /\ h \in Seq(Entry) /\ Len(h) = Len(heap) - 1 /\ HeapOrder(h) /\ OnePlace(h)
      /\ o = p \ {x}
      /\ \A j \in 1 .. Len(h) : \E a \in 2 .. Len(heap) : h[j] = heap[a]
  BY <1>2, <1>4, PopIs, PopOrder, PoolPop
<1>6. x \in p /\ x.d = heap[1].d /\ x.live = (heap[1].id # -1) /\ x.id \in pushed
  BY <1>4, PoolKnows, InPoolIs
<1> HIDE DEF e, c, h, x, p, o
<1>7. \A j \in 1 .. Len(h) : h[j].who \in pushed /\ h[j].id \in {-1, h[j].who}
  BY <1>2, <1>4, <1>5
<1>8. Len(h) < Cap
  BY <1>3, <1>5, CapAssumption
<1>9. HeapOK'
  BY <1>1, <1>3, <1>5, <1>7, <1>8, PushHeapOK
<1>10. q = o \cup {c} /\ Len(heap') = Len(heap)
  <2>1. \A j \in 1 .. Len(h) : h[j].who # e.who
    BY <1>1, <1>7
  <2>2. q = o \cup {c}
    BY <1>1, <1>3, <1>5, <2>1, PoolPush DEF o
  <2>3. Len(heap') = Len(h) + 1
    BY <1>1, <1>3, <1>5, PushIs
  <2>4. Len(heap) \in Nat
    BY <1>2
  <2>5. QED
    BY <1>5, <2>2, <2>3, <2>4
<1>11. c \notin p /\ c # x
  BY <1>1, <1>6, PoolKnows DEF p
<1> HIDE DEF q
<1>12. /\ Pool!Live(q) = Pool!Live(o) \cup {c} /\ c \notin Pool!Live(o)
       /\ heap[1].id # -1 => Pool!Live(o) = Pool!Live(p) \ {x} /\ x \in Pool!Live(p)
       /\ heap[1].id = -1 => Pool!Live(o) = Pool!Live(p)
  BY <1>1, <1>5, <1>6, <1>10, <1>11 DEF Pool!Live
<1>13. CountsOK'
  <2>1. /\ IsFiniteSet(o) /\ Cardinality(p) \in Nat /\ Cardinality(o) = Cardinality(p) - 1
    BY <1>2, <1>5, <1>6, CountLess
  <2>2. c \notin o
    BY <1>5, <1>11
  <2>3. IsFiniteSet(q) /\ Cardinality(q) = Cardinality(o) + 1
    BY <1>10, <2>1, <2>2, CountMore
  <2>4. IsFiniteSet(Pool!Live(p)) /\ IsFiniteSet(Pool!Live(o))
    BY <1>2, <2>1, FS_Subset DEF Pool!Live
  <2>5. /\ Cardinality(Pool!Live(o)) \in Nat
        /\ Cardinality(Pool!Live(q)) = Cardinality(Pool!Live(o)) + 1
    BY <1>12, <2>4, CountMore
  <2>6. nvalid' = Cardinality(Pool!Live(q))
    <3>1. CASE heap[1].id # -1
      <4>1. /\ Cardinality(Pool!Live(p)) \in Nat
            /\ Cardinality(Pool!Live(o)) = Cardinality(Pool!Live(p)) - 1
        BY <1>12, <2>4, <3>1, CountLess
      <4>2. nvalid' = nvalid
        BY <1>3, <3>1
      <4>3. QED
        BY <1>2, <2>5, <4>1, <4>2
    <3>2. CASE heap[1].id = -1
      BY <1>2, <1>3, <1>12, <2>5, <3>2
    <3>3. QED
      BY <3>1, <3>2
  <2>7. IsFiniteSet(q) /\ Cardinality(q) = Len(heap')
    BY <1>2, <1>10, <2>1, <2>3
  <2>8. PoolOf(heap)' = q /\ Pool!Live(PoolOf(heap))' = Pool!Live(q)
    BY DEF PoolOf, Pool!Live, q
  <2>9. QED
    BY <2>6, <2>7, <2>8 DEF CountsOK
<1>14. Pool!Push(id, d)
  <2>1. heap[1].d \in Nat /\ x \in Pool!Farthest(p) /\ \A y \in Pool!Farthest(p) : y.d = heap[1].d
    BY <1>4, PoolKnows, EntryDist DEF x, p
  <2>2. q = (p \ {x}) \cup {c}
    BY <1>5, <1>10
  <2>3. ~(Cardinality(p) < Cap)
    BY <1>2, <1>3, CapAssumption
  <2>4. ~ \E y \in Pool!Farthest(p) : c.d >= y.d
    BY <1>1, <1>3, <2>1
  <2>5. q \in Pool!Pushed(p, Cap, c)
    BY <2>1, <2>2, <2>3, <2>4, PushedIs
  <2>6. (Pool!Live(p) \cup {c}) \ q = IF heap[1].id # -1 THEN {x} ELSE {}
    BY <1>6, <1>11, <2>2 DEF Pool!Live
  <2>7. lost' = lost \cup {y.d : y \in (Pool!Live(p) \cup {c}) \ q}
    <3>1. CASE heap[1].id # -1
      <4>1. (Pool!Live(p) \cup {c}) \ q = {x}
        BY <2>6, <3>1
      <4>2. {y.d : y \in {x}} = {heap[1].d}
        BY <1>6
      <4>3. QED
        BY <1>3, <3>1, <4>1, <4>2
    <3>2. CASE heap[1].id = -1
      <4>1. (Pool!Live(p) \cup {c}) \ q = {}
        BY <2>6, <3>2
      <4>2. QED
        BY <1>3, <3>2, <4>1
    <3>3. QED
      BY <3>1, <3>2
  <2>8. PoolOf(heap)' = q
    BY DEF PoolOf, q
  <2>9. QED
    BY <2>5, <2>7, <2>8 DEF Pool!Push, c, p
<1>15. QED
  BY <1>9, <1>13, <1>14 DEF HeapInv

\* pop_min.
LEMMA PopMinStep ==
  ASSUME HeapInv, PopMin
  PROVE  HeapInv' /\ Pool!PopMin
<1> DEFINE p == PoolOf(heap)
           q == PoolOf(heap')
           n == Len(heap)
<1>1. PICK i \in 1 .. n : IsMin(i) /\ heap' = [heap EXCEPT ![i].id = -1]
  BY DEF PopMin
<1>2. nvalid' = nvalid - 1 /\ pushed' = pushed /\ lost' = lost
  BY DEF PopMin
<1>3. /\ heap \in Seq(Entry) /\ n <= Cap /\ HeapOrder(heap) /\ OnePlace(heap)
      /\ \A j \in 1 .. n : heap[j].who \in pushed /\ heap[j].id \in {-1, heap[j].who}
      /\ IsFiniteSet(p) /\ Cardinality(p) = n
      /\ nvalid = Cardinality(Pool!Live(p))
  BY DEF HeapInv, HeapOK, CountsOK
<1>4. /\ heap[i].id # -1
      /\ \A l \in 1 .. n : heap[l].id # -1 =>
           heap[i].d < heap[l].d \/ (heap[i].d = heap[l].d /\ l <= i)
  BY <1>1 DEF IsMin
<1> DEFINE x == InPool(heap[i])
<1>5. /\ heap' \in Seq(Entry) /\ Len(heap') = n
      /\ \A j \in 1 .. n : heap'[j].who = heap[j].who /\ heap'[j].d = heap[j].d
      /\ q = Pool!Popped(p, x)
      /\ Pool!Live(q) = Pool!Live(p) \ {x}
  <2>1. heap \in Seq(Entry) /\ OnePlace(heap) /\ i \in 1 .. Len(heap)
    BY <1>1, <1>3
  <2>2. /\ heap' \in Seq(Entry) /\ Len(heap') = Len(heap)
        /\ \A j \in 1 .. Len(heap) : heap'[j].who = heap[j].who /\ heap'[j].d = heap[j].d
        /\ PoolOf(heap') = Pool!Popped(PoolOf(heap), InPool(heap[i]))
        /\ Pool!Live(PoolOf(heap')) = Pool!Live(PoolOf(heap)) \ {InPool(heap[i])}
    <3> DEFINE r == heap'
    <3>1. Killed(r, heap, i)
      BY <1>1 DEF Killed
    <3> HIDE DEF r, p, q, n, x
    <3>2. /\ r \in Seq(Entry) /\ Len(r) = Len(heap)
          /\ \A j \in 1 .. Len(heap) : r[j].who = heap[j].who /\ r[j].d = heap[j].d
          /\ PoolOf(r) = Pool!Popped(PoolOf(heap), InPool(heap[i]))
          /\ Pool!Live(PoolOf(r)) = Pool!Live(PoolOf(heap)) \ {InPool(heap[i])}
      BY <1>4, <2>1, <3>1, PoolKill
    <3>3. QED
      BY <3>2 DEF r
  <2>3. QED
    BY <2>2
<1>6. x \in p /\ x.d = heap[i].d /\ x.live
  BY <1>1, <1>4, PoolKnows, InPoolIs
<1>7. \A y \in p : \E j \in 1 .. n : y = InPool(heap[j])
  BY DEF PoolOf
<1>8. \A j \in 1 .. n : heap[j] \in Entry /\ heap[j].d \in Nat
  BY <1>3, EntryDist
<1>9. n \in Nat
  BY <1>3
<1> HIDE DEF p, q, n, x
<1>10. x \in Pool!Nearest(p)
  <2>1. ASSUME NEW y \in Pool!Live(p) PROVE x.d <= y.d
    <3>1. PICK j \in 1 .. n : y = InPool(heap[j]) /\ y.live
      BY <1>7 DEF Pool!Live
    <3>2. heap[j].id # -1 /\ y.d = heap[j].d
      BY <3>1, InPoolIs
    <3>3. heap[i].d <= heap[j].d
      BY <1>1, <1>4, <1>8, <3>2
    <3>4. QED
      BY <1>6, <3>2, <3>3
  <2>2. QED
    BY <1>6, <2>1 DEF Pool!Nearest, Pool!Live
<1>11. Pool!PopMin
  <2>1. PoolOf(heap)' = q
    BY DEF PoolOf, q
  <2>2. QED
    BY <1>2, <1>5, <1>10, <2>1 DEF Pool!PopMin, p
<1>12. HeapOK'
  <2>1. \A j \in 2 .. n : heap'[j].d <= heap'[j \div 2].d
    <3> SUFFICES ASSUME NEW j \in 2 .. n PROVE heap'[j].d <= heap'[j \div 2].d
      OBVIOUS
    <3>1. j \in 1 .. n /\ j \div 2 \in 1 .. n
      BY <1>9, Halves
    <3>2. heap[j].d <= heap[j \div 2].d
      BY <1>3 DEF HeapOrder, n
    <3>3. QED
      BY <1>5, <3>1, <3>2
  <2>2. \A a, b \in 1 .. n : heap'[a].who = heap'[b].who => a = b
    BY <1>3, <1>5 DEF OnePlace, n
  <2>3. \A j \in 1 .. n : heap'[j].id = heap[j].id \/ heap'[j].id = -1
    BY <1>1, <1>3, <1>8 DEF Entry, n
  <2>4. \A j \in 1 .. n : heap'[j].who \in pushed' /\ heap'[j].id \in {-1, heap'[j].who}
    BY <1>2, <1>3, <1>5, <2>3
  <2>5. HeapOrder(heap)' /\ OnePlace(heap)'
    BY <1>5, <2>1, <2>2 DEF HeapOrder, OnePlace
  <2>6. QED
    BY <1>3, <1>5, <2>4, <2>5 DEF HeapOK
<1>13. CountsOK'
  <2> DEFINE y == [id |-> x.id, d |-> x.d, live |-> FALSE]
  <2>1. q = (p \ {x}) \cup {y}
    BY <1>5 DEF Pool!Popped
  <2>2. y.id = x.id /\ y # x
    BY <1>6
  <2>3. y \notin p \ {x}
    <3> SUFFICES ASSUME y \in p PROVE FALSE
      OBVIOUS
    <3>1. PICK j \in 1 .. n : y = InPool(heap[j])
      BY <1>7
    <3>2. heap[j].who = heap[i].who
      BY <2>2, <3>1, InPoolIs DEF x
    <3>3. j = i
      BY <1>1, <1>3, <3>2 DEF OnePlace, n
    <3>4. QED
      BY <2>2, <3>1, <3>3 DEF x
  <2> HIDE DEF y
  <2>4. /\ IsFiniteSet(p \ {x}) /\ Cardinality(p) \in Nat
        /\ Cardinality(p \ {x}) = Cardinality(p) - 1
    BY <1>3, <1>6, CountLess
  <2>5. IsFiniteSet(q) /\ Cardinality(q) = Cardinality(p \ {x}) + 1
    BY <2>1, <2>3, <2>4, CountMore
  <2>6. IsFiniteSet(Pool!Live(p)) /\ x \in Pool!Live(p)
    BY <1>3, <1>6, FS_Subset DEF Pool!Live
  <2>7. Cardinality(Pool!Live(q)) = Cardinality(Pool!Live(p)) - 1
    BY <1>5, <2>6, CountLess
  <2>8. IsFiniteSet(q) /\ Cardinality(q) = Len(heap') /\ nvalid' = Cardinality(Pool!Live(q))
    BY <1>2, <1>3, <1>5, <2>4, <2>5, <2>7
  <2>9. PoolOf(heap)' = q /\ Pool!Live(PoolOf(heap))' = Pool!Live(q)
    BY DEF PoolOf, Pool!Live, q
  <2>10. QED
    BY <2>8, <2>9 DEF CountsOK
<1>14. QED
  BY <1>11, <1>12, <1>13 DEF HeapInv

LEMMA InitHeapInv == HeapInit => HeapInv /\ Pool!Init
<1> SUFFICES ASSUME HeapInit PROVE HeapInv /\ Pool!Init
  OBVIOUS
<1>1. heap = <<>> /\ nvalid = 0 /\ pushed = {} /\ lost = {}
  BY DEF HeapInit
<1>2. PoolOf(heap) = {} /\ Pool!Live(PoolOf(heap)) = {}
  BY <1>1 DEF PoolOf, Pool!Live
<1>3. CountsOK
  BY <1>1, <1>2, FS_EmptySet DEF CountsOK
<1>4. HeapOK
  BY <1>1, CapAssumption DEF HeapOK, HeapOrder, OnePlace
<1>5. Pool!Init
  BY <1>1, <1>2 DEF Pool!Init
<1>6. QED
  BY <1>3, <1>4, <1>5 DEF HeapInv

LEMMA StepHeapInv == HeapInv /\ [HeapNext]_heapVars => HeapInv' /\ [Pool!Next]_(Pool!vars)
<1> SUFFICES ASSUME HeapInv, [HeapNext]_heapVars
             PROVE  HeapInv' /\ [Pool!Next]_(Pool!vars)
  OBVIOUS
<1>1. ASSUME NEW id \in Id, NEW d \in Dist, Push(id, d)
      PROVE  HeapInv' /\ Pool!Push(id, d)
  <2>1. id \notin pushed /\ pushed' = pushed \cup {id}
    BY <1>1 DEF Push
  <2>2. \/ Refused(d) /\ lost' = lost \cup {d} /\ heap' = heap /\ nvalid' = nvalid
        \/ Evict(New(id, d))
        \/ ~Full /\ heap' = HeapPush(heap, New(id, d)) /\ nvalid' = nvalid + 1 /\ lost' = lost
    BY <1>1 DEF Push, New
  <2>3. QED
    BY <2>1, <2>2, RefuseStep, EvictStep, PushStep
<1>2. CASE PopMin
  BY <1>2, PopMinStep DEF Pool!Next
<1>3. CASE UNCHANGED heapVars
  <2>1. heap' = heap /\ nvalid' = nvalid /\ pushed' = pushed /\ lost' = lost
    BY <1>3 DEF heapVars
  <2>2. HeapInv'
    BY <2>1 DEF HeapInv, HeapOK, CountsOK, HeapOrder, OnePlace, PoolOf
  <2>3. Pool!vars' = Pool!vars
    BY <2>1 DEF Pool!vars, PoolOf
  <2>4. QED
    BY <2>2, <2>3
<1>4. CASE HeapNext
  BY <1>1, <1>2, <1>4 DEF HeapNext, Pool!Next
<1>5. QED
  BY <1>3, <1>4

\* HNSW::MinimaxHeap keeps the promise of BoundedPool, whatever is pushed in
\* whatever order and however large it is: it throws out a farthest candidate
\* and none else, pop_min returns a nearest live one, and what it overwrites
\* with -1 keeps its place (HNSW.cpp:1378-1389, 1582-1613).
THEOREM HeapIsPool == HeapSpec => ImplementsPool
<1>1. HeapSpec => []HeapInv
  BY InitHeapInv, StepHeapInv, PTL DEF HeapSpec
<1>2. QED
  BY <1>1, InitHeapInv, StepHeapInv, PTL DEF HeapSpec, ImplementsPool, Pool!Spec

\* The searches loop while size(), that is nvalid, is positive, and take what
\* pop_min returns without asking whether there was anything (HNSW.cpp:653-655):
\* the scan then meets a live candidate, never its return of -1.
PopFinds == nvalid > 0 => \E j \in 1 .. Len(heap) : IsMin(j)

LEMMA LiveHasMin == HeapInv => PopFinds
<1> SUFFICES ASSUME HeapInv, nvalid > 0 PROVE \E j \in 1 .. Len(heap) : IsMin(j)
  BY DEF PopFinds
<1> DEFINE n == Len(heap)
<1>1. /\ n \in Nat /\ \A j \in 1 .. n : heap[j].d \in Nat
      /\ nvalid = Cardinality(Pool!Live(PoolOf(heap)))
  BY EntryDist DEF HeapInv, HeapOK, CountsOK
<1>2. PICK l \in 1 .. n : heap[l].id # -1
  <2>1. Pool!Live(PoolOf(heap)) # {}
    <3>1. SUFFICES ASSUME Pool!Live(PoolOf(heap)) = {} PROVE FALSE
      OBVIOUS
    <3>2. nvalid = 0
      BY <1>1, <3>1, FS_EmptySet
    <3>3. QED
      BY <3>2
  <2>2. PICK x \in PoolOf(heap) : x.live
    BY <2>1 DEF Pool!Live
  <2>3. PICK j \in 1 .. n : x = InPool(heap[j])
    BY DEF PoolOf
  <2>4. QED
    BY <2>2, <2>3, InPoolIs
<1> HIDE DEF n
<1> DEFINE D == {heap[j].d : j \in {i \in 1 .. n : heap[i].id # -1}}
<1>3. PICK m \in D : \A o \in D : m <= o
  <2>1. D \in SUBSET Nat /\ D # {}
    BY <1>1, <1>2
  <2> HIDE DEF D
  <2>2. QED
    BY <2>1, LeastExists
<1> DEFINE J == {n - j : j \in {i \in 1 .. n : heap[i].id # -1 /\ heap[i].d = m}}
<1>4. PICK b \in J : \A o \in J : b <= o
  <2>1. J \in SUBSET Nat /\ J # {}
    BY <1>1, <1>3
  <2> HIDE DEF J
  <2>2. QED
    BY <2>1, LeastExists
<1>5. PICK j \in 1 .. n : heap[j].id # -1 /\ heap[j].d = m /\ b = n - j
  BY <1>4
<1>6. ASSUME NEW i \in 1 .. n, heap[i].id # -1
      PROVE  heap[j].d < heap[i].d \/ (heap[j].d = heap[i].d /\ i <= j)
  <2>1. m <= heap[i].d /\ m \in Nat /\ heap[i].d \in Nat
    BY <1>1, <1>3, <1>6
  <2>2. CASE heap[i].d = m
    <3>1. n - i \in J
      BY <1>6, <2>2
    <3>2. n - j <= n - i
      BY <1>4, <1>5, <3>1
    <3>3. i <= j
      BY <1>1, <3>2
    <3>4. QED
      BY <1>5, <2>2, <3>3
  <2>3. CASE heap[i].d # m
    BY <1>5, <2>1, <2>3
  <2>4. QED
    BY <2>2, <2>3
<1>7. IsMin(j)
  BY <1>5, <1>6 DEF IsMin, n
<1>8. QED
  BY <1>5, <1>7 DEF n

THEOREM PopFindsOne == HeapSpec => []PopFinds
BY InitHeapInv, StepHeapInv, LiveHasMin, PTL DEF HeapSpec
=============================================================================
