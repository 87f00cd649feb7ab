----------------------------- MODULE HNSWInsert -----------------------------
(***************************************************************************)
(* hnsw_add_vertices and HNSW::add_with_locks: the vectors of an add are   *)
(* inserted level by level, those of one level by several threads at once. *)
(* Writers hold the lock of the point whose lists they change, one lock at *)
(* a time; readers hold none; entry_point is read in a critical section    *)
(* and written outside of it, max_level is not protected at all.           *)
(*                                                                         *)
(* Distances are abstracted: a search may walk along any links and choose  *)
(* any of the points it met, and a list that overflows keeps any of its    *)
(* entries.  A reader that meets a list while it is rewritten sees old and *)
(* new entries mixed, which is what two reads of the list give.            *)
(***************************************************************************)
EXTENDS Integers, Sequences, FiniteSets

CONSTANTS
  Thread,
  First,     \* the thread that runs batches which are too small to share
  Adds,      \* the calls of add: sequences of the levels drawn for the points
  ParMin,    \* batches of more than ParMin points are shared (100)
  M,         \* neighbours per level; 2 * M at level 0
  MaxPoint,  \* bound: an add of more points than this in all is not made
  MaxLevel,  \* bound: the highest level that is drawn
  MaxStops   \* bound: how often the interrupt callback fires in a run

Point  == 1 .. MaxPoint
Levels == 0 .. MaxLevel
NoOne  == 0           \* entry_point = -1
Free   == "free"

ASSUME ThreadAssumption == First \in Thread /\ Free \notin Thread
ASSUME AddsAssumption   == Adds \subseteq Seq(Seq(Levels) \ {<<>>})
ASSUME BoundAssumption  == /\ M \in Nat \ {0} /\ ParMin \in Nat /\ MaxStops \in Nat
                           /\ MaxPoint \in Nat /\ MaxLevel \in Nat

VARIABLES
  calls,     \* the adds still to come
  level,     \* levels, grows with every add (0: base level)
  links,     \* links[p][l]: the neighbour list of p at level l
  entry,     \* entry_point
  maxLevel,  \* max_level
  lock,      \* lock[p]: the thread that holds it, or "free"
  ptLevel,   \* the level whose batch is being added, -1: no add is running
  batch,     \* its points no thread has taken yet
  shared,    \* it is run by all threads
  interrupt, \* the flag of the callback
  stops,     \* how often it was set so far
  inserted,  \* history: the points that add_with_locks returned for,
  shrunk,    \*   and the lists <<p, l>> that overflowed
  pc, pt,    \* per thread: where it is, the point it adds,
  near,      \*   nearest,
  lv,        \*   level,
  seen,      \*   the points its search met at that level,
  todo,      \*   neighbors_to_add,
  other,     \*   the one it has locked
  copy       \*   and the list of that one as it read it

index  == <<level, links, entry, maxLevel>>
driver == <<calls, ptLevel, batch, shared, interrupt, stops>>
hist   == <<inserted, shrunk>>
link   == <<other, copy>>
local  == <<pc, pt, near, lv, seen, todo, other, copy>>
vars   == <<calls, level, links, entry, maxLevel, lock, ptLevel, batch, shared,
            interrupt, stops, inserted, shrunk,
            pc, pt, near, lv, seen, todo, other, copy>>

Init ==
  /\ calls \in Adds
  /\ level = <<>>
  /\ links = [p \in Point |-> [l \in Levels |-> {}]]
  /\ entry = NoOne /\ maxLevel = -1
  /\ lock = [p \in Point |-> Free]
  /\ ptLevel = -1 /\ batch = {} /\ shared = FALSE
  /\ interrupt = FALSE /\ stops = 0
  /\ inserted = {} /\ shrunk = {}
  /\ pc = [t \in Thread |-> "idle"]
  /\ pt = [t \in Thread |-> NoOne]
  /\ near = [t \in Thread |-> NoOne]
  /\ lv = [t \in Thread |-> 0]
  /\ seen = [t \in Thread |-> {}]
  /\ todo = [t \in Thread |-> {}]
  /\ other = [t \in Thread |-> NoOne]
  /\ copy = [t \in Thread |-> {}]

AllIdle == \A t \in Thread : pc[t] = "idle"

----------------------------------------------------------------------------
(* The driver: one batch per level, from the highest down.                 *)

Starts(b) == batch' = b /\ shared' = (Cardinality(b) > ParMin)

\* The points after the first n0 that were drawn level l.
Batch(lvls, n0, l) == {p \in n0 + 1 .. Len(lvls) : lvls[p] = l}

Top(ls) == CHOOSE l \in Levels :
             /\ \E i \in DOMAIN ls : ls[i] = l
             /\ \A i \in DOMAIN ls : ls[i] <= l

\* add: the levels are drawn, the lists made, the points put into batches.
StartAdd ==
  /\ ptLevel = -1 /\ calls # <<>>
  /\ Len(level) + Len(Head(calls)) <= MaxPoint
  /\ LET ls == Head(calls)  grown == level \o ls IN
     /\ level' = grown
     /\ ptLevel' = Top(ls)
     /\ Starts(Batch(grown, Len(level), Top(ls)))
  /\ interrupt' = FALSE
  /\ UNCHANGED <<calls, links, entry, maxLevel, lock, stops, hist, local>>

\* Mutant: the next level is begun while threads are still at work.
NextBatchEarly ==
  /\ ptLevel >= 0 /\ batch = {}
  /\ ~interrupt
  /\ LET n0 == Len(level) - Len(Head(calls)) IN
     /\ ptLevel' = ptLevel - 1
     /\ Starts(Batch(level, n0, ptLevel - 1))
     /\ calls' = IF ptLevel = 0 THEN Tail(calls) ELSE calls
  /\ UNCHANGED <<index, lock, interrupt, stops, hist, local>>

\* The threads have met at the end of the parallel loop.
NextBatch ==
  /\ ptLevel >= 0 /\ batch = {} /\ AllIdle
  /\ ~interrupt
  /\ LET n0 == Len(level) - Len(Head(calls)) IN
     /\ ptLevel' = ptLevel - 1
     /\ Starts(Batch(level, n0, ptLevel - 1))
     /\ calls' = IF ptLevel = 0 THEN Tail(calls) ELSE calls
  /\ UNCHANGED <<index, lock, interrupt, stops, hist, local>>

\* ... and throw when the flag was raised: the rest is never inserted.
Throw ==
  /\ ptLevel >= 0 /\ AllIdle /\ interrupt
  /\ ptLevel' = -1 /\ batch' = {} /\ shared' = FALSE
  /\ calls' = Tail(calls)
  /\ UNCHANGED <<index, lock, interrupt, stops, hist, local>>

----------------------------------------------------------------------------
(* One thread, one point: add_with_locks.                                  *)

Room(l) == IF l = 0 THEN 2 * M ELSE M

\* Mutant: an overflowing list may be emptied.
AddLinkEmptied(list, q, l) ==
  IF Cardinality(list) < Room(l)
  THEN {list \cup {q}}
  ELSE {s \in SUBSET (list \cup {q}) : Cardinality(s) <= Room(l)}

\* A list that takes q: as it is and q, or, when it overflows, what
\* shrink_neighbor_list leaves of both.
AddLink(list, q, l) ==
  IF Cardinality(list) < Room(l)
  THEN {list \cup {q}}
  ELSE {s \in SUBSET (list \cup {q}) : s # {} /\ Cardinality(s) <= Room(l)}

\* What can be reached from q at level l: the smallest set that has q and, with
\* a point, its neighbours.
Reach(q, l) ==
  {p \in Point : \A s \in SUBSET Point :
                   q \in s /\ (\A x \in s : links[x][l] \subseteq s) => p \in s}

\* The callback, asked after a point was added, may raise the flag.
MayInterrupt ==
  \/ UNCHANGED <<interrupt, stops>>
  \/ stops < MaxStops /\ stops' = stops + 1 /\ interrupt' = TRUE

\* The critical section: the first point of all becomes the entry point.
Take(t) ==
  /\ pc[t] = "idle"
  /\ shared \/ t = First
  /\ ~interrupt
  /\ \E p \in batch :
       /\ batch' = batch \ {p}
       /\ IF entry = NoOne
          THEN /\ entry' = p /\ maxLevel' = ptLevel
               /\ inserted' = inserted \cup {p}
               /\ MayInterrupt
               /\ UNCHANGED <<pc, pt, near>>
          ELSE /\ pc' = [pc EXCEPT ![t] = "lock"]
               /\ pt' = [pt EXCEPT ![t] = p]
               /\ near' = [near EXCEPT ![t] = entry]
               /\ UNCHANGED <<entry, maxLevel, inserted, interrupt, stops>>
  /\ UNCHANGED <<calls, level, links, lock, ptLevel, shared, shrunk,
                 lv, seen, todo, link>>

\* Mutant: the links start at the point's own level where that is higher.
LockOwnAtTop(t) ==
  /\ pc[t] = "lock"
  /\ lock[pt[t]] = Free
  /\ lock' = [lock EXCEPT ![pt[t]] = t]
  /\ lv' = [lv EXCEPT ![t] = IF ptLevel > maxLevel THEN ptLevel ELSE maxLevel]
  /\ pc' = [pc EXCEPT ![t] = "descend"]
  /\ UNCHANGED <<index, driver, hist, link, pt, near, seen, todo>>

\* The point's own lock; max_level is read without protection.
LockOwn(t) ==
  /\ pc[t] = "lock"
  /\ lock[pt[t]] = Free
  /\ lock' = [lock EXCEPT ![pt[t]] = t]
  /\ lv' = [lv EXCEPT ![t] = maxLevel]
  /\ pc' = [pc EXCEPT ![t] = "descend"]
  /\ UNCHANGED <<index, driver, hist, link, pt, near, seen, todo>>

\* greedy_update_nearest at a level above the point's own.  No thread writes
\* there while this batch lasts (UpperLevelsFrozen), so it is one step.
Greedy(t) ==
  /\ pc[t] = "descend" /\ lv[t] > ptLevel
  /\ \E q \in Reach(near[t], lv[t]) : near' = [near EXCEPT ![t] = q]
  /\ lv' = [lv EXCEPT ![t] = @ - 1]
  /\ UNCHANGED <<index, driver, lock, hist, link, pc, pt, seen, todo>>

\* search_neighbors_to_add starts ...
Begin(t) ==
  /\ pc[t] = "descend" /\ lv[t] <= ptLevel
  /\ seen' = [seen EXCEPT ![t] = {near[t]}]
  /\ pc' = [pc EXCEPT ![t] = "search"]
  /\ UNCHANGED <<index, driver, lock, hist, link, pt, near, lv, todo>>

\* ... reads the list of a point it has met ...
Look(t) ==
  /\ pc[t] = "search"
  /\ \E p \in seen[t] :
       /\ ~(links[p][lv[t]] \subseteq seen[t])
       /\ seen' = [seen EXCEPT ![t] = @ \cup links[p][lv[t]]]
  /\ UNCHANGED <<index, driver, lock, hist, link, pc, pt, near, lv, todo>>

\* Mutant: the point's own lock is kept while the others are taken.
ChooseHolding(t) ==
  /\ pc[t] = "search"
  /\ \E c \in SUBSET seen[t] :
       /\ c # {} /\ Cardinality(c) <= Room(lv[t])
       /\ todo' = [todo EXCEPT ![t] = c]
       /\ links' = [links EXCEPT ![pt[t]][lv[t]] = @ \cup c]
  /\ lock' = lock
  /\ seen' = [seen EXCEPT ![t] = {}]
  /\ pc' = [pc EXCEPT ![t] = "links"]
  /\ UNCHANGED <<level, entry, maxLevel, driver, hist, link, pt, near, lv>>

\* ... and the nearest of what it met are written into the point's own list,
\* whose lock is given back.
Choose(t) ==
  /\ pc[t] = "search"
  /\ \E c \in SUBSET seen[t] :
       /\ c # {} /\ Cardinality(c) <= Room(lv[t])
       /\ todo' = [todo EXCEPT ![t] = c]
       /\ links' = [links EXCEPT ![pt[t]][lv[t]] = @ \cup c]
  /\ lock' = [lock EXCEPT ![pt[t]] = Free]
  /\ seen' = [seen EXCEPT ![t] = {}]
  /\ pc' = [pc EXCEPT ![t] = "links"]
  /\ UNCHANGED <<level, entry, maxLevel, driver, hist, link, pt, near, lv>>

\* Mutant: the lock of the other point is not waited for.
LockOtherTaken(t) ==
  /\ pc[t] = "links"
  /\ \E q \in todo[t] :
       /\ lock' = [lock EXCEPT ![q] = t]
       /\ other' = [other EXCEPT ![t] = q]
       /\ copy' = [copy EXCEPT ![t] = links[q][lv[t]]]
  /\ pc' = [pc EXCEPT ![t] = "back"]
  /\ UNCHANGED <<index, driver, hist, pt, near, lv, seen, todo>>

\* The links back, each under the lock of the other point: add_link reads the
\* list ...
LockOther(t) ==
  /\ pc[t] = "links"
  /\ \E q \in todo[t] :
       /\ lock[q] = Free
       /\ lock' = [lock EXCEPT ![q] = t]
       /\ other' = [other EXCEPT ![t] = q]
       /\ copy' = [copy EXCEPT ![t] = links[q][lv[t]]]
  /\ pc' = [pc EXCEPT ![t] = "back"]
  /\ UNCHANGED <<index, driver, hist, pt, near, lv, seen, todo>>

\* ... and writes it.
LinkBack(t) ==
  /\ pc[t] = "back"
  /\ \E s \in AddLink(copy[t], pt[t], lv[t]) :
       links' = [links EXCEPT ![other[t]][lv[t]] = s]
  /\ shrunk' = IF Cardinality(copy[t]) < Room(lv[t]) THEN shrunk
               ELSE shrunk \cup {<<other[t], lv[t]>>}
  /\ lock' = [lock EXCEPT ![other[t]] = Free]
  /\ todo' = [todo EXCEPT ![t] = @ \ {other[t]}]
  /\ other' = [other EXCEPT ![t] = NoOne]
  /\ copy' = [copy EXCEPT ![t] = {}]
  /\ pc' = [pc EXCEPT ![t] = "links"]
  /\ UNCHANGED <<level, entry, maxLevel, driver, inserted, pt, near, lv, seen>>

\* The own lock again, and on to the level below; near has not changed.
Relock(t) ==
  /\ pc[t] = "links" /\ todo[t] = {}
  /\ lock[pt[t]] = Free
  /\ IF lv[t] > 0
     THEN /\ lock' = [lock EXCEPT ![pt[t]] = t]
          /\ lv' = [lv EXCEPT ![t] = @ - 1]
          /\ pc' = [pc EXCEPT ![t] = "descend"]
     ELSE /\ pc' = [pc EXCEPT ![t] = "publish"]
          /\ UNCHANGED <<lock, lv>>
  /\ UNCHANGED <<index, driver, hist, link, pt, near, seen, todo>>

\* add_with_locks returns, and the callback may be asked.
Returns(t) ==
  /\ inserted' = inserted \cup {pt[t]}
  /\ pc' = [pc EXCEPT ![t] = "idle"]
  /\ pt' = [pt EXCEPT ![t] = NoOne]
  /\ near' = [near EXCEPT ![t] = NoOne]
  /\ lv' = [lv EXCEPT ![t] = 0]
  /\ MayInterrupt

\* Mutant: the entry point stays the same.
PublishLevelOnly(t) ==
  /\ pc[t] = "publish"
  /\ \/ /\ ptLevel > maxLevel
        /\ maxLevel' = ptLevel
        /\ Returns(t)
     \/ /\ ptLevel <= maxLevel
        /\ Returns(t)
        /\ UNCHANGED maxLevel
  /\ UNCHANGED <<calls, level, links, entry, lock, ptLevel, batch, shared, shrunk, seen, todo, link>>

\* A point above all others becomes the entry point: two writes that nothing
\* protects.
Publish(t) ==
  /\ pc[t] = "publish"
  /\ \/ /\ ptLevel > maxLevel
        /\ maxLevel' = ptLevel
        /\ pc' = [pc EXCEPT ![t] = "enter"]
        /\ UNCHANGED <<interrupt, stops, inserted, pt, near, lv>>
     \/ /\ ptLevel <= maxLevel
        /\ Returns(t)
        /\ UNCHANGED maxLevel
  /\ UNCHANGED <<calls, level, links, entry, lock, ptLevel, batch, shared, shrunk, seen, todo, link>>

Enter(t) ==
  /\ pc[t] = "enter"
  /\ entry' = pt[t]
  /\ Returns(t)
  /\ UNCHANGED <<calls, level, links, maxLevel, lock, ptLevel, batch, shared, shrunk, seen, todo, link>>

Step(t) ==
  \/ Take(t) \/ LockOwn(t) \/ Greedy(t)
  \/ Begin(t) \/ Look(t) \/ Choose(t)
  \/ LockOther(t) \/ LinkBack(t) \/ Relock(t)
  \/ Publish(t) \/ Enter(t)

Next == StartAdd \/ NextBatch \/ Throw \/ \E t \in Thread : Step(t)

Spec == Init /\ [][Next]_vars

\* The calling thread and each thread of the team is scheduled.  Which of
\* the threads that wait for a lock gets it is left open.
FairSpec ==
  /\ Spec
  /\ WF_vars(StartAdd \/ NextBatch \/ Throw)
  /\ \A t \in Thread : WF_vars(Step(t))

----------------------------------------------------------------------------
(* Properties.                                                             *)

\* No list is longer than its places: the next list, of another level or
\* another point, begins right behind it.
ListsFit ==
  \A p \in Point, l \in Levels : Cardinality(links[p][l]) <= Room(l)

\* No thread goes to the list of a point at a level that point does not have
\* (neighbor_range does not check it: the list of another point would be read
\* or written), whatever the order in which the points of a batch are added.
ListsExist ==
  /\ \A t \in Thread :
       /\ pc[t] = "descend" => level[near[t]] >= lv[t]
       /\ \A p \in seen[t] \cup todo[t] : level[p] >= lv[t]
  /\ \A p \in Point, l \in Levels :
       links[p][l] # {} => \A q \in links[p][l] \cup {p} : level[q] >= l

\* A point is never linked to itself, and never twice to the same neighbour:
\* add_link checks neither, and relies on nobody having met the point before
\* its own list at that level is written.
LinkedOnce ==
  \A t \in Thread :
    /\ pc[t] = "search" => /\ pt[t] \notin seen[t]
                           /\ links[pt[t]][lv[t]] = {}
    /\ pc[t] = "back" => pt[t] \notin copy[t] /\ pt[t] # other[t]

\* The lists of neighbours, which lie in one array without any check of their
\* bounds, are read and written where they are, each link once.
ListsSound == ListsFit /\ ListsExist /\ LinkedOnce

\* A thread enters the graph at a point that exists at the level where it
\* starts: entry_point is "one of the points with maximum level".
StartHasLevel ==
  \A t \in Thread : pc[t] = "descend" => level[near[t]] >= lv[t]

\* Between batches the entry point is one of the inserted points of the
\* highest level, also when the last add was interrupted.
EntryIsTop ==
  AllIdle /\ entry # NoOne =>
    /\ entry \in inserted /\ level[entry] = maxLevel
    /\ \A p \in inserted : level[p] <= maxLevel

\* No search gets stuck at a point: as soon as there are two, each inserted
\* point has a neighbour at level 0, whatever was shrunk or interrupted.
NoDeadEnd ==
  AllIdle /\ Cardinality(inserted) > 1 => \A p \in inserted : links[p][0] # {}

\* Two threads that link to the same point do not lose a link: one that is
\* missing on one side was dropped when that side overflowed.
LinkedBothWays ==
  AllIdle => \A p \in Point, l \in Levels : \A q \in links[p][l] :
               p \in links[q][l] \/ <<q, l>> \in shrunk

\* No two threads share a batch above all the points there are: entry_point and
\* max_level are written after the search, and not together.  hnsw_add_vertices
\* does not see to this; the calls of add have to.
NoSharedRise == ptLevel > maxLevel /\ entry # NoOne => ~shared

\* ... which they do if the batch at the top of each add but the first is one
\* that a single thread runs, or not above the tops of all earlier adds.
Crowded(ls) == Cardinality(Batch(ls, 0, Top(ls))) > ParMin

Quiet(c) ==
  \A i \in 2 .. Len(c) : Crowded(c[i]) => \E j \in 1 .. i - 1 : Top(c[j]) >= Top(c[i])

QuietAdds == \A c \in Adds : Quiet(c)

\* While the points of one level are added, no list of a higher level changes:
\* the greedy descent of one thread is not disturbed by the others.
UpperLevelsFrozen ==
  [][\A p \in Point, l \in Levels :
       l > ptLevel /\ ptLevel >= 0 => links'[p][l] = links[p][l]]_vars

\* Every add returns or throws: the threads do not wait for one another in a
\* circle, and the search ends although the graph grows meanwhile.
Terminates == <>(calls = <<>> /\ ptLevel = -1 /\ AllIdle)
=============================================================================
