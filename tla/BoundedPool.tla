---------------------------- MODULE BoundedPool ----------------------------
(***************************************************************************)
(* What HNSW::MinimaxHeap promises its users: a pool of at most cap        *)
(* candidates that keeps the nearest of all that were pushed.  A candidate *)
(* that pop_min returned is dead: it is never returned again, but it keeps *)
(* its place in the pool.  A candidate is a record of an id, a distance    *)
(* and whether it is live; no id is pushed twice.                          *)
(***************************************************************************)
EXTENDS Integers, FiniteSets

Candidate(id, d) == [id |-> id, d |-> d, live |-> TRUE]

Live(pool) == {x \in pool : x.live}

Farthest(pool) == {x \in pool : \A y \in pool : y.d <= x.d}

Nearest(pool) == {x \in Live(pool) : \A y \in Live(pool) : x.d <= y.d}

\* push: refused when the pool is full and nothing in it is farther,
\* otherwise a farthest one makes room, dead or live.
Pushed(pool, cap, c) ==
  IF Cardinality(pool) < cap
  THEN {pool \cup {c}}
  ELSE IF \E x \in Farthest(pool) : c.d >= x.d
       THEN {pool}
       ELSE {(pool \ {x}) \cup {c} : x \in Farthest(pool)}

\* pop_min: x is returned and stays in the pool as a dead one.
Popped(pool, x) == (pool \ {x}) \cup {[id |-> x.id, d |-> x.d, live |-> FALSE]}

----------------------------------------------------------------------------
(* A user that pushes and pops in any order.                               *)
CONSTANTS Id, Dist, Cap

VARIABLES
  pool,    \* the candidates in the pool
  pushed,  \* all ids pushed so far
  lost     \* distances of candidates refused or evicted while live

vars == <<pool, pushed, lost>>

Init == pool = {} /\ pushed = {} /\ lost = {}

Push(id, d) ==
  /\ id \notin pushed
  /\ pool' \in Pushed(pool, Cap, Candidate(id, d))
  /\ pushed' = pushed \cup {id}
  /\ lost' = lost \cup {x.d : x \in (Live(pool) \cup {Candidate(id, d)}) \ pool'}

PopMin ==
  /\ \E x \in Nearest(pool) : pool' = Popped(pool, x)
  /\ UNCHANGED <<pushed, lost>>

Next == (\E id \in Id, d \in Dist : Push(id, d)) \/ PopMin

Spec == Init /\ [][Next]_vars

\* What was lost is no nearer than anything in the pool, and is lost only
\* because Cap others are as near.
KeepsNearest ==
  lost # {} => /\ Cardinality(pool) = Cap
               /\ \A l \in lost, x \in pool : x.d <= l

OnePerId == \A x, y \in pool : x.id = y.id => x = y
=============================================================================
