----------------------------- MODULE CSPGSearch -----------------------------
(***************************************************************************)
(* Stage 2 of IndexCSPG::search for one query: a beam search over all      *)
(* partitions at once.  A copy of a vector in a partition is a pair of the *)
(* partition and the vector (refunction maps the local ids one to one, so  *)
(* they are left out); a routing vector has a copy in every partition, and *)
(* accepting one copy puts all of them into the candidate pool.            *)
(* Queries run in parallel and share nothing that changes.                 *)
(***************************************************************************)
EXTENDS CSPGPartitions

CONSTANTS
  Gid,      \* the vectors
  Routing,  \* those that are in all partitions
  Home,     \* the partition of each of the others
  Graphs,   \* level-0 neighbours: Graphs[..][p][g] is a sequence of vectors
  Dists,    \* the distances a query may have to the vectors
  Efs       \* values of cur_ef2

Member(p) == Routing \cup {g \in Gid \ Routing : Home[g] = p}
Copy      == {c \in Part \X Gid : c[2] \in Member(c[1])}

ASSUME GidAssumption   == IsFiniteSet(Gid) /\ Routing \subseteq Gid
ASSUME HomeAssumption  == Home \in [Gid \ Routing -> Part]
ASSUME DistsAssumption == \A f \in Dists : f \in [Gid -> Nat]
ASSUME EfsAssumption   == \A e \in Efs : e \in Nat \ {0}
ASSUME GraphsAssumption ==
  \A n \in Graphs : \A p \in Part : \A g \in Member(p) : n[p][g] \in Seq(Member(p))

VARIABLES
  nbrs,     \* the graphs                                  (input)
  dist,     \* the distance of each vector                 (input)
  ef,       \* cur_ef2                                     (input)
  visited,  \* visited[p]: vectors marked in partition p
  pool,     \* candidates: see BoundedPool
  top,      \* top_results: [g, p, d]
  cur,      \* the partition of the candidate popped last
  todo,     \* its neighbours that are still to be looked at
  pushes,   \* copies of an accepted vector still to be pushed
  pc,       \* "seed", "run" or "done"
  lost      \* history: distances of candidates the pool refused or evicted

input == <<nbrs, dist, ef>>
vars  == <<nbrs, dist, ef, visited, pool, top, cur, todo, pushes, pc, lost>>

\* MinimaxHeap, as MinimaxHeap.tla shows that it behaves.
H == INSTANCE BoundedPool WITH
  Id <- Copy, Dist <- {}, Cap <- 1, pushed <- {}

\* Mutant: the pool is as large as the result list.
CapTight == ef

\* The pool has room for a copy of each of ef vectors in every partition.
Cap == ef * NP

Full  == Cardinality(top) >= ef
Worst == {x \in top : \A y \in top : y.d <= x.d}
AtLeastWorst(d) == \E x \in Worst : d >= x.d
BeyondWorst(d)  == \E x \in Worst : d > x.d

\* What process_neighbor turns away: no result list could be improved by it.
TooFar(d) == Full /\ AtLeastWorst(d)

InputOK ==
  /\ nbrs \in Graphs
  /\ dist \in Dists
  /\ ef \in Efs

Init ==
  /\ InputOK
  /\ visited = [p \in Part |-> {}]
  /\ pool = {}
  /\ top = {}
  /\ cur = 0
  /\ todo = <<>>
  /\ pushes = <<>>
  /\ pc = "seed"
  /\ lost = {}

----------------------------------------------------------------------------
(* The copies of g that are to be pushed: the one found, then the others.  *)

\* Mutant: a routing vector is pushed in its own partition only.
CopiesNoCrossing(g, p) == <<<<p, g>>>>

Copies(g, p) ==
  IF g \in Routing
  THEN [j \in 1 .. NP |->
          IF j = 1 THEN <<p, g>> ELSE IF j - 2 < p THEN <<j - 2, g>> ELSE <<j - 1, g>>]
  ELSE <<<<p, g>>>>

\* Mutant: the copies in the other partitions are not marked.
MarkedOnlyHere(g, p) == [visited EXCEPT ![p] = @ \cup {g}]

\* ... and marked as visited, all at once.
Marked(g, p) ==
  [q \in Part |-> IF q = p \/ g \in Routing THEN visited[q] \cup {g} ELSE visited[q]]

Result(g, p) == [g |-> g, p |-> p, d |-> dist[g]]

\* Stage 1 ends in some vector of partition 0.
Seed(g) ==
  /\ pc = "seed"
  /\ visited' = Marked(g, 0)
  /\ top' = {Result(g, 0)}
  /\ pushes' = Copies(g, 0)
  /\ pc' = "run"
  /\ UNCHANGED <<input, pool, cur, todo, lost>>

\* One push into the pool.
Push ==
  /\ pc = "run"
  /\ pushes # <<>>
  /\ LET c == H!Candidate(Head(pushes), dist[Head(pushes)[2]]) IN
     /\ pool' \in H!Pushed(pool, Cap, c)
     /\ lost' = lost \cup {x.d : x \in (H!Live(pool) \cup {c}) \ pool'}
  /\ pushes' = Tail(pushes)
  /\ UNCHANGED <<input, visited, top, cur, todo, pc>>

\* Mutant: the nearest result goes.
ExpelBest(d) == {x \in top : \A y \in top : x.d <= y.d}

\* try_add_result: which results may go for a nearer one; the heap leaves
\* open which of two equal ones.
Expellable(d) == Worst

\* Pass 2 and process_neighbor for the next neighbour.  The code collects
\* and marks the unvisited ones first; what it marks when it accepts one of
\* them is in the other partitions, so that one pass does the same.
LooksAt(g) ==
  /\ pc = "run"
  /\ pushes = <<>> /\ todo # <<>>
  /\ g = Head(todo)
  /\ todo' = Tail(todo)

Skip(g) ==
  /\ LooksAt(g)
  /\ g \in visited[cur]
  /\ UNCHANGED <<input, visited, pool, top, cur, pushes, pc, lost>>

Accept(g) ==
  /\ LooksAt(g)
  /\ g \notin visited[cur]
  /\ ~TooFar(dist[g])
  /\ IF Full
     THEN \E x \in Expellable(dist[g]) : top' = (top \ {x}) \cup {Result(g, cur)}
     ELSE top' = top \cup {Result(g, cur)}
  /\ visited' = Marked(g, cur)
  /\ pushes' = Copies(g, cur)
  /\ UNCHANGED <<input, pool, cur, pc, lost>>

Reject(g) ==
  /\ LooksAt(g)
  /\ g \notin visited[cur]
  /\ TooFar(dist[g])
  /\ visited' = [visited EXCEPT ![cur] = @ \cup {g}]
  /\ UNCHANGED <<input, pool, top, cur, pushes, pc, lost>>

\* Early termination, tested on the candidate popped.
Stops(d) == Full /\ BeyondWorst(d)

Idle == pc = "run" /\ pushes = <<>> /\ todo = <<>>

\* Mutant: the candidate is not taken out of the pool.
ExpandKeeps ==
  /\ Idle
  /\ \E x \in H!Nearest(pool) :
       /\ ~Stops(x.d)
       /\ pool' = pool
       /\ cur' = x.id[1]
       /\ todo' = nbrs[x.id[1]][x.id[2]]
  /\ UNCHANGED <<input, visited, top, pushes, pc, lost>>

\* Pop the nearest candidate and go to its neighbours.
Expand ==
  /\ Idle
  /\ \E x \in H!Nearest(pool) :
       /\ ~Stops(x.d)
       /\ pool' = H!Popped(pool, x)
       /\ cur' = x.id[1]
       /\ todo' = nbrs[x.id[1]][x.id[2]]
  /\ UNCHANGED <<input, visited, top, pushes, pc, lost>>

Stop ==
  /\ Idle
  /\ \E x \in H!Nearest(pool) : Stops(x.d) /\ pool' = H!Popped(pool, x)
  /\ pc' = "done"
  /\ UNCHANGED <<input, visited, top, cur, todo, pushes, lost>>

Exhausted ==
  /\ Idle
  /\ H!Live(pool) = {}
  /\ pc' = "done"
  /\ UNCHANGED <<input, visited, pool, top, cur, todo, pushes, lost>>

Next ==
  \/ \E g \in Member(0) : Seed(g)
  \/ Push
  \/ \E g \in Member(cur) : Skip(g) \/ Accept(g) \/ Reject(g)
  \/ Expand \/ Stop \/ Exhausted

Spec == Init /\ [][Next]_vars

\* A query runs in one thread that waits for nothing.
FairSpec == Spec /\ WF_vars(Next)

----------------------------------------------------------------------------
TypeOK ==
  /\ InputOK
  /\ visited \in [Part -> SUBSET Gid]
  /\ pool \in SUBSET [id : Copy, d : Nat, live : BOOLEAN]
  /\ top \in SUBSET [g : Gid, p : Part, d : Nat]
  /\ cur \in Part
  /\ todo \in Seq(Member(cur))
  /\ pushes \in Seq(Copy)
  /\ pc \in {"seed", "run", "done"}
  /\ lost \in SUBSET Nat

\* "No runtime dedup needed ... each global id appears at most once"
\* (IndexCSPG.cpp:597-600), although a routing vector is found through any
\* of its copies.
EachVectorOnce == \A x, y \in top : x.g = y.g => x = y

\* The pool is "oversized so that cross-partition expansion does not crowd
\* out good candidates" (IndexCSPG.cpp:24-26): whatever it refuses or evicts
\* is no nearer than the worst of a full result list, which it could never
\* improve.  That the dead keep their places makes this tight.
PoolSuffices == \A d \in lost : TooFar(d)

\* A copy that was looked at and is not kept could not be kept: the results
\* are the best of everything the search has met.
BestOfSeen ==
  \A p \in Part : \A g \in visited[p] :
    (\E x \in top : x.g = g) \/ TooFar(dist[g])

\* When the search ends, each result nearer than the worst kept (all of them
\* when the list is not full) was expanded in every partition that has it:
\* no neighbour of a copy in any graph was overlooked.
AllGraphsSearched ==
  pc = "done" =>
    \A p \in Part : \A g \in Member(p) :
      (\E x \in top : x.g = g) /\ ~TooFar(dist[g]) =>
        \A j \in DOMAIN nbrs[p][g] : nbrs[p][g][j] \in visited[p]

\* Every query is answered.
Terminates == <>(pc = "done")
=============================================================================
