----------------------------- MODULE SHGSearch -----------------------------
(***************************************************************************)
(* IndexSHG::search for one query: the descent through the upper levels    *)
(* with compressed distances, where the shortcut says how many levels to   *)
(* skip, and the search of the base level, where a lower bound taken from  *)
(* the coarsest compressed vectors keeps candidates away.  Queries run in  *)
(* parallel and share nothing that changes.                                *)
(***************************************************************************)
EXTENDS SHGCompress

CONSTANTS
  Point,
  Graphs,     \* graphs: [level : levels - 1, links : [Point -> seq of seqs], entry]
  Data,       \* pairs of the vectors of all points and the query
  Shortcuts,  \* the samples of a ShortcutMap: sequences of <<distance, skip>>,
              \* skip > 0, sorted by distance; empty when it is not trained
  Sizes,      \* pairs of k and ef: ef = max(k, efSearch)
  Batch       \* how many distances are computed at once (4)

\* Without compression levels search is that of IndexHNSW.
ASSUME SearchAssumption == /\ Batch \in Nat \ {0} /\ MaxFix \in Nat \ {0}
                           /\ IsFiniteSet(Point)

\* A list of a level leads to points of that level, as HNSWInsert sees to.
ASSUME GraphsAssumption ==
  \A g \in Graphs :
    /\ g.entry \in Point
    /\ \A p \in Point :
         /\ g.level[p] \in Nat
         /\ \A l \in 0 .. g.level[p] :
              g.links[p][l + 1] \in Seq({q \in Point : g.level[q] >= l})

\* Distances are numbers, and a shortcut leads downwards.
ASSUME InputAssumption ==
  /\ \A x \in Data, p \in Point :
       /\ L2(x[1][p], x[2]) \in Nat
       /\ \A l \in 1 .. MaxFix : CompressedDistance(l, x[1][p], x[2]) \in Nat
  /\ Shortcuts \subseteq Seq(Nat \X (Nat \ {0}))
  /\ \A s \in Sizes : s[1] \in Nat \ {0} /\ s[2] \in Nat /\ s[1] <= s[2]

\* "dis_0^2 >= dis_L^2 * eta^L" (IndexSHG.cpp:276) of all vectors and queries,
\* which needs whole blocks: eta^L divides d.
LowerBoundHolds ==
  \A x \in Data, p \in Point :
    LET bound == Eta ^ MaxFix * CompressedDistance(MaxFix, x[1][p], x[2])
    IN  bound \in Nat /\ bound <= L2(x[1][p], x[2])

VARIABLES
  graph, dist, comp,  \* the graph, the exact distances of all points to the
                      \* query and comp[l], those of level l > 0    (input)
  shortcut,           \* empty also when use_shortcut is off         (input)
  lb, check,          \* use_lb_pruning, check_relative_distance     (input)
  k, ef,              \*                                             (input)
  pc,        \* "enter", "skip", "greedy", "seed", "base" or "done"
  near, lv,  \* currObj, level
  d,         \* curdist
  pool,      \* candidates: see BoundedPool
  top,       \* the k results: [id, d]
  visited,
  todo,      \* neighbours of the popped candidate still to be looked at
  buf,       \* buffered_ids
  flush,     \* the buffer is full and is being emptied
  nstep,
  pruned     \* history: the points that the lower bound kept away

input == <<graph, dist, comp, shortcut, lb, check, k, ef>>
base  == <<pool, top, visited, todo, buf, flush, nstep, pruned>>
vars  == <<graph, dist, comp, shortcut, lb, check, k, ef, pc, near, lv, d,
           pool, top, visited, todo, buf, flush, nstep, pruned>>

\* MinimaxHeap, as MinimaxHeap.tla shows that it behaves.
H == INSTANCE BoundedPool WITH
  Id <- Point, Dist <- {}, Cap <- 1, pushed <- {}, lost <- {}

MaxLevel == graph.level[graph.entry]

Init ==
  /\ graph \in Graphs
  /\ \E x \in Data :
       /\ dist = [p \in Point |-> L2(x[1][p], x[2])]
       /\ comp = [l \in 1 .. MaxLevel + MaxFix |->
                    [p \in Point |-> CompressedDistance(l, x[1][p], x[2])]]
  /\ shortcut \in Shortcuts
  /\ lb \in BOOLEAN /\ check \in BOOLEAN
  /\ \E s \in Sizes : k = s[1] /\ ef = s[2]
  /\ pc = "enter"
  /\ near = graph.entry /\ lv = MaxLevel /\ d = 0
  /\ pool = {} /\ top = {} /\ visited = {}
  /\ todo = <<>> /\ buf = <<>> /\ flush = FALSE
  /\ nstep = 0 /\ pruned = {}

----------------------------------------------------------------------------
(* navigate_upper_levels                                                   *)

\* ShortcutMap::predict: the skip of the first sample that is not nearer.
Predict(x) ==
  IF \E i \in DOMAIN shortcut : shortcut[i][1] >= x
  THEN shortcut[CHOOSE i \in DOMAIN shortcut :
                  /\ shortcut[i][1] >= x
                  /\ \A j \in 1 .. i - 1 : shortcut[j][1] < x][2]
  ELSE 1

\* On to level l with the point at hand.
ToLevel(l) == lv' = l /\ d' = comp[l][near] /\ pc' = "greedy"

\* Without levels above the base there is nothing to navigate; without a
\* shortcut the top level is searched first.
EnterTop ==
  /\ pc = "enter"
  /\ \/ MaxLevel = 0 /\ pc' = "seed" /\ UNCHANGED <<lv, d>>
     \/ MaxLevel > 0 /\ shortcut = <<>> /\ ToLevel(MaxLevel)
     \/ MaxLevel > 0 /\ shortcut # <<>>
        /\ d' = comp[MaxLevel][near] /\ pc' = "skip" /\ UNCHANGED lv
  /\ UNCHANGED <<input, near, base>>

\* "while l - f(dis) >= 1": the shortcut says where to go on, and the base
\* level is next when that is below level 1.
Skip ==
  /\ pc = "skip"
  /\ LET l == lv - Predict(d) IN
     IF l < 1 THEN pc' = "seed" /\ UNCHANGED <<lv, d>>
     ELSE ToLevel(IF l >= lv THEN lv - 1 ELSE l)
  /\ UNCHANGED <<input, near, base>>

\* One pass of greedy_update_nearest_shg: the nearest neighbour, the first of
\* equal ones, when it is nearer than the point at hand.
Links(p, l) == graph.links[p][l + 1]

Better == {i \in DOMAIN Links(near, lv) : comp[lv][Links(near, lv)[i]] < d}

Nearer ==
  /\ pc = "greedy"
  /\ Better # {}
  /\ LET i == CHOOSE i \in Better : \A j \in Better :
                LET di == comp[lv][Links(near, lv)[i]]
                    dj == comp[lv][Links(near, lv)[j]]
                IN  di < dj \/ (di = dj /\ i <= j)
     IN  near' = Links(near, lv)[i] /\ d' = comp[lv][near']
  /\ UNCHANGED <<input, pc, lv, base>>

\* Mutant: the descent goes on with a neighbour of the level below.
SettleBelow ==
  /\ pc = "greedy" /\ Better = {}
  /\ near' = IF Links(near, 0) = <<>> THEN near ELSE Links(near, 0)[1]
  /\ IF lv = 1 THEN pc' = "seed" /\ UNCHANGED <<lv, d>>
     ELSE lv' = lv - 1 /\ d' = comp[lv - 1][near'] /\ pc' = "greedy"
  /\ UNCHANGED <<input, base>>

\* ... until none is: the next level, or what the shortcut says.
Settle ==
  /\ pc = "greedy" /\ Better = {}
  /\ \/ lv = 1 /\ pc' = "seed" /\ UNCHANGED <<lv, d>>
     \/ lv > 1 /\ shortcut = <<>> /\ ToLevel(lv - 1)
     \/ lv > 1 /\ shortcut # <<>> /\ pc' = "skip" /\ UNCHANGED <<lv, d>>
  /\ UNCHANGED <<input, near, base>>

----------------------------------------------------------------------------
(* search_from_candidates_shg                                              *)

Full == Cardinality(top) = k

Worst == {x \in top : \A y \in top : y.d <= x.d}

\* dis < threshold, which is infinite until there are k results.
BelowThreshold(x) == ~Full \/ \E w \in Worst : x < w.d

\* Mutant: a result goes in whatever is thrown out.
WithResultAny(p) ==
  IF ~BelowThreshold(dist[p]) THEN {top}
  ELSE IF Full THEN {(top \ {w}) \cup {[id |-> p, d |-> dist[p]]} : w \in top}
  ELSE {top \cup {[id |-> p, d |-> dist[p]]}}

\* add_result: the farthest result makes room.
WithResult(p) ==
  IF ~BelowThreshold(dist[p]) THEN {top}
  ELSE IF Full THEN {(top \ {w}) \cup {[id |-> p, d |-> dist[p]]} : w \in Worst}
  ELSE {top \cup {[id |-> p, d |-> dist[p]]}}

Seed ==
  /\ pc = "seed"
  /\ pool' = {H!Candidate(near, dist[near])}
  /\ top' \in WithResult(near)
  /\ visited' = {near}
  /\ pc' = "base"
  /\ UNCHANGED <<input, near, lv, d, todo, buf, flush, nstep, pruned>>

Idle == pc = "base" /\ todo = <<>> /\ buf = <<>>

\* Mutant: the popped candidate counts itself.
EnoughBelowOrAt(x) == Cardinality({y \in pool : y.d <= x.d}) >= ef

\* count_below(d0) >= efSearch, the popped candidates included.
EnoughBelow(x) == Cardinality({y \in pool : y.d < x.d}) >= ef

Tired == ~check /\ nstep > ef

\* Mutant: a popped candidate may be popped again.
PopKeeps ==
  /\ Idle /\ ~Tired
  /\ \E x \in H!Nearest(pool) :
       /\ ~(check /\ EnoughBelow(x))
       /\ pool' = pool
       /\ todo' = Links(x.id, 0)
       /\ nstep' = IF check THEN 0 ELSE nstep + 1
  /\ UNCHANGED <<input, pc, near, lv, d, top, visited, buf, flush, pruned>>

\* The nearest candidate; nstep only matters without the distance check.
Pop ==
  /\ Idle /\ ~Tired
  /\ \E x \in H!Nearest(pool) :
       /\ ~(check /\ EnoughBelow(x))
       /\ pool' = H!Popped(pool, x)
       /\ todo' = Links(x.id, 0)
       /\ nstep' = IF check THEN 0 ELSE nstep + 1
  /\ UNCHANGED <<input, pc, near, lv, d, top, visited, buf, flush, pruned>>

Stop ==
  /\ Idle
  /\ \/ Tired
     \/ H!Live(pool) = {}
     \/ \E x \in H!Nearest(pool) : check /\ EnoughBelow(x)
  /\ pc' = "done"
  /\ UNCHANGED <<input, near, lv, d, base>>

\* Mutant: the factor is squared although the distances are.
LowerBoundSquared(p) == Eta ^ (2 * MaxFix) * comp[MaxFix][p]

\* "dis_0^2 >= dis_L^2 * eta^L" (IndexSHG.cpp:276).
LowerBound(p) == Eta ^ MaxFix * comp[MaxFix][p]

\* The lower bound is above the threshold.
Prunes(p) == lb /\ Full /\ ~(\E w \in Worst : LowerBound(p) <= w.d)

\* The next neighbour: visited already, kept away, or into the buffer.
Look ==
  /\ pc = "base" /\ todo # <<>> /\ ~flush
  /\ LET p == Head(todo) IN
     /\ visited' = visited \cup {p}
     /\ IF p \in visited THEN UNCHANGED <<buf, flush, pruned>>
        ELSE IF Prunes(p) THEN pruned' = pruned \cup {p} /\ UNCHANGED <<buf, flush>>
        ELSE /\ buf' = Append(buf, p)
             /\ flush' = (Len(buf) + 1 = Batch)
             /\ UNCHANGED pruned
  /\ todo' = Tail(todo)
  /\ UNCHANGED <<input, pc, near, lv, d, pool, top, nstep>>

\* add_to_heap, for one of a full buffer or of what is left at the end.
Add ==
  /\ pc = "base" /\ buf # <<>>
  /\ flush \/ todo = <<>>
  /\ top' \in WithResult(Head(buf))
  /\ pool' \in H!Pushed(pool, ef, H!Candidate(Head(buf), dist[Head(buf)]))
  /\ buf' = Tail(buf)
  /\ flush' = (flush /\ Len(buf) > 1)
  /\ UNCHANGED <<input, pc, near, lv, d, visited, todo, nstep, pruned>>

Next ==
  \/ EnterTop \/ Skip \/ Nearer \/ Settle
  \/ Seed \/ Pop \/ Stop \/ Look \/ Add

Spec == Init /\ [][Next]_vars

\* A query runs in one thread that waits for nothing.
FairSpec == Spec /\ WF_vars(Next)

----------------------------------------------------------------------------
(* Properties.                                                             *)

Waiting == {todo[i] : i \in DOMAIN todo} \cup {buf[i] : i \in DOMAIN buf}

\* The points whose exact distance was computed.
Evaluated == visited \ (pruned \cup {buf[i] : i \in DOMAIN buf})

\* The descent reads lists of points only at levels these have, whatever the
\* shortcut predicts: the point at hand was met at a level not below.
LevelsExist ==
  pc \in {"skip", "greedy"} => lv >= 1 /\ graph.level[near] >= lv

\* "dis_0^2 >= dis_L^2 * eta^L" (IndexSHG.cpp:276): what the lower bound
\* keeps away could not become a result.
PrunedIsFarther ==
  \A p \in pruned : Full /\ \A x \in top : x.d <= dist[p]

\* The results are the k nearest of the points that were evaluated, although
\* they are added in batches, after the threshold was read.
BestOfEvaluated ==
  pc \in {"base", "done"} =>
    /\ \A x \in top : x.id \in Evaluated /\ x.d = dist[x.id]
    /\ \A p \in Evaluated :
         \/ \E x \in top : x.id = p
         \/ Full /\ \A x \in top : x.d <= dist[p]

\* With the distance check the search does not stop early: every point that
\* was evaluated and has fewer than ef others at least as near was expanded,
\* although the pool has ef places and the popped ones keep theirs.
BeamComplete ==
  pc = "done" /\ check =>
    \A p \in Evaluated :
      \/ Cardinality({q \in Evaluated \ {p} : dist[q] <= dist[p]}) >= ef
      \/ \A i \in DOMAIN Links(p, 0) : Links(p, 0)[i] \in visited

\* Every query is answered, whatever skips the shortcut predicts.
Terminates == <>(pc = "done")
=============================================================================
