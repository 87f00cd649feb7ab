------------------------------ MODULE SHGIndex ------------------------------
(***************************************************************************)
(* The life of an IndexSHG object.  The vectors are kept three times under *)
(* the same ids: in the flat storage, as nodes of the graph, and as the    *)
(* compressed vectors that all distances above the base level are taken    *)
(* from.  add and build_shortcut are IndexSHG's own; reset and             *)
(* permute_entries are inherited from IndexHNSW, which knows of the first  *)
(* two copies only.                                                        *)
(*                                                                         *)
(* A compressed vector is named by the vector it was computed from.  Which *)
(* levels are drawn, which links an insertion makes or sheds (HNSWInsert), *)
(* and which skips the density criterion accepts are left open.            *)
(***************************************************************************)
EXTENDS Integers, Sequences, FiniteSetsExt

CONSTANTS
  Vector,
  Zero,     \* a slot of compressed_vecs that was never filled
  Levels,   \* the levels that may be drawn
  MaxVecs   \* bound: the most vectors an index holds

NoOne == 0  \* entry_point = -1; ids count from 1

ASSUME ZeroAssumption  == Zero \notin Vector
ASSUME BoundAssumption == Levels \subseteq Nat /\ MaxVecs \in Nat

VARIABLES
  xb,       \* the storage; ntotal is its length
  level,    \* levels, less 1
  links,    \* links[i]: the neighbours of node i
  entry,    \* entry_point
  reps,     \* compressed_vecs
  skips,    \* the values of the shortcut; none: it is not trained
  origin    \* history: origin[i] is the number that the vector of node i had
            \* when its compressed vector was made; permute_entries moves it

hnsw      == <<level, links, entry>>
indexVars == <<xb, level, links, entry, reps, skips, origin>>

IndexInit ==
  /\ xb = <<>> /\ level = <<>> /\ links = <<>> /\ entry = NoOne
  /\ reps = <<>> /\ skips = {}
  /\ origin = <<>>

TopLevel == IF entry = NoOne THEN -1 ELSE level[entry]
Values(s) == {s[i] : i \in DOMAIN s}

----------------------------------------------------------------------------
\* Mutant: only slots that were not there before are filled.
RepsGrown(n0, stored) ==
  [i \in DOMAIN stored |-> IF i <= Len(reps) THEN reps[i] ELSE stored[i]]

\* compressed_vecs is resized to the new ntotal, and the slots of the new
\* vectors are filled, whatever they held.
Reps(n0, stored) ==
  [i \in DOMAIN stored |->
     IF i > n0 THEN stored[i] ELSE IF i <= Len(reps) THEN reps[i] ELSE Zero]

\* What an insertion up to n may make of the lists: links between old nodes
\* may go, but none is made.
Linked(n0, n) ==
  {new \in [1 .. n -> SUBSET (1 .. n)] :
     \A i \in 1 .. n : i \notin new[i] /\
       (i <= n0 => new[i] \cap 1 .. n0 \subseteq links[i])}

\* A call of add with the vectors vs, drawn to the levels ls.  The points of
\* the highest level come first, and the first of them raises the entry point.
AddVectors(vs, ls) ==
  LET n0  == Len(xb)
      top == Max(Values(ls))
  IN  /\ n0 + Len(vs) <= MaxVecs
      /\ xb' = xb \o vs
      /\ reps' = Reps(n0, xb')
      /\ level' = level \o ls
      /\ links' \in Linked(n0, n0 + Len(vs))
      /\ IF top > TopLevel
         THEN \E i \in DOMAIN ls : ls[i] = top /\ entry' = n0 + i
         ELSE UNCHANGED entry
      /\ origin' = [i \in DOMAIN xb' |-> IF i <= n0 THEN origin[i] ELSE i]
      /\ UNCHANGED skips

\* IndexHNSW::reset: the compressed vectors and the shortcut stay.
Reset ==
  /\ xb' = <<>>
  /\ level' = <<>> /\ links' = <<>> /\ entry' = NoOne
  /\ origin' = <<>>
  /\ UNCHANGED <<reps, skips>>

\* Mutant: neighbours are taken through the map itself.
RenamedByMap(perm, S) == {perm[j] : j \in S}

\* The nodes of S, given by their old ids, by their new ones.
Renamed(perm, S) == {i \in DOMAIN perm : perm[i] \in S}

\* IndexHNSW::permute_entries: perm leads from new ids to old ones.
Permute(perm) ==
  /\ xb' = [i \in DOMAIN xb |-> xb[perm[i]]]
  /\ level' = [i \in DOMAIN xb |-> level[perm[i]]]
  /\ links' = [i \in DOMAIN xb |-> Renamed(perm, links[perm[i]])]
  /\ entry' = CHOOSE i \in DOMAIN xb : perm[i] = entry
  /\ origin' = [i \in DOMAIN xb |-> origin[perm[i]]]
  /\ UNCHANGED <<reps, skips>>

\* The skips that build_shortcuts_density may sample: from a level above 1
\* of some node to a level below it.
Samples ==
  UNION {{from - to : to \in 0 .. from - 1} :
           from \in UNION {2 .. level[i] : i \in DOMAIN level}}

\* compressed_vecs is filled when it is empty, not when it is out of step.
BuildShortcut ==
  /\ xb # <<>>
  /\ reps' = IF reps = <<>> THEN xb ELSE reps
  /\ skips' \in SUBSET Samples
  /\ origin' = IF reps = <<>> THEN [i \in DOMAIN xb |-> i] ELSE origin
  /\ UNCHANGED <<xb, hnsw>>

\* Calls of add with one or two new vectors, and every permutation.
Batches == {<<v>> : v \in Vector \ Values(xb)} \cup
           {<<v, w>> : v, w \in Vector \ Values(xb)}

Perms == {p \in [DOMAIN xb -> DOMAIN xb] : Values(p) = DOMAIN xb}

IndexNext ==
  \/ \E vs \in {b \in Batches : Cardinality(Values(b)) = Len(b)} :
       \E ls \in [DOMAIN vs -> Levels] : AddVectors(vs, ls)
  \/ Reset
  \/ xb # <<>> /\ \E p \in Perms : Permute(p)
  \/ BuildShortcut

IndexSpec == IndexInit /\ [][IndexNext]_indexVars

----------------------------------------------------------------------------
\* "Compressed representations for all ntotal vectors" (IndexSHG.h:252): each
\* stored vector has its own compressed vector, in the slot of the number it
\* was added under, although reset leaves the slots of the old vectors behind
\* and permutations come between the adds.  So the slot of an id is that of its
\* vector as long as permute_entries is not called: that moves the vectors and
\* not the slots, and build_shortcut does not cure it.
RepsInStep ==
  xb # <<>> => Len(reps) = Len(xb) /\ \A i \in DOMAIN xb : reps[origin[i]] = xb[i]

\* The graph as a relation on the vectors, with its levels and its entry.
GraphOnVectors ==
  [edges |-> UNION {{<<xb[i], xb[j]>> : j \in links[i]} : i \in DOMAIN xb},
   level |-> {<<xb[i], level[i]>> : i \in DOMAIN xb},
   entry |-> xb[entry]]

GraphKept ==
  xb # <<>> /\ (\E p \in Perms : Permute(p)) => GraphOnVectors' = GraphOnVectors

\* permute_entries renames the nodes and changes nothing else: the same
\* vectors are linked, on the same levels, and the search starts at the same.
PermuteKeepsGraph == [][GraphKept]_indexVars
=============================================================================
