----------------------------- MODULE CSPGIndex -----------------------------
(***************************************************************************)
(* The life of an IndexCSPG object: add, which may be called once, reset,  *)
(* and the round trip through a stream.  add splits the vectors: a sample  *)
(* of routing vectors goes to every partition, each other vector to one,   *)
(* and it builds one HNSW graph per partition.  It may throw on the way:   *)
(* wherever it allocates memory, and in the building of a graph also when  *)
(* the interrupt callback says so.  The random choices of add are left     *)
(* open.                                                                   *)
(***************************************************************************)
EXTENDS CSPGPartitions

CONSTANTS
  LNum, LDen,  \* lambda = LNum / LDen
  Ns           \* how many vectors add may be given

ASSUME LambdaAssumption == LNum \in Nat \ {0} /\ LDen \in Nat /\ LNum < LDen
ASSUME NsAssumption     == Ns \subseteq Nat \ {0}

VARIABLES
  ntotal,
  routing,  \* num_routing
  refn,     \* refunction: the vectors of each partition, by local id
  g2l,      \* global_to_local, a function on the vectors
  shared,   \* how many vectors shared_flat holds, or -1: no storage
  parts,    \* partitions: sizes of the graphs, -1: null; <<>>: none
  file,     \* the stream written last
  failed    \* history: an add threw and nothing cured it, in the "split"
            \* or with the split made, in what follows ("build")

object    == <<ntotal, routing, refn, g2l, shared, parts>>
indexVars == <<ntotal, routing, refn, g2l, shared, parts, file, failed>>

Empty == [ntotal |-> 0, routing |-> 0, refn |-> <<>>, g2l |-> <<>>,
          shared |-> -1, parts |-> <<>>]

Holds(o) ==
  /\ ntotal' = o.ntotal /\ routing' = o.routing /\ refn' = o.refn
  /\ g2l' = o.g2l /\ shared' = o.shared /\ parts' = o.parts

IndexInit ==
  /\ ntotal = 0 /\ routing = 0 /\ refn = <<>> /\ g2l = <<>>
  /\ shared = -1 /\ parts = <<>>
  /\ file = Empty
  /\ failed = "no"

----------------------------------------------------------------------------
\* At least one and less than all, the second bound winning.
NumRouting(n) ==
  LET r == (n * LNum) \div LDen
      s == IF r < 1 THEN 1 ELSE r
  IN  IF s >= n THEN n - 1 ELSE s

\* The members of S from the least to the greatest.
InOrder(S) ==
  [i \in 1 .. Cardinality(S) |->
     CHOOSE g \in S : Cardinality({h \in S : h < g}) = i - 1]

\* Mutant: the sample is not taken out of what is dealt to the partitions.
DealtWithSample(n, R, home, h) ==
  [p \in Part |-> InOrder(R) \o InOrder({g \in 0 .. n - 1 : home[g] = p /\ g < h})]

\* refunction when the vectors below h are dealt: the sample, then those that
\* the partition got.
Dealt(n, R, home, h) ==
  [p \in Part |->
     InOrder(R) \o InOrder({g \in (0 .. n - 1) \ R : home[g] = p /\ g < h})]

Split(n, R, home) == Dealt(n, R, home, n)

\* global_to_local: the first partition that has the vector, and where.  It is
\* resized, not cleared, and an entry that it had stays.
ReverseMap(n, f, old) ==
  [g \in 0 .. n - 1 |->
     IF g \in DOMAIN old THEN old[g] ELSE
     LET p == CHOOSE p \in Part :
                /\ \E j \in DOMAIN f[p] : f[p][j] = g
                /\ \A q \in Part : q < p => \A j \in DOMAIN f[q] : f[q][j] # g
     IN  <<p, (CHOOSE j \in DOMAIN f[p] : f[p][j] = g) - 1>>]

Deals(n) ==
  {R \in SUBSET (0 .. n - 1) : Cardinality(R) = NumRouting(n)}
    \X [0 .. n - 1 -> Part]

\* The object while add is under way, with the count of the vectors.
Made(n, f, map, storage, graphs) ==
  [ntotal |-> n, routing |-> NumRouting(n), refn |-> f, g2l |-> map,
   shared |-> storage, parts |-> graphs]

\* The object when the graphs of the partitions below upto are built.
Built(n, f, upto) ==
  Made(n, f, ReverseMap(n, f, g2l), n,
       [p \in Part |-> IF p < upto THEN Len(f[p]) ELSE -1])

Add(n, R, home) ==
  /\ ntotal = 0
  /\ Holds(Built(n, Split(n, R, home), NP))
  /\ UNCHANGED <<file, failed>>

\* add throws at an allocation before the split is complete: no partition, some
\* partitions without the sample, or some vectors not yet dealt.
AddFailsInSplit(n, R, home) ==
  /\ ntotal = 0
  /\ \E f \in {<<>>} \cup {[p \in Part |-> IF p < q THEN InOrder(R) ELSE <<>>] : q \in Part}
                \cup {Dealt(n, R, home, h) : h \in 0 .. n - 1} :
       Holds(Made(n, f, g2l, shared, parts))
  /\ failed' = "split"
  /\ UNCHANGED file

\* add throws later: no reverse map yet, no storage or an empty one, no table
\* of graphs, or no graph of the partitions from upto on.
AddFailsInBuild(n, R, home) ==
  /\ ntotal = 0
  /\ LET f == Split(n, R, home) IN
       \/ Holds(Made(n, f, g2l, shared, parts))
       \/ \E s \in {-1, 0, n} : Holds(Made(n, f, ReverseMap(n, f, g2l), s, parts))
       \/ \E upto \in Part : Holds(Built(n, f, upto))
  /\ failed' = "build"
  /\ UNCHANGED file

\* Mutant: the count of the vectors stays.
ResetKeepsCount ==
  /\ Holds([Empty EXCEPT !.ntotal = ntotal])
  /\ failed' = "no"
  /\ UNCHANGED file

\* Mutant: the reverse map stays.
ResetKeepsMap ==
  /\ Holds([Empty EXCEPT !.g2l = g2l])
  /\ failed' = "no"
  /\ UNCHANGED file

Reset ==
  /\ Holds(Empty)
  /\ failed' = "no"
  /\ UNCHANGED file

\* write_index of an index that has vectors and all its graphs; without them
\* it would use refunction and the partitions where there are none.
Write ==
  /\ ntotal > 0 /\ failed = "no"
  /\ file' = [ntotal |-> ntotal, routing |-> routing, refn |-> refn,
              g2l |-> g2l, shared |-> shared, parts |-> parts]
  /\ UNCHANGED <<object, failed>>

\* read_index makes a new object of the stream.  When it throws, that object is
\* destroyed and the index there was is untouched.
Read ==
  /\ file # Empty
  /\ Holds(file)
  /\ failed' = "no"
  /\ UNCHANGED file

IndexNext ==
  \/ \E n \in Ns : \E c \in Deals(n) : Add(n, c[1], c[2])
  \/ \E n \in Ns : \E c \in Deals(n) : AddFailsInSplit(n, c[1], c[2])
  \/ \E n \in Ns : \E c \in Deals(n) : AddFailsInBuild(n, c[1], c[2])
  \/ Reset \/ Write \/ Read

IndexSpec == IndexInit /\ [][IndexNext]_indexVars

----------------------------------------------------------------------------
Vecs == 0 .. ntotal - 1

\* How often vector g is in partition p.
Times(g, p) == Cardinality({j \in DOMAIN refn[p] : refn[p][j] = g})

\* The invariants that benchs/verify_cspg_invariants.py tests on a random
\* index (checks 1-3): all partitions begin with the same routing vectors,
\* which are nowhere else, and each other vector is in one place altogether,
\* unless an add threw in the middle of the split.
Sample == {refn[0][j] : j \in 1 .. routing}

SplitSound ==
  ntotal > 0 /\ failed # "split" =>
    /\ \A p \in Part : \A j \in 1 .. routing : refn[p][j] = refn[0][j]
    /\ \A g \in Sample, p \in Part : Times(g, p) = 1
    /\ \A g \in Vecs \ Sample :
         \E p \in Part : /\ Times(g, p) = 1
                         /\ \A q \in Part \ {p} : Times(g, q) = 0

\* global_to_local leads to a place that refunction maps back to the vector.
ReverseSound ==
  \A g \in DOMAIN g2l :
    LET p == g2l[g][1]  j == g2l[g][2] + 1 IN
      p \in DOMAIN refn /\ j \in DOMAIN refn[p] /\ refn[p][j] = g

\* The id maps of all partitions describe one split of the vectors, the present
\* one: an add after a reset, also after one that threw anywhere, finds nothing
\* of the split before.
OneSplit == SplitSound /\ ReverseSound

\* search follows every partition as soon as ntotal > 0, and takes local ids
\* of its graph through refunction into shared_flat: the three agree, and
\* are there, unless an add threw (reset cures that, and a new object).  It
\* starts in partition 0, which has a vector to start from, and "num_routing
\* should be positive" (verify_cspg_invariants.py:57).  A single vector is no
\* routing vector, and is never found in another partition.
SearchDefined ==
  /\ ntotal > 0 /\ failed = "no" =>
       /\ shared = ntotal
       /\ \A p \in Part : parts[p] = Len(refn[p])
       /\ \A p \in Part : \A j \in DOMAIN refn[p] : refn[p][j] \in Vecs
  /\ ntotal > 1 /\ failed # "split" => routing > 0 /\ Len(refn[0]) > 0
=============================================================================
