----------------------------- MODULE SuCoIndex -----------------------------
(***************************************************************************)
(* The life of one IndexSuCo object: train, add, reset, write_index and    *)
(* read_index, with the two ways a call stops half way.  An interrupt      *)
(* callback makes the distance kernel (or k-means) that train and add call *)
(* throw, and a stream that was cut short (SUCO_WRITE1 ignores short       *)
(* writes) makes read_index throw after it has overwritten some fields.    *)
(*                                                                         *)
(* Data.  A vector is a model value, a training result is a model value    *)
(* that fixes the bucket of every vector in every subspace, and an         *)
(* inverted list is the number of times each id occurs in it: the order of *)
(* a bucket is never looked at.  Objects and streams are of one shape (d,  *)
(* nsubspaces, ncentroids_half).                                           *)
(***************************************************************************)
EXTENDS Integers, Sequences
LOCAL INSTANCE FiniteSetsExt

CONSTANTS
  NS,        \* nsubspaces
  Bucket,    \* the ncentroids_half^2 buckets of a subspace
  Vector,    \* the vectors that may be added
  Model,     \* what a completed k-means may learn
  Blank,     \* centroids that are not those of one training: never learned,
             \* learned in part, or overwritten in part
  Junk,      \* the same of a vector
  CellOf,    \* CellOf[m][s][v]: bucket of v in subspace s under m
  Batches,   \* the batches add() may be given
  MaxVecs,   \* bound: the most vectors xb holds in a run
  MaxStops   \* bound: how many calls stop half way in a run

Sub == 1 .. NS
Ids == 0 .. MaxVecs - 1

ASSUME NSAssumption     == NS \in Nat \ {0}
ASSUME BlankAssumption  == Blank \notin Model /\ Junk \notin Vector
ASSUME CellOfAssumption == CellOf \in [Model \cup {Blank} -> [Sub -> [Vector -> Bucket]]]
ASSUME BatchAssumption  == Batches \subseteq Seq(Vector) \ {<<>>}
ASSUME BoundAssumption  == MaxVecs \in Nat \ {0} /\ MaxStops \in Nat

VARIABLES
  trained,  \* is_trained
  ntotal,
  cents,    \* centroids
  lists,    \* inv_lists: lists[s][b][id] occurrences of id
  xb,       \* the raw vectors, in the order of their ids
  file,     \* what the last write_index was asked to write
  cut,      \* how many chunks of it reached the disk
  damage,   \* history: a call stopped half way and nothing cured it since,
            \* "torn" if it was a read into a trained index
  fileDamage, \* history: damage when the file was written
  stops     \* how many calls stopped half way so far

object  == <<trained, ntotal, cents, lists, xb>>
stream  == <<file, cut, fileDamage>>
vars    == <<trained, ntotal, cents, lists, xb,
             file, cut, damage, fileDamage, stops>>

NoLists == [s \in Sub |-> [b \in Bucket |-> [i \in Ids |-> 0]]]
Whole   == NS + 3

Init ==
  /\ trained = FALSE
  /\ ntotal = 0
  /\ cents = Blank
  /\ lists = NoLists
  /\ xb = <<>>
  /\ file = [ntotal |-> 0, cents |-> Blank, lists |-> NoLists, xb |-> <<>>]
  /\ cut = 0
  /\ damage = "none"
  /\ fileDamage = "none"
  /\ stops = 0

----------------------------------------------------------------------------
\* Mutant: the stored vectors survive.
ClearedButVectors ==
  /\ lists' = NoLists
  /\ xb' = xb
  /\ ntotal' = 0
  /\ damage' = "none"
  /\ UNCHANGED <<stream, stops>>

(* The first thing train does is what reset does.                          *)
Cleared ==
  /\ lists' = NoLists
  /\ xb' = <<>>
  /\ ntotal' = 0
  /\ damage' = "none"
  /\ UNCHANGED <<stream, stops>>

Reset ==
  /\ Cleared
  /\ cents' = Blank
  /\ trained' = FALSE

Train(m) ==
  /\ Cleared
  /\ cents' = m
  /\ trained' = TRUE

\* k-means of some half throws: the centroids after it were never filled in.
TrainInterrupted ==
  /\ Cleared
  /\ cents' = Blank
  /\ trained' = FALSE

----------------------------------------------------------------------------
Stops == stops < MaxStops /\ stops' = stops + 1

Fits(batch) ==
  /\ Len(xb) + Len(batch) <= MaxVecs
  /\ ntotal + Len(batch) <= MaxVecs

\* Mutant: base_id is one too small once there are vectors.
PushedOffByOne(batch, upto) ==
  LET base == IF ntotal = 0 THEN 0 ELSE ntotal - 1 IN
  [s \in Sub |-> [b \in Bucket |-> [i \in Ids |->
     IF /\ s <= upto
        /\ base <= i /\ i < base + Len(batch)
        /\ CellOf[cents][s][batch[i - base + 1]] = b
     THEN lists[s][b][i] + 1
     ELSE lists[s][b][i]]]]

\* inv_lists after the subspaces 1 .. upto have taken the ids of the batch.
Pushed(batch, upto) ==
  [s \in Sub |-> [b \in Bucket |-> [i \in Ids |->
     IF /\ s <= upto
        /\ ntotal <= i /\ i < ntotal + Len(batch)
        /\ CellOf[cents][s][batch[i - ntotal + 1]] = b
     THEN lists[s][b][i] + 1
     ELSE lists[s][b][i]]]]

Add(batch) ==
  /\ trained
  /\ Fits(batch)
  /\ xb' = xb \o batch
  /\ lists' = Pushed(batch, NS)
  /\ ntotal' = ntotal + Len(batch)
  /\ UNCHANGED <<trained, cents, damage, stream, stops>>

\* Mutant: the vectors are stored when all subspaces are done.
AddInterruptedStoresLast(batch, upto) ==
  /\ trained
  /\ Fits(batch)
  /\ lists' = Pushed(batch, upto)
  /\ damage' = IF damage = "torn" THEN "torn" ELSE "partial"
  /\ Stops
  /\ UNCHANGED <<trained, cents, ntotal, xb, stream>>

\* assign_to_centroids throws in subspace upto + 1: the vectors are stored,
\* the subspaces before it have the new ids, and ntotal does not count them.
AddInterrupted(batch, upto) ==
  /\ trained
  /\ Fits(batch)
  /\ xb' = xb \o batch
  /\ lists' = Pushed(batch, upto)
  /\ damage' = IF damage = "torn" THEN "torn" ELSE "partial"
  /\ Stops
  /\ UNCHANGED <<trained, cents, ntotal, stream>>

----------------------------------------------------------------------------
(* Nothing tells the caller how much of the stream was written.            *)
WriteIndex(c) ==
  /\ trained
  /\ file' = [ntotal |-> ntotal, cents |-> cents, lists |-> lists, xb |-> xb]
  /\ cut' = c
  /\ fileDamage' = damage
  /\ UNCHANGED <<object, damage, stops>>

\* Mutant: the vectors read are appended to the ones the object has.
ReadIndexAppends ==
  /\ cut = Whole
  /\ ntotal' = file.ntotal
  /\ cents' = file.cents
  /\ lists' = file.lists
  /\ xb' = xb \o file.xb
  /\ trained' = TRUE
  /\ damage' = fileDamage
  /\ UNCHANGED <<stream, stops>>

ReadIndex ==
  /\ cut = Whole
  /\ ntotal' = file.ntotal
  /\ cents' = file.cents
  /\ lists' = file.lists
  /\ xb' = file.xb
  /\ trained' = TRUE
  /\ damage' = fileDamage
  /\ UNCHANGED <<stream, stops>>

\* How many entries a bucket has.
Size(bucket) == MapThenSumSet(LAMBDA i : bucket[i], Ids)

\* A bucket that was resized and read in part: as many entries as the stream
\* has, which are ids of the stream, ids that were there, and zeros.
TornBucket(old, new) ==
  {old} \cup {t \in [Ids -> 0 .. Size(new)] :
                Size(t) = Size(new) /\ \A i \in Ids \ {0} : t[i] <= old[i] + new[i]}

\* A subspace of which some buckets are read, and one more in part.
TornLists(old, new) ==
  UNION {UNION {{[b \in Bucket |-> IF b = last THEN t ELSE IF b \in read THEN new[b] ELSE old[b]] :
                   t \in TornBucket(old[last], new[last])} :
                read \in SUBSET Bucket} :
         last \in Bucket}

\* xb as it was, or resized and read up to a part of vector n.
TornVectors(old, new) ==
  {old} \cup {[i \in DOMAIN new |-> IF i < n THEN new[i]
                                   ELSE IF n < i /\ i <= Len(old) THEN old[i]
                                   ELSE Junk] : n \in DOMAIN new}

\* The stream ends in the chunk after the first cut ones (header, centroids,
\* one chunk per subspace, vectors).  What was read has been stored, the
\* other fields keep what the object had, and is_trained is what it was.  The
\* reads of the header are not checked: ntotal is whatever a local variable
\* held when it did not arrive.
Interrupted(c) ==
  /\ ntotal' \in IF c = 0 THEN 0 .. MaxVecs ELSE {file.ntotal}
  /\ cents' \in IF c = 0 THEN {cents} ELSE IF c = 1 THEN {cents, Blank} ELSE {file.cents}
  /\ \E new \in IF c - 1 \in Sub THEN TornLists(lists[c - 1], file.lists[c - 1]) ELSE {{}} :
       lists' = [s \in Sub |-> IF s < c - 1 THEN file.lists[s]
                              ELSE IF s = c - 1 THEN new ELSE lists[s]]
  /\ xb' \in IF c = Whole - 1 THEN TornVectors(xb, file.xb) ELSE {xb}

\* Mutant: is_trained is set with the header.
ReadIndexFailsOpen ==
  /\ cut < Whole
  /\ Interrupted(cut)
  /\ trained' = TRUE
  /\ damage' = IF trained THEN "torn" ELSE "partial"
  /\ Stops
  /\ UNCHANGED stream

ReadIndexFails ==
  /\ cut < Whole
  /\ Interrupted(cut)
  /\ damage' = IF trained THEN "torn" ELSE "partial"
  /\ Stops
  /\ UNCHANGED <<trained, stream>>

Next ==
  \/ Reset
  \/ \E m \in Model : Train(m)
  \/ TrainInterrupted
  \/ \E batch \in Batches : Add(batch)
  \/ \E batch \in Batches, upto \in 0 .. NS - 1 : AddInterrupted(batch, upto)
  \/ \E c \in 0 .. Whole : WriteIndex(c)
  \/ ReadIndex
  \/ ReadIndexFails

Spec == Init /\ [][Next]_vars

----------------------------------------------------------------------------
Lists  == [Sub -> [Bucket -> [Ids -> Nat]]]
Cents  == Model \cup {Blank}
Stored == Seq(Vector \cup {Junk})
Damage == {"none", "partial", "torn"}

\* Every field has the shape the C++ types give it.
TypeOK ==
  /\ trained \in BOOLEAN
  /\ ntotal \in 0 .. MaxVecs
  /\ cents \in Cents
  /\ lists \in Lists
  /\ xb \in Stored
  /\ file \in [ntotal : 0 .. MaxVecs, cents : Cents, lists : Lists, xb : Stored]
  /\ cut \in 0 .. Whole
  /\ damage \in Damage
  /\ fileDamage \in Damage
  /\ stops \in 0 .. MaxStops

\* Centroids c, lists l and vectors x fit each other and the count n: in
\* each subspace every id below n is once in the bucket of its own vector
\* and nowhere else, and no other id is anywhere.
Fit(c, l, x, n) ==
  /\ c \in Model /\ Len(x) = n
  /\ \A s \in Sub, b \in Bucket, i \in Ids :
       l[s][b][i] = IF i < n /\ CellOf[c][s][x[i + 1]] = b THEN 1 ELSE 0

\* Unless a call stopped half way, a trained index is coherent: search finds
\* each stored vector exactly once per subspace, in its bucket, under the id
\* that rerank looks it up with in xb (add, rerank), and an untrained one
\* holds nothing.  So reset, train and a complete read cure any damage, and
\* an interrupted train does none.
Coherent ==
  damage = "none" => IF trained THEN Fit(cents, lists, xb, ntotal)
                     ELSE lists = NoLists /\ xb = <<>> /\ ntotal = 0

\* Centroids that were all learned in one training, and a vector for every
\* number that search may look up in xb: those below n, and the ids in lists.
Backed(c, l, x, n) ==
  /\ c \in Model /\ n <= Len(x)
  /\ \A s \in Sub, b \in Bucket, i \in Ids : l[s][b][i] > 0 => i < Len(x)

\* An index that search and add accept (is_trained) is backed, also after adds
\* that were interrupted, called again and interrupted again, after an
\* interrupted train, and after reads that failed on an object that was not
\* trained: these leave it closed.  It stays so when the damaged index is
\* written and read.  Only a read that stops in an index that is open already
\* breaks this, since read_index does not close it first.
OpenIsBacked ==
  trained /\ damage # "torn" => Backed(cents, lists, xb, ntotal)

\* "Raw added vectors, stored as a flat row-major array of size ntotal * d"
\* (IndexSuCo.h:166-168): xb holds as many vectors as ntotal says.
VectorsMatchCount == Len(xb) = ntotal
=============================================================================
