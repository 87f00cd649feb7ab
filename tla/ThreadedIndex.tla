---------------------------- MODULE ThreadedIndex ----------------------------
(***************************************************************************)
(* The users of WorkerThread: ThreadedIndex, which gives each sub-index a  *)
(* worker and runs functions on all of them, with IndexShards (the vectors *)
(* are spread over the sub-indexes) and IndexReplicas (each has all) on    *)
(* top of it; IndexSplitVectors, which makes workers for one search; and a *)
(* plain user of the class.                                                *)
(*                                                                         *)
(* Searches may run at the same time.  Any other call is alone ("The       *)
(* interface to this class itself is not thread safe", ThreadedIndex.h:19).*)
(* A vector is the number its adder knows it by.  Sub-indexes are trained. *)
(***************************************************************************)
EXTENDS WorkerThread, SequencesExt

CONSTANTS
  Kinds,    \* of "shards", "successive" (successive_ids), "replicas", "split"
            \* and "plain"
  Caller,   \* 1 .. n: the threads that make calls
  Batches,  \* how many vectors an add brings
  Queries,  \* how many queries a search brings
  MaxCalls, \* bound: calls in a run
  MaxRaises \* bound: sub-index functions that throw in a run

ASSUME CallerAssumption ==
  /\ Caller \subseteq Nat
  /\ Task = Caller \X {"hello", "work"}

ASSUME KindAssumption == Kinds \subseteq {"shards", "successive", "replicas", "split", "plain"}
ASSUME SizeAssumption == Batches \subseteq Nat /\ Queries \subseteq Nat

VARIABLES
  kind,
  indices,    \* indices_: a worker stands for its index
  contents,   \* contents[w]: the vectors of a sub-index, each with its label
  ntotal,
  committed,  \* history: vectors in calls of add that returned
  dirty,      \* history: sub-indexes may differ from what the adders know
  call,       \* call[c]: the call c works on
  calls, raises

topVars == <<kind, indices, contents, ntotal, committed, dirty>>
vars    == <<workerVars, topVars, call, calls, raises>>

\* The call: phase, the workers it is about, the one it has come to, how many
\* vectors or queries, whether a function raised, and the search results.
Nothing == [w \in Worker |-> [qs |-> {}, found |-> <<>>]]
NoCall  == [op |-> "none", ph |-> "idle", ws |-> <<>>, j |-> 0, size |-> 0,
            raised |-> FALSE, got |-> Nothing]

Init ==
  /\ WorkerInit
  /\ kind \in Kinds
  /\ indices = <<>>
  /\ contents = [w \in Worker |-> <<>>]
  /\ ntotal = 0 /\ committed = 0 /\ dirty = FALSE
  /\ call = [c \in Caller |-> NoCall]
  /\ calls = 0 /\ raises = 0

----------------------------------------------------------------------------
(* What the functions do to a sub-index.                                   *)

Sharded == kind \in {"shards", "successive"}

\* Where the vectors for shard no of k begin in a batch of n: i0, i1.
Cut(n, no, k) == (no * n) \div k

\* Mutant: the last of a slice is left to nobody.
SliceShort(n, no, k) ==
  [i \in 1 .. Cut(n, no + 1, k) - Cut(n, no, k) - 1 |-> Cut(n, no, k) + i - 1]

\* The vectors of a batch of n for shard no of k, from 0.
Slice(n, no, k) ==
  [i \in 1 .. Cut(n, no + 1, k) - Cut(n, no, k) |-> Cut(n, no, k) + i - 1]

\* The number of w in its call, from 0.
No(c, w) == CHOOSE i \in 0 .. Len(call[c].ws) - 1 : call[c].ws[i + 1] = w

Part(c, w) ==
  IF Sharded THEN Slice(call[c].size, No(c, w), Len(call[c].ws))
             ELSE [i \in 1 .. call[c].size |-> i - 1]

\* IndexShards numbers the vectors from ntotal on, unless successive_ids; else
\* a sub-index numbers its own.
Added(c, w) ==
  LET is == Part(c, w)
  IN  [i \in DOMAIN is |->
         [v |-> committed + is[i],
          id |-> IF kind = "shards" THEN ntotal + is[i] ELSE Len(contents[w]) + i - 1]]

\* The sizes of the first i of ws.
Translations(ws) ==
  LET translations[i \in 0 .. Len(ws)] ==
        IF i = 0 THEN 0 ELSE translations[i - 1] + Len(contents[ws[i]])
  IN  translations

\* The shift of the labels of w, from the sizes of the shards before it.
Translation(c, w) ==
  IF kind = "successive" THEN Translations(call[c].ws)[No(c, w)] ELSE 0

\* IndexReplicas deals the queries out; elsewhere all get all of them.
Asked(c, w) ==
  LET n   == call[c].size
      k   == Len(call[c].ws)
      per == (n + k - 1) \div k
      no  == No(c, w)
  IN  IF kind = "replicas" THEN {q \in 0 .. n - 1 : no * per <= q /\ q < (no + 1) * per}
                           ELSE 0 .. n - 1

Found(c, w) ==
  [i \in DOMAIN contents[w] |->
     [contents[w][i] EXCEPT !.id = @ + Translation(c, w)]]

\* The task at hand returns ...
Does(w) ==
  /\ thread[w] = "run"
  /\ LET c == data[w][1]
         work == data[w][2] = "work"
     IN
      /\ contents' = IF ~work THEN contents
                     ELSE CASE call[c].op = "add" -> [contents EXCEPT ![w] = @ \o Added(c, w)]
                            [] call[c].op = "reset" -> [contents EXCEPT ![w] = <<>>]
                            [] OTHER -> contents
      /\ call' = IF work /\ call[c].op = "search"
                 THEN [call EXCEPT ![c].got[w] = [qs |-> Asked(c, w), found |-> Found(c, w)]]
                 ELSE call
      /\ Runs(w, "true")
      /\ UNCHANGED <<kind, indices, ntotal, committed, dirty, calls, raises>>

\* ... or throws, before it changed the sub-index.
Raises(w) ==
  /\ thread[w] = "run" /\ data[w][2] = "work"
  /\ raises < MaxRaises
  /\ raises' = raises + 1
  /\ Runs(w, "raised")
  /\ UNCHANGED <<topVars, call, calls>>

----------------------------------------------------------------------------
(* The calls.                                                              *)

Open == {c \in Caller : call[c].ph # "idle"}

\* Which calls may go on at the same time.
Together(op) ==
  \A c \in Open : IF kind = "plain" THEN "post" \in {op, call[c].op} /\ "addIndex" \notin {op, call[c].op}
                                    ELSE {op, call[c].op} = {"search"}

\* Callers that do nothing are alike: the first of them makes the next call.
Begin(op, ph, ws, size) ==
  /\ calls < MaxCalls /\ Open # Caller
  /\ Together(op)
  /\ calls' = calls + 1
  /\ call' = [call EXCEPT ![CHOOSE c \in Caller \ Open : \A d \in Caller \ Open : c <= d] =
                [op |-> op, ph |-> ph, ws |-> ws, j |-> 1, size |-> size,
                 raised |-> FALSE, got |-> Nothing]]
  /\ UNCHANGED <<workerVars, topVars, raises>>

\* An index that is in the collection is refused before anything is done.
AddIndex(w) == kind # "split" /\ ~Contains(indices, w) /\ Begin("addIndex", "make", <<w>>, 0)

RemoveIndex(w) ==
  /\ kind \notin {"split", "plain"} /\ Contains(indices, w)
  /\ Begin("removeIndex", "close", <<w>>, 0)

Destroy == kind \notin {"split", "plain"} /\ Begin("destroy", "close", indices, 0)

\* With successive_ids add works once.
AddVectors(n) ==
  /\ kind \notin {"split", "plain"} /\ indices # <<>>
  /\ kind = "successive" => ntotal = 0
  /\ Begin("add", "post", indices, n)

Reset == kind \notin {"split", "plain"} /\ indices # <<>> /\ Begin("reset", "post", indices, 0)

Search(n) ==
  \/ kind \notin {"split", "plain"} /\ indices # <<>> /\ Begin("search", "post", indices, n)
  \/ /\ kind = "split" /\ Open = {}  \* Each search has workers of its own.
     /\ Begin("search", "make", SetToSeq(Worker), n)

\* A plain user adds a task, or stops the worker and waits for its end.
Post(w) == kind = "plain" /\ Contains(indices, w) /\ Begin("post", "post", <<w>>, 0)
Halt(w) == kind = "plain" /\ Contains(indices, w) /\ Begin("halt", "close", <<w>>, 0)

----------------------------------------------------------------------------
(* How a call goes on.                                                     *)

At(c, ph)  == call[c].ph = ph /\ call[c].j <= Len(call[c].ws)
W(c)       == call[c].ws[call[c].j]
To(c, ph)  == call' = [call EXCEPT ![c].ph = ph]
AtEnd(c)   == call[c].j = Len(call[c].ws)

\* On to the next worker, or to phase end when there is none.
NextOr(c, ph, end) ==
  call' = [call EXCEPT ![c].ph = IF AtEnd(c) THEN end ELSE ph,
                       ![c].j = IF AtEnd(c) THEN 1 ELSE @ + 1]

Makes(c) ==
  /\ At(c, "make") /\ Start(W(c)) /\ To(c, "greet")
  /\ UNCHANGED <<topVars, calls, raises>>

\* "Make sure that the thread has started before continuing"
Greets(c) ==
  /\ At(c, "greet") /\ Add(W(c), <<c, "hello">>) /\ To(c, "hello")
  /\ UNCHANGED <<topVars, calls, raises>>

IsMade(c) ==
  /\ At(c, "hello") /\ future[<<c, "hello">>][W(c)] # "pending"
  /\ To(c, IF call[c].op = "addIndex" THEN "after" ELSE "post")
  /\ UNCHANGED <<workerVars, topVars, calls, raises>>

Posts(c) ==
  /\ At(c, "post") /\ Add(W(c), <<c, "work">>)
  /\ NextOr(c, IF kind = "split" THEN "make" ELSE "post", "wait")
  /\ UNCHANGED <<topVars, calls, raises>>

\* Mutant: the first exception ends the wait.
WaitsForOne(c) ==
  /\ At(c, "wait")
  /\ LET f == future[<<c, "work">>][W(c)] IN
     /\ f # "pending"
     /\ call' = IF f = "raised" \/ AtEnd(c)
                THEN [call EXCEPT ![c].raised = (f = "raised"), ![c].ph = "after"]
                ELSE [call EXCEPT ![c].j = @ + 1]
  /\ UNCHANGED <<workerVars, topVars, calls, raises>>

\* waitAndHandleFutures waits for all, whatever they raise; IndexSplitVectors
\* leaves at the first exception, and its workers are destroyed.
Waits(c) ==
  /\ At(c, "wait")
  /\ LET f   == future[<<c, "work">>][W(c)]
         end == IF kind = "split" THEN "close" ELSE "after"
         leaves == AtEnd(c) \/ (kind = "split" /\ f = "raised")
     IN
     /\ f # "pending"
     /\ call' = [call EXCEPT ![c].raised = @ \/ f = "raised",
                             ![c].ph = IF leaves THEN end ELSE @,
                             ![c].j = IF leaves THEN 1 ELSE @ + 1]
  /\ UNCHANGED <<workerVars, topVars, calls, raises>>

Closes(c) ==
  /\ At(c, "close") /\ Stop(W(c)) /\ To(c, "join")
  /\ UNCHANGED <<topVars, calls, raises>>

\* waitForThreadExit
Joins(c) ==
  /\ At(c, "join") /\ thread[W(c)] = "gone"
  /\ NextOr(c, "close", "after")
  /\ UNCHANGED <<workerVars, topVars, calls, raises>>

\* syncWithSubIndexes over the collection ws: the vectors it counts; replicas
\* that differ make it throw.
Counted(ws) ==
  IF ws = <<>> THEN 0
  ELSE IF kind = "replicas" THEN Len(contents[ws[1]])
  ELSE Translations(ws)[Len(ws)]

Differ(ws) == kind = "replicas" /\ \E i \in DOMAIN ws : Len(contents[ws[i]]) # Len(contents[ws[1]])

\* The end of a call, by what was called.  An exception leaves what was done.
Ended(c) ==
  LET op == call[c].op
      w  == call[c].ws[1]
      n  == call[c].size
  IN  \/ /\ op \in {"search", "post", "halt"} \/ (call[c].raised /\ op \in {"add", "reset"})
         /\ dirty' = (dirty \/ op \in {"add", "reset"})
         /\ UNCHANGED <<indices, ntotal, committed>>
      \/ /\ op = "addIndex"
         /\ indices' = Append(indices, w)
         /\ dirty' = (dirty \/ IF kind = "replicas" /\ indices # <<>>
                               THEN contents[w] # contents[indices[1]]
                               ELSE contents[w] # <<>>)
         /\ ntotal' = IF kind = "replicas" /\ indices # <<>> THEN ntotal
                      ELSE Counted(indices')
         /\ UNCHANGED committed
      \/ /\ op = "removeIndex"
         /\ indices' = RemoveAt(indices, CHOOSE i \in DOMAIN indices : indices[i] = w)
         /\ dirty' = (dirty \/ (contents[w] # <<>> /\ (Sharded \/ indices' = <<>>)))
         /\ ntotal' = Counted(indices')
         /\ UNCHANGED committed
      \/ /\ op = "destroy"  \* The next index is added to a new aggregate.
         /\ indices' = <<>> /\ ntotal' = 0
         /\ dirty' = (dirty \/ committed > 0)
         /\ UNCHANGED committed
      \/ /\ op = "add" /\ ~call[c].raised
         /\ ntotal' = Counted(indices)
         /\ committed' = committed + n
         /\ dirty' = (dirty \/ Differ(indices))
         /\ UNCHANGED indices
      \/ /\ op = "reset" /\ ~call[c].raised
         /\ ntotal' = 0
         /\ committed' = 0
         /\ dirty' = FALSE
         /\ UNCHANGED indices

Returns(c) ==
  /\ call[c].ph = "after" \/ (call[c].ph = "close" /\ call[c].ws = <<>>)
  /\ Ended(c)
  /\ call' = [call EXCEPT ![c] = NoCall]
  /\ future' = [t \in Task |-> IF t[1] = c THEN [w \in Worker |-> "none"] ELSE future[t]]
  /\ UNCHANGED <<queue, wantStop, thread, data, kind, contents, calls, raises>>

CallStep(c) ==
  \/ Makes(c) \/ Greets(c) \/ IsMade(c) \/ Posts(c) \/ Waits(c)
  \/ Closes(c) \/ Joins(c) \/ Returns(c)

WorkerStep(w) ==
  \/ Does(w) \/ Raises(w)
  \/ MainStep(w) /\ UNCHANGED <<topVars, call, calls, raises>>

Calls ==
  \/ \E w \in Worker : AddIndex(w) \/ RemoveIndex(w) \/ Post(w) \/ Halt(w)
  \/ \E n \in Batches : AddVectors(n)
  \/ \E n \in Queries : Search(n)
  \/ Reset \/ Destroy

Next ==
  \/ Calls
  \/ \E c \in Caller : CallStep(c)
  \/ \E w \in Worker :
       \/ WorkerStep(w)
       \/ Spurious(w) /\ UNCHANGED <<topVars, call, calls, raises>>

Spec == Init /\ [][Next]_vars

\* Threads that can go on do, the callers inside of a call and the workers.
FairSpec ==
  /\ Spec
  /\ \A c \in Caller : WF_vars(CallStep(c))
  /\ \A w \in Worker : WF_vars(WorkerStep(w))

----------------------------------------------------------------------------
\* A task is in the queue or in the hands of a worker only while the call it
\* belongs to is open, also when a function before it raised ("Blocking
\* wait for completion for all of the indices", ThreadedIndex-inl.h:175): it writes
\* to the results of nobody who left.  An index that was removed, or was in an
\* aggregate that was destroyed, has no thread that could touch it (inl.h:93-94).
NoLateTask ==
  \A w \in Worker :
    /\ \A t \in Task : Places(t, w) > 0 => t[1] \in Open
    /\ ~Contains(indices, w) /\ (\A c \in Open : ~Contains(call[c].ws, w))
         => thread[w] \in {"none", "gone"}

\* A search finds each vector that was added once, under the number its adder
\* knows it by, for each query, whatever other searches are under way and
\* whatever sub-index the vector or the query was given to; unless a call
\* raised, or a shard with vectors came or went, since the last reset.
SearchExact ==
  \A c \in Caller :
    call[c].ph = "after" /\ call[c].op = "search" /\ ~call[c].raised
      /\ ~dirty /\ kind # "split" =>
      \A q \in 0 .. call[c].size - 1 :
        LET ws == {u \in ToSet(call[c].ws) : q \in call[c].got[u].qs}
            found(w) == ToSet(call[c].got[w].found)
        IN  /\ UNION {found(w) : w \in ws} = {[v |-> v, id |-> v] : v \in 0 .. committed - 1}
            /\ \A u, w \in ws : u # w => found(u) \cap found(w) = {}
            /\ \A w \in ws : Len(call[c].got[w].found) = Cardinality(found(w))

\* Every call returns: no wake-up of a worker is lost, and no future stays open.
CallsReturn == <>[](Open = {})
=============================================================================
