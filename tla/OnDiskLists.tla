----------------------------- MODULE OnDiskLists -----------------------------
(***************************************************************************)
(* OnDiskInvertedLists: the inverted lists of an index in one mapped file, *)
(* with threads that add to them and resize them under LockLevels while    *)
(* others read lists ahead of use (OngoingPrefetch).                       *)
(*                                                                         *)
(* The file is a function from addresses to bytes.  A byte is a triple:    *)
(* the part (code or id) of the entry it belongs to, the entry, and which  *)
(* byte of the part it is.  A list at offset off with room for cap entries *)
(* is cap codes followed by cap ids.                                       *)
(***************************************************************************)
EXTENDS LockLevels, Sequences, FiniteSetsExt

CONSTANTS
  Adder,          \* 1 .. n: the threads that call add_entries and resize, each
                  \* once, as a thread keeps nothing from call to call
  Worker,         \* the threads that read ahead
  CodeSize,       \* code_size
  IdSize,         \* sizeof(idx_t)
  FirstSize,      \* the size of a new file (32)
  Batches,        \* how many entries an add_entries may bring
  Sizes,          \* what resize may be called with
  Requests,       \* the sequences prefetch_lists may be called with; -1
                  \* stands for "no list"
  Merges,         \* what merge_from_multiple may find: sizes of the lists
  AddToMerged,    \* whether lists that were merged are added to and resized
  MaxRequests     \* bound: calls of prefetch_lists in a run

ASSUME NumbersAssumption == List = 0 .. Cardinality(List) - 1 /\ IsFiniteSet(List)
ASSUME MergesAssumption == Merges \subseteq [List -> Nat]
ASSUME RequestsAssumption == Requests \subseteq Seq(List \cup {-1})
ASSUME RolesAssumption == Thread = Adder \cup Worker /\ Adder \cap Worker = {}
ASSUME SizesAssumption == /\ {CodeSize, IdSize, FirstSize} \subseteq Nat \ {0}
                          /\ Batches \subseteq Nat /\ Sizes \subseteq Nat

VARIABLES
  lists,    \* lists[l]: size and capacity in entries, offset
  slots,    \* slots, which the code keeps in the order of their offsets
  file,     \* the bytes of the file, from address 0; totsize of them
  pc,       \* pc[t]: what t does next
  job,      \* job[t]: the call t works on, see NoJob
  dest,     \* dest[t]: new_l while t holds level 2
  calls,    \* calls of add_entries and resize so far
  merged,   \* merge_from_multiple has filled the lists
  ids,      \* list_ids
  curList,  \* cur_list
  request,  \* the request a call of prefetch_lists works on, or NoRequest
  requests  \* calls of prefetch_lists so far

store    == <<lists, slots, file>>
prefetch == <<ids, curList, request, requests>>
vars     == <<lockVars, store, pc, job, dest, calls, merged, prefetch>>

EntrySize == CodeSize + IdSize
totsize   == Cardinality(DOMAIN file)
NoByte    == <<"none", 0, 0>>
NoRequest == <<"none">>

\* The list, whether entries are added, which, and what resize was given.
NoJob  == [list |-> -1, adds |-> FALSE, es |-> <<>>, size |-> 0]
NoList == [size |-> 0, cap |-> 0, off |-> -1]

Init ==
  /\ LockInit
  /\ lists = [l \in List |-> NoList]
  /\ slots = {}
  /\ file = [a \in {} |-> NoByte]
  /\ pc = [t \in Thread |-> "idle"]
  /\ job = [t \in Thread |-> NoJob]
  /\ dest = [t \in Thread |-> NoList]
  /\ calls = 0
  /\ merged = FALSE
  /\ ids = <<>>
  /\ curList = 0
  /\ request = NoRequest
  /\ requests = 0

----------------------------------------------------------------------------
(* The bytes.                                                              *)

Region(l) == l.off .. l.off + l.cap * EntrySize - 1
IdsAt(l)  == l.off + l.cap * CodeSize

\* The file with the parts of the entries es stored from address a on.
Written(f, part, size, a, es) ==
  [x \in DOMAIN f |->
     IF x \in a .. a + size * Len(es) - 1
     THEN <<part, es[(x - a) \div size + 1], (x - a) % size>>
     ELSE f[x]]

\* memcpy of len bytes, undefined when the two places overlap.
Copied(f, to, from, len) ==
  [x \in DOMAIN f |->
     IF x \in to .. to + len - 1
     THEN IF to + len <= from \/ from + len <= to THEN f[from + x - to] ELSE NoByte
     ELSE f[x]]

\* What a reader finds as the i-th entry of l (0 if its bytes do not belong together).
Entry(l, i) ==
  LET e == file[l.off + (i - 1) * CodeSize][2]
      Holds(part, size, a) == \A j \in 0 .. size - 1 : file[a + j] = <<part, e, j>>
  IN  IF /\ Holds("code", CodeSize, l.off + (i - 1) * CodeSize)
         /\ Holds("id", IdSize, IdsAt(l) + (i - 1) * IdSize)
      THEN e ELSE 0

----------------------------------------------------------------------------
(* The slots.                                                              *)

Slot(off, cap) == [off |-> off, cap |-> cap]

\* free_slot: the bytes are joined with the slots next to them.
Freed(ss, off, cap) ==
  LET end    == off + cap
      before == {s \in ss : s.off + s.cap = off}
      after  == {s \in ss : s.off = end}
      from   == IF before = {} THEN off ELSE (CHOOSE s \in before : TRUE).off
      to     == IF after = {} THEN end ELSE end + (CHOOSE s \in after : TRUE).cap
  IN  IF cap = 0 THEN ss
      ELSE (ss \ (before \cup after)) \cup {Slot(from, to - from)}

\* Mutant: a slot is given back with all the bytes of the list.
FreeSlotBytes(ss, l) == Freed(ss, l.off, l.cap * EntrySize)

\* free_slot(l.offset, l.capacity): as many bytes are given back as the list
\* had room for entries.
FreeSlot(ss, l) == Freed(ss, l.off, l.cap)

Fits(ss, bytes) == {s \in ss : s.cap >= bytes}

\* The first slot that fits, taken from its beginning.
FirstFit(ss, bytes) == CHOOSE s \in Fits(ss, bytes) :
                         \A r \in Fits(ss, bytes) : s.off <= r.off

\* Mutant: what is taken stays in the slot.
TakenTwice(ss, bytes) ==
  LET s == FirstFit(ss, bytes)
  IN  IF s.cap = bytes THEN ss \ {s} ELSE ss

Taken(ss, bytes) ==
  LET s == FirstFit(ss, bytes)
  IN  (ss \ {s}) \cup IF s.cap = bytes THEN {}
                      ELSE {Slot(s.off + bytes, s.cap - bytes)}

\* The first of n, 2n, 4n ... that is not below least.
Doubled(n, least) ==
  LET times[i \in 0 .. least] == IF i = 0 THEN n ELSE 2 * times[i - 1]
  IN  times[CHOOSE i \in 0 .. least : /\ times[i] >= least
                                     /\ \A j \in 0 .. i - 1 : times[j] < least]

\* The next total size: doubled until bytes more have room.
NewSize(bytes) == Doubled(IF totsize = 0 THEN FirstSize ELSE 2 * totsize, totsize + bytes)

\* update_totsize: the last slot grows if it ends the file.
Extended(ss, size) ==
  LET last == {s \in ss : s.off + s.cap = totsize}
  IN  IF last # {}
      THEN (ss \ last) \cup {Slot(s.off, s.cap + size - totsize) : s \in last}
      ELSE ss \cup {Slot(totsize, size - totsize)}

Mapped(size) == [a \in 0 .. size - 1 |-> IF a \in DOMAIN file THEN file[a] ELSE NoByte]

----------------------------------------------------------------------------
(* add_entries and resize.                                                 *)

L(t)       == lists[job[t].list]
Goto(t, p) == pc' = [pc EXCEPT ![t] = p]

\* Capacities are powers of two.
Capacity(size) == Doubled(1, size)

\* The size to reach: add_entries adds to the size it reads; the callers of
\* resize (remove, update and reset of an index) only ever cut.
Target(t) == IF job[t].adds THEN L(t).size + Len(job[t].es)
                            ELSE Min({job[t].size, L(t).size})

\* No new place is needed.
InPlace(t) == Target(t) <= L(t).cap /\ Target(t) > L(t).cap \div 2

\* A call starts with lock_1.  The entries of a run are numbered.
NewEntries(n) == [i \in 1 .. n |-> calls * Max(Batches) + i]

Calls(t, j) ==
  /\ t \in Adder /\ t = calls + 1
  /\ merged => AddToMerged
  /\ Lock1(t, j.list)
  /\ calls' = t
  /\ job' = [job EXCEPT ![t] = j]
  /\ Goto(t, "lock")
  /\ UNCHANGED <<store, dest, merged, prefetch>>

AddEntries(t, l) == \E n \in Batches :
  Calls(t, [list |-> l, adds |-> TRUE, es |-> NewEntries(n), size |-> 0])

Resize(t, l) == \E n \in Sizes :
  Calls(t, [list |-> l, adds |-> FALSE, es |-> <<>>, size |-> n])

\* lock_1, called by a thread that reads ahead, or tried again.
Locks(t) ==
  /\ pc[t] = "lock" /\ at[t] \in {"out", "want1"}
  /\ Lock1(t, job[t].list)
  /\ UNCHANGED <<store, pc, job, dest, calls, merged, prefetch>>

Sized(t) == Goto(t, IF job[t].adds THEN "fill" ELSE "unlock")

StaysInPlace(t) ==
  /\ t \in Adder /\ pc[t] = "lock" /\ at[t] = "has1"
  /\ InPlace(t)
  /\ lists' = [lists EXCEPT ![job[t].list].size = Target(t)]
  /\ Sized(t)
  /\ UNCHANGED <<lockVars, slots, file, job, dest, calls, merged, prefetch>>

Queues(t) ==
  /\ t \in Adder /\ pc[t] = "lock"
  /\ at[t] = "has1" => ~InPlace(t)
  /\ Lock2(t)
  /\ Goto(t, IF at'[t] = "has2" THEN "free" ELSE "lock")
  /\ UNCHANGED <<store, job, dest, calls, merged, prefetch>>

NewList(t, ss) ==
  LET cap == Capacity(Target(t))
  IN  [size |-> Target(t), cap |-> cap, off |-> FirstFit(ss, cap * EntrySize).off]

\* The old slot is free before a new one is looked for.
Reslots(t) ==
  LET free  == FreeSlot(slots, L(t))
      bytes == Capacity(Target(t)) * EntrySize
  IN  /\ pc[t] = "free"
      /\ \/ /\ Target(t) = 0
            /\ slots' = free
            /\ dest' = [dest EXCEPT ![t] = NoList]
            /\ Goto(t, "move")
         \/ /\ Target(t) > 0 /\ Fits(free, bytes) # {}
            /\ slots' = Taken(free, bytes)
            /\ dest' = [dest EXCEPT ![t] = NewList(t, free)]
            /\ Goto(t, "move")
         \/ /\ Target(t) > 0 /\ Fits(free, bytes) = {}
            /\ slots' = free
            /\ Goto(t, "grow")
            /\ UNCHANGED dest
      /\ UNCHANGED <<lockVars, lists, file, job, calls, merged, prefetch>>

Announces(t) ==
  /\ pc[t] = "grow"
  /\ at[t] \in {"has2", "want3"}
  /\ Lock3(t)
  /\ UNCHANGED <<store, pc, job, dest, calls, merged, prefetch>>

\* The file is unmapped, made longer and mapped again, and the search for a
\* slot is repeated.
Remaps(t) ==
  LET bytes == Capacity(Target(t)) * EntrySize
      size  == NewSize(bytes)
      ss    == Extended(slots, size)
  IN  /\ pc[t] = "grow" /\ at[t] = "has3"
      /\ file' = Mapped(size)
      /\ slots' = Taken(ss, bytes)
      /\ dest' = [dest EXCEPT ![t] = NewList(t, ss)]
      /\ Unlock3(t)
      /\ Goto(t, "move")
      /\ UNCHANGED <<lists, job, calls, merged, prefetch>>

\* Codes, then ids, to the new place, unless it begins where the old one did.
Moved(old, new) ==
  LET n == Min({old.size, new.size})
  IN  IF old.off = new.off THEN file
      ELSE Copied(Copied(file, new.off, old.off, n * CodeSize),
                  IdsAt(new), IdsAt(old), n * IdSize)

Moves(t) ==
  /\ pc[t] = "move"
  /\ file' = Moved(L(t), dest[t])
  /\ lists' = [lists EXCEPT ![job[t].list] = dest[t]]
  /\ Unlock2(t)
  /\ dest' = [dest EXCEPT ![t] = NoList]
  /\ Sized(t)
  /\ UNCHANGED <<slots, job, calls, merged, prefetch>>

\* update_entries: the ids and the codes, after the entries that were there.
Old(t) == L(t).size - Len(job[t].es)

Fills(t) ==
  LET l == L(t)
  IN  /\ pc[t] = "fill"
      /\ file' = Written(Written(file, "id", IdSize, IdsAt(l) + Old(t) * IdSize, job[t].es),
                         "code", CodeSize, l.off + Old(t) * CodeSize, job[t].es)
      /\ Goto(t, "unlock")
      /\ UNCHANGED <<lockVars, lists, slots, job, dest, calls, merged, prefetch>>

Returns(t) ==
  /\ pc[t] = "unlock"
  /\ Unlock1(t)
  /\ job' = [job EXCEPT ![t] = NoJob]
  /\ Goto(t, "idle")
  /\ UNCHANGED <<store, dest, calls, merged, prefetch>>

AdderStep(t) ==
  \/ StaysInPlace(t) \/ Queues(t) \/ Reslots(t) \/ Announces(t) \/ Remaps(t)
  \/ Moves(t) \/ Fills(t) \/ Returns(t)

----------------------------------------------------------------------------
(* merge_from_multiple, which works on empty lists, before any other call:  *)
(* compact lists, in a file that is one slot from its beginning to its end. *)

\* Where each list begins, and where the last one ends.
Starts(sizes) ==
  LET cums[l \in 0 .. Cardinality(List)] ==
        IF l = 0 THEN 0 ELSE cums[l - 1] + sizes[l - 1] * EntrySize
  IN  cums

Merge(sizes) ==
  LET at0 == [l \in List |-> [size |-> sizes[l], cap |-> sizes[l], off |-> Starts(sizes)[l]]]
      end == Starts(sizes)[Cardinality(List)]
      blank == [a \in 0 .. end - 1 |-> NoByte]
      es(l) == [i \in 1 .. sizes[l] |-> 100 * (l + 1) + i]
      Filled(l) == Written(Written(blank, "id", IdSize, IdsAt(at0[l]), es(l)),
                           "code", CodeSize, at0[l].off, es(l))
      Owner(a) == CHOOSE l \in List : a \in Region(at0[l])
  IN  /\ totsize = 0 /\ calls = 0
      /\ lists' = at0
      /\ slots' = Extended({}, end)
      /\ file' = [a \in 0 .. end - 1 |-> Filled(Owner(a))[a]]
      /\ merged' = TRUE
      /\ UNCHANGED <<lockVars, pc, job, dest, calls, prefetch>>

----------------------------------------------------------------------------
(* OngoingPrefetch.  prefetch_lists holds its mutex from Clears to Restarts. *)

\* What is left of the list of tasks is dropped, and the threads are joined.
Clears(r) ==
  /\ request = NoRequest /\ requests < MaxRequests
  /\ request' = r
  /\ requests' = requests + 1
  /\ ids' = <<>>
  /\ UNCHANGED <<lockVars, store, pc, job, dest, calls, merged, curList>>

\* The lists of a request that have entries, in its order.
Present(r) ==
  LET kept[i \in 0 .. Len(r)] ==
        IF i = 0 THEN <<>>
        ELSE IF r[i] >= 0 /\ lists[r[i]].size > 0 THEN Append(kept[i - 1], r[i])
        ELSE kept[i - 1]
  IN  kept[Len(r)]

Joined == \A w \in Worker : pc[w] = "idle"

Restarts ==
  /\ request # NoRequest
  /\ Joined
  /\ ids' = Present(request)
  /\ curList' = 0
  /\ \E ws \in SUBSET Worker :
       /\ Cardinality(ws) = Min({Len(request), Cardinality(Worker)})
       /\ pc' = [t \in Thread |-> IF t \in ws THEN "take" ELSE pc[t]]
  /\ request' = NoRequest
  /\ UNCHANGED <<lockVars, store, job, dest, calls, merged, requests>>

\* get_next_list: prefetch_lists kept numbers of lists only.
Takes(w) ==
  /\ pc[w] = "take"
  /\ curList < Len(ids)
  /\ curList' = curList + 1
  /\ \E l \in List : /\ l = ids[curList + 1]
                    /\ job' = [job EXCEPT ![w] = [NoJob EXCEPT !.list = l]]
  /\ Goto(w, "lock")
  /\ UNCHANGED <<lockVars, store, dest, calls, merged, ids, request, requests>>

Ends(w) ==
  /\ pc[w] = "take"
  /\ curList >= Len(ids)
  /\ Goto(w, "idle")
  /\ UNCHANGED <<lockVars, store, job, dest, calls, merged, prefetch>>

\* From lock_1 to unlock_1 the list is read.
HasRead(w) ==
  /\ w \in Worker /\ pc[w] = "lock" /\ at[w] = "has1"
  /\ Unlock1(w)
  /\ job' = [job EXCEPT ![w] = NoJob]
  /\ Goto(w, "take")
  /\ UNCHANGED <<store, dest, calls, merged, prefetch>>

WorkerStep(w) == Takes(w) \/ Ends(w) \/ HasRead(w)

----------------------------------------------------------------------------
WakesUp(t) == Spurious(t) /\ UNCHANGED <<store, pc, job, dest, calls, merged, prefetch>>

Quiet == /\ calls = Cardinality(Adder) \/ (merged /\ ~AddToMerged)
         /\ requests = MaxRequests /\ request = NoRequest
         /\ \A t \in Thread : pc[t] = "idle"

\* All calls of a run have returned.
Rests == Quiet /\ UNCHANGED vars

ThreadStep(t) == Locks(t) \/ AdderStep(t) \/ WorkerStep(t)

Next ==
  \/ \E t \in Thread, l \in List : AddEntries(t, l) \/ Resize(t, l)
  \/ \E t \in Thread : ThreadStep(t) \/ WakesUp(t)
  \/ \E sizes \in Merges : Merge(sizes)
  \/ \E r \in Requests : Clears(r)
  \/ Restarts
  \/ Rests

Spec == Init /\ [][Next]_vars

\* Every thread that is inside of a call goes on, and so does prefetch_lists.
FairSpec == Spec /\ (\A t \in Thread : WF_vars(ThreadStep(t))) /\ WF_vars(Restarts)

----------------------------------------------------------------------------
Span(s) == s.off .. s.off + s.cap - 1

\* Lists whose old slot was given back already.
InTransit == {job[t].list : t \in {u \in Adder : pc[u] \in {"grow", "move"}}}
Coming    == {dest[t] : t \in {u \in Adder : pc[u] = "move"}}
Used      == {Region(lists[l]) : l \in {o \in List : lists[o].cap > 0}}

\* No byte has two owners: lists, and the new places of lists that move, are
\* apart from each other and inside the file, "slots" are "empty slots"
\* (OnDiskInvertedLists.h:46) and apart as well.  After a merge the whole file
\* is a slot, see the README.
BytesOwnedOnce ==
  /\ \A l \in List : Region(lists[l]) \subseteq DOMAIN file
  /\ \A l, o \in List : l # o => Region(lists[l]) \cap Region(lists[o]) = {}
  /\ \A n \in Coming, l \in List \ InTransit : Region(n) \cap Region(lists[l]) = {}
  /\ ~merged =>
       /\ \A s \in slots : /\ Span(s) \subseteq DOMAIN file
                           /\ \A l \in List \ InTransit : Span(s) \cap Region(lists[l]) = {}
                           /\ \A n \in Coming : Span(s) \cap Region(n) = {}
                           /\ \A r \in slots \ {s} : Span(s) \cap Span(r) = {}

\* While a prefetching thread reads a list through the addresses it took
\* under level 1, the file stays where it is and nobody writes to the list.
ReadsStand ==
  \A w \in Worker : at[w] = "has1" =>
    LET l == lists[no[w]] IN
    /\ DOMAIN file' = DOMAIN file
    /\ lists'[no[w]] = l
    /\ \A a \in Region(l) : file'[a] = file[a]

ReadUndisturbed == [][ReadsStand]_vars

\* The file, read through the list table, is a table of lists: entries that
\* were added stay, whatever moves; entries come into sight when they are
\* complete.
Visible(l) ==
  LET t == {u \in Adder : job[u].list = l /\ pc[u] = "fill"}
  IN  IF t = {} THEN lists[l].size ELSE Old(CHOOSE u \in t : TRUE)

Store == INSTANCE InvertedListsStore WITH
  content <- [l \in List |-> [i \in 1 .. Visible(l) |-> Entry(lists[l], i)]],
  Added <- {[i \in 1 .. n |-> (c - 1) * Max(Batches) + i] : n \in Batches, c \in Adder},
  Merged <- {[l \in List |-> [i \in 1 .. m[l] |-> 100 * (l + 1) + i]] : m \in Merges}

ImplementsStore == Store!Spec

\* Every call of add_entries and resize returns, and so do the threads that
\* read ahead: nobody waits for ever for a list, for the slots or for the file.
CallsReturn == <>[](request = NoRequest /\ \A t \in Thread : pc[t] = "idle")
=============================================================================
