----------------------------- MODULE LockLevels -----------------------------
(***************************************************************************)
(* struct LockLevels of invlists/OnDiskInvertedLists.cpp: the lock that    *)
(* lets threads work on different inverted lists at once (level 1, one     *)
(* lock per list), one of them at a time on the list of slots (level 2),   *)
(* and that one, alone, move the mapped file (level 3).                    *)
(*                                                                         *)
(* Each function holds mutex1 from its first line to its last, except      *)
(* while it waits on a condition variable, and lock_3 returns with mutex1  *)
(* held: an action is what happens between two such points.  A thread that *)
(* was signalled tests its condition again before it goes on, and a wait   *)
(* may end without a signal.                                               *)
(***************************************************************************)
EXTENDS Integers, FiniteSets

CONSTANTS
  Thread,
  List,    \* the numbers lock_1 is called with
  Nobody   \* mutex1 is free

ASSUME ThreadAssumption == IsFiniteSet(Thread) /\ Nobody \notin Thread
ASSUME ListAssumption   == List # {}

VARIABLES
  holders,  \* level1_holders
  nLevel2,  \* n_level2
  inUse2,   \* level2_in_use
  inUse3,   \* level3_in_use
  mutex1,   \* who keeps mutex1 between two actions
  cv,       \* cv[t]: the condition variable t sleeps on, or "awake"
  at,       \* at[t]: how far t is, see Place
  no        \* no[t]: the list t asked for last

lockVars == <<holders, nLevel2, inUse2, inUse3, mutex1, cv, at, no>>

\* "want" is inside lock_1 or lock_3 after a failed test, "wait2" in lock_2.
Place == {"out", "want1", "has1", "wait2", "has2", "want3", "has3"}

InLevel1 == {t \in Thread : at[t] \in {"has1", "wait2", "has2", "want3", "has3"}}
InLevel2 == {t \in Thread : at[t] \in {"wait2", "has2", "want3", "has3"}}
HasLevel2 == {t \in Thread : at[t] \in {"has2", "want3", "has3"}}

LockInit ==
  /\ holders = {}
  /\ nLevel2 = 0
  /\ inUse2 = FALSE
  /\ inUse3 = FALSE
  /\ mutex1 = Nobody
  /\ cv = [t \in Thread |-> "awake"]
  /\ at = [t \in Thread |-> "out"]
  /\ no = [t \in Thread |-> CHOOSE l \in List : TRUE]

----------------------------------------------------------------------------
\* A running thread that can take mutex1.
Enters(t) == cv[t] = "awake" /\ mutex1 = Nobody

Sleepers(c) == {t \in Thread : cv[t] = c}

\* pthread_cond_signal wakes one of the sleepers, if there is one.
Signalled(c) ==
  IF Sleepers(c) = {} THEN {cv} ELSE {[cv EXCEPT ![t] = "awake"] : t \in Sleepers(c)}

Broadcast(c) == [t \in Thread |-> IF cv[t] = c THEN "awake" ELSE cv[t]]

\* pthread_cond_wait may return although nobody signalled.
Spurious(t) ==
  /\ cv[t] # "awake"
  /\ cv' = [cv EXCEPT ![t] = "awake"]
  /\ UNCHANGED <<holders, nLevel2, inUse2, inUse3, mutex1, at, no>>

\* Mutant: a list that somebody holds is not refused.
Blocked1ByWriter(l) == inUse3

Blocked1(l) == inUse3 \/ l \in holders

Lock1(t, l) ==
  /\ at[t] = "out" \/ (at[t] = "want1" /\ no[t] = l)
  /\ Enters(t)
  /\ no' = [no EXCEPT ![t] = l]
  /\ \/ /\ Blocked1(l)
        /\ cv' = [cv EXCEPT ![t] = "cv1"]
        /\ at' = [at EXCEPT ![t] = "want1"]
        /\ UNCHANGED holders
     \/ /\ ~Blocked1(l)
        /\ holders' = holders \cup {l}
        /\ at' = [at EXCEPT ![t] = "has1"]
        /\ UNCHANGED cv
  /\ UNCHANGED <<nLevel2, inUse2, inUse3, mutex1>>

\* Mutant: the writer is not told that a holder left.
Unlock1Mute(t) ==
  /\ at[t] = "has1"
  /\ Enters(t)
  /\ holders' = holders \ {no[t]}
  /\ cv' = IF inUse3 THEN cv ELSE Broadcast("cv1")
  /\ at' = [at EXCEPT ![t] = "out"]
  /\ UNCHANGED <<nLevel2, inUse2, inUse3, mutex1, no>>

\* A holder that leaves wakes the waiting writer, or all that wait for a list.
Unlock1(t) ==
  /\ at[t] = "has1"
  /\ Enters(t)
  /\ holders' = holders \ {no[t]}
  /\ cv' \in IF inUse3 THEN Signalled("cv3") ELSE {Broadcast("cv1")}
  /\ at' = [at EXCEPT ![t] = "out"]
  /\ UNCHANGED <<nLevel2, inUse2, inUse3, mutex1, no>>

\* lock_2 counts the thread once, then waits for its turn.
Lock2(t) ==
  /\ at[t] \in {"has1", "wait2"}
  /\ Enters(t)
  /\ nLevel2' = IF at[t] = "has1" THEN nLevel2 + 1 ELSE nLevel2
  /\ \E woken \in IF at[t] = "has1" /\ inUse3 THEN Signalled("cv3") ELSE {cv} :
       \/ /\ inUse2
          /\ cv' = [woken EXCEPT ![t] = "cv2"]
          /\ at' = [at EXCEPT ![t] = "wait2"]
          /\ UNCHANGED inUse2
       \/ /\ ~inUse2
          /\ cv' = woken
          /\ at' = [at EXCEPT ![t] = "has2"]
          /\ inUse2' = TRUE
  /\ UNCHANGED <<holders, inUse3, mutex1, no>>

\* Mutant: unlock_2 wakes a sleeper only when it was the last in line.
Unlock2Mute(t) ==
  /\ at[t] = "has2"
  /\ Enters(t)
  /\ inUse2' = FALSE
  /\ nLevel2' = nLevel2 - 1
  /\ cv' \in IF nLevel2 = 1 THEN Signalled("cv2") ELSE {cv}
  /\ at' = [at EXCEPT ![t] = "has1"]
  /\ UNCHANGED <<holders, inUse3, mutex1, no>>

Unlock2(t) ==
  /\ at[t] = "has2"
  /\ Enters(t)
  /\ inUse2' = FALSE
  /\ nLevel2' = nLevel2 - 1
  /\ cv' \in Signalled("cv2")
  /\ at' = [at EXCEPT ![t] = "has1"]
  /\ UNCHANGED <<holders, inUse3, mutex1, no>>

\* Mutant: the comparison is off by one.
AllParkedButOne == Cardinality(holders) <= nLevel2 + 1

\* Every holder of a list is in line for level 2 (or is the caller).
AllParked == Cardinality(holders) <= nLevel2

\* lock_3 announces itself and waits for the holders that are not parked.
Lock3(t) ==
  /\ at[t] \in {"has2", "want3"}
  /\ Enters(t)
  /\ inUse3' = TRUE
  /\ \/ /\ ~AllParked
        /\ cv' = [cv EXCEPT ![t] = "cv3"]
        /\ at' = [at EXCEPT ![t] = "want3"]
        /\ UNCHANGED mutex1
     \/ /\ AllParked
        /\ at' = [at EXCEPT ![t] = "has3"]
        /\ mutex1' = t
        /\ UNCHANGED cv
  /\ UNCHANGED <<holders, nLevel2, inUse2, no>>

Unlock3(t) ==
  /\ at[t] = "has3"
  /\ inUse3' = FALSE
  /\ cv' = Broadcast("cv1")
  /\ mutex1' = Nobody
  /\ at' = [at EXCEPT ![t] = "has2"]
  /\ UNCHANGED <<holders, nLevel2, inUse2, no>>

----------------------------------------------------------------------------
(* Threads that use the levels in any order the functions allow.           *)
LockStep(t) ==
  \/ \E l \in List : Lock1(t, l)
  \/ Unlock1(t)
  \/ Lock2(t) \/ Unlock2(t)
  \/ Lock3(t) \/ Unlock3(t)
  \/ Spurious(t)

LockNext == \E t \in Thread : LockStep(t)

LockSpec == LockInit /\ [][LockNext]_lockVars

----------------------------------------------------------------------------
LockTypeOK ==
  /\ holders \subseteq List
  /\ nLevel2 \in Nat
  /\ inUse2 \in BOOLEAN /\ inUse3 \in BOOLEAN
  /\ mutex1 \in Thread \cup {Nobody}
  /\ cv \in [Thread -> {"awake", "cv1", "cv2", "cv3"}]
  /\ at \in [Thread -> Place]
  /\ no \in [Thread -> List]

\* "a single thread can hold lock3, if it holds lock1(n) for some n AND lock2
\* AND no other thread holds lock1(m) for m != n", "except the ones that are
\* waiting on level2" (OnDiskInvertedLists.cpp:37-38, 112-113): these sleep in
\* lock_2, own their list and touch nothing.
WriterAlone ==
  \A t, u \in Thread : at[t] = "has3" /\ u # t => at[u] \in {"out", "want1", "wait2"}

\* Two threads never own the same list, nor level 2 together.
OneOwner ==
  /\ \A t, u \in InLevel1 : no[t] = no[u] => t = u
  /\ \A t, u \in HasLevel2 : t = u

\* Nobody sleeps through its wake-up: who sleeps still has what it waits for
\* in front of it, or a thread that was woken before it will pass it on.
NobodyForgotten ==
  \A t \in Thread :
    /\ cv[t] = "cv1" => Blocked1(no[t])
    /\ cv[t] = "cv2" => inUse2 \/ \E u \in Thread : at[u] = "wait2" /\ cv[u] = "awake"
    /\ cv[t] = "cv3" => ~AllParked
=============================================================================
