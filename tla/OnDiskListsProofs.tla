-------------------------- MODULE OnDiskListsProofs --------------------------
(***************************************************************************)
(* The three levels of OnDiskInvertedLists' lock exclude what they are     *)
(* meant to exclude and lose no wake-up, whatever the number of threads    *)
(* and lists and however the levels are used, and so in every run of       *)
(* OnDiskLists.  From that, and from what the allocator of slots computes, *)
(* follows that no byte of the file has two owners and that a list stands  *)
(* still while it is read.                                                 *)
(***************************************************************************)
EXTENDS OnDiskLists, FiniteSetTheorems, WellFoundedInduction, TLAPS

\* The counters count: level1_holders has one list for each thread that holds
\* level 1, and n_level2 is the number of threads in line for level 2.
Books ==
  /\ IsFiniteSet(holders) /\ Cardinality(holders) = Cardinality(InLevel1)
  /\ nLevel2 = Cardinality(InLevel2)
  /\ \A t \in InLevel1 : no[t] \in holders

\* The flags are up when they should be, and level 3 was reached alone.
Flags ==
  /\ \A t \in HasLevel2 : inUse2
  /\ \A t \in Thread : /\ at[t] \in {"want3", "has3"} => inUse3
                       /\ mutex1 = t <=> at[t] = "has3"
                       /\ at[t] = "has3" => InLevel1 = InLevel2

\* Each condition variable has one place to sleep on it.
Beds ==
  \A t \in Thread : /\ cv[t] = "cv1" => at[t] = "want1"
                    /\ cv[t] = "cv2" => at[t] = "wait2"
                    /\ cv[t] = "cv3" => at[t] = "want3"

LInv == LockTypeOK /\ Books /\ OneOwner /\ Flags /\ Beds /\ NobodyForgotten

----------------------------------------------------------------------------
\* The lines of the three levels are finite.
LEMMA LinesFinite ==
  /\ IsFiniteSet(InLevel1) /\ IsFiniteSet(InLevel2)
  /\ InLevel2 \subseteq InLevel1 /\ HasLevel2 \subseteq InLevel2
<1>1. InLevel1 \in SUBSET Thread /\ InLevel2 \in SUBSET Thread
  BY DEF InLevel1, InLevel2
<1>2. InLevel2 \subseteq InLevel1 /\ HasLevel2 \subseteq InLevel2
  BY DEF InLevel1, InLevel2, HasLevel2
<1>. QED  BY <1>1, <1>2, FS_Subset, ThreadAssumption

\* A signal wakes one sleeper, if there is one, and touches nobody else.
LEMMA SignalFacts ==
  ASSUME LockTypeOK, NEW c \in {"cv1", "cv2", "cv3"}, NEW woken \in Signalled(c)
  PROVE  /\ woken \in [Thread -> {"awake", "cv1", "cv2", "cv3"}]
         /\ \A u \in Thread : woken[u] = cv[u] \/ (cv[u] = c /\ woken[u] = "awake")
         /\ (\E u \in Thread : cv[u] = c)
              => \E u \in Thread : cv[u] = c /\ woken[u] = "awake"
<1>1. CASE Sleepers(c) = {}
  BY <1>1 DEF Signalled, Sleepers, LockTypeOK
<1>2. CASE Sleepers(c) # {}
  <2>1. PICK t \in Sleepers(c) : woken = [cv EXCEPT ![t] = "awake"]
    BY <1>2 DEF Signalled
  <2>. QED  BY <2>1 DEF Sleepers, LockTypeOK
<1>. QED  BY <1>1, <1>2

LEMMA BroadcastFacts ==
  ASSUME LockTypeOK, NEW c \in {"cv1", "cv2", "cv3"}
  PROVE  /\ Broadcast(c) \in [Thread -> {"awake", "cv1", "cv2", "cv3"}]
         /\ \A u \in Thread :
              IF cv[u] = c THEN Broadcast(c)[u] = "awake" ELSE Broadcast(c)[u] = cv[u]
BY DEF Broadcast, LockTypeOK

----------------------------------------------------------------------------
LEMMA InitSound == LockInit => LInv
<1>. SUFFICES ASSUME LockInit PROVE LInv
  OBVIOUS
<1>0. (CHOOSE l \in List : TRUE) \in List
  BY ListAssumption
<1>1. LockTypeOK
  BY <1>0 DEF LockInit, LockTypeOK, Place
<1>2. InLevel1 = {} /\ InLevel2 = {} /\ HasLevel2 = {}
  BY DEF LockInit, InLevel1, InLevel2, HasLevel2
<1>3. Books
  BY <1>2, FS_EmptySet DEF LockInit, Books
<1>4. OneOwner
  BY <1>2 DEF OneOwner
<1>5. Flags
  BY <1>2, ThreadAssumption DEF LockInit, Flags
<1>6. Beds /\ NobodyForgotten
  BY DEF LockInit, Beds, NobodyForgotten
<1>. QED  BY <1>1, <1>3, <1>4, <1>5, <1>6 DEF LInv

\* A thread that waits for or is on level 3 has level 2, and is the only one.
LEMMA OneWriter ==
  ASSUME LInv, NEW t \in Thread, NEW u \in Thread,
         at[t] \in {"has2", "want3", "has3"}, at[u] \in {"has2", "want3", "has3"}
  PROVE  t = u
BY DEF LInv, OneOwner, HasLevel2

----------------------------------------------------------------------------
(* One lemma for each function of the lock.                                *)

LEMMA Lock1Sound ==
  ASSUME LInv, NEW t \in Thread, NEW l \in List, Lock1(t, l)
  PROVE  LInv'
<1>. USE DEF LInv
<1>0. /\ at[t] \in {"out", "want1"} /\ cv[t] = "awake" /\ mutex1 = Nobody
      /\ no' = [no EXCEPT ![t] = l] /\ at'[t] \in {"want1", "has1"}
      /\ \A u \in Thread \ {t} : at'[u] = at[u] /\ cv'[u] = cv[u] /\ no'[u] = no[u]
      /\ UNCHANGED <<nLevel2, inUse2, inUse3, mutex1>>
  BY DEF Lock1, Enters, LockTypeOK
<1>1. LockTypeOK'
  BY DEF Lock1, LockTypeOK, Place
<1>2. InLevel2' = InLevel2 /\ HasLevel2' = HasLevel2 /\ t \notin InLevel1
  BY <1>0 DEF InLevel1, InLevel2, HasLevel2
<1>3. CASE Blocked1(l)
  <2>1. holders' = holders /\ at'[t] = "want1" /\ cv'[t] = "cv1"
    BY <1>3 DEF Lock1, LockTypeOK
  <2>2. InLevel1' = InLevel1
    BY <1>0, <2>1 DEF InLevel1
  <2>3. \A u \in InLevel1 : no'[u] = no[u]
    BY <1>0, <1>2 DEF InLevel1
  <2>4. Books' /\ OneOwner'
    BY <1>0, <1>2, <2>1, <2>2, <2>3 DEF Books, OneOwner
  <2>5. Flags'
    BY <1>0, <1>2, <2>1, <2>2 DEF Flags
  <2>6. Beds'
    BY <1>0, <2>1 DEF Beds
  <2>7. NobodyForgotten'
    BY <1>0, <1>3, <2>1 DEF NobodyForgotten, Blocked1, AllParked, LockTypeOK
  <2>. QED  BY <1>1, <2>4, <2>5, <2>6, <2>7
<1>4. CASE ~Blocked1(l)
  <2>1. /\ holders' = holders \cup {l} /\ at'[t] = "has1" /\ cv' = cv
        /\ l \notin holders /\ ~inUse3
    BY <1>4 DEF Lock1, LockTypeOK, Blocked1
  <2>2. InLevel1' = InLevel1 \cup {t}
    BY <1>0, <2>1 DEF InLevel1
  <2>3. \A u \in InLevel1 : no'[u] = no[u] /\ no[u] # l
    BY <1>0, <1>2, <2>1 DEF InLevel1, Books
  <2>4. no'[t] = l
    BY <1>0 DEF LockTypeOK
  <2>5. Books'
    <3>1. /\ IsFiniteSet(holders') /\ Cardinality(holders') = Cardinality(holders) + 1
      BY <2>1, FS_AddElement DEF Books
    <3>2. Cardinality(InLevel1') = Cardinality(InLevel1) + 1
      BY <1>2, <2>2, LinesFinite, FS_AddElement
    <3>. QED  BY <1>0, <1>2, <2>1, <2>2, <2>3, <2>4, <3>1, <3>2 DEF Books
  <2>6. OneOwner'
    BY <1>2, <2>2, <2>3, <2>4 DEF OneOwner
  <2>7. Flags'
    <3>1. \A u \in Thread : at[u] # "has3" /\ at'[u] # "has3"
      BY <1>0, <2>1, ThreadAssumption DEF Flags
    <3>2. \A u \in Thread : at'[u] \notin {"want3"}
      BY <1>0, <2>1 DEF Flags
    <3>. QED  BY <1>0, <1>2, <3>1, <3>2, ThreadAssumption DEF Flags
  <2>8. Beds'
    BY <1>0, <2>1 DEF Beds
  <2>9. NobodyForgotten'
    <3>1. \A u \in Thread : cv[u] # "cv3"
      BY <2>1 DEF Beds, Flags
    <3>. QED  BY <1>0, <2>1, <3>1 DEF NobodyForgotten, Blocked1, Beds
  <2>. QED  BY <1>1, <2>5, <2>6, <2>7, <2>8, <2>9
<1>. QED  BY <1>3, <1>4

LEMMA Unlock1Sound ==
  ASSUME LInv, NEW t \in Thread, Unlock1(t)
  PROVE  LInv'
<1>. USE DEF LInv
<1>0. /\ at[t] = "has1" /\ cv[t] = "awake" /\ mutex1 = Nobody
      /\ holders' = holders \ {no[t]} /\ at'[t] = "out"
      /\ \A u \in Thread \ {t} : at'[u] = at[u]
      /\ UNCHANGED <<nLevel2, inUse2, inUse3, mutex1, no>>
  BY DEF Unlock1, Enters, LockTypeOK
<1>1. /\ cv' \in [Thread -> {"awake", "cv1", "cv2", "cv3"}]
      /\ \A u \in Thread : cv'[u] \in {cv[u], "awake"}
      /\ inUse3 => \A u \in Thread : cv[u] # "cv3" => cv'[u] = cv[u]
      /\ ~inUse3 => \A u \in Thread : cv'[u] # "cv1"
  BY SignalFacts, BroadcastFacts DEF Unlock1
<1>2. LockTypeOK'
  BY <1>0, <1>1 DEF Unlock1, LockTypeOK, Place
<1>3. /\ InLevel1' = InLevel1 \ {t} /\ t \in InLevel1
      /\ InLevel2' = InLevel2 /\ HasLevel2' = HasLevel2
  BY <1>0 DEF InLevel1, InLevel2, HasLevel2
<1>4. Books'
  <2>1. /\ IsFiniteSet(holders') /\ Cardinality(holders') = Cardinality(holders) - 1
    BY <1>0, <1>3, FS_RemoveElement DEF Books
  <2>2. Cardinality(InLevel1') = Cardinality(InLevel1) - 1
    BY <1>3, LinesFinite, FS_RemoveElement
  <2>3. \A u \in InLevel1' : no[u] \in holders'
    BY <1>0, <1>3 DEF Books, OneOwner
  <2>. QED  BY <1>0, <1>3, <2>1, <2>2, <2>3 DEF Books
<1>5. OneOwner'
  BY <1>0, <1>3 DEF OneOwner
<1>6. Flags'
  <2>1. \A u \in Thread : at[u] # "has3" /\ at'[u] # "has3"
    BY <1>0, ThreadAssumption DEF Flags
  <2>. QED  BY <1>0, <1>3, <2>1, ThreadAssumption DEF Flags
<1>7. Beds'
  BY <1>0, <1>1 DEF Beds
<1>8. NobodyForgotten'
  <2>1. ASSUME NEW u \in Thread, cv'[u] = "cv1" PROVE Blocked1(no[u])'
    BY <2>1, <1>0, <1>1 DEF Blocked1
  <2>2. ASSUME NEW u \in Thread, cv'[u] = "cv2"
        PROVE  (inUse2 \/ \E w \in Thread : at[w] = "wait2" /\ cv[w] = "awake")'
    <3>1. inUse2 \/ \E w \in Thread : at[w] = "wait2" /\ cv[w] = "awake"
      BY <2>2, <1>1 DEF NobodyForgotten
    <3>. QED  BY <3>1, <1>0, <1>1
  <2>3. ASSUME NEW u \in Thread PROVE cv'[u] # "cv3"
    <3>1. SUFFICES ASSUME cv[u] = "cv3" PROVE cv'[u] = "awake"
      BY <1>1
    <3>2. at[u] = "want3" /\ inUse3
      BY <3>1 DEF Beds, Flags
    <3>3. PICK w \in Thread : cv[w] = "cv3" /\ cv'[w] = "awake"
      BY <3>1, <3>2, SignalFacts DEF Unlock1
    <3>4. w = u
      BY <3>2, <3>3, OneWriter DEF Beds
    <3>. QED  BY <3>3, <3>4
  <2>. QED  BY <2>1, <2>2, <2>3 DEF NobodyForgotten
<1>. QED  BY <1>2, <1>4, <1>5, <1>6, <1>7, <1>8

LEMMA Lock2Sound ==
  ASSUME LInv, NEW t \in Thread, Lock2(t)
  PROVE  LInv'
<1>. USE DEF LInv
<1>0. /\ at[t] \in {"has1", "wait2"} /\ cv[t] = "awake" /\ mutex1 = Nobody
      /\ at'[t] = IF inUse2 THEN "wait2" ELSE "has2"
      /\ \A u \in Thread \ {t} : at'[u] = at[u]
      /\ nLevel2' = IF at[t] = "has1" THEN nLevel2 + 1 ELSE nLevel2
      /\ inUse2' = TRUE
      /\ UNCHANGED <<holders, inUse3, mutex1, no>>
  BY DEF Lock2, Enters, LockTypeOK
<1>1. PICK woken \in IF at[t] = "has1" /\ inUse3 THEN Signalled("cv3") ELSE {cv} :
        cv' = IF inUse2 THEN [woken EXCEPT ![t] = "cv2"] ELSE woken
  BY DEF Lock2
<1>2. /\ woken \in [Thread -> {"awake", "cv1", "cv2", "cv3"}]
      /\ \A u \in Thread : woken[u] = cv[u] \/ (cv[u] = "cv3" /\ woken[u] = "awake")
  BY <1>1, SignalFacts DEF LockTypeOK
<1>3. /\ cv' \in [Thread -> {"awake", "cv1", "cv2", "cv3"}]
      /\ \A u \in Thread \ {t} : cv'[u] = cv[u] \/ (cv[u] = "cv3" /\ cv'[u] = "awake")
      /\ cv'[t] = IF inUse2 THEN "cv2" ELSE "awake"
  BY <1>0, <1>1, <1>2
<1>4. LockTypeOK'
  <2>1. at' \in [Thread -> Place]
    BY DEF Lock2, LockTypeOK, Place
  <2>2. nLevel2' \in Nat
    BY <1>0 DEF LockTypeOK
  <2>. QED  BY <1>0, <1>3, <2>1, <2>2 DEF LockTypeOK
<1>5. /\ InLevel1' = InLevel1 /\ InLevel2' = InLevel2 \cup {t}
      /\ HasLevel2' = IF inUse2 THEN HasLevel2 ELSE HasLevel2 \cup {t}
      /\ t \in InLevel1 /\ (t \in InLevel2 <=> at[t] = "wait2") /\ t \notin HasLevel2
  BY <1>0 DEF InLevel1, InLevel2, HasLevel2
<1>6. Books'
  <2>1. nLevel2' = Cardinality(InLevel2')
    BY <1>0, <1>5, LinesFinite, FS_AddElement DEF Books
  <2>. QED  BY <1>0, <1>5, <2>1 DEF Books
<1>7. OneOwner'
  BY <1>0, <1>5 DEF OneOwner, Flags
<1>8. Flags'
  <2>1. \A u \in Thread : at[u] # "has3" /\ at'[u] # "has3"
    BY <1>0, ThreadAssumption DEF Flags
  <2>. QED  BY <1>0, <2>1, ThreadAssumption DEF Flags
<1>9. Beds'
  BY <1>0, <1>3 DEF Beds
<1>10. NobodyForgotten'
  <2>1. ASSUME NEW u \in Thread, cv'[u] = "cv1" PROVE Blocked1(no[u])'
    BY <2>1, <1>0, <1>3 DEF Blocked1, NobodyForgotten
  <2>2. ASSUME NEW u \in Thread, cv'[u] = "cv3" PROVE ~AllParked'
    <3>1. u # t /\ cv[u] = "cv3"
      BY <1>0, <1>3, <2>2
    <3>2. at[u] = "want3" /\ inUse3 /\ ~AllParked
      BY <3>1 DEF Beds, Flags, NobodyForgotten
    <3>3. CASE at[t] = "has1"
      <4>1. PICK w \in Thread : cv[w] = "cv3" /\ woken[w] = "awake"
        BY <1>1, <3>1, <3>2, <3>3, SignalFacts
      <4>2. w = u
        BY <3>2, <4>1, OneWriter DEF Beds
      <4>. QED  BY <1>1, <1>2, <2>2, <3>1, <4>1, <4>2
    <3>4. CASE at[t] = "wait2"
      BY <1>0, <3>2, <3>4 DEF AllParked
    <3>. QED  BY <1>0, <3>3, <3>4
  <2>. QED  BY <1>0, <2>1, <2>2 DEF NobodyForgotten
<1>. QED  BY <1>4, <1>6, <1>7, <1>8, <1>9, <1>10

LEMMA Unlock2Sound ==
  ASSUME LInv, NEW t \in Thread, Unlock2(t)
  PROVE  LInv'
<1>. USE DEF LInv
<1>0. /\ at[t] = "has2" /\ cv[t] = "awake" /\ mutex1 = Nobody
      /\ at'[t] = "has1"
      /\ \A u \in Thread \ {t} : at'[u] = at[u]
      /\ nLevel2' = nLevel2 - 1
      /\ inUse2' = FALSE
      /\ cv' \in Signalled("cv2")
      /\ UNCHANGED <<holders, inUse3, mutex1, no>>
  BY DEF Unlock2, Enters, LockTypeOK
<1>1. /\ cv' \in [Thread -> {"awake", "cv1", "cv2", "cv3"}]
      /\ \A u \in Thread : cv'[u] = cv[u] \/ (cv[u] = "cv2" /\ cv'[u] = "awake")
  BY <1>0, SignalFacts
<1>2. /\ InLevel1' = InLevel1 /\ InLevel2' = InLevel2 \ {t} /\ t \in InLevel2
      /\ HasLevel2' = HasLevel2 \ {t} /\ t \in HasLevel2
  BY <1>0 DEF InLevel1, InLevel2, HasLevel2
<1>3. HasLevel2' = {}
  BY <1>2 DEF OneOwner
<1>4. Books'
  <2>1. nLevel2' = Cardinality(InLevel2')
    BY <1>0, <1>2, LinesFinite, FS_RemoveElement DEF Books
  <2>. QED  BY <1>0, <1>2, <2>1 DEF Books
<1>5. LockTypeOK'
  <2>1. IsFiniteSet(InLevel2')
    BY <1>2, LinesFinite, FS_RemoveElement
  <2>2. nLevel2' \in Nat
    BY <1>4, <2>1, FS_CardinalityType DEF Books
  <2>. QED  BY <1>0, <1>1, <2>2 DEF Unlock2, LockTypeOK, Place
<1>6. OneOwner'
  BY <1>0, <1>2, <1>3 DEF OneOwner
<1>7. Flags'
  <2>1. \A u \in Thread : at'[u] \notin {"want3", "has3"} /\ at[u] # "has3"
    BY <1>0, <1>3, ThreadAssumption DEF Flags, HasLevel2
  <2>. QED  BY <1>0, <1>3, <2>1, ThreadAssumption DEF Flags
<1>8. Beds'
  BY <1>0, <1>1 DEF Beds
<1>9. NobodyForgotten'
  <2>1. ASSUME NEW u \in Thread, cv'[u] = "cv1" PROVE Blocked1(no[u])'
    BY <2>1, <1>0, <1>1 DEF Blocked1, NobodyForgotten
  <2>2. ASSUME NEW u \in Thread, cv'[u] = "cv2"
        PROVE  \E w \in Thread : at'[w] = "wait2" /\ cv'[w] = "awake"
    <3>1. cv[u] = "cv2"
      BY <1>1, <2>2
    <3>2. PICK w \in Thread : cv[w] = "cv2" /\ cv'[w] = "awake"
      BY <1>0, <3>1, SignalFacts
    <3>. QED  BY <1>0, <3>2 DEF Beds
  <2>3. ASSUME NEW u \in Thread, cv'[u] = "cv3" PROVE FALSE
    <3>1. at[u] = "want3"
      BY <1>1, <2>3 DEF Beds
    <3>. QED  BY <1>0, <3>1, OneWriter
  <2>. QED  BY <2>1, <2>2, <2>3 DEF NobodyForgotten
<1>. QED  BY <1>4, <1>5, <1>6, <1>7, <1>8, <1>9

LEMMA Lock3Sound ==
  ASSUME LInv, NEW t \in Thread, Lock3(t)
  PROVE  LInv'
<1>. USE DEF LInv
<1>0. /\ at[t] \in {"has2", "want3"} /\ cv[t] = "awake" /\ mutex1 = Nobody
      /\ at'[t] = IF AllParked THEN "has3" ELSE "want3"
      /\ cv'[t] = IF AllParked THEN "awake" ELSE "cv3"
      /\ mutex1' = IF AllParked THEN t ELSE Nobody
      /\ \A u \in Thread \ {t} : at'[u] = at[u] /\ cv'[u] = cv[u]
      /\ inUse3' = TRUE
      /\ UNCHANGED <<holders, nLevel2, inUse2, no>>
  BY DEF Lock3, Enters, LockTypeOK
<1>1. LockTypeOK'
  BY <1>0 DEF Lock3, LockTypeOK, Place
<1>2. /\ InLevel1' = InLevel1 /\ InLevel2' = InLevel2
      /\ HasLevel2' = HasLevel2 /\ t \in HasLevel2
  BY <1>0 DEF InLevel1, InLevel2, HasLevel2
<1>3. Books'
  BY <1>0, <1>2 DEF Books
<1>4. OneOwner'
  BY <1>0, <1>2 DEF OneOwner
<1>5. AllParked => InLevel1 = InLevel2
  <2>1. SUFFICES ASSUME AllParked PROVE InLevel1 = InLevel2
    OBVIOUS
  <2>2. Cardinality(InLevel1) <= Cardinality(InLevel2)
    BY <2>1 DEF AllParked, Books
  <2>3. Cardinality(InLevel2) <= Cardinality(InLevel1)
    BY LinesFinite, FS_Subset
  <2>4. Cardinality(InLevel1) \in Nat /\ Cardinality(InLevel2) \in Nat
    BY LinesFinite, FS_CardinalityType
  <2>5. Cardinality(InLevel1) = Cardinality(InLevel2)
    BY <2>2, <2>3, <2>4
  <2>. QED  BY <2>5, LinesFinite, FS_Subset
<1>6. Flags'
  <2>1. \A u \in Thread : at[u] # "has3"
    BY <1>0, ThreadAssumption DEF Flags
  <2>2. \A u \in Thread : at'[u] = "has3" <=> AllParked /\ u = t
    BY <1>0, <2>1
  <2>. QED  BY <1>0, <1>2, <1>5, <2>2, ThreadAssumption DEF Flags
<1>7. Beds'
  BY <1>0 DEF Beds
<1>8. NobodyForgotten'
  <2>1. ASSUME NEW u \in Thread, cv'[u] = "cv2"
        PROVE  (inUse2 \/ \E w \in Thread : at[w] = "wait2" /\ cv[w] = "awake")'
    <3>1. inUse2
      BY <1>2 DEF Flags
    <3>. QED  BY <1>0, <3>1
  <2>2. ASSUME NEW u \in Thread, cv'[u] = "cv3" PROVE ~AllParked'
    BY <1>0, <2>2 DEF AllParked, NobodyForgotten
  <2>. QED  BY <1>0, <2>1, <2>2 DEF NobodyForgotten, Blocked1
<1>. QED  BY <1>1, <1>3, <1>4, <1>6, <1>7, <1>8

LEMMA Unlock3Sound ==
  ASSUME LInv, NEW t \in Thread, Unlock3(t)
  PROVE  LInv'
<1>. USE DEF LInv
<1>0. /\ at[t] = "has3" /\ at'[t] = "has2"
      /\ \A u \in Thread \ {t} : at'[u] = at[u]
      /\ inUse3' = FALSE /\ mutex1 = t /\ mutex1' = Nobody
      /\ UNCHANGED <<holders, nLevel2, inUse2, no>>
  BY DEF Unlock3, LockTypeOK, Flags
<1>1. /\ cv' \in [Thread -> {"awake", "cv1", "cv2", "cv3"}]
      /\ \A u \in Thread : IF cv[u] = "cv1" THEN cv'[u] = "awake" ELSE cv'[u] = cv[u]
  BY BroadcastFacts DEF Unlock3
<1>2. LockTypeOK'
  BY <1>0, <1>1 DEF Unlock3, LockTypeOK, Place
<1>3. /\ InLevel1' = InLevel1 /\ InLevel2' = InLevel2
      /\ HasLevel2' = HasLevel2 /\ t \in HasLevel2
  BY <1>0 DEF InLevel1, InLevel2, HasLevel2
<1>4. Books' /\ OneOwner'
  BY <1>0, <1>3 DEF Books, OneOwner
<1>5. \A u \in Thread : at'[u] \notin {"want3", "has3"}
  BY <1>0, OneWriter
<1>6. Flags'
  BY <1>0, <1>3, <1>5, ThreadAssumption DEF Flags
<1>7. Beds'
  BY <1>0, <1>1 DEF Beds
<1>8. NobodyForgotten'
  <2>1. \A u \in Thread : cv'[u] \notin {"cv1", "cv3"}
    BY <1>1, <1>5, <1>7 DEF Beds
  <2>2. inUse2'
    BY <1>0, <1>3 DEF Flags
  <2>. QED  BY <2>1, <2>2 DEF NobodyForgotten
<1>. QED  BY <1>2, <1>4, <1>6, <1>7, <1>8

LEMMA SpuriousSound ==
  ASSUME LInv, NEW t \in Thread, Spurious(t)
  PROVE  LInv'
<1>. USE DEF LInv
<1>0. /\ cv'[t] = "awake" /\ \A u \in Thread \ {t} : cv'[u] = cv[u]
      /\ cv' \in [Thread -> {"awake", "cv1", "cv2", "cv3"}]
      /\ UNCHANGED <<holders, nLevel2, inUse2, inUse3, mutex1, at, no>>
  BY DEF Spurious, LockTypeOK
<1>1. LockTypeOK'
  BY <1>0 DEF LockTypeOK
<1>2. InLevel1' = InLevel1 /\ InLevel2' = InLevel2 /\ HasLevel2' = HasLevel2
  BY <1>0 DEF InLevel1, InLevel2, HasLevel2
<1>3. Books' /\ OneOwner' /\ Flags'
  BY <1>0, <1>2 DEF Books, OneOwner, Flags
<1>4. Beds'
  BY <1>0 DEF Beds
<1>5. NobodyForgotten'
  <2>1. ASSUME NEW u \in Thread, cv'[u] = "cv2"
        PROVE  (inUse2 \/ \E w \in Thread : at[w] = "wait2" /\ cv[w] = "awake")'
    <3>1. inUse2 \/ \E w \in Thread : at[w] = "wait2" /\ cv[w] = "awake"
      BY <1>0, <2>1 DEF NobodyForgotten
    <3>. QED  BY <1>0, <3>1
  <2>. QED  BY <1>0, <2>1 DEF NobodyForgotten, Blocked1, AllParked
<1>. QED  BY <1>1, <1>3, <1>4, <1>5

LEMMA StepSound == LInv /\ [LockNext]_lockVars => LInv'
<1>. SUFFICES ASSUME LInv, [LockNext]_lockVars PROVE LInv'
  OBVIOUS
<1>1. CASE LockNext
  BY <1>1, Lock1Sound, Unlock1Sound, Lock2Sound, Unlock2Sound, Lock3Sound,
     Unlock3Sound, SpuriousSound DEF LockNext, LockStep
<1>2. CASE UNCHANGED lockVars
  <2>1. InLevel1' = InLevel1 /\ InLevel2' = InLevel2 /\ HasLevel2' = HasLevel2
    BY <1>2 DEF lockVars, InLevel1, InLevel2, HasLevel2
  <2>2. LockTypeOK' /\ Books' /\ OneOwner' /\ Flags' /\ Beds'
    BY <1>2, <2>1 DEF lockVars, LInv, LockTypeOK, Books, OneOwner, Flags, Beds
  <2>3. NobodyForgotten'
    BY <1>2 DEF lockVars, LInv, NobodyForgotten, Blocked1, AllParked
  <2>. QED  BY <2>2, <2>3 DEF LInv
<1>. QED  BY <1>1, <1>2

\* Level 3 is reached with every other holder of a list asleep in line for
\* level 2, or taking its turn there.
LEMMA AloneFromBooks == LInv => WriterAlone
<1>. SUFFICES ASSUME LInv, NEW t \in Thread, NEW u \in Thread, at[t] = "has3", u # t
              PROVE  at[u] \in {"out", "want1", "wait2"}
  BY DEF WriterAlone
<1>1. InLevel1 = InLevel2
  BY DEF LInv, Flags
<1>2. at[u] \in Place
  BY DEF LInv, LockTypeOK
<1>3. at[u] # "has1"
  BY <1>1 DEF InLevel1, InLevel2
<1>4. at[u] \notin {"has2", "want3", "has3"}
  BY OneWriter
<1>. QED  BY <1>2, <1>3, <1>4 DEF Place

----------------------------------------------------------------------------
(* From any use of the lock to the use OnDiskLists makes of it.            *)

\* The numbers lock_1 is called with are numbers of lists.
Jobs ==
  /\ pc = [t \in Thread |-> pc[t]]
  /\ job = [t \in Thread |-> job[t]]
  /\ \A t \in Thread : pc[t] = "lock" => job[t].list \in List

LEMMA JobsStep == Jobs /\ [Next]_vars => Jobs'
<1>. SUFFICES ASSUME Jobs, [Next]_vars PROVE Jobs'
  OBVIOUS
<1>1. ASSUME NEW t \in Thread, NEW l \in List, AddEntries(t, l) \/ Resize(t, l) PROVE Jobs'
  BY <1>1 DEF AddEntries, Resize, Calls, Goto, Jobs
<1>2. ASSUME NEW t \in Thread, Locks(t) PROVE Jobs'
  BY <1>2 DEF Locks, Jobs
<1>3. ASSUME NEW t \in Thread, AdderStep(t) PROVE Jobs'
  <2>. USE DEF Jobs, Goto
  <2>1. CASE StaysInPlace(t)
    BY <2>1 DEF StaysInPlace, Sized
  <2>2. CASE Queues(t)
    BY <2>2 DEF Queues
  <2>3. CASE Reslots(t)
    BY <2>3 DEF Reslots
  <2>4. CASE Announces(t)
    BY <2>4 DEF Announces
  <2>5. CASE Remaps(t)
    BY <2>5 DEF Remaps
  <2>6. CASE Moves(t)
    BY <2>6 DEF Moves, Sized
  <2>7. CASE Fills(t)
    BY <2>7 DEF Fills
  <2>8. CASE Returns(t)
    BY <2>8 DEF Returns
  <2>. QED  BY <1>3, <2>1, <2>2, <2>3, <2>4, <2>5, <2>6, <2>7, <2>8 DEF AdderStep
<1>4. ASSUME NEW w \in Thread, WorkerStep(w) PROVE Jobs'
  <2>. USE DEF Jobs, Goto
  <2>1. CASE Takes(w)
    BY <2>1 DEF Takes, NoJob
  <2>2. CASE Ends(w)
    BY <2>2 DEF Ends
  <2>3. CASE HasRead(w)
    BY <2>3 DEF HasRead
  <2>. QED  BY <1>4, <2>1, <2>2, <2>3 DEF WorkerStep
<1>5. ASSUME NEW t \in Thread, WakesUp(t) PROVE Jobs'
  BY <1>5 DEF WakesUp, Jobs
<1>6. ASSUME NEW sizes \in Merges, Merge(sizes) PROVE Jobs'
  BY <1>6 DEF Merge, Jobs
<1>7. ASSUME NEW r \in Requests, Clears(r) PROVE Jobs'
  BY <1>7 DEF Clears, Jobs
<1>8. CASE Restarts
  BY <1>8 DEF Restarts, Jobs
<1>9. CASE UNCHANGED vars
  BY <1>9 DEF vars, Jobs
<1>. QED  BY <1>1, <1>2, <1>3, <1>4, <1>5, <1>6, <1>7, <1>8, <1>9
         DEF Next, ThreadStep, Rests

LEMMA UsesLock == Jobs /\ [Next]_vars => [LockNext]_lockVars
<1>. SUFFICES ASSUME Jobs, [Next]_vars PROVE [LockNext]_lockVars
  OBVIOUS
<1>. USE DEF LockNext, LockStep
<1>1. ASSUME NEW t \in Thread, NEW l \in List, AddEntries(t, l) \/ Resize(t, l)
      PROVE  LockNext
  BY <1>1 DEF AddEntries, Resize, Calls
<1>2. ASSUME NEW t \in Thread, Locks(t) PROVE LockNext
  BY <1>2 DEF Locks, Jobs
<1>3. ASSUME NEW t \in Thread, AdderStep(t) PROVE [LockNext]_lockVars
  BY <1>3 DEF AdderStep, StaysInPlace, Queues, Reslots, Announces, Remaps, Moves, Fills,
              Returns, lockVars
<1>4. ASSUME NEW w \in Thread, WorkerStep(w) PROVE [LockNext]_lockVars
  BY <1>4 DEF WorkerStep, Takes, Ends, HasRead
<1>5. ASSUME NEW t \in Thread, WakesUp(t) PROVE LockNext
  BY <1>5 DEF WakesUp
<1>6. ASSUME \/ \E sizes \in Merges : Merge(sizes)
             \/ \E r \in Requests : Clears(r)
             \/ Restarts
             \/ UNCHANGED vars
      PROVE  UNCHANGED lockVars
  BY <1>6 DEF Merge, Clears, Restarts, vars
<1>. QED  BY <1>1, <1>2, <1>3, <1>4, <1>5, <1>6 DEF Next, ThreadStep, Rests

\* The whole argument: the lock's books are kept by every use of the lock, and
\* add_entries, resize and the threads that read ahead use it.
LEMMA LocksKept == Spec => [](LInv /\ Jobs)
<1>1. Init => LInv /\ Jobs
  BY InitSound DEF Init, Jobs
<1>2. (LInv /\ Jobs) /\ [Next]_vars => (LInv /\ Jobs)'
  BY StepSound, JobsStep, UsesLock
<1>. QED  BY <1>1, <1>2, PTL DEF Spec

----------------------------------------------------------------------------
\* LockLevels, used in any order its functions allow by any threads
\* (OnDiskInvertedLists.cpp:32-38): counters and flags stay in their types.
THEOREM LockTypeCorrect == LockSpec => []LockTypeOK
<1>1. LInv => LockTypeOK
  BY DEF LInv
<1>. QED  BY <1>1, InitSound, StepSound, PTL DEF LockSpec

\* Two threads never hold level 1 of one list, nor level 2 together.
THEOREM LockOwners == LockSpec => []OneOwner
<1>1. LInv => OneOwner
  BY DEF LInv
<1>. QED  BY <1>1, InitSound, StepSound, PTL DEF LockSpec

\* While add_entries or resize moves the mapped file under level 3, no other
\* thread is past lock_1 but those asleep in lock_2.
THEOREM FileMovedAlone == Spec => []WriterAlone
BY LocksKept, AloneFromBooks, PTL

\* No thread sleeps on a condition that holds already, unless a thread that
\* was woken before it will hand the turn on.
THEOREM NoLostWakeUp == Spec => []NobodyForgotten
<1>1. LInv => NobodyForgotten
  BY DEF LInv
<1>. QED  BY <1>1, LocksKept, PTL

----------------------------------------------------------------------------
(* What the helpers of the allocator compute.                              *)

\* A set of numbers that is not empty has a least one.
LEMMA LeastExists ==
  ASSUME NEW S \in SUBSET Nat, S # {}
  PROVE  \E n \in S : \A m \in S : n <= m
<1>1. IsWellFoundedOn(OpToRel(<, Nat), Nat)
  BY NatLessThanWellFounded
<1>2. PICK n \in S : \A m \in S : <<m, n>> \notin OpToRel(<, Nat)
  BY <1>1, WFMin, Zenon
<1>3. \A m \in S : ~(m < n)
  BY <1>2 DEF OpToRel
<1>4. QED
  BY <1>3

\* f has the values of a recursion that begins with a and goes on with step.
Follows(f, N, a, step) ==
  f = [i \in 0 .. N |-> IF i = 0 THEN a ELSE step[i][f[i - 1]]]

\* There is such a function, found by extending the one of a smaller N.
LEMMA RecursionExists ==
  ASSUME NEW N \in Nat, NEW V, NEW a \in V, NEW step \in [1 .. N -> [V -> V]]
  PROVE  \E f \in [0 .. N -> V] : Follows(f, N, a, step)
<1> DEFINE Upto(f, k) == /\ f \in [0 .. k -> V] /\ f[0] = a
                         /\ \A i \in 1 .. k : f[i] = step[i][f[i - 1]]
           Bad == {k \in 0 .. N : ~ \E f : Upto(f, k)}
<1>1. Bad = {}
  <2> SUFFICES ASSUME Bad # {} PROVE FALSE
    OBVIOUS
  <2>1. PICK k \in Bad : \A m \in Bad : k <= m
    <3>1. Bad \in SUBSET Nat
      OBVIOUS
    <3> HIDE DEF Bad
    <3>2. QED
      BY <3>1, LeastExists
  <2>2. CASE k = 0
    <3>1. Upto([i \in 0 .. 0 |-> a], 0)
      OBVIOUS
    <3>2. QED
      BY <2>2, <3>1
  <2>3. CASE k > 0
    <3>1. k - 1 \in 0 .. N /\ k \in 1 .. N /\ k - 1 \notin Bad
      BY <2>1, <2>3
    <3>2. PICK f : Upto(f, k - 1)
      BY <3>1
    <3> DEFINE g == [i \in 0 .. k |-> IF i = k THEN step[k][f[k - 1]] ELSE f[i]]
    <3>3. f[k - 1] \in V /\ step[k] \in [V -> V]
      BY <3>1, <3>2
    <3>4. step[k][f[k - 1]] \in V
      BY <3>3
    <3>5. g \in [0 .. k -> V]
      BY <3>1, <3>2, <3>4
    <3>6. g[0] = a
      BY <3>1, <3>2
    <3>7. \A i \in 1 .. k : g[i] = step[i][g[i - 1]]
      BY <3>1, <3>2
    <3>8. QED
      BY <3>5, <3>6, <3>7
  <2>4. QED
    BY <2>1, <2>2, <2>3
<1>2. PICK f : Upto(f, N)
  BY <1>1
<1>3. f = [i \in 0 .. N |-> IF i = 0 THEN a ELSE step[i][f[i - 1]]]
  BY <1>2
<1>4. QED
  BY <1>2, <1>3 DEF Follows

\* Doubling reaches every number.
LEMMA DoubledIs ==
  ASSUME NEW n \in Nat \ {0}, NEW least \in Nat
  PROVE  Doubled(n, least) \in Nat \ {0} /\ Doubled(n, least) >= least
<1> DEFINE step == [i \in 1 .. least |-> [v \in Nat |-> 2 * v]]
           times == CHOOSE f : f = [i \in 0 .. least |-> IF i = 0 THEN n ELSE 2 * f[i - 1]]
           Reached(i) == times[i] >= least /\ \A j \in 0 .. i - 1 : times[j] < least
<1>1. \E f : f = [i \in 0 .. least |-> IF i = 0 THEN n ELSE 2 * f[i - 1]]
  <2>1. step \in [1 .. least -> [Nat -> Nat]]
    OBVIOUS
  <2>2. PICK f \in [0 .. least -> Nat] : Follows(f, least, n, step)
    <3> HIDE DEF step
    <3>1. QED
      BY <2>1, RecursionExists
  <2>3. \A i \in 1 .. least : step[i][f[i - 1]] = 2 * f[i - 1]
    BY <2>2
  <2>4. f = [i \in 0 .. least |-> IF i = 0 THEN n ELSE step[i][f[i - 1]]]
    BY <2>2 DEF Follows
  <2> HIDE DEF step
  <2>5. \A i \in 0 .. least : f[i] = IF i = 0 THEN n ELSE 2 * f[i - 1]
    BY <2>3, <2>4
  <2>6. f = [i \in 0 .. least |-> IF i = 0 THEN n ELSE 2 * f[i - 1]]
    BY <2>2, <2>5
  <2>7. QED
    BY <2>6
<1>2. times = [i \in 0 .. least |-> IF i = 0 THEN n ELSE 2 * times[i - 1]]
  BY <1>1
<1>3. Doubled(n, least) = times[CHOOSE i \in 0 .. least : Reached(i)]
  BY DEF Doubled
<1> HIDE DEF times, step
<1>4. \A i \in 0 .. least : times[i] \in Nat /\ times[i] > i
  <2> DEFINE Bad == {i \in 0 .. least : ~(times[i] \in Nat /\ times[i] > i)}
  <2> SUFFICES ASSUME Bad # {} PROVE FALSE
    OBVIOUS
  <2>1. PICK i \in Bad : \A j \in Bad : i <= j
    <3>1. Bad \in SUBSET Nat
      OBVIOUS
    <3> HIDE DEF Bad
    <3>2. QED
      BY <3>1, LeastExists
  <2>2. i # 0
    BY <1>2
  <2>3. i - 1 \in 0 .. least /\ i - 1 \notin Bad
    BY <2>1, <2>2
  <2>4. times[i] = 2 * times[i - 1]
    BY <1>2, <2>2
  <2>5. times[i - 1] \in Nat /\ times[i - 1] > i - 1
    BY <2>3
  <2>6. times[i] \in Nat /\ times[i] > i
    BY <2>2, <2>4, <2>5
  <2>7. QED
    BY <2>6
<1>5. \E i \in 0 .. least : Reached(i)
  <2> DEFINE Good == {i \in 0 .. least : times[i] >= least}
  <2>1. Good \in SUBSET Nat /\ Good # {}
    BY <1>4
  <2>2. PICK i \in Good : \A j \in Good : i <= j
    <3> HIDE DEF Good
    <3>1. QED
      BY <2>1, LeastExists
  <2>3. \A j \in 0 .. i - 1 : times[j] < least
    <3> SUFFICES ASSUME NEW j \in 0 .. i - 1, ~(times[j] < least) PROVE FALSE
      OBVIOUS
    <3>1. j \in 0 .. least /\ times[j] \in Nat
      BY <1>4, <2>2
    <3>2. QED
      BY <2>2, <3>1
  <2>4. QED
    BY <2>2, <2>3
<1> DEFINE k == CHOOSE i \in 0 .. least : Reached(i)
<1>6. k \in 0 .. least /\ Reached(k)
  BY <1>5
<1> HIDE DEF k
<1>7. times[k] \in Nat \ {0} /\ times[k] >= least
  BY <1>4, <1>6
<1>8. QED
  BY <1>3, <1>7 DEF k

\* Capacities and the sizes of the file are large enough.
LEMMA CapacityIs ==
  ASSUME NEW size \in Nat PROVE Capacity(size) \in Nat \ {0} /\ Capacity(size) >= size
<1>1. 1 \in Nat \ {0}
  OBVIOUS
<1>2. QED
  BY <1>1, DoubledIs DEF Capacity

LEMMA NewSizeIs ==
  ASSUME totsize \in Nat, NEW bytes \in Nat
  PROVE  NewSize(bytes) \in Nat /\ NewSize(bytes) >= totsize + bytes
<1> DEFINE n == IF totsize = 0 THEN FirstSize ELSE 2 * totsize
<1>1. n \in Nat \ {0} /\ totsize + bytes \in Nat
  BY SizesAssumption
<1>2. NewSize(bytes) = Doubled(n, totsize + bytes)
  BY DEF NewSize
<1> HIDE DEF n
<1>3. QED
  BY <1>1, <1>2, DoubledIs

----------------------------------------------------------------------------
(* The allocator of slots.                                                 *)

\* n bytes from a on and m from b on have none in common.
Clear(a, n, b, m) == n = 0 \/ m = 0 \/ a + n <= b \/ b + m <= a

\* The slots ss are inside of a file of size bytes, and apart.
Holes(ss, size) ==
  /\ \A s \in ss : /\ s \in [off : Nat, cap : Nat \ {0}]
                   /\ s.off + s.cap <= size
  /\ \A s, r \in ss : s # r => Clear(s.off, s.cap, r.off, r.cap)

\* None of them has one of the m bytes from b on.
ClearOf(ss, b, m) == \A s \in ss : Clear(s.off, s.cap, b, m)

LEMMA ClearMeans ==
  ASSUME NEW a \in Int, NEW n \in Int, NEW b \in Int, NEW m \in Int, Clear(a, n, b, m)
  PROVE  (a .. a + n - 1) \cap (b .. b + m - 1) = {}
BY DEF Clear

LEMMA FreedIs ==
  ASSUME NEW size \in Nat, NEW ss, Holes(ss, size), NEW off \in Int, NEW cap \in Nat,
         cap > 0 => off >= 0 /\ off + cap <= size, ClearOf(ss, off, cap)
  PROVE  /\ Holes(Freed(ss, off, cap), size)
         /\ \A b \in Int, m \in Nat : ClearOf(ss, b, m) /\ Clear(off, cap, b, m)
                                => ClearOf(Freed(ss, off, cap), b, m)
<1>1. CASE cap = 0
  BY <1>1 DEF Freed
<1>2. CASE cap > 0
  <2> DEFINE end    == off + cap
             before == {s \in ss : s.off + s.cap = off}
             after  == {s \in ss : s.off = end}
             from   == IF before = {} THEN off ELSE (CHOOSE s \in before : TRUE).off
             to     == IF after = {} THEN end ELSE end + (CHOOSE s \in after : TRUE).cap
             rest   == ss \ (before \cup after)
             joined == Slot(from, to - from)
  <2>1. Freed(ss, off, cap) = rest \cup {joined}
    BY <1>2 DEF Freed
  <2>2. \A s \in ss : s.off \in Nat /\ s.cap \in Nat \ {0} /\ s.off + s.cap <= size
    BY DEF Holes
  <2>3. \/ before = {} /\ from = off
        \/ \E s \in ss : s.off + s.cap = off /\ from = s.off /\ s \in before
    OBVIOUS
  <2>4. \/ after = {} /\ to = end
        \/ \E s \in ss : s.off = end /\ to = end + s.cap /\ s \in after
    OBVIOUS
  <2>5. /\ from \in Nat /\ from <= off /\ to \in Nat /\ end <= to /\ to <= size
    BY <1>2, <2>2, <2>3, <2>4
  <2>6. joined.off = from /\ joined.cap = to - from /\ joined \in [off : Nat, cap : Nat \ {0}]
    BY <1>2, <2>5 DEF Slot
  <2> HIDE DEF from, to, joined
  <2>7. ASSUME NEW b \in Int, NEW m \in Nat, \A s \in before \cup after : Clear(s.off, s.cap, b, m),
               Clear(off, cap, b, m)
        PROVE  Clear(joined.off, joined.cap, b, m)
    <3>1. Clear(from, off - from, b, m)
      BY <2>2, <2>3, <2>7 DEF Clear
    <3>2. Clear(end, to - end, b, m)
      BY <1>2, <2>2, <2>4, <2>7 DEF Clear
    <3>3. Clear(off, cap, b, m)
      BY <2>7
    <3> DEFINE p == from
               q == to
    <3>4. /\ p \in Int /\ q \in Int /\ p <= off /\ off + cap <= q
          /\ Clear(p, off - p, b, m) /\ Clear(off + cap, q - (off + cap), b, m)
      BY <2>5, <3>1, <3>2
    <3> HIDE DEF before, after, p, q
    <3>5. Clear(p, q - p, b, m)
      BY <1>2, <3>3, <3>4 DEF Clear
    <3>6. QED
      BY <2>6, <3>5 DEF p, q
  <2>8. ASSUME NEW r \in rest
        PROVE  Clear(joined.off, joined.cap, r.off, r.cap)
    <3>1. \A s \in before \cup after : Clear(s.off, s.cap, r.off, r.cap)
      BY DEF Holes
    <3>2. Clear(off, cap, r.off, r.cap)
      BY <1>2, <2>2 DEF ClearOf, Clear
    <3>3. r.off \in Int /\ r.cap \in Nat
      BY <2>2
    <3> HIDE DEF before, after
    <3>4. QED
      BY <2>7, <3>1, <3>2, <3>3
  <2>9. Holes(rest \cup {joined}, size)
    <3>1. \A s \in rest \cup {joined} : s \in [off : Nat, cap : Nat \ {0}] /\ s.off + s.cap <= size
      BY <2>5, <2>6 DEF Holes
    <3>2. ASSUME NEW s \in rest \cup {joined}, NEW r \in rest \cup {joined}, s # r
          PROVE  Clear(s.off, s.cap, r.off, r.cap)
      <4>1. CASE s \in rest /\ r \in rest
        BY <3>2, <4>1 DEF Holes
      <4>2. CASE s = joined /\ r \in rest
        BY <2>8, <4>2
      <4>3. CASE s \in rest /\ r = joined
        <5>1. Clear(r.off, r.cap, s.off, s.cap)
          BY <2>8, <4>3
        <5>2. QED
          BY <5>1 DEF Clear
      <4>4. QED
        BY <3>2, <4>1, <4>2, <4>3
    <3>3. QED
      BY <3>1, <3>2 DEF Holes
  <2>10. ASSUME NEW b \in Int, NEW m \in Nat, ClearOf(ss, b, m), Clear(off, cap, b, m)
         PROVE  ClearOf(rest \cup {joined}, b, m)
    <3>1. Clear(joined.off, joined.cap, b, m)
      BY <2>7, <2>10 DEF ClearOf
    <3>2. QED
      BY <2>10, <3>1 DEF ClearOf
  <2>11. QED
    BY <2>1, <2>9, <2>10
<1>3. QED
  BY <1>1, <1>2

\* A slot that fits is there to be taken, and what is left of it stays apart.
LEMMA TakenIs ==
  ASSUME NEW size \in Nat, NEW ss, Holes(ss, size), NEW bytes \in Nat \ {0},
         Fits(ss, bytes) # {}
  PROVE  /\ FirstFit(ss, bytes).off \in Nat /\ FirstFit(ss, bytes).off + bytes <= size
         /\ Holes(Taken(ss, bytes), size)
         /\ ClearOf(Taken(ss, bytes), FirstFit(ss, bytes).off, bytes)
         /\ \A b \in Int, m \in Nat : ClearOf(ss, b, m) =>
              /\ ClearOf(Taken(ss, bytes), b, m)
              /\ Clear(FirstFit(ss, bytes).off, bytes, b, m)
<1>1. \A s \in ss : s.off \in Nat /\ s.cap \in Nat \ {0} /\ s.off + s.cap <= size
  BY DEF Holes
<1>2. \E s \in Fits(ss, bytes) : \A r \in Fits(ss, bytes) : s.off <= r.off
  <2> DEFINE Offs == {s.off : s \in Fits(ss, bytes)}
  <2>1. Offs \in SUBSET Nat /\ Offs # {}
    BY <1>1 DEF Fits
  <2>2. PICK n \in Offs : \A m \in Offs : n <= m
    <3> HIDE DEF Offs
    <3>1. QED
      BY <2>1, LeastExists
  <2>3. QED
    BY <2>2
<1> DEFINE f == FirstFit(ss, bytes)
<1>3. f \in Fits(ss, bytes)
  BY <1>2 DEF FirstFit
<1>4. f \in ss /\ f.cap >= bytes /\ f.off \in Nat /\ f.cap \in Nat \ {0} /\ f.off + f.cap <= size
  BY <1>1, <1>3 DEF Fits
<1> HIDE DEF f
<1> DEFINE rest == Slot(f.off + bytes, f.cap - bytes)
<1>5. rest.off = f.off + bytes /\ rest.cap = f.cap - bytes
  BY DEF Slot
<1>6. f.cap # bytes => rest \in [off : Nat, cap : Nat \ {0}]
  BY <1>4 DEF Slot
<1> HIDE DEF rest
<1>7. Taken(ss, bytes) = (ss \ {f}) \cup IF f.cap = bytes THEN {} ELSE {rest}
  BY DEF Taken, f, rest
<1>8. ASSUME NEW b \in Int, NEW m \in Nat, Clear(f.off, f.cap, b, m)
      PROVE  Clear(f.off, bytes, b, m) /\ (f.cap # bytes => Clear(rest.off, rest.cap, b, m))
  BY <1>4, <1>5, <1>8 DEF Clear
<1>9. \A r \in ss \ {f} : Clear(f.off, f.cap, r.off, r.cap) /\ Clear(r.off, r.cap, f.off, f.cap)
  BY <1>4 DEF Holes
<1>10. \A r \in ss \ {f} : /\ Clear(f.off, bytes, r.off, r.cap)
                           /\ f.cap # bytes => Clear(rest.off, rest.cap, r.off, r.cap)
  BY <1>1, <1>8, <1>9
<1>11. \A r \in ss \ {f} : f.cap # bytes => Clear(r.off, r.cap, rest.off, rest.cap)
  BY <1>10 DEF Clear
<1>12. Holes(Taken(ss, bytes), size)
  <2>1. ASSUME NEW s \in Taken(ss, bytes)
        PROVE  s \in [off : Nat, cap : Nat \ {0}] /\ s.off + s.cap <= size
    BY <1>4, <1>5, <1>6, <1>7 DEF Holes
  <2>2. ASSUME NEW s \in Taken(ss, bytes), NEW r \in Taken(ss, bytes), s # r
        PROVE  Clear(s.off, s.cap, r.off, r.cap)
    <3>1. CASE s \in ss \ {f} /\ r \in ss \ {f}
      BY <2>2, <3>1 DEF Holes
    <3>2. CASE s = rest /\ r \in ss \ {f} /\ f.cap # bytes
      BY <1>10, <3>2
    <3>3. CASE s \in ss \ {f} /\ r = rest /\ f.cap # bytes
      BY <1>11, <3>3
    <3>4. QED
      BY <1>7, <2>2, <3>1, <3>2, <3>3
  <2>3. QED
    BY <2>1, <2>2 DEF Holes
<1>13. ClearOf(Taken(ss, bytes), f.off, bytes)
  <2>1. ASSUME NEW s \in Taken(ss, bytes)
        PROVE  Clear(s.off, s.cap, f.off, bytes)
    <3>1. CASE s \in ss \ {f}
      <4>1. Clear(f.off, bytes, s.off, s.cap)
        BY <1>10, <3>1
      <4>2. QED
        BY <4>1 DEF Clear
    <3>2. CASE s = rest
      BY <1>4, <1>5, <3>2 DEF Clear
    <3>3. QED
      BY <1>7, <2>1, <3>1, <3>2
  <2>2. QED
    BY <2>1 DEF ClearOf
<1>14. ASSUME NEW b \in Int, NEW m \in Nat, ClearOf(ss, b, m)
       PROVE  ClearOf(Taken(ss, bytes), b, m) /\ Clear(f.off, bytes, b, m)
  <2>1. Clear(f.off, f.cap, b, m)
    BY <1>4, <1>14 DEF ClearOf
  <2>2. QED
    BY <1>7, <1>8, <1>14, <2>1 DEF ClearOf
<1>15. f.off + bytes <= size
  BY <1>4
<1>16. QED
  BY <1>4, <1>12, <1>13, <1>14, <1>15 DEF f

\* In a file that was made longer there is a slot for the bytes it was made
\* longer for.
LEMMA ExtendedIs ==
  ASSUME totsize \in Nat, NEW ss, Holes(ss, totsize), NEW bytes \in Nat \ {0},
         NEW size \in Nat, size >= totsize + bytes
  PROVE  /\ Holes(Extended(ss, size), size)
         /\ Fits(Extended(ss, size), bytes) # {}
         /\ \A b \in Int, m \in Nat : b + m <= totsize /\ ClearOf(ss, b, m)
                                        => ClearOf(Extended(ss, size), b, m)
<1> DEFINE last == {s \in ss : s.off + s.cap = totsize}
           longer(s) == Slot(s.off, s.cap + size - totsize)
<1>1. \A s \in ss : s.off \in Nat /\ s.cap \in Nat \ {0} /\ s.off + s.cap <= totsize
  BY DEF Holes
<1>2. CASE last = {}
  <2> DEFINE new == Slot(totsize, size - totsize)
  <2>1. Extended(ss, size) = ss \cup {new}
    BY <1>2 DEF Extended
  <2>2. new.off = totsize /\ new.cap = size - totsize /\ new \in [off : Nat, cap : Nat \ {0}]
    BY DEF Slot
  <2> HIDE DEF new
  <2>3. Holes(ss \cup {new}, size)
    BY <1>1, <2>2 DEF Holes, Clear
  <2>4. new \in Fits(ss \cup {new}, bytes)
    BY <2>2 DEF Fits
  <2>5. ASSUME NEW b \in Int, NEW m \in Nat, b + m <= totsize, ClearOf(ss, b, m)
        PROVE  ClearOf(ss \cup {new}, b, m)
    BY <2>2, <2>5 DEF ClearOf, Clear
  <2>6. QED
    BY <2>1, <2>3, <2>4, <2>5
<1>3. CASE last # {}
  <2>1. PICK s \in ss : s.off + s.cap = totsize
    BY <1>3
  <2>2. last = {s}
    <3> SUFFICES ASSUME NEW r \in ss, r.off + r.cap = totsize, r # s PROVE FALSE
      BY <2>1
    <3>1. Clear(s.off, s.cap, r.off, r.cap)
      BY DEF Holes
    <3>2. QED
      BY <1>1, <2>1, <3>1 DEF Clear
  <2> DEFINE new == longer(s)
  <2>3. Extended(ss, size) = (ss \ {s}) \cup {new}
    BY <1>3, <2>2 DEF Extended
  <2>4. /\ new.off = s.off /\ new.cap = s.cap + size - totsize
        /\ new \in [off : Nat, cap : Nat \ {0}]
    BY <1>1 DEF Slot
  <2> HIDE DEF new, last
  <2>5. new.off + new.cap <= size /\ new.cap >= bytes
    BY <1>1, <2>1, <2>4
  <2>6. ASSUME NEW b \in Int, NEW m \in Nat, b + m <= totsize, Clear(s.off, s.cap, b, m)
        PROVE  Clear(new.off, new.cap, b, m)
    BY <1>1, <2>1, <2>4, <2>6 DEF Clear
  <2>7. ASSUME NEW r \in ss \ {s}
        PROVE  Clear(new.off, new.cap, r.off, r.cap) /\ Clear(r.off, r.cap, new.off, new.cap)
    <3>1. Clear(s.off, s.cap, r.off, r.cap)
      BY DEF Holes
    <3>2. Clear(new.off, new.cap, r.off, r.cap)
      BY <1>1, <2>6, <3>1
    <3>3. QED
      BY <3>2 DEF Clear
  <2>8. Holes((ss \ {s}) \cup {new}, size)
    <3>1. \A r \in (ss \ {s}) \cup {new} : r \in [off : Nat, cap : Nat \ {0}] /\ r.off + r.cap <= size
      BY <1>1, <2>4, <2>5 DEF Holes
    <3>2. \A r, q \in (ss \ {s}) \cup {new} : r # q => Clear(r.off, r.cap, q.off, q.cap)
      BY <2>7 DEF Holes
    <3>3. QED
      BY <3>1, <3>2 DEF Holes
  <2>9. new \in Fits((ss \ {s}) \cup {new}, bytes)
    BY <2>5 DEF Fits
  <2>10. ASSUME NEW b \in Int, NEW m \in Nat, b + m <= totsize, ClearOf(ss, b, m)
         PROVE  ClearOf((ss \ {s}) \cup {new}, b, m)
    <3>1. Clear(new.off, new.cap, b, m)
      BY <2>6, <2>10 DEF ClearOf
    <3>2. QED
      BY <2>10, <3>1 DEF ClearOf
  <2>11. QED
    BY <2>3, <2>8, <2>9, <2>10
<1>4. QED
  BY <1>2, <1>3

LEMMA EntrySizeIs ==
  /\ CodeSize \in Nat \ {0} /\ IdSize \in Nat \ {0} /\ EntrySize \in Nat \ {0}
  /\ EntrySize = CodeSize + IdSize
BY SizesAssumption DEF EntrySize

\* A larger number of entries takes more bytes.
LEMMA Bytes ==
  ASSUME NEW n \in Nat, NEW c \in Nat \ {0}
  PROVE  n * c \in Nat /\ n <= n * c
OBVIOUS

LEMMA MoreBytes ==
  ASSUME NEW m \in Nat, NEW n \in Nat, m <= n, NEW c \in Nat
  PROVE  m * c <= n * c
<1>1. (n - m) * c \in Nat
  OBVIOUS
<1>2. (n - m) * c = n * c - m * c
  OBVIOUS
<1>3. QED
  BY <1>1, <1>2

\* merge_from_multiple puts the lists one behind the other.
LEMMA StartsAre ==
  ASSUME NEW sizes \in [List -> Nat]
  PROVE  /\ Cardinality(List) \in Nat
         /\ \A l \in 0 .. Cardinality(List) : Starts(sizes)[l] \in Nat
         /\ \A l \in List : /\ sizes[l] * EntrySize \in Nat
                            /\ \A o \in 0 .. Cardinality(List) : l < o =>
                                 Starts(sizes)[l] + sizes[l] * EntrySize <= Starts(sizes)[o]
<1>1. PICK n \in Nat : n = Cardinality(List)
  BY NumbersAssumption, FS_CardinalityType
<1>2. List = 0 .. n - 1
  BY <1>1, NumbersAssumption
<1> DEFINE size == [l \in List |-> sizes[l] * EntrySize]
           step == [l \in 1 .. n |-> [v \in Nat |-> v + size[l - 1]]]
           cums == CHOOSE f : f = [l \in 0 .. n |-> IF l = 0 THEN 0
                                     ELSE f[l - 1] + sizes[l - 1] * EntrySize]
<1>3. size \in [List -> Nat] /\ \A l \in List : size[l] = sizes[l] * EntrySize
  BY EntrySizeIs, Bytes
<1>4. Starts(sizes) = cums
  BY <1>1 DEF Starts
<1> HIDE DEF size
<1>5. \E f : f = [l \in 0 .. n |-> IF l = 0 THEN 0 ELSE f[l - 1] + sizes[l - 1] * EntrySize]
  <2>1. step \in [1 .. n -> [Nat -> Nat]] /\ 0 \in Nat
    BY <1>2, <1>3
  <2>2. PICK f \in [0 .. n -> Nat] : Follows(f, n, 0, step)
    <3> HIDE DEF step
    <3>1. QED
      BY <2>1, RecursionExists
  <2>3. \A l \in 1 .. n : step[l][f[l - 1]] = f[l - 1] + sizes[l - 1] * EntrySize
    BY <1>2, <1>3, <2>2
  <2>4. f = [l \in 0 .. n |-> IF l = 0 THEN 0 ELSE step[l][f[l - 1]]]
    BY <2>2 DEF Follows
  <2> HIDE DEF step
  <2>5. \A l \in 0 .. n : f[l] = IF l = 0 THEN 0 ELSE f[l - 1] + sizes[l - 1] * EntrySize
    BY <2>3, <2>4
  <2>6. f = [l \in 0 .. n |-> IF l = 0 THEN 0 ELSE f[l - 1] + sizes[l - 1] * EntrySize]
    BY <2>2, <2>5
  <2>7. QED
    BY <2>6
<1>6. cums = [l \in 0 .. n |-> IF l = 0 THEN 0 ELSE cums[l - 1] + sizes[l - 1] * EntrySize]
  BY <1>5
<1> HIDE DEF cums, step
<1>7. \A l \in 1 .. n : cums[l] = cums[l - 1] + size[l - 1]
  BY <1>2, <1>3, <1>6
<1>8. \A l \in 0 .. n : cums[l] \in Nat
  <2> DEFINE Bad == {l \in 0 .. n : cums[l] \notin Nat}
  <2> SUFFICES ASSUME Bad # {} PROVE FALSE
    OBVIOUS
  <2>1. PICK l \in Bad : \A o \in Bad : l <= o
    <3>1. Bad \in SUBSET Nat
      OBVIOUS
    <3> HIDE DEF Bad
    <3>2. QED
      BY <3>1, LeastExists
  <2>2. l # 0
    BY <1>6
  <2>3. l - 1 \in 0 .. n /\ l - 1 \notin Bad /\ l - 1 \in List
    BY <1>2, <2>1, <2>2
  <2>4. cums[l - 1] \in Nat /\ size[l - 1] \in Nat
    BY <1>3, <2>3
  <2>5. QED
    BY <1>7, <2>2, <2>4
<1>9. ASSUME NEW l \in List, NEW o \in 0 .. n, l < o
      PROVE  cums[l] + size[l] <= cums[o]
  <2> DEFINE Bad == {i \in 0 .. n : l < i /\ ~(cums[l] + size[l] <= cums[i])}
  <2> SUFFICES ASSUME Bad # {} PROVE FALSE
    BY <1>9
  <2>1. PICK i \in Bad : \A j \in Bad : i <= j
    <3>1. Bad \in SUBSET Nat
      OBVIOUS
    <3> HIDE DEF Bad
    <3>2. QED
      BY <3>1, LeastExists
  <2>2. l \in 0 .. n /\ cums[l] \in Nat /\ size[l] \in Nat /\ cums[i] \in Nat
    BY <1>2, <1>3, <1>8
  <2>3. i # l + 1
    BY <1>7, <2>1, <2>2
  <2>4. i - 1 \in 0 .. n /\ l < i - 1 /\ i - 1 \notin Bad /\ i - 1 \in List
    BY <1>2, <2>1, <2>2, <2>3
  <2>5. /\ cums[l] + size[l] <= cums[i - 1] /\ cums[i - 1] \in Nat
        /\ size[i - 1] \in Nat /\ cums[i] = cums[i - 1] + size[i - 1]
    BY <1>3, <1>7, <1>8, <2>2, <2>4
  <2>6. QED
    BY <2>1, <2>2, <2>5
<1>10. QED
  BY <1>1, <1>3, <1>4, <1>8, <1>9

----------------------------------------------------------------------------
(* How far a call is, and what it holds.                                   *)

\* The levels a thread holds at each point of its call.
InStep(p, a) ==
  /\ p \in {"idle", "take"} => a = "out"
  /\ p = "lock" => a \in {"out", "want1", "has1", "wait2"}
  /\ p \in {"free", "move"} => a = "has2"
  /\ p = "grow" => a \in {"has2", "want3", "has3"}
  /\ p \in {"fill", "unlock"} => a = "has1"

JobOK(j) == j.list \in List /\ j.adds \in BOOLEAN /\ j.size \in Nat /\ Len(j.es) \in Nat

Progress ==
  /\ \A t \in Thread : InStep(pc[t], at[t]) /\ (at[t] # "out" => no[t] = job[t].list)
  /\ \A t \in Adder : /\ pc[t] \in {"idle", "lock", "free", "grow", "move", "fill", "unlock"}
                      /\ pc[t] # "idle" => JobOK(job[t])
                      /\ pc[t] = "lock" => at[t] # "out"
  /\ \A w \in Worker : /\ pc[w] \in {"idle", "take", "lock"}
                       /\ at[w] \in {"out", "want1", "has1"}
  /\ calls \in Nat /\ (calls = 0 => \A t \in Adder : pc[t] = "idle")
  /\ merged => calls = 0

LEMMA InitProgress == Init => Progress
BY RolesAssumption DEF Init, LockInit, Progress, InStep

\* A step of one thread, which leaves the others where they are.
LEMMA ProgressOf ==
  ASSUME Progress, NEW t \in Thread,
         \A u \in Thread \ {t} : pc'[u] = pc[u] /\ at'[u] = at[u]
                                 /\ no'[u] = no[u] /\ job'[u] = job[u],
         InStep(pc[t], at[t])', at'[t] # "out" => no'[t] = job'[t].list,
         t \in Adder => /\ pc'[t] \in {"idle", "lock", "free", "grow", "move", "fill", "unlock"}
                        /\ pc'[t] # "idle" => JobOK(job'[t])
                        /\ pc'[t] = "lock" => at'[t] # "out",
         t \in Worker => pc'[t] \in {"idle", "take", "lock"} /\ at'[t] \in {"out", "want1", "has1"},
         merged' = merged,
         \/ calls' = calls /\ (t \in Adder => pc[t] # "idle" \/ pc'[t] = "idle")
         \/ calls' = calls + 1 /\ ~merged
  PROVE  Progress'
<1>1. \A u \in Thread : InStep(pc[u], at[u])' /\ (at'[u] # "out" => no'[u] = job'[u].list)
  BY DEF Progress, InStep
<1>2. \A u \in Adder : /\ pc'[u] \in {"idle", "lock", "free", "grow", "move", "fill", "unlock"}
                       /\ pc'[u] # "idle" => JobOK(job'[u])
                       /\ pc'[u] = "lock" => at'[u] # "out"
  BY RolesAssumption DEF Progress
<1>3. \A w \in Worker : pc'[w] \in {"idle", "take", "lock"} /\ at'[w] \in {"out", "want1", "has1"}
  BY RolesAssumption DEF Progress
<1>4. calls' \in Nat /\ (calls' = 0 => \A u \in Adder : pc'[u] = "idle") /\ (merged' => calls' = 0)
  BY RolesAssumption DEF Progress
<1>5. QED
  BY <1>1, <1>2, <1>3, <1>4 DEF Progress, JobOK

\* A step of a thread inside of its call.
LEMMA AdderProgress ==
  ASSUME Progress, NEW t \in Adder, pc[t] # "idle", at[t] # "out",
         \A u \in Thread \ {t} : pc'[u] = pc[u] /\ at'[u] = at[u],
         no' = no, job' = job, calls' = calls, merged' = merged,
         pc'[t] \in {"lock", "free", "grow", "move", "fill", "unlock"},
         InStep(pc[t], at[t])', at'[t] # "out"
  PROVE  Progress'
<1>1. t \in Thread /\ t \notin Worker
  BY RolesAssumption
<1>2. no'[t] = job'[t].list /\ JobOK(job'[t])
  BY <1>1 DEF Progress, JobOK
<1>3. /\ pc'[t] \in {"idle", "lock", "free", "grow", "move", "fill", "unlock"}
      /\ \A u \in Thread \ {t} : pc'[u] = pc[u] /\ at'[u] = at[u]
                                 /\ no'[u] = no[u] /\ job'[u] = job[u]
  OBVIOUS
<1>4. QED
  BY <1>1, <1>2, <1>3, ProgressOf

LEMMA ProgressStep ==
  ASSUME LockTypeOK, Jobs, Progress, Next, ~AddToMerged
  PROVE  Progress'
<1> USE DEF LockTypeOK, Jobs, Place
<1>1. ASSUME NEW t \in Thread, NEW j, JobOK(j), Calls(t, j) PROVE Progress'
  <2>1. /\ t \in Adder /\ at[t] \in {"out", "want1"} /\ calls' = calls + 1 /\ ~merged
        /\ at'[t] \in {"want1", "has1"} /\ no'[t] = j.list /\ job'[t] = j
        /\ pc'[t] = "lock" /\ merged' = merged
        /\ \A u \in Thread \ {t} : pc'[u] = pc[u] /\ at'[u] = at[u]
                                   /\ no'[u] = no[u] /\ job'[u] = job[u]
    BY <1>1 DEF Calls, Lock1, Goto
  <2>2. QED
    BY <1>1, <2>1, ProgressOf, RolesAssumption DEF InStep
<1>2. ASSUME NEW t \in Thread, NEW l \in List, AddEntries(t, l) \/ Resize(t, l) PROVE Progress'
  <2>1. ASSUME NEW n \in Batches
        PROVE  JobOK([list |-> l, adds |-> TRUE, es |-> NewEntries(n), size |-> 0])
    BY SizesAssumption DEF JobOK, NewEntries
  <2>2. ASSUME NEW n \in Sizes
        PROVE  JobOK([list |-> l, adds |-> FALSE, es |-> <<>>, size |-> n])
    BY SizesAssumption DEF JobOK
  <2>3. QED
    BY <1>1, <1>2, <2>1, <2>2 DEF AddEntries, Resize
<1>3. ASSUME NEW t \in Thread, Locks(t) PROVE Progress'
  <2>1. /\ pc[t] = "lock" /\ pc' = pc /\ job' = job /\ calls' = calls /\ merged' = merged
        /\ at'[t] \in {"want1", "has1"} /\ no'[t] = job[t].list
        /\ \A u \in Thread \ {t} : at'[u] = at[u] /\ no'[u] = no[u]
    BY <1>3 DEF Locks, Lock1
  <2>2. QED
    BY <2>1, ProgressOf DEF Progress, InStep
<1>4. ASSUME NEW t \in Thread, AdderStep(t) PROVE Progress'
  <2>1. CASE StaysInPlace(t)
    <3>1. /\ pc[t] = "lock" /\ at[t] = "has1" /\ pc'[t] \in {"fill", "unlock"}
          /\ \A u \in Thread \ {t} : pc'[u] = pc[u]
          /\ at' = at /\ no' = no /\ job' = job /\ calls' = calls /\ merged' = merged
      BY <2>1 DEF StaysInPlace, Sized, Goto, lockVars
    <3>2. t \in Adder
      BY <2>1 DEF StaysInPlace
    <3>3. InStep(pc[t], at[t])' /\ at[t] # "out" /\ at'[t] # "out"
      BY <3>1 DEF InStep
    <3>4. QED
      BY <3>1, <3>2, <3>3, AdderProgress
  <2>2. CASE Queues(t)
    <3>1. /\ t \in Adder /\ pc[t] = "lock" /\ at[t] \in {"has1", "wait2"}
          /\ \/ pc'[t] = "free" /\ at'[t] = "has2"
             \/ pc'[t] = "lock" /\ at'[t] = "wait2"
          /\ \A u \in Thread \ {t} : pc'[u] = pc[u] /\ at'[u] = at[u]
          /\ no' = no /\ job' = job /\ calls' = calls /\ merged' = merged
      BY <2>2 DEF Queues, Goto, Lock2
    <3>2. JobOK(job'[t]) /\ at'[t] # "out" /\ at[t] # "out" /\ no'[t] = job'[t].list
      BY <3>1 DEF Progress, JobOK
    <3>3. InStep(pc[t], at[t])' /\ t \notin Worker
      BY <3>1, RolesAssumption DEF InStep
    <3>4. /\ pc'[t] \in {"idle", "lock", "free", "grow", "move", "fill", "unlock"}
          /\ \A u \in Thread \ {t} : pc'[u] = pc[u] /\ at'[u] = at[u]
                                     /\ no'[u] = no[u] /\ job'[u] = job[u]
      BY <3>1
    <3>5. QED
      BY <3>1, <3>2, <3>3, <3>4, ProgressOf
  <2>3. CASE Reslots(t)
    <3>1. /\ pc[t] = "free" /\ pc'[t] \in {"move", "grow"} /\ at[t] = "has2"
          /\ \A u \in Thread \ {t} : pc'[u] = pc[u]
          /\ at' = at /\ no' = no /\ job' = job /\ calls' = calls /\ merged' = merged
      BY <2>3 DEF Reslots, Goto, lockVars, Progress, InStep
    <3>2. t \in Adder
      BY <3>1, RolesAssumption DEF Progress
    <3>3. InStep(pc[t], at[t])' /\ at[t] # "out" /\ at'[t] # "out"
      BY <3>1, <3>2 DEF Progress, InStep
    <3>4. QED
      BY <3>1, <3>2, <3>3, AdderProgress
  <2>4. CASE Announces(t)
    <3>1. /\ pc[t] = "grow" /\ at'[t] \in {"want3", "has3"} /\ at[t] # "out"
          /\ \A u \in Thread \ {t} : at'[u] = at[u]
          /\ pc' = pc /\ no' = no /\ job' = job /\ calls' = calls /\ merged' = merged
      BY <2>4 DEF Announces, Lock3
    <3>2. t \in Adder
      BY <3>1, RolesAssumption DEF Progress
    <3>3. InStep(pc[t], at[t])' /\ at[t] # "out" /\ at'[t] # "out"
      BY <3>1, <3>2 DEF Progress, InStep
    <3>4. QED
      BY <3>1, <3>2, <3>3, AdderProgress
  <2>5. CASE Remaps(t)
    <3>1. /\ pc[t] = "grow" /\ pc'[t] = "move" /\ at[t] # "out" /\ at'[t] = "has2"
          /\ \A u \in Thread \ {t} : pc'[u] = pc[u] /\ at'[u] = at[u]
          /\ no' = no /\ job' = job /\ calls' = calls /\ merged' = merged
      BY <2>5 DEF Remaps, Goto, Unlock3
    <3>2. t \in Adder
      BY <3>1, RolesAssumption DEF Progress
    <3>3. InStep(pc[t], at[t])' /\ at[t] # "out" /\ at'[t] # "out"
      BY <3>1, <3>2 DEF Progress, InStep
    <3>4. QED
      BY <3>1, <3>2, <3>3, AdderProgress
  <2>6. CASE Moves(t)
    <3>1. /\ pc[t] = "move" /\ pc'[t] \in {"fill", "unlock"} /\ at[t] # "out" /\ at'[t] = "has1"
          /\ \A u \in Thread \ {t} : pc'[u] = pc[u] /\ at'[u] = at[u]
          /\ no' = no /\ job' = job /\ calls' = calls /\ merged' = merged
      BY <2>6 DEF Moves, Sized, Goto, Unlock2
    <3>2. t \in Adder
      BY <3>1, RolesAssumption DEF Progress
    <3>3. InStep(pc[t], at[t])' /\ at[t] # "out" /\ at'[t] # "out"
      BY <3>1, <3>2 DEF Progress, InStep
    <3>4. QED
      BY <3>1, <3>2, <3>3, AdderProgress
  <2>7. CASE Fills(t)
    <3>1. /\ pc[t] = "fill" /\ pc'[t] = "unlock"
          /\ \A u \in Thread \ {t} : pc'[u] = pc[u]
          /\ at' = at /\ no' = no /\ job' = job /\ calls' = calls /\ merged' = merged
      BY <2>7 DEF Fills, Goto, lockVars
    <3>2. t \in Adder
      BY <3>1, RolesAssumption DEF Progress
    <3>3. InStep(pc[t], at[t])' /\ at[t] # "out" /\ at'[t] # "out"
      BY <3>1, <3>2 DEF Progress, InStep
    <3>4. QED
      BY <3>1, <3>2, <3>3, AdderProgress
  <2>8. CASE Returns(t)
    <3>1. /\ pc[t] = "unlock" /\ pc'[t] = "idle" /\ at'[t] = "out"
          /\ \A u \in Thread \ {t} : pc'[u] = pc[u] /\ at'[u] = at[u] /\ job'[u] = job[u]
          /\ no' = no /\ calls' = calls /\ merged' = merged
      BY <2>8 DEF Returns, Goto, Unlock1
    <3>2. t \in Adder /\ t \notin Worker
      BY <3>1, RolesAssumption DEF Progress
    <3>3. InStep(pc[t], at[t])'
      BY <3>1 DEF InStep
    <3>4. \A u \in Thread \ {t} : pc'[u] = pc[u] /\ at'[u] = at[u]
                                 /\ no'[u] = no[u] /\ job'[u] = job[u]
      BY <3>1
    <3>5. QED
      BY <3>1, <3>2, <3>3, <3>4, ProgressOf
  <2>9. QED
    BY <1>4, <2>1, <2>2, <2>3, <2>4, <2>5, <2>6, <2>7, <2>8 DEF AdderStep
<1>5. ASSUME NEW w \in Thread, WorkerStep(w) PROVE Progress'
  <2>1. CASE Takes(w)
    <3>1. /\ pc[w] = "take" /\ pc'[w] = "lock"
          /\ \A u \in Thread \ {w} : pc'[u] = pc[u] /\ job'[u] = job[u]
          /\ at' = at /\ no' = no /\ calls' = calls /\ merged' = merged
      BY <2>1 DEF Takes, Goto, lockVars
    <3>2. w \in Worker /\ w \notin Adder /\ at[w] = "out"
      BY <3>1, RolesAssumption DEF Progress, InStep
    <3>3. QED
      BY <3>1, <3>2, ProgressOf DEF InStep
  <2>2. CASE Ends(w)
    <3>1. /\ pc[w] = "take" /\ pc'[w] = "idle"
          /\ \A u \in Thread \ {w} : pc'[u] = pc[u]
          /\ at' = at /\ no' = no /\ job' = job /\ calls' = calls /\ merged' = merged
      BY <2>2 DEF Ends, Goto, lockVars
    <3>2. w \in Worker /\ w \notin Adder /\ at[w] = "out"
      BY <3>1, RolesAssumption DEF Progress, InStep
    <3>3. QED
      BY <3>1, <3>2, ProgressOf DEF InStep
  <2>3. CASE HasRead(w)
    <3>1. /\ w \in Worker /\ w \notin Adder /\ pc'[w] = "take" /\ at'[w] = "out"
          /\ \A u \in Thread \ {w} : pc'[u] = pc[u] /\ at'[u] = at[u] /\ job'[u] = job[u]
          /\ no' = no /\ calls' = calls /\ merged' = merged
      BY <2>3, RolesAssumption DEF HasRead, Goto, Unlock1
    <3>2. QED
      BY <3>1, ProgressOf DEF InStep
  <2>4. QED
    BY <1>5, <2>1, <2>2, <2>3 DEF WorkerStep
<1>6. ASSUME NEW t \in Thread, WakesUp(t) PROVE Progress'
  <2>1. UNCHANGED <<at, no, pc, job, calls, merged>>
    BY <1>6 DEF WakesUp, Spurious
  <2>2. QED
    BY <2>1 DEF Progress, JobOK, InStep
<1>7. ASSUME NEW sizes \in Merges, Merge(sizes) PROVE Progress'
  <2>1. UNCHANGED <<at, no, pc, job, calls>> /\ calls = 0
    BY <1>7 DEF Merge, lockVars
  <2>2. QED
    BY <2>1 DEF Progress, JobOK, InStep
<1>8. ASSUME NEW r \in Requests, Clears(r) PROVE Progress'
  <2>1. UNCHANGED <<at, no, pc, job, calls, merged>>
    BY <1>8 DEF Clears, lockVars
  <2>2. QED
    BY <2>1 DEF Progress, JobOK, InStep
<1>9. CASE Restarts
  <2>1. /\ UNCHANGED <<at, no, job, calls, merged>>
        /\ \A w \in Worker : pc[w] = "idle"
        /\ \E ws \in SUBSET Worker : pc' = [t \in Thread |-> IF t \in ws THEN "take" ELSE pc[t]]
    BY <1>9 DEF Restarts, lockVars, Joined
  <2>2. PICK ws \in SUBSET Worker : pc' = [t \in Thread |-> IF t \in ws THEN "take" ELSE pc[t]]
    BY <2>1
  <2>3. \A t \in Adder : pc'[t] = pc[t]
    BY <2>2, RolesAssumption
  <2>4. \A w \in Worker : pc'[w] \in {"idle", "take"} /\ at[w] = "out"
    BY <2>1, <2>2, RolesAssumption DEF Progress, InStep
  <2>5. \A t \in Thread : InStep(pc[t], at[t])' /\ (at'[t] # "out" => no'[t] = job'[t].list)
    BY <2>1, <2>3, <2>4, RolesAssumption DEF Progress, InStep
  <2>6. \A t \in Adder : /\ pc'[t] \in {"idle", "lock", "free", "grow", "move", "fill", "unlock"}
                         /\ pc'[t] # "idle" => JobOK(job[t])
                         /\ pc'[t] = "lock" => at'[t] # "out"
    BY <2>1, <2>3 DEF Progress
  <2>7. \A w \in Worker : pc'[w] \in {"idle", "take", "lock"} /\ at'[w] \in {"out", "want1", "has1"}
    BY <2>1, <2>4
  <2>8. calls' \in Nat /\ (calls' = 0 => \A t \in Adder : pc'[t] = "idle") /\ (merged' => calls' = 0)
    BY <2>1, <2>3 DEF Progress
  <2>9. QED
    BY <2>1, <2>5, <2>6, <2>7, <2>8 DEF Progress, JobOK
<1>10. CASE Rests
  <2>1. UNCHANGED <<at, no, pc, job, calls, merged>>
    BY <1>10 DEF Rests, vars, lockVars
  <2>2. QED
    BY <2>1 DEF Progress, JobOK, InStep
<1>11. QED
  BY <1>2, <1>3, <1>4, <1>5, <1>6, <1>7, <1>8, <1>9, <1>10 DEF Next, ThreadStep

----------------------------------------------------------------------------
(* Whose the bytes are.                                                    *)

Room(l) == l.cap * EntrySize

Apart(l, o) == Clear(l.off, Room(l), o.off, Room(o))

\* A list that is inside of the file.
ListOK(l) ==
  /\ l \in [size : Nat, cap : Nat, off : Int] /\ l.size <= l.cap
  /\ l.cap > 0 => l.off >= 0 /\ l.off + Room(l) <= totsize

\* A thread that has given back the old slot of list l.
Transit(t, l) == pc[t] \in {"grow", "move"} /\ job[t].list = l

\* The file, the lists in it and the list a thread is about to put there.
Placed ==
  /\ totsize \in Nat /\ DOMAIN file = 0 .. totsize - 1
  /\ lists = [l \in List |-> lists[l]] /\ dest = [t \in Thread |-> dest[t]]
  /\ \A l \in List : ListOK(lists[l])
  /\ \A l, o \in List : l # o => Apart(lists[l], lists[o])
  /\ \A t \in Adder : pc[t] = "move" =>
       /\ ListOK(dest[t])
       /\ job[t].adds => Len(job[t].es) <= dest[t].size
       /\ \A l \in List : l # job[t].list => Apart(dest[t], lists[l])
  /\ \A t \in Adder : pc[t] = "fill" => Len(job[t].es) <= L(t).size

\* The slots are empty.
Unused ==
  /\ Holes(slots, totsize)
  /\ \A l \in List : (\A t \in Adder : ~Transit(t, l))
                       => ClearOf(slots, lists[l].off, Room(lists[l]))
  /\ \A t \in Adder : pc[t] = "move" => ClearOf(slots, dest[t].off, Room(dest[t]))

\* As long as nothing was stored there is nothing to read ahead.
Ahead ==
  /\ curList \in Nat
  /\ request # NoRequest => request \in Requests
  /\ totsize = 0 => ids = <<>> /\ \A w \in Worker : pc[w] # "lock"

Space == Placed /\ (~merged => Unused) /\ Ahead

\* Fewer of the bytes are apart from what all of them are apart from.
LEMMA FewerClear ==
  ASSUME NEW a \in Int, NEW n \in Nat, NEW k \in Nat, k <= n, NEW b \in Int, NEW m \in Nat,
         Clear(a, n, b, m)
  PROVE  Clear(a, k, b, m)
BY DEF Clear

LEMMA FewerClearOf ==
  ASSUME NEW size, NEW ss, Holes(ss, size), NEW b \in Int, NEW m \in Nat, NEW k \in Nat, k <= m,
         ClearOf(ss, b, m)
  PROVE  ClearOf(ss, b, k)
BY DEF Clear, ClearOf, Holes

LEMMA RoomIs ==
  ASSUME NEW l, l.cap \in Nat
  PROVE  Room(l) \in Nat /\ l.cap <= Room(l) /\ (l.cap = 0 => Room(l) = 0)
BY EntrySizeIs, Bytes DEF Room

LEMMA MinIs ==
  ASSUME NEW a \in Nat, NEW b \in Nat
  PROVE  Min({a, b}) \in Nat /\ Min({a, b}) <= a /\ Min({a, b}) <= b
<1>1. \E x \in {a, b} : \A y \in {a, b} : x <= y
  OBVIOUS
<1>2. Min({a, b}) \in {a, b} /\ \A y \in {a, b} : Min({a, b}) <= y
  BY <1>1 DEF Min
<1>3. QED
  BY <1>2

\* What a writer needs is a number of entries, and room for them of bytes.
LEMMA TargetIs ==
  ASSUME Placed, NEW t \in Adder, JobOK(job[t])
  PROVE  /\ Target(t) \in Nat
         /\ job[t].adds => Len(job[t].es) <= Target(t)
<1>1. L(t).size \in Nat /\ Len(job[t].es) \in Nat /\ job[t].size \in Nat
  BY DEF Placed, ListOK, L, JobOK
<1>2. Min({job[t].size, L(t).size}) \in Nat
  BY <1>1, MinIs
<1>3. QED
  BY <1>1, <1>2 DEF Target

LEMMA NewListIs ==
  ASSUME NEW t, Target(t) \in Nat, NEW ss
  PROVE  /\ Capacity(Target(t)) \in Nat \ {0}
         /\ Capacity(Target(t)) * EntrySize \in Nat \ {0}
         /\ NewList(t, ss).size = Target(t)
         /\ Target(t) <= NewList(t, ss).cap
         /\ NewList(t, ss).cap = Capacity(Target(t))
         /\ NewList(t, ss).off = FirstFit(ss, Capacity(Target(t)) * EntrySize).off
         /\ Room(NewList(t, ss)) = Capacity(Target(t)) * EntrySize
<1>1. Capacity(Target(t)) \in Nat \ {0} /\ Target(t) <= Capacity(Target(t))
  BY CapacityIs
<1>2. Capacity(Target(t)) * EntrySize \in Nat \ {0}
  BY <1>1, EntrySizeIs, Bytes
<1>3. QED
  BY <1>1, <1>2 DEF NewList, Room

\* A request for lists that are all empty asks for none.
LEMMA PresentNone ==
  ASSUME NEW r \in Requests, \A l \in List : lists[l].size = 0
  PROVE  Present(r) = <<>>
<1> DEFINE n == Len(r)
           Wanted(i) == r[i] >= 0 /\ lists[r[i]].size > 0
           kept == CHOOSE f : f = [i \in 0 .. n |->
                      IF i = 0 THEN <<>>
                      ELSE IF r[i] >= 0 /\ lists[r[i]].size > 0 THEN Append(f[i - 1], r[i])
                      ELSE f[i - 1]]
           none == [i \in 0 .. n |-> <<>>]
<1>1. n \in Nat /\ \A i \in 1 .. n : ~Wanted(i)
  <2>1. r \in Seq(List \cup {-1})
    BY RequestsAssumption
  <2>2. \A i \in 1 .. n : r[i] \in List \cup {-1}
    BY <2>1
  <2>3. QED
    BY <2>1, <2>2
<1>2. none = [i \in 0 .. n |-> IF i = 0 THEN <<>>
                               ELSE IF r[i] >= 0 /\ lists[r[i]].size > 0
                               THEN Append(none[i - 1], r[i])
                               ELSE none[i - 1]]
  <2>1. \A i \in 0 .. n : i # 0 => i \in 1 .. n /\ i - 1 \in 0 .. n
    BY <1>1
  <2>2. QED
    BY <1>1, <2>1
<1>3. kept = [i \in 0 .. n |-> IF i = 0 THEN <<>>
                               ELSE IF r[i] >= 0 /\ lists[r[i]].size > 0
                               THEN Append(kept[i - 1], r[i])
                               ELSE kept[i - 1]]
  BY <1>2
<1>4. Present(r) = kept[n]
  BY DEF Present
<1> HIDE DEF kept, n
<1>5. kept[0] = <<>> /\ \A i \in 1 .. n : kept[i] = kept[i - 1]
  BY <1>1, <1>3
<1> DEFINE Bad == {i \in 0 .. n : kept[i] # <<>>}
<1>6. Bad = {}
  <2> SUFFICES ASSUME Bad # {} PROVE FALSE
    OBVIOUS
  <2>1. PICK i \in Bad : \A j \in Bad : i <= j
    <3>1. Bad \in SUBSET Nat
      OBVIOUS
    <3> HIDE DEF Bad
    <3>2. QED
      BY <3>1, LeastExists
  <2>2. i # 0 /\ i \in 1 .. n /\ i - 1 \in 0 .. n /\ i - 1 \notin Bad
    BY <1>1, <1>5, <2>1
  <2>3. QED
    BY <1>5, <2>1, <2>2
<1>7. QED
  BY <1>1, <1>4, <1>6

----------------------------------------------------------------------------
LEMMA InitSpace == Init => Space
<1> SUFFICES ASSUME Init PROVE Space
  OBVIOUS
<1>1. DOMAIN file = {} /\ totsize = 0
  BY FS_EmptySet DEF Init, totsize
<1>2. Room(NoList) = 0 /\ ListOK(NoList)
  BY EntrySizeIs DEF NoList, Room, ListOK
<1>3. Placed
  BY <1>1, <1>2, RolesAssumption DEF Init, Placed, Apart, Clear
<1>4. Unused
  BY <1>1, <1>2, RolesAssumption DEF Init, Unused, Holes, ClearOf
<1>5. Ahead
  BY <1>1, RolesAssumption DEF Init, Ahead
<1>6. QED
  BY <1>3, <1>4, <1>5 DEF Space

----------------------------------------------------------------------------
\* Steps that leave the store where it is, and nobody moves or fills a list
\* that did not before.
LEMMA PlacedKept ==
  ASSUME Placed, DOMAIN file' = DOMAIN file, lists' = lists, dest' = dest,
         \A t \in Adder : pc'[t] \in {"move", "fill"} => pc'[t] = pc[t] /\ job'[t] = job[t]
  PROVE  Placed'
<1>1. totsize' = totsize
  BY DEF totsize
<1>2. (\A l \in List : ListOK(lists[l]))'
  BY <1>1 DEF Placed, ListOK, Room
<1>3. ASSUME NEW t \in Adder, pc'[t] = "move"
      PROVE  /\ ListOK(dest[t])'
             /\ job'[t].adds => Len(job'[t].es) <= dest'[t].size
             /\ \A l \in List : l # job'[t].list => Apart(dest[t], lists[l])'
  <2>1. pc[t] = "move" /\ job'[t] = job[t]
    BY <1>3
  <2>2. ListOK(dest[t])'
    BY <1>1, <2>1 DEF Placed, ListOK, Room
  <2>3. \A l \in List : l # job'[t].list => Apart(dest[t], lists[l])'
    BY <2>1 DEF Placed, Apart, Room
  <2>4. QED
    BY <2>1, <2>2, <2>3 DEF Placed
<1>4. \A t \in Adder : pc'[t] = "fill" => Len(job'[t].es) <= L(t)'.size
  BY DEF Placed, L
<1>5. (\A l, o \in List : l # o => Apart(lists[l], lists[o]))'
  BY DEF Placed, Apart, Room
<1>6. QED
  BY <1>1, <1>2, <1>3, <1>4, <1>5 DEF Placed

LEMMA UnusedKept ==
  ASSUME Unused, DOMAIN file' = DOMAIN file, lists' = lists, dest' = dest, slots' = slots,
         \A t \in Adder : pc'[t] = "move" => pc[t] = "move",
         \A t \in Adder : pc[t] \in {"grow", "move"} =>
                            pc'[t] \in {"grow", "move"} /\ job'[t] = job[t]
  PROVE  Unused'
<1>1. totsize' = totsize
  BY DEF totsize
<1>2. \A t \in Adder, l \in List : Transit(t, l) => Transit(t, l)'
  BY DEF Transit
<1>3. \A l \in List : (\A t \in Adder : ~Transit(t, l)')
                       => ClearOf(slots', lists'[l].off, Room(lists'[l]))
  BY <1>2 DEF Unused
<1>4. QED
  BY <1>1, <1>3 DEF Unused, Room, EntrySize

LEMMA AheadKept ==
  ASSUME Ahead, DOMAIN file' = DOMAIN file, UNCHANGED <<curList, request, ids>>,
         \A w \in Worker : pc'[w] = "lock" => pc[w] = "lock"
  PROVE  Ahead'
BY DEF Ahead, totsize

LEMMA SpaceKept ==
  ASSUME Space, merged' = merged, DOMAIN file' = DOMAIN file,
         lists' = lists, dest' = dest, slots' = slots,
         \A t \in Adder : /\ pc'[t] \in {"grow", "move", "fill"} =>
                               pc'[t] = pc[t] /\ job'[t] = job[t]
                          /\ pc[t] \in {"grow", "move"} =>
                               pc'[t] = pc[t] /\ job'[t] = job[t],
         Ahead'
  PROVE  Space'
<1>1. Placed'
  BY PlacedKept DEF Space
<1>2. ~merged => Unused'
  BY UnusedKept DEF Space
<1>3. QED
  BY <1>1, <1>2 DEF Space

\* A writer that has level 2 is the only one there, and its list is its own.
LEMMA Writer ==
  ASSUME LInv, Progress, NEW t \in Adder, pc[t] \in {"free", "grow", "move"}
  PROVE  /\ t \in Thread /\ t \notin Worker /\ JobOK(job[t]) /\ ~merged
         /\ at[t] \in {"has2", "want3", "has3"} /\ no[t] = job[t].list
         /\ \A u \in Adder : pc[u] \in {"free", "grow", "move"} => u = t
         /\ \A u \in Adder : pc[u] \in {"free", "grow", "move", "fill", "unlock"}
                             /\ job[u].list = job[t].list => u = t
<1>1. /\ t \in Thread /\ t \notin Worker /\ JobOK(job[t]) /\ ~merged
      /\ at[t] \in {"has2", "want3", "has3"} /\ no[t] = job[t].list
  BY RolesAssumption DEF Progress, InStep
<1>2. ASSUME NEW u \in Adder, pc[u] \in {"free", "grow", "move"} PROVE u = t
  <2>1. u \in Thread /\ at[u] \in {"has2", "want3", "has3"}
    BY <1>2, RolesAssumption DEF Progress, InStep
  <2>2. QED
    BY <1>1, <2>1, OneWriter
<1>3. ASSUME NEW u \in Adder, pc[u] \in {"free", "grow", "move", "fill", "unlock"},
             job[u].list = job[t].list
      PROVE  u = t
  <2>1. u \in Thread /\ at[u] \in {"has1", "has2", "want3", "has3"} /\ no[u] = job[u].list
    BY <1>3, RolesAssumption DEF Progress, InStep
  <2>2. u \in InLevel1 /\ t \in InLevel1
    BY <1>1, <2>1 DEF InLevel1
  <2>3. QED
    BY <1>1, <1>3, <2>1, <2>2 DEF LInv, OneOwner
<1>4. QED
  BY <1>1, <1>2, <1>3

\* Writing to the file leaves its size alone.
LEMMA SameBytes ==
  /\ \A f, p, n, a, es : DOMAIN Written(f, p, n, a, es) = DOMAIN f
  /\ \A f, a, b, n : DOMAIN Copied(f, a, b, n) = DOMAIN f
  /\ \A old, new : DOMAIN Moved(old, new) = DOMAIN file
<1>1. \A f, p, n, a, es : DOMAIN Written(f, p, n, a, es) = DOMAIN f
  BY DEF Written
<1>2. \A f, a, b, n : DOMAIN Copied(f, a, b, n) = DOMAIN f
  BY DEF Copied
<1>3. \A old, new : DOMAIN Moved(old, new) = DOMAIN file
  <2> SUFFICES ASSUME NEW old, NEW new PROVE DOMAIN Moved(old, new) = DOMAIN file
    OBVIOUS
  <2>1. CASE old.off = new.off
    BY <2>1 DEF Moved
  <2>2. CASE old.off # new.off
    <3> DEFINE n == Min({old.size, new.size})
               codes == Copied(file, new.off, old.off, n * CodeSize)
    <3>1. Moved(old, new) = Copied(codes, IdsAt(new), IdsAt(old), n * IdSize)
      BY <2>2 DEF Moved
    <3>2. DOMAIN codes = DOMAIN file
      BY <1>2
    <3> HIDE DEF codes, n
    <3>3. QED
      BY <1>2, <3>1, <3>2
  <2>3. QED
    BY <2>1, <2>2
<1>4. QED
  BY <1>1, <1>2, <1>3

----------------------------------------------------------------------------
(* The steps of add_entries and resize that change whose the bytes are.    *)

\* The writer has a new place, or none and goes on to look for one; the others
\* have what they had.
LEMMA NewPlace ==
  ASSUME LInv, Progress, Space, NEW t \in Adder, pc[t] \in {"free", "grow"},
         lists' = lists, job' = job, UNCHANGED <<curList, request, ids>>,
         \A u \in Thread \ {t} : pc'[u] = pc[u] /\ dest'[u] = dest[u],
         dest' = [u \in Thread |-> dest'[u]],
         totsize' \in Nat, DOMAIN file' = 0 .. totsize' - 1, totsize <= totsize',
         Holes(slots, totsize)',
         \A l \in List \ {job[t].list} : ClearOf(slots', lists[l].off, Room(lists[l])),
         \/ pc'[t] = "grow"
         \/ /\ pc'[t] = "move" /\ ListOK(dest[t])'
            /\ job[t].adds => Len(job[t].es) <= dest'[t].size
            /\ \A l \in List \ {job[t].list} :
                 Clear(dest'[t].off, Room(dest[t])', lists[l].off, Room(lists[l]))
            /\ ClearOf(slots', dest'[t].off, Room(dest[t])')
  PROVE  Space'
<1>1. /\ t \in Thread /\ t \notin Worker /\ JobOK(job[t])
      /\ \A u \in Adder : pc[u] \in {"free", "grow", "move"} => u = t
  BY Writer
<1>2. \A u \in Adder : /\ pc'[u] = "move" => u = t
                       /\ pc'[u] = "fill" => pc[u] = "fill"
  BY <1>1, RolesAssumption
<1>3. Placed'
  <2>1. (\A l \in List : ListOK(lists[l]))'
    <3> SUFFICES ASSUME NEW l \in List PROVE ListOK(lists[l])'
      OBVIOUS
    <3>1. ListOK(lists[l]) /\ Room(lists[l]) \in Nat /\ totsize \in Nat
      BY RoomIs DEF Space, Placed, ListOK
    <3>2. lists'[l] = lists[l] /\ Room(lists[l])' = Room(lists[l])
      BY DEF Room
    <3>3. QED
      BY <3>1, <3>2 DEF ListOK
  <2>2. (\A l, o \in List : l # o => Apart(lists[l], lists[o]))'
    BY DEF Space, Placed, Apart, Room
  <2>3. ASSUME NEW u \in Adder, pc'[u] = "move"
        PROVE  /\ ListOK(dest[u])'
               /\ job'[u].adds => Len(job'[u].es) <= dest'[u].size
               /\ \A l \in List : l # job'[u].list => Apart(dest[u], lists[l])'
    <3>1. u = t
      BY <1>2, <2>3
    <3>2. ListOK(dest[t])' /\ (job'[t].adds => Len(job'[t].es) <= dest'[t].size)
      BY <2>3, <3>1
    <3>3. \A l \in List : l # job'[t].list => Apart(dest[t], lists[l])'
      BY <2>3, <3>1 DEF Apart, Room
    <3>4. QED
      BY <3>1, <3>2, <3>3
  <2>4. \A u \in Adder : pc'[u] = "fill" => Len(job'[u].es) <= L(u)'.size
    BY <1>2 DEF Space, Placed, L
  <2>5. lists' = [l \in List |-> lists'[l]]
    BY DEF Space, Placed
  <2>6. QED
    BY <2>1, <2>2, <2>3, <2>4, <2>5 DEF Placed
<1>4. Unused'
  <2>1. Transit(t, job[t].list)'
    BY DEF Transit
  <2>2. \A l \in List : (\A u \in Adder : ~Transit(u, l)')
                        => ClearOf(slots', lists'[l].off, Room(lists[l])')
    BY <2>1 DEF Room
  <2>3. \A u \in Adder : pc'[u] = "move" => ClearOf(slots', dest'[u].off, Room(dest[u])')
    BY <1>2
  <2>4. QED
    BY <2>2, <2>3 DEF Unused
<1>5. Ahead'
  <2>1. \A w \in Worker : pc'[w] = pc[w]
    BY <1>1, RolesAssumption
  <2>2. totsize \in Nat /\ (totsize' = 0 => totsize = 0)
    BY DEF Space, Placed
  <2>3. QED
    BY <2>1, <2>2 DEF Space, Ahead
<1>6. QED
  BY <1>3, <1>4, <1>5 DEF Space

LEMMA ReslotsSpace ==
  ASSUME LInv, Jobs, Progress, Space, NEW t \in Thread, Reslots(t)
  PROVE  Space'
<1>1. t \in Adder /\ pc[t] = "free"
  BY RolesAssumption DEF Reslots, Progress
<1>2. /\ JobOK(job[t]) /\ ~merged
      /\ \A u \in Adder : pc[u] \in {"free", "grow", "move"} => u = t
  BY <1>1, Writer
<1> DEFINE old   == L(t)
           free  == FreeSlot(slots, L(t))
           bytes == Capacity(Target(t)) * EntrySize
<1>3. Placed /\ Unused
  BY <1>2 DEF Space
<1>4. ListOK(old) /\ old = lists[job[t].list]
  BY <1>2, <1>3 DEF Placed, L, JobOK
<1>5. /\ old.cap \in Nat /\ old.off \in Int /\ old.cap <= Room(old) /\ Room(old) \in Nat
      /\ old.cap > 0 => old.off >= 0 /\ old.off + old.cap <= totsize
      /\ totsize \in Nat
  BY <1>3, <1>4, RoomIs DEF ListOK, Placed
<1>6. Holes(slots, totsize) /\ ClearOf(slots, old.off, Room(old))
  BY <1>1, <1>2, <1>3, <1>4 DEF Unused, Transit, JobOK
<1>7. ClearOf(slots, old.off, old.cap)
  BY <1>5, <1>6, FewerClearOf
<1>8. /\ Holes(free, totsize)
      /\ \A b \in Int, m \in Nat : ClearOf(slots, b, m) /\ Clear(old.off, old.cap, b, m)
                                     => ClearOf(free, b, m)
  BY <1>5, <1>6, <1>7, FreedIs DEF FreeSlot
<1>9. ASSUME NEW l \in List \ {job[t].list}
      PROVE  /\ ClearOf(free, lists[l].off, Room(lists[l]))
             /\ lists[l].off \in Int /\ Room(lists[l]) \in Nat
  <2>1. lists[l].off \in Int /\ Room(lists[l]) \in Nat
    BY <1>3, RoomIs DEF Placed, ListOK
  <2>2. ClearOf(slots, lists[l].off, Room(lists[l]))
    BY <1>1, <1>2, <1>3 DEF Unused, Transit
  <2>3. Clear(old.off, Room(old), lists[l].off, Room(lists[l]))
    BY <1>2, <1>3, <1>4 DEF Placed, Apart, JobOK
  <2>4. Clear(old.off, old.cap, lists[l].off, Room(lists[l]))
    BY <1>5, <2>1, <2>3, FewerClear
  <2>5. QED
    BY <1>8, <2>1, <2>2, <2>4
<1>10. Target(t) \in Nat /\ (job[t].adds => Len(job[t].es) <= Target(t))
  BY <1>1, <1>2, <1>3, TargetIs
<1>11. /\ UNCHANGED <<lists, file, job, curList, request, ids>>
       /\ \A u \in Thread \ {t} : pc'[u] = pc[u] /\ dest'[u] = dest[u]
       /\ dest' = [u \in Thread |-> dest'[u]]
       /\ totsize' = totsize /\ DOMAIN file' = 0 .. totsize' - 1
  <2>1. UNCHANGED <<lists, file, job, curList, request, ids>>
    BY DEF Reslots, prefetch
  <2>2. totsize' = totsize /\ DOMAIN file' = 0 .. totsize' - 1
    BY <1>3, <2>1 DEF Placed, totsize
  <2>3. \A u \in Thread \ {t} : pc'[u] = pc[u]
    BY DEF Reslots, Goto, Jobs
  <2>4. dest' = dest \/ \E d : dest' = [dest EXCEPT ![t] = d]
    BY DEF Reslots
  <2>5. dest = [u \in Thread |-> dest[u]]
    BY <1>3 DEF Placed
  <2>6. dest' = [u \in Thread |-> dest'[u]] /\ \A u \in Thread \ {t} : dest'[u] = dest[u]
    BY <2>4, <2>5
  <2>7. QED
    BY <2>1, <2>2, <2>3, <2>6
<1>12. \/ /\ Target(t) = 0 /\ slots' = free /\ dest'[t] = NoList /\ pc'[t] = "move"
       \/ /\ Target(t) > 0 /\ Fits(free, bytes) # {} /\ slots' = Taken(free, bytes)
          /\ dest'[t] = NewList(t, free) /\ pc'[t] = "move"
       \/ slots' = free /\ pc'[t] = "grow"
  <2>1. \A d : [dest EXCEPT ![t] = d][t] = d
    <3>1. dest = [u \in Thread |-> dest[u]]
      BY <1>3 DEF Placed
    <3>2. QED
      BY <3>1
  <2>2. \A p : [pc EXCEPT ![t] = p][t] = p
    <3>1. pc = [u \in Thread |-> pc[u]]
      BY DEF Jobs
    <3>2. QED
      BY <3>1
  <2>3. QED
    BY <2>1, <2>2 DEF Reslots, Goto
<1> HIDE DEF old, free, bytes
<1>13. CASE slots' = free /\ pc'[t] = "grow"
  BY <1>1, <1>5, <1>8, <1>9, <1>11, <1>13, NewPlace
<1>14. CASE Target(t) = 0 /\ slots' = free /\ dest'[t] = NoList /\ pc'[t] = "move"
  <2>1. Room(dest[t])' = 0 /\ ListOK(dest[t])'
    BY <1>14, EntrySizeIs DEF ListOK, Room, NoList
  <2>2. job[t].adds => Len(job[t].es) <= dest'[t].size
    BY <1>10, <1>14 DEF NoList
  <2>3. /\ \A l \in List \ {job[t].list} :
             Clear(dest'[t].off, Room(dest[t])', lists[l].off, Room(lists[l]))
        /\ ClearOf(slots', dest'[t].off, Room(dest[t])')
    BY <2>1 DEF Clear, ClearOf
  <2>4. QED
    BY <1>1, <1>5, <1>8, <1>9, <1>11, <1>14, <2>1, <2>2, <2>3, NewPlace
<1>15. CASE /\ Target(t) > 0 /\ Fits(free, bytes) # {} /\ slots' = Taken(free, bytes)
            /\ dest'[t] = NewList(t, free) /\ pc'[t] = "move"
  <2> DEFINE new == NewList(t, free)
             off == FirstFit(free, bytes).off
  <2>1. /\ bytes \in Nat \ {0} /\ new.size = Target(t) /\ Target(t) <= new.cap
        /\ new.cap \in Nat /\ new.off = off /\ Room(new) = bytes
        /\ new \in [size : Nat, cap : Nat, off : {off}]
    BY <1>10, <1>15, NewListIs DEF bytes, NewList
  <2>2. /\ off \in Nat /\ off + bytes <= totsize
        /\ Holes(Taken(free, bytes), totsize)
        /\ ClearOf(Taken(free, bytes), off, bytes)
        /\ \A b \in Int, m \in Nat : ClearOf(free, b, m) =>
              ClearOf(Taken(free, bytes), b, m) /\ Clear(off, bytes, b, m)
    BY <1>5, <1>8, <1>15, <2>1, TakenIs
  <2> HIDE DEF new, off
  <2>3. Room(dest[t])' = bytes /\ dest'[t] = new /\ dest'[t].off = off
    BY <1>15, <2>1 DEF new, Room
  <2>4. ListOK(dest[t])'
    BY <1>11, <2>1, <2>2, <2>3 DEF ListOK
  <2>5. job[t].adds => Len(job[t].es) <= dest'[t].size
    BY <1>10, <2>1, <2>3
  <2>6. \A l \in List \ {job[t].list} :
          /\ Clear(dest'[t].off, Room(dest[t])', lists[l].off, Room(lists[l]))
          /\ ClearOf(slots', lists[l].off, Room(lists[l]))
    BY <1>9, <1>15, <2>2, <2>3
  <2>7. ClearOf(slots', dest'[t].off, Room(dest[t])') /\ Holes(slots, totsize)'
    BY <1>11, <1>15, <2>2, <2>3
  <2>8. QED
    BY <1>1, <1>5, <1>11, <1>15, <2>4, <2>5, <2>6, <2>7, NewPlace
<1>16. QED
  BY <1>12, <1>13, <1>14, <1>15

LEMMA RemapsSpace ==
  ASSUME LInv, Jobs, Progress, Space, NEW t \in Thread, Remaps(t)
  PROVE  Space'
<1>1. t \in Adder /\ pc[t] = "grow"
  BY RolesAssumption DEF Remaps, Progress
<1>2. JobOK(job[t]) /\ ~merged /\ \A u \in Adder : pc[u] \in {"free", "grow", "move"} => u = t
  BY <1>1, Writer
<1>3. Placed /\ Unused /\ totsize \in Nat /\ Holes(slots, totsize)
  BY <1>2 DEF Space, Placed, Unused
<1>4. Target(t) \in Nat /\ (job[t].adds => Len(job[t].es) <= Target(t))
  BY <1>1, <1>2, <1>3, TargetIs
<1> DEFINE bytes == Capacity(Target(t)) * EntrySize
           size  == NewSize(bytes)
           ss    == Extended(slots, size)
           new   == NewList(t, ss)
           off   == FirstFit(ss, bytes).off
<1>5. /\ UNCHANGED <<lists, job, curList, request, ids>>
      /\ DOMAIN file' = 0 .. size - 1 /\ slots' = Taken(ss, bytes)
      /\ \A u \in Thread \ {t} : pc'[u] = pc[u] /\ dest'[u] = dest[u]
      /\ dest' = [u \in Thread |-> dest'[u]]
      /\ pc'[t] = "move" /\ dest'[t] = new
  <2>1. /\ UNCHANGED <<lists, job, curList, request, ids>>
        /\ DOMAIN file' = 0 .. size - 1 /\ slots' = Taken(ss, bytes)
    BY DEF Remaps, prefetch, Mapped
  <2>2. pc'[t] = "move" /\ \A u \in Thread \ {t} : pc'[u] = pc[u]
    BY DEF Remaps, Goto, Jobs
  <2>3. dest' = [dest EXCEPT ![t] = new] /\ dest = [u \in Thread |-> dest[u]]
    BY <1>3 DEF Remaps, Placed
  <2> HIDE DEF new
  <2>4. /\ \A u \in Thread \ {t} : dest'[u] = dest[u]
        /\ dest' = [u \in Thread |-> dest'[u]] /\ dest'[t] = new
    BY <2>3
  <2>5. QED
    BY <2>1, <2>2, <2>4
<1>6. /\ bytes \in Nat \ {0} /\ new.size = Target(t) /\ Target(t) <= new.cap
      /\ new.cap \in Nat /\ new.off = off /\ Room(new) = bytes
      /\ new \in [size : Nat, cap : Nat, off : {off}]
  BY <1>4, NewListIs DEF NewList
<1> HIDE DEF bytes
<1>7. size \in Nat /\ size >= totsize + bytes
  BY <1>3, <1>6, NewSizeIs
<1> HIDE DEF size
<1>8. totsize' = size
  <2>1. Cardinality(0 .. size - 1) = IF 0 > size - 1 THEN 0 ELSE size - 1 - 0 + 1
    BY <1>7, FS_Interval
  <2>2. QED
    BY <1>5, <1>7, <2>1 DEF totsize
<1>9. /\ Holes(ss, size) /\ Fits(ss, bytes) # {}
      /\ \A b \in Int, m \in Nat : b + m <= totsize /\ ClearOf(slots, b, m) => ClearOf(ss, b, m)
  BY <1>3, <1>6, <1>7, ExtendedIs
<1> HIDE DEF ss
<1>10. /\ off \in Nat /\ off + bytes <= size
       /\ Holes(Taken(ss, bytes), size)
       /\ ClearOf(Taken(ss, bytes), off, bytes)
       /\ \A b \in Int, m \in Nat : ClearOf(ss, b, m) =>
             ClearOf(Taken(ss, bytes), b, m) /\ Clear(off, bytes, b, m)
  BY <1>6, <1>7, <1>9, TakenIs
<1> HIDE DEF new, off
<1>11. ASSUME NEW l \in List \ {job[t].list}
       PROVE  /\ ClearOf(Taken(ss, bytes), lists[l].off, Room(lists[l]))
              /\ Clear(off, bytes, lists[l].off, Room(lists[l]))
  <2>1. /\ lists[l].off \in Int /\ Room(lists[l]) \in Nat
        /\ Room(lists[l]) # 0 => lists[l].off + Room(lists[l]) <= totsize
    BY <1>3, RoomIs DEF Placed, ListOK
  <2>2. ClearOf(slots, lists[l].off, Room(lists[l]))
    BY <1>1, <1>2, <1>3 DEF Unused, Transit
  <2>3. CASE Room(lists[l]) = 0
    BY <2>3 DEF ClearOf, Clear
  <2>4. CASE Room(lists[l]) # 0
    BY <1>9, <1>10, <2>1, <2>2, <2>4
  <2>5. QED
    BY <2>3, <2>4
<1>12. Room(dest[t])' = bytes /\ dest'[t].off = off
  BY <1>5, <1>6 DEF Room
<1>13. ListOK(dest[t])' /\ (job[t].adds => Len(job[t].es) <= dest'[t].size)
  BY <1>4, <1>5, <1>6, <1>8, <1>10, <1>12 DEF ListOK
<1>14. /\ totsize' \in Nat /\ DOMAIN file' = 0 .. totsize' - 1 /\ totsize <= totsize'
       /\ Holes(slots, totsize)'
  BY <1>3, <1>5, <1>6, <1>7, <1>8, <1>10
<1>15. /\ \A l \in List \ {job[t].list} :
            /\ ClearOf(slots', lists[l].off, Room(lists[l]))
            /\ Clear(dest'[t].off, Room(dest[t])', lists[l].off, Room(lists[l]))
       /\ ClearOf(slots', dest'[t].off, Room(dest[t])')
  BY <1>5, <1>10, <1>11, <1>12
<1>16. QED
  BY <1>1, <1>5, <1>13, <1>14, <1>15, NewPlace

LEMMA MovesSpace ==
  ASSUME LInv, Jobs, Progress, Space, NEW t \in Thread, Moves(t)
  PROVE  Space'
<1>1. t \in Adder /\ pc[t] = "move"
  BY RolesAssumption DEF Moves, Progress
<1>2. /\ JobOK(job[t]) /\ ~merged /\ t \notin Worker
      /\ \A u \in Adder : pc[u] \in {"free", "grow", "move"} => u = t
      /\ \A u \in Adder : pc[u] \in {"free", "grow", "move", "fill", "unlock"}
                          /\ job[u].list = job[t].list => u = t
  BY <1>1, Writer
<1> DEFINE own == job[t].list
<1>3. Placed /\ Unused /\ own \in List
  BY <1>2 DEF Space, JobOK
<1>4. /\ DOMAIN file' = DOMAIN file /\ slots' = slots /\ job' = job /\ merged' = merged
      /\ UNCHANGED <<curList, request, ids>>
      /\ pc'[t] = IF job[t].adds THEN "fill" ELSE "unlock"
      /\ \A u \in Thread \ {t} : pc'[u] = pc[u] /\ dest'[u] = dest[u]
      /\ dest' = [u \in Thread |-> dest'[u]]
      /\ lists' = [lists EXCEPT ![own] = dest[t]]
  <2>1. /\ DOMAIN file' = DOMAIN file /\ slots' = slots /\ job' = job /\ merged' = merged
        /\ UNCHANGED <<curList, request, ids>>
        /\ lists' = [lists EXCEPT ![own] = dest[t]]
    BY SameBytes DEF Moves, prefetch
  <2>2. /\ pc'[t] = IF job[t].adds THEN "fill" ELSE "unlock"
        /\ \A u \in Thread \ {t} : pc'[u] = pc[u]
    BY DEF Moves, Sized, Goto, Jobs
  <2>3. dest' = [dest EXCEPT ![t] = NoList] /\ dest = [u \in Thread |-> dest[u]]
    BY <1>3 DEF Moves, Placed
  <2>4. QED
    BY <2>1, <2>2, <2>3
<1>5. totsize' = totsize
  BY <1>4 DEF totsize
<1>6. /\ lists' = [l \in List |-> lists'[l]] /\ lists'[own] = dest[t]
      /\ \A l \in List \ {own} : lists'[l] = lists[l]
  BY <1>3, <1>4 DEF Placed
<1>7. \A u \in Adder : /\ pc'[u] \notin {"grow", "move"}
                       /\ pc'[u] = "fill" /\ u # t => pc[u] = "fill" /\ job[u].list # own
  BY <1>2, <1>4, RolesAssumption
<1>8. Placed'
  <2>1. (\A l \in List : ListOK(lists[l]))'
    BY <1>1, <1>3, <1>5, <1>6 DEF Placed, ListOK, Room
  <2>2. \A l, o \in List : l # o => Apart(lists[l], lists[o])'
    <3> SUFFICES ASSUME NEW l \in List, NEW o \in List, l # o
                 PROVE  Clear(lists'[l].off, Room(lists[l])', lists'[o].off, Room(lists[o])')
      BY DEF Apart
    <3>1. Room(lists[own])' = Room(dest[t]) /\ \A i \in List \ {own} : Room(lists[i])' = Room(lists[i])
      BY <1>4, <1>6 DEF Room
    <3>2. \A i \in List \ {own} : Clear(dest[t].off, Room(dest[t]), lists[i].off, Room(lists[i]))
      BY <1>1, <1>3 DEF Placed, Apart
    <3>3. Clear(lists[l].off, Room(lists[l]), lists[o].off, Room(lists[o]))
      BY <1>3 DEF Placed, Apart
    <3>4. CASE l = own
      BY <1>6, <3>1, <3>2, <3>4
    <3>5. CASE o = own
      <4>1. Clear(dest[t].off, Room(dest[t]), lists[l].off, Room(lists[l]))
        BY <3>2, <3>5
      <4>2. Clear(lists[l].off, Room(lists[l]), dest[t].off, Room(dest[t]))
        BY <4>1 DEF Clear
      <4>3. QED
        BY <1>6, <3>1, <3>5, <4>2
    <3>6. CASE l # own /\ o # own
      BY <1>6, <3>1, <3>3, <3>6
    <3>7. QED
      BY <3>4, <3>5, <3>6
  <2>3. ASSUME NEW u \in Adder, pc'[u] = "fill" PROVE Len(job'[u].es) <= L(u)'.size
    <3>1. CASE u = t
      BY <1>1, <1>3, <1>4, <1>6, <2>3, <3>1 DEF Placed, L
    <3>2. CASE u # t
      <4>1. pc[u] = "fill" /\ job[u].list # own /\ job[u].list \in List
        BY <1>7, <2>3, <3>2 DEF Progress, JobOK
      <4>2. Len(job[u].es) <= lists[job[u].list].size
        BY <1>3, <4>1 DEF Placed, L
      <4>3. QED
        BY <1>4, <1>6, <4>1, <4>2 DEF L
    <3>3. QED
      BY <3>1, <3>2
  <2>4. totsize' \in Nat /\ DOMAIN file' = 0 .. totsize' - 1
    BY <1>3, <1>4, <1>5 DEF Placed
  <2>5. QED
    BY <1>4, <1>6, <1>7, <2>1, <2>2, <2>3, <2>4 DEF Placed
<1>9. Unused'
  <2>1. \A l \in List \ {own}, u \in Adder : ~Transit(u, l)
    BY <1>2 DEF Transit
  <2>2. ASSUME NEW l \in List PROVE ClearOf(slots, lists'[l].off, Room(lists[l])')
    <3>1. CASE l = own
      BY <1>1, <1>3, <1>6, <3>1 DEF Unused, Room
    <3>2. CASE l # own
      BY <1>3, <1>6, <2>1, <3>2 DEF Unused, Room
    <3>3. QED
      BY <3>1, <3>2
  <2>3. Holes(slots, totsize)'
    BY <1>3, <1>4, <1>5 DEF Unused
  <2>4. QED
    BY <1>4, <1>7, <2>2, <2>3 DEF Unused
<1>10. Ahead'
  <2>1. \A w \in Worker : pc'[w] = "lock" => pc[w] = "lock"
    BY <1>2, <1>4, RolesAssumption
  <2>2. QED
    BY <1>4, <2>1, AheadKept DEF Space
<1>11. QED
  BY <1>8, <1>9, <1>10 DEF Space

LEMMA StaysSpace ==
  ASSUME LInv, Jobs, Progress, Space, NEW t \in Thread, StaysInPlace(t)
  PROVE  Space'
<1> DEFINE own == job[t].list
<1>1. /\ t \in Adder /\ t \notin Worker /\ JobOK(job[t]) /\ ~merged /\ at[t] = "has1"
      /\ pc[t] = "lock" /\ own \in List
  BY RolesAssumption DEF StaysInPlace, Progress, JobOK
<1>2. Placed /\ Unused
  BY <1>1 DEF Space
<1>3. \A u \in Adder : pc[u] \in {"free", "grow", "move", "fill"} => job[u].list # own
  <2> SUFFICES ASSUME NEW u \in Adder, pc[u] \in {"free", "grow", "move", "fill"},
                      job[u].list = own
               PROVE  FALSE
    OBVIOUS
  <2>1. /\ u \in Thread /\ at[u] \in {"has1", "has2", "want3", "has3"} /\ no[u] = job[u].list
        /\ no[t] = own /\ u # t
    BY <1>1, RolesAssumption DEF Progress, InStep
  <2>2. u \in InLevel1 /\ t \in InLevel1
    BY <1>1, <2>1 DEF InLevel1
  <2>3. QED
    BY <2>1, <2>2 DEF LInv, OneOwner
<1>4. Target(t) \in Nat /\ (job[t].adds => Len(job[t].es) <= Target(t))
  BY <1>1, <1>2, TargetIs
<1>5. /\ file' = file /\ slots' = slots /\ job' = job /\ merged' = merged /\ dest' = dest
      /\ UNCHANGED <<curList, request, ids>>
      /\ pc'[t] = IF job[t].adds THEN "fill" ELSE "unlock"
      /\ \A u \in Thread \ {t} : pc'[u] = pc[u]
  BY DEF StaysInPlace, Sized, Goto, Jobs, prefetch
<1>6. totsize' = totsize
  BY <1>5 DEF totsize
<1>7. /\ lists' = [l \in List |-> lists'[l]]
      /\ lists'[own] \in [size : {Target(t)}, cap : {lists[own].cap}, off : {lists[own].off}]
      /\ \A l \in List \ {own} : lists'[l] = lists[l]
      /\ Target(t) <= lists[own].cap
  <2>1. lists' = [lists EXCEPT ![own].size = Target(t)] /\ Target(t) <= lists[own].cap
    BY DEF StaysInPlace, InPlace, L
  <2>2. lists = [l \in List |-> lists[l]] /\ lists[own] \in [size : Nat, cap : Nat, off : Int]
    BY <1>1, <1>2 DEF Placed, ListOK
  <2> HIDE DEF own
  <2>3. lists' = [l \in List |-> lists'[l]] /\ \A l \in List \ {own} : lists'[l] = lists[l]
    BY <2>1, <2>2
  <2>4. lists'[own] = [lists[own] EXCEPT !.size = Target(t)]
    BY <1>1, <2>1, <2>2
  <2>5. lists'[own] \in [size : {Target(t)}, cap : {lists[own].cap}, off : {lists[own].off}]
    BY <2>2, <2>4
  <2>6. QED
    BY <2>1, <2>3, <2>5
<1>8. \A l \in List : lists'[l].cap = lists[l].cap /\ lists'[l].off = lists[l].off
  BY <1>7
<1>9. \A u \in Adder : /\ pc'[u] \in {"grow", "move"} <=> pc[u] \in {"grow", "move"}
                       /\ pc'[u] = "move" => pc[u] = "move"
                       /\ pc'[u] = "fill" /\ u # t => pc[u] = "fill" /\ job[u].list # own
  BY <1>1, <1>3, <1>5, RolesAssumption
<1>10. Placed'
  <2>1. ASSUME NEW l \in List PROVE ListOK(lists[l])'
    <3>1. ListOK(lists[l])
      BY <1>2 DEF Placed
    <3>2. lists'[l] \in [size : Nat, cap : Nat, off : Int] /\ lists'[l].size <= lists'[l].cap
      BY <1>4, <1>7, <3>1 DEF ListOK
    <3>3. QED
      BY <1>6, <1>8, <3>1, <3>2 DEF ListOK, Room
  <2>2. \A l, o \in List : l # o => Apart(lists[l], lists[o])'
    BY <1>2, <1>8 DEF Placed, Apart, Room
  <2>3. ASSUME NEW u \in Adder, pc'[u] = "move"
        PROVE  /\ ListOK(dest[u])'
               /\ job'[u].adds => Len(job'[u].es) <= dest'[u].size
               /\ \A l \in List : l # job'[u].list => Apart(dest[u], lists[l])'
    <3>1. pc[u] = "move"
      BY <1>9, <2>3
    <3>2. ListOK(dest[u])' /\ (job'[u].adds => Len(job'[u].es) <= dest'[u].size)
      BY <1>2, <1>5, <1>6, <3>1 DEF Placed, ListOK, Room
    <3>3. \A l \in List : l # job'[u].list => Apart(dest[u], lists[l])'
      BY <1>2, <1>5, <1>8, <3>1 DEF Placed, Apart, Room
    <3>4. QED
      BY <3>2, <3>3
  <2>4. ASSUME NEW u \in Adder, pc'[u] = "fill" PROVE Len(job'[u].es) <= L(u)'.size
    <3>1. CASE u = t
      BY <1>1, <1>4, <1>5, <1>7, <2>4, <3>1 DEF L
    <3>2. CASE u # t
      <4>1. pc[u] = "fill" /\ job[u].list # own /\ job[u].list \in List
        BY <1>9, <2>4, <3>2 DEF Progress, JobOK
      <4>2. QED
        BY <1>2, <1>5, <1>7, <4>1 DEF Placed, L
    <3>3. QED
      BY <3>1, <3>2
  <2>5. /\ totsize' \in Nat /\ DOMAIN file' = 0 .. totsize' - 1
        /\ dest' = [u \in Thread |-> dest'[u]]
    BY <1>2, <1>5, <1>6 DEF Placed
  <2>6. QED
    BY <1>7, <2>1, <2>2, <2>3, <2>4, <2>5 DEF Placed
<1>11. Unused'
  <2>1. \A u \in Adder, l \in List : Transit(u, l) => Transit(u, l)'
    BY <1>5, <1>9 DEF Transit
  <2>2. ASSUME NEW l \in List, \A u \in Adder : ~Transit(u, l)'
        PROVE  ClearOf(slots, lists'[l].off, Room(lists[l])')
    <3>1. ClearOf(slots, lists[l].off, Room(lists[l]))
      BY <1>2, <2>1, <2>2 DEF Unused
    <3>2. lists'[l].off = lists[l].off /\ Room(lists[l])' = Room(lists[l])
      BY <1>8 DEF Room
    <3>3. QED
      BY <3>1, <3>2
  <2>3. \A u \in Adder : pc'[u] = "move" => ClearOf(slots', dest'[u].off, Room(dest[u])')
    BY <1>2, <1>5, <1>9 DEF Unused, Room
  <2>4. Holes(slots, totsize)'
    BY <1>2, <1>5, <1>6 DEF Unused
  <2>5. QED
    BY <1>5, <2>2, <2>3, <2>4 DEF Unused
<1>12. Ahead'
  <2>1. \A w \in Worker : pc'[w] = "lock" => pc[w] = "lock"
    BY <1>1, <1>5, RolesAssumption
  <2>2. QED
    BY <1>5, <2>1, AheadKept DEF Space
<1>13. QED
  BY <1>10, <1>11, <1>12 DEF Space

\* merge_from_multiple, which finds nothing stored and nobody at work.
LEMMA MergeSpace ==
  ASSUME Progress, Space, NEW sizes \in Merges, Merge(sizes)
  PROVE  Space'
<1> DEFINE n == Cardinality(List)
           at0 == [l \in List |-> [size |-> sizes[l], cap |-> sizes[l], off |-> Starts(sizes)[l]]]
           end == Starts(sizes)[n]
<1>1. /\ lists' = at0 /\ merged' /\ DOMAIN file' = 0 .. end - 1
      /\ totsize = 0 /\ calls = 0
      /\ UNCHANGED <<pc, job, dest, curList, request, ids>>
  BY DEF Merge, prefetch
<1>2. sizes \in [List -> Nat]
  BY MergesAssumption
<1>3. /\ n \in Nat
      /\ \A l \in 0 .. n : Starts(sizes)[l] \in Nat
      /\ \A l \in List : /\ sizes[l] * EntrySize \in Nat
                         /\ \A o \in 0 .. n : l < o =>
                              Starts(sizes)[l] + sizes[l] * EntrySize <= Starts(sizes)[o]
  BY <1>2, StartsAre
<1>4. List = 0 .. n - 1
  BY NumbersAssumption
<1>5. \A l \in List : /\ lists'[l].size = sizes[l] /\ lists'[l].cap = sizes[l]
                      /\ lists'[l].off = Starts(sizes)[l]
                      /\ lists'[l] \in [size : {sizes[l]}, cap : {sizes[l]}, off : {Starts(sizes)[l]}]
                      /\ Room(lists[l])' = sizes[l] * EntrySize
  BY <1>1 DEF Room
<1> HIDE DEF n, at0
<1>6. end \in Nat
  BY <1>3
<1>7. totsize' = end
  <2> HIDE DEF end
  <2>1. Cardinality(0 .. end - 1) = IF 0 > end - 1 THEN 0 ELSE end - 1 - 0 + 1
    BY <1>6, FS_Interval
  <2>2. QED
    BY <1>1, <1>6, <2>1 DEF totsize
<1>8. Placed'
  <2>1. ASSUME NEW l \in List PROVE ListOK(lists[l])'
    <3>1. /\ Starts(sizes)[l] \in Nat /\ sizes[l] \in Nat
          /\ Starts(sizes)[l] + sizes[l] * EntrySize <= end
      BY <1>2, <1>3, <1>4
    <3>2. QED
      BY <1>5, <1>7, <3>1 DEF ListOK
  <2>2. ASSUME NEW l \in List, NEW o \in List, l # o PROVE Apart(lists[l], lists[o])'
    <3>1. /\ Starts(sizes)[l] \in Nat /\ Starts(sizes)[o] \in Nat
          /\ sizes[l] * EntrySize \in Nat /\ sizes[o] * EntrySize \in Nat
          /\ l < o \/ o < l
      BY <1>3, <1>4, <2>2
    <3>2. \/ Starts(sizes)[l] + sizes[l] * EntrySize <= Starts(sizes)[o]
          \/ Starts(sizes)[o] + sizes[o] * EntrySize <= Starts(sizes)[l]
      BY <1>3, <1>4, <3>1
    <3>3. QED
      BY <1>5, <3>2 DEF Apart, Clear
  <2>3. \A u \in Adder : pc'[u] = "idle"
    BY <1>1 DEF Progress
  <2>4. /\ lists' = [l \in List |-> lists'[l]] /\ dest' = [u \in Thread |-> dest'[u]]
    BY <1>1 DEF Space, Placed, at0
  <2>5. QED
    BY <1>1, <1>6, <1>7, <2>1, <2>2, <2>3, <2>4 DEF Placed
<1>9. Ahead'
  BY <1>1 DEF Space, Ahead
<1>10. QED
  BY <1>1, <1>8, <1>9 DEF Space

LEMMA SpaceStep ==
  ASSUME LInv, Jobs, Progress, Space, Next
  PROVE  Space'
<1>1. ASSUME NEW t \in Thread, NEW l \in List, AddEntries(t, l) \/ Resize(t, l) PROVE Space'
  <2>1. PICK j : Calls(t, j)
    BY <1>1 DEF AddEntries, Resize
  <2>2. /\ UNCHANGED <<merged, file, lists, dest, slots, curList, request, ids>>
        /\ pc'[t] = "lock" /\ at[t] \in {"out", "want1"} /\ t \in Adder /\ t \notin Worker
        /\ \A u \in Thread \ {t} : pc'[u] = pc[u] /\ job'[u] = job[u]
    BY <2>1, RolesAssumption DEF Calls, Goto, Lock1, Jobs, store, prefetch
  <2>3. pc[t] \notin {"grow", "move"}
    BY <2>2, RolesAssumption DEF Progress, InStep
  <2>4. Ahead'
    BY <2>2, AheadKept, RolesAssumption DEF Space
  <2>5. QED
    BY <2>2, <2>3, <2>4, SpaceKept, RolesAssumption
<1>2. ASSUME NEW t \in Thread, Locks(t) \/ Announces(t) \/ WakesUp(t) PROVE Space'
  <2>1. UNCHANGED <<merged, file, lists, dest, slots, curList, request, ids, pc, job>>
    BY <1>2 DEF Locks, Announces, WakesUp, store, prefetch
  <2>2. Ahead'
    BY <2>1, AheadKept DEF Space
  <2>3. QED
    BY <2>1, <2>2, SpaceKept
<1>3. ASSUME NEW t \in Thread, Queues(t) \/ Fills(t) \/ Returns(t) PROVE Space'
  <2>1. /\ UNCHANGED <<merged, lists, dest, slots, curList, request, ids>>
        /\ DOMAIN file' = DOMAIN file
        /\ pc[t] \in {"lock", "fill", "unlock"} /\ pc'[t] \in {"lock", "free", "unlock", "idle"}
        /\ pc'[t] = "lock" => pc[t] = "lock"
        /\ \A u \in Thread \ {t} : pc'[u] = pc[u] /\ job'[u] = job[u]
    <3>1. CASE Queues(t)
      BY <3>1 DEF Queues, Goto, Jobs, store, prefetch
    <3>2. CASE Fills(t)
      BY <3>2, SameBytes DEF Fills, Goto, Jobs, prefetch
    <3>3. CASE Returns(t)
      BY <3>3 DEF Returns, Goto, Jobs, store, prefetch
    <3>4. QED
      BY <1>3, <3>1, <3>2, <3>3
  <2>2. Ahead'
    BY <2>1, AheadKept, RolesAssumption DEF Space
  <2>3. QED
    BY <2>1, <2>2, SpaceKept, RolesAssumption
<1>4. ASSUME NEW t \in Thread, AdderStep(t) PROVE Space'
  BY <1>2, <1>3, <1>4, StaysSpace, ReslotsSpace, RemapsSpace, MovesSpace DEF AdderStep
<1>5. ASSUME NEW w \in Thread, WorkerStep(w) PROVE Space'
  <2>1. /\ UNCHANGED <<merged, file, lists, dest, slots, request, ids>>
        /\ pc[w] \in {"take", "lock"} /\ pc'[w] \in {"lock", "idle", "take"}
        /\ \A u \in Thread \ {w} : pc'[u] = pc[u] /\ job'[u] = job[u]
    <3>1. CASE Takes(w)
      BY <3>1 DEF Takes, Goto, Jobs, store
    <3>2. CASE Ends(w)
      BY <3>2 DEF Ends, Goto, Jobs, store, prefetch
    <3>3. CASE HasRead(w)
      BY <3>3 DEF HasRead, Goto, Jobs, store, prefetch
    <3>4. QED
      BY <1>5, <3>1, <3>2, <3>3 DEF WorkerStep
  <2>2. Ahead'
    <3>1. CASE Takes(w)
      <4>1. curList' = curList + 1 /\ curList < Len(ids)
        BY <3>1 DEF Takes
      <4>2. totsize' = totsize /\ totsize # 0 /\ curList \in Nat
        BY <2>1, <4>1 DEF Space, Ahead, totsize
      <4>3. QED
        BY <2>1, <4>1, <4>2 DEF Space, Ahead
    <3>2. CASE Ends(w) \/ HasRead(w)
      <4>1. pc'[w] # "lock" /\ curList' = curList
        BY <3>2 DEF Ends, HasRead, Goto, Jobs, prefetch
      <4>2. QED
        BY <2>1, <4>1, AheadKept, RolesAssumption DEF Space
    <3>3. QED
      BY <1>5, <3>1, <3>2 DEF WorkerStep
  <2>3. QED
    BY <2>1, <2>2, SpaceKept, RolesAssumption
<1>6. ASSUME NEW r \in Requests, Clears(r) PROVE Space'
  <2>1. UNCHANGED <<merged, file, lists, dest, slots, curList, pc, job>> /\ request' = r /\ ids' = <<>>
    BY <1>6 DEF Clears, store
  <2>2. Ahead'
    BY <2>1 DEF Space, Ahead, totsize
  <2>3. QED
    BY <2>1, <2>2, SpaceKept
<1>7. CASE Restarts
  <2>1. /\ UNCHANGED <<merged, file, lists, dest, slots, job>>
        /\ ids' = Present(request) /\ curList' = 0 /\ request # NoRequest /\ request' = NoRequest
        /\ \E ws \in SUBSET Worker : pc' = [t \in Thread |-> IF t \in ws THEN "take" ELSE pc[t]]
        /\ \A w \in Worker : pc[w] = "idle"
    BY <1>7 DEF Restarts, store, Joined
  <2>2. /\ \A t \in Adder : pc'[t] = pc[t]
        /\ \A w \in Worker : pc'[w] # "lock"
    BY <2>1, RolesAssumption
  <2>3. totsize = 0 => \A l \in List : lists[l].size = 0
    <3> SUFFICES ASSUME totsize = 0, NEW l \in List PROVE lists[l].size = 0
      OBVIOUS
    <3>1. ListOK(lists[l])
      BY DEF Space, Placed
    <3>2. lists[l].cap \in Nat /\ lists[l].size \in Nat /\ lists[l].off \in Int
      BY <3>1 DEF ListOK
    <3>3. Room(lists[l]) \in Nat /\ lists[l].cap <= Room(lists[l])
      BY <3>2, RoomIs
    <3>4. QED
      BY <3>1, <3>2, <3>3 DEF ListOK
  <2>4. totsize = 0 => ids' = <<>>
    BY <2>1, <2>3, PresentNone DEF Space, Ahead
  <2>5. Ahead'
    BY <2>1, <2>2, <2>4 DEF Ahead, totsize
  <2>6. QED
    BY <2>1, <2>2, <2>5, SpaceKept
<1>8. CASE Rests
  <2>1. UNCHANGED <<merged, file, lists, dest, slots, curList, request, ids, pc, job>>
    BY <1>8 DEF Rests, vars, store, prefetch
  <2>2. Ahead'
    BY <2>1, AheadKept DEF Space
  <2>3. QED
    BY <2>1, <2>2, SpaceKept
<1>9. QED
  BY <1>1, <1>2, <1>4, <1>5, <1>6, <1>7, <1>8, MergeSpace DEF Next, ThreadStep

LEMMA SpaceStutter ==
  ASSUME Progress, Space, UNCHANGED vars
  PROVE  Progress' /\ Space'
<1>1. UNCHANGED <<at, no, pc, job, calls, merged, file, lists, dest, slots, curList, request, ids>>
  BY DEF vars, lockVars, store, prefetch
<1>2. Progress'
  BY <1>1 DEF Progress, JobOK, InStep
<1>3. Ahead'
  BY <1>1, AheadKept DEF Space
<1>4. QED
  BY <1>1, <1>2, <1>3, SpaceKept

----------------------------------------------------------------------------
\* Every byte of the file has one owner, as long as nothing is added to what
\* was merged.
LEMMA OwnersFromSpace ==
  ASSUME LInv, Progress, Space
  PROVE  BytesOwnedOnce
<1> USE DEF Space
<1>1. \A l \in List : lists[l].off \in Int /\ Room(lists[l]) \in Nat
  BY RoomIs DEF Placed, ListOK
<1>2. \A l : Region(l) = l.off .. l.off + Room(l) - 1
  BY DEF Region, Room
<1>3. \A n \in Coming : \E t \in Adder : pc[t] = "move" /\ n = dest[t]
  BY DEF Coming
<1>4. \A t \in Adder : pc[t] = "move" =>
         dest[t].off \in Int /\ Room(dest[t]) \in Nat /\ job[t].list \in InTransit
  BY RoomIs DEF Placed, ListOK, InTransit
<1>5. ASSUME NEW l \in List PROVE Region(lists[l]) \subseteq DOMAIN file
  <2>1. /\ ListOK(lists[l]) /\ totsize \in Nat /\ DOMAIN file = 0 .. totsize - 1
        /\ lists[l].cap \in Nat /\ (lists[l].cap = 0 => Room(lists[l]) = 0)
    BY RoomIs DEF Placed, ListOK
  <2>2. QED
    BY <1>1, <1>2, <2>1 DEF ListOK
<1>6. ASSUME NEW l \in List, NEW o \in List, l # o
      PROVE  Region(lists[l]) \cap Region(lists[o]) = {}
  <2>1. Clear(lists[l].off, Room(lists[l]), lists[o].off, Room(lists[o]))
    BY <1>6 DEF Placed, Apart
  <2>2. /\ lists[l].off \in Int /\ Room(lists[l]) \in Int
        /\ lists[o].off \in Int /\ Room(lists[o]) \in Int
    BY <1>1
  <2>3. (lists[l].off .. lists[l].off + Room(lists[l]) - 1)
          \cap (lists[o].off .. lists[o].off + Room(lists[o]) - 1) = {}
    BY <2>1, <2>2, ClearMeans
  <2>4. QED
    BY <1>2, <2>3
<1>7. ASSUME NEW n \in Coming, NEW l \in List \ InTransit
      PROVE  Region(n) \cap Region(lists[l]) = {}
  <2>1. PICK t \in Adder : pc[t] = "move" /\ n = dest[t]
    BY <1>3
  <2>2. Clear(dest[t].off, Room(dest[t]), lists[l].off, Room(lists[l]))
    BY <1>4, <2>1 DEF Placed, Apart
  <2>3. dest[t].off \in Int /\ Room(dest[t]) \in Int /\ lists[l].off \in Int /\ Room(lists[l]) \in Int
    BY <1>1, <1>4, <2>1
  <2>4. (dest[t].off .. dest[t].off + Room(dest[t]) - 1)
          \cap (lists[l].off .. lists[l].off + Room(lists[l]) - 1) = {}
    BY <2>2, <2>3, ClearMeans
  <2>5. QED
    BY <1>2, <2>1, <2>4
<1>8. ASSUME ~merged, NEW s \in slots
      PROVE  /\ Span(s) \subseteq DOMAIN file
             /\ \A l \in List \ InTransit : Span(s) \cap Region(lists[l]) = {}
             /\ \A n \in Coming : Span(s) \cap Region(n) = {}
             /\ \A r \in slots \ {s} : Span(s) \cap Span(r) = {}
  <2>1. Unused
    BY <1>8
  <2>2. \A r \in slots : r.off \in Nat /\ r.cap \in Nat /\ r.off + r.cap <= totsize
    BY <2>1 DEF Unused, Holes
  <2>3. Span(s) \subseteq DOMAIN file
    BY <2>2 DEF Span, Placed
  <2>4. ASSUME NEW l \in List \ InTransit PROVE Span(s) \cap Region(lists[l]) = {}
    <3>1. \A t \in Adder : ~Transit(t, l)
      BY DEF Transit, InTransit
    <3>2. Clear(s.off, s.cap, lists[l].off, Room(lists[l]))
      BY <2>1, <3>1 DEF Unused, ClearOf
    <3>3. s.off \in Int /\ s.cap \in Int /\ lists[l].off \in Int /\ Room(lists[l]) \in Int
      BY <1>1, <2>2
    <3>4. (s.off .. s.off + s.cap - 1) \cap (lists[l].off .. lists[l].off + Room(lists[l]) - 1) = {}
      BY <3>2, <3>3, ClearMeans
    <3>5. QED
      BY <1>2, <3>4 DEF Span
  <2>5. ASSUME NEW n \in Coming PROVE Span(s) \cap Region(n) = {}
    <3>1. PICK t \in Adder : pc[t] = "move" /\ n = dest[t]
      BY <1>3
    <3>2. Clear(s.off, s.cap, dest[t].off, Room(dest[t]))
      BY <2>1, <3>1 DEF Unused, ClearOf
    <3>3. s.off \in Int /\ s.cap \in Int /\ dest[t].off \in Int /\ Room(dest[t]) \in Int
      BY <1>4, <2>2, <3>1
    <3>4. (s.off .. s.off + s.cap - 1) \cap (dest[t].off .. dest[t].off + Room(dest[t]) - 1) = {}
      BY <3>2, <3>3, ClearMeans
    <3>5. QED
      BY <1>2, <3>1, <3>4 DEF Span
  <2>6. ASSUME NEW r \in slots \ {s} PROVE Span(s) \cap Span(r) = {}
    <3>1. Clear(s.off, s.cap, r.off, r.cap)
      BY <2>1 DEF Unused, Holes
    <3>2. s.off \in Int /\ s.cap \in Int /\ r.off \in Int /\ r.cap \in Int
      BY <2>2
    <3>3. (s.off .. s.off + s.cap - 1) \cap (r.off .. r.off + r.cap - 1) = {}
      BY <3>1, <3>2, ClearMeans
    <3>4. QED
      BY <3>3 DEF Span
  <2>7. QED
    BY <2>3, <2>4, <2>5, <2>6
<1>9. QED
  BY <1>5, <1>6, <1>7, <1>8 DEF BytesOwnedOnce

----------------------------------------------------------------------------
(* What a reader sees.                                                     *)

\* A list that fits into its room is written to inside of it.
LEMMA InsideRoom ==
  ASSUME NEW l, l.cap \in Nat, l.off \in Int, NEW i \in Nat, NEW k \in Nat, i + k <= l.cap
  PROVE  /\ l.off <= l.off + i * CodeSize
         /\ l.off + i * CodeSize + CodeSize * k <= l.off + Room(l)
         /\ l.off <= IdsAt(l) + i * IdSize
         /\ IdsAt(l) + i * IdSize + IdSize * k <= l.off + Room(l)
         /\ {i * CodeSize, CodeSize * k, i * IdSize, IdSize * k, l.cap * CodeSize} \subseteq Nat
<1>1. \A c \in Nat : /\ i * c \in Nat /\ c * k \in Nat /\ l.cap * c \in Nat
                     /\ i * c + c * k <= l.cap * c
  <2> SUFFICES ASSUME NEW c \in Nat PROVE /\ i * c \in Nat /\ c * k \in Nat /\ l.cap * c \in Nat
                                          /\ i * c + c * k <= l.cap * c
    OBVIOUS
  <2>1. i + k \in Nat /\ (i + k) * c <= l.cap * c
    BY MoreBytes
  <2>2. (i + k) * c = i * c + c * k
    OBVIOUS
  <2>3. i * c \in Nat /\ c * k \in Nat /\ l.cap * c \in Nat
    OBVIOUS
  <2>4. QED
    BY <2>1, <2>2, <2>3
<1>2. Room(l) = l.cap * CodeSize + l.cap * IdSize
  BY EntrySizeIs DEF Room
<1>3. IdsAt(l) = l.off + l.cap * CodeSize
  BY DEF IdsAt
<1> DEFINE A == i * CodeSize
           B == CodeSize * k
           C == l.cap * CodeSize
           D == i * IdSize
           E == IdSize * k
           F == l.cap * IdSize
<1>4. /\ A \in Nat /\ B \in Nat /\ C \in Nat /\ A + B <= C
      /\ D \in Nat /\ E \in Nat /\ F \in Nat /\ D + E <= F
  BY <1>1, EntrySizeIs
<1>5. Room(l) = C + F /\ IdsAt(l) = l.off + C
  BY <1>2, <1>3
<1> HIDE DEF A, B, C, D, E, F
<1>6. /\ l.off <= l.off + A /\ l.off + A + B <= l.off + Room(l)
      /\ l.off <= IdsAt(l) + D /\ IdsAt(l) + D + E <= l.off + Room(l)
      /\ {A, B, D, E, C} \subseteq Nat
  BY <1>4, <1>5
<1>7. QED
  BY <1>6 DEF A, B, C, D, E, F

\* Bytes outside of what is written stay.
LEMMA WrittenElsewhere ==
  ASSUME NEW f, NEW part, NEW size, NEW a \in Int, NEW es, size * Len(es) \in Nat,
         NEW x \in DOMAIN f, x \in Int, x < a \/ x >= a + size * Len(es)
  PROVE  Written(f, part, size, a, es)[x] = f[x]
BY DEF Written

LEMMA CopiedElsewhere ==
  ASSUME NEW f, NEW to \in Int, NEW from, NEW len \in Nat,
         NEW x \in DOMAIN f, x \in Int, x < to \/ x >= to + len
  PROVE  Copied(f, to, from, len)[x] = f[x]
BY DEF Copied

LEMMA FillsElsewhere ==
  ASSUME LInv, Progress, Space, NEW t \in Adder, Fills(t), NEW x \in DOMAIN file,
         x \notin Region(L(t))
  PROVE  file'[x] = file[x]
<1> DEFINE l == L(t)
           n == Len(job[t].es)
<1>1. pc[t] = "fill" /\ JobOK(job[t])
  BY DEF Fills, Progress
<1>2. /\ ListOK(l) /\ n <= l.size /\ n \in Nat /\ Old(t) = l.size - n
      /\ DOMAIN file = 0 .. totsize - 1
  BY <1>1 DEF Space, Placed, L, JobOK, Old
<1>3. /\ Old(t) \in Nat /\ Old(t) + n <= l.cap /\ l.cap \in Nat /\ l.off \in Int
  <2>1. l.size \in Nat /\ l.cap \in Nat /\ l.off \in Int /\ l.size <= l.cap
    BY <1>2 DEF ListOK
  <2> HIDE DEF l, n
  <2>2. QED
    BY <1>2, <2>1
<1> DEFINE ida == IdsAt(l) + Old(t) * IdSize
           coda == l.off + Old(t) * CodeSize
           half == Written(file, "id", IdSize, ida, job[t].es)
<1> HIDE DEF l
<1>4. /\ l.off <= coda /\ coda + CodeSize * n <= l.off + Room(l)
      /\ l.off <= ida /\ ida + IdSize * n <= l.off + Room(l)
      /\ coda \in Int /\ ida \in Int /\ CodeSize * n \in Nat /\ IdSize * n \in Nat
  <2>1. /\ l.off <= l.off + Old(t) * CodeSize
        /\ l.off + Old(t) * CodeSize + CodeSize * n <= l.off + Room(l)
        /\ l.off <= IdsAt(l) + Old(t) * IdSize
        /\ IdsAt(l) + Old(t) * IdSize + IdSize * n <= l.off + Room(l)
        /\ {Old(t) * CodeSize, CodeSize * n, Old(t) * IdSize, IdSize * n, l.cap * CodeSize} \subseteq Nat
    BY <1>2, <1>3, InsideRoom
  <2>2. /\ Old(t) * CodeSize \in Nat /\ CodeSize * n \in Nat
        /\ Old(t) * IdSize \in Nat /\ IdSize * n \in Nat /\ l.cap * CodeSize \in Nat
    BY <2>1
  <2>3. IdsAt(l) \in Int
    BY <1>3, <2>2 DEF IdsAt
  <2>4. coda \in Int /\ ida \in Int
    BY <1>3, <2>2, <2>3
  <2>5. QED
    BY <2>1, <2>2, <2>4
<1>5. Room(l) \in Nat /\ x \in Int
  BY <1>2, <1>3, RoomIs
<1>6. x < l.off \/ x >= l.off + Room(l)
  BY <1>3, <1>5 DEF Region, Room, l
<1>7. file' = Written(half, "code", CodeSize, coda, job[t].es)
  BY DEF Fills, l
<1>8. DOMAIN half = DOMAIN file
  BY SameBytes
<1> HIDE DEF ida, coda
<1> DEFINE idb == IdSize * Len(job[t].es)
           codb == CodeSize * Len(job[t].es)
<1>9. half[x] = file[x]
  <2>1. idb \in Nat /\ l.off <= ida /\ ida + idb <= l.off + Room(l)
    BY <1>4
  <2> HIDE DEF idb
  <2>2. x < ida \/ x >= ida + idb
    BY <1>3, <1>4, <1>5, <1>6, <2>1
  <2> USE DEF idb
  <2>3. QED
    BY <1>4, <1>5, <2>1, <2>2, WrittenElsewhere
<1> HIDE DEF half
<1>10. Written(half, "code", CodeSize, coda, job[t].es)[x] = half[x]
  <2>1. codb \in Nat /\ l.off <= coda /\ coda + codb <= l.off + Room(l)
    BY <1>4
  <2> HIDE DEF codb
  <2>2. x < coda \/ x >= coda + codb
    BY <1>3, <1>4, <1>5, <1>6, <2>1
  <2> USE DEF codb
  <2>3. QED
    BY <1>4, <1>5, <1>8, <2>1, <2>2, WrittenElsewhere
<1>11. QED
  BY <1>7, <1>9, <1>10

LEMMA MovesElsewhere ==
  ASSUME LInv, Progress, Space, NEW t \in Adder, Moves(t), NEW x \in DOMAIN file,
         x \notin Region(dest[t])
  PROVE  file'[x] = file[x]
<1> DEFINE old == L(t)
           new == dest[t]
           n   == Min({old.size, new.size})
<1>1. pc[t] = "move" /\ JobOK(job[t])
  BY DEF Moves, Progress
<1>2. ListOK(old) /\ ListOK(new) /\ DOMAIN file = 0 .. totsize - 1
  BY <1>1 DEF Space, Placed, L, JobOK
<1>3. n \in Nat /\ n <= new.size
  BY <1>2, MinIs DEF ListOK
<1> HIDE DEF n
<1>4. file' = IF old.off = new.off THEN file
              ELSE Copied(Copied(file, new.off, old.off, n * CodeSize),
                          IdsAt(new), IdsAt(old), n * IdSize)
  BY DEF Moves, Moved, n
<1>5. new.cap \in Nat /\ new.off \in Int /\ n <= new.cap /\ Room(new) \in Nat /\ x \in Int
  BY <1>2, <1>3, RoomIs DEF ListOK
<1>6. x < new.off \/ x >= new.off + Room(new)
  BY <1>5 DEF Region, Room
<1> HIDE DEF old, new
<1> DEFINE codb == n * CodeSize
           idb  == n * IdSize
           ida  == IdsAt(new)
<1>7. /\ codb \in Nat /\ idb \in Nat /\ ida \in Int
      /\ new.off + codb <= new.off + Room(new)
      /\ new.off <= ida /\ ida + idb <= new.off + Room(new)
  <2>1. codb \in Nat /\ idb \in Nat /\ new.cap * CodeSize \in Nat /\ new.cap * IdSize \in Nat
    BY <1>3, <1>5, EntrySizeIs
  <2>2. codb <= new.cap * CodeSize /\ idb <= new.cap * IdSize
    BY <1>3, <1>5, EntrySizeIs, MoreBytes
  <2>3. Room(new) = new.cap * CodeSize + new.cap * IdSize /\ ida = new.off + new.cap * CodeSize
    BY <1>5, EntrySizeIs DEF Room, IdsAt
  <2> DEFINE A == new.cap * CodeSize
             B == new.cap * IdSize
  <2>4. /\ A \in Nat /\ B \in Nat /\ codb <= A /\ idb <= B
        /\ Room(new) = A + B /\ ida = new.off + A
    BY <2>1, <2>2, <2>3
  <2> HIDE DEF A, B, codb, idb, ida
  <2>5. QED
    BY <1>5, <2>1, <2>4
<1> DEFINE half == Copied(file, new.off, old.off, codb)
<1>8. DOMAIN half = DOMAIN file
  BY SameBytes
<1>9. file' = IF old.off = new.off THEN file ELSE Copied(half, ida, IdsAt(old), idb)
  BY <1>4
<1> HIDE DEF codb, idb, ida
<1>10. half[x] = file[x]
  <2>1. x < new.off \/ x >= new.off + codb
    BY <1>5, <1>6, <1>7
  <2>2. QED
    BY <1>5, <1>7, <2>1, CopiedElsewhere
<1> HIDE DEF half
<1>11. Copied(half, ida, IdsAt(old), idb)[x] = half[x]
  <2>1. x < ida \/ x >= ida + idb
    BY <1>5, <1>6, <1>7
  <2>2. QED
    BY <1>5, <1>7, <1>8, <2>1, CopiedElsewhere
<1>12. QED
  BY <1>9, <1>10, <1>11

\* A thread that reads ahead holds level 1 of its list.
LEMMA Reader ==
  ASSUME LInv, Progress, NEW w \in Worker, at[w] = "has1"
  PROVE  /\ w \in Thread /\ w \notin Adder /\ pc[w] = "lock" /\ no[w] \in List
         /\ \A t \in Adder : (pc[t] \in {"free", "grow", "move", "fill", "unlock"}
                              \/ at[t] = "has1")
                             => job[t].list # no[w]
<1>1. w \in Thread /\ w \notin Adder /\ pc[w] = "lock" /\ no[w] \in List
  BY RolesAssumption DEF Progress, InStep, LInv, LockTypeOK
<1>2. ASSUME NEW t \in Adder, job[t].list = no[w],
             pc[t] \in {"free", "grow", "move", "fill", "unlock"} \/ at[t] = "has1"
      PROVE  FALSE
  <2>1. /\ t \in Thread /\ at[t] \in {"has1", "has2", "want3", "has3"} /\ no[t] = no[w]
    BY <1>2, RolesAssumption DEF Progress, InStep
  <2>2. t \in InLevel1 /\ w \in InLevel1
    BY <1>1, <2>1 DEF InLevel1
  <2>3. QED
    BY <1>1, <2>1, <2>2 DEF LInv, OneOwner
<1>3. QED
  BY <1>1, <1>2

LEMMA ReadsFromSpace ==
  ASSUME LInv, Jobs, Progress, Space, [Next]_vars
  PROVE  ReadsStand
<1> SUFFICES ASSUME NEW w \in Worker, at[w] = "has1"
             PROVE  /\ DOMAIN file' = DOMAIN file
                    /\ lists'[no[w]] = lists[no[w]]
                    /\ \A a \in Region(lists[no[w]]) : file'[a] = file[a]
  BY DEF ReadsStand
<1> DEFINE l == no[w]
<1>1. /\ w \in Thread /\ pc[w] = "lock" /\ l \in List
      /\ \A t \in Adder : (pc[t] \in {"free", "grow", "move", "fill", "unlock"} \/ at[t] = "has1")
                          => job[t].list # l
  BY Reader
<1>2. Region(lists[l]) \subseteq DOMAIN file
  BY <1>1, OwnersFromSpace DEF BytesOwnedOnce
<1>3. CASE file' = file /\ lists' = lists
  BY <1>3
<1>4. ASSUME NEW t \in Thread, StaysInPlace(t) PROVE file' = file /\ lists'[l] = lists[l]
  <2>1. t \in Adder /\ job[t].list # l
    BY <1>1, <1>4 DEF StaysInPlace
  <2>2. QED
    BY <1>1, <1>4, <2>1 DEF StaysInPlace, Space, Placed
<1>5. ASSUME NEW t \in Thread, Remaps(t) PROVE FALSE
  <2>1. t # w /\ at[t] = "has3"
    BY <1>1, <1>5 DEF Remaps
  <2>2. WriterAlone
    BY AloneFromBooks
  <2>3. QED
    BY <1>1, <2>1, <2>2 DEF WriterAlone
<1>6. ASSUME NEW t \in Thread, Moves(t)
      PROVE  /\ DOMAIN file' = DOMAIN file /\ lists'[l] = lists[l]
             /\ \A a \in Region(lists[l]) : file'[a] = file[a]
  <2>1. t \in Adder /\ pc[t] = "move" /\ job[t].list # l
    BY <1>1, <1>6, RolesAssumption DEF Moves, Progress
  <2>2. DOMAIN file' = DOMAIN file
    BY <1>6, SameBytes DEF Moves
  <2>3. lists'[l] = lists[l]
    BY <1>1, <1>6, <2>1 DEF Moves, Space, Placed
  <2>4. Region(dest[t]) \cap Region(lists[l]) = {}
    <3>1. Clear(dest[t].off, Room(dest[t]), lists[l].off, Room(lists[l]))
      BY <1>1, <2>1 DEF Space, Placed, Apart
    <3>2. /\ dest[t].off \in Int /\ Room(dest[t]) \in Int
          /\ lists[l].off \in Int /\ Room(lists[l]) \in Int
      <4>1. ListOK(dest[t]) /\ ListOK(lists[l])
        BY <1>1, <2>1 DEF Space, Placed
      <4>2. QED
        BY <4>1, RoomIs DEF ListOK
    <3>3. (dest[t].off .. dest[t].off + Room(dest[t]) - 1)
            \cap (lists[l].off .. lists[l].off + Room(lists[l]) - 1) = {}
      BY <3>1, <3>2, ClearMeans
    <3>4. QED
      BY <3>3 DEF Region, Room
  <2>5. ASSUME NEW a \in Region(lists[l]) PROVE file'[a] = file[a]
    BY <1>2, <1>6, <2>1, <2>4, <2>5, MovesElsewhere
  <2>6. QED
    BY <2>2, <2>3, <2>5
<1>7. ASSUME NEW t \in Thread, Fills(t)
      PROVE  /\ DOMAIN file' = DOMAIN file /\ lists' = lists
             /\ \A a \in Region(lists[l]) : file'[a] = file[a]
  <2>1. t \in Adder /\ pc[t] = "fill" /\ job[t].list # l /\ JobOK(job[t])
    BY <1>1, <1>7, RolesAssumption DEF Fills, Progress
  <2>2. DOMAIN file' = DOMAIN file /\ lists' = lists
    BY <1>7, SameBytes DEF Fills
  <2>3. Region(L(t)) \cap Region(lists[l]) = {}
    BY <1>1, <2>1, OwnersFromSpace DEF BytesOwnedOnce, L, JobOK
  <2>4. ASSUME NEW a \in Region(lists[l]) PROVE file'[a] = file[a]
    BY <1>2, <1>7, <2>1, <2>3, <2>4, FillsElsewhere
  <2>5. QED
    BY <2>2, <2>4
<1>8. ASSUME NEW sizes \in Merges, Merge(sizes) PROVE FALSE
  BY <1>1, <1>8 DEF Merge, Space, Ahead
<1>9. CASE \/ \E t \in Thread, o \in List : AddEntries(t, o) \/ Resize(t, o)
           \/ \E t \in Thread : \/ Locks(t) \/ Queues(t) \/ Reslots(t) \/ Announces(t)
                                \/ Returns(t) \/ WorkerStep(t) \/ WakesUp(t)
           \/ \E r \in Requests : Clears(r)
           \/ Restarts
           \/ UNCHANGED vars
  <2>1. file' = file /\ lists' = lists
    BY <1>9 DEF AddEntries, Resize, Calls, Locks, Queues, Reslots, Announces, Returns,
                WorkerStep, Takes, Ends, HasRead, WakesUp, Clears, Restarts, vars, store
  <2>2. QED
    BY <2>1
<1>10. QED
  BY <1>4, <1>5, <1>6, <1>7, <1>8, <1>9 DEF Next, ThreadStep, AdderStep, Rests

----------------------------------------------------------------------------
\* The whole argument: the store is in order for as long as nothing is added
\* to lists that were merged.
LEMMA SpaceKeptAlways ==
  ASSUME ~AddToMerged
  PROVE  Spec => [](LInv /\ Jobs /\ Progress /\ Space)
<1>1. Init => LInv /\ Jobs /\ Progress /\ Space
  BY InitSound, InitProgress, InitSpace DEF Init, Jobs
<1>2. (LInv /\ Jobs /\ Progress /\ Space) /\ [Next]_vars => (LInv /\ Jobs /\ Progress /\ Space)'
  <2> SUFFICES ASSUME LInv, Jobs, Progress, Space, [Next]_vars
               PROVE  LInv' /\ Jobs' /\ Progress' /\ Space'
    OBVIOUS
  <2>1. LInv' /\ Jobs'
    BY StepSound, JobsStep, UsesLock
  <2>2. CASE Next
    BY <2>1, <2>2, ProgressStep, SpaceStep DEF LInv
  <2>3. CASE UNCHANGED vars
    BY <2>1, <2>3, SpaceStutter
  <2>4. QED
    BY <2>1, <2>2, <2>3
<1>3. QED
  BY <1>1, <1>2, PTL DEF Spec

\* Lists, the new places of lists that move and the slots that are free never
\* share a byte of the file (allocate_slot, free_slot, update_totsize and
\* resize_locked, OnDiskInvertedLists.cpp:292-334 and 441-566), whatever the threads that
\* add and cut, as long as nothing is added to what merge_from_multiple left.
THEOREM NoByteShared ==
  ASSUME ~AddToMerged
  PROVE  Spec => []BytesOwnedOnce
<1>1. LInv /\ Jobs /\ Progress /\ Space => BytesOwnedOnce
  BY OwnersFromSpace
<1>2. QED
  BY <1>1, SpaceKeptAlways, PTL

\* What a thread that reads ahead has under its eyes stays what and where it is
\* until it lets go of the list (OnDiskInvertedLists.cpp:155-173).
THEOREM ReadersUndisturbed ==
  ASSUME ~AddToMerged
  PROVE  Spec => ReadUndisturbed
<1>1. (LInv /\ Jobs /\ Progress /\ Space) /\ [Next]_vars => [ReadsStand]_vars
  BY ReadsFromSpace
<1>2. QED
  BY <1>1, SpaceKeptAlways, PTL DEF Spec, ReadUndisturbed

=============================================================================
