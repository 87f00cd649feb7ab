------------------------ MODULE ThreadedIndexProofs ------------------------
(***************************************************************************)
(* For every number of sub-indexes, callers and calls: no task of a worker *)
(* outlives the call it belongs to, and no future stays open behind a      *)
(* thread that has ended (the first half, up to NoTaskComesLate, by the    *)
(* invariant IInv of threads, tasks and phases of calls); and searches     *)
(* find each vector that was added, once, under its number (the second, by *)
(* the invariant DeepInv of contents and answers beside it).               *)
(*                                                                         *)
(* The second half first says what sums of sizes are like, which the model *)
(* writes as a recursive function; then what the sub-indexes of a          *)
(* collection hold between them (Holds), that adds, resets and changes of  *)
(* the collection keep it, and that searches find it; then goes through    *)
(* the steps.                                                              *)
(***************************************************************************)
EXTENDS ThreadedIndex, FiniteSetTheorems, SequenceTheorems, WellFoundedInduction, TLAPS

Threads == {"none", "loop", "asleep", "run", "flush", "gone"}
Futures == {"none", "pending", "true", "false", "raised"}

Distinct(s) == \A i, k \in DOMAIN s : s[i] = s[k] => i = k

----------------------------------------------------------------------------
(* The invariant of the workers.                                           *)

WorkerType ==
  /\ queue \in [Worker -> Seq(Task)]
  /\ wantStop \in [Worker -> BOOLEAN]
  /\ thread \in [Worker -> Threads]
  /\ data \in [Worker -> Task \cup {NoTask}]
  /\ future \in [Task -> [Worker -> Futures]]

\* Where the thread is tells what it holds, and whether it was told to stop.
ThreadOK(w) ==
  /\ data[w] # NoTask <=> thread[w] = "run"
  /\ thread[w] \in {"flush", "gone"} => wantStop[w]
  /\ thread[w] = "gone" => queue[w] = <<>>

\* The open futures are those of the tasks in the queue and of the one that
\* runs, and each task is there once.
TasksOnce(w) ==
  /\ Distinct(queue[w])
  /\ data[w] \notin ToSet(queue[w])
  /\ \A t \in Task :
       future[t][w] = "pending" <=> t \in ToSet(queue[w]) \/ data[w] = t

WorkerInv ==
  /\ WorkerType
  /\ \A w \in Worker : ThreadOK(w) /\ TasksOnce(w)

----------------------------------------------------------------------------
(* The invariant of the calls.                                             *)

\* The phases a call goes through, by what was called.
PhasesOf(op) ==
  CASE op = "none" -> {"idle"}
    [] op = "addIndex" -> {"make", "greet", "hello", "after"}
    [] op \in {"removeIndex", "destroy", "halt"} -> {"close", "join", "after"}
    [] op \in {"add", "reset", "post"} -> {"post", "wait", "after"}
    [] op = "search" ->
         IF kind = "split"
         THEN {"make", "greet", "hello", "post", "wait", "close", "join", "after"}
         ELSE {"post", "wait", "after"}
    [] OTHER -> {}

\* Which collections have the call.
KindHas(op) ==
  CASE op = "addIndex" -> kind # "split"
    [] op \in {"removeIndex", "destroy", "add", "reset"} ->
         kind \notin {"split", "plain"}
    [] op \in {"post", "halt"} -> kind = "plain"
    [] op = "search" -> kind # "plain"
    [] OTHER -> TRUE

\* A call is a record with the fields of NoCall.
IsCall(r) ==
  /\ r = [op |-> r.op, ph |-> r.ph, ws |-> r.ws, j |-> r.j, size |-> r.size,
          raised |-> r.raised, got |-> r.got]
  /\ r.ph \in PhasesOf(r.op) /\ KindHas(r.op)
  /\ r.ws \in Seq(Worker) /\ Distinct(r.ws)
  /\ r.j \in Nat /\ (r.op # "none" => r.j >= 1)

\* The workers that may still have work of a call, by their place in it.
Left(r) ==
  {i \in DOMAIN r.ws :
     \/ r.ph \in {"make", "greet", "hello", "post"} /\ i < r.j
     \/ r.ph \in {"wait", "close", "join"} /\ i >= r.j}

\* A call has tasks under way only where it has not waited for them.
FuturesOf(c) ==
  \A w \in Worker :
    /\ future[<<c, "hello">>][w] = "pending" =>
         /\ call[c].ph = "hello" /\ call[c].j \in DOMAIN call[c].ws
         /\ w = call[c].ws[call[c].j]
    /\ future[<<c, "work">>][w] = "pending" =>
         \E i \in Left(call[c]) : w = call[c].ws[i]

\* The workers that a call has seen the end of.
Passed(r) ==
  {i \in DOMAIN r.ws :
     \/ r.ph \in {"close", "join"} /\ i < r.j
     \/ r.ph = "after" /\ (r.op \in {"removeIndex", "destroy"} \/ kind = "split")}

\* What a call is about is in the collection, or will be; what it has closed is
\* at its end.
WorkersOf(c) ==
  LET r == call[c] IN
  /\ \A i \in Passed(r) : thread[r.ws[i]] = "gone"
  /\ r.op \in {"addIndex", "removeIndex"} => Len(r.ws) = 1
  /\ r.op = "addIndex" => ~Contains(indices, r.ws[1])
  /\ r.op \notin {"addIndex", "none"} /\ kind # "split" =>
       \A i \in DOMAIN r.ws : Contains(indices, r.ws[i])
  /\ r.op = "destroy" => r.ws = indices

CallOK(c) == IsCall(call[c]) /\ FuturesOf(c) /\ WorkersOf(c)

\* Which calls go on side by side: searches, and tasks that are posted.
Compatible(c, d) ==
  IF kind = "plain"
  THEN /\ "post" \in {call[c].op, call[d].op}
       /\ "addIndex" \notin {call[c].op, call[d].op}
  ELSE call[c].op = "search" /\ call[d].op = "search" /\ kind # "split"

\* A thread that lives is that of an index of the collection, or of one that
\* a call is about.
Owned(w) ==
  \/ thread[w] \in {"none", "gone"}
  \/ Contains(indices, w)
  \/ \E c \in Open : Contains(call[c].ws, w)

CallsOK ==
  /\ call = [c \in Caller |-> call[c]]
  /\ \A c \in Caller : CallOK(c)
  /\ \A c, d \in Open : c # d => Compatible(c, d)

IInv ==
  /\ WorkerInv
  /\ indices \in Seq(Worker) /\ Distinct(indices)
  /\ CallsOK
  /\ \A w \in Worker : Owned(w)
----------------------------------------------------------------------------
(* Sequences without repetition.                                           *)

LEMMA AppendSet ==
  ASSUME NEW T, NEW s \in Seq(T), NEW t \in T
  PROVE  /\ Append(s, t) \in Seq(T)
         /\ ToSet(Append(s, t)) = ToSet(s) \cup {t}
         /\ Distinct(s) /\ t \notin ToSet(s) => Distinct(Append(s, t))
<1>1. /\ Append(s, t) \in Seq(T) /\ DOMAIN s = 1 .. Len(s) /\ Len(s) \in Nat
      /\ DOMAIN Append(s, t) = 1 .. Len(s) + 1
      /\ \A i \in 1 .. Len(s) : Append(s, t)[i] = s[i]
      /\ Append(s, t)[Len(s) + 1] = t
  OBVIOUS
<1>2. ToSet(Append(s, t)) = ToSet(s) \cup {t}
  <2>1. ASSUME NEW x \in ToSet(Append(s, t)) PROVE x \in ToSet(s) \cup {t}
    <3>1. PICK i \in 1 .. Len(s) + 1 : x = Append(s, t)[i]
      BY <1>1 DEF ToSet
    <3>2. i \in 1 .. Len(s) \/ i = Len(s) + 1
      BY <1>1
    <3>3. QED
      BY <1>1, <3>1, <3>2 DEF ToSet
  <2>2. ASSUME NEW x \in ToSet(s) \cup {t} PROVE x \in ToSet(Append(s, t))
    <3>1. CASE x = t
      <4>1. Len(s) + 1 \in 1 .. Len(s) + 1
        BY <1>1
      <4>2. QED
        BY <1>1, <3>1, <4>1 DEF ToSet
    <3>2. CASE x # t
      <4>1. PICK i \in 1 .. Len(s) : x = s[i]
        BY <1>1, <3>2 DEF ToSet
      <4>2. i \in 1 .. Len(s) + 1 /\ Append(s, t)[i] = x
        BY <1>1, <4>1
      <4>3. QED
        BY <1>1, <4>2 DEF ToSet
    <3>3. QED
      BY <3>1, <3>2
  <2>3. QED
    BY <2>1, <2>2
<1>3. ASSUME Distinct(s), t \notin ToSet(s) PROVE Distinct(Append(s, t))
  <2> SUFFICES ASSUME NEW i \in 1 .. Len(s) + 1, NEW k \in 1 .. Len(s) + 1,
                      Append(s, t)[i] = Append(s, t)[k]
               PROVE  i = k
    BY <1>1 DEF Distinct
  <2>1. \A n \in 1 .. Len(s) : s[n] # t
    BY <1>1, <1>3 DEF ToSet
  <2>2. CASE i = Len(s) + 1 \/ k = Len(s) + 1
    BY <1>1, <2>1, <2>2
  <2>3. CASE i \in 1 .. Len(s) /\ k \in 1 .. Len(s)
    BY <1>1, <1>3, <2>3 DEF Distinct
  <2>4. QED
    BY <1>1, <2>2, <2>3
<1>4. QED
  BY <1>1, <1>2, <1>3

LEMMA TailSet ==
  ASSUME NEW T, NEW s \in Seq(T), s # <<>>, Distinct(s)
  PROVE  /\ Head(s) \in T /\ Tail(s) \in Seq(T) /\ Distinct(Tail(s))
         /\ Head(s) \notin ToSet(Tail(s))
         /\ ToSet(s) = ToSet(Tail(s)) \cup {Head(s)}
<1>1. /\ Head(s) \in T /\ Tail(s) \in Seq(T) /\ DOMAIN s = 1 .. Len(s)
      /\ Len(s) \in Nat /\ Len(s) >= 1 /\ Head(s) = s[1]
      /\ DOMAIN Tail(s) = 1 .. Len(s) - 1
      /\ \A i \in 1 .. Len(s) - 1 : Tail(s)[i] = s[i + 1]
  OBVIOUS
<1>2. Distinct(Tail(s))
  <2> SUFFICES ASSUME NEW i \in 1 .. Len(s) - 1, NEW k \in 1 .. Len(s) - 1,
                      Tail(s)[i] = Tail(s)[k]
               PROVE  i = k
    BY <1>1 DEF Distinct
  <2>1. i + 1 \in 1 .. Len(s) /\ k + 1 \in 1 .. Len(s) /\ s[i + 1] = s[k + 1]
    BY <1>1
  <2>2. i + 1 = k + 1
    BY <1>1, <2>1 DEF Distinct
  <2>3. QED
    BY <2>2
<1>3. Head(s) \notin ToSet(Tail(s))
  <2> SUFFICES ASSUME NEW i \in 1 .. Len(s) - 1, Tail(s)[i] = s[1] PROVE FALSE
    BY <1>1 DEF ToSet
  <2>1. i + 1 \in 1 .. Len(s) /\ 1 \in 1 .. Len(s) /\ s[i + 1] = s[1]
    BY <1>1
  <2>2. QED
    BY <1>1, <2>1 DEF Distinct
<1>4. ToSet(s) = ToSet(Tail(s)) \cup {Head(s)}
  <2>1. ASSUME NEW x \in ToSet(s) PROVE x \in ToSet(Tail(s)) \cup {Head(s)}
    <3>1. PICK i \in 1 .. Len(s) : x = s[i]
      BY <1>1 DEF ToSet
    <3>2. CASE i # 1
      <4>1. i - 1 \in 1 .. Len(s) - 1 /\ Tail(s)[i - 1] = s[i]
        BY <1>1, <3>2
      <4>2. QED
        BY <1>1, <3>1, <4>1 DEF ToSet
    <3>3. QED
      BY <1>1, <3>1, <3>2
  <2>2. ASSUME NEW x \in ToSet(Tail(s)) PROVE x \in ToSet(s)
    <3>1. PICK i \in 1 .. Len(s) - 1 : x = Tail(s)[i]
      BY <1>1 DEF ToSet
    <3>2. i + 1 \in 1 .. Len(s) /\ x = s[i + 1]
      BY <1>1, <3>1
    <3>3. QED
      BY <1>1, <3>2 DEF ToSet
  <2>3. Head(s) \in ToSet(s)
    <3>1. 1 \in 1 .. Len(s)
      BY <1>1
    <3>2. QED
      BY <1>1, <3>1 DEF ToSet
  <2>4. QED
    BY <2>1, <2>2, <2>3
<1>5. QED
  BY <1>1, <1>2, <1>3, <1>4
----------------------------------------------------------------------------
(* What the workers do.                                                    *)

\* No future is opened and no thread begins or comes back.
Quiet ==
  /\ \A t \in Task, w \in Worker :
       future'[t][w] = "pending" => future[t][w] = "pending"
  /\ \A w \in Worker :
       /\ thread[w] = "gone" => thread'[w] = "gone"
       /\ thread[w] \in {"none", "gone"} => thread'[w] \in {"none", "gone"}

\* A step that leaves w alone leaves what holds of it.
LEMMA OtherWorker ==
  ASSUME NEW v \in Worker, ThreadOK(v), TasksOnce(v),
         queue'[v] = queue[v], wantStop'[v] = wantStop[v],
         thread'[v] = thread[v], data'[v] = data[v],
         \A t \in Task : future'[t][v] = future[t][v]
  PROVE  ThreadOK(v)' /\ TasksOnce(v)'
BY DEF ThreadOK, TasksOnce

\* A thread that only moves on.
LEMMA GoesWorker ==
  ASSUME WorkerInv, NEW w \in Worker,
         Sleeps(w) \/ Spurious(w) \/ Leaves(w) \/ Ends(w)
  PROVE  WorkerInv' /\ Quiet
<1> USE DEF WorkerInv
<1>1. /\ UNCHANGED <<queue, wantStop, data, future>>
      /\ \E from, to \in Threads \ {"none", "run"} : Goes(w, from, to)
      /\ thread[w] # "gone" /\ thread[w] \notin {"none", "run"}
      /\ thread'[w] \in {"loop", "asleep"} \/ (thread'[w] = "flush" /\ wantStop[w])
         \/ (thread'[w] = "gone" /\ wantStop[w] /\ queue[w] = <<>>)
  BY DEF Sleeps, Spurious, Leaves, Ends, Goes, Threads, WorkerType, ThreadOK
<1>2. /\ thread' \in [Worker -> Threads]
      /\ \A v \in Worker \ {w} : thread'[v] = thread[v]
  BY <1>1 DEF Goes, WorkerType
<1>3. WorkerType'
  BY <1>1, <1>2 DEF WorkerType
<1>4. ASSUME NEW v \in Worker PROVE ThreadOK(v)' /\ TasksOnce(v)'
  <2>1. CASE v # w
    BY <1>1, <1>2, <2>1, OtherWorker
  <2>2. CASE v = w
    BY <1>1, <2>2 DEF ThreadOK, TasksOnce
  <2>3. QED
    BY <2>1, <2>2
<1>5. Quiet
  BY <1>1, <1>2 DEF Quiet
<1>6. QED
  BY <1>3, <1>4, <1>5

\* A thread that takes the first task of its queue.
LEMMA TakesWorker ==
  ASSUME WorkerInv, NEW w \in Worker, Takes(w) \/ Flushes(w)
  PROVE  WorkerInv' /\ Quiet
<1> USE DEF WorkerInv
<1>1. /\ queue[w] # <<>> /\ thread[w] \in {"loop", "flush"}
      /\ thread' = [thread EXCEPT ![w] = "run"]
      /\ data' = [data EXCEPT ![w] = Head(queue[w])]
      /\ queue' = [queue EXCEPT ![w] = Tail(@)]
      /\ wantStop' = wantStop /\ future' = future
  BY DEF Takes, Flushes, Goes
<1>2. /\ queue[w] \in Seq(Task) /\ Distinct(queue[w]) /\ data[w] = NoTask
  BY <1>1 DEF WorkerType, TasksOnce, ThreadOK
<1>3. /\ Head(queue[w]) \in Task /\ Tail(queue[w]) \in Seq(Task)
      /\ Distinct(Tail(queue[w])) /\ Head(queue[w]) \notin ToSet(Tail(queue[w]))
      /\ ToSet(queue[w]) = ToSet(Tail(queue[w])) \cup {Head(queue[w])}
  BY <1>1, <1>2, TailSet
<1>4. WorkerType'
  BY <1>1, <1>3 DEF WorkerType, Threads
<1>5. ASSUME NEW v \in Worker PROVE ThreadOK(v)' /\ TasksOnce(v)'
  <2>1. CASE v # w
    BY <1>1, <2>1, OtherWorker DEF WorkerType
  <2>2. CASE v = w
    <3>1. /\ queue'[w] = Tail(queue[w]) /\ data'[w] = Head(queue[w])
          /\ thread'[w] = "run"
      BY <1>1 DEF WorkerType
    <3>2. ThreadOK(w)'
      BY <1>3, <3>1, TaskAssumption DEF ThreadOK
    <3>3. TasksOnce(w)'
      BY <1>1, <1>2, <1>3, <3>1, TaskAssumption DEF TasksOnce
    <3>4. QED
      BY <2>2, <3>2, <3>3
  <2>3. QED
    BY <2>1, <2>2
<1>6. Quiet
  BY <1>1 DEF Quiet, WorkerType
<1>7. QED
  BY <1>4, <1>5, <1>6

LEMMA MainStepWorker ==
  ASSUME WorkerInv, NEW w \in Worker, MainStep(w) \/ Spurious(w)
  PROVE  WorkerInv' /\ Quiet
BY GoesWorker, TakesWorker DEF MainStep

\* The task at hand is done, and its future says so.
LEMMA RunsWorker ==
  ASSUME WorkerInv, NEW w \in Worker, NEW outcome \in Futures \ {"pending"},
         Runs(w, outcome)
  PROVE  WorkerInv' /\ Quiet /\ data[w] \in Task
<1> USE DEF WorkerInv
<1>1. thread[w] = "run" /\ data[w] \in Task
  BY DEF Runs, ThreadOK, WorkerType
<1>2. /\ thread' = [thread EXCEPT ![w] = IF wantStop[w] THEN "flush" ELSE "loop"]
      /\ future' = [future EXCEPT ![data[w]][w] = outcome]
      /\ data' = [data EXCEPT ![w] = NoTask]
      /\ queue' = queue /\ wantStop' = wantStop
  BY DEF Runs
<1>3. WorkerType'
  BY <1>1, <1>2 DEF WorkerType, Threads
<1>4. /\ \A t \in Task, v \in Worker :
           future'[t][v] = IF t = data[w] /\ v = w THEN outcome ELSE future[t][v]
      /\ \A v \in Worker : v # w => thread'[v] = thread[v] /\ data'[v] = data[v]
      /\ data'[w] = NoTask
      /\ thread'[w] = IF wantStop[w] THEN "flush" ELSE "loop"
  BY <1>1, <1>2 DEF WorkerType
<1>5. ASSUME NEW v \in Worker PROVE ThreadOK(v)' /\ TasksOnce(v)'
  <2>1. CASE v # w
    BY <1>2, <1>4, <2>1, OtherWorker
  <2>2. CASE v = w
    <3>1. ThreadOK(w)'
      BY <1>2, <1>4 DEF ThreadOK
    <3>2. TasksOnce(w)'
      <4>1. NoTask \notin ToSet(queue[w])
        BY TaskAssumption DEF ToSet, WorkerType
      <4>2. QED
        BY <1>1, <1>2, <1>4, <4>1, TaskAssumption DEF TasksOnce
    <3>3. QED
      BY <2>2, <3>1, <3>2
  <2>3. QED
    BY <2>1, <2>2
<1>6. Quiet
  BY <1>1, <1>4 DEF Quiet
<1>7. QED
  BY <1>1, <1>3, <1>5, <1>6

LEMMA NotifiedWorker ==
  ASSUME WorkerInv, NEW w \in Worker, thread' = Notified(w)
  PROVE  /\ thread' \in [Worker -> Threads]
         /\ \A v \in Worker : v # w => thread'[v] = thread[v]
         /\ thread'[w] = IF thread[w] = "asleep" THEN "loop" ELSE thread[w]
BY DEF Notified, WorkerInv, WorkerType, Threads

LEMMA StopWorker ==
  ASSUME WorkerInv, NEW w \in Worker, Stop(w)
  PROVE  WorkerInv' /\ Quiet
<1> USE DEF WorkerInv
<1>1. /\ thread' \in [Worker -> Threads]
      /\ \A v \in Worker : v # w => thread'[v] = thread[v]
      /\ thread'[w] = IF thread[w] = "asleep" THEN "loop" ELSE thread[w]
  BY NotifiedWorker DEF Stop
<1>2. /\ wantStop' = [wantStop EXCEPT ![w] = TRUE]
      /\ queue' = queue /\ data' = data /\ future' = future
  BY DEF Stop
<1>3. WorkerType'
  BY <1>1, <1>2 DEF WorkerType
<1>4. ASSUME NEW v \in Worker PROVE ThreadOK(v)' /\ TasksOnce(v)'
  <2>1. CASE v # w
    BY <1>1, <1>2, <2>1, OtherWorker DEF WorkerType
  <2>2. CASE v = w
    BY <1>1, <1>2, <2>2 DEF ThreadOK, TasksOnce, WorkerType
  <2>3. QED
    BY <2>1, <2>2
<1>5. Quiet
  BY <1>1, <1>2 DEF Quiet
<1>6. QED
  BY <1>3, <1>4, <1>5

LEMMA StartWorker ==
  ASSUME WorkerInv, NEW w \in Worker, Start(w)
  PROVE  /\ WorkerInv' /\ future' = future
         /\ \A v \in Worker : v # w => thread'[v] = thread[v]
<1> USE DEF WorkerInv
<1>1. /\ thread[w] \in {"none", "gone"}
      /\ thread' = [thread EXCEPT ![w] = "loop"]
      /\ wantStop' = [wantStop EXCEPT ![w] = FALSE]
      /\ queue' = queue /\ data' = data /\ future' = future
  BY DEF Start
<1>2. WorkerType'
  BY <1>1 DEF WorkerType, Threads
<1>3. ASSUME NEW v \in Worker PROVE ThreadOK(v)' /\ TasksOnce(v)'
  <2>1. CASE v # w
    BY <1>1, <2>1, OtherWorker DEF WorkerType
  <2>2. CASE v = w
    BY <1>1, <2>2 DEF ThreadOK, TasksOnce, WorkerType
  <2>3. QED
    BY <2>1, <2>2
<1>4. QED
  BY <1>1, <1>2, <1>3 DEF WorkerType

\* A task whose future is not open is added.
LEMMA AddWorker ==
  ASSUME WorkerInv, NEW w \in Worker, NEW t \in Task,
         future[t][w] # "pending", Add(w, t)
  PROVE  /\ WorkerInv'
         /\ \A u \in Task, v \in Worker :
              future'[u][v] = "pending" => future[u][v] = "pending" \/ (u = t /\ v = w)
         /\ \A v \in Worker :
              /\ thread[v] = "gone" => thread'[v] = "gone"
              /\ thread[v] \in {"none", "gone"} => thread'[v] \in {"none", "gone"}
<1> USE DEF WorkerInv
<1>1. CASE wantStop[w] /\ future' = [future EXCEPT ![t][w] = "false"]
           /\ UNCHANGED <<queue, wantStop, thread, data>>
  <2>1. /\ WorkerType'
        /\ \A u \in Task, v \in Worker :
             future'[u][v] = IF u = t /\ v = w THEN "false" ELSE future[u][v]
    BY <1>1 DEF WorkerType, Futures
  <2>2. ASSUME NEW v \in Worker PROVE ThreadOK(v)' /\ TasksOnce(v)'
    BY <1>1, <2>1 DEF ThreadOK, TasksOnce
  <2>3. QED
    BY <1>1, <2>1, <2>2
<1>2. CASE /\ ~wantStop[w] /\ queue' = [queue EXCEPT ![w] = Append(@, t)]
           /\ future' = [future EXCEPT ![t][w] = "pending"]
           /\ thread' = Notified(w) /\ UNCHANGED <<wantStop, data>>
  <2>1. /\ thread' \in [Worker -> Threads]
        /\ \A v \in Worker : v # w => thread'[v] = thread[v]
        /\ thread'[w] = IF thread[w] = "asleep" THEN "loop" ELSE thread[w]
    BY <1>2, NotifiedWorker
  <2>2. queue[w] \in Seq(Task) /\ t \notin ToSet(queue[w]) /\ data[w] # t
    BY DEF WorkerType, TasksOnce
  <2>3. /\ Append(queue[w], t) \in Seq(Task)
        /\ ToSet(Append(queue[w], t)) = ToSet(queue[w]) \cup {t}
        /\ Distinct(Append(queue[w], t))
    BY <2>2, AppendSet DEF TasksOnce
  <2>4. WorkerType'
    BY <1>2, <2>1, <2>3 DEF WorkerType, Futures
  <2>5. /\ \A u \in Task, v \in Worker :
             future'[u][v] = IF u = t /\ v = w THEN "pending" ELSE future[u][v]
        /\ queue'[w] = Append(queue[w], t)
        /\ \A v \in Worker : v # w => queue'[v] = queue[v]
    BY <1>2 DEF WorkerType
  <2>6. ASSUME NEW v \in Worker PROVE ThreadOK(v)' /\ TasksOnce(v)'
    <3>1. CASE v # w
      BY <1>2, <2>1, <2>5, <3>1, OtherWorker
    <3>2. CASE v = w
      <4>1. ThreadOK(w)'
        BY <1>2, <2>1 DEF ThreadOK
      <4>2. TasksOnce(w)'
        BY <1>2, <2>2, <2>3, <2>5 DEF TasksOnce
      <4>3. QED
        BY <3>2, <4>1, <4>2
    <3>3. QED
      BY <3>1, <3>2
  <2>7. QED
    BY <2>1, <2>4, <2>5, <2>6
<1>3. QED
  BY <1>1, <1>2 DEF Add
----------------------------------------------------------------------------
(* What the calls do.                                                      *)

\* Nothing of the call d changed but its results.
SameCall(d) ==
  /\ call'[d].op = call[d].op /\ call'[d].ph = call[d].ph
  /\ call'[d].ws = call[d].ws /\ call'[d].j = call[d].j

LEMMA TaskOf == \A c \in Caller : <<c, "hello">> \in Task /\ <<c, "work">> \in Task
BY CallerAssumption

LEMMA TaskIs == \A t \in Task : \E c \in Caller, x \in {"hello", "work"} : t = <<c, x>>
<1>1. ASSUME NEW t \in Task
      PROVE  t[1] \in Caller /\ t[2] \in {"hello", "work"} /\ t = <<t[1], t[2]>>
  BY <1>1, CallerAssumption
<1>2. QED
  BY <1>1

LEMMA OpenOp ==
  ASSUME NEW c \in Caller, IsCall(call[c])
  PROVE  c \in Open <=> call[c].op # "none"
BY DEF IsCall, PhasesOf, Open

\* A step of others leaves what holds of a call.
LEMMA OtherCall ==
  ASSUME NEW d \in Caller, CallOK(d), SameCall(d), IsCall(call'[d]), kind' = kind,
         \A x \in {"hello", "work"}, w \in Worker :
           future'[<<d, x>>][w] = "pending" => future[<<d, x>>][w] = "pending",
         \/ call[d].op = "none"
         \/ /\ indices' = indices
            /\ \A w \in Worker : thread[w] = "gone" => thread'[w] = "gone"
  PROVE  CallOK(d)'
<1> USE DEF CallOK
<1>1. IsCall(call[d])'
  BY DEF IsCall, PhasesOf, KindHas
<1>2. FuturesOf(d)'
  BY DEF FuturesOf, SameCall, Left
<1>3. WorkersOf(d)'
  <2>1. CASE call[d].op = "none"
    <3>1. call'[d].op = "none" /\ call'[d].ph = "idle"
      BY <2>1 DEF IsCall, PhasesOf, SameCall
    <3>2. QED
      BY <3>1 DEF WorkersOf, Passed
  <2>2. CASE /\ indices' = indices
             /\ \A w \in Worker : thread[w] = "gone" => thread'[w] = "gone"
    <3>1. /\ Passed(call[d])' = Passed(call[d])
          /\ Passed(call[d]) \subseteq DOMAIN call[d].ws
          /\ \A i \in DOMAIN call[d].ws : call[d].ws[i] \in Worker
      BY DEF Passed, SameCall, IsCall
    <3>2. QED
      BY <2>2, <3>1 DEF WorkersOf, SameCall
  <2>3. QED
    BY <2>1, <2>2
<1>4. QED
  BY <1>1, <1>2, <1>3

\* A step of a worker.
LEMMA BackgroundStep ==
  ASSUME IInv, WorkerInv', Quiet, kind' = kind, indices' = indices,
         call' = [d \in Caller |-> call'[d]],
         \A d \in Caller : SameCall(d) /\ IsCall(call'[d])
  PROVE  IInv'
<1> USE DEF IInv, CallsOK
<1>1. ASSUME NEW d \in Caller PROVE CallOK(d)'
  BY <1>1, OtherCall, TaskOf DEF Quiet
<1>2. Open' = Open
  BY DEF Open, SameCall
<1>3. ASSUME NEW c \in Open', NEW d \in Open', c # d PROVE Compatible(c, d)'
  <2>1. Compatible(c, d) /\ c \in Caller /\ d \in Caller
    BY <1>2, <1>3 DEF Open
  <2>2. QED
    BY <2>1 DEF Compatible, SameCall
<1>4. ASSUME NEW w \in Worker PROVE Owned(w)'
  <2>1. Owned(w) /\ Open \subseteq Caller
    BY DEF Open
  <2>2. QED
    BY <1>2, <2>1 DEF Owned, Quiet, SameCall
<1>5. QED
  BY <1>1, <1>3, <1>4

\* A step of a call that goes on.
LEMMA CallGoesOn ==
  ASSUME IInv, NEW c \in Caller, WorkerInv', kind' = kind, indices' = indices,
         call' = [d \in Caller |-> call'[d]],
         \A d \in Caller \ {c} : call'[d] = call[d],
         call'[c].op = call[c].op, call'[c].ws = call[c].ws,
         c \in Open, CallOK(c)',
         \A d \in Caller \ {c}, x \in {"hello", "work"}, w \in Worker :
           future'[<<d, x>>][w] = "pending" => future[<<d, x>>][w] = "pending",
         \/ Open = {c}
         \/ \A w \in Worker : thread[w] = "gone" => thread'[w] = "gone",
         \A w \in Worker :
           \/ thread[w] \in {"none", "gone"} => thread'[w] \in {"none", "gone"}
           \/ Contains(call[c].ws, w)
  PROVE  IInv'
<1> USE DEF IInv, CallsOK
<1>1. ASSUME NEW d \in Caller, d # c PROVE CallOK(d)'
  <2>1. CallOK(d) /\ SameCall(d) /\ IsCall(call'[d])
    BY <1>1 DEF SameCall, CallOK
  <2>2. \/ call[d].op = "none"
        \/ \A w \in Worker : thread[w] = "gone" => thread'[w] = "gone"
    <3>1. CASE Open = {c}
      BY <1>1, <2>1, <3>1, OpenOp DEF CallOK
    <3>2. QED
      BY <3>1
  <2>3. QED
    BY <1>1, <2>1, <2>2, OtherCall
<1>2. \A d \in Caller : CallOK(d)'
  BY <1>1
<1>3. Open' = Open
  <2>1. c \in Open'
    <3>1. call[c].op # "none" /\ IsCall(call[c])'
      BY OpenOp DEF CallOK
    <3>2. call'[c].ph # "idle"
      BY <3>1 DEF IsCall, PhasesOf
    <3>3. QED
      BY <3>2 DEF Open
  <2>2. \A d \in Caller \ {c} : d \in Open' <=> d \in Open
    BY DEF Open
  <2>3. QED
    BY <2>1, <2>2 DEF Open
<1>4. ASSUME NEW b \in Open', NEW d \in Open', b # d PROVE Compatible(b, d)'
  <2>1. Compatible(b, d) /\ b \in Caller /\ d \in Caller
    BY <1>3, <1>4 DEF Open
  <2>2. call'[b].op = call[b].op /\ call'[d].op = call[d].op
    BY <2>1
  <2>3. QED
    BY <2>1, <2>2 DEF Compatible
<1>5. ASSUME NEW w \in Worker PROVE Owned(w)'
  <2>1. Owned(w) /\ \A d \in Open : call'[d].ws = call[d].ws
    BY DEF Open
  <2>2. QED
    BY <1>3, <2>1 DEF Owned
<1>6. QED
  BY <1>2, <1>4, <1>5

\* The record of a call that moves on.
LEMMA CallRecord ==
  ASSUME CallsOK, NEW c \in Caller,
         NEW ph, NEW j \in Nat, NEW raised,
         ph \in PhasesOf(call[c].op), call[c].op # "none" => j >= 1,
         call' = [call EXCEPT ![c].raised = raised, ![c].ph = ph, ![c].j = j]
  PROVE  /\ call' = [d \in Caller |-> call'[d]]
         /\ \A d \in Caller \ {c} : call'[d] = call[d]
         /\ call'[c].op = call[c].op /\ call'[c].ws = call[c].ws
         /\ call'[c].ph = ph /\ call'[c].j = j
         /\ IsCall(call'[c])
<1>1. /\ call = [d \in Caller |-> call[d]]
      /\ call[c] = [op |-> call[c].op, ph |-> call[c].ph, ws |-> call[c].ws,
                    j |-> call[c].j, size |-> call[c].size,
                    raised |-> call[c].raised, got |-> call[c].got]
  BY DEF CallsOK, CallOK, IsCall
<1>2. call'[c] = [op |-> call[c].op, ph |-> ph, ws |-> call[c].ws, j |-> j,
                  size |-> call[c].size, raised |-> raised, got |-> call[c].got]
  BY <1>1
<1>3. IsCall(call'[c])
  BY <1>2 DEF CallsOK, CallOK, IsCall
<1>4. QED
  BY <1>1, <1>2, <1>3

\* ... and of one that only enters another phase, or goes on to a worker.
LEMMA ToRecord ==
  ASSUME CallsOK, NEW c \in Caller, NEW ph, ph \in PhasesOf(call[c].op), To(c, ph)
  PROVE  /\ call' = [d \in Caller |-> call'[d]]
         /\ \A d \in Caller \ {c} : call'[d] = call[d]
         /\ call'[c].op = call[c].op /\ call'[c].ws = call[c].ws
         /\ call'[c].ph = ph /\ call'[c].j = call[c].j
         /\ IsCall(call'[c])
<1>1. /\ call = [d \in Caller |-> call[d]] /\ IsCall(call[c])
      /\ call[c] = [op |-> call[c].op, ph |-> call[c].ph, ws |-> call[c].ws,
                    j |-> call[c].j, size |-> call[c].size,
                    raised |-> call[c].raised, got |-> call[c].got]
  BY DEF CallsOK, CallOK, IsCall
<1>2. call' = [call EXCEPT ![c].raised = call[c].raised, ![c].ph = ph, ![c].j = call[c].j]
  BY <1>1 DEF To
<1>3. call[c].j \in Nat /\ (call[c].op # "none" => call[c].j >= 1)
  BY <1>1 DEF IsCall
<1>4. QED
  BY <1>2, <1>3, CallRecord

LEMMA NextRecord ==
  ASSUME CallsOK, NEW c \in Caller, NEW ph, NEW j \in Nat,
         ph \in PhasesOf(call[c].op), j >= 1,
         call' = [call EXCEPT ![c].ph = ph, ![c].j = j]
  PROVE  /\ call' = [d \in Caller |-> call'[d]]
         /\ \A d \in Caller \ {c} : call'[d] = call[d]
         /\ call'[c].op = call[c].op /\ call'[c].ws = call[c].ws
         /\ call'[c].ph = ph /\ call'[c].j = j
         /\ IsCall(call'[c])
<1>1. /\ call = [d \in Caller |-> call[d]]
      /\ call[c] = [op |-> call[c].op, ph |-> call[c].ph, ws |-> call[c].ws,
                    j |-> call[c].j, size |-> call[c].size,
                    raised |-> call[c].raised, got |-> call[c].got]
  BY DEF CallsOK, CallOK, IsCall
<1>2. call' = [call EXCEPT ![c].raised = call[c].raised, ![c].ph = ph, ![c].j = j]
  BY <1>1
<1>3. QED
  BY <1>2, CallRecord

\* A call that is at a worker.
LEMMA AtWorker ==
  ASSUME IInv, NEW c \in Caller, NEW ph, At(c, ph), ph # "idle"
  PROVE  /\ c \in Open /\ CallOK(c) /\ call[c].op # "none" /\ call[c].ph = ph
         /\ call[c].j \in Nat \ {0} /\ call[c].j \in DOMAIN call[c].ws
         /\ call[c].ws \in Seq(Worker) /\ Distinct(call[c].ws)
         /\ DOMAIN call[c].ws = 1 .. Len(call[c].ws) /\ Len(call[c].ws) \in Nat
         /\ W(c) = call[c].ws[call[c].j] /\ W(c) \in Worker
         /\ Contains(call[c].ws, W(c))
<1>1. /\ CallOK(c) /\ IsCall(call[c])
  BY DEF IInv, CallsOK, CallOK
<1>2. c \in Open /\ call[c].op # "none" /\ call[c].ph = ph
  BY <1>1, OpenOp DEF At, Open
<1>3. /\ call[c].ws \in Seq(Worker) /\ Distinct(call[c].ws)
      /\ DOMAIN call[c].ws = 1 .. Len(call[c].ws) /\ Len(call[c].ws) \in Nat
      /\ call[c].j \in Nat \ {0} /\ call[c].j <= Len(call[c].ws)
  BY <1>1, <1>2 DEF IsCall, At
<1>4. call[c].j \in 1 .. Len(call[c].ws)
  BY <1>3
<1>5. QED
  BY <1>1, <1>2, <1>3, <1>4 DEF W, Contains

\* Only searches and tasks that are posted have others beside them.
LEMMA AloneCall ==
  ASSUME IInv, NEW c \in Open,
         \/ call[c].op \in {"addIndex", "removeIndex", "destroy", "add", "reset"}
         \/ kind = "split"
  PROVE  Open = {c}
<1>1. ASSUME NEW d \in Open, d # c PROVE FALSE
  <2>1. Compatible(c, d) /\ c \in Caller /\ IsCall(call[c])
    BY <1>1 DEF IInv, CallsOK, CallOK, Open
  <2>2. QED
    BY <2>1 DEF Compatible, IsCall, KindHas
<1>2. QED
  BY <1>1
----------------------------------------------------------------------------
LEMMA MakesStep == ASSUME IInv, NEW c \in Caller, Makes(c) PROVE IInv'
<1>1. /\ At(c, "make") /\ Start(W(c)) /\ To(c, "greet")
      /\ kind' = kind /\ indices' = indices
  BY DEF Makes, topVars
<1>2. /\ c \in Open /\ CallOK(c) /\ call[c].op # "none" /\ call[c].ph = "make"
      /\ call[c].j \in Nat \ {0}
      /\ W(c) \in Worker /\ Contains(call[c].ws, W(c))
  BY <1>1, AtWorker
<1>3. /\ call' = [d \in Caller |-> call'[d]]
      /\ \A d \in Caller \ {c} : call'[d] = call[d]
      /\ call'[c].op = call[c].op /\ call'[c].ws = call[c].ws
      /\ call'[c].ph = "greet" /\ call'[c].j = call[c].j
      /\ IsCall(call'[c])
  <2>1. "greet" \in PhasesOf(call[c].op)
    BY <1>2 DEF CallOK, IsCall, PhasesOf
  <2>2. QED
    BY <1>1, <1>2, <2>1, ToRecord DEF IInv
<1>4. /\ WorkerInv' /\ future' = future
      /\ \A v \in Worker : v # W(c) => thread'[v] = thread[v]
  BY <1>1, <1>2, StartWorker DEF IInv
<1>5. Open = {c}
  BY <1>2, AloneCall DEF CallOK, IsCall, PhasesOf
<1>6. CallOK(c)'
  <2>1. FuturesOf(c)'
    BY <1>2, <1>3, <1>4 DEF CallOK, FuturesOf, Left
  <2>2. WorkersOf(c)'
    BY <1>1, <1>2, <1>3 DEF CallOK, WorkersOf, Passed
  <2>3. IsCall(call[c])'
    BY <1>1, <1>3 DEF IsCall, PhasesOf, KindHas
  <2>4. QED
    BY <2>1, <2>2, <2>3 DEF CallOK
<1>7. QED
  BY <1>1, <1>2, <1>3, <1>4, <1>5, <1>6, CallGoesOn

LEMMA GreetsStep == ASSUME IInv, NEW c \in Caller, Greets(c) PROVE IInv'
<1>1. /\ At(c, "greet") /\ Add(W(c), <<c, "hello">>) /\ To(c, "hello")
      /\ kind' = kind /\ indices' = indices
  BY DEF Greets, topVars
<1>2. /\ c \in Open /\ CallOK(c) /\ call[c].op # "none" /\ call[c].ph = "greet"
      /\ call[c].j \in Nat \ {0} /\ call[c].j \in DOMAIN call[c].ws
      /\ W(c) = call[c].ws[call[c].j] /\ W(c) \in Worker
  BY <1>1, AtWorker
<1>3. /\ call' = [d \in Caller |-> call'[d]]
      /\ \A d \in Caller \ {c} : call'[d] = call[d]
      /\ call'[c].op = call[c].op /\ call'[c].ws = call[c].ws
      /\ call'[c].ph = "hello" /\ call'[c].j = call[c].j
      /\ IsCall(call'[c])
  <2>1. "hello" \in PhasesOf(call[c].op)
    BY <1>2 DEF CallOK, IsCall, PhasesOf
  <2>2. QED
    BY <1>1, <1>2, <2>1, ToRecord DEF IInv
<1>4. <<c, "hello">> \in Task /\ future[<<c, "hello">>][W(c)] # "pending"
  BY <1>2, TaskOf DEF CallOK, FuturesOf
<1>5. /\ WorkerInv'
      /\ \A u \in Task, v \in Worker :
           future'[u][v] = "pending" =>
             future[u][v] = "pending" \/ (u = <<c, "hello">> /\ v = W(c))
      /\ \A v \in Worker :
           /\ thread[v] = "gone" => thread'[v] = "gone"
           /\ thread[v] \in {"none", "gone"} => thread'[v] \in {"none", "gone"}
  BY <1>1, <1>2, <1>4, AddWorker DEF IInv
<1>6. CallOK(c)'
  <2>1. FuturesOf(c)'
    BY <1>2, <1>3, <1>5, TaskOf DEF CallOK, FuturesOf, Left
  <2>2. WorkersOf(c)'
    BY <1>1, <1>2, <1>3 DEF CallOK, WorkersOf, Passed
  <2>3. IsCall(call[c])'
    BY <1>1, <1>3 DEF IsCall, PhasesOf, KindHas
  <2>4. QED
    BY <2>1, <2>2, <2>3 DEF CallOK
<1>7. \A d \in Caller \ {c}, x \in {"hello", "work"}, w \in Worker :
        future'[<<d, x>>][w] = "pending" => future[<<d, x>>][w] = "pending"
  <2> SUFFICES ASSUME NEW d \in Caller \ {c}, NEW x \in {"hello", "work"},
                      NEW w \in Worker, future'[<<d, x>>][w] = "pending"
               PROVE  future[<<d, x>>][w] = "pending"
    OBVIOUS
  <2>1. <<d, x>> \in Task /\ <<d, x>>[1] # c
    BY CallerAssumption
  <2>2. QED
    BY <1>5, <2>1
<1>8. QED
  BY <1>1, <1>2, <1>3, <1>5, <1>6, <1>7, CallGoesOn

LEMMA IsMadeStep == ASSUME IInv, NEW c \in Caller, IsMade(c) PROVE IInv'
<1> DEFINE ph == IF call[c].op = "addIndex" THEN "after" ELSE "post"
<1>1. /\ At(c, "hello") /\ future[<<c, "hello">>][W(c)] # "pending" /\ To(c, ph)
      /\ UNCHANGED workerVars /\ kind' = kind /\ indices' = indices
  BY DEF IsMade, topVars
<1>2. /\ c \in Open /\ CallOK(c) /\ call[c].op # "none" /\ call[c].ph = "hello"
      /\ call[c].j \in Nat \ {0} /\ call[c].j \in DOMAIN call[c].ws
      /\ DOMAIN call[c].ws = 1 .. Len(call[c].ws)
      /\ W(c) = call[c].ws[call[c].j] /\ W(c) \in Worker
  BY <1>1, AtWorker
<1>3. /\ call' = [d \in Caller |-> call'[d]]
      /\ \A d \in Caller \ {c} : call'[d] = call[d]
      /\ call'[c].op = call[c].op /\ call'[c].ws = call[c].ws
      /\ call'[c].ph = ph /\ call'[c].j = call[c].j
      /\ IsCall(call'[c])
  <2>1. ph \in PhasesOf(call[c].op)
    BY <1>2 DEF CallOK, IsCall, PhasesOf
  <2>2. QED
    BY <1>1, <1>2, <2>1, ToRecord DEF IInv
<1>4. /\ WorkerInv' /\ future' = future /\ thread' = thread
  BY <1>1 DEF IInv, workerVars, WorkerInv, WorkerType, ThreadOK, TasksOnce
<1>5. CallOK(c)'
  <2>1. FuturesOf(c)'
    <3>1. \A w \in Worker : future[<<c, "hello">>][w] # "pending"
      BY <1>1, <1>2 DEF CallOK, FuturesOf
    <3>2. CASE call[c].op = "addIndex"
      <4>1. Left(call[c]) = {}
        BY <1>2, <3>2 DEF Left, CallOK, WorkersOf
      <4>2. QED
        BY <1>2, <1>4, <3>1, <4>1 DEF CallOK, FuturesOf
    <3>3. CASE call[c].op # "addIndex"
      BY <1>2, <1>3, <1>4, <3>1, <3>3 DEF CallOK, FuturesOf, Left
    <3>4. QED
      BY <3>2, <3>3
  <2>2. WorkersOf(c)'
    BY <1>1, <1>2, <1>3 DEF CallOK, WorkersOf, Passed, IsCall, KindHas
  <2>3. IsCall(call[c])'
    BY <1>1, <1>3 DEF IsCall, PhasesOf, KindHas
  <2>4. QED
    BY <2>1, <2>2, <2>3 DEF CallOK
<1>6. QED
  BY <1>1, <1>2, <1>3, <1>4, <1>5, CallGoesOn

LEMMA PostsStep == ASSUME IInv, NEW c \in Caller, Posts(c) PROVE IInv'
<1> DEFINE on == IF kind = "split" THEN "make" ELSE "post"
           ph == IF AtEnd(c) THEN "wait" ELSE on
           j  == IF AtEnd(c) THEN 1 ELSE call[c].j + 1
<1>1. /\ At(c, "post") /\ Add(W(c), <<c, "work">>) /\ NextOr(c, on, "wait")
      /\ kind' = kind /\ indices' = indices
  BY DEF Posts, topVars
<1>2. /\ c \in Open /\ CallOK(c) /\ call[c].op # "none" /\ call[c].ph = "post"
      /\ call[c].j \in Nat \ {0} /\ call[c].j \in DOMAIN call[c].ws
      /\ DOMAIN call[c].ws = 1 .. Len(call[c].ws) /\ Len(call[c].ws) \in Nat
      /\ Distinct(call[c].ws)
      /\ W(c) = call[c].ws[call[c].j] /\ W(c) \in Worker
  BY <1>1, AtWorker
<1>3. /\ call' = [d \in Caller |-> call'[d]]
      /\ \A d \in Caller \ {c} : call'[d] = call[d]
      /\ call'[c].op = call[c].op /\ call'[c].ws = call[c].ws
      /\ call'[c].ph = ph /\ call'[c].j = j
      /\ IsCall(call'[c])
  <2>1. ph \in PhasesOf(call[c].op)
    BY <1>2 DEF CallOK, IsCall, PhasesOf, KindHas
  <2>2. j \in Nat /\ j >= 1
    BY <1>2
  <2>3. call' = [call EXCEPT ![c].ph = ph, ![c].j = j]
    BY <1>1 DEF NextOr, IInv, CallsOK
  <2> HIDE DEF ph, j
  <2>4. QED
    BY <1>2, <2>1, <2>2, <2>3, NextRecord DEF IInv
<1>4. <<c, "work">> \in Task /\ future[<<c, "work">>][W(c)] # "pending"
  BY <1>2, TaskOf DEF CallOK, FuturesOf, Left, Distinct
<1>5. /\ WorkerInv'
      /\ \A u \in Task, v \in Worker :
           future'[u][v] = "pending" =>
             future[u][v] = "pending" \/ (u = <<c, "work">> /\ v = W(c))
      /\ \A v \in Worker :
           /\ thread[v] = "gone" => thread'[v] = "gone"
           /\ thread[v] \in {"none", "gone"} => thread'[v] \in {"none", "gone"}
  BY <1>1, <1>2, <1>4, AddWorker DEF IInv
<1>6. CallOK(c)'
  <2>1. FuturesOf(c)'
    <3>1. Left(call[c]) \cup {call[c].j} \subseteq Left(call'[c])
      BY <1>2, <1>3 DEF Left, AtEnd
    <3>2. QED
      BY <1>2, <1>3, <1>5, <3>1, TaskOf DEF CallOK, FuturesOf
  <2>2. WorkersOf(c)'
    BY <1>1, <1>2, <1>3 DEF CallOK, WorkersOf, Passed
  <2>3. IsCall(call[c])'
    BY <1>1, <1>3 DEF IsCall, PhasesOf, KindHas
  <2>4. QED
    BY <2>1, <2>2, <2>3 DEF CallOK
<1>7. \A d \in Caller \ {c}, x \in {"hello", "work"}, w \in Worker :
        future'[<<d, x>>][w] = "pending" => future[<<d, x>>][w] = "pending"
  <2> SUFFICES ASSUME NEW d \in Caller \ {c}, NEW x \in {"hello", "work"},
                      NEW w \in Worker, future'[<<d, x>>][w] = "pending"
               PROVE  future[<<d, x>>][w] = "pending"
    OBVIOUS
  <2>1. <<d, x>> \in Task /\ <<d, x>>[1] # c
    BY CallerAssumption
  <2>2. QED
    BY <1>5, <2>1
<1>8. QED
  BY <1>1, <1>2, <1>3, <1>5, <1>6, <1>7, CallGoesOn

LEMMA WaitsStep == ASSUME IInv, NEW c \in Caller, Waits(c) PROVE IInv'
<1> DEFINE f   == future[<<c, "work">>][W(c)]
           end == IF kind = "split" THEN "close" ELSE "after"
           leaves == AtEnd(c) \/ (kind = "split" /\ f = "raised")
           ph  == IF leaves THEN end ELSE "wait"
           j   == IF leaves THEN 1 ELSE call[c].j + 1
           raised == call[c].raised \/ f = "raised"
<1>1. /\ At(c, "wait") /\ f # "pending"
      /\ call' = [call EXCEPT ![c].raised = @ \/ f = "raised",
                              ![c].ph = IF leaves THEN end ELSE @,
                              ![c].j = IF leaves THEN 1 ELSE @ + 1]
      /\ UNCHANGED workerVars /\ kind' = kind /\ indices' = indices
  BY DEF Waits, topVars
<1>2. /\ c \in Open /\ CallOK(c) /\ call[c].op # "none" /\ call[c].ph = "wait"
      /\ call[c].j \in Nat \ {0} /\ call[c].j \in DOMAIN call[c].ws
      /\ DOMAIN call[c].ws = 1 .. Len(call[c].ws) /\ Len(call[c].ws) \in Nat
      /\ W(c) = call[c].ws[call[c].j] /\ W(c) \in Worker
  BY <1>1, AtWorker
<1>3. /\ call' = [d \in Caller |-> call'[d]]
      /\ \A d \in Caller \ {c} : call'[d] = call[d]
      /\ call'[c].op = call[c].op /\ call'[c].ws = call[c].ws
      /\ call'[c].ph = ph /\ call'[c].j = j
      /\ IsCall(call'[c])
  <2>1. ph \in PhasesOf(call[c].op)
    BY <1>2 DEF CallOK, IsCall, PhasesOf, KindHas
  <2>2. j \in Nat /\ j >= 1
    BY <1>2
  <2>3. call' = [call EXCEPT ![c].raised = raised, ![c].ph = ph, ![c].j = j]
    BY <1>1, <1>2 DEF IInv, CallsOK
  <2> HIDE DEF ph, j, raised
  <2>4. QED
    BY <1>2, <2>1, <2>2, <2>3, CallRecord DEF IInv
<1>4. /\ WorkerInv' /\ future' = future /\ thread' = thread
  BY <1>1 DEF IInv, workerVars, WorkerInv, WorkerType, ThreadOK, TasksOnce
<1>5. CallOK(c)'
  <2>1. FuturesOf(c)'
    <3>1. Left(call[c]) \ {call[c].j} \subseteq Left(call'[c])
      <4>1. ASSUME NEW i \in DOMAIN call[c].ws, i >= call[c].j, i # call[c].j
            PROVE  ph \in {"wait", "close", "join"} /\ i >= j
        <5>1. ~AtEnd(c) /\ i >= call[c].j + 1 /\ i >= 1
          BY <1>2, <4>1 DEF AtEnd
        <5>2. QED
          BY <5>1
      <4> HIDE DEF ph, j
      <4>2. QED
        BY <1>2, <1>3, <4>1 DEF Left
    <3>2. future[<<c, "work">>][W(c)] # "pending"
      BY <1>1
    <3> HIDE DEF ph, j, f
    <3>3. QED
      BY <1>2, <1>3, <1>4, <3>1, <3>2 DEF CallOK, FuturesOf
  <2>2. WorkersOf(c)'
    <3>1. Passed(call[c])' = {}
      <4>1. call[c].op \notin {"removeIndex", "destroy"}
        BY <1>2 DEF CallOK, IsCall, PhasesOf
      <4>2. \/ ph = "wait"
            \/ ph = "close" /\ j = 1
            \/ ph = "after" /\ kind # "split"
        <5> HIDE DEF leaves
        <5>1. CASE ~leaves
          BY <5>1
        <5>2. CASE leaves /\ kind = "split"
          BY <5>2
        <5>3. CASE leaves /\ kind # "split"
          BY <5>3
        <5>4. QED
          BY <5>1, <5>2, <5>3
      <4> HIDE DEF ph, j
      <4>3. CASE ph = "wait"
        BY <1>3, <4>3 DEF Passed
      <4>4. CASE ph = "close" /\ j = 1
        BY <1>2, <1>3, <4>4 DEF Passed
      <4>5. CASE ph = "after" /\ kind # "split"
        BY <1>1, <1>3, <4>1, <4>5 DEF Passed
      <4>6. QED
        BY <4>2, <4>3, <4>4, <4>5
    <3> HIDE DEF ph, j
    <3>2. QED
      BY <1>1, <1>2, <1>3, <3>1 DEF CallOK, WorkersOf
  <2>3. IsCall(call[c])'
    BY <1>1, <1>3 DEF IsCall, PhasesOf, KindHas
  <2>4. QED
    BY <2>1, <2>2, <2>3 DEF CallOK
<1>6. QED
  BY <1>1, <1>2, <1>3, <1>4, <1>5, CallGoesOn

LEMMA ClosesStep == ASSUME IInv, NEW c \in Caller, Closes(c) PROVE IInv'
<1>1. /\ At(c, "close") /\ Stop(W(c)) /\ To(c, "join")
      /\ kind' = kind /\ indices' = indices
  BY DEF Closes, topVars
<1>2. /\ c \in Open /\ CallOK(c) /\ call[c].op # "none" /\ call[c].ph = "close"
      /\ call[c].j \in Nat \ {0} /\ W(c) \in Worker
      /\ call[c].ws \in Seq(Worker)
  BY <1>1, AtWorker
<1>3. /\ call' = [d \in Caller |-> call'[d]]
      /\ \A d \in Caller \ {c} : call'[d] = call[d]
      /\ call'[c].op = call[c].op /\ call'[c].ws = call[c].ws
      /\ call'[c].ph = "join" /\ call'[c].j = call[c].j
      /\ IsCall(call'[c])
  <2>1. "join" \in PhasesOf(call[c].op)
    BY <1>2 DEF CallOK, IsCall, PhasesOf
  <2>2. QED
    BY <1>1, <1>2, <2>1, ToRecord DEF IInv
<1>4. WorkerInv' /\ Quiet
  BY <1>1, <1>2, StopWorker DEF IInv
<1>5. CallOK(c)'
  <2>1. FuturesOf(c)'
    BY <1>2, <1>3, <1>4, TaskOf DEF CallOK, FuturesOf, Left, Quiet
  <2>2. WorkersOf(c)'
    <3>1. Passed(call[c])' = Passed(call[c])
      BY <1>1, <1>2, <1>3 DEF Passed
    <3>2. \A i \in Passed(call[c]) : call[c].ws[i] \in Worker
      BY <1>2 DEF Passed
    <3>3. QED
      BY <1>1, <1>2, <1>3, <1>4, <3>1, <3>2 DEF CallOK, WorkersOf, Quiet
  <2>3. IsCall(call[c])'
    BY <1>1, <1>3 DEF IsCall, PhasesOf, KindHas
  <2>4. QED
    BY <2>1, <2>2, <2>3 DEF CallOK
<1>6. QED
  BY <1>1, <1>2, <1>3, <1>4, <1>5, TaskOf, CallGoesOn DEF Quiet

\* A thread that is gone has left no future open.
LEMMA GoneHoldsNothing ==
  ASSUME WorkerInv, NEW w \in Worker, thread[w] = "gone", NEW t \in Task
  PROVE  future[t][w] # "pending"
BY TaskAssumption DEF WorkerInv, ThreadOK, TasksOnce, ToSet

LEMMA JoinsStep == ASSUME IInv, NEW c \in Caller, Joins(c) PROVE IInv'
<1> DEFINE ph == IF AtEnd(c) THEN "after" ELSE "close"
           j  == IF AtEnd(c) THEN 1 ELSE call[c].j + 1
<1>1. /\ At(c, "join") /\ thread[W(c)] = "gone" /\ NextOr(c, "close", "after")
      /\ UNCHANGED workerVars /\ kind' = kind /\ indices' = indices
  BY DEF Joins, topVars
<1>2. /\ c \in Open /\ CallOK(c) /\ call[c].op # "none" /\ call[c].ph = "join"
      /\ call[c].j \in Nat \ {0} /\ call[c].j \in DOMAIN call[c].ws
      /\ DOMAIN call[c].ws = 1 .. Len(call[c].ws) /\ Len(call[c].ws) \in Nat
      /\ W(c) = call[c].ws[call[c].j] /\ W(c) \in Worker
  BY <1>1, AtWorker
<1>3. /\ call' = [d \in Caller |-> call'[d]]
      /\ \A d \in Caller \ {c} : call'[d] = call[d]
      /\ call'[c].op = call[c].op /\ call'[c].ws = call[c].ws
      /\ call'[c].ph = ph /\ call'[c].j = j
      /\ IsCall(call'[c])
  <2>1. ph \in PhasesOf(call[c].op)
    BY <1>2 DEF CallOK, IsCall, PhasesOf
  <2>2. j \in Nat /\ j >= 1
    BY <1>2
  <2>3. call' = [call EXCEPT ![c].ph = ph, ![c].j = j]
    BY <1>1 DEF NextOr, IInv, CallsOK
  <2> HIDE DEF ph, j
  <2>4. QED
    BY <1>2, <2>1, <2>2, <2>3, NextRecord DEF IInv
<1>4. /\ WorkerInv' /\ future' = future /\ thread' = thread
  BY <1>1 DEF IInv, workerVars, WorkerInv, WorkerType, ThreadOK, TasksOnce
<1>5. CallOK(c)'
  <2>1. FuturesOf(c)'
    <3>1. Left(call[c]) \ {call[c].j} \subseteq Left(call'[c])
      BY <1>2, <1>3 DEF Left, AtEnd
    <3>2. future[<<c, "work">>][W(c)] # "pending"
      BY <1>1, <1>2, TaskOf, GoneHoldsNothing DEF IInv
    <3>3. QED
      BY <1>2, <1>3, <1>4, <3>1, <3>2 DEF CallOK, FuturesOf
  <2>2. WorkersOf(c)'
    <3>1. Passed(call[c])' \subseteq Passed(call[c]) \cup {call[c].j}
      BY <1>1, <1>2, <1>3 DEF Passed, AtEnd
    <3>2. QED
      BY <1>1, <1>2, <1>3, <1>4, <3>1 DEF CallOK, WorkersOf
  <2>3. IsCall(call[c])'
    BY <1>1, <1>3 DEF IsCall, PhasesOf, KindHas
  <2>4. QED
    BY <2>1, <2>2, <2>3 DEF CallOK
<1>6. QED
  BY <1>1, <1>2, <1>3, <1>4, <1>5, CallGoesOn
----------------------------------------------------------------------------
(* The end of a call and the beginning of another.                         *)

\* The sequence r is s without what it has at k.
IsWithout(r, s, k) ==
  /\ r \in Seq(Worker) /\ Len(r) = Len(s) - 1 /\ DOMAIN r = 1 .. Len(s) - 1
  /\ \A i \in 1 .. Len(s) - 1 : r[i] = IF i < k THEN s[i] ELSE s[i + 1]

LEMMA RemoveAtIs ==
  ASSUME NEW s \in Seq(Worker), NEW k \in 1 .. Len(s), NEW r, r = RemoveAt(s, k)
  PROVE  IsWithout(r, s, k)
<1>1. /\ DOMAIN s = 1 .. Len(s) /\ Len(s) \in Nat
      /\ \A i \in DOMAIN s : s[i] \in Worker
  OBVIOUS
<1>2. k \in 1 .. Len(s)
  OBVIOUS
<1>3. r = SubSeq(s, 1, k - 1) \o SubSeq(s, k + 1, Len(s))
  BY DEF RemoveAt
<1> DEFINE a == SubSeq(s, 1, k - 1)
           b == SubSeq(s, k + 1, Len(s))
<1>4. /\ a \in Seq(Worker) /\ Len(a) = k - 1
      /\ \A i \in 1 .. k - 1 : a[i] = s[i]
  BY <1>1, <1>2
<1>5. /\ b \in Seq(Worker) /\ Len(b) = Len(s) - k
      /\ \A i \in 1 .. Len(s) - k : b[i] = s[k + i]
  <2>1. /\ k + 1 \in Int /\ Len(s) \in Int
        /\ \A i \in k + 1 .. Len(s) : s[i] \in Worker
    BY <1>1, <1>2
  <2>2. /\ b \in Seq(Worker)
        /\ Len(b) = IF k + 1 <= Len(s) THEN Len(s) - (k + 1) + 1 ELSE 0
        /\ \A i \in 1 .. Len(s) - (k + 1) + 1 : b[i] = s[(k + 1) + i - 1]
    BY <2>1, SubSeqProperties
  <2> HIDE DEF b
  <2>3. Len(b) = Len(s) - k /\ Len(s) - (k + 1) + 1 = Len(s) - k
    <3>1. Len(b) = IF k + 1 <= Len(s) THEN Len(s) - (k + 1) + 1 ELSE 0
      BY <2>2
    <3>2. k \in Nat /\ Len(s) \in Nat /\ k <= Len(s)
      BY <1>1, <1>2
    <3>3. QED
      BY <3>1, <3>2
  <2>4. ASSUME NEW i \in 1 .. Len(s) - k PROVE b[i] = s[k + i]
    <3>1. (k + 1) + i - 1 = k + i
      BY <1>2
    <3>2. b[i] = s[(k + 1) + i - 1]
      BY <2>2, <2>3
    <3>3. QED
      BY <3>1, <3>2
  <2>5. QED
    BY <2>2, <2>3, <2>4
<1>6. r = a \o b
  BY <1>3
<1> HIDE DEF a, b
<1>7. /\ r \in Seq(Worker) /\ Len(r) = Len(s) - 1 /\ DOMAIN r = 1 .. Len(s) - 1
      /\ \A i \in 1 .. Len(s) - 1 : r[i] = IF i < k THEN s[i] ELSE s[i + 1]
  <2>1. /\ a \o b \in Seq(Worker) /\ Len(a \o b) = Len(a) + Len(b)
        /\ \A i \in 1 .. Len(a) + Len(b) :
             (a \o b)[i] = IF i <= Len(a) THEN a[i] ELSE b[i - Len(a)]
    BY <1>4, <1>5, ConcatProperties, Zenon
  <2>2. Len(a) + Len(b) = Len(s) - 1
    BY <1>1, <1>2, <1>4, <1>5
  <2>3. ASSUME NEW i \in 1 .. Len(s) - 1
        PROVE  r[i] = IF i < k THEN s[i] ELSE s[i + 1]
    <3>1. CASE i < k
      <4>1. i \in 1 .. k - 1 /\ i <= Len(a)
        BY <1>2, <1>4, <3>1
      <4>2. r[i] = a[i]
        BY <1>6, <2>1, <2>2, <4>1
      <4>3. QED
        BY <1>4, <3>1, <4>1, <4>2
    <3>2. CASE ~(i < k)
      <4>1. /\ i - Len(a) \in 1 .. Len(s) - k /\ ~(i <= Len(a))
            /\ k + (i - Len(a)) = i + 1
        BY <1>1, <1>2, <1>4, <3>2
      <4>2. r[i] = b[i - Len(a)]
        BY <1>6, <2>1, <2>2, <4>1
      <4>3. b[i - Len(a)] = s[k + (i - Len(a))]
        BY <1>5, <4>1
      <4>4. QED
        BY <3>2, <4>1, <4>2, <4>3
    <3>3. QED
      BY <3>1, <3>2
  <2>4. DOMAIN r = 1 .. Len(r)
    BY <1>6, <2>1
  <2>5. QED
    BY <1>6, <2>1, <2>2, <2>3, <2>4
<1>8. QED
  BY <1>7 DEF IsWithout

\* Erasing the place of w.
LEMMA RemoveAtSet ==
  ASSUME NEW s \in Seq(Worker), Distinct(s), NEW w \in Worker, Contains(s, w),
         NEW r, r = RemoveAt(s, CHOOSE i \in DOMAIN s : s[i] = w)
  PROVE  /\ r \in Seq(Worker) /\ Distinct(r)
         /\ \A v \in Worker : v # w /\ Contains(s, v) => Contains(r, v)
<1> DEFINE k == CHOOSE i \in DOMAIN s : s[i] = w
<1>1. /\ DOMAIN s = 1 .. Len(s) /\ Len(s) \in Nat
      /\ \A i \in DOMAIN s : s[i] \in Worker
  OBVIOUS
<1>2. k \in 1 .. Len(s) /\ s[k] = w
  BY <1>1 DEF Contains
<1>3. r = RemoveAt(s, k)
  OBVIOUS
<1> HIDE DEF k
<1>4. IsWithout(r, s, k)
  BY <1>2, <1>3, RemoveAtIs
<1>5. /\ r \in Seq(Worker) /\ Len(r) = Len(s) - 1 /\ DOMAIN r = 1 .. Len(s) - 1
      /\ \A i \in 1 .. Len(s) - 1 : r[i] = IF i < k THEN s[i] ELSE s[i + 1]
  BY <1>4 DEF IsWithout
<1>6. Distinct(r)
  <2> SUFFICES ASSUME NEW i \in 1 .. Len(s) - 1, NEW m \in 1 .. Len(s) - 1,
                      r[i] = r[m]
               PROVE  i = m
    BY <1>5 DEF Distinct
  <2>1. /\ i \in DOMAIN s /\ i + 1 \in DOMAIN s
        /\ m \in DOMAIN s /\ m + 1 \in DOMAIN s
        /\ i \in Nat /\ m \in Nat /\ k \in Nat /\ k \in DOMAIN s
    BY <1>1, <1>2
  <2> DEFINE at(n) == IF n < k THEN n ELSE n + 1
  <2>2. at(i) \in DOMAIN s /\ at(m) \in DOMAIN s
    BY <2>1
  <2>3. r[i] = s[at(i)] /\ r[m] = s[at(m)]
    BY <1>5
  <2>4. at(i) = at(m)
    BY <2>2, <2>3 DEF Distinct
  <2>5. QED
    BY <2>1, <2>4
<1>7. ASSUME NEW v \in Worker, v # w, Contains(s, v) PROVE Contains(r, v)
  <2>1. PICK i \in 1 .. Len(s) : s[i] = v
    BY <1>7 DEF Contains
  <2>2. i # k
    BY <1>2, <1>7, <2>1
  <2>3. CASE i < k
    <3>1. i \in 1 .. Len(r) /\ r[i] = v
      BY <1>1, <1>2, <1>5, <2>1, <2>3
    <3>2. QED
      BY <3>1 DEF Contains
  <2>4. CASE i > k
    <3>1. i - 1 \in 1 .. Len(r) /\ i - 1 \in 1 .. Len(s) - 1 /\ ~(i - 1 < k)
          /\ (i - 1) + 1 = i
      BY <1>1, <1>2, <1>5, <2>1, <2>4
    <3>2. r[i - 1] = v
      BY <1>5, <2>1, <3>1
    <3>3. QED
      BY <3>1, <3>2 DEF Contains
  <2>5. QED
    BY <1>1, <1>2, <2>2, <2>3, <2>4
<1>8. QED
  BY <1>5, <1>6, <1>7

\* A call that returns has nothing under way.
LEMMA NothingLeft ==
  ASSUME IInv, NEW c \in Caller, Returns(c), NEW w \in Worker
  PROVE  /\ future[<<c, "hello">>][w] # "pending"
         /\ future[<<c, "work">>][w] # "pending"
<1>1. FuturesOf(c) /\ call[c].ph # "hello" /\ Left(call[c]) = {}
  BY DEF Returns, IInv, CallsOK, CallOK, Left
<1>2. QED
  BY <1>1 DEF FuturesOf

LEMMA ReturnsWorker ==
  ASSUME IInv, NEW c \in Caller, Returns(c)
  PROVE  WorkerInv' /\ Quiet /\ thread' = thread
<1>1. /\ future' = [t \in Task |-> IF t[1] = c THEN [w \in Worker |-> "none"]
                                   ELSE future[t]]
      /\ UNCHANGED <<queue, wantStop, thread, data>>
  BY DEF Returns
<1>2. WorkerType'
  BY <1>1 DEF IInv, WorkerInv, WorkerType, Futures
<1>3. ASSUME NEW t \in Task, NEW w \in Worker
      PROVE  future'[t][w] = "pending" <=> future[t][w] = "pending"
  <2>1. CASE t[1] # c
    BY <1>1, <2>1
  <2>2. CASE t[1] = c
    <3>1. t = <<c, "hello">> \/ t = <<c, "work">>
      BY <2>2, CallerAssumption
    <3>2. future[t][w] # "pending"
      BY <3>1, NothingLeft
    <3>3. future'[t][w] = "none"
      BY <1>1, <2>2
    <3>4. QED
      BY <3>2, <3>3
  <2>3. QED
    BY <2>1, <2>2
<1>4. ASSUME NEW w \in Worker PROVE ThreadOK(w)' /\ TasksOnce(w)'
  BY <1>1, <1>3 DEF IInv, WorkerInv, ThreadOK, TasksOnce
<1>5. QED
  BY <1>1, <1>2, <1>3, <1>4 DEF WorkerInv, Quiet

\* What becomes of the collection, and of the workers the call was about.
LEMMA ReturnsIndices ==
  ASSUME IInv, NEW c \in Caller, Returns(c)
  PROVE  /\ c \in Open
         /\ indices' \in Seq(Worker) /\ Distinct(indices')
         /\ indices' = indices \/ Open = {c}
         /\ \A w \in Worker :
              /\ thread[w] \notin {"none", "gone"}
              /\ Contains(indices, w) \/ Contains(call[c].ws, w)
              => Contains(indices', w)
<1> DEFINE op == call[c].op
           ws == call[c].ws
<1>1. /\ CallOK(c) /\ IsCall(call[c]) /\ WorkersOf(c)
      /\ indices \in Seq(Worker) /\ Distinct(indices) /\ Ended(c)
      /\ call[c].ph = "after" \/ (call[c].ph = "close" /\ ws = <<>>)
  BY DEF IInv, CallsOK, CallOK, Returns
<1>2. c \in Open /\ op # "none"
  BY <1>1, OpenOp DEF Open
<1>3. ws \in Seq(Worker) /\ DOMAIN ws = 1 .. Len(ws)
  BY <1>1 DEF IsCall
\* All that the call was about is at its end, or in the collection.
<1>4. ASSUME op \in {"removeIndex", "destroy"} \/ kind = "split",
             NEW w \in Worker, Contains(ws, w)
      PROVE  thread[w] = "gone"
  <2>1. PICK i \in DOMAIN ws : ws[i] = w
    BY <1>3, <1>4 DEF Contains
  <2>2. call[c].ph = "after"
    BY <1>1, <2>1
  <2>3. i \in Passed(call[c])
    BY <1>4, <2>1, <2>2 DEF Passed
  <2>4. QED
    BY <1>1, <2>1, <2>3 DEF WorkersOf
<1>5. ASSUME op \notin {"addIndex"}, kind # "split",
             NEW w \in Worker, Contains(ws, w)
      PROVE  Contains(indices, w)
  BY <1>1, <1>2, <1>3, <1>5 DEF WorkersOf, Contains
<1>6. CASE op \in {"search", "post", "halt", "add", "reset"}
  <2>1. indices' = indices
    BY <1>1, <1>6 DEF Ended
  <2>2. QED
    BY <1>1, <1>2, <1>4, <1>5, <1>6, <2>1
<1>7. CASE op = "addIndex"
  <2>1. /\ Open = {c} /\ Len(ws) = 1 /\ ~Contains(indices, ws[1])
        /\ indices' = Append(indices, ws[1]) /\ ws[1] \in Worker
    BY <1>1, <1>2, <1>3, <1>7, AloneCall DEF Ended, WorkersOf
  <2>2. /\ indices' \in Seq(Worker) /\ Distinct(indices')
        /\ ToSet(indices') = ToSet(indices) \cup {ws[1]}
    <3>1. ws[1] \notin ToSet(indices)
      BY <1>1, <2>1 DEF ToSet, Contains
    <3>2. QED
      BY <1>1, <2>1, <3>1, AppendSet
  <2>3. \A s \in Seq(Worker), w \in Worker : Contains(s, w) <=> w \in ToSet(s)
    BY DEF Contains, ToSet
  <2>4. ASSUME NEW w \in Worker, Contains(ws, w) PROVE w = ws[1]
    BY <1>3, <2>1, <2>4 DEF Contains
  <2>5. QED
    BY <1>1, <1>2, <2>1, <2>2, <2>3, <2>4
<1>8. CASE op = "removeIndex"
  <2>1. /\ Open = {c} /\ Len(ws) = 1 /\ ws[1] \in Worker /\ kind # "split"
        /\ indices' = RemoveAt(indices, CHOOSE i \in DOMAIN indices : indices[i] = ws[1])
    BY <1>1, <1>2, <1>3, <1>8, AloneCall DEF Ended, WorkersOf, IsCall, KindHas
  <2>2. Contains(ws, ws[1]) /\ Contains(indices, ws[1]) /\ thread[ws[1]] = "gone"
    <3>1. Contains(ws, ws[1])
      BY <2>1 DEF Contains
    <3>2. QED
      BY <1>4, <1>5, <1>8, <2>1, <3>1
  <2>3. /\ indices' \in Seq(Worker) /\ Distinct(indices')
        /\ \A v \in Worker : v # ws[1] /\ Contains(indices, v) => Contains(indices', v)
    BY <1>1, <2>1, <2>2, RemoveAtSet
  <2>4. ASSUME NEW w \in Worker, Contains(ws, w) PROVE thread[w] = "gone"
    BY <1>4, <1>8, <2>4
  <2>5. QED
    BY <1>2, <2>1, <2>2, <2>3, <2>4
<1>9. CASE op = "destroy"
  <2>1. Open = {c} /\ indices' = <<>> /\ ws = indices
    BY <1>1, <1>2, <1>9, AloneCall DEF Ended, WorkersOf
  <2>2. indices' \in Seq(Worker) /\ Distinct(indices')
    BY <2>1 DEF Distinct
  <2>3. ASSUME NEW w \in Worker, Contains(indices, w) PROVE thread[w] = "gone"
    BY <1>4, <1>9, <2>1, <2>3
  <2>4. QED
    BY <1>2, <2>1, <2>2, <2>3
<1>10. QED
  BY <1>1, <1>2, <1>6, <1>7, <1>8, <1>9 DEF IsCall, PhasesOf

LEMMA ReturnsStep == ASSUME IInv, NEW c \in Caller, Returns(c) PROVE IInv'
<1> USE DEF IInv, CallsOK
<1>1. WorkerInv' /\ Quiet /\ thread' = thread
  BY ReturnsWorker
<1>2. /\ c \in Open /\ indices' \in Seq(Worker) /\ Distinct(indices')
      /\ indices' = indices \/ Open = {c}
      /\ \A w \in Worker :
           /\ thread[w] \notin {"none", "gone"}
           /\ Contains(indices, w) \/ Contains(call[c].ws, w)
           => Contains(indices', w)
  BY ReturnsIndices
<1>3. /\ call' = [call EXCEPT ![c] = NoCall] /\ kind' = kind
      /\ call' = [d \in Caller |-> call'[d]]
      /\ call'[c] = NoCall /\ \A d \in Caller \ {c} : call'[d] = call[d]
  BY DEF Returns
<1>4. Open' = Open \ {c}
  BY <1>3 DEF Open, NoCall
<1>5. CallOK(c)'
  <2>1. IsCall(NoCall)
    BY DEF IsCall, NoCall, PhasesOf, KindHas, Distinct
  <2>2. IsCall(call[c])'
    BY <1>3, <2>1 DEF IsCall, PhasesOf, KindHas
  <2>3. FuturesOf(c)'
    BY <1>1, NothingLeft, TaskOf DEF FuturesOf, Quiet
  <2>4. WorkersOf(c)'
    BY <1>3 DEF WorkersOf, Passed, NoCall
  <2>5. QED
    BY <2>2, <2>3, <2>4 DEF CallOK
<1>6. ASSUME NEW d \in Caller, d # c PROVE CallOK(d)'
  <2>1. CallOK(d) /\ SameCall(d) /\ IsCall(call'[d])
    BY <1>3, <1>6 DEF SameCall, CallOK
  <2>2. \A x \in {"hello", "work"}, w \in Worker :
          future'[<<d, x>>][w] = "pending" => future[<<d, x>>][w] = "pending"
    BY <1>1, TaskOf DEF Quiet
  <2>3. call[d].op = "none" \/ indices' = indices
    BY <1>2, <1>6, <2>1, OpenOp DEF CallOK
  <2>4. QED
    BY <1>1, <1>3, <2>1, <2>2, <2>3, OtherCall
<1>7. ASSUME NEW b \in Open', NEW d \in Open', b # d PROVE Compatible(b, d)'
  <2>1. /\ Compatible(b, d) /\ b \in Caller \ {c} /\ d \in Caller \ {c}
    BY <1>4, <1>7 DEF Open
  <2>2. QED
    BY <1>3, <2>1 DEF Compatible
<1>8. ASSUME NEW w \in Worker PROVE Owned(w)'
  <2>1. Owned(w)
    OBVIOUS
  <2>2. CASE thread[w] \in {"none", "gone"}
    BY <1>1, <2>2 DEF Owned
  <2>3. CASE thread[w] \notin {"none", "gone"}
             /\ (Contains(indices, w) \/ Contains(call[c].ws, w))
    BY <1>2, <2>3 DEF Owned
  <2>4. CASE \E d \in Open \ {c} : Contains(call[d].ws, w)
    <3>1. PICK d \in Open \ {c} : Contains(call[d].ws, w)
      BY <2>4
    <3>2. d \in Open' /\ call'[d] = call[d]
      BY <1>3, <1>4 DEF Open
    <3>3. QED
      BY <3>1, <3>2 DEF Owned
  <2>5. QED
    BY <2>1, <2>2, <2>3, <2>4 DEF Owned
<1>9. \A d \in Caller : CallOK(d)'
  BY <1>5, <1>6
<1>10. QED
  BY <1>1, <1>2, <1>3, <1>7, <1>8, <1>9
\* There is a first caller that does nothing.
LEMMA FirstIdle ==
  ASSUME Open # Caller
  PROVE  \E c \in Caller \ Open : \A d \in Caller \ Open : c <= d
<1>1. /\ Caller \ Open \subseteq Nat /\ Caller \ Open # {}
  BY CallerAssumption DEF Open
<1>2. PICK c \in Caller \ Open :
        \A d \in Caller \ Open : ~(<<d, c>> \in OpToRel(<, Nat))
  BY <1>1, NatLessThanWellFounded, WFMin, Zenon
<1>3. ASSUME NEW d \in Caller \ Open PROVE c <= d
  <2>1. c \in Nat /\ d \in Nat
    BY <1>1
  <2>2. ~(d < c)
    BY <1>2, <2>1 DEF OpToRel
  <2>3. QED
    BY <2>1, <2>2
<1>4. QED
  BY <1>3

\* A call begins, about workers of which it has not come to the first.
LEMMA BeginCall ==
  ASSUME IInv, NEW op, NEW ph, NEW ws \in Seq(Worker), NEW size,
         Begin(op, ph, ws, size),
         op # "none", ph \in PhasesOf(op) \cap {"make", "post", "close"},
         KindHas(op), Distinct(ws), kind = "split" => Open = {},
         op \in {"addIndex", "removeIndex"} => Len(ws) = 1,
         op = "addIndex" => ~Contains(indices, ws[1]),
         op # "addIndex" /\ kind # "split" =>
           \A i \in DOMAIN ws : Contains(indices, ws[i]),
         op = "destroy" => ws = indices
  PROVE  IInv'
<1> USE DEF IInv, CallsOK
<1> DEFINE r == [op |-> op, ph |-> ph, ws |-> ws, j |-> 1, size |-> size,
                 raised |-> FALSE, got |-> Nothing]
<1>1. /\ Open # Caller /\ Together(op)
      /\ call' = [call EXCEPT ![CHOOSE c \in Caller \ Open :
                                 \A d \in Caller \ Open : c <= d] = r]
      /\ UNCHANGED workerVars /\ kind' = kind /\ indices' = indices
  BY DEF Begin, topVars
<1>2. PICK c \in Caller \ Open :
        c = CHOOSE e \in Caller \ Open : \A d \in Caller \ Open : e <= d
  BY <1>1, FirstIdle, Zenon
<1>3. /\ r.op = op /\ r.ph = ph /\ r.ws = ws /\ r.j = 1
      /\ r = [op |-> r.op, ph |-> r.ph, ws |-> r.ws, j |-> r.j, size |-> r.size,
              raised |-> r.raised, got |-> r.got]
  OBVIOUS
<1> HIDE DEF r
<1>4. /\ call' = [d \in Caller |-> call'[d]]
      /\ call'[c] = r /\ \A d \in Caller \ {c} : call'[d] = call[d]
  BY <1>1, <1>2
<1>5. /\ WorkerInv' /\ future' = future /\ thread' = thread
  BY <1>1 DEF workerVars, WorkerInv, WorkerType, ThreadOK, TasksOnce
<1>6. call[c].ph = "idle" /\ Open' = Open \cup {c}
  <2>1. call[c].ph = "idle" /\ ph # "idle"
    BY <1>2 DEF Open
  <2>2. c \in Open'
    BY <1>3, <1>4, <2>1 DEF Open
  <2>3. \A d \in Caller \ {c} : d \in Open' <=> d \in Open
    BY <1>4 DEF Open
  <2>4. QED
    BY <2>1, <2>2, <2>3 DEF Open
<1>7. CallOK(c)'
  <2>1. IsCall(call[c])'
    BY <1>1, <1>3, <1>4 DEF IsCall, PhasesOf, KindHas
  <2>2. FuturesOf(c)'
    <3>1. FuturesOf(c) /\ Left(call[c]) = {}
      BY <1>2, <1>6 DEF CallOK, Left
    <3>2. QED
      BY <1>5, <1>6, <3>1 DEF FuturesOf
  <2>3. WorkersOf(c)'
    <3>1. Passed(call[c])' = {}
      BY <1>3, <1>4 DEF Passed
    <3>2. QED
      BY <1>1, <1>3, <1>4, <3>1 DEF WorkersOf
  <2>4. QED
    BY <2>1, <2>2, <2>3 DEF CallOK
<1>8. ASSUME NEW d \in Caller, d # c PROVE CallOK(d)'
  <2>1. CallOK(d) /\ SameCall(d) /\ IsCall(call'[d])
    BY <1>4, <1>8 DEF SameCall, CallOK
  <2>2. QED
    BY <1>1, <1>5, <2>1, OtherCall
<1>9. ASSUME NEW b \in Open', NEW d \in Open', b # d PROVE Compatible(b, d)'
  <2>1. ASSUME NEW e \in Open PROVE /\ Compatible(e, c)' /\ Compatible(c, e)'
    <3>1. e \in Caller \ {c} /\ call'[e] = call[e]
      BY <1>2, <1>4, <2>1 DEF Open
    <3>2. CASE kind = "plain"
      <4>1. "post" \in {op, call[e].op} /\ "addIndex" \notin {op, call[e].op}
        BY <1>1, <2>1, <3>2 DEF Together
      <4>2. call'[c].op = op /\ call'[e].op = call[e].op /\ kind' = "plain"
        BY <1>1, <1>3, <1>4, <3>1, <3>2
      <4>3. QED
        BY <4>1, <4>2 DEF Compatible
    <3>3. CASE kind # "plain"
      <4>1. {op, call[e].op} = {"search"} /\ kind # "split"
        BY <1>1, <2>1, <3>3 DEF Together
      <4>2. op = "search" /\ call[e].op = "search"
        BY <4>1
      <4>3. QED
        BY <1>1, <1>3, <1>4, <3>1, <3>3, <4>1, <4>2 DEF Compatible
    <3>4. QED
      BY <3>2, <3>3
  <2>2. CASE b = c \/ d = c
    BY <1>6, <1>9, <2>1, <2>2
  <2>3. CASE b # c /\ d # c
    <3>1. b \in Open /\ d \in Open /\ b \in Caller \ {c} /\ d \in Caller \ {c}
      BY <1>6, <1>9, <2>3 DEF Open
    <3>2. Compatible(b, d) /\ call'[b] = call[b] /\ call'[d] = call[d]
      BY <1>4, <1>9, <3>1
    <3>3. QED
      BY <1>1, <3>2 DEF Compatible
  <2>4. QED
    BY <2>2, <2>3
<1>10. ASSUME NEW w \in Worker PROVE Owned(w)'
  <2>1. Owned(w) /\ \A e \in Open : call'[e] = call[e]
    BY <1>2, <1>4 DEF Open
  <2>2. QED
    BY <1>1, <1>5, <1>6, <2>1 DEF Owned
<1>11. \A d \in Caller : CallOK(d)'
  BY <1>7, <1>8
<1>12. QED
  BY <1>1, <1>4, <1>5, <1>9, <1>10, <1>11

LEMMA SingleSet ==
  ASSUME NEW w \in Worker
  PROVE  /\ <<w>> \in Seq(Worker) /\ Distinct(<<w>>) /\ Len(<<w>>) = 1
         /\ <<w>>[1] = w /\ DOMAIN <<w>> = {1}
BY DEF Distinct

\* Each search of IndexSplitVectors has a worker for each index.
LEMMA AllWorkers == SetToSeq(Worker) \in Seq(Worker) /\ Distinct(SetToSeq(Worker))
<1> DEFINE n == Cardinality(Worker)
<1>1. n \in Nat /\ ExistsBijection(1 .. n, Worker)
  BY WorkerAssumption, FS_CardinalityType
<1>2. \E f \in [1 .. n -> Worker] : IsInjective(f)
  BY <1>1 DEF ExistsBijection, Bijection, Injection
<1>3. SetToSeq(Worker) \in [1 .. n -> Worker] /\ IsInjective(SetToSeq(Worker))
  BY <1>2, Zenon DEF SetToSeq
<1> HIDE DEF n
<1>4. SetToSeq(Worker) \in Seq(Worker)
  BY <1>1, <1>3, SeqDef
<1>5. QED
  BY <1>3, <1>4 DEF Distinct, IsInjective

LEMMA CallsStep == ASSUME IInv, Calls PROVE IInv'
<1> USE DEF PhasesOf, KindHas
<1>1. /\ indices \in Seq(Worker) /\ Distinct(indices)
      /\ DOMAIN indices = 1 .. Len(indices)
  BY DEF IInv
<1>2. \A i \in DOMAIN indices : Contains(indices, indices[i])
  BY <1>1 DEF Contains
<1>3. ASSUME NEW w \in Worker, AddIndex(w) PROVE IInv'
  BY <1>3, SingleSet, BeginCall DEF AddIndex
<1>4. ASSUME NEW w \in Worker, RemoveIndex(w) PROVE IInv'
  BY <1>4, SingleSet, BeginCall DEF RemoveIndex
<1>5. ASSUME NEW w \in Worker, Post(w) PROVE IInv'
  BY <1>5, SingleSet, BeginCall DEF Post
<1>6. ASSUME NEW w \in Worker, Halt(w) PROVE IInv'
  BY <1>6, SingleSet, BeginCall DEF Halt
<1>7. ASSUME NEW n \in Batches, AddVectors(n) PROVE IInv'
  BY <1>1, <1>2, <1>7, BeginCall DEF AddVectors
<1>8. ASSUME NEW n \in Queries, Search(n) PROVE IInv'
  <2>1. CASE /\ kind \notin {"split", "plain"}
             /\ Begin("search", "post", indices, n)
    BY <1>1, <1>2, <2>1, BeginCall
  <2>2. CASE /\ kind = "split" /\ Open = {}
             /\ Begin("search", "make", SetToSeq(Worker), n)
    BY <2>2, AllWorkers, BeginCall
  <2>3. QED
    BY <1>8, <2>1, <2>2 DEF Search
<1>9. ASSUME Reset PROVE IInv'
  BY <1>1, <1>2, <1>9, BeginCall DEF Reset
<1>10. ASSUME Destroy PROVE IInv'
  BY <1>1, <1>2, <1>10, BeginCall DEF Destroy
<1>11. QED
  BY <1>3, <1>4, <1>5, <1>6, <1>7, <1>8, <1>9, <1>10 DEF Calls
----------------------------------------------------------------------------
LEMMA SameCalls ==
  ASSUME IInv, kind' = kind, call' = call
  PROVE  /\ call' = [d \in Caller |-> call'[d]]
         /\ \A d \in Caller : SameCall(d) /\ IsCall(call'[d])
BY DEF IInv, CallsOK, CallOK, SameCall

LEMMA DoesStep == ASSUME IInv, NEW w \in Worker, Does(w) PROVE IInv'
<1> DEFINE c == data[w][1]
           new == [qs |-> Asked(c, w), found |-> Found(c, w)]
<1>1. /\ Runs(w, "true") /\ kind' = kind /\ indices' = indices
      /\ \/ call' = call
         \/ call' = [call EXCEPT ![c].got[w] = new]
  BY DEF Does
<1>2. WorkerInv' /\ Quiet /\ data[w] \in Task
  BY <1>1, RunsWorker DEF IInv, Futures
<1>3. c \in Caller
  BY <1>2, CallerAssumption
<1>4. CASE call' = call
  BY <1>1, <1>2, <1>4, SameCalls, BackgroundStep
<1>5. CASE call' = [call EXCEPT ![c].got[w] = new]
  <2> HIDE DEF c, new
  <2>1. /\ call = [d \in Caller |-> call[d]]
        /\ \A d \in Caller : IsCall(call[d])
    BY DEF IInv, CallsOK, CallOK
  <2>2. call[c] = [op |-> call[c].op, ph |-> call[c].ph, ws |-> call[c].ws,
                   j |-> call[c].j, size |-> call[c].size,
                   raised |-> call[c].raised, got |-> call[c].got]
    BY <1>3, <2>1 DEF IsCall
  <2>3. /\ call' = [d \in Caller |-> call'[d]]
        /\ \A d \in Caller \ {c} : call'[d] = call[d]
        /\ call'[c] = [op |-> call[c].op, ph |-> call[c].ph, ws |-> call[c].ws,
                       j |-> call[c].j, size |-> call[c].size,
                       raised |-> call[c].raised,
                       got |-> [call[c].got EXCEPT ![w] = new]]
    BY <1>3, <1>5, <2>1, <2>2
  <2>4. SameCall(c) /\ IsCall(call'[c])
    BY <1>3, <2>1, <2>3 DEF SameCall, IsCall
  <2>5. \A d \in Caller : SameCall(d) /\ IsCall(call'[d])
    BY <2>1, <2>3, <2>4 DEF SameCall
  <2>6. QED
    BY <1>1, <1>2, <2>3, <2>5, BackgroundStep
<1>6. QED
  BY <1>1, <1>4, <1>5

LEMMA BackgroundSteps ==
  ASSUME IInv, NEW w \in Worker,
         \/ WorkerStep(w)
         \/ Spurious(w) /\ UNCHANGED <<topVars, call, calls, raises>>
  PROVE  IInv'
<1>1. CASE Does(w)
  BY <1>1, DoesStep
<1>2. CASE Raises(w)
  <2>1. Runs(w, "raised") /\ kind' = kind /\ indices' = indices /\ call' = call
    BY <1>2 DEF Raises, topVars
  <2>2. WorkerInv' /\ Quiet
    BY <2>1, RunsWorker DEF IInv, Futures
  <2>3. QED
    BY <2>1, <2>2, SameCalls, BackgroundStep
<1>3. CASE (MainStep(w) \/ Spurious(w)) /\ UNCHANGED <<topVars, call, calls, raises>>
  <2>1. kind' = kind /\ indices' = indices /\ call' = call
    BY <1>3 DEF topVars
  <2>2. WorkerInv' /\ Quiet
    BY <1>3, MainStepWorker DEF IInv
  <2>3. QED
    BY <2>1, <2>2, SameCalls, BackgroundStep
<1>4. QED
  BY <1>1, <1>2, <1>3 DEF WorkerStep

LEMMA InitIInv == Init => IInv
<1> SUFFICES ASSUME Init PROVE IInv
  OBVIOUS
<1> USE DEF Init
<1>1. WorkerInv
  BY TaskAssumption DEF WorkerInit, WorkerInv, WorkerType, ThreadOK, TasksOnce,
     Threads, Futures, Distinct, ToSet
<1>2. Open = {}
  BY DEF Open, NoCall
<1>3. ASSUME NEW c \in Caller PROVE CallOK(c)
  <2>1. call[c] = NoCall
    BY <1>3
  <2>2. IsCall(NoCall)
    BY DEF IsCall, NoCall, PhasesOf, KindHas, Distinct
  <2>3. FuturesOf(c)
    BY TaskOf DEF WorkerInit, FuturesOf
  <2>4. WorkersOf(c)
    BY <2>1 DEF WorkersOf, Passed, NoCall
  <2>5. QED
    BY <2>1, <2>2, <2>3, <2>4 DEF CallOK
<1>4. CallsOK
  BY <1>2, <1>3 DEF CallsOK
<1>5. \A w \in Worker : Owned(w)
  BY DEF WorkerInit, Owned
<1>6. QED
  BY <1>1, <1>4, <1>5 DEF IInv, Distinct

LEMMA StepIInv == IInv /\ [Next]_vars => IInv'
<1> SUFFICES ASSUME IInv, [Next]_vars PROVE IInv'
  OBVIOUS
<1>1. CASE Calls
  BY <1>1, CallsStep
<1>2. ASSUME NEW c \in Caller, CallStep(c) PROVE IInv'
  BY <1>2, MakesStep, GreetsStep, IsMadeStep, PostsStep, WaitsStep, ClosesStep,
     JoinsStep, ReturnsStep DEF CallStep
<1>3. ASSUME NEW w \in Worker,
             \/ WorkerStep(w)
             \/ Spurious(w) /\ UNCHANGED <<topVars, call, calls, raises>>
      PROVE  IInv'
  BY <1>3, BackgroundSteps
<1>4. CASE UNCHANGED vars
  <2>1. /\ UNCHANGED workerVars /\ kind' = kind /\ indices' = indices /\ call' = call
    BY <1>4 DEF vars, topVars
  <2>2. WorkerInv' /\ Quiet
    BY <2>1 DEF workerVars, IInv, WorkerInv, WorkerType, ThreadOK, TasksOnce, Quiet
  <2>3. QED
    BY <2>1, <2>2, SameCalls, BackgroundStep
<1>5. QED
  BY <1>1, <1>2, <1>3, <1>4 DEF Next

LEMMA AlwaysIInv == Spec => []IInv
BY InitIInv, StepIInv, PTL DEF Spec
----------------------------------------------------------------------------
\* A task is in one place at most.
LEMMA PlacesOnce ==
  ASSUME WorkerInv, NEW w \in Worker, NEW t \in Task
  PROVE  Places(t, w) = IF future[t][w] = "pending" THEN 1 ELSE 0
<1> DEFINE I == {i \in DOMAIN queue[w] : queue[w][i] = t}
<1>1. TasksOnce(w)
  BY DEF WorkerInv
<1>2. CASE t \in ToSet(queue[w])
  <2>1. PICK i \in DOMAIN queue[w] : queue[w][i] = t
    BY <1>2 DEF ToSet
  <2>2. I = {i}
    BY <1>1, <2>1 DEF TasksOnce, Distinct
  <2>3. data[w] # t /\ future[t][w] = "pending"
    BY <1>1, <1>2 DEF TasksOnce
  <2>4. Cardinality(I) = 1
    BY <2>2, FS_Singleton
  <2>5. QED
    BY <2>3, <2>4 DEF Places
<1>3. CASE t \notin ToSet(queue[w])
  <2>1. I = {}
    BY <1>3 DEF ToSet
  <2>2. Cardinality(I) = 0
    BY <2>1, FS_EmptySet
  <2>3. future[t][w] = "pending" <=> data[w] = t
    BY <1>1, <1>3 DEF TasksOnce
  <2>4. QED
    BY <2>2, <2>3 DEF Places
<1>4. QED
  BY <1>2, <1>3

\* A future is open exactly while its task is in the queue or runs, and there
\* once, and none is open behind a thread that has ended, whoever added, posted
\* or stopped at the same time (WorkerThread.cpp:44-108).
THEOREM FuturesAlwaysKept == Spec => []FuturesKept
<1>1. IInv => FuturesKept
  BY PlacesOnce, GoneHoldsNothing DEF IInv, FuturesKept
<1>2. QED
  BY <1>1, AlwaysIInv, PTL

\* A task waits or runs only while the call that posted it is open, also after a
\* function raised, and an index that is in no collection and no call has no
\* thread (ThreadedIndex-inl.h:90-118, 173-191).
THEOREM NoTaskComesLate == Spec => []NoLateTask
<1>1. ASSUME IInv PROVE NoLateTask
  <2> USE <1>1 DEF IInv
  <2>1. ASSUME NEW w \in Worker, NEW t \in Task, Places(t, w) > 0
        PROVE  t[1] \in Open
    <3>1. PICK c \in Caller, x \in {"hello", "work"} : t = <<c, x>>
      BY TaskIs
    <3>2. future[t][w] = "pending"
      BY <2>1, PlacesOnce
    <3>3. FuturesOf(c)
      BY DEF CallsOK, CallOK
    <3>4. call[c].ph # "idle"
      BY <3>1, <3>2, <3>3 DEF FuturesOf, Left
    <3>5. QED
      BY <3>1, <3>4 DEF Open
  <2>2. ASSUME NEW w \in Worker, ~Contains(indices, w),
               \A c \in Open : ~Contains(call[c].ws, w)
        PROVE  thread[w] \in {"none", "gone"}
    BY <2>2 DEF Owned
  <2>3. QED
    BY <2>1, <2>2 DEF NoLateTask
<1>2. QED
  BY <1>1, AlwaysIInv, PTL

----------------------------------------------------------------------------
(* Sums and slices.                                                        *)

\* A set of numbers that is not empty has a least one.
LEMMA LeastExists ==
  ASSUME NEW S \in SUBSET Nat, S # {}
  PROVE  \E n \in S : \A m \in S : n <= m
<1>1. IsWellFoundedOn(OpToRel(<, Nat), Nat)
  BY NatLessThanWellFounded
<1>2. PICK n \in S : \A m \in S : <<m, n>> \notin OpToRel(<, Nat)
  BY <1>1, WFMin, Zenon
<1>3. \A m \in S : ~(m < n)
  BY <1>2 DEF OpToRel
<1>4. QED
  BY <1>3

\* The running sums of the numbers len[i].
SumsUp(f, k, len) ==
  /\ f \in [0 .. k -> Nat] /\ f[0] = 0
  /\ \A i \in 1 .. k : f[i] = f[i - 1] + len[i]

\* Every sequence of numbers has running sums,
LEMMA SumsExist ==
  ASSUME NEW k \in Nat, NEW len \in [1 .. k -> Nat]
  PROVE  \E f : SumsUp(f, k, len)
<1> DEFINE Bad == {m \in 0 .. k : ~ \E f : SumsUp(f, m, len)}
<1>1. Bad = {}
  <2> SUFFICES ASSUME Bad # {} PROVE FALSE
    OBVIOUS
  <2>1. PICK m \in Bad : \A o \in Bad : m <= o
    <3>1. Bad \in SUBSET Nat
      OBVIOUS
    <3> HIDE DEF Bad
    <3>2. QED
      BY <3>1, LeastExists
  <2>2. CASE m = 0
    <3>1. SumsUp([i \in 0 .. 0 |-> 0], 0, len)
      BY DEF SumsUp
    <3>2. QED
      BY <2>2, <3>1
  <2>3. CASE m > 0
    <3>1. m - 1 \in 0 .. k /\ m \in 1 .. k /\ m - 1 \notin Bad
      BY <2>1, <2>3
    <3>2. PICK f : SumsUp(f, m - 1, len)
      BY <3>1
    <3> DEFINE g == [i \in 0 .. m |-> IF i = m THEN f[m - 1] + len[m] ELSE f[i]]
    <3>3. f[m - 1] \in Nat /\ len[m] \in Nat
      BY <3>1, <3>2 DEF SumsUp
    <3>4. g \in [0 .. m -> Nat] /\ g[0] = 0
      BY <3>1, <3>2, <3>3 DEF SumsUp
    <3>5. ASSUME NEW i \in 1 .. m PROVE g[i] = g[i - 1] + len[i]
      <4>1. i \in 0 .. m /\ i - 1 \in 0 .. m /\ i - 1 # m
        BY <3>1
      <4>2. g[i - 1] = f[i - 1]
        BY <4>1
      <4>3. CASE i = m
        BY <4>1, <4>2, <4>3
      <4>4. CASE i # m
        <5>1. i \in 1 .. m - 1 /\ g[i] = f[i]
          BY <3>1, <4>1, <4>4
        <5>2. f[i] = f[i - 1] + len[i]
          BY <3>2, <5>1 DEF SumsUp
        <5>3. QED
          BY <4>2, <5>1, <5>2
      <4>5. QED
        BY <4>3, <4>4
    <3>6. QED
      BY <3>4, <3>5 DEF SumsUp
  <2>4. QED
    BY <2>1, <2>2, <2>3
<1>2. k \in 0 .. k
  OBVIOUS
<1>3. k \notin Bad
  <2> HIDE DEF Bad
  <2>1. QED
    BY <1>1
<1>4. QED
  BY <1>2, <1>3

\* and they are the only ones.
LEMMA SumsUnique ==
  ASSUME NEW k \in Nat, NEW len, NEW f, NEW g, SumsUp(f, k, len), SumsUp(g, k, len)
  PROVE  \A i \in 0 .. k : f[i] = g[i]
<1> DEFINE Bad == {m \in 0 .. k : f[m] # g[m]}
<1> SUFFICES ASSUME Bad # {} PROVE FALSE
  OBVIOUS
<1>1. PICK m \in Bad : \A o \in Bad : m <= o
  <2>1. Bad \in SUBSET Nat
    OBVIOUS
  <2> HIDE DEF Bad
  <2>2. QED
    BY <2>1, LeastExists
<1>2. m # 0
  BY DEF SumsUp
<1>3. m - 1 \in 0 .. k /\ m \in 1 .. k /\ m - 1 \notin Bad
  BY <1>1, <1>2
<1>4. QED
  BY <1>3 DEF SumsUp

\* What grows from step to step grows.
LEMMA Grows ==
  ASSUME NEW k \in Nat, NEW f \in [0 .. k -> Nat],
         \A i \in 1 .. k : f[i - 1] <= f[i]
  PROVE  \A i, j \in 0 .. k : i <= j => f[i] <= f[j]
<1> SUFFICES ASSUME NEW i \in 0 .. k PROVE \A j \in 0 .. k : i <= j => f[i] <= f[j]
  OBVIOUS
<1> DEFINE Bad == {j \in 0 .. k : i <= j /\ ~(f[i] <= f[j])}
<1> SUFFICES ASSUME Bad # {} PROVE FALSE
  OBVIOUS
<1>1. PICK m \in Bad : \A o \in Bad : m <= o
  <2>1. Bad \in SUBSET Nat
    OBVIOUS
  <2> HIDE DEF Bad
  <2>2. QED
    BY <2>1, LeastExists
<1>2. m # i
  OBVIOUS
<1>3. m - 1 \in 0 .. k /\ m \in 1 .. k /\ i <= m - 1 /\ m - 1 \notin Bad
  BY <1>1, <1>2
<1>4. f[m - 1] <= f[m] /\ f[i] <= f[m - 1] /\ {f[i], f[m], f[m - 1]} \subseteq Nat
  BY <1>3
<1>5. QED
  BY <1>1, <1>4

\* ... and has one step over each number.
LEMMA StepOver ==
  ASSUME NEW k \in Nat, NEW f \in [0 .. k -> Nat],
         \A i \in 1 .. k : f[i - 1] <= f[i],
         NEW x \in Nat, f[0] <= x, x < f[k]
  PROVE  \E i \in 1 .. k : f[i - 1] <= x /\ x < f[i]
<1> DEFINE S == {j \in 0 .. k : x < f[j]}
<1>1. PICK i \in S : \A o \in S : i <= o
  <2>1. S \in SUBSET Nat /\ k \in S
    OBVIOUS
  <2> HIDE DEF S
  <2>2. QED
    BY <2>1, LeastExists
<1>2. i # 0
  OBVIOUS
<1>3. i \in 1 .. k /\ i - 1 \in 0 .. k /\ i - 1 \notin S
  BY <1>1, <1>2
<1>4. QED
  BY <1>3

LEMMA OneStepOver ==
  ASSUME NEW k \in Nat, NEW f \in [0 .. k -> Nat],
         \A i \in 1 .. k : f[i - 1] <= f[i],
         NEW x \in Nat, NEW i \in 1 .. k, NEW j \in 1 .. k,
         f[i - 1] <= x, x < f[i], f[j - 1] <= x, x < f[j]
  PROVE  i = j
<1>1. \A a, b \in 0 .. k : a <= b => f[a] <= f[b]
  BY Grows
<1>2. ASSUME NEW a \in 1 .. k, NEW b \in 1 .. k, a < b, x < f[a], f[b - 1] <= x PROVE FALSE
  <2>1. a \in 0 .. k /\ b - 1 \in 0 .. k /\ a <= b - 1
    BY <1>2
  <2>2. f[a] <= f[b - 1] /\ f[a] \in Nat /\ f[b - 1] \in Nat
    BY <1>1, <2>1
  <2>3. QED
    BY <1>2, <2>2
<1>3. QED
  BY <1>2

\* Division of numbers.
LEMMA DivIs ==
  ASSUME NEW a \in Nat, NEW k \in Nat \ {0}
  PROVE  /\ a \div k \in Nat
         /\ k * (a \div k) <= a /\ a < k * (a \div k) + k
OBVIOUS

LEMMA TimesLess ==
  ASSUME NEW k \in Nat, NEW a \in Nat, NEW b \in Nat, a <= b
  PROVE  k * a <= k * b /\ k * a \in Nat /\ k * b \in Nat
<1>1. b - a \in Nat /\ k * (b - a) >= 0 /\ k * (b - a) \in Nat
  OBVIOUS
<1>2. k * b = k * a + k * (b - a)
  OBVIOUS
<1>3. QED
  BY <1>1, <1>2

LEMMA DivGrows ==
  ASSUME NEW a \in Nat, NEW b \in Nat, a <= b, NEW k \in Nat \ {0}
  PROVE  a \div k <= b \div k
<1>1. PICK p \in Nat : p = a \div k
  BY DivIs
<1>2. PICK q \in Nat : q = b \div k
  BY DivIs
<1>3. k * p <= a /\ b < k * q + k
  BY <1>1, <1>2, DivIs
<1> SUFFICES ASSUME q + 1 <= p PROVE FALSE
  BY <1>1, <1>2
<1>4. k * (q + 1) <= k * p /\ k * (q + 1) = k * q + k
  BY TimesLess
<1> DEFINE x == k * p
           y == k * q
<1>5. x \in Nat /\ y \in Nat /\ x <= a /\ b < y + k /\ y + k <= x
  BY <1>3, <1>4
<1> HIDE DEF x, y
<1>6. QED
  BY <1>5

\* Where the slices of a batch begin.
LEMMA CutIs ==
  ASSUME NEW n \in Nat, NEW k \in Nat \ {0}
  PROVE  /\ \A i \in 0 .. k : Cut(n, i, k) \in Nat
         /\ Cut(n, 0, k) = 0 /\ Cut(n, k, k) = n
         /\ \A i \in 1 .. k : Cut(n, i - 1, k) <= Cut(n, i, k)
<1>1. \A i \in 0 .. k : n * i \in Nat /\ i * n = n * i
  OBVIOUS
<1>2. \A i \in 0 .. k : Cut(n, i, k) \in Nat
  BY <1>1, DivIs DEF Cut
<1>3. Cut(n, 0, k) = 0
  BY DEF Cut
<1>4. Cut(n, k, k) = n
  <2>1. PICK q \in Nat : q = (k * n) \div k
    BY DivIs
  <2>2. k * q <= k * n /\ k * n < k * q + k
    BY <2>1, DivIs
  <2>3. ASSUME q + 1 <= n PROVE FALSE
    <3>1. k * (q + 1) <= k * n /\ k * (q + 1) = k * q + k
      BY <2>3, TimesLess
    <3>2. QED
      BY <2>2, <3>1
  <2>4. ASSUME n + 1 <= q PROVE FALSE
    <3>1. k * (n + 1) <= k * q /\ k * (n + 1) = k * n + k
      BY <2>4, TimesLess
    <3>2. QED
      BY <2>2, <3>1
  <2>5. q = n
    BY <2>3, <2>4
  <2>6. QED
    BY <2>1, <2>5 DEF Cut
<1>5. ASSUME NEW i \in 1 .. k PROVE Cut(n, i - 1, k) <= Cut(n, i, k)
  <2>1. n * (i - 1) <= n * i /\ n * (i - 1) \in Nat /\ n * i \in Nat
    BY TimesLess
  <2>2. Cut(n, i - 1, k) = (n * (i - 1)) \div k /\ Cut(n, i, k) = (n * i) \div k
    BY <1>1 DEF Cut
  <2>3. QED
    BY <2>1, <2>2, DivGrows
<1>6. QED
  BY <1>2, <1>3, <1>4, <1>5

----------------------------------------------------------------------------
(* The sizes of the sub-indexes, added up.                                 *)

\* An entry of a sub-index: the number of a vector and the label it has there.
Entry == [v : Nat, id : Nat]

\* The collections that workers are added to and vectors are spread over.
Kind3 == {"shards", "successive", "replicas"}
Contents == [Worker -> Seq(Entry)]

\* The sizes of ws where the contents are cont, and the running sums of them.
Lens(cont, ws) == [i \in 1 .. Len(ws) |-> Len(cont[ws[i]])]

Shifts(cont, ws) ==
  LET translations[i \in 0 .. Len(ws)] ==
        IF i = 0 THEN 0 ELSE translations[i - 1] + Len(cont[ws[i]])
  IN  translations

\* The running sums are those of the translations.
LEMMA TranslationsAre == \A ws : Translations(ws) = Shifts(contents, ws)
BY DEF Translations, Shifts

LEMMA LensAre ==
  ASSUME NEW cont \in Contents, NEW ws \in Seq(Worker)
  PROVE  /\ Len(ws) \in Nat /\ DOMAIN ws = 1 .. Len(ws)
         /\ \A i \in 1 .. Len(ws) : ws[i] \in Worker /\ cont[ws[i]] \in Seq(Entry)
         /\ Lens(cont, ws) \in [1 .. Len(ws) -> Nat]
         /\ \A i \in 1 .. Len(ws) : Lens(cont, ws)[i] = Len(cont[ws[i]])
<1>1. /\ Len(ws) \in Nat /\ DOMAIN ws = 1 .. Len(ws)
      /\ \A i \in 1 .. Len(ws) : ws[i] \in Worker
  OBVIOUS
<1>2. \A i \in 1 .. Len(ws) : cont[ws[i]] \in Seq(Entry)
  BY <1>1 DEF Contents
<1>3. \A i \in 1 .. Len(ws) : Len(cont[ws[i]]) \in Nat
  BY <1>2
<1>4. QED
  BY <1>1, <1>2, <1>3 DEF Lens

\* They add the sizes up.
LEMMA ShiftsSum ==
  ASSUME NEW cont \in Contents, NEW ws \in Seq(Worker)
  PROVE  SumsUp(Shifts(cont, ws), Len(ws), Lens(cont, ws))
<1> DEFINE k == Len(ws)
           step(f, i) == IF i = 0 THEN 0 ELSE f[i - 1] + Len(cont[ws[i]])
<1>1. /\ k \in Nat /\ Lens(cont, ws) \in [1 .. k -> Nat]
      /\ \A i \in 1 .. k : Lens(cont, ws)[i] = Len(cont[ws[i]])
  BY LensAre
<1>2. \E f : SumsUp(f, k, Lens(cont, ws))
  BY <1>1, SumsExist
<1>3. PICK f : SumsUp(f, k, Lens(cont, ws))
  BY <1>2
<1>4. f = [i \in 0 .. k |-> step(f, i)]
  <2>1. f = [i \in 0 .. k |-> f[i]]
    BY <1>3 DEF SumsUp
  <2>2. ASSUME NEW i \in 0 .. k PROVE f[i] = step(f, i)
    <3>1. CASE i = 0
      BY <1>3, <3>1 DEF SumsUp
    <3>2. CASE i # 0
      <4>1. i \in 1 .. k
        BY <1>1, <3>2
      <4>2. QED
        BY <1>1, <1>3, <3>2, <4>1 DEF SumsUp
    <3>3. QED
      BY <3>1, <3>2
  <2> HIDE DEF step
  <2>3. QED
    BY <2>1, <2>2
<1> DEFINE g == CHOOSE h : h = [i \in 0 .. k |-> step(h, i)]
<1>5. g = [i \in 0 .. k |-> step(g, i)]
  <2> HIDE DEF k, step
  <2>1. \E h : h = [i \in 0 .. k |-> step(h, i)]
    BY <1>4
  <2>2. QED
    BY <2>1, Zenon
<1>6. Shifts(cont, ws) = g
  BY DEF Shifts
<1> HIDE DEF g
<1>7. /\ g[0] = 0 /\ DOMAIN g = 0 .. k
      /\ \A i \in 1 .. k : i \in 0 .. k /\ g[i] = g[i - 1] + Lens(cont, ws)[i]
  BY <1>1, <1>5
<1> HIDE DEF step, k
<1>8. ASSUME NEW i \in 0 .. k PROVE g[i] = f[i]
  <2> DEFINE Bad == {m \in 0 .. k : g[m] # f[m]}
  <2> SUFFICES ASSUME Bad # {} PROVE FALSE
    BY <1>8
  <2>1. PICK m \in Bad : \A o \in Bad : m <= o
    <3>1. Bad \in SUBSET Nat
      BY <1>1
    <3> HIDE DEF Bad
    <3>2. QED
      BY <3>1, LeastExists
  <2>2. m # 0
    BY <1>3, <1>7 DEF SumsUp
  <2>3. m - 1 \in 0 .. k /\ m \in 1 .. k /\ m - 1 \notin Bad
    BY <1>1, <2>1, <2>2
  <2>4. QED
    BY <1>3, <1>7, <2>3 DEF SumsUp
<1>9. g = f
  <2>1. f = [i \in 0 .. k |-> f[i]] /\ g = [i \in 0 .. k |-> g[i]]
    BY <1>3, <1>5 DEF SumsUp
  <2>2. QED
    BY <1>8, <2>1
<1>10. QED
  BY <1>3, <1>6, <1>9 DEF k

\* What there is to know of them.
LEMMA ShiftsAre ==
  ASSUME NEW cont \in Contents, NEW ws \in Seq(Worker)
  PROVE  /\ Shifts(cont, ws) \in [0 .. Len(ws) -> Nat]
         /\ Shifts(cont, ws)[0] = 0
         /\ \A i \in 1 .. Len(ws) :
              Shifts(cont, ws)[i] = Shifts(cont, ws)[i - 1] + Len(cont[ws[i]])
BY ShiftsSum, LensAre DEF SumsUp

\* A function that adds up the sizes is that of the shifts.
LEMMA ShiftsOnly ==
  ASSUME NEW cont \in Contents, NEW ws \in Seq(Worker),
         NEW f \in [0 .. Len(ws) -> Nat], f[0] = 0,
         \A i \in 1 .. Len(ws) : f[i] = f[i - 1] + Len(cont[ws[i]])
  PROVE  \A i \in 0 .. Len(ws) : Shifts(cont, ws)[i] = f[i]
<1>1. SumsUp(f, Len(ws), Lens(cont, ws))
  BY LensAre DEF SumsUp
<1>2. QED
  BY <1>1, ShiftsSum, SumsUnique, LensAre

----------------------------------------------------------------------------
(* What the sub-indexes hold between them.                                 *)

\* The numbers before n, each under itself.
Numbers(n) == [j \in 1 .. n |-> [v |-> j - 1, id |-> j - 1]]

\* Each replica has all of them.
AllInEach(ws, cont, n) == \A i \in DOMAIN ws : cont[ws[i]] = Numbers(n)

\* With successive_ids one sub-index goes on where another ended.
InARow(ws, cont) ==
  \A i \in 1 .. Len(ws) : \A j \in DOMAIN cont[ws[i]] :
    cont[ws[i]][j] = [v |-> Shifts(cont, ws)[i - 1] + j - 1, id |-> j - 1]

\* Without, each number is in one place, under itself.
NumbersSelf(ws, cont, n) ==
  \A i \in 1 .. Len(ws) : \A j \in DOMAIN cont[ws[i]] :
    cont[ws[i]][j].v = cont[ws[i]][j].id /\ cont[ws[i]][j].v < n

\* ... and no number is in two places,
InOnePlace(ws, cont) ==
  \A i, k \in 1 .. Len(ws) : \A j \in DOMAIN cont[ws[i]], l \in DOMAIN cont[ws[k]] :
    cont[ws[i]][j].v = cont[ws[k]][l].v => i = k /\ j = l

\* ... and each has one.
InSomePlace(ws, cont, n) ==
  \A x \in 0 .. n - 1 : \E i \in 1 .. Len(ws) : \E j \in DOMAIN cont[ws[i]] :
    cont[ws[i]][j].v = x

\* The sub-indexes ws of a collection hold the vectors before n.
Holds(kd, ws, cont, n) ==
  /\ ws = <<>> => n = 0
  /\ kd = "replicas" => AllInEach(ws, cont, n)
  /\ kd # "replicas" => Shifts(cont, ws)[Len(ws)] = n
  /\ kd = "successive" => InARow(ws, cont)
  /\ kd = "shards" => /\ NumbersSelf(ws, cont, n)
                      /\ InOnePlace(ws, cont)
                      /\ InSomePlace(ws, cont, n)

\* What syncWithSubIndexes counts.
CountIs(kd, ws, cont) ==
  IF ws = <<>> THEN 0
  ELSE IF kd = "replicas" THEN Len(cont[ws[1]]) ELSE Shifts(cont, ws)[Len(ws)]

LEMMA CountedIs == \A ws : Counted(ws) = CountIs(kind, ws, contents)
BY TranslationsAre DEF Counted, CountIs

LEMMA NumbersAre ==
  ASSUME NEW n \in Nat
  PROVE  /\ Numbers(n) \in Seq(Entry) /\ Len(Numbers(n)) = n
         /\ DOMAIN Numbers(n) = 1 .. n
         /\ \A j \in 1 .. n : Numbers(n)[j] = [v |-> j - 1, id |-> j - 1]
<1>1. Numbers(n) \in [1 .. n -> Entry]
  BY DEF Numbers, Entry
<1>2. Numbers(n) \in Seq(Entry) /\ Len(Numbers(n)) = n
  BY <1>1, SeqDef DEF Numbers
<1>3. QED
  BY <1>2 DEF Numbers

\* A collection that holds n vectors counts n.
LEMMA HoldsCount ==
  ASSUME NEW kd, NEW ws \in Seq(Worker), NEW cont \in Contents, NEW n \in Nat,
         Holds(kd, ws, cont, n)
  PROVE  CountIs(kd, ws, cont) = n
<1>1. CASE ws = <<>>
  BY <1>1 DEF CountIs, Holds
<1>2. CASE ws # <<>> /\ kd = "replicas"
  <2>1. 1 \in DOMAIN ws
    BY <1>2
  <2>2. QED
    BY <1>2, <2>1, NumbersAre DEF CountIs, Holds, AllInEach
<1>3. CASE ws # <<>> /\ kd # "replicas"
  BY <1>3 DEF CountIs, Holds
<1>4. QED
  BY <1>1, <1>2, <1>3

LEMMA CountNat ==
  ASSUME NEW kd, NEW ws \in Seq(Worker), NEW cont \in Contents
  PROVE  CountIs(kd, ws, cont) \in Nat
<1>1. CASE ws # <<>>
  <2>1. 1 \in 1 .. Len(ws) /\ Len(ws) \in 0 .. Len(ws)
    BY <1>1
  <2>2. Len(cont[ws[1]]) \in Nat
    BY <2>1, LensAre
  <2>3. Shifts(cont, ws)[Len(ws)] \in Nat
    BY <2>1, ShiftsAre
  <2>4. QED
    BY <2>2, <2>3 DEF CountIs
<1>2. QED
  BY <1>1 DEF CountIs

\* Sub-indexes without a vector hold none.
LEMMA HoldsNone ==
  ASSUME NEW kd, NEW ws \in Seq(Worker), NEW cont \in Contents,
         \A i \in DOMAIN ws : cont[ws[i]] = <<>>
  PROVE  Holds(kd, ws, cont, 0)
<1>1. /\ Len(ws) \in Nat /\ DOMAIN ws = 1 .. Len(ws)
      /\ \A i \in 1 .. Len(ws) : cont[ws[i]] = <<>> /\ DOMAIN cont[ws[i]] = {}
  OBVIOUS
<1>2. Shifts(cont, ws)[Len(ws)] = 0
  <2> DEFINE zero == [i \in 0 .. Len(ws) |-> 0]
  <2>1. /\ zero \in [0 .. Len(ws) -> Nat] /\ zero[0] = 0
        /\ \A i \in 1 .. Len(ws) : zero[i] = zero[i - 1] + Len(cont[ws[i]])
    BY <1>1
  <2>2. Len(ws) \in 0 .. Len(ws) /\ zero[Len(ws)] = 0
    BY <1>1
  <2> HIDE DEF zero
  <2>3. QED
    BY <2>1, <2>2, ShiftsOnly
<1>3. Numbers(0) = <<>>
  BY DEF Numbers
<1>4. AllInEach(ws, cont, 0)
  BY <1>1, <1>3 DEF AllInEach
<1>5. /\ InARow(ws, cont) /\ NumbersSelf(ws, cont, 0)
      /\ InOnePlace(ws, cont) /\ InSomePlace(ws, cont, 0)
  BY <1>1 DEF InARow, NumbersSelf, InOnePlace, InSomePlace
<1>6. QED
  BY <1>2, <1>4, <1>5 DEF Holds

\* A sub-index that has what it should comes to the others.
LEMMA HoldsAppend ==
  ASSUME NEW kd, NEW ws \in Seq(Worker), NEW cont \in Contents, NEW n \in Nat,
         Holds(kd, ws, cont, n), NEW w \in Worker,
         IF kd = "replicas" /\ ws # <<>> THEN cont[w] = cont[ws[1]]
                                         ELSE cont[w] = <<>>
  PROVE  Holds(kd, Append(ws, w), cont, n)
<1> DEFINE s == Append(ws, w)
           k == Len(ws)
<1>1. /\ k \in Nat /\ DOMAIN ws = 1 .. k
      /\ s \in Seq(Worker) /\ Len(s) = k + 1 /\ DOMAIN s = 1 .. k + 1
      /\ \A i \in 1 .. k : s[i] = ws[i]
      /\ s[k + 1] = w /\ s # <<>>
  OBVIOUS
<1>2. CASE kd = "replicas"
  <2>1. cont[w] = Numbers(n)
    <3>1. CASE ws = <<>>
      BY <1>2, <3>1 DEF Holds, Numbers
    <3>2. CASE ws # <<>>
      <4>1. 1 \in DOMAIN ws
        BY <3>2
      <4>2. QED
        BY <1>2, <3>2, <4>1 DEF Holds, AllInEach
    <3>3. QED
      BY <3>1, <3>2
  <2>2. ASSUME NEW i \in 1 .. k + 1 PROVE cont[s[i]] = Numbers(n)
    <3>1. i \in 1 .. k \/ i = k + 1
      BY <1>1
    <3>2. QED
      BY <1>1, <1>2, <2>1, <3>1 DEF Holds, AllInEach
  <2>3. QED
    BY <1>1, <1>2, <2>2 DEF Holds, AllInEach
<1>3. CASE kd # "replicas"
  <2> HIDE DEF s
  <2>1. cont[w] = <<>> /\ Len(cont[w]) = 0 /\ DOMAIN cont[w] = {}
    BY <1>3
  <2> DEFINE f == [i \in 0 .. k + 1 |-> IF i = k + 1 THEN Shifts(cont, ws)[k]
                                        ELSE Shifts(cont, ws)[i]]
  <2>2. /\ Shifts(cont, ws) \in [0 .. k -> Nat] /\ Shifts(cont, ws)[0] = 0
        /\ \A i \in 1 .. k :
             Shifts(cont, ws)[i] = Shifts(cont, ws)[i - 1] + Len(cont[ws[i]])
    BY ShiftsAre
  <2>3. f \in [0 .. k + 1 -> Nat] /\ f[0] = 0
    BY <1>1, <2>2
  <2>4. ASSUME NEW i \in 1 .. k + 1 PROVE f[i] = f[i - 1] + Len(cont[s[i]])
    <3>1. CASE i \in 1 .. k
      BY <1>1, <2>2, <3>1
    <3>2. CASE i = k + 1
      BY <1>1, <2>1, <2>2, <3>2
    <3>3. QED
      BY <1>1, <3>1, <3>2
  <2>5. \A i \in 0 .. k : f[i] = Shifts(cont, ws)[i]
    BY <1>1
  <2>6. f[k + 1] = Shifts(cont, ws)[k]
    BY <1>1
  <2> HIDE DEF f
  <2>7. \A i \in 0 .. k + 1 : Shifts(cont, s)[i] = f[i]
    <3>1. /\ s \in Seq(Worker) /\ Len(s) = k + 1
          /\ f \in [0 .. Len(s) -> Nat] /\ f[0] = 0
          /\ \A i \in 1 .. Len(s) : f[i] = f[i - 1] + Len(cont[s[i]])
      BY <1>1, <2>3, <2>4
    <3>2. \A i \in 0 .. Len(s) : Shifts(cont, s)[i] = f[i]
      BY <3>1, ShiftsOnly
    <3>3. QED
      BY <3>1, <3>2
  <2>8. /\ \A i \in 0 .. k : Shifts(cont, s)[i] = Shifts(cont, ws)[i]
        /\ Shifts(cont, s)[k + 1] = n
    BY <1>1, <1>3, <2>5, <2>6, <2>7 DEF Holds
  <2>9. ASSUME NEW i \in 1 .. k + 1, NEW j \in DOMAIN cont[s[i]]
        PROVE  i \in 1 .. k /\ s[i] = ws[i] /\ j \in DOMAIN cont[ws[i]]
               /\ i - 1 \in 0 .. k
    BY <1>1, <2>1, <2>9
  <2>10. kd = "successive" => InARow(s, cont)
    BY <1>1, <2>8, <2>9 DEF Holds, InARow
  <2>11. kd = "shards" => NumbersSelf(s, cont, n)
    BY <1>1, <2>9 DEF Holds, NumbersSelf
  <2>12. kd = "shards" => InOnePlace(s, cont)
    BY <1>1, <2>9 DEF Holds, InOnePlace
  <2>13. kd = "shards" => InSomePlace(s, cont, n)
    <3> SUFFICES ASSUME kd = "shards", NEW x \in 0 .. n - 1
                 PROVE  \E i \in 1 .. k + 1 : \E j \in DOMAIN cont[s[i]] :
                          cont[s[i]][j].v = x
      BY <1>1 DEF InSomePlace
    <3>1. PICK i \in 1 .. k : \E j \in DOMAIN cont[ws[i]] : cont[ws[i]][j].v = x
      BY DEF Holds, InSomePlace
    <3>2. i \in 1 .. k + 1 /\ s[i] = ws[i]
      BY <1>1
    <3>3. QED
      BY <3>1, <3>2
  <2>14. Holds(kd, s, cont, n)
    BY <1>1, <1>3, <2>8, <2>10, <2>11, <2>12, <2>13 DEF Holds
  <2>15. QED
    BY <2>14 DEF s
<1>4. QED
  BY <1>2, <1>3

\* A sub-index without a vector goes, or a replica that is not the last.
LEMMA HoldsRemove ==
  ASSUME NEW kd, NEW ws \in Seq(Worker), NEW cont \in Contents, NEW n \in Nat,
         Holds(kd, ws, cont, n), NEW p \in 1 .. Len(ws), NEW s \in Seq(Worker),
         Len(s) = Len(ws) - 1,
         \A i \in 1 .. Len(ws) - 1 : s[i] = IF i < p THEN ws[i] ELSE ws[i + 1],
         cont[ws[p]] = <<>> \/ (kd = "replicas" /\ s # <<>>)
  PROVE  Holds(kd, s, cont, n)
<1> DEFINE k == Len(ws) - 1
           at(i) == IF i < p THEN i ELSE i + 1
<1>1. /\ k \in Nat /\ Len(ws) = k + 1 /\ DOMAIN ws = 1 .. k + 1
      /\ Len(s) = k /\ DOMAIN s = 1 .. k /\ p \in 1 .. k + 1
      /\ \A i \in 1 .. k : at(i) \in 1 .. k + 1 /\ s[i] = ws[at(i)] /\ at(i) # p
      /\ \A i, m \in 1 .. k : at(i) = at(m) => i = m
  OBVIOUS
<1>2. CASE kd = "replicas"
  <2>1. AllInEach(s, cont, n)
    BY <1>1, <1>2 DEF Holds, AllInEach
  <2>2. ASSUME s = <<>> PROVE n = 0
    <3>1. cont[ws[p]] = <<>> /\ cont[ws[p]] = Numbers(n)
      BY <1>1, <1>2, <2>2 DEF Holds, AllInEach
    <3>2. QED
      BY <3>1, NumbersAre
  <2>3. QED
    BY <1>2, <2>1, <2>2 DEF Holds
<1>3. CASE kd # "replicas"
  <2> DEFINE S == Shifts(cont, ws)
             f == [i \in 0 .. k |-> IF i < p THEN S[i] ELSE S[i + 1]]
  <2>1. cont[ws[p]] = <<>> /\ Len(cont[ws[p]]) = 0 /\ DOMAIN cont[ws[p]] = {}
    BY <1>3
  <2>2. /\ S \in [0 .. k + 1 -> Nat] /\ S[0] = 0
        /\ \A i \in 1 .. k + 1 : S[i] = S[i - 1] + Len(cont[ws[i]])
    <3>1. /\ S \in [0 .. Len(ws) -> Nat] /\ S[0] = 0
          /\ \A i \in 1 .. Len(ws) : S[i] = S[i - 1] + Len(cont[ws[i]])
      BY ShiftsAre
    <3> HIDE DEF S
    <3>2. Len(ws) = k + 1
      BY <1>1
    <3>3. QED
      BY <3>1, <3>2
  <2>3. S[k + 1] = n
    BY <1>1, <1>3 DEF Holds
  <2> HIDE DEF S
  <2>4. f \in [0 .. k -> Nat] /\ f[0] = 0
    BY <1>1, <2>2
  <2>5. S[p] = S[p - 1]
    BY <1>1, <2>1, <2>2
  <2>6. ASSUME NEW i \in 1 .. k PROVE f[i - 1] = S[at(i) - 1] /\ f[i] = S[at(i)]
    <3>1. CASE i < p
      BY <1>1, <3>1
    <3>2. CASE i = p
      BY <1>1, <2>5, <3>2
    <3>3. CASE i > p
      BY <1>1, <3>3
    <3>4. QED
      BY <1>1, <3>1, <3>2, <3>3
  <2>7. f[k] = n
    <3>1. CASE k < p
      <4>1. p = k + 1 /\ p - 1 = k
        BY <1>1, <3>1
      <4>2. f[k] = S[k]
        BY <1>1, <3>1
      <4>3. QED
        BY <2>3, <2>5, <4>1, <4>2
    <3>2. CASE ~(k < p)
      BY <1>1, <2>3, <3>2
    <3>3. QED
      BY <3>1, <3>2
  <2> HIDE DEF f, at
  <2>8. ASSUME NEW i \in 1 .. k PROVE f[i] = f[i - 1] + Len(cont[s[i]])
    BY <1>1, <2>2, <2>6
  <2>9. \A i \in 0 .. k : Shifts(cont, s)[i] = f[i]
    <3>1. Len(s) = k
      BY <1>1
    <3> HIDE DEF k
    <3>2. QED
      BY <2>4, <2>8, <3>1, ShiftsOnly
  <2>10. Shifts(cont, s)[k] = n
    BY <1>1, <2>7, <2>9
  <2>11. \A i \in 1 .. k : Shifts(cont, s)[i - 1] = S[at(i) - 1]
    BY <1>1, <2>6, <2>9
  <2>12. ASSUME s = <<>> PROVE n = 0
    BY <1>1, <2>4, <2>7, <2>12
  <2>13. ASSUME kd = "successive" PROVE InARow(s, cont)
    <3>1. \A i \in 1 .. k + 1 : \A j \in DOMAIN cont[ws[i]] :
            cont[ws[i]][j] = [v |-> S[i - 1] + j - 1, id |-> j - 1]
      BY <1>1, <2>13 DEF Holds, InARow, S
    <3> SUFFICES ASSUME NEW i \in 1 .. k, NEW j \in DOMAIN cont[s[i]]
                 PROVE  cont[s[i]][j] = [v |-> Shifts(cont, s)[i - 1] + j - 1, id |-> j - 1]
      BY <1>1 DEF InARow
    <3>2. at(i) \in 1 .. k + 1 /\ s[i] = ws[at(i)]
      BY <1>1
    <3>3. Shifts(cont, s)[i - 1] = S[at(i) - 1]
      BY <2>11
    <3>4. QED
      BY <3>1, <3>2, <3>3
  <2>14. ASSUME kd = "shards" PROVE NumbersSelf(s, cont, n)
    <3> SUFFICES ASSUME NEW i \in 1 .. k, NEW j \in DOMAIN cont[s[i]]
                 PROVE  cont[s[i]][j].v = cont[s[i]][j].id /\ cont[s[i]][j].v < n
      BY <1>1 DEF NumbersSelf
    <3>1. at(i) \in 1 .. Len(ws) /\ s[i] = ws[at(i)]
      BY <1>1
    <3>2. QED
      BY <2>14, <3>1 DEF Holds, NumbersSelf
  <2>15. ASSUME kd = "shards" PROVE InOnePlace(s, cont)
    <3> SUFFICES ASSUME NEW i \in 1 .. k, NEW m \in 1 .. k,
                        NEW j \in DOMAIN cont[s[i]], NEW l \in DOMAIN cont[s[m]],
                        cont[s[i]][j].v = cont[s[m]][l].v
                 PROVE  i = m /\ j = l
      BY <1>1 DEF InOnePlace
    <3>1. /\ at(i) \in 1 .. Len(ws) /\ s[i] = ws[at(i)]
          /\ at(m) \in 1 .. Len(ws) /\ s[m] = ws[at(m)]
      BY <1>1
    <3>2. PICK a \in 1 .. Len(ws), b \in 1 .. Len(ws) : a = at(i) /\ b = at(m)
      BY <3>1
    <3>3. /\ j \in DOMAIN cont[ws[a]] /\ l \in DOMAIN cont[ws[b]]
          /\ cont[ws[a]][j].v = cont[ws[b]][l].v
      BY <3>1, <3>2
    <3>4. InOnePlace(ws, cont)
      BY <2>15 DEF Holds
    <3>5. a = b /\ j = l
      BY <3>3, <3>4 DEF InOnePlace
    <3>6. QED
      BY <1>1, <3>2, <3>5
  <2>16. ASSUME kd = "shards" PROVE InSomePlace(s, cont, n)
    <3> SUFFICES ASSUME NEW x \in 0 .. n - 1
                 PROVE  \E i \in 1 .. k : \E j \in DOMAIN cont[s[i]] : cont[s[i]][j].v = x
      BY <1>1 DEF InSomePlace
    <3>1. PICK m \in 1 .. k + 1 : \E j \in DOMAIN cont[ws[m]] : cont[ws[m]][j].v = x
      BY <1>1, <2>16 DEF Holds, InSomePlace
    <3>2. m # p
      BY <2>1, <3>1
    <3>3. \E i \in 1 .. k : at(i) = m
      <4>1. CASE m < p
        <5>1. m \in 1 .. k /\ at(m) = m
          BY <1>1, <4>1 DEF at
        <5>2. QED
          BY <5>1
      <4>2. CASE m > p
        <5>1. m - 1 \in 1 .. k /\ at(m - 1) = m
          BY <1>1, <4>2 DEF at
        <5>2. QED
          BY <5>1
      <4>3. QED
        BY <1>1, <3>2, <4>1, <4>2
    <3>4. PICK i \in 1 .. k : at(i) = m
      BY <3>3
    <3>5. s[i] = ws[m]
      BY <1>1, <3>4
    <3>6. QED
      BY <3>1, <3>5
  <2>17. QED
    BY <1>1, <1>3, <2>10, <2>12, <2>13, <2>14, <2>15, <2>16 DEF Holds
<1>4. QED
  BY <1>2, <1>3

----------------------------------------------------------------------------
(* What an add brings to the i-th of k sub-indexes.                        *)

\* The slice of a batch of n that the i-th of k gets: from ..., up to, not with, ...
From(kd, n, i, k) == IF kd = "replicas" THEN 0 ELSE Cut(n, i - 1, k)
UpTo(kd, n, i, k) == IF kd = "replicas" THEN n ELSE Cut(n, i, k)

\* The entries, when com vectors are committed, the collection counts tot and
\* the sub-index has len.
NewAt(kd, com, tot, len, n, i, k) ==
  [j \in 1 .. UpTo(kd, n, i, k) - From(kd, n, i, k) |->
     [v |-> com + (From(kd, n, i, k) + j - 1),
      id |-> IF kd = "shards" THEN tot + (From(kd, n, i, k) + j - 1) ELSE len + j - 1]]

LEMMA FromUpTo ==
  ASSUME NEW kd, NEW n \in Nat, NEW k \in Nat \ {0}, NEW i \in 1 .. k
  PROVE  /\ From(kd, n, i, k) \in Nat /\ UpTo(kd, n, i, k) \in Nat
         /\ From(kd, n, i, k) <= UpTo(kd, n, i, k)
<1>1. i \in 0 .. k /\ i - 1 \in 0 .. k
  OBVIOUS
<1>2. /\ Cut(n, i - 1, k) \in Nat /\ Cut(n, i, k) \in Nat
      /\ Cut(n, i - 1, k) <= Cut(n, i, k)
  BY <1>1, CutIs
<1>3. QED
  BY <1>2 DEF From, UpTo

\* What NewAt(kd, com, tot, len, n, i, k) is like, between lo and up.
IsNew(m, kd, com, tot, len, lo, up) ==
  /\ m \in Seq(Entry) /\ Len(m) = up - lo
  /\ \A j \in 1 .. up - lo :
       m[j] = [v |-> com + (lo + j - 1),
               id |-> IF kd = "shards" THEN tot + (lo + j - 1) ELSE len + j - 1]

LEMMA NewAtIs ==
  ASSUME NEW kd, NEW com \in Nat, NEW tot \in Nat, NEW len \in Nat, NEW n \in Nat,
         NEW k \in Nat \ {0}, NEW i \in 1 .. k
  PROVE  IsNew(NewAt(kd, com, tot, len, n, i, k), kd, com, tot, len,
               From(kd, n, i, k), UpTo(kd, n, i, k))
<1>1. PICK lo \in Nat, up \in Nat :
        lo = From(kd, n, i, k) /\ up = UpTo(kd, n, i, k) /\ lo <= up
  BY FromUpTo
<1>2. PICK m : m = NewAt(kd, com, tot, len, n, i, k)
  OBVIOUS
<1>3. m = [j \in 1 .. up - lo |->
             [v |-> com + (lo + j - 1),
              id |-> IF kd = "shards" THEN tot + (lo + j - 1) ELSE len + j - 1]]
  BY <1>1, <1>2 DEF NewAt
<1>4. up - lo \in Nat
  BY <1>1
<1>5. m \in [1 .. up - lo -> Entry]
  <2>1. ASSUME NEW j \in 1 .. up - lo
        PROVE  /\ com + (lo + j - 1) \in Nat /\ tot + (lo + j - 1) \in Nat
               /\ len + j - 1 \in Nat
    BY <1>1
  <2>2. ASSUME NEW j \in 1 .. up - lo
        PROVE  [v |-> com + (lo + j - 1),
                id |-> IF kd = "shards" THEN tot + (lo + j - 1) ELSE len + j - 1]
                 \in Entry
    BY <2>1 DEF Entry
  <2>3. QED
    BY <1>3, <2>2
<1>6. m \in Seq(Entry) /\ Len(m) = up - lo
  BY <1>4, <1>5, SeqDef
<1>7. IsNew(m, kd, com, tot, len, lo, up)
  BY <1>3, <1>6 DEF IsNew
<1>8. QED
  BY <1>1, <1>2, <1>7

\* What a sub-index that had s has after it.
IsLonger(t, s, kd, com, lo, up) ==
  /\ t \in Seq(Entry)
  /\ Len(t) = Len(s) + (up - lo) /\ DOMAIN t = 1 .. Len(s) + (up - lo)
  /\ \A j \in 1 .. Len(s) : t[j] = s[j]
  /\ \A j \in DOMAIN t : j > Len(s) =>
       t[j] = [v |-> com + (lo + (j - Len(s)) - 1),
               id |-> IF kd = "shards" THEN com + (lo + (j - Len(s)) - 1) ELSE j - 1]

\* Some entries appended make a longer sub-index.
LEMMA LongerIs ==
  ASSUME NEW kd, NEW com \in Nat, NEW s \in Seq(Entry), NEW m,
         NEW lo \in Nat, NEW up \in Nat, lo <= up,
         IsNew(m, kd, com, com, Len(s), lo, up)
  PROVE  IsLonger(s \o m, s, kd, com, lo, up)
<1>1. PICK l \in Nat : l = Len(s)
  OBVIOUS
<1>2. PICK t : t = s \o m
  OBVIOUS
<1>3. /\ m \in Seq(Entry) /\ Len(m) = up - lo
      /\ \A j \in 1 .. up - lo :
           m[j] = [v |-> com + (lo + j - 1),
                   id |-> IF kd = "shards" THEN com + (lo + j - 1) ELSE l + j - 1]
  BY <1>1 DEF IsNew
<1>4. /\ s \o m \in Seq(Entry) /\ Len(s \o m) = Len(s) + Len(m)
      /\ \A j \in 1 .. Len(s) + Len(m) :
           (s \o m)[j] = IF j <= Len(s) THEN s[j] ELSE m[j - Len(s)]
  BY <1>3, ConcatProperties, Zenon
<1>5. /\ t \in Seq(Entry) /\ Len(t) = l + (up - lo) /\ DOMAIN t = 1 .. l + (up - lo)
      /\ \A j \in 1 .. l + (up - lo) : t[j] = IF j <= l THEN s[j] ELSE m[j - l]
  BY <1>1, <1>2, <1>3, <1>4
<1>6. ASSUME NEW j \in 1 .. l + (up - lo), j > l
      PROVE  t[j] = [v |-> com + (lo + (j - l) - 1),
                     id |-> IF kd = "shards" THEN com + (lo + (j - l) - 1) ELSE j - 1]
  <2>1. PICK o \in 1 .. up - lo : o = j - l /\ l + o - 1 = j - 1
    <3>1. up - lo \in Nat /\ j \in Nat /\ j <= l + (up - lo)
      OBVIOUS
    <3>2. j - l \in 1 .. up - lo /\ l + (j - l) - 1 = j - 1
      BY <1>6, <3>1
    <3>3. QED
      BY <3>2
  <2>2. t[j] = m[o]
    BY <1>5, <1>6, <2>1
  <2>3. QED
    BY <1>3, <2>1, <2>2
<1>7. \A j \in 1 .. l : j \in 1 .. l + (up - lo) /\ t[j] = s[j]
  BY <1>5
<1>8. IsLonger(t, s, kd, com, lo, up)
  BY <1>1, <1>5, <1>6, <1>7 DEF IsLonger
<1>9. QED
  BY <1>2, <1>8

\* Cuts of n into k slices.
Cuts(cut, k, n) ==
  /\ cut \in [0 .. k -> Nat] /\ cut[0] = 0 /\ cut[k] = n
  /\ \A i \in 1 .. k : cut[i - 1] <= cut[i]

LEMMA CutsAre ==
  ASSUME NEW k \in Nat \ {0}, NEW n \in Nat, NEW cut, Cuts(cut, k, n), NEW i \in 1 .. k
  PROVE  /\ cut[i - 1] \in Nat /\ cut[i] \in Nat
         /\ cut[i - 1] <= cut[i] /\ cut[i] <= n
<1>1. i - 1 \in 0 .. k /\ i \in 0 .. k /\ k \in 0 .. k /\ i <= k
  OBVIOUS
<1>2. cut[i] <= cut[k] /\ cut[k] = n
  BY <1>1, Grows DEF Cuts
<1>3. QED
  BY <1>1, <1>2 DEF Cuts

\* Rows of numbers, a[i] for each i up to k: all before n, each in one place, and
\* none left out.
RowsBelow(a, k, n)  == \A i \in 1 .. k : \A j \in DOMAIN a[i] : a[i][j] \in 0 .. n - 1
RowsOnce(a, k) ==
  \A i, m \in 1 .. k : \A j \in DOMAIN a[i], l \in DOMAIN a[m] :
    a[i][j] = a[m][l] => i = m /\ j = l
RowsAll(a, k, n) ==
  \A x \in 0 .. n - 1 : \E i \in 1 .. k : \E j \in DOMAIN a[i] : a[i][j] = x

RowsHave(a, k, n) == RowsBelow(a, k, n) /\ RowsOnce(a, k) /\ RowsAll(a, k, n)

\* A row s of L numbers is longer by a slice.
RowGrown(t, s, L, lo, up, com) ==
  /\ L \in Nat /\ DOMAIN s = 1 .. L /\ DOMAIN t = 1 .. L + (up - lo)
  /\ \A j \in 1 .. L : t[j] = s[j]
  /\ \A j \in DOMAIN t : j > L => t[j] = com + (lo + (j - L) - 1)

\* ... that is, has what it had and the numbers of the slice.
RowLonger(t, s, L, lo, up, com) ==
  /\ \A j \in DOMAIN t :
       \/ j \in DOMAIN s /\ t[j] = s[j]
       \/ \E y \in Nat : /\ t[j] = com + y /\ lo <= y /\ y < up
                         /\ j = L + (y - lo) + 1
  /\ \A j \in DOMAIN s : j \in DOMAIN t /\ t[j] = s[j]
  /\ \A y \in Nat : lo <= y /\ y < up => \E j \in DOMAIN t : t[j] = com + y

\* The row is what it was, and the slice.
LEMMA RowIs ==
  ASSUME NEW t, NEW s, NEW L, NEW lo \in Nat, NEW up \in Nat, lo <= up,
         NEW com \in Nat, RowGrown(t, s, L, lo, up, com)
  PROVE  RowLonger(t, s, L, lo, up, com)
<1> USE DEF RowGrown
<1>1. ASSUME NEW j \in DOMAIN t
      PROVE  \/ j \in DOMAIN s /\ t[j] = s[j]
             \/ \E y \in Nat : /\ t[j] = com + y /\ lo <= y /\ y < up
                               /\ j = L + (y - lo) + 1
  <2>1. j \in Nat /\ j >= 1 /\ j <= L + (up - lo)
    OBVIOUS
  <2>2. CASE j > L
    <3>1. PICK y \in Nat : y = lo + (j - L) - 1
      BY <2>1, <2>2
    <3>2. lo <= y /\ y < up /\ j = L + (y - lo) + 1
      BY <2>1, <2>2, <3>1
    <3>3. t[j] = com + y
      BY <2>2, <3>1
    <3>4. QED
      BY <3>2, <3>3
  <2>3. CASE j <= L
    BY <2>1, <2>3
  <2>4. QED
    BY <2>1, <2>2, <2>3
<1>2. ASSUME NEW j \in DOMAIN s PROVE j \in DOMAIN t /\ t[j] = s[j]
  OBVIOUS
<1>3. ASSUME NEW y \in Nat, lo <= y, y < up PROVE \E j \in DOMAIN t : t[j] = com + y
  <2>1. PICK j \in Nat : j = L + (y - lo) + 1
    BY <1>3
  <2>2. j \in 1 .. L + (up - lo) /\ j > L /\ lo + (j - L) - 1 = y
    BY <1>3, <2>1
  <2>3. QED
    BY <2>2
<1>4. QED
  BY <1>1, <1>2, <1>3 DEF RowLonger

\* The numbers of an add, cut into slices, go behind those that are there.
LEMMA RowsAdd ==
  ASSUME NEW k \in Nat \ {0}, NEW com \in Nat, NEW n \in Nat,
         NEW cut, Cuts(cut, k, n), NEW L, NEW a, NEW b,
         RowsHave(a, k, com),
         \A i \in 1 .. k : RowGrown(b[i], a[i], L[i], cut[i - 1], cut[i], com)
  PROVE  RowsHave(b, k, com + n)
<1>0. ASSUME NEW i \in 1 .. k PROVE RowLonger(b[i], a[i], L[i], cut[i - 1], cut[i], com)
  <2>1. cut[i - 1] \in Nat /\ cut[i] \in Nat /\ cut[i - 1] <= cut[i]
    BY CutsAre
  <2>2. RowGrown(b[i], a[i], L[i], cut[i - 1], cut[i], com)
    OBVIOUS
  <2>3. QED
    BY <2>1, <2>2, RowIs
<1>1. ASSUME NEW i \in 1 .. k, NEW j \in DOMAIN b[i]
      PROVE  \/ j \in DOMAIN a[i] /\ b[i][j] = a[i][j] /\ b[i][j] \in 0 .. com - 1
             \/ \E y \in Nat : /\ b[i][j] = com + y /\ cut[i - 1] <= y /\ y < cut[i]
                               /\ j = L[i] + (y - cut[i - 1]) + 1
  <2>1. \/ j \in DOMAIN a[i] /\ b[i][j] = a[i][j]
        \/ \E y \in Nat : /\ b[i][j] = com + y /\ cut[i - 1] <= y /\ y < cut[i]
                          /\ j = L[i] + (y - cut[i - 1]) + 1
    BY <1>0 DEF RowLonger
  <2>2. RowsBelow(a, k, com)
    BY DEF RowsHave
  <2>3. QED
    BY <2>1, <2>2 DEF RowsBelow
<1>2. RowsBelow(b, k, com + n)
  <2> SUFFICES ASSUME NEW i \in 1 .. k, NEW j \in DOMAIN b[i]
               PROVE  b[i][j] \in 0 .. com + n - 1
    BY DEF RowsBelow
  <2>1. cut[i] \in Nat /\ cut[i] <= n
    BY CutsAre
  <2>2. QED
    BY <1>1, <2>1
<1>3. RowsOnce(b, k)
  <2> SUFFICES ASSUME NEW i \in 1 .. k, NEW m \in 1 .. k,
                      NEW j \in DOMAIN b[i], NEW l \in DOMAIN b[m], b[i][j] = b[m][l]
               PROVE  i = m /\ j = l
    BY DEF RowsOnce
  <2>1. CASE b[i][j] \in 0 .. com - 1
    <3>1. j \in DOMAIN a[i] /\ b[i][j] = a[i][j]
      BY <1>1, <2>1
    <3>2. l \in DOMAIN a[m] /\ b[m][l] = a[m][l]
      BY <1>1, <2>1
    <3>3. RowsOnce(a, k)
      BY DEF RowsHave
    <3>4. a[i][j] = a[m][l]
      BY <3>1, <3>2
    <3>5. QED
      BY <3>1, <3>2, <3>3, <3>4 DEF RowsOnce
  <2>2. CASE b[i][j] \notin 0 .. com - 1
    <3>1. PICK y \in Nat : /\ b[i][j] = com + y /\ cut[i - 1] <= y /\ y < cut[i]
                           /\ j = L[i] + (y - cut[i - 1]) + 1
      BY <1>1, <2>2
    <3>2. PICK z \in Nat : /\ b[m][l] = com + z /\ cut[m - 1] <= z /\ z < cut[m]
                           /\ l = L[m] + (z - cut[m - 1]) + 1
      BY <1>1, <2>2
    <3>3. y = z
      <4>1. com + y = com + z
        BY <3>1, <3>2
      <4>2. QED
        BY <4>1
    <3>4. cut[m - 1] <= y /\ y < cut[m]
      BY <3>2, <3>3
    <3>5. i = m
      BY <3>1, <3>4, OneStepOver DEF Cuts
    <3>6. QED
      BY <3>1, <3>2, <3>3, <3>5
  <2>3. QED
    BY <2>1, <2>2
<1>4. ASSUME NEW x \in 0 .. com + n - 1
      PROVE  \E i \in 1 .. k : \E j \in DOMAIN b[i] : b[i][j] = x
  <2>1. CASE x < com
    <3>1. x \in 0 .. com - 1
      BY <2>1
    <3>2. PICK i \in 1 .. k : \E j \in DOMAIN a[i] : a[i][j] = x
      BY <3>1 DEF RowsHave, RowsAll
    <3>3. PICK j \in DOMAIN a[i] : a[i][j] = x
      BY <3>2
    <3>4. j \in DOMAIN b[i] /\ b[i][j] = a[i][j]
      BY <1>0 DEF RowLonger
    <3>5. QED
      BY <3>3, <3>4
  <2>2. CASE x >= com
    <3>1. PICK y \in Nat : y = x - com
      BY <2>2
    <3>2. 0 <= y /\ y < n /\ com + y = x
      BY <3>1
    <3>3. \E i \in 1 .. k : cut[i - 1] <= y /\ y < cut[i]
      BY <3>2, StepOver DEF Cuts
    <3>4. PICK i \in 1 .. k : cut[i - 1] <= y /\ y < cut[i]
      BY <3>3
    <3>5. \E j \in DOMAIN b[i] : b[i][j] = com + y
      BY <1>0, <3>4 DEF RowLonger
    <3>6. QED
      BY <3>2, <3>5
  <2>3. QED
    BY <2>1, <2>2
<1>5. RowsAll(b, k, com + n)
  <2>1. \A x \in 0 .. com + n - 1 : \E i \in 1 .. k : \E j \in DOMAIN b[i] : b[i][j] = x
    BY <1>4
  <2>2. PICK m : m = com + n
    OBVIOUS
  <2>3. \A x \in 0 .. m - 1 : \E i \in 1 .. k : \E j \in DOMAIN b[i] : b[i][j] = x
    BY <2>1, <2>2
  <2>4. RowsAll(b, k, m)
    BY <2>3 DEF RowsAll
  <2>5. QED
    BY <2>2, <2>4
<1>6. QED
  BY <1>2, <1>3, <1>5 DEF RowsHave

\* The numbers that the sub-indexes ws have, row by row.
Values(cont, ws) ==
  [i \in 1 .. Len(ws) |-> [j \in DOMAIN cont[ws[i]] |-> cont[ws[i]][j].v]]

LEMMA ValuesAre ==
  ASSUME NEW ws, NEW cont, NEW i \in 1 .. Len(ws)
  PROVE  /\ DOMAIN Values(cont, ws)[i] = DOMAIN cont[ws[i]]
         /\ \A j \in DOMAIN cont[ws[i]] : Values(cont, ws)[i][j] = cont[ws[i]][j].v
BY DEF Values

\* Shards that hold n vectors hold each number before n in one place, and the reverse.
LEMMA ShardsHave ==
  ASSUME NEW ws \in Seq(Worker), NEW cont \in Contents, NEW n \in Nat,
         NumbersSelf(ws, cont, n), InOnePlace(ws, cont), InSomePlace(ws, cont, n)
  PROVE  RowsHave(Values(cont, ws), Len(ws), n)
<1>1. RowsBelow(Values(cont, ws), Len(ws), n)
  <2> SUFFICES ASSUME NEW i \in 1 .. Len(ws), NEW j \in DOMAIN cont[ws[i]]
               PROVE  Values(cont, ws)[i][j] \in 0 .. n - 1
    BY ValuesAre DEF RowsBelow
  <2>1. cont[ws[i]][j] \in Entry
    BY LensAre
  <2>2. cont[ws[i]][j].v \in Nat /\ cont[ws[i]][j].v < n
    BY <2>1 DEF NumbersSelf, Entry
  <2>3. QED
    BY <2>2, ValuesAre
<1>2. RowsOnce(Values(cont, ws), Len(ws))
  <2> SUFFICES ASSUME NEW i \in 1 .. Len(ws), NEW m \in 1 .. Len(ws),
                      NEW j \in DOMAIN cont[ws[i]], NEW l \in DOMAIN cont[ws[m]],
                      Values(cont, ws)[i][j] = Values(cont, ws)[m][l]
               PROVE  i = m /\ j = l
    BY ValuesAre DEF RowsOnce
  <2>1. cont[ws[i]][j].v = cont[ws[m]][l].v
    BY ValuesAre
  <2>2. QED
    BY <2>1 DEF InOnePlace
<1>3. RowsAll(Values(cont, ws), Len(ws), n)
  <2> SUFFICES ASSUME NEW x \in 0 .. n - 1
               PROVE  \E i \in 1 .. Len(ws) : \E j \in DOMAIN Values(cont, ws)[i] :
                        Values(cont, ws)[i][j] = x
    BY Zenon DEF RowsAll
  <2>1. PICK i \in 1 .. Len(ws) : \E j \in DOMAIN cont[ws[i]] : cont[ws[i]][j].v = x
    BY DEF InSomePlace
  <2>2. QED
    BY <2>1, ValuesAre
<1>4. QED
  BY <1>1, <1>2, <1>3 DEF RowsHave

LEMMA ShardsHold ==
  ASSUME NEW ws \in Seq(Worker), NEW cont, NEW n \in Nat,
         RowsHave(Values(cont, ws), Len(ws), n),
         \A i \in 1 .. Len(ws) : \A j \in DOMAIN cont[ws[i]] :
           cont[ws[i]][j].v = cont[ws[i]][j].id
  PROVE  /\ NumbersSelf(ws, cont, n) /\ InOnePlace(ws, cont)
         /\ InSomePlace(ws, cont, n)
<1>1. NumbersSelf(ws, cont, n)
  <2> SUFFICES ASSUME NEW i \in 1 .. Len(ws), NEW j \in DOMAIN cont[ws[i]]
               PROVE  cont[ws[i]][j].v < n
    BY DEF NumbersSelf
  <2>1. Values(cont, ws)[i][j] \in 0 .. n - 1
    BY ValuesAre DEF RowsHave, RowsBelow
  <2>2. QED
    BY <2>1, ValuesAre
<1>2. InOnePlace(ws, cont)
  BY ValuesAre DEF RowsHave, RowsOnce, InOnePlace
<1>3. InSomePlace(ws, cont, n)
  <2> SUFFICES ASSUME NEW x \in 0 .. n - 1
               PROVE  \E i \in 1 .. Len(ws) : \E j \in DOMAIN cont[ws[i]] :
                        cont[ws[i]][j].v = x
    BY Zenon DEF InSomePlace
  <2>1. PICK i \in 1 .. Len(ws) : \E j \in DOMAIN Values(cont, ws)[i] :
          Values(cont, ws)[i][j] = x
    BY DEF RowsHave, RowsAll
  <2>2. PICK j \in DOMAIN Values(cont, ws)[i] : Values(cont, ws)[i][j] = x
    BY <2>1
  <2>3. j \in DOMAIN cont[ws[i]] /\ cont[ws[i]][j].v = x
    BY <2>2, ValuesAre
  <2>4. QED
    BY <2>3
<1>4. QED
  BY <1>1, <1>2, <1>3

\* An add that all sub-indexes have done: each has a slice more.
Grown(kd, ws, old, cont, com, n) ==
  \A i \in 1 .. Len(ws) :
    cont[ws[i]] = old[ws[i]] \o NewAt(kd, com, com, Len(old[ws[i]]), n, i, Len(ws))

LEMMA GrownIs ==
  ASSUME NEW kd, NEW ws \in Seq(Worker), ws # <<>>,
         NEW old \in Contents, NEW cont \in Contents, NEW com \in Nat, NEW n \in Nat,
         Grown(kd, ws, old, cont, com, n), NEW i \in 1 .. Len(ws)
  PROVE  /\ IsLonger(cont[ws[i]], old[ws[i]], kd, com,
                     From(kd, n, i, Len(ws)), UpTo(kd, n, i, Len(ws)))
         /\ From(kd, n, i, Len(ws)) \in Nat /\ UpTo(kd, n, i, Len(ws)) \in Nat
         /\ From(kd, n, i, Len(ws)) <= UpTo(kd, n, i, Len(ws))
<1>1. PICK k \in Nat \ {0} : k = Len(ws)
  OBVIOUS
<1>2. PICK s \in Seq(Entry) : s = old[ws[i]]
  BY LensAre
<1>3. PICK lo \in Nat, up \in Nat :
        lo = From(kd, n, i, k) /\ up = UpTo(kd, n, i, k) /\ lo <= up
  BY <1>1, FromUpTo
<1>4. PICK m : m = NewAt(kd, com, com, Len(s), n, i, k)
  OBVIOUS
<1>5. Len(s) \in Nat
  OBVIOUS
<1>6. IsNew(m, kd, com, com, Len(s), lo, up)
  BY <1>1, <1>3, <1>4, <1>5, NewAtIs
<1>7. IsLonger(s \o m, s, kd, com, lo, up)
  BY <1>3, <1>6, LongerIs
<1>8. cont[ws[i]] = s \o m
  BY <1>1, <1>2, <1>4 DEF Grown
<1>9. QED
  BY <1>1, <1>2, <1>3, <1>7, <1>8

\* An add to replicas gives all to each.
LEMMA ReplicasAdd ==
  ASSUME NEW kd, kd = "replicas", NEW ws \in Seq(Worker), ws # <<>>,
         NEW old \in Contents, NEW cont \in Contents, NEW com \in Nat, NEW n \in Nat,
         AllInEach(ws, old, com), Grown(kd, ws, old, cont, com, n)
  PROVE  AllInEach(ws, cont, com + n)
<1> SUFFICES ASSUME NEW i \in 1 .. Len(ws) PROVE cont[ws[i]] = Numbers(com + n)
  BY DEF AllInEach
<1>1. IsLonger(cont[ws[i]], old[ws[i]], kd, com, 0, n)
  BY GrownIs DEF From, UpTo
<1>2. PICK s, t : s = old[ws[i]] /\ t = cont[ws[i]]
  OBVIOUS
<1>3. s = Numbers(com)
  BY <1>2 DEF AllInEach
<1>4. Len(s) = com /\ \A j \in 1 .. com : s[j] = [v |-> j - 1, id |-> j - 1]
  BY <1>3, NumbersAre
<1>5. /\ t \in Seq(Entry) /\ Len(t) = com + n /\ DOMAIN t = 1 .. com + n
      /\ \A j \in 1 .. com : t[j] = s[j]
      /\ \A j \in 1 .. com + n : j > com =>
           t[j] = [v |-> com + (0 + (j - com) - 1), id |-> j - 1]
  <2>1. IsLonger(t, s, kd, com, 0, n)
    BY <1>1, <1>2
  <2>2. com + (n - 0) = com + n
    OBVIOUS
  <2>3. /\ t \in Seq(Entry) /\ Len(t) = com + (n - 0) /\ DOMAIN t = 1 .. com + (n - 0)
        /\ \A j \in 1 .. com : t[j] = s[j]
        /\ \A j \in DOMAIN t : j > com =>
             t[j] = [v |-> com + (0 + (j - com) - 1), id |-> j - 1]
    BY <1>4, <2>1 DEF IsLonger
  <2>4. QED
    BY <2>2, <2>3
<1>6. ASSUME NEW j \in 1 .. com + n PROVE t[j] = [v |-> j - 1, id |-> j - 1]
  <2>1. CASE j > com
    <3>1. com + (0 + (j - com) - 1) = j - 1
      OBVIOUS
    <3>2. QED
      BY <1>5, <2>1, <3>1
  <2>2. CASE j <= com
    <3>1. j \in 1 .. com
      BY <2>2
    <3>2. QED
      BY <1>4, <1>5, <3>1
  <2>3. QED
    BY <2>1, <2>2
<1>7. t = [j \in 1 .. com + n |-> t[j]]
  BY <1>5
<1>8. t = Numbers(com + n)
  BY <1>6, <1>7 DEF Numbers
<1>9. QED
  BY <1>2, <1>8

\* Each sub-index is longer by its slice between cuts, and so are the shifts.
CutInto(cut, kd, ws, old, cont, com, n) ==
  /\ Cuts(cut, Len(ws), n)
  /\ \A i \in 1 .. Len(ws) :
       IsLonger(cont[ws[i]], old[ws[i]], kd, com, cut[i - 1], cut[i])
  /\ \A i \in 0 .. Len(ws) : Shifts(cont, ws)[i] = Shifts(old, ws)[i] + cut[i]

\* The sizes of the shards grow by the slices, their sum by the batch.
LEMMA ShiftsGrow ==
  ASSUME NEW kd, kd # "replicas", NEW ws \in Seq(Worker), ws # <<>>,
         NEW old \in Contents, NEW cont \in Contents, NEW com \in Nat, NEW n \in Nat,
         Grown(kd, ws, old, cont, com, n)
  PROVE  \E cut : CutInto(cut, kd, ws, old, cont, com, n)
<1>1. PICK k \in Nat \ {0} : k = Len(ws)
  OBVIOUS
<1> DEFINE cut == [i \in 0 .. k |-> Cut(n, i, k)]
<1>2. Cuts(cut, k, n)
  <2>1. /\ \A i \in 0 .. k : Cut(n, i, k) \in Nat
        /\ Cut(n, 0, k) = 0 /\ Cut(n, k, k) = n
        /\ \A i \in 1 .. k : Cut(n, i - 1, k) <= Cut(n, i, k)
    BY CutIs
  <2>2. /\ 0 \in 0 .. k /\ k \in 0 .. k
        /\ \A i \in 1 .. k : i - 1 \in 0 .. k /\ i \in 0 .. k
    OBVIOUS
  <2>3. \A i \in 0 .. k : cut[i] = Cut(n, i, k)
    OBVIOUS
  <2>4. cut \in [0 .. k -> Nat]
    BY <2>1
  <2> HIDE DEF cut
  <2>5. QED
    BY <2>1, <2>2, <2>3, <2>4 DEF Cuts
<1>3. ASSUME NEW i \in 1 .. k PROVE cut[i - 1] = From(kd, n, i, k) /\ cut[i] = UpTo(kd, n, i, k)
  BY DEF From, UpTo
<1> HIDE DEF cut
<1>4. ASSUME NEW i \in 1 .. k
      PROVE  IsLonger(cont[ws[i]], old[ws[i]], kd, com, cut[i - 1], cut[i])
  BY <1>1, <1>3, GrownIs
<1>5. PICK S : S = Shifts(old, ws)
  OBVIOUS
<1>6. /\ S \in [0 .. k -> Nat] /\ S[0] = 0
      /\ \A i \in 1 .. k : S[i] = S[i - 1] + Len(old[ws[i]])
  BY <1>1, <1>5, ShiftsAre
<1> DEFINE f == [i \in 0 .. k |-> S[i] + cut[i]]
<1>7. f \in [0 .. k -> Nat] /\ f[0] = 0
  BY <1>2, <1>6 DEF Cuts
<1>8. ASSUME NEW i \in 1 .. k PROVE f[i] = f[i - 1] + Len(cont[ws[i]])
  <2>1. i - 1 \in 0 .. k /\ i \in 0 .. k
    OBVIOUS
  <2>2. f[i] = S[i] + cut[i] /\ f[i - 1] = S[i - 1] + cut[i - 1]
    BY <2>1
  <2>3. PICK l, m : l = Len(old[ws[i]]) /\ m = Len(cont[ws[i]])
    OBVIOUS
  <2>4. m = l + (cut[i] - cut[i - 1]) /\ S[i] = S[i - 1] + l
    BY <1>4, <1>6, <2>3 DEF IsLonger
  <2>5. /\ S[i] \in Nat /\ S[i - 1] \in Nat /\ cut[i] \in Nat /\ cut[i - 1] \in Nat
    BY <1>2, <1>6, <2>1 DEF Cuts
  <2>6. l \in Nat
    BY <1>1, <2>3, LensAre
  <2> HIDE DEF f
  <2>7. PICK a, b, x, y : /\ a = S[i] /\ b = S[i - 1] /\ x = cut[i] /\ y = cut[i - 1]
                         /\ a \in Nat /\ b \in Nat /\ x \in Nat /\ y \in Nat
    BY <2>5
  <2>8. f[i] = a + x /\ f[i - 1] = b + y /\ m = l + (x - y) /\ a = b + l
    BY <2>2, <2>4, <2>7
  <2>9. a + x = (b + y) + m
    <3>1. m = l + (x - y) /\ a = b + l
      BY <2>8
    <3>2. a \in Nat /\ b \in Nat /\ x \in Nat /\ y \in Nat
      BY <2>7
    <3>3. QED
      BY <2>6, <3>1, <3>2
  <2>10. QED
    BY <2>3, <2>8, <2>9
<1>9. \A i \in 0 .. k : f[i] = S[i] + cut[i]
  OBVIOUS
<1> HIDE DEF f
<1>10. \A i \in 0 .. k : Shifts(cont, ws)[i] = f[i]
  BY <1>1, <1>7, <1>8, ShiftsOnly
<1>11. CutInto(cut, kd, ws, old, cont, com, n)
  BY <1>1, <1>2, <1>4, <1>5, <1>9, <1>10 DEF CutInto
<1>12. QED
  BY <1>11

\* A first add with successive_ids leaves the slices in a row.
LEMMA InARowAdd ==
  ASSUME NEW ws \in Seq(Worker), ws # <<>>,
         NEW old \in Contents, NEW cont \in Contents, NEW n \in Nat, NEW cut,
         Shifts(old, ws)[Len(ws)] = 0,
         CutInto(cut, "successive", ws, old, cont, 0, n)
  PROVE  InARow(ws, cont)
<1> USE DEF CutInto
<1>1. PICK k \in Nat \ {0} : k = Len(ws)
  OBVIOUS
<1>2. PICK S : S = Shifts(old, ws)
  OBVIOUS
<1>3. /\ S \in [0 .. k -> Nat] /\ S[0] = 0 /\ S[k] = 0
      /\ \A i \in 1 .. k : S[i] = S[i - 1] + Len(old[ws[i]])
  BY <1>1, <1>2, ShiftsAre
<1>4. \A i \in 1 .. k : Len(old[ws[i]]) \in Nat
  BY <1>1, LensAre
<1>5. \A i, j \in 0 .. k : i <= j => S[i] <= S[j]
  <2>1. ASSUME NEW i \in 1 .. k PROVE S[i - 1] <= S[i]
    <3>1. S[i - 1] \in Nat /\ Len(old[ws[i]]) \in Nat
      BY <1>3, <1>4
    <3>2. S[i] = S[i - 1] + Len(old[ws[i]])
      BY <1>3
    <3>3. QED
      BY <3>1, <3>2
  <2>2. QED
    BY <1>3, <2>1, Grows
<1>6. ASSUME NEW i \in 0 .. k PROVE S[i] = 0
  <2>1. k \in 0 .. k /\ i <= k
    OBVIOUS
  <2>2. S[i] <= S[k] /\ S[i] \in Nat
    BY <1>3, <1>5, <2>1
  <2>3. QED
    BY <1>3, <2>2
<1>7. ASSUME NEW i \in 1 .. k, NEW j \in DOMAIN cont[ws[i]]
      PROVE  cont[ws[i]][j] = [v |-> Shifts(cont, ws)[i - 1] + j - 1, id |-> j - 1]
  <2>1. i - 1 \in 0 .. k /\ i \in 0 .. k
    OBVIOUS
  <2>2. PICK s, t : s = old[ws[i]] /\ t = cont[ws[i]]
    OBVIOUS
  <2>3. PICK lo \in Nat, up \in Nat : lo = cut[i - 1] /\ up = cut[i]
    BY <1>1, CutsAre
  <2>4. Len(s) = 0
    <3>1. S[i] = 0 /\ S[i - 1] = 0 /\ S[i] = S[i - 1] + Len(s)
      BY <1>3, <1>6, <2>1, <2>2
    <3>2. Len(s) \in Nat
      BY <1>4, <2>2
    <3>3. QED
      BY <3>1, <3>2
  <2>5. IsLonger(t, s, "successive", 0, lo, up)
    BY <1>1, <2>2, <2>3
  <2>6. j \in Nat /\ j > 0 /\ j \in DOMAIN t
    BY <2>2, <2>4, <2>5 DEF IsLonger
  <2>7. t[j] = [v |-> 0 + (lo + (j - 0) - 1), id |-> j - 1]
    BY <2>4, <2>5, <2>6 DEF IsLonger
  <2>8. Shifts(cont, ws)[i - 1] = 0 + lo
    BY <1>1, <1>2, <1>6, <2>1, <2>3
  <2>9. 0 + (lo + (j - 0) - 1) = (0 + lo) + j - 1
    BY <2>6
  <2>10. QED
    BY <2>2, <2>7, <2>8, <2>9
<1>8. QED
  BY <1>1, <1>7 DEF InARow

\* An add to shards puts each new number in one place.
LEMMA ShardsAdd ==
  ASSUME NEW ws \in Seq(Worker), ws # <<>>,
         NEW old \in Contents, NEW cont \in Contents, NEW com \in Nat, NEW n \in Nat,
         NEW cut, CutInto(cut, "shards", ws, old, cont, com, n),
         NumbersSelf(ws, old, com), InOnePlace(ws, old), InSomePlace(ws, old, com)
  PROVE  /\ NumbersSelf(ws, cont, com + n) /\ InOnePlace(ws, cont)
         /\ InSomePlace(ws, cont, com + n)
<1>1. PICK k \in Nat \ {0} : k = Len(ws)
  OBVIOUS
<1>2. RowsHave(Values(old, ws), k, com)
  BY <1>1, ShardsHave
<1>3. ASSUME NEW i \in 1 .. k
      PROVE  /\ RowGrown(Values(cont, ws)[i], Values(old, ws)[i], Lens(old, ws)[i],
                         cut[i - 1], cut[i], com)
             /\ \A j \in DOMAIN cont[ws[i]] : cont[ws[i]][j].v = cont[ws[i]][j].id
  <2>1. PICK s, t : s = old[ws[i]] /\ t = cont[ws[i]]
    OBVIOUS
  <2>2. PICK a, b : a = Values(old, ws)[i] /\ b = Values(cont, ws)[i]
    OBVIOUS
  <2>3. PICK lo \in Nat, up \in Nat : lo = cut[i - 1] /\ up = cut[i] /\ lo <= up
    BY <1>1, CutsAre DEF CutInto
  <2>4. s \in Seq(Entry) /\ Lens(old, ws)[i] = Len(s)
    BY <1>1, <2>1, LensAre
  <2>5. IsLonger(t, s, "shards", com, lo, up)
    BY <1>1, <2>1, <2>3 DEF CutInto
  <2>6. /\ DOMAIN a = DOMAIN s /\ \A j \in DOMAIN s : a[j] = s[j].v
        /\ DOMAIN b = DOMAIN t /\ \A j \in DOMAIN t : b[j] = t[j].v
    <3>1. i \in 1 .. Len(ws)
      BY <1>1
    <3>2. /\ DOMAIN Values(old, ws)[i] = DOMAIN old[ws[i]]
          /\ \A j \in DOMAIN old[ws[i]] : Values(old, ws)[i][j] = old[ws[i]][j].v
      BY <3>1, ValuesAre
    <3>3. /\ DOMAIN Values(cont, ws)[i] = DOMAIN cont[ws[i]]
          /\ \A j \in DOMAIN cont[ws[i]] : Values(cont, ws)[i][j] = cont[ws[i]][j].v
      BY <3>1, ValuesAre
    <3>4. QED
      BY <2>1, <2>2, <3>2, <3>3
  <2>7. PICK l \in Nat : l = Len(s) /\ DOMAIN s = 1 .. l
    BY <2>4
  <2>8. /\ DOMAIN t = 1 .. l + (up - lo)
        /\ \A j \in 1 .. l : t[j] = s[j]
        /\ \A j \in DOMAIN t : j > l =>
             t[j] = [v |-> com + (lo + (j - l) - 1), id |-> com + (lo + (j - l) - 1)]
    BY <2>5, <2>7 DEF IsLonger
  <2>9. \A j \in 1 .. l : j \in DOMAIN t
    BY <2>3, <2>8
  <2>10. RowGrown(b, a, l, lo, up, com)
    <3>1. \A j \in 1 .. l : b[j] = a[j]
      BY <2>6, <2>7, <2>8, <2>9
    <3>2. \A j \in DOMAIN b : j > l => b[j] = com + (lo + (j - l) - 1)
      BY <2>6, <2>8
    <3>3. QED
      BY <2>6, <2>7, <2>8, <3>1, <3>2 DEF RowGrown
  <2>11. ASSUME NEW j \in DOMAIN t PROVE t[j].v = t[j].id
    <3>1. CASE j > l
      BY <2>8, <3>1
    <3>2. CASE ~(j > l)
      <4>1. j \in 1 .. l
        BY <2>8, <3>2
      <4>2. s[j].v = s[j].id
        BY <1>1, <2>1, <2>7, <4>1 DEF NumbersSelf
      <4>3. QED
        BY <2>8, <4>1, <4>2
    <3>3. QED
      BY <3>1, <3>2
  <2>12. QED
    BY <2>1, <2>2, <2>3, <2>4, <2>7, <2>10, <2>11
<1>4. RowsHave(Values(cont, ws), k, com + n)
  <2>1. PICK a, b, L : a = Values(old, ws) /\ b = Values(cont, ws) /\ L = Lens(old, ws)
    OBVIOUS
  <2>2. \A i \in 1 .. k : RowGrown(b[i], a[i], L[i], cut[i - 1], cut[i], com)
    BY <1>3, <2>1
  <2>3. Cuts(cut, k, n) /\ RowsHave(a, k, com)
    BY <1>1, <1>2, <2>1 DEF CutInto
  <2>4. RowsHave(b, k, com + n)
    BY <2>2, <2>3, RowsAdd
  <2>5. QED
    BY <2>1, <2>4
<1>5. \A i \in 1 .. Len(ws) : \A j \in DOMAIN cont[ws[i]] :
        cont[ws[i]][j].v = cont[ws[i]][j].id
  BY <1>1, <1>3
<1>6. RowsHave(Values(cont, ws), Len(ws), com + n) /\ com + n \in Nat
  BY <1>1, <1>4
<1>7. QED
  BY <1>5, <1>6, ShardsHold

\* After an add that all sub-indexes have done, the collection holds the new vectors too.
LEMMA HoldsAdd ==
  ASSUME NEW kd \in Kind3, NEW ws \in Seq(Worker), ws # <<>>,
         NEW old \in Contents, NEW cont \in Contents, NEW com \in Nat, NEW n \in Nat,
         Holds(kd, ws, old, com), kd = "successive" => com = 0,
         Grown(kd, ws, old, cont, com, n)
  PROVE  Holds(kd, ws, cont, com + n)
<1>1. CASE kd = "replicas"
  BY <1>1, ReplicasAdd DEF Holds
<1>2. CASE kd # "replicas"
  <2>1. PICK cut : CutInto(cut, kd, ws, old, cont, com, n)
    BY <1>2, ShiftsGrow
  <2>2. Shifts(old, ws)[Len(ws)] = com
    BY <1>2 DEF Holds
  <2>3. Shifts(cont, ws)[Len(ws)] = com + n
    <3>1. Len(ws) \in 0 .. Len(ws)
      OBVIOUS
    <3>2. QED
      BY <2>1, <2>2, <3>1 DEF Cuts, CutInto
  <2>4. CASE kd = "successive"
    BY <1>2, <2>1, <2>2, <2>3, <2>4, InARowAdd DEF Holds
  <2>5. CASE kd = "shards"
    BY <1>2, <2>1, <2>3, <2>5, ShardsAdd DEF Holds
  <2>6. QED
    BY <1>2, <2>4, <2>5 DEF Kind3
<1>3. QED
  BY <1>1, <1>2

----------------------------------------------------------------------------
(* What a search finds.                                                    *)

\* The queries that the i-th of k sub-indexes gets.
AskedAt(kd, size, i, k) ==
  LET per == (size + k - 1) \div k
  IN  IF kd = "replicas"
      THEN {q \in 0 .. size - 1 : (i - 1) * per <= q /\ q < i * per}
      ELSE 0 .. size - 1

ShiftOf(kd, cont, ws, i) == IF kd = "successive" THEN Shifts(cont, ws)[i - 1] ELSE 0

\* What it finds.
FoundAt(kd, cont, ws, i) ==
  [j \in DOMAIN cont[ws[i]] |->
     [cont[ws[i]][j] EXCEPT !.id = @ + ShiftOf(kd, cont, ws, i)]]

Number(x) == [v |-> x, id |-> x]

\* found[i], for i in I, has each number before n once.
AllOnce(found, I, n) ==
  /\ \A i \in I : /\ DOMAIN found[i] = 1 .. Len(found[i]) /\ Len(found[i]) \in Nat
                  /\ \A j \in DOMAIN found[i] : \E x \in 0 .. n - 1 : found[i][j] = Number(x)
  /\ \A i, m \in I : \A j \in DOMAIN found[i], l \in DOMAIN found[m] :
       found[i][j] = found[m][l] => i = m /\ j = l
  /\ \A x \in 0 .. n - 1 : \E i \in I : \E j \in DOMAIN found[i] : found[i][j] = Number(x)

\* What a sub-index with s finds when the labels are shifted by d.
FoundIs(t, s, d) ==
  /\ Len(s) \in Nat /\ Len(t) = Len(s)
  /\ DOMAIN s = 1 .. Len(s) /\ DOMAIN t = 1 .. Len(s)
  /\ \A j \in 1 .. Len(s) :
       /\ s[j].v \in Nat /\ s[j].id \in Nat
       /\ t[j] = [v |-> s[j].v, id |-> s[j].id + d]

LEMMA FoundAtIs ==
  ASSUME NEW kd, NEW cont \in Contents, NEW ws \in Seq(Worker), NEW i \in 1 .. Len(ws)
  PROVE  FoundIs(FoundAt(kd, cont, ws, i), cont[ws[i]], ShiftOf(kd, cont, ws, i))
<1>1. PICK s \in Seq(Entry) : s = cont[ws[i]]
  BY LensAre
<1>2. PICK d : d = ShiftOf(kd, cont, ws, i)
  OBVIOUS
<1>3. PICK t : t = FoundAt(kd, cont, ws, i)
  OBVIOUS
<1>4. DOMAIN s = 1 .. Len(s) /\ Len(s) \in Nat
  OBVIOUS
<1>5. t = [j \in 1 .. Len(s) |-> [s[j] EXCEPT !.id = @ + d]]
  BY <1>1, <1>2, <1>3, <1>4 DEF FoundAt
<1>6. t \in [1 .. Len(s) -> {t[j] : j \in 1 .. Len(s)}]
  BY <1>5
<1>7. t \in Seq({t[j] : j \in 1 .. Len(s)}) /\ Len(t) = Len(s)
  BY <1>4, <1>5, <1>6, SeqDef
<1>8. ASSUME NEW j \in 1 .. Len(s)
      PROVE  s[j].v \in Nat /\ s[j].id \in Nat /\ t[j] = [v |-> s[j].v, id |-> s[j].id + d]
  <2>1. s[j] \in Entry
    BY <1>4
  <2>2. PICK e \in Entry : e = s[j]
    BY <2>1
  <2>3. [e EXCEPT !.id = @ + d] = [v |-> e.v, id |-> e.id + d]
    BY DEF Entry
  <2>4. e.v \in Nat /\ e.id \in Nat
    BY DEF Entry
  <2>5. QED
    BY <1>5, <2>2, <2>3, <2>4
<1>9. QED
  <2>1. FoundIs(t, s, d)
    BY <1>4, <1>5, <1>7, <1>8 DEF FoundIs
  <2>2. QED
    BY <1>1, <1>2, <1>3, <2>1

LEMMA NumberOnly == ASSUME NEW x, NEW y, Number(x) = Number(y) PROVE x = y
<1>1. Number(x).v = x /\ Number(y).v = y
  BY DEF Number
<1>2. QED
  BY <1>1

\* A replica finds all.
LEMMA ReplicaFinds ==
  ASSUME NEW cont \in Contents, NEW ws \in Seq(Worker), NEW n \in Nat,
         AllInEach(ws, cont, n), NEW i \in 1 .. Len(ws),
         NEW found, found[i] = FoundAt("replicas", cont, ws, i)
  PROVE  AllOnce(found, {i}, n)
<1>1. PICK t : t = found[i]
  OBVIOUS
<1>2. cont[ws[i]] = Numbers(n)
  BY DEF AllInEach
<1>3. Len(cont[ws[i]]) = n /\ \A j \in 1 .. n : cont[ws[i]][j] = [v |-> j - 1, id |-> j - 1]
  BY <1>2, NumbersAre
<1>4. ShiftOf("replicas", cont, ws, i) = 0
  BY DEF ShiftOf
<1>5. FoundIs(t, cont[ws[i]], 0)
  BY <1>1, <1>4, FoundAtIs
<1>6. /\ DOMAIN t = 1 .. n /\ Len(t) = n
      /\ \A j \in 1 .. n : t[j] = Number(j - 1) /\ j - 1 \in 0 .. n - 1
  <2>1. DOMAIN t = 1 .. n /\ Len(t) = n
    BY <1>3, <1>5 DEF FoundIs
  <2>2. ASSUME NEW j \in 1 .. n PROVE t[j] = Number(j - 1) /\ j - 1 \in 0 .. n - 1
    <3>1. PICK e : e = cont[ws[i]][j]
      OBVIOUS
    <3>2. t[j] = [v |-> e.v, id |-> e.id + 0] /\ e = [v |-> j - 1, id |-> j - 1]
      BY <1>3, <1>5, <3>1 DEF FoundIs
    <3>3. e.v = j - 1 /\ e.id = j - 1 /\ (j - 1) + 0 = j - 1
      BY <3>2
    <3>4. QED
      BY <3>2, <3>3 DEF Number
  <2>3. QED
    BY <2>1, <2>2
<1>7. \A j, l \in 1 .. n : t[j] = t[l] => j = l
  <2> SUFFICES ASSUME NEW j \in 1 .. n, NEW l \in 1 .. n, t[j] = t[l] PROVE j = l
    OBVIOUS
  <2>1. j - 1 = l - 1
    BY <1>6, NumberOnly
  <2>2. QED
    BY <2>1
<1>8. ASSUME NEW x \in 0 .. n - 1 PROVE \E j \in 1 .. n : t[j] = Number(x)
  <2>1. x + 1 \in 1 .. n /\ (x + 1) - 1 = x
    OBVIOUS
  <2>2. QED
    BY <1>6, <2>1
<1>9. DOMAIN found[i] = 1 .. n /\ Len(found[i]) = n /\ DOMAIN found[i] = 1 .. Len(found[i])
  BY <1>1, <1>6
<1>10. /\ \A j \in DOMAIN found[i] : \E x \in 0 .. n - 1 : found[i][j] = Number(x)
       /\ \A j, l \in DOMAIN found[i] : found[i][j] = found[i][l] => j = l
       /\ \A x \in 0 .. n - 1 : \E j \in DOMAIN found[i] : found[i][j] = Number(x)
  BY <1>1, <1>6, <1>7, <1>8
<1>11. QED
  BY <1>9, <1>10 DEF AllOnce

\* Of vectors that are all numbered, each in one place.
LEMMA AllOnceIs ==
  ASSUME NEW k \in Nat, NEW n, NEW found, NEW V,
         \A i \in 1 .. k : /\ DOMAIN found[i] = 1 .. Len(found[i]) /\ Len(found[i]) \in Nat
                           /\ \A j \in DOMAIN found[i] : found[i][j] = Number(V[i][j]),
         RowsHave(V, k, n), \A i \in 1 .. k : DOMAIN V[i] = DOMAIN found[i]
  PROVE  AllOnce(found, 1 .. k, n)
<1>1. \A i \in 1 .. k : \A j \in DOMAIN found[i] :
        V[i][j] \in 0 .. n - 1 /\ found[i][j] = Number(V[i][j])
  BY DEF RowsHave, RowsBelow
<1>2. ASSUME NEW i \in 1 .. k, NEW m \in 1 .. k, NEW j \in DOMAIN found[i],
             NEW l \in DOMAIN found[m], found[i][j] = found[m][l]
      PROVE  i = m /\ j = l
  <2>1. V[i][j] = V[m][l]
    BY <1>1, <1>2, NumberOnly
  <2>2. QED
    BY <2>1 DEF RowsHave, RowsOnce
<1>3. ASSUME NEW x \in 0 .. n - 1
      PROVE  \E i \in 1 .. k : \E j \in DOMAIN found[i] : found[i][j] = Number(x)
  <2>1. PICK i \in 1 .. k : \E j \in DOMAIN V[i] : V[i][j] = x
    BY DEF RowsHave, RowsAll
  <2>2. PICK j \in DOMAIN V[i] : V[i][j] = x
    BY <2>1
  <2>3. j \in DOMAIN found[i] /\ found[i][j] = Number(x)
    BY <1>1, <2>2
  <2>4. QED
    BY <2>3
<1>4. QED
  BY <1>1, <1>2, <1>3 DEF AllOnce

\* Shards find each number once.
LEMMA ShardsFind ==
  ASSUME NEW cont \in Contents, NEW ws \in Seq(Worker), NEW n \in Nat,
         Holds("shards", ws, cont, n), NEW found,
         \A i \in 1 .. Len(ws) : found[i] = FoundAt("shards", cont, ws, i)
  PROVE  AllOnce(found, 1 .. Len(ws), n)
<1>1. PICK k \in Nat : k = Len(ws)
  OBVIOUS
<1>2. PICK V : V = Values(cont, ws)
  OBVIOUS
<1>3. NumbersSelf(ws, cont, n) /\ InOnePlace(ws, cont) /\ InSomePlace(ws, cont, n)
  BY DEF Holds
<1>4. RowsHave(V, k, n)
  BY <1>1, <1>2, <1>3, ShardsHave
<1>5. ASSUME NEW i \in 1 .. k
      PROVE  /\ DOMAIN found[i] = 1 .. Len(found[i]) /\ Len(found[i]) \in Nat
             /\ DOMAIN V[i] = DOMAIN found[i]
             /\ \A j \in DOMAIN found[i] : found[i][j] = Number(V[i][j])
  <2>1. PICK s, t : s = cont[ws[i]] /\ t = found[i]
    OBVIOUS
  <2>2. ShiftOf("shards", cont, ws, i) = 0
    BY DEF ShiftOf
  <2>3. FoundIs(t, s, 0)
    <3>1. FoundIs(FoundAt("shards", cont, ws, i), cont[ws[i]], ShiftOf("shards", cont, ws, i))
      BY <1>1, FoundAtIs
    <3>2. QED
      BY <1>1, <2>1, <2>2, <3>1
  <2>4. DOMAIN V[i] = DOMAIN s /\ \A j \in DOMAIN s : V[i][j] = s[j].v
    BY <1>1, <1>2, <2>1, ValuesAre
  <2>5. \A j \in DOMAIN s : s[j].v = s[j].id
    BY <1>1, <1>3, <2>1 DEF NumbersSelf
  <2>6. ASSUME NEW j \in DOMAIN t PROVE t[j] = Number(V[i][j])
    <3>1. /\ j \in DOMAIN s /\ s[j].v \in Nat
          /\ t[j] = [v |-> s[j].v, id |-> s[j].id + 0]
      BY <2>3 DEF FoundIs
    <3>2. s[j].id + 0 = s[j].v
      BY <2>5, <3>1
    <3>3. QED
      BY <2>4, <3>1, <3>2 DEF Number
  <2>7. DOMAIN t = 1 .. Len(t) /\ Len(t) \in Nat /\ DOMAIN V[i] = DOMAIN t
    BY <2>3, <2>4 DEF FoundIs
  <2>8. QED
    BY <2>1, <2>6, <2>7
<1>6. AllOnce(found, 1 .. k, n)
  BY <1>4, <1>5, AllOnceIs
<1>7. QED
  BY <1>1, <1>6

\* Rows that go on where another ended have each number once.
LEMMA InARowHave ==
  ASSUME NEW cont \in Contents, NEW ws \in Seq(Worker), NEW n \in Nat,
         InARow(ws, cont), Shifts(cont, ws)[Len(ws)] = n
  PROVE  RowsHave(Values(cont, ws), Len(ws), n)
<1>1. PICK k \in Nat : k = Len(ws)
  OBVIOUS
<1>2. PICK S : S = Shifts(cont, ws)
  OBVIOUS
<1>3. PICK V, L : V = Values(cont, ws) /\ L = Lens(cont, ws)
  OBVIOUS
<1>4. L \in [1 .. k -> Nat]
  BY <1>1, <1>3, LensAre
<1>5. /\ S \in [0 .. k -> Nat] /\ S[0] = 0 /\ S[k] = n
      /\ \A i \in 1 .. k : S[i] = S[i - 1] + L[i]
  <2>1. SumsUp(S, k, L)
    BY <1>1, <1>2, <1>3, ShiftsSum
  <2>2. QED
    BY <1>1, <1>2, <2>1 DEF SumsUp
<1>6. \A i \in 1 .. k : S[i - 1] \in Nat /\ S[i] \in Nat /\ L[i] \in Nat /\ S[i - 1] <= S[i]
  <2> SUFFICES ASSUME NEW i \in 1 .. k
               PROVE  S[i - 1] \in Nat /\ S[i] \in Nat /\ L[i] \in Nat /\ S[i - 1] <= S[i]
    OBVIOUS
  <2>1. i \in 0 .. k /\ i - 1 \in 0 .. k
    OBVIOUS
  <2>2. S[i - 1] \in Nat /\ S[i] \in Nat /\ L[i] \in Nat /\ S[i] = S[i - 1] + L[i]
    BY <1>4, <1>5, <2>1
  <2>3. QED
    BY <2>2
<1>7. ASSUME NEW i \in 1 .. k
      PROVE  /\ DOMAIN V[i] = 1 .. L[i]
             /\ \A j \in 1 .. L[i] : V[i][j] = S[i - 1] + j - 1
  <2>1. PICK s \in Seq(Entry) : s = cont[ws[i]]
    BY <1>1, LensAre
  <2>2. L[i] = Len(s) /\ DOMAIN s = 1 .. L[i]
    BY <1>1, <1>3, <2>1, LensAre
  <2>3. DOMAIN V[i] = DOMAIN s /\ \A j \in DOMAIN s : V[i][j] = s[j].v
    <3>1. V = [m \in 1 .. k |-> [j \in DOMAIN cont[ws[m]] |-> cont[ws[m]][j].v]]
      BY <1>1, <1>3 DEF Values
    <3>2. V[i] = [j \in DOMAIN s |-> s[j].v]
      BY <2>1, <3>1
    <3>3. QED
      BY <3>2
  <2>4. \A j \in DOMAIN s : s[j] = [v |-> S[i - 1] + j - 1, id |-> j - 1]
    BY <1>1, <1>2, <2>1 DEF InARow
  <2>5. QED
    BY <2>2, <2>3, <2>4
<1>8. ASSUME NEW i \in 1 .. k, NEW j \in 1 .. L[i]
      PROVE  V[i][j] \in Nat /\ S[i - 1] <= V[i][j] /\ V[i][j] < S[i] /\ j = V[i][j] - S[i - 1] + 1
  <2>1. PICK a \in Nat, b \in Nat, c \in Nat : a = S[i - 1] /\ b = L[i] /\ c = S[i]
    BY <1>6
  <2>2. c = a + b /\ j \in 1 .. b
    BY <1>5, <2>1
  <2>3. V[i][j] = a + j - 1
    BY <1>7, <2>1
  <2>4. a + j - 1 \in Nat /\ a <= a + j - 1 /\ a + j - 1 < c /\ j = (a + j - 1) - a + 1
    BY <2>2
  <2>5. QED
    BY <2>1, <2>3, <2>4
<1>9. RowsBelow(V, k, n)
  <2> SUFFICES ASSUME NEW i \in 1 .. k, NEW j \in 1 .. L[i] PROVE V[i][j] \in 0 .. n - 1
    BY <1>7 DEF RowsBelow
  <2>1. S[i] <= n
    <3>1. \A a, b \in 0 .. k : a <= b => S[a] <= S[b]
      BY <1>5, <1>6, Grows
    <3>2. i \in 0 .. k /\ k \in 0 .. k /\ i <= k
      OBVIOUS
    <3>3. QED
      BY <1>5, <3>1, <3>2
  <2>2. V[i][j] \in Nat /\ V[i][j] < S[i] /\ S[i] \in Nat
    BY <1>6, <1>8
  <2>3. QED
    BY <2>1, <2>2
<1>10. RowsOnce(V, k)
  <2> SUFFICES ASSUME NEW i \in 1 .. k, NEW m \in 1 .. k, NEW j \in DOMAIN V[i],
                      NEW l \in DOMAIN V[m], V[i][j] = V[m][l]
               PROVE  i = m /\ j = l
    BY DEF RowsOnce
  <2> j \in 1 .. L[i] /\ l \in 1 .. L[m]
    BY <1>7
  <2>1. PICK x \in Nat : x = V[i][j] /\ x = V[m][l]
    BY <1>8
  <2>2. S[i - 1] <= x /\ x < S[i] /\ S[m - 1] <= x /\ x < S[m]
    BY <1>8, <2>1
  <2>3. i = m
    BY <1>5, <1>6, <2>2, OneStepOver
  <2>4. j = x - S[i - 1] + 1 /\ l = x - S[m - 1] + 1
    BY <1>8, <2>1
  <2>5. QED
    BY <2>3, <2>4
<1>11. RowsAll(V, k, n)
  <2> SUFFICES ASSUME NEW x \in 0 .. n - 1
               PROVE  \E i \in 1 .. k : \E j \in DOMAIN V[i] : V[i][j] = x
    BY Zenon DEF RowsAll
  <2>1. x \in Nat /\ S[0] <= x /\ x < S[k]
    BY <1>5
  <2>2. PICK i \in 1 .. k : S[i - 1] <= x /\ x < S[i]
    BY <1>5, <1>6, <2>1, StepOver
  <2>3. PICK a \in Nat, b \in Nat, c \in Nat : a = S[i - 1] /\ b = L[i] /\ c = S[i]
    BY <1>6
  <2>4. c = a + b /\ a <= x /\ x < c
    BY <1>5, <2>2, <2>3
  <2>5. x - a + 1 \in 1 .. b /\ a + (x - a + 1) - 1 = x
    BY <2>1, <2>4
  <2>6. V[i][x - a + 1] = a + (x - a + 1) - 1 /\ x - a + 1 \in DOMAIN V[i]
    BY <1>7, <2>3, <2>5
  <2>7. QED
    BY <2>5, <2>6
<1>12. QED
  BY <1>1, <1>3, <1>9, <1>10, <1>11 DEF RowsHave

\* So do the shards of successive_ids, by the shifts of their labels.
LEMMA SuccessiveFinds ==
  ASSUME NEW cont \in Contents, NEW ws \in Seq(Worker), NEW n \in Nat,
         Holds("successive", ws, cont, n), NEW found,
         \A i \in 1 .. Len(ws) : found[i] = FoundAt("successive", cont, ws, i)
  PROVE  AllOnce(found, 1 .. Len(ws), n)
<1>1. PICK k \in Nat : k = Len(ws)
  OBVIOUS
<1>2. PICK V : V = Values(cont, ws)
  OBVIOUS
<1>3. InARow(ws, cont) /\ Shifts(cont, ws)[Len(ws)] = n
  BY DEF Holds
<1>4. RowsHave(V, k, n)
  BY <1>1, <1>2, <1>3, InARowHave
<1>5. ASSUME NEW i \in 1 .. k
      PROVE  /\ DOMAIN found[i] = 1 .. Len(found[i]) /\ Len(found[i]) \in Nat
             /\ DOMAIN V[i] = DOMAIN found[i]
             /\ \A j \in DOMAIN found[i] : found[i][j] = Number(V[i][j])
  <2>1. PICK s, t : s = cont[ws[i]] /\ t = found[i]
    OBVIOUS
  <2>2. PICK d \in Nat : d = Shifts(cont, ws)[i - 1]
    <3>1. i - 1 \in 0 .. Len(ws)
      BY <1>1
    <3>2. QED
      BY <3>1, ShiftsAre
  <2>3. FoundIs(t, s, d)
    <3>1. FoundIs(FoundAt("successive", cont, ws, i), cont[ws[i]],
                  ShiftOf("successive", cont, ws, i))
      BY <1>1, FoundAtIs
    <3>2. ShiftOf("successive", cont, ws, i) = d
      BY <2>2 DEF ShiftOf
    <3>3. QED
      BY <1>1, <2>1, <3>1, <3>2
  <2>4. DOMAIN V[i] = DOMAIN s /\ \A j \in DOMAIN s : V[i][j] = s[j].v
    BY <1>1, <1>2, <2>1, ValuesAre
  <2>5. \A j \in DOMAIN s : s[j] = [v |-> d + j - 1, id |-> j - 1]
    BY <1>1, <1>3, <2>1, <2>2 DEF InARow
  <2>6. ASSUME NEW j \in DOMAIN t PROVE t[j] = Number(V[i][j])
    <3>1. /\ j \in DOMAIN s /\ j \in Nat
          /\ t[j] = [v |-> s[j].v, id |-> s[j].id + d]
      BY <2>3 DEF FoundIs
    <3>2. s[j].v = d + j - 1 /\ s[j].id = j - 1 /\ (j - 1) + d = d + j - 1
      BY <2>5, <3>1
    <3>3. QED
      BY <2>4, <3>1, <3>2 DEF Number
  <2>7. DOMAIN t = 1 .. Len(t) /\ Len(t) \in Nat /\ DOMAIN V[i] = DOMAIN t
    BY <2>3, <2>4 DEF FoundIs
  <2>8. QED
    BY <2>1, <2>6, <2>7
<1>6. AllOnce(found, 1 .. k, n)
  BY <1>4, <1>5, AllOnceIs
<1>7. QED
  BY <1>1, <1>6

\* A sequence without repetition is as long as the set of what is in it is large.
LEMMA OnceCard ==
  ASSUME NEW t, NEW n \in Nat, DOMAIN t = 1 .. n, Distinct(t)
  PROVE  Cardinality(ToSet(t)) = n
<1> DEFINE g == [j \in 1 .. n |-> t[j]]
<1>1. ToSet(t) = {t[j] : j \in 1 .. n}
  BY DEF ToSet
<1>2. g \in Bijection(1 .. n, ToSet(t))
  <2>1. g \in [1 .. n -> ToSet(t)]
    BY <1>1
  <2>2. \A a, b \in 1 .. n : g[a] = g[b] => a = b
    BY DEF Distinct
  <2>3. \A x \in ToSet(t) : \E j \in 1 .. n : g[j] = x
    BY <1>1
  <2> HIDE DEF g
  <2>4. g \in Injection(1 .. n, ToSet(t))
    BY <2>1, <2>2 DEF Injection, IsInjective
  <2>5. g \in Surjection(1 .. n, ToSet(t))
    BY <2>1, <2>3 DEF Surjection
  <2>6. QED
    BY <2>4, <2>5 DEF Bijection
<1>3. ExistsBijection(1 .. n, ToSet(t))
  BY <1>2 DEF ExistsBijection
<1>4. IsFiniteSet(1 .. n) /\ Cardinality(1 .. n) = n
  <2>1. Cardinality(1 .. n) = IF 1 > n THEN 0 ELSE n - 1 + 1
    BY FS_Interval
  <2>2. QED
    BY <2>1, FS_Interval
<1>5. QED
  BY <1>3, <1>4, FS_Bijection

\* What SearchExact says of one query that the sub-indexes us got.
Exact(got, us, n) ==
  LET found(w) == ToSet(got[w].found)
  IN  /\ UNION {found(w) : w \in us} = {[v |-> v, id |-> v] : v \in 0 .. n - 1}
      /\ \A u, w \in us : u # w => found(u) \cap found(w) = {}
      /\ \A w \in us : Len(got[w].found) = Cardinality(found(w))

\* That is what SearchExact says of the results.
LEMMA ExactOf ==
  ASSUME NEW ws, Distinct(ws), NEW n, NEW got, NEW I \in SUBSET DOMAIN ws,
         NEW found, \A i \in I : found[i] = got[ws[i]].found,
         AllOnce(found, I, n)
  PROVE  Exact(got, {ws[i] : i \in I}, n)
<1> DEFINE us == {ws[i] : i \in I}
           F(w) == ToSet(got[w].found)
<1>1. \A i \in I : \A j \in DOMAIN found[i] : \E x \in 0 .. n - 1 : found[i][j] = Number(x)
  BY DEF AllOnce
<1>2. \A i, m \in I : \A j \in DOMAIN found[i], l \in DOMAIN found[m] :
        found[i][j] = found[m][l] => i = m /\ j = l
  BY DEF AllOnce
<1>3. \A x \in 0 .. n - 1 : \E i \in I : \E j \in DOMAIN found[i] : found[i][j] = Number(x)
  BY DEF AllOnce
<1>4. \A i \in I : F(ws[i]) = {found[i][j] : j \in DOMAIN found[i]}
  BY DEF ToSet
<1>5. UNION {F(w) : w \in us} = {Number(x) : x \in 0 .. n - 1}
  <2>1. ASSUME NEW i \in I, NEW e \in F(ws[i]) PROVE e \in {Number(x) : x \in 0 .. n - 1}
    <3>1. PICK j \in DOMAIN found[i] : e = found[i][j]
      BY <1>4
    <3>2. QED
      BY <1>1, <3>1
  <2>2. ASSUME NEW x \in 0 .. n - 1 PROVE \E i \in I : Number(x) \in F(ws[i])
    <3>1. PICK i \in I : \E j \in DOMAIN found[i] : found[i][j] = Number(x)
      BY <1>3
    <3>2. QED
      BY <1>4, <3>1
  <2> HIDE DEF F
  <2>3. QED
    BY <2>1, <2>2
<1>6. ASSUME NEW u \in us, NEW w \in us, u # w PROVE F(u) \cap F(w) = {}
  <2>1. PICK i \in I : u = ws[i]
    OBVIOUS
  <2>2. PICK m \in I : w = ws[m]
    OBVIOUS
  <2>3. i # m
    BY <1>6, <2>1, <2>2
  <2> HIDE DEF F
  <2> SUFFICES ASSUME NEW e, e \in F(u), e \in F(w) PROVE FALSE
    OBVIOUS
  <2>4. PICK j \in DOMAIN found[i] : e = found[i][j]
    <3>1. e \in {found[i][j] : j \in DOMAIN found[i]}
      BY <1>4, <2>1
    <3>2. QED
      BY <3>1
  <2>5. PICK l \in DOMAIN found[m] : e = found[m][l]
    <3>1. e \in {found[m][l] : l \in DOMAIN found[m]}
      BY <1>4, <2>2
    <3>2. QED
      BY <3>1
  <2>6. found[i][j] = found[m][l]
    BY <2>4, <2>5
  <2>7. QED
    BY <1>2, <2>3, <2>6
<1>7. ASSUME NEW w \in us PROVE Len(got[w].found) = Cardinality(F(w))
  <2>1. PICK i \in I : w = ws[i]
    OBVIOUS
  <2>2. PICK t : t = found[i]
    OBVIOUS
  <2>3. DOMAIN t = 1 .. Len(t) /\ Len(t) \in Nat
    BY <2>2 DEF AllOnce
  <2>4. Distinct(t)
    BY <1>2, <2>2 DEF Distinct
  <2>5. Cardinality(ToSet(t)) = Len(t)
    BY <2>3, <2>4, OnceCard
  <2>6. t = got[w].found
    BY <2>1, <2>2
  <2>7. QED
    BY <2>5, <2>6
<1>8. QED
  BY <1>5, <1>6, <1>7 DEF Exact, Number

\* The places of the sub-indexes that get the query q.
Getting(kd, size, q, k) == {i \in 1 .. k : q \in AskedAt(kd, size, i, k)}

\* The queries are dealt out: each is in one share.
LEMMA OneAsked ==
  ASSUME NEW k \in Nat \ {0}, NEW size \in Nat, NEW q \in 0 .. size - 1
  PROVE  \E i \in 1 .. k : Getting("replicas", size, q, k) = {i}
<1>1. PICK per \in Nat : per = (size + k - 1) \div k
  <2>1. size + k - 1 \in Nat
    OBVIOUS
  <2>2. QED
    BY <2>1, DivIs
<1>2. q < k * per /\ k * per \in Nat
  <2>1. PICK a \in Nat : a = size + k - 1
    OBVIOUS
  <2>2. a < k * per + k
    BY <1>1, <2>1, DivIs
  <2>3. PICK p \in Nat : p = k * per
    OBVIOUS
  <2>4. QED
    BY <2>1, <2>2, <2>3
<1> DEFINE f == [i \in 0 .. k |-> i * per]
<1>3. \A i \in 0 .. k : f[i] = i * per /\ i * per \in Nat
  OBVIOUS
<1>4. f \in [0 .. k -> Nat]
  BY <1>3
<1>5. ASSUME NEW i \in 1 .. k
      PROVE  f[i - 1] = (i - 1) * per /\ f[i] = i * per /\ f[i - 1] <= f[i]
  <2>1. i \in 0 .. k /\ i - 1 \in 0 .. k
    OBVIOUS
  <2>2. f[i - 1] = (i - 1) * per /\ f[i] = i * per
    BY <1>3, <2>1
  <2>3. per * (i - 1) <= per * i
    BY <2>1, TimesLess
  <2>4. QED
    BY <2>2, <2>3
<1>6. f[0] = 0 /\ f[k] = k * per
  <2>1. 0 \in 0 .. k /\ k \in 0 .. k /\ 0 * per = 0
    OBVIOUS
  <2>2. QED
    BY <1>3, <2>1
<1>7. \A m \in 1 .. k :
        q \in AskedAt("replicas", size, m, k) <=> f[m - 1] <= q /\ q < f[m]
  BY <1>1, <1>5 DEF AskedAt
<1> HIDE DEF f
<1>8. q \in Nat /\ f[0] <= q /\ q < f[k]
  BY <1>2, <1>6
<1>9. PICK i \in 1 .. k : f[i - 1] <= q /\ q < f[i]
  BY <1>4, <1>5, <1>8, StepOver
<1>10. ASSUME NEW m \in 1 .. k, f[m - 1] <= q, q < f[m] PROVE m = i
  BY <1>4, <1>5, <1>8, <1>9, <1>10, OneStepOver
<1>11. Getting("replicas", size, q, k) = {i}
  BY <1>7, <1>9, <1>10 DEF Getting
<1>12. QED
  BY <1>11

\* The shares of one query have all vectors once.
LEMMA AskedFind ==
  ASSUME NEW kd \in Kind3, NEW cont \in Contents, NEW ws \in Seq(Worker), ws # <<>>,
         NEW n \in Nat, Holds(kd, ws, cont, n), NEW found,
         \A i \in 1 .. Len(ws) : found[i] = FoundAt(kd, cont, ws, i),
         NEW size \in Nat, NEW q \in 0 .. size - 1
  PROVE  AllOnce(found, Getting(kd, size, q, Len(ws)), n)
<1>1. Len(ws) \in Nat \ {0}
  OBVIOUS
<1>2. CASE kd = "replicas"
  <2>1. PICK i \in 1 .. Len(ws) : Getting("replicas", size, q, Len(ws)) = {i}
    BY <1>1, OneAsked
  <2>2. AllInEach(ws, cont, n)
    BY <1>2 DEF Holds
  <2>3. AllOnce(found, {i}, n)
    BY <1>2, <2>2, ReplicaFinds
  <2>4. QED
    BY <1>2, <2>1, <2>3
<1>3. CASE kd # "replicas"
  <2>1. Getting(kd, size, q, Len(ws)) = 1 .. Len(ws)
    BY <1>3 DEF AskedAt, Getting
  <2>2. AllOnce(found, 1 .. Len(ws), n)
    <3>1. CASE kd = "shards"
      BY <3>1, ShardsFind
    <3>2. CASE kd = "successive"
      BY <3>2, SuccessiveFinds
    <3>3. QED
      BY <1>3, <3>1, <3>2 DEF Kind3
  <2>3. QED
    BY <2>1, <2>2
<1>4. QED
  BY <1>2, <1>3

\* A search whose sub-indexes answered from contents that hold the vectors.
\* All of ws have answered.
Answered(got, kd, cont, ws, size) ==
  \A i \in 1 .. Len(ws) :
    got[ws[i]] = [qs |-> AskedAt(kd, size, i, Len(ws)),
                  found |-> FoundAt(kd, cont, ws, i)]

\* Sub-indexes that hold n vectors and have answered as they are give what SearchExact asks.
LEMMA ExactIs ==
  ASSUME NEW kd \in Kind3, NEW cont \in Contents, NEW ws \in Seq(Worker), ws # <<>>,
         Distinct(ws), NEW n \in Nat, Holds(kd, ws, cont, n), NEW size \in Nat, NEW got,
         Answered(got, kd, cont, ws, size), NEW q \in 0 .. size - 1
  PROVE  Exact(got, {u \in ToSet(ws) : q \in got[u].qs}, n)
<1> DEFINE I == Getting(kd, size, q, Len(ws))
           found == [i \in 1 .. Len(ws) |-> FoundAt(kd, cont, ws, i)]
<1>1. DOMAIN ws = 1 .. Len(ws)
  OBVIOUS
<1>2. \A i \in 1 .. Len(ws) :
        /\ got[ws[i]].qs = AskedAt(kd, size, i, Len(ws))
        /\ got[ws[i]].found = found[i]
  <2> SUFFICES ASSUME NEW i \in 1 .. Len(ws)
               PROVE  /\ got[ws[i]].qs = AskedAt(kd, size, i, Len(ws))
                      /\ got[ws[i]].found = found[i]
    OBVIOUS
  <2>1. PICK a, b : a = AskedAt(kd, size, i, Len(ws)) /\ b = FoundAt(kd, cont, ws, i)
    OBVIOUS
  <2>2. got[ws[i]] = [qs |-> a, found |-> b]
    BY <2>1 DEF Answered
  <2>3. found[i] = b
    BY <2>1
  <2>4. QED
    BY <2>1, <2>2, <2>3
<1>3. \A i \in 1 .. Len(ws) : found[i] = FoundAt(kd, cont, ws, i)
  OBVIOUS
<1> HIDE DEF found
<1>4. AllOnce(found, I, n)
  BY <1>3, AskedFind
<1>5. {u \in ToSet(ws) : q \in got[u].qs} = {ws[i] : i \in I}
  BY <1>1, <1>2 DEF ToSet, Getting
<1>6. I \in SUBSET DOMAIN ws /\ \A i \in I : found[i] = got[ws[i]].found
  BY <1>1, <1>2 DEF Getting
<1> HIDE DEF I
<1>7. Exact(got, {ws[i] : i \in I}, n)
  BY <1>4, <1>6, ExactOf
<1>8. QED
  BY <1>5, <1>7

----------------------------------------------------------------------------
(* The invariant of the collections: what searches and adds have done.     *)

\* The calls that give work to the whole collection.
Deals == {"add", "reset", "search"}

\* What the i-th sub-index says to a call.
Work(c, i) == future[<<c, "work">>][indices[i]]

\* f is what a sub-index, the i-th, says to the call r.
AnswerOK(r, i, f) ==
  /\ f # "false"
  /\ f = "none" <=> r.ph = "post" /\ i >= r.j
  /\ r.ph = "after" \/ (r.ph = "wait" /\ i < r.j) =>
       f = "true" \/ (f = "raised" /\ r.raised)

\* A call of the collection has an answer from those it waited for, others have none.
AnswersOf(c) ==
  IF call[c].op \in Deals
  THEN /\ call[c].ws = indices /\ indices # <<>> /\ call[c].size \in Nat
       /\ \A i \in DOMAIN indices : AnswerOK(call[c], i, Work(c, i))
  ELSE \A w \in Worker : future[<<c, "work">>][w] = "none"

\* Who is told to stop is about to leave the collection.
StopsOK ==
  /\ \A w \in Worker : Contains(indices, w) /\ wantStop[w] =>
       \E c \in Caller : /\ call[c].op \in {"removeIndex", "destroy"}
                         /\ Contains(call[c].ws, w)
  /\ \A c \in Caller : call[c].op = "addIndex" /\ call[c].ph # "make" =>
       ~wantStop[call[c].ws[1]]

\* A search has seen the contents as they are.
Answer(size, i) ==
  [qs |-> AskedAt(kind, size, i, Len(indices)), found |-> FoundAt(kind, contents, indices, i)]

SawOf(c) ==
  call[c].op = "search" =>
    \A i \in DOMAIN indices :
      Work(c, i) = "true" => call[c].got[indices[i]] = Answer(call[c].size, i)

\* What the i-th sub-index, which has s, gets of a batch of n.
Share(s, n, i) ==
  s \o NewAt(kind, committed, committed, Len(s), n, i, Len(indices))

\* An add has given some of the sub-indexes, which had old, their share.
AddsTo(c, old) ==
  \A i \in DOMAIN indices :
    contents[indices[i]] =
      IF Work(c, i) = "true" THEN Share(old[indices[i]], call[c].size, i) ELSE old[indices[i]]

\* What an add finds, and what a reset leaves.
AddOf(c) ==
  call[c].op = "add" /\ ~dirty =>
    /\ kind = "successive" => committed = 0
    /\ \E old \in Contents : Holds(kind, indices, old, committed) /\ AddsTo(c, old)

ResetOf(c) ==
  call[c].op = "reset" =>
    \A i \in DOMAIN indices : Work(c, i) = "true" => contents[indices[i]] = <<>>

\* The results have a place for each worker.
GotOf(c) == call[c].got = [w \in Worker |-> call[c].got[w]]

CallDeep(c) == AnswersOf(c) /\ SawOf(c) /\ AddOf(c) /\ ResetOf(c) /\ GotOf(c)

Changes == \E c \in Caller : call[c].op \in {"add", "reset"}

\* Between changes, if not dirty, the collection holds what was added, and counts it.
DataOK ==
  /\ contents \in Contents /\ committed \in Nat /\ ntotal \in Nat /\ dirty \in BOOLEAN
  /\ ~dirty => ntotal = committed
  /\ ~dirty /\ ~Changes => Holds(kind, indices, contents, committed)

Deep == (\A c \in Caller : CallDeep(c)) /\ StopsOK /\ DataOK

\* The invariant: other kinds have no adds.
DeepInv == kind \in Kinds /\ (kind \in Kind3 => Deep)

----------------------------------------------------------------------------
(* The functions of the module, by the place of a sub-index.               *)

\* The number of a worker in a call is its place.
LEMMA NoIs ==
  ASSUME NEW c, NEW ws \in Seq(Worker), ws = call[c].ws, Distinct(ws),
         NEW i \in 1 .. Len(ws)
  PROVE  No(c, ws[i]) = i - 1
<1>1. i - 1 \in 0 .. Len(ws) - 1 /\ ws[(i - 1) + 1] = ws[i]
  OBVIOUS
<1>2. ASSUME NEW m \in 0 .. Len(ws) - 1, ws[m + 1] = ws[i] PROVE m = i - 1
  <2>1. m + 1 \in DOMAIN ws /\ i \in DOMAIN ws
    OBVIOUS
  <2>2. m + 1 = i
    BY <1>2, <2>1 DEF Distinct
  <2>3. QED
    BY <2>2
<1>3. No(c, ws[i]) = CHOOSE m \in 0 .. Len(ws) - 1 : ws[m + 1] = ws[i]
  BY DEF No
<1>4. QED
  BY <1>1, <1>2, <1>3

LEMMA AskedIs ==
  ASSUME NEW c, NEW ws \in Seq(Worker), ws = call[c].ws, Distinct(ws),
         NEW i \in 1 .. Len(ws)
  PROVE  Asked(c, ws[i]) = AskedAt(kind, call[c].size, i, Len(ws))
<1>1. PICK no \in Nat : no = No(c, ws[i]) /\ no = i - 1
  BY NoIs
<1>2. no + 1 = i /\ i - 1 = no
  BY <1>1
<1>3. QED
  BY <1>1, <1>2 DEF Asked, AskedAt

LEMMA FoundAtW ==
  ASSUME NEW c, NEW ws \in Seq(Worker), ws = call[c].ws, Distinct(ws),
         NEW i \in 1 .. Len(ws)
  PROVE  Found(c, ws[i]) = FoundAt(kind, contents, ws, i)
<1>1. No(c, ws[i]) = i - 1
  BY NoIs
<1>2. Translation(c, ws[i]) = ShiftOf(kind, contents, ws, i)
  BY <1>1, TranslationsAre DEF Translation, ShiftOf
<1>3. QED
  BY <1>2 DEF Found, FoundAt

LEMMA AddedIs ==
  ASSUME kind \in Kind3,
         NEW c, NEW ws \in Seq(Worker), ws = call[c].ws, Distinct(ws),
         NEW i \in 1 .. Len(ws), call[c].size \in Nat
  PROVE  Added(c, ws[i]) =
           NewAt(kind, committed, ntotal, Len(contents[ws[i]]), call[c].size, i, Len(ws))
<1>1. PICK no \in Nat : no = No(c, ws[i]) /\ no = i - 1 /\ no + 1 = i
  BY NoIs
<1>2. PICK n \in Nat, k \in Nat \ {0} : n = call[c].size /\ k = Len(ws)
  OBVIOUS
<1>3. PICK lo \in Nat, up \in Nat :
        lo = From(kind, n, i, k) /\ up = UpTo(kind, n, i, k) /\ lo <= up
  BY <1>2, FromUpTo
<1>4. Part(c, ws[i]) = [j \in 1 .. up - lo |-> lo + j - 1]
  <2>1. CASE kind = "replicas"
    <3>1. lo = 0 /\ up = n /\ ~Sharded
      BY <1>3, <2>1 DEF From, UpTo, Sharded
    <3>2. Part(c, ws[i]) = [j \in 1 .. n |-> j - 1]
      BY <1>2, <3>1 DEF Part
    <3>3. n = up - lo /\ \A j \in 1 .. n : j - 1 = lo + j - 1
      BY <3>1
    <3>4. QED
      BY <3>2, <3>3
  <2>2. CASE kind # "replicas"
    <3>1. lo = Cut(n, no, k) /\ up = Cut(n, no + 1, k) /\ Sharded
      BY <1>1, <1>3, <2>2 DEF From, UpTo, Sharded, Kind3
    <3>2. Part(c, ws[i]) = Slice(n, no, k)
      BY <1>1, <1>2, <3>1 DEF Part
    <3>3. QED
      BY <3>1, <3>2 DEF Slice
  <2>3. QED
    BY <2>1, <2>2
<1>5. PICK is : is = Part(c, ws[i])
  OBVIOUS
<1>6. PICK len : len = Len(contents[ws[i]])
  OBVIOUS
<1>7. Added(c, ws[i]) =
        [j \in DOMAIN is |->
           [v |-> committed + is[j],
            id |-> IF kind = "shards" THEN ntotal + is[j] ELSE len + j - 1]]
  BY <1>5, <1>6 DEF Added
<1>8. DOMAIN is = 1 .. up - lo /\ \A j \in 1 .. up - lo : is[j] = lo + j - 1
  BY <1>4, <1>5
<1>9. Added(c, ws[i]) =
        [j \in 1 .. up - lo |->
           [v |-> committed + (lo + j - 1),
            id |-> IF kind = "shards" THEN ntotal + (lo + j - 1) ELSE len + j - 1]]
  BY <1>7, <1>8
<1>10. QED
  BY <1>2, <1>3, <1>6, <1>9 DEF NewAt

----------------------------------------------------------------------------
(* Steps that leave the contents and the answers alone.                    *)

\* The call d is what it was, and where it was, or not far from there.
SameDeal(d) ==
  /\ call'[d].op = call[d].op /\ call'[d].ws = call[d].ws
  /\ call'[d].size = call[d].size /\ call'[d].got = call[d].got

SameData == UNCHANGED <<kind, indices, contents, ntotal, committed, dirty>>

\* The same tasks of calls are done.
SameDone ==
  \A d \in Caller, w \in Worker :
    future'[<<d, "work">>][w] = "true" <=> future[<<d, "work">>][w] = "true"

DataDeep == (\A d \in Caller : SawOf(d) /\ AddOf(d) /\ ResetOf(d) /\ GotOf(d)) /\ DataOK

\* A step that changes neither data, nor calls, nor who is done.
LEMMA DeepFrame ==
  ASSUME indices \in Seq(Worker), DataDeep, SameData, SameDone, \A d \in Caller : SameDeal(d)
  PROVE  DataDeep'
<1>1. /\ kind' = kind /\ indices' = indices /\ contents' = contents
      /\ ntotal' = ntotal /\ committed' = committed /\ dirty' = dirty
  BY DEF SameData
<1>2. ASSUME NEW d \in Caller, NEW i \in DOMAIN indices
      PROVE  Work(d, i)' = "true" <=> Work(d, i) = "true"
  <2>1. indices[i] \in Worker
    OBVIOUS
  <2>2. QED
    BY <1>1, <2>1 DEF SameDone, Work
<1>3. ASSUME NEW d \in Caller PROVE SawOf(d)' /\ AddOf(d)' /\ ResetOf(d)' /\ GotOf(d)'
  <2>1. /\ call'[d].op = call[d].op /\ call'[d].size = call[d].size
        /\ call'[d].got = call[d].got
    BY DEF SameDeal
  <2>2. SawOf(d)'
    BY <1>1, <1>2, <2>1 DEF DataDeep, SawOf, Answer
  <2>3. AddOf(d)'
    <3>1. ASSUME NEW old, AddsTo(d, old) PROVE AddsTo(d, old)'
      BY <1>1, <1>2, <2>1, <3>1 DEF AddsTo, Share
    <3>2. AddOf(d)
      BY DEF DataDeep
    <3>3. QED
      BY <1>1, <2>1, <3>1, <3>2 DEF AddOf
  <2>4. ResetOf(d)'
    BY <1>1, <1>2, <2>1 DEF DataDeep, ResetOf
  <2>5. GotOf(d)'
    BY <2>1 DEF DataDeep, GotOf
  <2>6. QED
    BY <2>2, <2>3, <2>4, <2>5
<1>4. Changes' <=> Changes
  BY DEF Changes, SameDeal
<1>5. DataOK'
  BY <1>1, <1>4 DEF DataDeep, DataOK
<1>6. QED
  BY <1>3, <1>5 DEF DataDeep

LEMMA DeepIs ==
  Deep <=> DataDeep /\ StopsOK /\ \A c \in Caller : AnswersOf(c)
BY DEF Deep, DataDeep, CallDeep

\* The record of a call that moves on.
MovesTo(c, ph, j, raised) ==
  call' = [call EXCEPT ![c].raised = raised, ![c].ph = ph, ![c].j = j]

LEMMA MovedRecord ==
  ASSUME CallsOK, NEW c \in Caller, NEW ph, NEW j, NEW raised,
         MovesTo(c, ph, j, raised)
  PROVE  /\ \A d \in Caller : SameDeal(d)
         /\ \A d \in Caller \ {c} : call'[d] = call[d]
         /\ call'[c].ph = ph /\ call'[c].j = j /\ call'[c].raised = raised
<1>1. /\ call = [d \in Caller |-> call[d]]
      /\ call[c] = [op |-> call[c].op, ph |-> call[c].ph, ws |-> call[c].ws,
                    j |-> call[c].j, size |-> call[c].size,
                    raised |-> call[c].raised, got |-> call[c].got]
  BY DEF CallsOK, CallOK, IsCall
<1>2. call'[c] = [op |-> call[c].op, ph |-> ph, ws |-> call[c].ws, j |-> j,
                  size |-> call[c].size, raised |-> raised, got |-> call[c].got]
  BY <1>1 DEF MovesTo
<1>3. \A d \in Caller \ {c} : call'[d] = call[d]
  BY <1>1 DEF MovesTo
<1>4. SameDeal(c)
  BY <1>2 DEF SameDeal
<1>5. \A d \in Caller \ {c} : SameDeal(d)
  BY <1>3 DEF SameDeal
<1>6. \A d \in Caller : SameDeal(d)
  BY <1>4, <1>5
<1>7. call'[c].ph = ph /\ call'[c].j = j /\ call'[c].raised = raised
  BY <1>2
<1>8. QED
  BY <1>3, <1>6, <1>7

\* What the call c does not change.
Moved(c) ==
  /\ \A d \in Caller : SameDeal(d)
  /\ \A d \in Caller \ {c} : call'[d] = call[d]
  /\ SameData

LEMMA ToMoves ==
  ASSUME CallsOK, NEW c \in Caller, NEW ph, To(c, ph), SameData
  PROVE  Moved(c) /\ call'[c].ph = ph
<1>1. /\ call = [d \in Caller |-> call[d]]
      /\ call[c] = [op |-> call[c].op, ph |-> call[c].ph, ws |-> call[c].ws,
                    j |-> call[c].j, size |-> call[c].size,
                    raised |-> call[c].raised, got |-> call[c].got]
  BY DEF CallsOK, CallOK, IsCall
<1>2. MovesTo(c, ph, call[c].j, call[c].raised)
  BY <1>1 DEF To, MovesTo
<1>3. QED
  BY <1>2, MovedRecord DEF Moved

LEMMA NextMoves ==
  ASSUME CallsOK, NEW c \in Caller, NEW ph, NEW end, NextOr(c, ph, end), SameData
  PROVE  /\ Moved(c) /\ call'[c].raised = call[c].raised
         /\ call'[c].ph = IF AtEnd(c) THEN end ELSE ph
         /\ call'[c].j = IF AtEnd(c) THEN 1 ELSE call[c].j + 1
<1> DEFINE p == IF AtEnd(c) THEN end ELSE ph
           j == IF AtEnd(c) THEN 1 ELSE call[c].j + 1
<1>1. /\ call = [d \in Caller |-> call[d]]
      /\ call[c] = [op |-> call[c].op, ph |-> call[c].ph, ws |-> call[c].ws,
                    j |-> call[c].j, size |-> call[c].size,
                    raised |-> call[c].raised, got |-> call[c].got]
  BY DEF CallsOK, CallOK, IsCall
<1>2. call' = [call EXCEPT ![c].ph = p, ![c].j = j]
  BY <1>1 DEF NextOr
<1> HIDE DEF p, j
<1>3. MovesTo(c, p, j, call[c].raised)
  BY <1>1, <1>2 DEF MovesTo
<1>4. /\ \A d \in Caller : SameDeal(d)
      /\ \A d \in Caller \ {c} : call'[d] = call[d]
      /\ call'[c].ph = p /\ call'[c].j = j /\ call'[c].raised = call[c].raised
  BY <1>3, MovedRecord
<1>5. Moved(c)
  BY <1>4 DEF Moved
<1>6. QED
  BY <1>4, <1>5 DEF p, j

\* Who is told to stop, when nobody is.
LEMMA StopsFrame ==
  ASSUME StopsOK, wantStop' = wantStop, indices' = indices,
         \A d \in Caller : SameDeal(d) /\ (call'[d].ph # "make" => call[d].ph # "make")
  PROVE  StopsOK'
BY DEF StopsOK, SameDeal

\* What a call was told, when it and its futures are as before.
LEMMA AnswersFrame ==
  ASSUME indices \in Seq(Worker), NEW d \in Caller, AnswersOf(d), SameDeal(d),
         indices' = indices,
         call[d].op \in Deals => /\ call'[d].ph = call[d].ph /\ call'[d].j = call[d].j
                                 /\ call'[d].raised = call[d].raised,
         \A w \in Worker : future'[<<d, "work">>][w] = future[<<d, "work">>][w]
  PROVE  AnswersOf(d)'
<1>1. CASE call[d].op \in Deals
  <2>1. call'[d].op \in Deals
    BY <1>1 DEF SameDeal
  <2>2. \A i \in DOMAIN indices : Work(d, i)' = Work(d, i)
    <3>1. \A i \in DOMAIN indices : indices[i] \in Worker
      OBVIOUS
    <3>2. QED
      BY <3>1 DEF Work
  <2>3. QED
    BY <1>1, <2>1, <2>2 DEF AnswersOf, SameDeal, AnswerOK
<1>2. CASE call[d].op \notin Deals
  BY <1>2 DEF AnswersOf, SameDeal
<1>3. QED
  BY <1>1, <1>2

----------------------------------------------------------------------------
(* Steps of a call.                                                        *)

\* A step of a call that moves on.
LEMMA DeepMoves ==
  ASSUME IInv, Deep, NEW c \in Caller, Moved(c), SameDone, StopsOK', AnswersOf(c)',
         \A d \in Caller \ {c}, w \in Worker :
           future'[<<d, "work">>][w] = future[<<d, "work">>][w]
  PROVE  Deep'
<1>1. indices \in Seq(Worker) /\ SameData /\ indices' = indices
  BY DEF IInv, Moved, SameData
<1>2. DataDeep'
  BY <1>1, DeepFrame, DeepIs DEF Moved
<1>3. ASSUME NEW d \in Caller \ {c} PROVE AnswersOf(d)'
  <2>1. AnswersOf(d) /\ SameDeal(d) /\ call'[d] = call[d]
    BY DeepIs DEF Moved
  <2>2. QED
    BY <1>1, <2>1, AnswersFrame
<1>4. \A d \in Caller : AnswersOf(d)'
  BY <1>3
<1>5. QED
  BY <1>2, <1>4 DEF Deep, DataDeep, CallDeep

\* What is under way tells what was called.
LEMMA DealOf ==
  ASSUME IInv, kind \in Kind3, NEW c \in Caller
  PROVE  /\ call[c].ph \in {"make", "greet", "hello"} => call[c].op = "addIndex"
         /\ call[c].ph \in {"post", "wait"} => call[c].op \in Deals
         /\ call[c].ph \in {"close", "join"} => call[c].op \in {"removeIndex", "destroy"}
         /\ call[c].ph = "after" => call[c].op \in Deals \cup {"addIndex", "removeIndex", "destroy"}
<1>1. IsCall(call[c]) /\ kind \notin {"split", "plain"}
  BY DEF IInv, CallsOK, CallOK, Kind3
<1>2. call[c].ph \in PhasesOf(call[c].op) /\ KindHas(call[c].op)
  BY <1>1 DEF IsCall
<1>3. QED
  BY <1>1, <1>2 DEF PhasesOf, KindHas, Deals

\* A call that changes the collection has no other beside it.
LEMMA NoOther ==
  ASSUME IInv, NEW c \in Caller, NEW d \in Caller, c # d,
         call[c].op \in {"addIndex", "removeIndex", "destroy", "add", "reset"}
  PROVE  call[d].op = "none"
<1>1. IsCall(call[c]) /\ IsCall(call[d])
  BY DEF IInv, CallsOK, CallOK
<1>2. c \in Open
  BY <1>1, OpenOp
<1>3. Open = {c}
  BY <1>2, AloneCall
<1>4. QED
  BY <1>1, <1>3, OpenOp

LEMMA AddFuture ==
  ASSUME WorkerInv, NEW w \in Worker, NEW t \in Task, Add(w, t)
  PROVE  /\ wantStop' = wantStop
         /\ \A u \in Task, v \in Worker : u # t \/ v # w => future'[u][v] = future[u][v]
         /\ ~wantStop[w] => future'[t][w] = "pending"
<1>1. future \in [Task -> [Worker -> Futures]]
  BY DEF WorkerInv, WorkerType
<1>2. CASE wantStop[w] /\ wantStop' = wantStop /\ future' = [future EXCEPT ![t][w] = "false"]
  BY <1>1, <1>2
<1>3. CASE ~wantStop[w] /\ wantStop' = wantStop /\ future' = [future EXCEPT ![t][w] = "pending"]
  BY <1>1, <1>3
<1>4. QED
  BY <1>2, <1>3 DEF Add

\* The phases of a call, one by one.
LEMMA MakesDeep ==
  ASSUME IInv, Deep, kind \in Kind3, NEW c \in Caller, Makes(c)
  PROVE  Deep'
<1>1. At(c, "make") /\ Start(W(c)) /\ To(c, "greet") /\ SameData
  BY DEF Makes, topVars, SameData
<1>2. Moved(c) /\ call'[c].ph = "greet"
  BY <1>1, ToMoves DEF IInv
<1>3. /\ call[c].op = "addIndex" /\ W(c) \in Worker /\ W(c) = call[c].ws[call[c].j]
      /\ call[c].j \in DOMAIN call[c].ws /\ DOMAIN call[c].ws = 1 .. Len(call[c].ws)
      /\ Len(call[c].ws) = 1
  BY <1>1, AtWorker, DealOf DEF CallOK, WorkersOf
<1>4. W(c) = call[c].ws[1]
  BY <1>3
<1>5. future' = future /\ wantStop' = [wantStop EXCEPT ![W(c)] = FALSE]
  BY <1>1 DEF Start
<1>6. /\ wantStop'[W(c)] = FALSE
      /\ \A w \in Worker : w # W(c) => wantStop'[w] = wantStop[w]
  BY <1>3, <1>5 DEF IInv, WorkerInv, WorkerType
<1>7. StopsOK'
  <2>1. StopsOK /\ indices' = indices /\ \A d \in Caller : SameDeal(d)
    BY <1>2, DeepIs DEF Moved, SameData
  <2>2. ASSUME NEW w \in Worker, Contains(indices, w), wantStop'[w]
        PROVE  \E d \in Caller : /\ call'[d].op \in {"removeIndex", "destroy"}
                                 /\ Contains(call'[d].ws, w)
    <3>1. wantStop[w]
      BY <1>6, <2>2
    <3>2. QED
      BY <2>1, <2>2, <3>1 DEF StopsOK, SameDeal
  <2>3. ASSUME NEW d \in Caller, call'[d].op = "addIndex"
        PROVE  ~wantStop'[call'[d].ws[1]]
    <3>1. d = c
      BY <1>3, <2>1, <2>3, NoOther DEF SameDeal
    <3>2. QED
      BY <1>4, <1>6, <2>1, <3>1 DEF SameDeal
  <2>4. QED
    BY <2>1, <2>2, <2>3 DEF StopsOK
<1>8. AnswersOf(c)' /\ SameDone
  <2>1. AnswersOf(c) /\ SameDeal(c) /\ indices' = indices
    BY <1>2, DeepIs DEF Moved, SameData
  <2>2. QED
    BY <1>3, <1>5, <2>1 DEF AnswersOf, SameDeal, SameDone, Deals
<1>9. QED
  BY <1>2, <1>5, <1>7, <1>8, DeepMoves

\* A step of a call that adds an index, or of one that waits for the end of a
\* thread, tells nobody to stop and answers nobody.
LEMMA QuietMoves ==
  ASSUME IInv, Deep, NEW c \in Caller, Moved(c), call[c].op \notin Deals,
         wantStop' = wantStop, call[c].ph # "make",
         \A d \in Caller, w \in Worker :
           future'[<<d, "work">>][w] = future[<<d, "work">>][w]
  PROVE  Deep'
<1>1. /\ \A d \in Caller : SameDeal(d)
      /\ \A d \in Caller \ {c} : call'[d] = call[d]
      /\ indices' = indices /\ StopsOK
  BY DeepIs DEF Moved, SameData
<1>2. StopsOK'
  BY <1>1, StopsFrame
<1>3. AnswersOf(c)'
  <2>1. AnswersOf(c) /\ SameDeal(c)
    BY <1>1, DeepIs
  <2>2. QED
    BY <2>1 DEF AnswersOf, SameDeal
<1>4. SameDone
  BY DEF SameDone
<1>5. QED
  BY <1>2, <1>3, <1>4, DeepMoves

LEMMA GreetsDeep ==
  ASSUME IInv, Deep, kind \in Kind3, NEW c \in Caller, Greets(c)
  PROVE  Deep'
<1>1. /\ At(c, "greet") /\ Add(W(c), <<c, "hello">>) /\ To(c, "hello") /\ SameData
  BY DEF Greets, topVars, SameData
<1>2. Moved(c) /\ W(c) \in Worker /\ call[c].ph = "greet" /\ call[c].op = "addIndex"
  BY <1>1, ToMoves, AtWorker, DealOf DEF IInv
<1>3. /\ wantStop' = wantStop
      /\ \A u \in Task, v \in Worker : u # <<c, "hello">> => future'[u][v] = future[u][v]
  <2>1. WorkerInv /\ <<c, "hello">> \in Task
    BY TaskOf DEF IInv
  <2>2. PICK t \in Task : t = <<c, "hello">>
    BY <2>1
  <2>3. Add(W(c), t)
    BY <1>1, <2>2
  <2>4. wantStop' = wantStop /\ \A u \in Task, v \in Worker : u # t => future'[u][v] = future[u][v]
    BY <1>2, <2>1, <2>3, AddFuture
  <2>5. QED
    BY <2>2, <2>4
<1>4. ASSUME NEW d \in Caller, NEW w \in Worker
      PROVE  future'[<<d, "work">>][w] = future[<<d, "work">>][w]
  <2>1. <<d, "work">> \in Task /\ <<d, "work">> # <<c, "hello">>
    BY TaskOf
  <2>2. QED
    BY <1>3, <2>1
<1>5. QED
  BY <1>2, <1>3, <1>4, QuietMoves DEF Deals

LEMMA IsMadeDeep ==
  ASSUME IInv, Deep, kind \in Kind3, NEW c \in Caller, IsMade(c)
  PROVE  Deep'
<1> DEFINE ph == IF call[c].op = "addIndex" THEN "after" ELSE "post"
<1>1. /\ At(c, "hello") /\ To(c, ph) /\ SameData
      /\ wantStop' = wantStop /\ future' = future
  BY DEF IsMade, topVars, SameData, workerVars
<1> HIDE DEF ph
<1>2. Moved(c) /\ call[c].ph = "hello" /\ call[c].op = "addIndex"
  BY <1>1, ToMoves, AtWorker, DealOf DEF IInv
<1>3. QED
  BY <1>1, <1>2, QuietMoves DEF Deals

LEMMA JoinsDeep ==
  ASSUME IInv, Deep, kind \in Kind3, NEW c \in Caller, Joins(c)
  PROVE  Deep'
<1>1. /\ At(c, "join") /\ NextOr(c, "close", "after") /\ SameData
      /\ wantStop' = wantStop /\ future' = future
  BY DEF Joins, topVars, SameData, workerVars
<1>2. Moved(c)
  BY <1>1, NextMoves DEF IInv
<1>3. call[c].ph = "join" /\ call[c].op \in {"removeIndex", "destroy"}
  BY <1>1, AtWorker, DealOf
<1>4. QED
  BY <1>1, <1>2, <1>3, QuietMoves DEF Deals

LEMMA ClosesDeep ==
  ASSUME IInv, Deep, kind \in Kind3, NEW c \in Caller, Closes(c)
  PROVE  Deep'
<1>1. /\ At(c, "close") /\ Stop(W(c)) /\ To(c, "join") /\ SameData
  BY DEF Closes, topVars, SameData
<1>2. Moved(c)
  BY <1>1, ToMoves DEF IInv
<1>3. /\ call[c].op \in {"removeIndex", "destroy"} /\ W(c) \in Worker
      /\ Contains(call[c].ws, W(c))
  BY <1>1, AtWorker, DealOf
<1>4. future' = future /\ wantStop' = [wantStop EXCEPT ![W(c)] = TRUE]
  BY <1>1 DEF Stop
<1>5. \A w \in Worker : w # W(c) => wantStop'[w] = wantStop[w]
  BY <1>3, <1>4 DEF IInv, WorkerInv, WorkerType
<1>6. StopsOK'
  <2>1. StopsOK /\ indices' = indices /\ \A d \in Caller : SameDeal(d)
    BY <1>2, DeepIs DEF Moved, SameData
  <2>2. ASSUME NEW w \in Worker, Contains(indices, w), wantStop'[w]
        PROVE  \E d \in Caller : /\ call'[d].op \in {"removeIndex", "destroy"}
                                 /\ Contains(call'[d].ws, w)
    <3>1. CASE w = W(c)
      BY <1>3, <2>1, <3>1 DEF SameDeal
    <3>2. CASE w # W(c)
      <4>1. wantStop[w]
        BY <1>5, <2>2, <3>2
      <4>2. QED
        BY <2>1, <2>2, <4>1 DEF StopsOK, SameDeal
    <3>3. QED
      BY <3>1, <3>2
  <2>3. ASSUME NEW d \in Caller PROVE call'[d].op # "addIndex"
    <3>1. call[d].op # "addIndex"
      BY <1>3, NoOther
    <3>2. QED
      BY <2>1, <3>1 DEF SameDeal
  <2>4. QED
    BY <2>1, <2>2, <2>3 DEF StopsOK
<1>7. AnswersOf(c)' /\ SameDone
  <2>1. AnswersOf(c) /\ SameDeal(c)
    BY <1>2, DeepIs DEF Moved
  <2>2. QED
    BY <1>3, <1>4, <2>1 DEF AnswersOf, SameDeal, SameDone, Deals
<1>8. QED
  BY <1>2, <1>4, <1>6, <1>7, DeepMoves

\* What is known of a call that gives work to the collection.
LEMMA DealIs ==
  ASSUME IInv, Deep, NEW c \in Caller, call[c].op \in Deals
  PROVE  /\ call[c].ws = indices /\ indices # <<>> /\ call[c].size \in Nat
         /\ indices \in Seq(Worker) /\ Distinct(indices)
         /\ Len(indices) \in Nat \ {0} /\ DOMAIN indices = 1 .. Len(indices)
         /\ \A i \in DOMAIN indices : /\ AnswerOK(call[c], i, Work(c, i))
                                      /\ indices[i] \in Worker
                                      /\ Work(c, i) \in Futures
<1>1. /\ call[c].ws = indices /\ indices # <<>> /\ call[c].size \in Nat
      /\ \A i \in DOMAIN indices : AnswerOK(call[c], i, Work(c, i))
  BY DeepIs DEF AnswersOf
<1>2. indices \in Seq(Worker) /\ Distinct(indices)
  BY DEF IInv
<1>3. Len(indices) \in Nat \ {0} /\ DOMAIN indices = 1 .. Len(indices)
  BY <1>1, <1>2
<1>4. \A i \in DOMAIN indices : indices[i] \in Worker
  BY <1>2
<1>5. \A i \in DOMAIN indices : Work(c, i) \in Futures
  BY <1>4, TaskOf DEF Work, IInv, WorkerInv, WorkerType
<1>6. QED
  BY <1>1, <1>2, <1>3, <1>4, <1>5

\* The workers of a call that works on the collection take tasks.
LEMMA NotStopped ==
  ASSUME IInv, Deep, NEW c \in Caller, call[c].op \in Deals, NEW i \in DOMAIN indices
  PROVE  ~wantStop[indices[i]]
<1>1. indices[i] \in Worker /\ Contains(indices, indices[i]) /\ StopsOK
  BY DealIs, DeepIs DEF Contains
<1>2. ASSUME NEW d \in Caller, call[d].op \in {"removeIndex", "destroy"} PROVE FALSE
  BY <1>2, NoOther DEF Deals
<1>3. QED
  BY <1>1, <1>2 DEF StopsOK

\* Work is given to the next sub-index, which takes it.
LEMMA PostsDeep ==
  ASSUME IInv, Deep, kind \in Kind3, NEW c \in Caller, Posts(c)
  PROVE  Deep'
<1> DEFINE j == call[c].j
<1>1. /\ At(c, "post") /\ Add(W(c), <<c, "work">>) /\ NextOr(c, "post", "wait")
      /\ SameData
  BY DEF Posts, topVars, SameData, Kind3
<1>2. /\ Moved(c) /\ call'[c].raised = call[c].raised
      /\ call'[c].ph = IF AtEnd(c) THEN "wait" ELSE "post"
      /\ call'[c].j = IF AtEnd(c) THEN 1 ELSE j + 1
  BY <1>1, NextMoves DEF IInv
<1>3. /\ call[c].op \in Deals /\ call[c].ph = "post" /\ W(c) \in Worker
      /\ j \in DOMAIN call[c].ws /\ W(c) = call[c].ws[j]
  BY <1>1, AtWorker, DealOf
<1>4. /\ call[c].ws = indices /\ indices \in Seq(Worker) /\ Distinct(indices)
      /\ DOMAIN indices = 1 .. Len(indices) /\ Len(indices) \in Nat
      /\ \A i \in DOMAIN indices : AnswerOK(call[c], i, Work(c, i)) /\ indices[i] \in Worker
  BY <1>3, DealIs
<1>5. j \in 1 .. Len(indices) /\ W(c) = indices[j] /\ (AtEnd(c) <=> j = Len(indices))
  BY <1>3, <1>4 DEF AtEnd
<1>6. ~wantStop[W(c)]
  BY <1>3, <1>4, <1>5, NotStopped
<1>7. /\ wantStop' = wantStop
      /\ future'[<<c, "work">>][W(c)] = "pending"
      /\ \A d \in Caller, w \in Worker : d # c \/ w # W(c) =>
           future'[<<d, "work">>][w] = future[<<d, "work">>][w]
  <2>1. WorkerInv /\ <<c, "work">> \in Task
    BY TaskOf DEF IInv
  <2>2. PICK t \in Task : t = <<c, "work">>
    BY <2>1
  <2>3. Add(W(c), t)
    BY <1>1, <2>2
  <2>4. /\ wantStop' = wantStop /\ future'[t][W(c)] = "pending"
        /\ \A u \in Task, v \in Worker : u # t \/ v # W(c) => future'[u][v] = future[u][v]
    BY <1>3, <1>6, <2>1, <2>3, AddFuture
  <2>5. \A d \in Caller : <<d, "work">> \in Task /\ (d # c => <<d, "work">> # t)
    BY <2>2, TaskOf
  <2>6. QED
    BY <2>2, <2>4, <2>5
<1>8. Work(c, j) = "none"
  BY <1>3, <1>4, <1>5 DEF AnswerOK
<1>9. SameDone
  BY <1>5, <1>7, <1>8 DEF SameDone, Work
<1>10. /\ \A d \in Caller : SameDeal(d)
       /\ \A d \in Caller \ {c} : call'[d] = call[d]
       /\ indices' = indices /\ StopsOK
  BY <1>2, DeepIs DEF Moved, SameData
<1>11. StopsOK'
  <2>1. \A d \in Caller : call'[d].ph # "make" => call[d].ph # "make"
    BY <1>3, <1>10
  <2>2. QED
    BY <1>7, <1>10, <2>1, StopsFrame
<1>12. AnswersOf(c)'
  <2>1. ASSUME NEW i \in DOMAIN indices
        PROVE  AnswerOK(call'[c], i, future'[<<c, "work">>][indices[i]])
    <3>1. CASE i = j
      BY <1>2, <1>5, <1>7, <3>1 DEF AnswerOK
    <3>2. CASE i # j
      <4>1. indices[i] # W(c) /\ indices[i] \in Worker
        BY <1>4, <1>5, <3>2 DEF Distinct
      <4>2. future'[<<c, "work">>][indices[i]] = Work(c, i)
        BY <1>7, <4>1 DEF Work
      <4>3. /\ Work(c, i) # "false" /\ (Work(c, i) = "none" <=> i >= j)
        BY <1>3, <1>4 DEF AnswerOK
      <4>4. i \in 1 .. Len(indices)
        BY <1>4
      <4>5. CASE AtEnd(c)
        BY <1>2, <1>5, <3>2, <4>2, <4>3, <4>4, <4>5 DEF AnswerOK
      <4>6. CASE ~AtEnd(c)
        BY <1>2, <1>5, <3>2, <4>2, <4>3, <4>4, <4>6 DEF AnswerOK
      <4>7. QED
        BY <4>5, <4>6
    <3>3. QED
      BY <3>1, <3>2
  <2>2. AnswersOf(c) /\ SameDeal(c)
    BY <1>10, DeepIs
  <2>3. QED
    BY <1>3, <1>10, <2>1, <2>2 DEF AnswersOf, SameDeal, Work
<1>13. QED
  BY <1>2, <1>7, <1>9, <1>11, <1>12, DeepMoves

\* The answer of the next one has come.
LEMMA WaitsDeep ==
  ASSUME IInv, Deep, kind \in Kind3, NEW c \in Caller, Waits(c)
  PROVE  Deep'
<1> DEFINE f == future[<<c, "work">>][W(c)]
           j == call[c].j
           p == IF AtEnd(c) THEN "after" ELSE "wait"
           n == IF AtEnd(c) THEN 1 ELSE j + 1
           raised == call[c].raised \/ f = "raised"
<1>1. /\ At(c, "wait") /\ f # "pending" /\ SameData
      /\ wantStop' = wantStop /\ future' = future
  BY DEF Waits, topVars, SameData, workerVars
<1>2. MovesTo(c, p, n, raised)
  <2>1. /\ call = [d \in Caller |-> call[d]]
        /\ call[c] = [op |-> call[c].op, ph |-> call[c].ph, ws |-> call[c].ws,
                      j |-> call[c].j, size |-> call[c].size,
                      raised |-> call[c].raised, got |-> call[c].got]
    BY DEF IInv, CallsOK, CallOK, IsCall
  <2>2. kind # "split" /\ call[c].ph = "wait"
    BY <1>1 DEF Kind3, At
  <2>3. call' = [call EXCEPT ![c].raised = @ \/ f = "raised",
                             ![c].ph = IF AtEnd(c) THEN "after" ELSE @,
                             ![c].j = IF AtEnd(c) THEN 1 ELSE @ + 1]
    BY <2>2 DEF Waits
  <2>4. QED
    BY <2>1, <2>2, <2>3 DEF MovesTo
<1>3. /\ call[c].op \in Deals /\ call[c].ph = "wait" /\ W(c) \in Worker
      /\ j \in DOMAIN call[c].ws /\ W(c) = call[c].ws[j]
  BY <1>1, AtWorker, DealOf
<1>4. /\ Moved(c) /\ call'[c].ph = p /\ call'[c].j = n /\ call'[c].raised = raised
  <2> HIDE DEF p, n, raised
  <2>1. CallsOK
    BY DEF IInv
  <2>2. /\ \A d \in Caller : SameDeal(d)
        /\ \A d \in Caller \ {c} : call'[d] = call[d]
        /\ call'[c].ph = p /\ call'[c].j = n /\ call'[c].raised = raised
    BY <1>2, <2>1, MovedRecord
  <2>3. QED
    BY <1>1, <2>2 DEF Moved
<1>5. /\ call[c].ws = indices /\ indices \in Seq(Worker)
      /\ DOMAIN indices = 1 .. Len(indices) /\ Len(indices) \in Nat
      /\ \A i \in DOMAIN indices : /\ AnswerOK(call[c], i, Work(c, i))
                                   /\ Work(c, i) \in Futures
  BY <1>3, DealIs
<1>6. /\ j \in 1 .. Len(indices) /\ (AtEnd(c) <=> j = Len(indices))
      /\ f = Work(c, j)
  BY <1>3, <1>5 DEF AtEnd, Work
<1>7. /\ \A d \in Caller : SameDeal(d)
      /\ \A d \in Caller \ {c} : call'[d] = call[d]
      /\ indices' = indices /\ StopsOK
  BY <1>4, DeepIs DEF Moved, SameData
<1>8. StopsOK'
  <2>1. \A d \in Caller : call'[d].ph # "make" => call[d].ph # "make"
    BY <1>3, <1>7
  <2>2. QED
    BY <1>1, <1>7, <2>1, StopsFrame
<1>9. AnswersOf(c)'
  <2>1. ASSUME NEW i \in DOMAIN indices PROVE AnswerOK(call'[c], i, Work(c, i))
    <3>1. i \in 1 .. Len(indices)
      BY <1>5
    <3>2. /\ Work(c, i) # "false" /\ Work(c, i) # "none" /\ Work(c, i) \in Futures
          /\ i < j => Work(c, i) = "true" \/ (Work(c, i) = "raised" /\ call[c].raised)
      BY <1>3, <1>5 DEF AnswerOK
    <3>3. i <= j => Work(c, i) = "true" \/ (Work(c, i) = "raised" /\ raised)
      <4>1. CASE i = j
        BY <1>1, <1>6, <3>2, <4>1 DEF Futures
      <4>2. CASE i < j
        BY <3>2, <4>2
      <4>3. QED
        BY <1>6, <3>1, <4>1, <4>2
    <3>4. /\ p = "after" => i <= j
          /\ p = "wait" /\ i < n => i <= j
          /\ p # "post"
      BY <1>6, <3>1
    <3> HIDE DEF p, n, raised
    <3>5. QED
      BY <1>4, <3>2, <3>3, <3>4 DEF AnswerOK
  <2>2. AnswersOf(c) /\ SameDeal(c)
    BY <1>7, DeepIs
  <2>3. QED
    BY <1>1, <1>3, <1>7, <2>1, <2>2 DEF AnswersOf, SameDeal, Work
<1>10. SameDone
  BY <1>1 DEF SameDone
<1>11. QED
  BY <1>1, <1>4, <1>8, <1>9, <1>10, DeepMoves

----------------------------------------------------------------------------
(* Steps of a worker.                                                      *)

\* A step that leaves data, calls and answers alone.
LEMMA StillDeep ==
  ASSUME IInv, Deep, call' = call, SameData, wantStop' = wantStop,
         \A d \in Caller, w \in Worker :
           future'[<<d, "work">>][w] = future[<<d, "work">>][w]
  PROVE  Deep'
<1>1. /\ \A d \in Caller : SameDeal(d)
      /\ indices' = indices /\ indices \in Seq(Worker)
  BY DEF SameDeal, SameData, IInv
<1>2. SameDone
  BY DEF SameDone
<1>3. DataDeep'
  BY <1>1, <1>2, DeepFrame, DeepIs
<1>4. StopsOK'
  BY <1>1, DeepIs, StopsFrame
<1>5. ASSUME NEW d \in Caller PROVE AnswersOf(d)'
  BY <1>1, DeepIs, AnswersFrame
<1>6. QED
  BY <1>3, <1>4, <1>5 DEF Deep, DataDeep, CallDeep

LEMMA IdleDeep ==
  ASSUME IInv, Deep, NEW w \in Worker, MainStep(w) \/ Spurious(w),
         UNCHANGED <<topVars, call>>
  PROVE  Deep'
<1>1. wantStop' = wantStop /\ future' = future
  BY DEF MainStep, Sleeps, Takes, Leaves, Flushes, Ends, Spurious
<1>2. SameData /\ call' = call
  BY DEF topVars, SameData
<1>3. QED
  BY <1>1, <1>2, StillDeep

\* A worker that has run a task answers it, and nothing else.
LEMMA RunsFuture ==
  ASSUME WorkerInv, NEW w \in Worker, NEW o, Runs(w, o)
  PROVE  /\ data[w] \in Task /\ future[data[w]][w] = "pending"
         /\ wantStop' = wantStop
         /\ future'[data[w]][w] = o
         /\ \A u \in Task, v \in Worker : u # data[w] \/ v # w => future'[u][v] = future[u][v]
<1>1. WorkerType /\ ThreadOK(w) /\ TasksOnce(w)
  BY DEF WorkerInv
<1>2. data[w] \in Task
  BY <1>1 DEF Runs, ThreadOK, WorkerType
<1>3. future[data[w]][w] = "pending"
  BY <1>1, <1>2 DEF TasksOnce
<1>4. wantStop' = wantStop /\ future' = [future EXCEPT ![data[w]][w] = o]
  BY DEF Runs
<1>5. QED
  BY <1>1, <1>2, <1>3, <1>4 DEF WorkerType

\* The worker w, the i-th of the collection, has been given its work by c.
WorksFor(w, c, i) ==
  /\ data[w] = <<c, "work">> /\ i \in DOMAIN indices /\ indices[i] = w
  /\ call[c].op \in Deals /\ Work(c, i) = "pending"

\* The work in the hands of a worker is that of a call, which waits for it.
LEMMA WorksForWhom ==
  ASSUME IInv, Deep, NEW w \in Worker, thread[w] = "run", data[w][2] = "work"
  PROVE  \E c \in Caller : \E i \in DOMAIN indices : WorksFor(w, c, i)
<1>1. data[w] \in Task /\ TasksOnce(w)
  BY DEF IInv, WorkerInv, ThreadOK, WorkerType
<1>2. PICK c \in Caller : data[w] = <<c, "work">>
  <2>1. PICK c \in Caller, x \in {"hello", "work"} : data[w] = <<c, x>>
    BY <1>1, TaskIs
  <2>2. x = "work"
    BY <2>1
  <2>3. QED
    BY <2>1, <2>2
<1>3. future[<<c, "work">>][w] = "pending"
  BY <1>1, <1>2 DEF TasksOnce
<1>4. call[c].op \in Deals
  BY <1>3, DeepIs DEF AnswersOf
<1>5. PICK i \in Left(call[c]) : w = call[c].ws[i]
  BY <1>3 DEF IInv, CallsOK, CallOK, FuturesOf
<1>6. call[c].ws = indices
  BY <1>4, DealIs
<1>7. i \in DOMAIN indices /\ w = indices[i]
  BY <1>5, <1>6 DEF Left
<1>8. WorksFor(w, c, i)
  BY <1>2, <1>3, <1>4, <1>7 DEF WorksFor, Work
<1>9. QED
  BY <1>7, <1>8

\* The worker answers.
Answers(w, c, o) ==
  /\ wantStop' = wantStop /\ indices' = indices
  /\ future'[<<c, "work">>][w] = o
  /\ \A d \in Caller, v \in Worker : d # c \/ v # w =>
       future'[<<d, "work">>][v] = future[<<d, "work">>][v]

LEMMA RunsAnswers ==
  ASSUME IInv, NEW w \in Worker, NEW c \in Caller, data[w] = <<c, "work">>,
         NEW o, Runs(w, o), indices' = indices
  PROVE  Answers(w, c, o)
<1>1. PICK t \in Task : t = data[w] /\ t = <<c, "work">>
  BY TaskOf
<1>2. /\ wantStop' = wantStop /\ future'[t][w] = o
      /\ \A u \in Task, v \in Worker : u # t \/ v # w => future'[u][v] = future[u][v]
  BY <1>1, RunsFuture DEF IInv
<1>3. t = <<c, "work">>
  BY <1>1
<1>4. \A d \in Caller : <<d, "work">> \in Task
  BY TaskOf
<1>5. \A d \in Caller : d # c => <<d, "work">> # t
  BY <1>3
<1>6. QED
  BY <1>2, <1>3, <1>4, <1>5 DEF Answers

\* What the answers become.
LEMMA AnswersDeep ==
  ASSUME IInv, Deep, NEW w \in Worker, NEW c \in Caller, NEW i, WorksFor(w, c, i),
         NEW o \in {"true", "raised"}, Answers(w, c, o),
         \A d \in Caller : /\ call'[d].op = call[d].op /\ call'[d].ws = call[d].ws
                           /\ call'[d].size = call[d].size
                           /\ call'[d].ph = call[d].ph /\ call'[d].j = call[d].j
                           /\ call'[d].raised = call[d].raised
  PROVE  StopsOK' /\ \A d \in Caller : AnswersOf(d)'
<1>1. /\ wantStop' = wantStop /\ indices' = indices
      /\ indices \in Seq(Worker) /\ Distinct(indices)
      /\ i \in DOMAIN indices /\ indices[i] = w
      /\ call[c].op \in Deals /\ Work(c, i) = "pending"
      /\ \A m \in DOMAIN indices : indices[m] \in Worker
  BY DEF Answers, IInv, WorksFor
<1>2. StopsOK'
  BY <1>1, DeepIs DEF StopsOK
<1>3. ASSUME NEW d \in Caller PROVE AnswersOf(d)'
  <2>1. AnswersOf(d)
    BY DeepIs
  <2>2. CASE call[d].op \notin Deals
    <3>1. d # c
      BY <1>1, <2>2
    <3>2. \A v \in Worker : future'[<<d, "work">>][v] = future[<<d, "work">>][v]
      BY <3>1 DEF Answers
    <3>3. QED
      BY <2>1, <2>2, <3>2 DEF AnswersOf
  <2>3. CASE call[d].op \in Deals
    <3>1. ASSUME NEW m \in DOMAIN indices
          PROVE  AnswerOK(call'[d], m, future'[<<d, "work">>][indices[m]])
      <4>1. AnswerOK(call[d], m, Work(d, m))
        BY <2>1, <2>3 DEF AnswersOf
      <4>2. CASE d = c /\ m = i
        <5>1. future'[<<d, "work">>][indices[m]] = o
          BY <1>1, <4>2 DEF Answers
        <5>2. QED
          BY <1>1, <4>1, <4>2, <5>1 DEF AnswerOK
      <4>3. CASE d # c \/ m # i
        <5>1. d # c \/ indices[m] # w
          BY <1>1, <4>3 DEF Distinct
        <5>2. future'[<<d, "work">>][indices[m]] = Work(d, m)
          BY <1>1, <5>1 DEF Answers, Work
        <5>3. QED
          BY <4>1, <5>2 DEF AnswerOK
      <4>4. QED
        BY <4>2, <4>3
    <3>2. QED
      BY <1>1, <2>1, <2>3, <3>1 DEF AnswersOf, Work
  <2>4. QED
    BY <2>2, <2>3
<1>4. QED
  BY <1>2, <1>3

\* A function that raises changes nothing.
LEMMA RaisesDeep ==
  ASSUME IInv, Deep, NEW w \in Worker, Raises(w)
  PROVE  Deep'
<1>1. /\ thread[w] = "run" /\ data[w][2] = "work" /\ Runs(w, "raised")
      /\ SameData /\ indices' = indices /\ call' = call
  BY DEF Raises, topVars, SameData
<1>2. PICK c \in Caller : \E i \in DOMAIN indices : WorksFor(w, c, i)
  BY <1>1, WorksForWhom
<1>3. PICK i \in DOMAIN indices : WorksFor(w, c, i)
  BY <1>2
<1>4. Answers(w, c, "raised")
  BY <1>1, <1>3, RunsAnswers DEF WorksFor
<1>5. StopsOK' /\ \A d \in Caller : AnswersOf(d)'
  BY <1>1, <1>3, <1>4, AnswersDeep
<1>6. SameDone
  <2>1. future[<<c, "work">>][w] = "pending"
    BY <1>3 DEF WorksFor, Work
  <2>2. QED
    BY <1>4, <2>1 DEF SameDone, Answers
<1>7. DataDeep'
  <2>1. \A d \in Caller : SameDeal(d)
    BY <1>1 DEF SameDeal
  <2>2. indices \in Seq(Worker)
    BY DEF IInv
  <2>3. QED
    BY <1>1, <1>6, <2>1, <2>2, DeepFrame, DeepIs
<1>8. QED
  BY <1>5, <1>7 DEF Deep, DataDeep, CallDeep

LEMMA WorkAnswers ==
  ASSUME IInv, NEW w \in Worker, NEW c \in Caller, NEW i, WorksFor(w, c, i),
         NEW o, Answers(w, c, o)
  PROVE  /\ Work(c, i)' = o /\ indices' = indices
         /\ \A d \in Caller : \A m \in DOMAIN indices : d # c \/ m # i =>
              Work(d, m)' = Work(d, m)
         /\ \A m \in DOMAIN indices : m # i => indices[m] # w
<1>1. /\ indices' = indices /\ indices \in Seq(Worker) /\ Distinct(indices)
      /\ i \in DOMAIN indices /\ indices[i] = w
  BY DEF Answers, IInv, WorksFor
<1>2. \A m \in DOMAIN indices : indices[m] \in Worker /\ (m # i => indices[m] # w)
  BY <1>1 DEF Distinct
<1>3. Work(c, i)' = o
  BY <1>1 DEF Answers, Work
<1>4. \A d \in Caller : \A m \in DOMAIN indices : d # c \/ m # i => Work(d, m)' = Work(d, m)
  BY <1>1, <1>2 DEF Answers, Work
<1>5. QED
  BY <1>1, <1>2, <1>3, <1>4

\* The result of w has come in.
GotNew(c, w, new) == call' = [call EXCEPT ![c].got[w] = new]

LEMMA GotRecord ==
  ASSUME CallsOK, NEW c \in Caller, GotOf(c), NEW w \in Worker, NEW new, GotNew(c, w, new)
  PROVE  /\ \A d \in Caller \ {c} : call'[d] = call[d]
         /\ \A d \in Caller : /\ call'[d].op = call[d].op /\ call'[d].ws = call[d].ws
                              /\ call'[d].size = call[d].size
                              /\ call'[d].ph = call[d].ph /\ call'[d].j = call[d].j
                              /\ call'[d].raised = call[d].raised
         /\ call'[c].got[w] = new
         /\ \A u \in Worker : u # w => call'[c].got[u] = call[c].got[u]
         /\ GotOf(c)'
<1>1. /\ call = [d \in Caller |-> call[d]]
      /\ call[c] = [op |-> call[c].op, ph |-> call[c].ph, ws |-> call[c].ws,
                    j |-> call[c].j, size |-> call[c].size,
                    raised |-> call[c].raised, got |-> call[c].got]
  BY DEF CallsOK, CallOK, IsCall
<1>2. /\ \A d \in Caller \ {c} : call'[d] = call[d]
      /\ call'[c] = [op |-> call[c].op, ph |-> call[c].ph, ws |-> call[c].ws,
                     j |-> call[c].j, size |-> call[c].size,
                     raised |-> call[c].raised,
                     got |-> [call[c].got EXCEPT ![w] = new]]
  BY <1>1 DEF GotNew
<1>3. PICK got : got = call[c].got /\ got = [u \in Worker |-> got[u]]
  BY DEF GotOf
<1>4. call'[c].got = [got EXCEPT ![w] = new]
  BY <1>2, <1>3
<1>5. /\ call'[c].got[w] = new
      /\ \A u \in Worker : u # w => call'[c].got[u] = got[u]
      /\ call'[c].got = [u \in Worker |-> call'[c].got[u]]
  BY <1>3, <1>4
<1>6. /\ call'[c].op = call[c].op /\ call'[c].ws = call[c].ws
      /\ call'[c].size = call[c].size /\ call'[c].ph = call[c].ph
      /\ call'[c].j = call[c].j /\ call'[c].raised = call[c].raised
  BY <1>2
<1>7. QED
  BY <1>2, <1>3, <1>5, <1>6 DEF GotOf

\* A sub-index that searches gives what it has, by the labels of the collection.
LEMMA SearchesDeep ==
  ASSUME IInv, Deep, NEW w \in Worker, NEW c \in Caller, NEW i, WorksFor(w, c, i),
         call[c].op = "search", Answers(w, c, "true"), SameData,
         GotNew(c, w, [qs |-> Asked(c, w), found |-> Found(c, w)])
  PROVE  Deep'
<1> DEFINE new == [qs |-> Asked(c, w), found |-> Found(c, w)]
<1>1. /\ \A d \in Caller \ {c} : call'[d] = call[d]
      /\ \A d \in Caller : /\ call'[d].op = call[d].op /\ call'[d].ws = call[d].ws
                           /\ call'[d].size = call[d].size
                           /\ call'[d].ph = call[d].ph /\ call'[d].j = call[d].j
                           /\ call'[d].raised = call[d].raised
      /\ call'[c].got[w] = new
      /\ \A u \in Worker : u # w => call'[c].got[u] = call[c].got[u]
      /\ GotOf(c)'
  <2> HIDE DEF new
  <2>1. GotOf(c) /\ CallsOK
    BY DeepIs DEF DataDeep, IInv
  <2>2. GotNew(c, w, new)
    BY DEF new
  <2>3. QED
    BY <2>1, <2>2, GotRecord
<1>2. /\ kind' = kind /\ indices' = indices /\ contents' = contents
      /\ ntotal' = ntotal /\ committed' = committed /\ dirty' = dirty
  BY DEF SameData
<1>3. StopsOK' /\ \A d \in Caller : AnswersOf(d)'
  BY <1>1, AnswersDeep
<1>4. /\ \A d \in Caller : \A m \in DOMAIN indices : d # c \/ m # i => Work(d, m)' = Work(d, m)
      /\ \A m \in DOMAIN indices : m # i => indices[m] # w
  BY WorkAnswers
<1>5. new = Answer(call[c].size, i)
  <2>1. /\ call[c].ws = indices /\ indices \in Seq(Worker) /\ Distinct(indices)
        /\ i \in 1 .. Len(indices) /\ indices[i] = w
    BY DealIs DEF WorksFor, Deals
  <2>2. /\ Asked(c, indices[i]) = AskedAt(kind, call[c].size, i, Len(indices))
        /\ Found(c, indices[i]) = FoundAt(kind, contents, indices, i)
    BY <2>1, AskedIs, FoundAtW
  <2>3. QED
    BY <2>1, <2>2 DEF Answer
<1>6. ASSUME NEW d \in Caller PROVE SawOf(d)'
  <2>1. SawOf(d) /\ \A n, m : Answer(n, m)' = Answer(n, m)
    BY <1>2, DeepIs DEF DataDeep, Answer
  <2>2. CASE d # c
    BY <1>1, <1>2, <1>4, <2>1, <2>2 DEF SawOf
  <2>3. CASE d = c
    <3>1. ASSUME NEW m \in DOMAIN indices, Work(c, m)' = "true"
          PROVE  call'[c].got[indices[m]] = Answer(call[c].size, m)
      <4>1. CASE m = i
        BY <1>1, <1>5, <4>1 DEF WorksFor
      <4>2. CASE m # i
        <5>1. indices[m] \in Worker /\ indices[m] # w
          BY <1>4, <4>2, DealIs DEF WorksFor
        <5>2. Work(c, m) = "true"
          BY <1>4, <3>1, <4>2
        <5>3. QED
          BY <1>1, <2>1, <2>3, <5>1, <5>2 DEF SawOf
      <4>3. QED
        BY <4>1, <4>2
    <3>2. QED
      BY <1>1, <1>2, <2>1, <2>3, <3>1 DEF SawOf
  <2>4. QED
    BY <2>2, <2>3
<1>7. ASSUME NEW d \in Caller PROVE AddOf(d)' /\ ResetOf(d)' /\ GotOf(d)'
  <2>1. call[d].op \notin {"add", "reset"}
    BY NoOther
  <2>2. AddOf(d)' /\ ResetOf(d)'
    BY <1>1, <2>1 DEF AddOf, ResetOf
  <2>3. CASE d # c
    <3>1. GotOf(d)
      BY DeepIs DEF DataDeep
    <3>2. QED
      BY <1>1, <2>2, <2>3, <3>1 DEF GotOf
  <2>4. QED
    BY <1>1, <2>2, <2>3
<1>8. DataOK'
  <2>1. DataOK /\ (Changes' <=> Changes)
    BY <1>1, DeepIs DEF DataDeep, Changes
  <2>2. QED
    BY <1>2, <2>1 DEF DataOK
<1>9. QED
  BY <1>3, <1>6, <1>7, <1>8 DEF Deep, CallDeep

\* The worker changes its sub-index, and the call is what it was.
LEMMA ChangesDeep ==
  ASSUME IInv, Deep, NEW w \in Worker, NEW c \in Caller, NEW i, WorksFor(w, c, i),
         call[c].op \in {"add", "reset"}, Answers(w, c, "true"),
         kind' = kind, ntotal' = ntotal, committed' = committed, dirty' = dirty,
         call' = call, contents' \in Contents, AddOf(c)', ResetOf(c)'
  PROVE  Deep'
<1>1. StopsOK' /\ \A d \in Caller : AnswersOf(d)'
  BY AnswersDeep
<1>2. ASSUME NEW d \in Caller PROVE SawOf(d)' /\ AddOf(d)' /\ ResetOf(d)' /\ GotOf(d)'
  <2>1. GotOf(d)'
    BY DeepIs DEF DataDeep, GotOf
  <2>2. CASE d # c
    <3>1. call[d].op = "none"
      BY <2>2, NoOther
    <3>2. QED
      BY <2>1, <3>1 DEF SawOf, AddOf, ResetOf
  <2>3. CASE d = c
    BY <2>1, <2>3 DEF SawOf
  <2>4. QED
    BY <2>2, <2>3
<1>3. DataOK'
  <2>1. DataOK /\ Changes'
    BY DeepIs DEF DataDeep, Changes
  <2>2. QED
    BY <2>1 DEF DataOK
<1>4. QED
  BY <1>1, <1>2, <1>3 DEF Deep, CallDeep

\* A sub-index gets its share of an add.
LEMMA AddsDeep ==
  ASSUME IInv, Deep, kind \in Kind3, NEW w \in Worker, NEW c \in Caller, NEW i,
         WorksFor(w, c, i), call[c].op = "add", Answers(w, c, "true"),
         kind' = kind, ntotal' = ntotal, committed' = committed, dirty' = dirty,
         call' = call, contents' = [contents EXCEPT ![w] = @ \o Added(c, w)]
  PROVE  Deep'
<1>1. /\ contents \in Contents /\ committed \in Nat /\ ntotal \in Nat
      /\ ~dirty => ntotal = committed
  BY DeepIs DEF DataDeep, DataOK
<1>2. /\ call[c].ws = indices /\ indices \in Seq(Worker) /\ Distinct(indices)
      /\ i \in 1 .. Len(indices) /\ indices[i] = w /\ Len(indices) \in Nat \ {0}
      /\ call[c].size \in Nat /\ Work(c, i) = "pending"
      /\ DOMAIN indices = 1 .. Len(indices)
  BY DealIs DEF WorksFor, Deals
<1>3. /\ Work(c, i)' = "true" /\ indices' = indices
      /\ \A m \in DOMAIN indices : m # i => Work(c, m)' = Work(c, m)
      /\ \A m \in DOMAIN indices : m # i => indices[m] # w
  BY WorkAnswers
<1> DEFINE new(tot, len) == NewAt(kind, committed, tot, len, call[c].size, i, Len(indices))
<1>4. Added(c, w) = new(ntotal, Len(contents[w]))
  BY <1>2, AddedIs
<1>5. contents[w] \in Seq(Entry) /\ Len(contents[w]) \in Nat
  BY <1>1 DEF Contents
<1>6. new(ntotal, Len(contents[w])) \in Seq(Entry)
  <2>1. PICK len \in Nat, k \in Nat \ {0} : len = Len(contents[w]) /\ k = Len(indices)
    BY <1>2, <1>5
  <2>2. IsNew(NewAt(kind, committed, ntotal, len, call[c].size, i, k), kind, committed, ntotal, len,
              From(kind, call[c].size, i, k), UpTo(kind, call[c].size, i, k))
    BY <1>1, <1>2, <2>1, NewAtIs
  <2>3. QED
    BY <2>1, <2>2 DEF IsNew
<1> HIDE DEF new
<1>7. /\ contents' \in Contents
      /\ contents'[w] = contents[w] \o new(ntotal, Len(contents[w]))
      /\ \A u \in Worker : u # w => contents'[u] = contents[u]
  <2>1. contents[w] \o new(ntotal, Len(contents[w])) \in Seq(Entry)
    BY <1>5, <1>6
  <2>2. PICK s \in Seq(Entry) : s = contents[w] \o Added(c, w)
    BY <1>4, <2>1
  <2>3. contents' = [contents EXCEPT ![w] = s]
    BY <2>2
  <2>4. QED
    BY <1>1, <1>4, <2>2, <2>3 DEF Contents
<1>8. AddOf(c)'
  <2>1. CASE dirty
    BY <2>1 DEF AddOf
  <2>2. CASE ~dirty
    <3>1. (kind = "successive" => committed = 0)
          /\ \E old \in Contents : Holds(kind, indices, old, committed) /\ AddsTo(c, old)
      BY <2>2, DeepIs DEF DataDeep, AddOf
    <3>2. PICK old \in Contents : Holds(kind, indices, old, committed) /\ AddsTo(c, old)
      BY <3>1
    <3>3. ASSUME NEW m \in DOMAIN indices
          PROVE  contents'[indices[m]] =
                   IF Work(c, m)' = "true" THEN Share(old[indices[m]], call[c].size, m)
                                           ELSE old[indices[m]]
      <4>1. contents[indices[m]] =
              IF Work(c, m) = "true" THEN Share(old[indices[m]], call[c].size, m)
                                     ELSE old[indices[m]]
        BY <3>2 DEF AddsTo
      <4>2. CASE m = i
        <5>1. contents[w] = old[w]
          BY <1>2, <4>1, <4>2
        <5>2. Share(old[w], call[c].size, i) = old[w] \o new(committed, Len(old[w]))
          BY DEF Share, new
        <5>3. contents'[w] = Share(old[w], call[c].size, i)
          BY <1>1, <1>7, <2>2, <5>1, <5>2
        <5>4. QED
          BY <1>2, <1>3, <4>2, <5>3
      <4>3. CASE m # i
        <5>1. indices[m] \in Worker /\ indices[m] # w
          BY <1>2, <1>3, <4>3
        <5>2. QED
          BY <1>3, <1>7, <4>1, <4>3, <5>1
      <4>4. QED
        BY <4>2, <4>3
    <3>4. \A s, n, m : Share(s, n, m)' = Share(s, n, m)
      BY <1>3 DEF Share
    <3>5. AddsTo(c, old)'
      BY <1>3, <3>3, <3>4 DEF AddsTo
    <3>6. QED
      BY <1>3, <3>1, <3>2, <3>5 DEF AddOf
  <2>3. QED
    BY <2>1, <2>2
<1>9. ResetOf(c)'
  BY DEF ResetOf
<1>10. QED
  BY <1>7, <1>8, <1>9, ChangesDeep

\* A sub-index is reset.
LEMMA ResetsDeep ==
  ASSUME IInv, Deep, NEW w \in Worker, NEW c \in Caller, NEW i,
         WorksFor(w, c, i), call[c].op = "reset", Answers(w, c, "true"),
         kind' = kind, ntotal' = ntotal, committed' = committed, dirty' = dirty,
         call' = call, contents' = [contents EXCEPT ![w] = <<>>]
  PROVE  Deep'
<1>1. contents \in Contents /\ ResetOf(c)
  BY DeepIs DEF DataDeep, DataOK
<1>2. /\ contents' \in Contents /\ contents'[w] = <<>>
      /\ \A u \in Worker : u # w => contents'[u] = contents[u]
  <2>1. <<>> \in Seq(Entry)
    OBVIOUS
  <2>2. PICK s \in Seq(Entry) : s = <<>>
    BY <2>1
  <2>3. contents' = [contents EXCEPT ![w] = s]
    BY <2>2
  <2>4. QED
    BY <1>1, <2>2, <2>3 DEF Contents
<1>3. /\ indices' = indices
      /\ \A m \in DOMAIN indices : m # i => Work(c, m)' = Work(c, m) /\ indices[m] # w
  BY WorkAnswers
<1>4. ASSUME NEW m \in DOMAIN indices, Work(c, m)' = "true"
      PROVE  contents'[indices[m]] = <<>>
  <2>1. CASE m = i
    BY <1>2, <2>1 DEF WorksFor
  <2>2. CASE m # i
    <3>1. indices[m] \in Worker /\ indices[m] # w /\ Work(c, m) = "true"
      BY <1>3, <1>4, <2>2, DealIs DEF WorksFor
    <3>2. contents[indices[m]] = <<>>
      BY <1>1, <3>1 DEF ResetOf
    <3>3. QED
      BY <1>2, <3>1, <3>2
  <2>3. QED
    BY <2>1, <2>2
<1>5. ResetOf(c)'
  BY <1>3, <1>4 DEF ResetOf
<1>6. AddOf(c)'
  BY DEF AddOf
<1>7. QED
  BY <1>2, <1>5, <1>6, ChangesDeep

\* A worker has done what it was asked.
LEMMA DoesDeep ==
  ASSUME IInv, Deep, kind \in Kind3, NEW w \in Worker, Does(w)
  PROVE  Deep'
<1>1. /\ thread[w] = "run" /\ Runs(w, "true")
      /\ kind' = kind /\ indices' = indices /\ ntotal' = ntotal
      /\ committed' = committed /\ dirty' = dirty
  BY DEF Does
<1>2. CASE data[w][2] # "work"
  <2>1. contents' = contents /\ call' = call
    BY <1>2 DEF Does
  <2>2. SameData
    BY <1>1, <2>1 DEF SameData
  <2>3. PICK t \in Task : t = data[w] /\ t[2] # "work"
    BY <1>1, <1>2 DEF Runs, IInv, WorkerInv, ThreadOK, WorkerType
  <2>4. /\ wantStop' = wantStop
        /\ \A u \in Task, v \in Worker : u # t \/ v # w => future'[u][v] = future[u][v]
    BY <1>1, <2>3, RunsFuture DEF IInv
  <2>5. \A d \in Caller, v \in Worker : future'[<<d, "work">>][v] = future[<<d, "work">>][v]
    <3>1. \A d \in Caller : <<d, "work">> \in Task
      BY TaskOf
    <3>2. \A d \in Caller : <<d, "work">>[2] = "work"
      OBVIOUS
    <3>3. \A d \in Caller : <<d, "work">> # t
      BY <2>3, <3>2
    <3>4. QED
      BY <2>4, <3>1, <3>3
  <2>6. QED
    BY <2>1, <2>2, <2>4, <2>5, StillDeep
<1>3. CASE data[w][2] = "work"
  <2>1. PICK c \in Caller : \E i \in DOMAIN indices : WorksFor(w, c, i)
    BY <1>1, <1>3, WorksForWhom
  <2>2. PICK i \in DOMAIN indices : WorksFor(w, c, i)
    BY <2>1
  <2>3. data[w] = <<c, "work">> /\ data[w][1] = c /\ call[c].op \in Deals
    BY <2>2 DEF WorksFor
  <2>4. Answers(w, c, "true")
    BY <1>1, <2>3, RunsAnswers
  <2>5. CASE call[c].op = "search"
    <3>1. contents' = contents /\ GotNew(c, w, [qs |-> Asked(c, w), found |-> Found(c, w)])
      BY <1>3, <2>3, <2>5 DEF Does, GotNew
    <3>2. SameData
      BY <1>1, <3>1 DEF SameData
    <3>3. QED
      BY <2>2, <2>4, <2>5, <3>1, <3>2, SearchesDeep
  <2>6. CASE call[c].op = "add"
    <3>1. contents' = [contents EXCEPT ![w] = @ \o Added(c, w)] /\ call' = call
      BY <1>3, <2>3, <2>6 DEF Does
    <3>2. QED
      BY <1>1, <2>2, <2>4, <2>6, <3>1, AddsDeep
  <2>7. CASE call[c].op = "reset"
    <3>1. contents' = [contents EXCEPT ![w] = <<>>] /\ call' = call
      BY <1>3, <2>3, <2>7 DEF Does
    <3>2. QED
      BY <1>1, <2>2, <2>4, <2>7, <3>1, ResetsDeep
  <2>8. QED
    BY <2>3, <2>5, <2>6, <2>7 DEF Deals
<1>4. QED
  BY <1>2, <1>3

----------------------------------------------------------------------------
(* The beginning of a call.                                                *)

\* The call of c begins: no other changes the collection.
BeginsAt(c, op, ph, ws, size) ==
  /\ call[c].op = "none"
  /\ call'[c] = [op |-> op, ph |-> ph, ws |-> ws, j |-> 1, size |-> size,
                 raised |-> FALSE, got |-> Nothing]
  /\ \A d \in Caller \ {c} : call'[d] = call[d]
  /\ SameData /\ wantStop' = wantStop /\ future' = future
  /\ \A d \in Caller : call[d].op \in {"none", "search"}

LEMMA Begins ==
  ASSUME IInv, kind \in Kind3, NEW op, NEW ph, NEW ws, NEW size, Begin(op, ph, ws, size)
  PROVE  \E c \in Caller : BeginsAt(c, op, ph, ws, size)
<1> DEFINE r == [op |-> op, ph |-> ph, ws |-> ws, j |-> 1, size |-> size,
                 raised |-> FALSE, got |-> Nothing]
<1>1. /\ Open # Caller /\ Together(op)
      /\ call' = [call EXCEPT ![CHOOSE c \in Caller \ Open :
                                 \A d \in Caller \ Open : c <= d] = r]
      /\ wantStop' = wantStop /\ future' = future /\ SameData
  BY DEF Begin, topVars, workerVars, SameData
<1>2. PICK c \in Caller \ Open :
        c = CHOOSE e \in Caller \ Open : \A d \in Caller \ Open : e <= d
  BY <1>1, FirstIdle, Zenon
<1> HIDE DEF r
<1>3. call = [d \in Caller |-> call[d]] /\ \A d \in Caller : IsCall(call[d])
  BY DEF IInv, CallsOK, CallOK
<1>4. call'[c] = r /\ \A d \in Caller \ {c} : call'[d] = call[d]
  BY <1>1, <1>2, <1>3
<1>5. call[c].op = "none"
  BY <1>2, <1>3, OpenOp
<1>6. ASSUME NEW d \in Caller PROVE call[d].op \in {"none", "search"}
  <2>1. CASE d \in Open
    <3>1. {op, call[d].op} = {"search"}
      BY <1>1, <2>1 DEF Together, Kind3
    <3>2. QED
      BY <3>1
  <2>2. CASE d \notin Open
    BY <1>3, <2>2, OpenOp
  <2>3. QED
    BY <2>1, <2>2
<1>7. QED
  BY <1>1, <1>4, <1>5, <1>6 DEF BeginsAt, r

\* A call that begins has no answers, and finds the collection as it is.
LEMMA BeginDeep ==
  ASSUME IInv, Deep, kind \in Kind3, NEW op, NEW ph, NEW ws, NEW size, NEW c \in Caller,
         BeginsAt(c, op, ph, ws, size),
         op \in Deals => ph = "post" /\ ws = indices /\ indices # <<>> /\ size \in Nat,
         op = "addIndex" => ph = "make",
         op = "add" /\ kind = "successive" => ntotal = 0
  PROVE  Deep'
<1>1. /\ call[c].op = "none"
      /\ \A d \in Caller \ {c} : call'[d] = call[d]
      /\ wantStop' = wantStop /\ future' = future
      /\ \A d \in Caller : call[d].op \in {"none", "search"}
  BY DEF BeginsAt
<1>2. /\ call'[c].op = op /\ call'[c].ph = ph /\ call'[c].ws = ws
      /\ call'[c].j = 1 /\ call'[c].size = size /\ call'[c].got = Nothing
  BY DEF BeginsAt
<1>3. /\ kind' = kind /\ indices' = indices /\ contents' = contents
      /\ ntotal' = ntotal /\ committed' = committed /\ dirty' = dirty
  BY DEF BeginsAt, SameData
<1>4. indices \in Seq(Worker) /\ \A i \in DOMAIN indices : i \in Nat /\ i >= 1 /\ indices[i] \in Worker
  BY DEF IInv
<1>5. \A w \in Worker : future[<<c, "work">>][w] = "none"
  BY <1>1, DeepIs DEF AnswersOf, Deals
<1>6. \A i \in DOMAIN indices : Work(c, i)' = "none"
  BY <1>1, <1>3, <1>4, <1>5 DEF Work
<1>7. AnswersOf(c)'
  <2>1. CASE op \in Deals
    <3>1. ASSUME NEW i \in DOMAIN indices PROVE AnswerOK(call'[c], i, "none")
      BY <1>2, <1>4, <2>1 DEF AnswerOK
    <3>2. QED
      BY <1>2, <1>3, <1>6, <2>1, <3>1 DEF AnswersOf
  <2>2. CASE op \notin Deals
    BY <1>1, <1>2, <1>5, <2>2 DEF AnswersOf
  <2>3. QED
    BY <2>1, <2>2
<1>8. ASSUME NEW d \in Caller \ {c} PROVE AnswersOf(d)'
  <2>1. AnswersOf(d) /\ SameDeal(d) /\ call'[d] = call[d]
    BY <1>1, DeepIs DEF SameDeal
  <2>2. QED
    BY <1>1, <1>3, <1>4, <2>1, AnswersFrame
<1>9. StopsOK'
  <2>1. StopsOK
    BY DeepIs
  <2>2. ASSUME NEW w \in Worker, Contains(indices, w), wantStop[w] PROVE FALSE
    <3>1. PICK d \in Caller : call[d].op \in {"removeIndex", "destroy"}
      BY <2>1, <2>2 DEF StopsOK
    <3>2. QED
      BY <1>1, <3>1
  <2>3. ASSUME NEW d \in Caller, call'[d].op = "addIndex" PROVE call'[d].ph = "make"
    <3>1. d = c
      BY <1>1, <2>3
    <3>2. QED
      BY <1>2, <2>3, <3>1
  <2>4. QED
    BY <1>1, <1>3, <2>2, <2>3 DEF StopsOK
<1>10. DataOK /\ ~Changes
  BY <1>1, DeepIs DEF DataDeep, Changes
<1>11. DataOK'
  BY <1>3, <1>10 DEF DataOK
<1>12. AddOf(c)'
  <2>1. CASE op = "add" /\ ~dirty
    <3>1. /\ contents \in Contents /\ Holds(kind, indices, contents, committed)
          /\ kind = "successive" => committed = 0
      BY <1>10, <2>1 DEF DataOK
    <3>2. PICK old \in Contents : old = contents
      BY <3>1
    <3>3. AddsTo(c, old)'
      BY <1>3, <1>6, <3>2 DEF AddsTo
    <3>4. QED
      BY <1>3, <3>1, <3>2, <3>3 DEF AddOf
  <2>2. CASE ~(op = "add" /\ ~dirty)
    BY <1>2, <1>3, <2>2 DEF AddOf
  <2>3. QED
    BY <2>1, <2>2
<1>13. SawOf(c)' /\ ResetOf(c)' /\ GotOf(c)'
  <2>1. SawOf(c)' /\ ResetOf(c)'
    BY <1>3, <1>6 DEF SawOf, ResetOf
  <2>2. GotOf(c)'
    BY <1>2 DEF GotOf, Nothing
  <2>3. QED
    BY <2>1, <2>2
<1>14. ASSUME NEW d \in Caller \ {c} PROVE SawOf(d)' /\ AddOf(d)' /\ ResetOf(d)' /\ GotOf(d)'
  <2>1. SawOf(d) /\ GotOf(d) /\ call'[d] = call[d] /\ call[d].op \in {"none", "search"}
    BY <1>1, DeepIs DEF DataDeep
  <2>2. \A i : Work(d, i)' = Work(d, i)
    BY <1>1, <1>3 DEF Work
  <2>3. \A n, i : Answer(n, i)' = Answer(n, i)
    BY <1>3 DEF Answer
  <2>4. SawOf(d)'
    BY <1>3, <2>1, <2>2, <2>3 DEF SawOf
  <2>5. AddOf(d)' /\ ResetOf(d)'
    BY <2>1 DEF AddOf, ResetOf
  <2>6. QED
    BY <2>1, <2>4, <2>5 DEF GotOf
<1>15. QED
  BY <1>7, <1>8, <1>9, <1>11, <1>12, <1>13, <1>14 DEF Deep, CallDeep

LEMMA CallsDeep ==
  ASSUME IInv, Deep, kind \in Kind3, Calls
  PROVE  Deep'
<1>1. ASSUME NEW op, NEW ph, NEW ws, NEW size, Begin(op, ph, ws, size),
             op \in Deals => ph = "post" /\ ws = indices /\ indices # <<>> /\ size \in Nat,
             op = "addIndex" => ph = "make",
             op = "add" /\ kind = "successive" => ntotal = 0
      PROVE  Deep'
  <2>1. PICK c \in Caller : BeginsAt(c, op, ph, ws, size)
    BY <1>1, Begins
  <2>2. QED
    BY <1>1, <2>1, BeginDeep
<1>2. ASSUME NEW w \in Worker, AddIndex(w) PROVE Deep'
  BY <1>1, <1>2 DEF AddIndex, Deals
<1>3. ASSUME NEW w \in Worker, RemoveIndex(w) PROVE Deep'
  BY <1>1, <1>3 DEF RemoveIndex, Deals
<1>4. ASSUME NEW w \in Worker, Post(w) \/ Halt(w) PROVE FALSE
  BY <1>4 DEF Post, Halt, Kind3
<1>5. ASSUME NEW n \in Batches, AddVectors(n) PROVE Deep'
  BY <1>1, <1>5, SizeAssumption DEF AddVectors
<1>6. ASSUME NEW n \in Queries, Search(n) PROVE Deep'
  <2>1. indices # <<>> /\ Begin("search", "post", indices, n)
    BY <1>6 DEF Search, Kind3
  <2>2. QED
    BY <1>1, <2>1, SizeAssumption
<1>7. ASSUME Reset PROVE Deep'
  <2>1. 0 \in Nat
    OBVIOUS
  <2>2. QED
    BY <1>1, <1>7, <2>1 DEF Reset
<1>8. ASSUME Destroy PROVE Deep'
  BY <1>1, <1>8 DEF Destroy, Deals
<1>9. QED
  BY <1>2, <1>3, <1>4, <1>5, <1>6, <1>7, <1>8 DEF Calls

----------------------------------------------------------------------------
(* The end of a call.                                                      *)

\* The call is gone, and its futures with it.
Gone(c) ==
  /\ call'[c] = NoCall
  /\ \A d \in Caller \ {c} : call'[d] = call[d]
  /\ \A w \in Worker : future'[<<c, "work">>][w] = "none"
  /\ \A d \in Caller \ {c}, w \in Worker :
       future'[<<d, "work">>][w] = future[<<d, "work">>][w]
  /\ wantStop' = wantStop /\ kind' = kind /\ contents' = contents

\* A call that returns has seen all its answers.
LEMMA ReturnsGone ==
  ASSUME IInv, kind \in Kind3, NEW c \in Caller, Returns(c)
  PROVE  /\ Gone(c) /\ Ended(c)
         /\ call[c].op \in Deals \cup {"addIndex", "removeIndex", "destroy"}
         /\ call[c].op \in Deals \cup {"addIndex"} => call[c].ph = "after"
<1>1. /\ call' = [call EXCEPT ![c] = NoCall]
      /\ future' = [t \in Task |-> IF t[1] = c THEN [w \in Worker |-> "none"] ELSE future[t]]
      /\ wantStop' = wantStop /\ kind' = kind /\ contents' = contents /\ Ended(c)
      /\ call[c].ph = "after" \/ call[c].ph = "close"
  BY DEF Returns
<1>2. call'[c] = NoCall /\ \A d \in Caller \ {c} : call'[d] = call[d]
  BY <1>1 DEF IInv, CallsOK
<1>3. ASSUME NEW d \in Caller, NEW w \in Worker
      PROVE  future'[<<d, "work">>][w] =
               IF d = c THEN "none" ELSE future[<<d, "work">>][w]
  <2>1. PICK t \in Task : t = <<d, "work">> /\ t[1] = d
    BY TaskOf
  <2>2. future'[t] = IF t[1] = c THEN [u \in Worker |-> "none"] ELSE future[t]
    BY <1>1, <2>1
  <2>3. QED
    BY <2>1, <2>2
<1>4. Gone(c)
  BY <1>1, <1>2, <1>3 DEF Gone
<1>5. /\ call[c].op \in Deals \cup {"addIndex", "removeIndex", "destroy"}
      /\ call[c].op \in Deals \cup {"addIndex"} => call[c].ph = "after"
  <2>1. CASE call[c].ph = "after"
    BY <2>1, DealOf
  <2>2. CASE call[c].ph = "close"
    <3>1. call[c].op \in {"removeIndex", "destroy"}
      BY <2>2, DealOf
    <3>2. QED
      BY <3>1 DEF Deals
  <2>3. QED
    BY <1>1, <2>1, <2>2
<1>6. QED
  BY <1>1, <1>4, <1>5

\* The end of a search.
LEMMA SearchedDeep ==
  ASSUME IInv, Deep, NEW c \in Caller, Gone(c), call[c].op = "search", SameData
  PROVE  Deep'
<1>1. /\ kind' = kind /\ indices' = indices /\ contents' = contents
      /\ ntotal' = ntotal /\ committed' = committed /\ dirty' = dirty
  BY DEF SameData
<1>2. /\ call'[c].op = "none" /\ call'[c].got = Nothing
      /\ \A d \in Caller \ {c} : call'[d] = call[d]
      /\ wantStop' = wantStop
  BY DEF Gone, NoCall
<1>3. ASSUME NEW d \in Caller PROVE AnswersOf(d)'
  <2>1. CASE d = c
    BY <1>2, <2>1 DEF AnswersOf, Deals, Gone
  <2>2. CASE d # c
    <3>1. AnswersOf(d) /\ SameDeal(d) /\ call'[d] = call[d] /\ indices \in Seq(Worker)
      BY <1>2, <2>2, DeepIs DEF SameDeal, IInv
    <3>2. \A w \in Worker : future'[<<d, "work">>][w] = future[<<d, "work">>][w]
      BY <2>2 DEF Gone
    <3>3. QED
      BY <1>1, <3>1, <3>2, AnswersFrame
  <2>3. QED
    BY <2>1, <2>2
<1>4. StopsOK'
  <2>1. StopsOK
    BY DeepIs
  <2>2. ASSUME NEW w \in Worker, Contains(indices, w), wantStop[w]
        PROVE  \E d \in Caller : /\ call'[d].op \in {"removeIndex", "destroy"}
                                 /\ Contains(call'[d].ws, w)
    <3>1. PICK d \in Caller : call[d].op \in {"removeIndex", "destroy"} /\ Contains(call[d].ws, w)
      BY <2>1, <2>2 DEF StopsOK
    <3>2. d # c
      BY <3>1
    <3>3. QED
      BY <1>2, <3>1, <3>2
  <2>3. ASSUME NEW d \in Caller, call'[d].op = "addIndex", call'[d].ph # "make"
        PROVE  ~wantStop[call'[d].ws[1]]
    <3>1. call'[d] = call[d]
      BY <1>2, <2>3
    <3>2. QED
      BY <2>1, <2>3, <3>1 DEF StopsOK
  <2>4. QED
    BY <1>1, <1>2, <2>2, <2>3 DEF StopsOK
<1>5. ASSUME NEW d \in Caller PROVE SawOf(d)' /\ AddOf(d)' /\ ResetOf(d)' /\ GotOf(d)'
  <2>1. CASE d = c
    <3>1. SawOf(d)' /\ AddOf(d)' /\ ResetOf(d)'
      BY <1>2, <2>1 DEF SawOf, AddOf, ResetOf
    <3>2. GotOf(d)'
      BY <1>2, <2>1 DEF GotOf, Nothing
    <3>3. QED
      BY <3>1, <3>2
  <2>2. CASE d # c
    <3>1. /\ call'[d] = call[d] /\ call[d].op \notin {"add", "reset"}
          /\ SawOf(d) /\ GotOf(d)
      BY <1>2, <2>2, NoOther, DeepIs DEF DataDeep
    <3>2. \A i \in DOMAIN indices : Work(d, i)' = Work(d, i)
      <4>1. \A i \in DOMAIN indices : indices[i] \in Worker
        BY DEF IInv
      <4>2. QED
        BY <1>1, <2>2, <4>1 DEF Work, Gone
    <3>3. \A n, i : Answer(n, i)' = Answer(n, i)
      BY <1>1 DEF Answer
    <3>4. SawOf(d)'
      BY <1>1, <3>1, <3>2, <3>3 DEF SawOf
    <3>5. QED
      BY <3>1, <3>4 DEF AddOf, ResetOf, GotOf
  <2>3. QED
    BY <2>1, <2>2
<1>6. DataOK'
  <2>1. DataOK /\ (Changes' <=> Changes)
    BY <1>2, DeepIs DEF DataDeep, Changes
  <2>2. QED
    BY <1>1, <2>1 DEF DataOK
<1>7. QED
  BY <1>3, <1>4, <1>5, <1>6 DEF Deep, CallDeep

\* The end of a call that was alone.
LEMMA AloneDeep ==
  ASSUME IInv, Deep, NEW c \in Caller, Gone(c),
         call[c].op \in {"addIndex", "removeIndex", "destroy", "add", "reset"},
         \A w \in Worker : Contains(indices', w) => ~wantStop[w],
         ntotal' \in Nat, committed' \in Nat, dirty' \in BOOLEAN,
         ~dirty' => ntotal' = committed' /\ Holds(kind, indices', contents, committed')
  PROVE  Deep'
<1>1. /\ call'[c].op = "none" /\ call'[c].got = Nothing
      /\ \A d \in Caller \ {c} : call'[d] = call[d]
      /\ wantStop' = wantStop /\ kind' = kind /\ contents' = contents
  BY DEF Gone, NoCall
<1>2. \A d \in Caller \ {c} : call[d].op = "none"
  BY NoOther
<1>3. \A d \in Caller : call'[d].op = "none"
  BY <1>1, <1>2
<1>4. ASSUME NEW d \in Caller PROVE AnswersOf(d)'
  <2>1. CASE d = c
    BY <1>1, <2>1 DEF AnswersOf, Deals, Gone
  <2>2. CASE d # c
    <3>1. \A w \in Worker : future[<<d, "work">>][w] = "none"
      BY <1>2, <2>2, DeepIs DEF AnswersOf, Deals
    <3>2. \A w \in Worker : future'[<<d, "work">>][w] = "none"
      BY <2>2, <3>1 DEF Gone
    <3>3. QED
      BY <1>3, <3>2 DEF AnswersOf, Deals
  <2>3. QED
    BY <2>1, <2>2
<1>5. StopsOK'
  BY <1>1, <1>3 DEF StopsOK
<1>6. ASSUME NEW d \in Caller PROVE SawOf(d)' /\ AddOf(d)' /\ ResetOf(d)' /\ GotOf(d)'
  <2>1. SawOf(d)' /\ AddOf(d)' /\ ResetOf(d)'
    BY <1>3 DEF SawOf, AddOf, ResetOf
  <2>2. CASE d = c
    <3>1. GotOf(d)'
      BY <1>1, <2>2 DEF GotOf, Nothing
    <3>2. QED
      BY <2>1, <3>1
  <2>3. CASE d # c
    <3>1. GotOf(d)
      BY DeepIs DEF DataDeep
    <3>2. QED
      BY <1>1, <2>1, <2>3, <3>1 DEF GotOf
  <2>4. QED
    BY <2>2, <2>3
<1>7. DataOK'
  <2>1. contents \in Contents
    BY DeepIs DEF DataDeep, DataOK
  <2>2. QED
    BY <1>1, <2>1 DEF DataOK
<1>8. QED
  BY <1>4, <1>5, <1>6, <1>7 DEF Deep, CallDeep

\* What is known when a call is alone.
LEMMA AloneIs ==
  ASSUME IInv, Deep, NEW c \in Caller,
         call[c].op \in {"addIndex", "removeIndex", "destroy", "add", "reset"}
  PROVE  /\ contents \in Contents /\ committed \in Nat /\ ntotal \in Nat /\ dirty \in BOOLEAN
         /\ ~dirty => ntotal = committed
         /\ call[c].op \notin {"add", "reset"} /\ ~dirty =>
              Holds(kind, indices, contents, committed)
         /\ \A w \in Worker : Contains(indices, w) /\ wantStop[w] =>
              call[c].op \in {"removeIndex", "destroy"} /\ Contains(call[c].ws, w)
<1>1. \A d \in Caller \ {c} : call[d].op = "none"
  BY NoOther
<1>2. StopsOK /\ DataOK
  BY DeepIs DEF DataDeep
<1>3. Changes <=> call[c].op \in {"add", "reset"}
  BY <1>1 DEF Changes
<1>4. ASSUME NEW w \in Worker, Contains(indices, w), wantStop[w]
      PROVE  call[c].op \in {"removeIndex", "destroy"} /\ Contains(call[c].ws, w)
  <2>1. PICK d \in Caller : call[d].op \in {"removeIndex", "destroy"} /\ Contains(call[d].ws, w)
    BY <1>2, <1>4 DEF StopsOK
  <2>2. d = c
    BY <1>1, <2>1
  <2>3. QED
    BY <2>1, <2>2
<1>5. QED
  BY <1>2, <1>3, <1>4 DEF DataOK

\* The index w has what it should when it comes in.
Fits(w) ==
  IF kind = "replicas" /\ indices # <<>> THEN contents[w] = contents[indices[1]]
                                        ELSE contents[w] = <<>>

\* An index comes in.
LEMMA AddedIndexDeep ==
  ASSUME IInv, Deep, kind \in Kind3, NEW c \in Caller, Returns(c), call[c].op = "addIndex"
  PROVE  Deep'
<1>1. Gone(c) /\ Ended(c) /\ call[c].ph = "after"
  BY ReturnsGone
<1>2. /\ contents \in Contents /\ committed \in Nat /\ ntotal \in Nat /\ dirty \in BOOLEAN
      /\ ~dirty => ntotal = committed /\ Holds(kind, indices, contents, committed)
      /\ \A w \in Worker : Contains(indices, w) => ~wantStop[w]
      /\ indices \in Seq(Worker)
  BY AloneIs DEF IInv
<1>3. PICK w \in Worker : w = call[c].ws[1] /\ ~wantStop[w]
  <2>1. call[c].ws \in Seq(Worker) /\ Len(call[c].ws) = 1
    BY DEF IInv, CallsOK, CallOK, IsCall, WorkersOf
  <2>2. call[c].ws[1] \in Worker
    BY <2>1
  <2>3. ~wantStop[call[c].ws[1]]
    BY <1>1, DeepIs DEF StopsOK
  <2>4. QED
    BY <2>2, <2>3
<1>4. /\ indices' = Append(indices, w)
      /\ ~dirty' => ~dirty /\ Fits(w)
      /\ ntotal' = IF kind = "replicas" /\ indices # <<>> THEN ntotal ELSE Counted(indices')
      /\ committed' = committed
  <2>1. /\ indices' = Append(indices, call[c].ws[1])
        /\ dirty' = (dirty \/ IF kind = "replicas" /\ indices # <<>>
                              THEN contents[call[c].ws[1]] # contents[indices[1]]
                              ELSE contents[call[c].ws[1]] # <<>>)
        /\ ntotal' = IF kind = "replicas" /\ indices # <<>> THEN ntotal ELSE Counted(indices')
        /\ committed' = committed
    BY <1>1, Zenon DEF Ended
  <2>2. w = call[c].ws[1]
    BY <1>3
  <2>3. /\ indices' = Append(indices, w) /\ committed' = committed
        /\ ntotal' = IF kind = "replicas" /\ indices # <<>> THEN ntotal ELSE Counted(indices')
    BY <2>1, <2>2
  <2>4. /\ ~dirty' => ~dirty
        /\ ~dirty' => Fits(w)
    <3>1. CASE kind = "replicas" /\ indices # <<>>
      BY <2>1, <2>2, <3>1, Zenon DEF Fits
    <3>2. CASE ~(kind = "replicas" /\ indices # <<>>)
      BY <2>1, <2>2, <3>2, Zenon DEF Fits
    <3>3. QED
      BY <3>1, <3>2
  <2>5. QED
    BY <2>3, <2>4
<1>5. PICK ws \in Seq(Worker) : ws = Append(indices, w)
  <2>1. indices \in Seq(Worker)
    BY <1>2
  <2>2. Append(indices, w) \in Seq(Worker)
    BY <2>1
  <2>3. QED
    BY <2>2
<1>6. \A v \in Worker : Contains(indices', v) => ~wantStop[v]
  <2>1. ASSUME NEW v \in Worker, Contains(Append(indices, w), v) PROVE ~wantStop[v]
    <3>1. PICK i \in 1 .. Len(indices) + 1 : Append(indices, w)[i] = v
      BY <1>2, <2>1 DEF Contains
    <3>2. CASE i = Len(indices) + 1
      BY <1>2, <1>3, <3>1, <3>2
    <3>3. CASE i # Len(indices) + 1
      <4>1. i \in 1 .. Len(indices) /\ indices[i] = v
        BY <1>2, <3>1, <3>3
      <4>2. QED
        BY <1>2, <4>1 DEF Contains
    <3>4. QED
      BY <3>2, <3>3
  <2>2. QED
    BY <1>4, <2>1
<1>7. Counted(ws) \in Nat
  BY <1>2, CountNat, CountedIs
<1>8. ntotal' \in Nat /\ committed' \in Nat /\ dirty' \in BOOLEAN
  <2>1. dirty' \in BOOLEAN
    BY <1>1, <1>2, Zenon DEF Ended
  <2>2. QED
    BY <1>2, <1>4, <1>5, <1>7, <2>1
<1>9. ASSUME ~dirty' PROVE ntotal' = committed' /\ Holds(kind, indices', contents, committed')
  <2>1. /\ ntotal = committed /\ Holds(kind, indices, contents, committed)
        /\ IF kind = "replicas" /\ indices # <<>> THEN contents[w] = contents[indices[1]]
                                                  ELSE contents[w] = <<>>
    BY <1>2, <1>4, <1>9 DEF Fits
  <2>2. Holds(kind, ws, contents, committed)
    BY <1>2, <1>5, <2>1, HoldsAppend
  <2>3. Counted(ws) = committed
    BY <1>2, <2>2, HoldsCount, CountedIs
  <2>4. QED
    BY <1>4, <1>5, <2>1, <2>2, <2>3
<1>10. QED
  BY <1>1, <1>6, <1>8, <1>9, AloneDeep

\* An index goes, with its vectors or without any.
LEMMA RemovedIndexDeep ==
  ASSUME IInv, Deep, kind \in Kind3, NEW c \in Caller, Returns(c), call[c].op = "removeIndex"
  PROVE  Deep'
<1>1. Gone(c) /\ Ended(c)
  BY ReturnsGone
<1>2. /\ contents \in Contents /\ committed \in Nat /\ ntotal \in Nat /\ dirty \in BOOLEAN
      /\ ~dirty => ntotal = committed /\ Holds(kind, indices, contents, committed)
      /\ \A v \in Worker : Contains(indices, v) /\ wantStop[v] => Contains(call[c].ws, v)
      /\ indices \in Seq(Worker) /\ Distinct(indices)
  BY AloneIs DEF IInv
<1>3. PICK w \in Worker : /\ w = call[c].ws[1] /\ Contains(indices, w)
                          /\ \A v \in Worker : Contains(call[c].ws, v) => v = w
  <2>1. /\ call[c].ws \in Seq(Worker) /\ Len(call[c].ws) = 1
        /\ \A i \in DOMAIN call[c].ws : Contains(indices, call[c].ws[i])
    BY DEF IInv, CallsOK, CallOK, IsCall, WorkersOf, Kind3
  <2>2. DOMAIN call[c].ws = {1} /\ call[c].ws[1] \in Worker
    BY <2>1
  <2>3. \A v \in Worker : Contains(call[c].ws, v) => v = call[c].ws[1]
    BY <2>2 DEF Contains
  <2>4. QED
    BY <2>1, <2>2, <2>3
<1>4. /\ indices' = RemoveAt(indices, CHOOSE i \in DOMAIN indices : indices[i] = w)
      /\ dirty' = (dirty \/ (contents[w] # <<>> /\ (Sharded \/ indices' = <<>>)))
      /\ ntotal' = Counted(indices')
      /\ committed' = committed
  BY <1>1, <1>3 DEF Ended
<1>5. PICK p \in 1 .. Len(indices) :
        p = (CHOOSE i \in DOMAIN indices : indices[i] = w) /\ indices[p] = w
  <2>1. \E i \in DOMAIN indices : indices[i] = w
    BY <1>2, <1>3 DEF Contains
  <2>2. QED
    BY <1>2, <2>1
<1>6. PICK ws : ws = RemoveAt(indices, p)
  OBVIOUS
<1>7. IsWithout(ws, indices, p) /\ indices' = ws
  BY <1>2, <1>4, <1>5, <1>6, RemoveAtIs
<1>8. ws \in Seq(Worker)
  BY <1>7 DEF IsWithout
<1>9. \A v \in Worker : Contains(indices', v) => ~wantStop[v]
  <2>1. ASSUME NEW v \in Worker, Contains(ws, v) PROVE ~wantStop[v]
    <3>1. PICK i \in 1 .. Len(indices) - 1 : ws[i] = v
      BY <1>7, <2>1 DEF Contains, IsWithout
    <3>2. PICK m \in 1 .. Len(indices) : indices[m] = v /\ m # p
      <4>1. CASE i < p
        BY <1>2, <1>7, <3>1, <4>1 DEF IsWithout
      <4>2. CASE ~(i < p)
        <5>1. i + 1 \in 1 .. Len(indices) /\ i + 1 # p
          BY <1>2, <4>2
        <5>2. indices[i + 1] = v
          BY <1>7, <3>1, <4>2 DEF IsWithout
        <5>3. QED
          BY <5>1, <5>2
      <4>3. QED
        BY <4>1, <4>2
    <3>3. DOMAIN indices = 1 .. Len(indices)
      BY <1>2
    <3>4. v # w /\ Contains(indices, v)
      BY <1>2, <1>5, <3>2, <3>3 DEF Distinct, Contains
    <3>5. QED
      BY <1>2, <1>3, <3>4
  <2>2. QED
    BY <1>7, <2>1
<1>10. ntotal' \in Nat /\ committed' \in Nat /\ dirty' \in BOOLEAN
  <2>1. Counted(ws) \in Nat
    BY <1>2, <1>8, CountNat, CountedIs
  <2>2. QED
    BY <1>2, <1>4, <1>7, <2>1
<1>11. ASSUME ~dirty' PROVE ntotal' = committed' /\ Holds(kind, indices', contents, committed')
  <2>1. /\ Holds(kind, indices, contents, committed)
        /\ contents[indices[p]] = <<>> \/ (kind = "replicas" /\ ws # <<>>)
    BY <1>2, <1>4, <1>5, <1>7, <1>11 DEF Sharded, Kind3
  <2>2. /\ Len(ws) = Len(indices) - 1
        /\ \A i \in 1 .. Len(indices) - 1 :
             ws[i] = IF i < p THEN indices[i] ELSE indices[i + 1]
    BY <1>7 DEF IsWithout
  <2>3. Holds(kind, ws, contents, committed)
    BY <1>2, <1>8, <2>1, <2>2, HoldsRemove
  <2>4. Counted(ws) = committed
    BY <1>2, <1>8, <2>3, HoldsCount, CountedIs
  <2>5. QED
    BY <1>4, <1>7, <2>3, <2>4
<1>12. QED
  BY <1>1, <1>9, <1>10, <1>11, AloneDeep

\* The collection goes.
LEMMA DestroyedDeep ==
  ASSUME IInv, Deep, kind \in Kind3, NEW c \in Caller, Returns(c), call[c].op = "destroy"
  PROVE  Deep'
<1>1. Gone(c) /\ Ended(c)
  BY ReturnsGone
<1>2. contents \in Contents /\ committed \in Nat /\ dirty \in BOOLEAN
  BY AloneIs
<1>3. /\ indices' = <<>> /\ ntotal' = 0 /\ committed' = committed
      /\ dirty' = (dirty \/ committed > 0)
  BY <1>1 DEF Ended
<1>4. \A w \in Worker : Contains(indices', w) => ~wantStop[w]
  BY <1>3 DEF Contains
<1>5. Holds(kind, <<>>, contents, 0)
  <2>1. <<>> \in Seq(Worker) /\ DOMAIN <<>> = {}
    OBVIOUS
  <2>2. PICK ws \in Seq(Worker) : ws = <<>> /\ DOMAIN ws = {}
    BY <2>1
  <2>3. Holds(kind, ws, contents, 0)
    BY <1>2, <2>2, HoldsNone
  <2>4. QED
    BY <2>2, <2>3
<1>6. ASSUME ~dirty' PROVE ntotal' = committed' /\ Holds(kind, indices', contents, committed')
  <2>1. ~(committed > 0)
    BY <1>3, <1>6
  <2>2. committed = 0
    BY <1>2, <2>1
  <2>3. QED
    BY <1>3, <1>5, <2>2
<1>7. ntotal' \in Nat /\ committed' \in Nat /\ dirty' \in BOOLEAN
  BY <1>2, <1>3
<1>8. QED
  BY <1>1, <1>4, <1>6, <1>7, AloneDeep

\* All sub-indexes have returned, and none raised.
LEMMA AllDone ==
  ASSUME IInv, Deep, NEW c \in Caller, call[c].op \in Deals, call[c].ph = "after",
         ~call[c].raised, NEW i \in DOMAIN indices
  PROVE  Work(c, i) = "true"
BY DealIs DEF AnswerOK

\* An add that raised nothing: the new vectors are in.
LEMMA AddedDeep ==
  ASSUME IInv, Deep, kind \in Kind3, NEW c \in Caller, Returns(c), call[c].op = "add",
         ~call[c].raised
  PROVE  Deep'
<1>1. Gone(c) /\ Ended(c) /\ call[c].ph = "after"
  BY ReturnsGone DEF Deals
<1>2. /\ contents \in Contents /\ committed \in Nat /\ dirty \in BOOLEAN
      /\ \A w \in Worker : Contains(indices, w) => ~wantStop[w]
  BY AloneIs
<1>3. /\ indices \in Seq(Worker) /\ indices # <<>> /\ call[c].size \in Nat
      /\ DOMAIN indices = 1 .. Len(indices)
  BY DealIs DEF Deals
<1>4. /\ indices' = indices /\ ntotal' = Counted(indices)
      /\ committed' = committed + call[c].size
      /\ dirty' = (dirty \/ Differ(indices))
  BY <1>1 DEF Ended
<1>5. ntotal' \in Nat /\ committed' \in Nat /\ dirty' \in BOOLEAN
  <2>1. Counted(indices) \in Nat
    BY <1>2, <1>3, CountNat, CountedIs
  <2>2. QED
    BY <1>2, <1>3, <1>4, <2>1 DEF Differ
<1>6. ASSUME ~dirty' PROVE ntotal' = committed' /\ Holds(kind, indices', contents, committed')
  <2>1. ~dirty
    BY <1>4, <1>6
  <2>2. AddOf(c)
    BY DeepIs DEF DataDeep
  <2>3. /\ kind = "successive" => committed = 0
        /\ \E old \in Contents : Holds(kind, indices, old, committed) /\ AddsTo(c, old)
    BY <2>1, <2>2 DEF AddOf
  <2>4. PICK old \in Contents : Holds(kind, indices, old, committed) /\ AddsTo(c, old)
    BY <2>3
  <2>5. ASSUME NEW i \in 1 .. Len(indices)
        PROVE  contents[indices[i]] = Share(old[indices[i]], call[c].size, i)
    <3>1. i \in DOMAIN indices /\ Work(c, i) = "true"
      BY <1>1, <1>3, AllDone DEF Deals
    <3>2. QED
      BY <2>4, <3>1 DEF AddsTo
  <2>6. Grown(kind, indices, old, contents, committed, call[c].size)
    BY <2>5 DEF Grown, Share
  <2>7. PICK n \in Nat : n = call[c].size
    BY <1>3
  <2>8. Holds(kind, indices, contents, committed + n)
    BY <1>2, <1>3, <2>3, <2>4, <2>6, <2>7, HoldsAdd
  <2>9. PICK m \in Nat : m = committed + n
    BY <1>2, <2>7
  <2>10. CountIs(kind, indices, contents) = m
    BY <1>2, <1>3, <2>8, <2>9, HoldsCount
  <2>11. QED
    BY <1>4, <2>7, <2>8, <2>9, <2>10, CountedIs
<1>7. QED
  BY <1>1, <1>2, <1>4, <1>5, <1>6, AloneDeep

\* A reset that raised nothing: all are empty.
LEMMA ResetDeep ==
  ASSUME IInv, Deep, kind \in Kind3, NEW c \in Caller, Returns(c), call[c].op = "reset",
         ~call[c].raised
  PROVE  Deep'
<1>1. Gone(c) /\ Ended(c) /\ call[c].ph = "after"
  BY ReturnsGone DEF Deals
<1>2. /\ contents \in Contents
      /\ \A w \in Worker : Contains(indices, w) => ~wantStop[w]
  BY AloneIs
<1>3. indices \in Seq(Worker)
  BY DEF IInv
<1>4. indices' = indices /\ ntotal' = 0 /\ committed' = 0 /\ dirty' = FALSE
  BY <1>1 DEF Ended
<1>5. Holds(kind, indices, contents, 0)
  <2>1. ASSUME NEW i \in DOMAIN indices PROVE contents[indices[i]] = <<>>
    <3>1. Work(c, i) = "true"
      BY <1>1, AllDone DEF Deals
    <3>2. QED
      BY <3>1, DeepIs DEF DataDeep, ResetOf
  <2>2. QED
    BY <1>2, <1>3, <2>1, HoldsNone
<1>6. QED
  BY <1>1, <1>2, <1>4, <1>5, AloneDeep

\* An exception leaves what was done.
LEMMA RaisedDeep ==
  ASSUME IInv, Deep, kind \in Kind3, NEW c \in Caller, Returns(c),
         call[c].op \in {"add", "reset"}, call[c].raised
  PROVE  Deep'
<1>1. Gone(c) /\ Ended(c)
  BY ReturnsGone
<1>2. /\ committed \in Nat /\ ntotal \in Nat
      /\ \A w \in Worker : Contains(indices, w) => ~wantStop[w]
  BY AloneIs
<1>3. indices' = indices /\ ntotal' = ntotal /\ committed' = committed /\ dirty' = TRUE
  BY <1>1 DEF Ended
<1>4. QED
  BY <1>1, <1>2, <1>3, AloneDeep

\* A call ends.
LEMMA ReturnsDeep ==
  ASSUME IInv, Deep, kind \in Kind3, NEW c \in Caller, Returns(c)
  PROVE  Deep'
<1>1. Gone(c) /\ Ended(c) /\ call[c].op \in Deals \cup {"addIndex", "removeIndex", "destroy"}
  BY ReturnsGone
<1>2. CASE call[c].op = "search"
  <2>1. dirty \in BOOLEAN
    BY DeepIs DEF DataDeep, DataOK
  <2>2. dirty' = dirty /\ indices' = indices /\ ntotal' = ntotal /\ committed' = committed
    BY <1>1, <1>2, <2>1 DEF Ended
  <2>3. SameData
    BY <1>1, <2>2 DEF SameData, Gone
  <2>4. QED
    BY <1>1, <1>2, <2>3, SearchedDeep
<1>3. CASE call[c].op \in {"add", "reset"}
  BY <1>3, AddedDeep, ResetDeep, RaisedDeep
<1>4. CASE call[c].op \in {"addIndex", "removeIndex", "destroy"}
  BY <1>4, AddedIndexDeep, RemovedIndexDeep, DestroyedDeep
<1>5. QED
  BY <1>1, <1>2, <1>3, <1>4 DEF Deals

----------------------------------------------------------------------------
(* The invariant, and what searches find.                                  *)

\* A collection stays what it is.
LEMMA SameKind == Next => kind' = kind
<1>1. ASSUME Calls PROVE kind' = kind
  <2>1. \A op, ph, ws, size : Begin(op, ph, ws, size) => kind' = kind
    BY DEF Begin, topVars
  <2>2. QED
    BY <1>1, <2>1 DEF Calls, AddIndex, RemoveIndex, Post, Halt, AddVectors, Search,
                      Reset, Destroy
<1>2. ASSUME NEW c \in Caller, CallStep(c) PROVE kind' = kind
  BY <1>2 DEF CallStep, Makes, Greets, IsMade, Posts, Waits, Closes, Joins, Returns, topVars
<1>3. ASSUME NEW w \in Worker,
             WorkerStep(w) \/ (Spurious(w) /\ UNCHANGED <<topVars, call, calls, raises>>)
      PROVE  kind' = kind
  BY <1>3 DEF WorkerStep, Does, Raises, topVars
<1>4. QED
  BY <1>1, <1>2, <1>3 DEF Next

LEMMA CallStepDeep ==
  ASSUME IInv, Deep, kind \in Kind3, NEW c \in Caller, CallStep(c)
  PROVE  Deep'
BY MakesDeep, GreetsDeep, IsMadeDeep, PostsDeep, WaitsDeep, ClosesDeep, JoinsDeep, ReturnsDeep
   DEF CallStep

LEMMA WorkerStepDeep ==
  ASSUME IInv, Deep, kind \in Kind3, NEW w \in Worker,
         WorkerStep(w) \/ (Spurious(w) /\ UNCHANGED <<topVars, call, calls, raises>>)
  PROVE  Deep'
<1>1. CASE Does(w)
  BY <1>1, DoesDeep
<1>2. CASE Raises(w)
  BY <1>2, RaisesDeep
<1>3. CASE (MainStep(w) \/ Spurious(w)) /\ UNCHANGED <<topVars, call, calls, raises>>
  BY <1>3, IdleDeep
<1>4. QED
  BY <1>1, <1>2, <1>3 DEF WorkerStep

\* Each step keeps the invariant,
LEMMA StepDeepInv == IInv /\ DeepInv /\ [Next]_vars => DeepInv'
<1> SUFFICES ASSUME IInv, DeepInv, [Next]_vars PROVE DeepInv'
  OBVIOUS
<1>1. kind' = kind
  BY SameKind DEF vars, topVars
<1>2. ASSUME kind \in Kind3 PROVE Deep'
  <2>1. Deep
    BY <1>2 DEF DeepInv
  <2>2. CASE Next
    <3>1. ASSUME Calls PROVE Deep'
      BY <1>2, <2>1, <3>1, CallsDeep
    <3>2. ASSUME NEW c \in Caller, CallStep(c) PROVE Deep'
      BY <1>2, <2>1, <3>2, CallStepDeep
    <3>3. ASSUME NEW w \in Worker,
                 WorkerStep(w) \/ (Spurious(w) /\ UNCHANGED <<topVars, call, calls, raises>>)
          PROVE  Deep'
      BY <1>2, <2>1, <3>3, WorkerStepDeep
    <3>4. QED
      BY <2>2, <3>1, <3>2, <3>3 DEF Next
  <2>3. CASE UNCHANGED vars
    <3>1. SameData /\ call' = call /\ wantStop' = wantStop /\ future' = future
      BY <2>3 DEF vars, topVars, workerVars, SameData
    <3>2. QED
      BY <2>1, <3>1, StillDeep
  <2>4. QED
    BY <2>2, <2>3
<1>3. QED
  BY <1>1, <1>2 DEF DeepInv

\* which holds at the start,
LEMMA InitDeepInv == Init => DeepInv
<1> SUFFICES ASSUME Init PROVE DeepInv
  OBVIOUS
<1>1. /\ kind \in Kinds /\ indices = <<>> /\ contents = [w \in Worker |-> <<>>]
      /\ ntotal = 0 /\ committed = 0 /\ dirty = FALSE
      /\ \A c \in Caller : call[c] = NoCall
  BY DEF Init
<1>2. \A c \in Caller : call[c].op = "none" /\ call[c].got = Nothing
  BY <1>1 DEF NoCall
<1>3. \A c \in Caller, w \in Worker : future[<<c, "work">>][w] = "none"
  BY TaskOf DEF Init, WorkerInit
<1>4. ASSUME NEW c \in Caller PROVE CallDeep(c)
  <2>1. AnswersOf(c)
    BY <1>2, <1>3 DEF AnswersOf, Deals
  <2>2. SawOf(c) /\ AddOf(c) /\ ResetOf(c)
    BY <1>2 DEF SawOf, AddOf, ResetOf
  <2>3. GotOf(c)
    BY <1>2 DEF GotOf, Nothing
  <2>4. QED
    BY <2>1, <2>2, <2>3 DEF CallDeep
<1>5. StopsOK
  BY <1>1, <1>2 DEF StopsOK, Contains
<1>6. contents \in Contents
  <2>1. PICK s \in Seq(Entry) : s = <<>>
    <3>1. <<>> \in Seq(Entry)
      OBVIOUS
    <3>2. QED
      BY <3>1
  <2>2. contents = [w \in Worker |-> s]
    BY <1>1, <2>1
  <2>3. QED
    BY <2>2 DEF Contents
<1>7. Holds(kind, indices, contents, 0)
  <2>1. indices \in Seq(Worker) /\ DOMAIN indices = {}
    BY <1>1
  <2>2. QED
    BY <1>6, <2>1, HoldsNone
<1>8. DataOK
  BY <1>1, <1>6, <1>7 DEF DataOK
<1>9. QED
  BY <1>1, <1>4, <1>5, <1>8 DEF DeepInv, Deep

\* and has searches find all.
LEMMA DeepExact ==
  ASSUME IInv, Deep, kind \in Kind3, NEW c \in Caller, call[c].ph = "after",
         call[c].op = "search", ~call[c].raised, ~dirty, NEW q \in 0 .. call[c].size - 1
  PROVE  Exact(call[c].got, {u \in ToSet(call[c].ws) : q \in call[c].got[u].qs}, committed)
<1>1. /\ call[c].ws = indices /\ indices # <<>> /\ call[c].size \in Nat
      /\ indices \in Seq(Worker) /\ Distinct(indices) /\ DOMAIN indices = 1 .. Len(indices)
  BY DealIs DEF Deals
<1>2. /\ contents \in Contents /\ committed \in Nat
      /\ Holds(kind, indices, contents, committed)
  <2>1. ~Changes
    <3>1. ASSUME NEW d \in Caller, call[d].op \in {"add", "reset"} PROVE FALSE
      BY <3>1, NoOther
    <3>2. QED
      BY <3>1 DEF Changes
  <2>2. QED
    BY <2>1, DeepIs DEF DataDeep, DataOK
<1>3. Answered(call[c].got, kind, contents, indices, call[c].size)
  <2> SUFFICES ASSUME NEW i \in 1 .. Len(indices)
               PROVE  call[c].got[indices[i]] =
                        [qs |-> AskedAt(kind, call[c].size, i, Len(indices)),
                         found |-> FoundAt(kind, contents, indices, i)]
    BY DEF Answered
  <2>1. i \in DOMAIN indices
    BY <1>1
  <2>2. Work(c, i) = "true"
    BY <2>1, AllDone DEF Deals
  <2>3. call[c].got[indices[i]] = Answer(call[c].size, i)
    BY <2>1, <2>2, DeepIs DEF DataDeep, SawOf
  <2>4. QED
    BY <2>3 DEF Answer
<1>4. PICK got : got = call[c].got
  OBVIOUS
<1>5. PICK size \in Nat : size = call[c].size
  BY <1>1
<1>6. PICK cont \in Contents : cont = contents
  BY <1>2
<1>7. PICK ws \in Seq(Worker) : ws = indices
  BY <1>1
<1>8. PICK n \in Nat : n = committed
  BY <1>2
<1>9. PICK kd \in Kind3 : kd = kind
  OBVIOUS
<1>10. Exact(got, {u \in ToSet(ws) : q \in got[u].qs}, n)
  <2>1. q \in 0 .. size - 1
    BY <1>5
  <2>2. ws # <<>> /\ Distinct(ws) /\ Holds(kd, ws, cont, n)
    BY <1>1, <1>2, <1>6, <1>7, <1>8, <1>9
  <2>3. Answered(got, kd, cont, ws, size)
    BY <1>3, <1>4, <1>5, <1>6, <1>7, <1>9
  <2>4. QED
    BY <2>1, <2>2, <2>3, ExactIs
<1>11. call[c].ws = ws
  BY <1>1, <1>7
<1>12. QED
  BY <1>4, <1>8, <1>10, <1>11

LEMMA SearchIsExactNow == IInv /\ DeepInv => SearchExact
<1> SUFFICES ASSUME IInv, DeepInv, NEW c \in Caller, call[c].ph = "after",
                    call[c].op = "search", ~call[c].raised, ~dirty, kind # "split",
                    NEW q \in 0 .. call[c].size - 1
             PROVE  Exact(call[c].got, {u \in ToSet(call[c].ws) : q \in call[c].got[u].qs},
                          committed)
  BY DEF SearchExact, Exact
<1>1. kind \in Kind3
  <2>1. kind # "plain"
    BY DEF IInv, CallsOK, CallOK, IsCall, KindHas
  <2>2. QED
    BY <2>1, KindAssumption DEF DeepInv, Kind3
<1>2. Deep
  BY <1>1 DEF DeepInv
<1>3. QED
  BY <1>1, <1>2, DeepExact

\* ThreadedIndex, IndexShards and IndexReplicas: a search finds every vector that was
\* added, once for each query, under the number its adder knows it by.
THEOREM SearchIsExact == Spec => []SearchExact
<1>1. Init => DeepInv
  BY InitDeepInv
<1>2. IInv /\ IInv' /\ DeepInv /\ [Next]_vars => DeepInv'
  BY StepDeepInv
<1>3. QED
  BY <1>1, <1>2, AlwaysIInv, SearchIsExactNow, PTL DEF Spec
=============================================================================
