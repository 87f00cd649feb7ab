---------------------------- MODULE WorkerThread ----------------------------
(***************************************************************************)
(* WorkerThread (utils/WorkerThread.cpp): a thread with a queue of tasks.  *)
(* Everybody who adds a task gets a future.  Adding, stopping and taking a *)
(* task are critical sections of mutex_; a task runs outside of it, and so *)
(* does the flush of what is left in the queue after a stop.               *)
(***************************************************************************)
EXTENDS Integers, Sequences, FiniteSets

CONSTANTS
  Worker,
  Task,
  NoTask

ASSUME TaskAssumption   == NoTask \notin Task
ASSUME WorkerAssumption == IsFiniteSet(Worker)

VARIABLES
  queue,     \* queue[w]: queue_
  wantStop,  \* wantStop[w]: wantStop_
  thread,    \* thread[w]: where threadMain is
  data,      \* data[w]: the task that runs, or NoTask
  future     \* future[t][w]: what the future of task t at w says

workerVars == <<queue, wantStop, thread, data, future>>

WorkerInit ==
  /\ queue = [w \in Worker |-> <<>>]
  /\ wantStop = [w \in Worker |-> FALSE]
  /\ thread = [w \in Worker |-> "none"]
  /\ data = [w \in Worker |-> NoTask]
  /\ future = [t \in Task |-> [w \in Worker |-> "none"]]

----------------------------------------------------------------------------
(* What the threads that own w or share it may call.                       *)

\* The first half of the constructor; the second adds a task and waits for it.
Start(w) ==
  /\ thread[w] \in {"none", "gone"}
  /\ thread' = [thread EXCEPT ![w] = "loop"]
  /\ wantStop' = [wantStop EXCEPT ![w] = FALSE]
  /\ UNCHANGED <<queue, data, future>>

\* notify_one, with one thread that ever waits.
Notified(w) == [thread EXCEPT ![w] = IF @ = "asleep" THEN "loop" ELSE @]

\* Mutant: nobody is told.
AddMute(w, t) ==
  /\ queue' = [queue EXCEPT ![w] = Append(@, t)]
  /\ future' = [future EXCEPT ![t][w] = "pending"]
  /\ UNCHANGED <<wantStop, thread, data>>

\* A worker that was told to stop takes nothing more.
Add(w, t) ==
  \/ /\ wantStop[w]
     /\ future' = [future EXCEPT ![t][w] = "false"]
     /\ UNCHANGED <<queue, wantStop, thread, data>>
  \/ /\ ~wantStop[w]
     /\ queue' = [queue EXCEPT ![w] = Append(@, t)]
     /\ future' = [future EXCEPT ![t][w] = "pending"]
     /\ thread' = Notified(w)
     /\ UNCHANGED <<wantStop, data>>

Stop(w) ==
  /\ wantStop' = [wantStop EXCEPT ![w] = TRUE]
  /\ thread' = Notified(w)
  /\ UNCHANGED <<queue, data, future>>

----------------------------------------------------------------------------
(* threadMain.                                                             *)

Goes(w, from, to) == thread[w] = from /\ thread' = [thread EXCEPT ![w] = to]

Sleeps(w) ==
  /\ ~wantStop[w] /\ queue[w] = <<>>
  /\ Goes(w, "loop", "asleep")
  /\ UNCHANGED <<queue, wantStop, data, future>>

\* wait may return although nobody notified.
Spurious(w) ==
  /\ Goes(w, "asleep", "loop")
  /\ UNCHANGED <<queue, wantStop, data, future>>

Takes(w) ==
  /\ ~wantStop[w] /\ queue[w] # <<>>
  /\ Goes(w, "loop", "run")
  /\ data' = [data EXCEPT ![w] = Head(queue[w])]
  /\ queue' = [queue EXCEPT ![w] = Tail(@)]
  /\ UNCHANGED <<wantStop, future>>

\* runCallback: the task returns or raises, and its future says so.
Runs(w, outcome) ==
  /\ thread[w] = "run"
  /\ thread' = [thread EXCEPT ![w] = IF wantStop[w] THEN "flush" ELSE "loop"]
  /\ future' = [future EXCEPT ![data[w]][w] = outcome]
  /\ data' = [data EXCEPT ![w] = NoTask]
  /\ UNCHANGED <<queue, wantStop>>

Leaves(w) ==
  /\ wantStop[w]
  /\ Goes(w, "loop", "flush")
  /\ UNCHANGED <<queue, wantStop, data, future>>

\* The queue is walked through without the mutex.
Flushes(w) ==
  /\ queue[w] # <<>>
  /\ Goes(w, "flush", "run")
  /\ data' = [data EXCEPT ![w] = Head(queue[w])]
  /\ queue' = [queue EXCEPT ![w] = Tail(@)]
  /\ UNCHANGED <<wantStop, future>>

\* Mutant: the thread ends with tasks in the queue.
EndsAtOnce(w) ==
  /\ Goes(w, "flush", "gone")
  /\ UNCHANGED <<queue, wantStop, data, future>>

Ends(w) ==
  /\ queue[w] = <<>>
  /\ Goes(w, "flush", "gone")
  /\ UNCHANGED <<queue, wantStop, data, future>>

MainStep(w) == Sleeps(w) \/ Takes(w) \/ Leaves(w) \/ Flushes(w) \/ Ends(w)

----------------------------------------------------------------------------
\* "Future status is true if the lambda was run in the worker thread; false
\* if it was not run" (WorkerThread.h:35-38): a future is open exactly while
\* its task is in the queue or runs, and there once, and none is open when
\* the thread has ended, whoever added or stopped at the same time.
Places(t, w) ==
  Cardinality({i \in DOMAIN queue[w] : queue[w][i] = t}) + IF data[w] = t THEN 1 ELSE 0

FuturesKept ==
  \A w \in Worker, t \in Task :
    /\ Places(t, w) = IF future[t][w] = "pending" THEN 1 ELSE 0
    /\ thread[w] = "gone" => future[t][w] # "pending"
=============================================================================
