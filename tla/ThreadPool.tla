----------------------------- MODULE ThreadPool -----------------------------
(***************************************************************************)
(* src/ThreadPool.h: a fixed set of worker threads taking std::function    *)
(* objects from a FIFO queue guarded by a mutex and a condition variable.  *)
(*                                                                         *)
(* A step is what a thread does between two points where another thread    *)
(* can notice: taking the mutex, what is done while holding it, going to   *)
(* sleep on the condition variable, running a task, notifying.  Evaluating *)
(* the wait predicate and going to sleep are two steps, so that only the   *)
(* mutex keeps a notification from falling between them.                   *)
(*                                                                         *)
(* A task is an opaque value.  std::packaged_task turns whatever the task  *)
(* does, throwing included, into a future made ready, so running one is a  *)
(* single step with a single outcome.                                      *)
(***************************************************************************)
EXTENDS Naturals, Sequences, FiniteSets, Functions

CONSTANTS
  Workers,     \* the threads the constructor launches
  Submitters,  \* the threads that call enqueue
  Main,        \* the thread that constructs and destroys the pool
  Tasks,       \* the calls that may be enqueued, each once
  NoThread,    \* the value of a free mutex
  NoTask       \* the value of an empty task variable

Threads == Workers \cup Submitters \cup {Main}

ASSUME ThreadsAssumption ==
  /\ IsFiniteSet(Workers) /\ Workers # {}
  /\ Workers \cap Submitters = {}
  /\ Main \notin Workers \cup Submitters
  /\ NoThread \notin Threads
  /\ NoTask \notin Tasks

VARIABLES
  queue_mutex,  \* the thread that holds the mutex, or NoThread
  tasks,        \* the queue
  stop,         \* set by the destructor
  pc,           \* where each thread is
  task,         \* the task a worker has taken, or a submitter is enqueueing
  future        \* what the future of each task says

vars == <<queue_mutex, tasks, stop, pc, task, future>>

WorkerPC == {"unborn", "lock", "check", "block", "waiting", "run", "exited"}
SubmitPC == {"idle", "enq_lock", "enq_push", "enq_notify"}
MainPC == {"ctor", "live", "dtor_lock", "dtor_stop", "dtor_notify", "dtor_join",
           "destroyed"}

\* The labels at which a thread holds queue_mutex.
Critical == {"check", "block", "enq_push", "dtor_stop"}

Init ==
  /\ queue_mutex = NoThread
  /\ tasks = << >>
  /\ stop = FALSE
  /\ pc = [th \in Threads |-> CASE th \in Workers -> "unborn"
                                [] th \in Submitters -> "idle"
                                [] OTHER -> "ctor"]
  /\ task = [th \in Workers \cup Submitters |-> NoTask]
  /\ future = [t \in Tasks |-> "none"]

Goto(th, from, to) ==
  /\ pc[th] = from
  /\ pc' = [pc EXCEPT ![th] = to]

\* A step that only moves a thread on.
Move(th, from, to) ==
  /\ Goto(th, from, to)
  /\ UNCHANGED <<queue_mutex, tasks, stop, task, future>>

Acquire(th, from, to) ==
  /\ Goto(th, from, to)
  /\ queue_mutex = NoThread
  /\ queue_mutex' = th
  /\ UNCHANGED <<tasks, stop, task, future>>

Release(th, from, to) ==
  /\ Goto(th, from, to)
  /\ queue_mutex' = NoThread

Sleeping == {w \in Workers : pc[w] = "waiting"}

\* notify_one: one sleeping worker, any of them, goes for the mutex.
NotifyOne(th, from, to) ==
  /\ pc[th] = from
  /\ \/ /\ Sleeping = {}
        /\ pc' = [pc EXCEPT ![th] = to]
     \/ \E w \in Sleeping : pc' = [pc EXCEPT ![th] = to, ![w] = "lock"]
  /\ UNCHANGED <<queue_mutex, tasks, stop, task, future>>

-----------------------------------------------------------------------------
(* The constructor launches the workers one by one. *)

SpawnWorker(w) ==
  /\ pc[Main] = "ctor"
  /\ Move(w, "unborn", "lock")

CtorReturn ==
  /\ \A w \in Workers : pc[w] # "unborn"
  /\ Move(Main, "ctor", "live")

-----------------------------------------------------------------------------
(* The loop of a worker. *)

WorkerLock(w) == Acquire(w, "lock", "check")

\* The wait predicate is false: the worker is about to sleep ...
WorkerPredFalse(w) ==
  /\ ~stop /\ tasks = << >>
  /\ Move(w, "check", "block")

\* ... and condition.wait releases the mutex and sleeps in one step.
WorkerBlock(w) ==
  /\ Release(w, "block", "waiting")
  /\ UNCHANGED <<tasks, stop, task, future>>

\* A condition variable may wake a thread that nobody notified.
SpuriousWake(w) == Move(w, "waiting", "lock")

\* Seeded fault: a stopped worker leaves without emptying the queue.
WorkerExitAtOnce(w) ==
  /\ stop
  /\ Release(w, "check", "exited")
  /\ UNCHANGED <<tasks, stop, task, future>>

WorkerExit(w) ==
  /\ stop /\ tasks = << >>
  /\ Release(w, "check", "exited")
  /\ UNCHANGED <<tasks, stop, task, future>>

\* Seeded fault: the newest task is taken.
WorkerTakeNewest(w) ==
  /\ tasks # << >>
  /\ Release(w, "check", "run")
  /\ task' = [task EXCEPT ![w] = tasks[Len(tasks)]]
  /\ tasks' = SubSeq(tasks, 1, Len(tasks) - 1)
  /\ UNCHANGED <<stop, future>>

\* Seeded fault: the front task is copied and left in the queue.
WorkerTakeNoPop(w) ==
  /\ tasks # << >>
  /\ Release(w, "check", "run")
  /\ task' = [task EXCEPT ![w] = Head(tasks)]
  /\ UNCHANGED <<tasks, stop, future>>

WorkerTake(w) ==
  /\ tasks # << >>
  /\ Release(w, "check", "run")
  /\ task' = [task EXCEPT ![w] = Head(tasks)]
  /\ tasks' = Tail(tasks)
  /\ UNCHANGED <<stop, future>>

\* Seeded fault: the task variable outlives the pass of the loop.
WorkerRunKeepsTask(w) ==
  /\ Goto(w, "run", "lock")
  /\ future' = [future EXCEPT ![task[w]] = "ready"]
  /\ UNCHANGED <<queue_mutex, tasks, stop, task>>

WorkerRun(w) ==
  /\ Goto(w, "run", "lock")
  /\ future' = [future EXCEPT ![task[w]] = "ready"]
  /\ task' = [task EXCEPT ![w] = NoTask]
  /\ UNCHANGED <<queue_mutex, tasks, stop>>

-----------------------------------------------------------------------------
(* enqueue.  A call may begin while the destructor is at work, but not     *)
(* after the pool is gone: the lifetime rule every C++ object has.         *)

EnqCall(s, t) ==
  /\ pc[Main] \notin {"ctor", "destroyed"}
  /\ future[t] = "none"
  /\ Goto(s, "idle", "enq_lock")
  /\ task' = [task EXCEPT ![s] = t]
  /\ future' = [future EXCEPT ![t] = "pending"]
  /\ UNCHANGED <<queue_mutex, tasks, stop>>

EnqLock(s) == Acquire(s, "enq_lock", "enq_push")

EnqThrow(s) ==
  /\ stop
  /\ Release(s, "enq_push", "idle")
  /\ future' = [future EXCEPT ![task[s]] = "broken"]
  /\ task' = [task EXCEPT ![s] = NoTask]
  /\ UNCHANGED <<tasks, stop>>

EnqPush(s) ==
  /\ ~stop
  /\ Release(s, "enq_push", "enq_notify")
  /\ tasks' = Append(tasks, task[s])
  /\ task' = [task EXCEPT ![s] = NoTask]
  /\ UNCHANGED <<stop, future>>

\* Seeded fault: nobody is notified.
EnqNotifyNobody(s) == Move(s, "enq_notify", "idle")

EnqNotify(s) == NotifyOne(s, "enq_notify", "idle")

-----------------------------------------------------------------------------
(* The destructor. *)

DtorCall == Move(Main, "live", "dtor_lock")

\* Seeded fault: the critical section is entered without waiting for the mutex.
DtorNoLock == Move(Main, "dtor_lock", "dtor_stop")

DtorLock == Acquire(Main, "dtor_lock", "dtor_stop")

DtorStop ==
  /\ Release(Main, "dtor_stop", "dtor_notify")
  /\ stop' = TRUE
  /\ UNCHANGED <<tasks, task, future>>

\* Seeded fault: notify_one where notify_all is needed.
DtorNotifyOne == NotifyOne(Main, "dtor_notify", "dtor_join")

\* notify_all
DtorNotify ==
  /\ pc[Main] = "dtor_notify"
  /\ pc' = [th \in Threads |-> IF th = Main THEN "dtor_join"
                               ELSE IF th \in Sleeping THEN "lock"
                               ELSE pc[th]]
  /\ UNCHANGED <<queue_mutex, tasks, stop, task, future>>

\* join() on every worker; the object ends when no call on it is running.
DtorJoin ==
  /\ \A w \in Workers : pc[w] = "exited"
  /\ \A s \in Submitters : pc[s] = "idle"
  /\ Move(Main, "dtor_join", "destroyed")

-----------------------------------------------------------------------------
WorkerStep(w) ==
  \/ WorkerLock(w)
  \/ WorkerPredFalse(w)
  \/ WorkerBlock(w)
  \/ WorkerExit(w)
  \/ WorkerTake(w)
  \/ WorkerRun(w)

EnqStep(s) ==
  \/ EnqLock(s)
  \/ EnqThrow(s)
  \/ EnqPush(s)
  \/ EnqNotify(s)

MainStep ==
  \/ CtorReturn
  \/ DtorLock
  \/ DtorStop
  \/ DtorNotify
  \/ DtorJoin

\* After the destructor nothing is left to do.
Terminated == pc[Main] = "destroyed" /\ UNCHANGED vars

Next ==
  \/ \E w \in Workers : WorkerStep(w) \/ SpawnWorker(w) \/ SpuriousWake(w)
  \/ \E s \in Submitters : EnqStep(s)
  \/ \E s \in Submitters, t \in Tasks : EnqCall(s, t)
  \/ MainStep
  \/ DtorCall
  \/ Terminated

(***************************************************************************)
(* The scheduler runs every thread that can run.  Nobody has to call       *)
(* enqueue or the destructor, and spurious wakeups, which need not happen, *)
(* do not go on forever.                                                   *)
(***************************************************************************)
Fairness ==
  /\ \A w \in Workers : WF_vars(WorkerStep(w)) /\ WF_vars(SpawnWorker(w))
  /\ \A s \in Submitters : WF_vars(EnqStep(s))
  /\ WF_vars(MainStep)
  /\ \A w \in Workers : <>[][~SpuriousWake(w)]_vars

SafeSpec == Init /\ [][Next]_vars

Spec == SafeSpec /\ Fairness

-----------------------------------------------------------------------------
(* Properties *)

\* The variables have their types; a thread holds the mutex exactly at its
\* critical labels; a task variable is full exactly while the thread is busy
\* with a task; and stop says how far the destructor is.
TypeOK ==
  /\ queue_mutex \in Threads \cup {NoThread}
  /\ tasks \in Seq(Tasks)
  /\ stop \in BOOLEAN
  /\ stop <=> pc[Main] \in {"dtor_notify", "dtor_join", "destroyed"}
  /\ pc \in [Threads -> WorkerPC \cup SubmitPC \cup MainPC]
  /\ \A w \in Workers : pc[w] \in WorkerPC
  /\ \A s \in Submitters : pc[s] \in SubmitPC
  /\ pc[Main] \in MainPC
  /\ task \in [Workers \cup Submitters -> Tasks \cup {NoTask}]
  /\ \A th \in Workers \cup Submitters :
       task[th] # NoTask <=> pc[th] \in {"run", "enq_lock", "enq_push"}
  /\ future \in [Tasks -> {"none", "pending", "ready", "broken"}]

\* Mutual exclusion: at most one thread is between taking and releasing the
\* mutex (ThreadPool.h:46-53, 74-81, 90-92), and it is the recorded holder.
MutexOwner == \A th \in Threads : pc[th] \in Critical <=> queue_mutex = th

\* A task that enqueue has been given is in exactly one place (the queue, a
\* worker's hands, or a call in progress) for as long as its future is
\* pending: nothing is lost, nothing is run twice (ThreadPool.h:51-55, 80).
OnePlace ==
  /\ IsInjective(tasks)
  /\ \A a, b \in Workers \cup Submitters : task[a] = task[b] => a = b \/ task[a] = NoTask
  /\ \A a \in Workers \cup Submitters : task[a] \notin Range(tasks)
  /\ \A t \in Tasks : future[t] = "pending" <=>
       t \in Range(tasks) \/ \E a \in Workers \cup Submitters : task[a] = t

\* No lost wakeup: while the queue holds a task, some worker is up and will
\* look at it, or some call has yet to notify (ThreadPool.h:47-48, 82).
NoLostWakeup ==
  tasks # << >> => \/ \E w \in Workers : pc[w] \notin {"waiting", "exited"}
                   \/ \E s \in Submitters : pc[s] = "enq_notify"

\* Once the destructor has notified, no worker sleeps or is about to, so
\* join cannot wait for a sleeper (ThreadPool.h:89-95).
StopWakesAll ==
  pc[Main] \in {"dtor_join", "destroyed"} =>
    \A w \in Workers : pc[w] \notin {"block", "waiting"}

\* When the destructor has returned every task that was accepted has run:
\* the queue is drained, not dropped (ThreadPool.h:49-50).
DrainedAtEnd ==
  pc[Main] = "destroyed" => tasks = << >> /\ \A t \in Tasks : future[t] # "pending"

\* The pool as its clients see it.
Running == {w \in Workers : pc[w] = "run"}

Pool == INSTANCE TaskPool WITH
  Limit <- Cardinality(Workers),
  pending <- tasks,
  active <- {task[w] : w \in Running},
  finished <- {t \in Tasks : future[t] = "ready"},
  phase <- IF pc[Main] = "destroyed" THEN "joined" ELSE IF stop THEN "closed" ELSE "open"

\* The threads, the mutex and the condition variable implement the promise of
\* TaskPool, its order, its exactly-once and its progress included.
ImplementsPool == Pool!Spec

\* A destructor that has been called returns (ThreadPool.h:87-96).
DestructorReturns == pc[Main] = "dtor_lock" ~> pc[Main] = "destroyed"
=============================================================================
