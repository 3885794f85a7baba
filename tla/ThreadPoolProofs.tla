-------------------------- MODULE ThreadPoolProofs --------------------------
(***************************************************************************)
(* The safety properties of ThreadPool, for every number of workers,       *)
(* submitters and tasks.  The argument is the conjunction IInv below: the  *)
(* invariants of ThreadPool are inductive once it is known what is true of *)
(* a worker that is about to sleep, of one that has left its loop, and of  *)
(* the pool when its destructor has returned.                              *)
(***************************************************************************)
EXTENDS ThreadPool, SequenceTheorems, FiniteSetTheorems, TLAPS

\* A worker about to sleep saw a pool neither stopped nor with work, and
\* nobody could change that since; one that has left saw a stopped, empty
\* pool, which no call can fill again; the destructor waited for everybody.
LeaveInv ==
  /\ \A w \in Workers : pc[w] = "block" => ~stop /\ tasks = << >>
  /\ \A w \in Workers : pc[w] = "exited" => stop /\ tasks = << >>
  /\ pc[Main] = "destroyed" => /\ \A w \in Workers : pc[w] = "exited"
                               /\ \A s \in Submitters : pc[s] = "idle"

IInv == TypeOK /\ MutexOwner /\ LeaveInv /\ OnePlace /\ NoLostWakeup /\ StopWakesAll

-----------------------------------------------------------------------------
(* Facts about a queue without repetitions. *)

\* Appending a task that is not in the queue keeps the queue free of
\* repetitions and adds just that task to it.
LEMMA AppendQueue ==
  ASSUME NEW S, NEW q \in Seq(S), IsInjective(q), NEW t \in S, t \notin Range(q)
  PROVE  /\ IsInjective(Append(q, t))
         /\ Range(Append(q, t)) = Range(q) \cup {t}
BY DEF IsInjective, Range

\* Taking the front task off keeps the queue free of repetitions and removes
\* just that task from it.
LEMMA TailQueue ==
  ASSUME NEW S, NEW q \in Seq(S), IsInjective(q), q # << >>
  PROVE  /\ Head(q) \in S
         /\ Tail(q) \in Seq(S)
         /\ IsInjective(Tail(q))
         /\ Head(q) \in Range(q)
         /\ Range(Tail(q)) = Range(q) \ {Head(q)}
<1>1. /\ Head(q) \in S /\ Tail(q) \in Seq(S) /\ Head(q) = q[1] /\ 1 \in DOMAIN q
      /\ Len(Tail(q)) = Len(q) - 1
      /\ \A i \in 1 .. Len(Tail(q)) : Tail(q)[i] = q[i + 1]
  OBVIOUS
<1>2. IsInjective(Tail(q))
  BY <1>1 DEF IsInjective
<1>3. Range(Tail(q)) \subseteq Range(q) \ {Head(q)}
  BY <1>1 DEF Range, IsInjective
<1>4. ASSUME NEW x \in Range(q) \ {Head(q)}
      PROVE  x \in Range(Tail(q))
  <2>1. PICK i \in DOMAIN q : x = q[i]
    BY DEF Range
  <2>2. i - 1 \in DOMAIN Tail(q) /\ Tail(q)[i - 1] = x
    BY <1>1, <1>4, <2>1
  <2>3. QED
    BY <2>2 DEF Range
<1>5. QED
  BY <1>1, <1>2, <1>3, <1>4 DEF Range

-----------------------------------------------------------------------------
(* Each conjunct of IInv, step by step. *)

\* Every step keeps the types.
LEMMA TypeStep == IInv /\ [Next]_vars => TypeOK'
<1> SUFFICES ASSUME IInv, [Next]_vars PROVE TypeOK'
  OBVIOUS
<1> USE ThreadsAssumption DEF IInv, TypeOK, Threads, WorkerPC, SubmitPC, MainPC
<1>1. ASSUME NEW w \in Workers, SpawnWorker(w)  PROVE TypeOK'
  BY <1>1 DEF SpawnWorker, Move, Goto
<1>2. ASSUME NEW w \in Workers, WorkerLock(w)  PROVE TypeOK'
  BY <1>2 DEF WorkerLock, Acquire, Goto
<1>3. ASSUME NEW w \in Workers, WorkerPredFalse(w)  PROVE TypeOK'
  BY <1>3 DEF WorkerPredFalse, Move, Goto
<1>4. ASSUME NEW w \in Workers, WorkerBlock(w)  PROVE TypeOK'
  BY <1>4 DEF WorkerBlock, Release, Goto
<1>5. ASSUME NEW w \in Workers, SpuriousWake(w)  PROVE TypeOK'
  BY <1>5 DEF SpuriousWake, Move, Goto
<1>6. ASSUME NEW w \in Workers, WorkerExit(w)  PROVE TypeOK'
  BY <1>6 DEF WorkerExit, Release, Goto
<1>7. ASSUME NEW w \in Workers, WorkerTake(w)  PROVE TypeOK'
  BY <1>7, TailQueue DEF WorkerTake, Release, Goto
<1>8. ASSUME NEW w \in Workers, WorkerRun(w)  PROVE TypeOK'
  BY <1>8 DEF WorkerRun, Goto
<1>9. ASSUME NEW s \in Submitters, EnqLock(s)  PROVE TypeOK'
  BY <1>9 DEF EnqLock, Acquire, Goto
<1>10. ASSUME NEW s \in Submitters, EnqThrow(s)  PROVE TypeOK'
  BY <1>10 DEF EnqThrow, Release, Goto
<1>11. ASSUME NEW s \in Submitters, EnqPush(s)  PROVE TypeOK'
  BY <1>11 DEF EnqPush, Release, Goto
<1>12. ASSUME NEW s \in Submitters, EnqNotify(s)  PROVE TypeOK'
  BY <1>12 DEF EnqNotify, NotifyOne, Sleeping
<1>13. ASSUME NEW s \in Submitters, NEW t \in Tasks, EnqCall(s, t)  PROVE TypeOK'
  BY <1>13 DEF EnqCall, Goto
<1>14. ASSUME CtorReturn  PROVE TypeOK'
  BY <1>14 DEF CtorReturn, Move, Goto
<1>15. ASSUME DtorCall  PROVE TypeOK'
  BY <1>15 DEF DtorCall, Move, Goto
<1>16. ASSUME DtorLock  PROVE TypeOK'
  BY <1>16 DEF DtorLock, Acquire, Goto
<1>17. ASSUME DtorStop  PROVE TypeOK'
  BY <1>17 DEF DtorStop, Release, Goto
<1>18. ASSUME DtorNotify  PROVE TypeOK'
  BY <1>18 DEF DtorNotify, Sleeping
<1>19. ASSUME DtorJoin  PROVE TypeOK'
  BY <1>19 DEF DtorJoin, Move, Goto
<1>20. CASE UNCHANGED vars
  BY <1>20 DEF vars
<1>21. QED
  BY <1>1, <1>2, <1>3, <1>4, <1>5, <1>6, <1>7, <1>8, <1>9, <1>10, <1>11, <1>12, <1>13, <1>14, <1>15, <1>16, <1>17, <1>18, <1>19, <1>20
  DEF Next, WorkerStep, EnqStep, MainStep, Terminated

\* Only the holder of the mutex is at a critical label after any step.
LEMMA MutexStep == IInv /\ [Next]_vars => MutexOwner'
<1> SUFFICES ASSUME IInv, [Next]_vars PROVE MutexOwner'
  OBVIOUS
<1> USE ThreadsAssumption DEF IInv, TypeOK, MutexOwner, Critical, Threads, WorkerPC, SubmitPC, MainPC
<1>1. ASSUME NEW w \in Workers, SpawnWorker(w)  PROVE MutexOwner'
  BY <1>1 DEF SpawnWorker, Move, Goto
<1>2. ASSUME NEW w \in Workers, WorkerLock(w)  PROVE MutexOwner'
  BY <1>2 DEF WorkerLock, Acquire, Goto
<1>3. ASSUME NEW w \in Workers, WorkerPredFalse(w)  PROVE MutexOwner'
  BY <1>3 DEF WorkerPredFalse, Move, Goto
<1>4. ASSUME NEW w \in Workers, WorkerBlock(w)  PROVE MutexOwner'
  BY <1>4 DEF WorkerBlock, Release, Goto
<1>5. ASSUME NEW w \in Workers, SpuriousWake(w)  PROVE MutexOwner'
  BY <1>5 DEF SpuriousWake, Move, Goto
<1>6. ASSUME NEW w \in Workers, WorkerExit(w)  PROVE MutexOwner'
  BY <1>6 DEF WorkerExit, Release, Goto
<1>7. ASSUME NEW w \in Workers, WorkerTake(w)  PROVE MutexOwner'
  BY <1>7 DEF WorkerTake, Release, Goto
<1>8. ASSUME NEW w \in Workers, WorkerRun(w)  PROVE MutexOwner'
  BY <1>8 DEF WorkerRun, Goto
<1>9. ASSUME NEW s \in Submitters, EnqLock(s)  PROVE MutexOwner'
  BY <1>9 DEF EnqLock, Acquire, Goto
<1>10. ASSUME NEW s \in Submitters, EnqThrow(s)  PROVE MutexOwner'
  BY <1>10 DEF EnqThrow, Release, Goto
<1>11. ASSUME NEW s \in Submitters, EnqPush(s)  PROVE MutexOwner'
  BY <1>11 DEF EnqPush, Release, Goto
<1>12. ASSUME NEW s \in Submitters, EnqNotify(s)  PROVE MutexOwner'
  BY <1>12 DEF EnqNotify, NotifyOne, Sleeping
<1>13. ASSUME NEW s \in Submitters, NEW t \in Tasks, EnqCall(s, t)  PROVE MutexOwner'
  BY <1>13 DEF EnqCall, Goto
<1>14. ASSUME CtorReturn  PROVE MutexOwner'
  BY <1>14 DEF CtorReturn, Move, Goto
<1>15. ASSUME DtorCall  PROVE MutexOwner'
  BY <1>15 DEF DtorCall, Move, Goto
<1>16. ASSUME DtorLock  PROVE MutexOwner'
  BY <1>16 DEF DtorLock, Acquire, Goto
<1>17. ASSUME DtorStop  PROVE MutexOwner'
  BY <1>17 DEF DtorStop, Release, Goto
<1>18. ASSUME DtorNotify  PROVE MutexOwner'
  BY <1>18 DEF DtorNotify, Sleeping
<1>19. ASSUME DtorJoin  PROVE MutexOwner'
  BY <1>19 DEF DtorJoin, Move, Goto
<1>20. CASE UNCHANGED vars
  BY <1>20 DEF vars
<1>21. QED
  BY <1>1, <1>2, <1>3, <1>4, <1>5, <1>6, <1>7, <1>8, <1>9, <1>10, <1>11, <1>12, <1>13, <1>14, <1>15, <1>16, <1>17, <1>18, <1>19, <1>20
  DEF Next, WorkerStep, EnqStep, MainStep, Terminated

\* What a worker saw before it sleeps or leaves stays true: the mutex protects
\* the one, the destructor's being the only writer of stop the other.
LEMMA LeaveStep == IInv /\ [Next]_vars => LeaveInv'
<1> SUFFICES ASSUME IInv, [Next]_vars PROVE LeaveInv'
  OBVIOUS
<1> USE ThreadsAssumption DEF IInv, TypeOK, MutexOwner, Critical, LeaveInv, Threads, WorkerPC, SubmitPC, MainPC
<1>1. ASSUME NEW w \in Workers, SpawnWorker(w)  PROVE LeaveInv'
  BY <1>1 DEF SpawnWorker, Move, Goto
<1>2. ASSUME NEW w \in Workers, WorkerLock(w)  PROVE LeaveInv'
  BY <1>2 DEF WorkerLock, Acquire, Goto
<1>3. ASSUME NEW w \in Workers, WorkerPredFalse(w)  PROVE LeaveInv'
  BY <1>3 DEF WorkerPredFalse, Move, Goto
<1>4. ASSUME NEW w \in Workers, WorkerBlock(w)  PROVE LeaveInv'
  BY <1>4 DEF WorkerBlock, Release, Goto
<1>5. ASSUME NEW w \in Workers, SpuriousWake(w)  PROVE LeaveInv'
  BY <1>5 DEF SpuriousWake, Move, Goto
<1>6. ASSUME NEW w \in Workers, WorkerExit(w)  PROVE LeaveInv'
  BY <1>6 DEF WorkerExit, Release, Goto
<1>7. ASSUME NEW w \in Workers, WorkerTake(w)  PROVE LeaveInv'
  BY <1>7 DEF WorkerTake, Release, Goto
<1>8. ASSUME NEW w \in Workers, WorkerRun(w)  PROVE LeaveInv'
  BY <1>8 DEF WorkerRun, Goto
<1>9. ASSUME NEW s \in Submitters, EnqLock(s)  PROVE LeaveInv'
  BY <1>9 DEF EnqLock, Acquire, Goto
<1>10. ASSUME NEW s \in Submitters, EnqThrow(s)  PROVE LeaveInv'
  BY <1>10 DEF EnqThrow, Release, Goto
<1>11. ASSUME NEW s \in Submitters, EnqPush(s)  PROVE LeaveInv'
  BY <1>11 DEF EnqPush, Release, Goto
<1>12. ASSUME NEW s \in Submitters, EnqNotify(s)  PROVE LeaveInv'
  BY <1>12 DEF EnqNotify, NotifyOne, Sleeping
<1>13. ASSUME NEW s \in Submitters, NEW t \in Tasks, EnqCall(s, t)  PROVE LeaveInv'
  BY <1>13 DEF EnqCall, Goto
<1>14. ASSUME CtorReturn  PROVE LeaveInv'
  BY <1>14 DEF CtorReturn, Move, Goto
<1>15. ASSUME DtorCall  PROVE LeaveInv'
  BY <1>15 DEF DtorCall, Move, Goto
<1>16. ASSUME DtorLock  PROVE LeaveInv'
  BY <1>16 DEF DtorLock, Acquire, Goto
<1>17. ASSUME DtorStop  PROVE LeaveInv'
  BY <1>17 DEF DtorStop, Release, Goto
<1>18. ASSUME DtorNotify  PROVE LeaveInv'
  BY <1>18 DEF DtorNotify, Sleeping
<1>19. ASSUME DtorJoin  PROVE LeaveInv'
  BY <1>19 DEF DtorJoin, Move, Goto
<1>20. CASE UNCHANGED vars
  BY <1>20 DEF vars
<1>21. QED
  BY <1>1, <1>2, <1>3, <1>4, <1>5, <1>6, <1>7, <1>8, <1>9, <1>10, <1>11, <1>12, <1>13, <1>14, <1>15, <1>16, <1>17, <1>18, <1>19, <1>20
  DEF Next, WorkerStep, EnqStep, MainStep, Terminated

\* A task moves from one place to the next and is never in two.
LEMMA OnePlaceStep == IInv /\ [Next]_vars => OnePlace'
<1> SUFFICES ASSUME IInv, [Next]_vars PROVE OnePlace'
  OBVIOUS
<1> USE ThreadsAssumption DEF IInv, TypeOK, OnePlace, Threads, WorkerPC, SubmitPC, MainPC
<1>1. ASSUME NEW w \in Workers, SpawnWorker(w)  PROVE OnePlace'
  BY <1>1 DEF SpawnWorker, Move, Goto
<1>2. ASSUME NEW w \in Workers, WorkerLock(w)  PROVE OnePlace'
  BY <1>2 DEF WorkerLock, Acquire, Goto
<1>3. ASSUME NEW w \in Workers, WorkerPredFalse(w)  PROVE OnePlace'
  BY <1>3 DEF WorkerPredFalse, Move, Goto
<1>4. ASSUME NEW w \in Workers, WorkerBlock(w)  PROVE OnePlace'
  BY <1>4 DEF WorkerBlock, Release, Goto
<1>5. ASSUME NEW w \in Workers, SpuriousWake(w)  PROVE OnePlace'
  BY <1>5 DEF SpuriousWake, Move, Goto
<1>6. ASSUME NEW w \in Workers, WorkerExit(w)  PROVE OnePlace'
  BY <1>6 DEF WorkerExit, Release, Goto
<1>7. ASSUME NEW w \in Workers, WorkerTake(w)  PROVE OnePlace'
  BY <1>7, TailQueue DEF WorkerTake, Release, Goto
<1>8. ASSUME NEW w \in Workers, WorkerRun(w)  PROVE OnePlace'
  <2>1. task[w] \in Tasks /\ task[w] \notin Range(tasks) /\ pc[w] \in {"run", "enq_push"}
    BY <1>8 DEF WorkerRun, Goto
  <2>2. /\ tasks' = tasks
        /\ task' = [task EXCEPT ![w] = NoTask]
        /\ \A t \in Tasks : (future'[t] = "pending") <=> (future[t] = "pending" /\ t # task[w])
    BY <1>8, <2>1 DEF WorkerRun, Goto
  <2>3. IsInjective(tasks') /\ \A a \in Workers \cup Submitters : task'[a] \notin Range(tasks')
    <3>1. NoTask \notin Range(tasks)
      BY DEF Range
    <3>2. QED
      BY <2>2, <3>1
  <2>4. \A a, b \in Workers \cup Submitters : task'[a] = task'[b] => a = b \/ task'[a] = NoTask
    BY <2>2
  <2>5. \A t \in Tasks : future'[t] = "pending" <=>
          t \in Range(tasks') \/ \E a \in Workers \cup Submitters : task'[a] = t
    BY <2>1, <2>2
  <2>6. QED
    BY <2>3, <2>4, <2>5
<1>9. ASSUME NEW s \in Submitters, EnqLock(s)  PROVE OnePlace'
  BY <1>9 DEF EnqLock, Acquire, Goto
<1>10. ASSUME NEW s \in Submitters, EnqThrow(s)  PROVE OnePlace'
  <2>1. task[s] \in Tasks /\ task[s] \notin Range(tasks) /\ pc[s] \in {"run", "enq_push"}
    BY <1>10 DEF EnqThrow, Release, Goto
  <2>2. /\ tasks' = tasks
        /\ task' = [task EXCEPT ![s] = NoTask]
        /\ \A t \in Tasks : (future'[t] = "pending") <=> (future[t] = "pending" /\ t # task[s])
    BY <1>10, <2>1 DEF EnqThrow, Release, Goto
  <2>3. IsInjective(tasks') /\ \A a \in Workers \cup Submitters : task'[a] \notin Range(tasks')
    <3>1. NoTask \notin Range(tasks)
      BY DEF Range
    <3>2. QED
      BY <2>2, <3>1
  <2>4. \A a, b \in Workers \cup Submitters : task'[a] = task'[b] => a = b \/ task'[a] = NoTask
    BY <2>2
  <2>5. \A t \in Tasks : future'[t] = "pending" <=>
          t \in Range(tasks') \/ \E a \in Workers \cup Submitters : task'[a] = t
    BY <2>1, <2>2
  <2>6. QED
    BY <2>3, <2>4, <2>5
<1>11. ASSUME NEW s \in Submitters, EnqPush(s)  PROVE OnePlace'
  <2>1. /\ task[s] \in Tasks /\ task[s] \notin Range(tasks)
        /\ tasks' = Append(tasks, task[s])
        /\ task' = [task EXCEPT ![s] = NoTask]
        /\ future' = future
    BY <1>11 DEF EnqPush, Release, Goto
  <2>2. IsInjective(tasks') /\ Range(tasks') = Range(tasks) \cup {task[s]}
    BY <2>1, AppendQueue
  <2>3. \A a \in Workers \cup Submitters : task'[a] \notin Range(tasks')
    <3>1. NoTask \notin Range(tasks')
      BY <2>1, <2>2 DEF Range
    <3>2. QED
      BY <2>1, <2>2, <3>1
  <2>4. \A a, b \in Workers \cup Submitters : task'[a] = task'[b] => a = b \/ task'[a] = NoTask
    BY <2>1
  <2>5. \A t \in Tasks : future'[t] = "pending" <=>
          t \in Range(tasks') \/ \E a \in Workers \cup Submitters : task'[a] = t
    BY <2>1, <2>2
  <2>6. QED
    BY <2>2, <2>3, <2>4, <2>5
<1>12. ASSUME NEW s \in Submitters, EnqNotify(s)  PROVE OnePlace'
  BY <1>12 DEF EnqNotify, NotifyOne, Sleeping
<1>13. ASSUME NEW s \in Submitters, NEW t \in Tasks, EnqCall(s, t)  PROVE OnePlace'
  BY <1>13 DEF EnqCall, Goto
<1>14. ASSUME CtorReturn  PROVE OnePlace'
  BY <1>14 DEF CtorReturn, Move, Goto
<1>15. ASSUME DtorCall  PROVE OnePlace'
  BY <1>15 DEF DtorCall, Move, Goto
<1>16. ASSUME DtorLock  PROVE OnePlace'
  BY <1>16 DEF DtorLock, Acquire, Goto
<1>17. ASSUME DtorStop  PROVE OnePlace'
  BY <1>17 DEF DtorStop, Release, Goto
<1>18. ASSUME DtorNotify  PROVE OnePlace'
  BY <1>18 DEF DtorNotify, Sleeping
<1>19. ASSUME DtorJoin  PROVE OnePlace'
  BY <1>19 DEF DtorJoin, Move, Goto
<1>20. CASE UNCHANGED vars
  BY <1>20 DEF vars
<1>21. QED
  BY <1>1, <1>2, <1>3, <1>4, <1>5, <1>6, <1>7, <1>8, <1>9, <1>10, <1>11, <1>12, <1>13, <1>14, <1>15, <1>16, <1>17, <1>18, <1>19, <1>20
  DEF Next, WorkerStep, EnqStep, MainStep, Terminated

\* A push is followed by a notification, and a worker goes to sleep or leaves
\* only when the queue is empty.
LEMMA WakeupStep == IInv /\ [Next]_vars => NoLostWakeup'
<1> SUFFICES ASSUME IInv, [Next]_vars PROVE NoLostWakeup'
  OBVIOUS
<1> USE ThreadsAssumption DEF IInv, TypeOK, LeaveInv, NoLostWakeup, Threads, WorkerPC, SubmitPC, MainPC
<1>1. ASSUME NEW w \in Workers, SpawnWorker(w)  PROVE NoLostWakeup'
  BY <1>1 DEF SpawnWorker, Move, Goto
<1>2. ASSUME NEW w \in Workers, WorkerLock(w)  PROVE NoLostWakeup'
  BY <1>2 DEF WorkerLock, Acquire, Goto
<1>3. ASSUME NEW w \in Workers, WorkerPredFalse(w)  PROVE NoLostWakeup'
  BY <1>3 DEF WorkerPredFalse, Move, Goto
<1>4. ASSUME NEW w \in Workers, WorkerBlock(w)  PROVE NoLostWakeup'
  BY <1>4 DEF WorkerBlock, Release, Goto
<1>5. ASSUME NEW w \in Workers, SpuriousWake(w)  PROVE NoLostWakeup'
  BY <1>5 DEF SpuriousWake, Move, Goto
<1>6. ASSUME NEW w \in Workers, WorkerExit(w)  PROVE NoLostWakeup'
  BY <1>6 DEF WorkerExit, Release, Goto
<1>7. ASSUME NEW w \in Workers, WorkerTake(w)  PROVE NoLostWakeup'
  BY <1>7 DEF WorkerTake, Release, Goto
<1>8. ASSUME NEW w \in Workers, WorkerRun(w)  PROVE NoLostWakeup'
  BY <1>8 DEF WorkerRun, Goto
<1>9. ASSUME NEW s \in Submitters, EnqLock(s)  PROVE NoLostWakeup'
  BY <1>9 DEF EnqLock, Acquire, Goto
<1>10. ASSUME NEW s \in Submitters, EnqThrow(s)  PROVE NoLostWakeup'
  BY <1>10 DEF EnqThrow, Release, Goto
<1>11. ASSUME NEW s \in Submitters, EnqPush(s)  PROVE NoLostWakeup'
  BY <1>11 DEF EnqPush, Release, Goto
<1>12. ASSUME NEW s \in Submitters, EnqNotify(s)  PROVE NoLostWakeup'
  <2>1. CASE Sleeping = {}
    <3>1. PICK w \in Workers : TRUE
      BY ThreadsAssumption
    <3>2. pc[w] # "waiting" /\ pc'[w] = pc[w] /\ tasks' = tasks
      BY <1>12, <2>1 DEF EnqNotify, NotifyOne, Sleeping
    <3>3. QED
      BY <3>2
  <2>2. ASSUME NEW w \in Sleeping, pc' = [pc EXCEPT ![s] = "idle", ![w] = "lock"]
        PROVE  NoLostWakeup'
    BY <2>2 DEF Sleeping
  <2>3. QED
    BY <1>12, <2>1, <2>2 DEF EnqNotify, NotifyOne
<1>13. ASSUME NEW s \in Submitters, NEW t \in Tasks, EnqCall(s, t)  PROVE NoLostWakeup'
  BY <1>13 DEF EnqCall, Goto
<1>14. ASSUME CtorReturn  PROVE NoLostWakeup'
  BY <1>14 DEF CtorReturn, Move, Goto
<1>15. ASSUME DtorCall  PROVE NoLostWakeup'
  BY <1>15 DEF DtorCall, Move, Goto
<1>16. ASSUME DtorLock  PROVE NoLostWakeup'
  BY <1>16 DEF DtorLock, Acquire, Goto
<1>17. ASSUME DtorStop  PROVE NoLostWakeup'
  BY <1>17 DEF DtorStop, Release, Goto
<1>18. ASSUME DtorNotify  PROVE NoLostWakeup'
  BY <1>18 DEF DtorNotify, Sleeping
<1>19. ASSUME DtorJoin  PROVE NoLostWakeup'
  BY <1>19 DEF DtorJoin, Move, Goto
<1>20. CASE UNCHANGED vars
  BY <1>20 DEF vars
<1>21. QED
  BY <1>1, <1>2, <1>3, <1>4, <1>5, <1>6, <1>7, <1>8, <1>9, <1>10, <1>11, <1>12, <1>13, <1>14, <1>15, <1>16, <1>17, <1>18, <1>19, <1>20
  DEF Next, WorkerStep, EnqStep, MainStep, Terminated

\* After notify_all nobody can go to sleep again, because stop is set.
LEMMA StopStep == IInv /\ [Next]_vars => StopWakesAll'
<1> SUFFICES ASSUME IInv, [Next]_vars PROVE StopWakesAll'
  OBVIOUS
<1> USE ThreadsAssumption DEF IInv, TypeOK, LeaveInv, StopWakesAll, Threads, WorkerPC, SubmitPC, MainPC
<1>1. ASSUME NEW w \in Workers, SpawnWorker(w)  PROVE StopWakesAll'
  BY <1>1 DEF SpawnWorker, Move, Goto
<1>2. ASSUME NEW w \in Workers, WorkerLock(w)  PROVE StopWakesAll'
  BY <1>2 DEF WorkerLock, Acquire, Goto
<1>3. ASSUME NEW w \in Workers, WorkerPredFalse(w)  PROVE StopWakesAll'
  BY <1>3 DEF WorkerPredFalse, Move, Goto
<1>4. ASSUME NEW w \in Workers, WorkerBlock(w)  PROVE StopWakesAll'
  BY <1>4 DEF WorkerBlock, Release, Goto
<1>5. ASSUME NEW w \in Workers, SpuriousWake(w)  PROVE StopWakesAll'
  BY <1>5 DEF SpuriousWake, Move, Goto
<1>6. ASSUME NEW w \in Workers, WorkerExit(w)  PROVE StopWakesAll'
  BY <1>6 DEF WorkerExit, Release, Goto
<1>7. ASSUME NEW w \in Workers, WorkerTake(w)  PROVE StopWakesAll'
  BY <1>7 DEF WorkerTake, Release, Goto
<1>8. ASSUME NEW w \in Workers, WorkerRun(w)  PROVE StopWakesAll'
  BY <1>8 DEF WorkerRun, Goto
<1>9. ASSUME NEW s \in Submitters, EnqLock(s)  PROVE StopWakesAll'
  BY <1>9 DEF EnqLock, Acquire, Goto
<1>10. ASSUME NEW s \in Submitters, EnqThrow(s)  PROVE StopWakesAll'
  BY <1>10 DEF EnqThrow, Release, Goto
<1>11. ASSUME NEW s \in Submitters, EnqPush(s)  PROVE StopWakesAll'
  BY <1>11 DEF EnqPush, Release, Goto
<1>12. ASSUME NEW s \in Submitters, EnqNotify(s)  PROVE StopWakesAll'
  BY <1>12 DEF EnqNotify, NotifyOne, Sleeping
<1>13. ASSUME NEW s \in Submitters, NEW t \in Tasks, EnqCall(s, t)  PROVE StopWakesAll'
  BY <1>13 DEF EnqCall, Goto
<1>14. ASSUME CtorReturn  PROVE StopWakesAll'
  BY <1>14 DEF CtorReturn, Move, Goto
<1>15. ASSUME DtorCall  PROVE StopWakesAll'
  BY <1>15 DEF DtorCall, Move, Goto
<1>16. ASSUME DtorLock  PROVE StopWakesAll'
  BY <1>16 DEF DtorLock, Acquire, Goto
<1>17. ASSUME DtorStop  PROVE StopWakesAll'
  BY <1>17 DEF DtorStop, Release, Goto
<1>18. ASSUME DtorNotify  PROVE StopWakesAll'
  BY <1>18 DEF DtorNotify, Sleeping
<1>19. ASSUME DtorJoin  PROVE StopWakesAll'
  BY <1>19 DEF DtorJoin, Move, Goto
<1>20. CASE UNCHANGED vars
  BY <1>20 DEF vars
<1>21. QED
  BY <1>1, <1>2, <1>3, <1>4, <1>5, <1>6, <1>7, <1>8, <1>9, <1>10, <1>11, <1>12, <1>13, <1>14, <1>15, <1>16, <1>17, <1>18, <1>19, <1>20
  DEF Next, WorkerStep, EnqStep, MainStep, Terminated

-----------------------------------------------------------------------------
\* The constructor starts from a state of the inductive invariant: nothing is
\* enqueued and no worker has been launched.
LEMMA InitInv == Init => IInv
<1> SUFFICES ASSUME Init PROVE IInv
  OBVIOUS
<1> USE ThreadsAssumption DEF Init, Threads
<1>1. TypeOK
  <2>1. /\ \A w \in Workers : pc[w] = "unborn"
        /\ \A s \in Submitters : pc[s] = "idle"
        /\ pc[Main] = "ctor"
    OBVIOUS
  <2>2. pc \in [Threads -> WorkerPC \cup SubmitPC \cup MainPC]
    BY <2>1 DEF WorkerPC, SubmitPC, MainPC
  <2>3. task \in [Workers \cup Submitters -> Tasks \cup {NoTask}]
    OBVIOUS
  <2>4. \A th \in Workers \cup Submitters :
          task[th] # NoTask <=> pc[th] \in {"run", "enq_lock", "enq_push"}
    BY <2>1
  <2>5. future \in [Tasks -> {"none", "pending", "ready", "broken"}]
    OBVIOUS
  <2>6. tasks \in Seq(Tasks)
    OBVIOUS
  <2>7. stop = FALSE /\ stop \in BOOLEAN
    BY Zenon
  <2>8. queue_mutex = NoThread
    OBVIOUS
  <2>9. QED
    BY <2>1, <2>2, <2>3, <2>4, <2>5, <2>6, <2>7, <2>8 DEF TypeOK, WorkerPC, SubmitPC, MainPC
<1>2. OnePlace
  BY DEF OnePlace, IsInjective, Range
<1>3. MutexOwner
  BY DEF MutexOwner, Critical
<1>4. LeaveInv /\ NoLostWakeup /\ StopWakesAll
  BY DEF LeaveInv, NoLostWakeup, StopWakesAll
<1>5. QED
  BY <1>1, <1>2, <1>3, <1>4 DEF IInv

\* Every step of every thread preserves the inductive invariant.
LEMMA NextInv == IInv /\ [Next]_vars => IInv'
BY TypeStep, MutexStep, LeaveStep, OnePlaceStep, WakeupStep, StopStep DEF IInv

\* The inductive invariant holds in every reachable state of the pool.
THEOREM Invariant == SafeSpec => []IInv
BY InitInv, NextInv, PTL DEF SafeSpec

\* The variables of the pool keep their types.
THEOREM TypeCorrect == Spec => []TypeOK
BY Invariant, PTL DEF Spec, IInv

\* queue_mutex gives mutual exclusion (ThreadPool.h:46-53, 74-81, 90-92).
THEOREM MutualExclusion == Spec => []MutexOwner
BY Invariant, PTL DEF Spec, IInv

\* A task given to enqueue is in exactly one place until its future is ready:
\* none is lost, none is run twice (ThreadPool.h:51-55, 80).
THEOREM ExactlyOnePlace == Spec => []OnePlace
BY Invariant, PTL DEF Spec, IInv

\* A task in the queue is never left with all workers asleep and no
\* notification to come (ThreadPool.h:47-48, 82).
THEOREM WakeupNotLost == Spec => []NoLostWakeup
BY Invariant, PTL DEF Spec, IInv

\* After the destructor's notify_all no worker sleeps (ThreadPool.h:93-95).
THEOREM StopReachesAll == Spec => []StopWakesAll
BY Invariant, PTL DEF Spec, IInv

\* The destructor returns with every accepted task run (ThreadPool.h:49-50).
THEOREM Drained == Spec => []DrainedAtEnd
<1>1. IInv => DrainedAtEnd
  <2> SUFFICES ASSUME IInv, pc[Main] = "destroyed"
               PROVE  tasks = << >> /\ \A t \in Tasks : future[t] # "pending"
    BY DEF DrainedAtEnd
  <2>1. tasks = << >> /\ Range(tasks) = {}
    BY ThreadsAssumption DEF IInv, LeaveInv, Range
  <2>2. \A a \in Workers \cup Submitters : task[a] = NoTask
    BY DEF IInv, LeaveInv, TypeOK
  <2>3. QED
    BY <2>1, <2>2, ThreadsAssumption DEF IInv, OnePlace
<1>2. QED
  BY <1>1, Invariant, PTL DEF Spec

-----------------------------------------------------------------------------
(***************************************************************************)
(* The safety half of ThreadPool!ImplementsPool: what the threads, the     *)
(* mutex and the condition variable do is what TaskPool allows.  Five      *)
(* steps are steps of TaskPool (a push, a take, the end of a task, setting *)
(* stop, the return of the destructor); every other one leaves it where it *)
(* was.                                                                    *)
(***************************************************************************)

\* The refinement mapping of ThreadPool!Pool, with names.
Active == {task[w] : w \in Running}
Finished == {t \in Tasks : future[t] = "ready"}
Phase == IF pc[Main] = "destroyed" THEN "joined" ELSE IF stop THEN "closed" ELSE "open"

\* The visible steps of TaskPool under the mapping.
LEMMA Mapping ==
  /\ \A t : Pool!Submit(t) <=> /\ Phase = "open"
                              /\ t \notin Range(tasks) \cup Active \cup Finished
                              /\ tasks' = Append(tasks, t)
                              /\ UNCHANGED <<Active, Finished, Phase>>
  /\ Pool!Start <=> /\ tasks # << >>
                    /\ Cardinality(Active) < Cardinality(Workers)
                    /\ Active' = Active \cup {Head(tasks)}
                    /\ tasks' = Tail(tasks)
                    /\ UNCHANGED <<Finished, Phase>>
  /\ \A t : Pool!Finish(t) <=> /\ t \in Active
                              /\ Active' = Active \ {t}
                              /\ Finished' = Finished \cup {t}
                              /\ UNCHANGED <<tasks, Phase>>
<1>1. \A S : Pool!Cardinality(S) = Cardinality(S)
  BY DEF Pool!Cardinality, Cardinality
<1>2. \A q : Pool!Range(q) = Range(q)
  BY DEF Pool!Range, Range
<1>3. QED
  BY <1>1, <1>2, Zenon DEF Pool!Submit, Pool!Start, Pool!Finish, Pool!Known, Active, Finished, Phase

-----------------------------------------------------------------------------
\* Running tasks are fewer than the workers as long as one worker has none.
LEMMA WorkerFree ==
  ASSUME NEW w \in Workers, w \notin Running
  PROVE  Cardinality(Active) < Cardinality(Workers)
<1>1. /\ IsFiniteSet(Workers \ {w})
      /\ Cardinality(Workers \ {w}) = Cardinality(Workers) - 1
      /\ Cardinality(Workers) \in Nat
  BY ThreadsAssumption, FS_RemoveElement, FS_CardinalityType
<1>2. Running \subseteq Workers \ {w}
  BY DEF Running
<1>3. IsFiniteSet(Running) /\ Cardinality(Running) <= Cardinality(Workers \ {w})
  BY <1>1, <1>2, FS_Subset
<1>4. Cardinality(Active) <= Cardinality(Running) /\ IsFiniteSet(Active)
  <2> DEFINE f == [v \in Running |-> task[v]]
  <2>1. f \in Surjection(Running, Active)
    BY DEF Surjection, Active
  <2>2. QED
    BY <1>3, <2>1, FS_Surjection
<1>5. Cardinality(Active) \in Nat /\ Cardinality(Running) \in Nat
  BY <1>3, <1>4, FS_CardinalityType
<1>6. QED
  BY <1>1, <1>3, <1>4, <1>5

\* A step that moves no worker to or from a task, completes no future and
\* leaves the queue and the pool's phase alone is invisible to the clients.
LEMMA Unseen ==
  ASSUME tasks' = tasks, Running' = Running,
         \A w \in Running : task'[w] = task[w],
         Finished' = Finished, Phase' = Phase
  PROVE  UNCHANGED Pool!poolVars
<1>1. Active' = Active
  BY DEF Active
<1>2. QED
  BY <1>1 DEF Pool!poolVars, Active, Finished, Phase

-----------------------------------------------------------------------------
(* The steps that the clients can see. *)

\* A push submits a task that the pool did not know.
LEMMA PushSubmits ==
  ASSUME IInv, NEW s \in Submitters, EnqPush(s)
  PROVE  task[s] \in Tasks /\ Pool!Submit(task[s])
<1> USE ThreadsAssumption DEF IInv, TypeOK, Threads, WorkerPC, SubmitPC, MainPC
<1>1. /\ pc[s] = "enq_push" /\ ~stop
      /\ pc' = [pc EXCEPT ![s] = "enq_notify"]
      /\ tasks' = Append(tasks, task[s])
      /\ task' = [task EXCEPT ![s] = NoTask]
      /\ stop' = stop /\ future' = future
  BY DEF EnqPush, Release, Goto
<1>2. task[s] \in Tasks
  BY <1>1
<1>3. task[s] \notin Range(tasks) /\ future[task[s]] = "pending"
  BY <1>2 DEF OnePlace
<1>4. task[s] \notin Active
  BY <1>2 DEF OnePlace, Active, Running
<1>5. Running' = Running /\ \A v \in Running : task'[v] = task[v]
  BY <1>1 DEF Running
<1>6. Active' = Active
  BY <1>5 DEF Active
<1>7. Finished' = Finished /\ task[s] \notin Finished /\ Phase = "open" /\ Phase' = Phase
  BY <1>1, <1>3 DEF Finished, Phase
<1>8. QED
  BY <1>1, <1>2, <1>3, <1>4, <1>6, <1>7, Mapping

\* A take starts the oldest task, on a worker that had none.
LEMMA TakeStarts ==
  ASSUME IInv, NEW w \in Workers, WorkerTake(w)
  PROVE  Pool!Start
<1> USE ThreadsAssumption DEF IInv, TypeOK, Threads, WorkerPC, SubmitPC, MainPC
<1>1. /\ pc[w] = "check" /\ tasks # << >>
      /\ pc' = [pc EXCEPT ![w] = "run"]
      /\ tasks' = Tail(tasks)
      /\ task' = [task EXCEPT ![w] = Head(tasks)]
      /\ stop' = stop /\ future' = future
  BY DEF WorkerTake, Release, Goto
<1>2. w \notin Running /\ Cardinality(Active) < Cardinality(Workers)
  BY <1>1, WorkerFree DEF Running
<1>3. Running' = Running \cup {w}
  BY <1>1 DEF Running
<1>4. task'[w] = Head(tasks) /\ \A v \in Running : task'[v] = task[v]
  BY <1>1, <1>2 DEF Running
<1>5. Active' = Active \cup {Head(tasks)}
  BY <1>3, <1>4 DEF Active
<1>6. Finished' = Finished /\ Phase' = Phase
  BY <1>1 DEF Finished, Phase
<1>7. QED
  BY <1>1, <1>2, <1>5, <1>6, Mapping

\* A worker's run finishes the task in its hands, and no other.
LEMMA RunFinishes ==
  ASSUME IInv, NEW w \in Workers, WorkerRun(w), NEW t, t = task[w]
  PROVE  t \in Tasks /\ Pool!Finish(t)
<1> USE ThreadsAssumption DEF IInv, TypeOK, Threads, WorkerPC, SubmitPC, MainPC
<1>1. /\ pc[w] = "run"
      /\ pc' = [pc EXCEPT ![w] = "lock"]
      /\ tasks' = tasks /\ stop' = stop
      /\ task' = [task EXCEPT ![w] = NoTask]
      /\ future' = [future EXCEPT ![task[w]] = "ready"]
  BY DEF WorkerRun, Goto
<1>2. w \in Running /\ task[w] \in Tasks /\ task[w] \in Active
  BY <1>1 DEF Running, Active
<1>3. Running' = Running \ {w}
  BY <1>1 DEF Running
<1>4. \A v \in Running \ {w} : task'[v] = task[v] /\ task[v] # task[w]
  BY <1>1, <1>2 DEF Running, OnePlace
<1>5. Active' = Active \ {task[w]}
  <2>1. Active' = {task'[v] : v \in Running \ {w}}
    BY <1>3 DEF Active
  <2>2. ASSUME NEW x \in Active'  PROVE x \in Active \ {task[w]}
    <3>1. PICK v \in Running \ {w} : x = task'[v]
      BY <2>1, <2>2
    <3>2. x = task[v] /\ x # task[w]
      BY <1>4, <3>1
    <3>3. QED
      BY <3>1, <3>2 DEF Active
  <2>3. ASSUME NEW x \in Active, x # task[w]  PROVE x \in Active'
    <3>1. PICK v \in Running : x = task[v]
      BY DEF Active
    <3>2. v \in Running \ {w} /\ task'[v] = x
      BY <1>4, <2>3, <3>1
    <3>3. QED
      BY <2>1, <3>2
  <2>4. QED
    BY <2>2, <2>3
<1>6. Finished' = Finished \cup {task[w]} /\ Phase' = Phase
  BY <1>1, <1>2 DEF Finished, Phase
<1>7. QED
  BY <1>1, <1>2, <1>5, <1>6, Mapping

\* Setting stop closes the pool.
LEMMA StopCloses ==
  ASSUME IInv, DtorStop
  PROVE  Pool!Close
<1> USE ThreadsAssumption DEF IInv, TypeOK, Threads, WorkerPC, SubmitPC, MainPC
<1>1. /\ pc[Main] = "dtor_stop" /\ pc' = [pc EXCEPT ![Main] = "dtor_notify"]
      /\ stop' = TRUE /\ tasks' = tasks /\ task' = task /\ future' = future
  BY DEF DtorStop, Release, Goto
<1>2. Running' = Running
  BY <1>1 DEF Running
<1>3. Active' = Active /\ Finished' = Finished /\ Phase = "open" /\ Phase' = "closed"
  BY <1>1, <1>2 DEF Active, Finished, Phase
<1>4. QED
  BY <1>1, <1>3 DEF Pool!Close, Active, Finished, Phase

\* The destructor returns from an empty pool.
LEMMA ReturnJoins ==
  ASSUME IInv, DtorJoin
  PROVE  Pool!Join
<1> USE ThreadsAssumption DEF IInv, TypeOK, Threads, WorkerPC, SubmitPC, MainPC
<1>1. /\ pc[Main] = "dtor_join" /\ pc' = [pc EXCEPT ![Main] = "destroyed"]
      /\ \A w \in Workers : pc[w] = "exited"
      /\ stop' = stop /\ tasks' = tasks /\ task' = task /\ future' = future
  BY DEF DtorJoin, Move, Goto
<1>2. tasks = << >>
  BY <1>1 DEF LeaveInv
<1>3. Active = {} /\ Active' = {}
  BY <1>1 DEF Active, Running
<1>4. Finished' = Finished /\ Phase = "closed" /\ Phase' = "joined"
  BY <1>1 DEF Finished, Phase
<1>5. QED
  BY <1>1, <1>2, <1>3, <1>4 DEF Pool!Join, Active, Finished, Phase

-----------------------------------------------------------------------------
\* Every step of the pool is a step of TaskPool or invisible to its clients.
LEMMA StepRefines == IInv /\ [Next]_vars => [Pool!Next]_(Pool!poolVars)
<1> SUFFICES ASSUME IInv, [Next]_vars PROVE [Pool!Next]_(Pool!poolVars)
  OBVIOUS
<1> DEFINE Quiet == /\ tasks' = tasks /\ Running' = Running
                    /\ \A w \in Running : task'[w] = task[w]
                    /\ Finished' = Finished /\ Phase' = Phase
<1> HIDE DEF Quiet
<1>1. ASSUME NEW w \in Workers, SpawnWorker(w)  PROVE Quiet
  BY <1>1, ThreadsAssumption
  DEF SpawnWorker, Move, Goto, Quiet, Running, Finished, Phase,
      IInv, TypeOK, OnePlace, Threads, WorkerPC, SubmitPC, MainPC
<1>2. ASSUME NEW w \in Workers, WorkerLock(w)  PROVE Quiet
  BY <1>2, ThreadsAssumption
  DEF WorkerLock, Acquire, Goto, Quiet, Running, Finished, Phase,
      IInv, TypeOK, OnePlace, Threads, WorkerPC, SubmitPC, MainPC
<1>3. ASSUME NEW w \in Workers, WorkerPredFalse(w)  PROVE Quiet
  BY <1>3, ThreadsAssumption
  DEF WorkerPredFalse, Move, Goto, Quiet, Running, Finished, Phase,
      IInv, TypeOK, OnePlace, Threads, WorkerPC, SubmitPC, MainPC
<1>4. ASSUME NEW w \in Workers, WorkerBlock(w)  PROVE Quiet
  BY <1>4, ThreadsAssumption
  DEF WorkerBlock, Release, Goto, Quiet, Running, Finished, Phase,
      IInv, TypeOK, OnePlace, Threads, WorkerPC, SubmitPC, MainPC
<1>5. ASSUME NEW w \in Workers, SpuriousWake(w)  PROVE Quiet
  BY <1>5, ThreadsAssumption
  DEF SpuriousWake, Move, Goto, Quiet, Running, Finished, Phase,
      IInv, TypeOK, OnePlace, Threads, WorkerPC, SubmitPC, MainPC
<1>6. ASSUME NEW w \in Workers, WorkerExit(w)  PROVE Quiet
  BY <1>6, ThreadsAssumption
  DEF WorkerExit, Release, Goto, Quiet, Running, Finished, Phase,
      IInv, TypeOK, OnePlace, Threads, WorkerPC, SubmitPC, MainPC
<1>7. ASSUME NEW s \in Submitters, EnqLock(s)  PROVE Quiet
  BY <1>7, ThreadsAssumption
  DEF EnqLock, Acquire, Goto, Quiet, Running, Finished, Phase,
      IInv, TypeOK, OnePlace, Threads, WorkerPC, SubmitPC, MainPC
<1>8. ASSUME NEW s \in Submitters, EnqThrow(s)  PROVE Quiet
  BY <1>8, ThreadsAssumption
  DEF EnqThrow, Release, Goto, Quiet, Running, Finished, Phase,
      IInv, TypeOK, OnePlace, Threads, WorkerPC, SubmitPC, MainPC
<1>9. ASSUME NEW s \in Submitters, EnqNotify(s)  PROVE Quiet
  BY <1>9, ThreadsAssumption
  DEF EnqNotify, NotifyOne, Sleeping, Quiet, Running, Finished, Phase,
      IInv, TypeOK, OnePlace, Threads, WorkerPC, SubmitPC, MainPC
<1>10. ASSUME NEW s \in Submitters, NEW t \in Tasks, EnqCall(s, t)  PROVE Quiet
  BY <1>10, ThreadsAssumption
  DEF EnqCall, Goto, Quiet, Running, Finished, Phase,
      IInv, TypeOK, OnePlace, Threads, WorkerPC, SubmitPC, MainPC
<1>11. ASSUME CtorReturn  PROVE Quiet
  BY <1>11, ThreadsAssumption
  DEF CtorReturn, Move, Goto, Quiet, Running, Finished, Phase,
      IInv, TypeOK, OnePlace, Threads, WorkerPC, SubmitPC, MainPC
<1>12. ASSUME DtorCall  PROVE Quiet
  BY <1>12, ThreadsAssumption
  DEF DtorCall, Move, Goto, Quiet, Running, Finished, Phase,
      IInv, TypeOK, OnePlace, Threads, WorkerPC, SubmitPC, MainPC
<1>13. ASSUME DtorLock  PROVE Quiet
  BY <1>13, ThreadsAssumption
  DEF DtorLock, Acquire, Goto, Quiet, Running, Finished, Phase,
      IInv, TypeOK, OnePlace, Threads, WorkerPC, SubmitPC, MainPC
<1>14. ASSUME DtorNotify  PROVE Quiet
  BY <1>14, ThreadsAssumption
  DEF DtorNotify, Sleeping, Quiet, Running, Finished, Phase,
      IInv, TypeOK, OnePlace, Threads, WorkerPC, SubmitPC, MainPC
<1>15. ASSUME UNCHANGED vars  PROVE Quiet
  BY <1>15 DEF vars, Quiet, Running, Finished, Phase
<1>16. Quiet => UNCHANGED Pool!poolVars
  BY Unseen DEF Quiet
<1>17. ASSUME NEW s \in Submitters, EnqPush(s)  PROVE Pool!Next
  BY <1>17, PushSubmits DEF Pool!Next
<1>18. ASSUME NEW w \in Workers, WorkerTake(w)  PROVE Pool!Next
  BY <1>18, TakeStarts DEF Pool!Next
<1>19. ASSUME NEW w \in Workers, WorkerRun(w)  PROVE Pool!Next
  <2>1. PICK t : t = task[w]
    OBVIOUS
  <2>2. t \in Tasks /\ Pool!Finish(t)
    BY <1>19, <2>1, RunFinishes
  <2>3. QED
    BY <2>2 DEF Pool!Next
<1>20. DtorStop => Pool!Next
  BY StopCloses DEF Pool!Next
<1>21. DtorJoin => Pool!Next
  BY ReturnJoins DEF Pool!Next
<1>22. QED
  BY <1>1, <1>2, <1>3, <1>4, <1>5, <1>6, <1>7, <1>8, <1>9, <1>10, <1>11,
     <1>12, <1>13, <1>14, <1>15, <1>16, <1>17, <1>18, <1>19, <1>20, <1>21
  DEF Next, WorkerStep, EnqStep, MainStep, Terminated, Quiet

\* The constructor starts from TaskPool's initial state.
LEMMA InitRefines == Init => Pool!Init
<1> SUFFICES ASSUME Init PROVE Pool!Init
  OBVIOUS
<1>1. Running = {}
  BY ThreadsAssumption DEF Init, Running, Threads
<1>2. tasks = << >> /\ Active = {} /\ Finished = {} /\ Phase = "open"
  BY <1>1, ThreadsAssumption DEF Init, Active, Finished, Phase, Threads
<1>3. QED
  BY <1>2 DEF Pool!Init, Active, Finished, Phase

\* Whatever the threads do, the clients see a TaskPool: tasks start in the
\* order of submission, no more at a time than there are workers, each runs
\* once, and the destructor returns when all have (ThreadPool.h:37-97).
THEOREM Refinement == SafeSpec => Pool!SafeSpec
BY InitRefines, StepRefines, Invariant, PTL DEF SafeSpec, Pool!SafeSpec
=============================================================================
