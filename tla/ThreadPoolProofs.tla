-------------------------- MODULE ThreadPoolProofs --------------------------
(***************************************************************************)
(* Proofs about ThreadPool, for any number of threads, tasks, timers and   *)
(* restarts.                                                               *)
(***************************************************************************)
EXTENDS ThreadPool, TLAPS, FiniteSetTheorems, SequenceTheorems

USE TaskAssumption DEF TaskAssumption
USE DEF Locations, worker, lock, pool, caller, history

-----------------------------------------------------------------------------
(* The queue after push and pop.                                           *)

\* Adding a task at the end adds it to the set of queued tasks, and a queue
\* without copies stays so if the task is new.
LEMMA QueueAppend ==
    ASSUME NEW q \in Seq(Task), NEW k \in Task
    PROVE  /\ Append(q, k) \in Seq(Task)
           /\ {Append(q, k)[i] : i \in DOMAIN Append(q, k)} =
                {q[i] : i \in DOMAIN q} \cup {k}
           /\ (\A i, j \in DOMAIN q : q[i] = q[j] => i = j)
              /\ k \notin {q[i] : i \in DOMAIN q} =>
                \A i, j \in DOMAIN Append(q, k) :
                    Append(q, k)[i] = Append(q, k)[j] => i = j
<1>1. /\ Append(q, k) \in Seq(Task)
      /\ DOMAIN Append(q, k) = DOMAIN q \cup {Len(q) + 1}
      /\ Len(q) + 1 \notin DOMAIN q
      /\ \A i \in DOMAIN q : Append(q, k)[i] = q[i]
      /\ Append(q, k)[Len(q) + 1] = k
  OBVIOUS
<1>2. QED
  BY <1>1

\* Taking the head of a queue without copies removes it from the set.
LEMMA QueueTail ==
    ASSUME NEW q \in Seq(Task), q # <<>>
    PROVE  /\ Tail(q) \in Seq(Task)
           /\ Head(q) \in {q[i] : i \in DOMAIN q}
           /\ {Tail(q)[i] : i \in DOMAIN Tail(q)} \subseteq {q[i] : i \in DOMAIN q}
           /\ {q[i] : i \in DOMAIN q} =
                {Tail(q)[i] : i \in DOMAIN Tail(q)} \cup {Head(q)}
           /\ (\A i, j \in DOMAIN q : q[i] = q[j] => i = j) =>
                /\ \A i, j \in DOMAIN Tail(q) : Tail(q)[i] = Tail(q)[j] => i = j
                /\ Head(q) \notin {Tail(q)[i] : i \in DOMAIN Tail(q)}
<1> DEFINE r == Tail(q)
<1>1. Len(q) \in Nat \ {0} /\ DOMAIN q = 1 .. Len(q) /\ Head(q) = q[1]
  OBVIOUS
<1>2. /\ r \in Seq(Task) /\ DOMAIN r = 1 .. Len(r) /\ Len(r) = Len(q) - 1
      /\ \A i \in 1 .. Len(r) : r[i] = q[i + 1]
  BY HeadTailProperties
<1> HIDE DEF r
<1>3. \A i \in DOMAIN q : i = 1 \/ (i - 1 \in DOMAIN r /\ q[i] = r[i - 1])
  <2> SUFFICES ASSUME NEW i \in 1 .. Len(q), i # 1
               PROVE  i - 1 \in 1 .. Len(r) /\ q[i] = r[i - 1]
    BY <1>1, <1>2
  <2>1. i - 1 \in 1 .. Len(r) /\ (i - 1) + 1 = i
    BY <1>1, <1>2
  <2>2. QED
    BY <2>1, <1>2
<1>4. \A i \in DOMAIN r : i + 1 \in DOMAIN q /\ r[i] = q[i + 1] /\ i + 1 # 1
  BY <1>1, <1>2
<1>5. 1 \in DOMAIN q /\ \A i, j \in DOMAIN r : i + 1 = j + 1 => i = j
  BY <1>1, <1>2
<1>6. {q[i] : i \in DOMAIN q} \subseteq {r[i] : i \in DOMAIN r} \cup {Head(q)}
  BY <1>1, <1>3
<1>7. {r[i] : i \in DOMAIN r} \cup {Head(q)} \subseteq {q[i] : i \in DOMAIN q}
  BY <1>1, <1>4, <1>5
<1>8. Head(q) \in {q[i] : i \in DOMAIN q}
  BY <1>1
<1>9. ASSUME \A i, j \in DOMAIN q : q[i] = q[j] => i = j
      PROVE  /\ \A i, j \in DOMAIN r : r[i] = r[j] => i = j
             /\ Head(q) \notin {r[i] : i \in DOMAIN r}
  BY <1>1, <1>4, <1>5, <1>9
<1>10. QED
  BY <1>2, <1>6, <1>7, <1>8, <1>9 DEF r

-----------------------------------------------------------------------------
(* Types, and who holds a task.                                            *)

\* The types and the rule that exactly the threads with a task in hand hold
\* one survive every step of the pool.
LEMMA TypeStep ==
    ASSUME TypeOK, JobInv, [Next]_vars
    PROVE  TypeOK' /\ JobInv'
<1> USE DEF TypeOK, JobInv, At
<1>1. ASSUME NEW t \in Thread, Lock(t) PROVE TypeOK' /\ JobInv'
  BY <1>1 DEF Lock, Goto
<1>2. ASSUME NEW t \in Thread, Predicate(t) PROVE TypeOK' /\ JobInv'
  BY <1>2 DEF Predicate, Goto
<1>3. ASSUME NEW t \in Thread, Block(t) PROVE TypeOK' /\ JobInv'
  BY <1>3 DEF Block, Goto
<1>4. ASSUME NEW t \in Thread, WakeSpuriously(t) PROVE TypeOK' /\ JobInv'
  BY <1>4 DEF WakeSpuriously, Goto
<1>5. ASSUME NEW t \in Thread, Quit(t) PROVE TypeOK' /\ JobInv'
  BY <1>5 DEF Quit, Goto
<1>6. ASSUME NEW t \in Thread, Take(t) PROVE TypeOK' /\ JobInv'
  BY <1>6, QueueTail DEF Take, Goto
<1>7. ASSUME NEW t \in Thread, TakeFromEmpty(t) PROVE TypeOK' /\ JobInv'
  BY <1>7 DEF TakeFromEmpty, Goto
<1>8. ASSUME NEW t \in Thread, LoadCount(t) PROVE TypeOK' /\ JobInv'
  BY <1>8 DEF LoadCount, Goto
<1>9. ASSUME NEW t \in Thread, StoreCount(t) PROVE TypeOK' /\ JobInv'
  BY <1>9 DEF StoreCount, Goto
<1>10. ASSUME NEW t \in Thread, Finish(t) PROVE TypeOK' /\ JobInv'
  BY <1>10 DEF Finish, Goto
<1>11. ASSUME NEW k \in Task, AddFromOutside(k) PROVE TypeOK' /\ JobInv'
  BY <1>11, QueueAppend DEF AddFromOutside, Add, NotifyOne
<1>12. ASSUME NEW t \in Thread, NEW k \in Task, AddFromTask(t, k) PROVE TypeOK' /\ JobInv'
  BY <1>12, QueueAppend DEF AddFromTask, Add, NotifyOne
<1>13. ASSUME NEW k \in Timer, Cancel(k) PROVE TypeOK' /\ JobInv'
  BY <1>13 DEF Cancel
<1>14. CASE StartReset
  BY <1>14 DEF StartReset
<1>15. CASE StartRun
  BY <1>15 DEF StartRun
<1>16. CASE StartThreads
  BY <1>16 DEF StartThreads
<1>17. CASE StopStore
  BY <1>17 DEF StopStore
<1>18. CASE StopNotify
  BY <1>18 DEF StopNotify
<1>19. CASE StopPoll
  BY <1>19 DEF StopPoll
<1>20. CASE StopJoin
  BY <1>20 DEF StopJoin
<1>21. CASE StopDetach
  BY <1>21 DEF StopDetach
<1>22. CASE StopJoined
  BY <1>22 DEF StopJoined
<1>23. CASE UNCHANGED vars
  BY <1>23 DEF vars
<1>24. QED
  BY <1>1, <1>2, <1>3, <1>4, <1>5, <1>6, <1>7, <1>8, <1>9, <1>10, <1>11, <1>12,
     <1>13, <1>14, <1>15, <1>16, <1>17, <1>18, <1>19, <1>20, <1>21, <1>22, <1>23
  DEF Next, Work, Call
\* Every variable keeps to its set of values.
THEOREM TypeCorrect == Spec => [](TypeOK /\ JobInv)
<1>1. Init => running \in BOOLEAN /\ gaveUp \in BOOLEAN
  BY Zenon DEF Init
<1>2. Init => TypeOK /\ JobInv
  BY <1>1 DEF Init, TypeOK, JobInv
<1>3. QED
  BY <1>2, TypeStep, PTL DEF Spec

-----------------------------------------------------------------------------
(* The mutex.                                                              *)

\* mutex_ is held by the one thread that is between lock and unlock, or by
\* the caller of Shutdown or Reset, after every step.
LEMMA MutexStep ==
    ASSUME TypeOK, MutexInv, [Next]_vars
    PROVE  MutexInv'
<1> USE DEF TypeOK, MutexInv, Critical, At
<1>1. ASSUME NEW t \in Thread, Lock(t) PROVE MutexInv'
  BY <1>1 DEF Lock, Goto
<1>2. ASSUME NEW t \in Thread, Predicate(t) PROVE MutexInv'
  BY <1>2 DEF Predicate, Goto
<1>3. ASSUME NEW t \in Thread, Block(t) PROVE MutexInv'
  BY <1>3 DEF Block, Goto
<1>4. ASSUME NEW t \in Thread, WakeSpuriously(t) PROVE MutexInv'
  BY <1>4 DEF WakeSpuriously, Goto
<1>5. ASSUME NEW t \in Thread, Quit(t) PROVE MutexInv'
  BY <1>5 DEF Quit, Goto
<1>6. ASSUME NEW t \in Thread, Take(t) PROVE MutexInv'
  BY <1>6 DEF Take, Goto
<1>7. ASSUME NEW t \in Thread, TakeFromEmpty(t) PROVE MutexInv'
  BY <1>7 DEF TakeFromEmpty, Goto
<1>8. ASSUME NEW t \in Thread, LoadCount(t) PROVE MutexInv'
  BY <1>8 DEF LoadCount, Goto
<1>9. ASSUME NEW t \in Thread, StoreCount(t) PROVE MutexInv'
  BY <1>9 DEF StoreCount, Goto
<1>10. ASSUME NEW t \in Thread, Finish(t) PROVE MutexInv'
  BY <1>10 DEF Finish, Goto
<1>11. ASSUME NEW k \in Task, AddFromOutside(k) PROVE MutexInv'
  BY <1>11 DEF AddFromOutside, Add, NotifyOne
<1>12. ASSUME NEW t \in Thread, NEW k \in Task, AddFromTask(t, k) PROVE MutexInv'
  BY <1>12 DEF AddFromTask, Add, NotifyOne
<1>13. ASSUME NEW k \in Timer, Cancel(k) PROVE MutexInv'
  BY <1>13 DEF Cancel
<1>14. CASE StartReset
  BY <1>14 DEF StartReset
<1>15. CASE StartRun
  BY <1>15 DEF StartRun
<1>16. CASE StartThreads
  BY <1>16 DEF StartThreads
<1>17. CASE StopStore
  BY <1>17 DEF StopStore
<1>18. CASE StopNotify
  BY <1>18 DEF StopNotify
<1>19. CASE StopPoll
  BY <1>19 DEF StopPoll
<1>20. CASE StopJoin
  BY <1>20 DEF StopJoin
<1>21. CASE StopDetach
  BY <1>21 DEF StopDetach
<1>22. CASE StopJoined
  BY <1>22 DEF StopJoined
<1>23. CASE UNCHANGED vars
  BY <1>23 DEF vars
<1>24. QED
  BY <1>1, <1>2, <1>3, <1>4, <1>5, <1>6, <1>7, <1>8, <1>9, <1>10, <1>11, <1>12,
     <1>13, <1>14, <1>15, <1>16, <1>17, <1>18, <1>19, <1>20, <1>21, <1>22, <1>23
  DEF Next, Work, Call
\* At most one thread is inside the critical section of the pool, and it is
\* the one that holds the mutex.
THEOREM MutexCorrect == Spec => []MutexInv
<1>1. Init => MutexInv
  BY DEF Init, MutexInv, Critical
<1>2. QED
  BY <1>1, MutexStep, TypeCorrect, PTL DEF Spec

-----------------------------------------------------------------------------
(* Where the tasks are.                                                    *)

\* A step that moves no task and submits none leaves every task where it is.
LEMMA PlaceSame ==
    ASSUME PlaceInv, UNCHANGED <<job, tasks, done>>
    PROVE  PlaceInv'
BY DEF PlaceInv, Queued, Held

\* What Add, the pop of a worker and the return of a task move.
LEMMA AddMoves ==
    ASSUME TypeOK, NEW k \in Task, Add(k)
    PROVE  /\ k \notin Queued \cup Held \cup done
           /\ Queued' = Queued \cup {k} /\ Held' = Held /\ done' = done
<1>1. job' = job /\ done' = done /\ tasks' = Append(tasks, k)
  BY DEF Add
<1>2. Held' = Held /\ Queued' = Queued \cup {k}
  BY <1>1, QueueAppend DEF Held, Queued, TypeOK
<1>3. QED
  BY <1>1, <1>2 DEF Add, Submitted

\* pop() moves the task at the front from the queue to the thread, and to no
\* second place.
LEMMA TakeMoves ==
    ASSUME TypeOK, JobInv, PlaceInv, NEW t \in Thread, Take(t)
    PROVE  /\ Head(tasks) \in Queued \ Held
           /\ job[t] = None /\ job' = [job EXCEPT ![t] = Head(tasks)]
           /\ Queued' = Queued \ {Head(tasks)}
           /\ Held' = Held \cup {Head(tasks)} /\ done' = done
<1>1. tasks \in Seq(Task) /\ tasks # <<>> /\ tasks' = Tail(tasks)
  BY DEF Take, TypeOK
<1>2. /\ Head(tasks) \in Queued
      /\ Queued = {Tail(tasks)[i] : i \in DOMAIN Tail(tasks)} \cup {Head(tasks)}
  BY <1>1, QueueTail DEF Queued
<1>3. Head(tasks) \notin {Tail(tasks)[i] : i \in DOMAIN Tail(tasks)}
  BY <1>1, QueueTail DEF PlaceInv
<1>4. Queued' = {Tail(tasks)[i] : i \in DOMAIN Tail(tasks)}
  BY <1>1 DEF Queued
<1>5. /\ job[t] = None /\ job' = [job EXCEPT ![t] = Head(tasks)]
      /\ done' = done /\ Head(tasks) # None
  BY <1>2 DEF Take, Goto, JobInv, TypeOK, Queued
<1>6. Held' = Held \cup {Head(tasks)} /\ Head(tasks) \notin Held
  BY <1>2, <1>5 DEF Held, TypeOK, PlaceInv
<1>7. QED
  BY <1>2, <1>3, <1>4, <1>5, <1>6

\* When a task returns it moves from its thread to the tasks that are done.
LEMMA FinishMoves ==
    ASSUME TypeOK, JobInv, PlaceInv, NEW t \in Thread, Finish(t)
    PROVE  /\ job[t] \in Held /\ job' = [job EXCEPT ![t] = None]
           /\ Held' = Held \ {job[t]} /\ Queued' = Queued /\ tasks' = tasks
           /\ done' = done \cup {job[t]}
<1>1. /\ job[t] # None
      /\ job' = [job EXCEPT ![t] = None]
      /\ done' = done \cup {job[t]}
      /\ tasks' = tasks
  BY DEF Finish, Goto, JobInv
<1>2. Held' = Held \ {job[t]} /\ job[t] \in Held
  BY <1>1 DEF Held, TypeOK, PlaceInv
<1>3. Queued' = Queued
  BY <1>1 DEF Queued
<1>4. QED
  BY <1>1, <1>2, <1>3

\* push() puts a task that has not been submitted before into the queue, and
\* nowhere else.
LEMMA PlaceAdd ==
    ASSUME TypeOK, PlaceInv, NEW k \in Task, Add(k)
    PROVE  PlaceInv'
<1>1. job' = job
  BY DEF Add
<1>2. (\A i, j \in DOMAIN tasks : tasks[i] = tasks[j] => i = j)'
  BY AddMoves, QueueAppend DEF Add, PlaceInv, Queued, TypeOK
<1>3. QED
  BY <1>1, <1>2, AddMoves DEF PlaceInv

\* After every step each submitted task is in exactly one place: the queue,
\* a thread, or among those done.
LEMMA PlaceStep ==
    ASSUME TypeOK, JobInv, PlaceInv, [Next]_vars
    PROVE  PlaceInv'
<1> USE PlaceSame
<1>1. ASSUME NEW t \in Thread, Lock(t) PROVE PlaceInv'
  BY <1>1 DEF Lock, Goto
<1>2. ASSUME NEW t \in Thread, Predicate(t) PROVE PlaceInv'
  BY <1>2 DEF Predicate, Goto
<1>3. ASSUME NEW t \in Thread, Block(t) PROVE PlaceInv'
  BY <1>3 DEF Block, Goto
<1>4. ASSUME NEW t \in Thread, WakeSpuriously(t) PROVE PlaceInv'
  BY <1>4 DEF WakeSpuriously, Goto
<1>5. ASSUME NEW t \in Thread, Quit(t) PROVE PlaceInv'
  BY <1>5 DEF Quit, Goto
<1>6. ASSUME NEW t \in Thread, Take(t) PROVE PlaceInv'
  <2>1. \A s, u \in Thread : job'[s] = job'[u] /\ job'[s] # None => s = u
    BY <1>6, TakeMoves DEF Held, TypeOK, PlaceInv
  <2>2. (\A i, j \in DOMAIN tasks : tasks[i] = tasks[j] => i = j)'
    <3>1. tasks \in Seq(Task) /\ tasks # <<>> /\ tasks' = Tail(tasks)
      BY <1>6 DEF Take, TypeOK
    <3>2. QED
      BY <3>1, QueueTail DEF PlaceInv
  <2>3. QED
    BY <1>6, <2>1, <2>2, TakeMoves DEF PlaceInv
<1>7. ASSUME NEW t \in Thread, TakeFromEmpty(t) PROVE PlaceInv'
  BY <1>7 DEF TakeFromEmpty, Goto
<1>8. ASSUME NEW t \in Thread, LoadCount(t) PROVE PlaceInv'
  BY <1>8 DEF LoadCount, Goto
<1>9. ASSUME NEW t \in Thread, StoreCount(t) PROVE PlaceInv'
  BY <1>9 DEF StoreCount, Goto
<1>10. ASSUME NEW t \in Thread, Finish(t) PROVE PlaceInv'
  <2>1. \A s, u \in Thread : job'[s] = job'[u] /\ job'[s] # None => s = u
    BY <1>10, FinishMoves DEF TypeOK, PlaceInv
  <2>2. QED
    BY <1>10, <2>1, FinishMoves DEF PlaceInv
<1>11. ASSUME NEW k \in Task, AddFromOutside(k) PROVE PlaceInv'
  BY <1>11, PlaceAdd DEF AddFromOutside, Add, NotifyOne
<1>12. ASSUME NEW t \in Thread, NEW k \in Task, AddFromTask(t, k) PROVE PlaceInv'
  BY <1>12, PlaceAdd DEF AddFromTask, Add, NotifyOne
<1>13. ASSUME NEW k \in Timer, Cancel(k) PROVE PlaceInv'
  BY <1>13 DEF Cancel
<1>14. CASE StartReset
  BY <1>14 DEF StartReset
<1>15. CASE StartRun
  BY <1>15 DEF StartRun
<1>16. CASE StartThreads
  BY <1>16 DEF StartThreads
<1>17. CASE StopStore
  BY <1>17 DEF StopStore
<1>18. CASE StopNotify
  BY <1>18 DEF StopNotify
<1>19. CASE StopPoll
  BY <1>19 DEF StopPoll
<1>20. CASE StopJoin
  BY <1>20 DEF StopJoin
<1>21. CASE StopDetach
  BY <1>21 DEF StopDetach
<1>22. CASE StopJoined
  BY <1>22 DEF StopJoined
<1>23. CASE UNCHANGED vars
  BY <1>23 DEF vars
<1>24. QED
  BY <1>1, <1>2, <1>3, <1>4, <1>5, <1>6, <1>7, <1>8, <1>9, <1>10, <1>11, <1>12,
     <1>13, <1>14, <1>15, <1>16, <1>17, <1>18, <1>19, <1>20, <1>21, <1>22, <1>23
  DEF Next, Work, Call
\* Each submitted task is in one place: queued once, held by one thread, or
\* done.
THEOREM PlaceCorrect == Spec => []PlaceInv
<1>1. Init => PlaceInv
  BY DEF Init, PlaceInv, Queued, Held
<1>2. QED
  BY <1>1, PlaceStep, TypeCorrect, PTL DEF Spec

-----------------------------------------------------------------------------
(* The lost wakeup.                                                        *)

\* After every step, a thread that sleeps or is about to although the pool
\* has stopped missed the notify_all of Shutdown.
LEMMA SleepStep ==
    ASSUME TypeOK, SleepInv, [Next]_vars
    PROVE  SleepInv'
<1> USE DEF TypeOK, SleepInv, At
<1>1. ASSUME NEW t \in Thread, Lock(t) PROVE SleepInv'
  BY <1>1 DEF Lock, Goto
<1>2. ASSUME NEW t \in Thread, Predicate(t) PROVE SleepInv'
  BY <1>2 DEF Predicate, Goto
<1>3. ASSUME NEW t \in Thread, Block(t) PROVE SleepInv'
  BY <1>3 DEF Block, Goto
<1>4. ASSUME NEW t \in Thread, WakeSpuriously(t) PROVE SleepInv'
  BY <1>4 DEF WakeSpuriously, Goto
<1>5. ASSUME NEW t \in Thread, Quit(t) PROVE SleepInv'
  BY <1>5 DEF Quit, Goto
<1>6. ASSUME NEW t \in Thread, Take(t) PROVE SleepInv'
  BY <1>6 DEF Take, Goto
<1>7. ASSUME NEW t \in Thread, TakeFromEmpty(t) PROVE SleepInv'
  BY <1>7 DEF TakeFromEmpty, Goto
<1>8. ASSUME NEW t \in Thread, LoadCount(t) PROVE SleepInv'
  BY <1>8 DEF LoadCount, Goto
<1>9. ASSUME NEW t \in Thread, StoreCount(t) PROVE SleepInv'
  BY <1>9 DEF StoreCount, Goto
<1>10. ASSUME NEW t \in Thread, Finish(t) PROVE SleepInv'
  BY <1>10 DEF Finish, Goto
<1>11. ASSUME NEW k \in Task, AddFromOutside(k) PROVE SleepInv'
  BY <1>11 DEF AddFromOutside, Add, NotifyOne
<1>12. ASSUME NEW t \in Thread, NEW k \in Task, AddFromTask(t, k) PROVE SleepInv'
  BY <1>12 DEF AddFromTask, Add, NotifyOne
<1>13. ASSUME NEW k \in Timer, Cancel(k) PROVE SleepInv'
  BY <1>13 DEF Cancel
<1>14. CASE StartReset
  BY <1>14 DEF StartReset
<1>15. CASE StartRun
  BY <1>15 DEF StartRun
<1>16. CASE StartThreads
  BY <1>16 DEF StartThreads
<1>17. CASE StopStore
  BY <1>17 DEF StopStore
<1>18. CASE StopNotify
  BY <1>18 DEF StopNotify
<1>19. CASE StopPoll
  BY <1>19 DEF StopPoll
<1>20. CASE StopJoin
  BY <1>20 DEF StopJoin
<1>21. CASE StopDetach
  BY <1>21 DEF StopDetach
<1>22. CASE StopJoined
  BY <1>22 DEF StopJoined
<1>23. CASE UNCHANGED vars
  BY <1>23 DEF vars
<1>24. QED
  BY <1>1, <1>2, <1>3, <1>4, <1>5, <1>6, <1>7, <1>8, <1>9, <1>10, <1>11, <1>12,
     <1>13, <1>14, <1>15, <1>16, <1>17, <1>18, <1>19, <1>20, <1>21, <1>22, <1>23
  DEF Next, Work, Call
\* While the pool is stopped, whoever sleeps was between the predicate and the
\* wait when notify_all came, and missed it.
THEOREM OnlyMissedSleep == Spec => []SleepersMissedNotify
<1>1. Init => SleepInv
  BY DEF Init, SleepInv, At
<1>2. SleepInv => SleepersMissedNotify
  BY DEF SleepInv, SleepersMissedNotify
<1>3. QED
  BY <1>1, <1>2, SleepStep, TypeCorrect, PTL DEF Spec

-----------------------------------------------------------------------------
(* Start and Shutdown.                                                     *)

\* What the caller of Start or Shutdown knows at each point of the call, and
\* what the flag and the thread vector then hold, survives every step.
LEMMA CallStep ==
    ASSUME TypeOK, CallInv, [Next]_vars
    PROVE  CallInv'
<1> USE DEF TypeOK, CallInv, At
<1>1. ASSUME NEW t \in Thread, Lock(t) PROVE CallInv'
  BY <1>1 DEF Lock, Goto
<1>2. ASSUME NEW t \in Thread, Predicate(t) PROVE CallInv'
  BY <1>2 DEF Predicate, Goto
<1>3. ASSUME NEW t \in Thread, Block(t) PROVE CallInv'
  BY <1>3 DEF Block, Goto
<1>4. ASSUME NEW t \in Thread, WakeSpuriously(t) PROVE CallInv'
  BY <1>4 DEF WakeSpuriously, Goto
<1>5. ASSUME NEW t \in Thread, Quit(t) PROVE CallInv'
  BY <1>5 DEF Quit, Goto
<1>6. ASSUME NEW t \in Thread, Take(t) PROVE CallInv'
  BY <1>6 DEF Take, Goto
<1>7. ASSUME NEW t \in Thread, TakeFromEmpty(t) PROVE CallInv'
  BY <1>7 DEF TakeFromEmpty, Goto
<1>8. ASSUME NEW t \in Thread, LoadCount(t) PROVE CallInv'
  BY <1>8 DEF LoadCount, Goto
<1>9. ASSUME NEW t \in Thread, StoreCount(t) PROVE CallInv'
  BY <1>9 DEF StoreCount, Goto
<1>10. ASSUME NEW t \in Thread, Finish(t) PROVE CallInv'
  BY <1>10 DEF Finish, Goto
<1>11. ASSUME NEW k \in Task, AddFromOutside(k) PROVE CallInv'
  BY <1>11 DEF AddFromOutside, Add, NotifyOne
<1>12. ASSUME NEW t \in Thread, NEW k \in Task, AddFromTask(t, k) PROVE CallInv'
  BY <1>12 DEF AddFromTask, Add, NotifyOne
<1>13. ASSUME NEW k \in Timer, Cancel(k) PROVE CallInv'
  BY <1>13 DEF Cancel
<1>14. CASE StartReset
  BY <1>14, FS_EmptySet DEF StartReset
<1>15. CASE StartRun
  BY <1>15 DEF StartRun
<1>16. CASE StartThreads
  <2>1. PICK T \in SUBSET At("unborn") :
          /\ IsFiniteSet(T) /\ Cardinality(T) = PoolSize
          /\ threads' = T
          /\ pc' = [t \in Thread |-> IF t \in T THEN "lock" ELSE pc[t]]
    BY <1>16 DEF StartThreads
  <2>2. T # {}
    BY <2>1, FS_EmptySet, PoolSizeAssumption DEF PoolSizeAssumption
  <2>3. threads' \cap At("unborn")' = {}
    BY <2>1
  <2>4. ctl' = "idle" /\ result' = result /\ running' = running
    BY <1>16 DEF StartThreads
  <2>5. ctl = "spawning"
    BY <1>16 DEF StartThreads
  <2>6. QED
    BY <2>1, <2>2, <2>3, <2>4, <2>5
<1>17. CASE StopStore
  BY <1>17 DEF StopStore
<1>18. CASE StopNotify
  BY <1>18 DEF StopNotify
<1>19. CASE StopPoll
  BY <1>19 DEF StopPoll
<1>20. CASE StopJoin
  BY <1>20 DEF StopJoin
<1>21. CASE StopDetach
  BY <1>21, FS_EmptySet DEF StopDetach
<1>22. CASE StopJoined
  BY <1>22, FS_EmptySet DEF StopJoined
<1>23. CASE UNCHANGED vars
  BY <1>23 DEF vars
<1>24. QED
  BY <1>1, <1>2, <1>3, <1>4, <1>5, <1>6, <1>7, <1>8, <1>9, <1>10, <1>11, <1>12,
     <1>13, <1>14, <1>15, <1>16, <1>17, <1>18, <1>19, <1>20, <1>21, <1>22, <1>23
  DEF Next, Work, Call

\* Start and Shutdown find the flag and the thread vector as they expect, at
\* every point of the call.
THEOREM CallCorrect == Spec => []CallInv
<1>1. Init => CallInv
  BY FS_EmptySet DEF Init, CallInv
<1>2. QED
  BY <1>1, CallStep, TypeCorrect, PTL DEF Spec

\* Reset never finds a joinable thread in the vector it clears.
THEOREM ResetIsSafe == Spec => []ResetFindsNoThreads
<1>1. CallInv => ResetFindsNoThreads
  BY DEF CallInv, ResetFindsNoThreads
<1>2. QED
  BY <1>1, CallCorrect, PTL

-----------------------------------------------------------------------------
(* The queue and the tasks owed.                                           *)

\* Nothing leaves sight: a task that has been submitted stays so.
LEMMA SubmittedGrows ==
    ASSUME TypeOK, JobInv, PlaceInv, [Next]_vars
    PROVE  Submitted \subseteq Submitted'
<1>1. ASSUME UNCHANGED <<job, tasks, done>> PROVE Submitted' = Submitted
  BY <1>1 DEF Submitted, Queued, Held
<1> USE <1>1
<1>2. ASSUME NEW t \in Thread, Lock(t) PROVE Submitted \subseteq Submitted'
  BY <1>2 DEF Lock, Goto
<1>3. ASSUME NEW t \in Thread, Predicate(t) PROVE Submitted \subseteq Submitted'
  BY <1>3 DEF Predicate, Goto
<1>4. ASSUME NEW t \in Thread, Block(t) PROVE Submitted \subseteq Submitted'
  BY <1>4 DEF Block, Goto
<1>5. ASSUME NEW t \in Thread, WakeSpuriously(t) PROVE Submitted \subseteq Submitted'
  BY <1>5 DEF WakeSpuriously, Goto
<1>6. ASSUME NEW t \in Thread, Quit(t) PROVE Submitted \subseteq Submitted'
  BY <1>6 DEF Quit, Goto
<1>7. ASSUME NEW t \in Thread, Take(t) PROVE Submitted \subseteq Submitted'
  BY <1>7, TakeMoves DEF Take, Goto, Submitted
<1>8. ASSUME NEW t \in Thread, TakeFromEmpty(t) PROVE Submitted \subseteq Submitted'
  BY <1>8 DEF TakeFromEmpty, Goto
<1>9. ASSUME NEW t \in Thread, LoadCount(t) PROVE Submitted \subseteq Submitted'
  BY <1>9 DEF LoadCount, Goto
<1>10. ASSUME NEW t \in Thread, StoreCount(t) PROVE Submitted \subseteq Submitted'
  BY <1>10 DEF StoreCount, Goto
<1>11. ASSUME NEW t \in Thread, Finish(t) PROVE Submitted \subseteq Submitted'
  BY <1>11, FinishMoves DEF Finish, Goto, Submitted
<1>12. ASSUME NEW k \in Task, AddFromOutside(k) PROVE Submitted \subseteq Submitted'
  BY <1>12, AddMoves DEF AddFromOutside, Add, NotifyOne, Submitted
<1>13. ASSUME NEW t \in Thread, NEW k \in Task, AddFromTask(t, k) PROVE Submitted \subseteq Submitted'
  BY <1>13, AddMoves DEF AddFromTask, Add, NotifyOne, Submitted
<1>14. ASSUME NEW k \in Timer, Cancel(k) PROVE Submitted \subseteq Submitted'
  BY <1>14 DEF Cancel
<1>15. CASE StartReset
  BY <1>15 DEF StartReset
<1>16. CASE StartRun
  BY <1>16 DEF StartRun
<1>17. CASE StartThreads
  BY <1>17 DEF StartThreads
<1>18. CASE StopStore
  BY <1>18 DEF StopStore
<1>19. CASE StopNotify
  BY <1>19 DEF StopNotify
<1>20. CASE StopPoll
  BY <1>20 DEF StopPoll
<1>21. CASE StopJoin
  BY <1>21 DEF StopJoin
<1>22. CASE StopDetach
  BY <1>22 DEF StopDetach
<1>23. CASE StopJoined
  BY <1>23 DEF StopJoined
<1>24. CASE UNCHANGED vars
  BY <1>24 DEF vars
<1>25. QED
  BY <1>2, <1>3, <1>4, <1>5, <1>6, <1>7, <1>8, <1>9, <1>10, <1>11, <1>12, <1>13,
     <1>14, <1>15, <1>16, <1>17, <1>18, <1>19, <1>20, <1>21, <1>22, <1>23, <1>24
  DEF Next, Work, Call

\* After every step, no worker is on its way out while the queue holds a
\* task, and every task owed is queued, in hand or done.
LEMMA QueueStep ==
    ASSUME TypeOK, JobInv, MutexInv, PlaceInv, QueueInv, [Next]_vars
    PROVE  QueueInv'
<1>1. ASSUME UNCHANGED <<tasks, owed>>,
             At("load")' \cup At("store")' \subseteq At("load") \cup At("store")
      PROVE  QueueInv'
  BY <1>1, SubmittedGrows DEF QueueInv
<1> USE DEF TypeOK, At
<1>2. ASSUME NEW t \in Thread, Lock(t) PROVE QueueInv'
  BY <1>2, <1>1 DEF Lock, Goto
<1>3. ASSUME NEW t \in Thread, Predicate(t) PROVE QueueInv'
  BY <1>3, <1>1 DEF Predicate, Goto
<1>4. ASSUME NEW t \in Thread, Block(t) PROVE QueueInv'
  BY <1>4, <1>1 DEF Block, Goto
<1>5. ASSUME NEW t \in Thread, WakeSpuriously(t) PROVE QueueInv'
  BY <1>5, <1>1 DEF WakeSpuriously, Goto
<1>6. ASSUME NEW t \in Thread, Quit(t) PROVE QueueInv'
  <2>1. tasks' = <<>> /\ owed' = owed
    BY <1>6 DEF Quit
  <2>2. QED
    BY <2>1, SubmittedGrows DEF QueueInv
<1>7. ASSUME NEW t \in Thread, Take(t) PROVE QueueInv'
  <2>1. At("load")' = At("load") /\ At("store")' = At("store") /\ owed' = owed
    BY <1>7 DEF Take, Goto
  <2>2. At("load") \cup At("store") = {}
    BY <1>7 DEF Take, Goto, MutexInv, Critical
  <2>3. QED
    BY <2>1, <2>2, SubmittedGrows DEF QueueInv
<1>8. ASSUME NEW t \in Thread, TakeFromEmpty(t) PROVE QueueInv'
  BY <1>8, <1>1 DEF TakeFromEmpty, Goto
<1>9. ASSUME NEW t \in Thread, LoadCount(t) PROVE QueueInv'
  BY <1>9, <1>1 DEF LoadCount, Goto
<1>10. ASSUME NEW t \in Thread, StoreCount(t) PROVE QueueInv'
  BY <1>10, <1>1 DEF StoreCount, Goto
<1>11. ASSUME NEW t \in Thread, Finish(t) PROVE QueueInv'
  BY <1>11, <1>1 DEF Finish, Goto
<1>12. ASSUME NEW k \in Task, AddFromOutside(k) PROVE QueueInv'
  <2>1. At("load")' \cup At("store")' = {}
    BY <1>12 DEF AddFromOutside, Add, NotifyOne, MutexInv, Critical
  <2>2. k \in Submitted' /\ owed' \subseteq owed \cup {k}
    BY <1>12, AddMoves DEF AddFromOutside, Submitted
  <2>3. QED
    BY <2>1, <2>2, SubmittedGrows DEF QueueInv
<1>13. ASSUME NEW t \in Thread, NEW k \in Task, AddFromTask(t, k) PROVE QueueInv'
  <2>1. At("load")' \cup At("store")' = {}
    BY <1>13 DEF AddFromTask, Add, NotifyOne, MutexInv, Critical
  <2>2. k \in Submitted' /\ owed' \subseteq owed \cup {k}
    BY <1>13, AddMoves DEF AddFromTask, Submitted
  <2>3. QED
    BY <2>1, <2>2, SubmittedGrows DEF QueueInv
<1>14. ASSUME NEW k \in Timer, Cancel(k) PROVE QueueInv'
  BY <1>14, <1>1 DEF Cancel
<1>15. CASE StartReset
  BY <1>15, <1>1 DEF StartReset
<1>16. CASE StartRun
  BY <1>16, <1>1 DEF StartRun
<1>17. CASE StartThreads
  BY <1>17, <1>1 DEF StartThreads
<1>18. CASE StopStore
  BY <1>18, <1>1 DEF StopStore
<1>19. CASE StopNotify
  BY <1>19, <1>1 DEF StopNotify
<1>20. CASE StopPoll
  BY <1>20, <1>1 DEF StopPoll
<1>21. CASE StopJoin
  BY <1>21, <1>1 DEF StopJoin
<1>22. CASE StopDetach
  BY <1>22, <1>1 DEF StopDetach
<1>23. CASE StopJoined
  BY <1>23, <1>1 DEF StopJoined
<1>24. CASE UNCHANGED vars
  BY <1>24, <1>1 DEF vars
<1>25. QED
  BY <1>2, <1>3, <1>4, <1>5, <1>6, <1>7, <1>8, <1>9, <1>10, <1>11, <1>12, <1>13,
     <1>14, <1>15, <1>16, <1>17, <1>18, <1>19, <1>20, <1>21, <1>22, <1>23, <1>24
  DEF Next, Work, Call

\* No worker leaves its loop while the queue holds a task, and no owed task
\* gets out of sight.
THEOREM QueueCorrect == Spec => []QueueInv
<1>1. Init => QueueInv
  BY DEF Init, QueueInv, At
<1>2. QED
  BY <1>1, QueueStep, TypeCorrect, MutexCorrect, PlaceCorrect, PTL DEF Spec

-----------------------------------------------------------------------------
(* Until a Shutdown gives up.                                              *)

\* The part of the thread pool's invariant that OneGeneration rests on.
Base == TypeOK /\ JobInv /\ MutexInv /\ PlaceInv /\ CallInv /\ QueueInv

\* After every step of a pool that has not given up on a thread, the live
\* threads are among those of the vector.
LEMMA WorkersStep ==
    ASSUME Base, WorkersInv, [Next]_vars
    PROVE  WorkersInv' \/ gaveUp'
<1> USE DEF Base, TypeOK, WorkersInv, At
<1>1. ASSUME NEW t \in Thread, Lock(t) PROVE WorkersInv' \/ gaveUp'
  BY <1>1 DEF Lock, Goto
<1>2. ASSUME NEW t \in Thread, Predicate(t) PROVE WorkersInv' \/ gaveUp'
  BY <1>2 DEF Predicate, Goto
<1>3. ASSUME NEW t \in Thread, Block(t) PROVE WorkersInv' \/ gaveUp'
  BY <1>3 DEF Block, Goto
<1>4. ASSUME NEW t \in Thread, WakeSpuriously(t) PROVE WorkersInv' \/ gaveUp'
  BY <1>4 DEF WakeSpuriously, Goto
<1>5. ASSUME NEW t \in Thread, Quit(t) PROVE WorkersInv' \/ gaveUp'
  BY <1>5 DEF Quit, Goto
<1>6. ASSUME NEW t \in Thread, Take(t) PROVE WorkersInv' \/ gaveUp'
  BY <1>6 DEF Take, Goto, MutexInv, Critical
<1>7. ASSUME NEW t \in Thread, TakeFromEmpty(t) PROVE WorkersInv' \/ gaveUp'
  BY <1>7 DEF TakeFromEmpty, Goto
<1>8. ASSUME NEW t \in Thread, LoadCount(t) PROVE WorkersInv' \/ gaveUp'
  BY <1>8 DEF LoadCount, Goto
<1>9. ASSUME NEW t \in Thread, StoreCount(t) PROVE WorkersInv' \/ gaveUp'
  BY <1>9 DEF StoreCount, Goto
<1>10. ASSUME NEW t \in Thread, Finish(t) PROVE WorkersInv' \/ gaveUp'
  BY <1>10 DEF Finish, Goto
<1>11. ASSUME NEW k \in Task, AddFromOutside(k) PROVE WorkersInv' \/ gaveUp'
  BY <1>11 DEF AddFromOutside, Add, NotifyOne
<1>12. ASSUME NEW t \in Thread, NEW k \in Task, AddFromTask(t, k) PROVE WorkersInv' \/ gaveUp'
  BY <1>12 DEF AddFromTask, Add, NotifyOne
<1>13. ASSUME NEW k \in Timer, Cancel(k) PROVE WorkersInv' \/ gaveUp'
  BY <1>13 DEF Cancel
<1>14. CASE StartReset
  BY <1>14 DEF StartReset, CallInv
<1>15. CASE StartRun
  <2>1. threads = {} /\ pc' = pc /\ tasks' = tasks
    BY <1>15 DEF StartRun, CallInv
  <2>2. QED
    BY <1>15, <2>1 DEF StartRun
<1>16. CASE StartThreads
  <2>1. PICK T \in SUBSET At("unborn") :
          /\ threads' = T
          /\ pc' = [t \in Thread |-> IF t \in T THEN "lock" ELSE pc[t]]
    BY <1>16 DEF StartThreads
  <2>2. threads = {} /\ running /\ tasks' = tasks
    BY <1>16 DEF StartThreads, CallInv
  <2>3. \A t \in Thread : pc[t] \in {"unborn", "exited"}
    BY <2>2
  <2>4. QED
    BY <2>1, <2>2, <2>3
<1>17. CASE StopStore
  BY <1>17 DEF StopStore
<1>18. CASE StopNotify
  BY <1>18 DEF StopNotify
<1>19. CASE StopPoll
  BY <1>19 DEF StopPoll
<1>20. CASE StopJoin
  BY <1>20 DEF StopJoin
<1>21. CASE StopDetach
  BY <1>21 DEF StopDetach
<1>22. CASE StopJoined
  BY <1>22 DEF StopJoined
<1>23. CASE UNCHANGED vars
  BY <1>23 DEF vars
<1>24. QED
  BY <1>1, <1>2, <1>3, <1>4, <1>5, <1>6, <1>7, <1>8, <1>9, <1>10, <1>11, <1>12,
     <1>13, <1>14, <1>15, <1>16, <1>17, <1>18, <1>19, <1>20, <1>21, <1>22, <1>23
  DEF Next, Work, Call

\* The threads that have left their loop are finitely many.
LEMMA GoneFinite ==
    ASSUME IsFiniteSet(threads)
    PROVE  /\ IsFiniteSet(Gone) /\ Cardinality(Gone) \in Nat
           /\ Cardinality(threads) \in Nat
           /\ Cardinality(Gone) = Cardinality(threads) => Gone = threads
BY FS_Subset, FS_CardinalityType DEF Gone

\* completed_count_ counts the threads of the generation that have left
\* their loop, after every step of a pool that has not given up on a thread.
LEMMA CountStep ==
    ASSUME Base, WorkersInv, CountInv, [Next]_vars
    PROVE  CountInv' \/ gaveUp'
<1>1. ASSUME UNCHANGED <<threads, completed, read, ctl>>,
             \A t \in Thread : /\ pc'[t] = "exited" <=> pc[t] = "exited"
                               /\ pc'[t] = "store" => pc[t] = "store"
      PROVE  CountInv'
  <2>1. threads' = threads /\ completed' = completed /\ read' = read /\ ctl' = ctl
    BY <1>1
  <2>2. \A t \in threads : pc'[t] = "exited" <=> pc[t] = "exited"
    BY <1>1 DEF Base, TypeOK
  <2>3. Gone' = Gone
    BY <2>1, <2>2 DEF Gone
  <2>4. QED
    BY <1>1, <2>1, <2>3 DEF CountInv
<1> USE DEF Base, TypeOK, At
<1>2. ASSUME NEW t \in Thread, Lock(t) PROVE CountInv' \/ gaveUp'
  BY <1>2, <1>1 DEF Lock, Goto
<1>3. ASSUME NEW t \in Thread, Predicate(t) PROVE CountInv' \/ gaveUp'
  BY <1>3, <1>1 DEF Predicate, Goto
<1>4. ASSUME NEW t \in Thread, Block(t) PROVE CountInv' \/ gaveUp'
  BY <1>4, <1>1 DEF Block, Goto
<1>5. ASSUME NEW t \in Thread, WakeSpuriously(t) PROVE CountInv' \/ gaveUp'
  BY <1>5, <1>1 DEF WakeSpuriously, Goto
<1>6. ASSUME NEW t \in Thread, Quit(t) PROVE CountInv' \/ gaveUp'
  BY <1>6, <1>1 DEF Quit, Goto
<1>7. ASSUME NEW t \in Thread, Take(t) PROVE CountInv' \/ gaveUp'
  BY <1>7, <1>1 DEF Take, Goto
<1>8. ASSUME NEW t \in Thread, TakeFromEmpty(t) PROVE CountInv' \/ gaveUp'
  BY <1>8, <1>1 DEF TakeFromEmpty, Goto
<1>9. ASSUME NEW t \in Thread, LoadCount(t) PROVE CountInv' \/ gaveUp'
  <2>1. Gone' = Gone
    BY <1>9 DEF LoadCount, Goto, Gone
  <2>2. QED
    BY <1>9, <2>1 DEF LoadCount, Goto, CountInv
<1>10. ASSUME NEW t \in Thread, StoreCount(t) PROVE CountInv' \/ gaveUp'
  <2>1. t \in threads /\ t \notin Gone /\ read = completed
    BY <1>10 DEF StoreCount, Goto, WorkersInv, CountInv, Gone
  <2>2. Gone' = Gone \cup {t} /\ threads' = threads /\ ctl' = ctl
    BY <1>10, <2>1 DEF StoreCount, Goto, Gone
  <2>3. completed' = Cardinality(Gone')
    <3>1. completed = Cardinality(Gone) /\ IsFiniteSet(Gone)
      BY <2>1, GoneFinite DEF CountInv, CallInv
    <3>2. QED
      BY <1>10, <2>1, <2>2, <3>1, FS_AddElement DEF StoreCount
  <2>4. \A s \in Thread : pc'[s] # "store"
    BY <1>10 DEF StoreCount, Goto, MutexInv, Critical
  <2>5. ctl \notin {"starting", "spawning"}
    BY <2>1 DEF CallInv
  <2>6. ctl # "joining"
    BY <2>1 DEF CountInv
  <2>7. QED
    BY <2>2, <2>3, <2>4, <2>5, <2>6 DEF CountInv
<1>11. ASSUME NEW t \in Thread, Finish(t) PROVE CountInv' \/ gaveUp'
  BY <1>11, <1>1 DEF Finish, Goto
<1>12. ASSUME NEW k \in Task, AddFromOutside(k) PROVE CountInv' \/ gaveUp'
  BY <1>12, <1>1 DEF AddFromOutside, Add, NotifyOne
<1>13. ASSUME NEW t \in Thread, NEW k \in Task, AddFromTask(t, k) PROVE CountInv' \/ gaveUp'
  BY <1>13, <1>1 DEF AddFromTask, Add, NotifyOne
<1>14. ASSUME NEW k \in Timer, Cancel(k) PROVE CountInv' \/ gaveUp'
  BY <1>14, <1>1 DEF Cancel
<1>15. CASE StartReset
  <2>1. \A t \in Thread : pc[t] # "store"
    BY <1>15 DEF StartReset, CallInv, WorkersInv
  <2>2. QED
    BY <1>15, <2>1 DEF StartReset, CountInv
<1>16. CASE StartRun
  <2>1. threads = {} /\ threads' = {}
    BY <1>16 DEF StartRun, CallInv
  <2>2. QED
    BY <1>16, <2>1 DEF StartRun, CountInv
<1>17. CASE StartThreads
  <2>1. PICK T \in SUBSET At("unborn") :
          /\ threads' = T
          /\ pc' = [t \in Thread |-> IF t \in T THEN "lock" ELSE pc[t]]
    BY <1>17 DEF StartThreads
  <2>2. Gone' = {}
    BY <2>1 DEF Gone
  <2>3. completed' = 0 /\ read' = read /\ ctl' = "idle"
    BY <1>17 DEF StartThreads, CountInv
  <2>4. \A t \in Thread : pc'[t] # "store"
    BY <2>1, <1>17 DEF StartThreads, CallInv, WorkersInv
  <2>5. QED
    BY <2>2, <2>3, <2>4, FS_EmptySet DEF CountInv
<1>18. CASE StopStore
  <2>1. Gone' = Gone
    BY <1>18 DEF StopStore, Gone
  <2>2. QED
    BY <1>18, <2>1 DEF StopStore, CountInv
<1>19. CASE StopNotify
  <2>1. Gone' = Gone
    BY <1>19 DEF StopNotify, Gone
  <2>2. QED
    BY <1>19, <2>1 DEF StopNotify, CountInv
<1>20. CASE StopPoll
  <2>1. Gone' = Gone
    BY <1>20 DEF StopPoll, Gone
  <2>2. QED
    BY <1>20, <2>1 DEF StopPoll, CountInv
<1>21. CASE StopJoin
  <2>1. Gone = threads
    BY <1>21, GoneFinite DEF StopJoin, AllCounted, CountInv, CallInv, Gone
  <2>2. Gone' = Gone
    BY <1>21 DEF StopJoin, Gone
  <2>3. QED
    BY <1>21, <2>1, <2>2 DEF StopJoin, CountInv
<1>22. CASE StopDetach
  <2>1. threads' = {} /\ ctl' = "idle" /\ UNCHANGED <<pc, read, completed>>
    BY <1>22 DEF StopDetach
  <2>2. QED
    BY <2>1 DEF CountInv
<1>23. CASE StopJoined
  <2>1. threads' = {} /\ ctl' = "idle" /\ UNCHANGED <<pc, read, completed>>
    BY <1>23 DEF StopJoined
  <2>2. QED
    BY <2>1 DEF CountInv
<1>24. CASE UNCHANGED vars
  BY <1>24, <1>1 DEF vars
<1>25. QED
  BY <1>2, <1>3, <1>4, <1>5, <1>6, <1>7, <1>8, <1>9, <1>10, <1>11, <1>12, <1>13,
     <1>14, <1>15, <1>16, <1>17, <1>18, <1>19, <1>20, <1>21, <1>22, <1>23, <1>24
  DEF Next, Work, Call

\* After every step of a pool that has not given up on a thread, a task that
\* is owed and queued has a worker left to run it.
LEMMA OwedStep ==
    ASSUME Base, WorkersInv, CountInv, OwedInv, [Next]_vars
    PROVE  OwedInv' \/ gaveUp'
<1>1. ASSUME UNCHANGED <<threads, running>>, Gone' = Gone,
             owed' \cap Queued' \subseteq owed \cap Queued
      PROVE  OwedInv'
  BY <1>1 DEF OwedInv
<1>2. ASSUME UNCHANGED threads,
             \A t \in Thread : pc'[t] = "exited" <=> pc[t] = "exited"
      PROVE  Gone' = Gone
  BY <1>2 DEF Gone, Base, TypeOK
<1>3. ASSUME UNCHANGED tasks PROVE Queued' = Queued
  BY <1>3 DEF Queued
<1> USE DEF Base, TypeOK, At
<1>4. ASSUME NEW t \in Thread, Lock(t) PROVE OwedInv' \/ gaveUp'
  BY <1>4, <1>1, <1>2, <1>3 DEF Lock, Goto
<1>5. ASSUME NEW t \in Thread, Predicate(t) PROVE OwedInv' \/ gaveUp'
  BY <1>5, <1>1, <1>2, <1>3 DEF Predicate, Goto
<1>6. ASSUME NEW t \in Thread, Block(t) PROVE OwedInv' \/ gaveUp'
  BY <1>6, <1>1, <1>2, <1>3 DEF Block, Goto
<1>7. ASSUME NEW t \in Thread, WakeSpuriously(t) PROVE OwedInv' \/ gaveUp'
  BY <1>7, <1>1, <1>2, <1>3 DEF WakeSpuriously, Goto
<1>8. ASSUME NEW t \in Thread, Quit(t) PROVE OwedInv' \/ gaveUp'
  BY <1>8, <1>1, <1>2, <1>3 DEF Quit, Goto
<1>9. ASSUME NEW t \in Thread, Take(t) PROVE OwedInv' \/ gaveUp'
  <2>1. owed' = owed /\ Queued' \subseteq Queued
    BY <1>9, TakeMoves DEF Take
  <2>2. QED
    BY <1>9, <2>1, <1>1, <1>2, <1>3 DEF Take, Goto
<1>10. ASSUME NEW t \in Thread, TakeFromEmpty(t) PROVE OwedInv' \/ gaveUp'
  BY <1>10, <1>1, <1>2, <1>3 DEF TakeFromEmpty, Goto
<1>11. ASSUME NEW t \in Thread, LoadCount(t) PROVE OwedInv' \/ gaveUp'
  BY <1>11, <1>1, <1>2, <1>3 DEF LoadCount, Goto
<1>12. ASSUME NEW t \in Thread, StoreCount(t) PROVE OwedInv' \/ gaveUp'
  <2>1. tasks = <<>> /\ tasks' = <<>>
    BY <1>12 DEF StoreCount, Goto, QueueInv
  <2>2. Queued' = {}
    BY <2>1 DEF Queued
  <2>3. QED
    BY <2>2 DEF OwedInv
<1>13. ASSUME NEW t \in Thread, Finish(t) PROVE OwedInv' \/ gaveUp'
  BY <1>13, <1>1, <1>2, <1>3 DEF Finish, Goto
<1>14. ASSUME NEW k \in Task, AddFromOutside(k) PROVE OwedInv' \/ gaveUp'
  <2>1. Gone' = Gone /\ UNCHANGED <<threads, running>>
    BY <1>14, <1>1, <1>2, <1>3 DEF AddFromOutside, Add, NotifyOne
  <2>2. CASE running
    BY <2>1, <2>2 DEF OwedInv
  <2>3. CASE ~running
    <3>1. owed' = owed /\ Queued' = Queued \cup {k} /\ k \notin Queued
      BY <1>14, <2>3, AddMoves DEF AddFromOutside
    <3>2. CASE k \in owed
      <4>1. k \in Submitted
        BY <3>2 DEF QueueInv
      <4>2. QED
        BY <4>1, <1>14 DEF AddFromOutside, Add
    <3>3. CASE k \notin owed
      BY <2>1, <3>1, <3>3 DEF OwedInv
    <3>4. QED
      BY <3>2, <3>3
  <2>4. QED
    BY <2>2, <2>3
<1>15. ASSUME NEW t \in Thread, NEW k \in Task, AddFromTask(t, k) PROVE OwedInv' \/ gaveUp'
  <2>1. Gone' = Gone /\ threads' = threads
    BY <1>15, <1>1, <1>2, <1>3 DEF AddFromTask, Add, NotifyOne
  <2>2. t \in threads /\ t \notin Gone
    BY <1>15 DEF AddFromTask, WorkersInv, Gone
  <2>3. QED
    BY <2>1, <2>2 DEF OwedInv
<1>16. ASSUME NEW k \in Timer, Cancel(k) PROVE OwedInv' \/ gaveUp'
  BY <1>16, <1>1, <1>2, <1>3 DEF Cancel
<1>17. CASE StartReset
  <2>1. threads = {} /\ threads' = {} /\ running' = running
    BY <1>17 DEF StartReset, CallInv
  <2>2. Gone = {} /\ Gone' = {}
    BY <2>1 DEF Gone
  <2>3. QED
    BY <1>17, <2>1, <2>2, <1>1, <1>2, <1>3 DEF StartReset
<1>18. CASE StartRun
  BY <1>18 DEF StartRun, OwedInv
<1>19. CASE StartThreads
  BY <1>19 DEF StartThreads, CallInv, OwedInv
<1>20. CASE StopStore
  <2>1. Gone' = Gone /\ Queued' = Queued /\ owed' = owed /\ threads' = threads
    BY <1>20, <1>1, <1>2, <1>3 DEF StopStore
  <2>2. CASE running
    <3>1. PICK t \in threads : TRUE
      BY <1>20, <2>2 DEF StopStore, CallInv
    <3>2. t \notin Gone
      BY <2>2, <3>1 DEF WorkersInv, Gone
    <3>3. QED
      BY <2>1, <3>1, <3>2 DEF OwedInv
  <2>3. CASE ~running
    BY <2>1, <2>3 DEF OwedInv
  <2>4. QED
    BY <2>2, <2>3
<1>21. CASE StopNotify
  BY <1>21, <1>1, <1>2, <1>3 DEF StopNotify
<1>22. CASE StopPoll
  BY <1>22, <1>1, <1>2, <1>3 DEF StopPoll
<1>23. CASE StopJoin
  BY <1>23, <1>1, <1>2, <1>3 DEF StopJoin
<1>24. CASE StopDetach
  <2>1. CASE threads = {}
    <3>1. threads' = {} /\ running' = running /\ Gone = {} /\ Gone' = {}
      BY <1>24, <2>1 DEF StopDetach, Gone
    <3>2. QED
      BY <1>24, <2>1, <3>1, <1>1, <1>2, <1>3 DEF StopDetach
  <2>2. CASE threads # {}
    BY <1>24, <2>2 DEF StopDetach
  <2>3. QED
    BY <2>1, <2>2
<1>25. CASE StopJoined
  <2>1. Gone = threads /\ ~running
    BY <1>25 DEF StopJoined, CountInv, CallInv
  <2>2. owed \cap Queued = {}
    BY <2>1 DEF OwedInv
  <2>3. Queued' = Queued /\ owed' = owed
    BY <1>25, <1>1, <1>2, <1>3 DEF StopJoined
  <2>4. QED
    BY <2>2, <2>3 DEF OwedInv
<1>26. CASE UNCHANGED vars
  BY <1>26, <1>1, <1>2, <1>3 DEF vars
<1>27. QED
  BY <1>4, <1>5, <1>6, <1>7, <1>8, <1>9, <1>10, <1>11, <1>12, <1>13, <1>14, <1>15,
     <1>16, <1>17, <1>18, <1>19, <1>20, <1>21, <1>22, <1>23, <1>24, <1>25, <1>26
  DEF Next, Work, Call

\* A pool that has given up on a thread stays one that has.
LEMMA GaveUpStays ==
    ASSUME [Next]_vars, gaveUp
    PROVE  gaveUp'
<1>1. ASSUME NEW t \in Thread, Lock(t) PROVE gaveUp'
  BY <1>1 DEF Lock, Goto
<1>2. ASSUME NEW t \in Thread, Predicate(t) PROVE gaveUp'
  BY <1>2 DEF Predicate, Goto
<1>3. ASSUME NEW t \in Thread, Block(t) PROVE gaveUp'
  BY <1>3 DEF Block, Goto
<1>4. ASSUME NEW t \in Thread, WakeSpuriously(t) PROVE gaveUp'
  BY <1>4 DEF WakeSpuriously, Goto
<1>5. ASSUME NEW t \in Thread, Quit(t) PROVE gaveUp'
  BY <1>5 DEF Quit, Goto
<1>6. ASSUME NEW t \in Thread, Take(t) PROVE gaveUp'
  BY <1>6 DEF Take, Goto
<1>7. ASSUME NEW t \in Thread, TakeFromEmpty(t) PROVE gaveUp'
  BY <1>7 DEF TakeFromEmpty, Goto
<1>8. ASSUME NEW t \in Thread, LoadCount(t) PROVE gaveUp'
  BY <1>8 DEF LoadCount, Goto
<1>9. ASSUME NEW t \in Thread, StoreCount(t) PROVE gaveUp'
  BY <1>9 DEF StoreCount, Goto
<1>10. ASSUME NEW t \in Thread, Finish(t) PROVE gaveUp'
  BY <1>10 DEF Finish, Goto
<1>11. ASSUME NEW k \in Task, AddFromOutside(k) PROVE gaveUp'
  BY <1>11 DEF AddFromOutside, Add, NotifyOne
<1>12. ASSUME NEW t \in Thread, NEW k \in Task, AddFromTask(t, k) PROVE gaveUp'
  BY <1>12 DEF AddFromTask, Add, NotifyOne
<1>13. ASSUME NEW k \in Timer, Cancel(k) PROVE gaveUp'
  BY <1>13 DEF Cancel
<1>14. CASE StartReset
  BY <1>14 DEF StartReset
<1>15. CASE StartRun
  BY <1>15 DEF StartRun
<1>16. CASE StartThreads
  BY <1>16 DEF StartThreads
<1>17. CASE StopStore
  BY <1>17 DEF StopStore
<1>18. CASE StopNotify
  BY <1>18 DEF StopNotify
<1>19. CASE StopPoll
  BY <1>19 DEF StopPoll
<1>20. CASE StopJoin
  BY <1>20 DEF StopJoin
<1>21. CASE StopDetach
  BY <1>21 DEF StopDetach
<1>22. CASE StopJoined
  BY <1>22 DEF StopJoined
<1>23. CASE UNCHANGED vars
  BY <1>23 DEF vars
<1>24. QED
  BY <1>1, <1>2, <1>3, <1>4, <1>5, <1>6, <1>7, <1>8, <1>9, <1>10, <1>11, <1>12,
     <1>13, <1>14, <1>15, <1>16, <1>17, <1>18, <1>19, <1>20, <1>21, <1>22, <1>23
  DEF Next, Work, Call

\* The invariants of a pool with one generation of threads survive every
\* step.
LEMMA GenerationStep ==
    ASSUME Base, ~gaveUp => OneGeneration, [Next]_vars
    PROVE  (~gaveUp => OneGeneration)'
<1>1. CASE gaveUp
  BY <1>1, GaveUpStays
<1>2. CASE ~gaveUp
  BY <1>2, WorkersStep, CountStep, OwedStep DEF OneGeneration
<1>3. QED
  BY <1>1, <1>2

\* Everything that is known of the pool, restarts and given-up threads
\* included.
THEOREM PoolCorrect == Spec => []PoolInv
<1>1. Init => (~gaveUp => OneGeneration)
  BY DEF Init, OneGeneration, WorkersInv, CountInv, OwedInv, Queued, Gone
<1>2. Spec => []Base
  BY TypeCorrect, MutexCorrect, PlaceCorrect, CallCorrect, QueueCorrect, PTL DEF Base
<1>3. Spec => [](~gaveUp => OneGeneration)
  BY <1>1, <1>2, GenerationStep, PTL DEF Spec
<1>4. Init => SleepInv
  BY DEF Init, SleepInv, At
<1>5. Spec => []SleepInv
  BY <1>4, SleepStep, TypeCorrect, PTL DEF Spec
<1>6. Base /\ SleepInv /\ (~gaveUp => OneGeneration) => PoolInv
  BY DEF Base, PoolInv
<1>7. QED
  BY <1>2, <1>3, <1>5, <1>6, PTL

-----------------------------------------------------------------------------
(* What Shutdown promises.                                                 *)

\* A Shutdown that returned true has left no thread alive.
THEOREM ShutdownStops == Spec => []ShutdownStopsAll
<1>1. PoolInv => ShutdownStopsAll
  BY DEF PoolInv, CallInv, OneGeneration, WorkersInv, ShutdownStopsAll, Alive, At
<1>2. QED
  BY <1>1, PoolCorrect, PTL

\* A Shutdown that returned true has run every task owed.
THEOREM ShutdownHasDrained == Spec => []ShutdownDrains
<1>1. ASSUME PoolInv, result = "ok", ctl = "idle", ~gaveUp
      PROVE  owed \subseteq done
  <2>1. threads = {} /\ ~running
    BY <1>1 DEF PoolInv, CallInv
  <2>2. Held = {}
    BY <1>1, <2>1 DEF PoolInv, OneGeneration, WorkersInv, JobInv, Held
  <2>3. owed \cap Queued = {}
    BY <1>1, <2>1 DEF PoolInv, OneGeneration, OwedInv, Gone
  <2>4. QED
    BY <1>1, <2>2, <2>3 DEF PoolInv, QueueInv, Submitted
<1>2. PoolInv => ShutdownDrains
  BY <1>1 DEF ShutdownDrains
<1>3. QED
  BY <1>2, PoolCorrect, PTL

\* When Shutdown joins, there is nobody left to wait for.
THEOREM JoinReturns == Spec => []JoinDoesNotBlock
<1>1. PoolInv => JoinDoesNotBlock
  BY DEF PoolInv, TypeOK, OneGeneration, CountInv, Gone, JoinDoesNotBlock, At
<1>2. QED
  BY <1>1, PoolCorrect, PTL

\* Without a thread left over from an earlier generation no worker takes from
\* an empty queue.
THEOREM EmptyTakeIsZombie == Spec => []EmptyTakeNeedsZombie
<1>1. PoolInv => EmptyTakeNeedsZombie
  BY DEF PoolInv, OneGeneration, WorkersInv, EmptyTakeNeedsZombie, At
<1>2. QED
  BY <1>1, PoolCorrect, PTL

-----------------------------------------------------------------------------
(* The pool implements TaskService.                                        *)

\* Every step of the pool is a step of the task service, or none.
LEMMA ServiceStep ==
    ASSUME TypeOK, JobInv, PlaceInv, [Next]_vars
    PROVE  [Service!Next]_(Service!vars)
<1>1. ASSUME UNCHANGED <<tasks, job, done>>
      PROVE  [Service!Next]_(Service!vars)
  BY <1>1 DEF Service!vars, Held
<1> USE DEF TypeOK
<1>2. ASSUME NEW t \in Thread, Lock(t) PROVE [Service!Next]_(Service!vars)
  BY <1>2, <1>1 DEF Lock, Goto
<1>3. ASSUME NEW t \in Thread, Predicate(t) PROVE [Service!Next]_(Service!vars)
  BY <1>3, <1>1 DEF Predicate, Goto
<1>4. ASSUME NEW t \in Thread, Block(t) PROVE [Service!Next]_(Service!vars)
  BY <1>4, <1>1 DEF Block, Goto
<1>5. ASSUME NEW t \in Thread, WakeSpuriously(t) PROVE [Service!Next]_(Service!vars)
  BY <1>5, <1>1 DEF WakeSpuriously, Goto
<1>6. ASSUME NEW t \in Thread, Quit(t) PROVE [Service!Next]_(Service!vars)
  BY <1>6, <1>1 DEF Quit, Goto
<1>7. ASSUME NEW t \in Thread, Take(t) PROVE [Service!Next]_(Service!vars)
  <2>1. Service!Begin
    BY <1>7, TakeMoves DEF Take, Service!Begin
  <2>2. QED
    BY <2>1 DEF Service!Next
<1>8. ASSUME NEW t \in Thread, TakeFromEmpty(t) PROVE [Service!Next]_(Service!vars)
  BY <1>8, <1>1 DEF TakeFromEmpty, Goto
<1>9. ASSUME NEW t \in Thread, LoadCount(t) PROVE [Service!Next]_(Service!vars)
  BY <1>9, <1>1 DEF LoadCount, Goto
<1>10. ASSUME NEW t \in Thread, StoreCount(t) PROVE [Service!Next]_(Service!vars)
  BY <1>10, <1>1 DEF StoreCount, Goto
<1>11. ASSUME NEW t \in Thread, Finish(t) PROVE [Service!Next]_(Service!vars)
  <2>1. job[t] \in Task
    BY <1>11, FinishMoves DEF Held
  <2>2. Service!End(job[t])
    BY <1>11, FinishMoves DEF Service!End
  <2>3. QED
    BY <2>1, <2>2 DEF Service!Next
<1>12. ASSUME NEW k \in Task, AddFromOutside(k) PROVE [Service!Next]_(Service!vars)
  <2>1. Service!Submit(k)
    BY <1>12, AddMoves DEF AddFromOutside, Add, Service!Submit, Service!Waiting, Queued
  <2>2. QED
    BY <2>1 DEF Service!Next
<1>13. ASSUME NEW t \in Thread, NEW k \in Task, AddFromTask(t, k) PROVE [Service!Next]_(Service!vars)
  <2>1. Service!Submit(k)
    BY <1>13, AddMoves DEF AddFromTask, Add, Service!Submit, Service!Waiting, Queued
  <2>2. QED
    BY <2>1 DEF Service!Next
<1>14. ASSUME NEW k \in Timer, Cancel(k) PROVE [Service!Next]_(Service!vars)
  BY <1>14, <1>1 DEF Cancel
<1>15. CASE StartReset
  BY <1>15, <1>1 DEF StartReset
<1>16. CASE StartRun
  BY <1>16, <1>1 DEF StartRun
<1>17. CASE StartThreads
  BY <1>17, <1>1 DEF StartThreads
<1>18. CASE StopStore
  BY <1>18, <1>1 DEF StopStore
<1>19. CASE StopNotify
  BY <1>19, <1>1 DEF StopNotify
<1>20. CASE StopPoll
  BY <1>20, <1>1 DEF StopPoll
<1>21. CASE StopJoin
  BY <1>21, <1>1 DEF StopJoin
<1>22. CASE StopDetach
  BY <1>22, <1>1 DEF StopDetach
<1>23. CASE StopJoined
  BY <1>23, <1>1 DEF StopJoined
<1>24. CASE UNCHANGED vars
  BY <1>24, <1>1 DEF vars
<1>25. QED
  BY <1>2, <1>3, <1>4, <1>5, <1>6, <1>7, <1>8, <1>9, <1>10, <1>11, <1>12, <1>13,
     <1>14, <1>15, <1>16, <1>17, <1>18, <1>19, <1>20, <1>21, <1>22, <1>23, <1>24
  DEF Next, Work, Call

\* Tasks begin in the order in which they were added, none is lost on the way
\* out of the queue and none begins twice, whatever Start and Shutdown do.
THEOREM ImplementsTaskService == Spec => IsTaskService
<1>1. Init => Service!Init
  BY DEF Init, Service!Init, Held
<1>2. QED
  BY <1>1, ServiceStep, TypeCorrect, PlaceCorrect, PTL
  DEF Spec, IsTaskService, Service!Spec
=============================================================================
