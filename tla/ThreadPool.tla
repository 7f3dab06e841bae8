----------------------------- MODULE ThreadPool -----------------------------
(***************************************************************************)
(* ThreadPool and the parts of AsyncHelper that drive it, from             *)
(* statsig_compat/async/async_helper.hpp: worker threads that wait on a    *)
(* condition variable, Add, background timers, Shutdown with a timeout,    *)
(* and Reset, which starts a new generation of workers on the same object. *)
(*                                                                         *)
(* The application calls Start and Shutdown one at a time (the vector      *)
(* `threads` has no lock); anyone calls Add at any moment.  Each read or   *)
(* write of is_running_ and completed_count_ is a step of its own, because *)
(* Shutdown and Reset touch them without taking mutex_.                    *)
(***************************************************************************)
EXTENDS Integers, Sequences, FiniteSets

CONSTANTS Thread,    \* every std::thread the run may create
          Task,      \* every task the run may submit
          Timer,     \* those submitted by StartBackgroundTimer
          PoolSize,  \* the argument of Reset, 5 in the code
          None

ASSUME TaskAssumption == /\ Timer \subseteq Task
                         /\ None \notin Task \cup Thread
ASSUME PoolSizeAssumption == PoolSize \in Nat \ {0}

VARIABLES
    pc,         \* where each thread is
    job,        \* the local `task` of each thread
    mutex,      \* the thread that holds mutex_
    read,       \* the value of completed_count_ the mutex holder has loaded
    tasks,      \* the queue
    running,    \* is_running_
    completed,  \* completed_count_
    threads,    \* the vector `threads`
    ctl,        \* where the call to Start or Shutdown in progress is
    result,     \* what the last Shutdown returned
    cancelled,  \* timers whose shutdown_condition is true
    done,       \* tasks that have returned
    \* History, read by the properties only:
    gaveUp,     \* some Shutdown has detached threads
    owed,       \* tasks added while is_running_, or by a task of the pool
    missed      \* threads between predicate and wait at the last notify_all

worker == <<pc, job>>
lock == <<mutex, read>>
pool == <<tasks, running, completed, threads>>
caller == <<ctl, result, cancelled>>
history == <<gaveUp, owed, missed>>
vars == <<worker, lock, pool, caller, done, history>>

At(loc) == {t \in Thread : pc[t] = loc}
Alive == Thread \ (At("unborn") \cup At("exited"))
Queued == {tasks[i] : i \in DOMAIN tasks}
Held == {job[t] : t \in Thread} \ {None}
Submitted == Queued \cup Held \cup done

Init ==
    /\ pc = [t \in Thread |-> "unborn"]
    /\ job = [t \in Thread |-> None]
    /\ mutex = None
    /\ read = 0
    /\ tasks = <<>>
    /\ running = FALSE
    /\ completed = 0
    /\ threads = {}
    /\ ctl = "idle"
    /\ result = "none"
    /\ cancelled = {}
    /\ done = {}
    /\ gaveUp = FALSE
    /\ owed = {}
    /\ missed = {}

-----------------------------------------------------------------------------
Goto(t, from, to) ==
    /\ pc[t] = from
    /\ pc' = [pc EXCEPT ![t] = to]

(* Planted bugs: each Bad... stands in for the action it is named after, to *)
(* see that the properties below notice.                                    *)

\* The predicate of the wait forgets is_running_.
BadPredicate(t) ==
    /\ Goto(t, "predicate", IF tasks = <<>> THEN "block" ELSE "decide")
    /\ UNCHANGED <<job, lock, pool, caller, done, history>>

\* cv.wait without a predicate: whoever wakes goes on.
BadWakeSpuriously(t) ==
    /\ Goto(t, "waiting", "decide")
    /\ mutex = None
    /\ mutex' = t
    /\ UNCHANGED <<job, read, pool, caller, done, history>>

\* A worker leaves as soon as the pool stops, whatever the queue holds.
BadQuit(t) ==
    /\ Goto(t, "decide", "load")
    /\ ~running
    /\ UNCHANGED <<job, lock, pool, caller, done, history>>

\* The youngest task first.
BadTake(t) ==
    /\ Goto(t, "decide", "run")
    /\ tasks # <<>>
    /\ job' = [job EXCEPT ![t] = tasks[Len(tasks)]]
    /\ tasks' = SubSeq(tasks, 1, Len(tasks) - 1)
    /\ mutex' = None
    /\ UNCHANGED <<read, running, completed, threads, caller, done, history>>

\* A count of the threads still at work, begun at 0.
BadStoreCount(t) ==
    /\ Goto(t, "store", "exited")
    /\ completed' = read - 1
    /\ mutex' = None
    /\ UNCHANGED <<job, read, tasks, running, threads, caller, done, history>>

\* Add without notify_one.
BadNotifyOne == UNCHANGED pc

\* Reset on a pool that runs.
BadStartResetAnyway ==
    /\ ctl = "idle"
    /\ \E T \in SUBSET At("unborn") : Cardinality(T) = PoolSize
    /\ ctl' = "starting"
    /\ result' = "none"
    /\ threads' = {}
    /\ completed' = 0
    /\ UNCHANGED <<worker, lock, tasks, running, cancelled, done, history>>

\* Reset leaves the count of the last generation.
BadStartReset ==
    /\ ctl = "idle" /\ ~running
    /\ \E T \in SUBSET At("unborn") : Cardinality(T) = PoolSize
    /\ ctl' = "starting"
    /\ result' = "none"
    /\ threads' = {}
    /\ UNCHANGED <<worker, lock, tasks, running, completed, cancelled, done,
                   history>>

\* Shutdown without notify_all.
BadStopNotify ==
    /\ ctl = "notify"
    /\ missed' = At("block")
    /\ ctl' = "poll"
    /\ UNCHANGED <<worker, lock, pool, result, cancelled, done, gaveUp, owed>>

\* Shutdown detaches its threads and keeps them in the vector.
BadStopDetach ==
    /\ ctl = "check" /\ completed # Cardinality(threads)
    /\ ctl' = "idle"
    /\ result' = "failed"
    /\ gaveUp' = (gaveUp \/ threads # {})
    /\ UNCHANGED <<worker, lock, pool, cancelled, done, owed, missed>>

-----------------------------------------------------------------------------
(* The worker loop of CreateThread.                                        *)

\* unique_lock lock(mutex_), also on the way out of cv.wait.
Lock(t) ==
    /\ Goto(t, "lock", "predicate")
    /\ mutex = None
    /\ mutex' = t
    /\ UNCHANGED <<job, read, pool, caller, done, history>>

\* The predicate of cv.wait, evaluated under the mutex.
Predicate(t) ==
    /\ Goto(t, "predicate", IF running /\ tasks = <<>> THEN "block"
                                                      ELSE "decide")
    /\ UNCHANGED <<job, lock, pool, caller, done, history>>

\* The predicate was false: join the waiters and release the mutex at once.
Block(t) ==
    /\ Goto(t, "block", "waiting")
    /\ mutex' = None
    /\ UNCHANGED <<job, read, pool, caller, done, history>>

\* A condition variable may wake a thread without a notification.
WakeSpuriously(t) ==
    /\ Goto(t, "waiting", "lock")
    /\ UNCHANGED <<job, lock, pool, caller, done, history>>

\* The test after the wait reads is_running_ again.
Quit(t) ==
    /\ Goto(t, "decide", "load")
    /\ ~running /\ tasks = <<>>
    /\ UNCHANGED <<job, lock, pool, caller, done, history>>

Take(t) ==
    /\ Goto(t, "decide", "run")
    /\ tasks # <<>>
    /\ job' = [job EXCEPT ![t] = Head(tasks)]
    /\ tasks' = Tail(tasks)
    /\ mutex' = None
    /\ UNCHANGED <<read, running, completed, threads, caller, done, history>>

\* is_running_ became true between the two reads: front() and pop() on an
\* empty queue.  What follows is undefined; the thread goes no further here
\* and keeps the mutex.
TakeFromEmpty(t) ==
    /\ Goto(t, "decide", "undefined")
    /\ running /\ tasks = <<>>
    /\ UNCHANGED <<job, lock, pool, caller, done, history>>

\* completed_count_.store(completed_count_.load() + 1): a load ...
LoadCount(t) ==
    /\ Goto(t, "load", "store")
    /\ read' = completed
    /\ UNCHANGED <<job, mutex, pool, caller, done, history>>

\* ... and a store, after which the thread unlocks and returns.
StoreCount(t) ==
    /\ Goto(t, "store", "exited")
    /\ completed' = read + 1
    /\ mutex' = None
    /\ UNCHANGED <<job, read, tasks, running, threads, caller, done, history>>

\* task() returns.  A timer's body loops until its handle is reset.
Finish(t) ==
    /\ Goto(t, "run", "lock")
    /\ job[t] \in Timer => job[t] \in cancelled
    /\ done' = done \cup {job[t]}
    /\ job' = [job EXCEPT ![t] = None]
    /\ UNCHANGED <<lock, pool, caller, history>>

-----------------------------------------------------------------------------
(* Add, under the mutex, and the handle of a timer.                        *)

NotifyOne ==
    \/ /\ At("waiting") = {}
       /\ UNCHANGED pc
    \/ \E t \in At("waiting") : pc' = [pc EXCEPT ![t] = "lock"]

Add(k) ==
    /\ k \notin Submitted
    /\ mutex = None
    /\ tasks' = Append(tasks, k)
    /\ NotifyOne
    /\ UNCHANGED <<job, lock, running, completed, threads, caller, done,
                   gaveUp, missed>>

\* RunInBackground or StartBackgroundTimer from a thread of the application.
AddFromOutside(k) ==
    /\ Add(k)
    /\ owed' = IF running THEN owed \cup {k} ELSE owed

\* The same from a task of the pool: a file write follows a fetch this way.
AddFromTask(t, k) ==
    /\ pc[t] = "run"
    /\ k \notin Timer
    /\ Add(k)
    /\ owed' = owed \cup {k}

\* BackgroundTimerHandle::Reset, also run by the handle's destructor.
Cancel(k) ==
    /\ k \in Submitted \ cancelled
    /\ cancelled' = cancelled \cup {k}
    /\ UNCHANGED <<worker, lock, pool, ctl, result, done, history>>

-----------------------------------------------------------------------------
(* Start: ThreadPool::Reset.  A pool that runs is left alone.              *)

StartReset ==
    /\ ctl = "idle" /\ ~running
    /\ \E T \in SUBSET At("unborn") : Cardinality(T) = PoolSize
    /\ ctl' = "starting"
    /\ result' = "none"
    /\ threads' = {}
    /\ completed' = 0
    /\ UNCHANGED <<worker, lock, tasks, running, cancelled, done, history>>

StartRun ==
    /\ ctl = "starting"
    /\ running' = TRUE
    /\ ctl' = "spawning"
    /\ UNCHANGED <<worker, lock, tasks, completed, threads, result,
                   cancelled, done, history>>

\* The threads are created one after the other; which of them runs first is
\* left to the scheduler either way.
StartThreads ==
    /\ ctl = "spawning"
    /\ \E T \in SUBSET At("unborn") :
          /\ IsFiniteSet(T) /\ Cardinality(T) = PoolSize
          /\ threads' = T
          /\ pc' = [t \in Thread |-> IF t \in T THEN "lock" ELSE pc[t]]
    /\ ctl' = "idle"
    /\ UNCHANGED <<job, lock, tasks, running, completed, result, cancelled,
                   done, history>>

-----------------------------------------------------------------------------
(* Shutdown.                                                               *)

StopStore ==
    /\ ctl = "idle"
    /\ running' = FALSE
    /\ ctl' = "notify"
    /\ UNCHANGED <<worker, lock, tasks, completed, threads, result,
                   cancelled, done, history>>

\* notify_all, without the mutex.
StopNotify ==
    /\ ctl = "notify"
    /\ pc' = [t \in Thread |-> IF pc[t] = "waiting" THEN "lock" ELSE pc[t]]
    /\ missed' = At("block")
    /\ ctl' = "poll"
    /\ UNCHANGED <<job, lock, pool, result, cancelled, done, gaveUp, owed>>

AllCounted == completed = Cardinality(threads)

\* The polling loop ends when every thread has been counted, or on the
\* timeout, which may strike at any moment.
StopPoll ==
    /\ ctl = "poll"
    /\ ctl' = "check"
    /\ UNCHANGED <<worker, lock, pool, result, cancelled, done, history>>

\* completed_count_ is loaded once more after the loop.
StopJoin ==
    /\ ctl = "check" /\ AllCounted
    /\ ctl' = "joining"
    /\ UNCHANGED <<worker, lock, pool, result, cancelled, done, history>>

StopDetach ==
    /\ ctl = "check" /\ ~AllCounted
    /\ ctl' = "idle"
    /\ result' = "failed"
    /\ threads' = {}
    /\ gaveUp' = (gaveUp \/ threads # {})
    /\ UNCHANGED <<worker, lock, tasks, running, completed, cancelled, done,
                   owed, missed>>

\* join() returns for each thread once it has left its function.
StopJoined ==
    /\ ctl = "joining"
    /\ threads \subseteq At("exited")
    /\ ctl' = "idle"
    /\ result' = "ok"
    /\ threads' = {}
    /\ UNCHANGED <<worker, lock, tasks, running, completed, cancelled, done,
                   history>>

-----------------------------------------------------------------------------
Work(t) == \/ Predicate(t) \/ Block(t) \/ Quit(t) \/ Take(t)
           \/ TakeFromEmpty(t) \/ LoadCount(t) \/ StoreCount(t) \/ Finish(t)

Call == \/ StartRun \/ StartThreads
        \/ StopNotify \/ StopPoll \/ StopJoin \/ StopDetach \/ StopJoined

Next ==
    \/ \E t \in Thread : Lock(t) \/ Work(t) \/ WakeSpuriously(t)
    \/ \E k \in Task : AddFromOutside(k)
    \/ \E t \in Thread, k \in Task : AddFromTask(t, k)
    \/ \E k \in Timer : Cancel(k)
    \/ StartReset \/ StopStore \/ Call

Spec == Init /\ [][Next]_vars

\* The scheduler lets every thread run, the mutex starves nobody, a task
\* other than a timer returns, and a call that has begun goes on.  Nothing
\* obliges the application to add, cancel, start or stop anything.
Fairness ==
    /\ \A t \in Thread : SF_vars(Lock(t)) /\ WF_vars(Work(t))
    /\ WF_vars(Call)

FairSpec == Spec /\ Fairness

-----------------------------------------------------------------------------
Locations == {"unborn", "lock", "predicate", "block", "waiting", "decide",
              "run", "load", "store", "exited", "undefined"}

TypeOK ==
    /\ pc \in [Thread -> Locations]
    /\ job \in [Thread -> Task \cup {None}]
    /\ mutex \in Thread \cup {None}
    /\ read \in Nat
    /\ tasks \in Seq(Task)
    /\ running \in BOOLEAN
    /\ completed \in Nat
    /\ threads \subseteq Thread
    /\ ctl \in {"idle", "starting", "spawning", "notify", "poll", "check",
                "joining"}
    /\ result \in {"none", "ok", "failed"}
    /\ cancelled \subseteq Timer
    /\ done \subseteq Task
    /\ gaveUp \in BOOLEAN
    /\ owed \subseteq Task
    /\ missed \subseteq Thread

\* No task is lost, copied or run twice, whatever threads of earlier
\* generations still draw from the queue: each submitted task is in exactly
\* one place, and the pool is a TaskService.
Service == INSTANCE TaskService
             WITH line <- tasks, active <- Held, ended <- done
IsTaskService == Service!Spec

\* A Shutdown that returns true has run everything it owed: what was added
\* before it began, and what those tasks added meanwhile.  (Only until a
\* Shutdown has given up on a thread.)
ShutdownDrains ==
    result = "ok" /\ ctl = "idle" /\ ~gaveUp => owed \subseteq done

\* A Shutdown that returns true leaves no thread behind, so nothing of the
\* SDK runs after it.  (Only until a Shutdown has given up on a thread.)
ShutdownStopsAll ==
    result = "ok" /\ ctl = "idle" /\ ~gaveUp => Alive = {}

\* When Shutdown goes on to join(), every thread has left its loop, so the
\* timeout it was given holds.  (Only until a Shutdown has given up.)
JoinDoesNotBlock ==
    ctl = "joining" /\ ~gaveUp => threads \subseteq At("exited")

\* front() is called on an empty queue only by a pool that was started again
\* after a Shutdown gave up on a thread.
EmptyTakeNeedsZombie == At("undefined") # {} => gaveUp

\* After notify_all the only workers asleep are those that were between the
\* predicate and the wait when it came: is_running_ is written without the
\* mutex, so such a worker sleeps through the shutdown.
SleepersMissedNotify ==
    ~running /\ ctl # "notify" => At("waiting") \subseteq missed

\* Reset never destroys a std::thread that is still joinable, which would
\* end the process: a pool that is not running holds no threads outside a
\* Shutdown.
ResetFindsNoThreads ==
    ~running /\ ctl \in {"idle", "starting"} => threads = {}

\* A task in the queue of a running pool is run, unless timers hold every
\* worker.  (Only until a Shutdown has given up on a thread.)
Starved == threads # {} /\ \A t \in threads : job[t] \in Timer \ cancelled
TaskRuns ==
    \A k \in Task \ Timer :
        k \in Queued ~> k \in done \/ ~running \/ Starved \/ gaveUp

\* Once Shutdown has notified, every worker leaves, unless it missed the
\* notification or a timer was not cancelled.
WorkersLeave ==
    \A t \in Thread :
        ctl = "poll" /\ t \in Alive ~>
            \/ pc[t] \in {"exited", "undefined"} \/ t \in missed
            \/ running \/ \E k \in Timer : k \in Submitted \ cancelled
-----------------------------------------------------------------------------
(* The inductive invariant behind the properties, proved in                *)
(* ThreadPoolProofs.                                                       *)

\* The mutex and the threads agree on who holds it.
Critical == {"predicate", "block", "decide", "load", "store", "undefined"}
MutexInv == \A t \in Thread : pc[t] \in Critical <=> mutex = t

\* The threads that hold a task are those that run one.
JobInv == \A t \in Thread : job[t] # None <=> pc[t] = "run"

\* Every submitted task is in one place.
PlaceInv ==
    /\ \A s, t \in Thread : job[s] = job[t] /\ job[s] # None => s = t
    /\ \A i, j \in DOMAIN tasks : tasks[i] = tasks[j] => i = j
    /\ Queued \cap done = {}
    /\ Held \cap (Queued \cup done) = {}

\* Who sleeps while the pool is stopped, or is about to.
SleepInv ==
    ~running /\ ctl # "notify" => At("waiting") \cup At("block") \subseteq missed

\* How the two flags, the vector and the call in progress fit together.
CallInv ==
    /\ running => ctl \in {"idle", "spawning"}
    /\ running /\ ctl = "idle" => threads # {}
    /\ ~running /\ ctl \in {"idle", "starting"} => threads = {}
    /\ ctl = "spawning" => running /\ threads = {}
    /\ ctl \in {"starting", "spawning"} => result = "none"
    /\ result = "ok" => threads = {} /\ ~running
    /\ IsFiniteSet(threads)
    /\ threads \cap At("unborn") = {}

\* No worker leaves while the queue holds a task, and every task owed is
\* still in sight.
QueueInv ==
    /\ At("load") \cup At("store") # {} => tasks = <<>>
    /\ owed \subseteq Submitted

\* What holds until a Shutdown gives up.  All live threads are in the vector,
\* and none of them leaves, or meets an empty queue, while the pool runs.
WorkersInv ==
    /\ \A t \in Thread : /\ pc[t] # "undefined"
                         /\ pc[t] \notin {"unborn", "exited"} => t \in threads
    /\ running => \A t \in Thread :
          /\ t \in threads => pc[t] \notin {"load", "store", "exited"}
          /\ pc[t] = "decide" => tasks # <<>>

\* The count counts the threads of the vector that have left.
Gone == {t \in threads : pc[t] = "exited"}
CountInv ==
    /\ threads # {} => completed = Cardinality(Gone)
    /\ \A t \in Thread : pc[t] = "store" => read = completed
    /\ ctl \in {"starting", "spawning"} => completed = 0
    /\ ctl = "joining" => Gone = threads

\* A task that is owed has a worker left to run it.
OwedInv == owed \cap Queued # {} => running \/ Gone # threads

OneGeneration == WorkersInv /\ CountInv /\ OwedInv

PoolInv ==
    /\ TypeOK /\ JobInv /\ MutexInv /\ PlaceInv
    /\ SleepInv /\ CallInv /\ QueueInv
    /\ ~gaveUp => OneGeneration
=============================================================================
