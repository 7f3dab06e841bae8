# TLA+ models of the Statsig C++ client SDK

This directory specifies the concurrent core of the SDK in TLA+: the thread
pool all background work runs on, what happens when the user is updated, what
checks return and expose, what becomes of requests and of logged events, and
what outlives a session. TLC checks the models on small instances, and
TLAPS proves every safety property and both refinements for every instance.
Paths below are relative to the repository's `src/` directory.

## The system

A `StatsigClient` owns a `StatsigContext`: the user, the options, an
`EvaluationStore`, a data adapter, a network service and an event logger.
Instances of `AsyncHelper`, `Diagnostics`, `ErrorBoundary` and
`PlatformEventsHelper` are shared by SDK key, whatever the number of clients.

| Part | State | Operations | Interacts with |
| --- | --- | --- | --- |
| `ThreadPool`, `AsyncHelper` (`statsig_compat/async/async_helper.hpp`) | task queue, `is_running_`, `completed_count_`, the thread vector | `Add`, `Reset` (Start), `Shutdown(timeout)`, background timers | everything that runs in the background |
| `StatsigClient` (`statsig/internal/statsig_client.cpp`) | `context_` | Initialize, UpdateUser (sync and async), Shutdown, Flush, LogEvent, the checks | all of it |
| `EvaluationStore` | values, source | `Reset`, `SetValuesFromDataAdapterResult`, `Finalize`, lookups | written by application and workers |
| `StatsigEvaluationsDataAdapter` | memory cache, cache files | `GetDataSync`, `GetDataAsync` | network service, files, pool |
| `NetworkService` | session and stable ids | `FetchValues`, `SendEvents`, retries | blocking HTTP client |
| `EventLogger` | buffer, timer handle, failed-events file | `Enqueue`, `Flush`, `Shutdown`, retry | pool, network service, files, `Diagnostics` |
| `File`, `FileHelper` | the cache directory | read, write in the background, delete, evict | pool |
| `Diagnostics` | markers, one instance per key | `Get`, `Mark`, `AppendEvent`, `Shutdown` | client, logger, network service, data adapter |
| `ErrorBoundary` | errors seen | `Capture`, `HandleBadResult` | wraps every public call and `FetchValues` |
| `Shareable`, `StableID` | instances by key; the id | `Get`, `Add`, `Remove` | the shared helpers; requests |
| checks and layers | a layer's copy of the user and its logger | `GetFeatureGate`, `GetDynamicConfig`, `GetExperiment`, `GetLayer`, `Layer::GetValue` | store, user, logger |
| JSON, hashing, users | none | pure functions | store, adapter, network service |

What is hard in it:

- **Interleaving.** Five workers, the application's threads and a timer share
  the store (locked), the logger (locked), the user (not locked), the memory
  cache (not locked) and files (not locked). `Shutdown` and `Reset` touch the
  pool's flags without its mutex.
- **Stale state.** An answer can come back when its user is no longer the
  current one; a refresh reads the user when the worker gets to it.
- **Order and lifetime.** Tasks hold weak pointers and outlive contexts; a pool
  outlives clients and starts new generations while threads of older ones run.
- **Failure.** Requests fail or are refused, files are torn by crashes or by
  each other, the file system throws, `Shutdown` times out.

What makes each part correct is stated as properties in the modules; the
hazards they guard against are listed, with the line where each bites, in
`PROJECT.json`.

## Modules

| Module | What it models |
| --- | --- |
| `TaskService` | The abstract promise of a pool: tasks are begun in the order of submission, once each. |
| `ThreadPool` | `ThreadPool` and `AsyncHelper`. |
| `UserUpdate` | UpdateUser, the store, the data adapter with its caches, the requests for values. |
| `EventLogger` | Logging, flushing, sending, saving, sessions and crashes. |
| `Request` | The abstract promise of a request: answered at most once, "ok" only if the server took it. |
| `NetworkService` | The attempts of a request, lost answers, and the stable id in its file. |
| `Evaluation` | Checks and their exposures against a store that updates and answers change. |
| `Sessions` | Initialize to Shutdown: diagnostics, error reports, callbacks, and work that outlives its session. |
| `ThreadPoolProofs`, `UserUpdateProofs`, `EventLoggerProofs`, `NetworkServiceProofs`, `EvaluationProofs`, `SessionsProofs` | Theorems about the module of that name, and their proofs. |
| `MCThreadPool`, `MCUserUpdate`, `MCNetworkService`, `MCEvaluation` | Definitions of instances for TLC. |

How they fit together: `EventLogger`, `UserUpdate` and `Sessions` submit work to
the pool and use what `ThreadPool` shows of it (a queued task is taken; a
Shutdown that returns true has drained, unless an earlier one gave up).
`EventLogger`, `UserUpdate` and `Sessions` treat the attempts of a request as one
answer, which is what `NetworkService` implementing `Request` entitles them to.
What `Evaluation` takes from `UserUpdate` is no more than is shown there: what a
cache has for a user was computed for a user with the same ids, until a refresh
has taken two users for one. The worker's comparison of the users and its store
are two steps in both modules.

Each module carries *planted bugs* (`Bad...`): variants of its actions with a
plausible mistake, no part of `Next`. Each property is known to fail when the
variant takes the action's place.

### ThreadPool

`pc[t]` is where a thread is in the loop of `CreateThread`, `job[t]` its local
`task`, `ctl` where the caller of `Start` or `Shutdown` is. One action is one
access to shared state: locking, evaluating the predicate, going to sleep,
re-reading `is_running_` (`Quit`), popping (`Take`), and the two steps of
`completed_count_.store(completed_count_.load() + 1)`. `Shutdown` is
`StopStore`, `StopNotify`, then `StopPoll` (time passes), `StopJoin` or
`StopDetach`; `Reset` is `StartReset`, `StartRun`, `StartThreads`. The condition
variable wakes spuriously (`WakeSpuriously`), as the standard allows. Popping an
empty queue is undefined behaviour, an action of its own (`TakeFromEmpty`) after
which the thread's behaviour is not followed further. `Timer` tasks return only
once their handle is reset (`Cancel`).

The calls to `Start` and `Shutdown` come one at a time, as their unlocked vector
demands; `Add` comes from anywhere, also from tasks.

### UserUpdate

A user is `[id, rest]`: `id` is what `MakeCacheKey` hashes, both parts are what
`GetFullUserHash` hashes. A result is `full_user_hash`, the user and version its
data was computed for, and where it came from. `stage[c]` and `call[c]` are the
control and the locals of the c-th UpdateUser call, first on the application's
thread (`Begin` to `Submit`), then on the workers. The assignment to the
context's user is not atomic (`writing`): a worker that reads it meanwhile sees
each part old or new. The server is honest: it answers for the user of the
request and says "no updates" only to a client that names its current version.
A restart keeps the files and nothing else; a file whose writer was cut off is
`Torn` and does not parse.

A fetch can end in an exception before its POST or while the caches are pruned
(`FetchThrows`): the boundary in `FetchValues` swallows it, the callback is lost
and the store goes on loading (`stage` is "dropped").

`raced` records that an unsynchronised use of the context's user has gone wrong:
a refresh has copied two different users into its key, hash and request, or an
answer was compared with the user while the next update was assigning it, or
before that and stored after it. The properties about values hold until then.
Without the exemption TLC finds the violations within some twenty steps; they
are faults of the code (`statsig_client.cpp:145` and `:183`) that no document of
the repository denies, so they stand in the list of hazards.

### EventLogger

Events are numbers in the order of logging, a batch is known by its first event
and goes through the stages of its tasks: queued, sending, to be saved, waiting
for its write task, writing. `FlushImpl` includes the event `Diagnostics` adds.
Sessions share the pool, as sessions of one SDK key do. `ShutdownReturns` uses
what is proved of the pool: unless some Shutdown has given up on a thread, a pool
that returns true has run what it was given. `excused` records that two saves
have overlapped (each reads the file, and writes it in another task), that a file
did not open, or that the process died while the file was open: in these cases
the code loses payloads, and the properties say nothing.

The three callbacks made by the constructor (`RetryFailedEvents`, the timer, the
platform events) hold a `weak_from_this()` taken before a `shared_ptr` owned the
logger, so they return at once; the model has them do just that.

### NetworkService

Each context has two services, its own and the data adapter's, each with a
`StableID`. A request (`request[r]`) asks its service for the id (`Ask`, `ReadId`,
`MakeId`: the three steps of `StableID::Get`, which no lock joins), then goes
through its attempts. `Take` is the server taking it; the answer may be lost
after that or before, so a bad status or -1 says nothing about it. `Final` and
`Retryable` are the conditions of `PostWithRetry`: 408 and the listed 5xx are
tried again, a lost connection (-1) is not. Between the id and the first POST the
request is serialized (`Serialize`), and up to then it may end with nobody called
back (`EndUnsent`): `FetchValues` has its body in `Capture`, which swallows what
the file calls of `StableID` or `dump()` throw, and a bad code is not posted by
either function. An exception in `SendEvents`, outside any boundary, ends the
process (`Crash`). The file of the id is truncated when
it is opened and has its text when it is closed (`OpenIdFile`, `CloseIdFile`), and
a crash in between leaves an empty id, which the code then keeps for good.
`Request` is what a caller sees: `asked`, `taken` and `answer` are read off the
requests' stages, `Take`, the final answer and an end before the POST (`Drop`,
which the server cannot have taken) are its steps, ids and retries stutter.

### Evaluation

A response is known by the user it is for and the version of the project, which
is all the lookups and exposures depend on. A check is `Begin` (`INIT_GUARD`),
`CopyUser` for a layer, `LookupSpec` (one critical section of the store) and `Log`
(an exposure is made of the user the context has by then); `GetValue` of a layer
comes any time later and logs with what the layer's closure has copied.

Beside it the main thread updates the user: `UpdateUser` and `Assign` are begin and
end of an assignment without a lock, during which others read each part old or
new; then `Reset` and `LookupSync` or `LookupAsync`. Users are `[id, rest]`, and
`GetDataSync` finds by `id` only, so cached values may be for another user with the
same ids. `work[n]` is the worker of update n. That of `UpdateUserAsync` gets
an answer (values, a 204, nothing, or what `Deserialize` makes of a text with a
`Flaw`), compares the users (`CheckUser`), stores (`SetAnswer`) and finalizes
(`FinalizeAnswer`), each a step of its own; that of `UpdateUserSync` copies the user
for the key, the hash and the request, and may misfile what comes
(`CopyForKey`, `CopyAgain`). Fields asked for with `at()` end in
`JsonFailureInitializeResponse`, those asked for with the const `operator[]` have
no defined result.

`ExposureForUser` has three exemptions, each a fault of the code, recorded in
history: `overlapped`, another thread assigns the user during the check;
`overtaken`, an `UpdateUser` comes between a worker's comparison and its store
(`statsig_client.cpp:183-185`), after which the store holds the earlier user's values
until the next `Reset`; `misfiled`, a refresh has taken two users for one, after which
nothing is said of what comes from a cache. `origin` says how the store got its
values, and a check remembers it with what it has found.

### Sessions

`app` is where the application's thread is in a call, `job[j]` an update with what
it has left to the workers, `inst` the `Diagnostics` instances ever made and `reg`
the one registered. `Diagnostics::Get` is `GetFinds`, or `GetMisses` and `GetAdds`:
two critical sections. A context gets the instance three times while it is built
and `Initialize` once more; the data adapter gets it again at the end of a write,
which may be in a later session. `held` says whether a task keeps the context
alive, for that decides whether the callback is made (`CallBack`, `NoCallBack`).
A fetch that throws or refuses before its POST is `FetchThrows`: its callback is
lost ("swallowed").
`Shutdown` is the logger's flush, `Remove`, the pool's (`StopClean`,
`StopTimesOut`) and `ResetContext`; workers go on between any two of them and
after a time-out. `LogErrors` is the report of a context's error boundary for a
call, with what every frame of the call passes to it.

## Runs

| Run | Instance | What it shows |
| --- | --- | --- |
| `pool` | 4 threads, pools of 2, 2 tasks, 1 timer | `ShutdownDrains`, `ShutdownStopsAll`, `JoinDoesNotBlock`: what true means, before a Shutdown has given up. `EmptyTakeNeedsZombie`: only threads of an older generation make `front()` undefined. `SleepersMissedNotify`: only a thread caught between predicate and wait sleeps on. `ResetFindsNoThreads`. The inductive invariant `PoolInv`. `IsTaskService`: refinement, across generations. |
| `pool_fair` | 2 threads, 1 task, 2 timers | `TaskRuns`: each task is taken unless timers hold all workers. `WorkersLeave`: after Shutdown they exit unless one missed the notify. |
| `user` | 2 calls, 3 users, 2 versions, 1 restart, caches of 2 | `ValuesForUser`, `AnswerForUser`: never another user's values. `CachedUnderItsKey`, `HashNamesData`: caches stay usable for later lookups, sessions and "no updates". |
| `user_async` | 3 async calls, 2 users, caches of 1 | With two answers under way: `MemoryBounded`, and `ReadyWhenCalledBack`: the newest update's callback finds the store settled. |
| `user_fair` | 2 calls, 2 users | `LoadingEnds`. |
| `events` | 3 events, 2 sessions, 1 crash, buffer 1, 2 payloads | `ShutdownDelivers`, `SavedNotLost`, and with fair workers `FlushedIsSettled`. |
| `events_retry` | 2 events | *Violated*: failed events are retried next session. |
| `events_reported` | 2 events | *Violated*: events reported sent are with the server. |
| `network` | 2 fetches of 1 attempt, 1 post of events of 2, 2 contexts, 1 crash | `IsRequest`: refinement. `RequestsEnd`: what is posted is answered, unless the process dies. `OneId`: once an id is on file and nobody is about to change it, later contexts use it, whatever they do at once. `TypeOK` counts the attempts. |
| `checks` | 1 gate or layer, 2 threads, 2 users of 2 ids and 2 rests, 2 versions, 2 updates | `ExposureTellsResult`, `ExposureForUser`, `OwnSession`: exposures say what the check said, of whom, to whom, also when they are late. `DetailsTellSource`: evaluation and details are of one answer. `ValuesStay`: no answer takes values away. |
| `checks_missing` | the same | *Violated*: a response with missing fields is a JSON failure. |
| `sessions` | 2 sessions, 2 updates, limit of 2 markers | `OneDiagnostics`, `NoForeignMarkers`, `DiagnosticsSent`: whose markers are reported. `AnsweredOnce`, `CallbackComes`. `ReportsTellFailures`: what the boundary reports is what calls have returned, once. |

The violated runs are the `findings` of `PROJECT.json`: each states what a
message of the code or a test says and shows a run of the code in which it is false.

**Bounds.** Four threads in pools of two give two generations, hence every
situation of live threads of an old generation beside a new one, with two
threads that can interfere in each; two tasks and a timer suffice to tell order,
loss and copies. Two user updates show every interference of one update's
leftovers with another's call; the third call adds that of two leftovers. `u`,
`v`, `w` cover users with different keys and users with one key and different
hashes. A cache of one entry always evicts, one of two also meets a key that is
there. Three events and two payloads let one payload push out another. Two
fetches use one service at once and the post another, and two contexts and a
crash show every way an id can be handed on; two attempts, as the code has for
events, have a first, which may be followed by another, and a last, and a single
one is both (the code has three for fetches; the model treats the kinds of
requests alike but for that number, and the proofs are for any). In `Evaluation`
checks only read the store and touch each other nowhere, so one check shows what
many can, and since the code of configs and experiments has the form of that of
gates, a gate stands for them; two updates give a value and its replacement, a
worker and an update that overtakes it, or a session and another. The
application's two users differ in both parts, so that a half-assigned user is
neither, and the cache may hold values of one that shares only the ids. Two
sessions and two updates let each session be disturbed by the other's leftovers,
and with a limit of two markers (30 in the code) it is met. `MaxCalls`,
`MaxVersion`, `MaxRestarts`, `MaxEvents`, `MaxSessions`, `MaxCrashes`,
`MaxContexts`, `MaxChecks`, `MaxUpdates` and `MaxJobs` bound the runs in the
guards. Symmetry is used in `checks`, which has no liveness property: the two
users are alike to the module if both of their parts are exchanged together.
Deadlock is not checked: in every model the application may stop calling, and
the runs end at their bounds.

**Fairness.** The operating system runs every thread that can run: weak fairness
of each worker's steps and of a call in progress. The application owes nothing: calls, timer
cancellations and restarts have none. `EventLogger` and `UserUpdate` assume that
workers take every task in the end, which is `TaskRuns` of `ThreadPool` (it
excepts a pool whose workers all run timers), and that requests end, because the
HTTP client has timeouts; so do `RequestsEnd` and `CallbackComes`, each of whose
workers goes on with its own request or job. Fairness does not choose between a
POST and an end before it: what ends before it is never answered, and
`RequestsEnd`, `CallbackComes` and `LoadingEnds` except it by name.

**Assumptions.** One thread calls in `UserUpdate` and `Sessions`. In `Evaluation`
others check at any time, but not while `Initialize` or `Shutdown` changes
`context_`, which is not locked. Callbacks of the application do not throw and
make no calls. There is one client per SDK key.

## Proofs

Every module has its proofs in a module of its own, `...Proofs`. Each proves the
type invariant and all safety properties of the module's passing runs, for any
value of the constants that satisfies the module's named assumptions. The
assumptions give the bounds their types (a limit of the code at least one), say
that `None` and the like are no users, tasks or texts, and no more. Every run
evaluates them.

All the proofs have one form. None of the properties is inductive by itself, so
the module first defines an inductive invariant as a conjunction of named parts,
which TLC has checked on the instance of the module's run. A lemma for each
action shows that it keeps the invariant, and the theorems follow from the
invariant. Where an action sets one field of a record, or one record of a
function, a lemma of its own says what that leaves alone, and the others cite
it.

### ThreadPoolProofs

From `TaskAssumption` and `PoolSizeAssumption`, for any set of threads and tasks,
any pool size and any number of restarts: the safety properties of run `pool`,
and that `ThreadPool` implements `TaskService`.

The argument is in layers. Six parts of the invariant hold always: types with
who holds a job (`JobInv`), who holds the mutex (`MutexInv`), each submitted
task in one place (`PlaceInv`), who may sleep (`SleepInv`), what the caller
finds (`CallInv`), and that no worker leaves while the queue holds a task
(`QueueInv`). Each is proved inductive with the ones before it. The last,
`OneGeneration`, holds only until a Shutdown gives up on a thread, and it is
what makes `completed_count_` mean anything: all live threads are in the vector
(`WorkersInv`), the count is the number of those that have left (`CountInv`),
and a task that is owed has a worker that has not left (`OwedInv`). When
Shutdown sees the count equal to the vector's size all threads have left, so
with `OwedInv` nothing it owes is queued, and with `JobInv` nothing is in hand.
"Returns true only when drained" alone says nothing about the polling before.
The refinement maps the queue, the tasks in hand and those done to
`TaskService`; `Add`, `Take` and `Finish` are its steps, everything else
stutters.

### UserUpdateProofs

From `UserAssumption` and `BoundAssumption`, for any users, calls, versions,
restarts and size of the cache: `ValuesForUser`, `AnswerForUser`,
`CachedUnderItsKey`, `HashNamesData`, `MemoryBounded`, `ReadyWhenCalledBack`.

What the store holds is right because of what the calls carry, so most of the
invariant is about their locals, stage by stage: which are there (`CallOK`), and,
until an unsynchronised use has gone wrong, whose data they hold (`DataOK`): the
data of a call is for the user its key names, with that user's hash, and at the
final comparison (`stage` is "set") its initiator is the context's user. This
needs to know what the caches held before (`CachedOK` in memory and files) and
who can write the user when (`Turns`: the newest call has the application's thread,
and while it assigns the user no other call is between its comparison and its
store, unless raced). `ValuesOK` is what the two
properties of the store say, except `Between` the change of the user and Reset;
`NewestOK` ties the newest call to the context's user and to the state it leaves
the store in. `MemoryBounded` counts: the cache grows by one entry at the most and
evicts one when it is full.

### EventLoggerProofs

From `BoundAssumption` and `FileAssumption`, for any number of events, sessions and
crashes and any limits of the buffer and the file: `ShutdownDelivers` and
`SavedNotLost`.

`ShutdownDelivers` speaks of the end; its strengthening says of every state where
an event that is due may be (`Safe`): in the buffer of a session that runs, in a
batch queued in a session whose workers still take tasks, in a batch that is sent or
waits to be saved, in what a task is about to write, on the file, with the server,
refused, or pushed out. Each step hands the event on from one of these places
to another. For the file that holds only if at most one task is between reading
and writing it and carries all that the file has (`OneWriter`), which is what
`excused` gives up. When the Shutdown is over no work is left but of
events that were not due (`ClosedIsIdle`, from the pool's promise), which leaves the
places the property names.

### NetworkServiceProofs

From `RequestAssumption`, `CountAssumption` and `NoneAssumption`, for any
requests, statuses, retry counts, contexts and crashes: `OneId`, and that
`NetworkService` implements `Request`.

`Types` says what a request has at each stage: an attempt within its limit, a
service while it asks for the id, an answer once it is done. `OneId` needs that
once a context has found the file settled (an id in it, and nobody about to
write or to make one) it stays settled with the same id, since every later
request finds the file (`Inherited`). For the refinement `Ask` of a new request,
`Take`, the final answer, `EndUnsent` and `Crash` are steps of `Request`;
reading and making ids, files and retries are stutters, each shown to leave
`asked`, `taken` and `answer` as they were.

### EvaluationProofs

From `ThreadAssumption`, `UserAssumption` and `BoundAssumption`, for any users, threads and
kinds of checks, any number of checks and updates and any version that has the
specs: `ExposureTellsResult`, `ExposureForUser`, `DetailsTellSource`, `OwnSession`,
and the action property `ValuesStay`.

The invariant follows an answer on its way: the worker's is for the user it has
asked for, or one with the same ids if a cache gave it, and from the comparison to
the store this is the context's user unless the worker is overtaken (`WorkOK`); the
store's source and time are those of its values, and these may be named for the
current user as their origin allows, except between a change of the user and Reset
(`StoreOK`); a check that no UpdateUser overlaps has found values that may be named
for the user it will be logged with (`CheckOK`); and an exposure says what its check
has found and to which session (`LogOK`). `Named` is what an origin allows: exactly
the user for an answer, the ids for a cache, anything for values that were stored by
an overtaken worker or may be misfiled.

### SessionsProofs

From `SessionsAssumption` and `NoneAssumption`, for any number of sessions and updates and
any limit of markers: `OneDiagnostics`, `NoForeignMarkers`, `DiagnosticsSent`,
`AnsweredOnce`, `ReportsTellFailures`.

The first half of the invariant (`Control`) is where calls, jobs and the parts of
a context are, from which the two properties of callbacks and reports follow: a
clean Shutdown leaves no asynchronous job undone (`JobsOK`). The second
(`Instances`) is about `Diagnostics`: the registered instance is the newest or
none (`RegTypes`), while a context is built only a worker can put another in its
place (`RegOK`, `OneOK`), a session marks only instances it holds (`MarkOK`), and
what is registered after a Shutdown is newer than anything its session holds
(`PastOK`), hence so is the instance of any later logger (`NewerOK`). The last
two give `NoForeignMarkers`: a marker of an ended session would need an instance
that two sessions hold.

### Only model-checked

- Liveness: `TaskRuns`, `WorkersLeave`, `LoadingEnds`, `FlushedIsSettled`,
  `RequestsEnd`, `CallbackComes`. These need ENABLED and fairness.
- The three properties that the code violates: a theorem about them would be
  false, and the runs show the counterexamples.

## Not modelled

- The pool's destructor (shared instances live until the process exits).
- Exceptions on worker threads that no boundary takes end the process; the models have crashes at any
  point instead.
- Data races on the memory cache, `seen_` and `context_`; two application threads
  that update the user at once; string reads torn finer than the parts of a user.
- Two clients with one SDK key; an application's own data adapter, whose raw
  pointer each context wraps in a new `shared_ptr` (`statsig_context.hpp:34`); a
  callback that calls the client.
- The error boundaries of `NetworkService` and `StableID`, and the report of
  dangling threads, which is queued in the pool just shut down
  (`statsig_client.cpp:228`).
- The return of `SendEvents` without a POST (`network_service.hpp:93`) is in
  `NetworkService`, but not in `EventLogger`: only a request without metadata has a
  bad code, and every request has some.
- JSON text other than what flaws of a response lead to, hashing collisions,
  HTTP, log wording, platform events (empty functions).
- `task_runner.hpp`: dead code.

What the code does, the models show or leave out, and no property forbids:

- A second Shutdown of a pool that has stopped cleanly waits out its timeout and
  returns `ShutdownFailureDanglingThreads` (`async_helper.hpp:65`, `StopPoll`).
- Of two updates for equal users the older answer may arrive last and replace the
  newer (`statsig_client.cpp:185`); the memory cache keeps the entry it has
  (`statsig_evaluations_data_adapter.hpp:179`).
- Concurrent writes leave more cache files than the limit, because room is made
  when a write is queued (`file.hpp:57`); a failed write is reported as success
  (`file_helper.hpp:44`).
- A negative limit of the event queue is compared as unsigned and never flushes
  (`event_logger.hpp:40`).
- Saved events are written with `secondaryExposures` and would be read back with
  `secondary_exposures` (`statsig_event_json.hpp:22` and `:52`).
- A gate returned without a client has an uninitialized value
  (`statsig_types.h:53`), and such a layer's `GetValue` throws
  `bad_function_call`.
- In the first session the two services of a context may use two stable ids
  (`stable_id.hpp:23`).

## Plan

1. Done: `ThreadPool`, its abstraction and proofs; `UserUpdate`; `EventLogger`;
   `NetworkService` and `Request`; `Evaluation`; `Sessions`; and the proofs of
   their safety properties and refinements.
2. An abstract specification of the logger (each event logged has one fate:
   taken by the server, refused, saved, pushed out) and the proof that
   `EventLogger` implements it until excused; the same for what `UserUpdate`
   shows its caller.
3. `ClientLifecycle`: two clients of one key that initialize and shut down beside
   each other, composed with `TaskService`; `context_` read and reset by
   different threads.
