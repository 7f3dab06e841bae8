------------------------------ MODULE Sessions ------------------------------
(***************************************************************************)
(* The sessions of one StatsigClient, from an Initialize to a Shutdown or  *)
(* to the next Initialize, and what outlives them: the Diagnostics         *)
(* instance that is registered for the SDK key, the error boundary of each *)
(* context, and the work that UpdateUser leaves to the worker threads,     *)
(* which can go on after a Shutdown that ran out of time.                  *)
(*                                                                         *)
(* One thread of the application makes the calls.  A job is what an update *)
(* leaves to the workers: the task that fetches the values, and the task   *)
(* that writes them to a file and ends in the callback.  The attempts of a *)
(* request count as one (see NetworkService), and what becomes of the      *)
(* values is in UserUpdate.  The application's callbacks do not throw.     *)
(*                                                                         *)
(* A definition Bad... is the one after it with a plausible mistake, which *)
(* the properties are there to catch.  None is a part of Next.             *)
(***************************************************************************)
EXTENDS Integers, FiniteSets, Sequences

CONSTANTS Kind,        \* "sync" and "async": the calls that are made
          MaxSessions, \* bound: contexts in a run
          MaxJobs,     \* bound: updates in a run, those of Initialize too
          MaxMarkers,  \* kMaxDiagnosticsMarkers, 30 in the code
          None

ASSUME SessionsAssumption ==
    /\ Kind \subseteq {"sync", "async"}
    /\ MaxSessions \in Nat /\ MaxJobs \in Nat /\ MaxMarkers \in Nat

Session == 1 .. MaxSessions
Job == 1 .. MaxJobs
Mark == {"OverallStart", "OverallEnd", "NetworkStart", "NetworkEnd",
         "ProcessStart", "ProcessEnd"}
Error == {"exception", "UnexpectedError", "JsonFailureDataAdapterResult",
          "JsonFailureInitializeResponse", "NetworkError"}

ASSUME NoneAssumption == None \notin Error \cup {"clean", "timeout"}

VARIABLES
    app,       \* where the application's thread is
    context,   \* the session of context_, 0 for none
    sessions,  \* how many contexts there have been
    hold,      \* the instances a session's logger and adapter use, and the
               \* one Initialize marks
    inst,      \* the Diagnostics instances: how many markers, and of whom
    reg,       \* the instance that is registered for the key, 0 for none
    job,       \* the updates; `held` says who keeps the context alive: the
               \* task the job is at, or after that the one that fetched
    reports,   \* how often a session's error boundary has reported an error
    \* History, read by the properties only:
    strays,    \* the instances that a worker has registered
    ended      \* how the sessions ended: None, "clean", "timeout"

registry == <<inst, reg, strays>>
vars == <<app, context, sessions, hold, registry, job, reports, ended>>

NewJob == [stage |-> "new", session |-> 0, kind |-> None, init |-> FALSE,
           held |-> "no", code |-> None, calls |-> 0]

Idle == [at |-> "idle", for |-> None, session |-> 0, job |-> 0]

Init ==
    /\ app = Idle
    /\ context = 0 /\ sessions = 0
    /\ hold = [s \in Session |-> [logger |-> 0, adapter |-> 0, init |-> 0]]
    /\ inst = <<>> /\ reg = 0 /\ strays = {}
    /\ job = [j \in Job |-> NewJob]
    /\ reports = [s \in Session |-> [e \in Error |-> 0]]
    /\ ended = [s \in Session |-> None]

-----------------------------------------------------------------------------
(* Diagnostics and ErrorBoundary.                                          *)

\* Which markers the properties tell apart.
Kept(m) == IF m \in {"OverallStart", "ProcessEnd"} THEN m ELSE "other"

\* Planted bug: no limit.
BadMarked(d, s, m) == [size |-> d.size + 1, of |-> d.of \cup {<<s, Kept(m)>>}]

\* Diagnostics::Mark, under the lock of the instance; `size > max` lets one
\* marker more than the limit in.
Marked(d, s, m) ==
    IF d.size > MaxMarkers THEN d
    ELSE [size |-> d.size + 1, of |-> d.of \cup {<<s, Kept(m)>>}]
MarkIn(i, s, m) == inst' = [inst EXCEPT ![i] = Marked(@, s, m)]

Empty == [size |-> 0, of |-> {}]

\* Diagnostics::AppendEvent takes the markers there are.
AppendEvent(i) == inst' = [inst EXCEPT ![i] = Empty]

\* Planted bug: the new instance is not registered.
BadAdd(i) == reg' = reg

\* Shareable::Add.
Add(i) == reg' = i

\* Planted bug: reports what it has seen.
BadLogErrors(s, names) ==
    reports' = [reports EXCEPT ![s] =
                  [e \in Error |-> IF e \in names THEN @[e] + 1 ELSE @[e]]]

\* LogError for errors of one context: each is reported when it is first seen.
LogErrors(s, names) ==
    reports' = [reports EXCEPT ![s] =
                  [e \in Error |-> IF e \in names /\ @[e] = 0 THEN 1 ELSE @[e]]]

\* HandleBadResult: a code that is not reported has no name here.
Reported(code) == {code} \cap Error

-----------------------------------------------------------------------------
(* The calls of the application.                                           *)

Call(j, s, k, init, for) ==
    /\ app' = [at |-> "get", for |-> for, session |-> s, job |-> j]
    /\ job' = [job EXCEPT ![j] = [NewJob EXCEPT !.stage = "called", !.session = s,
                                                !.kind = k, !.init = init]]

NextJob(j) == /\ job[j].stage = "new"
              /\ \A i \in Job : i < j => job[i].stage # "new"

\* InitializeSync and InitializeAsync, also of a client that has a context.
Initialize(j) ==
    /\ app = Idle /\ sessions < MaxSessions /\ NextJob(j)
    /\ sessions' = sessions + 1
    /\ \E k \in Kind : Call(j, sessions', k, TRUE, "service")
    /\ UNCHANGED <<context, hold, registry, reports, ended>>

\* UpdateUserSync and UpdateUserAsync.
UpdateUser(j) ==
    /\ app = Idle /\ context # 0 /\ NextJob(j)
    /\ \E k \in Kind : Call(j, context, k, FALSE, "user")
    /\ UNCHANGED <<context, sessions, hold, registry, reports, ended>>

\* Whom the thread gets the instance for: the context's NetworkService, its
\* EventLogger and the adapter's NetworkService, all made by StatsigContext;
\* then Initialize itself, which marks OverallStart, and SetUser.
Got(i) ==
    LET s == app.session
        next == [service |-> "logger", logger |-> "adapter", adapter |-> "init",
                 init |-> "user"]
    IN  /\ app' = IF app.for = "user" THEN [app EXCEPT !.at = "lookup"]
                  ELSE [app EXCEPT !.at = "get", !.for = next[app.for]]
        /\ hold' = IF app.for \in {"logger", "adapter", "init"}
                   THEN [hold EXCEPT ![s][app.for] = i] ELSE hold
        /\ context' = IF app.for = "adapter" THEN s ELSE context

\* Diagnostics::Get finds an instance ...
GetFinds ==
    /\ app.at = "get" /\ reg # 0
    /\ Got(reg)
    /\ IF app.for = "init" THEN MarkIn(reg, app.session, "OverallStart")
                           ELSE UNCHANGED inst
    /\ UNCHANGED <<sessions, reg, strays, job, reports, ended>>

\* ... or does not, ...
GetMisses ==
    /\ app.at = "get" /\ reg = 0
    /\ app' = [app EXCEPT !.at = "add"]
    /\ UNCHANGED <<context, sessions, hold, registry, job, reports, ended>>

\* ... and registers a new one, whatever has been registered since.
GetAdds ==
    /\ app.at = "add"
    /\ LET i == Len(inst) + 1 IN
       /\ inst' = Append(inst, IF app.for = "init"
                               THEN Marked(Empty, app.session, "OverallStart")
                               ELSE Empty)
       /\ Add(i)
       /\ Got(i)
    /\ UNCHANGED <<sessions, strays, job, reports, ended>>

\* GetDataSync, and the task is added.  Its code goes back to the caller of a
\* sync call only, who reports it in each frame.
Lookup ==
    LET j == app.job  s == app.session  c == job[j] IN
    /\ app.at = "lookup"
    /\ \E found \in {"Ok", "JsonFailureDataAdapterResult"} :
          LET code == IF c.kind = "sync" THEN found ELSE None IN
          /\ job' = [job EXCEPT ![j].stage = "queued", ![j].code = code]
          /\ LogErrors(s, Reported(code))
    /\ app' = IF c.kind = "sync" /\ c.init THEN [app EXCEPT !.at = "end"] ELSE Idle
    /\ UNCHANGED <<context, sessions, hold, registry, ended>>

\* The file system throws.  Capture reports it, and calls back if the call
\* is async; InitializeSync reports the code that UpdateUserSync returns, too.
LookupThrows ==
    LET j == app.job  s == app.session  c == job[j] IN
    /\ app.at = "lookup"
    /\ job' = [job EXCEPT ![j].stage = "done", ![j].code = "exception",
                          ![j].calls = IF c.kind = "async" THEN 1 ELSE 0]
    /\ LogErrors(s, {"exception"} \cup
                    IF c.kind = "sync" /\ c.init THEN {"UnexpectedError"} ELSE {})
    /\ app' = IF c.init THEN [app EXCEPT !.at = "end"] ELSE Idle
    /\ UNCHANGED <<context, sessions, hold, registry, ended>>

\* OverallEnd, on the application's thread.
InitializeEnds ==
    /\ app.at = "end"
    /\ MarkIn(hold[app.session].init, app.session, "OverallEnd")
    /\ app' = Idle
    /\ UNCHANGED <<context, sessions, hold, reg, strays, job, reports, ended>>

Flush ==
    /\ app = Idle /\ context # 0
    /\ AppendEvent(hold[context].logger)
    /\ UNCHANGED <<app, context, sessions, hold, reg, strays, job, reports,
                   ended>>

Step(to) == app' = [Idle EXCEPT !.at = to]

\* Planted bug: does not flush.
BadShutdown ==
    /\ app = Idle /\ context # 0
    /\ Step("remove")
    /\ UNCHANGED <<context, sessions, hold, registry, job, reports, ended>>

\* Shutdown: the logger's first, ...
Shutdown ==
    /\ app = Idle /\ context # 0
    /\ AppendEvent(hold[context].logger)
    /\ Step("remove")
    /\ UNCHANGED <<context, sessions, hold, reg, strays, job, reports, ended>>

\* Planted bug: leaves the instance for the next session.
BadRemove ==
    /\ app.at = "remove"
    /\ Step("pool")
    /\ UNCHANGED <<context, sessions, hold, registry, job, reports, ended>>

\* ... then Diagnostics::Shutdown ...
Remove ==
    /\ app.at = "remove"
    /\ reg' = 0
    /\ Step("pool")
    /\ UNCHANGED <<context, sessions, hold, inst, strays, job, reports, ended>>

Over(j) == job[j].stage \in {"new", "done", "dropped", "swallowed"}
Waiting(j) == job[j].stage \in {"queued", "write"}
TimedOut == \E s \in Session : ended[s] = "timeout"

\* Planted bug: does not wait for what a task has added.
BadStopClean ==
    /\ app.at = "pool"
    /\ \A j \in Job : job[j].stage = "write" \/ Over(j)
    /\ ended' = [ended EXCEPT ![context] = "clean"]
    /\ Step("reset")
    /\ UNCHANGED <<context, sessions, hold, registry, job, reports>>

\* ... and AsyncHelper::Shutdown, which returns true when the threads have
\* left.  A thread leaves when it finds the queue empty; threads that a
\* Shutdown has given up on are not waited for (see ThreadPool).
StopClean ==
    /\ app.at = "pool"
    /\ \A j \in Job : ~ Waiting(j)
    /\ TimedOut \/ \A j \in Job : Over(j) /\ job[j].held = "no"
    /\ ended' = [ended EXCEPT ![context] = "clean"]
    /\ Step("reset")
    /\ UNCHANGED <<context, sessions, hold, registry, job, reports>>

StopTimesOut ==
    /\ app.at = "pool"
    /\ ended' = [ended EXCEPT ![context] = "timeout"]
    /\ Step("reset")
    /\ UNCHANGED <<context, sessions, hold, registry, job, reports>>

ResetContext ==
    /\ app.at = "reset"
    /\ context' = 0
    /\ app' = Idle
    /\ UNCHANGED <<sessions, hold, registry, job, reports, ended>>

-----------------------------------------------------------------------------
(* The jobs, on worker threads.                                            *)

Goto(j, stage) == job' = [job EXCEPT ![j].stage = stage]
At(j, stage) == job[j].stage = stage

\* weak_ctx.lock(): the client or another task still has the context.
Alive(s) == context = s \/ \E j \in Job : job[j].session = s /\ job[j].held # "no"

Start(j) ==
    /\ At(j, "queued")
    /\ job' = [job EXCEPT ![j] = IF Alive(@.session)
                                 THEN [@ EXCEPT !.stage = "request", !.held = "task"]
                                 ELSE [@ EXCEPT !.stage = "dropped"]]
    /\ UNCHANGED <<app, context, sessions, hold, registry, reports, ended>>

MarkJob(j, m) ==
    /\ MarkIn(hold[job[j].session].adapter, job[j].session, m)
    /\ UNCHANGED <<app, context, sessions, hold, reg, strays, reports, ended>>

\* FetchValues may throw, or refuse, before the first POST; the boundary around
\* it swallows that, and nobody calls back.
FetchThrows(j) ==
    /\ At(j, "request")
    /\ job' = [job EXCEPT ![j].stage = "swallowed", ![j].held = "no"]
    /\ UNCHANGED <<app, context, sessions, hold, registry, reports, ended>>

\* PostWithRetry, before the request ...
Request(j) == At(j, "request") /\ Goto(j, "post") /\ MarkJob(j, "NetworkStart")

\* ... and after it.  A status that is not good goes straight to the callback,
\* as an error if it is 500 or more.
Respond(j) ==
    /\ At(j, "post")
    /\ \E to \in {"process", "NetworkFailureBadStatusCode", "NetworkError"} :
          Goto(j, to)
    /\ MarkJob(j, "NetworkEnd")

\* HandleFetchValuesResponse: an answer that does not parse ends here; one with
\* nothing new (a 204, or no updates) goes on to the end.  New values are cached:
\* WriteToCacheFile makes room for them and adds the task that writes, or the
\* file system throws, for the boundary around FetchValues to swallow.
Process(j) ==
    /\ At(j, "process")
    /\ \/ \E to \in {"unparsed", "end"} : Goto(j, to)
       \/ job' = [job EXCEPT ![j].stage = "write", ![j].held = "fetch"]
       \/ job' = [job EXCEPT ![j].stage = "swallowed", ![j].held = "no"]
    /\ MarkJob(j, "ProcessStart")

Unparsed(j) == /\ At(j, "unparsed")
               /\ Goto(j, "JsonFailureInitializeResponse")
               /\ MarkJob(j, "ProcessEnd")

\* The task that fetched returns, and lets go of the context; the task that
\* writes has no part in it.
Return(j) ==
    /\ job[j].held = "fetch"
    /\ job' = [job EXCEPT ![j].held = "no"]
    /\ UNCHANGED <<app, context, sessions, hold, registry, reports, ended>>

Write(j) ==
    /\ At(j, "write")
    /\ Goto(j, "end")
    /\ UNCHANGED <<app, context, sessions, hold, registry, reports, ended>>

\* GetDataAsync marks the end in the instance that is registered by now ...
EndFinds(j) ==
    /\ At(j, "end") /\ reg # 0
    /\ MarkIn(reg, job[j].session, "ProcessEnd")
    /\ Goto(j, "Ok")
    /\ UNCHANGED <<app, context, sessions, hold, reg, strays, reports, ended>>

EndMisses(j) ==
    /\ At(j, "end") /\ reg = 0
    /\ Goto(j, "add")
    /\ UNCHANGED <<app, context, sessions, hold, registry, reports, ended>>

\* ... or in one of its own.
EndAdds(j) ==
    /\ At(j, "add")
    /\ LET i == Len(inst) + 1 IN
       /\ inst' = Append(inst, Marked(Empty, job[j].session, "ProcessEnd"))
       /\ Add(i)
       /\ strays' = strays \cup {i}
    /\ Goto(j, "Ok")
    /\ UNCHANGED <<app, context, sessions, hold, reports, ended>>

\* The task lets go of the context, if it is the task that has it.
Let(held) == IF held = "task" THEN "no" ELSE held

Answered == {"Ok", "JsonFailureInitializeResponse",
             "NetworkFailureBadStatusCode", "NetworkError"}

\* Planted bug: an update that failed is not called back.
BadCallBack(j) ==
    /\ job[j].stage = "Ok" /\ job[j].kind = "async"
    /\ job' = [job EXCEPT ![j].stage = "done", ![j].held = Let(@),
                          ![j].code = "Ok", ![j].calls = @ + 1]
    /\ UNCHANGED <<app, context, sessions, hold, registry, reports, ended>>

\* The callback of UpdateUserAsync; that of InitializeAsync marks OverallEnd.
CallBack(j) ==
    LET c == job[j]  s == job[j].session IN
    /\ c.stage \in Answered /\ c.kind = "async" /\ Alive(s)
    /\ job' = [job EXCEPT ![j].stage = "done", ![j].held = Let(@),
                          ![j].code = c.stage, ![j].calls = @ + 1]
    /\ LogErrors(s, Reported(c.stage))
    /\ IF c.init THEN MarkIn(hold[s].init, s, "OverallEnd") ELSE UNCHANGED inst
    /\ UNCHANGED <<app, context, sessions, hold, reg, strays, ended>>

\* The context has gone: nobody is called.
NoCallBack(j) ==
    LET c == job[j] IN
    /\ c.stage \in Answered /\ c.kind = "async" /\ ~ Alive(c.session)
    /\ job' = [job EXCEPT ![j].stage = "dropped"]
    /\ UNCHANGED <<app, context, sessions, hold, registry, reports, ended>>

\* UpdateUserSync has no callback, and what its job comes to goes unreported.
Refreshed(j) ==
    /\ job[j].stage \in Answered /\ job[j].kind = "sync"
    /\ job' = [job EXCEPT ![j].stage = "done", ![j].held = Let(@)]
    /\ UNCHANGED <<app, context, sessions, hold, registry, reports, ended>>

Work(j) ==
    \/ Start(j) \/ Request(j) \/ Respond(j) \/ Process(j) \/ Unparsed(j)
    \/ FetchThrows(j) \/ Return(j) \/ Write(j)
    \/ EndFinds(j) \/ EndMisses(j) \/ EndAdds(j)
    \/ CallBack(j) \/ NoCallBack(j) \/ Refreshed(j)
Calls ==
    \/ \E j \in Job : Initialize(j) \/ UpdateUser(j)
    \/ GetFinds \/ GetMisses \/ GetAdds \/ Lookup \/ LookupThrows \/ InitializeEnds
    \/ Flush \/ Shutdown \/ Remove \/ StopClean \/ StopTimesOut \/ ResetContext
Next == Calls \/ \E j \in Job : Work(j)
Spec == Init /\ [][Next]_vars

\* The threads of the pool go on with the tasks they have.
FairSpec == Spec /\ \A j \in Job : WF_vars(Work(j))
-----------------------------------------------------------------------------
(* Properties.                                                             *)

\* Every variable has its type; an instance has one marker more than
\* kMaxDiagnosticsMarkers at the most.
TypeOK ==
    /\ context \in 0 .. sessions /\ sessions \in 0 .. MaxSessions
    /\ reg \in 0 .. Len(inst) /\ strays \subseteq 1 .. Len(inst)
    /\ \A i \in 1 .. Len(inst) :
          /\ inst[i].size \in 0 .. MaxMarkers + 1
          /\ inst[i].of \subseteq Session \X {Kept(m) : m \in Mark}
    /\ \A s \in Session, w \in {"logger", "adapter", "init"} :
          hold[s][w] \in 0 .. Len(inst)
    /\ \A j \in Job : /\ job[j].session \in 0 .. MaxSessions
                      /\ job[j].held \in {"no", "task", "fetch"}
    /\ reports \in [Session -> [Error -> Nat]]
    /\ ended \in [Session -> {None, "clean", "timeout"}]

\* The logger of a context flushes the instance that Initialize and the
\* adapter's requests mark, although each gets it for itself and Get is not
\* atomic; unless work that outlived a session registered one in between.
OneDiagnostics ==
    \A s \in Session :
        LET all == {hold[s].logger, hold[s].adapter, hold[s].init}
        IN  0 \in all \/ Cardinality(all) = 1 \/ all \cap strays # {}

\* Between two sessions that a Shutdown separates: the later one reports no
\* marker of the earlier one in its diagnostics event, but for the ProcessEnd
\* of work that outlived it.
NoForeignMarkers ==
    context # 0 =>
        \A x \in inst[hold[context].logger].of :
            (\E s \in x[1] .. context - 1 : ended[s] # None)
                => x[2] = "ProcessEnd"

\* Shutdown sends the markers there are: none of Initialize is left behind
\* in the instance the logger flushes.
DiagnosticsSent ==
    \A s \in Session :
        ended[s] # None /\ hold[s].init = hold[s].logger
            => <<s, "OverallStart">> \notin inst[hold[s].logger].of

\* The callback of an async call is made once at most, however its work goes,
\* and before a Shutdown says that it was clean; unless the fetch ended in an
\* exception (of the file system, or of the text of the request), or an earlier
\* Shutdown left threads behind.
AnsweredOnce ==
    \A j \in Job :
        LET s == job[j].session IN
        /\ job[j].calls <= 1
        /\ /\ job[j].kind = "async" /\ s # 0 /\ ended[s] = "clean"
           /\ \A t \in 1 .. s - 1 : ended[t] # "timeout"
           => job[j].calls = 1 \/ job[j].stage = "swallowed"

\* What a call told its caller or will have told its callback, and how the
\* errors of it that HandleBadResult does not ignore are called.
Names(c) == IF c.code = "exception" /\ c.kind = "sync" /\ c.init
            THEN {"exception", "UnexpectedError"} ELSE Reported(c.code)

\* A context reports each error it has told the application of, once, and
\* nothing else: a bad status below 500 is not reported, and a code that goes
\* through several frames or comes back in a later update is reported once.
ReportsTellFailures ==
    \A s \in Session, e \in Error :
        reports[s][e] = IF \E j \in Job : job[j].session = s /\ e \in Names(job[j])
                        THEN 1 ELSE 0

\* As long as a context is the client's, its async calls are called back in
\* the end: there is always a time when none of them waits.  Excepted are those
\* whose fetch ends in an exception, of the file system or of the text of the
\* request: their callbacks are lost (see FetchThrows and Process).
CallbackComes ==
    []<>(\A j \in Job :
            context = job[j].session /\ job[j].kind = "async"
                => job[j].stage \in {"new", "called", "done", "swallowed"})
=============================================================================
