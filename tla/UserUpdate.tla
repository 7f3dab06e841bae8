----------------------------- MODULE UserUpdate -----------------------------
(***************************************************************************)
(* What happens from a call to UpdateUserSync or UpdateUserAsync (which    *)
(* InitializeSync and InitializeAsync end in) to its callback: the user of *)
(* the context, the EvaluationStore, and StatsigEvaluationsDataAdapter     *)
(* with its memory cache, its cache files and its requests to the server.  *)
(*                                                                         *)
(* One thread of the application makes the calls, one after the other.     *)
(* What they leave to AsyncHelper runs on worker threads, concurrently     *)
(* with later calls; the actions below are as fine as the shared objects   *)
(* they touch.  A user is [id, rest]: `id` is what MakeCacheKey hashes,    *)
(* `id` and `rest` together what GetFullUserHash hashes.                   *)
(***************************************************************************)
EXTENDS Integers, FiniteSets

CONSTANTS Id, Rest,     \* values of the two parts of a user
          AppUser,      \* the users the application names
          Kind,         \* the calls it makes: "sync", "async"
          MaxCalls,     \* bound: calls in a run
          MaxVersion,   \* bound: versions of the project on the server
          MaxRestarts,  \* bound: restarts of the process
          MaxCached,    \* kMaxCachedEvaluationsCount, 10 in the code
          None,
          Torn          \* what is in a file that is not all written

User == [id : Id, rest : Rest]
Call == 1 .. MaxCalls

\* DataAdapterResult: full_user_hash, the user and the project version its
\* data was computed for, received_at and source.
Result == [hash : User, for : User, ver : Nat, at : Nat,
           src : {"Network", "NetworkNotModified", "Cache"}]

ASSUME UserAssumption ==
    /\ AppUser \subseteq User /\ Kind \subseteq {"sync", "async"}
    /\ User # {} /\ None \notin User \cup Result
    /\ Torn \notin Result
ASSUME BoundAssumption ==
    /\ MaxCalls \in Nat /\ MaxVersion \in Nat /\ MaxRestarts \in Nat
    /\ MaxCached \in Nat \ {0}

VARIABLES
    user,      \* StatsigContext::user
    writing,   \* the user being assigned to it, field by field
    store,     \* EvaluationStore: values_ and source_info_.source
    mem,       \* in_memory_cache_: a function from some ids to results
    disk,      \* the cache files: a function from some ids to files
    now,       \* a clock that ticks when a result or a file is made
    server,    \* the version of the project the server answers with
    started,   \* how many calls have begun
    turn,      \* the call the application's thread is in, 0 between calls
    stage,     \* where each call is
    call,      \* the local variables of each call
    restarts,  \* how often the process has been restarted
    \* History, read by the properties only:
    raced,     \* an unsynchronised use of `user` has gone wrong
    setBy      \* whether the store got its values from a lookup or an answer

context == <<user, writing, store, setBy>>
cache == <<mem, disk, now>>
calls == <<started, turn>>
vars == <<context, cache, server, calls, stage, call, restarts, raced>>

-----------------------------------------------------------------------------
(* Results and caches.                                                     *)


With(f, x, v) == [y \in DOMAIN f \cup {x} |-> IF y = x THEN v ELSE f[y]]
Without(f, X) == [y \in DOMAIN f \ X |-> f[y]]

\* emplace: an entry that is there stays as it is.
Emplace(m, k, r) == IF k \in DOMAIN m THEN m ELSE With(m, k, r)

Oldest(m) == {k \in DOMAIN m : \A j \in DOMAIN m : m[k].at <= m[j].at}

\* A planted bug (see below): makes room one entry late.
BadAddToMemory(m, k, r) ==
    IF Cardinality(DOMAIN m) <= MaxCached
    THEN {Emplace(m, k, r)}
    ELSE {Emplace(Without(m, {o}), k, r) : o \in Oldest(m)}

\* AddToInMemoryCache: a full cache loses its oldest entry first, whichever
\* entry is added.
AddToMemory(m, k, r) ==
    IF Cardinality(DOMAIN m) < MaxCached
    THEN {Emplace(m, k, r)}
    ELSE {Emplace(Without(m, {o}), k, r) : o \in Oldest(m)}

\* RunCacheEviction: the files deleted to leave room for one.
Evictions(d) ==
    IF Cardinality(DOMAIN d) < MaxCached
    THEN {{}}
    ELSE {X \in SUBSET DOMAIN d :
            /\ Cardinality(X) = Cardinality(DOMAIN d) - (MaxCached - 1)
            /\ \A x \in X, y \in DOMAIN d \ X : d[x].mtime <= d[y].mtime}

\* What a thread may read from `user` while it is being assigned: each part
\* old or new.
Readable ==
    IF writing = None
    THEN {user}
    ELSE {[id |-> i, rest |-> r] : i \in {user.id, writing.id},
                                   r \in {user.rest, writing.rest}}

Fresh == [kind |-> "none", initiator |-> None, key |-> None, hash |-> None,
          req |-> None, cur |-> None, got |-> None, file |-> "closed"]

NoSuchStore == [values |-> None, source |-> "Uninitialized"]
NoUser == CHOOSE u \in User : TRUE

Init ==
    /\ user = NoUser
    /\ writing = None
    /\ store = NoSuchStore
    /\ mem = [k \in {} |-> None]
    /\ disk = [k \in {} |-> None]
    /\ now = 0
    /\ server = 1
    /\ started = 0
    /\ turn = 0
    /\ stage = [c \in Call |-> "new"]
    /\ call = [c \in Call |-> Fresh]
    /\ restarts = 0
    /\ raced = FALSE
    /\ setBy = "none"

To(c, to) == stage' = [stage EXCEPT ![c] = to]
Goto(c, from, to) == stage[c] = from /\ To(c, to)

Local(c, field, value) == call' = [call EXCEPT ![c] = [@ EXCEPT ![field] = value]]

-----------------------------------------------------------------------------
(* Planted bugs: what the properties at the end are there to catch.  None  *)
(* is a part of Next.                                                      *)

\* Leaves the values of the user before.
BadReset(c) ==
    /\ Goto(c, "reset", "lookup")
    /\ store' = [store EXCEPT !.source = "Loading"]
    /\ UNCHANGED <<user, writing, setBy, cache, server, calls, call, restarts,
                   raced>>

\* Does not ask whether there are values.
BadFinalizeStore == store' = [store EXCEPT !.source = "NoValues"]

\* Forgets to finalize a store the lookup left empty.
BadSettle(c) ==
    /\ Goto(c, "settle", "submit")
    /\ UNCHANGED <<context, cache, server, calls, call, restarts, raced>>

\* Trusts what the cache key found, whose user has the same ids only.
BadSince(c) == IF call[c].cur # None THEN call[c].cur.ver ELSE 0

\* Files the answer under the context's user instead of the request's.
BadReceive(c) ==
    /\ stage[c] = "ask"
    /\ \E ver \in {server} :
          LET r == [hash |-> call[c].hash, for |-> call[c].req, ver |-> ver,
                    at |-> now, src |-> "Network"]
          IN  /\ Local(c, "got", r)
              /\ mem' \in AddToMemory(mem, user.id, r)
              /\ To(c, "evict")
    /\ now' = now + 1
    /\ UNCHANGED <<context, disk, server, calls, restarts, raced>>

\* Does not ask whether the user has changed since.
BadCheckUser(c) ==
    /\ Goto(c, "check", IF call[c].got # None THEN "set" ELSE "finalize")
    /\ UNCHANGED <<context, cache, server, calls, call, restarts, raced>>

\* Forgets to finalize after an answer that is not for the user any more or
\* did not come.
BadFinalize(c) ==
    /\ Goto(c, "finalize", IF call[c].got = None THEN "calledBad" ELSE "calledOk")
    /\ call' = [call EXCEPT ![c] = Fresh]
    /\ UNCHANGED <<context, cache, server, calls, restarts, raced>>

-----------------------------------------------------------------------------
(* The call itself, on the application's thread.                           *)

\* shared_ctx->user = NormalizeUser(...): an assignment field by field, without
\* a lock.  A call that has compared the users and not yet stored its values
\* is overtaken.
Begin(c) ==
    /\ turn = 0 /\ c = started + 1
    /\ Goto(c, "new", "assign")
    /\ \E u \in AppUser, k \in Kind :
          /\ writing' = u
          /\ Local(c, "kind", k)
    /\ started' = c /\ turn' = c
    /\ raced' = (raced \/ \E d \in Call : stage[d] = "set")
    /\ UNCHANGED <<user, store, setBy, cache, server, restarts>>

Assign(c) ==
    /\ Goto(c, "assign", "reset")
    /\ user' = writing
    /\ writing' = None
    /\ UNCHANGED <<store, setBy, cache, server, calls, call, restarts, raced>>

\* EvaluationStore::Reset.
Reset(c) ==
    /\ Goto(c, "reset", "lookup")
    /\ store' = [values |-> None, source |-> "Loading"]
    /\ setBy' = "none"
    /\ UNCHANGED <<user, writing, cache, server, calls, call, restarts, raced>>

\* GetDataSync, first the memory ...
LookupMemory(c) ==
    /\ stage[c] = "lookup"
    /\ IF user.id \in DOMAIN mem
       THEN /\ To(c, "apply")
            /\ Local(c, "cur", mem[user.id])
       ELSE /\ To(c, "read")
            /\ UNCHANGED call
    /\ UNCHANGED <<context, cache, server, calls, restarts, raced>>

\* ... then the file.  A file that does not parse gives a bad result code and
\* no value, which the callers treat alike.
ReadFile(c, k, to) ==
    /\ To(c, to)
    /\ IF k \in DOMAIN disk /\ disk[k].data # Torn
       THEN LET r == [disk[k].data EXCEPT !.src = "Cache"]
            IN  /\ mem' \in AddToMemory(mem, k, r)
                /\ Local(c, "cur", r)
       ELSE UNCHANGED <<mem, call>>
    /\ UNCHANGED <<context, disk, now, server, calls, restarts, raced>>

LookupFile(c) ==
    /\ stage[c] = "read"
    /\ ReadFile(c, user.id, "apply")

\* The file system throws: the error boundary ends the call, which tells the
\* caller UnexpectedError and leaves the store as Reset left it.
LookupThrows(c) ==
    /\ Goto(c, "read", "failed")
    /\ turn' = 0
    /\ call' = [call EXCEPT ![c] = Fresh]
    /\ UNCHANGED <<context, cache, server, started, restarts, raced>>

\* EvaluationStore::SetValuesFromDataAdapterResult.
SetValues(r, by) ==
    IF r = None
    THEN UNCHANGED <<store, setBy>>
    ELSE store' = [values |-> r, source |-> r.src] /\ setBy' = by

\* EvaluationStore::Finalize.
FinalizeStore ==
    store' = IF store.values # None THEN store
                                    ELSE [values |-> None, source |-> "NoValues"]

Apply(c) ==
    /\ Goto(c, "apply", IF call[c].kind = "sync" THEN "settle" ELSE "submit")
    /\ SetValues(call[c].cur, "lookup")
    /\ UNCHANGED <<user, writing, cache, server, calls, call, restarts, raced>>

\* UpdateUserSync finalizes at once, UpdateUserAsync in its callback.
Settle(c) ==
    /\ Goto(c, "settle", "submit")
    /\ FinalizeStore
    /\ UNCHANGED <<user, writing, setBy, cache, server, calls, call, restarts,
                   raced>>

\* RunInBackground, and the call returns.
Submit(c) ==
    /\ Goto(c, "submit", "queued")
    /\ Local(c, "initiator", user)
    /\ turn' = 0
    /\ UNCHANGED <<context, cache, server, started, restarts, raced>>

-----------------------------------------------------------------------------
(* What the call leaves to the workers.                                    *)

\* UpdateUserAsync hands on the user it saw; UpdateUserSync hands on a
\* reference to the context's, which is read when the worker gets there.
Subject(c) == IF call[c].kind = "sync" THEN Readable ELSE {call[c].initiator}

\* GetDataAsync: the caches again if the call found nothing in them.
StartWork(c) ==
    /\ Goto(c, "queued", IF call[c].cur = None THEN "again" ELSE "key")
    /\ UNCHANGED <<context, cache, server, calls, call, restarts, raced>>

LookupAgain(c) ==
    /\ stage[c] = "again"
    /\ \E u \in Subject(c) :
          IF u.id \in DOMAIN mem
          THEN To(c, "key") /\ Local(c, "cur", mem[u.id])
          ELSE To(c, "reread") /\ Local(c, "key", u)
    /\ UNCHANGED <<context, cache, server, calls, restarts, raced>>

Reread(c) ==
    /\ stage[c] = "reread"
    /\ ReadFile(c, call[c].key.id, "key")

\* The user goes into the cache key, full_user_hash and the request: the
\* initiator of UpdateUserAsync ...
CopyInitiator(c) ==
    LET u == call[c].initiator
    IN  /\ call[c].kind = "async"
        /\ Goto(c, "key", "ask")
        /\ call' = [call EXCEPT ![c] = [@ EXCEPT !.key = u, !.hash = u, !.req = u]]
        /\ UNCHANGED <<context, cache, server, calls, restarts, raced>>

\* ... but what UpdateUserSync refers to is copied into one lambda for each:
\* for the key, ...
CopyForKey(c) ==
    /\ call[c].kind = "sync"
    /\ Goto(c, "key", "hash")
    /\ \E u \in Readable : Local(c, "key", u)
    /\ UNCHANGED <<context, cache, server, calls, restarts, raced>>

\* ... for the hash ...
CopyForHash(c) ==
    /\ Goto(c, "hash", "request")
    /\ \E u \in Readable : Local(c, "hash", u)
    /\ UNCHANGED <<context, cache, server, calls, restarts, raced>>

\* ... and for the request.
CopyForRequest(c) ==
    /\ Goto(c, "request", "ask")
    /\ \E u \in Readable :
          /\ Local(c, "req", u)
          /\ raced' = (raced \/ u # call[c].key \/ u # call[c].hash)
    /\ UNCHANGED <<context, cache, server, calls, restarts>>

\* DeserializeCacheValueIfValidFor204: the version the request says the
\* client has, 0 if it has none for this user.
Since(c) == LET cur == call[c].cur
            IN  IF cur # None /\ cur.hash = call[c].req THEN cur.ver ELSE 0

\* The server answers for the user of the request; that nothing has changed
\* only if the request names its version.  FetchLatest makes the result.
Answers(c) ==
    LET cur == call[c].cur
        new == [hash |-> call[c].hash, for |-> call[c].req, ver |-> server,
                at |-> now, src |-> "Network"]
    IN  {new} \cup IF Since(c) = server
                   THEN {[new EXCEPT !.for = cur.for,
                                     !.src = "NetworkNotModified"]}
                   ELSE {}

ServerChange ==
    /\ server < MaxVersion
    /\ server' = server + 1
    /\ UNCHANGED <<context, cache, calls, stage, call, restarts, raced>>

\* The last act of GetDataAsync is the callback: UpdateUserSync's does nothing.
Back(c) == IF call[c].kind = "sync" THEN "ended" ELSE "check"

\* No attempt got a good answer, or the answer does not parse.
AnswerFails(c) ==
    /\ Goto(c, "ask", Back(c))
    /\ UNCHANGED <<context, cache, server, calls, call, restarts, raced>>

Receive(c) ==
    /\ stage[c] = "ask"
    /\ \E r \in Answers(c) :
          /\ Local(c, "got", r)
          /\ mem' \in AddToMemory(mem, call[c].key.id, r)
          /\ To(c, IF r.src = "Network" THEN "evict" ELSE Back(c))
    /\ now' = now + 1
    /\ UNCHANGED <<context, disk, server, calls, restarts, raced>>

Writers(X) == {d \in Call : stage[d] = "close" /\ call[d].key.id \in X}

\* RunCacheEviction.  A file that is being written loses its name only.
Evict(c) ==
    /\ Goto(c, "evict", "open")
    /\ \E X \in Evictions(disk) :
          /\ disk' = Without(disk, X)
          /\ call' = [d \in Call |-> IF d \in Writers(X)
                                     THEN [call[d] EXCEPT !.file = "gone"]
                                     ELSE call[d]]
    /\ UNCHANGED <<context, mem, now, server, calls, restarts, raced>>

\* The boundary around FetchValues ends the work, and the callback is not made:
\* before the POST, because the file of the stable id or the text of the request
\* throws; or here, because another eviction took a file between the listing and
\* the sort, or the file system throws.
FetchThrows(c) ==
    /\ stage[c] \in {"ask", "evict"}
    /\ To(c, "dropped")
    /\ call' = [call EXCEPT ![c] = Fresh]
    /\ UNCHANGED <<context, cache, server, calls, restarts, raced>>

\* WriteStringToFile, in a task of its own.  Opening truncates; an open that
\* fails goes unnoticed.
OpenFile(c) ==
    LET k == call[c].key.id
    IN  /\ Goto(c, "open", "close")
        /\ \/ /\ disk' = With(disk, k, [data |-> Torn, mtime |-> now])
              /\ now' = now + 1
              /\ call' = [d \in Call |->
                    IF d = c
                    THEN [call[c] EXCEPT !.file = IF Writers({k}) = {}
                                                  THEN "open" ELSE "mixed"]
                    ELSE IF d \in Writers({k}) /\ call[d].file = "open"
                    THEN [call[d] EXCEPT !.file = "mixed"]
                    ELSE call[d]]
           \/ /\ Local(c, "file", "gone")
              /\ UNCHANGED <<disk, now>>
        /\ UNCHANGED <<context, mem, server, calls, restarts, raced>>

\* What two writers leave is the text of one of them or neither's.
CloseFile(c) ==
    LET k == call[c].key.id
    IN  /\ Goto(c, "close", Back(c))
        /\ Local(c, "file", "closed")
        /\ \/ /\ call[c].file \in {"open", "mixed"}
              /\ disk' = With(disk, k, [data |-> call[c].got, mtime |-> now])
           \/ /\ call[c].file = "mixed"
              /\ disk' = With(disk, k, [data |-> Torn, mtime |-> now])
           \/ /\ call[c].file = "gone"
              /\ UNCHANGED disk
        /\ UNCHANGED <<context, mem, now, server, calls, restarts, raced>>

\* UpdateUserAsync's callback: is the answer still for the context's user?
CheckUser(c) ==
    /\ stage[c] = "check"
    /\ \E u \in Readable :
          IF call[c].got # None /\ u = call[c].initiator
          THEN /\ To(c, "set")
               /\ raced' = (raced \/ writing # None)
          ELSE To(c, "finalize") /\ UNCHANGED raced
    /\ UNCHANGED <<context, cache, server, calls, call, restarts>>

SetAnswer(c) ==
    /\ Goto(c, "set", "finalize")
    /\ SetValues(call[c].got, "answer")
    /\ UNCHANGED <<user, writing, cache, server, calls, call, restarts, raced>>

\* The application's callback is given Ok if there was an answer.
Finalize(c) ==
    /\ Goto(c, "finalize", IF call[c].got = None THEN "calledBad" ELSE "calledOk")
    /\ FinalizeStore
    /\ call' = [call EXCEPT ![c] = Fresh]
    /\ UNCHANGED <<user, writing, setBy, cache, server, calls, restarts, raced>>

\* The process ends and is started again: the files are all that stays.
Restart ==
    /\ restarts < MaxRestarts
    /\ restarts' = restarts + 1
    /\ user' = NoUser /\ writing' = None
    /\ store' = NoSuchStore /\ setBy' = "none"
    /\ mem' = [k \in {} |-> None]
    /\ turn' = 0
    /\ stage' = [c \in Call |-> IF stage[c] = "new" THEN "new" ELSE "lost"]
    /\ call' = [c \in Call |-> Fresh]
    /\ UNCHANGED <<disk, now, server, started, raced>>

-----------------------------------------------------------------------------
Application(c) ==
    \/ Assign(c) \/ Reset(c) \/ LookupMemory(c) \/ LookupFile(c)
    \/ LookupThrows(c) \/ Apply(c) \/ Settle(c) \/ Submit(c)

Worker(c) ==
    \/ StartWork(c) \/ LookupAgain(c) \/ Reread(c)
    \/ CopyInitiator(c) \/ CopyForKey(c) \/ CopyForHash(c) \/ CopyForRequest(c)
    \/ AnswerFails(c) \/ Receive(c)
    \/ Evict(c) \/ FetchThrows(c) \/ OpenFile(c) \/ CloseFile(c)
    \/ CheckUser(c) \/ SetAnswer(c) \/ Finalize(c)

Next ==
    \/ \E c \in Call : Begin(c) \/ Application(c) \/ Worker(c)
    \/ ServerChange
    \/ Restart

Spec == Init /\ [][Next]_vars

\* A call on the application's thread goes on, and so does the work it left:
\* a worker takes every task in the end (TaskRuns of ThreadPool), requests
\* end in an answer or in a timeout.
FairSpec == Spec /\ \A c \in Call : WF_vars(Application(c)) /\ WF_vars(Worker(c))

-----------------------------------------------------------------------------
(* Properties.                                                             *)

FileData == Result \cup {Torn}
Stage == {"new", "ended", "calledOk", "calledBad", "failed", "dropped", "lost"}
         \cup {"assign", "reset", "lookup", "read", "apply", "settle",
               "submit", "queued", "again", "reread", "key", "hash",
               "request", "ask", "evict", "open", "close", "check", "set",
               "finalize"}
UserOrNone == User \cup {None}
Locals == [kind : {"none", "sync", "async"}, initiator : UserOrNone,
           key : UserOrNone, hash : UserOrNone, req : UserOrNone,
           cur : Result \cup {None}, got : Result \cup {None},
           file : {"closed", "open", "mixed", "gone"}]

\* Every variable has its type, and the source the store reports goes with
\* whether it holds values (EvaluationStore::Reset, Finalize and
\* SetValuesFromDataAdapterResult, by which thread and in which order ever).
TypeOK ==
    /\ user \in User /\ writing \in UserOrNone
    /\ store \in [values : Result, source : {"Network", "NetworkNotModified",
                                            "Cache"}]
             \cup [values : {None}, source : {"Uninitialized", "Loading",
                                              "NoValues"}]
    /\ DOMAIN mem \subseteq Id /\ \A k \in DOMAIN mem : mem[k] \in Result
    /\ DOMAIN disk \subseteq Id
    /\ \A k \in DOMAIN disk : disk[k] \in [data : FileData, mtime : Nat]
    /\ now \in Nat /\ server \in Nat /\ restarts \in Nat
    /\ started \in 0 .. MaxCalls /\ turn \in 0 .. MaxCalls
    /\ stage \in [Call -> Stage]
    /\ call \in [Call -> Locals]
    /\ raced \in BOOLEAN /\ setBy \in {"none", "lookup", "answer"}

\* Between the assignment of the user and the store's Reset the store still
\* holds the values of the user before.
Between == \E c \in Call : stage[c] \in {"assign", "reset"}

\* The values checks are made from were computed for a user with the current
\* user's ids, whatever calls are still under way, whatever files an earlier
\* process or another call left, and whichever were torn or evicted -- unless
\* an unsynchronised use of the context's user went wrong.
ValuesForUser ==
    store.values # None /\ ~ Between /\ ~ raced => store.values.for.id = user.id

\* Values that came with an answer (the guard in UpdateUserAsync's callback)
\* were computed for exactly the current user, not only for its ids.
AnswerForUser ==
    setBy = "answer" /\ ~ Between /\ ~ raced => store.values.for = user

\* Everything cached under an id, in memory or in a file, was computed for a
\* user with this id: a later lookup, or one after a restart, relies on it.
CachedUnderItsKey ==
    ~ raced =>
        /\ \A k \in DOMAIN mem : mem[k].for.id = k
        /\ \A k \in DOMAIN disk : disk[k].data # Torn => disk[k].data.for.id = k

\* A result's full_user_hash is that of the user its data was computed for, so
\* the version sent as sinceTime is one the server gave for this very user and
\* "no updates" never lends one user's data to another.
HashNamesData ==
    ~ raced =>
        /\ \A k \in DOMAIN mem : mem[k].hash = mem[k].for
        /\ \A k \in DOMAIN disk :
              disk[k].data # Torn => disk[k].data.hash = disk[k].data.for
        /\ \A c \in Call :
              /\ call[c].got # None => call[c].got.hash = call[c].got.for
              /\ call[c].cur # None => call[c].cur.hash = call[c].cur.for

\* AddToInMemoryCache keeps in_memory_cache_ within kMaxCachedEvaluationsCount,
\* whether the key it adds is there already or not.
MemoryBounded == Cardinality(DOMAIN mem) <= MaxCached

\* When the callback of the newest UpdateUserAsync has been called the store is
\* no longer loading, and after Ok it holds values: no older call's late answer
\* or Finalize undoes that.
ReadyWhenCalledBack ==
    \A c \in Call : c = started =>
        /\ stage[c] \in {"calledOk", "calledBad"} => store.source # "Loading"
        /\ stage[c] = "calledOk" => store.values # None

\* The store stops loading after the newest call's Reset, whatever the server
\* answers.  Excepted are the calls whose work ends in an exception, and where
\* the store goes on loading: of a cache file, of the stable id's or of the text
\* of the request (see LookupThrows and FetchThrows).  The process may end, too.
LoadingEnds ==
    \A c \in Call :
        (started = c /\ stage[c] = "lookup")
            ~> \/ started > c
               \/ store.source # "Loading"
               \/ stage[c] \in {"failed", "dropped", "lost"}
=============================================================================
