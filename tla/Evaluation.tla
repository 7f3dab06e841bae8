----------------------------- MODULE Evaluation -----------------------------
(***************************************************************************)
(* What a check tells the application, and what its exposure tells the     *)
(* server: CheckGate, GetFeatureGate, GetDynamicConfig, GetExperiment and  *)
(* GetLayer against an EvaluationStore that updates of the user and the    *)
(* workers' answers change meanwhile, and the layers that log exposures    *)
(* long after the check, perhaps in another session.                       *)
(*                                                                         *)
(* Any thread of the application checks; one of them also initializes,     *)
(* updates the user and shuts down.  Because context_ is not locked, it    *)
(* does so to context_ itself only while no other thread is in a check.    *)
(* There is one spec of each kind, in the project from some version on;    *)
(* what a response says of it (value, rule, group, secondary exposures) is *)
(* known by the user and the version the response is for.  A user is       *)
(* [id, rest], as in UserUpdate: the caches find by `id`, the worker of    *)
(* UpdateUserAsync compares both.                                          *)
(*                                                                         *)
(* A definition Bad... is the one after it with a plausible mistake, which *)
(* the properties are there to catch.  None is a part of Next.             *)
(***************************************************************************)
EXTENDS Integers, FiniteSets

CONSTANTS Id, Rest,     \* values of the two parts of a user
          AppUser,      \* the users the application names
          Thread, Main,
          Kind,         \* the checks it makes: "gate", "config",
                        \* "experiment", "layer"
          FirstVersion, \* the first version of the project that has the specs
          MaxChecks,    \* bound: checks in a run
          MaxVersion,   \* bound: versions of the project on the server
          MaxUpdates,   \* bound: updates of the user, by Initialize or by
                        \* UpdateUser
          None

User == [id : Id, rest : Rest]
Check == 1 .. MaxChecks
Update == 1 .. MaxUpdates

ASSUME ThreadAssumption == Main \in Thread
ASSUME KindAssumption == Kind \subseteq {"gate", "config", "experiment", "layer"}
ASSUME BoundAssumption == /\ MaxChecks \in Nat /\ MaxVersion \in Nat \ {0}
                          /\ MaxUpdates \in Nat /\ FirstVersion \in Nat

\* The fields of an InitializeResponse: FromJson asks for most with at(), which
\* throws for a missing one, but for some with the const operator[], which has
\* no defined result for a missing one.
AtField == {"time", "has_updates", "name", "rule_id", "secondary_exposures",
            "gate.value", "explicit_parameters",
            "undelegated_secondary_exposures"}
BracketField == {"config.value", "feature_gates", "dynamic_configs",
                 "layer_configs"}
Flaw == [field : AtField \cup BracketField, missing : BOOLEAN]

\* A response, and None for a flaw in a well-formed one.
Response == [for : User, ver : 1 .. MaxVersion]

\* DetailedEvaluation: what a check finds, None for no evaluation, and how.
Source == {"Uninitialized", "Loading", "NoValues", "Cache", "Network",
           "NetworkNotModified"}
Result == [evaluation : Response \cup {None},
           details : [source : Source, lcut : 0 .. MaxVersion,
                      suffix : {"", "Recognized", "Unrecognized"}]]

ASSUME UserAssumption ==
    /\ AppUser \subseteq User
    /\ None \notin User \cup Thread \cup Response \cup Result

VARIABLES
    updates,   \* how many updates of the user there have been
    session,   \* the session of context_, known by its first update; 0 when
               \* context_ is null
    user,      \* StatsigContext::user
    writing,   \* the user being assigned to it, field by field
    update,    \* where the main thread is in UpdateUser: "none", "assign",
               \* "reset", "lookup"
    store,     \* EvaluationStore: values_ and source_info_
    work,      \* the worker of each update, and what it has got
    check,     \* the checks, with their locals and results
    log,       \* the exposures that have been given to a logger
    \* History, read by the properties only (so are `overtaken` of a worker,
    \* `overlapped` and `origin` of a check):
    misfiled,  \* a refresh of UpdateUserSync has taken two users for one
    origin     \* how the store got its values: "none", "answer" of the server,
               \* "cache" (also what a 204 stands for), "misfiled" if that may
               \* be where misfiled values are, "overtaken" if UpdateUser has
               \* come between the worker's comparison and the store

client == <<updates, session, user, writing, update>>
values == <<store, origin>>
vars == <<client, values, work, misfiled, check, log>>

NoStore == [values |-> None, source |-> "Uninitialized", lcut |-> 0]
NoWork == [stage |-> "none", asked |-> None, answer |-> None, source |-> None,
           overtaken |-> FALSE]
NewCheck == [stage |-> "new", thread |-> None, kind |-> None, session |-> 0,
             user |-> None, found |-> None, overlapped |-> FALSE,
             origin |-> "none"]

Init ==
    /\ updates = 0 /\ session = 0 /\ user = None /\ writing = None
    /\ update = "none"
    /\ store = NoStore /\ origin = "none"
    /\ work = [n \in Update |-> NoWork] /\ misfiled = FALSE
    /\ check = [c \in Check |-> NewCheck]
    /\ log = {}

\* What a thread may read from `user` while it is being assigned: each part
\* old or new.
Readable ==
    IF writing = None
    THEN {user}
    ELSE {[id |-> i, rest |-> r] : i \in {user.id, writing.id},
                                   r \in {user.rest, writing.rest}}

-----------------------------------------------------------------------------
(* The store.                                                              *)

\* What Deserialize makes of a text with this flaw.  Any JSON will do as the
\* value of a config.
Deserialize(flaw) ==
    IF flaw.missing /\ flaw.field \in BracketField THEN "Undefined"
    ELSE IF flaw.field = "config.value" THEN "Ok"
    ELSE "JsonFailureInitializeResponse"

SetValues(r, source, from) ==
    /\ store' = [values |-> r, source |-> source, lcut |-> r.ver]
    /\ origin' = from

\* Planted bug: finalizes without asking whether there are values.
BadFinalize == store' = [store EXCEPT !.source = "NoValues", !.lcut = 0]

Finalize == store' = IF store.values # None
                     THEN store
                     ELSE [values |-> None, source |-> "NoValues", lcut |-> 0]

\* RecognizedFromSourceInfo and UnrecognizedFromSourceInfo.
Details(recognized) ==
    IF ~ recognized /\ store.source \in {"Uninitialized", "NoValues"}
    THEN [source |-> store.source, suffix |-> "", lcut |-> 0]
    ELSE [source |-> store.source, lcut |-> store.lcut,
          suffix |-> IF recognized THEN "Recognized" ELSE "Unrecognized"]

\* GetGate, GetConfig and GetLayer: evaluation and details under one lock.
Detailed ==
    LET has == store.values # None /\ store.values.ver >= FirstVersion
    IN  [evaluation |-> IF has THEN store.values ELSE None,
         details |-> Details(has)]

\* What a check returns where there is no client: EvaluationDetails say so.
Default == [evaluation |-> None,
            details |-> [source |-> "Uninitialized", suffix |-> "", lcut |-> 0]]

-----------------------------------------------------------------------------
(* Exposures: what MakeGateExposure, MakeConfigExposure and                *)
(* MakeLayerParamExposure put into an event.                               *)

Exposure(c, u, d) ==
    [check |-> c, into |-> check[c].session, user |-> u,
     evaluation |-> d.evaluation, details |-> d.details]

\* Planted bug: the layer names the user and the logger of the client it finds.
BadLayerExposure(c) ==
    [Exposure(c, user, check[c].found) EXCEPT !.into = session]

\* A layer's is made of what GetLayer has copied.
LayerExposure(c) == Exposure(c, check[c].user, check[c].found)

-----------------------------------------------------------------------------
(* The main thread's calls.                                                *)

InCheck(t) == \E c \in Check : check[c].thread = t /\ check[c].stage # "done"
NobodyChecks == \A t \in Thread : ~ InCheck(t)

\* The workers of a context that goes are of interest no more, except that a
\* refresh may go on to copy the user the context has now.
DropWork ==
    /\ work' = [n \in Update |-> NoWork]
    /\ misfiled' = (misfiled \/ \E n \in Update :
                       work[n].stage \in {"hash", "request"} /\ work[n].asked # user)

\* Checks under way when the user changes.
Overlap == check' = [c \in Check |->
                       IF check[c].stage \in {"new", "done"}
                       THEN check[c]
                       ELSE [check[c] EXCEPT !.overlapped = TRUE]]

\* InitializeSync, InitializeAsync: a new context, and then UpdateUser for
\* its user, which it assigns to itself.  A client that is initialized again
\* drops the context before.
Initialize(u) ==
    /\ update = "none" /\ NobodyChecks
    /\ updates < MaxUpdates
    /\ updates' = updates + 1 /\ session' = updates'
    /\ user' = u /\ update' = "reset"
    /\ store' = NoStore /\ origin' = "none"
    /\ DropWork
    /\ UNCHANGED <<writing, check, log>>

\* The user is assigned without a lock.  A worker that has compared the users
\* and not yet stored its values is overtaken.
UpdateUser(u) ==
    /\ session # 0 /\ update = "none" /\ ~ InCheck(Main)
    /\ updates < MaxUpdates
    /\ updates' = updates + 1
    /\ writing' = u /\ update' = "assign"
    /\ Overlap
    /\ work' = [n \in Update |->
                  [work[n] EXCEPT !.overtaken = @ \/ work[n].stage = "set"]]
    /\ UNCHANGED <<session, user, values, misfiled, log>>

Assign ==
    /\ update = "assign" /\ update' = "reset"
    /\ user' = writing /\ writing' = None
    /\ UNCHANGED <<updates, session, values, work, misfiled, check, log>>

\* EvaluationStore::Reset.
Reset ==
    /\ update = "reset" /\ update' = "lookup"
    /\ store' = [values |-> None, source |-> "Loading", lcut |-> 0]
    /\ origin' = "none"
    /\ UNCHANGED <<updates, session, user, writing, work, misfiled, check, log>>

\* GetDataSync finds by the cache key, so values for a user with the same ids,
\* or none; in memory they have the source they came with.
ValuesFor(u) == {r \in Response : r.for = u}
Cached(u) ==
    {None} \cup {r \in Response : misfiled \/ r.for.id = u.id}
CachedSource == {"Cache", "Network", "NetworkNotModified"}
CacheOrigin == IF misfiled THEN "misfiled" ELSE "cache"

SetCached(r) ==
    \E source \in CachedSource : SetValues(r, source, CacheOrigin)

\* UpdateUserSync finalizes, and leaves a refresh of the caches to its worker;
\* UpdateUserAsync leaves the answer and Finalize to it.
LookupSync ==
    /\ update = "lookup" /\ update' = "none"
    /\ \/ Finalize /\ UNCHANGED origin
       \/ \E r \in Cached(user) \ {None} : SetCached(r)
    /\ work' = [work EXCEPT ![updates] = [NoWork EXCEPT !.stage = "key"]]
    /\ UNCHANGED <<updates, session, user, writing, misfiled, check, log>>

LookupAsync ==
    /\ update = "lookup" /\ update' = "none"
    /\ \E r \in Cached(user) :
          /\ IF r = None THEN UNCHANGED values ELSE SetCached(r)
          /\ work' = [work EXCEPT ![updates] =
                [NoWork EXCEPT !.stage = "ask", !.asked = user, !.answer = r]]
    /\ UNCHANGED <<updates, session, user, writing, misfiled, check, log>>

\* The file system throws, and the call ends in its error boundary.
LookupThrows ==
    /\ update = "lookup" /\ update' = "none"
    /\ UNCHANGED <<updates, session, user, writing, values, work, misfiled,
                   check, log>>

\* Shutdown.
Shutdown ==
    /\ session # 0 /\ update = "none" /\ NobodyChecks
    /\ session' = 0
    /\ store' = NoStore /\ origin' = "none"
    /\ DropWork
    /\ UNCHANGED <<updates, user, writing, update, check, log>>

-----------------------------------------------------------------------------
(* The workers: of UpdateUserAsync ...                                     *)

Set(n, new) == work' = [work EXCEPT ![n] = new]
Got(n, stage, r, source) ==
    Set(n, [work[n] EXCEPT !.stage = stage, !.answer = r, !.source = source])

\* The server's answer: values for the user asked for, ...
Answer(n) ==
    /\ work[n].stage = "ask"
    /\ \E r \in ValuesFor(work[n].asked) : Got(n, "check", r, "Network")
    /\ UNCHANGED <<client, values, misfiled, check, log>>

\* ... a text with a flaw, which NetworkService finds out or not (what the
\* worker does when that is undefined is not followed), ...
FlawedAnswer(n, flaw) ==
    /\ work[n].stage = "ask"
    /\ \/ /\ Deserialize(flaw) = "Ok"
          /\ \E r \in ValuesFor(work[n].asked) : Got(n, "check", r, "Network")
       \/ /\ Deserialize(flaw) = "JsonFailureInitializeResponse"
          /\ Got(n, "finalize", None, None)
       \/ /\ Deserialize(flaw) = "Undefined"
          /\ Got(n, "undefined", None, None)
    /\ UNCHANGED <<client, values, misfiled, check, log>>

\* ... or a 204, which stands for the data the cache had, or has when the worker
\* looks again; if it has none for an empty text, which does not parse when it
\* is set.
NoContent(n) ==
    /\ work[n].stage = "ask"
    /\ \E r \in IF work[n].answer = None THEN Cached(work[n].asked)
                                         ELSE {work[n].answer} :
          Got(n, "check", r, "NetworkNotModified")
    /\ UNCHANGED <<client, values, misfiled, check, log>>

\* An exception in the fetch ends the work, and the store stays as it is.
FetchThrows(n) ==
    /\ work[n].stage = "ask"
    /\ Set(n, NoWork)
    /\ UNCHANGED <<client, values, misfiled, check, log>>

\* Planted bug: does not ask whether the user has changed since.
BadCheckUser(n) ==
    /\ work[n].stage = "check"
    /\ Set(n, [work[n] EXCEPT !.stage = "set"])
    /\ UNCHANGED <<client, values, misfiled, check, log>>

\* Is the answer still for the context's user, as far as the worker can read
\* it?
CheckUser(n) ==
    /\ work[n].stage = "check"
    /\ \E u \in Readable :
          Set(n, IF u = work[n].asked
                 THEN [work[n] EXCEPT !.stage = "set", !.overtaken = writing # None]
                 ELSE [NoWork EXCEPT !.stage = "finalize"])
    /\ UNCHANGED <<client, values, misfiled, check, log>>

\* The answers "Network" are the server's, for exactly the user asked for.
AnswerOrigin(n) ==
    IF work[n].overtaken THEN "overtaken"
    ELSE IF work[n].source = "Network" THEN "answer" ELSE CacheOrigin

\* Planted bug: takes what was parsed without asking whether it was.
BadSetAnswer(n) ==
    /\ work[n].stage = "set"
    /\ Set(n, [NoWork EXCEPT !.stage = "finalize"])
    /\ IF work[n].answer = None
       THEN store' = [NoStore EXCEPT !.source = "NoValues"] /\ UNCHANGED origin
       ELSE SetValues(work[n].answer, work[n].source, AnswerOrigin(n))
    /\ UNCHANGED <<client, misfiled, check, log>>

\* SetValuesFromDataAdapterResult, whoever is the user by now.  What does not
\* parse changes nothing.
SetAnswer(n) ==
    /\ work[n].stage = "set"
    /\ Set(n, [NoWork EXCEPT !.stage = "finalize"])
    /\ IF work[n].answer = None
       THEN UNCHANGED values
       ELSE SetValues(work[n].answer, work[n].source, AnswerOrigin(n))
    /\ UNCHANGED <<client, misfiled, check, log>>

FinalizeAnswer(n) ==
    /\ work[n].stage = "finalize"
    /\ Set(n, NoWork)
    /\ Finalize
    /\ UNCHANGED <<client, origin, misfiled, check, log>>

\* ... and of UpdateUserSync, whose refresh copies the context's user for the
\* cache key, for the hash and for the request.  It touches nothing but the
\* caches; if the copies differ one user's values may be found as another's
\* from then on.
CopyForKey(n) ==
    /\ work[n].stage = "key"
    /\ \E u \in Readable : Set(n, [work[n] EXCEPT !.stage = "hash", !.asked = u])
    /\ UNCHANGED <<client, values, misfiled, check, log>>

CopyAgain(n) ==
    /\ work[n].stage \in {"hash", "request"}
    /\ Set(n, IF work[n].stage = "hash" THEN [work[n] EXCEPT !.stage = "request"]
                                        ELSE NoWork)
    /\ \E u \in Readable : misfiled' = (misfiled \/ u # work[n].asked)
    /\ UNCHANGED <<client, values, check, log>>

-----------------------------------------------------------------------------
(* A check.                                                                *)

Step(c, from, to) == /\ check[c].stage = from
                     /\ check' = [check EXCEPT ![c] = [@ EXCEPT !.stage = to]]

\* INIT_GUARD, and the lock on the context.
Begin(c, t, k) ==
    /\ check[c].stage = "new"
    /\ \A d \in 1 .. c - 1 : check[d].stage # "new"
    /\ ~ InCheck(t) /\ (t = Main => update = "none")
    /\ check' = [check EXCEPT ![c] =
          [NewCheck EXCEPT !.stage = IF session = 0 THEN "done"
                                     ELSE IF k = "layer" THEN "user"
                                     ELSE "lookup",
                           !.thread = t, !.kind = k, !.session = session,
                           !.found = IF session = 0 THEN Default ELSE None,
                           !.overlapped = (update # "none")]]
    /\ UNCHANGED <<client, values, work, misfiled, log>>

\* GetLayer copies the user first, for the exposures to come.
CopyUser(c) ==
    /\ check[c].stage = "user"
    /\ \E u \in Readable :
          check' = [check EXCEPT ![c] = [@ EXCEPT !.stage = "lookup", !.user = u]]
    /\ UNCHANGED <<client, values, work, misfiled, log>>

LookupSpec(c) ==
    /\ check[c].stage = "lookup"
    /\ check' = [check EXCEPT ![c] =
          [@ EXCEPT !.stage = IF check[c].kind = "layer" THEN "done" ELSE "log",
                    !.found = Detailed, !.origin = origin]]
    /\ UNCHANGED <<client, values, work, misfiled, log>>

\* Planted bug: looks the gate up a second time for the exposure.
BadLog(c) ==
    /\ check[c].stage = "log"
    /\ check' = [check EXCEPT ![c].stage = "done"]
    /\ log' = log \cup {Exposure(c, user, Detailed)}
    /\ UNCHANGED <<client, values, work, misfiled>>

\* The other checks log at once, with the user of the context by then, and
\* return what they have found.
Log(c) ==
    /\ Step(c, "log", "done")
    /\ \E u \in Readable : log' = log \cup {Exposure(c, u, check[c].found)}
    /\ UNCHANGED <<client, values, work, misfiled>>

\* Layer::GetValue logs to the logger of its own session, if a worker or the
\* client still holds it.
GetValue(c) ==
    /\ check[c].stage = "done" /\ check[c].kind = "layer" /\ check[c].session # 0
    /\ log' = log \cup {LayerExposure(c)}
    /\ UNCHANGED <<client, values, work, misfiled, check>>

-----------------------------------------------------------------------------
Client == \/ \E u \in AppUser : Initialize(u) \/ UpdateUser(u)
          \/ Assign \/ Reset \/ LookupSync \/ LookupAsync \/ LookupThrows
          \/ Shutdown
Worker ==
    \E n \in Update :
        \/ Answer(n) \/ NoContent(n) \/ \E flaw \in Flaw : FlawedAnswer(n, flaw)
        \/ FetchThrows(n) \/ CheckUser(n) \/ SetAnswer(n) \/ FinalizeAnswer(n)
        \/ CopyForKey(n) \/ CopyAgain(n)
Checks ==
    \E c \in Check :
        \/ \E t \in Thread, k \in Kind : Begin(c, t, k)
        \/ CopyUser(c) \/ LookupSpec(c) \/ Log(c) \/ GetValue(c)

Next == Client \/ Worker \/ Checks

Spec == Init /\ [][Next]_vars

-----------------------------------------------------------------------------
(* Properties.                                                             *)

\* Every variable has its type, and source_info_ is in step with values_.
TypeOK ==
    /\ updates \in 0 .. MaxUpdates /\ session \in 0 .. updates
    /\ user \in User \cup {None} /\ writing \in User \cup {None}
    /\ update \in {"none", "assign", "reset", "lookup"}
    /\ update = "assign" <=> writing # None
    /\ store.values \in Response \cup {None}
    /\ store.lcut = IF store.values = None THEN 0 ELSE store.values.ver
    /\ store.source \in Source
    /\ \A n \in Update :
          /\ work[n].stage \in {"none", "ask", "check", "set", "finalize",
                                "undefined", "key", "hash", "request"}
          /\ work[n].answer \in Response \cup {None}
    /\ \A c \in Check :
          /\ check[c].stage \in {"new", "user", "lookup", "log", "done"}
          /\ check[c].found \in Result \cup {None}
          /\ check[c].stage \in {"log", "done"} => check[c].found # None

\* Every exposure a check has logged, then or later, tells the server what
\* the application was told: the same evaluation and the same details,
\* whatever answers came between lookup, log and return.
ExposureTellsResult ==
    \A e \in log :
        LET d == check[e.check].found
        IN  /\ e.evaluation = d.evaluation
            /\ e.details = d.details

\* An exposure that carries an evaluation names the user the evaluation was
\* computed for, also when a layer logs it after the user has changed: exactly
\* this user if the server's answer has brought the values, a user with its ids
\* if a cache has.  Three cases are excepted, in which the code may name a user
\* for another's evaluation: another thread's UpdateUser overlaps the check; the
\* values were stored by a worker that an UpdateUser has overtaken after its
\* comparison (they stay until the next Reset); or a cache may have them from a
\* refresh that has taken two users for one.
ExposureForUser ==
    \A e \in log :
        e.evaluation # None /\ ~ check[e.check].overlapped =>
            /\ check[e.check].origin = "answer" => e.user = e.evaluation.for
            /\ check[e.check].origin = "cache" => e.user.id = e.evaluation.for.id

\* A result and its details are from one answer: "Recognized" comes with the
\* version of the response the evaluation is from and with a source that has
\* values, and where there was nothing to find it is not said.
DetailsTellSource ==
    \A c \in Check : check[c].found # None =>
        LET d == check[c].found
        IN  IF d.details.suffix = "Recognized"
            THEN /\ d.evaluation # None /\ d.details.lcut = d.evaluation.ver
                 /\ d.details.source \notin {"Uninitialized", "Loading", "NoValues"}
            ELSE d.evaluation = None

\* A layer logs to the session it was got in: what it exposes when another
\* session is on goes to that session's logger never, and a check without a
\* client logs nothing.
OwnSession ==
    \A e \in log : e.into # 0 /\ e.into = check[e.check].session

\* Only an update of the user, another session or the end of this one takes
\* values from the store: no answer does, however flawed or late.
ValuesStay ==
    [][store.values # None /\ session' = session /\ update # "reset"
          => store'.values # None]_vars

\* What the test InitializeResponseMissingFields expects: a response without a
\* field it should have is JsonFailureInitializeResponse.
MissingFieldFails == \A n \in Update : work[n].stage # "undefined"
=============================================================================
