--------------------------- MODULE NetworkService ---------------------------
(***************************************************************************)
(* The requests of NetworkService: FetchValues and SendEvents, the         *)
(* attempts of PostWithRetry, a server and a connection that may fail each *)
(* of them before or after the request was taken, and the stable id that   *)
(* every request carries and StableID keeps in a file.                     *)
(*                                                                         *)
(* Each StatsigContext has two services with a StableID of their own: its  *)
(* own, with which the logger sends events, and that of the data adapter,  *)
(* with which it asks for values.  Requests run on worker threads, one     *)
(* thread for a request from first to last, because NetworkClient::Post    *)
(* does not return before it has called back; so the service lives.        *)
(*                                                                         *)
(* A definition Bad... is the one after it with a plausible mistake, which *)
(* the properties are there to catch.  None is a part of Next.             *)
(***************************************************************************)
EXTENDS Integers, FiniteSets

CONSTANTS FetchRequest,  \* requests of FetchValues
          SendRequest,   \* requests of SendEvents
          Status,        \* the statuses there are; -1 for no response
          MaxContexts,   \* bound: contexts, one after the other
          MaxCrashes,    \* bound: deaths of the process
          InitializeRetryCount,  \* kInitializeRetryCount, 3 in the code
          LogEventRetryCount,    \* kLogEventRetryCount, 2 in the code
          None

Requests == FetchRequest \cup SendRequest
ASSUME RequestAssumption == FetchRequest \cap SendRequest = {}
ASSUME StatusAssumption == Status \subseteq Int /\ None \notin Status
ASSUME NoneAssumption == None \notin {"ok", "bad", "lost", "unsent"}
ASSUME CountAssumption == /\ InitializeRetryCount \in Nat \ {0}
                          /\ LogEventRetryCount \in Nat \ {0}
                          /\ MaxContexts \in Nat /\ MaxCrashes \in Nat

Context == 1 .. MaxContexts
Service == Context \X {"adapter", "logger"}

\* UUID::v4 does not repeat itself: ids are numbered as they are made.  The
\* id that is read from a file which is cut off before its text is "".
NoText == 0

VARIABLES
    context,  \* the newest context, 0 at first and after a crash
    memo,     \* stable_id_ of each service, None if it has no value
    idFile,   \* the file of the stable id: None, NoText or an id
    writes,   \* the ids that wait for a task to write them
    writing,  \* the ids whose task has opened the file
    made,     \* how many ids there have been
    request,  \* the requests and where they are
    crashes,  \* how often the process has died
    \* History, read by the properties only:
    contexts, \* how many contexts there have been
    inherits  \* the id on file when a context began, if no task or service
              \* was about to change it

ids == <<memo, idFile, writes, writing, made>>
vars == <<context, ids, request, crashes, contexts, inherits>>

\* A request; its service is of interest until it has the id.
NewRequest == [stage |-> "new", service |-> None, attempt |-> 1,
               taken |-> FALSE, answer |-> None]

Init ==
    /\ context = 0 /\ contexts = 0 /\ crashes = 0
    /\ memo = [s \in Service |-> None]
    /\ idFile = None /\ writes = {} /\ writing = {} /\ made = 0
    /\ request = [r \in Requests |-> NewRequest]
    /\ inherits = [c \in Context |-> None]

At(r, stage) == request[r].stage = stage
Set(r, stage, new) == request' = [request EXCEPT ![r] =
                                    [new EXCEPT !.stage = stage]]
Goto(r, stage) == Set(r, stage, request[r])

-----------------------------------------------------------------------------
(* Contexts.                                                               *)

Settled == /\ idFile # None /\ writes = {} /\ writing = {}
           /\ \A r \in Requests : ~ At(r, "make")

\* StatsigContext and StatsigEvaluationsDataAdapter::Attach make a service each.
NewContext ==
    /\ contexts < MaxContexts
    /\ contexts' = contexts + 1 /\ context' = contexts'
    /\ inherits' = [inherits EXCEPT ![context'] = IF Settled THEN idFile ELSE None]
    /\ UNCHANGED <<ids, request, crashes>>

-----------------------------------------------------------------------------
(* StableID::Get, on the threads of a service at once, without a lock.     *)

KnowId(r, id) ==
    /\ memo' = [memo EXCEPT ![request[r].service] = id]
    /\ Set(r, "serialize", NewRequest)

\* FetchValues and SendEvents: GetStatsigMetadata asks for the id, and Get
\* looks for it in memory first.
Ask(r) ==
    /\ context # 0 /\ At(r, "new")
    /\ LET service == <<context, IF r \in FetchRequest THEN "adapter"
                                                       ELSE "logger">>
       IN IF memo[service] # None
          THEN Goto(r, "serialize")
          ELSE Set(r, "read", [NewRequest EXCEPT !.service = service])
    /\ UNCHANGED <<context, ids, crashes, contexts, inherits>>

\* Planted bug: makes an id without a look at the file.
BadReadId(r) ==
    /\ At(r, "read")
    /\ Goto(r, "make")
    /\ UNCHANGED <<context, ids, crashes, contexts, inherits>>

\* File::ReadFromCache.  Any file there is counts, and an empty one for good.
ReadId(r) ==
    /\ At(r, "read")
    /\ IF idFile # None
       THEN KnowId(r, idFile)
       ELSE /\ Goto(r, "make")
            /\ memo' = [memo EXCEPT ![request[r].service] = None]
    /\ UNCHANGED <<context, idFile, writes, writing, made, crashes, contexts,
                   inherits>>

\* UUID::v4, and File::WriteToCache leaves the write to a task.
MakeId(r) ==
    /\ At(r, "make")
    /\ made' = made + 1
    /\ KnowId(r, made')
    /\ writes' = writes \cup {made'}
    /\ UNCHANGED <<context, idFile, writing, crashes, contexts, inherits>>

\* The task: the stream truncates the file, unless it does not open ...
OpenIdFile ==
    /\ \E id \in writes :
          /\ writes' = writes \ {id}
          /\ \/ writing' = writing \cup {id} /\ idFile' = NoText
             \/ UNCHANGED <<writing, idFile>>
    /\ UNCHANGED <<context, memo, made, request, crashes, contexts, inherits>>

\* ... and has the text when it is closed.  Of two ids, which have one length,
\* the later is left.
CloseIdFile ==
    /\ \E id \in writing :
          /\ writing' = writing \ {id}
          /\ idFile' = id
    /\ UNCHANGED <<context, memo, writes, made, request, crashes, contexts,
                   inherits>>

-----------------------------------------------------------------------------
(* The first POST, or an end before it.                                    *)

Serialize(r) ==
    /\ At(r, "serialize")
    /\ Goto(r, "post")
    /\ UNCHANGED <<context, ids, crashes, contexts, inherits>>

\* An end without a callback.  In FetchValues an exception, of StableID's calls
\* to the file system or of a text that is not UTF-8, ends in the boundary; in
\* SendEvents it ends the process, see Crash.  In both a bad code is not posted.
EndUnsent(r) ==
    /\ \/ r \in FetchRequest /\ (At(r, "read") \/ At(r, "make"))
       \/ At(r, "serialize")
    /\ Set(r, "unsent", NewRequest)
    /\ UNCHANGED <<context, ids, crashes, contexts, inherits>>

-----------------------------------------------------------------------------
(* PostWithRetry.                                                          *)

Retryable == {408, 500, 502, 503, 504, 522, 524, 599}
Success == 200 .. 299
MaxAttempts(r) == IF r \in FetchRequest THEN InitializeRetryCount
                                        ELSE LogEventRetryCount

\* What is left of a request that is over, for the properties.
Left(r) == [NewRequest EXCEPT !.taken = request[r].taken]

\* The server takes a request that is on its way, for the first time.
Take(r) ==
    /\ At(r, "post") /\ ~ request[r].taken
    /\ Set(r, "post", [request[r] EXCEPT !.taken = TRUE])
    /\ UNCHANGED <<context, ids, crashes, contexts, inherits>>

\* What NetworkClient::Post can call back with: a good status of a server that
\* has taken the request, or a bad one, or -1, whether it has or not.
Response(r) == IF request[r].taken THEN Status ELSE Status \ Success

\* A 2xx status.  What FetchValues makes of the text, see Evaluation!Answer;
\* SendEvents does not look at it.
Succeed(r) ==
    /\ At(r, "post") /\ Response(r) \cap Success # {}
    /\ Set(r, "done", [Left(r) EXCEPT !.answer = "ok"])
    /\ UNCHANGED <<context, ids, crashes, contexts, inherits>>

\* Planted bug: one attempt too many.
BadFinal(r, s) == s \notin Retryable \/ request[r].attempt > MaxAttempts(r)

\* The status is not retryable, as -1 is not, or no attempt is left.
Final(r, s) == s \notin Retryable \/ request[r].attempt >= MaxAttempts(r)

\* Planted bug: any answer is a success.
BadGiveUp(r) ==
    /\ At(r, "post")
    /\ \E s \in Response(r) \ Success : s # -1 /\ Final(r, s)
    /\ Set(r, "done", [Left(r) EXCEPT !.answer = "ok"])
    /\ UNCHANGED <<context, ids, crashes, contexts, inherits>>

\* NetworkFailureBadStatusCode.
GiveUp(r) ==
    /\ At(r, "post")
    /\ \E s \in Response(r) \ Success : Final(r, s)
    /\ Set(r, "done", [Left(r) EXCEPT !.answer = "bad"])
    /\ UNCHANGED <<context, ids, crashes, contexts, inherits>>

\* Planted bug: the service is gone by now, and the callback with it.
BadRetry(r) ==
    /\ At(r, "post")
    /\ \E s \in Response(r) \ Success : ~ Final(r, s)
    /\ Goto(r, "dropped")
    /\ UNCHANGED <<context, ids, crashes, contexts, inherits>>

Retry(r) ==
    /\ At(r, "post")
    /\ \E s \in Response(r) \ Success : ~ Final(r, s)
    /\ Set(r, "post", [request[r] EXCEPT !.attempt = @ + 1])
    /\ UNCHANGED <<context, ids, crashes, contexts, inherits>>

-----------------------------------------------------------------------------
\* The process dies: the files stay.
Crash ==
    /\ context # 0 /\ crashes < MaxCrashes
    /\ crashes' = crashes + 1
    /\ context' = 0
    /\ writes' = {} /\ writing' = {}
    /\ request' = [r \in Requests |->
                     IF request[r].stage \in {"new", "done", "unsent"}
                     THEN request[r]
                     ELSE [Left(r) EXCEPT !.stage = "lost"]]
    /\ memo' = [s \in Service |-> None]
    /\ UNCHANGED <<idFile, made, contexts, inherits>>

StableID(r) == ReadId(r) \/ MakeId(r)
FirstPost(r) == Serialize(r) \/ EndUnsent(r)
PostWithRetry(r) == Succeed(r) \/ GiveUp(r) \/ Retry(r)
Next ==
    \/ NewContext \/ Crash \/ OpenIdFile \/ CloseIdFile
    \/ \E r \in Requests : \/ Ask(r) \/ StableID(r) \/ FirstPost(r)
                          \/ Take(r) \/ PostWithRetry(r)

Spec == Init /\ [][Next]_vars

\* A worker goes on with its request; the client's timeouts end an attempt.
FairSpec ==
    Spec /\ \A r \in Requests :
               WF_vars(StableID(r) \/ FirstPost(r) \/ PostWithRetry(r))

-----------------------------------------------------------------------------
(* Properties.                                                             *)

\* Every variable has its type, and no request is posted more often than its
\* endpoint allows.
TypeOK ==
    /\ context \in 0 .. MaxContexts /\ crashes \in 0 .. MaxCrashes
    /\ \A s \in Service : memo[s] \in {None, NoText} \cup 1 .. made
    /\ idFile \in {None, NoText} \cup 1 .. made
    /\ writes \cup writing \subseteq 1 .. made
    /\ \A r \in Requests :
          /\ request[r].attempt \in 1 .. MaxAttempts(r)

\* A caller of FetchValues or SendEvents may think of its attempts as of one
\* request: NetworkService implements Request.
OneRequest == INSTANCE Request WITH
    asked <- {r \in Requests : ~ At(r, "new")},
    taken <- {r \in Requests : request[r].taken},
    answer <- [r \in Requests |-> IF At(r, "lost") \/ At(r, "unsent")
                                  THEN request[r].stage
                                  ELSE request[r].answer]
IsRequest == OneRequest!Spec

\* Once the file has an id and nobody is about to change it, every service of
\* every later context uses this id, whatever they do at once and however the
\* process ends: a user keeps the stable id.
OneId ==
    \A s \in Service :
        inherits[s[1]] # None /\ memo[s] # None => memo[s] = inherits[s[1]]

\* A request that has been posted is answered in the end, after its last attempt
\* at the latest, unless its process dies first.  Excepted are the requests that
\* end before their first POST: those are never answered, with the process alive
\* (see EndUnsent).  There is always a time when no request is under way.
RequestsEnd ==
    []<>(\A r \in Requests :
            request[r].stage \in {"new", "done", "lost", "unsent"})
=============================================================================
