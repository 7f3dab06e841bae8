-------------------------- MODULE EvaluationProofs --------------------------
(***************************************************************************)
(* Proofs about Evaluation, for any users, threads and kinds of checks,    *)
(* any number of checks and updates and any version that has the specs.    *)
(***************************************************************************)
EXTENDS Evaluation, TLAPS

USE ThreadAssumption, UserAssumption, BoundAssumption
    DEF ThreadAssumption, UserAssumption, BoundAssumption
USE DEF client, values

-----------------------------------------------------------------------------
(* The inductive invariant.                                                *)

StoreRecord == [values : Response \cup {None}, source : Source,
                lcut : 0 .. MaxVersion]
WorkRecord == [stage : {"none", "ask", "check", "set", "finalize", "undefined",
                        "key", "hash", "request"},
               asked : User \cup {None}, answer : Response \cup {None},
               source : {None, "Network", "NetworkNotModified"},
               overtaken : BOOLEAN]
Origin == {"none", "answer", "cache", "misfiled", "overtaken"}
CheckRecord == [stage : {"new", "user", "lookup", "log", "done"},
                thread : Thread \cup {None}, kind : Kind \cup {None},
                session : Nat, user : User \cup {None},
                found : Result \cup {None}, overlapped : BOOLEAN,
                origin : Origin]
ExposureRecord == [check : Check, into : Nat, user : User \cup {None},
                   evaluation : Response \cup {None},
                   details : [source : Source, lcut : 0 .. MaxVersion,
                              suffix : {"", "Recognized", "Unrecognized"}]]

\* A source that comes with values.
HasValues == {"Cache", "Network", "NetworkNotModified"}

\* A user who may be named for the values r of this origin.
Named(o, u, r) == /\ o = "answer" => u = r.for
                  /\ o = "cache" => u.id = r.for.id

\* The store's source and lcut are those of its values, and except between a
\* change of the user and the Reset that follows they are the user's.
StoreOK(st, o, u, up) ==
    /\ st.values = None => st.lcut = 0
    /\ st.values # None => /\ st.source \in HasValues
                           /\ st.lcut = st.values.ver
                           /\ up \notin {"assign", "reset"} => Named(o, u, st.values)

\* A worker w when the user is u, wr is being assigned and m tells that values
\* may be misfiled.  Its answer is for the user it has asked for, or one with
\* the ids if it is from a cache; and unless it is overtaken, from its comparison
\* to its store this user is the context's.
WorkOK(w, u, wr, m) ==
    /\ w.stage \in {"ask", "check", "set"} /\ w.answer # None =>
          \/ w.stage # "ask" /\ w.source = "Network" /\ w.answer.for = w.asked
          \/ w.stage = "ask" /\ (m \/ w.answer.for.id = w.asked.id)
          \/ w.source = "NetworkNotModified" /\ (m \/ w.answer.for.id = w.asked.id)
    /\ w.stage \in {"check", "set"} => w.source \in {"Network", "NetworkNotModified"}
    /\ w.stage = "set" /\ ~ w.overtaken => wr = None /\ w.asked = u

\* What a check has found says where it is from.
FoundOK(d) ==
    IF d.details.suffix = "Recognized"
    THEN /\ d.evaluation # None /\ d.details.lcut = d.evaluation.ver
         /\ d.details.source \in HasValues
    ELSE d.evaluation = None

\* A check q when the user is u and the main thread at up.  Unless UpdateUser
\* overlaps it, it runs while the user does not change.
CheckOK(q, u, up) ==
    /\ q.stage # "new" => q.thread \in Thread
    /\ q.stage \in {"user", "lookup", "log"} => q.session # 0
    /\ q.stage \in {"log", "done"} => q.found # None
    /\ q.stage = "log" => q.kind # "layer"
    /\ q.found # None => FoundOK(q.found)
    /\ ~ q.overlapped =>
          /\ q.stage \in {"user", "lookup", "log"} => up = "none"
          /\ q.stage = "lookup" /\ q.kind = "layer" => q.user = u
          /\ q.stage = "log" /\ q.found.evaluation # None =>
                Named(q.origin, u, q.found.evaluation)
          /\ q.stage = "done" /\ q.kind = "layer" /\ q.session # 0
             /\ q.found.evaluation # None =>
                Named(q.origin, q.user, q.found.evaluation)

\* An exposure e of a check q, which is over, tells what q has found.
LogOK(e, q) ==
    /\ q.stage = "done"
    /\ e.evaluation = q.found.evaluation /\ e.details = q.found.details
    /\ e.into # 0 /\ e.into = q.session
    /\ ~ q.overlapped /\ e.evaluation # None => Named(q.origin, e.user, e.evaluation)

Types ==
    /\ updates \in 0 .. MaxUpdates /\ session \in 0 .. updates
    /\ user \in User \cup {None} /\ writing \in User \cup {None}
    /\ session # 0 \/ writing # None => user \in User
    /\ update \in {"none", "assign", "reset", "lookup"}
    /\ update = "assign" <=> writing # None
    /\ update # "none" => session # 0
    /\ store \in StoreRecord /\ origin \in Origin
    /\ work \in [Update -> WorkRecord] /\ misfiled \in BOOLEAN
    /\ check \in [Check -> CheckRecord]
    /\ log \subseteq ExposureRecord

IInv ==
    /\ Types
    /\ StoreOK(store, origin, user, update)
    /\ \A n \in Update : WorkOK(work[n], user, writing, misfiled)
    /\ \A c \in Check : CheckOK(check[c], user, update)
    /\ \A e \in log : LogOK(e, check[e.check])

\* A worker that has nothing to do.
LEMMA NoWorkOK == NoWork \in WorkRecord /\ \A u, wr, m : WorkOK(NoWork, u, wr, m)
<1>1. NoWork \in WorkRecord
  BY Zenon DEF NoWork, WorkRecord
<1>2. NoWork.stage = "none"
  BY DEF NoWork
<1>3. QED
  BY <1>1, <1>2 DEF WorkOK

\* A check that has not begun.
LEMMA NewCheckRecord == NewCheck \in CheckRecord
<1>1. 0 \in Nat
  OBVIOUS
<1>2. QED
  BY <1>1, Zenon DEF NewCheck, CheckRecord, Origin

\* The first state.
LEMMA InitIInv == Init => IInv
<1> SUFFICES ASSUME Init PROVE IInv
  OBVIOUS
<1>1. NewCheck \in CheckRecord
  BY NewCheckRecord
<1>2. CheckOK(NewCheck, user, update)
  BY DEF NewCheck, CheckOK
<1>3. /\ store \in StoreRecord /\ origin \in Origin
      /\ StoreOK(store, origin, user, update)
  BY DEF Init, NoStore, StoreRecord, StoreOK, Source, Origin
<1>4. /\ work \in [Update -> WorkRecord]
      /\ \A n \in Update : WorkOK(work[n], user, writing, misfiled)
  BY NoWorkOK DEF Init
<1>5. check \in [Check -> CheckRecord] /\ log = {}
  BY <1>1 DEF Init
<1>6. \A c \in Check : CheckOK(check[c], user, update)
  BY <1>2 DEF Init
<1>7. /\ updates \in 0 .. MaxUpdates /\ session \in 0 .. updates
      /\ user \in User \cup {None} /\ writing \in User \cup {None}
      /\ session = 0 /\ writing = None /\ update = "none"
  BY DEF Init
<1>8. log \subseteq ExposureRecord
  BY <1>5
<1>9. misfiled \in BOOLEAN
  BY DEF Init
<1>10. Types
  BY <1>3, <1>4, <1>5, <1>7, <1>8, <1>9 DEF Types
<1>11. QED
  BY <1>3, <1>4, <1>5, <1>6, <1>10 DEF IInv

-----------------------------------------------------------------------------
(* Steps of the store and of the workers.                                  *)

\* SetValuesFromDataAdapterResult.
LEMMA SetValuesStore ==
    ASSUME NEW r \in Response, NEW source \in HasValues, NEW from \in Origin,
           SetValues(r, source, from)
    PROVE  /\ store' \in StoreRecord /\ store'.values = r
           /\ origin' = from /\ origin' \in Origin
           /\ \A u, up : Named(from, u, r) => StoreOK(store', origin', u, up)
<1>1. /\ store' = [values |-> r, source |-> source, lcut |-> r.ver]
      /\ origin' = from
  BY DEF SetValues
<1>2. r.ver \in 1 .. MaxVersion
  BY DEF Response
<1>3. store' \in StoreRecord
  BY <1>1, <1>2 DEF StoreRecord, Source, HasValues
<1>4. /\ store'.values = r /\ store'.source = source
      /\ store'.lcut = r.ver
  BY <1>1
<1>5. QED
  BY <1>1, <1>3, <1>4 DEF StoreOK

\* Finalize keeps values, and makes up none.
LEMMA FinalizeStore ==
    ASSUME store \in StoreRecord, Finalize, NEW o, NEW u, NEW up,
           StoreOK(store, o, u, up)
    PROVE  /\ store' \in StoreRecord /\ store'.values = store.values
           /\ StoreOK(store', o, u, up)
<1>1. CASE store.values # None
  BY <1>1 DEF Finalize
<1>2. CASE store.values = None
  <2>1. store' = [values |-> None, source |-> "NoValues", lcut |-> 0]
    BY <1>2 DEF Finalize
  <2>2. QED
    BY <1>2, <2>1 DEF StoreRecord, Source, StoreOK
<1>3. QED
  BY <1>1, <1>2

\* A store without values.
LEMMA EmptyStore ==
    ASSUME NEW source \in Source,
           store' = [values |-> None, source |-> source, lcut |-> 0]
    PROVE  /\ store' \in StoreRecord
           /\ \A o, u, up : StoreOK(store', o, u, up)
BY DEF StoreRecord, Source, StoreOK

\* What a thread reads for the user is one, and the user while nobody assigns.
LEMMA ReadableUser ==
    ASSUME Types, NEW u \in Readable
    PROVE  u \in User \cup {None} /\ (writing = None => u = user)
<1>1. CASE writing = None
  BY <1>1 DEF Types, Readable
<1>2. CASE writing # None
  <2>1. user \in User /\ writing \in User
    BY <1>2 DEF Types
  <2>2. PICK i \in {user.id, writing.id}, r \in {user.rest, writing.rest} :
           u = [id |-> i, rest |-> r]
    BY <1>2 DEF Readable
  <2>3. i \in Id /\ r \in Rest
    BY <2>1 DEF User
  <2>4. QED
    BY <1>2, <2>2, <2>3 DEF User
<1>3. QED
  BY <1>1, <1>2

\* That values may be misfiled takes nothing from what is known of a worker.
LEMMA MoreMisfiled ==
    ASSUME NEW w, NEW u, NEW wr, NEW m \in BOOLEAN, NEW m2 \in BOOLEAN,
           WorkOK(w, u, wr, m), m => m2
    PROVE  WorkOK(w, u, wr, m2)
BY DEF WorkOK

\* A worker that goes on to w touches nothing else but the store and the caches.
LEMMA WorkerGoesOn ==
    ASSUME IInv, NEW n \in Update, NEW w \in WorkRecord, Set(n, w),
           UNCHANGED <<client, check, log>>,
           misfiled' \in BOOLEAN, misfiled => misfiled',
           WorkOK(w, user, writing, misfiled'),
           store' \in StoreRecord, origin' \in Origin,
           StoreOK(store', origin', user, update)
    PROVE  IInv'
<1>1. work' = [work EXCEPT ![n] = w] /\ work \in [Update -> WorkRecord]
  BY DEF Set, IInv, Types
<1>2. work' \in [Update -> WorkRecord]
  BY <1>1
<1>3. ASSUME NEW k \in Update PROVE WorkOK(work'[k], user, writing, misfiled')
  <2>1. CASE k = n
    BY <1>1, <2>1
  <2>2. CASE k # n
    <3>1. work'[k] = work[k] /\ misfiled \in BOOLEAN
          /\ WorkOK(work[k], user, writing, misfiled)
      BY <1>1, <2>2 DEF IInv, Types
    <3>2. QED
      BY <3>1, MoreMisfiled
  <2>3. QED
    BY <2>1, <2>2
<1>4. Types'
  BY <1>2 DEF IInv, Types
<1>5. /\ \A c \in Check : CheckOK(check'[c], user', update')
      /\ \A e \in log' : LogOK(e, check'[e.check])
  BY DEF IInv
<1>6. QED
  BY <1>3, <1>4, <1>5 DEF IInv

\* A worker with what it has got.
LEMMA GotRecord ==
    ASSUME IInv, NEW n \in Update, NEW r \in Response \cup {None},
           NEW stage \in {"check", "finalize", "undefined"},
           NEW source \in {None, "Network", "NetworkNotModified"},
           Got(n, stage, r, source)
    PROVE  \E w \in WorkRecord :
              /\ Set(n, w) /\ w.stage = stage /\ w.answer = r /\ w.source = source
              /\ w.asked = work[n].asked
<1> DEFINE w == [work[n] EXCEPT !.stage = stage, !.answer = r, !.source = source]
<1>1. Set(n, w)
  BY DEF Got
<1>2. work[n] \in WorkRecord
  BY DEF IInv, Types
<1>3. w \in WorkRecord /\ w.stage = stage /\ w.answer = r /\ w.source = source
      /\ w.asked = work[n].asked
  BY <1>2 DEF WorkRecord
<1> HIDE DEF w
<1>4. QED
  BY <1>1, <1>3

\* The server's answer, or what its flaw makes of it.
LEMMA AnswerStep ==
    ASSUME IInv, NEW n \in Update,
           Answer(n) \/ \E flaw \in Flaw : FlawedAnswer(n, flaw)
    PROVE  IInv' /\ UNCHANGED values
<1>1. /\ UNCHANGED <<client, values, misfiled, check, log>>
      /\ \/ \E r \in ValuesFor(work[n].asked) : Got(n, "check", r, "Network")
         \/ Got(n, "finalize", None, None)
         \/ Got(n, "undefined", None, None)
  BY DEF Answer, FlawedAnswer
<1>2. /\ misfiled \in BOOLEAN /\ store \in StoreRecord /\ origin \in Origin
      /\ StoreOK(store, origin, user, update)
  BY DEF IInv, Types
<1>3. ASSUME NEW r \in ValuesFor(work[n].asked), Got(n, "check", r, "Network")
      PROVE  IInv'
  <2>1. r \in Response /\ r.for = work[n].asked
    BY DEF ValuesFor
  <2>2. PICK w \in WorkRecord :
              /\ Set(n, w) /\ w.stage = "check" /\ w.answer = r
              /\ w.source = "Network" /\ w.asked = work[n].asked
    BY <1>3, <2>1, GotRecord
  <2>3. WorkOK(w, user, writing, misfiled)
    BY <2>1, <2>2 DEF WorkOK
  <2>4. QED
    BY <1>1, <1>2, <2>2, <2>3, WorkerGoesOn
<1>4. ASSUME NEW stage \in {"finalize", "undefined"}, Got(n, stage, None, None)
      PROVE  IInv'
  <2>1. PICK w \in WorkRecord : Set(n, w) /\ w.stage = stage
    BY <1>4, GotRecord
  <2>2. WorkOK(w, user, writing, misfiled)
    BY <2>1 DEF WorkOK
  <2>3. QED
    BY <1>1, <1>2, <2>1, <2>2, WorkerGoesOn
<1>5. QED
  BY <1>1, <1>3, <1>4

\* What a cache has for a user.
LEMMA CachedFor ==
    ASSUME Types, NEW u \in User, NEW r \in Cached(u), r # None
    PROVE  r \in Response /\ (misfiled \/ r.for.id = u.id)
BY DEF Types, Cached

\* A 204.
LEMMA NoContentStep ==
    ASSUME IInv, NEW n \in Update, NoContent(n)
    PROVE  IInv' /\ UNCHANGED values
<1>1. /\ work[n].stage = "ask"
      /\ UNCHANGED <<client, values, misfiled, check, log>>
  BY DEF NoContent
<1>2. PICK r \in IF work[n].answer = None THEN Cached(work[n].asked)
                                          ELSE {work[n].answer} :
          Got(n, "check", r, "NetworkNotModified")
  BY DEF NoContent
<1>3. work[n] \in WorkRecord /\ WorkOK(work[n], user, writing, misfiled)
  BY DEF IInv, Types
<1>4. /\ r \in Response \cup {None}
      /\ r # None => misfiled \/ r.for.id = work[n].asked.id
  <2>1. CASE work[n].answer = None
    BY <1>2, <2>1 DEF Cached
  <2>2. CASE work[n].answer # None
    BY <1>1, <1>2, <1>3, <2>2 DEF WorkRecord, WorkOK
  <2>3. QED
    BY <2>1, <2>2
<1>5. PICK w \in WorkRecord :
            /\ Set(n, w) /\ w.stage = "check" /\ w.answer = r
            /\ w.source = "NetworkNotModified" /\ w.asked = work[n].asked
  BY <1>2, <1>4, GotRecord
<1>6. WorkOK(w, user, writing, misfiled)
  BY <1>4, <1>5 DEF WorkOK
<1>7. /\ misfiled \in BOOLEAN /\ store \in StoreRecord /\ origin \in Origin
      /\ StoreOK(store, origin, user, update)
  BY DEF IInv, Types
<1>8. QED
  BY <1>1, <1>5, <1>6, <1>7, WorkerGoesOn

\* A worker that has nothing left but Finalize.
LEMMA Finalizing ==
    /\ [NoWork EXCEPT !.stage = "finalize"] \in WorkRecord
    /\ \A u, wr, m : WorkOK([NoWork EXCEPT !.stage = "finalize"], u, wr, m)
<1> DEFINE w == [NoWork EXCEPT !.stage = "finalize"]
<1>1. w \in WorkRecord /\ w.stage = "finalize"
  BY NoWorkOK DEF WorkRecord
<1> HIDE DEF w
<1>2. \A u, wr, m : WorkOK(w, u, wr, m)
  BY <1>1 DEF WorkOK
<1>3. QED
  BY <1>1, <1>2 DEF w

\* The worker compares the users.
LEMMA CheckUserStep ==
    ASSUME IInv, NEW n \in Update, CheckUser(n)
    PROVE  IInv' /\ UNCHANGED values
<1>1. /\ work[n].stage = "check"
      /\ UNCHANGED <<client, values, misfiled, check, log>>
  BY DEF CheckUser
<1>2. work[n] \in WorkRecord /\ WorkOK(work[n], user, writing, misfiled)
  BY DEF IInv, Types
<1>3. /\ misfiled \in BOOLEAN /\ store \in StoreRecord /\ origin \in Origin
      /\ StoreOK(store, origin, user, update)
  BY DEF IInv, Types
<1>4. CASE Set(n, [NoWork EXCEPT !.stage = "finalize"])
  BY <1>1, <1>3, <1>4, Finalizing, WorkerGoesOn
<1>5. ASSUME NEW u \in Readable, u = work[n].asked,
             Set(n, [work[n] EXCEPT !.stage = "set", !.overtaken = writing # None])
      PROVE  IInv'
  <2> DEFINE w == [work[n] EXCEPT !.stage = "set", !.overtaken = writing # None]
  <2>1. /\ w \in WorkRecord /\ w.stage = "set" /\ w.asked = work[n].asked
        /\ w.answer = work[n].answer /\ w.source = work[n].source
        /\ w.overtaken <=> writing # None
    BY <1>2 DEF WorkRecord
  <2>2. Set(n, w)
    BY <1>5
  <2> HIDE DEF w
  <2>3. writing = None => work[n].asked = user
    BY <1>5, ReadableUser DEF IInv
  <2>4. WorkOK(w, user, writing, misfiled)
    BY <1>1, <1>2, <2>1, <2>3 DEF WorkOK
  <2>5. QED
    BY <1>1, <1>3, <2>1, <2>2, <2>4, WorkerGoesOn
<1>6. QED
  BY <1>1, <1>4, <1>5 DEF CheckUser

\* The worker stores its answer.
LEMMA SetAnswerStep ==
    ASSUME IInv, NEW n \in Update, SetAnswer(n)
    PROVE  IInv' /\ (store.values # None => store'.values # None)
<1>1. /\ work[n].stage = "set" /\ Set(n, [NoWork EXCEPT !.stage = "finalize"])
      /\ UNCHANGED <<client, misfiled, check, log>>
  BY DEF SetAnswer
<1>2. /\ misfiled \in BOOLEAN /\ store \in StoreRecord /\ origin \in Origin
      /\ StoreOK(store, origin, user, update)
  BY DEF IInv, Types
<1>3. CASE work[n].answer = None
  <2>1. UNCHANGED values
    BY <1>3 DEF SetAnswer
  <2>2. QED
    BY <1>1, <1>2, <2>1, Finalizing, WorkerGoesOn
<1>4. CASE work[n].answer # None
  <2> DEFINE r == work[n].answer
             o == AnswerOrigin(n)
  <2>1. SetValues(r, work[n].source, o)
    BY <1>4 DEF SetAnswer
  <2>2. work[n] \in WorkRecord /\ WorkOK(work[n], user, writing, misfiled)
    BY DEF IInv, Types
  <2>3. r \in Response /\ work[n].source \in HasValues
    BY <1>1, <1>4, <2>2 DEF WorkRecord, WorkOK, HasValues
  <2>4. o \in Origin /\ Named(o, user, r)
    <3>1. CASE work[n].overtaken
      BY <3>1 DEF AnswerOrigin, Origin, Named
    <3>2. CASE ~ work[n].overtaken /\ work[n].source = "Network"
      <4>1. o = "answer" /\ work[n].asked = user /\ r.for = work[n].asked
        BY <1>1, <1>4, <2>2, <3>2 DEF AnswerOrigin, WorkOK
      <4>2. QED
        BY <4>1 DEF Origin, Named
    <3>3. CASE ~ work[n].overtaken /\ work[n].source # "Network"
      <4>1. /\ work[n].asked = user /\ (misfiled \/ r.for.id = user.id)
        BY <1>1, <1>4, <2>2, <3>3 DEF WorkOK
      <4>2. o = IF misfiled THEN "misfiled" ELSE "cache"
        BY <3>3 DEF AnswerOrigin, CacheOrigin
      <4>3. QED
        BY <4>1, <4>2 DEF Origin, Named
    <3>4. QED
      BY <3>1, <3>2, <3>3
  <2> HIDE DEF o, r
  <2>5. /\ store' \in StoreRecord /\ origin' \in Origin /\ store'.values # None
        /\ StoreOK(store', origin', user, update)
    <3>1. /\ store' \in StoreRecord /\ store'.values = r /\ origin' \in Origin
          /\ StoreOK(store', origin', user, update)
      BY <2>1, <2>3, <2>4, SetValuesStore
    <3>2. QED
      BY <2>3, <3>1
  <2>6. QED
    BY <1>1, <1>2, <2>5, Finalizing, WorkerGoesOn
<1>5. QED
  BY <1>3, <1>4

\* A refresh copies the user.
LEMMA CopyStep ==
    ASSUME IInv, NEW n \in Update, CopyForKey(n) \/ CopyAgain(n)
    PROVE  IInv' /\ UNCHANGED values
<1>1. UNCHANGED <<client, values, check, log>>
  BY DEF CopyForKey, CopyAgain
<1>2. work[n] \in WorkRecord /\ misfiled \in BOOLEAN
  BY DEF IInv, Types
<1>3. /\ store \in StoreRecord /\ origin \in Origin
      /\ StoreOK(store, origin, user, update)
  BY DEF IInv, Types
<1>4. CASE CopyForKey(n)
  <2>1. PICK u \in Readable : Set(n, [work[n] EXCEPT !.stage = "hash", !.asked = u])
    BY <1>4 DEF CopyForKey
  <2> DEFINE w == [work[n] EXCEPT !.stage = "hash", !.asked = u]
  <2>2. u \in User \cup {None}
    BY ReadableUser DEF IInv
  <2>3. w \in WorkRecord /\ w.stage = "hash"
    BY <1>2, <2>2 DEF WorkRecord
  <2>4. Set(n, w)
    BY <2>1
  <2> HIDE DEF w
  <2>5. WorkOK(w, user, writing, misfiled)
    BY <2>3 DEF WorkOK
  <2>6. QED
    BY <1>1, <1>2, <1>3, <1>4, <2>3, <2>4, <2>5, WorkerGoesOn DEF CopyForKey
<1>5. CASE CopyAgain(n)
  <2>1. misfiled' \in BOOLEAN /\ (misfiled => misfiled')
    BY <1>2, <1>5 DEF CopyAgain
  <2>2. CASE work[n].stage = "hash"
    <3> DEFINE w == [work[n] EXCEPT !.stage = "request"]
    <3>1. w \in WorkRecord /\ w.stage = "request"
      BY <1>2 DEF WorkRecord
    <3>2. Set(n, w)
      BY <1>5, <2>2 DEF CopyAgain
    <3> HIDE DEF w
    <3>3. WorkOK(w, user, writing, misfiled')
      BY <3>1 DEF WorkOK
    <3>4. QED
      BY <1>1, <1>3, <2>1, <3>1, <3>2, <3>3, WorkerGoesOn
  <2>3. CASE work[n].stage # "hash"
    <3>1. Set(n, NoWork)
      BY <1>5, <2>3 DEF CopyAgain
    <3>2. NoWork \in WorkRecord /\ WorkOK(NoWork, user, writing, misfiled')
      BY NoWorkOK
    <3>3. QED
      BY <1>1, <1>3, <2>1, <3>1, <3>2, WorkerGoesOn
  <2>4. QED
    BY <2>2, <2>3
<1>6. QED
  BY <1>1, <1>4, <1>5

\* A step of a worker touches its own state and the store at the most.
LEMMA WorkerStep == IInv /\ Worker => IInv' /\ (store.values # None => store'.values # None)
<1> SUFFICES ASSUME IInv, NEW n \in Update,
                    \/ Answer(n) \/ NoContent(n) \/ \E flaw \in Flaw : FlawedAnswer(n, flaw)
                    \/ FetchThrows(n) \/ CheckUser(n) \/ SetAnswer(n)
                    \/ FinalizeAnswer(n) \/ CopyForKey(n) \/ CopyAgain(n)
             PROVE  IInv' /\ (store.values # None => store'.values # None)
  BY DEF Worker
<1>1. /\ misfiled \in BOOLEAN /\ store \in StoreRecord /\ origin \in Origin
      /\ StoreOK(store, origin, user, update)
  BY DEF IInv, Types
<1>2. NoWork \in WorkRecord /\ WorkOK(NoWork, user, writing, misfiled)
  BY NoWorkOK
<1>3. CASE FetchThrows(n)
  <2>1. Set(n, NoWork) /\ UNCHANGED <<client, values, misfiled, check, log>>
    BY <1>3 DEF FetchThrows
  <2>2. QED
    BY <1>1, <1>2, <2>1, WorkerGoesOn
<1>4. CASE FinalizeAnswer(n)
  <2>1. /\ Set(n, NoWork) /\ Finalize
        /\ UNCHANGED <<client, origin, misfiled, check, log>>
    BY <1>4 DEF FinalizeAnswer
  <2>2. /\ store' \in StoreRecord /\ store'.values = store.values
        /\ StoreOK(store', origin, user, update)
    BY <1>1, <2>1, FinalizeStore
  <2>3. QED
    BY <1>1, <1>2, <2>1, <2>2, WorkerGoesOn
<1>5. CASE Answer(n) \/ \E flaw \in Flaw : FlawedAnswer(n, flaw)
  BY <1>5, AnswerStep
<1>6. CASE NoContent(n)
  BY <1>6, NoContentStep
<1>7. CASE CheckUser(n)
  BY <1>7, CheckUserStep
<1>8. CASE SetAnswer(n)
  BY <1>8, SetAnswerStep
<1>9. CASE CopyForKey(n) \/ CopyAgain(n)
  BY <1>9, CopyStep
<1>10. QED
  BY <1>3, <1>4, <1>5, <1>6, <1>7, <1>8, <1>9

-----------------------------------------------------------------------------
(* Steps of the checks.                                                    *)

\* A check that is not over yet goes on, while everything but the log stays.
LEMMA CheckGoesOn ==
    ASSUME IInv, NEW c \in Check, check[c].stage # "done",
           NEW p \in CheckRecord, CheckOK(p, user, update),
           check' = [check EXCEPT ![c] = p],
           UNCHANGED <<client, values, work, misfiled>>
    PROVE  /\ Types /\ check' \in [Check -> CheckRecord]
           /\ StoreOK(store', origin', user', update')
           /\ \A n \in Update : WorkOK(work'[n], user', writing', misfiled')
           /\ \A d \in Check : CheckOK(check'[d], user', update')
           /\ \A e \in log : LogOK(e, check'[e.check])
<1>1. check' \in [Check -> CheckRecord]
  BY DEF IInv, Types
<1>2. \A d \in Check : CheckOK(check'[d], user', update')
  BY DEF IInv, Types
<1>3. ASSUME NEW e \in log PROVE LogOK(e, check'[e.check])
  <2>1. e \in ExposureRecord /\ LogOK(e, check[e.check])
    BY DEF IInv, Types
  <2>2. e.check \in Check
    BY <2>1 DEF ExposureRecord
  <2>3. e.check # c
    BY <2>1 DEF LogOK
  <2>4. check'[e.check] = check[e.check]
    BY <2>2, <2>3 DEF IInv, Types
  <2>5. QED
    BY <2>1, <2>4
<1>4. QED
  BY <1>1, <1>2, <1>3 DEF IInv

\* INIT_GUARD.
LEMMA BeginStep ==
    ASSUME IInv, NEW c \in Check, NEW t \in Thread, NEW k \in Kind, Begin(c, t, k)
    PROVE  IInv'
<1> DEFINE p == check'[c]
<1>1. Default \in Result /\ FoundOK(Default) /\ Default # None
  <2>1. 0 \in 0 .. MaxVersion
    OBVIOUS
  <2>2. Default \in Result
    BY <2>1, Zenon DEF Default, Result, Source
  <2>3. QED
    BY <2>2 DEF Default, FoundOK
<1>2. NewCheck \in CheckRecord
  BY NewCheckRecord
<1>3. session \in Nat
  BY DEF IInv, Types
<1> DEFINE stage == IF session = 0 THEN "done"
                    ELSE IF k = "layer" THEN "user" ELSE "lookup"
           found == IF session = 0 THEN Default ELSE None
           during == (update # "none")
<1>4. p = [NewCheck EXCEPT !.stage = stage, !.thread = t, !.kind = k,
                           !.session = session, !.found = found,
                           !.overlapped = during]
  BY DEF Begin, IInv, Types
<1>5. /\ stage \in {"new", "user", "lookup", "log", "done"}
      /\ found \in Result \cup {None} /\ during \in BOOLEAN
  BY <1>1
<1>6. /\ stage \in {"done", "user", "lookup"}
      /\ stage = "user" => session # 0 /\ k = "layer"
      /\ stage = "lookup" => session # 0 /\ k # "layer"
      /\ stage = "done" => session = 0 /\ found = Default
      /\ stage # "done" => found = None
  OBVIOUS
<1>7. check' = [check EXCEPT ![c] = p] /\ check[c].stage = "new"
  BY DEF Begin, IInv, Types
<1>8. ~ during => update = "none"
  OBVIOUS
<1> HIDE DEF p, stage, found, during
<1>9. /\ p.stage = stage /\ p.thread = t /\ p.kind = k /\ p.session = session
      /\ p.found = found /\ p.overlapped = during
  BY <1>2, <1>4 DEF CheckRecord
<1>10. p \in CheckRecord
  BY <1>2, <1>3, <1>4, <1>5 DEF CheckRecord
<1>11. CheckOK(p, user, update)
  BY <1>1, <1>6, <1>8, <1>9 DEF CheckOK
<1>12. UNCHANGED <<client, values, work, misfiled, log>>
  BY DEF Begin
<1>13. QED
  BY <1>7, <1>10, <1>11, <1>12, CheckGoesOn DEF IInv, Types

\* GetLayer copies the user.
LEMMA CopyUserStep ==
    ASSUME IInv, NEW c \in Check, CopyUser(c)
    PROVE  IInv'
<1>1. check[c] \in CheckRecord /\ CheckOK(check[c], user, update)
  BY DEF IInv, Types
<1>2. PICK u \in Readable :
         check' = [check EXCEPT ![c] = [@ EXCEPT !.stage = "lookup", !.user = u]]
  BY DEF CopyUser
<1> DEFINE p == [check[c] EXCEPT !.stage = "lookup", !.user = u]
<1>3. /\ check[c].stage = "user" /\ check' = [check EXCEPT ![c] = p]
      /\ UNCHANGED <<client, values, work, misfiled, log>>
  BY <1>2 DEF CopyUser
<1>4. u \in User \cup {None} /\ (update = "none" => u = user)
  BY ReadableUser DEF IInv, Types
<1>5. /\ p \in CheckRecord /\ p.stage = "lookup" /\ p.user = u
      /\ p.thread = check[c].thread /\ p.session = check[c].session
      /\ p.found = check[c].found
      /\ p.overlapped <=> check[c].overlapped
  BY <1>1, <1>4 DEF CheckRecord
<1> HIDE DEF p
<1>6. CheckOK(p, user, update)
  BY <1>1, <1>3, <1>4, <1>5 DEF CheckOK
<1>7. QED
  BY <1>3, <1>5, <1>6, CheckGoesOn DEF IInv, Types

\* What GetGate, GetConfig and GetLayer return.
LEMMA DetailedFound ==
    ASSUME IInv
    PROVE  /\ Detailed \in Result /\ FoundOK(Detailed)
           /\ Detailed.evaluation # None => /\ store.values # None
                                            /\ Detailed.evaluation = store.values
<1> DEFINE has == store.values # None /\ store.values.ver >= FirstVersion
           e == IF has THEN store.values ELSE None
           d == Details(has)
<1>1. /\ store.values \in Response \cup {None}
      /\ store.source \in Source /\ store.lcut \in 0 .. MaxVersion
      /\ StoreOK(store, origin, user, update)
  BY DEF IInv, Types, StoreRecord
<1>2. /\ d \in [source : Source, lcut : 0 .. MaxVersion,
                suffix : {"", "Recognized", "Unrecognized"}]
      /\ IF has THEN /\ d.suffix = "Recognized" /\ d.source = store.source
                     /\ d.lcut = store.lcut
                ELSE d.suffix # "Recognized"
  <2>1. CASE has
    <3>1. d = [source |-> store.source, lcut |-> store.lcut,
               suffix |-> "Recognized"]
      BY <2>1 DEF Details
    <3> HIDE DEF d
    <3>2. QED
      BY <1>1, <2>1, <3>1
  <2>2. CASE ~ has /\ store.source \in {"Uninitialized", "NoValues"}
    <3>1. d = [source |-> store.source, suffix |-> "", lcut |-> 0]
      BY <2>2 DEF Details
    <3>2. 0 \in 0 .. MaxVersion
      OBVIOUS
    <3>3. [source |-> store.source, suffix |-> "", lcut |-> 0] \in
             [source : Source, lcut : 0 .. MaxVersion,
              suffix : {"", "Recognized", "Unrecognized"}]
      BY <1>1, <3>2, Zenon
    <3> HIDE DEF d
    <3>4. d.suffix = ""
      BY <3>1
    <3>5. QED
      BY <2>2, <3>1, <3>3, <3>4
  <2>3. CASE ~ has /\ store.source \notin {"Uninitialized", "NoValues"}
    <3>1. d = [source |-> store.source, lcut |-> store.lcut,
               suffix |-> "Unrecognized"]
      BY <2>3 DEF Details
    <3> HIDE DEF d
    <3>2. QED
      BY <1>1, <2>3, <3>1
  <2>4. QED
    BY <2>1, <2>2, <2>3
<1>3. Detailed = [evaluation |-> e, details |-> d]
  BY DEF Detailed
<1>4. /\ e \in Response \cup {None}
      /\ IF has THEN e = store.values /\ e # None ELSE e = None
  BY <1>1
<1> HIDE DEF d, e, has
<1>5. /\ Detailed \in Result /\ Detailed.evaluation = e /\ Detailed.details = d
  BY <1>2, <1>3, <1>4 DEF Result
<1>6. has => store.source \in HasValues /\ store.lcut = store.values.ver
  BY <1>1 DEF StoreOK, has
<1>7. FoundOK(Detailed)
  BY <1>2, <1>4, <1>5, <1>6 DEF FoundOK
<1>8. QED
  BY <1>4, <1>5, <1>7

\* The check finds what the store has.
LEMMA LookupSpecStep ==
    ASSUME IInv, NEW c \in Check, LookupSpec(c)
    PROVE  IInv'
<1> DEFINE stage == IF check[c].kind = "layer" THEN "done" ELSE "log"
           p == [check[c] EXCEPT !.stage = stage, !.found = Detailed,
                                 !.origin = origin]
<1>1. check[c] \in CheckRecord /\ CheckOK(check[c], user, update)
  BY DEF IInv, Types
<1>2. /\ check[c].stage = "lookup" /\ check' = [check EXCEPT ![c] = p]
      /\ UNCHANGED <<client, values, work, misfiled, log>>
  BY DEF LookupSpec
<1>3. Detailed \in Result \cup {None} /\ origin \in Origin
  BY DetailedFound DEF IInv, Types
<1>4. /\ stage \in {"done", "log"}
      /\ stage = "done" <=> check[c].kind = "layer"
  OBVIOUS
<1> HIDE DEF stage
<1>5. /\ p \in CheckRecord
      /\ p.stage = stage /\ p.found = Detailed /\ p.origin = origin
      /\ p.thread = check[c].thread /\ p.session = check[c].session
      /\ p.kind = check[c].kind /\ p.user = check[c].user
      /\ p.overlapped <=> check[c].overlapped
  BY <1>1, <1>3, <1>4 DEF CheckRecord
<1> HIDE DEF p
<1>6. store.values # None /\ update = "none" => Named(origin, user, store.values)
  BY DEF IInv, StoreOK
<1>7. CheckOK(p, user, update)
  BY <1>1, <1>2, <1>4, <1>5, <1>6, DetailedFound DEF CheckOK
<1>8. QED
  BY <1>2, <1>5, <1>7, CheckGoesOn DEF IInv, Types

\* An exposure as a check makes it.
LEMMA ExposureParts ==
    ASSUME NEW c \in Check, check[c].session \in Nat, NEW d \in Result,
           NEW u \in User \cup {None}
    PROVE  LET e == Exposure(c, u, d)
           IN  /\ e \in ExposureRecord
               /\ e.check = c /\ e.into = check[c].session /\ e.user = u
               /\ e.evaluation = d.evaluation /\ e.details = d.details
<1>1. Exposure(c, u, d) = [check |-> c, into |-> check[c].session, user |-> u,
                           evaluation |-> d.evaluation, details |-> d.details]
  BY DEF Exposure
<1> DEFINE e == Exposure(c, u, d)
<1> HIDE DEF e
<1>2. /\ e.check = c /\ e.into = check[c].session /\ e.user = u
      /\ e.evaluation = d.evaluation /\ e.details = d.details
  BY <1>1 DEF e
<1>3. d.evaluation \in Response \cup {None}
  BY DEF Result
<1>4. d.details \in [source : Source, lcut : 0 .. MaxVersion,
                     suffix : {"", "Recognized", "Unrecognized"}]
  BY DEF Result
<1>5. [check |-> c, into |-> check[c].session, user |-> u,
       evaluation |-> d.evaluation, details |-> d.details] \in ExposureRecord
  BY <1>3, <1>4, Zenon DEF ExposureRecord
<1>6. QED
  BY <1>1, <1>2, <1>5, Zenon DEF e

\* The other checks log at once.
LEMMA LogStep ==
    ASSUME IInv, NEW c \in Check, Log(c)
    PROVE  IInv'
<1>1. PICK u \in Readable : log' = log \cup {Exposure(c, u, check[c].found)}
  BY DEF Log
<1> DEFINE p == [check[c] EXCEPT !.stage = "done"]
           e == Exposure(c, u, check[c].found)
<1>2. check[c] \in CheckRecord /\ CheckOK(check[c], user, update)
  BY DEF IInv, Types
<1>3. /\ check[c].stage = "log" /\ check' = [check EXCEPT ![c] = p]
      /\ log' = log \cup {e}
      /\ UNCHANGED <<client, values, work, misfiled>>
  BY <1>1 DEF Log, Step
<1>4. /\ p \in CheckRecord /\ p.stage = "done"
      /\ p.thread = check[c].thread /\ p.session = check[c].session
      /\ p.kind = check[c].kind /\ p.user = check[c].user
      /\ p.found = check[c].found /\ p.origin = check[c].origin
      /\ p.overlapped <=> check[c].overlapped
  BY <1>2 DEF CheckRecord
<1>5. u \in User \cup {None} /\ (update = "none" => u = user)
  BY ReadableUser DEF IInv, Types
<1>6. check[c].found \in Result /\ check[c].session \in Nat
  BY <1>2, <1>3 DEF CheckRecord, CheckOK
<1>7. /\ e \in ExposureRecord
      /\ e.check = c /\ e.into = check[c].session /\ e.user = u
      /\ e.evaluation = check[c].found.evaluation
      /\ e.details = check[c].found.details
  BY <1>5, <1>6, ExposureParts
<1> HIDE DEF p, e
<1>8. CheckOK(p, user, update)
  BY <1>2, <1>3, <1>4 DEF CheckOK
<1>9. LogOK(e, p)
  BY <1>2, <1>3, <1>4, <1>5, <1>7 DEF CheckOK, LogOK
<1>10. check'[c] = p
  BY <1>3 DEF IInv, Types
<1>11. /\ Types /\ check' \in [Check -> CheckRecord]
       /\ StoreOK(store', origin', user', update')
       /\ \A n \in Update : WorkOK(work'[n], user', writing', misfiled')
       /\ \A d \in Check : CheckOK(check'[d], user', update')
       /\ \A x \in log : LogOK(x, check'[x.check])
  BY <1>3, <1>4, <1>8, CheckGoesOn
<1>12. \A x \in log' : LogOK(x, check'[x.check])
  BY <1>3, <1>7, <1>9, <1>10, <1>11
<1>13. log' \subseteq ExposureRecord
  BY <1>3, <1>7 DEF IInv, Types
<1>14. QED
  BY <1>3, <1>11, <1>12, <1>13 DEF IInv, Types

\* A layer logs as often as it is asked for a value.
LEMMA GetValueStep ==
    ASSUME IInv, NEW c \in Check, GetValue(c)
    PROVE  IInv'
<1> DEFINE q == check[c]
           e == Exposure(c, q.user, q.found)
<1>1. q \in CheckRecord /\ CheckOK(q, user, update)
  BY DEF IInv, Types
<1>2. /\ q.stage = "done" /\ q.kind = "layer" /\ q.session # 0
      /\ log' = log \cup {e}
      /\ UNCHANGED <<client, values, work, misfiled, check>>
  BY DEF GetValue, LayerExposure
<1>3. q.found \in Result /\ q.session \in Nat /\ q.user \in User \cup {None}
  BY <1>1, <1>2 DEF CheckRecord, CheckOK
<1>4. /\ e \in ExposureRecord
      /\ e.check = c /\ e.into = q.session /\ e.user = q.user
      /\ e.evaluation = q.found.evaluation /\ e.details = q.found.details
  BY <1>3, ExposureParts
<1> HIDE DEF e
<1>5. LogOK(e, q)
  BY <1>1, <1>2, <1>4 DEF CheckOK, LogOK
<1>6. \A x \in log' : LogOK(x, check'[x.check])
  BY <1>2, <1>4, <1>5 DEF IInv
<1>7. log' \subseteq ExposureRecord
  BY <1>2, <1>4 DEF IInv, Types
<1>8. QED
  BY <1>2, <1>6, <1>7 DEF IInv, Types

-----------------------------------------------------------------------------
(* Steps of the main thread.                                               *)

\* While nobody checks every check is over or not begun.
LEMMA NobodyChecksStages ==
    ASSUME IInv, NobodyChecks
    PROVE  \A c \in Check : check[c].stage \in {"new", "done"}
<1> SUFFICES ASSUME NEW c \in Check, check[c].stage # "new", check[c].stage # "done"
             PROVE  FALSE
  OBVIOUS
<1>1. check[c].thread \in Thread
  BY DEF IInv, CheckOK
<1>2. QED
  BY <1>1 DEF NobodyChecks, InCheck

\* A check that is over or not begun does not ask who the user is, and one
\* that is overlapped neither.
LEMMA CheckOfAnyUser ==
    ASSUME NEW q \in CheckRecord, NEW u, NEW up, CheckOK(q, u, up),
           q.stage \in {"new", "done"} \/ q.overlapped
    PROVE  \A v, vp : CheckOK(q, v, vp)
BY DEF CheckOK

\* The workers of a context that goes.
LEMMA DropWorkOK ==
    ASSUME IInv, DropWork
    PROVE  /\ work' \in [Update -> WorkRecord] /\ misfiled' \in BOOLEAN
           /\ \A u, wr : \A n \in Update : WorkOK(work'[n], u, wr, misfiled')
<1>1. work' = [n \in Update |-> NoWork]
  BY DEF DropWork
<1>2. misfiled' \in BOOLEAN
  BY DEF DropWork, IInv, Types
<1>3. QED
  BY <1>1, <1>2, NoWorkOK

\* No values and no origin for them.
LEMMA NoStoreOK ==
    /\ NoStore \in StoreRecord /\ "none" \in Origin
    /\ \A o, u, up : StoreOK(NoStore, o, u, up)
<1>1. 0 \in 0 .. MaxVersion
  OBVIOUS
<1>2. NoStore \in StoreRecord
  BY <1>1, Zenon DEF NoStore, StoreRecord, Source
<1>3. NoStore.values = None /\ NoStore.lcut = 0
  BY DEF NoStore
<1>4. QED
  BY <1>2, <1>3 DEF StoreOK, Origin

\* Another context.
LEMMA InitializeStep ==
    ASSUME IInv, NEW u \in AppUser, Initialize(u)
    PROVE  IInv'
<1>1. /\ store' = NoStore /\ origin' = "none" /\ DropWork
      /\ UNCHANGED <<writing, check, log>>
      /\ update = "none" /\ user' = u /\ update' = "reset"
      /\ updates' = updates + 1 /\ session' = updates' /\ updates < MaxUpdates
  BY DEF Initialize
<1>2. u \in User
  OBVIOUS
<1>3. \A c \in Check : CheckOK(check[c], user', update')
  <2>1. \A c \in Check : check[c] \in CheckRecord /\ CheckOK(check[c], user, update)
    BY DEF IInv, Types
  <2>2. QED
    BY <2>1, NobodyChecksStages, CheckOfAnyUser DEF Initialize
<1>4. updates' \in 0 .. MaxUpdates /\ session' \in 0 .. updates'
  BY <1>1 DEF IInv, Types
<1>5. writing = None
  BY <1>1 DEF IInv, Types
<1>6. Types'
  BY <1>1, <1>2, <1>4, <1>5, DropWorkOK, NoStoreOK DEF IInv, Types
<1>7. QED
  BY <1>1, <1>3, <1>6, DropWorkOK, NoStoreOK DEF IInv

\* The user is about to be assigned: who is in a check is overlapped, who has
\* compared the users is overtaken.
LEMMA UpdateUserStep ==
    ASSUME IInv, NEW u \in AppUser, UpdateUser(u)
    PROVE  IInv'
<1>1. \A c \in Check : check[c] \in CheckRecord /\ CheckOK(check[c], user, update)
  BY DEF IInv, Types
<1>2. /\ session # 0 /\ update = "none" /\ writing' = u /\ update' = "assign"
      /\ updates' = updates + 1 /\ updates < MaxUpdates
      /\ Overlap /\ UNCHANGED <<session, user, values, misfiled, log>>
      /\ work' = [n \in Update |->
                    [work[n] EXCEPT !.overtaken = @ \/ work[n].stage = "set"]]
  BY DEF UpdateUser
<1>3. ASSUME NEW c \in Check
      PROVE  /\ check'[c] \in CheckRecord /\ CheckOK(check'[c], user', update')
             /\ check[c].stage = "done" => check'[c] = check[c]
  <2>1. CASE check[c].stage \in {"new", "done"}
    <3>1. check'[c] = check[c]
      BY <1>2, <2>1 DEF Overlap
    <3>2. QED
      BY <1>1, <2>1, <3>1, CheckOfAnyUser
  <2>2. CASE check[c].stage \notin {"new", "done"}
    <3> DEFINE p == [check[c] EXCEPT !.overlapped = TRUE]
    <3>1. check'[c] = p
      BY <1>2, <2>2 DEF Overlap
    <3>2. /\ p \in CheckRecord /\ p.overlapped /\ p.stage = check[c].stage
          /\ p.thread = check[c].thread /\ p.session = check[c].session
          /\ p.kind = check[c].kind /\ p.found = check[c].found
      BY <1>1 DEF CheckRecord
    <3> HIDE DEF p
    <3>3. CheckOK(p, user', update')
      BY <1>1, <3>2 DEF CheckOK
    <3>4. QED
      BY <2>2, <3>1, <3>2, <3>3
  <2>3. QED
    BY <2>1, <2>2
<1>4. check' \in [Check -> CheckRecord]
  <2>1. check' = [c \in Check |-> check'[c]]
    BY <1>2 DEF Overlap
  <2>2. QED
    BY <1>3, <2>1
<1>5. \A e \in log : LogOK(e, check'[e.check])
  <2>1. \A e \in log : e \in ExposureRecord /\ LogOK(e, check[e.check])
    BY DEF IInv, Types
  <2>2. \A e \in log : e.check \in Check
    BY <2>1 DEF ExposureRecord
  <2>3. QED
    BY <1>3, <2>1, <2>2 DEF LogOK
<1>6. ASSUME NEW n \in Update
      PROVE  work'[n] \in WorkRecord /\ WorkOK(work'[n], user, u, misfiled)
  <2> DEFINE w == [work[n] EXCEPT !.overtaken = @ \/ work[n].stage = "set"]
  <2>1. work[n] \in WorkRecord /\ WorkOK(work[n], user, writing, misfiled)
    BY DEF IInv, Types
  <2>2. /\ w \in WorkRecord /\ w.stage = work[n].stage /\ w.asked = work[n].asked
        /\ w.answer = work[n].answer /\ w.source = work[n].source
        /\ work[n].stage = "set" => w.overtaken
    BY <2>1 DEF WorkRecord
  <2>3. work'[n] = w
    BY <1>2
  <2> HIDE DEF w
  <2>4. WorkOK(w, user, u, misfiled)
    BY <2>1, <2>2 DEF WorkOK
  <2>5. QED
    BY <2>2, <2>3, <2>4
<1>7. work' \in [Update -> WorkRecord]
  <2>1. work' = [n \in Update |-> work'[n]]
    BY <1>2
  <2>2. QED
    BY <1>6, <2>1
<1>8. StoreOK(store', origin', user', update')
  BY <1>2 DEF IInv, StoreOK
<1>9. updates' \in 0 .. MaxUpdates /\ session' \in 0 .. updates' /\ user \in User
  BY <1>2 DEF IInv, Types
<1>10. u \in User /\ u # None
  OBVIOUS
<1>11. log \subseteq ExposureRecord /\ misfiled \in BOOLEAN
       /\ store \in StoreRecord /\ origin \in Origin
  BY DEF IInv, Types
<1>12. Types'
  BY <1>2, <1>4, <1>7, <1>9, <1>10, <1>11 DEF Types
<1>13. QED
  BY <1>2, <1>3, <1>5, <1>6, <1>8, <1>12 DEF IInv

\* The assignment ends.  Workers between comparison and store are overtaken.
LEMMA AssignStep ==
    ASSUME IInv, Assign
    PROVE  IInv'
<1>1. /\ update = "assign" /\ update' = "reset" /\ user' = writing /\ writing' = None
      /\ UNCHANGED <<updates, session, values, work, misfiled, check, log>>
  BY DEF Assign
<1>2. writing \in User /\ writing # None
  BY <1>1 DEF IInv, Types
<1>3. \A c \in Check : CheckOK(check[c], user', update')
  BY <1>1 DEF IInv, CheckOK
<1>4. \A n \in Update : WorkOK(work[n], user', writing', misfiled)
  BY <1>1, <1>2 DEF IInv, WorkOK
<1>5. StoreOK(store, origin, user', update')
  BY <1>1 DEF IInv, StoreOK
<1>6. Types'
  BY <1>1, <1>2 DEF IInv, Types
<1>7. QED
  BY <1>1, <1>3, <1>4, <1>5, <1>6 DEF IInv

\* EvaluationStore::Reset.
LEMMA ResetStep ==
    ASSUME IInv, Reset
    PROVE  IInv'
<1>1. /\ update = "reset" /\ update' = "lookup"
      /\ store' = [values |-> None, source |-> "Loading", lcut |-> 0]
      /\ origin' = "none"
      /\ UNCHANGED <<updates, session, user, writing, work, misfiled, check, log>>
  BY DEF Reset
<1>2. store' \in StoreRecord /\ StoreOK(store', origin', user', update')
  <2>1. "Loading" \in Source
    BY DEF Source
  <2>2. QED
    BY <1>1, <2>1, EmptyStore
<1>3. ASSUME NEW c \in Check PROVE CheckOK(check[c], user, update')
  <2>1. CheckOK(check[c], user, "reset")
    BY <1>1 DEF IInv
  <2>2. QED
    BY <1>1, <2>1 DEF CheckOK
<1>4. updates # 0 /\ user \in User
  BY <1>1 DEF IInv, Types
<1>5. Types'
  BY <1>1, <1>2, <1>4, NoStoreOK DEF IInv, Types
<1>6. QED
  BY <1>1, <1>2, <1>3, <1>5 DEF IInv

\* What a cache has becomes the store's.
LEMMA SetCachedStore ==
    ASSUME Types, update = "lookup", NEW r \in Cached(user), r # None, SetCached(r)
    PROVE  /\ store' \in StoreRecord /\ origin' \in Origin /\ store'.values # None
           /\ StoreOK(store', origin', user, "none")
<1>1. PICK source \in CachedSource : SetValues(r, source, CacheOrigin)
  BY DEF SetCached
<1>2. user \in User
  BY DEF Types
<1>3. r \in Response /\ (misfiled \/ r.for.id = user.id)
  BY <1>2, CachedFor
<1>4. source \in HasValues
  BY DEF CachedSource, HasValues
<1>5. CacheOrigin \in Origin /\ Named(CacheOrigin, user, r)
  BY <1>3 DEF CacheOrigin, Origin, Named
<1>6. /\ store' \in StoreRecord /\ store'.values = r /\ origin' \in Origin
      /\ StoreOK(store', origin', user, "none")
  BY <1>1, <1>3, <1>4, <1>5, SetValuesStore
<1>7. QED
  BY <1>3, <1>6

\* The lookup ends the update on the main thread, with what it leaves to a worker.
LEMMA LookupStep ==
    ASSUME IInv, update = "lookup", update' = "none",
           UNCHANGED <<updates, session, user, writing, misfiled, check, log>>,
           store' \in StoreRecord, origin' \in Origin,
           StoreOK(store', origin', user, "none"),
           NEW w \in WorkRecord, WorkOK(w, user, writing, misfiled),
           work' = [work EXCEPT ![updates] = w]
    PROVE  IInv'
<1>1. work \in [Update -> WorkRecord] /\ updates \in Update
  BY DEF IInv, Types, Update
<1>2. work' \in [Update -> WorkRecord]
  BY <1>1
<1>3. \A n \in Update : WorkOK(work'[n], user, writing, misfiled)
  BY <1>1 DEF IInv
<1>4. \A c \in Check : CheckOK(check[c], user, update')
  BY DEF IInv, CheckOK
<1>5. Types'
  BY <1>2 DEF IInv, Types
<1>6. QED
  BY <1>3, <1>4, <1>5 DEF IInv

\* UpdateUserSync's lookup.
LEMMA LookupSyncStep ==
    ASSUME IInv, LookupSync
    PROVE  IInv' /\ (store.values # None => store'.values # None)
<1>1. /\ update = "lookup" /\ update' = "none"
      /\ UNCHANGED <<updates, session, user, writing, misfiled, check, log>>
      /\ work' = [work EXCEPT ![updates] = [NoWork EXCEPT !.stage = "key"]]
      /\ \/ Finalize /\ UNCHANGED origin
         \/ \E r \in Cached(user) \ {None} : SetCached(r)
  BY DEF LookupSync
<1>2. /\ Types /\ store \in StoreRecord /\ origin \in Origin
      /\ StoreOK(store, origin, user, update)
  BY DEF IInv, Types
<1>3. StoreOK(store, origin, user, "none")
  BY <1>1, <1>2 DEF StoreOK
<1>4. /\ store' \in StoreRecord /\ origin' \in Origin
      /\ StoreOK(store', origin', user, "none")
      /\ store.values # None => store'.values # None
  <2>1. CASE Finalize /\ UNCHANGED origin
    <3>1. /\ store' \in StoreRecord /\ store'.values = store.values
          /\ StoreOK(store', origin, user, "none")
      BY <1>2, <1>3, <2>1, FinalizeStore
    <3>2. QED
      BY <1>2, <2>1, <3>1
  <2>2. CASE \E r \in Cached(user) \ {None} : SetCached(r)
    BY <1>1, <1>2, <2>2, SetCachedStore
  <2>3. QED
    BY <1>1, <2>1, <2>2
<1> DEFINE w == [NoWork EXCEPT !.stage = "key"]
<1>5. w \in WorkRecord /\ w.stage = "key"
  BY NoWorkOK DEF WorkRecord
<1>6. work' = [work EXCEPT ![updates] = w]
  BY <1>1
<1> HIDE DEF w
<1>7. WorkOK(w, user, writing, misfiled)
  BY <1>5 DEF WorkOK
<1>8. QED
  BY <1>1, <1>4, <1>5, <1>6, <1>7, LookupStep

\* UpdateUserAsync's.
LEMMA LookupAsyncStep ==
    ASSUME IInv, LookupAsync
    PROVE  IInv' /\ (store.values # None => store'.values # None)
<1>1. /\ update = "lookup" /\ update' = "none"
      /\ UNCHANGED <<updates, session, user, writing, misfiled, check, log>>
  BY DEF LookupAsync
<1>2. PICK r \in Cached(user) :
         /\ IF r = None THEN UNCHANGED values ELSE SetCached(r)
         /\ work' = [work EXCEPT ![updates] =
               [NoWork EXCEPT !.stage = "ask", !.asked = user, !.answer = r]]
  BY DEF LookupAsync
<1>3. /\ Types /\ store \in StoreRecord /\ origin \in Origin
      /\ StoreOK(store, origin, user, update) /\ user \in User
  BY <1>1 DEF IInv, Types
<1>4. StoreOK(store, origin, user, "none")
  BY <1>1, <1>3 DEF StoreOK
<1>5. /\ store' \in StoreRecord /\ origin' \in Origin
      /\ StoreOK(store', origin', user, "none")
      /\ store.values # None => store'.values # None
  <2>1. CASE r = None
    BY <1>2, <1>3, <1>4, <2>1
  <2>2. CASE r # None
    BY <1>1, <1>2, <1>3, <2>2, SetCachedStore
  <2>3. QED
    BY <2>1, <2>2
<1>6. r \in Response \cup {None} /\ (r # None => misfiled \/ r.for.id = user.id)
  BY <1>3, CachedFor
<1> DEFINE w == [NoWork EXCEPT !.stage = "ask", !.asked = user, !.answer = r]
<1>7. w \in WorkRecord /\ w.stage = "ask" /\ w.asked = user /\ w.answer = r
  BY <1>3, <1>6, NoWorkOK DEF WorkRecord
<1>8. work' = [work EXCEPT ![updates] = w]
  BY <1>2
<1> HIDE DEF w
<1>9. WorkOK(w, user, writing, misfiled)
  BY <1>6, <1>7 DEF WorkOK
<1>10. QED
  BY <1>1, <1>5, <1>7, <1>8, <1>9, LookupStep

\* The file system throws.
LEMMA LookupThrowsStep ==
    ASSUME IInv, LookupThrows
    PROVE  IInv'
<1>1. /\ update = "lookup" /\ update' = "none"
      /\ UNCHANGED <<updates, session, user, writing, values, work, misfiled,
                     check, log>>
  BY DEF LookupThrows
<1>2. StoreOK(store, origin, user, "none")
  BY <1>1 DEF IInv, StoreOK
<1>3. \A c \in Check : CheckOK(check[c], user, "none")
  BY <1>1 DEF IInv, CheckOK
<1>4. Types'
  BY <1>1 DEF IInv, Types
<1>5. QED
  BY <1>1, <1>2, <1>3, <1>4 DEF IInv

\* The end of the context.
LEMMA ShutdownStep ==
    ASSUME IInv, Shutdown
    PROVE  IInv'
<1>1. /\ update = "none" /\ session' = 0
      /\ store' = NoStore /\ origin' = "none" /\ DropWork
      /\ UNCHANGED <<updates, user, writing, update, check, log>>
  BY DEF Shutdown
<1>2. writing = None
  BY <1>1 DEF IInv, Types
<1>3. Types'
  BY <1>1, <1>2, DropWorkOK, NoStoreOK DEF IInv, Types
<1>4. QED
  BY <1>1, <1>3, DropWorkOK, NoStoreOK DEF IInv

\* A step of the main thread.
LEMMA ClientStep == IInv /\ Client => IInv'
BY InitializeStep, UpdateUserStep, AssignStep, ResetStep, LookupSyncStep,
   LookupAsyncStep, LookupThrowsStep, ShutdownStep DEF Client

-----------------------------------------------------------------------------
(* The theorems.                                                           *)

\* Every step keeps the invariant.
LEMMA StepIInv == IInv /\ [Next]_vars => IInv'
<1> SUFFICES ASSUME IInv, [Next]_vars PROVE IInv'
  OBVIOUS
<1>1. CASE Checks
  BY <1>1, BeginStep, CopyUserStep, LookupSpecStep, LogStep, GetValueStep DEF Checks
<1>2. CASE UNCHANGED vars
  BY <1>2 DEF vars, IInv, Types
<1>3. QED
  BY <1>1, <1>2, ClientStep, WorkerStep DEF Next

\* The invariant holds in every state.
LEMMA AlwaysIInv == Spec => []IInv
BY InitIInv, StepIInv, PTL DEF Spec

\* Every variable has its type, and source_info_ is in step with values_.
THEOREM TypeCorrect == Spec => []TypeOK
<1>1. IInv => TypeOK
  <2> SUFFICES ASSUME IInv PROVE TypeOK
    OBVIOUS
  <2>1. /\ store.values \in Response \cup {None} /\ store.source \in Source
        /\ store.lcut = IF store.values = None THEN 0 ELSE store.values.ver
    BY DEF IInv, Types, StoreRecord, StoreOK
  <2>2. \A n \in Update :
          /\ work[n].stage \in {"none", "ask", "check", "set", "finalize",
                                "undefined", "key", "hash", "request"}
          /\ work[n].answer \in Response \cup {None}
    BY DEF IInv, Types, WorkRecord
  <2>3. \A c \in Check : check[c] \in CheckRecord /\ CheckOK(check[c], user, update)
    BY DEF IInv, Types
  <2>4. \A c \in Check :
          /\ check[c].stage \in {"new", "user", "lookup", "log", "done"}
          /\ check[c].found \in Result \cup {None}
          /\ check[c].stage \in {"log", "done"} => check[c].found # None
    BY <2>3 DEF CheckRecord, CheckOK
  <2>5. QED
    BY <2>1, <2>2, <2>4 DEF IInv, Types, TypeOK
<1>2. QED
  BY <1>1, AlwaysIInv, PTL

\* Whatever answers come between lookup, log and return, an exposure tells the
\* server the evaluation and the details that the application was given.
THEOREM ExposuresTellResults == Spec => []ExposureTellsResult
<1>1. IInv => ExposureTellsResult
  BY DEF IInv, LogOK, ExposureTellsResult
<1>2. QED
  BY <1>1, AlwaysIInv, PTL

\* An exposure with an evaluation names the user it was computed for, or from a
\* cache one with this user's ids, a layer's too that is logged when the user has
\* long changed -- unless another thread's UpdateUser overlaps the check, one has
\* overtaken the worker that stored the values, or a refresh has misfiled them.
THEOREM ExposuresForUser == Spec => []ExposureForUser
<1>1. IInv => ExposureForUser
  BY DEF IInv, LogOK, Named, ExposureForUser
<1>2. QED
  BY <1>1, AlwaysIInv, PTL

\* A result and its details come from one answer, although an update of the
\* store may fall between any two checks.
THEOREM DetailsFromOneAnswer == Spec => []DetailsTellSource
<1>1. IInv => DetailsTellSource
  BY DEF IInv, CheckOK, FoundOK, HasValues, DetailsTellSource
<1>2. QED
  BY <1>1, AlwaysIInv, PTL

\* Exposures go to the logger of the session their check was made in.
THEOREM ExposuresInSession == Spec => []OwnSession
<1>1. IInv => OwnSession
  BY DEF IInv, LogOK, OwnSession
<1>2. QED
  BY <1>1, AlwaysIInv, PTL

\* No answer of the server, flawed or late, takes values from the store: only
\* Reset, another session or the end of this one does.
THEOREM AnswersKeepValues == Spec => ValuesStay
<1> DEFINE Stays == store.values # None /\ session' = session /\ update # "reset"
                       => store'.values # None
<1>1. IInv /\ [Next]_vars => [Stays]_vars
  <2> SUFFICES ASSUME IInv, Next, store.values # None, session' = session,
                      update # "reset"
               PROVE  store'.values # None
    OBVIOUS
  <2>1. CASE Worker
    BY <2>1, WorkerStep
  <2>2. CASE Checks
    BY <2>2 DEF Checks, Begin, CopyUser, LookupSpec, Log, GetValue
  <2>3. CASE Client
    <3>1. ASSUME NEW u \in AppUser, Initialize(u) PROVE FALSE
      BY <3>1 DEF Initialize, IInv, Types
    <3>2. ASSUME NEW u \in AppUser, UpdateUser(u) PROVE store' = store
      BY <3>2 DEF UpdateUser
    <3>3. CASE Shutdown
      BY <3>3 DEF Shutdown
    <3>4. CASE LookupSync \/ LookupAsync
      BY <3>4, LookupSyncStep, LookupAsyncStep
    <3>5. CASE Assign \/ LookupThrows
      BY <3>5 DEF Assign, LookupThrows
    <3>6. QED
      BY <2>3, <3>1, <3>2, <3>3, <3>4, <3>5 DEF Client, Reset
  <2>4. QED
    BY <2>1, <2>2, <2>3 DEF Next
<1>2. QED
  BY <1>1, InitIInv, StepIInv, PTL DEF Spec, ValuesStay
=============================================================================
