------------------------ MODULE NetworkServiceProofs ------------------------
(***************************************************************************)
(* Proofs about NetworkService, for any number of requests and contexts,   *)
(* any statuses and any retry counts.                                      *)
(***************************************************************************)
EXTENDS NetworkService, TLAPS

USE RequestAssumption, CountAssumption DEF RequestAssumption, CountAssumption
USE DEF Requests, Context, NoText

-----------------------------------------------------------------------------
(* Types.                                                                  *)

Id == {None, NoText} \cup 1 .. made
Stage == {"new", "read", "make", "serialize", "post", "done", "lost", "unsent"}
RequestRecord == [stage : Stage, service : Service \cup {None}, attempt : Int,
                  taken : BOOLEAN, answer : {None, "ok", "bad"}]

\* A request r at its place, when there have been n contexts: it knows its
\* service while it looks for the id, it can be taken only after that, and it
\* has an answer when it is done.
RequestOK(q, r, n) ==
    /\ q \in RequestRecord
    /\ q.attempt \in 1 .. MaxAttempts(r)
    /\ q.stage \in {"read", "make"} => q.service \in Service /\ q.service[1] <= n
    /\ q.taken => q.stage \in {"post", "done", "lost"}
    /\ IF q.stage = "done" THEN q.answer \in {"ok", "bad"} ELSE q.answer = None

\* The types in the form that is inductive.
Types ==
    /\ contexts \in 0 .. MaxContexts /\ context \in 0 .. contexts
    /\ crashes \in 0 .. MaxCrashes /\ made \in Nat
    /\ memo \in [Service -> Id] /\ idFile \in Id
    /\ writes \subseteq 1 .. made /\ writing \subseteq 1 .. made
    /\ request \in [Requests -> RequestRecord]
    /\ \A r \in Requests : RequestOK(request[r], r, contexts)
    /\ DOMAIN inherits = Context

\* Every request may be posted once.
LEMMA SomeAttempt == \A r \in Requests : MaxAttempts(r) \in Nat \ {0}
BY DEF MaxAttempts

\* A request as it was made.
LEMMA NewParts ==
    /\ NewRequest \in RequestRecord /\ NewRequest.attempt = 1
    /\ NewRequest.stage = "new" /\ ~ NewRequest.taken
    /\ NewRequest.answer = None
<1>1. 1 \in Int
  OBVIOUS
<1>2. NewRequest \in RequestRecord
  BY <1>1, Zenon DEF NewRequest, RequestRecord, Stage
<1>3. QED
  BY <1>2 DEF NewRequest

\* What is left of a request that is over.
LEMMA LeftParts ==
    ASSUME Types, NEW r \in Requests
    PROVE  /\ Left(r) \in RequestRecord
           /\ Left(r).attempt = 1 /\ Left(r).answer = None
BY NewParts DEF Types, Left, RequestRecord

\* A request goes to a stage where its parts may be as they are.
LEMMA SetTypes ==
    ASSUME Types, NEW r \in Requests, NEW s \in Stage, NEW q \in RequestRecord,
           Set(r, s, q), contexts' = contexts,
           q.attempt \in 1 .. MaxAttempts(r),
           s \in {"read", "make"} =>
              q.service \in Service /\ q.service[1] <= contexts,
           q.taken => s \in {"post", "done", "lost"},
           IF s = "done" THEN q.answer \in {"ok", "bad"} ELSE q.answer = None
    PROVE  /\ request' \in [Requests -> RequestRecord]
           /\ \A i \in Requests : RequestOK(request'[i], i, contexts')
<1> DEFINE p == [q EXCEPT !.stage = s]
<1>1. /\ p \in RequestRecord
      /\ p.stage = s /\ p.attempt = q.attempt /\ p.service = q.service
      /\ p.answer = q.answer /\ (p.taken <=> q.taken)
  BY DEF RequestRecord
<1>2. request' = [request EXCEPT ![r] = p]
  BY DEF Set
<1> HIDE DEF p
<1>3. RequestOK(p, r, contexts)
  BY <1>1 DEF RequestOK
<1>4. QED
  BY <1>1, <1>2, <1>3 DEF Types

\* The first state has the types.
LEMMA InitTypes == Init => Types
<1> SUFFICES ASSUME Init PROVE Types
  OBVIOUS
<1>1. \A r \in Requests : RequestOK(NewRequest, r, contexts)
  BY NewParts, SomeAttempt DEF RequestOK
<1>2. QED
  BY <1>1, NewParts DEF Init, Types, Id

\* Knowing the id takes a request on its way.
LEMMA KnowIdTypes ==
    ASSUME Types, NEW r \in Requests, NEW id, KnowId(r, id),
           request[r].stage \in {"read", "make"},
           made' \in Nat, made' >= made, contexts' = contexts, id \in Id'
    PROVE  /\ memo' \in [Service -> Id']
           /\ request' \in [Requests -> RequestRecord]
           /\ \A q \in Requests : RequestOK(request'[q], q, contexts')
<1>1. memo' = [memo EXCEPT ![request[r].service] = id]
  BY DEF KnowId
<1>2. memo \in [Service -> Id']
  BY DEF Types, Id
<1>3. memo' \in [Service -> Id']
  BY <1>1, <1>2
<1>4. Set(r, "serialize", NewRequest) /\ "serialize" \in Stage
  BY DEF KnowId, Stage
<1>5. /\ request' \in [Requests -> RequestRecord]
      /\ \A q \in Requests : RequestOK(request'[q], q, contexts')
  BY <1>4, NewParts, SomeAttempt, SetTypes
<1>6. QED
  BY <1>3, <1>5

\* Every step keeps the types.
LEMMA StepTypes == Types /\ [Next]_vars => Types'
<1> SUFFICES ASSUME Types, [Next]_vars PROVE Types'
  OBVIOUS
<1>1. CASE NewContext
  <2>1. \A r \in Requests : RequestOK(request[r], r, contexts + 1)
    BY DEF Types, RequestOK, Service
  <2>2. QED
    BY <1>1, <2>1 DEF NewContext, Types, Id, ids
<1>2. CASE Crash
  <2>1. ASSUME NEW r \in Requests
        PROVE  /\ request'[r] \in RequestRecord
               /\ RequestOK(request'[r], r, contexts)
    <3>1. CASE request[r].stage \in {"new", "done", "unsent"}
      BY <1>2, <3>1 DEF Crash, Types, RequestOK
    <3>2. CASE request[r].stage \notin {"new", "done", "unsent"}
      <4> DEFINE p == request'[r]
      <4>1. p = [Left(r) EXCEPT !.stage = "lost"]
        BY <1>2, <3>2 DEF Crash
      <4>2. /\ p \in RequestRecord
            /\ p.attempt = 1 /\ p.answer = None /\ p.stage = "lost"
        BY <4>1, LeftParts DEF RequestRecord, Stage
      <4> HIDE DEF p
      <4>3. RequestOK(p, r, contexts)
        BY <4>2, SomeAttempt DEF RequestOK
      <4>4. QED
        BY <4>2, <4>3 DEF p
    <3>3. QED
      BY <3>1, <3>2
  <2>2. request' \in [Requests -> RequestRecord]
    <3>1. request' = [r \in Requests |-> request'[r]]
      BY <1>2 DEF Crash
    <3>2. QED
      BY <2>1, <3>1
  <2>3. memo' \in [Service -> Id']
    BY <1>2 DEF Crash, Id
  <2>4. \A r \in Requests : RequestOK(request'[r], r, contexts')
    BY <1>2, <2>1 DEF Crash
  <2>5. /\ context' = 0 /\ crashes' \in 0 .. MaxCrashes
        /\ writes' = {} /\ writing' = {}
        /\ UNCHANGED <<idFile, made, contexts, inherits>>
    BY <1>2 DEF Crash, Types
  <2>6. QED
    BY <2>2, <2>3, <2>4, <2>5 DEF Types, Id
<1>3. CASE OpenIdFile
  BY <1>3 DEF OpenIdFile, Types, Id
<1>4. CASE CloseIdFile
  BY <1>4 DEF CloseIdFile, Types, Id
<1>5. ASSUME NEW r \in Requests, Ask(r) PROVE Types'
  <2>1. CASE Set(r, "serialize", request[r])
    BY <1>5, <2>1, SetTypes DEF Ask, At, Types, RequestOK, Stage, ids, Id
  <2>2. ASSUME NEW w \in {"adapter", "logger"},
               Set(r, "read", [NewRequest EXCEPT !.service = <<context, w>>])
        PROVE  Types'
    <3> DEFINE v == <<context, w>>
    <3>1. v \in Service /\ v[1] <= contexts
      BY <1>5 DEF Ask, Types, Service
    <3>2. Set(r, "read", [NewRequest EXCEPT !.service = v])
      BY <2>2
    <3> HIDE DEF v
    <3> DEFINE q == [NewRequest EXCEPT !.service = v]
    <3>3. /\ q \in RequestRecord /\ q.attempt = 1 /\ q.service = v
          /\ ~ q.taken /\ q.answer = None
      BY <3>1, NewParts DEF RequestRecord
    <3>4. Set(r, "read", q)
      BY <3>2
    <3> HIDE DEF q
    <3>5. /\ "read" \in Stage /\ q.attempt \in 1 .. MaxAttempts(r)
          /\ contexts' = contexts
      BY <1>5, <3>3, SomeAttempt DEF Ask, Stage, ids
    <3>6. /\ request' \in [Requests -> RequestRecord]
          /\ \A i \in Requests : RequestOK(request'[i], i, contexts')
      BY <3>1, <3>3, <3>4, <3>5, SetTypes
    <3>7. QED
      BY <1>5, <3>6 DEF Ask, Types, ids, Id
  <2>3. QED
    BY <1>5, <2>1, <2>2 DEF Ask, Goto
<1>6. ASSUME NEW r \in Requests, ReadId(r) PROVE Types'
  <2>1. CASE idFile # None
    BY <1>6, <2>1, KnowIdTypes DEF ReadId, At, Types, Id
  <2>2. CASE idFile = None
    <3>1. Set(r, "make", request[r]) /\ UNCHANGED contexts
      BY <1>6, <2>2 DEF ReadId, Goto
    <3>2. /\ request' \in [Requests -> RequestRecord]
          /\ \A q \in Requests : RequestOK(request'[q], q, contexts')
      BY <1>6, <3>1, SetTypes DEF ReadId, At, Types, RequestOK, Stage
    <3>3. QED
      BY <1>6, <2>2, <3>2 DEF ReadId, Types, Id
  <2>3. QED
    BY <2>1, <2>2
<1>7. ASSUME NEW r \in Requests, MakeId(r) PROVE Types'
  <2>1. made' = made + 1 /\ made' \in Id' /\ made' \in Nat /\ made' >= made
    BY <1>7 DEF MakeId, Types, Id
  <2>2. /\ memo' \in [Service -> Id']
        /\ request' \in [Requests -> RequestRecord]
        /\ \A q \in Requests : RequestOK(request'[q], q, contexts')
    BY <1>7, <2>1, KnowIdTypes DEF MakeId, At
  <2>3. QED
    BY <1>7, <2>1, <2>2 DEF MakeId, Types, Id
<1>8. ASSUME NEW r \in Requests, Take(r) PROVE Types'
  <2> DEFINE q == [request[r] EXCEPT !.taken = TRUE]
  <2>1. /\ q \in RequestRecord /\ q.attempt = request[r].attempt
        /\ q.answer = request[r].answer
    BY DEF Types, RequestRecord
  <2>2. Set(r, "post", q)
    BY <1>8 DEF Take
  <2> HIDE DEF q
  <2>3. QED
    BY <1>8, <2>1, <2>2, SetTypes DEF Take, At, Types, RequestOK, ids, Id, Stage
<1>9. ASSUME NEW r \in Requests, NEW a \in {"ok", "bad"},
             Set(r, "done", [Left(r) EXCEPT !.answer = a]),
             UNCHANGED <<context, ids, crashes, contexts, inherits>>
      PROVE  Types'
  <2> DEFINE q == [Left(r) EXCEPT !.answer = a]
  <2>1. q \in RequestRecord /\ q.attempt = 1 /\ q.answer = a
    BY LeftParts DEF RequestRecord
  <2>2. Set(r, "done", q)
    BY <1>9
  <2> HIDE DEF q
  <2>3. /\ "done" \in Stage /\ q.attempt \in 1 .. MaxAttempts(r)
        /\ contexts' = contexts
    BY <1>9, <2>1, SomeAttempt DEF Stage
  <2>4. /\ request' \in [Requests -> RequestRecord]
        /\ \A i \in Requests : RequestOK(request'[i], i, contexts')
    BY <2>1, <2>2, <2>3, SetTypes
  <2>5. QED
    BY <1>9, <2>4 DEF Types, ids, Id
<1>10. ASSUME NEW r \in Requests, Succeed(r) \/ GiveUp(r) PROVE Types'
  BY <1>9, <1>10, Zenon DEF Succeed, GiveUp
<1>11. ASSUME NEW r \in Requests, Retry(r) PROVE Types'
  <2> DEFINE q == [request[r] EXCEPT !.attempt = @ + 1]
  <2>1. request[r].attempt + 1 <= MaxAttempts(r)
    BY <1>11, SomeAttempt DEF Retry, Final, Types, RequestOK
  <2>2. /\ q \in RequestRecord /\ q.attempt \in 1 .. MaxAttempts(r)
        /\ q.answer = request[r].answer
    <3>1. /\ request[r] \in RequestRecord
          /\ request[r].attempt + 1 \in 1 .. MaxAttempts(r)
      BY <2>1, SomeAttempt DEF Types, RequestOK
    <3>2. QED
      BY <3>1 DEF RequestRecord
  <2>3. Set(r, "post", q)
    BY <1>11 DEF Retry
  <2> HIDE DEF q
  <2>4. QED
    BY <1>11, <2>2, <2>3, SetTypes DEF Retry, At, Types, RequestOK, ids, Id, Stage
<1>12. ASSUME NEW r \in Requests, Serialize(r) PROVE Types'
  BY <1>12, SetTypes DEF Serialize, Goto, At, Types, RequestOK, ids, Id, Stage
<1>13. ASSUME NEW r \in Requests, EndUnsent(r) PROVE Types'
  <2>1. Set(r, "unsent", NewRequest) /\ "unsent" \in Stage
    BY <1>13 DEF EndUnsent, Stage
  <2>2. UNCHANGED <<context, ids, crashes, contexts, inherits>>
    BY <1>13 DEF EndUnsent
  <2>3. /\ request' \in [Requests -> RequestRecord]
        /\ \A q \in Requests : RequestOK(request'[q], q, contexts')
    BY <2>1, <2>2, NewParts, SomeAttempt, SetTypes
  <2>4. QED
    BY <2>2, <2>3 DEF Types, ids, Id
<1>14. CASE UNCHANGED vars
  BY <1>14 DEF vars, ids, Types, Id
<1>15. QED
  BY <1>1, <1>2, <1>3, <1>4, <1>5, <1>6, <1>7, <1>8, <1>10, <1>11, <1>12,
     <1>13, <1>14
     DEF Next, StableID, FirstPost, PostWithRetry

\* The types hold in every state.
LEMMA AlwaysTypes == Spec => []Types
BY InitTypes, StepTypes, PTL DEF Spec

\* Every variable has its type, and no request of FetchValues or SendEvents is
\* posted more often than kInitializeRetryCount or kLogEventRetryCount allows.
THEOREM TypeCorrect == Spec => []TypeOK
<1>1. Types => TypeOK
  BY DEF Types, TypeOK, RequestOK, Id
<1>2. QED
  BY <1>1, AlwaysTypes, PTL

-----------------------------------------------------------------------------
(* The stable id.                                                          *)

\* Once a context has found the file settled it stays so, with the same id: no
\* task is left to write another, and no request can make one, because all
\* find the file.  So this id is what every service has in memory.
Inherited ==
    /\ \A c \in Context : inherits[c] # None => Settled /\ inherits[c] = idFile
    /\ \A c \in Context : inherits[c] # None => c <= contexts
    /\ \A s \in Service : memo[s] # None =>
          /\ s[1] <= contexts
          /\ inherits[s[1]] # None => memo[s] = inherits[s[1]]

\* The first context finds no file.
LEMMA InitInherited == Init => Inherited
BY DEF Init, Inherited, Service

\* Every step keeps what has been inherited.
LEMMA StepInherited == Types /\ Inherited /\ [Next]_vars => Inherited'
<1> SUFFICES ASSUME Types, Inherited, [Next]_vars PROVE Inherited'
  OBVIOUS
<1> USE DEF Service
<1>1. CASE NewContext
  <2>1. Settled' <=> Settled
    BY <1>1 DEF NewContext, Settled, At, ids
  <2>2. /\ contexts' = contexts + 1 /\ contexts' \in Context /\ contexts \in Nat
        /\ inherits' = [inherits EXCEPT ![contexts + 1] =
                           IF Settled THEN idFile ELSE None]
        /\ UNCHANGED <<memo, idFile>>
    BY <1>1 DEF NewContext, Types, ids
  <2>3. \A c \in Context : inherits'[c] = IF c = contexts + 1
                                          THEN IF Settled THEN idFile ELSE None
                                          ELSE inherits[c]
    BY <2>2 DEF Types
  <2>4. QED
    BY <2>1, <2>2, <2>3 DEF Inherited
<1>2. CASE Crash
  <2>1. \A i \in Requests : ~ At(i, "make")'
    <3> SUFFICES ASSUME NEW i \in Requests PROVE ~ At(i, "make")'
      OBVIOUS
    <3>1. CASE request[i].stage \in {"new", "done", "unsent"}
      BY <1>2, <3>1 DEF Crash, At
    <3>2. CASE request[i].stage \notin {"new", "done", "unsent"}
      BY <1>2, <3>2, LeftParts DEF Crash, At, RequestRecord
    <3>3. QED
      BY <3>1, <3>2
  <2>2. Settled => Settled'
    BY <1>2, <2>1 DEF Crash, Settled
  <2>3. QED
    BY <1>2, <2>2 DEF Crash, Inherited
<1>3. CASE OpenIdFile \/ CloseIdFile
  BY <1>3 DEF OpenIdFile, CloseIdFile, Inherited, Settled
<1>4. ASSUME NEW r \in Requests, Ask(r) PROVE Inherited'
  <2>1. \A i \in Requests : At(i, "make")' => At(i, "make")
    <3>1. CASE Set(r, "serialize", request[r])
      BY <3>1 DEF Set, At, Types, RequestRecord
    <3>2. ASSUME NEW v, Set(r, "read", [NewRequest EXCEPT !.service = v])
          PROVE  \A i \in Requests : At(i, "make")' => At(i, "make")
      BY <3>2, NewParts DEF Set, At, Types, RequestRecord
    <3>3. QED
      BY <1>4, <3>1, <3>2 DEF Ask, Goto
  <2>2. Settled => Settled'
    BY <1>4, <2>1 DEF Ask, Settled, ids
  <2>3. QED
    BY <1>4, <2>2 DEF Ask, Inherited, ids
<1>5. ASSUME NEW r \in Requests, ReadId(r) PROVE Inherited'
  <2>1. /\ request[r].service \in Service
        /\ request[r].service[1] <= contexts
    BY <1>5 DEF ReadId, At, Types, RequestOK
  <2>2. CASE idFile # None
    <3>1. /\ KnowId(r, idFile)
          /\ UNCHANGED <<idFile, writes, writing, contexts, inherits>>
      BY <1>5, <2>2 DEF ReadId
    <3>2. \A i \in Requests : At(i, "make")' => At(i, "make")
      BY <3>1, NewParts DEF KnowId, Set, At, Types, RequestRecord
    <3>3. Settled => Settled'
      BY <3>1, <3>2 DEF Settled
    <3>4. memo' = [memo EXCEPT ![request[r].service] = idFile]
      BY <3>1 DEF KnowId
    <3>5. \A s \in Service : memo'[s] = IF s = request[r].service THEN idFile
                                                                  ELSE memo[s]
      BY <3>4, <2>1 DEF Types
    <3>6. QED
      BY <2>1, <3>1, <3>3, <3>5 DEF Inherited
  <2>3. CASE idFile = None
    <3>1. \A c \in Context : inherits[c] = None
      BY <2>3 DEF Inherited, Settled
    <3>2. /\ memo' = [memo EXCEPT ![request[r].service] = None]
          /\ UNCHANGED <<contexts, inherits>>
      BY <1>5, <2>3 DEF ReadId
    <3>3. \A s \in Service : memo'[s] # None => memo[s] # None
      BY <3>2 DEF Types
    <3>4. QED
      BY <3>1, <3>2, <3>3 DEF Inherited
  <2>4. QED
    BY <2>2, <2>3
<1>6. ASSUME NEW r \in Requests, MakeId(r) PROVE Inherited'
  <2>1. \A c \in Context : inherits[c] = None
    BY <1>6 DEF MakeId, Inherited, Settled
  <2>2. /\ request[r].service \in Service
        /\ request[r].service[1] <= contexts
    BY <1>6 DEF MakeId, At, Types, RequestOK
  <2>3. /\ memo' = [memo EXCEPT ![request[r].service] = made']
        /\ UNCHANGED <<contexts, inherits>>
    BY <1>6 DEF MakeId, KnowId
  <2>4. \A s \in Service : memo'[s] # None => s[1] <= contexts
    BY <2>2, <2>3 DEF Types, Inherited
  <2>5. QED
    BY <2>1, <2>3, <2>4 DEF Inherited
<1>7. ASSUME NEW r \in Requests, Take(r) \/ FirstPost(r) \/ PostWithRetry(r)
      PROVE  Inherited'
  <2>1. \A i \in Requests : At(i, "make")' => At(i, "make")
    <3>1. CASE Take(r)
      BY <3>1 DEF Take, Set, At, Types, RequestRecord
    <3>2. ASSUME NEW q \in RequestRecord, Set(r, "done", q)
          PROVE  \A i \in Requests : At(i, "make")' => At(i, "make")
      BY <3>2 DEF Set, At, Types, RequestRecord
    <3>3. CASE Succeed(r) \/ GiveUp(r)
      <4>1. PICK a \in {"ok", "bad"} : Set(r, "done", [Left(r) EXCEPT !.answer = a])
        BY <3>3, Zenon DEF Succeed, GiveUp
      <4> DEFINE q == [Left(r) EXCEPT !.answer = a]
      <4>2. q \in RequestRecord
        BY LeftParts DEF RequestRecord
      <4>3. Set(r, "done", q)
        BY <4>1
      <4> HIDE DEF q
      <4>4. QED
        BY <3>2, <4>2, <4>3
    <3>4. CASE Retry(r)
      BY <3>4 DEF Retry, Set, At, Types, RequestRecord
    <3>5. CASE Serialize(r)
      BY <3>5 DEF Serialize, Goto, Set, At, Types, RequestRecord
    <3>6. CASE EndUnsent(r)
      BY <3>6, NewParts DEF EndUnsent, Set, At, Types, RequestRecord
    <3>7. QED
      BY <1>7, <3>1, <3>3, <3>4, <3>5, <3>6 DEF FirstPost, PostWithRetry
  <2>2. UNCHANGED <<context, ids, crashes, contexts, inherits>>
    BY <1>7 DEF Take, FirstPost, Serialize, EndUnsent, PostWithRetry, Succeed,
                GiveUp, Retry
  <2>3. Settled => Settled'
    BY <2>1, <2>2 DEF Settled, ids
  <2>4. QED
    BY <2>2, <2>3 DEF Inherited, ids
<1>8. CASE UNCHANGED vars
  BY <1>8 DEF vars, ids, Inherited, Settled, At
<1>9. QED
  BY <1>1, <1>2, <1>3, <1>4, <1>5, <1>6, <1>7, <1>8 DEF Next, StableID

\* Once the file of the stable id has an id and nobody is about to change it,
\* StableID::Get gives this id to every service of every later context, in
\* whatever order they ask and however often the process dies.
THEOREM SameId == Spec => []OneId
<1>1. Inherited => OneId
  BY DEF Inherited, OneId, Service
<1>2. QED
  BY <1>1, InitTypes, StepTypes, InitInherited, StepInherited, PTL DEF Spec

-----------------------------------------------------------------------------
(* NetworkService implements Request.                                      *)

asked == {r \in Requests : ~ At(r, "new")}
taken == {r \in Requests : request[r].taken}
answer == [r \in Requests |-> IF At(r, "lost") \/ At(r, "unsent")
                               THEN request[r].stage ELSE request[r].answer]

\* What a step of request r looks like to Request.
LEMMA MappedSet ==
    ASSUME Types, NEW r \in Requests, NEW s \in Stage, NEW q \in RequestRecord,
           Set(r, s, q), s \notin {"new", "lost", "unsent"}
    PROVE  /\ asked' = asked \cup {r}
           /\ taken' = IF q.taken THEN taken \cup {r} ELSE taken \ {r}
           /\ answer' = [answer EXCEPT ![r] = q.answer]
<1> DEFINE p == [q EXCEPT !.stage = s]
<1>1. /\ p \in RequestRecord
      /\ p.stage = s /\ p.answer = q.answer /\ (p.taken <=> q.taken)
  BY DEF RequestRecord
<1>2. request' = [request EXCEPT ![r] = p]
  BY DEF Set
<1> HIDE DEF p
<1>3. request' = [i \in Requests |-> IF i = r THEN p ELSE request[i]]
  BY <1>2 DEF Types
<1>4. asked' = asked \cup {r}
  BY <1>1, <1>3 DEF asked, At
<1>5. taken' = IF q.taken THEN taken \cup {r} ELSE taken \ {r}
  BY <1>1, <1>3 DEF taken
<1>6. answer' = [answer EXCEPT ![r] = q.answer]
  <2>1. \A i \in Requests : answer'[i] = IF i = r THEN q.answer ELSE answer[i]
    BY <1>1, <1>3 DEF answer, At
  <2>2. /\ answer' = [i \in Requests |-> answer'[i]]
        /\ answer = [i \in Requests |-> answer[i]]
    BY DEF answer
  <2>3. QED
    BY <2>1, <2>2
<1>7. QED
  BY <1>4, <1>5, <1>6

\* Which requests wait, in terms of their stages.
LEMMA WaitingStages ==
    ASSUME Types
    PROVE  OneRequest!Waiting =
             {r \in Requests : request[r].stage \in {"read", "make", "serialize", "post"}}
<1>1. ASSUME NEW r \in Requests
      PROVE  (r \in asked /\ answer[r] = None) <=>
                request[r].stage \in {"read", "make", "serialize", "post"}
  <2>1. /\ request[r].stage \in Stage
        /\ IF request[r].stage = "done" THEN request[r].answer \in {"ok", "bad"}
                                        ELSE request[r].answer = None
    BY DEF Types, RequestOK, RequestRecord
  <2>2. answer[r] = IF request[r].stage \in {"lost", "unsent"}
                    THEN request[r].stage ELSE request[r].answer
    BY DEF answer, At
  <2>3. r \in asked <=> request[r].stage # "new"
    BY DEF asked, At
  <2>4. QED
    BY <2>1, <2>2, <2>3, NoneAssumption DEF NoneAssumption, Stage
<1>2. OneRequest!Waiting = {r \in asked : answer[r] = None}
  BY DEF OneRequest!Waiting, asked, answer
<1>3. asked \subseteq Requests
  BY DEF asked
<1>4. QED
  BY <1>1, <1>2, <1>3

\* A request that has its id, is posted again, or looks on for its id is the
\* same request to Request.
LEMMA QuietStep ==
    ASSUME Types, NEW r \in Requests, NEW s \in {"make", "serialize", "post"},
           NEW q \in RequestRecord, Set(r, s, q),
           request[r].stage \in {"read", "make", "serialize", "post"},
           q.taken <=> request[r].taken, q.answer = request[r].answer
    PROVE  UNCHANGED <<asked, taken, answer>>
<1>1. /\ asked' = asked \cup {r}
      /\ taken' = IF q.taken THEN taken \cup {r} ELSE taken \ {r}
      /\ answer' = [answer EXCEPT ![r] = q.answer]
  BY MappedSet DEF Stage
<1>2. r \in asked /\ (r \in taken <=> q.taken)
  BY DEF asked, taken, At
<1>3. answer = [i \in Requests |-> answer[i]] /\ answer[r] = q.answer
  BY DEF answer, At
<1>4. QED
  BY <1>1, <1>2, <1>3

\* The first state is a first state of Request.
LEMMA InitRequest == Init => OneRequest!Init
<1> SUFFICES ASSUME Init PROVE OneRequest!Init
  OBVIOUS
<1>1. \A r \in Requests : /\ request[r].stage = "new" /\ ~ request[r].taken
                          /\ request[r].answer = None
  BY DEF Init, NewRequest
<1>2. QED
  BY <1>1 DEF OneRequest!Init, At

\* Every step is a step of Request, or none of its business.
LEMMA StepRequest == Types /\ [Next]_vars => [OneRequest!Next]_(OneRequest!vars)
<1> SUFFICES ASSUME Types, [Next]_vars
             PROVE  OneRequest!Next \/ UNCHANGED <<asked, taken, answer>>
  BY DEF OneRequest!vars, asked, taken, answer
<1>1. CASE UNCHANGED request
  BY <1>1 DEF asked, taken, answer, At
<1>2. ASSUME NEW r \in Requests, Ask(r) PROVE OneRequest!Ask(r)
  <2>1. /\ request[r].stage = "new" /\ ~ request[r].taken
        /\ request[r].answer = None /\ request[r] \in RequestRecord
    BY <1>2 DEF Ask, At, Types, RequestOK
  <2>2. PICK s \in {"read", "serialize"}, q \in RequestRecord :
           Set(r, s, q) /\ ~ q.taken /\ q.answer = None
    <3>1. CASE Set(r, "serialize", request[r])
      BY <2>1, <3>1
    <3>2. ASSUME NEW w \in {"adapter", "logger"},
                 Set(r, "read", [NewRequest EXCEPT !.service = <<context, w>>])
          PROVE  \E s \in {"read", "serialize"}, q \in RequestRecord :
                    Set(r, s, q) /\ ~ q.taken /\ q.answer = None
      <4> DEFINE v == <<context, w>>
      <4>1. v \in Service
        BY <1>2 DEF Ask, Types, Service
      <4>2. Set(r, "read", [NewRequest EXCEPT !.service = v])
        BY <3>2
      <4> HIDE DEF v
      <4> DEFINE q == [NewRequest EXCEPT !.service = v]
      <4>3. q \in RequestRecord /\ ~ q.taken /\ q.answer = None
        BY <4>1, NewParts DEF RequestRecord
      <4>4. Set(r, "read", q)
        BY <4>2
      <4> HIDE DEF q
      <4>5. QED
        BY <4>3, <4>4
    <3>3. QED
      BY <1>2, <3>1, <3>2 DEF Ask, Goto
  <2>3. /\ asked' = asked \cup {r}
        /\ taken' = taken \ {r}
        /\ answer' = [answer EXCEPT ![r] = None]
    BY <2>1, <2>2, MappedSet DEF Stage
  <2>4. r \notin asked /\ r \notin taken /\ answer[r] = None
    BY <2>1 DEF asked, taken, answer, At
  <2>5. UNCHANGED <<taken, answer>>
    <3>1. answer = [i \in Requests |-> answer[i]]
      BY DEF answer
    <3>2. QED
      BY <2>3, <2>4, <3>1
  <2>6. QED
    BY <2>3, <2>4, <2>5 DEF OneRequest!Ask, asked, taken, answer
<1>3. ASSUME NEW r \in Requests, NEW id, KnowId(r, id),
             request[r].stage \in {"read", "make"}
      PROVE  UNCHANGED <<asked, taken, answer>>
  <2>1. ~ request[r].taken /\ request[r].answer = None
    BY <1>3 DEF Types, RequestOK
  <2>2. Set(r, "serialize", NewRequest)
    BY <1>3 DEF KnowId
  <2>3. QED
    BY <1>3, <2>1, <2>2, NewParts, QuietStep
<1>4. ASSUME NEW r \in Requests, StableID(r)
      PROVE  UNCHANGED <<asked, taken, answer>>
  <2>1. CASE Set(r, "make", request[r]) /\ request[r].stage = "read"
    BY <2>1, QuietStep DEF Types
  <2>2. QED
    BY <1>3, <1>4, <2>1 DEF StableID, ReadId, MakeId, Goto, At
<1>5. ASSUME NEW r \in Requests, Take(r) PROVE OneRequest!Take(r)
  <2> DEFINE q == [request[r] EXCEPT !.taken = TRUE]
  <2>1. request[r].stage = "post"
    BY <1>5 DEF Take, At
  <2>2. q \in RequestRecord /\ q.taken /\ q.answer = request[r].answer
    BY DEF Types, RequestRecord
  <2>3. Set(r, "post", q)
    BY <1>5 DEF Take
  <2> HIDE DEF q
  <2>4. /\ asked' = asked \cup {r} /\ taken' = taken \cup {r}
        /\ answer' = [answer EXCEPT ![r] = request[r].answer]
    BY <2>1, <2>2, <2>3, MappedSet DEF Stage
  <2>5. r \in OneRequest!Waiting
    BY <2>1, WaitingStages
  <2>6. /\ r \in asked /\ answer = [i \in Requests |-> answer[i]]
        /\ answer[r] = request[r].answer
    BY <2>1 DEF asked, answer, At
  <2>7. UNCHANGED <<asked, answer>>
    BY <2>4, <2>6
  <2>8. QED
    BY <2>4, <2>5, <2>7 DEF OneRequest!Take, asked, taken, answer
<1>6. ASSUME NEW r \in Requests, NEW a \in {"ok", "bad"},
             Set(r, "done", [Left(r) EXCEPT !.answer = a]),
             request[r].stage = "post", a = "ok" => request[r].taken
      PROVE  OneRequest!Answer(r, a)
  <2> DEFINE q == [Left(r) EXCEPT !.answer = a]
  <2>1. request[r].taken \in BOOLEAN
    BY DEF Types, RequestRecord
  <2>2. /\ q \in RequestRecord /\ q.answer = a
        /\ q.taken <=> request[r].taken
    BY <2>1, NewParts DEF Left, RequestRecord
  <2>3. Set(r, "done", q)
    BY <1>6
  <2> HIDE DEF q
  <2>4. /\ asked' = asked \cup {r}
        /\ taken' = IF q.taken THEN taken \cup {r} ELSE taken \ {r}
        /\ answer' = [answer EXCEPT ![r] = a]
    BY <1>6, <2>2, <2>3, MappedSet DEF Stage
  <2>5. r \in asked /\ (r \in taken <=> request[r].taken)
    BY <1>6 DEF asked, taken, At
  <2>6. UNCHANGED <<asked, taken>>
    BY <2>2, <2>4, <2>5
  <2>7. r \in OneRequest!Waiting
    BY <1>6, WaitingStages
  <2>8. QED
    BY <1>6, <2>4, <2>5, <2>6, <2>7 DEF OneRequest!Answer, asked, taken, answer
<1>7. ASSUME NEW r \in Requests, Succeed(r) PROVE OneRequest!Answer(r, "ok")
  BY <1>6, <1>7 DEF Succeed, At, Response
<1>8. ASSUME NEW r \in Requests, GiveUp(r) PROVE OneRequest!Answer(r, "bad")
  BY <1>6, <1>8 DEF GiveUp, At
<1>9. ASSUME NEW r \in Requests, Retry(r) PROVE UNCHANGED <<asked, taken, answer>>
  <2> DEFINE q == [request[r] EXCEPT !.attempt = @ + 1]
  <2>1. request[r] \in RequestRecord
    BY DEF Types
  <2>2. /\ q \in RequestRecord /\ q.answer = request[r].answer
        /\ q.taken <=> request[r].taken
    BY <2>1 DEF RequestRecord
  <2>3. Set(r, "post", q)
    BY <1>9 DEF Retry
  <2> HIDE DEF q
  <2>4. QED
    BY <1>9, <2>2, <2>3, QuietStep DEF Retry, At
<1>10. CASE Crash
  <2>1. ASSUME NEW r \in Requests
        PROVE  /\ At(r, "new")' <=> At(r, "new")
               /\ request'[r].taken <=> request[r].taken
               /\ answer'[r] = IF request[r].stage \in
                                     {"read", "make", "serialize", "post"}
                               THEN "lost" ELSE answer[r]
    <3>1. request[r].taken \in BOOLEAN /\ request[r].stage \in Stage
      BY DEF Types, RequestRecord
    <3>2. CASE request[r].stage \in {"new", "done", "unsent"}
      <4>1. request'[r] = request[r]
        BY <1>10, <3>2 DEF Crash
      <4>2. QED
        BY <3>2, <4>1 DEF At, answer
    <3>3. CASE request[r].stage \notin {"new", "done", "unsent"}
      <4> DEFINE p == request'[r]
      <4>1. p = [Left(r) EXCEPT !.stage = "lost"]
        BY <1>10, <3>3 DEF Crash
      <4>2. p.stage = "lost" /\ (p.taken <=> request[r].taken)
        BY <3>1, <4>1, NewParts DEF Left, RequestRecord
      <4>3. answer'[r] = "lost"
        BY <4>2 DEF answer, At
      <4>4. request[r].stage = "lost" => answer[r] = "lost"
        BY DEF answer, At
      <4>5. QED
        BY <3>1, <3>3, <4>2, <4>3, <4>4 DEF At, Stage
    <3>4. QED
      BY <3>2, <3>3
  <2>2. UNCHANGED <<asked, taken>>
    BY <2>1 DEF asked, taken
  <2>3. answer' = [r \in Requests |-> IF r \in OneRequest!Waiting THEN "lost"
                                                                  ELSE answer[r]]
    <3>1. answer' = [r \in Requests |-> answer'[r]]
      BY DEF answer
    <3>2. QED
      BY <2>1, <3>1, WaitingStages
  <2>4. OneRequest!Lose
    BY <2>2, <2>3 DEF OneRequest!Lose, asked, taken, answer
  <2>5. QED
    BY <2>4 DEF OneRequest!Next
<1>11. ASSUME NEW r \in Requests, Serialize(r)
       PROVE  UNCHANGED <<asked, taken, answer>>
  BY <1>11, QuietStep DEF Serialize, Goto, At, Types
<1>12. ASSUME NEW r \in Requests, EndUnsent(r) PROVE OneRequest!Drop(r)
  <2>1. /\ request[r].stage \in {"read", "make", "serialize"}
        /\ ~ request[r].taken
    BY <1>12 DEF EndUnsent, At, Types, RequestOK
  <2> DEFINE p == [NewRequest EXCEPT !.stage = "unsent"]
  <2>2. p.stage = "unsent" /\ ~ p.taken
    BY NewParts DEF RequestRecord
  <2>3. request' = [request EXCEPT ![r] = p]
    BY <1>12 DEF EndUnsent, Set
  <2> HIDE DEF p
  <2>4. request' = [i \in Requests |-> IF i = r THEN p ELSE request[i]]
    BY <2>3 DEF Types
  <2>5. UNCHANGED <<asked, taken>>
    BY <2>1, <2>2, <2>4 DEF asked, taken, At
  <2>6. answer' = [answer EXCEPT ![r] = "unsent"]
    <3>1. \A i \in Requests : answer'[i] = IF i = r THEN "unsent" ELSE answer[i]
      BY <2>2, <2>4 DEF answer, At
    <3>2. /\ answer' = [i \in Requests |-> answer'[i]]
          /\ answer = [i \in Requests |-> answer[i]]
      BY DEF answer
    <3>3. QED
      BY <3>1, <3>2
  <2>7. r \in OneRequest!Waiting /\ r \notin taken
    BY <2>1, WaitingStages DEF taken
  <2>8. QED
    BY <2>5, <2>6, <2>7 DEF OneRequest!Drop, asked, taken, answer
<1>13. QED
  BY <1>1, <1>2, <1>4, <1>5, <1>7, <1>8, <1>9, <1>10, <1>11, <1>12
     DEF Next, FirstPost, PostWithRetry, NewContext, OpenIdFile, CloseIdFile,
         vars, OneRequest!Next

\* NetworkService implements Request: with its attempts, its retries and its
\* search for the stable id, what a caller of FetchValues or SendEvents sees is
\* one request, answered once at most and "ok" only if the server has taken it;
\* and one that ends before its first POST the server has never taken.
THEOREM ImplementsRequest == Spec => IsRequest
BY InitTypes, StepTypes, InitRequest, StepRequest, PTL
   DEF Spec, IsRequest, OneRequest!Spec
=============================================================================
