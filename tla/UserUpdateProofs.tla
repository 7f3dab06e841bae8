-------------------------- MODULE UserUpdateProofs --------------------------
(***************************************************************************)
(* Proofs about UserUpdate, for any users, any number of calls, versions   *)
(* and restarts, and any size of the cache.                                *)
(***************************************************************************)
EXTENDS UserUpdate, TLAPS, FiniteSetTheorems

USE UserAssumption, BoundAssumption DEF UserAssumption, BoundAssumption
USE DEF context, cache, calls, Call

-----------------------------------------------------------------------------
(* The inductive invariant.                                                *)

\* Where a call is while it has the application's thread, and where it is while
\* its work is queued or with a worker.
OnThread == {"assign", "reset", "lookup", "read", "apply", "settle", "submit"}
Working == {"queued", "again", "reread", "key", "hash", "request", "ask",
            "evict", "open", "close", "check", "set", "finalize"}

\* Before the caches and before the server have answered a call.
NoLookup == {"new", "assign", "reset", "lookup", "read"}
NoAnswer == NoLookup \cup {"apply", "settle", "submit", "queued", "again",
                           "reread", "key", "hash", "request", "ask"}

StoreSet == [values : Result, source : {"Network", "NetworkNotModified",
                                        "Cache"}]
            \cup [values : {None}, source : {"Uninitialized", "Loading",
                                             "NoValues"}]
FileSet == [data : FileData, mtime : Nat]

Types ==
    /\ user \in User /\ writing \in UserOrNone
    /\ store \in StoreSet
    /\ DOMAIN mem \subseteq Id /\ \A k \in DOMAIN mem : mem[k] \in Result
    /\ IsFiniteSet(DOMAIN mem) /\ Cardinality(DOMAIN mem) <= MaxCached
    /\ DOMAIN disk \subseteq Id /\ \A k \in DOMAIN disk : disk[k] \in FileSet
    /\ now \in Nat /\ server \in Nat \ {0} /\ restarts \in Nat
    /\ started \in 0 .. MaxCalls
    /\ stage \in [Call -> Stage]
    /\ call \in [Call -> Locals]
    /\ raced \in BOOLEAN /\ setBy \in {"none", "lookup", "answer"}

\* Calls follow one another on the application's thread, the newest has it, and
\* only while that one assigns the user can the user be read in part.
Turns ==
    /\ turn \in {0, started}
    /\ \A c \in Call : /\ stage[c] \in OnThread => turn = c
                       /\ stage[c] # "new" => c <= started
                       /\ stage[c] = "assign" => writing # None
    /\ writing # None => /\ turn \in Call /\ stage[turn] = "assign"
                         /\ ~ raced => \A c \in Call : stage[c] # "set"

\* What the locals q of a call at st hold.
CallOK(q, st) ==
    /\ st \in NoLookup => q.cur = None
    /\ st \in NoAnswer => q.got = None
    /\ st \in {"evict", "open", "close", "set"} => q.got # None
    /\ st \in {"hash", "request"} => q.kind = "sync"
    /\ st \in {"check", "set", "finalize"} => q.kind = "async"
    /\ st \in OnThread \cup Working => q.kind # "none"
    /\ st \in Working => q.initiator # None
    /\ st \in {"reread", "hash", "request", "ask", "evict", "open", "close"} =>
          q.key # None
    /\ st \in {"request", "ask"} => q.hash # None
    /\ st = "ask" => q.req # None
    /\ q.kind = "async" /\ st \in {"ask", "evict", "open", "close", "check", "set"}
          => q.key = q.initiator

\* Whose data they hold when the user is u and no use of it went wrong.
DataOK(q, st, u) ==
    /\ q.cur # None => q.cur.hash = q.cur.for
    /\ q.got # None => q.got.hash = q.got.for /\ q.got.for = q.key
    /\ st = "ask" => q.hash = q.key /\ q.req = q.key
    /\ st = "apply" /\ q.cur # None => q.cur.for.id = u.id
    /\ st = "set" => q.initiator = u

\* A result r under the key k, in memory or in a file.
CachedOK(r, k) == r.hash = r.for /\ r.for.id = k

\* The newest call: the context's user is still the one it saw, and the store
\* is as it left it.
NewestOK(q, st, u, s) ==
    /\ q.kind = "async" /\ st \in Working => q.initiator = u
    /\ st = "finalize" /\ q.got # None => s.values # None
    /\ st \in {"calledOk", "calledBad"} => s.source # "Loading"
    /\ st = "calledOk" => s.values # None

\* The values of a store s, set by `by`, are for the user u.
ValuesOK(s, by, u) ==
    /\ s.values # None => s.values.for.id = u.id
    /\ by = "answer" => s.values # None /\ s.values.for = u

IInv ==
    /\ Types
    /\ Turns
    /\ \A c \in Call : CallOK(call[c], stage[c])
    /\ \A c \in Call : c = started => NewestOK(call[c], stage[c], user, store)
    /\ ~ raced =>
          /\ \A c \in Call : DataOK(call[c], stage[c], user)
          /\ \A k \in DOMAIN mem : CachedOK(mem[k], k)
          /\ \A k \in DOMAIN disk : disk[k].data # Torn => CachedOK(disk[k].data, k)
          /\ Between \/ ValuesOK(store, setBy, user)

-----------------------------------------------------------------------------
(* The helpers of the caches.                                              *)

\* One less.
LEMMA WithoutParts ==
    ASSUME NEW f, NEW o
    PROVE  /\ DOMAIN Without(f, {o}) = DOMAIN f \ {o}
           /\ \A j \in DOMAIN f \ {o} : Without(f, {o})[j] = f[j]
BY DEF Without

\* How many there are then.
LEMMA OneMore ==
    ASSUME NEW S, NEW k, NEW T, T = S \cup {k}, IsFiniteSet(S)
    PROVE  /\ Cardinality(S) \in Nat /\ Cardinality(T) \in Nat
           /\ IsFiniteSet(T)
           /\ Cardinality(T) <= Cardinality(S) + 1
<1>1. Cardinality(S) \in Nat
  BY FS_CardinalityType
<1>2. /\ IsFiniteSet(S \cup {k})
      /\ Cardinality(S \cup {k}) =
            IF k \in S THEN Cardinality(S) ELSE Cardinality(S) + 1
  BY FS_AddElement
<1>3. QED
  BY <1>1, <1>2

\* AddToInMemoryCache leaves an entry as it is or adds the new one, and the
\* cache never outgrows its limit.
LEMMA AddToMemoryParts ==
    ASSUME NEW m, NEW k, NEW r, NEW n \in AddToMemory(m, k, r),
           IsFiniteSet(DOMAIN m), Cardinality(DOMAIN m) <= MaxCached
    PROVE  /\ DOMAIN n \subseteq DOMAIN m \cup {k}
           /\ \A j \in DOMAIN n : \/ j \in DOMAIN m /\ n[j] = m[j]
                                  \/ j = k /\ n[j] = r
           /\ IsFiniteSet(DOMAIN n) /\ Cardinality(DOMAIN n) <= MaxCached
<1>1. CASE Cardinality(DOMAIN m) < MaxCached
  <2>1. n = Emplace(m, k, r)
    BY <1>1 DEF AddToMemory
  <2>2. DOMAIN n = DOMAIN m \cup {k}
    BY <2>1 DEF Emplace, With
  <2>3. /\ IsFiniteSet(DOMAIN n) /\ Cardinality(DOMAIN n) \in Nat
        /\ Cardinality(DOMAIN m) \in Nat
        /\ Cardinality(DOMAIN n) <= Cardinality(DOMAIN m) + 1
    BY <2>2, OneMore
  <2>4. Cardinality(DOMAIN n) <= MaxCached
    BY <1>1, <2>3
  <2>5. \A j \in DOMAIN n : \/ j \in DOMAIN m /\ n[j] = m[j]
                            \/ j = k /\ n[j] = r
    BY <2>1 DEF Emplace, With
  <2>6. QED
    BY <2>2, <2>3, <2>4, <2>5
<1>2. CASE ~ (Cardinality(DOMAIN m) < MaxCached)
  <2>1. PICK o \in DOMAIN m : n = Emplace(Without(m, {o}), k, r)
    BY <1>2 DEF AddToMemory, Oldest
  <2> DEFINE w == Without(m, {o})
  <2>2. DOMAIN w = DOMAIN m \ {o} /\ \A j \in DOMAIN w : w[j] = m[j]
    BY WithoutParts
  <2>3. n = Emplace(w, k, r)
    BY <2>1
  <2> HIDE DEF w
  <2>4. /\ DOMAIN n = DOMAIN w \cup {k}
        /\ \A j \in DOMAIN n : \/ j \in DOMAIN w /\ n[j] = w[j]
                               \/ j = k /\ n[j] = r
    BY <2>3 DEF Emplace, With
  <2>5. Cardinality(DOMAIN m) \in Nat
    BY FS_CardinalityType
  <2>6. IsFiniteSet(DOMAIN w) /\ Cardinality(DOMAIN w) = Cardinality(DOMAIN m) - 1
    BY <2>2, FS_RemoveElement
  <2>7. /\ IsFiniteSet(DOMAIN n) /\ Cardinality(DOMAIN n) \in Nat
        /\ Cardinality(DOMAIN n) <= Cardinality(DOMAIN w) + 1
    BY <2>4, <2>6, OneMore
  <2>8. Cardinality(DOMAIN n) <= MaxCached
    BY <2>5, <2>6, <2>7
  <2>9. QED
    BY <2>2, <2>4, <2>7, <2>8
<1>3. QED
  BY <1>1, <1>2

\* The user that is read is a user, also while it is being assigned; otherwise
\* it is the context's.
LEMMA ReadableUsers ==
    ASSUME user \in User, writing \in User \cup {None}
    PROVE  /\ Readable \subseteq User
           /\ writing = None => Readable = {user}
BY DEF Readable, User

-----------------------------------------------------------------------------
(* The locals of a call.                                                   *)

\* Two calls whose locals differ in the state of their file at most.
Alike(p, q) ==
    /\ p.kind = q.kind /\ p.initiator = q.initiator /\ p.key = q.key
    /\ p.hash = q.hash /\ p.req = q.req /\ p.cur = q.cur /\ p.got = q.got

-----------------------------------------------------------------------------
(* What every step of a call but its beginning, the assignment and Reset    *)
(* has in common.                                                           *)

\* Outside Assign and Reset, on the same thread as before.
Outside == {"new", "assign", "reset"}

Moves(c, to) ==
    /\ To(c, to) /\ stage[c] \notin Outside
    /\ to \in Stage \ Outside /\ (to \in OnThread => stage[c] \in OnThread)
    /\ \/ turn' = turn
       \/ turn' = 0 /\ stage[c] \in OnThread /\ to \notin OnThread
    /\ UNCHANGED <<user, writing, server, started, restarts>>
    /\ raced' \in BOOLEAN /\ (raced => raced')
    /\ to = "set" /\ writing # None => raced'

CallsLater(c, to) ==
    /\ call' \in [Call -> Locals]
    /\ \A d \in Call \ {c} : Alike(call'[d], call[d])
    /\ CallOK(call'[c], to)
    /\ ~ raced' => DataOK(call'[c], to, user)
    /\ c = started => NewestOK(call'[c], to, user, store')

StoreLater ==
    /\ store' \in StoreSet /\ setBy' \in {"none", "lookup", "answer"}
    /\ store.values # None => store'.values # None
    /\ store'.source = "Loading" => store.source = "Loading"
    /\ ~ raced' /\ ~ Between => ValuesOK(store', setBy', user)

MemLater ==
    /\ DOMAIN mem' \subseteq Id /\ \A k \in DOMAIN mem' : mem'[k] \in Result
    /\ IsFiniteSet(DOMAIN mem') /\ Cardinality(DOMAIN mem') <= MaxCached
    /\ ~ raced' => \A k \in DOMAIN mem' : CachedOK(mem'[k], k)

DiskLater ==
    /\ DOMAIN disk' \subseteq Id /\ \A k \in DOMAIN disk' : disk'[k] \in FileSet
    /\ now' \in Nat
    /\ ~ raced' => \A k \in DOMAIN disk' :
                      disk'[k].data # Torn => CachedOK(disk'[k].data, k)

\* What of it follows when a step leaves the store or the caches alone.
LEMMA StoreStays ==
    ASSUME IInv, raced => raced', UNCHANGED <<store, setBy>>
    PROVE  StoreLater
BY DEF IInv, Types, StoreLater

LEMMA MemStays ==
    ASSUME IInv, raced => raced', UNCHANGED mem
    PROVE  MemLater
BY DEF IInv, Types, MemLater

LEMMA DiskStays ==
    ASSUME IInv, raced => raced', UNCHANGED <<disk, now>>
    PROVE  DiskLater
BY DEF IInv, Types, DiskLater

\* The state of its file matters to nothing that is said of a call.
LEMMA AlikeOK ==
    ASSUME NEW p, NEW q, Alike(p, q), NEW st, NEW u, NEW s
    PROVE  /\ CallOK(q, st) => CallOK(p, st)
           /\ DataOK(q, st, u) => DataOK(p, st, u)
           /\ NewestOK(q, st, u, s) => NewestOK(p, st, u, s)
BY DEF Alike, CallOK, DataOK, NewestOK

LEMMA CallStep ==
    ASSUME IInv, NEW c \in Call, NEW to, Moves(c, to), CallsLater(c, to),
           StoreLater, MemLater, DiskLater
    PROVE  IInv'
<1>1. /\ stage' \in [Call -> Stage] /\ stage'[c] = to
      /\ \A d \in Call \ {c} : stage'[d] = stage[d]
  BY DEF Moves, To, IInv, Types
<1>2. Types'
  BY <1>1 DEF Moves, CallsLater, StoreLater, MemLater, DiskLater, IInv, Types
<1>3. Turns'
  <2>1. turn' = turn \/ turn' = 0
    BY DEF Moves
  <2>2. turn' = 0 /\ turn # 0 => writing = None
    BY DEF Moves, IInv, Turns, Outside
  <2>3. \A d \in Call : /\ stage'[d] \in OnThread => turn' = d
                        /\ stage'[d] # "new" => d <= started'
                        /\ stage'[d] = "assign" => writing' # None
    BY <1>1, <2>1 DEF Moves, IInv, Turns, Outside, OnThread
  <2>4. writing' # None => turn' \in Call /\ stage'[turn'] = "assign"
    BY <1>1, <2>1, <2>2 DEF Moves, IInv, Turns, Outside, OnThread
  <2>5. writing' # None /\ ~ raced' => \A d \in Call : stage'[d] # "set"
    BY <1>1 DEF Moves, IInv, Turns
  <2>6. turn' \in {0, started'}
    BY <2>1 DEF Moves, IInv, Turns
  <2>7. QED
    BY <2>3, <2>4, <2>5, <2>6 DEF Turns
<1>4. \A d \in Call : CallOK(call'[d], stage'[d])
  BY <1>1, AlikeOK DEF CallsLater, IInv
<1>5. \A d \in Call : d = started' => NewestOK(call'[d], stage'[d], user', store')
  <2>1. ASSUME NEW q, NEW st, NEW u, NewestOK(q, st, u, store)
        PROVE  NewestOK(q, st, u, store')
    BY <2>1 DEF NewestOK, StoreLater
  <2>2. QED
    BY <1>1, <2>1, AlikeOK DEF CallsLater, IInv, Moves
<1>6. ~ raced' => \A d \in Call : DataOK(call'[d], stage'[d], user')
  BY <1>1, AlikeOK DEF CallsLater, IInv, Moves
<1>7. Between <=> Between'
  BY <1>1 DEF Between, Moves, Outside
<1>8. ~ raced' => Between' \/ ValuesOK(store', setBy', user')
  BY <1>7 DEF StoreLater, Moves
<1>9. QED
  BY <1>2, <1>3, <1>4, <1>5, <1>6, <1>8 DEF IInv, MemLater, DiskLater

-----------------------------------------------------------------------------
(* The locals of a call after a step has set one of them, or all of them    *)
(* anew.                                                                    *)

\* The other locals of c, and those of the other calls, but for `file`.
KeepsKind(c) == call'[c].kind = call[c].kind /\ call'[c].initiator = call[c].initiator
KeepsUsers(c) == /\ call'[c].key = call[c].key /\ call'[c].hash = call[c].hash
                 /\ call'[c].req = call[c].req
KeepsOthers(c) == /\ call' \in [Call -> Locals]
                  /\ \A d \in Call \ {c} : Alike(call'[d], call[d])

\* Only c has new locals.
LEMMA SetLocals ==
    ASSUME call \in [Call -> Locals], NEW c \in Call, NEW q \in Locals,
           call' = [call EXCEPT ![c] = q]
    PROVE  call'[c] = q /\ KeepsOthers(c)
BY DEF KeepsOthers, Alike

LEMMA LocalCur ==
    ASSUME call \in [Call -> Locals], NEW c \in Call, NEW v \in Result \cup {None},
           Local(c, "cur", v)
    PROVE  /\ KeepsOthers(c) /\ KeepsKind(c) /\ KeepsUsers(c)
           /\ call'[c].cur = v /\ call'[c].got = call[c].got
<1> DEFINE q == [call[c] EXCEPT !.cur = v]
<1>1. /\ q \in Locals /\ q.cur = v
      /\ q.kind = call[c].kind /\ q.initiator = call[c].initiator
      /\ q.key = call[c].key /\ q.hash = call[c].hash /\ q.req = call[c].req
      /\ q.got = call[c].got
  <2>1. call[c] \in Locals
    OBVIOUS
  <2>2. QED
    BY <2>1 DEF Locals
<1>2. call' = [call EXCEPT ![c] = q]
  BY DEF Local
<1> HIDE DEF q
<1>3. call'[c] = q /\ KeepsOthers(c)
  BY <1>1, <1>2, SetLocals
<1>4. QED
  BY <1>1, <1>3 DEF KeepsKind, KeepsUsers

LEMMA LocalKey ==
    ASSUME call \in [Call -> Locals], NEW c \in Call, NEW v \in UserOrNone,
           Local(c, "key", v)
    PROVE  /\ KeepsOthers(c) /\ KeepsKind(c) /\ call'[c].key = v
           /\ call'[c].cur = call[c].cur /\ call'[c].got = call[c].got
<1> DEFINE q == [call[c] EXCEPT !.key = v]
<1>1. /\ q \in Locals /\ q.key = v
      /\ q.kind = call[c].kind /\ q.initiator = call[c].initiator
      /\ q.cur = call[c].cur /\ q.got = call[c].got
  <2>1. call[c] \in Locals
    OBVIOUS
  <2>2. QED
    BY <2>1 DEF Locals
<1>2. call' = [call EXCEPT ![c] = q]
  BY DEF Local
<1> HIDE DEF q
<1>3. call'[c] = q /\ KeepsOthers(c)
  BY <1>1, <1>2, SetLocals
<1>4. QED
  BY <1>1, <1>3 DEF KeepsKind

\* A call that is over, or has not begun.
LEMMA FreshOK ==
    /\ Fresh \in Locals
    /\ \A u : \A st \in {"new", "failed", "dropped", "lost", "calledOk", "calledBad"} :
          CallOK(Fresh, st) /\ DataOK(Fresh, st, u)
    /\ \A u, s : \A st \in {"new", "failed", "dropped", "lost"} : NewestOK(Fresh, st, u, s)
<1>1. Fresh \in Locals
  BY Zenon DEF Fresh, Locals, UserOrNone
<1>2. /\ Fresh.cur = None /\ Fresh.got = None /\ Fresh.kind = "none"
  BY DEF Fresh
<1>3. QED
  BY <1>1, <1>2 DEF CallOK, DataOK, NewestOK, OnThread, Working

LEMMA FreshCall ==
    ASSUME call \in [Call -> Locals], NEW c \in Call,
           call' = [call EXCEPT ![c] = Fresh]
    PROVE  KeepsOthers(c) /\ call'[c] = Fresh
BY FreshOK DEF KeepsOthers, Alike

-----------------------------------------------------------------------------
(* Steps that only move a call on.                                         *)

LEMMA StepStartWork ==
    ASSUME IInv, NEW c \in Call, StartWork(c)
    PROVE  IInv'
<1> DEFINE to == IF call[c].cur = None THEN "again" ELSE "key"
<1>1. Moves(c, to)
  BY DEF StartWork, Goto, Moves, Outside, OnThread, Stage, IInv, Types
<1>2. CallsLater(c, to)
  BY DEF StartWork, Goto, CallsLater, Alike, IInv, Types, CallOK, DataOK,
         NewestOK, NoLookup, NoAnswer, OnThread, Working
<1>3. QED
  BY <1>1, <1>2, CallStep, StoreStays, MemStays, DiskStays DEF StartWork

LEMMA StepAnswerFails ==
    ASSUME IInv, NEW c \in Call, AnswerFails(c)
    PROVE  IInv'
<1>1. Moves(c, Back(c))
  BY DEF AnswerFails, Goto, Moves, Outside, OnThread, Stage, IInv, Types, Back
<1>2. CallsLater(c, Back(c))
  BY DEF AnswerFails, Goto, CallsLater, Alike, IInv, Types, CallOK, DataOK,
         NewestOK, NoLookup, NoAnswer, OnThread, Working, Back, Locals
<1>3. QED
  BY <1>1, <1>2, CallStep, StoreStays, MemStays, DiskStays DEF AnswerFails

LEMMA StepSubmit ==
    ASSUME IInv, NEW c \in Call, Submit(c)
    PROVE  IInv'
<1>1. Moves(c, "queued")
  BY DEF Submit, Goto, Moves, Outside, OnThread, Stage, IInv, Types
<1>0. call \in [Call -> Locals] /\ user \in UserOrNone /\ user # None
  BY DEF IInv, Types, UserOrNone
<1>2. /\ call' \in [Call -> Locals]
      /\ \A d \in Call \ {c} : Alike(call'[d], call[d])
      /\ call'[c].initiator = user
      /\ call'[c].kind = call[c].kind /\ call'[c].key = call[c].key
      /\ call'[c].hash = call[c].hash /\ call'[c].req = call[c].req
      /\ call'[c].cur = call[c].cur /\ call'[c].got = call[c].got
  BY <1>0 DEF Submit, Local, Locals, Alike
<1>3. CallsLater(c, "queued")
  BY <1>0, <1>2 DEF Submit, Goto, CallsLater, IInv, CallOK, DataOK,
         NewestOK, NoLookup, NoAnswer, OnThread, Working
<1>4. QED
  BY <1>1, <1>3, CallStep, StoreStays, MemStays, DiskStays DEF Submit

\* GetDataSync and GetDataAsync in the caches.

LEMMA StepLookupMemory ==
    ASSUME IInv, NEW c \in Call, LookupMemory(c)
    PROVE  IInv'
<1>0. call \in [Call -> Locals] /\ stage[c] = "lookup"
  BY DEF IInv, Types, LookupMemory
<1>1. CASE user.id \in DOMAIN mem
  <2>1. Moves(c, "apply")
    BY <1>0, <1>1 DEF LookupMemory, Moves, Outside, OnThread, Stage, IInv, Types
  <2>2. mem[user.id] \in Result /\ (~ raced => CachedOK(mem[user.id], user.id))
    BY <1>1 DEF IInv, Types
  <2>3. /\ KeepsOthers(c) /\ KeepsKind(c)
        /\ call'[c].cur = mem[user.id] /\ call'[c].got = call[c].got
    BY <1>0, <1>1, <2>2, LocalCur DEF LookupMemory
  <2>4. CallsLater(c, "apply")
    BY <1>0, <2>2, <2>3 DEF LookupMemory, CallsLater, KeepsOthers, KeepsKind,
       IInv, CallOK, DataOK, NewestOK, NoLookup, NoAnswer, OnThread, Working, CachedOK
  <2>5. QED
    BY <2>1, <2>4, CallStep, StoreStays, MemStays, DiskStays DEF LookupMemory
<1>2. CASE user.id \notin DOMAIN mem
  <2>1. Moves(c, "read")
    BY <1>0, <1>2 DEF LookupMemory, Moves, Outside, OnThread, Stage, IInv, Types
  <2>2. CallsLater(c, "read")
    BY <1>0, <1>2 DEF LookupMemory, CallsLater, Alike,
       IInv, CallOK, DataOK, NewestOK, NoLookup, NoAnswer, OnThread, Working
  <2>3. QED
    BY <2>1, <2>2, CallStep, StoreStays, MemStays, DiskStays DEF LookupMemory
<1>3. QED
  BY <1>1, <1>2

LEMMA StepLookupThrows ==
    ASSUME IInv, NEW c \in Call, LookupThrows(c)
    PROVE  IInv'
<1>1. Moves(c, "failed")
  BY DEF LookupThrows, Goto, Moves, Outside, OnThread, Stage, IInv, Types
<1>2. CallsLater(c, "failed")
  BY FreshCall, FreshOK DEF LookupThrows, KeepsOthers, CallsLater, IInv, Types
<1>3. QED
  BY <1>1, <1>2, CallStep, StoreStays, MemStays, DiskStays DEF LookupThrows

LEMMA StepFetchThrows ==
    ASSUME IInv, NEW c \in Call, FetchThrows(c)
    PROVE  IInv'
<1>1. Moves(c, "dropped")
  BY DEF FetchThrows, Moves, Outside, OnThread, Stage, IInv, Types
<1>2. CallsLater(c, "dropped")
  BY FreshCall, FreshOK DEF FetchThrows, KeepsOthers, CallsLater, IInv, Types
<1>3. QED
  BY <1>1, <1>2, CallStep, StoreStays, MemStays, DiskStays DEF FetchThrows

LEMMA StepLookupAgain ==
    ASSUME IInv, NEW c \in Call, LookupAgain(c)
    PROVE  IInv'
<1>0. /\ call \in [Call -> Locals] /\ stage[c] = "again"
      /\ CallOK(call[c], "again") /\ (~ raced => DataOK(call[c], "again", user))
      /\ c = started => NewestOK(call[c], "again", user, store)
  BY DEF IInv, Types, LookupAgain
<1>1. PICK u \in Subject(c) :
         IF u.id \in DOMAIN mem
         THEN To(c, "key") /\ Local(c, "cur", mem[u.id])
         ELSE To(c, "reread") /\ Local(c, "key", u)
  BY DEF LookupAgain
<1>2. CASE u.id \in DOMAIN mem
  <2>1. Moves(c, "key")
    BY <1>0, <1>1, <1>2 DEF LookupAgain, Moves, Outside, OnThread, Stage, IInv, Types
  <2>2. mem[u.id] \in Result /\ (~ raced => CachedOK(mem[u.id], u.id))
    BY <1>2 DEF IInv, Types
  <2>3. /\ KeepsOthers(c) /\ KeepsKind(c) /\ KeepsUsers(c)
        /\ call'[c].cur = mem[u.id] /\ call'[c].got = call[c].got
    BY <1>0, <1>1, <1>2, <2>2, LocalCur
  <2>4. CallsLater(c, "key")
    BY <1>0, <2>2, <2>3 DEF LookupAgain, CallsLater, KeepsOthers, KeepsKind,
       KeepsUsers, CallOK, DataOK, NewestOK, NoLookup, NoAnswer, OnThread, Working,
       CachedOK
  <2>5. QED
    BY <2>1, <2>4, CallStep, StoreStays, MemStays, DiskStays DEF LookupAgain
<1>3. CASE u.id \notin DOMAIN mem
  <2>1. Moves(c, "reread")
    BY <1>0, <1>1, <1>3 DEF LookupAgain, Moves, Outside, OnThread, Stage, IInv, Types
  <2>2. u \in UserOrNone /\ u # None
    BY <1>0, ReadableUsers
       DEF Subject, IInv, Types, Locals, UserOrNone, CallOK, Working
  <2>3. /\ KeepsOthers(c) /\ KeepsKind(c) /\ call'[c].key = u
        /\ call'[c].cur = call[c].cur /\ call'[c].got = call[c].got
    BY <1>0, <1>1, <1>3, <2>2, LocalKey
  <2>4. CallsLater(c, "reread")
    BY <1>0, <2>2, <2>3 DEF LookupAgain, CallsLater, KeepsOthers, KeepsKind,
       CallOK, DataOK, NewestOK, NoLookup, NoAnswer, OnThread, Working
  <2>5. QED
    BY <2>1, <2>4, CallStep, StoreStays, MemStays, DiskStays DEF LookupAgain
<1>4. QED
  BY <1>2, <1>3

\* The copies of the user for GetDataAsync.

LEMMA StepCopyInitiator ==
    ASSUME IInv, NEW c \in Call, CopyInitiator(c)
    PROVE  IInv'
<1>0. /\ call \in [Call -> Locals] /\ stage[c] = "key" /\ call[c].kind = "async"
      /\ CallOK(call[c], "key") /\ (~ raced => DataOK(call[c], "key", user))
      /\ c = started => NewestOK(call[c], "key", user, store)
  BY DEF IInv, Types, CopyInitiator, Goto
<1>1. Moves(c, "ask")
  BY DEF CopyInitiator, Goto, Moves, Outside, OnThread, Stage, IInv, Types
<1>2. /\ KeepsOthers(c) /\ KeepsKind(c)
      /\ call'[c].key = call[c].initiator /\ call'[c].hash = call[c].initiator
      /\ call'[c].req = call[c].initiator
      /\ call'[c].cur = call[c].cur /\ call'[c].got = call[c].got
  <2> DEFINE u == call[c].initiator
             q == [call[c] EXCEPT !.key = u, !.hash = u, !.req = u]
  <2>1. call[c] \in Locals /\ u \in UserOrNone
    BY <1>0 DEF Locals
  <2>2. call' = [call EXCEPT ![c] = q]
    BY DEF CopyInitiator
  <2> HIDE DEF u
  <2>3. /\ q \in Locals /\ q.key = u /\ q.hash = u /\ q.req = u
        /\ q.kind = call[c].kind /\ q.initiator = call[c].initiator
        /\ q.cur = call[c].cur /\ q.got = call[c].got
    BY <2>1 DEF Locals
  <2> HIDE DEF q
  <2>4. call'[c] = q /\ KeepsOthers(c)
    BY <1>0, <2>2, <2>3, SetLocals
  <2>5. QED
    BY <2>3, <2>4 DEF KeepsKind, u
<1>3. CallsLater(c, "ask")
  BY <1>0, <1>2 DEF CopyInitiator, CallsLater, KeepsOthers, KeepsKind,
     CallOK, DataOK, NewestOK, NoLookup, NoAnswer, OnThread, Working
<1>4. QED
  BY <1>1, <1>3, CallStep, StoreStays, MemStays, DiskStays DEF CopyInitiator

LEMMA StepCopyForKey ==
    ASSUME IInv, NEW c \in Call, CopyForKey(c)
    PROVE  IInv'
<1>0. /\ call \in [Call -> Locals] /\ stage[c] = "key" /\ call[c].kind = "sync"
      /\ CallOK(call[c], "key") /\ (~ raced => DataOK(call[c], "key", user))
      /\ c = started => NewestOK(call[c], "key", user, store)
  BY DEF IInv, Types, CopyForKey, Goto
<1>1. Moves(c, "hash")
  BY DEF CopyForKey, Goto, Moves, Outside, OnThread, Stage, IInv, Types
<1>2. PICK u \in Readable : Local(c, "key", u)
  BY DEF CopyForKey
<1>3. u \in UserOrNone /\ u # None
  BY ReadableUsers DEF IInv, Types, UserOrNone
<1>4. /\ KeepsOthers(c) /\ KeepsKind(c) /\ call'[c].key = u
      /\ call'[c].cur = call[c].cur /\ call'[c].got = call[c].got
  BY <1>0, <1>2, <1>3, LocalKey
<1>5. CallsLater(c, "hash")
  BY <1>0, <1>3, <1>4 DEF CopyForKey, CallsLater, KeepsOthers, KeepsKind,
     CallOK, DataOK, NewestOK, NoLookup, NoAnswer, OnThread, Working
<1>6. QED
  BY <1>1, <1>5, CallStep, StoreStays, MemStays, DiskStays DEF CopyForKey

LEMMA StepCopyForHash ==
    ASSUME IInv, NEW c \in Call, CopyForHash(c)
    PROVE  IInv'
<1>0. /\ call \in [Call -> Locals] /\ stage[c] = "hash"
      /\ CallOK(call[c], "hash") /\ (~ raced => DataOK(call[c], "hash", user))
      /\ c = started => NewestOK(call[c], "hash", user, store)
  BY DEF IInv, Types, CopyForHash, Goto
<1>1. Moves(c, "request")
  BY DEF CopyForHash, Goto, Moves, Outside, OnThread, Stage, IInv, Types
<1>2. PICK u \in Readable : Local(c, "hash", u)
  BY DEF CopyForHash
<1>3. u \in UserOrNone /\ u # None
  BY ReadableUsers DEF IInv, Types, UserOrNone
<1>4. /\ KeepsOthers(c) /\ KeepsKind(c)
      /\ call'[c].key = call[c].key /\ call'[c].hash = u
      /\ call'[c].cur = call[c].cur /\ call'[c].got = call[c].got
  <2> DEFINE q == [call[c] EXCEPT !.hash = u]
  <2>1. call[c] \in Locals
    BY <1>0
  <2>2. call' = [call EXCEPT ![c] = q]
    BY <1>2 DEF Local
  <2>3. /\ q \in Locals /\ q.hash = u /\ q.key = call[c].key
        /\ q.kind = call[c].kind /\ q.initiator = call[c].initiator
        /\ q.cur = call[c].cur /\ q.got = call[c].got
    BY <1>3, <2>1 DEF Locals
  <2> HIDE DEF q
  <2>4. call'[c] = q /\ KeepsOthers(c)
    BY <1>0, <2>2, <2>3, SetLocals
  <2>5. QED
    BY <2>3, <2>4 DEF KeepsKind
<1>5. CallsLater(c, "request")
  BY <1>0, <1>3, <1>4 DEF CopyForHash, CallsLater, KeepsOthers, KeepsKind,
     CallOK, DataOK, NewestOK, NoLookup, NoAnswer, OnThread, Working
<1>6. QED
  BY <1>1, <1>5, CallStep, StoreStays, MemStays, DiskStays DEF CopyForHash

LEMMA StepCopyForRequest ==
    ASSUME IInv, NEW c \in Call, CopyForRequest(c)
    PROVE  IInv'
<1>0. /\ call \in [Call -> Locals] /\ stage[c] = "request" /\ raced \in BOOLEAN
      /\ CallOK(call[c], "request") /\ (~ raced => DataOK(call[c], "request", user))
      /\ c = started => NewestOK(call[c], "request", user, store)
  BY DEF IInv, Types, CopyForRequest, Goto
<1>1. PICK u \in Readable :
         /\ Local(c, "req", u)
         /\ raced' = (raced \/ u # call[c].key \/ u # call[c].hash)
  BY DEF CopyForRequest
<1>2. /\ raced' \in BOOLEAN /\ (raced => raced')
      /\ ~ raced' => u = call[c].key /\ u = call[c].hash
  BY <1>0, <1>1
<1>3. Moves(c, "ask")
  BY <1>2 DEF CopyForRequest, Goto, Moves, Outside, OnThread, Stage, IInv, Types
<1>4. u \in UserOrNone /\ u # None
  BY ReadableUsers DEF IInv, Types, UserOrNone
<1>5. /\ KeepsOthers(c) /\ KeepsKind(c)
      /\ call'[c].key = call[c].key /\ call'[c].hash = call[c].hash
      /\ call'[c].req = u
      /\ call'[c].cur = call[c].cur /\ call'[c].got = call[c].got
  <2> DEFINE q == [call[c] EXCEPT !.req = u]
  <2>1. call[c] \in Locals
    BY <1>0
  <2>2. call' = [call EXCEPT ![c] = q]
    BY <1>1 DEF Local
  <2>3. /\ q \in Locals /\ q.req = u
        /\ q.key = call[c].key /\ q.hash = call[c].hash
        /\ q.kind = call[c].kind /\ q.initiator = call[c].initiator
        /\ q.cur = call[c].cur /\ q.got = call[c].got
    BY <1>4, <2>1 DEF Locals
  <2> HIDE DEF q
  <2>4. call'[c] = q /\ KeepsOthers(c)
    BY <1>0, <2>2, <2>3, SetLocals
  <2>5. QED
    BY <2>3, <2>4 DEF KeepsKind
<1>6. CallsLater(c, "ask")
  BY <1>0, <1>2, <1>4, <1>5 DEF CopyForRequest, CallsLater, KeepsOthers, KeepsKind,
     CallOK, DataOK, NewestOK, NoLookup, NoAnswer, OnThread, Working
<1>7. QED
  BY <1>2, <1>3, <1>6, CallStep, StoreStays, MemStays, DiskStays DEF CopyForRequest

\* UpdateUserAsync's callback compares the users.
LEMMA StepCheckUser ==
    ASSUME IInv, NEW c \in Call, CheckUser(c)
    PROVE  IInv'
<1>0. /\ call \in [Call -> Locals] /\ stage[c] = "check" /\ raced \in BOOLEAN
      /\ CallOK(call[c], "check") /\ (~ raced => DataOK(call[c], "check", user))
      /\ c = started => NewestOK(call[c], "check", user, store)
  BY DEF IInv, Types, CheckUser
<1>1. PICK u \in Readable :
         IF call[c].got # None /\ u = call[c].initiator
         THEN To(c, "set") /\ raced' = (raced \/ writing # None)
         ELSE To(c, "finalize") /\ UNCHANGED raced
  BY DEF CheckUser
<1>2. writing = None => u = user
  BY <1>1, ReadableUsers DEF IInv, Types, UserOrNone
<1>3. CASE call[c].got # None /\ u = call[c].initiator
  <2>1. /\ raced' \in BOOLEAN /\ (raced => raced')
        /\ writing # None => raced'
    BY <1>0, <1>1, <1>3
  <2>2. Moves(c, "set")
    BY <1>0, <1>1, <1>3, <2>1 DEF CheckUser, Moves, Outside, OnThread, Stage
  <2>3. CallsLater(c, "set")
    BY <1>0, <1>2, <1>3, <2>1 DEF CheckUser, CallsLater, Alike,
       CallOK, DataOK, NewestOK, NoLookup, NoAnswer, OnThread, Working
  <2>4. QED
    BY <2>1, <2>2, <2>3, CallStep, StoreStays, MemStays, DiskStays DEF CheckUser
<1>4. CASE ~ (call[c].got # None /\ u = call[c].initiator)
  <2>1. raced' = raced
    BY <1>1, <1>4
  <2>2. Moves(c, "finalize")
    BY <1>0, <1>1, <1>4, <2>1 DEF CheckUser, Moves, Outside, OnThread, Stage
  <2>3. c = started => writing = None
    BY <1>0 DEF IInv, Turns
  <2>4. c = started => call[c].got = None
    BY <1>0, <1>2, <1>4, <2>3 DEF NewestOK, CallOK, Working
  <2>5. CallsLater(c, "finalize")
    BY <1>0, <2>1, <2>4 DEF CheckUser, CallsLater, Alike,
       CallOK, DataOK, NewestOK, NoLookup, NoAnswer, OnThread, Working
  <2>6. QED
    BY <2>1, <2>2, <2>5, CallStep, StoreStays, MemStays, DiskStays DEF CheckUser
<1>5. QED
  BY <1>3, <1>4

-----------------------------------------------------------------------------
(* Steps that change the memory cache or read the cache files.             *)

LEMMA AddedMem ==
    ASSUME IInv, raced => raced', NEW k \in Id, NEW r \in Result,
           mem' \in AddToMemory(mem, k, r), ~ raced' => CachedOK(r, k)
    PROVE  MemLater
<1>1. IsFiniteSet(DOMAIN mem) /\ Cardinality(DOMAIN mem) <= MaxCached
  BY DEF IInv, Types
<1>2. /\ DOMAIN mem' \subseteq DOMAIN mem \cup {k}
      /\ \A j \in DOMAIN mem' : \/ j \in DOMAIN mem /\ mem'[j] = mem[j]
                                \/ j = k /\ mem'[j] = r
      /\ IsFiniteSet(DOMAIN mem') /\ Cardinality(DOMAIN mem') <= MaxCached
  BY <1>1, AddToMemoryParts
<1>3. QED
  BY <1>2 DEF MemLater, IInv, Types

\* What ReadFile finds is cached under the key it looked for.
LEMMA ReadFileParts ==
    ASSUME IInv, NEW c \in Call, NEW k \in Id, NEW to, ReadFile(c, k, to)
    PROVE  /\ MemLater /\ KeepsOthers(c) /\ KeepsKind(c) /\ KeepsUsers(c)
           /\ call'[c].got = call[c].got
           /\ \/ call'[c].cur = call[c].cur
              \/ /\ call'[c].cur \in Result
                 /\ ~ raced => CachedOK(call'[c].cur, k)
<1>0. call \in [Call -> Locals]
  BY DEF IInv, Types
<1>1. CASE k \in DOMAIN disk /\ disk[k].data # Torn
  <2> DEFINE r == [disk[k].data EXCEPT !.src = "Cache"]
  <2>1. /\ disk[k].data \in Result
        /\ ~ raced => CachedOK(disk[k].data, k)
    BY <1>1 DEF IInv, Types, FileSet, FileData
  <2>2. r \in Result /\ (~ raced => CachedOK(r, k))
    BY <2>1 DEF Result, CachedOK
  <2>3. mem' \in AddToMemory(mem, k, r) /\ Local(c, "cur", r) /\ raced' = raced
    BY <1>1 DEF ReadFile
  <2> HIDE DEF r
  <2>4. MemLater
    BY <2>2, <2>3, AddedMem
  <2>5. /\ KeepsOthers(c) /\ KeepsKind(c) /\ KeepsUsers(c)
        /\ call'[c].cur = r /\ call'[c].got = call[c].got
    BY <1>0, <2>2, <2>3, LocalCur
  <2>6. QED
    BY <2>2, <2>4, <2>5
<1>2. CASE ~ (k \in DOMAIN disk /\ disk[k].data # Torn)
  <2>1. UNCHANGED <<mem, call, raced>>
    BY <1>2 DEF ReadFile
  <2>2. QED
    BY <1>0, <2>1, MemStays DEF KeepsOthers, KeepsKind, KeepsUsers, Alike
<1>3. QED
  BY <1>1, <1>2

LEMMA StepLookupFile ==
    ASSUME IInv, NEW c \in Call, LookupFile(c)
    PROVE  IInv'
<1>0. /\ call \in [Call -> Locals] /\ stage[c] = "read" /\ user.id \in Id
      /\ CallOK(call[c], "read") /\ (~ raced => DataOK(call[c], "read", user))
      /\ c = started => NewestOK(call[c], "read", user, store)
      /\ ReadFile(c, user.id, "apply")
  BY DEF IInv, Types, LookupFile, User
<1>1. Moves(c, "apply")
  BY <1>0 DEF LookupFile, ReadFile, Moves, Outside, OnThread, Stage, IInv, Types
<1>2. /\ MemLater /\ KeepsOthers(c) /\ KeepsKind(c) /\ KeepsUsers(c)
      /\ call'[c].got = call[c].got
      /\ \/ call'[c].cur = call[c].cur
         \/ /\ call'[c].cur \in Result
            /\ ~ raced => CachedOK(call'[c].cur, user.id)
  BY <1>0, ReadFileParts
<1>3. /\ UNCHANGED <<store, setBy, disk, now>>
      /\ raced' = raced
  BY <1>0 DEF ReadFile
<1>4. CallsLater(c, "apply")
  BY <1>0, <1>2, <1>3 DEF CallsLater, KeepsOthers, KeepsKind, KeepsUsers,
     CallOK, DataOK, NewestOK, NoLookup, NoAnswer, OnThread, Working, CachedOK
<1>5. QED
  BY <1>1, <1>2, <1>3, <1>4, CallStep, StoreStays, DiskStays

LEMMA StepReread ==
    ASSUME IInv, NEW c \in Call, Reread(c)
    PROVE  IInv'
<1>0. /\ call \in [Call -> Locals] /\ stage[c] = "reread"
      /\ CallOK(call[c], "reread") /\ (~ raced => DataOK(call[c], "reread", user))
      /\ c = started => NewestOK(call[c], "reread", user, store)
      /\ ReadFile(c, call[c].key.id, "key")
  BY DEF IInv, Types, Reread
<1>1. call[c].key.id \in Id
  BY <1>0 DEF CallOK, Locals, UserOrNone, User
<1>2. Moves(c, "key")
  BY <1>0 DEF ReadFile, Moves, Outside, OnThread, Stage, IInv, Types
<1>3. /\ MemLater /\ KeepsOthers(c) /\ KeepsKind(c) /\ KeepsUsers(c)
      /\ call'[c].got = call[c].got
      /\ \/ call'[c].cur = call[c].cur
         \/ /\ call'[c].cur \in Result
            /\ ~ raced => CachedOK(call'[c].cur, call[c].key.id)
  BY <1>0, <1>1, ReadFileParts
<1>4. /\ UNCHANGED <<store, setBy, disk, now>>
      /\ raced' = raced
  BY <1>0 DEF ReadFile
<1>5. CallsLater(c, "key")
  BY <1>0, <1>3, <1>4 DEF CallsLater, KeepsOthers, KeepsKind, KeepsUsers,
     CallOK, DataOK, NewestOK, NoLookup, NoAnswer, OnThread, Working, CachedOK
<1>6. QED
  BY <1>2, <1>3, <1>4, <1>5, CallStep, StoreStays, DiskStays

-----------------------------------------------------------------------------
(* Steps that change the store.                                            *)

\* SetValuesFromDataAdapterResult of values for the user.
LEMMA SetValuesStore ==
    ASSUME IInv, NEW r \in Result \cup {None}, NEW by \in {"lookup", "answer"},
           SetValues(r, by), raced' = raced,
           r # None /\ ~ raced => /\ r.for.id = user.id
                                  /\ by = "answer" => r.for = user
    PROVE  StoreLater /\ (r # None => store'.values # None)
<1>1. CASE r = None
  BY <1>1, StoreStays DEF SetValues
<1>2. CASE r # None
  <2>1. store' = [values |-> r, source |-> r.src] /\ setBy' = by /\ r \in Result
    BY <1>2 DEF SetValues
  <2>2. store'.values = r /\ store'.source = r.src
    BY <2>1
  <2>3. r.src \in {"Network", "NetworkNotModified", "Cache"}
    BY <2>1 DEF Result
  <2>4. store' \in StoreSet
    BY <2>1, <2>3 DEF StoreSet
  <2>5. QED
    BY <1>2, <2>1, <2>2, <2>3, <2>4 DEF StoreLater, ValuesOK
<1>3. QED
  BY <1>1, <1>2

\* Finalize ends the loading and keeps the values.
LEMMA FinalizedStore ==
    ASSUME IInv, FinalizeStore, setBy' = setBy, raced' = raced
    PROVE  StoreLater /\ store'.values = store.values /\ store'.source # "Loading"
<1>0. store \in StoreSet /\ setBy \in {"none", "lookup", "answer"}
  BY DEF IInv, Types
<1>1. CASE store.values # None
  <2>1. store' = store /\ store.source # "Loading"
    BY <1>0, <1>1 DEF FinalizeStore, StoreSet
  <2>2. QED
    BY <2>1, StoreStays
<1>2. CASE store.values = None
  <2>1. store' = [values |-> None, source |-> "NoValues"]
    BY <1>2 DEF FinalizeStore
  <2>2. store'.values = None /\ store'.source = "NoValues"
    BY <2>1
  <2>3. store' \in StoreSet
    BY <2>1 DEF StoreSet
  <2>4. ~ raced /\ ~ Between => ValuesOK(store', setBy, user)
    BY <1>2, <2>2 DEF IInv, ValuesOK
  <2>5. QED
    BY <1>0, <1>2, <2>2, <2>3, <2>4 DEF StoreLater
<1>3. QED
  BY <1>1, <1>2

LEMMA StepApply ==
    ASSUME IInv, NEW c \in Call, Apply(c)
    PROVE  IInv'
<1> DEFINE to == IF call[c].kind = "sync" THEN "settle" ELSE "submit"
<1>0. /\ call \in [Call -> Locals] /\ stage[c] = "apply"
      /\ CallOK(call[c], "apply") /\ (~ raced => DataOK(call[c], "apply", user))
      /\ c = started => NewestOK(call[c], "apply", user, store)
  BY DEF IInv, Types, Apply, Goto
<1>1. Moves(c, to)
  BY DEF Apply, Goto, Moves, Outside, OnThread, Stage, IInv, Types
<1>2. SetValues(call[c].cur, "lookup") /\ raced' = raced
      /\ call[c].cur \in Result \cup {None}
  BY <1>0 DEF Apply, Locals
<1>3. StoreLater
  BY <1>0, <1>2, SetValuesStore DEF DataOK
<1>4. CallsLater(c, to)
  BY <1>0, <1>2 DEF Apply, CallsLater, Alike,
     CallOK, DataOK, NewestOK, NoLookup, NoAnswer, OnThread, Working
<1>5. QED
  BY <1>1, <1>2, <1>3, <1>4, CallStep, MemStays, DiskStays DEF Apply

LEMMA StepSettle ==
    ASSUME IInv, NEW c \in Call, Settle(c)
    PROVE  IInv'
<1>0. /\ call \in [Call -> Locals] /\ stage[c] = "settle"
      /\ CallOK(call[c], "settle") /\ (~ raced => DataOK(call[c], "settle", user))
      /\ c = started => NewestOK(call[c], "settle", user, store)
  BY DEF IInv, Types, Settle, Goto
<1>1. Moves(c, "submit")
  BY DEF Settle, Goto, Moves, Outside, OnThread, Stage, IInv, Types
<1>2. StoreLater
  BY FinalizedStore DEF Settle
<1>3. CallsLater(c, "submit")
  BY <1>0 DEF Settle, CallsLater, Alike,
     CallOK, DataOK, NewestOK, NoLookup, NoAnswer, OnThread, Working
<1>4. QED
  BY <1>1, <1>2, <1>3, CallStep, MemStays, DiskStays DEF Settle

LEMMA StepSetAnswer ==
    ASSUME IInv, NEW c \in Call, SetAnswer(c)
    PROVE  IInv'
<1>0. /\ call \in [Call -> Locals] /\ stage[c] = "set"
      /\ CallOK(call[c], "set") /\ (~ raced => DataOK(call[c], "set", user))
      /\ c = started => NewestOK(call[c], "set", user, store)
  BY DEF IInv, Types, SetAnswer, Goto
<1>1. Moves(c, "finalize")
  BY DEF SetAnswer, Goto, Moves, Outside, OnThread, Stage, IInv, Types
<1>2. SetValues(call[c].got, "answer") /\ raced' = raced
      /\ call[c].got \in Result
  BY <1>0 DEF SetAnswer, Locals, CallOK
<1>3. ~ raced => call[c].got.for = user
  BY <1>0, <1>2 DEF DataOK, CallOK
<1>4. StoreLater /\ store'.values # None
  BY <1>2, <1>3, SetValuesStore
<1>5. CallsLater(c, "finalize")
  BY <1>0, <1>2, <1>4 DEF SetAnswer, CallsLater, Alike,
     CallOK, DataOK, NewestOK, NoLookup, NoAnswer, OnThread, Working
<1>6. QED
  BY <1>1, <1>2, <1>4, <1>5, CallStep, MemStays, DiskStays DEF SetAnswer

LEMMA StepFinalize ==
    ASSUME IInv, NEW c \in Call, Finalize(c)
    PROVE  IInv'
<1> DEFINE to == IF call[c].got = None THEN "calledBad" ELSE "calledOk"
<1>0. /\ call \in [Call -> Locals] /\ stage[c] = "finalize"
      /\ c = started => NewestOK(call[c], "finalize", user, store)
  BY DEF IInv, Types, Finalize, Goto
<1>1. Moves(c, to)
  BY DEF Finalize, Goto, Moves, Outside, OnThread, Stage, IInv, Types
<1>2. StoreLater /\ store'.values = store.values /\ store'.source # "Loading"
  BY FinalizedStore DEF Finalize
<1>3. KeepsOthers(c) /\ call'[c] = Fresh
  BY <1>0, FreshCall DEF Finalize
<1>4. CallOK(Fresh, to) /\ DataOK(Fresh, to, user)
  BY FreshOK
<1>5. c = started => NewestOK(Fresh, to, user, store')
  BY <1>0, <1>2 DEF NewestOK, Fresh, Working
<1>6. CallsLater(c, to)
  BY <1>3, <1>4, <1>5 DEF CallsLater, KeepsOthers
<1>7. QED
  BY <1>1, <1>2, <1>6, CallStep, MemStays, DiskStays DEF Finalize

-----------------------------------------------------------------------------
(* The answer of the server.                                               *)

\* An answer is for the user of the request and has its hash, also when it is
\* that nothing has changed.
LEMMA AnswersFor ==
    ASSUME IInv, NEW c \in Call, stage[c] = "ask", NEW r \in Answers(c)
    PROVE  /\ r \in Result /\ call[c].key \in User
           /\ ~ raced => r.hash = r.for /\ r.for = call[c].key
<1> DEFINE cur == call[c].cur
           new == [hash |-> call[c].hash, for |-> call[c].req, ver |-> server,
                   at |-> now, src |-> "Network"]
           old == [new EXCEPT !.for = cur.for, !.src = "NetworkNotModified"]
<1>1. /\ call[c] \in Locals /\ server \in Nat /\ server # 0 /\ now \in Nat
      /\ CallOK(call[c], "ask") /\ (~ raced => DataOK(call[c], "ask", user))
  BY DEF IInv, Types
<1>2. call[c].key \in User /\ call[c].hash \in User /\ call[c].req \in User
  BY <1>1 DEF CallOK, Locals, UserOrNone
<1>3. new \in Result
  BY <1>1, <1>2 DEF Result
<1>4. ~ raced => call[c].hash = call[c].key /\ call[c].req = call[c].key
  BY <1>1 DEF DataOK
<1>5. CASE r = new
  <2>1. r.hash = call[c].hash /\ r.for = call[c].req
    BY <1>5
  <2>2. QED
    BY <1>2, <1>3, <1>4, <1>5, <2>1
<1>6. CASE r # new
  <2>1. Since(c) = server /\ r = old
    BY <1>6 DEF Answers
  <2>2. cur # None /\ cur.hash = call[c].req
    BY <1>1, <2>1 DEF Since
  <2>3. cur \in Result
    BY <1>1, <2>2 DEF Locals
  <2>4. cur.for \in User /\ (~ raced => cur.for = cur.hash)
    BY <1>1, <2>2, <2>3 DEF Result, DataOK
  <2>5. old \in Result /\ old.hash = call[c].hash /\ old.for = cur.for
    BY <1>3, <2>4 DEF Result
  <2>6. QED
    BY <1>2, <1>4, <2>1, <2>2, <2>4, <2>5
<1>7. QED
  BY <1>5, <1>6

LEMMA StepReceive ==
    ASSUME IInv, NEW c \in Call, Receive(c)
    PROVE  IInv'
<1>0. /\ call \in [Call -> Locals] /\ stage[c] = "ask" /\ now \in Nat
      /\ CallOK(call[c], "ask") /\ (~ raced => DataOK(call[c], "ask", user))
      /\ c = started => NewestOK(call[c], "ask", user, store)
      /\ call[c] \in Locals
  BY DEF IInv, Types, Receive
<1>1. PICK r \in Answers(c) :
         /\ Local(c, "got", r)
         /\ mem' \in AddToMemory(mem, call[c].key.id, r)
         /\ To(c, IF r.src = "Network" THEN "evict" ELSE Back(c))
  BY DEF Receive
<1> DEFINE to == IF r.src = "Network" THEN "evict" ELSE Back(c)
<1>2. /\ r \in Result /\ call[c].key \in User
      /\ ~ raced => r.hash = r.for /\ r.for = call[c].key
  BY <1>0, AnswersFor
<1>3. UNCHANGED <<user, store, setBy, disk, started>> /\ raced' = raced
  BY DEF Receive
<1>4. MemLater
  BY <1>1, <1>2, <1>3, AddedMem DEF User, CachedOK
<1>5. DiskLater
  BY <1>0, <1>3 DEF Receive, IInv, Types, DiskLater
<1>6. to \in {"evict", "ended", "check"} /\ (to = "check" => call[c].kind = "async")
  BY <1>0 DEF Back, CallOK, Locals, Working
<1>7. Moves(c, to)
  BY <1>0, <1>1, <1>6 DEF Receive, Moves, Outside, OnThread, Stage, IInv, Types
<1>8. /\ KeepsOthers(c) /\ KeepsKind(c) /\ KeepsUsers(c)
      /\ call'[c].cur = call[c].cur /\ call'[c].got = r
  BY <1>0, <1>1, <1>2
     DEF Local, Locals, Alike, KeepsOthers, KeepsKind, KeepsUsers
<1>9. CallsLater(c, to)
  BY <1>0, <1>2, <1>3, <1>6, <1>8 DEF CallsLater, KeepsOthers, KeepsKind,
     KeepsUsers, CallOK, DataOK, NewestOK, NoLookup, NoAnswer, OnThread, Working
<1>10. QED
  BY <1>3, <1>4, <1>5, <1>7, <1>9, CallStep, StoreStays

-----------------------------------------------------------------------------
(* Steps that write or delete cache files.                                 *)

LEMMA FileState ==
    ASSUME NEW q \in Locals, NEW f \in {"closed", "open", "mixed", "gone"},
           NEW p, p = [q EXCEPT !.file = f]
    PROVE  p \in Locals /\ Alike(p, q)
BY DEF Locals, Alike

LEMMA WrittenDisk ==
    ASSUME IInv, raced' = raced, now' \in Nat, NEW k \in Id, NEW x \in FileSet,
           disk' = With(disk, k, x),
           ~ raced /\ x.data # Torn => CachedOK(x.data, k)
    PROVE  DiskLater
<1>1. /\ DOMAIN disk' = DOMAIN disk \cup {k}
      /\ \A j \in DOMAIN disk' : disk'[j] = IF j = k THEN x ELSE disk[j]
  BY DEF With
<1>2. QED
  BY <1>1 DEF IInv, Types, DiskLater

LEMMA StepEvict ==
    ASSUME IInv, NEW c \in Call, Evict(c)
    PROVE  IInv'
<1>0. /\ call \in [Call -> Locals] /\ stage[c] = "evict"
      /\ CallOK(call[c], "evict") /\ (~ raced => DataOK(call[c], "evict", user))
      /\ c = started => NewestOK(call[c], "evict", user, store)
  BY DEF IInv, Types, Evict, Goto
<1>1. PICK X \in Evictions(disk) :
         /\ disk' = Without(disk, X)
         /\ call' = [d \in Call |-> IF d \in Writers(X)
                                    THEN [call[d] EXCEPT !.file = "gone"]
                                    ELSE call[d]]
  BY DEF Evict
<1>2. UNCHANGED <<user, mem, now, store, setBy, started, raced>>
  BY DEF Evict
<1>3. Moves(c, "open")
  BY DEF Evict, Goto, Moves, Outside, OnThread, Stage, IInv, Types
<1>4. DiskLater
  <2>1. /\ DOMAIN disk' \subseteq DOMAIN disk
        /\ \A j \in DOMAIN disk' : disk'[j] = disk[j]
    BY <1>1 DEF Without
  <2>2. QED
    BY <1>2, <2>1 DEF IInv, Types, DiskLater
<1>5. \A d \in Call : call'[d] \in Locals /\ Alike(call'[d], call[d])
  <2> SUFFICES ASSUME NEW d \in Call
               PROVE  call'[d] \in Locals /\ Alike(call'[d], call[d])
    OBVIOUS
  <2>1. CASE d \in Writers(X)
    <3>1. call'[d] = [call[d] EXCEPT !.file = "gone"] /\ call[d] \in Locals
      BY <1>0, <1>1, <2>1
    <3>2. QED
      BY <3>1, FileState
  <2>2. CASE d \notin Writers(X)
    BY <1>0, <1>1, <2>2 DEF Alike
  <2>3. QED
    BY <2>1, <2>2
<1>6. call' \in [Call -> Locals]
  <2>1. call' = [d \in Call |-> call'[d]]
    BY <1>1
  <2>2. QED
    BY <1>5, <2>1
<1>7. CallOK(call[c], "open") /\ (~ raced => DataOK(call[c], "open", user))
  BY <1>0 DEF CallOK, DataOK, NoLookup, NoAnswer, OnThread, Working
<1>8. c = started => NewestOK(call[c], "open", user, store)
  BY <1>0 DEF NewestOK, Working
<1>9. CallsLater(c, "open")
  BY <1>2, <1>5, <1>6, <1>7, <1>8, AlikeOK DEF CallsLater
<1>10. QED
  BY <1>2, <1>3, <1>4, <1>9, CallStep, StoreStays, MemStays

LEMMA StepOpenFile ==
    ASSUME IInv, NEW c \in Call, OpenFile(c)
    PROVE  IInv'
<1> DEFINE k == call[c].key.id
<1>0. /\ call \in [Call -> Locals] /\ stage[c] = "open" /\ now \in Nat
      /\ CallOK(call[c], "open") /\ (~ raced => DataOK(call[c], "open", user))
      /\ c = started => NewestOK(call[c], "open", user, store)
  BY DEF IInv, Types, OpenFile, Goto
<1>1. UNCHANGED <<user, mem, store, setBy, started, raced>>
  BY DEF OpenFile
<1>2. Moves(c, "close")
  BY DEF OpenFile, Goto, Moves, Outside, OnThread, Stage, IInv, Types
<1>3. DiskLater /\ \A d \in Call : call'[d] \in Locals /\ Alike(call'[d], call[d])
  <2>1. CASE /\ disk' = With(disk, k, [data |-> Torn, mtime |-> now])
             /\ now' = now + 1
             /\ call' = [d \in Call |->
                   IF d = c
                   THEN [call[c] EXCEPT !.file = IF Writers({k}) = {}
                                                 THEN "open" ELSE "mixed"]
                   ELSE IF d \in Writers({k}) /\ call[d].file = "open"
                   THEN [call[d] EXCEPT !.file = "mixed"]
                   ELSE call[d]]
    <3> DEFINE x == [data |-> Torn, mtime |-> now]
    <3>1. k \in Id
      BY <1>0 DEF CallOK, Locals, UserOrNone, User
    <3>2. x \in FileSet /\ x.data = Torn
      BY <1>0 DEF FileSet, FileData
    <3>3. now' \in Nat /\ disk' = With(disk, k, x)
      BY <1>0, <2>1
    <3> HIDE DEF x
    <3>4. DiskLater
      BY <1>1, <3>1, <3>2, <3>3, WrittenDisk
    <3>5. ASSUME NEW d \in Call
          PROVE  call'[d] \in Locals /\ Alike(call'[d], call[d])
      <4>1. PICK f \in {"closed", "open", "mixed", "gone"} :
               \/ call'[d] = [call[d] EXCEPT !.file = f]
               \/ call'[d] = call[d]
        BY <2>1
      <4>2. call[d] \in Locals
        BY <1>0
      <4>3. CASE call'[d] = [call[d] EXCEPT !.file = f]
        BY <4>2, <4>3, FileState
      <4>4. CASE call'[d] = call[d]
        BY <4>2, <4>4 DEF Alike
      <4>5. QED
        BY <4>1, <4>3, <4>4
    <3>6. QED
      BY <3>4, <3>5
  <2>2. CASE Local(c, "file", "gone") /\ UNCHANGED <<disk, now>>
    <3>1. DiskLater
      BY <1>1, <2>2, DiskStays
    <3>2. \A d \in Call : call'[d] \in Locals /\ Alike(call'[d], call[d])
      BY <1>0, <2>2 DEF Local, Locals, Alike
    <3>3. QED
      BY <3>1, <3>2
  <2>3. QED
    BY <2>1, <2>2 DEF OpenFile
<1>4. call' \in [Call -> Locals]
  <2>1. call' = [d \in Call |-> call'[d]]
    BY <1>0 DEF OpenFile, Local
  <2>2. QED
    BY <1>3, <2>1
<1>5. CallOK(call[c], "close") /\ (~ raced => DataOK(call[c], "close", user))
  BY <1>0 DEF CallOK, DataOK, NoLookup, NoAnswer, OnThread, Working
<1>6. c = started => NewestOK(call[c], "close", user, store)
  BY <1>0 DEF NewestOK, Working
<1>7. CallsLater(c, "close")
  BY <1>1, <1>3, <1>4, <1>5, <1>6, AlikeOK DEF CallsLater
<1>8. QED
  BY <1>1, <1>2, <1>3, <1>7, CallStep, StoreStays, MemStays

LEMMA StepCloseFile ==
    ASSUME IInv, NEW c \in Call, CloseFile(c)
    PROVE  IInv'
<1> DEFINE k == call[c].key.id
           to == Back(c)
<1>0. /\ call \in [Call -> Locals] /\ stage[c] = "close" /\ now \in Nat
      /\ CallOK(call[c], "close") /\ (~ raced => DataOK(call[c], "close", user))
      /\ c = started => NewestOK(call[c], "close", user, store)
      /\ call[c] \in Locals
  BY DEF IInv, Types, CloseFile, Goto
<1>1. UNCHANGED <<user, mem, now, store, setBy, started, raced>>
  BY DEF CloseFile
<1>2. to \in {"ended", "check"} /\ (to = "check" => call[c].kind = "async")
  BY <1>0 DEF Back, CallOK, Locals, Working
<1>3. Moves(c, to)
  BY <1>0, <1>2 DEF CloseFile, Goto, Moves, Outside, OnThread, Stage, IInv, Types
<1>4. k \in Id /\ call[c].got \in Result
  BY <1>0 DEF CallOK, Locals, UserOrNone, User
<1>5. DiskLater
  <2>1. ASSUME NEW y \in FileData, disk' = With(disk, k, [data |-> y, mtime |-> now]),
               ~ raced /\ y # Torn => CachedOK(y, k)
        PROVE  DiskLater
    <3> DEFINE x == [data |-> y, mtime |-> now]
    <3>1. x \in FileSet /\ x.data = y /\ disk' = With(disk, k, x)
      BY <1>0, <2>1 DEF FileSet
    <3> HIDE DEF x
    <3>2. QED
      BY <1>0, <1>1, <1>4, <2>1, <3>1, WrittenDisk
  <2>2. ~ raced => CachedOK(call[c].got, k)
    BY <1>0, <1>4 DEF DataOK, CachedOK
  <2>3. call[c].got \in FileData /\ Torn \in FileData
    BY <1>4 DEF FileData
  <2>4. \/ disk' = With(disk, k, [data |-> call[c].got, mtime |-> now])
        \/ disk' = With(disk, k, [data |-> Torn, mtime |-> now])
        \/ UNCHANGED disk
    BY DEF CloseFile
  <2>5. CASE UNCHANGED disk
    BY <1>1, <2>5, DiskStays
  <2>6. QED
    BY <2>1, <2>2, <2>3, <2>4, <2>5
<1>6. /\ KeepsOthers(c) /\ Alike(call'[c], call[c])
  BY <1>0 DEF CloseFile, Local, Locals, KeepsOthers, Alike
<1>7. CallOK(call[c], to) /\ (~ raced => DataOK(call[c], to, user))
  BY <1>0, <1>2 DEF CallOK, DataOK, NoLookup, NoAnswer, OnThread, Working
<1>8. c = started => NewestOK(call[c], to, user, store)
  BY <1>0, <1>2 DEF NewestOK, Working
<1>9. CallsLater(c, to)
  BY <1>1, <1>6, <1>7, <1>8, AlikeOK DEF CallsLater, KeepsOthers
<1>10. QED
  BY <1>1, <1>3, <1>5, <1>9, CallStep, StoreStays, MemStays

-----------------------------------------------------------------------------
(* The other steps.                                                        *)

LEMMA StepBegin ==
    ASSUME IInv, NEW c \in Call, Begin(c)
    PROVE  IInv'
<1>1. PICK u \in AppUser, k \in Kind : writing' = u /\ Local(c, "kind", k)
  BY DEF Begin
<1>2. /\ u \in User /\ u # None /\ k \in {"sync", "async"}
      /\ turn = 0 /\ c = started + 1 /\ started' = c /\ turn' = c
      /\ stage[c] = "new"
      /\ UNCHANGED <<user, store, setBy, mem, disk, now, server, restarts>>
  BY DEF Begin, Goto
<1>3. /\ raced \in BOOLEAN /\ started \in 0 .. MaxCalls
      /\ stage \in [Call -> Stage] /\ call \in [Call -> Locals]
      /\ CallOK(call[c], "new") /\ (~ raced => DataOK(call[c], "new", user))
  BY <1>2 DEF IInv, Types
<1>4. /\ raced' \in BOOLEAN /\ (raced => raced')
      /\ ~ raced' => \A d \in Call : stage[d] # "set"
  BY <1>3 DEF Begin
<1>5. /\ stage' \in [Call -> Stage] /\ stage'[c] = "assign"
      /\ \A d \in Call \ {c} : stage'[d] = stage[d]
  BY <1>3 DEF Begin, Goto, To, Stage
<1>6. /\ call' \in [Call -> Locals] /\ call'[c].kind = k
      /\ call'[c].cur = call[c].cur /\ call'[c].got = call[c].got
      /\ \A d \in Call \ {c} : call'[d] = call[d]
  BY <1>1, <1>2, <1>3 DEF Local, Locals
<1>7. Types'
  BY <1>1, <1>2, <1>3, <1>4, <1>5, <1>6 DEF IInv, Types, UserOrNone
<1>8. Turns'
  <2>1. \A d \in Call : stage[d] \notin OnThread
    BY <1>2 DEF IInv, Turns
  <2>2. \A d \in Call : /\ stage'[d] \in OnThread => turn' = d
                        /\ stage'[d] # "new" => d <= started'
                        /\ stage'[d] = "assign" => writing' # None
    BY <1>1, <1>2, <1>3, <1>5, <2>1 DEF IInv, Turns
  <2>3. ~ raced' => \A d \in Call : stage'[d] # "set"
    BY <1>4, <1>5
  <2>4. QED
    BY <1>2, <1>5, <2>2, <2>3 DEF Turns
<1>9. /\ CallOK(call'[c], "assign")
      /\ ~ raced => DataOK(call'[c], "assign", user)
      /\ NewestOK(call'[c], "assign", user, store)
  BY <1>2, <1>3, <1>6
     DEF CallOK, DataOK, NewestOK, NoLookup, NoAnswer, OnThread, Working
<1>10. \A d \in Call : CallOK(call'[d], stage'[d])
  BY <1>5, <1>6, <1>9 DEF IInv
<1>11. \A d \in Call : d = started' => NewestOK(call'[d], stage'[d], user', store')
  BY <1>2, <1>5, <1>9
<1>12. ~ raced' => \A d \in Call : DataOK(call'[d], stage'[d], user')
  BY <1>2, <1>4, <1>5, <1>6, <1>9 DEF IInv
<1>13. Between'
  BY <1>5 DEF Between
<1>14. QED
  BY <1>2, <1>4, <1>7, <1>8, <1>10, <1>11, <1>12, <1>13 DEF IInv

\* The user changes: no call has stored the user's values since it compared the
\* users, and the one that has the thread has yet to look anything up.
LEMMA StepAssign ==
    ASSUME IInv, NEW c \in Call, Assign(c)
    PROVE  IInv'
<1>1. /\ user' = writing /\ writing' = None /\ stage[c] = "assign"
      /\ UNCHANGED <<store, setBy, mem, disk, now, server, started, turn, call,
                     restarts, raced>>
      /\ stage' = [stage EXCEPT ![c] = "reset"]
  BY DEF Assign, Goto, To
<1>2. /\ turn = c /\ c = started /\ writing \in User
      /\ ~ raced => \A d \in Call : stage[d] # "set"
  BY <1>1 DEF IInv, Types, Turns, OnThread, UserOrNone
<1>3. /\ stage' \in [Call -> Stage] /\ stage'[c] = "reset"
      /\ \A d \in Call \ {c} : stage'[d] = stage[d]
  BY <1>1 DEF IInv, Types, Stage
<1>4. Types'
  BY <1>1, <1>2, <1>3 DEF IInv, Types, UserOrNone
<1>5. Turns'
  <2>1. \A d \in Call \ {c} : stage'[d] \notin OnThread
    BY <1>2, <1>3 DEF IInv, Turns
  <2>2. QED
    BY <1>1, <1>2, <1>3, <2>1 DEF IInv, Turns, OnThread
<1>6. CallOK(call[c], "assign") /\ (~ raced => DataOK(call[c], "assign", user))
  BY <1>1 DEF IInv
<1>7. /\ CallOK(call[c], "reset") /\ NewestOK(call[c], "reset", user', store)
      /\ ~ raced => DataOK(call[c], "reset", user')
  BY <1>6
     DEF CallOK, DataOK, NewestOK, NoLookup, NoAnswer, OnThread, Working
<1>8. \A d \in Call : CallOK(call'[d], stage'[d])
  BY <1>1, <1>3, <1>7 DEF IInv
<1>9. \A d \in Call : d = started' => NewestOK(call'[d], stage'[d], user', store')
  BY <1>1, <1>2, <1>3, <1>7
<1>10. ~ raced' => \A d \in Call : DataOK(call'[d], stage'[d], user')
  <2> SUFFICES ASSUME ~ raced, NEW d \in Call
               PROVE  DataOK(call[d], stage'[d], user')
    BY <1>1
  <2>1. CASE d = c
    BY <1>3, <1>7, <2>1
  <2>2. CASE d # c
    <3>1. DataOK(call[d], stage[d], user) /\ stage[d] # "set" /\ stage[d] # "apply"
      BY <1>2, <2>2 DEF IInv, Turns, OnThread
    <3>2. QED
      BY <1>3, <2>2, <3>1 DEF DataOK
  <2>3. QED
    BY <2>1, <2>2
<1>11. Between'
  BY <1>3 DEF Between
<1>12. QED
  BY <1>1, <1>4, <1>5, <1>8, <1>9, <1>10, <1>11 DEF IInv

\* EvaluationStore::Reset.
LEMMA StepReset ==
    ASSUME IInv, NEW c \in Call, Reset(c)
    PROVE  IInv'
<1>1. /\ stage[c] = "reset" /\ setBy' = "none"
      /\ store' = [values |-> None, source |-> "Loading"]
      /\ UNCHANGED <<user, writing, mem, disk, now, server, started, turn, call,
                     restarts, raced>>
      /\ stage' = [stage EXCEPT ![c] = "lookup"]
  BY DEF Reset, Goto, To
<1>2. turn = c /\ c = started
  BY <1>1 DEF IInv, Turns, OnThread
<1>3. /\ stage' \in [Call -> Stage] /\ stage'[c] = "lookup"
      /\ \A d \in Call \ {c} : stage'[d] = stage[d]
  BY <1>1 DEF IInv, Types, Stage
<1>4. store' \in StoreSet /\ store'.values = None
  BY <1>1 DEF StoreSet
<1>5. Types'
  BY <1>1, <1>3, <1>4 DEF IInv, Types
<1>6. Turns'
  <2>1. \A d \in Call \ {c} : stage'[d] \notin OnThread
    BY <1>2, <1>3 DEF IInv, Turns
  <2>2. writing = None
    BY <1>1, <1>2 DEF IInv, Turns
  <2>3. QED
    BY <1>1, <1>2, <1>3, <2>1, <2>2 DEF IInv, Turns, OnThread
<1>7. CallOK(call[c], "reset") /\ (~ raced => DataOK(call[c], "reset", user))
  BY <1>1 DEF IInv
<1>8. /\ CallOK(call[c], "lookup") /\ NewestOK(call[c], "lookup", user, store')
      /\ ~ raced => DataOK(call[c], "lookup", user)
  BY <1>7
     DEF CallOK, DataOK, NewestOK, NoLookup, NoAnswer, OnThread, Working
<1>9. \A d \in Call : CallOK(call'[d], stage'[d])
  BY <1>1, <1>3, <1>8 DEF IInv
<1>10. \A d \in Call : d = started' => NewestOK(call'[d], stage'[d], user', store')
  BY <1>1, <1>2, <1>3, <1>8
<1>11. ~ raced' => \A d \in Call : DataOK(call'[d], stage'[d], user')
  BY <1>1, <1>3, <1>8 DEF IInv
<1>12. ValuesOK(store', setBy', user')
  BY <1>1, <1>4 DEF ValuesOK
<1>13. QED
  BY <1>1, <1>5, <1>6, <1>9, <1>10, <1>11, <1>12 DEF IInv

LEMMA StepServerChange ==
    ASSUME IInv, ServerChange
    PROVE  IInv'
<1>1. Types' /\ Turns' /\ (Between <=> Between')
  BY DEF IInv, Types, Turns, Between, ServerChange
<1>2. QED
  BY <1>1 DEF IInv, ServerChange

\* A memory without entries.
LEMMA EmptyMem ==
    ASSUME mem' = [k \in {} |-> None]
    PROVE  MemLater
<1>1. DOMAIN mem' = {}
  OBVIOUS
<1>2. IsFiniteSet(DOMAIN mem') /\ Cardinality(DOMAIN mem') = 0
  BY <1>1, FS_EmptySet
<1>3. QED
  BY <1>1, <1>2 DEF MemLater

LEMMA StepRestart ==
    ASSUME IInv, Restart
    PROVE  IInv'
<1>1. /\ user' = NoUser /\ writing' = None
      /\ store' = NoSuchStore /\ setBy' = "none"
      /\ mem' = [k \in {} |-> None]
      /\ turn' = 0 /\ restarts' = restarts + 1
      /\ stage' = [c \in Call |-> IF stage[c] = "new" THEN "new" ELSE "lost"]
      /\ call' = [c \in Call |-> Fresh]
      /\ UNCHANGED <<disk, now, server, started, raced>>
  BY DEF Restart
<1>2. NoUser \in User
  BY DEF NoUser
<1>3. \A c \in Call : /\ stage'[c] \in {"new", "lost"} /\ call'[c] = Fresh
                      /\ stage'[c] # "new" => stage[c] # "new"
  BY <1>1
<1>4. stage' \in [Call -> Stage] /\ call' \in [Call -> Locals]
  BY <1>1, FreshOK DEF Stage
<1>5. store' \in StoreSet /\ store'.values = None
  BY <1>1 DEF NoSuchStore, StoreSet
<1>6. MemLater
  BY <1>1, EmptyMem
<1>7. Types'
  BY <1>1, <1>2, <1>4, <1>5, <1>6 DEF IInv, Types, MemLater, UserOrNone
<1>8. Turns'
  BY <1>1, <1>3 DEF IInv, Turns, OnThread
<1>9. \A c \in Call : /\ CallOK(call'[c], stage'[c])
                      /\ NewestOK(call'[c], stage'[c], user', store')
                      /\ DataOK(call'[c], stage'[c], user')
  BY <1>3, FreshOK
<1>10. ValuesOK(store', setBy', user')
  BY <1>1, <1>5 DEF ValuesOK
<1>11. QED
  BY <1>1, <1>6, <1>7, <1>8, <1>9, <1>10 DEF IInv, MemLater

\* The first state.
LEMMA InitIInv == Init => IInv
<1> SUFFICES ASSUME Init PROVE IInv
  OBVIOUS
<1>1. NoUser \in User
  BY DEF NoUser
<1>2. stage \in [Call -> Stage] /\ call \in [Call -> Locals]
  BY FreshOK DEF Init, Stage
<1>3. store \in StoreSet /\ store.values = None
  BY DEF Init, NoSuchStore, StoreSet
<1>4. DOMAIN mem = {} /\ DOMAIN disk = {}
  BY DEF Init
<1>5. IsFiniteSet(DOMAIN mem) /\ Cardinality(DOMAIN mem) = 0
  BY <1>4, FS_EmptySet
<1>6. Types
  <2>1. /\ user \in User /\ writing \in UserOrNone
        /\ raced \in BOOLEAN /\ setBy \in {"none", "lookup", "answer"}
    BY <1>1, Zenon DEF Init, UserOrNone
  <2>2. /\ now \in Nat /\ server \in Nat \ {0} /\ restarts \in Nat
        /\ started \in 0 .. MaxCalls
    BY DEF Init
  <2>3. /\ DOMAIN mem \subseteq Id /\ \A k \in DOMAIN mem : mem[k] \in Result
        /\ DOMAIN disk \subseteq Id /\ \A k \in DOMAIN disk : disk[k] \in FileSet
    BY <1>4
  <2>4. Cardinality(DOMAIN mem) <= MaxCached
    BY <1>5
  <2>5. QED
    BY <1>2, <1>3, <1>5, <2>1, <2>2, <2>3, <2>4 DEF Types
<1>7. Turns
  BY DEF Init, Turns, OnThread
<1>8. \A c \in Call : /\ CallOK(call[c], stage[c])
                      /\ NewestOK(call[c], stage[c], user, store)
                      /\ DataOK(call[c], stage[c], user)
  BY FreshOK DEF Init
<1>9. ValuesOK(store, setBy, user)
  BY <1>3 DEF Init, ValuesOK
<1>10. QED
  BY <1>4, <1>6, <1>7, <1>8, <1>9 DEF IInv

\* Every step preserves the invariant.
LEMMA StepIInv == IInv /\ [Next]_vars => IInv'
<1> SUFFICES ASSUME IInv, [Next]_vars PROVE IInv'
  OBVIOUS
<1>1. ASSUME NEW c \in Call, Application(c) PROVE IInv'
  BY <1>1, StepAssign, StepReset, StepLookupMemory, StepLookupFile,
     StepLookupThrows, StepApply, StepSettle, StepSubmit DEF Application
<1>2. ASSUME NEW c \in Call, Worker(c) PROVE IInv'
  BY <1>2, StepStartWork, StepLookupAgain, StepReread, StepCopyInitiator,
     StepCopyForKey, StepCopyForHash, StepCopyForRequest, StepAnswerFails,
     StepReceive, StepEvict, StepFetchThrows, StepOpenFile, StepCloseFile,
     StepCheckUser, StepSetAnswer, StepFinalize DEF Worker
<1>3. CASE UNCHANGED vars
  <2>1. Types' /\ Turns' /\ (Between <=> Between')
    BY <1>3 DEF IInv, Types, Turns, Between, vars
  <2>2. QED
    BY <1>3, <2>1 DEF IInv, vars
<1>4. QED
  BY <1>1, <1>2, <1>3, StepBegin, StepServerChange, StepRestart DEF Next

LEMMA Inductive == Spec => []IInv
BY InitIInv, StepIInv, PTL DEF Spec

-----------------------------------------------------------------------------
(* The theorems.                                                           *)

\* Every variable has its type, and the source the store reports goes with
\* whether it holds values, in every order of the calls and the work they leave.
THEOREM TypeCorrect == Spec => []TypeOK
<1>1. IInv => TypeOK
  BY DEF IInv, Types, Turns, TypeOK, StoreSet, FileSet
<1>2. QED
  BY <1>1, Inductive, PTL

\* The values checks are made from were computed for a user with the current
\* user's ids, unless a use of the context's user without a lock went wrong.
THEOREM ValuesAreForUser == Spec => []ValuesForUser
<1>1. IInv => ValuesForUser
  BY DEF IInv, ValuesOK, ValuesForUser
<1>2. QED
  BY <1>1, Inductive, PTL

\* Values that came with an answer are for exactly the current user: the guard
\* in UpdateUserAsync's callback is enough.
THEOREM AnswersAreForUser == Spec => []AnswerForUser
<1>1. IInv => AnswerForUser
  BY DEF IInv, ValuesOK, AnswerForUser
<1>2. QED
  BY <1>1, Inductive, PTL

\* Everything in memory and in the files is for the id it is filed under, over
\* any number of restarts, evictions and torn files.
THEOREM CachesKeepKeys == Spec => []CachedUnderItsKey
<1>1. IInv => CachedUnderItsKey
  BY DEF IInv, CachedOK, CachedUnderItsKey
<1>2. QED
  BY <1>1, Inductive, PTL

\* full_user_hash of every result, cached or in a call's hands, is that of the
\* user its data was computed for.
THEOREM HashesNameData == Spec => []HashNamesData
<1>1. IInv => HashNamesData
  BY DEF IInv, CachedOK, DataOK, HashNamesData
<1>2. QED
  BY <1>1, Inductive, PTL

\* AddToInMemoryCache keeps the memory cache within its limit, whatever it is.
THEOREM MemoryStaysBounded == Spec => []MemoryBounded
<1>1. IInv => MemoryBounded
  BY DEF IInv, Types, MemoryBounded
<1>2. QED
  BY <1>1, Inductive, PTL

\* Once the newest call's callback has been called the store is not loading, and
\* holds values if it was given Ok: no older call undoes that.
THEOREM ReadyAfterCallback == Spec => []ReadyWhenCalledBack
<1>1. IInv => ReadyWhenCalledBack
  BY DEF IInv, NewestOK, ReadyWhenCalledBack
<1>2. QED
  BY <1>1, Inductive, PTL
=============================================================================
