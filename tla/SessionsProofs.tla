--------------------------- MODULE SessionsProofs ---------------------------
(***************************************************************************)
(* Proofs about Sessions, for any number of sessions and updates and any   *)
(* limit of the markers.                                                   *)
(***************************************************************************)
EXTENDS Sessions, FiniteSetTheorems, SequenceTheorems, TLAPS

USE SessionsAssumption, NoneAssumption DEF SessionsAssumption, NoneAssumption
USE DEF Session, Job

-----------------------------------------------------------------------------
(* The inductive invariant: first the calls, the jobs and their reports,   *)
(* then the Diagnostics instances.                                         *)

Stage == {"new", "called", "queued", "request", "post", "process", "unparsed",
          "end", "add", "write", "done", "dropped", "swallowed"} \cup Answered
Code == {None, "Ok", "NetworkFailureBadStatusCode"} \cup Error
JobRecord == [stage : Stage, session : 0 .. MaxSessions,
              kind : {None, "sync", "async"}, init : BOOLEAN,
              held : {"no", "task", "fetch"}, code : Code, calls : Nat]
AppRecord == [at : {"idle", "get", "add", "lookup", "end", "remove", "pool",
                    "reset"},
              for : {None, "service", "logger", "adapter", "init", "user"},
              session : 0 .. MaxSessions, job : 0 .. MaxJobs]
HoldRecord == [logger : Nat, adapter : Nat, init : Nat]
Instance == [size : 0 .. MaxMarkers + 1,
             of : SUBSET (Session \X {"OverallStart", "ProcessEnd", "other"})]

Types ==
    /\ app \in AppRecord
    /\ context \in 0 .. sessions /\ sessions \in 0 .. MaxSessions
    /\ hold \in [Session -> HoldRecord]
    /\ job \in [Job -> JobRecord]
    /\ reports \in [Session -> [Error -> {0, 1}]]
    /\ ended \in [Session -> {None, "clean", "timeout"}]

\* An Initialize that still makes the parts of its context, and one that still
\* gets instances.
Early == app.at \in {"get", "add"} /\ app.for \in {"service", "logger", "adapter"}
Chain == Early \/ (app.at \in {"get", "add"} /\ app.for = "init")

\* A call is for the newest session, and its job waits for it.
AppOK ==
    /\ app.at \in {"get", "add"} =>
          app.for \in {"service", "logger", "adapter", "init", "user"}
    /\ app.at \in {"get", "add", "lookup"} =>
          /\ app.job \in Job
          /\ job[app.job].stage = "called" /\ job[app.job].session = sessions
    /\ app.at \in {"get", "add", "lookup", "end"} =>
          app.session = sessions /\ sessions # 0
    /\ Chain => \A j \in Job : job[j].session = sessions => job[j].stage = "called"
    /\ Early => context < sessions
    /\ ~ Early => \/ context = sessions /\ context # 0
                  \/ context = 0 /\ app.at = "idle"

\* No session goes on after its Shutdown.
EndedOK ==
    \A t \in Session :
        ended[t] # None => /\ t <= sessions
                           /\ t = sessions => \/ app.at = "reset"
                                              \/ app.at = "idle" /\ context = 0

\* A session ended with no work left behind, nor any earlier one.
Clean(s) == ended[s] = "clean" /\ \A t \in 1 .. s - 1 : ended[t] # "timeout"

\* A job q when there have been n sessions.
JobOK(q, n) ==
    /\ q.stage = "new" => q.session = 0
    /\ q.stage # "new" => q.session \in 1 .. n
    /\ q.stage \in {"new", "called"} => q.held = "no"
    /\ q.stage \in {"new", "called"} => q.code = None
    /\ q.kind = "async" /\ q.stage # "done" => q.code = None
    /\ q.calls = IF q.kind = "async" /\ q.stage = "done" THEN 1 ELSE 0

JobsOK ==
    \A j \in Job :
        /\ JobOK(job[j], sessions)
        /\ job[j].stage = "dropped" => job[j].session # context
        /\ job[j].kind = "async" /\ job[j].session # 0 /\ Clean(job[j].session)
              => job[j].stage \in {"done", "swallowed"}

\* The parts of a session hold instances as far as Initialize has got.
HoldOK ==
    \A s \in Session :
        /\ s > sessions =>
              hold[s].logger = 0 /\ hold[s].adapter = 0 /\ hold[s].init = 0
        /\ s < sessions \/ (s = sessions /\ ~ Chain) =>
              hold[s].logger # 0 /\ hold[s].adapter # 0 /\ hold[s].init # 0
        /\ s = sessions /\ Chain =>
              /\ hold[s].init = 0
              /\ hold[s].logger = 0 <=> app.for \in {"service", "logger"}
              /\ hold[s].adapter = 0 <=> app.for # "init"

Control == Types /\ AppOK /\ EndedOK /\ JobsOK /\ HoldOK /\ ReportsTellFailures

\* The newest instance is the one that is registered, if there is one.
RegTypes ==
    /\ inst \in Seq(Instance)
    /\ reg \in {0, Len(inst)} /\ strays \subseteq 1 .. Len(inst)
    /\ \A s \in Session : /\ hold[s].logger <= Len(inst)
                          /\ hold[s].adapter <= Len(inst)
                          /\ hold[s].init <= Len(inst)

\* While Initialize gets instances only a worker can register another one.
RegOK ==
    /\ app.at = "add" => app.for \in {"service", "user"}
    /\ Chain /\ app.for # "service" => reg # 0
    /\ Chain /\ app.for = "adapter" => reg \in {hold[sessions].logger} \cup strays
    /\ Chain /\ app.for = "init" =>
          /\ reg \in {hold[sessions].adapter} \cup strays
          /\ \/ hold[sessions].logger = hold[sessions].adapter
             \/ hold[sessions].adapter \in strays

OneOK ==
    \A s \in Session :
        hold[s].init # 0 => \/ /\ hold[s].logger = hold[s].adapter
                               /\ hold[s].adapter = hold[s].init
                            \/ hold[s].adapter \in strays
                            \/ hold[s].init \in strays

\* But for ProcessEnd a session marks the instances it holds.
MarkOK ==
    \A i \in 1 .. Len(inst) : \A x \in inst[i].of :
        x[2] # "ProcessEnd" => i = hold[x[1]].adapter \/ i = hold[x[1]].init

\* What Shutdown has sent is not marked again.
SentOK ==
    \A s \in Session :
        ended[s] # None \/ (s = context /\ app.at \in {"remove", "pool"}) =>
            <<s, "OverallStart">> \notin inst[hold[s].logger].of

\* Once a Shutdown has removed the instances of a session only newer ones are
\* registered ...
Past(s) == \/ app.at = "pool" /\ s <= sessions
           \/ \E t \in Session : s <= t /\ ended[t] # None
PastOK == \A s \in Session :
              Past(s) => \/ reg = 0
                         \/ hold[s].adapter < reg /\ hold[s].init < reg

\* ... so a later session's logger holds a newer one.
NewerOK ==
    \A s, t, v \in Session :
        s <= v /\ v < t /\ ended[v] # None /\ hold[t].logger # 0 =>
            hold[s].adapter < hold[t].logger /\ hold[s].init < hold[t].logger

Instances == RegTypes /\ RegOK /\ OneOK /\ MarkOK /\ SentOK /\ PastOK /\ NewerOK

IInv == Control /\ Instances

-----------------------------------------------------------------------------
(* Steps of one job: the calls, the jobs and the reports.                  *)

\* Two states of a job that differ in its stage and in who keeps its context.
Alike(p, q) ==
    /\ p.session = q.session /\ p.kind = q.kind /\ (p.init <=> q.init)
    /\ p.code = q.code /\ p.calls = q.calls

Others(j) == /\ job' \in [Job -> JobRecord]
             /\ \A i \in Job \ {j} : job'[i] = job[i]

LEMMA AlikeNames ==
    ASSUME NEW p, NEW q, Alike(p, q)
    PROVE  Names(p) = Names(q)
BY DEF Alike, Names, Reported

\* Nothing new has been told, nothing new is reported.
LEMMA QuietReports ==
    ASSUME ReportsTellFailures, reports' = reports,
           \A i \in Job : /\ job'[i].session = job[i].session
                          /\ Names(job'[i]) = Names(job[i])
    PROVE  ReportsTellFailures'
BY DEF ReportsTellFailures

LEMMA QuietJob ==
    ASSUME Control, NEW j \in Job, Others(j), Alike(job'[j], job[j]),
           job[j].stage \notin {"new", "called"},
           job'[j].stage \notin {"new", "called"},
           \/ job'[j].stage = job[j].stage
           \/ /\ job[j].stage \notin {"done", "swallowed"}
              /\ job'[j].stage = "done" => job[j].kind # "async"
              /\ job'[j].stage = "dropped" => job[j].session # context,
           UNCHANGED <<app, context, sessions, hold, ended, reports>>
    PROVE  Control'
<1>1. Types' /\ EndedOK' /\ HoldOK' /\ (Early <=> Early') /\ (Chain <=> Chain')
  BY DEF Control, Types, EndedOK, HoldOK, Early, Chain, Others
<1>2. AppOK'
  BY <1>1 DEF Control, AppOK, Others, Alike
<1>3. JobOK(job'[j], sessions)
  BY DEF Control, JobsOK, JobOK, Alike
<1>4. JobsOK'
  <2>1. \A s : Clean(s) <=> Clean(s)'
    BY DEF Clean
  <2>2. QED
    BY <1>3, <2>1 DEF Control, JobsOK, Others, Alike
<1>5. \A i \in Job : /\ job'[i].session = job[i].session
                     /\ Names(job'[i]) = Names(job[i])
  BY AlikeNames DEF Others, Alike
<1>6. QED
  BY <1>1, <1>2, <1>4, <1>5, QuietReports DEF Control

LEMMA GotoParts ==
    ASSUME Control, NEW j \in Job, NEW to \in Stage, Goto(j, to)
    PROVE  Others(j) /\ Alike(job'[j], job[j]) /\ job'[j].stage = to
BY DEF Control, Types, Goto, JobRecord, Others, Alike

\* A job that goes to another stage, lets go of its context, or both.
LEMMA MovedJob ==
    ASSUME job \in [Job -> JobRecord], NEW j \in Job, NEW p,
           NEW to \in Stage, NEW h \in {"no", "task", "fetch"},
           \/ p = [job[j] EXCEPT !.stage = to, !.held = h]
           \/ p = [job[j] EXCEPT !.stage = to]
           \/ p = [job[j] EXCEPT !.held = h] /\ to = job[j].stage,
           job' = [job EXCEPT ![j] = p]
    PROVE  Others(j) /\ Alike(job'[j], job[j]) /\ job'[j].stage = to
<1>1. job[j] \in JobRecord
  OBVIOUS
<1>2. /\ p \in JobRecord /\ p.stage = to
      /\ p.session = job[j].session /\ p.kind = job[j].kind
      /\ p.init = job[j].init /\ p.code = job[j].code /\ p.calls = job[j].calls
  <2>1. CASE p = [job[j] EXCEPT !.stage = to, !.held = h]
    BY <1>1, <2>1 DEF JobRecord
  <2>2. CASE p = [job[j] EXCEPT !.stage = to]
    BY <1>1, <2>2 DEF JobRecord
  <2>3. CASE p = [job[j] EXCEPT !.held = h] /\ to = job[j].stage
    BY <1>1, <2>3 DEF JobRecord
  <2>4. QED
    BY <2>1, <2>2, <2>3
<1>3. QED
  BY <1>2 DEF Others, Alike

-----------------------------------------------------------------------------
(* Marks and new instances.                                                *)

LEMMA MarkedInstance ==
    ASSUME NEW d \in Instance, NEW s \in Session, NEW m \in Mark
    PROVE  /\ Marked(d, s, m) \in Instance
           /\ Marked(d, s, m).of \subseteq d.of \cup {<<s, Kept(m)>>}
<1>1. Kept(m) \in {"OverallStart", "ProcessEnd", "other"}
  BY DEF Kept
<1>2. CASE d.size > MaxMarkers
  BY <1>2 DEF Marked
<1>3. CASE ~ (d.size > MaxMarkers)
  <2>1. Marked(d, s, m) = [size |-> d.size + 1, of |-> d.of \cup {<<s, Kept(m)>>}]
    BY <1>3 DEF Marked
  <2>2. d.size + 1 \in 0 .. MaxMarkers + 1
    BY <1>3 DEF Instance
  <2>3. QED
    BY <1>1, <2>1, <2>2 DEF Instance
<1>4. QED
  BY <1>2, <1>3

LEMMA EmptyInstance == Empty \in Instance /\ Empty.of = {}
BY DEF Empty, Instance

LEMMA MarkParts ==
    ASSUME inst \in Seq(Instance), NEW i \in 1 .. Len(inst), NEW s \in Session,
           NEW m \in Mark, MarkIn(i, s, m)
    PROVE  /\ inst' \in Seq(Instance) /\ Len(inst') = Len(inst)
           /\ inst'[i].of \subseteq inst[i].of \cup {<<s, Kept(m)>>}
           /\ \A k \in 1 .. Len(inst) : k # i => inst'[k] = inst[k]
<1> DEFINE d == Marked(inst[i], s, m)
<1>1. inst[i] \in Instance
  BY ElementOfSeq
<1>2. d \in Instance /\ d.of \subseteq inst[i].of \cup {<<s, Kept(m)>>}
  BY <1>1, MarkedInstance
<1>3. inst' = [inst EXCEPT ![i] = d]
  BY DEF MarkIn
<1> HIDE DEF d
<1>4. QED
  BY <1>2, <1>3, ExceptSeq

LEMMA AppendParts ==
    ASSUME inst \in Seq(Instance), NEW d \in Instance, inst' = Append(inst, d)
    PROVE  /\ inst' \in Seq(Instance) /\ Len(inst') = Len(inst) + 1
           /\ inst'[Len(inst) + 1] = d
           /\ \A k \in 1 .. Len(inst) : inst'[k] = inst[k]
BY AppendProperties

-----------------------------------------------------------------------------
(* Steps of one job: the instances.                                        *)

\* Work moves neither the application's thread nor the sessions; nor does the
\* thread need another instance once it has looked up the values.
Aside ==
    /\ UNCHANGED <<context, sessions, hold, ended>>
    /\ UNCHANGED app \/ (app.at \in {"lookup", "end"} /\ app'.at \in {"end", "idle"})

LEMMA AsideStays ==
    ASSUME Aside
    PROVE  /\ Chain <=> Chain'
           /\ Chain' \/ app'.at \in {"add", "remove", "pool"} => app' = app
           /\ \A s : Past(s) <=> Past(s)'
BY DEF Aside, Chain, Early, Past

LEMMA InstancesStay ==
    ASSUME Instances, Aside, UNCHANGED <<inst, reg, strays>>
    PROVE  Instances'
<1>1. RegTypes' /\ RegOK' /\ OneOK' /\ PastOK' /\ NewerOK'
  BY AsideStays
     DEF Aside, Instances, RegTypes, RegOK, OneOK, PastOK, NewerOK
<1>2. MarkOK' /\ SentOK'
  BY DEF Aside, Instances, MarkOK, SentOK
<1>3. QED
  BY <1>1, <1>2 DEF Instances

\* A mark of a session in an instance of its own, or a ProcessEnd.
LEMMA MarkedInstances ==
    ASSUME Control, Instances, Aside, UNCHANGED <<reg, strays>>,
           NEW i \in 1 .. Len(inst), NEW s \in Session,
           NEW m \in Mark \ {"OverallStart"}, MarkIn(i, s, m),
           Kept(m) = "ProcessEnd" \/ i \in {hold[s].adapter, hold[s].init}
    PROVE  Instances'
<1>0. inst \in Seq(Instance) /\ hold \in [Session -> HoldRecord]
  BY DEF Control, Types, Instances, RegTypes
<1>1. /\ inst' \in Seq(Instance) /\ Len(inst') = Len(inst)
      /\ inst'[i].of \subseteq inst[i].of \cup {<<s, Kept(m)>>}
      /\ \A k \in 1 .. Len(inst) : k # i => inst'[k] = inst[k]
  BY <1>0, MarkParts
<1>2. Kept(m) # "OverallStart"
  BY DEF Kept
<1>3. RegTypes' /\ RegOK' /\ OneOK' /\ PastOK' /\ NewerOK'
  BY <1>1, AsideStays
     DEF Aside, Instances, RegTypes, RegOK, OneOK, PastOK, NewerOK
<1>4. MarkOK'
  <2> SUFFICES ASSUME NEW k \in 1 .. Len(inst), NEW x \in inst'[k].of,
                      x[2] # "ProcessEnd"
               PROVE  k = hold[x[1]].adapter \/ k = hold[x[1]].init
    BY <1>1 DEF MarkOK, Aside
  <2>1. CASE x \in inst[k].of
    BY <2>1 DEF Instances, MarkOK
  <2>2. CASE k = i /\ x = <<s, Kept(m)>>
    <3>1. x[1] = s /\ x[2] = Kept(m)
      BY <2>2
    <3>2. QED
      BY <2>2, <3>1
  <2>3. QED
    BY <1>1, <2>1, <2>2
<1>5. SentOK'
  <2> SUFFICES ASSUME NEW t \in Session,
                      ended[t] # None \/ (t = context /\ app.at \in {"remove", "pool"})
               PROVE  <<t, "OverallStart">> \notin inst'[hold[t].logger].of
    BY DEF SentOK, Aside
  <2>1. <<t, "OverallStart">> \notin inst[hold[t].logger].of
    BY DEF Instances, SentOK
  <2>2. hold[t].logger \in 1 .. Len(inst)
    <3>1. hold[t].logger # 0
      BY DEF Control, HoldOK, EndedOK, AppOK, Chain, Early, Types
    <3>2. hold[t].logger \in Nat /\ hold[t].logger <= Len(inst)
      BY <1>0 DEF HoldRecord, Instances, RegTypes
    <3>3. Len(inst) \in Nat
      BY <1>0, LenProperties
    <3>4. QED
      BY <3>1, <3>2, <3>3
  <2>3. <<t, "OverallStart">> # <<s, Kept(m)>>
    BY <1>2
  <2>4. QED
    BY <1>1, <2>1, <2>2, <2>3
<1>6. QED
  BY <1>3, <1>4, <1>5 DEF Instances

\* The session of a job at work holds all its instances.
LEMMA WorkHolds ==
    ASSUME Control, Instances, NEW j \in Job, job[j].stage \notin {"new", "called"}
    PROVE  /\ job[j] \in JobRecord
           /\ job[j].session \in Session /\ job[j].session # 0
           /\ hold[job[j].session].adapter \in 1 .. Len(inst)
           /\ hold[job[j].session].init \in 1 .. Len(inst)
<1> DEFINE s == job[j].session
<1>1. job[j] \in JobRecord /\ sessions \in 0 .. MaxSessions
  BY DEF Control, Types
<1>2. s \in 1 .. sessions
  BY DEF Control, JobsOK, JobOK
<1>3. s \in Session /\ s # 0
  BY <1>1, <1>2
<1>4. ~ (s = sessions /\ Chain)
  BY DEF Control, AppOK
<1> HIDE DEF s
<1>5. hold[s].adapter # 0 /\ hold[s].init # 0
  BY <1>2, <1>3, <1>4, <1>1 DEF Control, HoldOK
<1>6. /\ hold[s].adapter \in Nat /\ hold[s].adapter <= Len(inst)
      /\ hold[s].init \in Nat /\ hold[s].init <= Len(inst)
  BY <1>3 DEF Control, Types, HoldRecord, Instances, RegTypes
<1>7. Len(inst) \in Nat
  BY LenProperties DEF Instances, RegTypes
<1>8. QED
  BY <1>1, <1>3, <1>5, <1>6, <1>7 DEF s

\* A worker registers an instance with a ProcessEnd.
LEMMA StrayInstances ==
    ASSUME Control, Instances, Aside, NEW d \in Instance,
           \A x \in d.of : x[2] = "ProcessEnd",
           inst' = Append(inst, d), reg' = Len(inst) + 1,
           strays' = strays \cup {Len(inst) + 1}
    PROVE  Instances'
<1>0. /\ inst \in Seq(Instance) /\ hold \in [Session -> HoldRecord]
      /\ Len(inst) \in Nat /\ sessions \in 0 .. MaxSessions
  BY LenProperties DEF Control, Types, Instances, RegTypes
<1>1. /\ inst' \in Seq(Instance) /\ Len(inst') = Len(inst) + 1
      /\ inst'[Len(inst) + 1] = d
      /\ \A k \in 1 .. Len(inst) : inst'[k] = inst[k]
  BY <1>0, AppendParts
<1>2. \A s \in Session : /\ hold[s].logger \in Nat /\ hold[s].logger <= Len(inst)
                         /\ hold[s].adapter \in Nat /\ hold[s].adapter <= Len(inst)
                         /\ hold[s].init \in Nat /\ hold[s].init <= Len(inst)
  BY <1>0 DEF HoldRecord, Instances, RegTypes
<1>3. RegTypes'
  <2>1. strays' \subseteq 1 .. Len(inst')
    <3>1. strays \subseteq 1 .. Len(inst)
      BY DEF Instances, RegTypes
    <3>2. \A i \in strays' : i \in 1 .. Len(inst) \/ i = Len(inst) + 1
      BY <3>1
    <3>3. QED
      BY <1>0, <1>1, <3>2
  <2>2. \A s \in Session : /\ hold'[s].logger <= Len(inst')
                           /\ hold'[s].adapter <= Len(inst')
                           /\ hold'[s].init <= Len(inst')
    BY <1>0, <1>1, <1>2 DEF Aside
  <2>3. QED
    BY <1>1, <2>1, <2>2 DEF RegTypes
<1>4. RegOK' /\ OneOK' /\ NewerOK'
  BY <1>0, AsideStays DEF Aside, Instances, RegOK, OneOK, NewerOK
<1>5. PastOK'
  <2>1. \A s \in Session : hold'[s].adapter < reg' /\ hold'[s].init < reg'
    BY <1>0, <1>2 DEF Aside
  <2>2. QED
    BY <2>1 DEF PastOK
<1>6. MarkOK'
  <2> SUFFICES ASSUME NEW k \in 1 .. Len(inst) + 1, NEW x \in inst'[k].of,
                      x[2] # "ProcessEnd"
               PROVE  k = hold[x[1]].adapter \/ k = hold[x[1]].init
    BY <1>1 DEF MarkOK, Aside
  <2>1. CASE k = Len(inst) + 1
    BY <1>1, <2>1
  <2>2. CASE k \in 1 .. Len(inst)
    BY <1>1, <2>2 DEF Instances, MarkOK
  <2>3. QED
    BY <1>0, <2>1, <2>2
<1>7. SentOK'
  <2> SUFFICES ASSUME NEW t \in Session,
                      ended[t] # None \/ (t = context /\ app.at \in {"remove", "pool"})
               PROVE  <<t, "OverallStart">> \notin inst'[hold[t].logger].of
    BY DEF SentOK, Aside
  <2>1. <<t, "OverallStart">> \notin inst[hold[t].logger].of
    BY DEF Instances, SentOK
  <2>2. hold[t].logger # 0
    BY DEF Control, HoldOK, EndedOK, AppOK, Chain, Early, Types
  <2>3. hold[t].logger \in 1 .. Len(inst)
    BY <1>0, <1>2, <2>2
  <2>4. QED
    BY <1>1, <2>1, <2>3
<1>8. QED
  BY <1>3, <1>4, <1>5, <1>6, <1>7 DEF Instances

-----------------------------------------------------------------------------
(* The steps of the jobs.                                                  *)

\* Steps that mark nothing.
LEMMA StepStart ==
    ASSUME IInv, NEW j \in Job, Start(j)
    PROVE  IInv'
<1>0. job \in [Job -> JobRecord] /\ job[j].stage = "queued"
  BY DEF IInv, Control, Types, Start, At
<1>1. /\ Others(j) /\ Alike(job'[j], job[j])
      /\ \/ job'[j].stage = "request"
         \/ job'[j].stage = "dropped" /\ ~ Alive(job[j].session)
  <2>1. CASE Alive(job[j].session)
    <3> DEFINE p == [job[j] EXCEPT !.stage = "request", !.held = "task"]
    <3>1. job' = [job EXCEPT ![j] = p] /\ "request" \in Stage
      BY <2>1 DEF Start, Stage
    <3>2. QED
      BY <1>0, <3>1, MovedJob
  <2>2. CASE ~ Alive(job[j].session)
    <3> DEFINE p == [job[j] EXCEPT !.stage = "dropped"]
    <3>1. job' = [job EXCEPT ![j] = p] /\ "dropped" \in Stage
      BY <2>2 DEF Start, Stage
    <3>2. QED
      BY <1>0, <2>2, <3>1, MovedJob
  <2>3. QED
    BY <2>1, <2>2
<1>2. job'[j].stage = "dropped" => job[j].session # context
  BY <1>1 DEF Alive
<1>3. Control'
  BY <1>0, <1>1, <1>2, QuietJob DEF IInv, Start
<1>4. Instances'
  BY InstancesStay DEF IInv, Start, Aside, registry
<1>5. QED
  BY <1>3, <1>4 DEF IInv

LEMMA StepFetchThrows ==
    ASSUME IInv, NEW j \in Job, FetchThrows(j)
    PROVE  IInv'
<1>0. job \in [Job -> JobRecord] /\ job[j].stage = "request"
  BY DEF IInv, Control, Types, FetchThrows, At
<1>1. Others(j) /\ Alike(job'[j], job[j]) /\ job'[j].stage = "swallowed"
  <2> DEFINE p == [job[j] EXCEPT !.stage = "swallowed", !.held = "no"]
  <2>1. job' = [job EXCEPT ![j] = p] /\ "swallowed" \in Stage
    BY DEF FetchThrows, Stage
  <2>2. QED
    BY <1>0, <2>1, MovedJob
<1>2. Control'
  BY <1>0, <1>1, QuietJob DEF IInv, FetchThrows
<1>3. Instances'
  BY InstancesStay DEF IInv, FetchThrows, Aside, registry
<1>4. QED
  BY <1>2, <1>3 DEF IInv

LEMMA StepReturn ==
    ASSUME IInv, NEW j \in Job, Return(j)
    PROVE  IInv'
<1>0. job[j].stage \notin {"new", "called"}
  BY DEF IInv, Control, JobsOK, JobOK, Return
<1>1. Others(j) /\ Alike(job'[j], job[j]) /\ job'[j].stage = job[j].stage
  <2> DEFINE p == [job[j] EXCEPT !.held = "no"]
  <2>1. job \in [Job -> JobRecord] /\ job[j].stage \in Stage
    BY DEF IInv, Control, Types, JobRecord
  <2>2. job' = [job EXCEPT ![j] = p]
    BY DEF Return
  <2>3. QED
    BY <2>1, <2>2, MovedJob
<1>2. Control'
  BY <1>0, <1>1, QuietJob DEF IInv, Return
<1>3. Instances'
  BY InstancesStay DEF IInv, Return, Aside, registry
<1>4. QED
  BY <1>2, <1>3 DEF IInv

LEMMA StepWrite ==
    ASSUME IInv, NEW j \in Job, Write(j)
    PROVE  IInv'
<1>1. Others(j) /\ Alike(job'[j], job[j]) /\ job'[j].stage = "end"
  BY GotoParts DEF IInv, Write, Stage
<1>2. Control'
  BY <1>1, QuietJob DEF IInv, Write, At
<1>3. Instances'
  BY InstancesStay DEF IInv, Write, Aside, registry
<1>4. QED
  BY <1>2, <1>3 DEF IInv

LEMMA StepEndMisses ==
    ASSUME IInv, NEW j \in Job, EndMisses(j)
    PROVE  IInv'
<1>1. Others(j) /\ Alike(job'[j], job[j]) /\ job'[j].stage = "add"
  BY GotoParts DEF IInv, EndMisses, Stage
<1>2. Control'
  BY <1>1, QuietJob DEF IInv, EndMisses, At
<1>3. Instances'
  BY InstancesStay DEF IInv, EndMisses, Aside, registry
<1>4. QED
  BY <1>2, <1>3 DEF IInv

LEMMA StepNoCallBack ==
    ASSUME IInv, NEW j \in Job, NoCallBack(j)
    PROVE  IInv'
<1>1. Others(j) /\ Alike(job'[j], job[j]) /\ job'[j].stage = "dropped"
  <2> DEFINE p == [job[j] EXCEPT !.stage = "dropped"]
  <2>1. job \in [Job -> JobRecord] /\ "dropped" \in Stage
    BY DEF IInv, Control, Types, Stage
  <2>2. job' = [job EXCEPT ![j] = p]
    BY DEF NoCallBack
  <2>3. QED
    BY <2>1, <2>2, MovedJob
<1>2. job[j].stage \in Answered /\ job[j].session # context
  BY DEF NoCallBack, Alive
<1>3. Control'
  BY <1>1, <1>2, QuietJob DEF IInv, NoCallBack, Answered
<1>4. Instances'
  BY InstancesStay DEF IInv, NoCallBack, Aside, registry
<1>5. QED
  BY <1>3, <1>4 DEF IInv

LEMMA StepRefreshed ==
    ASSUME IInv, NEW j \in Job, Refreshed(j)
    PROVE  IInv'
<1>0. job \in [Job -> JobRecord] /\ Let(job[j].held) \in {"no", "task", "fetch"}
  BY DEF IInv, Control, Types, Let, JobRecord
<1> DEFINE held == Let(job[j].held)
<1>1. Others(j) /\ Alike(job'[j], job[j]) /\ job'[j].stage = "done"
  <2> DEFINE p == [job[j] EXCEPT !.stage = "done", !.held = held]
  <2>1. job' = [job EXCEPT ![j] = p]
    BY <1>0 DEF Refreshed
  <2>2. held \in {"no", "task", "fetch"} /\ "done" \in Stage
    BY <1>0 DEF Stage
  <2> HIDE DEF held
  <2>3. QED
    BY <1>0, <2>1, <2>2, MovedJob
<1>2. job[j].stage \in Answered /\ job[j].kind = "sync"
  BY DEF Refreshed
<1>3. Control'
  BY <1>1, <1>2, QuietJob DEF IInv, Refreshed, Answered
<1>4. Instances'
  BY InstancesStay DEF IInv, Refreshed, Aside, registry
<1>5. QED
  BY <1>3, <1>4 DEF IInv

\* Steps that mark.
LEMMA MarkedJob ==
    ASSUME IInv, NEW j \in Job, job[j].stage \notin {"new", "called"},
           NEW m \in Mark \ {"OverallStart"}, MarkJob(j, m)
    PROVE  Instances'
BY WorkHolds, MarkedInstances DEF IInv, MarkJob, Aside

LEMMA StepRequest ==
    ASSUME IInv, NEW j \in Job, Request(j)
    PROVE  IInv'
<1>1. Others(j) /\ Alike(job'[j], job[j]) /\ job'[j].stage = "post"
  BY GotoParts DEF IInv, Request, Stage
<1>2. Control'
  BY <1>1, QuietJob DEF IInv, Request, MarkJob, At
<1>3. Instances'
  BY MarkedJob DEF Request, At, Mark
<1>4. QED
  BY <1>2, <1>3 DEF IInv

LEMMA StepRespond ==
    ASSUME IInv, NEW j \in Job, Respond(j)
    PROVE  IInv'
<1>1. PICK to \in {"process", "NetworkFailureBadStatusCode", "NetworkError"} :
         Goto(j, to)
  BY DEF Respond
<1>2. Others(j) /\ Alike(job'[j], job[j]) /\ job'[j].stage = to
  BY <1>1, GotoParts DEF IInv, Stage, Answered
<1>3. Control'
  BY <1>2, QuietJob DEF IInv, Respond, MarkJob, At
<1>4. Instances'
  BY MarkedJob DEF Respond, At, Mark
<1>5. QED
  BY <1>3, <1>4 DEF IInv

LEMMA StepProcess ==
    ASSUME IInv, NEW j \in Job, Process(j)
    PROVE  IInv'
<1>0. job \in [Job -> JobRecord] /\ job[j].stage = "process"
  BY DEF IInv, Control, Types, Process, At
<1>1. /\ Others(j) /\ Alike(job'[j], job[j])
      /\ job'[j].stage \in {"unparsed", "end", "write", "swallowed"}
  <2>1. CASE \E to \in {"unparsed", "end"} : Goto(j, to)
    BY <2>1, GotoParts DEF IInv, Stage
  <2>2. CASE job' = [job EXCEPT ![j].stage = "write", ![j].held = "fetch"]
    <3> DEFINE p == [job[j] EXCEPT !.stage = "write", !.held = "fetch"]
    <3>1. job' = [job EXCEPT ![j] = p] /\ "write" \in Stage
      BY <1>0, <2>2 DEF Stage
    <3>2. QED
      BY <1>0, <3>1, MovedJob
  <2>3. CASE job' = [job EXCEPT ![j].stage = "swallowed", ![j].held = "no"]
    <3> DEFINE p == [job[j] EXCEPT !.stage = "swallowed", !.held = "no"]
    <3>1. job' = [job EXCEPT ![j] = p] /\ "swallowed" \in Stage
      BY <1>0, <2>3 DEF Stage
    <3>2. QED
      BY <1>0, <3>1, MovedJob
  <2>4. QED
    BY <2>1, <2>2, <2>3 DEF Process
<1>2. Control'
  BY <1>0, <1>1, QuietJob DEF IInv, Process, MarkJob
<1>3. Instances'
  BY <1>0, MarkedJob DEF Process, Mark
<1>4. QED
  BY <1>2, <1>3 DEF IInv

LEMMA StepUnparsed ==
    ASSUME IInv, NEW j \in Job, Unparsed(j)
    PROVE  IInv'
<1>1. /\ Others(j) /\ Alike(job'[j], job[j])
      /\ job'[j].stage = "JsonFailureInitializeResponse"
  BY GotoParts DEF IInv, Unparsed, Stage, Answered
<1>2. Control'
  BY <1>1, QuietJob DEF IInv, Unparsed, MarkJob, At
<1>3. Instances'
  BY MarkedJob DEF Unparsed, At, Mark
<1>4. QED
  BY <1>2, <1>3 DEF IInv

LEMMA StepEndFinds ==
    ASSUME IInv, NEW j \in Job, EndFinds(j)
    PROVE  IInv'
<1>1. Others(j) /\ Alike(job'[j], job[j]) /\ job'[j].stage = "Ok"
  BY GotoParts DEF IInv, EndFinds, Stage, Answered
<1>2. Control'
  BY <1>1, QuietJob DEF IInv, EndFinds, At
<1>3. reg \in 1 .. Len(inst)
  BY LenProperties DEF IInv, Instances, RegTypes, EndFinds
<1>4. job[j].session \in Session
  BY WorkHolds DEF IInv, EndFinds, At
<1>5. Kept("ProcessEnd") = "ProcessEnd"
  BY DEF Kept
<1>6. Instances'
  BY <1>3, <1>4, <1>5, MarkedInstances DEF IInv, EndFinds, Aside, Mark
<1>7. QED
  BY <1>2, <1>6 DEF IInv

LEMMA StepEndAdds ==
    ASSUME IInv, NEW j \in Job, EndAdds(j)
    PROVE  IInv'
<1>1. Others(j) /\ Alike(job'[j], job[j]) /\ job'[j].stage = "Ok"
  BY GotoParts DEF IInv, EndAdds, Stage, Answered
<1>2. Control'
  BY <1>1, QuietJob DEF IInv, EndAdds, At
<1>3. job[j].session \in Session
  BY WorkHolds DEF IInv, EndAdds, At
<1> DEFINE d == Marked(Empty, job[j].session, "ProcessEnd")
<1>4. d \in Instance /\ d.of \subseteq {<<job[j].session, Kept("ProcessEnd")>>}
  BY <1>3, EmptyInstance, MarkedInstance DEF Mark
<1>5. \A x \in d.of : x[2] = "ProcessEnd"
  BY <1>4 DEF Kept
<1>6. /\ inst' = Append(inst, d) /\ reg' = Len(inst) + 1
      /\ strays' = strays \cup {Len(inst) + 1}
  BY DEF EndAdds, Add
<1> HIDE DEF d
<1>7. Instances'
  BY <1>4, <1>5, <1>6, StrayInstances DEF IInv, EndAdds, Aside
<1>8. QED
  BY <1>2, <1>7 DEF IInv

\* A job tells its first errors.
LEMMA LoggedErrors ==
    ASSUME Control, NEW j \in Job, Others(j), NEW s \in Session,
           NEW names \in SUBSET Error, LogErrors(s, names),
           job[j].session = s, job'[j].session = s,
           Names(job[j]) = {}, Names(job'[j]) = names
    PROVE  reports' \in [Session -> [Error -> {0, 1}]] /\ ReportsTellFailures'
<1>1. reports \in [Session -> [Error -> {0, 1}]] /\ ReportsTellFailures
  BY DEF Control, Types
<1>2. reports' = [reports EXCEPT ![s] =
                    [e \in Error |-> IF e \in names /\ @[e] = 0 THEN 1 ELSE @[e]]]
  BY DEF LogErrors
<1>3. \A t \in Session, e \in Error :
         reports'[t][e] = IF t = s /\ e \in names THEN 1 ELSE reports[t][e]
  BY <1>1, <1>2
<1>4. reports' \in [Session -> [Error -> {0, 1}]]
  BY <1>1, <1>2
<1>5. ReportsTellFailures'
  <2> SUFFICES ASSUME NEW t \in Session, NEW e \in Error
               PROVE  reports'[t][e] =
                         IF \E i \in Job : job'[i].session = t /\ e \in Names(job'[i])
                         THEN 1 ELSE 0
    BY DEF ReportsTellFailures
  <2>1. CASE t = s /\ e \in names
    BY <1>3, <2>1
  <2>2. CASE ~ (t = s /\ e \in names)
    <3>1. (\E i \in Job : job'[i].session = t /\ e \in Names(job'[i]))
             <=> \E i \in Job : job[i].session = t /\ e \in Names(job[i])
      BY <2>2 DEF Others
    <3>2. QED
      BY <1>1, <1>3, <2>2, <3>1 DEF ReportsTellFailures
  <2>3. QED
    BY <2>1, <2>2
<1>6. QED
  BY <1>4, <1>5

\* The callback: an answer's code is told, and reported if it is an error.
LEMMA CallBackControl ==
    ASSUME IInv, NEW j \in Job, CallBack(j)
    PROVE  Control'
<1> DEFINE q == job[j]
           held == Let(q.held)
           code == q.stage
<1>0. /\ q \in JobRecord /\ q.stage \in Answered /\ q.kind = "async"
      /\ q.session \in Session /\ q.code = None /\ q.calls = 0
      /\ JobOK(q, sessions) /\ job \in [Job -> JobRecord]
  BY WorkHolds DEF IInv, Control, Types, JobsOK, JobOK, CallBack, Answered
<1>1. /\ held \in {"no", "task", "fetch"} /\ code \in Code
      /\ q.calls + 1 = 1
  BY <1>0 DEF Let, JobRecord, Code, Error, Answered
<1>2. /\ Others(j) /\ job'[j].stage = "done" /\ job'[j].code = code
      /\ job'[j].calls = 1 /\ job'[j].session = q.session
      /\ job'[j].kind = "async" /\ job'[j].held = held
  <2>1. job' = [job EXCEPT ![j].stage = "done", ![j].held = held,
                           ![j].code = code, ![j].calls = q.calls + 1]
    BY <1>0 DEF CallBack
  <2> HIDE DEF held, code
  <2>2. QED
    BY <1>0, <1>1, <2>1 DEF JobRecord, Stage, Others
<1>3. UNCHANGED <<app, context, sessions, hold, ended>>
  BY DEF CallBack
<1>4. LogErrors(q.session, {code} \cap Error)
  BY <1>0 DEF CallBack, Reported
<1>5. Names(q) = {} /\ Names(job'[j]) = {code} \cap Error
  BY <1>0, <1>2 DEF Names, Reported, Error
<1> HIDE DEF held, code, q
<1>8. job[j].session = q.session /\ Names(job[j]) = {}
  BY <1>5 DEF q
<1>9. reports' \in [Session -> [Error -> {0, 1}]] /\ ReportsTellFailures'
  BY <1>0, <1>2, <1>4, <1>5, <1>8, LoggedErrors DEF IInv
<1>10. Types' /\ EndedOK' /\ HoldOK' /\ (Early <=> Early') /\ (Chain <=> Chain')
  BY <1>2, <1>3, <1>9
     DEF IInv, Control, Types, EndedOK, HoldOK, Early, Chain, Others
<1>11. AppOK'
  BY <1>0, <1>2, <1>3, <1>10
     DEF IInv, Control, AppOK, Others, Answered, q
<1>12. JobOK(job'[j], sessions)
  BY <1>0, <1>2 DEF JobOK, Answered
<1>13. JobsOK'
  <2>1. \A s : Clean(s) <=> Clean(s)'
    BY <1>3 DEF Clean
  <2>2. QED
    BY <1>2, <1>3, <1>12, <2>1 DEF IInv, Control, JobsOK, Others
<1>14. QED
  BY <1>9, <1>10, <1>11, <1>13 DEF Control

LEMMA StepCallBack ==
    ASSUME IInv, NEW j \in Job, CallBack(j)
    PROVE  IInv'
<1> DEFINE s == job[j].session
<1>0. /\ s \in Session /\ hold[s].init \in 1 .. Len(inst)
  BY WorkHolds DEF IInv, CallBack, Answered
<1>1. Instances'
  <2>1. CASE job[j].init
    BY <1>0, <2>1, MarkedInstances DEF IInv, CallBack, Aside, Mark
  <2>2. CASE ~ job[j].init
    BY <2>2, InstancesStay DEF IInv, CallBack, Aside
  <2>3. QED
    BY <2>1, <2>2
<1>2. QED
  BY <1>1, CallBackControl DEF IInv

-----------------------------------------------------------------------------
(* The steps of the application's thread: calls.                           *)

\* A new job has told nothing.
LEMMA CallParts ==
    ASSUME Control, NEW j \in Job, NEW s \in Session, NEW k \in Kind,
           NEW init \in BOOLEAN, NEW for \in {"service", "user"},
           NextJob(j), Call(j, s, k, init, for)
    PROVE  /\ app' \in AppRecord /\ app'.at = "get" /\ app'.for = for
           /\ app'.session = s /\ app'.job = j
           /\ Others(j) /\ job'[j].stage = "called" /\ job'[j].session = s
           /\ job'[j].code = None /\ job'[j].calls = 0 /\ job'[j].held = "no"
           /\ Names(job'[j]) = {} /\ Names(job[j]) = {}
           /\ job[j].stage = "new"
<1> DEFINE q == [NewJob EXCEPT !.stage = "called", !.session = s, !.kind = k,
                               !.init = init]
<1>0. job \in [Job -> JobRecord] /\ JobOK(job[j], sessions) /\ job[j].stage = "new"
  BY DEF Control, Types, JobsOK, NextJob
<1>1. app' = [at |-> "get", for |-> for, session |-> s, job |-> j]
      /\ job' = [job EXCEPT ![j] = q]
  BY DEF Call
<1>2. app' \in AppRecord /\ app'.at = "get" /\ app'.for = for
      /\ app'.session = s /\ app'.job = j
  BY <1>1 DEF AppRecord
<1>3. q.stage = "called" /\ q.session = s /\ q.code = None /\ q.calls = 0
      /\ q.held = "no"
  BY DEF NewJob
<1>4. q \in JobRecord
  <2>1. /\ "new" \in Stage /\ "called" \in Stage /\ None \in Code /\ 0 \in Nat
        /\ 0 \in 0 .. MaxSessions /\ s \in 0 .. MaxSessions
        /\ None \in {None, "sync", "async"} /\ k \in {None, "sync", "async"}
    BY DEF Stage, Code
  <2>2. NewJob \in JobRecord
    BY <2>1, Zenon DEF NewJob, JobRecord
  <2>3. QED
    BY <2>1, <2>2 DEF JobRecord
<1> HIDE DEF q
<1>5. job'[j] = q /\ Others(j)
  BY <1>0, <1>1, <1>4 DEF Others
<1>6. Names(q) = {} /\ Names(job[j]) = {}
  BY <1>0, <1>3 DEF Names, Reported, Error, JobOK
<1>7. QED
  BY <1>0, <1>2, <1>3, <1>5, <1>6

\* A call for a session that goes on.
LEMMA CalledJobs ==
    ASSUME Control, NEW j \in Job, Others(j), UNCHANGED <<reports, ended>>,
           job[j].stage = "new", job'[j].stage = "called", job'[j].held = "no",
           job'[j].session \in 1 .. sessions', ended[job'[j].session] = None,
           job'[j].code = None, job'[j].calls = 0,
           Names(job'[j]) = {}, Names(job[j]) = {},
           sessions \in Nat, sessions' \in Nat, sessions <= sessions',
           context' = context
    PROVE  JobsOK' /\ ReportsTellFailures'
<1>1. JobOK(job'[j], sessions')
  BY DEF JobOK
<1>2. \A i \in Job \ {j} : JobOK(job'[i], sessions')
  BY DEF Control, JobsOK, JobOK, Others
<1>3. \A s : Clean(s) <=> Clean(s)'
  BY DEF Clean
<1>4. ~ Clean(job'[j].session)
  BY DEF Clean
<1>5. JobsOK'
  BY <1>1, <1>2, <1>3, <1>4 DEF Control, JobsOK, Others
<1>6. ReportsTellFailures'
  <2> SUFFICES ASSUME NEW s \in Session, NEW e \in Error
               PROVE  (\E i \in Job : job'[i].session = s /\ e \in Names(job'[i]))
                         <=> \E i \in Job : job[i].session = s /\ e \in Names(job[i])
    BY DEF Control, ReportsTellFailures
  <2>1. QED
    BY DEF Others
<1>7. QED
  BY <1>5, <1>6

LEMMA StepInitialize ==
    ASSUME IInv, NEW j \in Job, Initialize(j)
    PROVE  IInv'
<1>0. /\ sessions' = sessions + 1 /\ sessions < MaxSessions /\ NextJob(j)
      /\ app.at = "idle" /\ sessions \in Nat
      /\ UNCHANGED <<context, hold, inst, reg, strays, reports, ended>>
  BY DEF Initialize, Idle, registry, IInv, Control, Types
<1>1. PICK k \in Kind : Call(j, sessions', k, TRUE, "service")
  BY DEF Initialize
<1>2. sessions' \in Session /\ sessions' \in Nat
  BY <1>0
<1>3. /\ app' \in AppRecord /\ app'.at = "get" /\ app'.for = "service"
      /\ app'.session = sessions' /\ app'.job = j
      /\ Others(j) /\ job'[j].stage = "called" /\ job'[j].session = sessions'
      /\ job'[j].code = None /\ job'[j].calls = 0 /\ job'[j].held = "no"
      /\ Names(job'[j]) = {} /\ Names(job[j]) = {}
      /\ job[j].stage = "new"
  BY <1>0, <1>1, <1>2, CallParts DEF IInv
<1>4. ended[sessions'] = None
  BY <1>0, <1>2 DEF IInv, Control, EndedOK
<1>5. JobsOK' /\ ReportsTellFailures'
  BY <1>0, <1>2, <1>3, <1>4, CalledJobs DEF IInv
<1>6. Types'
  BY <1>0, <1>2, <1>3 DEF IInv, Control, Types, Others
<1>7. \A i \in Job : job'[i].session = sessions' => i = j
  BY <1>0, <1>3 DEF IInv, Control, JobsOK, JobOK, Others
<1>8. AppOK'
  BY <1>0, <1>2, <1>3, <1>7 DEF IInv, Control, Types, AppOK, Early
<1>9. EndedOK'
  BY <1>0 DEF IInv, Control, EndedOK
<1>10. HoldOK'
  BY <1>0, <1>3 DEF IInv, Control, HoldOK, Chain, Early
<1>11. RegTypes' /\ RegOK' /\ OneOK' /\ MarkOK' /\ NewerOK'
  BY <1>0, <1>3 DEF IInv, Instances, RegTypes, RegOK, OneOK, MarkOK, NewerOK,
     Chain, Early
<1>12. SentOK'
  BY <1>0, <1>3 DEF IInv, Instances, SentOK
<1>13. PastOK'
  BY <1>0, <1>3 DEF IInv, Instances, PastOK, Past
<1>14. QED
  BY <1>5, <1>6, <1>8, <1>9, <1>10, <1>11, <1>12, <1>13
     DEF IInv, Control, Instances

LEMMA StepUpdateUser ==
    ASSUME IInv, NEW j \in Job, UpdateUser(j)
    PROVE  IInv'
<1>0. /\ NextJob(j) /\ app.at = "idle" /\ context # 0 /\ sessions \in Nat
      /\ UNCHANGED <<context, sessions, hold, inst, reg, strays, reports, ended>>
  BY DEF UpdateUser, Idle, registry, IInv, Control, Types
<1>1. PICK k \in Kind : Call(j, context, k, FALSE, "user")
  BY DEF UpdateUser
<1>2. context = sessions /\ context \in Session
  BY <1>0 DEF IInv, Control, Types, AppOK, Early
<1>3. /\ app' \in AppRecord /\ app'.at = "get" /\ app'.for = "user"
      /\ app'.session = sessions /\ app'.job = j
      /\ Others(j) /\ job'[j].stage = "called" /\ job'[j].session = sessions
      /\ job'[j].code = None /\ job'[j].calls = 0 /\ job'[j].held = "no"
      /\ Names(job'[j]) = {} /\ Names(job[j]) = {}
      /\ job[j].stage = "new"
  BY <1>0, <1>1, <1>2, CallParts DEF IInv
<1>4. ended[sessions] = None
  BY <1>0, <1>2 DEF IInv, Control, EndedOK
<1>5. JobsOK' /\ ReportsTellFailures'
  BY <1>0, <1>2, <1>3, <1>4, CalledJobs DEF IInv
<1>6. Types'
  BY <1>0, <1>3 DEF IInv, Control, Types, Others
<1>7. AppOK'
  BY <1>0, <1>2, <1>3 DEF AppOK, Early, Chain
<1>8. EndedOK'
  BY <1>0, <1>4 DEF IInv, Control, EndedOK
<1>9. HoldOK'
  BY <1>0, <1>3 DEF IInv, Control, HoldOK, Chain, Early
<1>10. RegTypes' /\ RegOK' /\ OneOK' /\ MarkOK' /\ NewerOK'
  BY <1>0, <1>3 DEF IInv, Instances, RegTypes, RegOK, OneOK, MarkOK, NewerOK,
     Chain, Early
<1>11. SentOK'
  BY <1>0, <1>3 DEF IInv, Instances, SentOK
<1>12. PastOK'
  BY <1>0, <1>3 DEF IInv, Instances, PastOK, Past
<1>13. QED
  BY <1>5, <1>6, <1>7, <1>8, <1>9, <1>10, <1>11, <1>12
     DEF IInv, Control, Instances

-----------------------------------------------------------------------------
(* The steps of the application's thread: the instance for a part.         *)

LEMMA GotParts ==
    ASSUME Control, app.at \in {"get", "add"}, NEW i \in Nat \ {0}, Got(i)
    PROVE  /\ app' \in AppRecord /\ app'.session = app.session /\ app'.job = app.job
           /\ hold' \in [Session -> HoldRecord]
           /\ \A s \in Session \ {sessions} : hold'[s] = hold[s]
           /\ \/ /\ app.for = "service" /\ app'.at = "get" /\ app'.for = "logger"
                 /\ UNCHANGED <<hold, context>>
              \/ /\ app.for = "logger" /\ app'.at = "get" /\ app'.for = "adapter"
                 /\ UNCHANGED context /\ hold'[sessions].logger = i
                 /\ hold'[sessions].adapter = hold[sessions].adapter
                 /\ hold'[sessions].init = hold[sessions].init
              \/ /\ app.for = "adapter" /\ app'.at = "get" /\ app'.for = "init"
                 /\ context' = sessions /\ hold'[sessions].adapter = i
                 /\ hold'[sessions].logger = hold[sessions].logger
                 /\ hold'[sessions].init = hold[sessions].init
              \/ /\ app.for = "init" /\ app'.at = "get" /\ app'.for = "user"
                 /\ UNCHANGED context /\ hold'[sessions].init = i
                 /\ hold'[sessions].logger = hold[sessions].logger
                 /\ hold'[sessions].adapter = hold[sessions].adapter
              \/ /\ app.for = "user" /\ app'.at = "lookup"
                 /\ UNCHANGED <<hold, context>>
<1>1. /\ app \in AppRecord /\ hold \in [Session -> HoldRecord]
      /\ app.session = sessions /\ sessions \in Session
      /\ app.for \in {"service", "logger", "adapter", "init", "user"}
  BY DEF Control, Types, AppOK
<1>2. CASE app.for = "service"
  <2>1. app' = [app EXCEPT !.at = "get", !.for = "logger"]
    BY <1>2 DEF Got
  <2>2. QED
    BY <1>1, <1>2, <2>1 DEF Got, AppRecord
<1>3. CASE app.for = "logger"
  <2>1. app' = [app EXCEPT !.at = "get", !.for = "adapter"]
    BY <1>3 DEF Got
  <2>2. hold' = [hold EXCEPT ![sessions].logger = i] /\ context' = context
    BY <1>1, <1>3 DEF Got
  <2>3. /\ app' \in AppRecord /\ app'.session = app.session /\ app'.job = app.job
        /\ app'.at = "get" /\ app'.for = "adapter"
    BY <1>1, <2>1 DEF AppRecord
  <2>4. /\ hold' \in [Session -> HoldRecord]
        /\ \A s \in Session \ {sessions} : hold'[s] = hold[s]
        /\ hold'[sessions].logger = i
        /\ hold'[sessions].adapter = hold[sessions].adapter
        /\ hold'[sessions].init = hold[sessions].init
    BY <1>1, <2>2 DEF HoldRecord
  <2>5. QED
    BY <1>3, <2>2, <2>3, <2>4
<1>4. CASE app.for = "adapter"
  <2>1. app' = [app EXCEPT !.at = "get", !.for = "init"]
    BY <1>4 DEF Got
  <2>2. hold' = [hold EXCEPT ![sessions].adapter = i] /\ context' = sessions
    BY <1>1, <1>4 DEF Got
  <2>3. /\ app' \in AppRecord /\ app'.session = app.session /\ app'.job = app.job
        /\ app'.at = "get" /\ app'.for = "init"
    BY <1>1, <2>1 DEF AppRecord
  <2>4. /\ hold' \in [Session -> HoldRecord]
        /\ \A s \in Session \ {sessions} : hold'[s] = hold[s]
        /\ hold'[sessions].adapter = i
        /\ hold'[sessions].logger = hold[sessions].logger
        /\ hold'[sessions].init = hold[sessions].init
    BY <1>1, <2>2 DEF HoldRecord
  <2>5. QED
    BY <1>4, <2>2, <2>3, <2>4
<1>5. CASE app.for = "init"
  <2>1. app' = [app EXCEPT !.at = "get", !.for = "user"]
    BY <1>5 DEF Got
  <2>2. hold' = [hold EXCEPT ![sessions].init = i] /\ context' = context
    BY <1>1, <1>5 DEF Got
  <2>3. /\ app' \in AppRecord /\ app'.session = app.session /\ app'.job = app.job
        /\ app'.at = "get" /\ app'.for = "user"
    BY <1>1, <2>1 DEF AppRecord
  <2>4. /\ hold' \in [Session -> HoldRecord]
        /\ \A s \in Session \ {sessions} : hold'[s] = hold[s]
        /\ hold'[sessions].init = i
        /\ hold'[sessions].logger = hold[sessions].logger
        /\ hold'[sessions].adapter = hold[sessions].adapter
    BY <1>1, <2>2 DEF HoldRecord
  <2>5. QED
    BY <1>5, <2>2, <2>3, <2>4
<1>6. CASE app.for = "user"
  <2>1. app' = [app EXCEPT !.at = "lookup"]
    BY <1>6 DEF Got
  <2>2. QED
    BY <1>1, <1>6, <2>1 DEF Got, AppRecord
<1>7. QED
  BY <1>1, <1>2, <1>3, <1>4, <1>5, <1>6

LEMMA GotControl ==
    ASSUME Control, app.at \in {"get", "add"}, NEW i \in Nat \ {0}, Got(i),
           UNCHANGED <<sessions, job, reports, ended>>
    PROVE  Control'
<1>1. /\ app.session = sessions /\ sessions # 0 /\ app.job \in Job
      /\ sessions \in Session /\ context \in 0 .. sessions
      /\ job[app.job].stage = "called" /\ job[app.job].session = sessions
      /\ app.for \in {"service", "logger", "adapter", "init", "user"}
  BY DEF Control, Types, AppOK
<1>2. ended[sessions] = None
  BY <1>1 DEF Control, EndedOK
<1>3. Types'
  BY <1>1, GotParts DEF Control, Types
<1>4. Chain' => Chain /\ app'.at = "get" /\ app'.for # "service"
  BY GotParts DEF Chain, Early
<1>5. AppOK'
  <2>1. app'.at \in {"get", "lookup"}
    BY GotParts
  <2>2. app'.at = "get" => app'.for \in {"logger", "adapter", "init", "user"}
    BY GotParts
  <2>3. Chain' => \A j \in Job : job'[j].session = sessions' => job'[j].stage = "called"
    BY <1>4 DEF Control, AppOK
  <2>4. Early' => Early /\ context' = context
    BY GotParts DEF Early
  <2>5. ~ Early' => context' = sessions
    BY <1>1, GotParts DEF Early, Control, AppOK
  <2>6. app'.session = app.session /\ app'.job = app.job
    BY GotParts
  <2>7. (Early' => context' < sessions)
    BY <2>4 DEF Control, AppOK
  <2>8. QED
    BY <1>1, <2>1, <2>2, <2>3, <2>5, <2>6, <2>7 DEF AppOK
<1>6. EndedOK'
  BY <1>2 DEF Control, EndedOK
<1>7. JobsOK'
  <2>1. context' = context \/ (Chain /\ context' = sessions)
    BY GotParts DEF Chain, Early
  <2>2. \A j \in Job : job[j].stage = "dropped" => job[j].session # context'
    BY <2>1 DEF Control, AppOK, JobsOK
  <2>3. \A s : Clean(s) <=> Clean(s)'
    BY DEF Clean
  <2>4. QED
    BY <2>2, <2>3 DEF Control, JobsOK
<1>8. HoldOK'
  <2> SUFFICES ASSUME NEW s \in Session
               PROVE  (/\ s > sessions =>
                            hold[s].logger = 0 /\ hold[s].adapter = 0 /\ hold[s].init = 0
                       /\ s < sessions \/ (s = sessions /\ ~ Chain) =>
                            hold[s].logger # 0 /\ hold[s].adapter # 0 /\ hold[s].init # 0
                       /\ s = sessions /\ Chain =>
                            /\ hold[s].init = 0
                            /\ hold[s].logger = 0 <=> app.for \in {"service", "logger"}
                            /\ hold[s].adapter = 0 <=> app.for # "init")'
    BY DEF HoldOK
  <2>1. CASE s # sessions
    BY <1>1, <2>1, GotParts DEF Control, HoldOK
  <2>2. CASE s = sessions
    BY <1>1, <2>2, GotParts DEF Control, HoldOK, Chain, Early
  <2>3. QED
    BY <2>1, <2>2
<1>9. ReportsTellFailures'
  BY DEF Control, ReportsTellFailures
<1>10. QED
  BY <1>3, <1>5, <1>6, <1>7, <1>8, <1>9 DEF Control

LEMMA StepGetMisses ==
    ASSUME IInv, GetMisses
    PROVE  IInv'
<1>1. /\ app \in AppRecord /\ app.at = "get" /\ reg = 0
      /\ app' = [app EXCEPT !.at = "add"]
      /\ UNCHANGED <<context, sessions, hold, inst, reg, strays, job, reports, ended>>
  BY DEF IInv, Control, Types, GetMisses, registry
<1>2. /\ app' \in AppRecord /\ app'.at = "add" /\ app'.for = app.for
      /\ app'.session = app.session /\ app'.job = app.job
  BY <1>1 DEF AppRecord
<1>3. (Early <=> Early') /\ (Chain <=> Chain')
  BY <1>1, <1>2 DEF Early, Chain
<1>4. app.for \in {"service", "user"}
  BY <1>1 DEF IInv, Control, AppOK, Instances, RegOK, Chain, Early
<1>5. Types' /\ AppOK' /\ EndedOK' /\ HoldOK'
  BY <1>1, <1>2, <1>3 DEF IInv, Control, Types, AppOK, EndedOK, HoldOK
<1>6. JobsOK' /\ ReportsTellFailures'
  BY <1>1 DEF IInv, Control, JobsOK, ReportsTellFailures, Clean
<1>7. RegTypes' /\ RegOK' /\ OneOK' /\ MarkOK' /\ NewerOK'
  BY <1>1, <1>2, <1>3, <1>4
     DEF IInv, Instances, RegTypes, RegOK, OneOK, MarkOK, NewerOK
<1>8. SentOK' /\ PastOK'
  BY <1>1, <1>2 DEF IInv, Instances, SentOK, PastOK, Past
<1>9. QED
  BY <1>5, <1>6, <1>7, <1>8 DEF IInv, Control, Instances

LEMMA StepGetFinds ==
    ASSUME IInv, GetFinds
    PROVE  IInv'
<1>0. /\ app.at = "get" /\ reg # 0 /\ Got(reg)
      /\ UNCHANGED <<sessions, reg, strays, job, reports, ended>>
      /\ inst \in Seq(Instance) /\ hold \in [Session -> HoldRecord]
      /\ Len(inst) \in Nat /\ reg = Len(inst) /\ reg \in Nat \ {0}
  BY LenProperties DEF GetFinds, IInv, Control, Types, Instances, RegTypes
<1>1. /\ app.session = sessions /\ sessions # 0 /\ sessions \in Session
      /\ ended[sessions] = None
  BY <1>0 DEF IInv, Control, Types, AppOK, EndedOK
<1>2. Control'
  BY <1>0, GotControl DEF IInv
<1>3. \* What Initialize does with the instance.
      \/ inst' = inst
      \/ /\ app.for = "init" /\ hold'[sessions].init = reg
         /\ MarkIn(reg, sessions, "OverallStart")
  BY <1>0, <1>1, GotParts DEF GetFinds, IInv
<1>4. /\ inst' \in Seq(Instance) /\ Len(inst') = Len(inst)
      /\ \A k \in 1 .. Len(inst) : \A x \in inst'[k].of :
            \/ x \in inst[k].of
            \/ x[1] = sessions /\ k = hold'[sessions].init
      /\ \A s \in Session \ {sessions} : \A k \in 1 .. Len(inst) :
            <<s, "OverallStart">> \in inst'[k].of => <<s, "OverallStart">> \in inst[k].of
  <2>1. CASE inst' = inst
    BY <1>0, <2>1
  <2>2. CASE /\ app.for = "init" /\ hold'[sessions].init = reg
             /\ MarkIn(reg, sessions, "OverallStart")
    <3>1. reg \in 1 .. Len(inst) /\ "OverallStart" \in Mark
      BY <1>0 DEF Mark
    <3>2. /\ inst' \in Seq(Instance) /\ Len(inst') = Len(inst)
          /\ inst'[reg].of \subseteq inst[reg].of \cup {<<sessions, Kept("OverallStart")>>}
          /\ \A k \in 1 .. Len(inst) : k # reg => inst'[k] = inst[k]
      BY <1>0, <1>1, <2>2, <3>1, MarkParts
    <3>3. QED
      BY <2>2, <3>2
  <2>3. QED
    BY <1>3, <2>1, <2>2
<1>5. /\ app'.at \in {"get", "lookup"}
      /\ Chain' => Chain /\ app'.for \in {"logger", "adapter", "init"}
      /\ \A s \in Session \ {sessions} : hold'[s] = hold[s]
  BY <1>0, GotParts DEF IInv, Chain, Early
<1>6. \A s \in Session : /\ hold[s].logger <= Len(inst)
                         /\ hold[s].adapter <= Len(inst)
                         /\ hold[s].init <= Len(inst)
  BY DEF IInv, Instances, RegTypes
<1>7. \A s \in Session : /\ hold'[s].logger \in {hold[s].logger, reg}
                         /\ hold'[s].adapter \in {hold[s].adapter, reg}
                         /\ hold'[s].init \in {hold[s].init, reg}
  BY <1>0, GotParts DEF IInv
<1>8. RegTypes'
  <2>1. \A s \in Session : /\ hold'[s].logger <= Len(inst')
                           /\ hold'[s].adapter <= Len(inst')
                           /\ hold'[s].init <= Len(inst')
    <3>1. Len(inst') = Len(inst) /\ reg <= Len(inst)
      BY <1>0, <1>4
    <3>2. QED
      BY <1>6, <1>7, <3>1
  <2>2. strays \subseteq 1 .. Len(inst)
    BY DEF IInv, Instances, RegTypes
  <2>3. QED
    BY <1>0, <1>4, <2>1, <2>2 DEF RegTypes
<1>9. \* What Initialize holds so far.
      /\ Chain' => /\ hold'[sessions].init = 0
                   /\ app'.for = "adapter" => hold'[sessions].logger = reg
                   /\ app'.for = "init" => /\ hold'[sessions].adapter = reg
                                           /\ hold'[sessions].logger = hold[sessions].logger
                                           /\ app.for = "adapter"
      /\ Chain => hold[sessions].init = 0
  BY <1>0, <1>1, <1>2, GotParts DEF IInv, Control, HoldOK, Chain, Early
<1>10. RegOK'
  <2>1. Chain' /\ app'.for = "init" => reg \in {hold[sessions].logger} \cup strays
    BY <1>0, <1>5, <1>9 DEF IInv, Instances, RegOK
  <2>2. QED
    BY <1>0, <1>5, <1>9, <2>1 DEF RegOK
<1>11. OneOK'
  <2> SUFFICES ASSUME NEW s \in Session, hold'[s].init # 0
               PROVE  \/ /\ hold'[s].logger = hold'[s].adapter
                         /\ hold'[s].adapter = hold'[s].init
                      \/ hold'[s].adapter \in strays
                      \/ hold'[s].init \in strays
    BY <1>0 DEF OneOK
  <2>1. CASE hold'[s] = hold[s]
    BY <2>1 DEF IInv, Instances, OneOK
  <2>2. CASE hold'[s] # hold[s]
    <3>1. s = sessions
      BY <1>5, <2>2
    <3>2. CASE Chain /\ app.for = "init"
      BY <1>0, <3>1, <3>2, GotParts DEF IInv, Instances, RegOK
    <3>3. CASE ~ (Chain /\ app.for = "init")
      <4>1. Chain
        BY <1>0, <2>2, GotParts DEF IInv, Chain, Early
      <4>2. hold'[s].init = hold[s].init
        BY <1>0, <3>1, <3>3, <4>1, GotParts DEF IInv, Chain, Early
      <4>3. QED
        BY <1>9, <3>1, <4>1, <4>2
    <3>4. QED
      BY <3>2, <3>3
  <2>3. QED
    BY <2>1, <2>2
<1>12. MarkOK'
  <2> SUFFICES ASSUME NEW k \in 1 .. Len(inst), NEW x \in inst'[k].of,
                      x[2] # "ProcessEnd"
               PROVE  k = hold'[x[1]].adapter \/ k = hold'[x[1]].init
    BY <1>4 DEF MarkOK
  <2>1. CASE x \in inst[k].of
    <3>1. k = hold[x[1]].adapter \/ k = hold[x[1]].init
      BY <2>1 DEF IInv, Instances, MarkOK
    <3>2. inst[k] \in Instance
      BY <1>0, ElementOfSeq
    <3>3. x[1] \in Session
      BY <2>1, <3>2 DEF Instance
    <3>4. /\ hold'[x[1]].adapter = hold[x[1]].adapter \/ hold[x[1]].adapter = 0
          /\ hold'[x[1]].init = hold[x[1]].init \/ hold[x[1]].init = 0
      <4>1. CASE x[1] # sessions
        BY <1>5, <3>3, <4>1
      <4>2. CASE x[1] = sessions
        <5>1. Chain => hold[sessions].init = 0
          BY <1>9
        <5>2. Chain /\ app.for = "adapter" => hold[sessions].adapter = 0
          BY <1>1 DEF IInv, Control, HoldOK
        <5>3. QED
          BY <1>0, <4>2, <5>1, <5>2, GotParts DEF IInv, Chain, Early
      <4>3. QED
        BY <4>1, <4>2
    <3>5. QED
      BY <1>0, <3>1, <3>4
  <2>2. CASE x[1] = sessions /\ k = hold'[sessions].init
    BY <2>2
  <2>3. QED
    BY <1>4, <2>1, <2>2
<1>13. SentOK'
  <2> SUFFICES ASSUME NEW s \in Session, ended[s] # None
               PROVE  <<s, "OverallStart">> \notin inst'[hold'[s].logger].of
    BY <1>0, <1>5 DEF SentOK
  <2>1. s \in Session \ {sessions} /\ s < sessions
    BY <1>0, <1>1 DEF IInv, Control, Types, EndedOK
  <2>2. hold'[s] = hold[s] /\ hold[s].logger # 0
    BY <1>5, <2>1 DEF IInv, Control, HoldOK
  <2>3. hold[s].logger \in 1 .. Len(inst)
    <3>1. hold[s].logger \in Nat
      BY <1>0 DEF HoldRecord
    <3>2. hold[s].logger <= Len(inst)
      BY <1>6
    <3>3. QED
      BY <1>0, <2>2, <3>1, <3>2
  <2>4. <<s, "OverallStart">> \notin inst[hold[s].logger].of
    BY DEF IInv, Instances, SentOK
  <2>5. QED
    BY <1>4, <2>1, <2>2, <2>3, <2>4
<1>14. \A s \in Session : Past(s)' => Past(s) /\ s # sessions
  <2> SUFFICES ASSUME NEW s \in Session, Past(s)'
               PROVE  Past(s) /\ s # sessions
    OBVIOUS
  <2>1. PICK t \in Session : s <= t /\ ended[t] # None
    BY <1>0, <1>5 DEF Past
  <2>2. t <= sessions /\ t # sessions
    BY <1>1, <2>1 DEF IInv, Control, EndedOK
  <2>3. QED
    BY <1>1, <2>1, <2>2 DEF Past
<1>15. PastOK'
  BY <1>0, <1>5, <1>14 DEF PastOK, IInv, Instances
<1>16. NewerOK'
  <2> SUFFICES ASSUME NEW s \in Session, NEW t \in Session, NEW v \in Session,
                      s <= v, v < t, ended[v] # None, hold'[t].logger # 0
               PROVE  hold'[s].adapter < hold'[t].logger
                      /\ hold'[s].init < hold'[t].logger
    BY <1>0 DEF NewerOK
  <2>1. v < sessions /\ s # sessions
    BY <1>0, <1>1 DEF IInv, Control, Types, EndedOK
  <2>2. hold'[s] = hold[s]
    BY <1>5, <2>1
  <2>3. CASE hold'[t].logger = hold[t].logger
    BY <2>2, <2>3 DEF IInv, Instances, NewerOK
  <2>4. CASE hold'[t].logger = reg
    <3>1. Past(s)
      BY DEF Past
    <3>2. QED
      BY <1>0, <2>2, <2>4, <3>1 DEF IInv, Instances, PastOK
  <2>5. QED
    BY <1>7, <2>3, <2>4
<1>17. QED
  BY <1>2, <1>8, <1>10, <1>11, <1>12, <1>13, <1>15, <1>16 DEF IInv, Instances

\* A new instance is for the first part or for SetUser, who do not keep it.
LEMMA StepGetAdds ==
    ASSUME IInv, GetAdds
    PROVE  IInv'
<1>0. /\ app.at = "add" /\ app.for \in {"service", "user"}
      /\ UNCHANGED <<sessions, strays, job, reports, ended>>
      /\ inst \in Seq(Instance) /\ hold \in [Session -> HoldRecord]
      /\ Len(inst) \in Nat
  BY LenProperties DEF GetAdds, IInv, Control, Types, Instances, RegTypes, RegOK
<1>1. /\ inst' = Append(inst, Empty) /\ reg' = Len(inst) + 1
      /\ Got(Len(inst) + 1)
  BY <1>0 DEF GetAdds, Add
<1>2. Control'
  BY <1>0, <1>1, GotControl DEF IInv
<1>3. /\ hold' = hold /\ context' = context /\ app'.at \in {"get", "lookup"}
      /\ Chain' => app'.for = "logger"
  BY <1>0, <1>1, GotParts DEF IInv, Chain, Early
<1>4. /\ inst' \in Seq(Instance) /\ Len(inst') = Len(inst) + 1
      /\ inst'[Len(inst) + 1] = Empty
      /\ \A k \in 1 .. Len(inst) : inst'[k] = inst[k]
  BY <1>0, <1>1, EmptyInstance, AppendParts
<1>5. \A s \in Session : /\ hold[s].logger \in Nat /\ hold[s].logger <= Len(inst)
                         /\ hold[s].adapter \in Nat /\ hold[s].adapter <= Len(inst)
                         /\ hold[s].init \in Nat /\ hold[s].init <= Len(inst)
  BY <1>0 DEF HoldRecord, IInv, Instances, RegTypes
<1>6. RegTypes'
  <2>1. strays' \subseteq 1 .. Len(inst')
    BY <1>0, <1>4 DEF IInv, Instances, RegTypes
  <2>2. \A s \in Session : /\ hold'[s].logger <= Len(inst')
                           /\ hold'[s].adapter <= Len(inst')
                           /\ hold'[s].init <= Len(inst')
    BY <1>0, <1>3, <1>4, <1>5
  <2>3. QED
    BY <1>1, <1>4, <2>1, <2>2 DEF RegTypes
<1>7. RegOK' /\ OneOK' /\ NewerOK'
  BY <1>0, <1>1, <1>3 DEF IInv, Instances, RegOK, OneOK, NewerOK
<1>8. PastOK'
  <2>1. \A s \in Session : hold'[s].adapter < reg' /\ hold'[s].init < reg'
    BY <1>0, <1>1, <1>3, <1>5
  <2>2. QED
    BY <2>1 DEF PastOK
<1>9. MarkOK'
  <2> SUFFICES ASSUME NEW k \in 1 .. Len(inst) + 1, NEW x \in inst'[k].of,
                      x[2] # "ProcessEnd"
               PROVE  k = hold[x[1]].adapter \/ k = hold[x[1]].init
    BY <1>3, <1>4 DEF MarkOK
  <2>1. CASE k = Len(inst) + 1
    BY <1>4, <2>1, EmptyInstance
  <2>2. CASE k \in 1 .. Len(inst)
    BY <1>4, <2>2 DEF IInv, Instances, MarkOK
  <2>3. QED
    BY <1>0, <2>1, <2>2
<1>10. SentOK'
  <2> SUFFICES ASSUME NEW t \in Session, ended[t] # None
               PROVE  <<t, "OverallStart">> \notin inst'[hold[t].logger].of
    BY <1>0, <1>3 DEF SentOK
  <2>1. <<t, "OverallStart">> \notin inst[hold[t].logger].of
    BY DEF IInv, Instances, SentOK
  <2>2. hold[t].logger # 0
    BY <1>0 DEF IInv, Control, HoldOK, EndedOK, Types
  <2>3. hold[t].logger \in 1 .. Len(inst)
    BY <1>0, <1>5, <2>2
  <2>4. QED
    BY <1>4, <2>1, <2>3
<1>11. QED
  BY <1>2, <1>6, <1>7, <1>8, <1>9, <1>10 DEF IInv, Instances

-----------------------------------------------------------------------------
(* The steps of the application's thread: the end of a call.               *)

\* What the call has come to is told, and the thread returns or marks the end.
LEMMA LookedUp ==
    ASSUME IInv, app.at = "lookup", NEW j \in Job, j = app.job, Others(j),
           job'[j].session = sessions, job'[j].kind = job[j].kind,
           JobOK(job'[j], sessions),
           job'[j].stage \in {"queued", "done"},
           NEW names \in SUBSET Error, LogErrors(sessions, names),
           Names(job'[j]) = names,
           app' \in AppRecord, app'.at \in {"end", "idle"},
           app'.at = "end" => app'.session = sessions,
           UNCHANGED <<context, sessions, hold, registry, ended>>
    PROVE  IInv'
<1>1. /\ job[j].stage = "called" /\ job[j].session = sessions
      /\ sessions \in Session /\ ended[sessions] = None
      /\ sessions # 0 /\ context = sessions /\ JobOK(job[j], sessions)
  BY DEF IInv, Control, Types, AppOK, EndedOK, JobsOK, Early
<1>2. Names(job[j]) = {}
  BY <1>1 DEF JobOK, Names, Reported, Error
<1>3. reports' \in [Session -> [Error -> {0, 1}]] /\ ReportsTellFailures'
  BY <1>1, <1>2, LoggedErrors DEF IInv
<1>4. ~ Early /\ ~ Early' /\ ~ Chain /\ ~ Chain'
  BY DEF Early, Chain
<1>5. Types' /\ EndedOK' /\ HoldOK'
  BY <1>1, <1>3, <1>4 DEF IInv, Control, Types, EndedOK, HoldOK, Others
<1>6. AppOK'
  BY <1>1, <1>4 DEF AppOK
<1>7. JobsOK'
  <2>1. (\A s : Clean(s) <=> Clean(s)') /\ ~ Clean(sessions)
    BY <1>1 DEF Clean
  <2>2. QED
    BY <2>1 DEF IInv, Control, JobsOK, Others
<1>8. Instances'
  BY InstancesStay DEF IInv, Aside, registry
<1>9. QED
  BY <1>3, <1>5, <1>6, <1>7, <1>8 DEF IInv, Control

LEMMA StepLookup ==
    ASSUME IInv, Lookup
    PROVE  IInv'
<1> DEFINE j == app.job
           c == job[j]
<1>1. /\ j \in Job /\ c.stage = "called" /\ c.session = sessions
      /\ app.session = sessions /\ sessions \in 0 .. MaxSessions
      /\ sessions # 0 /\ app.at = "lookup" /\ JobOK(c, sessions) /\ c \in JobRecord
      /\ job \in [Job -> JobRecord] /\ app \in AppRecord
  BY DEF Lookup, IInv, Control, Types, AppOK, JobsOK
<1>2. PICK found \in {"Ok", "JsonFailureDataAdapterResult"} :
         LET code == IF c.kind = "sync" THEN found ELSE None IN
         /\ job' = [job EXCEPT ![j].stage = "queued", ![j].code = code]
         /\ LogErrors(sessions, Reported(code))
  BY <1>1 DEF Lookup
<1> DEFINE code == IF c.kind = "sync" THEN found ELSE None
<1>3. code \in Code /\ (c.kind # "sync" => code = None) /\ code # "exception"
  BY DEF Code, Error
<1>4. job' = [job EXCEPT ![j].stage = "queued", ![j].code = code]
      /\ LogErrors(sessions, Reported(code))
  BY <1>2
<1>5. /\ app' = IF c.kind = "sync" /\ c.init THEN [app EXCEPT !.at = "end"] ELSE Idle
      /\ UNCHANGED <<context, sessions, hold, registry, ended>>
  BY DEF Lookup
<1> HIDE DEF code, j
<1>6. /\ Others(j) /\ job'[j].stage = "queued" /\ job'[j].code = code
      /\ job'[j].session = sessions /\ job'[j].kind = job[j].kind
      /\ job'[j].calls = job[j].calls
  BY <1>1, <1>3, <1>4 DEF Others, JobRecord, Stage
<1>7. Names(job'[j]) = Reported(code) /\ Reported(code) \in SUBSET Error
  BY <1>3, <1>6 DEF Names, Reported
<1>8. JobOK(job'[j], sessions)
  BY <1>1, <1>3, <1>6 DEF JobOK
<1>9. /\ app' \in AppRecord /\ app'.at \in {"end", "idle"}
      /\ app'.at = "end" => app'.session = sessions
  <2>1. CASE c.kind = "sync" /\ c.init
    BY <1>1, <1>5, <2>1 DEF AppRecord
  <2>2. CASE ~ (c.kind = "sync" /\ c.init)
    BY <1>5, <2>2 DEF AppRecord, Idle
  <2>3. QED
    BY <2>1, <2>2
<1>10. QED
  BY <1>1, <1>4, <1>5, <1>6, <1>7, <1>8, <1>9, LookedUp DEF j

LEMMA StepLookupThrows ==
    ASSUME IInv, LookupThrows
    PROVE  IInv'
<1> DEFINE j == app.job
           c == job[j]
           calls == IF c.kind = "async" THEN 1 ELSE 0
           names == {"exception"} \cup
                    IF c.kind = "sync" /\ c.init THEN {"UnexpectedError"} ELSE {}
<1>1. /\ j \in Job /\ c.stage = "called" /\ c.session = sessions
      /\ app.session = sessions /\ sessions \in 0 .. MaxSessions
      /\ sessions # 0 /\ app.at = "lookup" /\ JobOK(c, sessions) /\ c \in JobRecord
      /\ job \in [Job -> JobRecord] /\ app \in AppRecord
  BY DEF LookupThrows, IInv, Control, Types, AppOK, JobsOK
<1>2. job' = [job EXCEPT ![j].stage = "done", ![j].code = "exception",
                         ![j].calls = calls]
      /\ LogErrors(sessions, names)
  BY <1>1 DEF LookupThrows
<1>3. calls \in Nat /\ names \in SUBSET Error
  BY DEF Error
<1>4. /\ app' = IF c.init THEN [app EXCEPT !.at = "end"] ELSE Idle
      /\ UNCHANGED <<context, sessions, hold, registry, ended>>
  BY DEF LookupThrows
<1> HIDE DEF j, calls
<1>5. /\ Others(j) /\ job'[j].stage = "done" /\ job'[j].code = "exception"
      /\ job'[j].session = sessions /\ job'[j].kind = job[j].kind
      /\ (job'[j].init <=> job[j].init) /\ job'[j].calls = calls
  BY <1>1, <1>2, <1>3 DEF Others, JobRecord, Stage, Code, Error
<1>6. Names(job'[j]) = names
  BY <1>5 DEF Names, Reported, Error
<1>7. JobOK(job'[j], sessions)
  BY <1>1, <1>5 DEF JobOK, calls
<1>8. /\ app' \in AppRecord /\ app'.at \in {"end", "idle"}
      /\ app'.at = "end" => app'.session = sessions
  <2>1. CASE c.init
    BY <1>1, <1>4, <2>1 DEF AppRecord
  <2>2. CASE ~ c.init
    BY <1>4, <2>2 DEF AppRecord, Idle
  <2>3. QED
    BY <2>1, <2>2
<1> HIDE DEF names
<1>9. QED
  BY <1>1, <1>2, <1>3, <1>4, <1>5, <1>6, <1>7, <1>8, LookedUp DEF j

\* The thread goes on with no part to get.
LEMMA MovedControl ==
    ASSUME Control, app.at \in {"idle", "end", "remove"}, context # 0,
           app' \in AppRecord, app'.at \in {"idle", "remove", "pool"},
           UNCHANGED <<context, sessions, hold, job, reports, ended>>
    PROVE  Control'
<1>1. ~ Early /\ ~ Early' /\ ~ Chain /\ ~ Chain'
  BY DEF Early, Chain
<1>2. context = sessions /\ Types' /\ AppOK'
  BY <1>1 DEF Control, Types, AppOK
<1>3. EndedOK' /\ HoldOK'
  BY <1>1 DEF Control, EndedOK, HoldOK
<1>4. JobsOK' /\ ReportsTellFailures'
  BY DEF Control, JobsOK, Clean, ReportsTellFailures
<1>5. QED
  BY <1>2, <1>3, <1>4 DEF Control

LEMMA StepInitializeEnds ==
    ASSUME IInv, InitializeEnds
    PROVE  IInv'
<1>1. /\ app.at = "end" /\ app.session = sessions /\ sessions \in Session
      /\ app' = Idle /\ app'.at = "idle" /\ ~ Chain /\ ~ Early
      /\ UNCHANGED <<context, sessions, hold, reg, strays, job, reports, ended>>
  BY DEF InitializeEnds, Idle, IInv, Control, Types, AppOK, Chain, Early
<1>2. Control'
  <2>1. context # 0
    BY <1>1 DEF IInv, Control, AppOK
  <2>2. Idle \in AppRecord
    BY DEF Idle, AppRecord
  <2>3. QED
    BY <1>1, <2>1, <2>2, MovedControl DEF IInv
<1>3. hold[sessions].init \in 1 .. Len(inst)
  <2>1. hold[sessions].init # 0
    BY <1>1 DEF IInv, Control, HoldOK
  <2>2. hold[sessions].init \in Nat /\ hold[sessions].init <= Len(inst)
    BY <1>1 DEF IInv, Control, Types, HoldRecord, Instances, RegTypes
  <2>3. Len(inst) \in Nat
    BY LenProperties DEF IInv, Instances, RegTypes
  <2>4. QED
    BY <2>1, <2>2, <2>3
<1>4. MarkIn(hold[sessions].init, sessions, "OverallEnd")
  BY <1>1 DEF InitializeEnds
<1>5. Instances'
  BY <1>1, <1>3, <1>4, MarkedInstances DEF IInv, Aside, Mark
<1>6. QED
  BY <1>2, <1>5 DEF IInv

-----------------------------------------------------------------------------
(* The steps of the application's thread: Flush and Shutdown.              *)

\* The logger of the context sends the markers there are.
LEMMA SentInstances ==
    ASSUME IInv, app.at = "idle", context # 0, AppendEvent(hold[context].logger),
           app'.at \in {"idle", "remove"},
           UNCHANGED <<context, sessions, hold, reg, strays, ended>>
    PROVE  Instances'
<1> DEFINE i == hold[context].logger
<1>1. /\ context = sessions /\ context \in Session
      /\ inst \in Seq(Instance) /\ Len(inst) \in Nat
  BY LenProperties
     DEF IInv, Control, Types, AppOK, Early, Instances, RegTypes
<1>2. i \in 1 .. Len(inst)
  <2>1. i # 0
    BY <1>1 DEF IInv, Control, HoldOK, Chain, Early
  <2>2. i \in Nat /\ i <= Len(inst)
    BY <1>1 DEF IInv, Control, Types, HoldRecord, Instances, RegTypes
  <2>3. QED
    BY <1>1, <2>1, <2>2
<1>3. inst' = [inst EXCEPT ![i] = Empty]
  BY DEF AppendEvent
<1> HIDE DEF i
<1>4. /\ inst' \in Seq(Instance) /\ Len(inst') = Len(inst)
      /\ inst'[i].of = {}
      /\ \A k \in 1 .. Len(inst) : inst'[k].of \subseteq inst[k].of
  BY <1>1, <1>2, <1>3, EmptyInstance, ExceptSeq
<1>5. ~ Chain' /\ (\A s : Past(s)' <=> Past(s))
  BY DEF Chain, Early, Past
<1>6. RegTypes' /\ RegOK' /\ OneOK' /\ PastOK' /\ NewerOK'
  BY <1>4, <1>5 DEF IInv, Instances, RegTypes, RegOK, OneOK, PastOK, NewerOK
<1>7. MarkOK'
  BY <1>4 DEF IInv, Instances, MarkOK
<1>8. SentOK'
  <2> SUFFICES ASSUME NEW s \in Session, ended[s] # None \/ s = context
               PROVE  <<s, "OverallStart">> \notin inst'[hold[s].logger].of
    BY DEF SentOK
  <2>1. CASE s = context
    BY <1>4, <2>1 DEF i
  <2>2. CASE s # context
    <3>1. hold[s].logger # 0
      BY <1>1, <2>2 DEF IInv, Control, HoldOK, EndedOK, Types
    <3>2. hold[s].logger \in Nat /\ hold[s].logger <= Len(inst)
      BY DEF IInv, Control, Types, HoldRecord, Instances, RegTypes
    <3>3. hold[s].logger \in 1 .. Len(inst)
      BY <1>1, <3>1, <3>2
    <3>4. <<s, "OverallStart">> \notin inst[hold[s].logger].of
      BY <2>2 DEF IInv, Instances, SentOK
    <3>5. QED
      BY <1>4, <3>3, <3>4
  <2>3. QED
    BY <2>1, <2>2
<1>9. QED
  BY <1>6, <1>7, <1>8 DEF Instances

LEMMA StepFlush ==
    ASSUME IInv, Flush
    PROVE  IInv'
<1>1. /\ app.at = "idle" /\ app \in AppRecord
      /\ UNCHANGED <<app, context, sessions, hold, reg, strays, job, reports, ended>>
  BY DEF Flush, Idle, IInv, Control, Types
<1>2. Control'
  BY <1>1, MovedControl DEF IInv, Flush
<1>3. Instances'
  BY <1>1, SentInstances DEF Flush
<1>4. QED
  BY <1>2, <1>3 DEF IInv

LEMMA StepShutdown ==
    ASSUME IInv, Shutdown
    PROVE  IInv'
<1>1. /\ app.at = "idle" /\ app' \in AppRecord /\ app'.at = "remove"
      /\ UNCHANGED <<context, sessions, hold, reg, strays, job, reports, ended>>
  BY DEF Shutdown, Step, Idle, AppRecord
<1>2. Control'
  BY <1>1, MovedControl DEF IInv, Shutdown
<1>3. Instances'
  BY <1>1, SentInstances DEF Shutdown
<1>4. QED
  BY <1>2, <1>3 DEF IInv

LEMMA StepRemove ==
    ASSUME IInv, Remove
    PROVE  IInv'
<1>1. /\ app.at = "remove" /\ app' \in AppRecord /\ app'.at = "pool" /\ reg' = 0
      /\ UNCHANGED <<context, sessions, hold, inst, strays, job, reports, ended>>
  BY DEF Remove, Step, Idle, AppRecord
<1>2. Control'
  BY <1>1, MovedControl DEF IInv, Control, AppOK, Early
<1>3. ~ Chain'
  BY <1>1 DEF Chain, Early
<1>4. RegTypes' /\ RegOK' /\ OneOK' /\ MarkOK' /\ PastOK' /\ NewerOK'
  BY <1>1, <1>3
     DEF IInv, Instances, RegTypes, RegOK, OneOK, MarkOK, PastOK, NewerOK
<1>5. SentOK'
  BY <1>1 DEF IInv, Instances, SentOK
<1>6. QED
  BY <1>2, <1>4, <1>5 DEF IInv, Instances

\* AsyncHelper::Shutdown ends the session, with or without work left behind.
LEMMA Stopped ==
    ASSUME IInv, app.at = "pool", NEW how \in {"clean", "timeout"},
           ended' = [ended EXCEPT ![context] = how], Step("reset"),
           UNCHANGED <<context, sessions, hold, registry, job, reports>>,
           how = "clean" /\ (\A t \in 1 .. context - 1 : ended[t] # "timeout")
              => \A j \in Job : Over(j)
    PROVE  IInv'
<1>1. /\ context = sessions /\ context \in Session /\ context # 0
      /\ ended \in [Session -> {None, "clean", "timeout"}]
      /\ sessions \in 0 .. MaxSessions
  BY DEF IInv, Control, Types, AppOK, Early
<1>2. /\ app' \in AppRecord /\ app'.at = "reset" /\ ~ Chain /\ ~ Early
      /\ ~ Chain' /\ ~ Early'
  BY DEF Step, Idle, AppRecord, Chain, Early
<1>3. /\ ended' \in [Session -> {None, "clean", "timeout"}] /\ ended'[context] = how
      /\ \A t \in Session \ {context} : ended'[t] = ended[t]
  BY <1>1
<1>4. Types' /\ AppOK' /\ EndedOK' /\ HoldOK' /\ ReportsTellFailures'
  <2>1. Types'
    BY <1>2, <1>3 DEF IInv, Control, Types
  <2>2. AppOK'
    BY <1>1, <1>2 DEF IInv, Control, AppOK
  <2>3. EndedOK'
    BY <1>1, <1>2, <1>3 DEF IInv, Control, EndedOK
  <2>4. HoldOK' /\ ReportsTellFailures'
    BY <1>2 DEF IInv, Control, HoldOK, ReportsTellFailures
  <2>5. QED
    BY <2>1, <2>2, <2>3, <2>4
<1>5. JobsOK'
  <2> SUFFICES ASSUME NEW j \in Job, job[j].kind = "async", job[j].session # 0,
                      Clean(job[j].session)'
               PROVE  job[j].stage \in {"done", "swallowed"}
    BY DEF IInv, Control, JobsOK
  <2>1. job[j].session \in 1 .. sessions /\ job[j].stage # "new"
    BY DEF IInv, Control, JobsOK, JobOK
  <2>2. CASE job[j].session = context
    <3>1. how = "clean"
      BY <1>3, <2>2 DEF Clean
    <3>2. \A t \in 1 .. context - 1 : ended[t] # "timeout"
      BY <1>1, <1>3, <2>2 DEF Clean
    <3>3. Over(j)
      BY <3>1, <3>2
    <3>4. job[j].stage # "dropped"
      BY <2>2 DEF IInv, Control, JobsOK
    <3>5. QED
      BY <2>1, <3>3, <3>4 DEF Over
  <2>3. CASE job[j].session # context
    <3>1. Clean(job[j].session)
      BY <1>1, <1>3, <2>1, <2>3 DEF Clean
    <3>2. QED
      BY <3>1 DEF IInv, Control, JobsOK
  <2>4. QED
    BY <2>2, <2>3
<1>6. RegTypes' /\ RegOK' /\ OneOK' /\ MarkOK'
  BY <1>2 DEF IInv, Instances, RegTypes, RegOK, OneOK, MarkOK, registry
<1>7. SentOK'
  BY <1>2, <1>3 DEF IInv, Instances, SentOK, registry
<1>8. PastOK'
  <2>1. \A s \in Session : Past(s)' => Past(s)
    BY <1>1, <1>2, <1>3 DEF Past
  <2>2. QED
    BY <2>1 DEF IInv, Instances, PastOK, registry
<1>9. NewerOK'
  <2> SUFFICES ASSUME NEW s \in Session, NEW t \in Session, NEW v \in Session,
                      s <= v, v < t, ended'[v] # None, hold[t].logger # 0
               PROVE  hold[s].adapter < hold[t].logger /\ hold[s].init < hold[t].logger
    BY DEF NewerOK
  <2>1. v # context
    BY <1>1 DEF IInv, Control, HoldOK
  <2>2. QED
    BY <1>3, <2>1 DEF IInv, Instances, NewerOK
<1>10. QED
  BY <1>4, <1>5, <1>6, <1>7, <1>8, <1>9 DEF IInv, Control, Instances

LEMMA StepStopClean ==
    ASSUME IInv, StopClean
    PROVE  IInv'
<1>1. (\A t \in 1 .. context - 1 : ended[t] # "timeout") => ~ TimedOut
  BY DEF TimedOut, StopClean, IInv, Control, Types, AppOK, Early, EndedOK
<1>2. QED
  BY <1>1, Stopped DEF StopClean

LEMMA StepStopTimesOut ==
    ASSUME IInv, StopTimesOut
    PROVE  IInv'
BY Stopped DEF StopTimesOut

LEMMA StepResetContext ==
    ASSUME IInv, ResetContext
    PROVE  IInv'
<1>1. /\ app.at = "reset" /\ app' \in AppRecord /\ app'.at = "idle" /\ context' = 0
      /\ UNCHANGED <<sessions, hold, inst, reg, strays, job, reports, ended>>
  BY DEF ResetContext, Idle, AppRecord, registry
<1>2. ~ Chain /\ ~ Chain' /\ ~ Early'
  BY <1>1 DEF Chain, Early
<1>3. Types' /\ AppOK' /\ EndedOK' /\ HoldOK' /\ ReportsTellFailures'
  BY <1>1, <1>2
     DEF IInv, Control, Types, AppOK, EndedOK, HoldOK, ReportsTellFailures
<1>4. JobsOK'
  BY <1>1 DEF IInv, Control, JobsOK, JobOK, Clean
<1>5. RegTypes' /\ RegOK' /\ OneOK' /\ MarkOK' /\ NewerOK'
  BY <1>1, <1>2 DEF IInv, Instances, RegTypes, RegOK, OneOK, MarkOK, NewerOK
<1>6. SentOK' /\ PastOK'
  BY <1>1 DEF IInv, Instances, SentOK, PastOK, Past
<1>7. QED
  BY <1>3, <1>4, <1>5, <1>6 DEF IInv, Control, Instances

-----------------------------------------------------------------------------
(* The invariant holds, and what it says of the properties.                *)

LEMMA InitIInv == Init => IInv
<1> SUFFICES ASSUME Init
             PROVE  IInv
  OBVIOUS
<1> USE DEF Init
<1>1. app.at = "idle" /\ ~ Early /\ ~ Chain
  BY DEF Idle, Early, Chain
<1>2. Types
  <2>1. app \in AppRecord
    BY DEF Idle, AppRecord
  <2>2. NewJob \in JobRecord
    <3>1. /\ "new" \in Stage /\ None \in Code /\ 0 \in Nat /\ 0 \in 0 .. MaxSessions
          /\ None \in {None, "sync", "async"}
      BY DEF Stage, Code
    <3>2. QED
      BY <3>1, Zenon DEF NewJob, JobRecord
  <2>3. job \in [Job -> JobRecord]
    BY <2>2
  <2>4. hold \in [Session -> HoldRecord]
    BY DEF HoldRecord
  <2>5. reports \in [Session -> [Error -> {0, 1}]]
        /\ ended \in [Session -> {None, "clean", "timeout"}]
    OBVIOUS
  <2>6. context \in 0 .. sessions /\ sessions \in 0 .. MaxSessions
    OBVIOUS
  <2>7. QED
    BY <2>1, <2>3, <2>4, <2>5, <2>6, Zenon DEF Types
<1>3. AppOK /\ EndedOK /\ HoldOK
  BY <1>1 DEF AppOK, EndedOK, HoldOK
<1>4. JobsOK /\ ReportsTellFailures
  BY DEF JobsOK, JobOK, NewJob, ReportsTellFailures, Names, Reported, Error
<1>5. RegTypes /\ RegOK /\ OneOK /\ MarkOK
  BY <1>1, EmptySeq DEF RegTypes, RegOK, OneOK, MarkOK
<1>6. SentOK /\ PastOK /\ NewerOK
  BY <1>1 DEF SentOK, PastOK, NewerOK
<1>7. QED
  BY <1>2, <1>3, <1>4, <1>5, <1>6 DEF IInv, Control, Instances

LEMMA StepIInv == IInv /\ [Next]_vars => IInv'
<1> SUFFICES ASSUME IInv, [Next]_vars
             PROVE  IInv'
  OBVIOUS
<1>1. CASE \E j \in Job : Work(j)
  <2> PICK j \in Job : Work(j)
    BY <1>1
  <2>1. QED
    BY StepStart, StepRequest, StepRespond, StepProcess, StepUnparsed,
       StepFetchThrows, StepReturn, StepWrite, StepEndFinds, StepEndMisses,
       StepEndAdds, StepCallBack, StepNoCallBack, StepRefreshed
       DEF Work
<1>2. CASE Calls
  BY <1>2, StepInitialize, StepUpdateUser, StepGetFinds, StepGetMisses,
     StepGetAdds, StepLookup, StepLookupThrows, StepInitializeEnds, StepFlush,
     StepShutdown, StepRemove, StepStopClean, StepStopTimesOut, StepResetContext
     DEF Calls
<1>3. CASE UNCHANGED vars
  <2>1. UNCHANGED <<app, context, sessions, hold, inst, reg, strays, job, reports, ended>>
    BY <1>3 DEF vars, registry
  <2>2. Types' /\ AppOK' /\ EndedOK' /\ HoldOK' /\ JobsOK' /\ ReportsTellFailures'
    BY <2>1 DEF IInv, Control, Types, AppOK, EndedOK, HoldOK, JobsOK, Clean,
       Early, Chain, ReportsTellFailures
  <2>3. Instances'
    BY <2>1, InstancesStay DEF IInv, Aside
  <2>4. QED
    BY <2>2, <2>3 DEF IInv, Control
<1>4. QED
  BY <1>1, <1>2, <1>3 DEF Next

LEMMA Inductive == Spec => []IInv
BY InitIInv, StepIInv, PTL DEF Spec

\* Every variable has its type, and no instance gets more than one marker
\* above kMaxDiagnosticsMarkers (Diagnostics::Mark).
THEOREM TypeCorrect == Spec => []TypeOK
<1>1. IInv => TypeOK
  <2> SUFFICES ASSUME IInv
               PROVE  TypeOK
    OBVIOUS
  <2>1. /\ inst \in Seq(Instance) /\ Len(inst) \in Nat
        /\ reg \in {0, Len(inst)} /\ strays \subseteq 1 .. Len(inst)
    BY LenProperties DEF IInv, Instances, RegTypes
  <2>2. \A i \in 1 .. Len(inst) : /\ inst[i].size \in 0 .. MaxMarkers + 1
                                  /\ inst[i].of \subseteq Session \X {Kept(m) : m \in Mark}
    <3> SUFFICES ASSUME NEW i \in 1 .. Len(inst)
                 PROVE  /\ inst[i].size \in 0 .. MaxMarkers + 1
                        /\ inst[i].of \subseteq Session \X {Kept(m) : m \in Mark}
      OBVIOUS
    <3>1. inst[i] \in Instance
      BY <2>1, ElementOfSeq
    <3>2. {"OverallStart", "ProcessEnd", "other"} \subseteq {Kept(m) : m \in Mark}
      BY DEF Kept, Mark
    <3>3. QED
      BY <3>1, <3>2 DEF Instance
  <2>3. \A s \in Session : /\ hold[s].logger \in 0 .. Len(inst)
                           /\ hold[s].adapter \in 0 .. Len(inst)
                           /\ hold[s].init \in 0 .. Len(inst)
    BY <2>1 DEF IInv, Control, Types, HoldRecord, Instances, RegTypes
  <2>4. \A s \in Session, w \in {"logger", "adapter", "init"} :
           hold[s][w] \in 0 .. Len(inst)
    BY <2>3
  <2>5. \A j \in Job : /\ job[j].session \in 0 .. MaxSessions
                       /\ job[j].held \in {"no", "task", "fetch"}
    BY DEF IInv, Control, Types, JobRecord
  <2>6. reports \in [Session -> [Error -> Nat]]
    <3>1. reports \in [Session -> [Error -> {0, 1}]]
      BY DEF IInv, Control, Types
    <3>2. [Session -> [Error -> {0, 1}]] \subseteq [Session -> [Error -> Nat]]
      OBVIOUS
    <3>3. QED
      BY <3>1, <3>2, Zenon
  <2>7. reg \in 0 .. Len(inst)
    BY <2>1
  <2>8. QED
    BY <2>1, <2>2, <2>4, <2>5, <2>6, <2>7 DEF TypeOK, IInv, Control, Types
<1>2. QED
  BY <1>1, Inductive, PTL

\* The logger of a context, the adapter's requests and Initialize use one
\* Diagnostics instance, although each gets it for itself, unless work that
\* outlived a session registered one in between (Diagnostics::Get).
THEOREM PartsShareDiagnostics == Spec => []OneDiagnostics
<1>1. IInv => OneDiagnostics
  <2> SUFFICES ASSUME IInv, NEW s \in Session,
                      0 \notin {hold[s].logger, hold[s].adapter, hold[s].init},
                      {hold[s].logger, hold[s].adapter, hold[s].init} \cap strays = {}
               PROVE  Cardinality({hold[s].logger, hold[s].adapter, hold[s].init}) = 1
    BY DEF OneDiagnostics
  <2>1. hold[s].logger = hold[s].adapter /\ hold[s].adapter = hold[s].init
    BY DEF IInv, Instances, OneOK
  <2>2. {hold[s].logger, hold[s].adapter, hold[s].init} = {hold[s].logger}
    BY <2>1
  <2>3. QED
    BY <2>2, FS_Singleton
<1>2. QED
  BY <1>1, Inductive, PTL

\* A later session reports no marker of a session that a Shutdown has ended,
\* but for the ProcessEnd of work that outlived it (StatsigClient::Shutdown,
\* EventLogger::Flush).
THEOREM SessionsReportTheirOwn == Spec => []NoForeignMarkers
<1>1. IInv => NoForeignMarkers
  <2> SUFFICES ASSUME IInv, context # 0, NEW x \in inst[hold[context].logger].of,
                      NEW v \in x[1] .. context - 1, ended[v] # None,
                      x[2] # "ProcessEnd"
               PROVE  FALSE
    BY DEF NoForeignMarkers
  <2>1. /\ context \in Session /\ context <= sessions
        /\ inst \in Seq(Instance) /\ Len(inst) \in Nat
    BY LenProperties DEF IInv, Control, Types, Instances, RegTypes
  <2>2. hold[context].logger \in 1 .. Len(inst)
    <3>1. hold[context].logger # 0
      BY <2>1 DEF IInv, Control, Types, AppOK, HoldOK, Chain, Early
    <3>2. hold[context].logger \in Nat /\ hold[context].logger <= Len(inst)
      BY <2>1 DEF IInv, Control, Types, HoldRecord, Instances, RegTypes
    <3>3. QED
      BY <2>1, <3>1, <3>2
  <2>3. x[1] \in Session
    <3>1. inst[hold[context].logger] \in Instance
      BY <2>1, <2>2, ElementOfSeq
    <3>2. QED
      BY <3>1 DEF Instance
  <2>4. \/ hold[context].logger = hold[x[1]].adapter
        \/ hold[context].logger = hold[x[1]].init
    BY <2>2 DEF IInv, Instances, MarkOK
  <2>5. v \in Session /\ x[1] <= v /\ v < context /\ hold[context].logger # 0
    BY <2>1, <2>2, <2>3
  <2>6. /\ hold[x[1]].adapter < hold[context].logger
        /\ hold[x[1]].init < hold[context].logger
    BY <2>1, <2>3, <2>5 DEF IInv, Instances, NewerOK
  <2>7. hold[context].logger \in Nat
    BY <2>1, <2>2
  <2>8. QED
    BY <2>4, <2>6, <2>7
<1>2. QED
  BY <1>1, Inductive, PTL

\* Shutdown leaves none of Initialize's markers in the instance that the
\* logger flushes (EventLogger::Flush before Diagnostics::Shutdown).
THEOREM ShutdownSendsDiagnostics == Spec => []DiagnosticsSent
<1>1. IInv => DiagnosticsSent
  BY DEF DiagnosticsSent, IInv, Instances, SentOK
<1>2. QED
  BY <1>1, Inductive, PTL

\* No callback of an async call comes twice, and each has come when Shutdown
\* says it was clean, unless the file system threw into a worker or an earlier
\* Shutdown gave up on threads (AsyncHelper::Shutdown, UpdateUserAsync).
THEOREM CallbacksComeOnce == Spec => []AnsweredOnce
<1>1. IInv => AnsweredOnce
  <2> SUFFICES ASSUME IInv, NEW j \in Job
               PROVE  /\ job[j].calls <= 1
                      /\ /\ job[j].kind = "async" /\ job[j].session # 0
                         /\ ended[job[j].session] = "clean"
                         /\ \A t \in 1 .. job[j].session - 1 : ended[t] # "timeout"
                         => job[j].calls = 1 \/ job[j].stage = "swallowed"
    BY DEF AnsweredOnce
  <2>1. job[j].calls = IF job[j].kind = "async" /\ job[j].stage = "done" THEN 1 ELSE 0
    BY DEF IInv, Control, JobsOK, JobOK
  <2>2. job[j].kind = "async" /\ job[j].session # 0 /\ Clean(job[j].session)
           => job[j].stage \in {"done", "swallowed"}
    BY DEF IInv, Control, JobsOK
  <2>3. QED
    BY <2>1, <2>2 DEF Clean
<1>2. QED
  BY <1>1, Inductive, PTL

\* Each error that a context has told the application of is reported by its
\* error boundary, once, and nothing else is (ErrorBoundary, HandleBadResult).
THEOREM BoundaryReportsOnce == Spec => []ReportsTellFailures
<1>1. IInv => ReportsTellFailures
  BY DEF IInv, Control
<1>2. QED
  BY <1>1, Inductive, PTL
=============================================================================
