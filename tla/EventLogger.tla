---------------------------- MODULE EventLogger ----------------------------
(***************************************************************************)
(* What becomes of a logged event: EventLogger's buffer, the tasks that    *)
(* send what it flushes, the requests of NetworkService::SendEvents, and   *)
(* the file of failed payloads that outlives the process.                  *)
(*                                                                         *)
(* Sessions follow one another: InitializeSync or InitializeAsync makes a  *)
(* StatsigContext with a logger of its own, Shutdown or another Initialize *)
(* drops it.  The tasks run on the worker threads of the AsyncHelper that  *)
(* all sessions of an SDK key share, so they may outlive their logger, to  *)
(* which they hold weak pointers.  Every event is a number, in the order   *)
(* of logging; a batch is known by its first event.                        *)
(***************************************************************************)
EXTENDS Integers, SequencesExt

CONSTANTS MaxEvents,    \* bound: events logged in a run
          MaxSessions,  \* bound: sessions
          MaxCrashes,   \* bound: deaths of the process
          MaxBuffer,    \* max_buffer_size_, 50 by default
          MaxPayloads,  \* kMaxCachedFailedEventPayloadsCount, 5 in the code
          None,
          Torn          \* a file that is opened and not all written

Event == 1 .. MaxEvents
Payload == [attempts : {1}, events : Seq(Event)]

ASSUME BoundAssumption ==
    /\ MaxEvents \in Nat /\ MaxSessions \in Nat /\ MaxCrashes \in Nat
    /\ MaxBuffer \in Nat \ {0} /\ MaxPayloads \in Nat \ {0}
ASSUME FileAssumption == None \notin Seq(Payload) /\ Torn \notin Seq(Payload) \cup {None}

VARIABLES
    phase,     \* of the session: "none", "running", "stopping", "closed",
               \* "abandoned"
    session,   \* which session it is
    logged,    \* how many events there have been
    buffer,    \* events_
    marked,    \* Diagnostics has markers
    timer,     \* the background flusher: "off", "asleep" or "due"
    retry,     \* the task of RetryFailedEvents: "none", "queued" or "done"
    batch,     \* the batches, and where their tasks are
    file,      \* the failed payloads' file: None, Torn or its payloads
    crashes,   \* how often the process has died
    \* History, read by the properties only:
    sent,      \* events the server has taken
    refused,   \* events the server has answered for without taking them
    reported,  \* events logged as "successfully sent"
    dropped,   \* events of payloads pushed out by newer ones
    saved,     \* events that have been in the file
    gaveUp,    \* a Shutdown has timed out in this process
    due,       \* events of the session logged before its Shutdown
    excused    \* saves have overlapped, failed to open or been cut short

session_ == <<phase, session, due, gaveUp>>
events_ == <<logged, buffer, marked>>
tasks == <<timer, retry>>
answers == <<sent, refused, reported>>
disk == <<file, dropped, saved, excused>>
vars == <<session_, events_, tasks, batch, disk, crashes, answers>>

NoBatch == [stage |-> "none", session |-> 0, events |-> <<>>, content |-> <<>>]
Open == {"running", "stopping"}
EventsOf(payloads) == UNION {ToSet(payloads[i].events) : i \in DOMAIN payloads}
FileEvents == IF file \in {None, Torn} THEN {} ELSE EventsOf(file)

Init ==
    /\ phase = "none" /\ session = 0 /\ due = {} /\ gaveUp = FALSE
    /\ logged = 0 /\ buffer = <<>> /\ marked = FALSE
    /\ timer = "off" /\ retry = "none"
    /\ batch = [b \in Event |-> NoBatch]
    /\ file = None /\ dropped = {} /\ saved = {} /\ excused = FALSE
    /\ crashes = 0
    /\ sent = {} /\ refused = {} /\ reported = {}

-----------------------------------------------------------------------------
(* The logger.                                                             *)

\* FlushImpl, with the lock held, when there have been n events and `all` are
\* in the buffer: Diagnostics adds an event of its markers if it has any, and
\* what there is then goes to a task.
FlushImpl(all, n) ==
    LET local == IF marked THEN Append(all, n + 1) ELSE all
    IN  /\ buffer' = <<>>
        /\ marked' = FALSE
        /\ logged' = IF marked THEN n + 1 ELSE n
        /\ logged' <= MaxEvents
        /\ batch' = IF local = <<>>
                    THEN batch
                    ELSE [batch EXCEPT ![local[1]] =
                            [NoBatch EXCEPT !.stage = "queued",
                                            !.session = session,
                                            !.events = local]]

\* What Shutdown is due: the events of the session up to now.
NoteDue == due' = IF phase = "running" THEN due \cup (logged + 1 .. logged')
                                       ELSE due

-----------------------------------------------------------------------------
(* Planted bugs: what the properties at the end are there to catch.  None  *)
(* is a part of Next.                                                      *)

\* Lets the buffer grow one event too long.
BadLogEvent ==
    /\ phase \in Open
    /\ logged < MaxEvents
    /\ LET all == Append(buffer, logged + 1)
       IN  IF Len(all) > MaxBuffer + 1
           THEN FlushImpl(all, logged + 1)
           ELSE /\ buffer' = all
                /\ logged' = logged + 1
                /\ UNCHANGED <<marked, batch>>
    /\ NoteDue
    /\ UNCHANGED <<phase, session, gaveUp, tasks, disk, crashes, answers>>

\* Ends the timer, but does not flush.
BadShutdown ==
    /\ phase = "running"
    /\ phase' = "stopping"
    /\ timer' = "off"
    /\ UNCHANGED <<session, due, gaveUp, events_, batch, retry, disk, crashes,
                   answers>>

\* Logs the failure, but does not save.
BadSendFails(b) ==
    /\ batch[b].stage = "sending"
    /\ batch' = [batch EXCEPT ![b].stage = "over"]
    /\ UNCHANGED <<session_, events_, tasks, disk, crashes, answers>>

\* Writes the new payload over the old ones.
BadSaveFailedEvents(b) ==
    /\ batch[b].stage = "save"
    /\ batch' = [batch EXCEPT ![b].stage = "open",
                   ![b].content = <<[attempts |-> 1, events |-> batch[b].events]>>]
    /\ excused' = (excused \/ \E c \in Event \ {b} :
                                 batch[c].stage \in {"open", "close"})
    /\ UNCHANGED <<session_, events_, tasks, file, dropped, saved, crashes, answers>>

-----------------------------------------------------------------------------
(* The sessions, and the calls of the application.                         *)

\* A new StatsigContext.  The logger's constructor queues the retry of failed
\* events and starts the timer.  The buffer of a logger that was not shut down
\* goes with it.
StartSession ==
    /\ session < MaxSessions
    /\ phase # "stopping"
    /\ phase' = "running" /\ session' = session + 1 /\ due' = {}
    /\ buffer' = <<>> /\ marked' = TRUE
    /\ timer' = "asleep" /\ retry' = "queued"
    /\ UNCHANGED <<gaveUp, logged, batch, disk, crashes, answers>>

\* The task of RetryFailedEvents.  It was queued by the constructor, when no
\* shared_ptr owned the logger yet: weak_from_this() is empty, the lock
\* yields nothing and the task returns before it reads the file.
RetryFailedEvents ==
    /\ retry = "queued"
    /\ retry' = "done"
    /\ UNCHANGED <<session_, events_, timer, batch, disk, crashes, answers>>

\* logging_interval_ms_ has passed ...
TimerDue ==
    /\ timer = "asleep"
    /\ timer' = "due"
    /\ UNCHANGED <<session_, events_, retry, batch, disk, crashes, answers>>

\* ... and the timer calls its task, which was made in the constructor as
\* well and returns before it flushes.
TimerFires ==
    /\ timer = "due"
    /\ timer' = "asleep"
    /\ UNCHANGED <<session_, events_, retry, batch, disk, crashes, answers>>

\* Enqueue.
LogEvent ==
    /\ phase \in Open
    /\ logged < MaxEvents
    /\ LET all == Append(buffer, logged + 1)
       IN  IF Len(all) > MaxBuffer
           THEN FlushImpl(all, logged + 1)
           ELSE /\ buffer' = all
                /\ logged' = logged + 1
                /\ UNCHANGED <<marked, batch>>
    /\ NoteDue
    /\ UNCHANGED <<phase, session, gaveUp, tasks, disk, crashes, answers>>

\* UpdateUser and the request it makes leave markers.
Mark ==
    /\ phase = "running" /\ ~ marked
    /\ marked' = TRUE
    /\ UNCHANGED <<session_, logged, buffer, tasks, batch, disk, crashes, answers>>

Flush ==
    /\ phase \in Open
    /\ FlushImpl(buffer, logged)
    /\ NoteDue
    /\ UNCHANGED <<phase, session, gaveUp, tasks, disk, crashes, answers>>

\* StatsigClient::Shutdown: the logger's, which ends the timer and flushes, ...
Shutdown ==
    /\ phase = "running"
    /\ phase' = "stopping"
    /\ timer' = "off"
    /\ FlushImpl(buffer, logged)
    /\ NoteDue
    /\ UNCHANGED <<session, gaveUp, retry, disk, crashes, answers>>

\* ... then the pool's, then context_.reset().  If it never gave up on a
\* thread, a pool that returns true has run what it had been given, and no
\* thread is left to start on what was flushed since (ShutdownDrains and
\* ShutdownStopsAll of ThreadPool).
Busy == {b \in Event : batch[b].stage \notin {"none", "over"}}
Late == {b \in Event : /\ batch[b].stage = "queued" /\ batch[b].session = session
                       /\ ToSet(batch[b].events) \cap due = {}}
ShutdownReturns ==
    /\ phase = "stopping"
    /\ gaveUp \/ (retry = "done" /\ Busy \subseteq Late)
    /\ phase' = "closed" /\ buffer' = <<>>
    /\ UNCHANGED <<session, due, gaveUp, logged, marked, tasks, batch, disk,
                   crashes, answers>>

\* The pool gives up on its threads, which go on with what is in the queue.
ShutdownTimesOut ==
    /\ phase = "stopping"
    /\ phase' = "abandoned" /\ buffer' = <<>>
    /\ gaveUp' = TRUE
    /\ UNCHANGED <<session, due, logged, marked, tasks, batch, disk, crashes,
                   answers>>

-----------------------------------------------------------------------------
(* The task of a batch.                                                    *)

At(b, stage) == batch[b].stage = stage
Goto(b, from, to) == At(b, from) /\ batch' = [batch EXCEPT ![b].stage = to]
Events(b) == ToSet(batch[b].events)

\* USE_REF and network_.lock(): the logger and its context are there, ...
Send(b) ==
    /\ phase \in Open /\ batch[b].session = session
    /\ Goto(b, "queued", "sending")
    /\ UNCHANGED <<session_, events_, tasks, disk, crashes, answers>>

\* ... or have gone, and the events with them.
SendExpired(b) ==
    /\ ~ (phase \in Open /\ batch[b].session = session)
    /\ Goto(b, "queued", "over")
    /\ UNCHANGED <<session_, events_, tasks, disk, crashes, answers>>

\* The server takes the events.
Taken(b) ==
    /\ Goto(b, "sending", "over")
    /\ sent' = sent \cup Events(b)
    /\ reported' = reported \cup Events(b)
    /\ UNCHANGED <<session_, events_, tasks, disk, crashes, refused>>

\* It answers 2xx, but says in the body that it has not taken them.  The body
\* is never read: SendEvents passes on false for it in any case, in an optional,
\* and the logger only asks whether the optional holds something.
Refused(b) ==
    /\ Goto(b, "sending", "over")
    /\ refused' = refused \cup Events(b)
    /\ reported' = reported \cup Events(b)
    /\ UNCHANGED <<session_, events_, tasks, disk, crashes, sent>>

\* No attempt has had a 2xx answer: the events are to be saved.
SendFails(b) ==
    /\ Goto(b, "sending", "save")
    /\ UNCHANGED <<session_, events_, tasks, disk, crashes, answers>>

\* SaveFailedEvents reads the file and puts the new payload before the old
\* ones; the write is left to another task.  A file that does not parse
\* counts as empty.
Writing(b) == {c \in Event \ {b} : batch[c].stage \in {"open", "close"}}
SaveFailedEvents(b) ==
    LET old == IF file \in {None, Torn} THEN <<>> ELSE file
        all == <<[attempts |-> 1, events |-> batch[b].events]>> \o old
        kept == IF Len(all) > MaxPayloads THEN Front(all) ELSE all
    IN  /\ At(b, "save")
        /\ batch' = [batch EXCEPT ![b].stage = "open", ![b].content = kept]
        /\ dropped' = dropped \cup (EventsOf(all) \ EventsOf(kept))
        /\ excused' = (excused \/ Writing(b) # {})
        /\ UNCHANGED <<session_, events_, tasks, file, saved, crashes, answers>>

\* The task of WriteStringToFile: the stream truncates the file ...
OpenFile(b) ==
    /\ Goto(b, "open", "close")
    /\ file' = Torn
    /\ UNCHANGED <<session_, events_, tasks, dropped, saved, excused, crashes,
                   answers>>

\* ... unless it does not open, which nobody notices, ...
OpenFails(b) ==
    /\ Goto(b, "open", "over")
    /\ excused' = TRUE
    /\ UNCHANGED <<session_, events_, tasks, file, dropped, saved, crashes,
                   answers>>

\* ... and the text is there when it is closed.  Of two tasks that write at
\* once neither's text may be left.
CloseFile(b) ==
    /\ Goto(b, "close", "over")
    /\ \/ /\ file' = batch[b].content
          /\ saved' = saved \cup EventsOf(batch[b].content)
       \/ /\ Writing(b) # {}
          /\ file' = Torn
          /\ UNCHANGED saved
    /\ UNCHANGED <<session_, events_, tasks, dropped, excused, crashes, answers>>

\* The process dies, between any two steps.
Crash ==
    /\ crashes < MaxCrashes
    /\ crashes' = crashes + 1
    /\ phase' = "none" /\ due' = {} /\ gaveUp' = FALSE
    /\ buffer' = <<>> /\ marked' = FALSE
    /\ timer' = "off" /\ retry' = "none"
    /\ batch' = [b \in Event |-> IF b \in Busy
                                 THEN [NoBatch EXCEPT !.stage = "over"]
                                 ELSE batch[b]]
    /\ excused' = (excused \/ \E b \in Event : At(b, "close"))
    /\ UNCHANGED <<session, logged, file, dropped, saved, answers>>

-----------------------------------------------------------------------------
Client == StartSession \/ LogEvent \/ Mark \/ Flush \/ Shutdown
Pool == ShutdownReturns \/ ShutdownTimesOut \/ RetryFailedEvents
Timer == TimerDue \/ TimerFires
Task(b) ==
    \/ Send(b) \/ SendExpired(b) \/ Taken(b) \/ Refused(b) \/ SendFails(b)
    \/ SaveFailedEvents(b) \/ OpenFile(b) \/ OpenFails(b) \/ CloseFile(b)

Next == Client \/ Pool \/ Timer \/ (\E b \in Event : Task(b)) \/ Crash

Spec == Init /\ [][Next]_vars

\* The workers take every task in the end (TaskRuns of ThreadPool), requests
\* end in an answer or in a timeout, and time passes.
FairSpec == /\ Spec
            /\ WF_vars(RetryFailedEvents) /\ WF_vars(Timer)
            /\ \A b \in Event : WF_vars(Task(b))

-----------------------------------------------------------------------------
(* Properties.                                                             *)

\* Every variable has its type: the buffer never holds more than the limit
\* between two calls, nor the file more payloads than its own.
TypeOK ==
    /\ phase \in Open \cup {"none", "closed", "abandoned"}
    /\ session \in 0 .. MaxSessions /\ crashes \in 0 .. MaxCrashes
    /\ logged \in 0 .. MaxEvents
    /\ buffer \in Seq(Event) /\ Len(buffer) <= MaxBuffer
    /\ marked \in BOOLEAN /\ gaveUp \in BOOLEAN /\ excused \in BOOLEAN
    /\ timer \in {"off", "asleep", "due"} /\ retry \in {"none", "queued", "done"}
    /\ \A b \in Event :
          /\ batch[b].stage \in {"none", "queued", "sending", "save", "open",
                                 "close", "over"}
          /\ batch[b].session \in 0 .. MaxSessions
          /\ batch[b].events \in Seq(Event)
          /\ batch[b].content \in Seq(Payload)
    /\ file \in {None, Torn} \cup Seq(Payload)
    /\ file \notin {None, Torn} => Len(file) <= MaxPayloads
    /\ \A events \in {sent, refused, reported, dropped, saved, due} :
          events \subseteq Event

\* When Shutdown has returned Ok every event logged before it is with the
\* server or in the file, whichever batch and whichever task it went through,
\* except what the server has refused, what newer payloads have pushed out of
\* the file, and what `excused` stands for.  (Only until a Shutdown has given
\* up on a thread.)
ShutdownDelivers ==
    phase = "closed" /\ ~ gaveUp /\ ~ excused =>
        due \subseteq sent \cup refused \cup dropped \cup FileEvents

\* An event that is in the file stays in it, while other batches are saved
\* and across sessions and crashes, until newer payloads push it out.  (A
\* save that is under way has read it and will write it again.)
SavedNotLost ==
    ~ excused =>
        saved \subseteq dropped \cup FileEvents \cup
                       UNION {EventsOf(batch[b].content) : b \in
                                 {c \in Event : At(c, "close")}}

\* A batch that was flushed is answered for or saved in the end, unless its
\* logger has gone before a worker took it or the process has died.
FlushedIsSettled ==
    \A b \in Event :
        At(b, "queued")
            ~> \/ Events(b) \subseteq sent \cup refused \cup saved
               \/ excused
               \/ ~ (phase \in Open /\ batch[b].session = session)

\* What SaveFailedEvents promises when it logs "Will try again next session.":
\* failed events do not stay in the file all through the next session.
Inherits(e) == /\ e \in FileEvents /\ retry = "queued"
               /\ \A b \in Event : batch[b].session # session
RetriedNextSession ==
    \A e \in Event : Inherits(e) ~> e \notin FileEvents \/ phase # "running"

\* Events logged as "successfully sent" are with the server.
ReportedIsSent == reported \subseteq sent
============================================================================
