-------------------------- MODULE EventLoggerProofs --------------------------
(***************************************************************************)
(* Proofs about EventLogger, for any number of events, sessions and        *)
(* crashes, and any limits of the buffer and of the file.                  *)
(***************************************************************************)
EXTENDS EventLogger, SequenceTheorems, TLAPS

-----------------------------------------------------------------------------
(* The inductive invariant.                                                *)

Phase == {"none", "running", "stopping", "closed", "abandoned"}
Stage == {"none", "queued", "sending", "save", "open", "close", "over"}
Saves == {s \in Seq(Payload) : Len(s) <= MaxPayloads}
Batch == [stage : Stage, session : 0 .. MaxSessions, events : Seq(Event),
          content : Saves]

Types ==
    /\ phase \in Phase
    /\ session \in 0 .. MaxSessions /\ crashes \in 0 .. MaxCrashes
    /\ logged \in 0 .. MaxEvents
    /\ buffer \in Seq(Event) /\ Len(buffer) <= MaxBuffer
    /\ marked \in BOOLEAN /\ gaveUp \in BOOLEAN /\ excused \in BOOLEAN
    /\ timer \in {"off", "asleep", "due"} /\ retry \in {"none", "queued", "done"}
    /\ batch \in [Event -> Batch]
    /\ file \in {None, Torn} \cup Saves
    /\ sent \subseteq Event /\ refused \subseteq Event /\ reported \subseteq Event
    /\ dropped \subseteq Event /\ saved \subseteq Event /\ due \subseteq Event

\* No event is in a batch of its name before it is flushed.
Unflushed ==
    /\ \A e \in ToSet(buffer) : e <= logged /\ batch[e].stage = "none"
    /\ \A e \in Event : e > logged => batch[e].stage = "none"

\* The tasks that have read the file and will write it, or are writing it.
Writes(b) == batch[b].stage \in {"open", "close"}
Content(b) == EventsOf(batch[b].content)

\* Unless saves have overlapped there is one of them at the most, and what it
\* will write has all that is in the file but what has been pushed out.
OneWriter ==
    ~ excused =>
        \A b \in Event : Writes(b) =>
            /\ \A c \in Event : Writes(c) => c = b
            /\ FileEvents \subseteq Content(b) \cup dropped

\* The places where an event is safe: no one who lets go of it does so
\* before another has it.
Safe(e) ==
    \/ phase = "running" /\ e \in ToSet(buffer)
    \/ \E b \in Event : /\ phase \in Open /\ At(b, "queued")
                        /\ batch[b].session = session /\ e \in Events(b)
    \/ \E b \in Event : batch[b].stage \in {"sending", "save"} /\ e \in Events(b)
    \/ \E b \in Event : Writes(b) /\ e \in Content(b)
    \/ e \in sent \cup refused \cup dropped \cup FileEvents
DueIsSafe == ~ gaveUp /\ ~ excused => \A e \in due : Safe(e)

\* A Shutdown that has not given up leaves no work but what was flushed too late.
ClosedIsIdle == phase = "closed" /\ ~ gaveUp => Busy \subseteq Late

IInv == Types /\ Unflushed /\ OneWriter /\ SavedNotLost /\ DueIsSafe /\ ClosedIsIdle

-----------------------------------------------------------------------------
(* Sequences of events and of payloads.                                    *)

LEMMA EventsInSet ==
    ASSUME NEW s \in Seq(Event)
    PROVE  ToSet(s) \subseteq Event /\ (s # <<>> => s[1] \in ToSet(s))
BY DEF ToSet

LEMMA AppendEvents ==
    ASSUME NEW s \in Seq(Event), NEW e \in Event
    PROVE  /\ Append(s, e) \in Seq(Event) /\ Append(s, e) # <<>>
           /\ Len(Append(s, e)) = Len(s) + 1
           /\ ToSet(Append(s, e)) = ToSet(s) \cup {e}
<1>1. /\ Append(s, e) \in Seq(Event) /\ Len(Append(s, e)) = Len(s) + 1
      /\ \A i \in 1 .. Len(s) : Append(s, e)[i] = s[i]
      /\ Append(s, e)[Len(s) + 1] = e /\ Len(s) \in Nat
  BY AppendProperties, LenProperties
<1>2. DOMAIN s = 1 .. Len(s) /\ DOMAIN Append(s, e) = 1 .. Len(s) + 1
  BY <1>1, LenProperties
<1>3. ToSet(Append(s, e)) = ToSet(s) \cup {e}
  BY <1>1, <1>2 DEF ToSet
<1>4. Append(s, e) # <<>>
  BY <1>1
<1>5. QED
  BY <1>1, <1>3, <1>4

LEMMA PayloadEvents ==
    ASSUME NEW s \in Seq(Payload)
    PROVE  /\ EventsOf(s) \subseteq Event
           /\ \A i \in 1 .. Len(s) : ToSet(s[i].events) \subseteq EventsOf(s)
<1>1. DOMAIN s = 1 .. Len(s) /\ \A i \in 1 .. Len(s) : s[i].events \in Seq(Event)
  <2>1. DOMAIN s = 1 .. Len(s)
    BY LenProperties
  <2>2. \A i \in 1 .. Len(s) : s[i] \in Payload
    BY ElementOfSeq
  <2>3. QED
    BY <2>1, <2>2 DEF Payload
<1>2. \A i \in 1 .. Len(s) : ToSet(s[i].events) \subseteq Event
  BY <1>1, EventsInSet
<1>3. QED
  BY <1>1, <1>2 DEF EventsOf

\* What SaveFailedEvents makes of the old payloads.
LEMMA SavedPayloads ==
    ASSUME NEW old \in Saves, NEW events \in Seq(Event), NEW all, NEW kept,
           all = <<[attempts |-> 1, events |-> events]>> \o old,
           kept = IF Len(all) > MaxPayloads THEN Front(all) ELSE all
    PROVE  /\ kept \in Saves /\ EventsOf(all) \subseteq Event
           /\ ToSet(events) \cup EventsOf(old) \subseteq EventsOf(all)
<1> DEFINE p == [attempts |-> 1, events |-> events]
<1>1. p \in Payload /\ p.events = events
  BY DEF Payload
<1> HIDE DEF p
<1>2. <<p>> \in Seq(Payload) /\ old \in Seq(Payload) /\ all = <<p>> \o old
  BY <1>1 DEF Saves, p
<1>3. /\ all \in Seq(Payload) /\ Len(all) = Len(old) + 1 /\ all[1] = p
      /\ \A i \in 1 .. Len(old) : all[i + 1] = old[i]
      /\ Len(old) \in Nat /\ Len(old) <= MaxPayloads
  BY <1>2 DEF Saves
<1>4. kept \in Saves
  <2>1. CASE Len(all) > MaxPayloads
    <3>1. kept = SubSeq(all, 1, Len(old))
      BY <1>3, <2>1 DEF Front
    <3>2. kept \in Seq(Payload) /\ Len(kept) = Len(old)
      <4>1. \A i \in 1 .. Len(old) : all[i] \in Payload
        BY <1>3, ElementOfSeq
      <4>2. /\ SubSeq(all, 1, Len(old)) \in Seq(Payload)
            /\ Len(SubSeq(all, 1, Len(old))) =
                  IF 1 <= Len(old) THEN Len(old) - 1 + 1 ELSE 0
        BY <1>3, <4>1, SubSeqProperties
      <4> DEFINE n == Len(old)
      <4>3. (IF 1 <= n THEN n - 1 + 1 ELSE 0) = n
        <5>1. n \in Nat
          BY <1>3
        <5> HIDE DEF n
        <5>2. QED
          BY <5>1
      <4>4. QED
        BY <3>1, <4>2, <4>3, Zenon
    <3>3. QED
      BY <1>3, <3>2 DEF Saves
  <2>2. CASE ~ (Len(all) > MaxPayloads)
    BY <1>3, <2>2, BoundAssumption DEF Saves, BoundAssumption
  <2>3. QED
    BY <2>1, <2>2
<1>5. ToSet(events) \subseteq EventsOf(all)
  <2>1. 1 \in 1 .. Len(all)
    BY <1>3
  <2>2. ToSet(all[1].events) \subseteq EventsOf(all)
    BY <1>3, <2>1, PayloadEvents
  <2>3. QED
    BY <1>1, <1>3, <2>2
<1>6. EventsOf(old) \subseteq EventsOf(all)
  <2> SUFFICES ASSUME NEW i \in DOMAIN old, NEW e \in ToSet(old[i].events)
               PROVE  e \in EventsOf(all)
    BY DEF EventsOf
  <2>1. i \in 1 .. Len(old)
    BY <1>2, LenProperties
  <2>2. i + 1 \in 1 .. Len(all) /\ all[i + 1] = old[i]
    BY <1>3, <2>1
  <2>3. ToSet(all[i + 1].events) \subseteq EventsOf(all)
    BY <1>3, <2>2, PayloadEvents
  <2>4. QED
    BY <2>2, <2>3
<1>7. QED
  BY <1>3, <1>4, <1>5, <1>6, PayloadEvents

\* What is in the file.
LEMMA FileParts ==
    ASSUME Types
    PROVE  /\ FileEvents \subseteq Event
           /\ (IF file \in {None, Torn} THEN <<>> ELSE file) \in Saves
           /\ EventsOf(IF file \in {None, Torn} THEN <<>> ELSE file) = FileEvents
<1>1. CASE file \in {None, Torn}
  <2>1. <<>> \in Saves
    BY BoundAssumption DEF Saves, BoundAssumption
  <2>2. EventsOf(<<>>) = {}
    BY DEF EventsOf
  <2>3. QED
    BY <1>1, <2>1, <2>2 DEF FileEvents
<1>2. CASE file \notin {None, Torn}
  <2>1. file \in Saves /\ file \in Seq(Payload)
    BY <1>2 DEF Types, Saves
  <2>2. QED
    BY <1>2, <2>1, PayloadEvents DEF FileEvents
<1>3. QED
  BY <1>1, <1>2

-----------------------------------------------------------------------------
(* What keeps the saved events.                                            *)

\* SavedNotLost, event by event.
SavedStands ==
    ~ excused => \A e \in saved :
                    \/ e \in dropped \cup FileEvents
                    \/ \E b \in Event : At(b, "close") /\ e \in Content(b)

LEMMA SavedEvents ==
    (SavedNotLost <=> SavedStands) /\ (SavedNotLost' <=> SavedStands')
BY DEF SavedNotLost, SavedStands, Content

LEMMA SavedStays ==
    ASSUME SavedNotLost, saved' = saved, dropped \subseteq dropped',
           FileEvents' = FileEvents,
           ~ excused' => /\ ~ excused
                         /\ \A b \in Event : At(b, "close") =>
                               At(b, "close")' /\ Content(b)' = Content(b)
    PROVE  SavedNotLost'
BY DEF SavedNotLost, Content

-----------------------------------------------------------------------------
(* The calls that log and flush.                                           *)

\* The batch b is flushed with these events.
Flushed(b, events) ==
    /\ batch[b].stage = "none"
    /\ batch' \in [Event -> Batch]
    /\ batch'[b].stage = "queued" /\ batch'[b].session = session
    /\ events \subseteq ToSet(batch'[b].events)
    /\ \A c \in Event \ {b} : batch'[c] = batch[c]

\* FlushImpl leaves nothing: all that was in the buffer and the event of the
\* markers are in a new batch.
LEMMA FlushParts ==
    ASSUME Types, Unflushed, NEW n \in logged .. MaxEvents, NEW all \in Seq(Event),
           \A e \in ToSet(all) : e <= n /\ batch[e].stage = "none",
           FlushImpl(all, n)
    PROVE  /\ buffer' = <<>> /\ marked' = FALSE /\ logged' \in n .. MaxEvents
           /\ \/ batch' = batch /\ ToSet(all) = {} /\ logged' = n
              \/ \E b \in Event : /\ b <= logged'
                                  /\ Flushed(b, ToSet(all) \cup (n + 1 .. logged'))
<1> DEFINE local == IF marked THEN Append(all, n + 1) ELSE all
           q == [NoBatch EXCEPT !.stage = "queued", !.session = session,
                                !.events = local]
<1>0. /\ n \in Nat /\ logged \in Nat /\ MaxEvents \in Nat /\ logged <= n
      /\ n <= MaxEvents /\ batch \in [Event -> Batch]
      /\ session \in 0 .. MaxSessions
  BY BoundAssumption DEF Types, BoundAssumption
<1>1. /\ buffer' = <<>> /\ marked' = FALSE
      /\ logged' = (IF marked THEN n + 1 ELSE n) /\ logged' <= MaxEvents
      /\ batch' = IF local = <<>> THEN batch ELSE [batch EXCEPT ![local[1]] = q]
  BY DEF FlushImpl
<1>2. logged' \in n .. MaxEvents
  BY <1>0, <1>1
<1>3. /\ local \in Seq(Event)
      /\ ToSet(local) = ToSet(all) \cup (n + 1 .. logged')
      /\ \A e \in ToSet(local) : e <= logged' /\ batch[e].stage = "none"
  <2>1. CASE marked
    <3>1. n + 1 \in Event /\ logged' = n + 1 /\ n + 1 .. logged' = {n + 1}
      BY <1>0, <1>1, <2>1 DEF Event
    <3>2. local \in Seq(Event) /\ ToSet(local) = ToSet(all) \cup {n + 1}
      BY <2>1, <3>1, AppendEvents
    <3>3. batch[n + 1].stage = "none"
      BY <1>0, <3>1 DEF Unflushed
    <3>4. \A e \in ToSet(all) : e \in Nat /\ e <= n
      BY EventsInSet DEF Event
    <3>5. QED
      BY <1>0, <3>1, <3>2, <3>3, <3>4
  <2>2. CASE ~ marked
    <3>1. logged' = n /\ n + 1 .. logged' = {} /\ local = all
      BY <1>0, <1>1, <2>2
    <3>2. QED
      BY <3>1
  <2>3. QED
    BY <2>1, <2>2
<1>4. CASE local = <<>>
  <2>1. all = <<>> /\ ~ marked
    BY <1>4, <1>0, AppendEvents DEF Event
  <2>2. QED
    BY <1>0, <1>1, <1>2, <1>4, <2>1 DEF ToSet
<1>5. CASE local # <<>>
  <2>1. local[1] \in ToSet(local) /\ local[1] \in Event
    BY <1>3, <1>5, EventsInSet
  <2>2. /\ q \in Batch /\ q.stage = "queued" /\ q.session = session
        /\ q.events = local
    <3>1. <<>> \in Seq(Event) /\ <<>> \in Saves
      BY BoundAssumption DEF Saves, BoundAssumption
    <3>2. NoBatch \in Batch
      <4>1. "none" \in Stage /\ 0 \in 0 .. MaxSessions
        BY <1>0, BoundAssumption DEF Stage, BoundAssumption
      <4>2. QED
        BY <3>1, <4>1, Zenon DEF NoBatch, Batch
    <3> HIDE DEF local
    <3>3. QED
      BY <1>0, <1>3, <3>2 DEF NoBatch, Batch, Stage
  <2> HIDE DEF local, q
  <2>3. batch' = [batch EXCEPT ![local[1]] = q]
    BY <1>1, <1>5
  <2>4. /\ batch' \in [Event -> Batch] /\ batch'[local[1]] = q
        /\ \A c \in Event \ {local[1]} : batch'[c] = batch[c]
    BY <1>0, <2>1, <2>2, <2>3
  <2>5. Flushed(local[1], ToSet(all) \cup (n + 1 .. logged'))
    BY <1>3, <2>1, <2>2, <2>4 DEF Flushed
  <2>6. QED
    BY <1>1, <1>2, <1>3, <2>1, <2>5
<1>6. QED
  BY <1>4, <1>5

\* A step that logs or flushes: each event of the buffer and each new one is
\* in the new buffer or in a new batch.
LEMMA LoggedStep ==
    ASSUME IInv, phase \in Open, phase' \in Open,
           phase = "stopping" => phase' = "stopping",
           NEW n \in logged .. MaxEvents, logged' \in n .. MaxEvents,
           buffer' \in Seq(Event), Len(buffer') <= MaxBuffer, marked' \in BOOLEAN,
           timer' \in {"off", "asleep", "due"},
           \/ /\ batch' = batch
              /\ ToSet(buffer) \cup (logged + 1 .. logged') \subseteq ToSet(buffer')
              /\ phase' = phase
           \/ /\ batch' = batch /\ logged' = logged /\ ToSet(buffer) = {}
           \/ /\ ToSet(buffer') = {}
              /\ \E b \in Event : /\ b <= logged'
                                  /\ Flushed(b, ToSet(buffer) \cup (logged + 1 .. logged')),
           \A e \in ToSet(buffer') : e <= logged' /\ batch[e].stage = "none",
           NoteDue,
           UNCHANGED <<session, gaveUp, retry, disk, crashes, answers>>
    PROVE  IInv'
<1>0. /\ logged \in Nat /\ logged' \in Nat /\ logged' <= MaxEvents
      /\ logged <= logged' /\ MaxEvents \in Nat /\ batch \in [Event -> Batch]
      /\ UNCHANGED <<file, dropped, saved, excused, sent, refused, reported>>
  BY BoundAssumption DEF IInv, Types, BoundAssumption, disk, answers
<1>1. \* What has become of the batches.
      /\ batch' \in [Event -> Batch]
      /\ \A c \in Event : \/ batch'[c] = batch[c]
                          \/ /\ batch[c].stage = "none" /\ batch'[c].stage = "queued"
                             /\ c <= logged' /\ ToSet(buffer') = {}
  BY <1>0 DEF Flushed
<1>2. \A c \in Event : batch[c].stage # "none" => batch'[c] = batch[c]
  BY <1>1
<1>3. due' \subseteq due \cup (logged + 1 .. logged') /\ due \subseteq due'
      /\ (phase = "stopping" => due' = due)
  BY DEF NoteDue, Open
<1>4. Types'
  <2>1. due' \subseteq Event
    BY <1>0, <1>3 DEF IInv, Types, Event
  <2>2. QED
    BY <1>0, <1>1, <2>1 DEF IInv, Types, Phase, Open
<1>5. Unflushed'
  <2>1. \A e \in ToSet(buffer') : e <= logged' /\ batch'[e].stage = "none"
    <3>1. ToSet(buffer') \subseteq Event
      BY EventsInSet
    <3>2. QED
      BY <1>1, <3>1
  <2>2. ASSUME NEW e \in Event, e > logged'
        PROVE  batch'[e].stage = "none"
    BY <1>0, <1>1, <2>2 DEF IInv, Unflushed, Event
  <2>3. QED
    BY <2>1, <2>2 DEF Unflushed
<1>6. /\ FileEvents' = FileEvents
      /\ \A b \in Event : /\ Writes(b)' <=> Writes(b)
                          /\ Writes(b) => Content(b)' = Content(b)
                          /\ At(b, "close")' <=> At(b, "close")
                          /\ At(b, "close") => Writes(b)
  BY <1>0, <1>1 DEF FileEvents, Writes, Content, EventsOf, At
<1>7. OneWriter'
  BY <1>0, <1>6 DEF IInv, OneWriter
<1>8. SavedNotLost'
  BY <1>0, <1>6, SavedStays DEF IInv
<1>9. DueIsSafe'
  <2> SUFFICES ASSUME ~ gaveUp, ~ excused, NEW e \in due'
               PROVE  Safe(e)'
    BY <1>0 DEF DueIsSafe
  <2>1. \* Where a new event or one of the buffer is.
        ASSUME phase = "running", e \in ToSet(buffer) \cup (logged + 1 .. logged')
        PROVE  Safe(e)'
    <3>1. CASE \E b \in Event :
                  Flushed(b, ToSet(buffer) \cup (logged + 1 .. logged'))
      <4>1. PICK b \in Event : Flushed(b, ToSet(buffer) \cup (logged + 1 .. logged'))
        BY <3>1
      <4>2. QED
        BY <2>1, <4>1 DEF Flushed, Safe, At, Events
    <3>2. CASE /\ ToSet(buffer) \cup (logged + 1 .. logged') \subseteq ToSet(buffer')
               /\ phase' = phase
      BY <2>1, <3>2 DEF Safe
    <3>3. CASE logged' = logged /\ ToSet(buffer) = {}
      BY <1>0, <2>1, <3>3
    <3>4. QED
      BY <3>1, <3>2, <3>3
  <2>2. ASSUME e \in due, ~ (phase = "running" /\ e \in ToSet(buffer))
        PROVE  Safe(e)'
    <3>1. Safe(e)
      BY <2>2 DEF IInv, DueIsSafe
    <3>2. CASE \E b \in Event : /\ phase \in Open /\ At(b, "queued")
                                /\ batch[b].session = session /\ e \in Events(b)
      BY <1>2, <3>2 DEF Safe, At, Events
    <3>3. CASE \E b \in Event :
                  batch[b].stage \in {"sending", "save"} /\ e \in Events(b)
      BY <1>2, <3>3 DEF Safe, Events
    <3>4. CASE \E b \in Event : Writes(b) /\ e \in Content(b)
      BY <1>6, <3>4 DEF Safe
    <3>5. CASE e \in sent \cup refused \cup dropped \cup FileEvents
      BY <1>0, <1>6, <3>5 DEF Safe
    <3>6. QED
      BY <2>2, <3>1, <3>2, <3>3, <3>4, <3>5 DEF Safe
  <2>3. QED
    BY <1>3, <2>1, <2>2 DEF Open
<1>10. ClosedIsIdle'
  BY DEF ClosedIsIdle, Open
<1>11. QED
  BY <1>4, <1>5, <1>7, <1>8, <1>9, <1>10 DEF IInv

LEMMA StepLogEvent ==
    ASSUME IInv, LogEvent
    PROVE  IInv'
<1> DEFINE all == Append(buffer, logged + 1)
<1>1. /\ logged \in Nat /\ MaxEvents \in Nat /\ logged < MaxEvents
      /\ logged + 1 \in Event /\ logged + 1 \in logged .. MaxEvents
      /\ buffer \in Seq(Event) /\ phase \in Open /\ phase' = phase
      /\ NoteDue /\ marked \in BOOLEAN /\ timer \in {"off", "asleep", "due"}
      /\ UNCHANGED <<session, gaveUp, tasks, disk, crashes, answers>>
  BY BoundAssumption DEF IInv, Types, BoundAssumption, LogEvent, Event
<1>2. /\ all \in Seq(Event) /\ all # <<>>
      /\ ToSet(all) = ToSet(buffer) \cup {logged + 1}
  BY <1>1, AppendEvents
<1>3. ToSet(buffer) \subseteq Event
  BY <1>1, EventsInSet
<1>4. \A e \in ToSet(all) : e <= logged + 1 /\ batch[e].stage = "none"
  BY <1>1, <1>2, <1>3 DEF IInv, Unflushed, Event
<1> HIDE DEF all
<1>5. CASE Len(all) > MaxBuffer
  <2>1. FlushImpl(all, logged + 1)
    BY <1>5 DEF LogEvent, all
  <2>2. /\ buffer' = <<>> /\ marked' = FALSE /\ logged' \in logged + 1 .. MaxEvents
        /\ \E b \in Event :
              /\ b <= logged'
              /\ Flushed(b, ToSet(all) \cup (logged + 1 + 1 .. logged'))
    <3>1. ToSet(all) # {}
      BY <1>2
    <3>2. QED
      BY <1>1, <1>2, <1>4, <2>1, <3>1, FlushParts DEF IInv
  <2>3. ToSet(all) \cup (logged + 1 + 1 .. logged')
           = ToSet(buffer) \cup (logged + 1 .. logged')
    BY <1>1, <1>2, <2>2
  <2>4. Len(buffer') <= MaxBuffer /\ ToSet(buffer') = {} /\ buffer' \in Seq(Event)
    BY <2>2, BoundAssumption DEF BoundAssumption, ToSet
  <2>5. QED
    BY <1>1, <2>2, <2>3, <2>4, LoggedStep DEF tasks
<1>6. CASE ~ (Len(all) > MaxBuffer)
  <2>1. /\ buffer' = all /\ logged' = logged + 1 /\ UNCHANGED <<marked, batch>>
    BY <1>6 DEF LogEvent, all
  <2>2. ToSet(buffer) \cup (logged + 1 .. logged') \subseteq ToSet(buffer')
    BY <1>1, <1>2, <2>1
  <2>3. Len(buffer') <= MaxBuffer
    BY <1>2, <1>6, <2>1, LenProperties, BoundAssumption DEF BoundAssumption
  <2>4. logged' \in logged + 1 .. MaxEvents
    BY <1>1, <2>1
  <2>5. QED
    BY <1>1, <1>2, <1>4, <2>1, <2>2, <2>3, <2>4, LoggedStep DEF tasks
<1>7. QED
  BY <1>5, <1>6

\* Flush and Shutdown send what is in the buffer.
LEMMA FlushedStep ==
    ASSUME IInv, phase \in Open, phase' \in Open,
           phase = "stopping" => phase' = "stopping",
           FlushImpl(buffer, logged), NoteDue, timer' \in {"off", "asleep", "due"},
           UNCHANGED <<session, gaveUp, retry, disk, crashes, answers>>
    PROVE  IInv'
<1>1. /\ logged \in Nat /\ MaxEvents \in Nat /\ logged \in logged .. MaxEvents
      /\ buffer \in Seq(Event)
  BY BoundAssumption DEF IInv, Types, BoundAssumption
<1>2. /\ buffer' = <<>> /\ marked' = FALSE /\ logged' \in logged .. MaxEvents
      /\ \/ batch' = batch /\ ToSet(buffer) = {} /\ logged' = logged
         \/ \E b \in Event : /\ b <= logged'
                             /\ Flushed(b, ToSet(buffer) \cup (logged + 1 .. logged'))
  BY <1>1, FlushParts DEF IInv, Unflushed
<1>3. Len(buffer') <= MaxBuffer /\ ToSet(buffer') = {} /\ buffer' \in Seq(Event)
  BY <1>2, BoundAssumption DEF BoundAssumption, ToSet
<1>4. QED
  BY <1>1, <1>2, <1>3, LoggedStep

LEMMA StepFlush ==
    ASSUME IInv, Flush
    PROVE  IInv'
<1>1. timer' \in {"off", "asleep", "due"} /\ UNCHANGED <<timer, retry>>
  BY DEF IInv, Types, Flush, tasks
<1>2. QED
  BY <1>1, FlushedStep DEF Flush

LEMMA StepShutdown ==
    ASSUME IInv, Shutdown
    PROVE  IInv'
BY FlushedStep DEF Shutdown, Open

-----------------------------------------------------------------------------
(* The sessions, the timer and the retry.                                  *)

\* Nothing happens to an event.
LEMMA QuietStep ==
    ASSUME IInv, marked' \in BOOLEAN, timer' \in {"off", "asleep", "due"},
           retry' \in {"none", "queued", "done"},
           UNCHANGED <<session_, logged, buffer, batch, disk, crashes, answers>>
    PROVE  IInv'
<1>1. UNCHANGED <<phase, session, due, gaveUp, logged, buffer, batch, file, dropped,
                  saved, excused, crashes, sent, refused, reported>>
  BY DEF session_, disk, answers
<1>2. Types' /\ Unflushed'
  BY <1>1 DEF IInv, Types, Unflushed
<1>3. FileEvents' = FileEvents
  BY <1>1 DEF FileEvents
<1>4. OneWriter' /\ SavedNotLost' /\ ClosedIsIdle'
  BY <1>1, <1>3 DEF IInv, OneWriter, Writes, Content, SavedNotLost, At,
     ClosedIsIdle, Busy, Late
<1>5. \A e : Safe(e) <=> Safe(e)'
  BY <1>1, <1>3 DEF Safe, Writes, Content, At, Events
<1>6. DueIsSafe'
  BY <1>1, <1>5 DEF IInv, DueIsSafe
<1>7. QED
  BY <1>2, <1>4, <1>6 DEF IInv

LEMMA StepMark ==
    ASSUME IInv, Mark
    PROVE  IInv'
BY QuietStep DEF IInv, Types, Mark, tasks

LEMMA StepTimer ==
    ASSUME IInv, Timer \/ RetryFailedEvents
    PROVE  IInv'
BY QuietStep DEF IInv, Types, Timer, TimerDue, TimerFires, RetryFailedEvents, events_

\* A session begins or ends, and the buffer goes with it.
LEMMA SessionStep ==
    ASSUME IInv, buffer' = <<>>, phase' \in Phase, session' \in 0 .. MaxSessions,
           marked' \in BOOLEAN, timer' \in {"off", "asleep", "due"},
           retry' \in {"none", "queued", "done"}, gaveUp' \in BOOLEAN,
           due' = {} \/ due' = due,
           UNCHANGED <<logged, batch, disk, crashes, answers>>
    PROVE  Types' /\ Unflushed' /\ OneWriter' /\ SavedNotLost'
<1>1. UNCHANGED <<file, dropped, saved, excused, sent, refused, reported>>
  BY DEF disk, answers
<1>2. Len(buffer') <= MaxBuffer /\ ToSet(buffer') = {} /\ buffer' \in Seq(Event)
  BY BoundAssumption DEF BoundAssumption, ToSet
<1>3. Types'
  BY <1>1, <1>2 DEF IInv, Types
<1>4. Unflushed'
  BY <1>2 DEF IInv, Unflushed
<1>5. FileEvents' = FileEvents
  BY <1>1 DEF FileEvents
<1>6. OneWriter' /\ SavedNotLost'
  BY <1>1, <1>5 DEF IInv, OneWriter, Writes, Content, SavedNotLost, At
<1>7. QED
  BY <1>3, <1>4, <1>6

LEMMA StepStartSession ==
    ASSUME IInv, StartSession
    PROVE  IInv'
<1>1. session' \in 0 .. MaxSessions
  BY BoundAssumption DEF IInv, Types, StartSession, BoundAssumption
<1>2. Types' /\ Unflushed' /\ OneWriter' /\ SavedNotLost'
  BY <1>1, SessionStep DEF IInv, Types, StartSession, Phase
<1>3. DueIsSafe' /\ ClosedIsIdle'
  BY DEF StartSession, DueIsSafe, ClosedIsIdle
<1>4. QED
  BY <1>2, <1>3 DEF IInv

LEMMA StepShutdownReturns ==
    ASSUME IInv, ShutdownReturns
    PROVE  IInv'
<1>1. Types' /\ Unflushed' /\ OneWriter' /\ SavedNotLost'
  BY SessionStep DEF IInv, Types, ShutdownReturns, Phase, tasks
<1>2. /\ UNCHANGED <<session, due, gaveUp, batch, file, dropped, excused, sent, refused>>
      /\ phase = "stopping"
  BY DEF ShutdownReturns, disk, answers
<1>3. ClosedIsIdle'
  BY <1>2 DEF ShutdownReturns, ClosedIsIdle, Busy, Late
<1>4. DueIsSafe'
  <2> SUFFICES ASSUME ~ gaveUp, ~ excused, NEW e \in due
               PROVE  Safe(e)'
    BY <1>2 DEF DueIsSafe
  <2>1. Safe(e) /\ Busy \subseteq Late
    BY DEF IInv, DueIsSafe, ShutdownReturns
  <2>2. ASSUME NEW b \in Event, batch[b].stage \notin {"none", "over"}
        PROVE  batch[b].stage = "queued" /\ e \notin Events(b)
    BY <2>1, <2>2 DEF Busy, Late, Events
  <2>3. e \in sent \cup refused \cup dropped \cup FileEvents
    BY <1>2, <2>1, <2>2 DEF Safe, At, Writes
  <2>4. QED
    BY <1>2, <2>3 DEF Safe, FileEvents
<1>5. QED
  BY <1>1, <1>3, <1>4 DEF IInv

LEMMA StepShutdownTimesOut ==
    ASSUME IInv, ShutdownTimesOut
    PROVE  IInv'
<1>1. Types' /\ Unflushed' /\ OneWriter' /\ SavedNotLost'
  BY SessionStep DEF IInv, Types, ShutdownTimesOut, Phase, tasks
<1>2. DueIsSafe' /\ ClosedIsIdle'
  BY DEF ShutdownTimesOut, DueIsSafe, ClosedIsIdle
<1>3. QED
  BY <1>1, <1>2 DEF IInv

-----------------------------------------------------------------------------
(* The task of a batch.                                                    *)

LEMMA GotoParts ==
    ASSUME Types, NEW b \in Event, NEW from \in Stage, NEW to \in Stage,
           Goto(b, from, to)
    PROVE  /\ batch[b].stage = from /\ batch' \in [Event -> Batch]
           /\ batch'[b].stage = to /\ batch'[b].session = batch[b].session
           /\ batch'[b].events = batch[b].events
           /\ batch'[b].content = batch[b].content
           /\ \A c \in Event \ {b} : batch'[c] = batch[c]
BY DEF Types, Goto, At, Batch

\* A batch that is not at the file moves on, with its events safe elsewhere or
\* no longer due.
LEMMA SendingStep ==
    ASSUME IInv, NEW b \in Event, NEW from \in {"queued", "sending"},
           NEW to \in {"sending", "save", "over"}, Goto(b, from, to),
           sent \subseteq sent', refused \subseteq refused',
           sent' \subseteq Event, refused' \subseteq Event, reported' \subseteq Event,
           to = "over" => \/ from = "queued" /\ ~ (phase \in Open /\ batch[b].session = session)
                          \/ Events(b) \subseteq sent' \cup refused',
           from = "queued" /\ to # "over" => phase \in Open,
           UNCHANGED <<session_, events_, tasks, disk, crashes>>
    PROVE  IInv'
<1>0. UNCHANGED <<phase, session, due, gaveUp, logged, buffer, marked, timer, retry,
                  file, dropped, saved, excused, crashes>>
  BY DEF session_, events_, tasks, disk
<1>1. /\ batch[b].stage = from /\ batch' \in [Event -> Batch]
      /\ batch'[b].stage = to /\ batch'[b].session = batch[b].session
      /\ batch'[b].events = batch[b].events
      /\ \A c \in Event \ {b} : batch'[c] = batch[c]
  BY GotoParts DEF IInv, Stage
<1>2. Types'
  BY <1>0, <1>1 DEF IInv, Types
<1>3. Unflushed'
  <2>1. \A e \in Event : batch[e].stage = "none" => batch'[e] = batch[e]
    BY <1>1
  <2>2. ToSet(buffer) \subseteq Event
    BY EventsInSet DEF IInv, Types
  <2>3. QED
    BY <1>0, <2>1, <2>2 DEF IInv, Unflushed
<1>4. /\ FileEvents' = FileEvents
      /\ \A c \in Event : /\ Writes(c)' <=> Writes(c)
                          /\ Writes(c) => Content(c)' = Content(c)
                          /\ At(c, "close")' <=> At(c, "close")
                          /\ At(c, "close") => Writes(c)
  BY <1>0, <1>1 DEF FileEvents, Writes, Content, At
<1>5. OneWriter'
  BY <1>0, <1>4 DEF IInv, OneWriter
<1>6. SavedNotLost'
  BY <1>0, <1>4, SavedStays DEF IInv
<1>7. DueIsSafe'
  <2> SUFFICES ASSUME ~ gaveUp, ~ excused, NEW e \in due
               PROVE  Safe(e)'
    BY <1>0 DEF DueIsSafe
  <2>1. Safe(e)
    BY DEF IInv, DueIsSafe
  <2>2. CASE phase = "running" /\ e \in ToSet(buffer)
    BY <1>0, <2>2 DEF Safe
  <2>3. ASSUME NEW c \in Event, batch[c].stage \in {"queued", "sending", "save"},
               c # b, e \in Events(c),
               batch[c].stage = "queued" => phase \in Open /\ batch[c].session = session
        PROVE  Safe(e)'
    <3>1. batch'[c] = batch[c]
      BY <1>1, <2>3
    <3>2. QED
      BY <1>0, <2>3, <3>1 DEF Safe, At, Events
  <2>4. ASSUME e \in Events(b),
               from = "queued" => phase \in Open /\ batch[b].session = session
        PROVE  Safe(e)'
    <3>1. CASE to = "over"
      BY <2>4, <3>1 DEF Safe
    <3>2. CASE to # "over"
      BY <1>1, <2>4, <3>2 DEF Safe, Events
    <3>3. QED
      BY <3>1, <3>2
  <2>5. CASE \E c \in Event : Writes(c) /\ e \in Content(c)
    BY <1>4, <2>5 DEF Safe
  <2>6. CASE e \in sent \cup refused \cup dropped \cup FileEvents
    BY <1>0, <1>4, <2>6 DEF Safe
  <2>7. QED
    BY <1>1, <2>1, <2>2, <2>3, <2>4, <2>5, <2>6 DEF Safe, At
<1>8. ClosedIsIdle'
  <2> SUFFICES ASSUME phase = "closed", ~ gaveUp, NEW c \in Busy'
               PROVE  c \in Late'
    BY <1>0 DEF ClosedIsIdle
  <2>1. Busy \subseteq Late
    BY DEF IInv, ClosedIsIdle
  <2>2. b \in Busy => to = "over"
    BY <1>1, <2>1 DEF Late, Open
  <2>3. c # b /\ batch'[c] = batch[c] /\ c \in Event
    BY <1>1, <2>2 DEF Busy
  <2>4. c \in Late
    BY <2>1, <2>3 DEF Busy
  <2>5. QED
    BY <1>0, <2>3, <2>4 DEF Late
<1>9. QED
  BY <1>2, <1>3, <1>5, <1>6, <1>7, <1>8 DEF IInv

LEMMA StepSend ==
    ASSUME IInv, NEW b \in Event,
           Send(b) \/ SendExpired(b) \/ Taken(b) \/ Refused(b) \/ SendFails(b)
    PROVE  IInv'
<1>1. /\ sent \subseteq Event /\ refused \subseteq Event /\ reported \subseteq Event
      /\ Events(b) \subseteq Event
  BY EventsInSet DEF IInv, Types, Batch, Events
<1>2. CASE Send(b)
  BY <1>1, <1>2, SendingStep DEF Send, answers
<1>3. CASE SendExpired(b)
  BY <1>1, <1>3, SendingStep DEF SendExpired, answers
<1>4. CASE Taken(b)
  BY <1>1, <1>4, SendingStep DEF Taken
<1>5. CASE Refused(b)
  BY <1>1, <1>5, SendingStep DEF Refused
<1>6. CASE SendFails(b)
  BY <1>1, <1>6, SendingStep DEF SendFails, answers
<1>7. QED
  BY <1>2, <1>3, <1>4, <1>5, <1>6

-----------------------------------------------------------------------------
(* The file.                                                               *)

\* What every step of saving leaves alone: the buffer, the batches not begun,
\* and the pool, which such a step shows not to have finished.
LEMMA SavingStep ==
    ASSUME IInv, NEW b \in Event, batch[b].stage \in {"save", "open", "close"},
           batch' \in [Event -> Batch], batch'[b].stage \in {"open", "close", "over"},
           \A c \in Event \ {b} : batch'[c] = batch[c],
           file' \in {None, Torn} \cup Saves, dropped' \subseteq Event,
           saved' \subseteq Event, excused' \in BOOLEAN,
           UNCHANGED <<session_, events_, tasks, crashes, answers>>
    PROVE  Types' /\ Unflushed' /\ ClosedIsIdle'
<1>0. UNCHANGED <<phase, session, due, gaveUp, logged, buffer, marked, timer, retry,
                  crashes, sent, refused, reported>>
  BY DEF session_, events_, tasks, answers
<1>1. Types'
  BY <1>0 DEF IInv, Types
<1>2. Unflushed'
  <2>1. \A e \in Event : batch[e].stage = "none" => batch'[e] = batch[e]
    OBVIOUS
  <2>2. ToSet(buffer) \subseteq Event
    BY EventsInSet DEF IInv, Types
  <2>3. QED
    BY <1>0, <2>1, <2>2 DEF IInv, Unflushed
<1>3. ClosedIsIdle'
  <2>1. b \in Busy /\ b \notin Late
    BY DEF Busy, Late
  <2>2. ~ (phase = "closed" /\ ~ gaveUp)
    BY <2>1 DEF IInv, ClosedIsIdle
  <2>3. QED
    BY <1>0, <2>2 DEF ClosedIsIdle
<1>4. QED
  BY <1>1, <1>2, <1>3

\* The events that are safe without the batch b and the file stay so.
LEMMA SafeStays ==
    ASSUME NEW b \in Event, NEW e, Safe(e),
           \A c \in Event \ {b} : batch'[c] = batch[c],
           UNCHANGED <<phase, session, buffer, sent, refused>>,
           dropped \subseteq dropped',
           e \in FileEvents => Safe(e)',
           batch[b].stage = "save" /\ e \in Events(b) => Safe(e)',
           Writes(b) /\ e \in Content(b) => Safe(e)',
           batch[b].stage \notin {"queued", "sending"}
    PROVE  Safe(e)'
<1>1. CASE phase = "running" /\ e \in ToSet(buffer)
  BY <1>1 DEF Safe
<1>2. ASSUME NEW c \in Event, batch[c].stage \in {"queued", "sending", "save"},
             e \in Events(c),
             batch[c].stage = "queued" => phase \in Open /\ batch[c].session = session
      PROVE  Safe(e)'
  <2>1. CASE c = b
    BY <1>2, <2>1
  <2>2. CASE c # b
    <3>1. batch'[c] = batch[c]
      BY <2>2
    <3>2. QED
      BY <1>2, <3>1 DEF Safe, At, Events
  <2>3. QED
    BY <2>1, <2>2
<1>3. ASSUME NEW c \in Event, Writes(c), e \in Content(c)
      PROVE  Safe(e)'
  <2>1. CASE c = b
    BY <1>3, <2>1
  <2>2. CASE c # b
    <3>1. batch'[c] = batch[c]
      BY <2>2
    <3>2. QED
      BY <1>3, <3>1 DEF Safe, Writes, Content
  <2>3. QED
    BY <2>1, <2>2
<1>4. CASE e \in sent \cup refused \cup dropped
  BY <1>4 DEF Safe
<1>5. QED
  BY <1>1, <1>2, <1>3, <1>4 DEF Safe, At

LEMMA StepSaveFailedEvents ==
    ASSUME IInv, NEW b \in Event, SaveFailedEvents(b)
    PROVE  IInv'
<1> DEFINE old == IF file \in {None, Torn} THEN <<>> ELSE file
           all == <<[attempts |-> 1, events |-> batch[b].events]>> \o old
           kept == IF Len(all) > MaxPayloads THEN Front(all) ELSE all
<1>0. /\ batch[b].stage = "save" /\ batch[b].events \in Seq(Event)
      /\ batch \in [Event -> Batch] /\ dropped \subseteq Event
      /\ UNCHANGED <<phase, session, due, gaveUp, buffer, file, saved, sent, refused>>
  BY DEF SaveFailedEvents, IInv, Types, Batch, At, session_, events_, answers
<1>1. old \in Saves /\ EventsOf(old) = FileEvents
  BY FileParts DEF IInv
<1>2. /\ all = <<[attempts |-> 1, events |-> batch[b].events]>> \o old
      /\ kept = IF Len(all) > MaxPayloads THEN Front(all) ELSE all
  OBVIOUS
<1>3. /\ batch' = [batch EXCEPT ![b].stage = "open", ![b].content = kept]
      /\ dropped' = dropped \cup (EventsOf(all) \ EventsOf(kept))
      /\ excused' = (excused \/ Writing(b) # {})
  BY DEF SaveFailedEvents
<1> HIDE DEF old, all, kept
<1>4. /\ kept \in Saves /\ EventsOf(all) \subseteq Event
      /\ Events(b) \cup FileEvents \subseteq EventsOf(all)
  <2> DEFINE events == batch[b].events
  <2>1. events \in Seq(Event) /\ Events(b) = ToSet(events)
    BY <1>0 DEF Events
  <2>2. all = <<[attempts |-> 1, events |-> events]>> \o old
    BY <1>2
  <2> HIDE DEF events
  <2>3. /\ kept \in Saves /\ EventsOf(all) \subseteq Event
        /\ ToSet(events) \cup EventsOf(old) \subseteq EventsOf(all)
    BY <1>1, <1>2, <2>1, <2>2, SavedPayloads
  <2>4. QED
    BY <1>1, <2>1, <2>3
<1>5. /\ batch' \in [Event -> Batch] /\ batch'[b].stage = "open"
      /\ batch'[b].content = kept /\ \A c \in Event \ {b} : batch'[c] = batch[c]
  BY <1>0, <1>4, <1>3 DEF Batch, Stage
<1>6. Types' /\ Unflushed' /\ ClosedIsIdle'
  <2>1. dropped' \subseteq Event /\ excused' \in BOOLEAN
    BY <1>0, <1>4, <1>3 DEF IInv, Types
  <2>2. file' \in {None, Torn} \cup Saves /\ saved' \subseteq Event
    BY <1>0 DEF IInv, Types
  <2>3. QED
    BY <1>0, <1>5, <2>1, <2>2, SavingStep DEF SaveFailedEvents
<1>7. /\ FileEvents' = FileEvents /\ Writes(b)' /\ ~ Writes(b)
      /\ Content(b)' = EventsOf(kept)
      /\ \A c \in Event \ {b} : (Writes(c)' <=> Writes(c)) /\ Content(c)' = Content(c)
  BY <1>0, <1>5 DEF FileEvents, Writes, Content
<1>8. Events(b) \cup FileEvents \subseteq Content(b)' \cup dropped'
  BY <1>4, <1>3, <1>7
<1>9. OneWriter'
  <2>1. ~ excused' => \A c \in Event : Writes(c)' => c = b
    BY <1>3, <1>7 DEF Writing, Writes
  <2>2. QED
    BY <1>7, <1>8, <2>1 DEF OneWriter
<1>10. SavedNotLost'
  <2>1. \A c \in Event : At(c, "close") => At(c, "close")' /\ Content(c)' = Content(c)
    BY <1>0, <1>5 DEF At, Content
  <2>2. QED
    BY <1>0, <1>3, <1>7, <2>1, SavedStays DEF IInv
<1>11. DueIsSafe'
  <2> SUFFICES ASSUME ~ gaveUp, ~ excused, NEW e \in due
               PROVE  Safe(e)'
    BY <1>0, <1>3 DEF DueIsSafe
  <2>1. Safe(e)
    BY DEF IInv, DueIsSafe
  <2>2. e \in Events(b) \cup FileEvents => Safe(e)'
    BY <1>7, <1>8 DEF Safe
  <2>3. dropped \subseteq dropped'
    BY <1>3
  <2>4. QED
    BY <1>0, <1>5, <1>7, <2>1, <2>2, <2>3, SafeStays
<1>12. QED
  BY <1>6, <1>9, <1>10, <1>11 DEF IInv

LEMMA StepOpenFile ==
    ASSUME IInv, NEW b \in Event, OpenFile(b)
    PROVE  IInv'
<1>0. /\ file' = Torn
      /\ UNCHANGED <<phase, session, due, gaveUp, buffer, dropped, saved, excused, sent, refused>>
  BY DEF OpenFile, session_, events_, answers
<1>1. /\ batch[b].stage = "open" /\ batch' \in [Event -> Batch]
      /\ batch'[b].stage = "close" /\ batch'[b].content = batch[b].content
      /\ \A c \in Event \ {b} : batch'[c] = batch[c]
  BY GotoParts DEF IInv, OpenFile, Stage
<1>2. Types' /\ Unflushed' /\ ClosedIsIdle'
  <2>1. /\ file' \in {None, Torn} \cup Saves /\ dropped' \subseteq Event
        /\ saved' \subseteq Event /\ excused' \in BOOLEAN
    BY <1>0 DEF IInv, Types
  <2>2. QED
    BY <1>1, <2>1, SavingStep DEF OpenFile
<1>3. /\ FileEvents' = {} /\ Writes(b) /\ At(b, "close")' /\ ~ At(b, "close")
      /\ \A c \in Event : /\ Writes(c)' <=> Writes(c)
                          /\ Content(c)' = Content(c)
                          /\ At(c, "close") => At(c, "close")'
  BY <1>0, <1>1 DEF FileEvents, Writes, Content, At
<1>4. OneWriter'
  BY <1>0, <1>3 DEF IInv, OneWriter
<1>5. ~ excused => FileEvents \subseteq Content(b) \cup dropped
  BY <1>3 DEF IInv, OneWriter
<1>6. SavedNotLost'
  BY <1>0, <1>3, <1>5, SavedEvents DEF IInv, SavedStands
<1>7. DueIsSafe'
  <2> SUFFICES ASSUME ~ gaveUp, ~ excused, NEW e \in due
               PROVE  Safe(e)'
    BY <1>0 DEF DueIsSafe
  <2>1. Safe(e)
    BY DEF IInv, DueIsSafe
  <2>2. e \in Content(b) \cup dropped => Safe(e)'
    BY <1>0, <1>3 DEF Safe
  <2>3. QED
    BY <1>0, <1>1, <1>5, <2>1, <2>2, SafeStays
<1>8. QED
  BY <1>2, <1>4, <1>6, <1>7 DEF IInv

LEMMA StepOpenFails ==
    ASSUME IInv, NEW b \in Event, OpenFails(b)
    PROVE  IInv'
<1>1. /\ batch[b].stage = "open" /\ batch' \in [Event -> Batch]
      /\ batch'[b].stage = "over" /\ batch'[b].content = batch[b].content
      /\ \A c \in Event \ {b} : batch'[c] = batch[c]
  BY GotoParts DEF IInv, OpenFails, Stage
<1>2. Types' /\ Unflushed' /\ ClosedIsIdle'
  <2>1. /\ file' \in {None, Torn} \cup Saves /\ dropped' \subseteq Event
        /\ saved' \subseteq Event /\ excused' \in BOOLEAN
    BY DEF IInv, Types, OpenFails
  <2>2. QED
    BY <1>1, <2>1, SavingStep DEF OpenFails
<1>3. OneWriter' /\ SavedNotLost' /\ DueIsSafe'
  BY DEF OpenFails, OneWriter, SavedNotLost, DueIsSafe
<1>4. QED
  BY <1>2, <1>3 DEF IInv

LEMMA StepCloseFile ==
    ASSUME IInv, NEW b \in Event, CloseFile(b)
    PROVE  IInv'
<1>0. UNCHANGED <<phase, session, due, gaveUp, buffer, dropped, excused, sent, refused>>
  BY DEF CloseFile, session_, events_, answers
<1>1. /\ batch[b].stage = "close" /\ batch' \in [Event -> Batch]
      /\ batch'[b].stage = "over" /\ batch[b].content \in Saves
      /\ \A c \in Event \ {b} : batch'[c] = batch[c]
  BY GotoParts DEF IInv, Types, Batch, CloseFile, Stage
<1>2. \/ file' = batch[b].content /\ saved' = saved \cup Content(b)
      \/ Writing(b) # {} /\ file' = Torn /\ saved' = saved
  BY DEF CloseFile, Content
<1>3. Content(b) \subseteq Event
  BY <1>1, PayloadEvents DEF Content, Saves
<1>4. Types' /\ Unflushed' /\ ClosedIsIdle'
  <2>1. /\ file' \in {None, Torn} \cup Saves /\ dropped' \subseteq Event
        /\ saved' \subseteq Event /\ excused' \in BOOLEAN
    BY <1>0, <1>1, <1>2, <1>3 DEF IInv, Types
  <2>2. QED
    BY <1>1, <2>1, SavingStep DEF CloseFile
<1>5. /\ Writes(b) /\ ~ Writes(b)'
      /\ \A c \in Event \ {b} : /\ Writes(c)' <=> Writes(c)
                                /\ At(c, "close")' <=> At(c, "close")
                                /\ At(c, "close") => Writes(c)
  BY <1>1 DEF Writes, At
<1>6. \* Without another writer the file is what b has read and added to.
      ASSUME ~ excused
      PROVE  /\ \A c \in Event : Writes(c) => c = b
             /\ FileEvents' = Content(b) /\ saved' = saved \cup Content(b)
             /\ FileEvents \subseteq Content(b) \cup dropped
  <2>1. /\ \A c \in Event : Writes(c) => c = b
        /\ FileEvents \subseteq Content(b) \cup dropped
    BY <1>5, <1>6 DEF IInv, OneWriter
  <2>2. Writing(b) = {}
    BY <2>1 DEF Writing, Writes
  <2>3. file' = batch[b].content /\ saved' = saved \cup Content(b)
    BY <1>2, <2>2
  <2>4. file' \notin {None, Torn}
    BY <1>1, <2>3, FileAssumption DEF Saves, FileAssumption
  <2>5. QED
    BY <2>1, <2>3, <2>4 DEF FileEvents, Content
<1>7. OneWriter'
  BY <1>0, <1>5, <1>6 DEF OneWriter
<1>8. SavedNotLost'
  <2> SUFFICES ASSUME ~ excused, NEW e \in saved'
               PROVE  e \in dropped \cup Content(b)
    BY <1>0, <1>6, SavedEvents DEF SavedStands
  <2>1. CASE e \in Content(b)
    BY <2>1
  <2>2. CASE e \in saved
    BY <1>5, <1>6, <2>2, SavedEvents DEF IInv, SavedStands
  <2>3. QED
    BY <1>6, <2>1, <2>2
<1>9. DueIsSafe'
  <2> SUFFICES ASSUME ~ gaveUp, ~ excused, NEW e \in due
               PROVE  Safe(e)'
    BY <1>0 DEF DueIsSafe
  <2>1. Safe(e)
    BY DEF IInv, DueIsSafe
  <2>2. e \in Content(b) \cup dropped => Safe(e)'
    BY <1>0, <1>6 DEF Safe
  <2>3. QED
    BY <1>0, <1>1, <1>6, <2>1, <2>2, SafeStays
<1>10. QED
  BY <1>4, <1>7, <1>8, <1>9 DEF IInv

LEMMA StepCrash ==
    ASSUME IInv, Crash
    PROVE  IInv'
<1>0. /\ batch \in [Event -> Batch] /\ MaxSessions \in Nat /\ MaxCrashes \in Nat
      /\ UNCHANGED <<session, logged, file, dropped, saved, sent, refused, reported>>
      /\ buffer' = <<>> /\ due' = {} /\ phase' = "none"
  BY BoundAssumption DEF IInv, Types, BoundAssumption, Crash, answers
<1> DEFINE q == [NoBatch EXCEPT !.stage = "over"]
<1>1. q \in Batch /\ q.stage = "over"
  <2>1. <<>> \in Seq(Event) /\ <<>> \in Saves
    BY BoundAssumption DEF Saves, BoundAssumption
  <2>2. "none" \in Stage /\ 0 \in 0 .. MaxSessions
    BY <1>0 DEF Stage
  <2>3. NoBatch \in Batch
    BY <2>1, <2>2, Zenon DEF NoBatch, Batch
  <2>4. QED
    BY <2>3 DEF Batch, Stage
<1>2. batch' = [b \in Event |-> IF b \in Busy THEN q ELSE batch[b]]
  BY DEF Crash
<1> HIDE DEF q
<1>3. /\ batch' \in [Event -> Batch]
      /\ \A b \in Event : batch'[b].stage \in {"none", "over"}
      /\ \A b \in Event : batch[b].stage = "none" => batch'[b] = batch[b]
  BY <1>0, <1>1, <1>2 DEF Busy
<1>4. crashes' \in 0 .. MaxCrashes /\ excused' \in BOOLEAN
  BY <1>0 DEF Crash, IInv, Types
<1>5. Len(buffer') <= MaxBuffer /\ ToSet(buffer') = {} /\ buffer' \in Seq(Event)
  BY <1>0, BoundAssumption DEF BoundAssumption, ToSet
<1>6. Types'
  BY <1>0, <1>3, <1>4, <1>5 DEF IInv, Types, Phase, Crash
<1>7. Unflushed'
  BY <1>0, <1>3, <1>5 DEF IInv, Unflushed
<1>8. OneWriter'
  BY <1>3 DEF OneWriter, Writes
<1>9. SavedNotLost'
  <2>1. FileEvents' = FileEvents
    BY <1>0 DEF FileEvents
  <2>2. ~ excused' => ~ excused /\ \A b \in Event : ~ At(b, "close")
    BY DEF Crash
  <2>3. QED
    BY <1>0, <2>1, <2>2, SavedStays DEF IInv
<1>10. DueIsSafe' /\ ClosedIsIdle'
  BY <1>0 DEF DueIsSafe, ClosedIsIdle
<1>11. QED
  BY <1>6, <1>7, <1>8, <1>9, <1>10 DEF IInv

-----------------------------------------------------------------------------
(* The invariant holds, and what it says of the properties.                *)

LEMMA InitIInv == Init => IInv
<1> SUFFICES ASSUME Init
             PROVE  IInv
  OBVIOUS
<1>1. Types
  <2>1. <<>> \in Seq(Event) /\ <<>> \in Saves /\ Len(<<>>) <= MaxBuffer
    BY BoundAssumption DEF Saves, BoundAssumption
  <2>2. "none" \in Stage /\ 0 \in 0 .. MaxSessions /\ 0 \in 0 .. MaxCrashes
        /\ 0 \in 0 .. MaxEvents
    BY BoundAssumption DEF Stage, BoundAssumption
  <2>3. NoBatch \in Batch
    BY <2>1, <2>2, Zenon DEF NoBatch, Batch
  <2>4. QED
    BY <2>1, <2>2, <2>3 DEF Init, Types, Phase
<1>2. /\ \A b \in Event : batch[b].stage = "none"
      /\ ToSet(buffer) = {}
  BY DEF Init, NoBatch, ToSet
<1>3. QED
  BY <1>1, <1>2 DEF Init, IInv, Unflushed, OneWriter, Writes, SavedNotLost,
     DueIsSafe, ClosedIsIdle

LEMMA StepIInv == IInv /\ [Next]_vars => IInv'
<1> SUFFICES ASSUME IInv, [Next]_vars
             PROVE  IInv'
  OBVIOUS
<1>1. CASE Client \/ Pool \/ Timer
  BY <1>1, StepStartSession, StepLogEvent, StepMark, StepFlush, StepShutdown,
     StepShutdownReturns, StepShutdownTimesOut, StepTimer
     DEF Client, Pool
<1>2. CASE \E b \in Event : Task(b)
  <2> PICK b \in Event : Task(b)
    BY <1>2
  <2>1. QED
    BY StepSend, StepSaveFailedEvents, StepOpenFile, StepOpenFails, StepCloseFile
       DEF Task
<1>3. CASE UNCHANGED vars
  BY <1>3, QuietStep
     DEF vars, session_, events_, tasks, IInv, Types
<1>4. QED
  BY <1>1, <1>2, <1>3, StepCrash DEF Next

LEMMA Inductive == Spec => []IInv
BY InitIInv, StepIInv, PTL DEF Spec

\* Every variable has its type; after every call the buffer is within
\* max_buffer_size_ and the file within kMaxCachedFailedEventPayloadsCount
\* (EventLogger::Enqueue, SaveFailedEvents).
THEOREM TypeCorrect == Spec => []TypeOK
<1>1. IInv => TypeOK
  BY FileAssumption DEF IInv, Types, TypeOK, Phase, Open, Batch, Stage, Saves,
     FileAssumption
<1>2. QED
  BY <1>1, Inductive, PTL

\* When Shutdown has returned Ok each event logged before is with the server,
\* refused by it, in the file or pushed out of it by newer ones, in whichever
\* batch it went and however the tasks took turns (EventLogger::Shutdown,
\* StatsigClient::Shutdown), unless saves overlapped or were cut short.
THEOREM ShutdownHasDelivered == Spec => []ShutdownDelivers
<1>1. IInv => ShutdownDelivers
  <2> SUFFICES ASSUME IInv, phase = "closed", ~ gaveUp, ~ excused, NEW e \in due
               PROVE  e \in sent \cup refused \cup dropped \cup FileEvents
    BY DEF ShutdownDelivers
  <2>1. Safe(e) /\ Busy \subseteq Late
    BY DEF IInv, DueIsSafe, ClosedIsIdle
  <2>2. ASSUME NEW b \in Event, batch[b].stage \notin {"none", "over"}
        PROVE  batch[b].stage = "queued"
    BY <2>1, <2>2 DEF Busy, Late
  <2>3. QED
    BY <2>1, <2>2 DEF Safe, Open, Writes
<1>2. QED
  BY <1>1, Inductive, PTL

\* An event that is in the file of failed payloads stays in it, over other
\* saves, sessions and crashes, until newer payloads push it out
\* (EventLogger::SaveFailedEvents), unless saves overlapped or were cut short.
THEOREM SavedEventsStay == Spec => []SavedNotLost
<1>1. IInv => SavedNotLost
  BY DEF IInv
<1>2. QED
  BY <1>1, Inductive, PTL
=============================================================================
