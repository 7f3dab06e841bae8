---------------------------- MODULE TaskService ----------------------------
(***************************************************************************)
(* What AsyncHelper promises to the rest of the SDK: a task handed to      *)
(* RunInBackground waits in line, tasks leave the line in the order in     *)
(* which they joined it, and no task is begun twice.  Threads, locks,      *)
(* wakeups, shutdowns and restarts of the pool do not show here; a task    *)
(* may also stay in the line for ever.                                     *)
(***************************************************************************)
EXTENDS Sequences, FiniteSets

CONSTANT Task

VARIABLES line,    \* tasks that wait, the oldest first
          active,  \* tasks that have begun and not ended
          ended    \* tasks that have ended

vars == <<line, active, ended>>

Waiting == {line[i] : i \in DOMAIN line}

Init == line = <<>> /\ active = {} /\ ended = {}

Submit(k) ==
    /\ k \notin Waiting \cup active \cup ended
    /\ line' = Append(line, k)
    /\ UNCHANGED <<active, ended>>

Begin ==
    /\ line # <<>>
    /\ line' = Tail(line)
    /\ active' = active \cup {Head(line)}
    /\ UNCHANGED ended

End(k) ==
    /\ k \in active
    /\ active' = active \ {k}
    /\ ended' = ended \cup {k}
    /\ UNCHANGED line

Next == Begin \/ \E k \in Task : Submit(k) \/ End(k)

Spec == Init /\ [][Next]_vars
=============================================================================
