------------------------------ MODULE Request -------------------------------
(***************************************************************************)
(* What the callers of NetworkService count on: a request is answered at   *)
(* most once, only after it was made, and "ok" only if the server has      *)
(* taken it.  A request that is answered "bad" may have been taken all the *)
(* same.  When the process dies, its requests are never answered, and      *)
(* neither is one that ends "unsent": but that the server has not taken.   *)
(***************************************************************************)
CONSTANTS Requests, None

VARIABLES asked, taken, answer

vars == <<asked, taken, answer>>

Init == /\ asked = {} /\ taken = {}
        /\ answer = [r \in Requests |-> None]

Waiting == {r \in asked : answer[r] = None}

Ask(r) == /\ r \notin asked
          /\ asked' = asked \cup {r}
          /\ UNCHANGED <<taken, answer>>

Take(r) == /\ r \in Waiting
           /\ taken' = taken \cup {r}
           /\ UNCHANGED <<asked, answer>>

Answer(r, a) ==
    /\ r \in Waiting
    /\ a = "ok" => r \in taken
    /\ answer' = [answer EXCEPT ![r] = a]
    /\ UNCHANGED <<asked, taken>>

\* It is not even posted, and the caller not told.
Drop(r) ==
    /\ r \in Waiting \ taken
    /\ answer' = [answer EXCEPT ![r] = "unsent"]
    /\ UNCHANGED <<asked, taken>>

\* The process dies.
Lose == /\ answer' = [r \in Requests |-> IF r \in Waiting THEN "lost"
                                                          ELSE answer[r]]
        /\ UNCHANGED <<asked, taken>>

Next == \/ \E r \in Requests :
              Ask(r) \/ Take(r) \/ Answer(r, "ok") \/ Answer(r, "bad") \/ Drop(r)
        \/ Lose

Spec == Init /\ [][Next]_vars
=============================================================================
