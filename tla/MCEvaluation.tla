---------------------------- MODULE MCEvaluation ----------------------------
(***************************************************************************)
(* Evaluation for TLC: the application's users differ in both parts, so    *)
(* that a half-assigned one is neither, and the caches may hold values for *)
(* a user that shares only the ids of one of them.                         *)
(***************************************************************************)
EXTENDS Evaluation, TLC

CONSTANTS a, b, x, y

u == [id |-> a, rest |-> x]
v == [id |-> b, rest |-> y]

TwoUsers == {u, v}

\* u and v are alike: exchanging both parts at once exchanges them.
Alike == {f \in Permutations({a, b, x, y}) :
            /\ {f[a], f[b]} = {a, b}
            /\ f[x] = IF f[a] = a THEN x ELSE y
            /\ f[y] = IF f[a] = a THEN y ELSE x}
=============================================================================
