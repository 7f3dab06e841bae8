---------------------------- MODULE MCUserUpdate ----------------------------
(***************************************************************************)
(* UserUpdate for TLC: u and v have different ids, and w shares u's id, so *)
(* its cache key, but not u's full hash.                                   *)
(***************************************************************************)
EXTENDS UserUpdate

CONSTANTS a, b, x, y

u == [id |-> a, rest |-> x]
v == [id |-> b, rest |-> y]
w == [id |-> a, rest |-> y]

TwoIds == {u, v}
OneId == {u, w}
AllUsers == {u, v, w}
Both == {"sync", "async"}
OnlyAsync == {"async"}
=============================================================================
