-------------------------- MODULE MCNetworkService --------------------------
(* NetworkService for TLC: no response, an answer, a status worth a retry.   *)
EXTENDS NetworkService

MCStatus == {-1, 200, 503}
=============================================================================
