------------------------- MODULE MCAnonymousSession -------------------------
(* The instance of AnonymousSession for TLC: the shortest times for which   *)
(* its assumptions hold and every one of them makes a difference.           *)
EXTENDS AnonymousSession
=============================================================================
