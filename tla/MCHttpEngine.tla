---------------------------- MODULE MCHttpEngine ----------------------------
(* Values for the constants of HttpEngine.                                 *)
EXTENDS HttpEngine

CONSTANTS user1, user2, scheduler, url
MCUsers == {user1, user2}
=============================================================================
