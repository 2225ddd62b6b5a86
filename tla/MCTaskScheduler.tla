--------------------------- MODULE MCTaskScheduler ---------------------------
(* Values for the constants of TaskScheduler: the torrent comes first, and   *)
(* the HTTP tasks are of one priority.                                       *)
EXTENDS TaskScheduler

CONSTANTS http1, http2, bt
MCPriority == [t \in Tasks |-> IF t = bt THEN 1 ELSE 0]
MCCreated == [t \in Tasks |-> IF t = http1 THEN 1 ELSE 2]
=============================================================================
