------------------------------ MODULE BtSession ------------------------------
(***************************************************************************)
(* What the torrent engine promises about its torrents: what becomes of a  *)
(* task's status and mark in the registry together with its handle in      *)
(* libtorrent's session.  A handle that a call has brought back does       *)
(* nothing before the scheduler admits its task; only one that has         *)
(* everything completes its task; one leaves the session when it is        *)
(* deleted or has everything.  TorrentEngine is one of the torrents,       *)
(* TaskScheduler the task manager that counts on all of them.              *)
(***************************************************************************)
CONSTANT Torrents

VARIABLE bt \* of each torrent: its task's status and deletion mark, whether its
            \* handle is held or on, and whether libtorrent has all of it

NoHandle == [at |-> "none", whole |-> FALSE]
Init ==
  bt \in [Torrents -> [status : {"absent", "QUEUED"}, del : {FALSE}, handle : {NoHandle}]]

Known(t) == bt[t].status # "absent"
InSession(t) == bt[t].handle.at # "none"

\* find_handle rebuilds a handle that is not in the session, held.
Found(t) == IF InSession(t) THEN {bt[t].handle}
            ELSE [at : {"held"}, whole : BOOLEAN]
Put(handle, at) == [at |-> at, whole |-> handle.whole]
Becomes(t, status, handle) ==
  bt' = [bt EXCEPT ![t] = [status |-> status, del |-> @.del, handle |-> handle]]

-----------------------------------------------------------------------------
\* add_task; what is deleted or in the session is left alone.  There may be no
\* handle, or adding trackers to it fails.
Adds(t) ==
  /\ ~bt[t].del /\ ~InSession(t)
  /\ LET status == IF Known(t) THEN bt[t].status ELSE "RESOLVING"
     IN \/ Becomes(t, status, NoHandle)
        \/ \E h \in Found(t) : Becomes(t, status, h) \/ Becomes(t, "ERROR", h)

\* resume_task, and handle_parsed, which queues a torrent with its metadata.
Queues(t) ==
  /\ Known(t) /\ ~bt[t].del
  /\ Becomes(t, "QUEUED", bt[t].handle)

\* do_resume: of what is queued and not deleted.
Starts(t) ==
  /\ bt[t].status = "QUEUED" /\ ~bt[t].del
  /\ \E h \in Found(t) :
       Becomes(t, "DOWNLOADING", Put(h, "on")) \/ Becomes(t, "ERROR", h)

\* pause_task, of whatever there is.
Pauses(t) ==
  /\ Known(t)
  /\ \E h \in Found(t) : Becomes(t, "PAUSED", Put(h, "held"))

\* delete_task.
Deletes(t) ==
  /\ Known(t) /\ ~bt[t].del
  /\ bt' = [bt EXCEPT ![t] = [status |-> @.status, del |-> TRUE, handle |-> NoHandle]]

-----------------------------------------------------------------------------
\* libtorrent has all of a torrent, and later says so.
Completes(t) ==
  /\ InSession(t)
  /\ Becomes(t, bt[t].status, [at |-> bt[t].handle.at, whole |-> TRUE])
Finishes(t) ==
  /\ Known(t) /\ bt[t].handle.whole
  /\ Becomes(t, "COMPLETED", bt[t].handle)

\* An error, of a handle or of the attempt to build one.
Fails(t) ==
  /\ Known(t)
  /\ Becomes(t, "ERROR", bt[t].handle)

\* The sweep.
Leaves(t) ==
  /\ InSession(t)
  /\ bt[t].del \/ bt[t].handle.whole
  /\ Becomes(t, bt[t].status, NoHandle)

\* The end of the process; start queues all rows.
Restarts ==
  bt' = [t \in Torrents |->
           [status |-> IF Known(t) THEN "QUEUED" ELSE "absent", del |-> FALSE,
            handle |-> NoHandle]]

Next ==
  \/ \E t \in Torrents :
       \/ Adds(t) \/ Queues(t) \/ Starts(t) \/ Pauses(t) \/ Deletes(t)
       \/ Completes(t) \/ Finishes(t) \/ Fails(t) \/ Leaves(t)
  \/ Restarts
Spec == Init /\ [][Next]_bt

\* So what is deleted, paused or not parsed yet does not download.
Held ==
  \A t \in Torrents :
    bt[t].del \/ bt[t].status \in {"PAUSED", "RESOLVING"} => bt[t].handle.at # "on"
=============================================================================
