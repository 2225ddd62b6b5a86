------------------------------- MODULE Workers -------------------------------
(***************************************************************************)
(* What the HTTP engine promises about the workers that download: each     *)
(* download has at most one that pause_task and delete_task reach.  It     *)
(* starts with no request; a request stays with it until it ends; and only *)
(* one that was asked to delete makes room for another before it has       *)
(* ended.  HttpDownload is one worker, HttpEngine the table that keeps     *)
(* them, TaskScheduler the task manager that counts on them.               *)
(***************************************************************************)
CONSTANT Downloads

VARIABLE worker  \* of each download: "runs", and what its worker was asked for

Init == worker = [d \in Downloads |-> {}]

\* start_download finds none, or one that is being deleted and joins it.
Starts(d) ==
  /\ worker[d] = {} \/ "delete" \in worker[d]
  /\ worker' = [worker EXCEPT ![d] = {"runs"}]

\* pause_task and delete_task.
Asks(d, what) ==
  /\ "runs" \in worker[d]
  /\ worker' = [worker EXCEPT ![d] = @ \cup {what}]

\* It has been asked to, has finished or has failed.
Ends(d) ==
  /\ "runs" \in worker[d]
  /\ worker' = [worker EXCEPT ![d] = {}]

\* destroy, or the end of the process.
AllEnd == worker' = [d \in Downloads |-> {}]

Next ==
  \/ \E d \in Downloads :
       Starts(d) \/ Asks(d, "pause") \/ Asks(d, "delete") \/ Ends(d)
  \/ AllEnd
Spec == Init /\ [][Next]_worker
=============================================================================
