---------------------------- MODULE TorrentEngine ----------------------------
(***************************************************************************)
(* TorrentEngine (torrent_engine.cpp) as one torrent meets it: the calls   *)
(* of the API and of the scheduler, the alerts that libtorrent posts and   *)
(* the alert thread handles one by one under mtx_, the thread that asks    *)
(* for resume data, and what of all this is in the database.               *)
(*                                                                         *)
(* Two torrents share only the queue of alerts, which the others may fill, *)
(* and the scheduler, which TaskScheduler models: here it may admit the    *)
(* torrent, or pause it, whenever the code lets it.                        *)
(*                                                                         *)
(* The entry's name and wrapper_name are always empty: read_task, which    *)
(* every entry of a torrent comes from, knows no such columns.             *)
(***************************************************************************)
EXTENDS FileSegments

CONSTANTS
  Threshold, \* a file's progress is told from one part in so many on: 1000
  MaxPartial, \* how many bytes of pieces that are not whole are counted; a bound
  MaxPending, \* how many alerts may be pending when libtorrent goes on; a bound
  MaxEvents  \* how many calls, restarts, failures and dropped alerts; a bound

ASSUME TorrentAssumption ==
  /\ Threshold \in Nat /\ MaxPartial \in Nat /\ MaxPending \in Nat
  /\ MaxEvents \in Nat

VARIABLES
  entry,    \* the Task in the registry
  db,       \* the row of tasks, the rows of task_file, the row of task_bt_resume
  handle,   \* the torrent in the session
  alerts,   \* the alerts about it that are not handled yet, oldest first
  disk,     \* the pieces that are on the disk
  verified, \* the pieces that ever were; history
  dir,      \* whether save_path exists
  events    \* counts them

vars == <<entry, db, handle, alerts, disk, verified, dir, events>>

-----------------------------------------------------------------------------
Statuses ==
  {"absent", "QUEUED", "RESOLVING", "DOWNLOADING", "PAUSED", "COMPLETED", "ERROR"}

\* Task::files: which are listed, and of each the bytes its segments cover and
\* total_done.
NoFiles == [listed |-> {}, segs |-> [f \in Files |-> {}], done |-> [f \in Files |-> 0]]
Entry(status, files) == [status |-> status, del |-> FALSE, files |-> files]
Absent == Entry("absent", NoFiles)
Known == entry.status # "absent"

\* Resume data tell the metadata and which pieces there are; none is {}.
Data(have) == {have}

\* The handle: "held" is paused or in upload_mode.  Whether the metadata are
\* there, the pieces libtorrent has, those it last wrote into resume data,
\* whether that failed to be saved, and how many moves of the storage run.
NoHandle == [at |-> "none", meta |-> FALSE, have |-> {}, saved |-> {},
             missed |-> FALSE, moves |-> 0]
InSession == handle.at # "none"

Alert(type, what) == [type |-> type, what |-> what]

Init ==
  /\ entry = Absent
  /\ db = [task |-> FALSE, files |-> NoFiles, resume |-> {}]
  /\ handle = NoHandle /\ alerts = <<>>
  /\ disk = {} /\ verified = {}
  /\ dir \in BOOLEAN
  /\ events = 0

Counts(n) == events + n <= MaxEvents /\ events' = events + n
Call == Counts(1)
Fault == Counts(1)
World == UNCHANGED <<disk, verified, dir>>

\* Alerts that are not critical are dropped when the queue is full; the alerts
\* of other torrents may be what fills it.
Posts(posted) ==
  /\ Len(alerts) < MaxPending
  /\ \/ alerts' = alerts \o posted /\ UNCHANGED events
     \/ \E n \in 0..Len(posted) - 1 : alerts' = alerts \o SubSeq(posted, 1, n) /\ Fault

-----------------------------------------------------------------------------
(* The session.                                                            *)

\* libtorrent finds nothing missing.
Whole(h) == h.meta /\ h.have = Pieces

\* add_torrent in find_handle, with upload_mode on until do_resume: with resume
\* data, or by the magnet link or the torrent file.
RebuiltOn(meta) ==  \* mutant: upload_mode is not set
  [NoHandle EXCEPT !.at = "on", !.meta = IF db.resume = {} THEN meta ELSE TRUE,
                   !.have = (UNION db.resume) \cap disk]
Rebuilt(meta) ==
  [NoHandle EXCEPT !.at = "held", !.meta = IF db.resume = {} THEN meta ELSE TRUE,
                   !.have = (UNION db.resume) \cap disk]
\* find_handle: what it returns and the alerts that come of it.
Found ==
  IF InSession THEN {[h |-> handle, new |-> <<>>]}
  ELSE {[h |-> h, new |-> <<Alert("added", {})>> \o
                          (IF Whole(h) THEN <<Alert("finished", {})>> ELSE <<>>)] :
          h \in {Rebuilt(meta) : meta \in BOOLEAN}}
Takes(found, at) ==
  handle' = [found.h EXCEPT !.at = at] /\ alerts' = alerts \o found.new
\* It returns none: add_torrent has thrown, and may have posted its error.
FindsNone ==
  /\ ~InSession
  /\ alerts' \in {alerts, Append(alerts, Alert("error", {}))}
  /\ UNCHANGED handle

\* remove_torrent: the alerts that are left name no task any more.
Removes == handle' = NoHandle /\ alerts' = <<>>

-----------------------------------------------------------------------------
(* Calls of the API and of the scheduler.                                  *)

\* add_task: refused for what is being deleted, done if it is in the session.
\* replace_task fails or writes the rows anew; the entry stays if there is one.
\* There may be no handle, or add_tracker throws.
AddTaskUnsaved ==  \* mutant: registered although there is no row
  /\ ~entry.del /\ ~InSession
  /\ db' = [db EXCEPT !.files = NoFiles]
  /\ LET e == IF Known THEN entry ELSE Entry("RESOLVING", NoFiles)
     IN \/ /\ \E found \in Found : Takes(found, found.h.at)
           /\ \/ entry' = e /\ Call
              \/ entry' = [e EXCEPT !.status = "ERROR"] /\ Counts(2)
        \/ entry' = e /\ FindsNone /\ Counts(2)
  /\ World
AddTask ==
  /\ ~entry.del /\ ~InSession
  /\ db' = [db EXCEPT !.task = TRUE, !.files = NoFiles]
  /\ LET e == IF Known THEN entry ELSE Entry("RESOLVING", NoFiles)
     IN \/ /\ \E found \in Found : Takes(found, found.h.at)
           /\ \/ entry' = e /\ Call
              \/ entry' = [e EXCEPT !.status = "ERROR"] /\ Counts(2)
        \/ entry' = e /\ FindsNone /\ Counts(2)
  /\ World

\* resume_task only queues.
ResumeTask ==
  /\ Call /\ Known /\ ~entry.del
  /\ entry' = [entry EXCEPT !.status = "QUEUED"]
  /\ UNCHANGED <<db, handle, alerts>> /\ World

\* do_resume, which the scheduler calls for a queued task.  Changed priorities
\* ask for resume data.  An exception, or no handle, makes it an error.
Dispatch ==
  /\ entry.status = "QUEUED" /\ ~entry.del
  /\ \/ \E found \in Found :
          \/ Takes(found, "on")
             /\ entry' = [entry EXCEPT !.status = "DOWNLOADING"] /\ UNCHANGED events
          \/ /\ found.h.meta
             /\ handle' = [found.h EXCEPT !.at = "on", !.saved = Data(found.h.have)]
             /\ alerts' = alerts \o found.new \o <<Alert("resume", found.h.have)>>
             /\ entry' = [entry EXCEPT !.status = "DOWNLOADING"] /\ UNCHANGED events
          \/ Takes(found, found.h.at)
             /\ entry' = [entry EXCEPT !.status = "ERROR"] /\ Fault
     \/ FindsNone /\ entry' = [entry EXCEPT !.status = "ERROR"] /\ Fault
  /\ UNCHANGED db /\ World

\* pause_task, by the application or the scheduler: even what is being deleted
\* is rebuilt to be paused.
PauseTask ==
  /\ Known
  /\ \/ /\ \E found \in Found : Takes(found, "held")
        /\ entry' = [entry EXCEPT !.status = "PAUSED"] /\ Call
     \/ FindsNone /\ UNCHANGED entry /\ Counts(2)
  /\ UNCHANGED db /\ World

\* delete_task; to delete the files a handle is rebuilt.
DeleteTask ==
  /\ Call /\ Known /\ ~entry.del
  /\ Removes
  /\ entry' = [entry EXCEPT !.del = TRUE]
  /\ disk' \in {disk, {}}
  /\ UNCHANGED <<db, verified, dir>>

\* sweep removes what is deleted, and what has been seeded enough.
Sweep ==
  /\ InSession /\ (entry.del \/ Whole(handle))
  /\ Removes
  /\ UNCHANGED <<entry, db, events>> /\ World

\* destroy, or the end of the process; start queues the rows.
Restart ==
  /\ Call
  /\ Removes
  /\ entry' = IF db.task THEN Entry("QUEUED", db.files) ELSE Absent
  /\ UNCHANGED db /\ World

-----------------------------------------------------------------------------
(* libtorrent, and the threads that ask it.                                *)

Apart == UNCHANGED <<entry, db>>

ReceivesMetadata ==
  /\ InSession /\ ~handle.meta
  /\ handle' = [handle EXCEPT !.meta = TRUE]
  /\ Posts(<<Alert("metadata", {})>>)
  /\ Apart /\ World

\* Pieces that are on the disk are checked without a word.
ChecksPiece ==
  /\ InSession /\ handle.meta
  /\ \E p \in disk \ handle.have :
       handle' = [handle EXCEPT !.have = @ \cup {p}]
  /\ Posts(IF Whole(handle') THEN <<Alert("finished", {})>> ELSE <<>>)
  /\ Apart /\ World

\* A piece is written and verified: piece_finished_alert, file_completed_alert,
\* torrent_finished_alert.
Completed(p) ==
  {f \in Files : p \in PiecesOf(f) /\ PiecesOf(f) \subseteq handle.have \cup {p}}
FileAlerts(p) ==
  {[i \in DOMAIN order |-> Alert("file", {order[i]})] :
     order \in {o \in [1..Cardinality(Completed(p)) -> Completed(p)] :
                  \A i, j \in DOMAIN o : i # j => o[i] # o[j]}}
DownloadsPiece ==
  /\ handle.at = "on" /\ handle.meta
  /\ \E p \in Pieces \ (handle.have \cup disk) :
       /\ handle' = [handle EXCEPT !.have = @ \cup {p}]
       /\ disk' = disk \cup {p}
       /\ verified' = verified \cup {p}
       /\ \E files \in FileAlerts(p) :
            Posts(<<Alert("piece", {p})>> \o files \o
                  (IF Whole(handle') THEN <<Alert("finished", {})>> ELSE <<>>))
  /\ dir' = TRUE
  /\ Apart

\* storage_moved_alert, storage_moved_failed_alert.
MovesStorage ==
  /\ handle.moves > 0
  /\ handle' = [handle EXCEPT !.moves = @ - 1]
  /\ \/ alerts' = Append(alerts, Alert("moved", {})) /\ UNCHANGED events
     \/ alerts' = Append(alerts, Alert("error", {})) /\ Fault
  /\ Apart /\ World

\* torrent_error_alert, file_error_alert, an error in state_update_alert.
SessionFails ==
  /\ InSession /\ Len(alerts) < MaxPending /\ Fault
  /\ alerts' = Append(alerts, Alert("error", {}))
  /\ UNCHANGED handle /\ Apart /\ World

\* resume_loop: what has changed since it was last asked for.
RequestResumeHeld ==  \* mutant: only of what is paused
  /\ handle.at = "held" /\ handle.meta /\ handle.saved # Data(handle.have)
  /\ handle' = [handle EXCEPT !.saved = Data(handle.have)]
  /\ alerts' = Append(alerts, Alert("resume", handle.have))
  /\ UNCHANGED events /\ Apart /\ World
RequestResume ==
  /\ InSession /\ handle.meta /\ handle.saved # Data(handle.have)
  /\ handle' = [handle EXCEPT !.saved = Data(handle.have)]
  /\ alerts' = Append(alerts, Alert("resume", handle.have))
  /\ UNCHANGED events /\ Apart /\ World

-----------------------------------------------------------------------------
(* The alert thread: handle_alert, with mtx_ held.                         *)

Handles(type) ==
  /\ alerts # <<>> /\ Head(alerts).type = type
  /\ alerts' = Tail(alerts)
  /\ World
Says(status) == entry' = IF Known THEN [entry EXCEPT !.status = status] ELSE entry

\* What handle_parsed makes of the files: libtorrent's progress also counts the
\* blocks of pieces that are not whole, and segments go if there is less of it.
Progress ==
  {done \in {[f \in Files |-> Cardinality(Had(f, handle.have)) + partial[f]] :
               partial \in [Files -> 0..MaxPartial]} :
     \A f \in Files : done[f] <= Size[f]}
ParsedKeeps(done) ==  \* mutant: segments stay
  [listed |-> Files, done |-> done, segs |-> entry.files.segs]
Parsed(done) ==
  [listed |-> Files, done |-> done,
   segs |-> [f \in Files |-> IF done[f] < entry.files.done[f] THEN {}
                             ELSE entry.files.segs[f]]]

\* TaskFileStore::save writes file by file and stops at the first that fails.
Saved(files, fs) ==
  [listed |-> db.files.listed \cup fs,
   done |-> [f \in Files |-> IF f \in fs THEN files.done[f] ELSE db.files.done[f]],
   segs |-> [f \in Files |-> IF f \in fs THEN files.segs[f] ELSE db.files.segs[f]]]

\* handle_parsed: lists the files of a task that is there and not deleted, saves
\* them (or some) and queues the task, unless save_path / name exists.  That is
\* save_path, name being empty, and the storage is moved to where it is.
Parses ==
  IF ~Known \/ entry.del THEN UNCHANGED <<entry, db, handle, events>>
  ELSE \E done \in Progress :
         /\ \/ db' = [db EXCEPT !.files = Saved(Parsed(done), Files)] /\ UNCHANGED events
            \/ \E n \in Files :
                 db' = [db EXCEPT !.files = Saved(Parsed(done), {f \in Files : f < n})]
               /\ Fault
         /\ \/ /\ dir /\ handle' = [handle EXCEPT !.moves = @ + 1]
               /\ entry' = [entry EXCEPT !.files = Parsed(done)]
            \/ /\ ~dir /\ UNCHANGED handle
               /\ entry' = [entry EXCEPT !.files = Parsed(done), !.status = "QUEUED"]

\* add_torrent_alert, metadata_received_alert, storage_moved_alert.
HandlesAdded ==
  /\ Handles("added")
  /\ IF handle.meta THEN Parses ELSE UNCHANGED <<entry, db, handle, events>>
HandlesMetadata == Handles("metadata") /\ Parses
HandlesMoved == Handles("moved") /\ Parses

\* handle_piece_finished: the piece's files whose progress has changed enough
\* are brought up to date, with what the bitmap of pieces says now.
Told(f) == LET had == Cardinality(Had(f, handle.have))
               done == entry.files.done[f]
           IN (IF had < done THEN done - had ELSE had - done) * Threshold > Size[f]
Updates(fs) ==
  entry' = [entry EXCEPT
    !.files.segs = [f \in Files |-> IF f \in fs THEN Had(f, handle.have) ELSE @[f]],
    !.files.done = [f \in Files |-> IF f \in fs THEN Cardinality(Had(f, handle.have))
                                    ELSE @[f]]]
HandlesPiece ==
  /\ Handles("piece")
  /\ Updates({f \in entry.files.listed : Head(alerts).what \subseteq PiecesOf(f)
                                         /\ Told(f)})
  /\ UNCHANGED <<db, handle, events>>

HandlesFile ==
  /\ Handles("file")
  /\ LET completed == Head(alerts).what \cap entry.files.listed
     IN entry' = [entry EXCEPT
          !.files.segs = [f \in Files |-> IF f \in completed THEN Bytes(f) ELSE @[f]],
          !.files.done = [f \in Files |-> IF f \in completed THEN Size[f] ELSE @[f]]]
  /\ UNCHANGED <<db, handle, events>>

HandlesFinished ==
  Handles("finished") /\ Says("COMPLETED") /\ UNCHANGED <<db, handle, events>>
\* handle_task_error; ERROR is also FAIL, the error that might be retried.
HandlesError ==
  Handles("error") /\ Says("ERROR") /\ UNCHANGED <<db, handle, events>>

\* save_resume_data_alert.
HandlesResume ==
  /\ Handles("resume") /\ UNCHANGED entry
  /\ IF entry.del THEN UNCHANGED <<db, handle, events>>
     ELSE \/ /\ db' = [db EXCEPT !.resume = Data(Head(alerts).what)]
             /\ handle' = [handle EXCEPT !.missed = FALSE] /\ UNCHANGED events
          \/ UNCHANGED db /\ handle' = [handle EXCEPT !.missed = TRUE] /\ Fault

-----------------------------------------------------------------------------
Called == AddTask \/ ResumeTask \/ PauseTask \/ DeleteTask \/ Restart
Libtorrent == \/ ReceivesMetadata \/ ChecksPiece \/ DownloadsPiece \/ MovesStorage
              \/ SessionFails
HandleAlert == \/ HandlesAdded \/ HandlesMetadata \/ HandlesMoved \/ HandlesPiece
               \/ HandlesFile \/ HandlesFinished \/ HandlesError \/ HandlesResume
Next == Called \/ Dispatch \/ Sweep \/ Libtorrent \/ HandleAlert \/ RequestResume
Spec == Init /\ [][Next]_vars

\* The alert thread and the resume thread loop until destroy, and libtorrent
\* ends the moves it is asked for; it need not receive anything.
Fairness == WF_vars(HandleAlert) /\ WF_vars(RequestResume) /\ WF_vars(MovesStorage)
FairSpec == Spec /\ Fairness

-----------------------------------------------------------------------------
(* Properties.                                                             *)

FilesType == [listed : SUBSET Files, segs : [Files -> SUBSET Nat], done : [Files -> Nat]]
AlertType ==
  [type : {"added", "metadata", "moved", "finished", "error"}, what : {{}}]
  \cup [type : {"piece", "resume"}, what : SUBSET Pieces]
  \cup [type : {"file"}, what : SUBSET Files]
\* Every variable keeps the type its declaration gives it, an entry has a row,
\* and a torrent is in the session with an entry only.
TypeOK ==
  /\ entry \in [status : Statuses, del : BOOLEAN, files : FilesType]
  /\ db \in [task : BOOLEAN, files : FilesType, resume : SUBSET SUBSET Pieces]
  /\ handle \in [at : {"none", "held", "on"}, meta : BOOLEAN, have : SUBSET Pieces,
                 saved : SUBSET SUBSET Pieces, missed : BOOLEAN, moves : Nat]
  /\ alerts \in Seq(AlertType)
  /\ disk \in SUBSET Pieces /\ verified \in SUBSET Pieces
  /\ dir \in BOOLEAN /\ events \in Nat
  /\ Known <=> db.task
  /\ InSession => Known

\* No interval of a file, in the registry or in the database, claims a byte
\* that libtorrent has never verified, although intervals are replaced on
\* alerts that come late, kept over a parse and read back after a restart.
SegmentsVerified ==
  \A files \in {entry.files, db.files} : \A f \in Files :
    files.segs[f] \subseteq Had(f, verified)

\* total_done and segments are written by three handlers and never say more
\* than the file has, nor less in total than in the intervals.
FilesConsistent ==
  \A files \in {entry.files, db.files} : \A f \in Files :
    /\ files.segs[f] \subseteq Bytes(f)
    /\ Cardinality(files.segs[f]) <= files.done[f]
    /\ files.done[f] <= Size[f]

\* What the application is told of a torrent's files holds in both respects.
FilesAreTrue == SegmentsVerified /\ FilesConsistent

\* The loop of handle_piece_finished turns any bitmap that libtorrent may have
\* into intervals that are in order, apart, and cover what is there exactly.
SegmentsAreRuns ==
  \A f \in Files : LET segs == Segments(f, handle.have)
                   IN WellFormed(f, segs) /\ Covered(segs) = Had(f, handle.have)

\* "Rebuilt in upload_mode, which do_resume lifts once it is admitted"
\* (torrent_engine.cpp:130-131): what is deleted, paused or not parsed yet does
\* not download, whichever call has brought its handle back.
HeldUntilAdmitted ==
  entry.del \/ entry.status \in {"PAUSED", "RESOLVING"} => handle.at # "on"

\* That, and what else TaskScheduler counts on: the engine implements BtSession,
\* for one torrent, although its handlers follow alerts that come late.
Session == INSTANCE BtSession WITH
  Torrents <- {"it"},
  bt <- [t \in {"it"} |->
           [status |-> entry.status, del |-> entry.del,
            handle |-> [at |-> handle.at, whole |-> Whole(handle)]]]
SessionSpec == Session!Spec

\* As long as a torrent stays in the session, all it has gets into its resume
\* data, unless the last save of it has failed.
ProgressIsSaved ==
  ~<>[](/\ InSession /\ handle.meta /\ ~entry.del /\ ~handle.missed
        /\ db.resume # Data(handle.have))

\* "RESOLVING: once the metadata are there, events move it to DOWNLOADING"
\* (download_wrapper.h:86-87).
ResolvingEnds ==
  (entry.status = "RESOLVING" /\ handle.meta) ~> (entry.status # "RESOLVING")
=============================================================================
