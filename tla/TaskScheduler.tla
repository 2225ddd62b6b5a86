---------------------------- MODULE TaskScheduler ----------------------------
(***************************************************************************)
(* TaskManager (task_manager.cpp): the registry of tasks, the scheduler    *)
(* thread that admits and preempts, the maintenance thread that flushes    *)
(* what has changed, and what both engines do to the registry: the calls   *)
(* of the API that are handed to them, and the alerts of libtorrent.       *)
(*                                                                         *)
(* mtx_ is held by the scheduler for all of the "round" below and by       *)
(* everyone else for a single step.  An HTTP pause or delete and the end   *)
(* of an HTTP worker do without it: they happen in the middle of a round,  *)
(* and the registry does not hear of them.                                 *)
(*                                                                         *)
(* A task is in the registry exactly if it has a row in the table of       *)
(* tasks: rows are only written by replace_task, which every entry passes, *)
(* and all of them restore as QUEUED.  So all there is of them is the      *)
(* force that an entry's row keeps.                                        *)
(***************************************************************************)
EXTENDS Naturals, FiniteSets

CONSTANTS
  Https, Torrents,   \* the tasks of either protocol
  Priority, Created, \* what orders them
  Rates,             \* the download rates libtorrent reports
  Maxes,             \* the values of max_concurrent_downloads
  MaxCalls           \* how many calls, changes and restarts; bounds the model

Tasks == Https \cup Torrents

ASSUME SchedulerAssumption ==
  /\ Https \cap Torrents = {}
  /\ IsFiniteSet(Tasks)
  /\ Priority \in [Tasks -> Nat] /\ Created \in [Tasks -> Nat]
  /\ Rates \subseteq Nat /\ 0 \in Rates
  /\ Maxes \subseteq Nat
  /\ MaxCalls \in Nat

VARIABLES
  reg,     \* tasks_: the entry of each task, with the force its row keeps
  worker,  \* of each HTTP task: "runs", and what its context has been asked for
  torrent, \* of each torrent: its handle in the session
  max,     \* config_.max_concurrent_downloads
  net,     \* net_allowed_
  sched,   \* the scheduler thread
  unsaid,  \* the tasks whose status has changed since the last flush; history
  calls    \* counts calls, changes of the configuration and restarts

config == <<max, net>>
vars == <<reg, worker, torrent, config, sched, unsaid, calls>>

-----------------------------------------------------------------------------
Statuses ==
  {"absent", "QUEUED", "RESOLVING", "DOWNLOADING", "PAUSED", "COMPLETED", "ERROR"}
\* absent is a task that is not in the registry; ERROR is also FAIL, the error
\* that libtorrent's caller might retry.
Entry(status, force) ==
  [status |-> status, force |-> force, row |-> force, rate |-> 0,
   dirty |-> FALSE, del |-> FALSE]
Known(t) == reg[t].status # "absent"

\* A torrent's handle: none in the session, held (paused or in upload_mode) or
\* on; the alerts to come; whether libtorrent has all of it.
NoHandle == [at |-> "none", alerts |-> {}, complete |-> FALSE]
\* find_handle rebuilds a handle that is not in the session.  Its metadata may
\* be there or take forever.
At(t, at) == IF torrent[t].at = "none"
             THEN [at |-> at, alerts |-> {"parsed"}, complete |-> FALSE]
             ELSE [torrent[t] EXCEPT !.at = at]
InSession(t) == t \in Torrents /\ torrent[t].at # "none"

Sleeping == [pc |-> "sleep", todo |-> {}, preempted |-> FALSE]
MtxFree == sched.pc # "round"

-----------------------------------------------------------------------------
Queued(t) == reg[t].status = "QUEUED" /\ ~reg[t].del
QueuedTasks == {t \in Tasks : Queued(t)}
Occupies(t) == reg[t].status \in {"DOWNLOADING", "RESOLVING"} /\ ~reg[t].del
Active == {t \in Tasks : Occupies(t)}

\* What the application may be told of a task changes.
Set(t, status) == [reg[t] EXCEPT !.status = status, !.dirty = TRUE]
SetIdleClean(t, status) ==  \* mutant: not marked dirty
  [reg[t] EXCEPT !.status = status, !.rate = 0]
SetIdle(t, status) == [Set(t, status) EXCEPT !.rate = 0]

\* start queues a row, with the force that read_task finds in it.
Restored(force) == [Entry("QUEUED", force) EXCEPT !.dirty = TRUE]

Init ==
  /\ \E rows \in SUBSET Tasks :
       /\ \E forced \in SUBSET Torrents :
            reg = [t \in Tasks |-> IF t \in rows THEN Restored(t \in forced)
                                   ELSE Entry("absent", FALSE)]
       /\ unsaid = rows
  /\ worker = [t \in Https |-> {}]
  /\ torrent = [t \in Torrents |-> NoHandle]
  /\ max \in Maxes /\ net \in BOOLEAN
  /\ sched = Sleeping
  /\ calls = 0

-----------------------------------------------------------------------------
(* Calls of the API.                                                       *)

Counts == calls < MaxCalls /\ calls' = calls + 1
\* Those that take mtx_.
Calls == Counts /\ MtxFree /\ UNCHANGED <<config, sched>>

\* replace_task, and the entry that get_engine_task takes from the row unless
\* there is one, which stays as it is.  Only a torrent is added with force.
Forces(t) == IF t \in Torrents THEN BOOLEAN ELSE {FALSE}
Added(t, status, force) ==
  IF Known(t) THEN [reg[t] EXCEPT !.row = force] ELSE Entry(status, force)
Registers(t, status) ==
  \E force \in Forces(t) : reg' = [reg EXCEPT ![t] = Added(t, status, force)]

\* HttpEngine::add_task starts the download itself, or fails before there is a
\* row; a worker that runs and is not being deleted is left alone.
AddHttp(t) ==
  /\ Calls /\ t \in Https
  /\ \/ "runs" \in worker[t] /\ "delete" \notin worker[t]
        /\ UNCHANGED <<reg, worker>>
     \/ /\ "runs" \notin worker[t] \/ "delete" \in worker[t]
        /\ \/ worker' = [worker EXCEPT ![t] = {"runs"}] /\ Registers(t, "DOWNLOADING")
           \/ worker' = [worker EXCEPT ![t] = {}] /\ UNCHANGED reg
  /\ UNCHANGED torrent

\* TorrentEngine::add_task: a deleted torrent is refused, one in the session
\* left alone.  The handle may not be valid, or libtorrent throw.
AddTorrent(t) ==
  /\ Calls /\ t \in Torrents /\ ~reg[t].del
  /\ torrent[t].at = "none"
  /\ \/ Registers(t, "RESOLVING")
        /\ torrent' = [torrent EXCEPT ![t] = At(t, "held")]
     \/ Registers(t, "RESOLVING") /\ UNCHANGED torrent
     \/ /\ \E force \in BOOLEAN :
             reg' = [reg EXCEPT ![t] = [Added(t, "ERROR", force) EXCEPT
                                          !.status = "ERROR", !.dirty = TRUE]]
        /\ torrent' = [torrent EXCEPT ![t] = At(t, "held")]
  /\ UNCHANGED worker

\* resume_task of either engine only queues.
ResumeTask(t) ==
  /\ Calls /\ Known(t) /\ ~reg[t].del
  /\ \E force \in BOOLEAN :
       reg' = [reg EXCEPT ![t] = [Set(t, "QUEUED") EXCEPT !.force = force]]
  /\ UNCHANGED <<worker, torrent>>

\* HttpEngine's pause_task and delete_task ask the worker, if there is one.
AsksAnyone(t, what) ==  \* mutant: there may be no worker
  worker' = [worker EXCEPT ![t] = @ \cup {what}]
Asks(t, what) ==
  worker' = [worker EXCEPT ![t] = IF "runs" \in @ THEN @ \cup {what} ELSE @]
PauseHttp(t) ==
  /\ Counts /\ t \in Https
  /\ Asks(t, "pause")
  /\ UNCHANGED <<reg, torrent, config, sched>>
DeleteHttp(t) ==
  /\ Counts /\ t \in Https
  /\ Asks(t, "delete")
  /\ UNCHANGED <<reg, torrent, config, sched>>

\* TorrentEngine::pause_task rebuilds the handle to pause it.
PauseTorrent(t) ==
  /\ Calls /\ t \in Torrents /\ Known(t)
  /\ torrent' = [torrent EXCEPT ![t] = At(t, "held")]
  /\ reg' = [reg EXCEPT ![t] = SetIdle(t, "PAUSED")]
  /\ UNCHANGED worker

DeleteTorrent(t) ==
  /\ Calls /\ t \in Torrents /\ Known(t) /\ ~reg[t].del
  /\ torrent' = [torrent EXCEPT ![t] = NoHandle]
  /\ reg' = [reg EXCEPT ![t].del = TRUE, ![t].dirty = TRUE]
  /\ UNCHANGED worker

\* dw_set_config: apply_config.
SetConfig ==
  /\ Counts /\ MtxFree
  /\ max' \in Maxes /\ net' \in BOOLEAN
  /\ UNCHANGED <<reg, worker, torrent, sched>>

\* The process ends, however it does, and TaskManager::start queues every row:
\* a torrent's admission has not taken the force from its row.
Restart ==
  /\ Counts
  /\ reg' = [t \in Tasks |-> IF Known(t) THEN Restored(reg[t].row)
                             ELSE Entry("absent", FALSE)]
  /\ worker' = [t \in Https |-> {}]
  /\ torrent' = [t \in Torrents |-> NoHandle]
  /\ sched' = Sleeping
  /\ UNCHANGED config

-----------------------------------------------------------------------------
(* The engines.                                                            *)

Engine == UNCHANGED <<config, sched, calls>>

\* A worker ends when it is asked to, has finished or has failed.
WorkerEnds(t) ==
  /\ t \in Https /\ "runs" \in worker[t]
  /\ worker' = [worker EXCEPT ![t] = {}]
  /\ UNCHANGED <<reg, torrent>> /\ Engine

\* libtorrent has all of the torrent, which it may find on the disk although it
\* is held; it may not do anything in between.
Completes(t) ==
  /\ InSession(t) /\ ~torrent[t].complete
  /\ torrent' = [torrent EXCEPT ![t].complete = TRUE, ![t].alerts = @ \cup {"finished"}]
  /\ UNCHANGED <<reg, worker>> /\ Engine

\* handle_alert.  The alerts of a torrent that has left the session name no
\* task any more.
Pending(t, alert) == MtxFree /\ t \in Torrents /\ alert \in torrent[t].alerts
Handles(t, alert) ==
  /\ Pending(t, alert)
  /\ torrent' = [torrent EXCEPT ![t].alerts = @ \ {alert}]

\* add_torrent_alert with metadata, metadata_received_alert; when the files
\* must be moved out of the way first, storage_moved_alert.  So one may follow
\* another.
Parsed(t) ==
  /\ Pending(t, "parsed")
  /\ Handles(t, "parsed") \/ UNCHANGED torrent
  /\ reg' = IF Known(t) /\ ~reg[t].del
            THEN [reg EXCEPT ![t] = Set(t, "QUEUED")] ELSE reg
  /\ UNCHANGED worker /\ Engine

Finished(t) ==
  /\ Handles(t, "finished")
  /\ reg' = IF Known(t) THEN [reg EXCEPT ![t] = Set(t, "COMPLETED")] ELSE reg
  /\ UNCHANGED worker /\ Engine

\* state_update_alert, and the alerts that bring an error: add_torrent_alert also
\* does so of a handle that could not be built.
StateUpdate(t) ==
  /\ MtxFree /\ t \in Torrents /\ Known(t)
  /\ \/ \E rate \in Rates :
          /\ InSession(t)
          /\ torrent[t].at = "on" \/ rate = 0
          /\ rate # reg[t].rate
          /\ reg' = [reg EXCEPT ![t].rate = rate, ![t].dirty = TRUE]
     \/ reg' = [reg EXCEPT ![t] = SetIdle(t, "ERROR")]
  /\ UNCHANGED <<worker, torrent>> /\ Engine

\* TorrentEngine::sweep: what has been deleted, and what has been seeded enough.
SweepKeepsDeleted(t) ==  \* mutant: only the seeds are looked at
  /\ MtxFree /\ InSession(t)
  /\ torrent[t].complete
  /\ torrent' = [torrent EXCEPT ![t] = NoHandle]
  /\ UNCHANGED <<reg, worker>> /\ Engine
Sweep(t) ==
  /\ MtxFree /\ InSession(t)
  /\ reg[t].del \/ torrent[t].complete
  /\ torrent' = [torrent EXCEPT ![t] = NoHandle]
  /\ UNCHANGED <<reg, worker>> /\ Engine

-----------------------------------------------------------------------------
(* The maintenance thread: what is dirty is saved and told.                *)

Flush ==
  /\ MtxFree /\ \E t \in Tasks : reg[t].dirty
  /\ unsaid' = {t \in unsaid : ~reg[t].dirty}
  /\ reg' = [t \in Tasks |-> [reg[t] EXCEPT !.dirty = FALSE]]
  /\ UNCHANGED <<worker, torrent, config, sched, calls>>

-----------------------------------------------------------------------------
(* The scheduler thread.                                                   *)

SchedulerFrame == UNCHANGED <<config, calls>>

\* Deleted torrents would need need_delete_session and need_delete_file, which
\* nobody sets, and no HTTP entry is ever deleted.
Erasable(t) == t \in Https /\ reg[t].del /\ ~reg[t].dirty

BeginRoundIdle ==  \* mutant: what has no rate is not paused
  /\ sched.pc = "sleep"
  /\ reg' = [t \in Tasks |-> IF Erasable(t) THEN Entry("absent", FALSE) ELSE reg[t]]
  /\ sched' = IF net THEN [Sleeping EXCEPT !.pc = "round"]
              ELSE [Sleeping EXCEPT !.pc = "pause",
                                    !.todo = {t \in Active : reg[t].rate > 0}]
  /\ UNCHANGED <<worker, torrent>> /\ SchedulerFrame
BeginRound ==
  /\ sched.pc = "sleep"
  /\ reg' = [t \in Tasks |-> IF Erasable(t) THEN Entry("absent", FALSE) ELSE reg[t]]
  /\ sched' = IF net THEN [Sleeping EXCEPT !.pc = "round"]
              ELSE [Sleeping EXCEPT !.pc = "pause", !.todo = Active]
  /\ UNCHANGED <<worker, torrent>> /\ SchedulerFrame

\* The order of admission: force, priority, age.
BetterUnforced(t, u) ==  \* mutant: priority before force
  \/ Priority[t] > Priority[u]
  \/ Priority[t] = Priority[u] /\ Created[t] < Created[u]
Better(t, u) ==
  \/ reg[t].force /\ ~reg[u].force
  \/ /\ reg[t].force <=> reg[u].force
     /\ \/ Priority[t] > Priority[u]
        \/ Priority[t] = Priority[u] /\ Created[t] < Created[u]
Foremost(t) == t \in QueuedTasks /\ \A u \in QueuedTasks : ~Better(u, t)

ActiveCountQueued ==  \* mutant: the queued are counted too
  Cardinality(Active \cup QueuedTasks)
ActiveCount == Cardinality(Active)

InRound == sched.pc = "round" /\ max > 0
Full == ActiveCount >= max
Downloading(t) == reg[t].status = "DOWNLOADING" /\ ~reg[t].del
Slowest(t) ==
  Downloading(t) /\ \A u \in Tasks : Downloading(u) => reg[t].rate <= reg[u].rate

\* pause_task of either engine, called by the scheduler.
EnginePauses(t) ==
  IF t \in Https THEN Asks(t, "pause") /\ UNCHANGED torrent
  ELSE torrent' = [torrent EXCEPT ![t] = At(t, "held")] /\ UNCHANGED worker

Preempt(t) ==
  /\ InRound /\ Full
  /\ \E u \in Tasks : Foremost(u) /\ reg[u].force
  /\ Slowest(t)
  /\ EnginePauses(t)
  /\ reg' = [reg EXCEPT ![t] = SetIdle(t, "PAUSED")]
  /\ sched' = [sched EXCEPT !.preempted = TRUE]
  /\ SchedulerFrame

\* do_resume starts the task, or cannot: what already runs does not fail to
\* start, and a torrent fails before or after its handle has been built.  One
\* whose worker is about to pause has the whole round end.
Fails(t) ==
  /\ reg' = [reg EXCEPT ![t] = [Set(t, "ERROR") EXCEPT !.force = FALSE]]
  /\ \/ /\ t \in Https /\ worker[t] # {"runs"}
        /\ worker' = [worker EXCEPT ![t] = {}]
        /\ UNCHANGED torrent
     \/ /\ t \in Torrents /\ UNCHANGED worker
        /\ \/ UNCHANGED torrent
           \/ ~InSession(t) /\ torrent' = [torrent EXCEPT ![t] = At(t, "held")]
Pausing(t) == t \in Https /\ {"runs", "pause"} \subseteq worker[t]
Resumes(t) ==
  IF t \in Torrents
  THEN torrent' = [torrent EXCEPT ![t] = At(t, "on")] /\ UNCHANGED worker
  ELSE /\ worker' = [worker EXCEPT ![t] =
                       IF "delete" \in @ THEN {"runs"} ELSE @ \cup {"runs"}]
       /\ UNCHANGED torrent

StartedQueued(t) ==  \* mutant: the status is left to an event of the engine
  [reg[t] EXCEPT !.dirty = TRUE, !.force = FALSE]
Started(t) == [Set(t, "DOWNLOADING") EXCEPT !.force = FALSE]
Dispatch(t) ==
  /\ InRound /\ ~Full /\ Foremost(t) /\ ~Pausing(t)
  /\ \/ /\ Resumes(t)
        /\ reg' = [reg EXCEPT ![t] = Started(t)]
     \/ Fails(t)
  /\ sched' = [sched EXCEPT !.preempted = FALSE]
  /\ SchedulerFrame

\* The loop breaks: nothing to do, no slot, nobody to preempt or none who can be
\* paused, or the next task is pausing.
Stuck ==
  \/ max = 0 \/ QueuedTasks = {}
  \/ /\ Full
     /\ \/ \E t \in Tasks : Foremost(t) /\ ~reg[t].force
        \/ ~\E t \in Tasks : Downloading(t)
        \/ \E t \in Torrents : Slowest(t) /\ torrent[t].at = "none"
  \/ ~Full /\ \E t \in Tasks : Foremost(t) /\ Pausing(t)
EndRound ==
  /\ sched.pc = "round" /\ Stuck
  /\ sched' = Sleeping
  /\ UNCHANGED <<reg, worker, torrent>> /\ SchedulerFrame

\* Without mtx_, what was active when it was given up is paused.
PauseNext(t) ==
  /\ sched.pc = "pause" /\ t \in sched.todo
  /\ sched' = [sched EXCEPT !.todo = @ \ {t}]
  /\ \/ /\ EnginePauses(t)
        /\ reg' = IF t \in Https THEN reg
                  ELSE [reg EXCEPT ![t] = SetIdle(t, "PAUSED")]
     \/ /\ t \in Torrents /\ torrent[t].at = "none"  \* cannot be rebuilt
        /\ UNCHANGED <<reg, worker, torrent>>
  /\ SchedulerFrame
EndPause ==
  /\ sched.pc = "pause" /\ sched.todo = {}
  /\ sched' = Sleeping
  /\ UNCHANGED <<reg, worker, torrent>> /\ SchedulerFrame

-----------------------------------------------------------------------------
\* The history: whose status changes, other than by being registered.
Changes ==
  unsaid' = unsaid \cup {t \in Tasks : Known(t) /\ reg'[t].status # reg[t].status}

UserStep(t) ==
  /\ \/ AddHttp(t) \/ AddTorrent(t) \/ ResumeTask(t) \/ PauseHttp(t)
     \/ DeleteHttp(t) \/ PauseTorrent(t) \/ DeleteTorrent(t)
  /\ Changes
EngineStep(t) ==
  /\ \/ WorkerEnds(t) \/ Completes(t) \/ Parsed(t) \/ Finished(t)
     \/ StateUpdate(t) \/ Sweep(t)
  /\ Changes
SchedulerStep ==
  /\ \/ BeginRound \/ EndRound \/ EndPause
     \/ \E t \in Tasks : Preempt(t) \/ Dispatch(t) \/ PauseNext(t)
  /\ Changes
Next ==
  \/ \E t \in Tasks : UserStep(t) \/ EngineStep(t)
  \/ (SetConfig \/ Restart) /\ Changes
  \/ Flush \/ SchedulerStep
Spec == Init /\ [][Next]_vars

\* Both threads of TaskManager loop until stop: the maintenance thread gets mtx_
\* sooner or later, since the scheduler sleeps for a second between rounds.  A
\* worker that is asked to end does; alerts need not come, nor downloads end.
Asked(t) == t \in Https /\ worker[t] \cap {"pause", "delete"} # {}
Fairness ==
  /\ WF_vars(SchedulerStep)
  /\ \A t \in Https : WF_vars(Asked(t) /\ WorkerEnds(t) /\ Changes)
  /\ \A t \in Torrents : SF_vars(reg[t].del /\ Sweep(t) /\ Changes)
FairSpec == Spec /\ Fairness

-----------------------------------------------------------------------------
(* Properties.                                                             *)

EntryType == [status : Statuses, force : BOOLEAN, row : BOOLEAN, rate : Rates,
              dirty : BOOLEAN, del : BOOLEAN]
HandleType == [at : {"none", "held", "on"}, alerts : SUBSET {"parsed", "finished"},
               complete : BOOLEAN]
\* Every variable keeps the type its declaration gives it, a torrent that is
\* not in the session has no alerts to come, what is in the session or runs is
\* in the registry, and only a round that holds mtx_ owes a slot.
TypeOK ==
  /\ reg \in [Tasks -> EntryType]
  /\ worker \in [Https -> SUBSET {"runs", "pause", "delete"}]
  /\ torrent \in [Torrents -> HandleType]
  /\ max \in Maxes /\ net \in BOOLEAN
  /\ sched \in [pc : {"sleep", "round", "pause"}, todo : SUBSET Tasks,
                preempted : BOOLEAN]
  /\ unsaid \subseteq Tasks
  /\ calls \in Nat
  /\ \A t \in Torrents : torrent[t].at = "none" => torrent[t] = NoHandle
  /\ \A t \in Torrents : torrent[t].at # "none" => Known(t)
  /\ \A t \in Https : worker[t] # {} => "runs" \in worker[t] /\ Known(t)
  /\ sched.preempted => sched.pc = "round"

\* The scheduler implements Admission: while it holds mtx_, no lock-free call
\* and no worker moves a task between waiting and active; a slot is given to
\* the foremost waiting task only while there is one; it is taken away only for
\* a forced task, and the next one admitted is forced.
Admits == INSTANCE Admission WITH
  waiting <- QueuedTasks,
  forced <- {t \in QueuedTasks : reg[t].force},
  active <- Active,
  turn <- IF sched.pc # "round" THEN "others"
          ELSE IF sched.preempted THEN "owes" ELSE "scheduler"
AdmitsSpec == Admits!Spec

\* It counts on workers as Workers has them, which the HTTP engine implements:
\* it starts, asks and forgets them only as the engine lets it.
Pool == INSTANCE Workers WITH Downloads <- Https
WorkersSpec == Pool!Spec

\* It counts on torrents as BtSession has them, which TorrentEngine implements.
Session == INSTANCE BtSession WITH
  bt <- [t \in Torrents |->
           [status |-> reg[t].status, del |-> reg[t].del,
            handle |-> [at |-> torrent[t].at, whole |-> torrent[t].complete]]]
SessionSpec == Session!Spec

\* The application hears of every change of a task's status, whoever makes it:
\* until it is told, the entry stays marked for the next flush.
NoSilentChange ==
  \A t \in unsaid : reg[t].dirty

\* A round ends: every turn of its loop admits a task, fails one or preempts
\* one, so the scheduler does not keep mtx_ from everybody else.
RoundsEnd == (sched.pc = "round") ~> (sched.pc # "round")

\* A task does not wait for ever while there is a free slot, although the loop
\* breaks when the foremost task's worker is about to pause.
QueuedIsServed ==
  \A t \in Tasks : ~<>[](Queued(t) /\ net /\ Cardinality(Active) < max)

\* With the network closed for good, no task goes on that holds a slot.
RunsOn(t) == IF t \in Https THEN worker[t] = {"runs"} ELSE torrent[t].at = "on"
NetworkPauseWorks ==
  \A t \in Tasks : ~<>[](~net /\ Occupies(t) /\ RunsOn(t))

\* A deleted torrent leaves the session for good, although a pause rebuilds
\* its handle.
DeletedLeavesSession ==
  \A t \in Torrents : ~<>[](reg[t].del /\ InSession(t))

\* "Paused, failed, completed: the slot is released" (task_manager.cpp:38-40).
SlotsAreFreed ==
  \A t \in Https :
    (Occupies(t) /\ worker[t] = {}) ~> (~Occupies(t) \/ worker[t] # {})
=============================================================================
