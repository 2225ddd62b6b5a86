------------------------------ MODULE Lifecycle ------------------------------
(***************************************************************************)
(* dw_init, dw_destroy and the other calls of the C interface              *)
(* (download_wrapper.cpp), with what they start and stop: the task manager *)
(* and its two threads, the engines, the torrent engine's threads, the     *)
(* HTTP workers.                                                           *)
(*                                                                         *)
(* Everything holds raw pointers: the task manager to the engines, each    *)
(* engine's file, in a global variable, to the task manager.  A pointer is *)
(* the number of the dw_init that made its object, Null, or dangling.      *)
(*                                                                         *)
(* What the threads do and what a configuration says is left out; the      *)
(* callbacks call nothing, as download_wrapper.h:137 asks.                 *)
(***************************************************************************)
EXTENDS Naturals

CONSTANTS
  Callers,   \* the application's threads
  MayFail,   \* which steps of dw_init may fail
  Careful,   \* does the application call only between dw_init and dw_destroy?
  MaxInits,  \* how often dw_init makes a task manager; bounds the model
  MaxCalls   \* how many other calls there are; bounds the model

Nobody == "nobody"
Null == 0
Failures == {"config", "http", "torrent", "start"}
ManagerThreads == {"scheduler", "maintenance"}
TorrentThreads == {"alert", "status"}  \* resume_loop does not use the manager
\* The HTTP workers, and the one that HttpEngine::sweep has taken out of the table.
Workers == {"worker", "taken"}
\* The maintenance thread is in HttpEngine::sweep, or it joins there what is taken.
Sweeping == {"sweep", "taken"}
Threads == ManagerThreads \cup TorrentThreads \cup Workers \cup Sweeping
Ids == 0 .. MaxInits

ASSUME LifecycleAssumption ==
  /\ Nobody \notin Callers /\ MayFail \subseteq Failures /\ Careful \in BOOLEAN
  /\ MaxInits \in Nat /\ MaxCalls \in Nat

VARIABLES
  created,      \* is there a g_downloader?
  mutex,        \* who holds its mutex
  initialized,
  manager,      \* TaskManager: what it is, its engines, running_
  http,         \* HttpEngine: what it is, initialized_
  torrent,      \* TorrentEngine: what it is, initialized_
  httpManager,  \* g_task_manager of http_engine_impl.cpp
  btManager,    \* g_task_manager of torrent_engine.cpp
  httpRunning, btRunning,  \* g_running of either
  threads,      \* the threads that run, and the sweep
  call,         \* what each caller is doing, and the manager it has got
  undefined,    \* what nobody may do has happened, and the model ends
  startFailed,  \* history: has TaskManager::start ever failed?
  inits, calls  \* count the calls

engines == <<http, torrent, httpManager, btManager, httpRunning, btRunning>>
counts == <<inits, calls>>
vars == <<created, mutex, initialized, manager, engines, threads, call,
          undefined, startFailed, counts>>

-----------------------------------------------------------------------------
NoManager == [id |-> Null, engines |-> Null, running |-> FALSE]
NoEngine == [id |-> Null, ready |-> FALSE]
Idle == [pc |-> "idle", got |-> Null]

Init ==
  /\ created = FALSE /\ mutex = Nobody /\ initialized = FALSE
  /\ manager = NoManager /\ http = NoEngine /\ torrent = NoEngine
  /\ httpManager = Null /\ btManager = Null
  /\ httpRunning = FALSE /\ btRunning = FALSE
  /\ threads = {} /\ call = [t \in Callers |-> Idle] /\ undefined = FALSE
  /\ startFailed = FALSE /\ inits = 0 /\ calls = 0

-----------------------------------------------------------------------------
Goes(t, pc) == call' = [call EXCEPT ![t].pc = pc]
Begins(t) == undefined = FALSE /\ call[t].pc = "idle"
Runs(t, pc) == undefined = FALSE /\ call[t].pc = pc

\* A careful application has no other call in progress when it makes or
\* destroys the downloader.
Alone(t) == Careful => \A u \in Callers : u # t => call[u].pc = "idle"

\* The lock_guard ends.
Leaves(t) == mutex' = Nobody /\ call' = [call EXCEPT ![t] = Idle]
Stays == UNCHANGED mutex

-----------------------------------------------------------------------------
(* dw_init.  What fails is left as it is.                                  *)

Initialize(t) ==
  /\ Begins(t) /\ mutex = Nobody /\ Alone(t)
  /\ created' = TRUE
  /\ \/ UNCHANGED <<mutex, call, inits>>  \* no configuration, or initialized
     \/ /\ ~initialized /\ inits < MaxInits
        /\ inits' = inits + 1
        /\ mutex' = t /\ Goes(t, "manager")
  /\ UNCHANGED <<initialized, manager, engines, threads, undefined, startFailed, calls>>

\* A manager that a failed dw_init has left is freed.
MakeManager(t) ==
  /\ Runs(t, "manager")
  /\ manager' = [NoManager EXCEPT !.id = inits]
  /\ \/ "config" \in MayFail /\ Leaves(t)
     \/ Goes(t, "engines") /\ Stays
  /\ UNCHANGED <<created, initialized, engines, threads, undefined, startFailed, counts>>

\* A new engine's constructor sets the global pointer; then the old one is
\* destroyed, and if it is ready its destroy sets the pointer back.
MakeEngines(t) ==
  /\ Runs(t, "engines")
  /\ http' = [NoEngine EXCEPT !.id = inits]
  /\ httpManager' = IF http.ready THEN Null ELSE manager.id
  /\ httpRunning' = (httpRunning /\ ~http.ready)
  /\ torrent' = [NoEngine EXCEPT !.id = inits]
  /\ btManager' = manager.id
  /\ btRunning' = (btRunning /\ ~torrent.ready)
  /\ Goes(t, IF torrent.ready THEN "oldTorrent" ELSE "http") /\ Stays
  /\ UNCHANGED <<created, initialized, manager, threads, undefined, startFailed, counts>>
JoinOldTorrent(t) ==
  /\ Runs(t, "oldTorrent") /\ threads \cap TorrentThreads = {}
  /\ btManager' = Null
  /\ Goes(t, "http") /\ Stays
  /\ UNCHANGED <<created, initialized, manager, http, torrent, httpManager,
                 httpRunning, btRunning, threads, undefined, startFailed, counts>>

InitHttp(t) ==
  /\ Runs(t, "http")
  /\ \/ /\ "http" \in MayFail /\ ~httpRunning
        /\ Leaves(t) /\ UNCHANGED <<http, httpRunning>>
     \/ /\ httpRunning' = TRUE /\ http' = [http EXCEPT !.ready = TRUE]
        /\ Goes(t, "torrent") /\ Stays
  /\ UNCHANGED <<created, initialized, manager, torrent, httpManager, btManager,
                 btRunning, threads, undefined, startFailed, counts>>

\* HttpEngine::destroy when no worker runs.
HttpDestroyed ==
  /\ http' = [http EXCEPT !.ready = FALSE]
  /\ httpRunning' = FALSE /\ httpManager' = Null
HttpKept ==  \* mutant: what was started is not stopped
  UNCHANGED <<http, httpRunning, httpManager>>
HttpUndone == HttpDestroyed
SetEngines == [manager EXCEPT !.engines = inits]
InitTorrent(t) ==
  /\ Runs(t, "torrent")
  /\ \/ /\ "torrent" \in MayFail
        /\ HttpUndone /\ Leaves(t)
        /\ UNCHANGED <<manager, torrent, btRunning, threads>>
     \/ /\ torrent' = [torrent EXCEPT !.ready = TRUE] /\ btRunning' = TRUE
        /\ threads' = threads \cup TorrentThreads
        /\ manager' = SetEngines
        /\ Goes(t, "start") /\ Stays
        /\ UNCHANGED <<http, httpRunning, httpManager>>
  /\ UNCHANGED <<created, initialized, btManager, undefined, startFailed, counts>>

\* A start that fails frees the manager, and only the manager.
StartManager(t) ==
  /\ Runs(t, "start")
  /\ \/ /\ "start" \in MayFail /\ manager' = NoManager
        /\ startFailed' = TRUE
        /\ UNCHANGED <<initialized, threads>>
     \/ /\ manager' = [manager EXCEPT !.running = TRUE]
        /\ threads' = threads \cup ManagerThreads
        /\ initialized' = TRUE
        /\ UNCHANGED startFailed
  /\ Leaves(t)
  /\ UNCHANGED <<created, engines, undefined, counts>>

-----------------------------------------------------------------------------
(* dw_destroy.                                                             *)

DestroyUnlocked(t) ==  \* mutant: without the mutex
  /\ Begins(t) /\ created /\ mutex = Nobody /\ Alone(t) /\ initialized
  /\ Goes(t, "stop") /\ Stays
  /\ manager' = [manager EXCEPT !.running = FALSE]
  /\ UNCHANGED <<created, initialized, engines, threads, undefined, startFailed, counts>>
DestroyKeepsRunning(t) ==  \* mutant: running_ is not cleared before the joins
  /\ Begins(t) /\ created /\ mutex = Nobody /\ Alone(t) /\ initialized
  /\ mutex' = t /\ Goes(t, "stop") /\ UNCHANGED manager
  /\ UNCHANGED <<created, initialized, engines, threads, undefined, startFailed, counts>>
Destroy(t) ==
  /\ Begins(t) /\ created /\ mutex = Nobody /\ Alone(t) /\ initialized
  /\ mutex' = t /\ Goes(t, "stop")
  /\ manager' = [manager EXCEPT !.running = FALSE]
  /\ UNCHANGED <<created, initialized, engines, threads, undefined, startFailed, counts>>

\* TaskManager::stop joins its threads; the workers are told to end.
StopAtOnce(t) ==  \* mutant: the threads are not joined
  /\ Runs(t, "stop")
  /\ http' = [http EXCEPT !.ready = FALSE]
  /\ Goes(t, "joinHttp") /\ Stays
  /\ UNCHANGED <<created, initialized, manager, torrent, httpManager, btManager,
                 httpRunning, btRunning, threads, undefined, startFailed, counts>>
Stop(t) ==
  /\ Runs(t, "stop") /\ threads \cap ManagerThreads = {}
  /\ http' = [http EXCEPT !.ready = FALSE]
  /\ Goes(t, "joinHttp") /\ Stays
  /\ UNCHANGED <<created, initialized, manager, torrent, httpManager, btManager,
                 httpRunning, btRunning, threads, undefined, startFailed, counts>>

\* The workers are joined, the engine freed, and the torrent engine's threads
\* told to end.
JoinHttp(t) ==
  /\ Runs(t, "joinHttp") /\ "worker" \notin threads
  /\ http' = NoEngine /\ httpRunning' = FALSE /\ httpManager' = Null
  /\ btRunning' = FALSE
  /\ Goes(t, "joinTorrent") /\ Stays
  /\ UNCHANGED <<created, initialized, manager, torrent, btManager, threads,
                 undefined, startFailed, counts>>

JoinTorrent(t) ==
  /\ Runs(t, "joinTorrent") /\ threads \cap TorrentThreads = {}
  /\ torrent' = NoEngine /\ btManager' = Null
  /\ Goes(t, "free") /\ Stays
  /\ UNCHANGED <<created, initialized, manager, http, httpManager, httpRunning,
                 btRunning, threads, undefined, startFailed, counts>>

FreeManager(t) ==
  /\ Runs(t, "free")
  /\ manager' = NoManager /\ initialized' = FALSE
  /\ Leaves(t)
  /\ UNCHANGED <<created, engines, threads, undefined, startFailed, counts>>

-----------------------------------------------------------------------------
(* The other calls get the manager and use it later, without the mutex.    *)

MayCall(t) ==
  /\ Begins(t) /\ (Careful => initialized /\ mutex = Nobody)
  /\ calls < MaxCalls /\ calls' = calls + 1
  /\ UNCHANGED <<created, mutex, initialized, manager, engines, threads,
                 startFailed, inits>>
Gets(t, pc) == call' = [call EXCEPT ![t] = [pc |-> pc, got |-> manager.id]]

\* dw_set_config takes the mutex to get it.
SetConfig(t) ==
  /\ MayCall(t) /\ created /\ mutex = Nobody
  /\ Gets(t, "apply") /\ UNCHANGED undefined
\* dw_add_task, dw_pause_task, dw_resume_task, dw_delete_task.
TaskCall(t) ==
  /\ MayCall(t)
  /\ IF created THEN Gets(t, "use") /\ UNCHANGED undefined
     ELSE undefined' = TRUE /\ UNCHANGED call

UseFrame ==
  UNCHANGED <<created, mutex, initialized, manager, engines, startFailed, counts>>
Returns(t) == call' = [call EXCEPT ![t] = Idle]
Dangling(id) == id # Null /\ id # manager.id
ApplyConfig(t) ==
  /\ Runs(t, "apply") /\ undefined' = Dangling(call[t].got)
  /\ Returns(t) /\ UNCHANGED threads /\ UseFrame

\* The manager passes the call to an engine, which must be there.  An HTTP
\* add starts a worker.
NoEngines == manager.engines = Null \/ manager.engines # http.id \/ manager.engines # torrent.id
UseManager(t) ==
  /\ Runs(t, "use") /\ Returns(t) /\ UseFrame
  /\ LET bad == call[t].got # Null /\ (Dangling(call[t].got) \/ NoEngines)
     IN /\ undefined' = bad
        /\ \/ UNCHANGED threads
           \/ /\ ~bad /\ call[t].got # Null /\ httpManager # Null /\ httpRunning
              /\ threads' = threads \cup {"worker"}

-----------------------------------------------------------------------------
(* The threads end when they are told to; a worker also by itself, and one *)
(* that is out of the table only so.                                       *)

\* A pass of the maintenance thread, which begins as long as the manager runs.
\* What it takes out and joins may be a worker that was started after it had
\* looked; one such worker stands for those of a pass.
SweepFrame ==
  UNCHANGED <<created, mutex, initialized, manager, engines, call, undefined, startFailed, counts>>
SweepBegins ==
  /\ undefined = FALSE /\ manager.running /\ "maintenance" \in threads
  /\ threads \cap Sweeping = {} /\ threads' = threads \cup {"sweep"}
  /\ SweepFrame
SweepTakes ==
  /\ undefined = FALSE /\ {"sweep", "worker"} \subseteq threads
  /\ \E gone \in {{"sweep"}, {"sweep", "worker"}} :
       threads' = (threads \ gone) \cup {"taken"}
  /\ SweepFrame

Told(w) ==
  CASE w \in ManagerThreads -> ~manager.running
    [] w \in TorrentThreads -> ~btRunning
    [] w = "worker" -> ~http.ready
    [] w = "sweep" -> TRUE
    [] w = "taken" -> FALSE
ThreadEnds(w) ==
  /\ w \in threads /\ undefined = FALSE
  /\ w \in Workers \/ Told(w)
  /\ w = "maintenance" => threads \cap Sweeping = {}
  /\ threads' = threads \ {w}
  /\ UNCHANGED <<created, mutex, initialized, manager, engines, call, undefined, startFailed, counts>>

-----------------------------------------------------------------------------
InitStep(t) ==
  \/ MakeManager(t) \/ MakeEngines(t) \/ JoinOldTorrent(t) \/ InitHttp(t)
  \/ InitTorrent(t) \/ StartManager(t)
DestroyStep(t) == Stop(t) \/ JoinHttp(t) \/ JoinTorrent(t) \/ FreeManager(t)
CallStep(t) == InitStep(t) \/ DestroyStep(t) \/ ApplyConfig(t) \/ UseManager(t)
Next ==
  \/ \E t \in Callers :
       Initialize(t) \/ Destroy(t) \/ SetConfig(t) \/ TaskCall(t) \/ CallStep(t)
  \/ SweepBegins \/ SweepTakes
  \/ \E w \in Threads : ThreadEnds(w)
Spec == Init /\ [][Next]_vars

\* Threads run, and the loops look at their flags (every second, or every five, and
\* the maintenance thread when it is not in the sweep's join).
Fairness ==
  /\ \A t \in Callers : WF_vars(CallStep(t))
  /\ \A w \in Threads : WF_vars(ThreadEnds(w) /\ Told(w))
FairSpec == Spec /\ Fairness

-----------------------------------------------------------------------------
(* Properties.                                                             *)

Pcs == {"idle", "manager", "engines", "oldTorrent", "http", "torrent", "start",
        "stop", "joinHttp", "joinTorrent", "free", "apply", "use"}

\* The mutex is held by whoever is inside dw_init or dw_destroy, and the sweep is
\* the maintenance thread's.
TypeOK ==
  /\ created \in BOOLEAN /\ initialized \in BOOLEAN /\ undefined \in BOOLEAN
  /\ startFailed \in BOOLEAN
  /\ mutex \in Callers \cup {Nobody}
  /\ manager \in [id : Ids, engines : Ids, running : BOOLEAN]
  /\ http \in [id : Ids, ready : BOOLEAN] /\ torrent \in [id : Ids, ready : BOOLEAN]
  /\ httpManager \in Ids /\ btManager \in Ids
  /\ httpRunning \in BOOLEAN /\ btRunning \in BOOLEAN
  /\ threads \subseteq Threads
  /\ threads \cap Sweeping # {} => "maintenance" \in threads
  /\ call \in [Callers -> [pc : Pcs, got : Ids]]
  /\ \A t \in Callers : call[t].pc \notin {"idle", "apply", "use"} <=> mutex = t
  /\ inits \in Ids /\ calls \in 0 .. MaxCalls

\* Nothing uses a freed object: the manager's threads use the manager and its
\* engines, the alert and status threads and the workers the manager that the
\* global pointers name (the order in dw_destroy:160-182), and the calls of a
\* careful application what they find.
UsesLive ==
  ~startFailed =>
    /\ threads \cap ManagerThreads # {} => manager.id # Null /\ ~NoEngines
    /\ threads \cap TorrentThreads # {} => btManager \in {Null, manager.id}
    /\ threads \cap Workers # {} => httpManager \in {Null, manager.id}
    /\ ~undefined

\* A downloader that says it is initialized works, whatever failed before: both
\* engines are ready, know the manager and are known to it.
InitializedIsReady ==
  initialized /\ mutex = Nobody /\ ~startFailed =>
    /\ manager.running /\ http.ready /\ torrent.ready /\ ~NoEngines
    /\ httpManager = manager.id /\ btManager = manager.id
    /\ httpRunning /\ btRunning
    /\ ManagerThreads \cup TorrentThreads \subseteq threads

\* One that is not leaves nothing running, whether it was destroyed or failed.
UninitializedIsQuiet ==
  ~initialized /\ mutex = Nobody /\ ~startFailed =>
    threads = {} /\ ~httpRunning /\ ~btRunning /\ ~http.ready /\ ~torrent.ready

\* What dw_is_initialized says is what there is, after any sequence of starts
\* that fail or succeed and of destroys.
ReadyOrQuiet == InitializedIsReady /\ UninitializedIsQuiet

\* Every call returns, after a failed start too: dw_destroy joins all the threads
\* while it holds the mutex.  It hangs only as long as the sweep waits for a
\* worker that nobody has told to end, and no longer than that one runs.
Hangs(t) == call[t].pc = "stop" /\ "taken" \in threads
CallsReturn ==
  \A t \in Callers : call[t].pc # "idle" ~> (call[t].pc = "idle" \/ undefined \/ []Hangs(t))

=============================================================================
