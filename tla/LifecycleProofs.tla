--------------------------- MODULE LifecycleProofs ---------------------------
(***************************************************************************)
(* What dw_init and dw_destroy promise, for every set of callers and every *)
(* number of starts: no freed object is used, and what                     *)
(* dw_is_initialized says is what there is.                                *)
(***************************************************************************)
EXTENDS Lifecycle, TLAPS

Inside == {"manager", "engines", "oldTorrent", "http", "torrent", "start",
           "stop", "joinHttp", "joinTorrent", "free"}

\* Where the downloader is between two starts: the step of whoever holds the
\* mutex, or whether it is initialized.
Phase == IF mutex # Nobody THEN call[mutex].pc
         ELSE IF initialized THEN "up" ELSE "down"

WithTorrentThreads == {"start", "up", "stop", "joinHttp"}
WithEngines == {"http", "torrent"} \cup WithTorrentThreads

\* What is there in each phase, unless TaskManager::start has failed.
PhaseInv ==
  /\ Phase # "oldTorrent"
  /\ initialized <=> Phase \in {"up", "stop", "joinHttp", "joinTorrent", "free"}
  /\ httpRunning <=> Phase \in WithEngines \ {"http"}
  /\ btRunning <=> Phase \in WithTorrentThreads
  /\ http.ready <=> Phase \in {"torrent", "start", "up", "stop"}
  /\ torrent.ready <=> Phase \in WithTorrentThreads \cup {"joinTorrent"}
  /\ Phase = "up" => manager.running

ThreadsInv ==
  /\ threads \cap ManagerThreads # {} => Phase \in {"up", "stop"}
  /\ Phase = "up" => ManagerThreads \subseteq threads
  /\ threads \cap TorrentThreads # {} => Phase \in WithTorrentThreads \cup {"joinTorrent"}
  /\ Phase \in WithTorrentThreads => TorrentThreads \subseteq threads
  /\ threads \cap Workers # {} => Phase \in WithTorrentThreads

PointersInv ==
  /\ Phase = "manager" => inits # Null
  /\ Phase \in WithEngines \cup {"engines", "joinTorrent"} =>
       manager.id = inits /\ inits # Null
  /\ Phase \in WithEngines => http.id = inits /\ httpManager = inits
  /\ Phase \in WithEngines \cup {"joinTorrent"} =>
       torrent.id = inits /\ btManager = inits
  /\ Phase \in WithTorrentThreads => manager.engines = inits
  /\ Phase \in {"engines", "http", "torrent"} => manager.engines = Null
  /\ Phase = "joinTorrent" => httpManager = Null

\* The calls in progress of a careful application have a manager that is there.
CallsInv ==
  Careful =>
    /\ ~undefined /\ (Phase # "down" => created)
    /\ \A t \in Callers : call[t].pc \in {"apply", "use"} =>
         Phase = "up" /\ call[t].got = manager.id

LiveInv == ~startFailed => PhaseInv /\ ThreadsInv /\ PointersInv /\ CallsInv

-----------------------------------------------------------------------------
(* Type correctness.                                                       *)

\* The two halves of TypeOK.
CallsOK ==
  /\ mutex \in Callers \cup {Nobody}
  /\ call \in [Callers -> [pc : Pcs, got : Ids]]
  /\ \A t \in Callers : call[t].pc \notin {"idle", "apply", "use"} <=> mutex = t
SweepOK(ts) == ts \cap Sweeping # {} => "maintenance" \in ts
FieldsOK ==
  /\ created \in BOOLEAN /\ initialized \in BOOLEAN /\ undefined \in BOOLEAN
  /\ startFailed \in BOOLEAN
  /\ manager \in [id : Ids, engines : Ids, running : BOOLEAN]
  /\ http \in [id : Ids, ready : BOOLEAN] /\ torrent \in [id : Ids, ready : BOOLEAN]
  /\ httpManager \in Ids /\ btManager \in Ids
  /\ httpRunning \in BOOLEAN /\ btRunning \in BOOLEAN
  /\ threads \subseteq Threads
  /\ SweepOK(threads)
  /\ inits \in Ids /\ calls \in 0 .. MaxCalls

LEMMA Halves == /\ TypeOK <=> CallsOK /\ FieldsOK
                /\ CallsOK' /\ FieldsOK' => TypeOK'
BY DEF TypeOK, CallsOK, FieldsOK, SweepOK

EngineType == [id : Ids, ready : BOOLEAN]
ManagerType == [id : Ids, engines : Ids, running : BOOLEAN]

\* What is new or freed has its type.
LEMMA NewTypes ==
  /\ Null \in Ids
  /\ NoManager \in ManagerType /\ NoEngine \in EngineType
  /\ \A i \in Ids : /\ [NoManager EXCEPT !.id = i] \in ManagerType
                    /\ [NoEngine EXCEPT !.id = i] \in EngineType
<1>1. Null \in Ids
  BY LifecycleAssumption DEF Ids, Null
<1>2. NoManager \in ManagerType /\ NoEngine \in EngineType
  BY <1>1 DEF NoManager, NoEngine, ManagerType, EngineType
<1> QED
  BY <1>1, <1>2 DEF ManagerType, EngineType

LEMMA TypeInit == Init => TypeOK
<1> SUFFICES ASSUME Init PROVE TypeOK
  OBVIOUS
<1>1. CallsOK
  <2>1. Idle \in [pc : Pcs, got : Ids] /\ Idle.pc = "idle"
    BY NewTypes DEF Idle, Pcs
  <2>2. \A t \in Callers : call[t].pc = "idle" /\ mutex # t
    BY <2>1, LifecycleAssumption DEF Init
  <2> QED
    BY <2>1, <2>2 DEF Init, CallsOK
<1>2. FieldsOK
  <2>1. /\ created \in BOOLEAN /\ initialized \in BOOLEAN /\ undefined \in BOOLEAN
        /\ startFailed \in BOOLEAN /\ httpRunning \in BOOLEAN /\ btRunning \in BOOLEAN
    BY DEF Init
  <2>2. manager \in ManagerType /\ http \in EngineType /\ torrent \in EngineType
    BY NewTypes DEF Init
  <2>3. httpManager \in Ids /\ btManager \in Ids /\ inits \in Ids /\ calls \in 0 .. MaxCalls
    BY LifecycleAssumption DEF Init, Ids, Null
  <2>4. threads \subseteq Threads /\ SweepOK(threads)
    BY DEF Init, SweepOK
  <2> QED
    BY <2>1, <2>2, <2>3, <2>4 DEF FieldsOK, ManagerType, EngineType
<1> QED
  BY <1>1, <1>2, Halves

\* A caller takes the mutex, keeps it, gives it back, or does without it.
LEMMA Entered ==
  ASSUME CallsOK, NEW t \in Callers, NEW p \in Inside, Begins(t), mutex = Nobody,
         mutex' = t, Goes(t, p)
  PROVE  CallsOK'
<1>1. p \in Pcs /\ p \notin {"idle", "apply", "use"}
  BY DEF Inside, Pcs
<1>2. call' = [call EXCEPT ![t].pc = p] /\ mutex' \in Callers
  BY DEF Goes
<1>3. call' \in [Callers -> [pc : Pcs, got : Ids]]
  BY <1>1, <1>2 DEF CallsOK
<1>4. \A u \in Callers : call[u].pc \in {"idle", "apply", "use"}
  BY LifecycleAssumption DEF CallsOK
<1>5. \A u \in Callers : call'[u].pc = IF u = t THEN p ELSE call[u].pc
  BY <1>2 DEF CallsOK
<1> QED
  BY <1>1, <1>2, <1>3, <1>4, <1>5 DEF CallsOK

LEMMA Moved ==
  ASSUME CallsOK, NEW t \in Callers, NEW q \in Inside, NEW p \in Inside, Runs(t, q),
         Goes(t, p), Stays
  PROVE  CallsOK'
BY LifecycleAssumption DEF CallsOK, Runs, Goes, Stays, Inside, Pcs

LEMMA Left ==
  ASSUME CallsOK, NEW t \in Callers, NEW q \in Inside, Runs(t, q), Leaves(t)
  PROVE  CallsOK'
BY LifecycleAssumption DEF CallsOK, Runs, Leaves, Idle, Inside, Pcs, Ids, Null

LEMMA Outside ==
  ASSUME CallsOK, NEW t \in Callers, NEW p \in {"idle", "apply", "use"}, NEW g \in Ids,
         call[t].pc \in {"idle", "apply", "use"},
         call' = [call EXCEPT ![t] = [pc |-> p, got |-> g]], UNCHANGED mutex
  PROVE  CallsOK'
BY LifecycleAssumption DEF CallsOK, Pcs

LEMMA InitTypes ==
  ASSUME TypeOK, NEW t \in Callers, Initialize(t) \/ InitStep(t)
  PROVE  TypeOK'
<1> USE Halves DEF Inside
<1>1. CASE Initialize(t)
  <2>1. CallsOK'
    <3>1. CASE UNCHANGED <<mutex, call, inits>>
      BY <3>1 DEF CallsOK
    <3>2. CASE mutex' = t /\ Goes(t, "manager")
      BY <1>1, <3>2, Entered DEF Initialize
    <3> QED
      BY <1>1, <3>1, <3>2 DEF Initialize
  <2>2. FieldsOK'
    BY <1>1, LifecycleAssumption DEF Initialize, FieldsOK, Ids, engines
  <2> QED
    BY <2>1, <2>2
<1>2. CASE MakeManager(t)
  <2>1. CallsOK'
    BY <1>2, Moved, Left DEF MakeManager
  <2>2. manager' \in ManagerType
    BY <1>2, NewTypes DEF MakeManager, FieldsOK
  <2>3. FieldsOK'
    BY <1>2, <2>2 DEF MakeManager, ManagerType, FieldsOK, engines, counts
  <2> QED
    BY <2>1, <2>3
<1>3. CASE MakeEngines(t)
  <2>1. CallsOK'
    BY <1>3, Moved DEF MakeEngines
  <2>2. http' \in EngineType /\ torrent' \in EngineType
    BY <1>3, NewTypes DEF MakeEngines, FieldsOK
  <2>3. httpRunning' \in BOOLEAN /\ btRunning' \in BOOLEAN
    BY <1>3, Zenon DEF MakeEngines
  <2>4. httpManager' \in Ids /\ btManager' \in Ids
    BY <1>3, NewTypes DEF MakeEngines, FieldsOK
  <2>5. FieldsOK'
    BY <1>3, <2>2, <2>3, <2>4 DEF MakeEngines, EngineType, FieldsOK, counts
  <2> QED
    BY <2>1, <2>5
<1>4. CASE JoinOldTorrent(t)
  <2>1. CallsOK'
    BY <1>4, Moved DEF JoinOldTorrent
  <2>2. FieldsOK'
    BY <1>4, LifecycleAssumption DEF JoinOldTorrent, FieldsOK, Ids, Null, counts
  <2> QED
    BY <2>1, <2>2
<1>5. CASE InitHttp(t)
  <2>1. CallsOK'
    BY <1>5, Moved, Left DEF InitHttp
  <2>2. FieldsOK'
    <3>1. http' \in EngineType /\ httpRunning' \in BOOLEAN
      BY <1>5 DEF InitHttp, FieldsOK, EngineType
    <3> QED
      BY <1>5, <3>1 DEF InitHttp, FieldsOK, EngineType, counts
  <2> QED
    BY <2>1, <2>2
<1>6. CASE InitTorrent(t)
  <2>1. CallsOK'
    BY <1>6, Moved, Left DEF InitTorrent
  <2>2. FieldsOK'
    <3>1. /\ http' \in EngineType /\ httpRunning' \in BOOLEAN
          /\ httpManager' \in Ids
      BY ZenonT(30), <1>6, NewTypes DEF InitTorrent, HttpUndone, HttpDestroyed, FieldsOK, EngineType
    <3>2. torrent' \in EngineType /\ btRunning' \in BOOLEAN
      BY <1>6 DEF InitTorrent, FieldsOK, EngineType
    <3>3. manager' \in ManagerType
      BY <1>6 DEF InitTorrent, SetEngines, FieldsOK, ManagerType
    <3>4. threads' = threads \/ threads' = threads \cup TorrentThreads
      BY <1>6 DEF InitTorrent
    <3>5. threads' \subseteq Threads /\ SweepOK(threads')
      BY <3>4 DEF FieldsOK, SweepOK, Sweeping, TorrentThreads, Threads
    <3> QED
      BY <1>6, <3>1, <3>2, <3>3, <3>5
      DEF InitTorrent, FieldsOK, EngineType, ManagerType, counts
  <2> QED
    BY <2>1, <2>2
<1>7. CASE StartManager(t)
  <2>1. CallsOK'
    BY <1>7, Left DEF StartManager
  <2>2. FieldsOK'
    <3>1. manager' \in ManagerType
      BY <1>7, NewTypes DEF StartManager, FieldsOK, ManagerType
    <3>2. threads' = threads \/ threads' = threads \cup ManagerThreads
      BY <1>7 DEF StartManager
    <3>3. threads' \subseteq Threads /\ SweepOK(threads')
      BY <3>2 DEF FieldsOK, SweepOK, ManagerThreads, Threads
    <3> QED
      BY <1>7, <3>1, <3>3 DEF StartManager, FieldsOK, ManagerType, engines, counts
  <2> QED
    BY <2>1, <2>2
<1> QED
  BY <1>1, <1>2, <1>3, <1>4, <1>5, <1>6, <1>7 DEF InitStep

LEMMA DestroyTypes ==
  ASSUME TypeOK, NEW t \in Callers, Destroy(t) \/ DestroyStep(t)
  PROVE  TypeOK'
<1> USE Halves DEF Inside
<1>1. CASE Destroy(t)
  <2>1. CallsOK'
    BY <1>1, Entered DEF Destroy
  <2>2. FieldsOK'
    BY <1>1 DEF Destroy, FieldsOK, engines, counts
  <2> QED
    BY <2>1, <2>2
<1>2. CASE Stop(t)
  <2>1. CallsOK'
    BY <1>2, Moved DEF Stop
  <2>2. FieldsOK'
    BY <1>2 DEF Stop, FieldsOK, counts
  <2> QED
    BY <2>1, <2>2
<1>3. CASE JoinHttp(t)
  <2>1. CallsOK'
    BY <1>3, Moved DEF JoinHttp
  <2>2. FieldsOK'
    BY <1>3, NewTypes DEF JoinHttp, FieldsOK, EngineType, counts
  <2> QED
    BY <2>1, <2>2
<1>4. CASE JoinTorrent(t)
  <2>1. CallsOK'
    BY <1>4, Moved DEF JoinTorrent
  <2>2. FieldsOK'
    BY <1>4, NewTypes DEF JoinTorrent, FieldsOK, EngineType, counts
  <2> QED
    BY <2>1, <2>2
<1>5. CASE FreeManager(t)
  <2>1. CallsOK'
    BY <1>5, Left DEF FreeManager
  <2>2. FieldsOK'
    BY <1>5, NewTypes DEF FreeManager, FieldsOK, ManagerType, engines, counts
  <2> QED
    BY <2>1, <2>2
<1> QED
  BY <1>1, <1>2, <1>3, <1>4, <1>5 DEF DestroyStep

LEMMA CallTypes ==
  ASSUME TypeOK, NEW t \in Callers,
         SetConfig(t) \/ TaskCall(t) \/ ApplyConfig(t) \/ UseManager(t)
  PROVE  TypeOK'
<1> USE Halves
<1>1. manager.id \in Ids /\ Null \in Ids
  BY LifecycleAssumption DEF FieldsOK, Ids, Null
<1>2. CASE SetConfig(t)
  <2>1. CallsOK'
    BY <1>1, <1>2, Outside DEF SetConfig, MayCall, Begins, Gets
  <2>2. FieldsOK'
    BY <1>2, LifecycleAssumption DEF SetConfig, MayCall, FieldsOK, engines
  <2> QED
    BY <2>1, <2>2
<1>3. CASE TaskCall(t)
  <2>1. CallsOK'
    <3>1. CASE created
      BY <1>1, <1>3, <3>1, Outside DEF TaskCall, MayCall, Begins, Gets
    <3>2. CASE ~created
      BY <1>3, <3>2 DEF TaskCall, MayCall, CallsOK
    <3> QED
      BY <3>1, <3>2
  <2>2. FieldsOK'
    <3>1. undefined' \in BOOLEAN
      BY <1>3 DEF TaskCall, FieldsOK
    <3> QED
      BY <1>3, <3>1, LifecycleAssumption DEF TaskCall, MayCall, FieldsOK, engines
  <2> QED
    BY <2>1, <2>2
<1>4. CASE ApplyConfig(t)
  <2>1. CallsOK'
    BY <1>1, <1>4, Outside DEF ApplyConfig, Runs, Returns, Idle, UseFrame
  <2>2. FieldsOK'
    BY <1>4 DEF ApplyConfig, UseFrame, Dangling, FieldsOK, engines, counts
  <2> QED
    BY <2>1, <2>2
<1>5. CASE UseManager(t)
  <2>1. CallsOK'
    BY <1>1, <1>5, Outside DEF UseManager, Runs, Returns, Idle, UseFrame
  <2>2. undefined' \in BOOLEAN
    BY <1>5 DEF UseManager, Dangling, NoEngines
  <2>3. threads' = threads \/ threads' = threads \cup {"worker"}
    BY <1>5 DEF UseManager
  <2>4. threads' \subseteq Threads /\ SweepOK(threads')
    BY <2>3 DEF FieldsOK, SweepOK, Sweeping, Workers, Threads
  <2>5. FieldsOK'
    BY <1>5, <2>2, <2>4 DEF UseManager, UseFrame, FieldsOK, engines, counts
  <2> QED
    BY <2>1, <2>5
<1> QED
  BY <1>2, <1>3, <1>4, <1>5

LEMMA TypeStep == TypeOK /\ [Next]_vars => TypeOK'
<1> SUFFICES ASSUME TypeOK, [Next]_vars PROVE TypeOK'
  OBVIOUS
<1>1. CASE \E t \in Callers :
             Initialize(t) \/ Destroy(t) \/ SetConfig(t) \/ TaskCall(t) \/ CallStep(t)
  BY <1>1, InitTypes, DestroyTypes, CallTypes DEF CallStep
<1>2. CASE (\E w \in Threads : ThreadEnds(w)) \/ SweepBegins \/ SweepTakes
  <2>1. /\ threads' \subseteq Threads
        /\ threads' \cap Sweeping # {} => "maintenance" \in threads'
    BY <1>2 DEF ThreadEnds, SweepBegins, SweepTakes, TypeOK, Threads, Sweeping, Workers
  <2> QED
    BY <1>2, <2>1
    DEF ThreadEnds, SweepBegins, SweepTakes, SweepFrame, TypeOK, engines, counts
<1>3. CASE UNCHANGED vars
  BY <1>3 DEF vars, TypeOK, engines, counts
<1> QED
  BY <1>1, <1>2, <1>3 DEF Next

-----------------------------------------------------------------------------
(* The phases.                                                             *)

LEMMA PhaseIs ==
  /\ TypeOK => \A t \in Callers : call[t].pc \in Inside => mutex = t /\ Phase = call[t].pc
  /\ TypeOK /\ mutex # Nobody => mutex \in Callers /\ Phase \in Inside
  /\ mutex = Nobody => Phase = IF initialized THEN "up" ELSE "down"
<1>1. ASSUME TypeOK, NEW t \in Callers, call[t].pc \in Inside
      PROVE  mutex = t /\ Phase = call[t].pc
  <2>1. mutex = t
    BY <1>1 DEF TypeOK, Inside
  <2> QED
    BY <2>1, LifecycleAssumption DEF Phase
<1>2. ASSUME TypeOK, mutex # Nobody
      PROVE  mutex \in Callers /\ Phase \in Inside
  <2>1. mutex \in Callers /\ call[mutex].pc \in Pcs
    BY <1>2 DEF TypeOK
  <2>2. call[mutex].pc \notin {"idle", "apply", "use"}
    BY <1>2, <2>1 DEF TypeOK
  <2> QED
    BY <1>2, <2>1, <2>2 DEF Phase, Inside, Pcs
<1>3. mutex = Nobody => Phase = IF initialized THEN "up" ELSE "down"
  BY DEF Phase
<1> QED
  BY <1>1, <1>2, <1>3

\* How the phase moves.
LEMMA PhaseMoves ==
  ASSUME TypeOK, NEW t \in Callers, NEW q \in Inside, Runs(t, q)
  PROVE  /\ Phase = q /\ mutex = t
         /\ \A p \in Inside : Goes(t, p) /\ Stays => Phase' = p
         /\ Leaves(t) => Phase' = IF initialized' THEN "up" ELSE "down"
<1>1. Phase = q /\ mutex = t
  BY PhaseIs DEF Runs
<1>2. ASSUME NEW p \in Inside, Goes(t, p), Stays PROVE Phase' = p
  BY <1>1, <1>2, LifecycleAssumption DEF Goes, Stays, Phase, TypeOK
<1>3. Leaves(t) => Phase' = IF initialized' THEN "up" ELSE "down"
  BY DEF Leaves, Phase
<1> QED
  BY <1>1, <1>2, <1>3

LEMMA PhaseStays ==
  ASSUME TypeOK, TypeOK', UNCHANGED <<mutex, initialized>>,
         mutex # Nobody => call'[mutex].pc = call[mutex].pc
  PROVE  Phase' = Phase
BY DEF Phase

-----------------------------------------------------------------------------
(* What is there in each phase.                                            *)

LEMMA LiveInit == Init => LiveInv
BY LifecycleAssumption
DEF Init, LiveInv, PhaseInv, ThreadsInv, PointersInv, CallsInv, Phase, NoManager,
    NoEngine, Idle, Null, WithEngines, WithTorrentThreads, ManagerThreads, TorrentThreads

LEMMA InitPhases ==
  ASSUME TypeOK, TypeOK', LiveInv, NEW t \in Callers, Initialize(t) \/ InitStep(t),
         ~startFailed'
  PROVE  PhaseInv' /\ ThreadsInv' /\ PointersInv'
<1> USE DEF LiveInv, PhaseInv, ThreadsInv, PointersInv, WithEngines, WithTorrentThreads,
            engines, counts, Null, Inside
<1>1. CASE Initialize(t)
  <2>1. CASE UNCHANGED <<mutex, call, inits>>
    BY <1>1, <2>1 DEF Initialize, Phase
  <2>2. CASE ~initialized /\ inits' = inits + 1 /\ mutex' = t /\ Goes(t, "manager")
    <3>1. Phase = "down" /\ Phase' = "manager"
      BY <1>1, <2>2, LifecycleAssumption DEF Initialize, Phase, Goes, TypeOK
    <3>2. inits' # 0
      BY <2>2, LifecycleAssumption DEF TypeOK, Ids
    <3> QED
      BY <1>1, <3>1, <3>2 DEF Initialize
  <2> QED
    BY <1>1, <2>1, <2>2 DEF Initialize
<1>2. CASE MakeManager(t)
  <2>1. Phase = "manager" /\ Phase' \in {"down", "engines"}
    BY <1>2, PhaseMoves DEF MakeManager, PhaseInv
  <2>2. manager'.id = inits /\ manager'.engines = Null
    BY <1>2 DEF MakeManager, NoManager
  <2> QED
    BY <1>2, <2>1, <2>2 DEF MakeManager
<1>3. CASE MakeEngines(t)
  <2>1. Phase = "engines" /\ ~torrent.ready /\ ~http.ready
    BY <1>3, PhaseMoves DEF MakeEngines
  <2>2. Phase' = "http"
    BY <1>3, <2>1, PhaseMoves DEF MakeEngines
  <2>3. /\ http'.id = inits /\ ~http'.ready /\ torrent'.id = inits /\ ~torrent'.ready
        /\ httpManager' = inits /\ btManager' = inits /\ ~httpRunning' /\ ~btRunning'
    BY <1>3, <2>1 DEF MakeEngines, NoEngine
  <2> QED
    BY <1>3, <2>1, <2>2, <2>3 DEF MakeEngines
<1>4. CASE JoinOldTorrent(t)
  BY <1>4, PhaseMoves DEF JoinOldTorrent
<1>5. CASE InitHttp(t)
  <2>1. Phase = "http"
    BY <1>5, PhaseMoves DEF InitHttp
  <2>2. CASE UNCHANGED <<http, httpRunning>> /\ Leaves(t)
    <3>1. Phase' = "down"
      BY <1>5, <2>1, <2>2, PhaseMoves DEF InitHttp
    <3> QED
      BY <1>5, <2>1, <2>2, <3>1 DEF InitHttp
  <2>3. CASE httpRunning' = TRUE /\ http' = [http EXCEPT !.ready = TRUE] /\ Goes(t, "torrent") /\ Stays
    <3>1. Phase' = "torrent"
      BY <1>5, <2>3, PhaseMoves DEF InitHttp
    <3>2. http'.ready /\ http'.id = http.id
      BY <2>3 DEF TypeOK
    <3> QED
      BY <1>5, <2>1, <2>3, <3>1, <3>2 DEF InitHttp
  <2> QED
    BY <1>5, <2>2, <2>3 DEF InitHttp
<1>6. CASE InitTorrent(t)
  <2>1. Phase = "torrent"
    BY <1>6, PhaseMoves DEF InitTorrent
  <2>2. CASE HttpUndone /\ Leaves(t) /\ UNCHANGED <<manager, torrent, btRunning, threads>>
    <3>1. Phase' = "down"
      BY <1>6, <2>1, <2>2, PhaseMoves DEF InitTorrent
    <3>2. ~http'.ready /\ ~httpRunning'
      BY <2>2 DEF HttpUndone, HttpDestroyed, TypeOK
    <3> QED
      BY <1>6, <2>1, <2>2, <3>1, <3>2 DEF InitTorrent
  <2>3. CASE /\ torrent' = [torrent EXCEPT !.ready = TRUE] /\ btRunning' = TRUE
             /\ threads' = threads \cup TorrentThreads
             /\ manager' = SetEngines
             /\ Goes(t, "start") /\ Stays
             /\ UNCHANGED <<http, httpRunning, httpManager>>
    <3>1. Phase' = "start"
      BY <1>6, <2>3, PhaseMoves DEF InitTorrent
    <3>2. /\ torrent'.ready /\ torrent'.id = torrent.id
          /\ manager'.id = manager.id /\ manager'.engines = inits
      BY <2>3 DEF SetEngines, TypeOK
    <3>3. threads' \cap ManagerThreads = {}
      <4>1. threads \cap ManagerThreads = {}
        BY <1>6, <2>1 DEF InitTorrent
      <4> QED
        BY <2>3, <4>1 DEF ManagerThreads, TorrentThreads
    <3> QED
      BY <1>6, <2>1, <2>3, <3>1, <3>2, <3>3 DEF InitTorrent
  <2> QED
    BY <1>6, <2>2, <2>3 DEF InitTorrent
<1>7. CASE StartManager(t)
  <2>1. Phase = "start" /\ ~startFailed
    BY <1>7, PhaseMoves DEF StartManager
  <2>2. /\ manager' = [manager EXCEPT !.running = TRUE] /\ initialized'
        /\ threads' = threads \cup ManagerThreads
    BY <1>7 DEF StartManager
  <2>3. Phase' = "up"
    BY <1>7, <2>2, PhaseMoves DEF StartManager
  <2>4. manager'.running /\ manager'.id = manager.id /\ manager'.engines = manager.engines
    BY <2>2 DEF TypeOK
  <2> QED
    BY <1>7, <2>1, <2>2, <2>3, <2>4 DEF StartManager
<1> QED
  BY <1>1, <1>2, <1>3, <1>4, <1>5, <1>6, <1>7 DEF InitStep

LEMMA DestroyPhases ==
  ASSUME TypeOK, TypeOK', LiveInv, NEW t \in Callers, Destroy(t) \/ DestroyStep(t),
         ~startFailed'
  PROVE  PhaseInv' /\ ThreadsInv' /\ PointersInv'
<1> USE DEF LiveInv, PhaseInv, ThreadsInv, PointersInv, WithEngines, WithTorrentThreads,
            engines, counts, Null, Inside
<1>1. CASE Destroy(t)
  <2>1. Phase = "up" /\ Phase' = "stop"
    BY <1>1, LifecycleAssumption DEF Destroy, Phase, Goes, TypeOK
  <2>2. manager'.id = manager.id /\ manager'.engines = manager.engines
    BY <1>1 DEF Destroy, TypeOK
  <2> QED
    BY <1>1, <2>1, <2>2 DEF Destroy
<1>2. CASE Stop(t)
  <2>1. Phase = "stop" /\ Phase' = "joinHttp"
    BY <1>2, PhaseMoves DEF Stop
  <2>2. http'.id = http.id /\ ~http'.ready
    BY <1>2 DEF Stop, TypeOK
  <2> QED
    BY <1>2, <2>1, <2>2 DEF Stop
<1>3. CASE JoinHttp(t)
  <2>1. Phase = "joinHttp" /\ Phase' = "joinTorrent"
    BY <1>3, PhaseMoves DEF JoinHttp
  <2>2. ~http'.ready
    BY <1>3 DEF JoinHttp, NoEngine
  <2>3. threads \cap Workers = {}
    <3>1. /\ threads \subseteq Threads /\ "worker" \notin threads
          /\ threads \cap Sweeping # {} => "maintenance" \in threads
      BY <1>3 DEF JoinHttp, TypeOK
    <3>2. "maintenance" \notin threads
      BY <1>3, <2>1 DEF JoinHttp, ManagerThreads
    <3> QED
      BY <3>1, <3>2 DEF Workers, Sweeping
  <2>4. ThreadsInv'
    BY <1>3, <2>1, <2>3 DEF JoinHttp
  <2>5. PhaseInv' /\ PointersInv'
    BY <1>3, <2>1, <2>2 DEF JoinHttp
  <2> QED
    BY <2>4, <2>5
<1>4. CASE JoinTorrent(t)
  <2>1. Phase = "joinTorrent" /\ Phase' = "free"
    BY <1>4, PhaseMoves DEF JoinTorrent
  <2>2. ~torrent'.ready
    BY <1>4 DEF JoinTorrent, NoEngine
  <2> QED
    BY <1>4, <2>1, <2>2 DEF JoinTorrent
<1>5. CASE FreeManager(t)
  <2>1. Phase = "free" /\ Phase' = "down"
    BY <1>5, PhaseMoves DEF FreeManager
  <2> QED
    BY <1>5, <2>1 DEF FreeManager
<1> QED
  BY <1>1, <1>2, <1>3, <1>4, <1>5 DEF DestroyStep

\* The other calls and the ends of threads leave the phase alone.
LEMMA OtherPhases ==
  ASSUME TypeOK, TypeOK', LiveInv, ~startFailed',
         UNCHANGED <<mutex, initialized, manager, engines, inits, startFailed>>,
         mutex # Nobody => call'[mutex].pc = call[mutex].pc,
         \/ UNCHANGED threads
         \/ /\ ~NoEngines /\ httpRunning /\ Phase # "torrent"
            /\ threads' = threads \cup {"worker"}
         \/ \E w \in threads : (w \in Workers \/ Told(w)) /\ threads' = threads \ {w}
         \/ /\ "maintenance" \in threads
            /\ \/ threads' = threads \cup {"sweep"}
               \/ \E gone \in {{"sweep"}, {"sweep", "worker"}} :
                    threads' = (threads \ gone) \cup {"taken"}
  PROVE  PhaseInv' /\ ThreadsInv' /\ PointersInv'
<1> USE DEF LiveInv, WithEngines, WithTorrentThreads, engines, Null, Inside
<1>1. Phase' = Phase
  BY PhaseStays
<1>2. PhaseInv' /\ PointersInv'
  BY <1>1 DEF PhaseInv, PointersInv
<1>3. CASE UNCHANGED threads
  BY <1>1, <1>2, <1>3 DEF ThreadsInv
<1>4. CASE /\ ~NoEngines /\ httpRunning /\ Phase # "torrent"
           /\ threads' = threads \cup {"worker"}
  BY <1>1, <1>2, <1>4 DEF PhaseInv, ThreadsInv, ManagerThreads, TorrentThreads, Workers
<1>5. CASE \E w \in threads : (w \in Workers \/ Told(w)) /\ threads' = threads \ {w}
  <2>1. PICK w \in threads : (w \in Workers \/ Told(w)) /\ threads' = threads \ {w}
    BY <1>5
  <2>2. Phase = "up" => w \notin ManagerThreads
    BY <2>1 DEF PhaseInv, Told, ManagerThreads, Workers
  <2>3. Phase \in WithTorrentThreads => w \notin TorrentThreads
    BY <2>1 DEF PhaseInv, Told, ManagerThreads, TorrentThreads, Workers
  <2> QED
    BY <1>1, <1>2, <2>1, <2>2, <2>3 DEF ThreadsInv
<1>6. CASE /\ "maintenance" \in threads
           /\ \/ threads' = threads \cup {"sweep"}
              \/ \E gone \in {{"sweep"}, {"sweep", "worker"}} :
                   threads' = (threads \ gone) \cup {"taken"}
  <2>1. Phase \in {"up", "stop"}
    BY <1>6 DEF ThreadsInv, ManagerThreads
  <2>2. \A w \in ManagerThreads \cup TorrentThreads : w \in threads' <=> w \in threads
    BY <1>6 DEF ManagerThreads, TorrentThreads
  <2> QED
    BY <1>1, <1>2, <2>1, <2>2 DEF ThreadsInv
<1> QED
  BY <1>2, <1>3, <1>4, <1>5, <1>6

LEMMA PhasesStep ==
  ASSUME TypeOK, TypeOK', LiveInv, [Next]_vars, ~startFailed'
  PROVE  PhaseInv' /\ ThreadsInv' /\ PointersInv'
<1>1. ASSUME NEW t \in Callers, SetConfig(t) \/ TaskCall(t)
      PROVE  PhaseInv' /\ ThreadsInv' /\ PointersInv'
  <2>1. mutex # Nobody => mutex # t
    BY <1>1 DEF SetConfig, TaskCall, MayCall, Begins, TypeOK
  <2>2. mutex # Nobody => call'[mutex].pc = call[mutex].pc
    BY <1>1, <2>1 DEF SetConfig, TaskCall, Gets, TypeOK
  <2> QED
    BY <1>1, <2>2, OtherPhases DEF SetConfig, TaskCall, MayCall
<1>2. ASSUME NEW t \in Callers, ApplyConfig(t) \/ UseManager(t)
      PROVE  PhaseInv' /\ ThreadsInv' /\ PointersInv'
  <2>1. mutex # Nobody => mutex # t
    BY <1>2 DEF ApplyConfig, UseManager, Runs, TypeOK
  <2>2. mutex # Nobody => call'[mutex].pc = call[mutex].pc
    BY <1>2, <2>1 DEF ApplyConfig, UseManager, Returns, TypeOK
  <2>3. UNCHANGED <<mutex, initialized, manager, engines, inits, startFailed>>
    BY <1>2 DEF ApplyConfig, UseManager, UseFrame, counts
  <2>4. \/ UNCHANGED threads
        \/ /\ ~NoEngines /\ httpRunning
           /\ threads' = threads \cup {"worker"}
    BY <1>2 DEF ApplyConfig, UseManager
  <2>5. ~NoEngines => Phase # "torrent"
    BY <2>3 DEF NoEngines, LiveInv, PointersInv, WithEngines
  <2> QED
    BY <2>2, <2>3, <2>4, <2>5, OtherPhases
<1>3. ASSUME NEW w \in Threads, ThreadEnds(w)
      PROVE  PhaseInv' /\ ThreadsInv' /\ PointersInv'
  BY <1>3, OtherPhases DEF ThreadEnds, counts
<1>4. CASE UNCHANGED vars
  BY <1>4, OtherPhases DEF vars, counts
<1>5. CASE SweepBegins \/ SweepTakes
  <2>1. "maintenance" \in threads
    BY <1>5 DEF SweepBegins, SweepTakes, TypeOK, Sweeping
  <2> QED
    BY <1>5, <2>1, OtherPhases DEF SweepBegins, SweepTakes, SweepFrame, counts
<1> QED
  BY <1>1, <1>2, <1>3, <1>4, <1>5, InitPhases, DestroyPhases DEF Next, CallStep

-----------------------------------------------------------------------------
(* A careful application's calls.                                          *)

LEMMA CallsStep ==
  ASSUME TypeOK, TypeOK', LiveInv, [Next]_vars, ~startFailed'
  PROVE  CallsInv'
<1> SUFFICES ASSUME Careful
             PROVE  /\ ~undefined' /\ (Phase' # "down" => created')
                    /\ \A t \in Callers : call'[t].pc \in {"apply", "use"} =>
                         Phase' = "up" /\ call'[t].got = manager'.id
  BY DEF CallsInv
<1>1. ASSUME ~startFailed
      PROVE  /\ ~undefined /\ (Phase # "down" => created)
             /\ \A t \in Callers : call[t].pc \in {"apply", "use"} =>
                  Phase = "up" /\ call[t].got = manager.id
             /\ Phase = "up" => manager.id # Null /\ ~NoEngines
  BY <1>1 DEF LiveInv, CallsInv, PointersInv, WithEngines, WithTorrentThreads, NoEngines,
              Null
<1>2. ASSUME NEW t \in Callers, Initialize(t) \/ Destroy(t)
      PROVE  CallsInv'
  <2>1. ~startFailed
    BY <1>2 DEF Initialize, Destroy
  <2>2. \A u \in Callers : call[u].pc \notin {"apply", "use"}
    BY <1>2 DEF Initialize, Destroy, Alone, Begins
  <2>3. \A u \in Callers : call'[u].pc \notin {"apply", "use"}
    BY <1>2, <2>2 DEF Initialize, Destroy, Goes, TypeOK
  <2> QED
    BY <1>1, <1>2, <2>1, <2>3 DEF Initialize, Destroy, CallsInv
<1>3. ASSUME NEW t \in Callers, InitStep(t) \/ DestroyStep(t)
      PROVE  CallsInv'
  <2>1. ~startFailed
    BY <1>3 DEF InitStep, DestroyStep, MakeManager, MakeEngines, JoinOldTorrent,
                InitHttp, InitTorrent, StartManager, Stop, JoinHttp, JoinTorrent,
                FreeManager
  <2>2. call[t].pc \in Inside
    <3>1. CASE InitStep(t)
      BY <3>1 DEF InitStep, MakeManager, MakeEngines, JoinOldTorrent, InitHttp,
                  InitTorrent, StartManager, Runs, Inside
    <3>2. CASE DestroyStep(t)
      BY <3>2 DEF DestroyStep, Stop, JoinHttp, JoinTorrent, FreeManager, Runs, Inside
    <3> QED
      BY <1>3, <3>1, <3>2
  <2>3. Phase # "up"
    BY <2>2, PhaseIs DEF Inside
  <2>4. \A u \in Callers : call[u].pc \notin {"apply", "use"}
    BY <1>1, <2>1, <2>3
  <2>5. \E p \in Pcs \ {"apply", "use"} :
          call' = [call EXCEPT ![t].pc = p] \/ call' = [call EXCEPT ![t] = Idle]
    BY <1>3 DEF InitStep, DestroyStep, MakeManager, MakeEngines, JoinOldTorrent,
                InitHttp, InitTorrent, StartManager, Stop, JoinHttp, JoinTorrent,
                FreeManager, Goes, Leaves, Pcs
  <2>6. \A u \in Callers : call'[u].pc \notin {"apply", "use"}
    BY <2>4, <2>5 DEF TypeOK, Idle
  <2>7. ~undefined' /\ (Phase' # "down" => created')
    <3>1. UNCHANGED <<undefined, created>>
      BY <1>3 DEF InitStep, DestroyStep, MakeManager, MakeEngines, JoinOldTorrent,
                  InitHttp, InitTorrent, StartManager, Stop, JoinHttp, JoinTorrent,
                  FreeManager
    <3>2. created
      BY <1>1, <2>1, <2>2, PhaseIs DEF Inside
    <3> QED
      BY <1>1, <2>1, <3>1, <3>2
  <2> QED
    BY <2>6, <2>7 DEF CallsInv
<1>4. ASSUME NEW t \in Callers, SetConfig(t) \/ TaskCall(t)
      PROVE  CallsInv'
  <2>1. ~startFailed /\ initialized /\ mutex = Nobody /\ Phase = "up"
    BY <1>4 DEF SetConfig, TaskCall, MayCall, Phase
  <2>2. created
    BY <1>1, <2>1
  <2>3. /\ UNCHANGED <<undefined, created, mutex, initialized, manager>>
        /\ \E p \in {"apply", "use"} :
             call' = [call EXCEPT ![t] = [pc |-> p, got |-> manager.id]]
    BY <1>4, <2>2 DEF SetConfig, TaskCall, MayCall, Gets
  <2>4. Phase' = "up"
    BY <2>1, <2>3 DEF Phase
  <2>5. \A u \in Callers : call'[u].pc \in {"apply", "use"} => call'[u].got = manager'.id
    BY <1>1, <2>1, <2>3 DEF TypeOK
  <2> QED
    BY <1>1, <2>1, <2>2, <2>3, <2>4, <2>5 DEF CallsInv
<1>5. ASSUME NEW t \in Callers, ApplyConfig(t) \/ UseManager(t)
      PROVE  CallsInv'
  <2>1. ~startFailed /\ UNCHANGED <<created, mutex, initialized, manager>>
    BY <1>5 DEF ApplyConfig, UseManager, UseFrame
  <2>2. Phase = "up" /\ call[t].got = manager.id /\ manager.id # Null /\ ~NoEngines
    BY <1>1, <1>5, <2>1 DEF ApplyConfig, UseManager, Runs
  <2>3. ~undefined'
    BY <1>5, <2>2 DEF ApplyConfig, UseManager, Dangling
  <2>4. Phase' = "up"
    BY <2>1, <2>2, PhaseIs DEF Phase, Inside
  <2>5. \A u \in Callers : call'[u].pc \in {"apply", "use"} => call'[u].got = manager'.id
    BY <1>1, <1>5, <2>1 DEF ApplyConfig, UseManager, Returns, Idle, TypeOK
  <2> QED
    BY <1>1, <2>1, <2>2, <2>3, <2>4, <2>5 DEF CallsInv
<1>6. CASE \/ \E w \in Threads : ThreadEnds(w)
           \/ SweepBegins \/ SweepTakes \/ UNCHANGED vars
  <2>1. UNCHANGED <<created, mutex, initialized, manager, call, undefined, startFailed>>
    BY <1>6 DEF ThreadEnds, SweepBegins, SweepTakes, SweepFrame, vars
  <2> QED
    BY <1>1, <2>1 DEF CallsInv, Phase
<1> QED
  BY <1>2, <1>3, <1>4, <1>5, <1>6 DEF Next, CallStep, CallsInv

-----------------------------------------------------------------------------
(* The theorems.                                                           *)

IInv == TypeOK /\ LiveInv

LEMMA InvStep == IInv /\ [Next]_vars => IInv'
<1> SUFFICES ASSUME TypeOK, LiveInv, [Next]_vars PROVE TypeOK' /\ LiveInv'
  BY DEF IInv
<1>1. TypeOK'
  BY TypeStep
<1>2. ASSUME ~startFailed' PROVE PhaseInv' /\ ThreadsInv' /\ PointersInv' /\ CallsInv'
  BY <1>1, <1>2, PhasesStep, CallsStep
<1> QED
  BY <1>1, <1>2 DEF LiveInv

\* The inductive invariant holds in every reachable state.
THEOREM Invariant == Spec => []IInv
<1>1. Init => IInv
  BY TypeInit, LiveInit DEF IInv
<1> QED
  BY <1>1, InvStep, PTL DEF Spec

\* Every variable has its type, and the mutex is held by whoever is inside
\* dw_init or dw_destroy.
THEOREM TypeCorrect == Spec => []TypeOK
<1>1. IInv => TypeOK
  BY DEF IInv
<1> QED
  BY <1>1, Invariant, PTL

\* dw_is_initialized says what there is, however many starts fail and whether the
\* application is careful or not, unless TaskManager::start has failed.
THEOREM SaysWhatIs == Spec => []ReadyOrQuiet
<1>1. IInv => ReadyOrQuiet
  <2> SUFFICES ASSUME TypeOK, LiveInv, mutex = Nobody, ~startFailed
               PROVE  /\ initialized => InitializedIsReady
                      /\ ~initialized => UninitializedIsQuiet
    BY DEF IInv, ReadyOrQuiet, InitializedIsReady, UninitializedIsQuiet
  <2>1. Phase = IF initialized THEN "up" ELSE "down"
    BY PhaseIs
  <2>2. initialized => InitializedIsReady
    BY <2>1 DEF LiveInv, PhaseInv, ThreadsInv, PointersInv, InitializedIsReady,
                NoEngines, WithEngines, WithTorrentThreads, Null
  <2>3. ~initialized => threads = {}
    BY <2>1 DEF LiveInv, ThreadsInv, TypeOK, Threads, ManagerThreads, TorrentThreads,
                Workers, Sweeping, WithTorrentThreads
  <2>4. ~initialized => UninitializedIsQuiet
    BY <2>1, <2>3 DEF LiveInv, PhaseInv, UninitializedIsQuiet, WithEngines,
                      WithTorrentThreads
  <2> QED
    BY <2>2, <2>4
<1> QED
  BY <1>1, Invariant, PTL

\* In a careful application nothing uses a freed object, unless
\* TaskManager::start has failed.
THEOREM NothingFreedIsUsed ==
  ASSUME Careful
  PROVE  Spec => []UsesLive
<1>1. IInv => UsesLive
  <2> SUFFICES ASSUME LiveInv, ~startFailed
               PROVE  UsesLive
    BY DEF IInv, UsesLive
  <2> USE DEF LiveInv, ThreadsInv, PointersInv, WithEngines, WithTorrentThreads, Null
  <2>1. threads \cap ManagerThreads # {} => manager.id # Null /\ ~NoEngines
    BY DEF NoEngines
  <2>2. threads \cap TorrentThreads # {} => btManager \in {Null, manager.id}
    OBVIOUS
  <2>3. threads \cap Workers # {} => httpManager \in {Null, manager.id}
    OBVIOUS
  <2>4. ~undefined
    BY DEF CallsInv
  <2> QED
    BY <2>1, <2>2, <2>3, <2>4 DEF UsesLive
<1> QED
  BY <1>1, Invariant, PTL
=============================================================================
