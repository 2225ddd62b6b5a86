------------------------- MODULE TaskSchedulerProofs -------------------------
(***************************************************************************)
(* What is proved of TaskManager's registry and scheduler, for any tasks,  *)
(* limits and rates: every status that changes stays marked until it is    *)
(* told; the scheduler implements Admission; it starts, asks and loses     *)
(* workers as Workers allows, and torrents as BtSession does, so that      *)
(* those that have to be held are; its rounds go on and have less to do    *)
(* with each turn.                                                         *)
(***************************************************************************)
EXTENDS TaskScheduler, FiniteSetTheorems, WellFoundedInduction, TLAPS

\* The registry: what is not in it has the blank entry, no HTTP task is marked
\* as deleted, and whatever is still to be told is dirty.
RegInv ==
  /\ reg \in [Tasks -> EntryType]
  /\ \A t \in Tasks : ~Known(t) => reg[t] = Entry("absent", FALSE)
  /\ \A t \in Https : ~reg[t].del
  /\ unsaid \subseteq Tasks
  /\ NoSilentChange

\* A torrent of which libtorrent will say that it has finished, is complete.
GoodHandles == {h \in HandleType : "finished" \in h.alerts => h.complete}
TorrentInv ==
  /\ torrent \in [Torrents -> GoodHandles]
  /\ \A t \in Torrents : torrent[t].at = "none" => torrent[t] = NoHandle
  /\ \A t \in Torrents : torrent[t].at # "none" => Known(t)

WorkerInv ==
  /\ worker \in [Https -> SUBSET {"runs", "pause", "delete"}]
  /\ \A t \in Https : worker[t] # {} => "runs" \in worker[t] /\ Known(t)

\* The scheduler owes a slot only while a forced task is the foremost.
SchedInv ==
  /\ sched \in [pc : {"sleep", "round", "pause"}, todo : SUBSET Tasks,
                preempted : BOOLEAN]
  /\ sched.preempted =>
       sched.pc = "round" /\ \E u \in Tasks : Foremost(u) /\ reg[u].force

\* What is still to be paused is in the registry.
TodoInv == \A t \in sched.todo : Known(t)

ConfigInv == max \in Maxes /\ net \in BOOLEAN /\ calls \in Nat

IInv == RegInv /\ TorrentInv /\ WorkerInv /\ SchedInv /\ TodoInv /\ ConfigInv

-----------------------------------------------------------------------------
(* Entries and handles.                                                    *)

\* The entry that Entry, Set and SetIdle give, field by field.
LEMMA EntryIs ==
  ASSUME NEW s \in Statuses, NEW f \in BOOLEAN
  PROVE  /\ Entry(s, f) \in EntryType
         /\ Entry(s, f).status = s /\ Entry(s, f).rate = 0
         /\ ~Entry(s, f).dirty /\ ~Entry(s, f).del
BY SchedulerAssumption DEF Entry, EntryType

LEMMA RestoredIs ==
  ASSUME NEW f \in BOOLEAN
  PROVE  /\ Restored(f) \in EntryType
         /\ Restored(f).status = "QUEUED" /\ Restored(f).dirty /\ ~Restored(f).del
         /\ Restored(f).del = FALSE
<1> DEFINE x == Entry("QUEUED", f)
<1>1. x \in EntryType /\ x.status = "QUEUED" /\ x.del = FALSE
  BY SchedulerAssumption DEF Entry, EntryType, Statuses
<1> HIDE DEF x
<1>2. /\ [x EXCEPT !.dirty = TRUE] \in EntryType
      /\ [x EXCEPT !.dirty = TRUE].status = "QUEUED" /\ [x EXCEPT !.dirty = TRUE].dirty
      /\ [x EXCEPT !.dirty = TRUE].del = FALSE
  BY <1>1 DEF EntryType
<1> QED
  BY <1>2 DEF Restored, x

\* The entry of a task that is not in the registry.
Blank == Entry("absent", FALSE)
LEMMA BlankIs ==
  /\ Blank \in EntryType
  /\ Blank.status = "absent" /\ ~Blank.dirty /\ ~Blank.del /\ Blank.del = FALSE
<1>1. "absent" \in Statuses
  BY DEF Statuses
<1>2. Blank.del = FALSE
  BY DEF Blank, Entry
<1> QED
  BY <1>1, <1>2, EntryIs DEF Blank

\* What an added task has for an entry: the one that is there, or a new one.
LEMMA AddedIs ==
  ASSUME RegInv, NEW t \in Tasks, NEW s \in Statuses, NEW f \in BOOLEAN
  PROVE  /\ Added(t, s, f) \in EntryType
         /\ Added(t, s, f).del = reg[t].del
         /\ Known(t) => /\ Added(t, s, f).status = reg[t].status
                        /\ Added(t, s, f).dirty = reg[t].dirty
         /\ ~Known(t) => Added(t, s, f).status = s
<1>1. CASE Known(t)
  <2>1. reg[t] \in EntryType
    BY DEF RegInv
  <2> DEFINE x == reg[t]
  <2> HIDE DEF x
  <2>2. x \in EntryType
    BY <2>1 DEF x
  <2>3. /\ [x EXCEPT !.row = f] \in EntryType
        /\ [x EXCEPT !.row = f].del = x.del /\ [x EXCEPT !.row = f].status = x.status
        /\ [x EXCEPT !.row = f].dirty = x.dirty
    BY <2>2 DEF EntryType
  <2>4. Added(t, s, f) = [x EXCEPT !.row = f]
    BY <1>1 DEF Added, x
  <2> QED
    BY <1>1, <2>3, <2>4 DEF x
<1>2. CASE ~Known(t)
  <2>1. Added(t, s, f) = Entry(s, f) /\ reg[t] = Blank
    BY <1>2 DEF Added, RegInv, Blank
  <2>2. Entry(s, f) \in EntryType /\ Entry(s, f).status = s
    BY EntryIs
  <2>3. Entry(s, f).del = FALSE
    BY DEF Entry
  <2> QED
    BY <1>2, <2>1, <2>2, <2>3, BlankIs
<1> QED
  BY <1>1, <1>2

LEMMA SetIs ==
  ASSUME RegInv, NEW t \in Tasks, NEW s \in Statuses
  PROVE  /\ Set(t, s) \in EntryType
         /\ Set(t, s).status = s /\ Set(t, s).dirty
         /\ Set(t, s).del = reg[t].del /\ Set(t, s).force = reg[t].force
BY DEF RegInv, Set, EntryType

LEMMA SetIdleIs ==
  ASSUME RegInv, NEW t \in Tasks, NEW s \in Statuses
  PROVE  /\ SetIdle(t, s) \in EntryType
         /\ SetIdle(t, s).status = s /\ SetIdle(t, s).dirty
         /\ SetIdle(t, s).del = reg[t].del /\ SetIdle(t, s).force = reg[t].force
<1> DEFINE e == Set(t, s)
<1>1. /\ e \in EntryType /\ e.status = s /\ e.dirty
      /\ e.del = reg[t].del /\ e.force = reg[t].force
  BY SetIs
<1>2. SetIdle(t, s) = [e EXCEPT !.rate = 0]
  BY DEF SetIdle
<1> HIDE DEF e
<1> QED
  BY <1>1, <1>2, SchedulerAssumption DEF EntryType

LEMMA AtIs ==
  ASSUME TorrentInv, NEW t \in Torrents, NEW at \in {"held", "on"}
  PROVE  At(t, at) \in GoodHandles /\ At(t, at).at = at
BY DEF TorrentInv, At, GoodHandles, HandleType

-----------------------------------------------------------------------------
(* Steps that leave all of a part alone, or all but one entry of it.       *)

LEMMA RegSame ==
  ASSUME RegInv, UNCHANGED reg, Changes
  PROVE  RegInv' /\ unsaid' = unsaid
<1>1. unsaid' = unsaid
  BY DEF Changes
<1>2. RegInv'
  BY <1>1 DEF RegInv, NoSilentChange, Known
<1> QED
  BY <1>1, <1>2

\* An entry may be replaced by one that is dirty if the old one was, or if its
\* status is another.
LEMMA RegOne ==
  ASSUME RegInv, Changes, NEW t \in Tasks, NEW e \in EntryType,
         reg' = [reg EXCEPT ![t] = e],
         e.status # "absent",
         Known(t) => ((reg[t].dirty \/ e.status # reg[t].status) => e.dirty),
         t \in Https => ~e.del
  PROVE  RegInv' /\ \A u \in Tasks : Known(u) => Known(u)'
<1>1. reg' \in [Tasks -> EntryType]
  BY DEF RegInv
<1>2. reg'[t] = e /\ \A u \in Tasks : u # t => reg'[u] = reg[u]
  BY DEF RegInv
<1>3. \A u \in Tasks : Known(u) => Known(u)'
  BY <1>2 DEF Known
<1>4. \A u \in Tasks : ~Known(u)' => reg'[u] = Entry("absent", FALSE)
  BY <1>2 DEF RegInv, Known
<1>5. \A u \in Https : ~reg'[u].del
  BY <1>2 DEF RegInv, Tasks
<1>6. unsaid' \subseteq Tasks
  BY DEF Changes, RegInv
<1>7. \A u \in unsaid' : reg'[u].dirty
  <2> SUFFICES ASSUME NEW u \in unsaid' PROVE reg'[u].dirty
    OBVIOUS
  <2>1. u \in Tasks /\ (u \in unsaid \/ (Known(u) /\ reg'[u].status # reg[u].status))
    BY DEF Changes, RegInv
  <2>2. u \in unsaid => reg[u].dirty
    BY DEF RegInv, NoSilentChange
  <2>3. ~Known(u) => u \notin unsaid
    BY <2>1, <2>2, BlankIs DEF RegInv, Blank
  <2> QED
    BY <1>2, <2>1, <2>2, <2>3
<1>8. RegInv'
  BY <1>1, <1>4, <1>5, <1>6, <1>7 DEF RegInv, NoSilentChange
<1> QED
  BY <1>3, <1>8

LEMMA TorrentSame ==
  ASSUME TorrentInv, UNCHANGED torrent, \A u \in Tasks : Known(u) => Known(u)'
  PROVE  TorrentInv'
BY DEF TorrentInv, Tasks

LEMMA TorrentOne ==
  ASSUME TorrentInv, \A u \in Tasks : Known(u) => Known(u)',
         NEW t \in Torrents, NEW h \in GoodHandles,
         torrent' = [torrent EXCEPT ![t] = h],
         h.at = "none" => h = NoHandle,
         h.at # "none" => Known(t)'
  PROVE  TorrentInv'
<1>1. torrent' \in [Torrents -> GoodHandles]
  BY DEF TorrentInv
<1>2. torrent'[t] = h /\ \A u \in Torrents : u # t => torrent'[u] = torrent[u]
  BY DEF TorrentInv
<1>3. Torrents \subseteq Tasks
  BY DEF Tasks
<1> QED
  BY <1>1, <1>2, <1>3 DEF TorrentInv

LEMMA WorkerSame ==
  ASSUME WorkerInv, UNCHANGED worker, \A u \in Tasks : Known(u) => Known(u)'
  PROVE  WorkerInv'
BY DEF WorkerInv, Tasks

LEMMA WorkerOne ==
  ASSUME WorkerInv, \A u \in Tasks : Known(u) => Known(u)',
         NEW t \in Https, NEW w \in SUBSET {"runs", "pause", "delete"},
         worker' = [worker EXCEPT ![t] = w],
         w # {} => "runs" \in w /\ Known(t)'
  PROVE  WorkerInv'
<1>1. worker' \in [Https -> SUBSET {"runs", "pause", "delete"}]
  BY DEF WorkerInv
<1>2. worker'[t] = w /\ \A u \in Https : u # t => worker'[u] = worker[u]
  BY DEF WorkerInv
<1>3. Https \subseteq Tasks
  BY DEF Tasks
<1> QED
  BY <1>1, <1>2, <1>3 DEF WorkerInv

\* While mtx_ is free the scheduler owes nobody a slot.
LEMMA SchedFree ==
  ASSUME SchedInv, UNCHANGED sched, MtxFree \/ UNCHANGED reg
  PROVE  SchedInv'
BY DEF SchedInv, MtxFree, Foremost, QueuedTasks, Queued, Better

LEMMA TodoSame ==
  ASSUME SchedInv, TodoInv, UNCHANGED sched, \A u \in Tasks : Known(u) => Known(u)'
  PROVE  TodoInv'
BY DEF SchedInv, TodoInv

-----------------------------------------------------------------------------
(* The initial states and the calls of the API.                            *)

LEMMA InvInit == Init => IInv
<1> SUFFICES ASSUME Init PROVE IInv
  OBVIOUS
<1>1. PICK rows \in SUBSET Tasks, forced \in SUBSET Torrents :
        /\ reg = [t \in Tasks |-> IF t \in rows THEN Restored(t \in forced)
                                  ELSE Blank]
        /\ unsaid = rows
  BY DEF Init, Blank
<1> DEFINE q(t) == Restored(t \in forced)
<1>2. \A t \in Tasks : /\ q(t) \in EntryType /\ q(t).status = "QUEUED"
                       /\ q(t).dirty /\ ~q(t).del
  <2> TAKE t \in Tasks
  <2> DEFINE f == t \in forced
  <2>1. f \in BOOLEAN
    OBVIOUS
  <2> HIDE DEF f
  <2>2. /\ Restored(f) \in EntryType /\ Restored(f).status = "QUEUED"
        /\ Restored(f).dirty /\ ~Restored(f).del
    BY <2>1, RestoredIs
  <2> QED
    BY <2>2 DEF f
<1> HIDE DEF q
<1>3. reg = [t \in Tasks |-> IF t \in rows THEN q(t) ELSE Blank]
  BY <1>1 DEF q
<1>4. RegInv
  <2>1. reg \in [Tasks -> EntryType]
    BY <1>2, <1>3, BlankIs
  <2>2. \A t \in Tasks : ~Known(t) => reg[t] = Blank
    BY <1>2, <1>3 DEF Known
  <2>3. \A t \in Https : ~reg[t].del
    BY <1>2, <1>3, BlankIs DEF Tasks
  <2> QED
    BY <1>1, <1>2, <1>3, <2>1, <2>2, <2>3 DEF RegInv, NoSilentChange, Blank
<1>5. TorrentInv
  <2>1. NoHandle \in GoodHandles /\ NoHandle.at = "none"
    BY DEF NoHandle, GoodHandles, HandleType
  <2> QED
    BY <2>1 DEF Init, TorrentInv
<1>6. WorkerInv
  BY DEF Init, WorkerInv
<1>7. SchedInv /\ TodoInv
  BY DEF Init, SchedInv, TodoInv, Sleeping
<1> QED
  BY <1>4, <1>5, <1>6, <1>7 DEF Init, IInv, ConfigInv

LEMMA CountsUp == ASSUME IInv, Counts, UNCHANGED config PROVE ConfigInv'
BY DEF IInv, ConfigInv, Counts, config

\* Registering a task keeps what is known, and makes the task known.
LEMMA RegistersOne ==
  ASSUME RegInv, Changes, NEW t \in Tasks, NEW s \in Statuses, s # "absent",
         Registers(t, s)
  PROVE  RegInv' /\ Known(t)' /\ \A u \in Tasks : Known(u) => Known(u)'
<1>1. PICK f \in BOOLEAN : reg' = [reg EXCEPT ![t] = Added(t, s, f)]
  BY DEF Registers, Forces
<1> DEFINE e == Added(t, s, f)
<1>2. /\ e \in EntryType /\ e.del = reg[t].del
      /\ Known(t) => e.status = reg[t].status /\ e.dirty = reg[t].dirty
      /\ ~Known(t) => e.status = s
  BY AddedIs
<1>3. reg' = [reg EXCEPT ![t] = e]
  BY <1>1
<1> HIDE DEF e
<1>4. e.status # "absent" /\ (t \in Https => ~e.del)
  BY <1>2 DEF Known, RegInv
<1>5. RegInv' /\ \A u \in Tasks : Known(u) => Known(u)'
  BY <1>2, <1>3, <1>4, RegOne
<1>6. Known(t)'
  BY <1>3, <1>4 DEF Known, RegInv
<1> QED
  BY <1>5, <1>6

\* What is left of a torrent that could not be added to the session.
Failed(t, force) ==
  [Added(t, "ERROR", force) EXCEPT !.status = "ERROR", !.dirty = TRUE]
LEMMA FailedIs ==
  ASSUME RegInv, NEW t \in Tasks, NEW f \in BOOLEAN
  PROVE  /\ Failed(t, f) \in EntryType /\ Failed(t, f).status = "ERROR"
         /\ Failed(t, f).dirty /\ Failed(t, f).del = reg[t].del
<1> DEFINE x == Added(t, "ERROR", f)
<1>1. "ERROR" \in Statuses
  BY DEF Statuses
<1>2. x \in EntryType /\ x.del = reg[t].del
  BY <1>1, AddedIs
<1> HIDE DEF x
<1> DEFINE e == [x EXCEPT !.status = "ERROR", !.dirty = TRUE]
<1>3. e \in EntryType /\ e.status = "ERROR" /\ e.dirty /\ e.del = x.del
  BY <1>1, <1>2 DEF EntryType
<1> QED
  BY <1>2, <1>3 DEF Failed, x

LEMMA AddHttpStep ==
  ASSUME IInv, NEW t \in Tasks, AddHttp(t), Changes PROVE IInv'
<1>1. SchedInv' /\ ConfigInv' /\ UNCHANGED sched
  BY SchedFree, CountsUp DEF AddHttp, Calls, IInv
<1>2. CASE UNCHANGED reg /\ (worker' = worker \/ worker' = [worker EXCEPT ![t] = {}])
  <2>1. RegInv' /\ \A u \in Tasks : Known(u) => Known(u)'
    BY <1>2, RegSame DEF IInv, Known
  <2>2. t \in Https /\ UNCHANGED torrent
    BY DEF AddHttp
  <2>3. WorkerInv'
    BY <1>2, <2>1, <2>2, WorkerSame, WorkerOne DEF IInv
  <2> QED
    BY <1>1, <2>1, <2>2, <2>3, TorrentSame, TodoSame DEF IInv
<1>3. CASE Registers(t, "DOWNLOADING") /\ worker' = [worker EXCEPT ![t] = {"runs"}]
  <2>1. RegInv' /\ Known(t)' /\ \A u \in Tasks : Known(u) => Known(u)'
    BY <1>3, RegistersOne DEF IInv, Statuses
  <2>2. t \in Https /\ UNCHANGED torrent
    BY DEF AddHttp
  <2>3. WorkerInv'
    BY <1>3, <2>1, <2>2, WorkerOne DEF IInv
  <2> QED
    BY <1>1, <2>1, <2>2, <2>3, TorrentSame, TodoSame DEF IInv
<1> QED
  BY <1>2, <1>3 DEF AddHttp

LEMMA AddTorrentStep ==
  ASSUME IInv, NEW t \in Tasks, AddTorrent(t), Changes PROVE IInv'
<1>1. SchedInv' /\ ConfigInv' /\ UNCHANGED sched
  BY SchedFree, CountsUp DEF AddTorrent, Calls, IInv
<1>2. t \in Torrents /\ UNCHANGED worker
  BY DEF AddTorrent
<1>3. At(t, "held") \in GoodHandles /\ At(t, "held").at = "held"
  BY <1>2, AtIs DEF IInv
<1>4. RegInv' /\ Known(t)' /\ \A u \in Tasks : Known(u) => Known(u)'
  <2>1. CASE Registers(t, "RESOLVING")
    BY <2>1, RegistersOne DEF IInv, Statuses
  <2>2. CASE \E force \in BOOLEAN :
               reg' = [reg EXCEPT ![t] = Failed(t, force)]
    <3>1. PICK force \in BOOLEAN : reg' = [reg EXCEPT ![t] = Failed(t, force)]
      BY <2>2
    <3> DEFINE e == Failed(t, force)
    <3>4. e \in EntryType /\ e.status = "ERROR" /\ e.dirty
      BY FailedIs DEF IInv
    <3>5. reg' = [reg EXCEPT ![t] = e]
      BY <3>1
    <3> HIDE DEF e
    <3>6. t \notin Https
      BY <1>2, SchedulerAssumption
    <3>7. RegInv' /\ \A u \in Tasks : Known(u) => Known(u)'
      BY <3>4, <3>5, <3>6, RegOne DEF IInv
    <3>8. Known(t)'
      BY <3>4, <3>5 DEF Known, IInv, RegInv
    <3> QED
      BY <3>7, <3>8
  <2> QED
    BY <2>1, <2>2 DEF AddTorrent, Failed
<1>5. torrent' = torrent \/ torrent' = [torrent EXCEPT ![t] = At(t, "held")]
  BY DEF AddTorrent
<1>6. TorrentInv'
  BY <1>2, <1>3, <1>4, <1>5, TorrentSame, TorrentOne DEF IInv
<1> QED
  BY <1>1, <1>2, <1>4, <1>6, WorkerSame, TodoSame DEF IInv

LEMMA ResumeStep ==
  ASSUME IInv, NEW t \in Tasks, ResumeTask(t), Changes PROVE IInv'
<1>1. SchedInv' /\ ConfigInv' /\ UNCHANGED sched
  BY SchedFree, CountsUp DEF ResumeTask, Calls, IInv
<1>2. PICK force \in BOOLEAN :
        reg' = [reg EXCEPT ![t] = [Set(t, "QUEUED") EXCEPT !.force = force]]
  BY DEF ResumeTask
<1> DEFINE e == [Set(t, "QUEUED") EXCEPT !.force = force]
<1>3. e \in EntryType /\ e.status = "QUEUED" /\ e.dirty /\ e.del = reg[t].del
  BY SetIs DEF IInv, EntryType, Statuses
<1>4. reg' = [reg EXCEPT ![t] = e]
  BY <1>2
<1> HIDE DEF e
<1>5. RegInv' /\ \A u \in Tasks : Known(u) => Known(u)'
  BY <1>3, <1>4, RegOne DEF IInv, RegInv
<1> QED
  BY <1>1, <1>5, TorrentSame, WorkerSame, TodoSame DEF IInv, ResumeTask

\* What a worker is asked for.
LEMMA AsksWorker ==
  ASSUME IInv, NEW t \in Https, NEW what \in {"pause", "delete"}, Asks(t, what),
         \A u \in Tasks : Known(u) => Known(u)'
  PROVE  WorkerInv'
<1> DEFINE w == IF "runs" \in worker[t] THEN worker[t] \cup {what} ELSE worker[t]
<1>1. worker' = [worker EXCEPT ![t] = w]
  BY DEF Asks
<1>2. w \in SUBSET {"runs", "pause", "delete"} /\ (w # {} => "runs" \in w /\ Known(t))
  BY DEF IInv, WorkerInv
<1>3. t \in Tasks
  BY DEF Tasks
<1> HIDE DEF w
<1> QED
  BY <1>1, <1>2, <1>3, WorkerOne DEF IInv

LEMMA HttpAskStep ==
  ASSUME IInv, NEW t \in Tasks, PauseHttp(t) \/ DeleteHttp(t), Changes PROVE IInv'
<1>1. UNCHANGED <<reg, torrent, sched, config>> /\ Counts /\ t \in Https
  BY DEF PauseHttp, DeleteHttp
<1>2. RegInv' /\ \A u \in Tasks : Known(u) => Known(u)'
  BY <1>1, RegSame DEF IInv, Known
<1>3. Asks(t, "pause") \/ Asks(t, "delete")
  BY DEF PauseHttp, DeleteHttp
<1>4. WorkerInv'
  BY <1>1, <1>2, <1>3, AsksWorker
<1>5. SchedInv' /\ ConfigInv'
  BY <1>1, SchedFree, CountsUp DEF IInv
<1> QED
  BY <1>1, <1>2, <1>4, <1>5, TorrentSame, TodoSame DEF IInv

LEMMA PauseTorrentStep ==
  ASSUME IInv, NEW t \in Tasks, PauseTorrent(t), Changes PROVE IInv'
<1>1. SchedInv' /\ ConfigInv' /\ UNCHANGED sched
  BY SchedFree, CountsUp DEF PauseTorrent, Calls, IInv
<1>2. /\ t \in Torrents /\ Known(t) /\ UNCHANGED worker
      /\ torrent' = [torrent EXCEPT ![t] = At(t, "held")]
      /\ reg' = [reg EXCEPT ![t] = SetIdle(t, "PAUSED")]
  BY DEF PauseTorrent
<1>3. SetIdle(t, "PAUSED") \in EntryType /\ SetIdle(t, "PAUSED").status = "PAUSED"
      /\ SetIdle(t, "PAUSED").dirty /\ t \notin Https
  BY <1>2, SetIdleIs, SchedulerAssumption DEF IInv, Statuses
<1>4. RegInv' /\ \A u \in Tasks : Known(u) => Known(u)'
  BY <1>2, <1>3, RegOne DEF IInv
<1>5. At(t, "held") \in GoodHandles /\ At(t, "held").at = "held"
  BY <1>2, AtIs DEF IInv
<1>6. TorrentInv'
  BY <1>2, <1>4, <1>5, TorrentOne DEF IInv
<1> QED
  BY <1>1, <1>2, <1>4, <1>6, WorkerSame, TodoSame DEF IInv

LEMMA NoHandleIs == NoHandle \in GoodHandles /\ NoHandle.at = "none"
BY DEF NoHandle, GoodHandles, HandleType

LEMMA DeleteTorrentStep ==
  ASSUME IInv, NEW t \in Tasks, DeleteTorrent(t), Changes PROVE IInv'
<1>1. SchedInv' /\ ConfigInv' /\ UNCHANGED sched
  BY SchedFree, CountsUp DEF DeleteTorrent, Calls, IInv
<1>2. /\ t \in Torrents /\ Known(t) /\ UNCHANGED worker
      /\ torrent' = [torrent EXCEPT ![t] = NoHandle]
      /\ t \notin Https
  BY SchedulerAssumption DEF DeleteTorrent
<1> DEFINE e == [reg[t] EXCEPT !.del = TRUE, !.dirty = TRUE]
<1>3. reg' = [reg EXCEPT ![t] = e]
  BY DEF DeleteTorrent, IInv, RegInv
<1>4. e \in EntryType /\ e.status = reg[t].status /\ e.dirty
  BY DEF IInv, RegInv, EntryType
<1> HIDE DEF e
<1>5. RegInv' /\ \A u \in Tasks : Known(u) => Known(u)'
  BY <1>2, <1>3, <1>4, RegOne DEF IInv, Known
<1>6. TorrentInv'
  BY <1>2, <1>5, NoHandleIs, TorrentOne DEF IInv
<1> QED
  BY <1>1, <1>2, <1>5, <1>6, WorkerSame, TodoSame DEF IInv

\* UserStep.
LEMMA UserStepKeeps ==
  ASSUME IInv, NEW t \in Tasks, UserStep(t) PROVE IInv'
BY AddHttpStep, AddTorrentStep, ResumeStep, HttpAskStep, PauseTorrentStep,
   DeleteTorrentStep DEF UserStep

-----------------------------------------------------------------------------
(* The configuration, a restart, the engines and the maintenance thread.   *)

LEMMA SetConfigStep == ASSUME IInv, SetConfig, Changes PROVE IInv'
<1>1. UNCHANGED <<reg, worker, torrent, sched>>
  BY DEF SetConfig
<1>2. RegInv' /\ \A u \in Tasks : Known(u) => Known(u)'
  BY <1>1, RegSame DEF IInv, Known
<1>3. SchedInv'
  BY <1>1, SchedFree DEF IInv
<1>4. ConfigInv'
  BY DEF SetConfig, Counts, IInv, ConfigInv
<1> QED
  BY <1>1, <1>2, <1>3, <1>4, TorrentSame, WorkerSame, TodoSame DEF IInv

LEMMA RestartStep == ASSUME IInv, Restart, Changes PROVE IInv'
<1> DEFINE q(t) == Restored(reg[t].row)
<1>1. \A t \in Tasks : /\ q(t) \in EntryType /\ q(t).status = "QUEUED"
                       /\ q(t).dirty /\ ~q(t).del
  <2> TAKE t \in Tasks
  <2>1. reg[t].row \in BOOLEAN
    BY DEF IInv, RegInv, EntryType
  <2> QED
    BY <2>1, RestoredIs
<1> HIDE DEF q
<1>2. reg' = [t \in Tasks |-> IF Known(t) THEN q(t) ELSE Blank]
  BY DEF Restart, q, Blank
<1>3. RegInv'
  <2>1. reg' \in [Tasks -> EntryType]
    BY <1>1, <1>2, BlankIs
  <2>2. \A t \in Tasks : ~Known(t)' => reg'[t] = Entry("absent", FALSE)
    BY <1>1, <1>2 DEF Known, Blank
  <2>3. \A t \in Https : ~reg'[t].del
    BY <1>1, <1>2, BlankIs DEF Tasks
  <2>4. unsaid' \subseteq Tasks
    BY DEF Changes, IInv, RegInv
  <2>5. \A t \in unsaid' : reg'[t].dirty
    <3> SUFFICES ASSUME NEW t \in unsaid' PROVE reg'[t].dirty
      OBVIOUS
    <3>1. t \in Tasks /\ (t \in unsaid \/ Known(t))
      BY DEF Changes, IInv, RegInv
    <3>2. t \in unsaid => Known(t)
      BY <3>1, BlankIs DEF IInv, RegInv, NoSilentChange, Blank
    <3> QED
      BY <1>1, <1>2, <3>1, <3>2
  <2> QED
    BY <2>1, <2>2, <2>3, <2>4, <2>5 DEF RegInv, NoSilentChange
<1>4. TorrentInv'
  BY NoHandleIs DEF Restart, TorrentInv
<1>5. WorkerInv'
  BY DEF Restart, WorkerInv
<1>6. SchedInv' /\ TodoInv'
  BY DEF Restart, SchedInv, TodoInv, Sleeping
<1>7. ConfigInv'
  BY CountsUp DEF Restart
<1> QED
  BY <1>3, <1>4, <1>5, <1>6, <1>7 DEF IInv

LEMMA EngineConfig == ASSUME IInv, Engine PROVE ConfigInv'
BY DEF IInv, ConfigInv, Engine, config

LEMMA WorkerEndsStep ==
  ASSUME IInv, NEW t \in Tasks, WorkerEnds(t), Changes PROVE IInv'
<1>1. /\ t \in Https /\ UNCHANGED <<reg, torrent, sched>> /\ Engine
      /\ worker' = [worker EXCEPT ![t] = {}]
  BY DEF WorkerEnds, Engine
<1>2. RegInv' /\ \A u \in Tasks : Known(u) => Known(u)'
  BY <1>1, RegSame DEF IInv, Known
<1>3. WorkerInv'
  BY <1>1, <1>2, WorkerOne DEF IInv
<1> QED
  BY <1>1, <1>2, <1>3, TorrentSame, SchedFree, EngineConfig, TodoSame DEF IInv

LEMMA CompletesStep ==
  ASSUME IInv, NEW t \in Tasks, Completes(t), Changes PROVE IInv'
<1>1. t \in Torrents /\ torrent[t].at # "none" /\ UNCHANGED <<reg, worker, sched>> /\ Engine
  BY DEF Completes, InSession, Engine
<1> DEFINE h == [torrent[t] EXCEPT !.complete = TRUE,
                                   !.alerts = torrent[t].alerts \cup {"finished"}]
<1>2. torrent' = [torrent EXCEPT ![t] = h]
  BY <1>1 DEF Completes, IInv, TorrentInv, GoodHandles, HandleType
<1>3. h \in GoodHandles /\ h.at # "none"
  BY <1>1 DEF IInv, TorrentInv, GoodHandles, HandleType
<1>4. Known(t) /\ t \in Tasks
  BY <1>1 DEF IInv, TorrentInv
<1> HIDE DEF h
<1>5. RegInv' /\ \A u \in Tasks : Known(u) => Known(u)'
  BY <1>1, RegSame DEF IInv, Known
<1>6. TorrentInv'
  BY <1>1, <1>2, <1>3, <1>4, <1>5, TorrentOne DEF IInv
<1> QED
  BY <1>1, <1>5, <1>6, WorkerSame, SchedFree, EngineConfig, TodoSame DEF IInv

\* An alert is taken from a torrent that is in the session.
LEMMA HandlesStep ==
  ASSUME IInv, NEW t \in Tasks, NEW alert, Handles(t, alert),
         \A u \in Tasks : Known(u) => Known(u)'
  PROVE  TorrentInv'
<1>1. t \in Torrents /\ alert \in torrent[t].alerts
  BY DEF Handles, Pending
<1> DEFINE h == [torrent[t] EXCEPT !.alerts = torrent[t].alerts \ {alert}]
<1>2. torrent' = [torrent EXCEPT ![t] = h]
  BY <1>1 DEF Handles, IInv, TorrentInv, GoodHandles, HandleType
<1>3. h \in GoodHandles /\ h.at = torrent[t].at
  BY <1>1 DEF IInv, TorrentInv, GoodHandles, HandleType
<1>4. torrent[t].at # "none"
  BY <1>1 DEF IInv, TorrentInv, NoHandle
<1>5. Known(t)
  BY <1>1, <1>4 DEF IInv, TorrentInv
<1> HIDE DEF h
<1> QED
  BY <1>1, <1>2, <1>3, <1>4, <1>5, TorrentOne DEF IInv

LEMMA AlertStep ==
  ASSUME IInv, NEW t \in Tasks, Parsed(t) \/ Finished(t), Changes PROVE IInv'
<1>1. UNCHANGED <<worker, sched>> /\ Engine /\ MtxFree
  BY DEF Parsed, Finished, Handles, Pending, Engine
<1>2. \/ UNCHANGED reg
      \/ \E s \in {"QUEUED", "COMPLETED"} : reg' = [reg EXCEPT ![t] = Set(t, s)]
  BY DEF Parsed, Finished
<1>3. t \notin Https
  BY SchedulerAssumption DEF Parsed, Finished, Handles, Pending
<1>4. RegInv' /\ \A u \in Tasks : Known(u) => Known(u)'
  <2>1. CASE UNCHANGED reg
    BY <2>1, RegSame DEF IInv, Known
  <2>2. CASE \E s \in {"QUEUED", "COMPLETED"} : reg' = [reg EXCEPT ![t] = Set(t, s)]
    <3>1. PICK s \in {"QUEUED", "COMPLETED"} : reg' = [reg EXCEPT ![t] = Set(t, s)]
      BY <2>2
    <3>2. s \in Statuses /\ s # "absent"
      BY DEF Statuses
    <3>3. Set(t, s) \in EntryType /\ Set(t, s).status = s /\ Set(t, s).dirty
      BY <3>2, SetIs DEF IInv
    <3> QED
      BY <1>3, <3>1, <3>2, <3>3, RegOne DEF IInv
  <2> QED
    BY <1>2, <2>1, <2>2
<1>5. TorrentInv'
  BY <1>4, HandlesStep, TorrentSame DEF Parsed, Finished, IInv
<1> QED
  BY <1>1, <1>4, <1>5, WorkerSame, SchedFree, EngineConfig, TodoSame DEF IInv

LEMMA StateUpdateStep ==
  ASSUME IInv, NEW t \in Tasks, StateUpdate(t), Changes PROVE IInv'
<1>1. /\ UNCHANGED <<worker, torrent, sched>> /\ Engine /\ MtxFree /\ Known(t)
      /\ t \notin Https
  BY SchedulerAssumption DEF StateUpdate, Engine
<1>2. RegInv' /\ \A u \in Tasks : Known(u) => Known(u)'
  <2>1. CASE \E rate \in Rates : reg' = [reg EXCEPT ![t].rate = rate, ![t].dirty = TRUE]
    <3>1. PICK rate \in Rates : reg' = [reg EXCEPT ![t].rate = rate, ![t].dirty = TRUE]
      BY <2>1
    <3> DEFINE e == [reg[t] EXCEPT !.rate = rate, !.dirty = TRUE]
    <3>2. reg' = [reg EXCEPT ![t] = e]
      BY <3>1 DEF IInv, RegInv
    <3>3. e \in EntryType /\ e.status = reg[t].status /\ e.dirty
      BY DEF IInv, RegInv, EntryType
    <3> HIDE DEF e
    <3> QED
      BY <1>1, <3>2, <3>3, RegOne DEF IInv, Known
  <2>2. CASE reg' = [reg EXCEPT ![t] = SetIdle(t, "ERROR")]
    <3>1. SetIdle(t, "ERROR") \in EntryType /\ SetIdle(t, "ERROR").status = "ERROR"
          /\ SetIdle(t, "ERROR").dirty
      BY SetIdleIs DEF IInv, Statuses
    <3> QED
      BY <1>1, <2>2, <3>1, RegOne DEF IInv
  <2> QED
    BY <2>1, <2>2 DEF StateUpdate
<1> QED
  BY <1>1, <1>2, TorrentSame, WorkerSame, SchedFree, EngineConfig, TodoSame DEF IInv

LEMMA SweepStep ==
  ASSUME IInv, NEW t \in Tasks, Sweep(t), Changes PROVE IInv'
<1>1. /\ UNCHANGED <<reg, worker, sched>> /\ Engine /\ t \in Torrents
      /\ torrent' = [torrent EXCEPT ![t] = NoHandle]
  BY DEF Sweep, InSession, Engine
<1>2. RegInv' /\ \A u \in Tasks : Known(u) => Known(u)'
  BY <1>1, RegSame DEF IInv, Known
<1>3. TorrentInv'
  BY <1>1, <1>2, NoHandleIs, TorrentOne DEF IInv
<1> QED
  BY <1>1, <1>2, <1>3, WorkerSame, SchedFree, EngineConfig, TodoSame DEF IInv

LEMMA EngineStepKeeps ==
  ASSUME IInv, NEW t \in Tasks, EngineStep(t) PROVE IInv'
BY WorkerEndsStep, CompletesStep, AlertStep, StateUpdateStep, SweepStep DEF EngineStep

LEMMA FlushStep == ASSUME IInv, Flush PROVE IInv'
<1>1. /\ UNCHANGED <<worker, torrent, config, sched, calls>> /\ MtxFree
      /\ reg' = [t \in Tasks |-> [reg[t] EXCEPT !.dirty = FALSE]]
      /\ unsaid' = {t \in unsaid : ~reg[t].dirty}
  BY DEF Flush
<1>2. \A t \in Tasks : /\ reg'[t] \in EntryType /\ reg'[t].status = reg[t].status
                       /\ reg'[t].del = reg[t].del
  BY <1>1 DEF IInv, RegInv, EntryType
<1>3. \A t \in Tasks : Known(t)' <=> Known(t)
  BY <1>2 DEF Known
<1>4. RegInv'
  <2>1. reg' \in [Tasks -> EntryType]
    <3> DEFINE e(t) == [reg[t] EXCEPT !.dirty = FALSE]
    <3>1. reg' = [t \in Tasks |-> e(t)]
      BY <1>1
    <3>2. \A t \in Tasks : e(t) \in EntryType
      BY <1>1, <1>2
    <3> HIDE DEF e
    <3> QED
      BY <3>1, <3>2
  <2>2. \A t \in Tasks : ~Known(t)' => reg'[t] = Blank
    <3> SUFFICES ASSUME NEW t \in Tasks, ~Known(t) PROVE reg'[t] = Blank
      BY <1>3
    <3>1. reg[t] = Blank
      BY DEF IInv, RegInv, Blank
    <3>2. reg'[t] = [Blank EXCEPT !.dirty = FALSE]
      BY <1>1, <3>1
    <3> QED
      BY <3>2 DEF Entry, Blank
  <2>3. \A t \in Https : ~reg'[t].del
    BY <1>2 DEF Tasks, IInv, RegInv
  <2>4. unsaid' = {}
    BY <1>1 DEF IInv, RegInv, NoSilentChange
  <2> QED
    BY <2>1, <2>2, <2>3, <2>4 DEF RegInv, NoSilentChange, Blank
<1>5. SchedInv'
  BY <1>1, SchedFree DEF IInv
<1>6. ConfigInv'
  BY <1>1 DEF IInv, ConfigInv, config
<1> QED
  BY <1>1, <1>3, <1>4, <1>5, <1>6, TorrentSame, WorkerSame, TodoSame DEF IInv

-----------------------------------------------------------------------------
(* The scheduler thread.                                                   *)

\* The step changes no waiting task: the foremost one stays foremost.
LEMMA QueueSame ==
  ASSUME RegInv, NEW t \in Tasks, ~Queued(t), NEW e,
         reg' = [reg EXCEPT ![t] = e], e.status # "QUEUED"
  PROVE  /\ QueuedTasks' = QueuedTasks
         /\ \A u \in QueuedTasks : reg'[u] = reg[u]
         /\ \A u \in QueuedTasks : Foremost(u) => Foremost(u)'
<1>1. reg'[t] = e /\ \A u \in Tasks : u # t => reg'[u] = reg[u]
  BY DEF RegInv
<1>2. \A u \in Tasks : Queued(u)' <=> Queued(u)
  BY <1>1 DEF Queued
<1>3. QueuedTasks' = QueuedTasks
  BY <1>2 DEF QueuedTasks
<1>4. \A u \in QueuedTasks : reg'[u] = reg[u]
  BY <1>1 DEF QueuedTasks
<1>5. \A u, v \in QueuedTasks : Better(u, v)' <=> Better(u, v)
  BY <1>4 DEF Better
<1> QED
  BY <1>3, <1>4, <1>5 DEF Foremost

\* No entry is ever erased: only HTTP tasks could be, and none is deleted.
LEMMA NothingErased ==
  ASSUME RegInv, BeginRound
  PROVE  UNCHANGED reg
<1>1. \A t \in Tasks : ~Erasable(t)
  BY DEF RegInv, Erasable
<1>2. reg' = [t \in Tasks |-> reg[t]]
  BY <1>1 DEF BeginRound
<1> QED
  BY <1>2 DEF RegInv

LEMMA BeginEndStep ==
  ASSUME IInv, BeginRound \/ EndRound \/ EndPause, Changes PROVE IInv'
<1>1. UNCHANGED <<reg, worker, torrent, config, calls>>
  BY NothingErased DEF BeginRound, EndRound, EndPause, SchedulerFrame, IInv
<1>2. RegInv' /\ \A u \in Tasks : Known(u) => Known(u)'
  BY <1>1, RegSame DEF IInv, Known
<1>3. SchedInv' /\ TodoInv'
  <2>1. Active \subseteq Tasks /\ \A t \in Active : Known(t)
    BY DEF Active, Occupies, Known
  <2>2. sched' \in {Sleeping, [Sleeping EXCEPT !.pc = "round"],
                    [Sleeping EXCEPT !.pc = "pause", !.todo = Active]}
    BY DEF BeginRound, EndRound, EndPause
  <2>3. \E pc \in {"sleep", "round", "pause"}, todo \in SUBSET Active :
          sched' = [pc |-> pc, todo |-> todo, preempted |-> FALSE]
    BY <2>2 DEF Sleeping
  <2>4. PICK pc \in {"sleep", "round", "pause"}, todo \in SUBSET Active :
          sched' = [pc |-> pc, todo |-> todo, preempted |-> FALSE]
    BY <2>3
  <2> QED
    BY <1>2, <2>1, <2>4 DEF SchedInv, TodoInv
<1>4. ConfigInv'
  BY <1>1 DEF IInv, ConfigInv, config
<1> QED
  BY <1>1, <1>2, <1>3, <1>4, TorrentSame, WorkerSame DEF IInv

\* pause_task of either engine, for a task that is in the registry.
LEMMA EnginePausesKeeps ==
  ASSUME IInv, NEW t \in Tasks, Known(t), EnginePauses(t),
         \A u \in Tasks : Known(u) => Known(u)'
  PROVE  TorrentInv' /\ WorkerInv'
<1>1. CASE t \in Https
  <2>1. Asks(t, "pause") /\ UNCHANGED torrent
    BY <1>1 DEF EnginePauses
  <2> QED
    BY <1>1, <2>1, AsksWorker, TorrentSame DEF IInv
<1>2. CASE t \notin Https
  <2>1. t \in Torrents /\ torrent' = [torrent EXCEPT ![t] = At(t, "held")]
        /\ UNCHANGED worker
    BY <1>2 DEF EnginePauses, Tasks
  <2>2. At(t, "held") \in GoodHandles /\ At(t, "held").at = "held"
    BY <2>1, AtIs DEF IInv
  <2> QED
    BY <2>1, <2>2, TorrentOne, WorkerSame DEF IInv
<1> QED
  BY <1>1, <1>2

LEMMA ConfigKept == ASSUME IInv, SchedulerFrame PROVE ConfigInv'
BY DEF IInv, ConfigInv, SchedulerFrame, config

LEMMA PreemptStep ==
  ASSUME IInv, NEW t \in Tasks, Preempt(t), Changes PROVE IInv'
<1>1. /\ reg' = [reg EXCEPT ![t] = SetIdle(t, "PAUSED")] /\ EnginePauses(t)
      /\ reg[t].status = "DOWNLOADING" /\ ~reg[t].del
      /\ sched.pc = "round" /\ sched' = [sched EXCEPT !.preempted = TRUE]
      /\ SchedulerFrame
  BY DEF Preempt, Slowest, Downloading, InRound
<1>2. /\ SetIdle(t, "PAUSED") \in EntryType /\ SetIdle(t, "PAUSED").status = "PAUSED"
      /\ SetIdle(t, "PAUSED").dirty /\ SetIdle(t, "PAUSED").del = reg[t].del
  BY SetIdleIs DEF IInv, Statuses
<1>3. RegInv' /\ \A u \in Tasks : Known(u) => Known(u)'
  BY <1>1, <1>2, RegOne DEF IInv
<1>4. TorrentInv' /\ WorkerInv'
  BY <1>1, <1>3, EnginePausesKeeps DEF Known
<1>5. PICK u \in Tasks : Foremost(u) /\ reg[u].force
  BY DEF Preempt
<1>6. Foremost(u)' /\ reg'[u].force
  <2>1. u \in QueuedTasks /\ ~Queued(t)
    BY <1>1, <1>5 DEF Foremost, Queued
  <2> QED
    BY <1>1, <1>2, <1>5, <2>1, QueueSame DEF IInv
<1>7. SchedInv'
  BY <1>1, <1>5, <1>6 DEF IInv, SchedInv
<1>8. TodoInv'
  BY <1>1, <1>3 DEF IInv, SchedInv, TodoInv
<1> QED
  BY <1>1, <1>3, <1>4, <1>7, <1>8, ConfigKept DEF IInv

LEMMA DispatchStep ==
  ASSUME IInv, NEW t \in Tasks, Dispatch(t), Changes PROVE IInv'
<1>1. /\ SchedulerFrame /\ sched' = [sched EXCEPT !.preempted = FALSE]
      /\ reg[t].status = "QUEUED" /\ ~reg[t].del
  BY DEF Dispatch, Foremost, QueuedTasks, Queued
<1>2. Set(t, "DOWNLOADING") \in EntryType /\ Set(t, "DOWNLOADING").status = "DOWNLOADING"
      /\ Set(t, "DOWNLOADING").dirty /\ ~Set(t, "DOWNLOADING").del
      /\ Set(t, "ERROR") \in EntryType /\ Set(t, "ERROR").status = "ERROR"
      /\ Set(t, "ERROR").dirty /\ ~Set(t, "ERROR").del
  BY <1>1, SetIs DEF IInv, Statuses
<1>3. SchedInv'
  BY <1>1 DEF IInv, SchedInv
<1>4. CASE Resumes(t) /\ reg' = [reg EXCEPT ![t] = Started(t)]
  <2> DEFINE e == Started(t)
  <2>1. e \in EntryType /\ e.status = "DOWNLOADING" /\ e.dirty /\ ~e.del
    BY <1>2 DEF Started, EntryType
  <2>2. reg' = [reg EXCEPT ![t] = e]
    BY <1>4
  <2> HIDE DEF e
  <2>3. RegInv' /\ \A u \in Tasks : Known(u) => Known(u)'
    BY <2>1, <2>2, RegOne DEF IInv
  <2>4. Known(t)'
    BY <1>1, <2>3 DEF Known
  <2>5. TorrentInv' /\ WorkerInv'
    <3>1. CASE t \in Torrents
      <4>1. torrent' = [torrent EXCEPT ![t] = At(t, "on")] /\ UNCHANGED worker
        BY <1>4, <3>1 DEF Resumes
      <4>2. At(t, "on") \in GoodHandles /\ At(t, "on").at = "on"
        BY <3>1, AtIs DEF IInv
      <4> QED
        BY <2>3, <2>4, <3>1, <4>1, <4>2, TorrentOne, WorkerSame DEF IInv
    <3>2. CASE t \notin Torrents
      <4> DEFINE w == IF "delete" \in worker[t] THEN {"runs"} ELSE worker[t] \cup {"runs"}
      <4>1. t \in Https /\ UNCHANGED torrent
        BY <1>4, <3>2 DEF Resumes, Tasks
      <4>2. worker' = [worker EXCEPT ![t] = w]
        BY <1>4, <3>2 DEF Resumes
      <4>3. w \in SUBSET {"runs", "pause", "delete"} /\ "runs" \in w
        BY <4>1 DEF IInv, WorkerInv
      <4> HIDE DEF w
      <4> QED
        BY <2>3, <2>4, <4>1, <4>2, <4>3, WorkerOne, TorrentSame DEF IInv
    <3> QED
      BY <3>1, <3>2
  <2>6. TodoInv'
    BY <1>1, <2>3 DEF IInv, SchedInv, TodoInv
  <2> QED
    BY <1>1, <1>3, <2>3, <2>5, <2>6, ConfigKept DEF IInv
<1>5. CASE Fails(t)
  <2> DEFINE e == [Set(t, "ERROR") EXCEPT !.force = FALSE]
  <2>1. e \in EntryType /\ e.status = "ERROR" /\ e.dirty /\ ~e.del
    BY <1>2 DEF EntryType
  <2>2. reg' = [reg EXCEPT ![t] = e]
    BY <1>5 DEF Fails
  <2> HIDE DEF e
  <2>3. RegInv' /\ \A u \in Tasks : Known(u) => Known(u)'
    BY <2>1, <2>2, RegOne DEF IInv
  <2>4. TorrentInv'
    <3>1. CASE UNCHANGED torrent
      BY <2>3, <3>1, TorrentSame DEF IInv
    <3>2. CASE t \in Torrents /\ torrent' = [torrent EXCEPT ![t] = At(t, "held")]
      <4>1. At(t, "held") \in GoodHandles /\ At(t, "held").at = "held"
        BY <3>2, AtIs DEF IInv
      <4>2. Known(t)'
        BY <1>1, <2>3 DEF Known
      <4> QED
        BY <2>3, <3>2, <4>1, <4>2, TorrentOne DEF IInv
    <3> QED
      BY <1>5, <3>1, <3>2 DEF Fails
  <2>5. WorkerInv'
    <3>1. CASE UNCHANGED worker
      BY <2>3, <3>1, WorkerSame DEF IInv
    <3>2. CASE t \in Https /\ worker' = [worker EXCEPT ![t] = {}]
      BY <2>3, <3>2, WorkerOne DEF IInv
    <3> QED
      BY <1>5, <3>1, <3>2 DEF Fails
  <2>6. TodoInv'
    BY <1>1, <2>3 DEF IInv, SchedInv, TodoInv
  <2> QED
    BY <1>1, <1>3, <2>3, <2>4, <2>5, <2>6, ConfigKept DEF IInv
<1> QED
  BY <1>4, <1>5 DEF Dispatch

LEMMA PauseNextStep ==
  ASSUME IInv, NEW t \in Tasks, PauseNext(t), Changes PROVE IInv'
<1>1. /\ SchedulerFrame /\ t \in sched.todo /\ sched.pc = "pause"
      /\ sched' = [sched EXCEPT !.todo = sched.todo \ {t}]
  BY DEF PauseNext
<1>2. Known(t) /\ ~sched.preempted
  BY <1>1 DEF IInv, SchedInv, TodoInv
<1>3. SchedInv'
  BY <1>1, <1>2 DEF IInv, SchedInv
<1>4. RegInv' /\ \A u \in Tasks : Known(u) => Known(u)'
  <2>1. CASE UNCHANGED reg
    BY <2>1, RegSame DEF IInv, Known
  <2>2. CASE t \notin Https /\ reg' = [reg EXCEPT ![t] = SetIdle(t, "PAUSED")]
    <3>1. SetIdle(t, "PAUSED") \in EntryType /\ SetIdle(t, "PAUSED").status = "PAUSED"
          /\ SetIdle(t, "PAUSED").dirty
      BY SetIdleIs DEF IInv, Statuses
    <3> QED
      BY <2>2, <3>1, RegOne DEF IInv
  <2> QED
    BY <2>1, <2>2 DEF PauseNext
<1>5. TorrentInv' /\ WorkerInv'
  <2>1. EnginePauses(t) \/ UNCHANGED <<worker, torrent>>
    BY DEF PauseNext
  <2> QED
    BY <1>2, <1>4, <2>1, EnginePausesKeeps, TorrentSame, WorkerSame DEF IInv
<1>6. TodoInv'
  BY <1>1, <1>4 DEF IInv, SchedInv, TodoInv
<1> QED
  BY <1>1, <1>3, <1>4, <1>5, <1>6, ConfigKept DEF IInv

LEMMA SchedulerStepKeeps == ASSUME IInv, SchedulerStep PROVE IInv'
BY BeginEndStep, PreemptStep, DispatchStep, PauseNextStep DEF SchedulerStep

LEMMA InvNext == IInv /\ [Next]_vars => IInv'
<1> SUFFICES ASSUME IInv, [Next]_vars PROVE IInv'
  OBVIOUS
<1>1. CASE Next
  BY <1>1, UserStepKeeps, EngineStepKeeps, SetConfigStep, RestartStep, FlushStep,
     SchedulerStepKeeps DEF Next
<1>2. CASE UNCHANGED vars
  BY <1>2 DEF vars, config, IInv, RegInv, TorrentInv, WorkerInv, SchedInv, TodoInv,
     ConfigInv, NoSilentChange, Known, Foremost, QueuedTasks, Queued, Better
<1> QED
  BY <1>1, <1>2

-----------------------------------------------------------------------------
(* The theorems.                                                           *)

\* The invariant from which the others follow: of the registry, the handles and
\* workers of its tasks, and the slot that the scheduler may owe.
THEOREM Invariant == Spec => []IInv
BY InvInit, InvNext, PTL DEF Spec

\* Every variable keeps its type, and what is in the session or runs is in the
\* registry.
THEOREM TypeCorrect == Spec => []TypeOK
<1>1. IInv => TypeOK
  BY DEF IInv, RegInv, TorrentInv, GoodHandles, WorkerInv, SchedInv, ConfigInv, TypeOK
<1> QED
  BY <1>1, Invariant, PTL

\* The application hears of every change of a task's status, whoever makes it.
THEOREM EveryChangeIsTold == Spec => []NoSilentChange
<1>1. IInv => NoSilentChange
  BY DEF IInv, RegInv
<1> QED
  BY <1>1, Invariant, PTL

-----------------------------------------------------------------------------
(* The refinement of Admission.                                            *)

Forced == {t \in QueuedTasks : reg[t].force}
Turn == IF sched.pc # "round" THEN "others"
        ELSE IF sched.preempted THEN "owes" ELSE "scheduler"

LEMMA SlotsAreCounted == Cardinality(Active) \in Nat
<1>1. IsFiniteSet(Active)
  BY SchedulerAssumption, FS_Subset DEF Active
<1> QED
  BY <1>1, FS_CardinalityType

LEMMA SameCardinality == \A S : Admits!Cardinality(S) = Cardinality(S)
BY DEF Admits!Cardinality, Cardinality

LEMMA SameForemost == \A t : Admits!Foremost(t) <=> Foremost(t)
<1>1. \A u, v \in QueuedTasks : Admits!Better(u, v) <=> Better(u, v)
  BY DEF Admits!Better, Better
<1> QED
  BY <1>1 DEF Admits!Foremost, Foremost

\* Nobody waits and is active; neither is outside of the registry.
LEMMA WaitsOrRuns == QueuedTasks \subseteq Tasks /\ Active \subseteq Tasks \ QueuedTasks
BY DEF QueuedTasks, Queued, Active, Occupies

LEMMA OthersStep == ASSUME MtxFree, MtxFree' PROVE Admits!Others
<1>1. Turn = "others" /\ Turn' = "others"
  BY DEF MtxFree, Turn
<1>2. QueuedTasks' \subseteq Tasks /\ Active' \subseteq Tasks \ QueuedTasks'
  BY DEF QueuedTasks, Queued, Active, Occupies
<1>3. Forced' \subseteq QueuedTasks'
  BY DEF Forced
<1> QED
  BY <1>1, <1>2, <1>3 DEF Admits!Others, Turn, Forced

LEMMA StutterStep == ASSUME UNCHANGED <<reg, sched, max>> PROVE UNCHANGED Admits!vars
BY DEF Admits!vars, QueuedTasks, Queued, Active, Occupies

\* Everybody else takes mtx_ or leaves the registry alone.
LEMMA ElsewhereStep ==
  ASSUME NEW t \in Tasks, UserStep(t) \/ EngineStep(t)
  PROVE  Admits!Others \/ UNCHANGED Admits!vars
<1>1. (MtxFree /\ UNCHANGED sched) \/ UNCHANGED <<reg, sched, max>>
  BY DEF UserStep, EngineStep, AddHttp, AddTorrent, ResumeTask,
     PauseHttp, DeleteHttp, PauseTorrent, DeleteTorrent, Calls, WorkerEnds, Completes,
     Parsed, Finished, StateUpdate, Sweep, Handles, Pending, Engine, config
<1>2. MtxFree /\ UNCHANGED sched => MtxFree'
  BY DEF MtxFree
<1> QED
  BY <1>1, <1>2, OthersStep, StutterStep

LEMMA RestartIsRestart == ASSUME IInv, Restart PROVE Admits!Restart
<1>1. \A t \in Tasks : reg'[t].status \in {"QUEUED", "absent"}
  <2> TAKE t \in Tasks
  <2>1. reg[t].row \in BOOLEAN
    BY DEF IInv, RegInv, EntryType
  <2>2. reg'[t] = IF Known(t) THEN Restored(reg[t].row) ELSE Blank
    BY DEF Restart, Blank
  <2> QED
    BY <2>1, <2>2, RestoredIs, BlankIs
<1>2. Active' = {} /\ Forced' \subseteq QueuedTasks' /\ QueuedTasks' \subseteq Tasks
  BY <1>1 DEF Active, Occupies, Forced, QueuedTasks
<1>3. Turn' = "others"
  BY DEF Restart, Turn, Sleeping
<1> QED
  BY <1>2, <1>3 DEF Admits!Restart, Turn, Forced

LEMMA PreemptIsPreempt ==
  ASSUME IInv, NEW t \in Tasks, Preempt(t) PROVE Admits!Preempt(t)
<1>1. /\ reg' = [reg EXCEPT ![t] = SetIdle(t, "PAUSED")]
      /\ reg[t].status = "DOWNLOADING" /\ ~reg[t].del
      /\ sched.pc = "round" /\ sched' = [sched EXCEPT !.preempted = TRUE]
      /\ UNCHANGED max
      /\ Full /\ \E u \in Tasks : Foremost(u) /\ reg[u].force
  BY DEF Preempt, Slowest, Downloading, InRound, SchedulerFrame, config
<1>2. SetIdle(t, "PAUSED").status = "PAUSED"
  BY SetIdleIs DEF IInv, Statuses
<1>3. QueuedTasks' = QueuedTasks /\ Forced' = Forced
  BY <1>1, <1>2, QueueSame DEF IInv, Queued, Forced
<1>4. t \in Active /\ Active' = Active \ {t}
  BY <1>1, <1>2 DEF Active, Occupies, IInv, RegInv
<1>5. Turn # "others" /\ Turn' = "owes"
  BY <1>1 DEF Turn, IInv, SchedInv
<1>6. \E u \in Forced : Admits!Foremost(u)
  BY <1>1, SameForemost DEF Forced, Foremost
<1>7. Cardinality(Active) >= max
  BY <1>1 DEF Full, ActiveCount
<1> QED
  BY <1>1, <1>3, <1>4, <1>5, <1>6, <1>7, SameCardinality
  DEF Admits!Preempt, Turn, Forced

LEMMA DispatchIsAdmit ==
  ASSUME IInv, NEW t \in Tasks, Dispatch(t) PROVE Admits!Admit(t)
<1>1. /\ Foremost(t) /\ ~Full /\ sched.pc = "round" /\ UNCHANGED max
      /\ sched' = [sched EXCEPT !.preempted = FALSE]
  BY DEF Dispatch, InRound, SchedulerFrame, config
<1>2. Queued(t) /\ t \in QueuedTasks
  BY <1>1 DEF Foremost, QueuedTasks
<1>3. PICK e : /\ reg' = [reg EXCEPT ![t] = e]
               /\ e.status \in {"DOWNLOADING", "ERROR"} /\ ~e.del
  <2>1. \A s \in {"DOWNLOADING", "ERROR"} :
          LET e == [Set(t, s) EXCEPT !.force = FALSE] IN e.status = s /\ ~e.del
    BY <1>2, SetIs DEF IInv, Statuses, EntryType, Queued
  <2>2. \/ reg' = [reg EXCEPT ![t] = [Set(t, "DOWNLOADING") EXCEPT !.force = FALSE]]
        \/ reg' = [reg EXCEPT ![t] = [Set(t, "ERROR") EXCEPT !.force = FALSE]]
    BY DEF Dispatch, Started, Fails
  <2> QED
    BY <2>1, <2>2
<1>4. reg'[t] = e /\ \A u \in Tasks : u # t => reg'[u] = reg[u]
  BY <1>3 DEF IInv, RegInv
<1>5. QueuedTasks' = QueuedTasks \ {t}
  BY <1>3, <1>4 DEF QueuedTasks, Queued
<1>6. Forced' = Forced \ {t}
  BY <1>4, <1>5 DEF Forced, QueuedTasks
<1>7. Active' \in {Active, Active \cup {t}}
  <2>1. t \notin Active
    BY <1>2 DEF Active, Occupies, Queued
  <2>2. \A u \in Tasks : u # t => (Occupies(u)' <=> Occupies(u))
    BY <1>4 DEF Occupies
  <2> QED
    BY <2>1, <2>2 DEF Active
<1>8. Turn # "others" /\ Turn' = "scheduler"
  BY <1>1 DEF Turn, IInv, SchedInv
<1>9. Turn = "owes" => t \in Forced
  <2> SUFFICES ASSUME Turn = "owes" PROVE t \in Forced
    OBVIOUS
  <2>1. PICK u \in Tasks : Foremost(u) /\ reg[u].force
    BY DEF Turn, IInv, SchedInv
  <2>2. ~Better(u, t) /\ u \in QueuedTasks
    BY <1>1, <2>1 DEF Foremost
  <2> QED
    BY <1>2, <2>1, <2>2 DEF Better, Forced
<1>10. Cardinality(Active) < max
  BY <1>1, SlotsAreCounted, SchedulerAssumption DEF Full, ActiveCount, IInv, ConfigInv
<1> QED
  BY <1>1, <1>5, <1>6, <1>7, <1>8, <1>9, <1>10, SameForemost,
     SameCardinality
  DEF Admits!Admit, Turn, Forced

LEMMA SchedulerRefines ==
  ASSUME IInv, SchedulerStep PROVE Admits!Next \/ UNCHANGED Admits!vars
<1>1. CASE BeginRound
  <2>1. UNCHANGED reg /\ UNCHANGED max
    BY <1>1, NothingErased DEF IInv, BeginRound, SchedulerFrame, config
  <2>2. MtxFree
    BY <1>1 DEF BeginRound, MtxFree
  <2>3. CASE net
    <3>1. sched' = [Sleeping EXCEPT !.pc = "round"] /\ sched.pc = "sleep"
      BY <1>1, <2>3 DEF BeginRound
    <3>2. Turn = "others" /\ Turn' = "scheduler"
      BY <3>1 DEF Turn, Sleeping
    <3>3. UNCHANGED <<QueuedTasks, Forced, Active>>
      BY <2>1 DEF QueuedTasks, Queued, Forced, Active, Occupies
    <3> QED
      BY <2>1, <3>2, <3>3 DEF Admits!Next, Admits!TakeTurn, Turn, Forced
  <2>4. CASE ~net
    <3>1. MtxFree'
      BY <1>1, <2>4 DEF BeginRound, MtxFree, Sleeping
    <3> QED
      BY <2>2, <3>1, OthersStep DEF Admits!Next
  <2> QED
    BY <2>3, <2>4
<1>2. CASE EndRound
  <2>1. UNCHANGED <<reg, max>> /\ sched.pc = "round" /\ sched' = Sleeping
    BY <1>2 DEF EndRound, SchedulerFrame, config
  <2>2. Turn # "others" /\ Turn' = "others"
    BY <2>1 DEF Turn, Sleeping
  <2>3. UNCHANGED <<QueuedTasks, Forced, Active>>
    BY <2>1 DEF QueuedTasks, Queued, Forced, Active, Occupies
  <2> QED
    BY <2>1, <2>2, <2>3 DEF Admits!Next, Admits!GiveTurn, Turn, Forced
<1>3. CASE EndPause \/ \E t \in Tasks : PauseNext(t)
  <2>1. MtxFree /\ MtxFree'
    BY <1>3 DEF EndPause, PauseNext, MtxFree, Sleeping, IInv, SchedInv
  <2> QED
    BY <2>1, OthersStep DEF Admits!Next
<1>4. CASE \E t \in Tasks : Preempt(t) \/ Dispatch(t)
  BY <1>4, PreemptIsPreempt, DispatchIsAdmit DEF Admits!Next
<1> QED
  BY <1>1, <1>2, <1>3, <1>4 DEF SchedulerStep

\* The scheduler implements Admission: while it holds mtx_ nobody moves a task
\* between waiting and active but the scheduler itself, which gives a slot to
\* the foremost task only while there is one, and takes one away only for a
\* forced task, which is then the next to be admitted.
THEOREM SchedulerAdmits == Spec => AdmitsSpec
<1>1. Init => Admits!Init
  <2> SUFFICES ASSUME Init PROVE Admits!Init
    OBVIOUS
  <2>1. Turn = "others"
    BY DEF Init, Turn, Sleeping
  <2> QED
    BY <2>1, WaitsOrRuns DEF Admits!Init, Turn
<1>2. IInv /\ [Next]_vars => [Admits!Next]_Admits!vars
  <2> SUFFICES ASSUME IInv, [Next]_vars PROVE Admits!Next \/ UNCHANGED Admits!vars
    OBVIOUS
  <2>1. CASE UNCHANGED vars
    BY <2>1, StutterStep DEF vars, config
  <2>2. CASE \E t \in Tasks : UserStep(t) \/ EngineStep(t)
    BY <2>2, ElsewhereStep DEF Admits!Next
  <2>3. CASE SetConfig \/ Flush
    <3>1. MtxFree /\ UNCHANGED sched
      BY <2>3 DEF SetConfig, Flush
    <3> QED
      BY <3>1, OthersStep DEF MtxFree, Admits!Next
  <2>4. CASE Restart
    BY <2>4, RestartIsRestart DEF Admits!Next
  <2>5. CASE SchedulerStep
    BY <2>5, SchedulerRefines
  <2> QED
    BY <2>1, <2>2, <2>3, <2>4, <2>5 DEF Next
<1> QED
  BY <1>1, <1>2, Invariant, PTL DEF Spec, AdmitsSpec, Admits!Spec

-----------------------------------------------------------------------------
(* The refinement of Workers.                                              *)

LEMMA AskIsAsk ==
  ASSUME TypeOK, NEW t \in Https, NEW what \in {"pause", "delete"}, Asks(t, what)
  PROVE  Pool!Next \/ UNCHANGED worker
<1>1. CASE "runs" \in worker[t]
  <2>1. Pool!Asks(t, what)
    BY <1>1 DEF Asks, Pool!Asks, TypeOK
  <2> QED
    BY <2>1 DEF Pool!Next
<1>2. CASE "runs" \notin worker[t]
  BY <1>2 DEF Asks, TypeOK
<1> QED
  BY <1>1, <1>2

LEMMA EndIsEnd ==
  ASSUME TypeOK, NEW t \in Https, worker' = [worker EXCEPT ![t] = {}]
  PROVE  Pool!Next \/ UNCHANGED worker
<1>1. CASE "runs" \in worker[t]
  BY <1>1 DEF Pool!Next, Pool!Ends
<1>2. CASE "runs" \notin worker[t]
  BY <1>2 DEF TypeOK
<1> QED
  BY <1>1, <1>2

LEMMA StartIsStart ==
  ASSUME TypeOK, NEW t \in Https, "delete" \in worker[t] \/ "runs" \notin worker[t],
         worker' = [worker EXCEPT ![t] = {"runs"}]
  PROVE  Pool!Next
<1>1. "runs" \notin worker[t] => worker[t] = {}
  BY DEF TypeOK
<1>2. Pool!Starts(t)
  BY <1>1 DEF Pool!Starts
<1> QED
  BY <1>2 DEF Pool!Next

LEMMA PoolStep == TypeOK /\ Next => Pool!Next \/ UNCHANGED worker
<1> SUFFICES ASSUME TypeOK, Next PROVE Pool!Next \/ UNCHANGED worker
  OBVIOUS
<1>1. ASSUME NEW t \in Tasks, UserStep(t) PROVE Pool!Next \/ UNCHANGED worker
  <2>1. CASE AddHttp(t)
    BY <2>1, EndIsEnd, StartIsStart DEF AddHttp
  <2>2. CASE PauseHttp(t) \/ DeleteHttp(t)
    BY <2>2, AskIsAsk DEF PauseHttp, DeleteHttp
  <2> QED
    BY <1>1, <2>1, <2>2 DEF UserStep, AddTorrent, ResumeTask, PauseTorrent, DeleteTorrent
<1>2. ASSUME NEW t \in Tasks, EngineStep(t) PROVE Pool!Next \/ UNCHANGED worker
  BY <1>2, EndIsEnd
     DEF EngineStep, WorkerEnds, Completes, Parsed, Finished, StateUpdate, Sweep
<1>3. CASE SetConfig \/ Restart
  BY <1>3 DEF SetConfig, Restart, Pool!Next, Pool!AllEnd
<1>4. ASSUME NEW t \in Tasks, Dispatch(t) PROVE Pool!Next \/ UNCHANGED worker
  <2>1. CASE Fails(t)
    BY <2>1, EndIsEnd DEF Fails
  <2>2. CASE Resumes(t)
    <3>1. CASE t \in Torrents
      BY <2>2, <3>1 DEF Resumes
    <3>2. CASE t \notin Torrents
      <4>1. /\ t \in Https
            /\ worker' = [worker EXCEPT ![t] = IF "delete" \in worker[t] THEN {"runs"}
                                               ELSE worker[t] \cup {"runs"}]
        BY <2>2, <3>2 DEF Resumes, Tasks
      <4>2. CASE "delete" \in worker[t] \/ "runs" \notin worker[t]
        <5>1. worker' = [worker EXCEPT ![t] = {"runs"}]
          BY <4>1, <4>2 DEF TypeOK
        <5> QED
          BY <4>1, <4>2, <5>1, StartIsStart
      <4>3. CASE "delete" \notin worker[t] /\ "runs" \in worker[t]
        BY <4>1, <4>3 DEF TypeOK
      <4> QED
        BY <4>2, <4>3
    <3> QED
      BY <3>1, <3>2
  <2> QED
    BY <1>4, <2>1, <2>2 DEF Dispatch
<1>5. ASSUME NEW t \in Tasks, EnginePauses(t) PROVE Pool!Next \/ UNCHANGED worker
  BY <1>5, AskIsAsk DEF EnginePauses
<1>6. CASE SchedulerStep
  BY <1>4, <1>5, <1>6 DEF SchedulerStep, BeginRound, EndRound, EndPause, Preempt, PauseNext
<1>7. CASE Flush
  BY <1>7 DEF Flush
<1> QED
  BY <1>1, <1>2, <1>3, <1>6, <1>7 DEF Next

\* What the task manager counts on is what the HTTP engine implements: it
\* starts, asks and loses workers as Workers lets it.
THEOREM SchedulerCountsOnWorkers == Spec => WorkersSpec
<1>1. Init => Pool!Init
  BY DEF Init, Pool!Init
<1>2. TypeOK /\ [Next]_vars => [Pool!Next]_worker
  BY PoolStep DEF vars
<1> QED
  BY <1>1, <1>2, TypeCorrect, PTL DEF Spec, WorkersSpec, Pool!Spec

-----------------------------------------------------------------------------
(* The refinement of BtSession.                                            *)

\* What BtSession sees of a torrent.
Slice(t) ==
  [status |-> reg[t].status, del |-> reg[t].del,
   handle |-> [at |-> torrent[t].at, whole |-> torrent[t].complete]]
Bt == [t \in Torrents |-> Slice(t)]

\* What the operators of BtSession read, by their names here.
LEMMA SliceIs ==
  ASSUME NEW t \in Torrents
  PROVE  /\ Session!Known(t) <=> Known(t)
         /\ Session!InSession(t) <=> InSession(t)
         /\ Bt[t].status = reg[t].status /\ Bt[t].del = reg[t].del
         /\ Bt[t].handle = [at |-> torrent[t].at, whole |-> torrent[t].complete]
BY DEF Bt, Slice, Session!Known, Session!InSession, Known, InSession

LEMMA SliceSame ==
  ASSUME \A u \in Torrents : /\ reg'[u].status = reg[u].status /\ reg'[u].del = reg[u].del
                             /\ torrent'[u] = torrent[u]
  PROVE  UNCHANGED Bt
BY DEF Bt, Slice

LEMMA NoHandleSlice ==
  Session!NoHandle = [at |-> NoHandle.at, whole |-> NoHandle.complete]
<1>1. NoHandle.at = "none" /\ NoHandle.complete = FALSE
  BY DEF NoHandle
<1> HIDE DEF NoHandle
<1> QED
  BY <1>1 DEF Session!NoHandle

\* A step of one torrent is what BtSession calls Becomes.
LEMMA SliceBecomes ==
  ASSUME NEW t \in Torrents,
         \A u \in Torrents : u # t => /\ reg'[u] = reg[u]
                                      /\ torrent'[u].at = torrent[u].at
                                      /\ torrent'[u].complete = torrent[u].complete,
         reg'[t].del = reg[t].del,
         NEW s, s = reg'[t].status,
         NEW h, h = [at |-> torrent'[t].at, whole |-> torrent'[t].complete]
  PROVE  Session!Becomes(t, s, h)
<1>1. \A u \in Torrents : u # t => Slice(u)' = Slice(u)
  BY DEF Slice
<1>2. Slice(t)' = [status |-> s, del |-> Bt[t].del, handle |-> h]
  BY SliceIs DEF Slice
<1>3. Bt' = [Bt EXCEPT ![t] = Slice(t)']
  BY <1>1 DEF Bt
<1> QED
  BY <1>2, <1>3 DEF Session!Becomes, Bt, Slice

\* Of a step of one torrent, from what it does to its entry and its handle.
LEMMA BecomesIs ==
  ASSUME IInv, NEW t \in Torrents, NEW e,
         reg' = [reg EXCEPT ![t] = e], e.del = reg[t].del,
         NEW h, torrent' = [torrent EXCEPT ![t] = h],
         NEW s, s = e.status, NEW w, w = [at |-> h.at, whole |-> h.complete]
  PROVE  Session!Becomes(t, s, w)
<1>1. t \in Tasks /\ Torrents \subseteq Tasks
  BY DEF Tasks
<1>2. /\ reg'[t] = e /\ torrent'[t] = h
      /\ \A u \in Torrents : u # t => reg'[u] = reg[u] /\ torrent'[u] = torrent[u]
  BY <1>1 DEF IInv, RegInv, TorrentInv
<1> QED
  BY <1>2, SliceBecomes

\* At is what BtSession's find_handle finds, put where it is to be.
LEMMA AtIsFound ==
  ASSUME IInv, NEW t \in Torrents, NEW at \in {"held", "on"}
  PROVE  \E h \in Session!Found(t) :
           Session!Put(h, at) = [at |-> At(t, at).at, whole |-> At(t, at).complete]
<1>1. CASE InSession(t)
  <2> DEFINE h == [at |-> torrent[t].at, whole |-> torrent[t].complete]
  <2>1. h \in Session!Found(t)
    BY <1>1, SliceIs DEF Session!Found, Bt, Slice
  <2>2. At(t, at).at = at /\ At(t, at).complete = torrent[t].complete
    BY <1>1 DEF At, InSession, IInv, TorrentInv, GoodHandles, HandleType
  <2>3. Session!Put(h, at) = [at |-> at, whole |-> torrent[t].complete]
    BY DEF Session!Put
  <2> QED
    BY <2>1, <2>2, <2>3
<1>2. CASE ~InSession(t)
  <2>1. [at |-> "held", whole |-> FALSE] \in Session!Found(t)
    BY <1>2, SliceIs DEF Session!Found, Bt, Slice
  <2>2. At(t, at).at = at /\ ~At(t, at).complete /\ At(t, at).complete = FALSE
    BY <1>2 DEF At, InSession
  <2>3. Session!Put([at |-> "held", whole |-> FALSE], at) = [at |-> at, whole |-> FALSE]
    BY DEF Session!Put
  <2> QED
    BY <2>1, <2>2, <2>3
<1> QED
  BY <1>1, <1>2

\* An entry that changes while the handle stays, or is put where it is to be.
LEMMA BecomesSame ==
  ASSUME IInv, NEW t \in Torrents, NEW e,
         reg' = [reg EXCEPT ![t] = e], e.del = reg[t].del, UNCHANGED torrent,
         NEW s, s = e.status, NEW w, w = Bt[t].handle
  PROVE  Session!Becomes(t, s, w)
<1>1. torrent' = [torrent EXCEPT ![t] = torrent[t]]
  BY DEF IInv, TorrentInv
<1>2. w = [at |-> torrent[t].at, whole |-> torrent[t].complete]
  BY SliceIs
<1> QED
  BY <1>1, <1>2, BecomesIs

LEMMA BecomesFound ==
  ASSUME IInv, NEW t \in Torrents, NEW e, NEW at \in {"held", "on"},
         reg' = [reg EXCEPT ![t] = e], e.del = reg[t].del,
         torrent' = [torrent EXCEPT ![t] = At(t, at)],
         NEW s, s = e.status
  PROVE  \E h \in Session!Found(t) : Session!Becomes(t, s, Session!Put(h, at))
<1>1. PICK h \in Session!Found(t) :
        Session!Put(h, at) = [at |-> At(t, at).at, whole |-> At(t, at).complete]
  BY AtIsFound
<1>2. Session!Becomes(t, s, Session!Put(h, at))
  BY <1>1, BecomesIs
<1> QED
  BY <1>2

\* The entries that the actions write.
LEMMA EntriesAre ==
  ASSUME IInv, NEW t \in Tasks
  PROVE  /\ \A s \in {"QUEUED", "COMPLETED", "ERROR"} :
              Set(t, s).status = s /\ Set(t, s).del = reg[t].del
         /\ \A s \in {"PAUSED", "ERROR"} :
              SetIdle(t, s).status = s /\ SetIdle(t, s).del = reg[t].del
         /\ ~Known(t) => reg[t] = Blank /\ reg[t].del = FALSE
<1>1. ~Known(t) => reg[t] = Blank
  BY DEF IInv, RegInv, Blank
<1>2. ~Known(t) => reg[t].del = FALSE
  BY <1>1, BlankIs
<1> QED
  BY <1>1, <1>2, SetIs, SetIdleIs DEF IInv, Statuses

LEMMA AddTorrentSlice ==
  ASSUME IInv, NEW t \in Tasks, AddTorrent(t) PROVE Session!Adds(t)
<1>1. /\ t \in Torrents /\ ~reg[t].del /\ ~InSession(t) /\ torrent[t] = NoHandle
  BY DEF AddTorrent, InSession, IInv, TorrentInv
<1>2. \A h \in Session!Found(t) : Session!Put(h, "held") = h
  BY <1>1, SliceIs DEF Session!Found, Session!Put
<1>3. Bt[t].handle = Session!NoHandle
  BY <1>1, SliceIs, NoHandleSlice
<1> DEFINE s == IF Known(t) THEN reg[t].status ELSE "RESOLVING"
<1>4. \A f \in BOOLEAN :
        /\ Added(t, "RESOLVING", f).status = s
        /\ Added(t, "RESOLVING", f).del = reg[t].del
        /\ Failed(t, f).status = "ERROR" /\ Failed(t, f).del = reg[t].del
  BY AddedIs, FailedIs DEF IInv, Statuses
<1>5. s = IF Session!Known(t) THEN Bt[t].status ELSE "RESOLVING"
  BY <1>1, SliceIs
<1> HIDE DEF s
<1>6. \/ Session!Becomes(t, s, Session!NoHandle)
      \/ \E h \in Session!Found(t) :
           Session!Becomes(t, s, h) \/ Session!Becomes(t, "ERROR", h)
  <2>1. CASE /\ \/ UNCHANGED torrent
                \/ torrent' = [torrent EXCEPT ![t] = At(t, "held")]
             /\ \E f \in BOOLEAN : reg' = [reg EXCEPT ![t] = Added(t, "RESOLVING", f)]
    <3>1. PICK f \in BOOLEAN : reg' = [reg EXCEPT ![t] = Added(t, "RESOLVING", f)]
      BY <2>1
    <3> DEFINE row == Added(t, "RESOLVING", f)
    <3>2. row.status = s /\ row.del = reg[t].del /\ reg' = [reg EXCEPT ![t] = row]
      BY <1>4, <3>1
    <3> HIDE DEF row
    <3> QED
      BY <1>1, <1>2, <1>3, <2>1, <3>2, BecomesSame, BecomesFound
  <2>2. CASE /\ torrent' = [torrent EXCEPT ![t] = At(t, "held")]
             /\ \E f \in BOOLEAN : reg' = [reg EXCEPT ![t] = Failed(t, f)]
    <3>1. PICK f \in BOOLEAN : reg' = [reg EXCEPT ![t] = Failed(t, f)]
      BY <2>2
    <3> DEFINE failed == Failed(t, f)
    <3>2. /\ failed.status = "ERROR" /\ failed.del = reg[t].del
          /\ reg' = [reg EXCEPT ![t] = failed]
      BY <1>4, <3>1
    <3> HIDE DEF failed
    <3> QED
      BY <1>1, <1>2, <2>2, <3>2, BecomesFound
  <2> QED
    BY <2>1, <2>2 DEF AddTorrent, Registers, Forces, Failed
<1> QED
  BY <1>1, <1>5, <1>6, SliceIs DEF Session!Adds, Bt, Slice

LEMMA CallSlices ==
  ASSUME IInv, NEW t \in Torrents, ResumeTask(t) \/ PauseTorrent(t) \/ DeleteTorrent(t)
  PROVE  Session!Queues(t) \/ Session!Pauses(t) \/ Session!Deletes(t)
<1>1. t \in Tasks
  BY DEF Tasks
<1>2. CASE ResumeTask(t)
  <2>1. PICK force \in BOOLEAN :
          reg' = [reg EXCEPT ![t] = [Set(t, "QUEUED") EXCEPT !.force = force]]
    BY <1>2 DEF ResumeTask
  <2> DEFINE e == [Set(t, "QUEUED") EXCEPT !.force = force]
  <2>2. e.status = "QUEUED" /\ e.del = reg[t].del
    BY <1>1, EntriesAre, SetIs DEF IInv, Statuses, EntryType
  <2>3. reg' = [reg EXCEPT ![t] = e] /\ UNCHANGED torrent
    BY <1>2, <2>1 DEF ResumeTask
  <2> HIDE DEF e
  <2>4. Session!Becomes(t, "QUEUED", Bt[t].handle)
    <3>1. PICK s, w : s = "QUEUED" /\ w = Bt[t].handle
      OBVIOUS
    <3>2. Session!Becomes(t, s, w)
      BY <2>2, <2>3, <3>1, BecomesSame
    <3> QED
      BY <3>1, <3>2 DEF Session!Becomes
  <2> QED
    BY <1>2, <2>4, SliceIs DEF ResumeTask, Session!Queues, Bt, Slice
<1>3. CASE PauseTorrent(t)
  <2>1. \E h \in Session!Found(t) : Session!Becomes(t, "PAUSED", Session!Put(h, "held"))
    BY <1>1, <1>3, EntriesAre, BecomesFound DEF PauseTorrent
  <2> QED
    BY <1>3, <2>1, SliceIs DEF PauseTorrent, Session!Pauses, Bt, Slice
<1>4. CASE DeleteTorrent(t)
  <2>1. /\ \A u \in Torrents : u # t => reg'[u] = reg[u] /\ torrent'[u] = torrent[u]
        /\ reg'[t].del = TRUE /\ reg'[t].status = reg[t].status /\ torrent'[t] = NoHandle
    BY <1>1, <1>4 DEF DeleteTorrent, IInv, RegInv, EntryType, TorrentInv, Tasks
  <2>2. \A u \in Torrents : u # t => Slice(u)' = Slice(u)
    BY <2>1 DEF Slice
  <2>3. Slice(t)' = [status |-> Bt[t].status, del |-> TRUE, handle |-> Session!NoHandle]
    BY <2>1, SliceIs, NoHandleSlice DEF Slice
  <2>4. Bt' = [Bt EXCEPT ![t] = Slice(t)']
    BY <2>2 DEF Bt
  <2> QED
    BY <1>4, <2>3, <2>4, SliceIs DEF DeleteTorrent, Session!Deletes, Bt, Slice
<1> QED
  BY <1>2, <1>3, <1>4

\* The calls of the API.
LEMMA UserSlices ==
  ASSUME IInv, NEW t \in Tasks, UserStep(t)
  PROVE  Session!Next \/ UNCHANGED Bt
<1>1. CASE t \notin Torrents
  <2>1. AddHttp(t) \/ ResumeTask(t) \/ PauseHttp(t) \/ DeleteHttp(t)
    BY <1>1 DEF UserStep, AddTorrent, PauseTorrent, DeleteTorrent
  <2>2. UNCHANGED torrent /\ \E e : reg' = reg \/ reg' = [reg EXCEPT ![t] = e]
    BY <1>1, <2>1 DEF AddHttp, ResumeTask, PauseHttp, DeleteHttp, Registers, Forces
  <2>3. \A u \in Torrents : reg'[u] = reg[u]
    BY <1>1, <2>2 DEF IInv, RegInv, Tasks
  <2> QED
    BY <2>2, <2>3, SliceSame
<1>2. CASE t \in Torrents
  <2>1. AddTorrent(t) \/ ResumeTask(t) \/ PauseTorrent(t) \/ DeleteTorrent(t)
    BY <1>2, SchedulerAssumption DEF UserStep, AddHttp, PauseHttp, DeleteHttp
  <2> QED
    BY <1>2, <2>1, AddTorrentSlice, CallSlices DEF Session!Next
<1> QED
  BY <1>1, <1>2

\* libtorrent and its alerts.
LEMMA EngineSlices ==
  ASSUME IInv, NEW t \in Tasks, EngineStep(t)
  PROVE  Session!Next \/ UNCHANGED Bt
<1>1. CASE WorkerEnds(t)
  BY <1>1, SliceSame DEF WorkerEnds
<1>2. CASE Completes(t)
  <2>1. t \in Torrents /\ InSession(t) /\ UNCHANGED reg
    BY <1>2 DEF Completes, InSession
  <2>2. /\ \A u \in Torrents : u # t => torrent'[u] = torrent[u]
        /\ torrent'[t].at = torrent[t].at /\ torrent'[t].complete = TRUE
    BY <1>2, <2>1 DEF Completes, IInv, TorrentInv, GoodHandles, HandleType
  <2>3. Session!Becomes(t, Bt[t].status, [at |-> Bt[t].handle.at, whole |-> TRUE])
    <3>1. PICK s, w : s = Bt[t].status /\ w = [at |-> Bt[t].handle.at, whole |-> TRUE]
      OBVIOUS
    <3>2. w = [at |-> torrent'[t].at, whole |-> torrent'[t].complete] /\ s = reg'[t].status
      <4>1. Bt[t].handle.at = torrent'[t].at /\ Bt[t].status = reg'[t].status
        <5>1. Bt[t].handle.at = torrent[t].at /\ Bt[t].status = reg[t].status
          BY <2>1 DEF Bt, Slice
        <5> QED
          BY <2>1, <2>2, <5>1
      <4>2. w = [at |-> torrent'[t].at, whole |-> torrent'[t].complete]
        BY ONLY <2>2, <3>1, <4>1, Zenon
      <4> QED
        BY <3>1, <4>1, <4>2
    <3>3. Session!Becomes(t, s, w)
      BY <2>1, <2>2, <3>2, SliceBecomes
    <3> QED
      BY <3>1, <3>3 DEF Session!Becomes
  <2>4. Session!Completes(t)
    BY <2>1, <2>3, SliceIs DEF Session!Completes, Bt, Slice
  <2> QED
    BY <2>1, <2>4 DEF Session!Next
<1>3. CASE Parsed(t) \/ Finished(t)
  <2>1. /\ t \in Torrents
        /\ \A u \in Torrents : /\ torrent'[u].at = torrent[u].at
                               /\ torrent'[u].complete = torrent[u].complete
    BY <1>3
    DEF Parsed, Finished, Handles, Pending, IInv, TorrentInv, GoodHandles, HandleType
  <2>2. CASE UNCHANGED reg
    <3>1. \A u \in Torrents : Slice(u)' = Slice(u)
      BY <2>1, <2>2 DEF Slice
    <3> QED
      BY <3>1 DEF Bt
  <2>3. CASE reg' # reg
    <3>1. PICK s \in {"QUEUED", "COMPLETED"} :
            /\ reg' = [reg EXCEPT ![t] = Set(t, s)] /\ Known(t)
            /\ s = "QUEUED" => ~reg[t].del
            /\ s = "COMPLETED" => torrent[t].complete
      <4>1. CASE Parsed(t)
        BY <2>3, <4>1 DEF Parsed
      <4>2. CASE Finished(t)
        <5>1. torrent[t].complete
          BY <4>2 DEF Finished, Handles, Pending, IInv, TorrentInv, GoodHandles
        <5>2. reg' = [reg EXCEPT ![t] = Set(t, "COMPLETED")] /\ Known(t)
          BY <2>3, <4>2 DEF Finished
        <5> QED
          BY <5>1, <5>2
      <4> QED
        BY <1>3, <4>1, <4>2
    <3>2. /\ \A u \in Torrents : u # t => reg'[u] = reg[u]
          /\ reg'[t].status = s /\ reg'[t].del = reg[t].del
      <4>1. PICK e : e = Set(t, s)
        OBVIOUS
      <4>2. e.status = s /\ e.del = reg[t].del
        BY <4>1, EntriesAre DEF IInv
      <4>3. reg' = [reg EXCEPT ![t] = e] /\ DOMAIN reg = Tasks
        BY <3>1, <4>1 DEF IInv, RegInv
      <4> QED
        BY <4>2, <4>3 DEF Tasks
    <3>3. Session!Becomes(t, s, Bt[t].handle)
      <4>1. PICK w : w = Bt[t].handle
        OBVIOUS
      <4>2. w = [at |-> torrent'[t].at, whole |-> torrent'[t].complete]
        BY <2>1, <4>1, SliceIs
      <4>3. PICK r : r = s
        OBVIOUS
      <4>4. Session!Becomes(t, r, w)
        BY <2>1, <3>2, <4>2, <4>3, SliceBecomes
      <4> QED
        BY <4>1, <4>3, <4>4 DEF Session!Becomes
    <3>4. CASE s = "QUEUED"
      BY <2>1, <3>1, <3>3, <3>4, SliceIs DEF Session!Queues, Session!Next, Bt, Slice
    <3>5. CASE s = "COMPLETED"
      BY <2>1, <3>1, <3>3, <3>5, SliceIs DEF Session!Finishes, Session!Next, Bt, Slice
    <3> QED
      BY <3>4, <3>5
  <2> QED
    BY <2>2, <2>3
<1>4. CASE StateUpdate(t)
  <2>1. t \in Torrents /\ Known(t) /\ UNCHANGED torrent
    BY <1>4 DEF StateUpdate
  <2>2. CASE \E rate \in Rates : reg' = [reg EXCEPT ![t].rate = rate, ![t].dirty = TRUE]
    <3>1. \A u \in Torrents : reg'[u].status = reg[u].status /\ reg'[u].del = reg[u].del
      BY <2>1, <2>2 DEF IInv, RegInv, EntryType, Tasks
    <3> QED
      BY <2>1, <3>1, SliceSame
  <2>3. CASE reg' = [reg EXCEPT ![t] = SetIdle(t, "ERROR")]
    <3>1. Session!Becomes(t, "ERROR", Bt[t].handle)
      <4>1. PICK s, w : s = "ERROR" /\ w = Bt[t].handle
        OBVIOUS
      <4>2. SetIdle(t, "ERROR").status = s /\ SetIdle(t, "ERROR").del = reg[t].del
        BY <4>1, EntriesAre
      <4>3. PICK e : e = SetIdle(t, "ERROR")
        OBVIOUS
      <4>4. Session!Becomes(t, s, w)
        BY <2>1, <2>3, <4>1, <4>2, <4>3, BecomesSame
      <4> QED
        BY <4>1, <4>4 DEF Session!Becomes
    <3> QED
      BY <2>1, <3>1, SliceIs DEF Session!Fails, Session!Next, Bt, Slice
  <2> QED
    BY <1>4, <2>2, <2>3 DEF StateUpdate
<1>5. CASE Sweep(t)
  <2>1. /\ t \in Torrents /\ InSession(t) /\ UNCHANGED reg
        /\ reg[t].del \/ torrent[t].complete
        /\ torrent' = [torrent EXCEPT ![t] = NoHandle]
    BY <1>5 DEF Sweep, InSession
  <2>2. reg' = [reg EXCEPT ![t] = reg[t]]
    BY <2>1 DEF IInv, RegInv
  <2>3. Session!Becomes(t, Bt[t].status, Session!NoHandle)
    BY <2>1, <2>2, BecomesIs, SliceIs, NoHandleSlice
  <2> QED
    BY <2>1, <2>3, SliceIs DEF Session!Leaves, Session!Next, Bt, Slice
<1> QED
  BY <1>1, <1>2, <1>3, <1>4, <1>5 DEF EngineStep

\* The scheduler thread, which pauses and starts torrents.
LEMMA PauseSlice ==
  ASSUME IInv, NEW t \in Torrents, Known(t), EnginePauses(t),
         reg' = [reg EXCEPT ![t] = SetIdle(t, "PAUSED")]
  PROVE  Session!Pauses(t)
<1>1. t \in Tasks /\ t \notin Https
  BY SchedulerAssumption DEF Tasks
<1>2. torrent' = [torrent EXCEPT ![t] = At(t, "held")]
  BY <1>1 DEF EnginePauses
<1>3. \E h \in Session!Found(t) : Session!Becomes(t, "PAUSED", Session!Put(h, "held"))
  BY <1>1, <1>2, EntriesAre, BecomesFound
<1> QED
  BY <1>3, SliceIs DEF Session!Pauses, Bt, Slice

LEMMA DispatchSlice ==
  ASSUME IInv, NEW t \in Torrents, Dispatch(t) PROVE Session!Starts(t) \/ Session!Fails(t)
<1>1. t \in Tasks /\ t \notin Https
  BY SchedulerAssumption DEF Tasks
<1>2. reg[t].status = "QUEUED" /\ reg[t].del = FALSE /\ Known(t)
  BY <1>1 DEF Dispatch, Foremost, QueuedTasks, Queued, Known, IInv, RegInv, EntryType
<1>3. CASE Resumes(t) /\ reg' = [reg EXCEPT ![t] = Started(t)]
  <2>1. torrent' = [torrent EXCEPT ![t] = At(t, "on")]
    BY <1>3 DEF Resumes
  <2>2. Started(t).status = "DOWNLOADING" /\ Started(t).del = reg[t].del
    BY <1>1, SetIs DEF Started, IInv, Statuses, EntryType
  <2>3. PICK s : s = "DOWNLOADING"
    OBVIOUS
  <2>4. \E h \in Session!Found(t) : Session!Becomes(t, s, Session!Put(h, "on"))
    BY <1>3, <2>1, <2>2, <2>3, BecomesFound
  <2> QED
    BY <1>2, <2>3, <2>4, SliceIs DEF Session!Starts, Session!Becomes, Bt, Slice
<1>4. CASE Fails(t)
  <2> DEFINE e == [Set(t, "ERROR") EXCEPT !.force = FALSE]
  <2>1. reg' = [reg EXCEPT ![t] = e] /\ e.status = "ERROR" /\ e.del = reg[t].del
    BY <1>1, <1>4, SetIs DEF Fails, IInv, Statuses, EntryType
  <2> HIDE DEF e
  <2>2. CASE UNCHANGED torrent
    <3>1. PICK s, w : s = "ERROR" /\ w = Bt[t].handle
      OBVIOUS
    <3>2. Session!Becomes(t, s, w)
      BY <2>1, <2>2, <3>1, BecomesSame
    <3> QED
      BY <1>2, <3>1, <3>2, SliceIs DEF Session!Fails, Session!Becomes, Bt, Slice
  <2>3. CASE ~InSession(t) /\ torrent' = [torrent EXCEPT ![t] = At(t, "held")]
    <3>1. \A h \in Session!Found(t) : Session!Put(h, "held") = h
      BY <2>3, SliceIs DEF Session!Found, Session!Put
    <3>2. PICK s : s = "ERROR"
      OBVIOUS
    <3>3. \E h \in Session!Found(t) : Session!Becomes(t, s, h)
      BY <2>1, <2>3, <3>1, <3>2, BecomesFound
    <3> QED
      BY <1>2, <3>2, <3>3, SliceIs DEF Session!Starts, Session!Becomes, Bt, Slice
  <2> QED
    BY <1>1, <1>4, <2>2, <2>3 DEF Fails
<1> QED
  BY <1>3, <1>4 DEF Dispatch

LEMMA SchedulerSlices ==
  ASSUME IInv, SchedulerStep PROVE Session!Next \/ UNCHANGED Bt
<1>1. CASE BeginRound \/ EndRound \/ EndPause
  <2>1. UNCHANGED <<reg, torrent>>
    BY <1>1, NothingErased DEF BeginRound, EndRound, EndPause, IInv
  <2> QED
    BY <2>1, SliceSame
<1>2. ASSUME NEW t \in Tasks, Preempt(t) \/ Dispatch(t) \/ PauseNext(t)
      PROVE  Session!Next \/ UNCHANGED Bt
  <2>1. CASE t \notin Torrents
    <3>1. t \in Https
      BY <2>1 DEF Tasks
    <3>2. UNCHANGED torrent /\ \E e : reg' = reg \/ reg' = [reg EXCEPT ![t] = e]
      BY <1>2, <2>1, <3>1 DEF Preempt, Dispatch, PauseNext, EnginePauses, Resumes, Fails
    <3>3. \A u \in Torrents : reg'[u] = reg[u]
      BY <2>1, <3>2 DEF IInv, RegInv, Tasks
    <3> QED
      BY <3>2, <3>3, SliceSame
  <2>2. CASE t \in Torrents
    <3>1. t \notin Https
      BY <2>2, SchedulerAssumption
    <3>2. CASE UNCHANGED <<reg, torrent>>
      BY <3>2, SliceSame
    <3>3. CASE /\ EnginePauses(t) /\ Known(t)
               /\ reg' = [reg EXCEPT ![t] = SetIdle(t, "PAUSED")]
      BY <2>2, <3>3, PauseSlice DEF Session!Next
    <3>4. CASE Dispatch(t)
      BY <2>2, <3>4, DispatchSlice DEF Session!Next
    <3>5. Preempt(t) \/ PauseNext(t) => Known(t)
      BY DEF Preempt, Slowest, Downloading, PauseNext, Known, IInv, TodoInv
    <3> QED
      BY <1>2, <3>1, <3>2, <3>3, <3>4, <3>5 DEF Preempt, PauseNext
  <2> QED
    BY <2>1, <2>2
<1> QED
  BY <1>1, <1>2 DEF SchedulerStep

LEMMA RestartSlices == ASSUME IInv, Restart PROVE Session!Restarts
<1>1. \A t \in Torrents :
        Slice(t)' = [status |-> IF Session!Known(t) THEN "QUEUED" ELSE "absent",
                     del |-> FALSE, handle |-> Session!NoHandle]
  <2> TAKE t \in Torrents
  <2>1. reg[t].row \in BOOLEAN
    BY DEF IInv, RegInv, EntryType, Tasks
  <2>2. /\ reg'[t] = IF Known(t) THEN Restored(reg[t].row) ELSE Blank
        /\ torrent'[t] = NoHandle
    BY DEF Restart, Blank, Tasks
  <2>3. /\ reg'[t].status = IF Known(t) THEN "QUEUED" ELSE "absent"
        /\ reg'[t].del = FALSE /\ torrent'[t] = NoHandle
    BY <2>1, <2>2, RestoredIs, BlankIs
  <2> QED
    BY <2>3, SliceIs, NoHandleSlice DEF Slice
<1> QED
  BY <1>1 DEF Session!Restarts, Bt, Slice

LEMMA SessionStep ==
  ASSUME IInv, [Next]_vars PROVE Session!Next \/ UNCHANGED Bt
<1>1. CASE UNCHANGED vars
  BY <1>1, SliceSame DEF vars
<1>2. CASE \E t \in Tasks : UserStep(t) \/ EngineStep(t)
  BY <1>2, UserSlices, EngineSlices
<1>3. CASE SetConfig
  BY <1>3, SliceSame DEF SetConfig
<1>4. CASE Flush
  <2>1. /\ UNCHANGED torrent
        /\ \A u \in Torrents : reg'[u].status = reg[u].status /\ reg'[u].del = reg[u].del
    BY <1>4 DEF Flush, IInv, RegInv, EntryType, Tasks
  <2> QED
    BY <2>1, SliceSame
<1>5. CASE Restart
  BY <1>5, RestartSlices DEF Session!Next
<1>6. CASE SchedulerStep
  BY <1>6, SchedulerSlices
<1> QED
  BY <1>1, <1>2, <1>3, <1>4, <1>5, <1>6 DEF Next

\* What the task manager counts on is what the torrent engine implements: it
\* adds, queues, starts, pauses and deletes torrents, and learns of their
\* alerts, only as BtSession has it.
THEOREM SchedulerCountsOnTorrents == Spec => SessionSpec
<1>1. Init => Session!Init
  <2> SUFFICES ASSUME Init PROVE Session!Init
    OBVIOUS
  <2>1. PICK rows \in SUBSET Tasks, forced \in SUBSET Torrents :
          reg = [t \in Tasks |-> IF t \in rows THEN Restored(t \in forced) ELSE Blank]
    BY DEF Init, Blank
  <2>2. \A t \in Torrents : reg[t].status \in {"absent", "QUEUED"} /\ reg[t].del = FALSE
    <3> TAKE t \in Torrents
    <3>1. reg[t] = IF t \in rows THEN Restored(t \in forced) ELSE Blank
      BY <2>1 DEF Tasks
    <3> DEFINE f == t \in forced
    <3>2. f \in BOOLEAN
      OBVIOUS
    <3>3. reg[t] = IF t \in rows THEN Restored(f) ELSE Blank
      BY <3>1
    <3> HIDE DEF f
    <3> QED
      BY <3>2, <3>3, RestoredIs, BlankIs
  <2>3. \A t \in Torrents : torrent[t] = NoHandle
    BY DEF Init
  <2>4. \A t \in Torrents :
          Slice(t) \in [status : {"absent", "QUEUED"}, del : {FALSE},
                        handle : {Session!NoHandle}]
    BY <2>2, <2>3, NoHandleSlice DEF Slice
  <2> QED
    BY <2>4 DEF Session!Init, Slice
<1>2. IInv /\ [Next]_vars => [Session!Next]_Bt
  BY SessionStep
<1> QED
  BY <1>1, <1>2, Invariant, PTL DEF Spec, SessionSpec, Session!Spec, Bt, Slice


\* Held, of one torrent.
HeldAt(t) ==
  reg[t].del \/ reg[t].status \in {"PAUSED", "RESOLVING"} => torrent[t].at # "on"

\* What becomes of a torrent may be held, if it has to be.
Good(r) == r.del \/ r.status \in {"PAUSED", "RESOLVING"} => r.handle.at # "on"

LEMMA HeldBecomes ==
  ASSUME \A u \in Torrents : HeldAt(u),
         NEW t \in Torrents, NEW r, Good(r), Bt' = [Bt EXCEPT ![t] = r]
  PROVE  \A u \in Torrents : HeldAt(u)'
<1>1. \A u \in Torrents : Bt'[u] = Slice(u)'
  BY DEF Bt
<1>2. Slice(t)' = r /\ \A u \in Torrents : u # t => Slice(u)' = Slice(u)
  BY <1>1 DEF Bt
<1>3. \A u \in Torrents :
        (HeldAt(u) <=> Good(Slice(u))) /\ (HeldAt(u)' <=> Good(Slice(u)'))
  BY DEF Good, HeldAt, Slice
<1> QED
  BY <1>2, <1>3

LEMMA HeldNext ==
  ASSUME IInv, \A t \in Torrents : HeldAt(t), Session!Next
  PROVE  \A t \in Torrents : HeldAt(t)'
<1> DEFINE Holds(t) == \E r : Good(r) /\ Bt' = [Bt EXCEPT ![t] = r]
<1>1. ASSUME NEW t \in Torrents, NEW s, NEW h,
             Bt' = [Bt EXCEPT ![t] = [status |-> s, del |-> Bt[t].del, handle |-> h]],
             reg[t].del \/ s \in {"PAUSED", "RESOLVING"} => h.at # "on"
      PROVE  Holds(t)
  <2> DEFINE r == [status |-> s, del |-> Bt[t].del, handle |-> h]
  <2>1. Bt[t].del = reg[t].del
    BY SliceIs
  <2>2. Good(r)
    BY <1>1, <2>1 DEF Good
  <2> QED
    BY <1>1, <2>2
<1>2. ASSUME NEW t \in Torrents
      PROVE  /\ ~InSession(t) => \A h \in Session!Found(t) : h.at = "held"
             /\ Session!NoHandle.at = "none"
             /\ \A h : Session!Put(h, "held").at = "held"
             /\ Bt[t].status = reg[t].status /\ Bt[t].del = reg[t].del
             /\ Bt[t].handle.at = torrent[t].at
  BY SliceIs DEF Session!Found, Session!NoHandle, Session!Put, Bt, Slice
<1>3. ASSUME NEW t \in Torrents, Session!Adds(t) PROVE Holds(t)
  <2>1. PICK s, h :
          /\ Bt' = [Bt EXCEPT ![t] = [status |-> s, del |-> Bt[t].del, handle |-> h]]
          /\ ~InSession(t) /\ (h \in Session!Found(t) \/ h = Session!NoHandle)
    BY <1>3, SliceIs DEF Session!Adds, Session!Becomes, Bt, Slice
  <2> QED
    BY <1>1, <1>2, <2>1
<1>4. ASSUME NEW t \in Torrents, Session!Queues(t) \/ Session!Starts(t) PROVE Holds(t)
  <2>1. PICK s, h :
          /\ Bt' = [Bt EXCEPT ![t] = [status |-> s, del |-> Bt[t].del, handle |-> h]]
          /\ ~Bt[t].del /\ s \in {"QUEUED", "DOWNLOADING", "ERROR"}
    BY <1>4 DEF Session!Queues, Session!Starts, Session!Becomes, Bt, Slice
  <2> QED
    BY <1>1, <1>2, <2>1
<1>5. ASSUME NEW t \in Torrents, Session!Pauses(t) PROVE Holds(t)
  <2>1. PICK h : Bt' = [Bt EXCEPT ![t] = [status |-> "PAUSED", del |-> Bt[t].del,
                                          handle |-> Session!Put(h, "held")]]
    BY <1>5 DEF Session!Pauses, Session!Becomes, Bt, Slice
  <2> QED
    BY <1>1, <1>2, <2>1
<1>6. ASSUME NEW t \in Torrents, Session!Deletes(t) PROVE Holds(t)
  <2> DEFINE r == [status |-> Bt[t].status, del |-> TRUE, handle |-> Session!NoHandle]
  <2>1. Bt' = [Bt EXCEPT ![t] = r]
    BY <1>6 DEF Session!Deletes, Bt, Slice
  <2>2. Good(r)
    BY <1>2 DEF Good
  <2> QED
    BY <2>1, <2>2
<1>7. ASSUME NEW t \in Torrents,
             Session!Completes(t) \/ Session!Finishes(t) \/ Session!Fails(t)
      PROVE  Holds(t)
  <2>1. PICK s, h :
          /\ Bt' = [Bt EXCEPT ![t] = [status |-> s, del |-> Bt[t].del, handle |-> h]]
          /\ h.at = Bt[t].handle.at
          /\ s = Bt[t].status \/ s \in {"COMPLETED", "ERROR"}
    <3>1. CASE Session!Completes(t)
      <4>1. PICK h : h = [at |-> Bt[t].handle.at, whole |-> TRUE]
        OBVIOUS
      <4>2. Bt' = [Bt EXCEPT ![t] =
                     [status |-> Bt[t].status, del |-> Bt[t].del, handle |-> h]]
        BY <3>1, <4>1 DEF Session!Completes, Session!Becomes, Bt, Slice
      <4>3. h.at = Bt[t].handle.at
        BY ONLY <4>1
      <4> QED
        BY <4>2, <4>3
    <3>2. CASE Session!Finishes(t)
      BY <3>2 DEF Session!Finishes, Session!Becomes, Bt, Slice
    <3>3. CASE Session!Fails(t)
      BY <3>3 DEF Session!Fails, Session!Becomes, Bt, Slice
    <3> QED
      BY <1>7, <3>1, <3>2, <3>3
  <2>2. HeldAt(t) /\ h.at = torrent[t].at
        /\ (s = reg[t].status \/ s \in {"COMPLETED", "ERROR"})
    BY <1>2, <2>1
  <2>3. reg[t].del \/ s \in {"PAUSED", "RESOLVING"} => h.at # "on"
    BY <2>2 DEF HeldAt
  <2> QED
    BY <1>1, <2>1, <2>3
<1>8. ASSUME NEW t \in Torrents, Session!Leaves(t) PROVE Holds(t)
  <2>1. Bt' = [Bt EXCEPT ![t] = [status |-> Bt[t].status, del |-> Bt[t].del,
                                 handle |-> Session!NoHandle]]
    BY <1>8 DEF Session!Leaves, Session!Becomes, Bt, Slice
  <2> QED
    BY <1>1, <1>2, <2>1
<1>9. CASE Session!Restarts
  <2>1. \A t \in Torrents :
          Bt'[t] = [status |-> IF Session!Known(t) THEN "QUEUED" ELSE "absent",
                    del |-> FALSE, handle |-> Session!NoHandle]
    BY <1>9 DEF Session!Restarts, Bt, Slice
  <2>2. \A t \in Torrents : Bt'[t] = Slice(t)' /\ Slice(t)'.handle.at = torrent'[t].at
    BY DEF Bt, Slice
  <2>3. \A t \in Torrents : torrent'[t].at = "none"
    <3> TAKE t \in Torrents
    <3>1. Slice(t)' = [status |-> IF Session!Known(t) THEN "QUEUED" ELSE "absent",
                       del |-> FALSE, handle |-> Session!NoHandle]
      BY <2>1, <2>2
    <3>2. Slice(t)'.handle = Session!NoHandle
      BY ONLY <3>1
    <3> QED
      BY <1>2, <2>2, <3>2
  <2> QED
    BY <2>3 DEF HeldAt
<1> HIDE DEF Holds
<1>10. CASE \E t \in Torrents : Holds(t)
  BY <1>10, HeldBecomes DEF Holds
<1> QED
  BY <1>3, <1>4, <1>5, <1>6, <1>7, <1>8, <1>9, <1>10 DEF Session!Next

\* So no torrent that is paused, not parsed yet or deleted goes on, whatever the
\* scheduler, the users and the alerts do to it in whatever order.
THEOREM TorrentsAreHeld == Spec => []Session!Held
<1> DEFINE AllHeld == \A t \in Torrents : HeldAt(t)
<1>1. Init => AllHeld
  BY DEF Init, NoHandle, HeldAt
<1>2. IInv /\ AllHeld /\ [Next]_vars => AllHeld'
  <2> SUFFICES ASSUME IInv, AllHeld, [Next]_vars PROVE AllHeld'
    OBVIOUS
  <2>1. Session!Next \/ UNCHANGED Bt
    BY SessionStep
  <2>2. CASE UNCHANGED Bt
    <3>1. \A t \in Torrents : Slice(t)' = Slice(t)
      BY <2>2 DEF Bt
    <3>2. \A t \in Torrents :
            (HeldAt(t) <=> Good(Slice(t))) /\ (HeldAt(t)' <=> Good(Slice(t)'))
      BY DEF Good, HeldAt, Slice
    <3> QED
      BY <3>1, <3>2
  <2> QED
    BY <2>1, <2>2, HeldNext
<1>3. AllHeld => Session!Held
  BY DEF HeldAt, Session!Held
<1> QED
  BY <1>1, <1>2, <1>3, Invariant, PTL DEF Spec

-----------------------------------------------------------------------------
(* Rounds.                                                                 *)

\* What a round can still do: admit or fail what waits, and pause what is active,
\* which what is admitted may become.
Left == 2 * Cardinality(QueuedTasks) + Cardinality(Active)
InOneRound == sched.pc = "round" /\ sched'.pc = "round"

\* The loop can break, or admits or fails the foremost task, or preempts the slowest.
GoesOn ==
  \/ Stuck
  \/ InRound /\ ~Full /\ \E t \in Tasks : Foremost(t) /\ ~Pausing(t)
  \/ /\ InRound /\ Full
     /\ \E t \in Tasks : Foremost(t) /\ reg[t].force
     /\ \E t \in Tasks : Slowest(t)

LEMMA Finite ==
  /\ IsFiniteSet(QueuedTasks) /\ Cardinality(QueuedTasks) \in Nat
  /\ IsFiniteSet(Active) /\ Cardinality(Active) \in Nat
<1>1. IsFiniteSet(QueuedTasks) /\ IsFiniteSet(Active)
  BY SchedulerAssumption, FS_Subset, WaitsOrRuns
<1> QED
  BY <1>1, FS_CardinalityType

LEMMA PreemptGoesDown ==
  ASSUME IInv, NEW t \in Tasks, Preempt(t) PROVE Left' <= Left /\ Left' < Left
<1>1. QueuedTasks' = QueuedTasks /\ t \in Active /\ Active' = Active \ {t}
  BY PreemptIsPreempt DEF Admits!Preempt
<1>2. Cardinality(Active') = Cardinality(Active) - 1
  BY <1>1, Finite, FS_RemoveElement
<1>3. Cardinality(QueuedTasks') = Cardinality(QueuedTasks)
  BY <1>1
<1> QED
  BY <1>2, <1>3, Finite DEF Left

LEMMA DispatchGoesDown ==
  ASSUME IInv, NEW t \in Tasks, Dispatch(t) PROVE Left' <= Left /\ Left' < Left
<1>1. /\ QueuedTasks' = QueuedTasks \ {t}
      /\ Active' \in {Active, Active \cup {t}}
  BY DispatchIsAdmit, Zenon DEF Admits!Admit
<1>2. t \in QueuedTasks
  BY DEF Dispatch, Foremost
<1>3. Cardinality(QueuedTasks') = Cardinality(QueuedTasks) - 1
  BY <1>1, <1>2, Finite, FS_RemoveElement
<1>4. Cardinality(Active') \in {Cardinality(Active), Cardinality(Active) + 1}
  BY <1>1, Finite, FS_AddElement
<1> QED
  BY <1>3, <1>4, Finite DEF Left

\* What does not take mtx_ leaves the registry alone.
LEMMA RoundKeepsRegistry ==
  ASSUME Next, InOneRound, ~SchedulerStep PROVE UNCHANGED reg
<1>1. ~MtxFree /\ sched'.pc # "sleep"
  BY DEF InOneRound, MtxFree
<1>2. ASSUME NEW t \in Tasks, UserStep(t) PROVE UNCHANGED reg
  BY <1>1, <1>2 DEF UserStep, AddHttp, AddTorrent, ResumeTask, PauseHttp, DeleteHttp,
     PauseTorrent, DeleteTorrent, Calls
<1>3. ASSUME NEW t \in Tasks, EngineStep(t) PROVE UNCHANGED reg
  BY <1>1, <1>3 DEF EngineStep, WorkerEnds, Completes, Parsed, Finished, StateUpdate,
     Sweep, Handles, Pending
<1>4. CASE SetConfig \/ Restart
  <2>1. Restart => sched' = Sleeping
    BY DEF Restart
  <2>2. Restart => sched'.pc = "sleep"
    BY <2>1 DEF Sleeping
  <2> QED
    BY <1>1, <1>4, <2>2 DEF SetConfig
<1>5. CASE Flush
  BY <1>1, <1>5 DEF Flush
<1> QED
  BY <1>2, <1>3, <1>4, <1>5 DEF Next

\* While the scheduler holds mtx_, each turn of its loop leaves it less to do, and
\* nothing that happens meanwhile gives it more: what RoundsEnd rests on, whatever
\* the number of tasks.
THEOREM RoundsGoDown ==
  Spec => [][InOneRound => Left' <= Left /\ (SchedulerStep => Left' < Left)]_vars
<1>1. ASSUME IInv, [Next]_vars, InOneRound
      PROVE  Left' <= Left /\ (SchedulerStep => Left' < Left)
  <2>1. Left \in Nat
    BY Finite DEF Left
  <2>2. CASE SchedulerStep
    <3>1. \E t \in Tasks : Preempt(t) \/ Dispatch(t)
      BY <1>1, <2>2 DEF SchedulerStep, BeginRound, EndRound, EndPause, PauseNext,
         InOneRound, Sleeping
    <3> QED
      BY <1>1, <3>1, PreemptGoesDown, DispatchGoesDown
  <2>3. CASE ~SchedulerStep
    <3>1. UNCHANGED reg
      BY <1>1, <2>3, RoundKeepsRegistry DEF vars
    <3>2. Left' = Left
      BY <3>1 DEF Left, QueuedTasks, Queued, Active, Occupies
    <3> QED
      BY <2>1, <2>3, <3>2
  <2> QED
    BY <2>2, <2>3
<1> QED
  BY <1>1, Invariant, PTL DEF Spec

LEMMA LeastNumber ==
  ASSUME NEW S, S \subseteq Nat, S # {}
  PROVE  \E m \in S : \A n \in S : m <= n
<1>1. PICK m \in S : \A n \in S : ~(<<n, m>> \in OpToRel(<, Nat))
  BY NatLessThanWellFounded, WFMin
<1>2. ASSUME NEW n \in S, n < m PROVE FALSE
  <2>1. <<n, m>> \in OpToRel(<, Nat)
    BY <1>2 DEF OpToRel
  <2> QED
    BY <1>1, <2>1
<1> QED
  BY <1>2

\* The order of admission has a foremost task: one that the fewest come before.
LEMMA SomeoneIsForemost ==
  ASSUME IInv, QueuedTasks # {} PROVE \E t \in Tasks : Foremost(t)
<1> DEFINE Before(t) == {u \in QueuedTasks : Better(u, t)}
           Numbers == {Cardinality(Before(t)) : t \in QueuedTasks}
<1>1. \A t \in QueuedTasks :
         IsFiniteSet(Before(t)) /\ Cardinality(Before(t)) \in Nat
  <2>1. \A t \in QueuedTasks : Before(t) \in SUBSET QueuedTasks
    OBVIOUS
  <2>2. \A t \in QueuedTasks : IsFiniteSet(Before(t))
    BY <2>1, Finite, FS_Subset
  <2> QED
    BY <2>2, FS_CardinalityType
<1>2. PICK t \in QueuedTasks :
         \A u \in QueuedTasks : Cardinality(Before(t)) <= Cardinality(Before(u))
  <2>1. Numbers \subseteq Nat /\ Numbers # {}
    BY <1>1
  <2> HIDE DEF Before
  <2>2. PICK m \in Numbers : \A n \in Numbers : m <= n
    <3> HIDE DEF Numbers
    <3> QED
      BY <2>1, LeastNumber
  <2> QED
    BY <2>2
<1>3. ASSUME NEW u \in QueuedTasks, Better(u, t) PROVE FALSE
  <2>1. QueuedTasks \subseteq Tasks
    BY WaitsOrRuns
  <2>2. \A v \in QueuedTasks : Better(v, u) => Better(v, t)
    BY <1>3, <2>1, SchedulerAssumption DEF Better
  <2>3. u \in Before(t) /\ u \notin Before(u)
    BY <1>3, <2>1, SchedulerAssumption DEF Better
  <2>4. Before(u) \subseteq Before(t) \ {u}
    BY <2>2, <2>3
  <2> HIDE DEF Before
  <2>5. Cardinality(Before(t) \ {u}) = Cardinality(Before(t)) - 1
        /\ IsFiniteSet(Before(t) \ {u})
    BY <1>1, <2>3, FS_RemoveElement
  <2>6. Cardinality(Before(u)) <= Cardinality(Before(t)) - 1
    BY <2>4, <2>5, FS_Subset
  <2> QED
    BY <1>1, <1>2, <2>6
<1> QED
  BY <1>2, <1>3, WaitsOrRuns DEF Foremost

LEMMA SomeoneIsSlowest ==
  ASSUME IInv, NEW d \in Tasks, Downloading(d) PROVE \E t \in Tasks : Slowest(t)
<1> DEFINE S == {reg[t].rate : t \in {u \in Tasks : Downloading(u)}}
<1>1. S \subseteq Nat /\ S # {}
  <2>1. \A t \in Tasks : reg[t].rate \in Nat
    BY SchedulerAssumption DEF IInv, RegInv, EntryType
  <2> QED
    BY <2>1
<1>2. PICK m \in S : \A n \in S : m <= n
  <2> HIDE DEF S
  <2> QED
    BY <1>1, LeastNumber
<1> QED
  BY <1>2 DEF Slowest

\* The loop never hangs while it holds mtx_: there is always a reason to break, a
\* task to admit or fail, or one to preempt.  With RoundsGoDown, RoundsEnd follows
\* for a scheduler that is not stopped.
THEOREM RoundsGoOn == Spec => [](sched.pc = "round" => GoesOn)
<1>1. ASSUME IInv, sched.pc = "round" PROVE GoesOn
  <2> SUFFICES ASSUME ~Stuck PROVE GoesOn
    BY DEF GoesOn
  <2>1. InRound
    BY <1>1, SchedulerAssumption DEF Stuck, InRound, IInv, ConfigInv
  <2>2. PICK t \in Tasks : Foremost(t)
    BY <1>1, SomeoneIsForemost DEF Stuck
  <2>3. CASE ~Full
    BY <2>1, <2>2, <2>3 DEF Stuck, GoesOn
  <2>4. CASE Full
    <3>1. reg[t].force /\ \E d \in Tasks : Downloading(d)
      BY <2>2, <2>4 DEF Stuck
    <3>2. \E s \in Tasks : Slowest(s)
      BY <1>1, <3>1, SomeoneIsSlowest
    <3> QED
      BY <2>1, <2>2, <2>4, <3>1, <3>2 DEF GoesOn
  <2> QED
    BY <2>3, <2>4
<1>2. IInv => (sched.pc = "round" => GoesOn)
  BY <1>1
<1> QED
  BY <1>2, Invariant, PTL

=============================================================================
