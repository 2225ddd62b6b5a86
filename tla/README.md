# A model of download_wrapper

This directory holds TLA+ models of the downloader in `src/`, TLC
configurations that check them on small instances, and theorems that TLAPS
proves for every value of the constants. Everything is translated from the C++
source; where a comment or a document says otherwise than the code does, the
model follows the code and `PROJECT.json` lists the difference under `findings`.

To check it: `tlc -config X.cfg M` with the pairs of the table of runs, and
`tlapm` on the modules that end in `Proofs`.

## 1. The system

`download_wrapper` is a C++ library behind a C ABI that downloads over HTTP
(libcurl) and BitTorrent (libtorrent), keeps what it is doing in SQLite, lets a
media player read files that are still being downloaded, and opens WebRTC data
channels.

| part | source | state | operations |
|---|---|---|---|
| HTTP worker | `http_engine_impl.cpp` | one `dl_task_ctx`: parts, their connections, validators, requests to stop | probe, split, transfer, retry, save and restore a resume row |
| HTTP engine | `http_engine.cpp` | `g_tasks`, the table from URL to context, under `g_map_mtx` | add, resume, pause, delete, sweep, destroy |
| Task manager | `task_manager.cpp` | registry `tasks_`, configuration, network permission, under `mtx_` | scheduler thread (admission, preemption, network pause), maintenance thread (flush, sweeps), restart |
| Torrent engine | `torrent_engine.cpp` | libtorrent's session and its handles, alerts to come, progress and intervals of files | add, resume, pause, delete, sweep, alert loop, resume-data loop |
| C ABI | `download_wrapper.cpp` | the singleton, its mutex, callbacks | dw_init, dw_destroy, dw_set_config, one function for each task call |
| Stores | `store/` | tables of tasks, resume data, file ranges | replace, save, update, load |
| Unique names | `unique_name.cpp` | the file system | choose and make a wrapper directory |
| Playback proxy | `playback_proxy.cpp` | one session per connection | answer a range from what is downloaded, wait for the rest |
| P2P | `p2p_bridge.cpp`, `webrtc_adapter.cpp` | registry of handles, one peer connection each | offer, answer, send, close, destroy |
| Utilities | `utils/`, `internal/` | none between calls (the timer has a thread, and no user) | encoding, parsing, results |

How they interact. A call of the ABI goes to `TaskManager`, which passes it to an
engine *in the caller's thread*. An add starts an HTTP download at once; a
resume only marks the registry QUEUED and the scheduler thread calls the
engine's `do_resume` later, under `mtx_`. HTTP workers write their own contexts
and resume rows and never the registry; libtorrent's alerts do write the
registry, in the alert thread, under `mtx_`. Once a second the maintenance
thread tells the application what the registry has marked dirty, and sweeps both
engines.

What is hard:

* Six kinds of thread (callers, scheduler, maintenance, alerts, HTTP workers,
  destroy) meet in two structures guarded by two mutexes and a few atomics.
* A context is owned by the table, by the thread that has taken it out of the
  table, or by the call that has just made it; freeing it twice, or with its
  thread running, ends the process.
* A download survives pauses, crashes, retries and replacements of the remote
  file, and the row it restarts from must never claim what is not on disk.
* Slots, priorities, forced resumes and the network switch interact with
  tasks whose state changes without the scheduler's knowledge.

What makes each part correct:

* worker: rows are conservative, parts tile the file, no mixture of versions, a
  completed file is whole, failures are only reported for failures, a stop is
  prompt, and it terminates;
* HTTP engine: single ownership, joined before freed, no insertion lost, no
  call that hangs, deletions reclaimed, resumes not lost;
* task manager: admission by order and slots, preemption for forced tasks only,
  rounds that end, no starvation beside a free slot, the network switch works,
  every change is told;
* torrent engine: what it tells of a file was verified, nothing downloads that is
  paused, deleted or not parsed, progress gets into the resume data;
* stores: a row that was written is what is read; what a crash or a failed write
  leaves of several rows can be restarted from;
* unique names: no two downloads in one directory;
* playback: the body is the file, as much of it as the header announced (as long as
  nobody cuts the file), and a session goes on when what it waits for has come;
* P2P: every promise is kept once, a code has all the candidates of its own
  peer, a call ends with an answer or a timeout, and destroy and callbacks do not
  wait on each other;
* C ABI: nothing uses a freed manager or engine, a failed dw_init leaves nothing
  running and does not hinder the next, dw_destroy returns.

`PROJECT.json` lists the hazards behind these one by one, at their lines, with
the properties that cover them or the reason why none does yet.

## 2. The modules

| module | models | extends |
|---|---|---|
| `PartLayout` | how `finalize_probing` cuts a file into parts; pure operators | |
| `HttpDownload` | one HTTP worker, its server, its file, its resume row | `PartLayout`; instantiates `Workers` |
| `HttpEngine` | the table of contexts and all threads that meet there | instantiates `Workers` |
| `Workers` | what the HTTP engine promises of the worker of each download; abstract | |
| `Admission` | what the scheduler promises; abstract | |
| `BtSession` | what the torrent engine promises of each torrent's status, deletion mark and handle; abstract | |
| `TaskScheduler` | registry, scheduler, maintenance, torrents' handles and alerts | instantiates `Admission`, `Workers` and `BtSession` |
| `Lifecycle` | dw_init, dw_destroy and the other calls, the raw pointers between manager and engines, all the library's threads | |
| `P2PBridge` | handles, adapters, application threads, libwebrtc's signaling thread | |
| `PlaybackSession` | one session of the proxy, its player and the download behind it | |
| `FileSegments` | pieces and files of a torrent, and the intervals `handle_piece_finished` makes of a bitmap; pure operators | |
| `TorrentEngine` | one torrent: calls, alerts, libtorrent, its rows | `FileSegments`; instantiates `BtSession` |
| `UniqueName` | several workers in `acquire_wrapper_name` | |
| `MC...` | the constants of each concurrent module for TLC | each its module |
| `...Proofs` | theorems about `PartLayout`, `HttpDownload`, `HttpEngine`, `TaskScheduler`, `TorrentEngine`, `Lifecycle`, `P2PBridge`, `PlaybackSession` | each its module |

The first three concurrent modules look at one system at three distances. In
`HttpDownload` there is one download and the engine is a few actions (Add; Load, then
GoOn or Resume; Pause and Cancel). In `HttpEngine` the worker is a loop with five states and the
question is who owns it. In `TaskScheduler` a worker is a set of facts about its
context and the question is what the registry believes. That the three speak of
the same thing is what `Workers` is for: it says when a download may get a worker,
when the worker may be asked to pause or to go, and when it may end, and all three
modules implement it. So the actions that stand for the engine in
`HttpDownload`, and the facts that `TaskScheduler` counts on, change as the table of
`HttpEngine` really lets them. `TorrentEngine` opens in the same way what
`TaskScheduler` has of a torrent, and `BtSession` links the two: it says which status,
mark and handle a call, the scheduler, the sweep or an alert may leave. `Lifecycle` looks at the
same threads from further still: they run or they do not, and the question is what
they point to. `TorrentEngine` opens what `TaskScheduler` has of a torrent: its
handle, its alerts and its files, with the scheduler as the action `Dispatch`.
`UniqueName` opens the single step in which `HttpDownload` names a file.
`P2PBridge` and `PlaybackSession` share no state with the rest.

### HttpDownload

`pc` is where the worker thread is: `start` (head of `task_thread_func`), `top`,
`perform`, `msgs` (the stations of `run_parts_multi`'s loop), `write` (the middle
of a `write_cb` that has just finalized the probe), `finish`, `leave`, `done`.
While it is at `perform`, curl runs: `Reply` is `header_cb` for a whole answer,
redirect included, `Receive` one `write_cb`, `EndOfBody` and `TransferFails` the
end of a transfer. `WMsg` is `handle_part_result` for one finished transfer,
`WTop` the stop checks, `WPoll` the end of the poll and `spawn_new_parts`, `WEmit` `maybe_emit_resume`,
`WFinish` aggregation and last emit. `Crash` loses everything but disk and row.

A resume is two steps. `do_resume` reads the row into `loaded` (`Load`) before
`start_download` looks whether the old worker is over, and joins it if it is being
deleted. So the old worker may go on, and save, in between: then it is left alone
(`GoOn`), or it has ended and another starts from what was read (`Resume`). The
history variable `overtaken` says that the row was replaced in the meantime. Such a
worker fetches bytes again and takes the row back, which is a finding, and
`ResumeNeverRegresses` leaves it out; every other property holds for it too, except
that `LatePauseKeepsCompletion` does not compare its row with its file.

Data: a byte of the file is the version it came from, `Hole` or `Garbage` (a
byte at a wrong offset); ETag and Last-Modified are the version they stand for; a
wrapper directory is its number. Progress figures, speeds and log lines are left
out. `site` is the server, which is any of the kinds a configuration lists: with
or without ranges, lengths, validators, redirects.

### HttpEngine

`map` is `g_tasks`, `ctx` every context ever allocated with its thread, `mtx` the
owner of `TaskManager`'s mutex. `call[t]` is how far thread t is in
`start_download`; each step is what the code does in one hold of `g_map_mtx` or
between two. `sweep` is the maintenance thread between its two loops and its
joins, `destroy` the end. The history variable `wish` is what was last asked for
a URL and not yet answered by an error. After a use of freed memory (`undefined`)
nothing is modelled.

Assumptions: `destroy` starts when no call is in progress and the two threads of
`TaskManager` are joined, which `dw_destroy` ensures for the threads and asks of
the application for the calls. Creation of directories, `emplace` and
`replace_task` may fail. A URL's row at the start is one that
`TaskManager::start` has queued again. Whether a finished download is within its
four seconds of grace is open (`young`). Slots are not counted here.

To `Workers`, a download's worker is what `pause_task` and `delete_task` reach: the
context in the table, or the one a call has taken out of it and joins, from its
insertion until its thread has ended. A context that the sweep has taken out while
its thread ran (the finding at `http_engine.cpp:417`) is out of their reach, so its
download counts as ended although it goes on. `OneWorker` names this exception; without
it, the property is violated.

### TaskScheduler and Admission

`reg` is the registry, `worker` what is known of an HTTP context (runs, asked to
pause, asked to be deleted), `torrent` the handle, its alerts to come and whether
libtorrent has everything, `sched` the scheduler thread: asleep, in a round under
`mtx_` (`BeginRound`, `Preempt`, `Dispatch`, `EndRound`), or pausing what it has
collected after releasing it (`PauseNext`). `unsaid` is a history variable.
Calls, alerts and the flush need `mtx_`; HTTP pauses, deletions and the ends of
HTTP workers do not, and fall into the middle of rounds.

A task is in the registry exactly if it has a row in the task table, as only
`replace_task` writes rows; so `Restart` queues all of them. ERROR stands for
ERROR and FAIL, which no code here tells apart. `unordered_map` has no order, so
equals are taken in any. A torrent's storage move is part of its `parsed` alert.

`reg[t].row` is the force that the row keeps. A torrent may be added with force, an
HTTP task not; `replace_task` writes it, a dispatch clears it in the registry only,
and `Restart` queues the task with what the row has. So a torrent that was once
added with force preempts again after each restart (a finding); `Admission` therefore
lets forced tasks come back from a restart.

`Admission` states the scheduler's promise without engines: in its turn the
foremost waiting task is admitted while there is a slot; a slot is taken away
only for a forced task, one at a time, and what is admitted next is forced.
`AdmitsSpec` says that `TaskScheduler` implements it, where "waiting" is QUEUED
and not deleted, "active" is what `active_count_locked` counts, and the turn is
the hold of `mtx_` by the scheduler.

### BtSession

`bt` is what `TaskScheduler` and `TorrentEngine` both have of a torrent: its status
and deletion mark in the registry, whether its handle is held or on, and whether
libtorrent has everything. A call may bring a handle back, but held; only `do_resume`
switches it on, and of a task that is queued and not deleted. Where the two count
alerts differently (`TaskScheduler` has the set of kinds to come, `TorrentEngine` the
queue) `BtSession` says only what an alert may find: "finished" comes of a torrent
that has everything, an error of any that is in the registry, as one is also posted
when no handle can be built. Both views of the alerts keep to that.

### FileSegments and TorrentEngine

`entry` is the torrent's `Task` with its status, its deletion mark and its
`files`: which are listed, the bytes that each one's segments cover, its
`total_done`. `db` is what the three tables have of it. `handle` is libtorrent's
torrent: "held" (paused, or in upload_mode until `do_resume`) or "on", the pieces
it has, those it last gave as resume data, the storage moves it was asked for.
`alerts` is the queue that the alert thread takes one by one (`Handles...`);
`disk` and the history variable `verified` are pieces.

The calls (`AddTask` .. `Restart`) find the torrent's handle or build it again
from the resume data (`Found`), which throws, and posts alerts. libtorrent's own
steps receive the metadata, check pieces that are on the disk, download pieces,
move the storage, fail. An alert tells what happened, but its handler reads the
*current* bitmap, and by then the entry may be deleted, restarted, or parsed
again: `HandlesPiece` and `HandlesFile` write the same fields from different
sources, and `Parses` may take intervals back. `RequestResume` is `resume_loop`.

In `FileSegments` a piece may lie in two files and a file may be empty; `Had` is
the definition of what is there, `Segments` the code's loop.

Assumptions: what a crash finds on the disk is what was written; a torrent taken
out of the session has no more alerts handled, as they name no task that is
found; `TaskFileStore::save` writes the rows of the files one by one and may stop
half way (`Saved`); all files are wanted. Alerts that are not critical may be
dropped when the queue is full (`Posts`), which libtorrent does and the code does
not notice. `entry` has no name, as `read_task` reads none: that is why `Parses`
finds `save_path` itself and moves the storage when it exists.

### UniqueName

`disk` is the set of names that are taken; a call looks at a number
(`FindsFree`, `FindsTaken`), and creates in a step of its own what it found free
(`Creates`); to `create_directories` an existing directory is success. The time
stamp after the last number is taken unseen. The comment in `unique_name.h` asks
the caller to serialise the two steps; `finalize_probing` does not.

### Lifecycle

`manager`, `http` and `torrent` are the objects, named by the number of the
dw_init that made them (an id); `httpManager` and `btManager` the global pointers
to the manager in the two engines' files, which may name one that is gone;
`threads` which of the library's threads run, and whether the maintenance thread is
in `HttpEngine::sweep` ("sweep") or waits there for a running worker that it has taken
out of the table ("taken", the finding at `http_engine.cpp:417`). dw_init is six steps under the
downloader's mutex (`MakeManager` .. `StartManager`), each with its early return,
and what a failed one leaves behind is there when the next begins: the old
engines are destroyed *after* the new ones' constructors have set the globals.
dw_destroy is `Destroy`, `Stop`, `JoinHttp`, `JoinTorrent`, `FreeManager`. The
other calls take the manager's address and use it later without the mutex
(`TaskCall`, then `UseManager`).

`Careful` says whether the application calls only between dw_init and dw_destroy;
the code does not see to it, and a race of a call with dw_destroy is recorded as
a finding. `MayFail` says which steps may fail. After a failure of
`TaskManager::start` the manager is freed and the engines are not; what follows
from that is a finding, and `startFailed` excludes it from the properties.

A worker that the sweep has taken out is told by nobody to end: `dw_destroy` joins the
maintenance thread before it destroys the HTTP engine, whose table no longer has that
worker. Nothing says when its download ends, so no fairness is assumed of it, and
`CallsReturn` says that every call returns unless it is a `dw_destroy` that waits for
such a sweep for ever (`Hangs`).

### P2PBridge

`adapter[h]` is what `WebrtcAdapter` has: its state, its two promises and
`ice_done_`. `peer[h]` is the peer connection as libwebrtc has it: what was asked
and not answered, gathering, link and channel. The actions from `Create` to
`Release` are the application's, whose calls take several steps: reset, wait for
the description (10 s), wait for it to be set (no limit), wait for candidates
(15 s), tell the callback. `SdpArrives`, `SetArrives`, `OnIceGatheringState`,
`OnPeerConnectionState`, `OnStateChange` are libwebrtc's one signaling thread,
which calls the observers and with them the application's callback; while it is
in one, no peer can be closed, as Close is carried out by that thread.

Assumptions: a handle is used by one thread of the application; a peer that is
closed says nothing more. `CallbackAsks` says whether the state callback calls
the bridge: it needs the registry's mutex then, which dw_p2p_destroy holds.
`undefined` records a promise that is kept twice, and an observer that is called
after the destructor has freed it (a finding).

### PlaybackSession

`fetched` is what the engine has written, `reported` what it tells of, which may be
behind; `written` and `length` are what lies at the file's path, and `touched` is what
the user has done to it: the user may cut the end off the file (`UserCuts`), remove it
or put another in its place (`UserReplaces`), which the engine does not notice. The
download writes bytes in any order, stops and goes on. A session is `Request`, then
`Stream` (do_stream: look for a range that has the position, read a chunk of it), the
callbacks of the two writes, and `TimerFires`. `body` is what the player has got, each
byte with its position and whether it was the server's when it was read.

A read returns what the file has, which may be less than was asked for (`ReadUpto`).
do_stream goes on behind what it *asked* for, so the bytes that were missing are
skipped and the session ends with less than it announced: a finding. The session's
`short`, a history variable, says that this has happened, and `BodyIsFile` says what
holds in any case (bytes of the range, in order, none twice), what holds unless a read
was short (none skipped, as many as announced), and that no read is short as long as
the user leaves the file alone.

Sessions share one `io_context` with one thread and no state, so one is modelled. The
engine's `dw_get_file_ranges`, which the proxy calls, has no definition in `src/`; it is
taken to be what its declaration and `do_stream` use. Assumptions: what it reports only
grows during a download; errors of the disk while reading are left out.

## 3. The runs

| run | module | instance | shows |
|---|---|---|---|
| `http_download` | MCHttpDownload | 5 servers, files of 4 then 3 bytes, 2 parts, window of 1, 1 retry, 2 worker runs, 1 fault, user removes files | rows are conservative and do not go back, parts tile, no mixture, completed is whole, nothing is lost without a cause |
| `http_download_live` | MCHttpDownload | 2 servers, 3 bytes, 1 directory, 2 retries, 2 worker runs, faults without bound | prompt pauses; termination if transfers end, although each may fail |
| `http_engine` | MCHttpEngine | 2 users, 3 contexts of one URL, 3 calls | each context has one owner, each download one worker, `Workers` is implemented, calls and destroy end, deletions and resumes get through |
| `scheduler` | MCTaskScheduler | 2 HTTP tasks, 1 torrent of higher priority, 1 or 2 slots, 2 calls | implements `Admission`; nothing changes silently |
| `scheduler_live` | MCTaskScheduler | 1 HTTP task, 1 torrent, 0 to 2 slots, 2 calls | rounds end, no waiting beside a free slot, network switch, deletion |
| `p2p` | MCP2PBridge | 2 handles: one makes any 3 calls, the other an offer or its destruction | promises, codes and states; every call returns |
| `playback` | MCPlaybackSession | a file of 3 runs of bytes, sent 2 at a time; 2 requests; the download stops once; the user cuts or replaces the file | the body is the file as long as the user leaves it alone; waits end |
| `lifecycle` | MCLifecycle | 2 threads, 3 dw_init, each step of which may fail, 3 other calls | nothing uses what is freed; initialized means ready, otherwise quiet; calls return, but for the sweep's finding |
| `torrent` | MCTorrentEngine | 2 files of 5 bytes and 1, pieces of 2, one of them shared, 1 alert pending at most when libtorrent goes on, 3 calls or faults | files are told truly, intervals are exact, `BtSession` is implemented, so that what is not admitted does not download; progress is saved |
| `scheduler_slots` | MCTaskScheduler | as `scheduler_live` | **violated**: an ended HTTP task keeps its slot |
| `torrent_resolve` | MCTorrentEngine | as `torrent`, 1 call or fault | **violated**: where `save_path` exists the storage is moved to where it is again and again, and the torrent resolves for ever |
| `shared_wrapper` | MCUniqueName | 2 workers, numbers up to 2, 2 milliseconds | **violated**: two downloads get one directory |

A violated run states what a comment or a document of the repository says; its
entry under `findings` quotes it. Findings without a run were met while reading
and modelling.

`NothingLostWithoutCause` joins four claims about a download that meets no fault
and no change of the remote file: no drift is reported, it does not fail, the
continuation after the probe costs no retry, a late pause does not cost the
completion. `ReadyOrQuiet` joins what `dw_is_initialized` means when it is true
and when it is false; `FilesAreTrue` joins `SegmentsVerified` and
`FilesConsistent`; `CallsReturn` of `HttpEngine` includes the end of destroy, its
`OwnedOnce` that `emplace` finds the place free (`EmplaceNeverFails`), its `OneWorker`
that what is freed has been joined (`FreedIsJoined`).

Three constants separate what holds from what does not, and are worth changing by
hand: with `UserRemoves = {"file", "wrapper"}` in `http_download.cfg` TLC violates
`ResumeConservative` (an old row names a new, empty file); with
`CallbackAsks = TRUE` in `p2p.cfg` it violates `CallsReturn` (dw_p2p_destroy holds
the registry's mutex while it tells the callback, which waits for it); with
`Careful = FALSE` in `lifecycle.cfg` it violates `UsesLive` (a call races with
dw_destroy).

Each property of a passing run has a mutant (`PROJECT.json`, and the operators
marked "mutant" in the modules): a plausible bug of the code that breaks it.

Bounds, and why they are enough. Four bytes with two parts give a probe window, a
rest of part 0 and a second part, with a body in several callbacks; the second
version is shorter, so that ranges beyond its end occur. Two runs are what it
takes to restore, or to start from a row that was overtaken; one fault reaches each
error path once, and one retry is enough to go on with a part. That retries come to an
end is the business of `http_download_live`, where `Endless` lets transfers, writes and
saves fail as often as there is occasion, so that only `MaxRetries` stops them. Two users and the scheduler are two callers of `start_download` and
one call that takes no `mtx_`; three contexts are one that ended, one that
replaces it and one more for a failed insertion or for the add that comes after the
sweep has taken the second; three calls are two adds and a deletion of the last; URLs
do not interact. With one
slot and three tasks there are always tasks that wait, with two the preemption
chooses; two calls with all the alerts, worker ends and rounds between them reach
every action. Two handles are what the registry's mutex and the signaling thread
need to be contended, and three calls on one of them make a code after another,
or destroy after both sides of a handshake. Three runs of bytes and chunks of two
have a chunk that ends inside a reported range, at its end, and at the end of what
was asked for, and a read that is whole, short or empty; two requests, that the second starts afresh. Three dw_init are one
that fails, one that finds what it left, and one after a dw_destroy. In `torrent`
five bytes with pieces of two give a file a first, a middle and a last piece, the
last shared with the next file, so that one piece completes two files and a
bitmap has gaps; a partial piece of one byte (`MaxPartial`) makes libtorrent's
progress differ from the bitmap's; the alerts of one step may wait while calls
come in between, and libtorrent goes on when at most `MaxPending` wait; three
calls, restarts or faults are a torrent added, deleted or restarted, and added
again. `Threshold` is how small a change of a file's progress is still told (a
thousandth in the code; here it tells every change of more than half a file).
`UniqueName` needs two workers and one name that is taken. The counters `runs`,
`faults`, `calls`, `inits`, `requests`, `stops` and `events` only bound.

`CHECK_DEADLOCK FALSE` stands where the system does stop: when the bounded number
of runs or calls is used up, or destroy is over. `TaskScheduler` never stops.

Fairness, and what justifies it:

* `HttpDownload`: weak fairness of the worker thread, whose loop never blocks for
  longer than its 200 ms poll. `WorkerTerminates` also assumes that the network
  acts (strongly fair, as the worker's steps come in between): curl's low-speed
  limit and timeout end a dead transfer.
* `HttpEngine`: weak fairness of workers, sweep and destroy; a worker that is told to
  end does, one that is not may go on for ever. Strong fairness of the callers and the
  scheduler's dispatch together (`Callings`), who contend for `mtx_` with a scheduler
  that releases it and sleeps a second after each round; that there is a slot is
  `TaskScheduler`'s business. Users need not do anything. `DeletedIsReclaimed` ends
  where the sweep joins a running worker that it took out of the table (`Hangs`) and
  that never ends: then nothing is reclaimed any more, a finding that three calls
  reach.
* `TaskScheduler`: weak fairness of the scheduler thread; weak fairness of an
  HTTP worker that was asked to end (`PauseIsPrompt` and `WorkerTerminates` of
  the first module); strong fairness of the sweep of a deleted torrent, since the
  maintenance thread gets `mtx_` while the scheduler sleeps. No alert need ever
  come and no download need ever end.
* `Lifecycle`: weak fairness of a call's steps, and of a thread's end once it is
  told to end: each loop looks at its flag at least every five seconds. The one thing
  that can keep the maintenance thread longer is `HttpEngine::sweep`; it ends, unless it
  joins a running worker ("taken"), of which nothing is assumed.
* `TorrentEngine`: weak fairness of the alert thread and of the resume thread, which
  loop until destroy, and of the storage moves libtorrent was asked for. It need
  not receive, check or download anything, and nobody need call.
* `P2PBridge`: a call's steps are strongly fair, as threads contend for the
  registry's mutex and the signaling thread; the callback returns. libwebrtc
  answers when a description is set, which `wait_set` waits for without a limit;
  nothing else it does need ever happen, as the other waits have limits.
* `PlaybackSession`: weak fairness of the session: the `io_context` runs, and a write
  to a player that is connected ends. The code sets no time limit for writes, so the
  latter assumes a player that reads or leaves. The download need not go on;
  `WaitsEnd` is about bytes that are reported.

## 4. The proofs

The theorems hold for every value of the constants that the ASSUMEs of the
modules allow.

* `HttpDownloadProofs`: of `PartLayout`, that for every length and configuration the
  parts cover the file without gap or overlap (`LayoutTiles`), each byte belongs to
  exactly one part (`EachByteInOnePart`), and part 0 contains the probe window
  (`ProbeWindowInsidePart0`); of `HttpDownload`, `TypeCorrect` and four theorems about
  contents.
  - `RowNeverAheadOfFile`: if users do not remove wrapper directories (section 3
    says what happens otherwise), `ResumeConservative` holds. The invariant `IInv`
    adds to the types: before the probe is answered there is no file and one empty
    part (`ProbeInv`); a body has a version, and in the middle of the first
    `write_cb` connection 0 has bytes to give (`ConnInv`); what the row or the task
    names is there (`EntryInv`); and what the *task* counts as done is in the file
    (`DiskInv`), from which the row's claim follows when it is saved. The bytes a
    write changes are shown to be filled before `done` moves past them.
  - `NoFileIsMixed`, under the same assumption: `NoMixture`. Besides `IInv` it
    needs that each file is pure in the version of whoever describes it, task or
    row, which agree if they describe the same file, and that a name nobody has is
    blank (`TagInv`); and that a connection stands exactly where its part has got
    to and receives the version of the task's validator (`AimInv`), so that no byte
    is written at a wrong place. `WorkerEffect` says once what the worker's steps
    may do to all this.
  - `PartsCoverTheFile`: `PartsTile`, with no assumption on users. The task's parts
    and the row's are the cut of a total that is known and does not change any
    more (`TaskCut`, `RowCut`); that a cut covers each byte once is
    `EachByteInOnePart`.
  - `RowNeverGoesBack`, under the assumption of the first: `ResumeNeverRegresses`.
    A row about the task's own file is never ahead of the task (`BehindInv`), and
    while a file stays the task's own no `done` of its parts goes down; so the row
    that replaces another of that file has at least as much of each part. A worker
    that has been `overtaken` is not covered, as its task may be behind the row; the
    other theorems hold for it, since what a loaded row says was true when it was
    read and stays so (`Rows` are the saved row and the loaded one).
  - `DownloadIsAWorker`: a download implements `Workers`, for one worker.
* `HttpCompletionProofs` has the two theorems about `HttpDownload` that need to know
  what a task holds true of the remote file.
  - The ground is two invariants about every state. `PartsInv`: a transfer stands
    where its part has got to (`PlaceInv`) and was asked up to the end of the part or
    of the probe window (`AskInv`); a completed part is full and no full part is asked
    for (`DoneInv`); what of the task and its row is open and what is split, and that
    sizes are those of the bounds (`ShapeInv`, `LengthInv`, `RowInv`); validators name
    versions that have been (`VerInv`). `KnownInv`: if the server sends validators, or
    nothing has changed, then the total of the task and of its row is the length of the
    version they are about, and every answer is of that version and, when nothing else
    limits it, as long as it is (`AnswersInv`, `TotalInv`, `RowTotalInv`).
  - `CompletedIsTheFile`: `CompletedIsWhole`. With the invariants of `NoFileIsMixed`,
    nothing is written beyond the end of the version a file is about (`ShortInv`);
    and a completed task has all its parts in, which by `PartsTile` and the total
    are all bytes of the file (`WholeInv`): so each byte that `done` counts is
    filled, with a byte of one version.
  - `FreeOfCharge`: `NothingLostWithoutCause`. Without a second version the
    validator is that of the first (`FirstInv`), so no drift is seen. Without faults
    a running task has its file and fails only if one of its parts has (`ThereInv`);
    transfers end only with their body, when their part is full or when the worker
    is asked to stop, and are as long as was asked for, so that nothing is tried
    twice (`StraightInv`); and when a worker that was not overtaken starts or has
    emitted for the last time with all parts in, the row says so (`LateInv`).
  - Both assume `NoEmptyFile` and `HonestRedirects`: redirects come from servers that
    answer ranges and tell the length. Neither can be dropped, and two findings
    are about what happens otherwise: `write_cb` is never called for an empty file,
    so that it is completed without having been made, and `header_cb` takes the
    length of a redirect's body for that of a file whose own is not used.
    `CompletedIsTheFile` also assumes, like the theorems before it, that users do not
    remove wrapper directories.
* `HttpEngineProofs`, for any number of threads, URLs, contexts and calls:
  `TypeCorrect`; `NoLostInsertion`, the `emplace` at the end of `start_download`
  finds no entry (`EmplaceNeverFails`); `JoinedBeforeFreed`, no context is freed
  whose thread may run (`FreedIsJoined`); `SingleOwner`, no context is owned by two
  of table, sweep and a call, and what is owned is not freed (`OwnedOnce`). None of
  the three is inductive. `ThreadInv` says who is inside `start_download` (the
  holder of `mtx`, so one thread: `MutexInv`), that the URL it looked up stays
  without a context from its first look at the table to its insertion although
  `g_map_mtx` is released in between (`AbsentInv`, `EntryInv`), and which threads
  may not be over (`FreshInv`, `LifeInv`, `QuietInv`). `OwnerInv` says what each
  possible owner owns: live, and not in the table at the same time (`TableInv`,
  `SweepInv`, `StaleInv`, `NewInv`). `SingleOwner` follows from the four together.
  - `OneAtATime` (`OneWorker`): a thread that has not been joined belongs to a
    context that somebody owns, and two that work for one URL are one, unless the
    sweep has one of them. Besides those four it needs what a step
    must keep so that owners are not lost (`KeptInv`, theorem `KeptInvariant`): a
    context with such a thread has an owner (`BusyInv`), so has the one that
    `start_task` is about to start (`StartInv`), and what a call reclaims is of the
    call's own URL (`StaleUrlInv`).
  - `EngineKeepsWorkers` (`WorkersSpec`): the engine implements `Workers`. Of the many
    steps of `start_download` only two change what the table has for a URL: the end of the
    join, and the insertion, which starts a worker with no request (`UnaskedInv`).
    A URL has only one to map, as what a call reclaims is of the URL that it has found
    without a context (`AbsentInv`, `StaleUrlInv`) and only one call is inside.
  - `JoinsEnd`, what `CallsReturn` rests on: a thread that a call joins under `mtx_`, or
    destroy under `g_map_mtx`, is over or has been told to end (`JoinInv`). What a call
    has taken out of the table was over or deleted when it did, and nobody takes that
    back (`DelInv`); destroy tells all threads of the table before it joins the first,
    when no call is left that could put another one there.
* `TaskSchedulerProofs`, for any tasks, priorities, limits and rates:
  `TypeCorrect`; `EveryChangeIsTold` (`NoSilentChange`); and `SchedulerAdmits`, that
  the detailed scheduler implements `Admission` (`AdmitsSpec`), whatever force is added,
  resumed or restored from a row. The refinement needs
  one fact that no step shows by itself: when the scheduler has taken a slot away
  and owes it, a forced task is the foremost of those that wait (`SchedInv`), so
  that the next admission is the one the slot was taken for. HTTP workers that end
  and calls that take no `mtx_` fall into a round, and are shown to move no task
  between waiting and active there. `SchedulerCountsOnWorkers`: it implements `Workers`
  for its HTTP tasks.
  - `SchedulerCountsOnTorrents`: it implements `BtSession` for its torrents, and
    `TorrentsAreHeld`: none that is deleted, paused or not parsed yet downloads, which
    each action of `BtSession` preserves (`Held`).
  - `RoundsGoDown` and `RoundsGoOn` are what `RoundsEnd` rests on. While the scheduler
    holds `mtx_`, each turn of its loop takes something from twice the number of tasks
    that wait and the number of those that are active (`Left`): an admission moves one
    from the first to the second, a failure or a preemption takes one out of both. No
    other step of that time adds to it.
    And there is always a turn to take: of finitely many tasks that wait one is the
    foremost, the one with the fewest before it, and so with the slowest of those that
    may be preempted.
* `TorrentEngineProofs`, for any layout of files and pieces: `TypeCorrect`;
  `FilesTold` (`FilesAreTrue`); `Admitted`; `EngineKeepsSession` (`SessionSpec`);
  `ProgressIsOnItsWay`; `LoopMakesRuns` (`SegmentsAreRuns`). Types and files are inductive only with what libtorrent has being on the disk and verified
  (`PiecesInv`), and with every alert still pending saying what is true of its file
  (`AlertsInv`). The arithmetic of bytes and pieces (`ByteInPiece` and the lemmas
  around it) is proved from the definition of the layout; so a piece that is
  verified verifies just the bytes it is made of. `Segments`, the loop of
  `handle_piece_finished`, is a recursive function of the number of pieces looked at.
  That there is such a function, and that each round keeps the loop's invariant
  (`RunsUpTo`: what has been told so far is exactly what is there before the piece),
  are proved from the least number for which they would fail, as induction cannot
  be cited.
  - `EngineKeepsSession`: the engine implements `BtSession`, for one torrent. Two facts
    that no step shows are needed: while the torrent is out of the session its handle
    is blank and only errors are pending (`OutInv`), so that no late alert of a handle
    that has gone changes its task; and a "finished" alert that is pending is of a torrent
    that has everything (`WholeInv`), so that what completes is whole. `Admitted` says
    the same of the detailed state as `Held` does of the abstract one.
  - `ProgressIsOnItsWay`, what `ProgressIsSaved` rests on: what libtorrent has last given
    as resume data is in an alert that is pending, and no later one brings other data
    (`LastAsked`), or it is in the database, or the entry is being deleted or the row
    could not be written (`SavedInv`). Alerts may be dropped, but not these, as they are
    critical.
* `LifecycleProofs`, for any callers and any number of starts: `TypeCorrect`;
  `SaysWhatIs` (`ReadyOrQuiet`); and, if the application is `Careful`,
  `NothingFreedIsUsed` (`UsesLive`). The invariant says for each phase of a start or
  an end what is there (`PhaseInv`), which threads may run (`ThreadsInv`), what the
  pointers name (`PointersInv`) and that a call in progress has the manager that is
  there (`CallsInv`); a sweep only goes on in a maintenance thread that runs. It also shows that a `dw_init` that finds an old torrent
  engine is never met, unless `TaskManager::start` has failed.
* `P2PBridgeProofs`, for any number of handles: `TypeCorrect`; `CodesAreWhole`
  (`CodeIsWhole`); `PromisesKeptOnce` (`PromiseKeptOnce`); `ConnectionsAreLive`
  (`ConnectedIsLive`). Their common invariant is about one handle at a time:
  what a call and a peer belong to (`Owns`), that what was asked of a peer has a
  promise that is not kept yet (`AsksOnce`), and that a peer gathers once, after
  its local description is set (`Gathers`).
* `PlaybackSessionProofs`, for any length and chunk: `TypeCorrect` and
  `PlayerGetsTheFile` (`BodyIsFile`), from an invariant that keeps account of where
  the bytes sent, the bytes being sent and the next position meet (`SessionInv`),
  with gaps once a read was short; and as long as the user leaves the file alone what
  is reported is in the file, so that no read is.

The assumptions are those the modules name: on the configuration, on lengths,
layouts and counts, that an identifier which stands for nobody is no thread, and
that the tasks are finitely many.

What stays with TLC: liveness, which needs fairness and ENABLED, so every property
with `~>` or under `FairSpec`. Every invariant and every action property that a run
checks is a theorem, and so are the refinements of `Admission`, `Workers` and
`BtSession`. TLC also checks `Workers` for `HttpEngine`, where the steps of threads
meet, and `BtSession` for `TorrentEngine`, where those of calls and alerts do; for the
other modules, where each action is one step of them or none, they are only proved. Of
three liveness properties the part that is safety is proved for every value of the
constants (`RoundsEnd`, `CallsReturn` of `HttpEngine`, `ProgressIsSaved`): that what is
waited for will come if the threads named in section 3 run. That they run, and so
that it comes, is TLC's.

## 5. Not modelled, and the plan

Done in this order: worker, table, scheduler, as the first holds the data, the
second the threads and the third the policy; then what surrounds them; then the
torrent engine and the names; then the proofs of all of them. What is left, most
important first:

1. File selection of torrents, and seeding by ratio and time.
2. The stores: what is left when a migration stops half way.
3. `P2PBridge` with two threads on one handle, and with what is sent.

Partly modelled, and why: `TaskManager`'s maintenance is one flush and two sweeps,
without its figures; of the C ABI the lifecycle and the task calls are modelled,
not the conversion of arguments and results; of the stores what is written when
and what of it survives, not the tables' columns; of the WebRTC adapter the
handshake and its state, not the messages.

Not modelled at all: SQL statements and migrations, JSON and configuration
parsing, encodings, progress and speed figures, log lines, the build scripts, and
the C++ memory model beyond the races named in the hazards.
