----------------------------- MODULE HttpEngine -----------------------------
(***************************************************************************)
(* The HTTP engine's table of download contexts (http_engine.cpp) and the  *)
(* threads that meet there: callers of the API, which add, pause, resume   *)
(* and delete; the scheduler thread, which starts what is queued; the      *)
(* maintenance thread, which sweeps; the workers, one per context; and at  *)
(* the end destroy.                                                        *)
(*                                                                         *)
(* Two locks matter.  mtx is TaskManager's recursive mutex; start_download *)
(* holds it from its first step to its last.  g_map_mtx guards the table;  *)
(* everyone but destroy holds it for a single step, so only destroy's hold *)
(* is a state of its own.  Most properties are about who may own a context *)
(* while nobody holds g_map_mtx.                                           *)
(*                                                                         *)
(* What a worker does with its download is in HttpDownload; here it is a   *)
(* loop that takes g_map_mtx if it is free (active_downloading_tasks),     *)
(* saves resume rows, looks at its requests and ends.                      *)
(***************************************************************************)
EXTENDS Naturals

CONSTANTS
  Users,      \* threads that call the API
  Scheduler,  \* TaskManager's thread A
  Urls,       \* the downloads
  Ctxs,       \* 1 .. n, the contexts ever allocated; bounds the model
  MaxCalls    \* how many calls users make; bounds the model

Callers == Users \cup {Scheduler}
Nobody == "nobody"
NoCtx == 0

ASSUME EngineAssumption ==
  /\ Scheduler \notin Users
  /\ Nobody \notin Callers
  /\ Urls # {}
  /\ Ctxs \subseteq Nat \ {0}
  /\ MaxCalls \in Nat

VARIABLES
  map,      \* g_tasks
  ctx,      \* the contexts: dl_task_ctx and its thread
  mtx,      \* the owner of TaskManager's mutex
  row,      \* the URLs with a row in the table of tasks
  queued,   \* the URLs QUEUED in TaskManager's registry
  call,     \* what each caller is doing in start_download
  sweep,    \* what the maintenance thread is doing
  destroy,  \* how far destroy has come
  wish,     \* what was last asked for each URL; a history variable
  undefined,\* somebody has used a context that was freed: the end of the model
  calls     \* counts the users' calls

tableVars == <<map, ctx>>
registryVars == <<row, queued>>
historyVars == <<wish, undefined, calls>>
vars == <<tableVars, mtx, registryVars, call, sweep, destroy, historyVars>>

-----------------------------------------------------------------------------
\* The thread of a context: not started, in its loop, about to build a request
\* or to save a row, over (thread_done), joined.
Threads == {"none", "build", "loop", "emit", "done", "joined"}
Statuses == {"DOWNLOADING", "PAUSED", "COMPLETED", "ERROR"}

\* task_create_new.
FreshCtx(u) ==
  [life |-> "live", url |-> u, thread |-> "none", status |-> "DOWNLOADING",
   pause |-> FALSE, cancel |-> FALSE, del |-> FALSE]
UnusedCtx(u) == [FreshCtx(u) EXCEPT !.life = "unused"]

Idle(u) == [pc |-> "idle", url |-> u, replace |-> FALSE, stale |-> NoCtx,
            new |-> NoCtx]

\* destroy holds g_map_mtx while it joins the workers.
MapHeld == destroy = "join"

\* std::move and erase, of one entry of the table.
TakeOutNot(u) == UNCHANGED map  \* mutant: no erase
TakeOut(u) == map' = [map EXCEPT ![u] = NoCtx]

\* Freeing a context whose thread is joined.
Reclaim(c) == ctx' = [ctx EXCEPT ![c].life = "freed",
                        ![c].thread = IF @ = "done" THEN "joined" ELSE @]
\* join returns once the thread is over; there may be no thread to join.
Joinable(c) == ctx[c].thread \in {"done", "none"}

Init ==
  /\ map = [u \in Urls |-> NoCtx]
  /\ ctx = [c \in Ctxs |-> UnusedCtx(CHOOSE u \in Urls : TRUE)]
  /\ mtx = Nobody
  /\ row \in SUBSET Urls /\ queued = row
  /\ call = [t \in Callers |-> Idle(CHOOSE u \in Urls : TRUE)]
  /\ sweep = [pc |-> "idle", todo |-> {}, own |-> NoCtx]
  /\ destroy = "no"
  /\ wish = [u \in Urls |-> "none"]
  /\ undefined = FALSE
  /\ calls = 0

-----------------------------------------------------------------------------
(* The users' calls.                                                       *)

\* A user calls into the engine, which stands until the user's calls end.
Calls(t) ==
  /\ t \in Users
  /\ call[t].pc = "idle" /\ destroy = "no" /\ ~undefined
  /\ calls < MaxCalls /\ calls' = calls + 1
Wishes(u, w) == wish' = [wish EXCEPT ![u] = w] /\ UNCHANGED undefined

AddTask(t, u) ==
  /\ Calls(t) /\ Wishes(u, "add")
  /\ call' = [call EXCEPT ![t] = [Idle(u) EXCEPT !.pc = "lock", !.replace = TRUE]]
  /\ UNCHANGED <<tableVars, mtx, registryVars, sweep, destroy>>

\* resume_task only queues; the registry's lock is taken for the whole call.
ResumeTask(t, u) ==
  /\ Calls(t) /\ Wishes(u, "resume")
  /\ mtx = Nobody
  /\ u \in row
  /\ queued' = queued \cup {u}
  /\ UNCHANGED <<tableVars, mtx, row, call, sweep, destroy>>

PauseTask(t, u) ==
  /\ Calls(t) /\ Wishes(u, "pause")
  /\ ~MapHeld
  /\ ctx' = IF map[u] = NoCtx THEN ctx ELSE [ctx EXCEPT ![map[u]].pause = TRUE]
  /\ UNCHANGED <<map, mtx, registryVars, call, sweep, destroy>>

DeleteTask(t, u) ==
  /\ Calls(t) /\ Wishes(u, "delete")
  /\ ~MapHeld
  /\ ctx' = IF map[u] = NoCtx THEN ctx
            ELSE [ctx EXCEPT ![map[u]].cancel = TRUE, ![map[u]].del = TRUE]
  /\ UNCHANGED <<map, mtx, registryVars, call, sweep, destroy>>

-----------------------------------------------------------------------------
(* start_download, called by add_task and do_resume.                       *)

Runs(t) == ~undefined /\ t \in Callers
Goes(t, pc) == call' = [call EXCEPT ![t].pc = pc]
Frame == UNCHANGED <<sweep, destroy, calls>>

\* A call returns and gives up mtx.  The scheduler, which called do_resume,
\* has the result: the task is not QUEUED any more, or still if it must wait.
Returns(t, result) ==
  /\ call' = [call EXCEPT ![t] = Idle(@.url)]
  /\ mtx' = Nobody
  /\ queued' = IF t = Scheduler /\ result # "wait"
               THEN queued \ {call[t].url} ELSE queued
  /\ wish' = [wish EXCEPT ![call[t].url] =
                 IF result = "failure"
                    /\ @ = (IF t = Scheduler THEN "resume" ELSE "add")
                 THEN "none" ELSE @]

Lock(t) ==
  /\ Runs(t) /\ call[t].pc = "lock"
  /\ mtx = Nobody /\ mtx' = t
  /\ Goes(t, "check")
  /\ UNCHANGED <<tableVars, registryVars, wish, undefined>> /\ Frame

\* scheduler_loop dispatches do_resume, under mtx ...
Dispatch(u) ==
  /\ Runs(Scheduler) /\ call[Scheduler].pc = "idle" /\ destroy = "no"
  /\ u \in queued
  /\ mtx = Nobody /\ mtx' = Scheduler
  /\ call' = [call EXCEPT ![Scheduler] = [Idle(u) EXCEPT !.pc = "admit"]]
  /\ UNCHANGED <<tableVars, registryVars, wish, undefined>> /\ Frame

\* ... which has a download wait that is about to pause.
PausingNever(c) == FALSE  \* mutant: no such check
Pausing(c) == c # NoCtx /\ ctx[c].pause /\ ctx[c].thread \notin {"done", "joined"}
Admit ==
  LET t == Scheduler IN
  /\ Runs(t) /\ call[t].pc = "admit" /\ ~MapHeld
  /\ \/ /\ Pausing(map[call[t].url])
        /\ Returns(t, "wait")
     \/ /\ ~Pausing(map[call[t].url])
        /\ Goes(t, "check") /\ UNCHANGED <<mtx, queued, wish>>
  /\ UNCHANGED <<tableVars, row, undefined>> /\ Frame

\* A running context is left alone, an ended or deleted one is taken out.
Check(t) ==
  LET u == call[t].url
      c == map[u]
      stands == ctx[c].thread # "done" /\ ~ctx[c].del
  IN /\ Runs(t) /\ call[t].pc = "check" /\ ~MapHeld
     /\ \/ /\ c = NoCtx
           /\ Goes(t, "create") /\ UNCHANGED <<map, mtx, queued, wish>>
        \/ /\ c # NoCtx /\ stands
           /\ Returns(t, "success") /\ UNCHANGED map
        \/ /\ c # NoCtx /\ ~stands
           /\ TakeOut(u)
           /\ call' = [call EXCEPT ![t].pc = "reclaim", ![t].stale = c]
           /\ UNCHANGED <<mtx, queued, wish>>
     /\ UNCHANGED <<ctx, row, undefined>> /\ Frame

\* Joins the worker of a context that was taken out, holding mtx.
ReclaimStale(t) ==
  /\ Runs(t) /\ call[t].pc = "reclaim"
  /\ Joinable(call[t].stale)
  /\ Reclaim(call[t].stale)
  /\ Goes(t, "create")
  /\ UNCHANGED <<map, mtx, registryVars, wish, undefined>> /\ Frame

\* The directory is made and a context allocated, or the call fails.
Unused == {c \in Ctxs : ctx[c].life = "unused"}
Create(t) ==
  /\ Runs(t) /\ call[t].pc = "create"
  /\ \/ Returns(t, "failure") /\ UNCHANGED ctx
     \/ \E c \in Unused :
          /\ \A d \in Unused : c <= d
          /\ ctx' = [ctx EXCEPT ![c] = FreshCtx(call[t].url)]
          /\ call' = [call EXCEPT ![t].pc = "insert", ![t].new = c]
          /\ UNCHANGED <<mtx, queued, wish>>
  /\ UNCHANGED <<map, row, undefined>> /\ Frame

Insert(t) ==
  LET u == call[t].url IN
  /\ Runs(t) /\ call[t].pc = "insert" /\ ~MapHeld
  /\ \/ /\ map[u] = NoCtx
        /\ map' = [map EXCEPT ![u] = call[t].new]
        /\ Goes(t, IF call[t].replace THEN "persist" ELSE "start")
        /\ UNCHANGED <<ctx, mtx, queued, wish>>
     \/ /\ map[u] # NoCtx
        /\ Reclaim(call[t].new)
        /\ Returns(t, "failure") /\ UNCHANGED map
  /\ UNCHANGED <<row, undefined>> /\ Frame

\* replace_task; if it fails, whatever the table has for the URL is erased.
Persist(t) ==
  LET u == call[t].url IN
  /\ Runs(t) /\ call[t].pc = "persist"
  /\ \/ /\ row' = row \cup {u}
        /\ Goes(t, "start") /\ UNCHANGED <<tableVars, mtx, queued, wish>>
     \/ /\ ~MapHeld
        /\ TakeOut(u)
        /\ IF map[u] = NoCtx THEN UNCHANGED ctx ELSE Reclaim(map[u])
        /\ Returns(t, "failure") /\ UNCHANGED row
  /\ UNCHANGED undefined /\ Frame

StartClears(t) ==  \* mutant: what was asked since the insertion is forgotten
  LET c == call[t].new IN
  /\ Runs(t) /\ call[t].pc = "start"
  /\ ctx' = [ctx EXCEPT ![c].thread = "build", ![c].pause = FALSE]
  /\ Goes(t, "log")
  /\ UNCHANGED <<map, mtx, registryVars, wish, undefined>> /\ Frame

\* start_task writes into the context, and starts its worker.
Start(t) ==
  LET c == call[t].new IN
  /\ Runs(t) /\ call[t].pc = "start"
  /\ IF ctx[c].life = "live"
     THEN ctx' = [ctx EXCEPT ![c].thread = "build"] /\ UNCHANGED undefined
     ELSE undefined' = TRUE /\ UNCHANGED ctx
  /\ Goes(t, "log")
  /\ UNCHANGED <<map, mtx, registryVars, wish>> /\ Frame

\* The last log line reads the context.
Log(t) ==
  /\ Runs(t) /\ call[t].pc = "log"
  /\ undefined' = (ctx[call[t].new].life # "live")
  /\ Returns(t, "success")
  /\ UNCHANGED <<tableVars, row>> /\ Frame

-----------------------------------------------------------------------------
(* The workers.                                                            *)

Worker(c) == ~undefined /\ c \in Ctxs
WorkerFrame ==
  UNCHANGED <<map, mtx, registryVars, call, sweep, destroy, undefined, calls>>

\* build_easy_for_part asks active_downloading_tasks how many share the rate:
\* it tries g_map_mtx and does not wait for it.
WorkerBuild(c) ==
  /\ Worker(c) /\ ctx[c].thread = "build"
  /\ ctx' = [ctx EXCEPT ![c].thread = "loop"]
  /\ WorkerFrame /\ UNCHANGED wish

\* The head of the loop: a request ends it, otherwise it goes on, or the
\* download is over (DOWNLOADING: curl itself has failed).
WorkerLoop(c) ==
  /\ Worker(c) /\ ctx[c].thread = "loop"
  /\ IF ctx[c].pause \/ ctx[c].cancel
     THEN /\ ctx' = [ctx EXCEPT ![c].thread = "done",
                       ![c].status = IF ctx[c].cancel THEN @ ELSE "PAUSED"]
          /\ UNCHANGED wish
     ELSE \/ /\ \E next \in {"build", "emit"} :
                  ctx' = [ctx EXCEPT ![c].thread = next]
             /\ UNCHANGED wish
          \/ /\ \E s \in {"COMPLETED", "ERROR", "DOWNLOADING"} :
                  ctx' = [ctx EXCEPT ![c].thread = "done", ![c].status = s]
             /\ wish' = [wish EXCEPT ![ctx[c].url] =
                            IF @ = "resume" THEN "none" ELSE @]
  /\ WorkerFrame

\* maybe_emit_resume saves the row, without mtx.
WorkerEmitLocks(c) ==  \* mutant: with mtx, as its accessor asks for
  /\ Worker(c) /\ ctx[c].thread = "emit" /\ mtx = Nobody
  /\ ctx' = [ctx EXCEPT ![c].thread = "loop"]
  /\ WorkerFrame /\ UNCHANGED wish
WorkerEmit(c) ==
  /\ Worker(c) /\ ctx[c].thread = "emit"
  /\ ctx' = [ctx EXCEPT ![c].thread = "loop"]
  /\ WorkerFrame /\ UNCHANGED wish

-----------------------------------------------------------------------------
(* sweep.                                                                  *)

\* A download that has completed or failed stays for four seconds: the time
\* that has gone by is any, so `young` is any set of such contexts.
Over(c) == ctx[c].status \in {"COMPLETED", "ERROR"}
ReclaimableOnStatus(c, young) ==  \* mutant: a deletion is not looked at first
  /\ ctx[c].thread = "done"
  /\ IF Over(c) THEN c \notin young ELSE ctx[c].pause
Reclaimable(c, young) ==
  /\ ctx[c].thread = "done"
  /\ ctx[c].del \/ IF Over(c) THEN c \notin young ELSE ctx[c].pause

Sweeps(pc) == ~undefined /\ sweep.pc = pc
SweepFrame == UNCHANGED <<mtx, registryVars, call, destroy, historyVars>>

\* The first loop: which URLs have a context to reclaim.
SweepCollect ==
  /\ Sweeps("idle") /\ destroy = "no"
  /\ \E young \in SUBSET Ctxs :
       LET found == {u \in Urls : map[u] # NoCtx /\ Reclaimable(map[u], young)}
       IN found # {} /\ sweep' = [sweep EXCEPT !.pc = "take", !.todo = found]
  /\ SweepFrame /\ UNCHANGED tableVars

\* The second loop: takes out what the table has for the URL now.
SweepTakeUnseen ==  \* mutant: the table may have nothing any more
  /\ Sweeps("take") /\ ~MapHeld
  /\ \E u \in sweep.todo :
       /\ sweep' = [pc |-> "join", todo |-> sweep.todo \ {u}, own |-> map[u]]
       /\ TakeOut(u)
  /\ SweepFrame /\ UNCHANGED ctx
SweepTake ==
  /\ Sweeps("take") /\ ~MapHeld
  /\ \/ /\ sweep.todo = {}
        /\ sweep' = [sweep EXCEPT !.pc = "idle"]
        /\ UNCHANGED map
     \/ \E u \in sweep.todo :
          IF map[u] = NoCtx
          THEN sweep' = [sweep EXCEPT !.todo = @ \ {u}] /\ UNCHANGED map
          ELSE /\ sweep' = [pc |-> "join", todo |-> sweep.todo \ {u}, own |-> map[u]]
               /\ TakeOut(u)
  /\ SweepFrame /\ UNCHANGED ctx

SweepJoinUnjoined ==  \* mutant: freed without waiting for the thread
  /\ Sweeps("join")
  /\ ctx' = [ctx EXCEPT ![sweep.own].life = "freed"]
  /\ sweep' = [sweep EXCEPT !.pc = "take", !.own = NoCtx]
  /\ SweepFrame /\ UNCHANGED map
SweepJoin ==
  /\ Sweeps("join")
  /\ Joinable(sweep.own)
  /\ Reclaim(sweep.own)
  /\ sweep' = [sweep EXCEPT !.pc = "take", !.own = NoCtx]
  /\ SweepFrame /\ UNCHANGED map

-----------------------------------------------------------------------------
(* destroy, after TaskManager::stop has joined the scheduler and the       *)
(* maintenance thread and when no user is calling any more.                *)

DestroyFrame == UNCHANGED <<mtx, registryVars, call, sweep, historyVars>>
InTable(c) == \E u \in Urls : map[u] = c

DestroyCancel ==
  /\ ~undefined /\ destroy = "no"
  /\ \A t \in Callers : call[t].pc = "idle"
  /\ sweep.pc = "idle"
  /\ ctx' = [c \in Ctxs |-> IF InTable(c) THEN [ctx[c] EXCEPT !.cancel = TRUE]
                            ELSE ctx[c]]
  /\ destroy' = "cancel"
  /\ DestroyFrame /\ UNCHANGED map

DestroyLock ==
  /\ ~undefined /\ destroy = "cancel"
  /\ destroy' = "join"
  /\ DestroyFrame /\ UNCHANGED tableVars

DestroyJoin ==
  /\ ~undefined /\ destroy = "join"
  /\ \A c \in Ctxs : InTable(c) => Joinable(c)
  /\ ctx' = [c \in Ctxs |-> IF InTable(c)
                            THEN [ctx[c] EXCEPT !.life = "freed", !.thread = "joined"]
                            ELSE ctx[c]]
  /\ map' = [u \in Urls |-> NoCtx]
  /\ destroy' = "over"
  /\ DestroyFrame

-----------------------------------------------------------------------------
CallStep(t) ==
  \/ Lock(t) \/ Check(t) \/ ReclaimStale(t) \/ Create(t) \/ Insert(t)
  \/ Persist(t) \/ Start(t) \/ Log(t) \/ (t = Scheduler /\ Admit)
WorkerStep(c) == WorkerBuild(c) \/ WorkerLoop(c) \/ WorkerEmit(c)
SweepStep == SweepCollect \/ SweepTake \/ SweepJoin
DestroyStep == DestroyLock \/ DestroyJoin

Next ==
  \/ \E t \in Users, u \in Urls :
       AddTask(t, u) \/ ResumeTask(t, u) \/ PauseTask(t, u) \/ DeleteTask(t, u)
  \/ \E u \in Urls : Dispatch(u)
  \/ \E t \in Callers : CallStep(t)
  \/ \E c \in Ctxs : WorkerStep(c)
  \/ SweepStep \/ DestroyCancel \/ DestroyStep
Spec == Init /\ [][Next]_vars

\* Every worker that can go on does, the sweep and destroy too; and mtx is passed
\* on, since the scheduler gives it up and sleeps for a second between its rounds:
\* when calls and the scheduler can go on time and again, one of them does.
Callings == (\E t \in Callers : CallStep(t)) \/ (\E u \in Urls : Dispatch(u))
Fairness ==
  /\ SF_vars(Callings)
  /\ \A c \in Ctxs : WF_vars(WorkerStep(c))
  /\ WF_vars(SweepStep) /\ WF_vars(DestroyStep)
FairSpec == Spec /\ Fairness

-----------------------------------------------------------------------------
(* Properties.                                                             *)

CtxType ==
  [life : {"unused", "live", "freed"}, url : Urls, thread : Threads,
   status : Statuses, pause : BOOLEAN, cancel : BOOLEAN, del : BOOLEAN]
CallType ==
  [pc : {"idle", "lock", "admit", "check", "reclaim", "create", "insert",
         "persist", "start", "log"},
   url : Urls, replace : BOOLEAN, stale : Ctxs \cup {NoCtx},
   new : Ctxs \cup {NoCtx}]
SweepType ==
  [pc : {"idle", "take", "join"}, todo : SUBSET Urls, own : Ctxs \cup {NoCtx}]

\* Every variable keeps the type its declaration gives it, and whoever has
\* taken out or allocated a context says which.
TypeOK ==
  /\ map \in [Urls -> Ctxs \cup {NoCtx}]
  /\ ctx \in [Ctxs -> CtxType]
  /\ mtx \in Callers \cup {Nobody}
  /\ row \in SUBSET Urls /\ queued \in SUBSET Urls
  /\ call \in [Callers -> CallType]
  /\ sweep \in SweepType
  /\ destroy \in {"no", "cancel", "join", "over"}
  /\ wish \in [Urls -> {"none", "add", "resume", "pause", "delete"}]
  /\ undefined \in BOOLEAN
  /\ calls \in Nat
  /\ \A t \in Callers :
       /\ call[t].pc = "reclaim" => call[t].stale # NoCtx
       /\ call[t].pc \in {"insert", "persist", "start", "log"} => call[t].new # NoCtx
  /\ sweep.pc = "join" => sweep.own # NoCtx

\* start_download looks the URL up and inserts it in two holds of g_map_mtx,
\* with a join in between.  Since it holds mtx all the while, nobody else has
\* inserted meanwhile: "g_tasks.emplace failed" is never returned, and no
\* worker is ever started for a context that emplace has dropped.
EmplaceNeverFails ==
  \A t \in Callers : call[t].pc = "insert" => map[call[t].url] = NoCtx

\* A context is freed with its thread joined or never started, whoever frees
\* it: otherwise the worker would go on in freed memory and std::thread's
\* destructor would end the process.
FreedIsJoined ==
  \A c \in Ctxs : ctx[c].life = "freed" => ctx[c].thread \in {"none", "joined"}

\* "Out of the map is mine alone" (http_engine.cpp:173): of the table, the
\* sweep and the calls that reclaim, at most one owns a context, and what they
\* own has not been freed; nobody inserts where something is.
Owners(c) ==
  {<<"table", u>> : u \in {v \in Urls : map[v] = c}}
    \cup {<<"call", t>> : t \in {s \in Callers : call[s].pc = "reclaim" /\ call[s].stale = c}}
    \cup {o \in {<<"sweep", Nobody>>} : sweep.pc = "join" /\ sweep.own = c}
OwnedOnce ==
  /\ \A c \in Ctxs : /\ \A o, p \in Owners(c) : o = p
                     /\ Owners(c) # {} => ctx[c].life = "live"
  /\ EmplaceNeverFails

\* No thread is forgotten: until it is joined somebody owns its context.  And
\* no two workers of one download write its file, unless the sweep has taken
\* one of them for the ended one it has seen before.
Working(c) == ctx[c].thread \in {"build", "loop", "emit"}
Swept(c) == sweep.pc = "join" /\ sweep.own = c
OneWorker ==
  /\ \A c \in Ctxs : Working(c) \/ ctx[c].thread = "done" =>
                       ctx[c].life = "live" /\ Owners(c) # {}
  /\ \A c, d \in Ctxs :
       Working(c) /\ Working(d) /\ ctx[c].url = ctx[d].url =>
         c = d \/ Swept(c) \/ Swept(d)

\* The engine implements Workers: what the table has for a URL, or a call has
\* taken out of it and joins, is its worker from the insertion on.
TakenOut(c) == \E t \in Callers : call[t].pc = "reclaim" /\ call[t].stale = c
Reached(c) == (ctx[c].thread = "none" \/ Working(c)) /\ (InTable(c) \/ TakenOut(c))
Facts(c) ==
  {"runs"} \cup {w \in {"pause"} : ctx[c].pause} \cup {w \in {"delete"} : ctx[c].del}
WorkerOf(u) == UNION {Facts(c) : c \in {d \in Ctxs : Reached(d) /\ ctx[d].url = u}}
Pool == INSTANCE Workers WITH
  Downloads <- Urls,
  worker <- [u \in Urls |-> WorkerOf(u)]
WorkersSpec == Pool!Spec

\* No call hangs, nor does destroy: the joins under mtx and under g_map_mtx
\* only wait for workers that have ended or have been told to, and no worker
\* waits for either lock.  The calls are MaxCalls, so all of them have returned
\* in the end.
AllReturned == \A t \in Callers : call[t].pc = "idle"
CallsReturn ==
  /\ ~AllReturned ~> (AllReturned \/ undefined)
  /\ (destroy = "cancel") ~> (destroy = "over")

\* A deleted download leaves the table, whatever its worker was doing and
\* however that ended, unless the maintenance thread hangs: the sweep joins a
\* worker that it has taken for an ended one and that nobody can ask any more.
Hangs == Swept(sweep.own) /\ Working(sweep.own)
Deleted(u) == map[u] # NoCtx /\ ctx[map[u]].del
DeletedIsReclaimed ==
  \A u \in Urls : Deleted(u) ~> (~Deleted(u) \/ undefined \/ []Hangs)

\* A resume is not lost to a pause that still takes effect: sooner or later a
\* worker runs that has not been asked to stop, unless the user asks for
\* something else or the engine reports an error.
RunsFor(u) ==
  \E c \in Ctxs : /\ ctx[c].life = "live" /\ ctx[c].url = u
                  /\ ctx[c].thread \in {"build", "loop", "emit"}
                  /\ ~ctx[c].pause /\ ~ctx[c].cancel
ResumeNotLost ==
  \A u \in Urls :
    (wish[u] = "resume") ~>
      (wish[u] # "resume" \/ RunsFor(u) \/ destroy # "no" \/ undefined)
=============================================================================
