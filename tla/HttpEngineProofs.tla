-------------------------- MODULE HttpEngineProofs --------------------------
(***************************************************************************)
(* Proofs about HttpEngine for any number of users, URLs and contexts: the *)
(* types of the variables, that emplace never fails, that a context has    *)
(* one owner and is freed once, with its thread joined, that a download has*)
(* one worker unless the sweep has taken one, that the engine implements   *)
(* Workers, and that calls and destroy join only threads that will end.    *)
(***************************************************************************)
EXTENDS HttpEngine, TLAPS

-----------------------------------------------------------------------------
(* The inductive invariant.                                                *)

\* Whoever is inside start_download holds mtx, so nobody else is.
Inside(t) == call[t].pc \notin {"idle", "lock"}
MutexInv == \A t \in Callers : Inside(t) => mtx = t

\* From the moment start_download has found or left the URL without a context
\* until it inserts one, there is none.
AbsentInv ==
  \A t \in Callers : call[t].pc \in {"reclaim", "create", "insert"}
                       => map[call[t].url] = NoCtx
EntryInv ==
  \A t \in Callers : call[t].pc = "persist"
                       => map[call[t].url] \in {NoCtx, call[t].new}

\* A context that start_download has made has no thread before start_task.
FreshInv ==
  \A t \in Callers : call[t].pc \in {"insert", "persist", "start"}
                       => ctx[call[t].new].thread = "none"

\* A thread that is not over belongs to a context that has not been freed.
LifeInv ==
  \A c \in Ctxs :
    /\ ctx[c].life = "freed" => ctx[c].thread \in {"none", "joined"}
    /\ ctx[c].life = "unused" => ctx[c].thread = "none"

\* destroy begins when nobody is inside the engine, and nobody enters then.
QuietInv ==
  destroy # "no" => sweep.pc = "idle" /\ \A t \in Callers : call[t].pc = "idle"

ThreadInv == MutexInv /\ AbsentInv /\ EntryInv /\ FreshInv /\ LifeInv /\ QuietInv

\* Who owns what: the table, the sweep, the call that reclaims, and the call
\* that has made a context and not inserted it yet.
TableInv ==
  \A u \in Urls : map[u] # NoCtx =>
    ctx[map[u]].life = "live" /\ ctx[map[u]].url = u
SweepInv ==
  sweep.pc = "join" => ctx[sweep.own].life = "live" /\ ~InTable(sweep.own)
StaleInv ==
  \A t \in Callers : call[t].pc = "reclaim" =>
    /\ ctx[call[t].stale].life = "live" /\ ~InTable(call[t].stale)
    /\ sweep.pc = "join" => sweep.own # call[t].stale
NewInv ==
  \A t \in Callers : call[t].pc = "insert" =>
    /\ ctx[call[t].new].life = "live" /\ ctx[call[t].new].url = call[t].url
    /\ ~InTable(call[t].new)
    /\ sweep.pc = "join" => sweep.own # call[t].new
OwnerInv == TableInv /\ SweepInv /\ StaleInv /\ NewInv

IInv == TypeOK /\ ThreadInv /\ OwnerInv

-----------------------------------------------------------------------------
(* Types.                                                                  *)

LEMMA Constants ==
  /\ Nobody \notin Callers /\ Scheduler \in Callers /\ Users \subseteq Callers
  /\ NoCtx \notin Ctxs /\ \A c \in Ctxs : c \in Nat
  /\ \E u \in Urls : TRUE
BY EngineAssumption DEF Callers, NoCtx

LEMMA IdleType ==
  ASSUME NEW u \in Urls
  PROVE  Idle(u) \in CallType /\ Idle(u).pc = "idle" /\ Idle(u).url = u
BY DEF Idle, CallType

LEMMA FreshCtxType ==
  ASSUME NEW u \in Urls
  PROVE  /\ FreshCtx(u) \in CtxType
         /\ FreshCtx(u).life = "live" /\ FreshCtx(u).thread = "none"
         /\ FreshCtx(u).url = u
BY DEF FreshCtx, CtxType, Threads, Statuses

\* What the helpers of the actions do, read off their EXCEPTs once.
LEMMA ReclaimEffect ==
  ASSUME ctx \in [Ctxs -> CtxType], NEW c \in Ctxs, Reclaim(c)
  PROVE  /\ ctx' \in [Ctxs -> CtxType]
         /\ ctx'[c].life = "freed" /\ ctx'[c].url = ctx[c].url
         /\ ctx'[c].thread = IF ctx[c].thread = "done" THEN "joined" ELSE ctx[c].thread
         /\ \A d \in Ctxs : d # c => ctx'[d] = ctx[d]
<1> DEFINE th == IF ctx[c].thread = "done" THEN "joined" ELSE ctx[c].thread
           new == [[ctx[c] EXCEPT !.life = "freed"] EXCEPT !.thread = th]
<1>1. ctx[c] \in CtxType /\ th \in Threads
  BY DEF CtxType, Threads
<1>2. new \in CtxType /\ new.life = "freed" /\ new.url = ctx[c].url /\ new.thread = th
  BY <1>1 DEF CtxType
<1>3. ctx' = [ctx EXCEPT ![c] = new]
  BY DEF Reclaim, CtxType
<1> QED
  BY <1>2, <1>3

\* What TypeOK says of the calls.
CallsOK ==
  /\ call \in [Callers -> CallType]
  /\ \A t \in Callers :
       /\ call[t].pc = "reclaim" => call[t].stale # NoCtx
       /\ call[t].pc \in {"insert", "persist", "start", "log"} => call[t].new # NoCtx

LEMMA GoesEffect ==
  ASSUME TypeOK, NEW t \in Callers, NEW pc, Goes(t, pc),
         pc \in {"check", "create", "insert", "persist", "start", "log"},
         pc \in {"insert", "persist", "start", "log"} => call[t].new # NoCtx
  PROVE  /\ CallsOK'
         /\ call'[t].pc = pc /\ call'[t].url = call[t].url
         /\ call'[t].new = call[t].new
         /\ \A s \in Callers : s # t => call'[s] = call[s]
<1> DEFINE new == [call[t] EXCEPT !.pc = pc]
<1>1. call \in [Callers -> CallType] /\ call[t] \in CallType
  BY DEF TypeOK
<1>2. new \in CallType /\ new.pc = pc /\ new.url = call[t].url /\ new.new = call[t].new
  BY <1>1 DEF CallType
<1>3. call' = [call EXCEPT ![t] = new]
  BY <1>1 DEF Goes
<1> HIDE DEF new
<1>4. /\ call' \in [Callers -> CallType] /\ call'[t] = new
      /\ \A s \in Callers : s # t => call'[s] = call[s]
  BY <1>1, <1>2, <1>3
<1> QED
  BY <1>2, <1>4 DEF TypeOK, CallsOK

LEMMA ReturnsEffect ==
  ASSUME TypeOK, NEW t \in Callers, NEW result, Returns(t, result)
  PROVE  /\ CallsOK'
         /\ call'[t].pc = "idle"
         /\ \A s \in Callers : s # t => call'[s] = call[s]
         /\ mtx' = Nobody /\ queued' \in SUBSET Urls
         /\ wish' \in [Urls -> {"none", "add", "resume", "pause", "delete"}]
<1>1. call[t].url \in Urls
  BY DEF TypeOK, CallType
<1>2. call' = [call EXCEPT ![t] = Idle(call[t].url)]
  BY DEF Returns, TypeOK
<1>3. /\ call' \in [Callers -> CallType] /\ call'[t].pc = "idle"
      /\ \A s \in Callers : s # t => call'[s] = call[s]
  BY <1>1, <1>2, IdleType DEF TypeOK
<1>4. wish' \in [Urls -> {"none", "add", "resume", "pause", "delete"}]
  BY <1>1 DEF Returns, TypeOK
<1>5. CallsOK'
  BY <1>3 DEF CallsOK, TypeOK
<1> QED
  BY <1>3, <1>4, <1>5 DEF Returns, TypeOK

LEMMA AskEffect ==
  ASSUME TypeOK, NEW t \in Users, NEW u \in Urls, PauseTask(t, u) \/ DeleteTask(t, u)
  PROVE  /\ ctx' \in [Ctxs -> CtxType]
         /\ \A c \in Ctxs : /\ ctx'[c].life = ctx[c].life
                            /\ ctx'[c].thread = ctx[c].thread
                            /\ ctx'[c].url = ctx[c].url
<1>1. map[u] \in Ctxs \cup {NoCtx} /\ ctx \in [Ctxs -> CtxType]
  BY DEF TypeOK
<1>2. CASE map[u] = NoCtx
  BY <1>1, <1>2 DEF PauseTask, DeleteTask
<1>3. ASSUME map[u] # NoCtx, PauseTask(t, u)
      PROVE  ctx' = [ctx EXCEPT ![map[u]] = [ctx[map[u]] EXCEPT !.pause = TRUE]]
  BY <1>1, <1>3 DEF PauseTask
<1>4. ASSUME map[u] # NoCtx, DeleteTask(t, u)
      PROVE  ctx' = [ctx EXCEPT ![map[u]] =
                       [[ctx[map[u]] EXCEPT !.cancel = TRUE] EXCEPT !.del = TRUE]]
  BY <1>1, <1>4 DEF DeleteTask
<1> DEFINE paused == [ctx[map[u]] EXCEPT !.pause = TRUE]
           deleted == [[ctx[map[u]] EXCEPT !.cancel = TRUE] EXCEPT !.del = TRUE]
           Same(r) == /\ r \in CtxType /\ r.life = ctx[map[u]].life
                      /\ r.thread = ctx[map[u]].thread /\ r.url = ctx[map[u]].url
<1>5. map[u] # NoCtx => Same(paused)
  BY <1>1 DEF CtxType
<1>6. map[u] # NoCtx => Same(deleted)
  BY <1>1 DEF CtxType
<1> HIDE DEF paused, deleted
<1>7. CASE map[u] # NoCtx /\ PauseTask(t, u)
  <2>1. ctx' = [ctx EXCEPT ![map[u]] = paused]
    BY <1>3, <1>7 DEF paused
  <2> QED
    BY <1>1, <1>5, <1>7, <2>1
<1>8. CASE map[u] # NoCtx /\ DeleteTask(t, u)
  <2>1. ctx' = [ctx EXCEPT ![map[u]] = deleted]
    BY <1>4, <1>8 DEF deleted
  <2> QED
    BY <1>1, <1>6, <1>8, <2>1
<1> QED
  BY <1>2, <1>7, <1>8

LEMMA CreateEffect ==
  ASSUME TypeOK, NEW t \in Callers, NEW c \in Unused,
         ctx' = [ctx EXCEPT ![c] = FreshCtx(call[t].url)],
         call' = [call EXCEPT ![t].pc = "insert", ![t].new = c]
  PROVE  /\ c \in Ctxs /\ ctx[c].life = "unused" /\ c # NoCtx
         /\ ctx' \in [Ctxs -> CtxType]
         /\ ctx'[c] = FreshCtx(call[t].url)
         /\ \A d \in Ctxs : d # c => ctx'[d] = ctx[d]
         /\ CallsOK'
         /\ call'[t].pc = "insert" /\ call'[t].new = c /\ call'[t].url = call[t].url
         /\ \A s \in Callers : s # t => call'[s] = call[s]
<1>1. c \in Ctxs /\ ctx[c].life = "unused" /\ call[t].url \in Urls /\ c # NoCtx
  BY Constants DEF Unused, TypeOK, CallType
<1>2. /\ ctx' \in [Ctxs -> CtxType]
      /\ ctx'[c] = FreshCtx(call[t].url)
      /\ \A d \in Ctxs : d # c => ctx'[d] = ctx[d]
  BY <1>1, FreshCtxType DEF TypeOK
<1> DEFINE new == [[call[t] EXCEPT !.pc = "insert"] EXCEPT !.new = c]
<1>3. call[t] \in CallType /\ call \in [Callers -> CallType]
  BY DEF TypeOK
<1>4. /\ new \in CallType /\ new.pc = "insert" /\ new.new = c
      /\ new.url = call[t].url
  BY <1>1, <1>3 DEF CallType
<1>5. call' = [call EXCEPT ![t] = new]
  BY <1>3
<1> HIDE DEF new
<1>6. /\ call' \in [Callers -> CallType] /\ call'[t] = new
      /\ \A s \in Callers : s # t => call'[s] = call[s]
  BY <1>3, <1>4, <1>5
<1>7. CallsOK'
  BY <1>1, <1>4, <1>6 DEF CallsOK, TypeOK
<1> QED
  BY <1>1, <1>2, <1>4, <1>6, <1>7

LEMMA StartEffect ==
  ASSUME TypeOK, NEW t \in Callers, Start(t)
  PROVE  /\ ctx' \in [Ctxs -> CtxType] /\ undefined' \in BOOLEAN
         /\ \A c \in Ctxs : /\ ctx'[c].life = ctx[c].life
                            /\ ctx'[c].url = ctx[c].url
                            /\ ctx'[c].pause = ctx[c].pause
                            /\ ctx'[c].del = ctx[c].del
                            /\ ctx'[c].cancel = ctx[c].cancel
                            /\ \/ ctx'[c].thread = ctx[c].thread
                               \/ /\ c = call[t].new /\ ctx[c].life = "live"
                                  /\ ctx'[c].thread = "build"
<1>1. call[t].new \in Ctxs /\ ctx \in [Ctxs -> CtxType] /\ undefined \in BOOLEAN
  BY DEF Start, TypeOK, CallType
<1>2. CASE ctx[call[t].new].life = "live"
  <2>1. ctx' = [ctx EXCEPT ![call[t].new] = [ctx[call[t].new] EXCEPT !.thread = "build"]]
    BY <1>1, <1>2 DEF Start
  <2> QED
    BY <1>1, <1>2, <2>1 DEF Start, CtxType, Threads
<1>3. CASE ctx[call[t].new].life # "live"
  BY <1>1, <1>3 DEF Start
<1> QED
  BY <1>2, <1>3

\* A worker's thread before it ends.
Going == {"build", "loop", "emit"}
LEMMA WorkerEffect ==
  ASSUME TypeOK, NEW c \in Ctxs, WorkerStep(c)
  PROVE  /\ ctx' \in [Ctxs -> CtxType]
         /\ ctx[c].thread \in Going /\ ctx'[c].thread \in Going \cup {"done"}
         /\ ctx'[c].life = ctx[c].life /\ ctx'[c].url = ctx[c].url
         /\ ctx'[c].pause = ctx[c].pause /\ ctx'[c].del = ctx[c].del
         /\ ctx'[c].cancel = ctx[c].cancel
         /\ \A d \in Ctxs : d # c => ctx'[d] = ctx[d]
         /\ wish' \in [Urls -> {"none", "add", "resume", "pause", "delete"}]
<1>1. ctx \in [Ctxs -> CtxType] /\ ctx[c] \in CtxType
  BY DEF TypeOK
<1>2. ctx[c].thread \in Going
  BY DEF WorkerStep, WorkerBuild, WorkerLoop, WorkerEmit, Going
<1>3. \E th \in Going \cup {"done"}, st \in Statuses :
        ctx' = [ctx EXCEPT ![c] = [[ctx[c] EXCEPT !.thread = th] EXCEPT !.status = st]]
  <2>1. CASE WorkerBuild(c) \/ WorkerEmit(c)
    <3>1. ctx' = [ctx EXCEPT ![c] = [[ctx[c] EXCEPT !.thread = "loop"]
                                       EXCEPT !.status = ctx[c].status]]
      BY <1>1, <2>1 DEF WorkerBuild, WorkerEmit, CtxType
    <3> QED
      BY <1>1, <3>1 DEF CtxType, Going
  <2>2. CASE WorkerLoop(c)
    <3>1. CASE ctx[c].pause \/ ctx[c].cancel
      <4> DEFINE st == IF ctx[c].cancel THEN ctx[c].status ELSE "PAUSED"
      <4>1. st \in Statuses
        BY <1>1 DEF CtxType, Statuses
      <4>2. ctx' = [ctx EXCEPT ![c] = [[ctx[c] EXCEPT !.thread = "done"] EXCEPT !.status = st]]
        BY <1>1, <2>2, <3>1 DEF WorkerLoop, CtxType
      <4> QED
        BY <4>1, <4>2
    <3>2. ASSUME NEW next \in {"build", "emit"}, ctx' = [ctx EXCEPT ![c].thread = next]
          PROVE  ctx' = [ctx EXCEPT ![c] = [[ctx[c] EXCEPT !.thread = next]
                                              EXCEPT !.status = ctx[c].status]]
      BY <1>1, <3>2 DEF CtxType
    <3>3. ASSUME NEW s \in {"COMPLETED", "ERROR", "DOWNLOADING"},
                 ctx' = [ctx EXCEPT ![c].thread = "done", ![c].status = s]
          PROVE  ctx' = [ctx EXCEPT ![c] = [[ctx[c] EXCEPT !.thread = "done"]
                                              EXCEPT !.status = s]]
      BY <1>1, <3>3
    <3> QED
      BY ZenonT(30), <1>1, <2>2, <3>1, <3>2, <3>3 DEF WorkerLoop, CtxType, Going, Statuses
  <2> QED
    BY <2>1, <2>2 DEF WorkerStep
<1>4. PICK th \in Going \cup {"done"}, st \in Statuses :
        ctx' = [ctx EXCEPT ![c] = [[ctx[c] EXCEPT !.thread = th] EXCEPT !.status = st]]
  BY <1>3
<1>5. wish' \in [Urls -> {"none", "add", "resume", "pause", "delete"}]
  BY <1>1 DEF WorkerStep, WorkerBuild, WorkerLoop, WorkerEmit, TypeOK, CtxType
<1> QED
  BY <1>1, <1>2, <1>4, <1>5 DEF CtxType, Going, Threads

LEMMA TypeStep == TypeOK /\ [Next]_vars => TypeOK'
<1> SUFFICES ASSUME TypeOK, [Next]_vars PROVE TypeOK'
  OBVIOUS
<1> USE Constants
<1>1. ASSUME NEW t \in Users, NEW u \in Urls,
             AddTask(t, u) \/ ResumeTask(t, u) \/ PauseTask(t, u) \/ DeleteTask(t, u)
      PROVE  TypeOK'
  <2>1. CASE AddTask(t, u)
    <3>1. [Idle(u) EXCEPT !.pc = "lock", !.replace = TRUE] \in CallType
      BY DEF Idle, CallType
    <3>2. call' \in [Callers -> CallType]
      BY <2>1, <3>1 DEF AddTask, TypeOK
    <3>3. call'[t].pc = "lock" /\ \A s \in Callers : s # t => call'[s] = call[s]
      BY <2>1 DEF AddTask, TypeOK, Idle
    <3> QED
      BY <2>1, <3>2, <3>3 DEF AddTask, Calls, Wishes, TypeOK, tableVars, registryVars
  <2>2. CASE ResumeTask(t, u)
    BY <2>2 DEF ResumeTask, Calls, Wishes, TypeOK, tableVars
  <2>3. CASE PauseTask(t, u) \/ DeleteTask(t, u)
    <3>1. ctx' \in [Ctxs -> CtxType]
      BY <2>3, AskEffect
    <3> QED
      BY <2>3, <3>1 DEF PauseTask, DeleteTask, Calls, Wishes, TypeOK, registryVars
  <2> QED
    BY <1>1, <2>1, <2>2, <2>3
<1>2. ASSUME NEW u \in Urls, Dispatch(u) PROVE TypeOK'
  <2>1. [Idle(u) EXCEPT !.pc = "admit"] \in CallType
    BY DEF Idle, CallType
  <2>2. call' \in [Callers -> CallType]
    BY <1>2, <2>1 DEF Dispatch, TypeOK
  <2>3. call'[Scheduler].pc = "admit" /\ \A s \in Callers : s # Scheduler => call'[s] = call[s]
    BY <1>2 DEF Dispatch, TypeOK, Idle
  <2> QED
    BY <1>2, <2>2, <2>3 DEF Dispatch, Frame, TypeOK, tableVars, registryVars
<1>3. ASSUME NEW t \in Callers, CallStep(t) PROVE TypeOK'
  <2>0. ctx \in [Ctxs -> CtxType] /\ call \in [Callers -> CallType] /\ call[t] \in CallType
        /\ map \in [Urls -> Ctxs \cup {NoCtx}] /\ call[t].url \in Urls
    BY DEF TypeOK, CallType
  <2>1. CASE Lock(t)
    <3>1. CallsOK'
      BY <2>1, GoesEffect DEF Lock
    <3> QED
      BY <2>1, <3>1 DEF Lock, Frame, TypeOK, CallsOK, tableVars, registryVars
  <2>2. CASE Check(t)
    <3>1. CASE Goes(t, "create") /\ UNCHANGED <<map, mtx, queued, wish>>
      <4>1. CallsOK'
        BY <3>1, GoesEffect
      <4> QED
        BY <2>2, <3>1, <4>1 DEF Check, Frame, TypeOK, CallsOK
    <3>2. CASE Returns(t, "success") /\ UNCHANGED map
      BY <2>2, <3>2, ReturnsEffect, Constants DEF Check, Frame, TypeOK, CallsOK
    <3>3. CASE /\ map[call[t].url] # NoCtx /\ TakeOut(call[t].url)
               /\ call' = [call EXCEPT ![t].pc = "reclaim", ![t].stale = map[call[t].url]]
               /\ UNCHANGED <<mtx, queued, wish>>
      <4> DEFINE new == [[call[t] EXCEPT !.pc = "reclaim"] EXCEPT !.stale = map[call[t].url]]
      <4>1. new \in CallType /\ new.pc = "reclaim" /\ new.stale # NoCtx
        BY <2>0, <3>3 DEF CallType
      <4>2. call' = [call EXCEPT ![t] = new]
        BY <2>0, <3>3
      <4>3. map' \in [Urls -> Ctxs \cup {NoCtx}]
        BY <2>0, <3>3 DEF TakeOut
      <4> HIDE DEF new
      <4>4. CallsOK'
        BY <2>0, <4>1, <4>2 DEF CallsOK, TypeOK
      <4> QED
        BY <2>2, <3>3, <4>3, <4>4 DEF Check, Frame, TypeOK, CallsOK
    <3> QED
      BY <2>2, <3>1, <3>2, <3>3 DEF Check
  <2>3. CASE ReclaimStale(t)
    <3>1. call[t].stale \in Ctxs
      BY <2>3 DEF ReclaimStale, TypeOK, CallType
    <3>2. ctx' \in [Ctxs -> CtxType]
      BY <2>0, <2>3, <3>1, ReclaimEffect DEF ReclaimStale
    <3>3. CallsOK'
      BY <2>3, GoesEffect DEF ReclaimStale
    <3> QED
      BY <2>3, <3>2, <3>3 DEF ReclaimStale, Frame, TypeOK, CallsOK, registryVars
  <2>4. CASE Create(t)
    <3>1. CASE Returns(t, "failure") /\ UNCHANGED ctx
      BY <2>4, <3>1, ReturnsEffect DEF Create, Frame, TypeOK, CallsOK
    <3>2. ASSUME NEW c \in Unused, ctx' = [ctx EXCEPT ![c] = FreshCtx(call[t].url)],
                 call' = [call EXCEPT ![t].pc = "insert", ![t].new = c],
                 UNCHANGED <<mtx, queued, wish>>
          PROVE  TypeOK'
      <4>1. CallsOK' /\ ctx' \in [Ctxs -> CtxType]
        BY <3>2, CreateEffect
      <4> QED
        BY <2>4, <3>2, <4>1 DEF Create, Frame, TypeOK, CallsOK
    <3> QED
      BY <2>4, <3>1, <3>2 DEF Create
  <2>5. CASE Insert(t)
    <3>0. call[t].new \in Ctxs
      BY <2>5 DEF Insert, TypeOK, CallType
    <3>1. CASE map[call[t].url] = NoCtx
      <4>1. map' \in [Urls -> Ctxs \cup {NoCtx}]
        BY <2>0, <2>5, <3>0, <3>1 DEF Insert
      <4>2. PICK pc \in {"persist", "start"} : Goes(t, pc)
        BY <2>5, <3>1 DEF Insert
      <4>3. CallsOK'
        BY <2>5, <4>2, GoesEffect DEF Insert, TypeOK
      <4> QED
        BY <2>5, <3>1, <4>1, <4>3 DEF Insert, Frame, TypeOK, CallsOK
    <3>2. CASE map[call[t].url] # NoCtx
      <4>1. ctx' \in [Ctxs -> CtxType]
        BY <2>0, <2>5, <3>0, <3>2, ReclaimEffect DEF Insert
      <4> QED
        BY <2>5, <3>2, <4>1, ReturnsEffect DEF Insert, Frame, TypeOK, CallsOK
    <3> QED
      BY <3>1, <3>2
  <2>6. CASE Persist(t)
    <3>0. call[t].new # NoCtx
      BY <2>6 DEF Persist, TypeOK
    <3>1. CASE Goes(t, "start") /\ row' = row \cup {call[t].url}
               /\ UNCHANGED <<tableVars, mtx, queued, wish>>
      <4>1. CallsOK'
        BY <3>0, <3>1, GoesEffect
      <4> QED
        BY <2>0, <2>6, <3>1, <4>1 DEF Persist, Frame, TypeOK, CallsOK, tableVars
    <3>2. CASE /\ TakeOut(call[t].url)
               /\ IF map[call[t].url] = NoCtx THEN UNCHANGED ctx
                  ELSE Reclaim(map[call[t].url])
               /\ Returns(t, "failure") /\ UNCHANGED row
      <4>1. ctx' \in [Ctxs -> CtxType]
        BY <2>0, <3>2, ReclaimEffect
      <4>2. map' \in [Urls -> Ctxs \cup {NoCtx}]
        BY <2>0, <3>2 DEF TakeOut
      <4> QED
        BY <2>6, <3>2, <4>1, <4>2, ReturnsEffect DEF Persist, Frame, TypeOK, CallsOK
    <3> QED
      BY <2>6, <3>1, <3>2 DEF Persist
  <2>7. CASE Start(t)
    <3>1. ctx' \in [Ctxs -> CtxType] /\ undefined' \in BOOLEAN
      BY <2>7, StartEffect
    <3>2. call[t].new # NoCtx
      BY <2>7 DEF Start, TypeOK
    <3>3. CallsOK'
      BY <2>7, <3>2, GoesEffect DEF Start
    <3> QED
      BY <2>7, <3>1, <3>3 DEF Start, Frame, TypeOK, CallsOK, registryVars
  <2>8. CASE Log(t)
    BY <2>8, ReturnsEffect DEF Log, Frame, TypeOK, CallsOK, tableVars
  <2>9. CASE t = Scheduler /\ Admit
    <3>1. CASE Returns(t, "wait")
      BY <2>9, <3>1, ReturnsEffect DEF Admit, Frame, TypeOK, CallsOK, tableVars
    <3>2. CASE Goes(t, "check") /\ UNCHANGED <<mtx, queued, wish>>
      <4>1. CallsOK'
        BY <3>2, GoesEffect
      <4> QED
        BY <2>9, <3>2, <4>1 DEF Admit, Frame, TypeOK, CallsOK, tableVars
    <3> QED
      BY <2>9, <3>1, <3>2 DEF Admit
  <2> QED
    BY <1>3, <2>1, <2>2, <2>3, <2>4, <2>5, <2>6, <2>7, <2>8, <2>9 DEF CallStep
<1>4. ASSUME NEW c \in Ctxs, WorkerStep(c) PROVE TypeOK'
  <2>1. /\ ctx' \in [Ctxs -> CtxType]
        /\ wish' \in [Urls -> {"none", "add", "resume", "pause", "delete"}]
    BY <1>4, WorkerEffect
  <2> QED
    BY <1>4, <2>1 DEF WorkerStep, WorkerBuild, WorkerLoop, WorkerEmit, WorkerFrame,
         TypeOK, registryVars
<1>5. ASSUME SweepStep PROVE TypeOK'
  <2>1. CASE SweepCollect
    <3>1. PICK found \in SUBSET Urls :
            sweep' = [[sweep EXCEPT !.pc = "take"] EXCEPT !.todo = found]
      BY <2>1 DEF SweepCollect
    <3>2. sweep' \in SweepType /\ sweep'.pc = "take"
      BY <3>1 DEF TypeOK, SweepType
    <3> QED
      BY <2>1, <3>2 DEF SweepCollect, SweepFrame, TypeOK, tableVars, registryVars, historyVars
  <2>2. CASE SweepTake
    <3>1. sweep' \in SweepType /\ (sweep'.pc = "join" => sweep'.own # NoCtx)
      BY <2>2 DEF SweepTake, Sweeps, TypeOK, SweepType
    <3>2. map' \in [Urls -> Ctxs \cup {NoCtx}]
      BY <2>2 DEF SweepTake, TakeOut, TypeOK, SweepType
    <3> QED
      BY <2>2, <3>1, <3>2 DEF SweepTake, SweepFrame, TypeOK, registryVars, historyVars
  <2>3. CASE SweepJoin
    <3>1. ctx' \in [Ctxs -> CtxType]
      BY <2>3, ReclaimEffect DEF SweepJoin, Sweeps, TypeOK, SweepType
    <3> QED
      BY <2>3, <3>1 DEF SweepJoin, SweepFrame, TypeOK, SweepType, registryVars, historyVars
  <2> QED
    BY <1>5, <2>1, <2>2, <2>3 DEF SweepStep
<1>6. ASSUME DestroyCancel \/ DestroyStep PROVE TypeOK'
  <2>1. CASE DestroyCancel
    <3>1. ASSUME NEW r \in CtxType PROVE [r EXCEPT !.cancel = TRUE] \in CtxType
      BY DEF CtxType
    <3>2. ctx' \in [Ctxs -> CtxType]
      BY <2>1, <3>1 DEF DestroyCancel, TypeOK
    <3> QED
      BY <2>1, <3>2 DEF DestroyCancel, DestroyFrame, TypeOK, registryVars, historyVars
  <2>2. CASE DestroyLock
    BY <2>2 DEF DestroyLock, DestroyFrame, TypeOK, tableVars, registryVars, historyVars
  <2>3. CASE DestroyJoin
    <3>1. ASSUME NEW r \in CtxType
          PROVE  [r EXCEPT !.life = "freed", !.thread = "joined"] \in CtxType
      BY DEF CtxType, Threads
    <3>2. ctx' = [c \in Ctxs |->
                    IF InTable(c)
                    THEN [ctx[c] EXCEPT !.life = "freed", !.thread = "joined"]
                    ELSE ctx[c]]
      BY <2>3 DEF DestroyJoin
    <3>3. ctx' \in [Ctxs -> CtxType]
      BY <3>1, <3>2 DEF TypeOK
    <3>4. map' \in [Urls -> Ctxs \cup {NoCtx}] /\ destroy' = "over"
      BY <2>3 DEF DestroyJoin
    <3> QED
      BY <2>3, <3>3, <3>4 DEF DestroyJoin, DestroyFrame, TypeOK, registryVars, historyVars
  <2> QED
    BY <1>6, <2>1, <2>2, <2>3 DEF DestroyStep
<1>7. CASE UNCHANGED vars
  BY <1>7 DEF vars, tableVars, registryVars, historyVars, TypeOK
<1> QED
  BY <1>1, <1>2, <1>3, <1>4, <1>5, <1>6, <1>7 DEF Next

-----------------------------------------------------------------------------
(* Who runs, and under which lock.                                         *)

\* A step of one caller that holds mtx, or takes it while nobody does.
LEMMA CallerStep ==
  ASSUME TypeOK, ThreadInv, NEW t \in Callers,
         Inside(t) \/ mtx = Nobody, destroy = "no",
         \A s \in Callers : s # t => call'[s] = call[s],
         Inside(t)' => mtx' = t,
         UNCHANGED <<sweep, destroy>>,
         call'[t].pc \in {"reclaim", "create", "insert"} => map'[call'[t].url] = NoCtx,
         call'[t].pc = "persist" => map'[call'[t].url] \in {NoCtx, call'[t].new},
         call'[t].pc \in {"insert", "persist", "start"}
           => ctx'[call'[t].new].thread = "none",
         LifeInv'
  PROVE  ThreadInv'
<1>1. \A s \in Callers : s # t => ~Inside(s) /\ ~Inside(s)'
  BY Constants DEF ThreadInv, MutexInv, Inside
<1>2. MutexInv'
  BY <1>1 DEF MutexInv
<1>3. AbsentInv' /\ EntryInv' /\ FreshInv'
  BY <1>1 DEF AbsentInv, EntryInv, FreshInv, Inside
<1>4. QuietInv'
  BY DEF QuietInv
<1> QED
  BY <1>2, <1>3, <1>4 DEF ThreadInv

\* A step that leaves the callers alone, takes at most entries out of the
\* table and starts no thread that a caller has not started.
LEMMA OtherStep ==
  ASSUME TypeOK, ThreadInv, UNCHANGED <<call, mtx>>,
         \A u \in Urls : map'[u] \in {map[u], NoCtx},
         \A c \in Ctxs : ctx[c].thread = "none" => ctx'[c].thread = "none",
         LifeInv', QuietInv'
  PROVE  ThreadInv'
<1>1. \A t \in Callers : call[t].url \in Urls
  BY DEF TypeOK, CallType
<1>2. \A t \in Callers : call[t].pc \in {"insert", "persist", "start"} => call[t].new \in Ctxs
  BY DEF TypeOK, CallType
<1>3. MutexInv'
  BY DEF ThreadInv, MutexInv, Inside
<1>4. AbsentInv' /\ EntryInv'
  BY <1>1 DEF ThreadInv, AbsentInv, EntryInv
<1>5. FreshInv'
  BY <1>2 DEF ThreadInv, FreshInv
<1> QED
  BY <1>3, <1>4, <1>5 DEF ThreadInv

\* Freeing what may be joined, or what has no thread, keeps LifeInv.
LEMMA ReclaimKeepsLife ==
  ASSUME TypeOK, LifeInv, NEW c \in Ctxs, Joinable(c), Reclaim(c)
  PROVE  LifeInv' /\ \A d \in Ctxs : ctx[d].thread = "none" => ctx'[d].thread = "none"
<1>1. ctx \in [Ctxs -> CtxType]
  BY DEF TypeOK
<1>2. /\ ctx'[c].life = "freed"
      /\ ctx'[c].thread = IF ctx[c].thread = "done" THEN "joined" ELSE ctx[c].thread
      /\ \A d \in Ctxs : d # c => ctx'[d] = ctx[d]
  BY <1>1, ReclaimEffect
<1> QED
  BY <1>2 DEF LifeInv, Joinable

LEMMA ThreadStep == TypeOK /\ ThreadInv /\ [Next]_vars => ThreadInv'
<1> SUFFICES ASSUME TypeOK, ThreadInv, [Next]_vars PROVE ThreadInv'
  OBVIOUS
<1>0. TypeOK'
  BY TypeStep
<1>1. ASSUME NEW t \in Users, NEW u \in Urls, AddTask(t, u) PROVE ThreadInv'
  <2>1. /\ call'[t].pc = "lock" /\ call[t].pc = "idle" /\ destroy = "no"
        /\ \A s \in Callers : s # t => call'[s] = call[s]
        /\ UNCHANGED <<tableVars, mtx, sweep, destroy>>
    BY <1>1, Constants DEF AddTask, Calls, TypeOK, Idle
  <2>2. MutexInv' /\ AbsentInv' /\ EntryInv' /\ FreshInv'
    BY <2>1, Constants
       DEF ThreadInv, MutexInv, AbsentInv, EntryInv, FreshInv, Inside, tableVars
  <2> QED
    BY <2>1, <2>2 DEF ThreadInv, LifeInv, QuietInv, tableVars
<1>2. ASSUME NEW t \in Users, NEW u \in Urls, ResumeTask(t, u) PROVE ThreadInv'
  BY <1>2, OtherStep DEF ResumeTask, tableVars, ThreadInv, LifeInv, QuietInv
<1>3. ASSUME NEW t \in Users, NEW u \in Urls, PauseTask(t, u) \/ DeleteTask(t, u)
      PROVE  ThreadInv'
  <2>1. \A c \in Ctxs : /\ ctx'[c].life = ctx[c].life
                        /\ ctx'[c].thread = ctx[c].thread
    BY <1>3, AskEffect
  <2>2. LifeInv' /\ QuietInv'
    BY <1>3, <2>1 DEF ThreadInv, LifeInv, QuietInv, PauseTask, DeleteTask
  <2> QED
    BY <1>3, <2>1, <2>2, OtherStep DEF PauseTask, DeleteTask
<1>4. ASSUME NEW u \in Urls, Dispatch(u) PROVE ThreadInv'
  <2>1. /\ call'[Scheduler].pc = "admit"
        /\ \A s \in Callers : s # Scheduler => call'[s] = call[s]
        /\ UNCHANGED <<tableVars, sweep, destroy>>
        /\ mtx = Nobody /\ mtx' = Scheduler /\ destroy = "no"
    BY <1>4, Constants DEF Dispatch, Frame, TypeOK, Idle
  <2>2. LifeInv'
    BY <2>1 DEF ThreadInv, LifeInv, tableVars
  <2> QED
    BY <2>1, <2>2, CallerStep, Constants
<1>5. ASSUME NEW t \in Callers, CallStep(t) PROVE ThreadInv'
  <2>0. /\ call[t].pc # "idle" /\ UNCHANGED <<sweep, destroy>> /\ destroy = "no"
        /\ Inside(t) => mtx = t
    BY <1>5 DEF CallStep, Lock, Check, ReclaimStale, Create, Insert, Persist, Start,
         Log, Admit, Frame, ThreadInv, QuietInv, MutexInv
  <2>1. CASE Lock(t)
    <3>1. /\ call'[t].pc = "check" /\ mtx = Nobody /\ mtx' = t
          /\ \A s \in Callers : s # t => call'[s] = call[s]
      BY <2>1, GoesEffect DEF Lock
    <3>2. LifeInv'
      BY <2>1 DEF Lock, tableVars, ThreadInv, LifeInv
    <3> QED
      BY <2>0, <3>1, <3>2, CallerStep
  <2>2. CASE Check(t)
    <3>1. Inside(t) /\ LifeInv'
      BY <2>2 DEF Check, Inside, ThreadInv, LifeInv
    <3>2. CASE map[call[t].url] = NoCtx
      <4>1. Goes(t, "create") /\ UNCHANGED <<map, mtx, queued, wish>>
        BY <2>2, <3>2 DEF Check
      <4>2. /\ call'[t].pc = "create" /\ call'[t].url = call[t].url
            /\ \A s \in Callers : s # t => call'[s] = call[s]
        BY <4>1, GoesEffect
      <4> QED
        BY <2>0, <3>1, <3>2, <4>1, <4>2, CallerStep
    <3>3. CASE Returns(t, "success")
      BY <2>0, <3>1, <3>3, ReturnsEffect, CallerStep DEF Inside
    <3>4. CASE /\ TakeOut(call[t].url)
               /\ call' = [call EXCEPT ![t].pc = "reclaim", ![t].stale = map[call[t].url]]
               /\ UNCHANGED <<mtx, queued, wish>>
      <4>1. /\ call'[t].pc = "reclaim" /\ call'[t].url = call[t].url
            /\ \A s \in Callers : s # t => call'[s] = call[s]
        BY <3>4 DEF TypeOK, CallType
      <4>2. map'[call[t].url] = NoCtx
        BY <3>4 DEF TakeOut, TypeOK, CallType
      <4> QED
        BY <2>0, <3>1, <3>4, <4>1, <4>2, CallerStep
    <3> QED
      BY <2>2, <3>2, <3>3, <3>4 DEF Check
  <2>3. CASE ReclaimStale(t)
    <3>1. call[t].stale \in Ctxs /\ Inside(t) /\ map[call[t].url] = NoCtx
      BY <2>3 DEF ReclaimStale, TypeOK, CallType, Inside, ThreadInv, AbsentInv
    <3>2. LifeInv'
      BY <2>3, <3>1, ReclaimKeepsLife DEF ReclaimStale, ThreadInv
    <3>3. /\ call'[t].pc = "create" /\ call'[t].url = call[t].url
          /\ \A s \in Callers : s # t => call'[s] = call[s]
      BY <2>3, GoesEffect DEF ReclaimStale
    <3>4. UNCHANGED <<map, mtx>>
      BY <2>3 DEF ReclaimStale
    <3> QED
      BY <2>0, <3>1, <3>2, <3>3, <3>4, CallerStep
  <2>4. CASE Create(t)
    <3>1. Inside(t) /\ map[call[t].url] = NoCtx /\ UNCHANGED map /\ call[t].url \in Urls
      BY <2>4 DEF Create, Inside, ThreadInv, AbsentInv, TypeOK, CallType
    <3>2. CASE Returns(t, "failure") /\ UNCHANGED ctx
      <4>1. LifeInv'
        BY <3>2 DEF ThreadInv, LifeInv
      <4> QED
        BY <2>0, <3>1, <3>2, <4>1, ReturnsEffect, CallerStep DEF Inside
    <3>3. ASSUME NEW c \in Unused, ctx' = [ctx EXCEPT ![c] = FreshCtx(call[t].url)],
                 call' = [call EXCEPT ![t].pc = "insert", ![t].new = c],
                 UNCHANGED <<mtx, queued, wish>>
          PROVE  ThreadInv'
      <4>1. /\ c \in Ctxs /\ ctx'[c] = FreshCtx(call[t].url)
            /\ \A d \in Ctxs : d # c => ctx'[d] = ctx[d]
            /\ call'[t].pc = "insert" /\ call'[t].new = c /\ call'[t].url = call[t].url
            /\ \A s \in Callers : s # t => call'[s] = call[s]
        BY <3>3, CreateEffect
      <4>2. ctx'[c].life = "live" /\ ctx'[c].thread = "none"
        BY <3>1, <4>1, FreshCtxType
      <4>3. LifeInv'
        BY <4>1, <4>2 DEF ThreadInv, LifeInv
      <4> QED
        BY <2>0, <3>1, <3>3, <4>1, <4>2, <4>3, CallerStep
    <3> QED
      BY <2>4, <3>2, <3>3 DEF Create
  <2>5. CASE Insert(t)
    <3>1. /\ Inside(t) /\ map[call[t].url] = NoCtx /\ call[t].new \in Ctxs
          /\ ctx[call[t].new].thread = "none" /\ call[t].new # NoCtx
      BY <2>5 DEF Insert, Inside, ThreadInv, AbsentInv, FreshInv, TypeOK, CallType
    <3>2. PICK pc \in {"persist", "start"} : Goes(t, pc)
      BY <2>5, <3>1 DEF Insert
    <3>3. /\ map' = [map EXCEPT ![call[t].url] = call[t].new] /\ UNCHANGED <<ctx, mtx>>
      BY <2>5, <3>1 DEF Insert
    <3>4. /\ call'[t].pc = pc /\ call'[t].new = call[t].new /\ call'[t].url = call[t].url
          /\ \A s \in Callers : s # t => call'[s] = call[s]
      BY <3>1, <3>2, GoesEffect
    <3>5. map'[call[t].url] = call[t].new
      BY <3>3 DEF TypeOK, CallType
    <3>6. LifeInv'
      BY <3>3 DEF ThreadInv, LifeInv
    <3> QED
      BY <2>0, <3>1, <3>3, <3>4, <3>5, <3>6, CallerStep
  <2>6. CASE Persist(t)
    <3>1. /\ Inside(t) /\ map[call[t].url] \in {NoCtx, call[t].new} /\ call[t].new \in Ctxs
          /\ ctx[call[t].new].thread = "none" /\ call[t].new # NoCtx
      BY <2>6 DEF Persist, Inside, ThreadInv, EntryInv, FreshInv, TypeOK, CallType
    <3>2. CASE Goes(t, "start") /\ UNCHANGED <<tableVars, mtx>>
      <4>1. /\ call'[t].pc = "start" /\ call'[t].new = call[t].new
            /\ \A s \in Callers : s # t => call'[s] = call[s]
        BY <3>1, <3>2, GoesEffect
      <4>2. LifeInv'
        BY <3>2 DEF ThreadInv, LifeInv, tableVars
      <4> QED
        BY <2>0, <3>1, <3>2, <4>1, <4>2, CallerStep DEF tableVars
    <3>3. CASE /\ IF map[call[t].url] = NoCtx THEN UNCHANGED ctx
                  ELSE Reclaim(map[call[t].url])
               /\ Returns(t, "failure")
      <4>1. LifeInv'
        <5>1. CASE map[call[t].url] = NoCtx
          BY <3>3, <5>1 DEF ThreadInv, LifeInv
        <5>2. CASE map[call[t].url] # NoCtx
          BY <3>1, <3>3, <5>2, ReclaimKeepsLife DEF ThreadInv, Joinable
        <5> QED
          BY <5>1, <5>2
      <4> QED
        BY <2>0, <3>1, <3>3, <4>1, ReturnsEffect, CallerStep DEF Inside
    <3> QED
      BY <2>6, <3>2, <3>3 DEF Persist
  <2>7. CASE Start(t)
    <3>1. call[t].new # NoCtx /\ call[t].new \in Ctxs /\ Inside(t) /\ UNCHANGED mtx
      BY <2>7 DEF Start, Inside, TypeOK, CallType
    <3>2. call'[t].pc = "log" /\ \A s \in Callers : s # t => call'[s] = call[s]
      BY <2>7, <3>1, GoesEffect DEF Start
    <3>3. LifeInv'
      BY <2>7, StartEffect DEF ThreadInv, LifeInv
    <3> QED
      BY <2>0, <3>1, <3>2, <3>3, CallerStep
  <2>8. CASE Log(t)
    <3>1. Inside(t) /\ LifeInv' /\ Returns(t, "success")
      BY <2>8 DEF Log, Inside, ThreadInv, LifeInv, tableVars
    <3> QED
      BY <2>0, <3>1, ReturnsEffect, CallerStep DEF Inside
  <2>9. CASE t = Scheduler /\ Admit
    <3>1. Inside(t) /\ LifeInv'
      BY <2>9 DEF Admit, Inside, ThreadInv, LifeInv, tableVars
    <3>2. CASE Returns(t, "wait")
      BY <2>0, <3>1, <3>2, ReturnsEffect, CallerStep DEF Inside
    <3>3. CASE Goes(t, "check") /\ UNCHANGED <<mtx, queued, wish>>
      <4>1. call'[t].pc = "check" /\ \A s \in Callers : s # t => call'[s] = call[s]
        BY <3>3, GoesEffect
      <4> QED
        BY <2>0, <3>1, <3>3, <4>1, CallerStep
    <3> QED
      BY <2>9, <3>2, <3>3 DEF Admit
  <2> QED
    BY <1>5, <2>1, <2>2, <2>3, <2>4, <2>5, <2>6, <2>7, <2>8, <2>9 DEF CallStep
<1>6. ASSUME NEW c \in Ctxs, WorkerStep(c) PROVE ThreadInv'
  <2>1. /\ ctx[c].thread \in Going /\ ctx'[c].thread \in Going \cup {"done"}
        /\ ctx'[c].life = ctx[c].life
        /\ \A d \in Ctxs : d # c => ctx'[d] = ctx[d]
    BY <1>6, WorkerEffect
  <2>2. UNCHANGED <<map, mtx, call, sweep, destroy>>
    BY <1>6 DEF WorkerStep, WorkerBuild, WorkerLoop, WorkerEmit, WorkerFrame
  <2>3. LifeInv' /\ QuietInv'
    BY <2>1, <2>2 DEF ThreadInv, LifeInv, QuietInv, Going
  <2> QED
    BY <2>1, <2>2, <2>3, OtherStep DEF Going
<1>7. ASSUME SweepStep PROVE ThreadInv'
  <2>0. UNCHANGED <<mtx, call, destroy>>
    BY <1>7 DEF SweepStep, SweepCollect, SweepTake, SweepJoin, SweepFrame
  <2>1. CASE SweepCollect
    <3>1. LifeInv' /\ QuietInv' /\ UNCHANGED tableVars
      BY <2>1 DEF SweepCollect, ThreadInv, LifeInv, QuietInv, tableVars, SweepFrame
    <3> QED
      BY <2>0, <3>1, OtherStep DEF tableVars
  <2>2. CASE SweepTake
    <3>1. LifeInv' /\ QuietInv' /\ UNCHANGED ctx
      BY <2>2 DEF SweepTake, Sweeps, SweepFrame, ThreadInv, LifeInv, QuietInv
    <3>2. \A u \in Urls : map'[u] \in {map[u], NoCtx}
      BY <2>2 DEF SweepTake, TakeOut, TypeOK
    <3> QED
      BY <2>0, <3>1, <3>2, OtherStep
  <2>3. CASE SweepJoin
    <3>1. sweep.own \in Ctxs
      BY <2>3 DEF SweepJoin, Sweeps, TypeOK, SweepType
    <3>2. /\ LifeInv'
          /\ \A d \in Ctxs : ctx[d].thread = "none" => ctx'[d].thread = "none"
      BY <2>3, <3>1, ReclaimKeepsLife DEF SweepJoin, ThreadInv
    <3>3. QuietInv' /\ UNCHANGED map
      BY <2>3 DEF SweepJoin, Sweeps, SweepFrame, ThreadInv, QuietInv
    <3> QED
      BY <2>0, <3>2, <3>3, OtherStep
  <2> QED
    BY <1>7, <2>1, <2>2, <2>3 DEF SweepStep
<1>8. ASSUME DestroyCancel \/ DestroyStep PROVE ThreadInv'
  <2>1. /\ sweep.pc = "idle" /\ UNCHANGED <<sweep, call, mtx>>
        /\ \A t \in Callers : call[t].pc = "idle"
    BY <1>8 DEF DestroyCancel, DestroyStep, DestroyLock, DestroyJoin, DestroyFrame,
         ThreadInv, QuietInv
  <2>2. LifeInv'
    <3>1. CASE DestroyCancel
      <4>1. \A c \in Ctxs : /\ ctx'[c].life = ctx[c].life
                            /\ ctx'[c].thread = ctx[c].thread
        BY <3>1 DEF DestroyCancel, TypeOK, CtxType
      <4> QED
        BY <4>1 DEF ThreadInv, LifeInv
    <3>2. CASE DestroyLock
      BY <3>2 DEF DestroyLock, tableVars, ThreadInv, LifeInv
    <3>3. CASE DestroyJoin
      <4>1. \A c \in Ctxs : \/ ctx'[c] = ctx[c]
                            \/ ctx'[c].life = "freed" /\ ctx'[c].thread = "joined"
        BY <3>3 DEF DestroyJoin, TypeOK, CtxType
      <4> QED
        BY <4>1 DEF ThreadInv, LifeInv
    <3> QED
      BY <1>8, <3>1, <3>2, <3>3 DEF DestroyStep
  <2> QED
    BY <2>1, <2>2 DEF ThreadInv, MutexInv, AbsentInv, EntryInv, FreshInv, QuietInv, Inside
<1>9. CASE UNCHANGED vars
  BY <1>9 DEF vars, tableVars, ThreadInv, MutexInv, AbsentInv, EntryInv, FreshInv,
       LifeInv, QuietInv, Inside
<1> QED
  BY <1>1, <1>2, <1>3, <1>4, <1>5, <1>6, <1>7, <1>8, <1>9 DEF Next

-----------------------------------------------------------------------------
(* Who owns a context.                                                     *)

\* A step that changes neither the table nor whose a context is, and after
\* which nobody holds one who did not before.
LEMMA OwnerFrame ==
  ASSUME TypeOK, OwnerInv, UNCHANGED map,
         \A c \in Ctxs : ctx'[c].life = ctx[c].life /\ ctx'[c].url = ctx[c].url,
         sweep'.pc = "join" => UNCHANGED sweep,
         \A t \in Callers :
           call'[t].pc \in {"reclaim", "insert"} => call'[t] = call[t]
  PROVE  OwnerInv'
<1>1. /\ \A u \in Urls : map[u] # NoCtx => map[u] \in Ctxs
      /\ sweep.pc = "join" => sweep.own \in Ctxs
      /\ \A t \in Callers :
           /\ call[t].pc = "reclaim" => call[t].stale \in Ctxs
           /\ call[t].pc = "insert" => call[t].new \in Ctxs
  BY DEF TypeOK, CallType, SweepType
<1>2. TableInv' /\ SweepInv'
  BY <1>1 DEF OwnerInv, TableInv, SweepInv, InTable
<1>3. StaleInv' /\ NewInv'
  BY <1>1 DEF OwnerInv, StaleInv, NewInv, InTable
<1> QED
  BY <1>2, <1>3 DEF OwnerInv

\* Taking an entry out of the table, and perhaps touching its context.
LEMMA TakeOutFrame ==
  ASSUME TypeOK, TableInv, SweepInv, NEW u \in Urls, TakeOut(u), UNCHANGED sweep,
         \A d \in Ctxs : d # map[u] => ctx'[d] = ctx[d]
  PROVE  TableInv' /\ SweepInv'
<1>1. map'[u] = NoCtx /\ \A v \in Urls : v # u => map'[v] = map[v]
  BY DEF TakeOut, TypeOK
<1>2. \A v \in Urls : map[v] # NoCtx => map[v] \in Ctxs
  BY DEF TypeOK
<1>3. \A v \in Urls : map'[v] # NoCtx =>
        v # u /\ map'[v] = map[v] /\ map[v] \in Ctxs /\ map[v] # map[u]
  <2> SUFFICES ASSUME NEW v \in Urls, map'[v] # NoCtx
               PROVE  v # u /\ map'[v] = map[v] /\ map[v] \in Ctxs /\ map[v] # map[u]
    OBVIOUS
  <2>1. v # u /\ map'[v] = map[v] /\ map[v] \in Ctxs
    BY <1>1, <1>2
  <2>2. ctx[map[v]].url = v /\ (map[u] # NoCtx => ctx[map[u]].url = u)
    BY <1>1, <2>1 DEF TableInv
  <2>3. map[v] # NoCtx
    BY <1>1, <2>1
  <2> QED
    BY <2>1, <2>2, <2>3
<1>4. TableInv'
  BY <1>3 DEF TableInv
<1>5. SweepInv'
  <2> SUFFICES ASSUME sweep.pc = "join"
               PROVE  ctx'[sweep.own].life = "live" /\ ~ \E v \in Urls : map'[v] = sweep.own
    BY DEF SweepInv, InTable
  <2>1. sweep.own \in Ctxs /\ sweep.own # NoCtx
    BY Constants DEF TypeOK, SweepType
  <2>2. ctx[sweep.own].life = "live" /\ \A v \in Urls : map[v] # sweep.own
    BY DEF SweepInv, InTable
  <2> QED
    BY <1>1, <2>1, <2>2
<1> QED
  BY <1>4, <1>5

\* While a caller holds mtx, the others own nothing.
LEMMA Alone ==
  ASSUME ThreadInv, NEW t \in Callers, Inside(t)
  PROVE  \A s \in Callers : s # t => call[s].pc \notin {"reclaim", "insert"}
BY DEF ThreadInv, MutexInv, Inside

LEMMA OwnerStep == TypeOK /\ ThreadInv /\ OwnerInv /\ [Next]_vars => OwnerInv'
<1> SUFFICES ASSUME TypeOK, ThreadInv, OwnerInv, [Next]_vars PROVE OwnerInv'
  OBVIOUS
<1>0. /\ \A u \in Urls : map[u] # NoCtx => map[u] \in Ctxs
      /\ sweep.pc = "join" => sweep.own \in Ctxs
      /\ \A t \in Callers :
           /\ call[t].url \in Urls
           /\ call[t].pc = "reclaim" => call[t].stale \in Ctxs
           /\ call[t].pc \in {"insert", "persist", "start", "log"} => call[t].new \in Ctxs
      /\ ctx \in [Ctxs -> CtxType]
  BY DEF TypeOK, CallType, SweepType
<1>1. ASSUME NEW t \in Users, NEW u \in Urls, AddTask(t, u) PROVE OwnerInv'
  <2>1. /\ call'[t].pc = "lock" /\ \A s \in Callers : s # t => call'[s] = call[s]
        /\ UNCHANGED <<tableVars, sweep>>
    BY <1>1, Constants DEF AddTask, TypeOK, Idle
  <2> QED
    BY <2>1, OwnerFrame DEF tableVars
<1>2. ASSUME NEW t \in Users, NEW u \in Urls, ResumeTask(t, u) PROVE OwnerInv'
  BY <1>2, OwnerFrame DEF ResumeTask, tableVars
<1>3. ASSUME NEW t \in Users, NEW u \in Urls, PauseTask(t, u) \/ DeleteTask(t, u)
      PROVE  OwnerInv'
  <2>1. \A c \in Ctxs : ctx'[c].life = ctx[c].life /\ ctx'[c].url = ctx[c].url
    BY <1>3, AskEffect
  <2> QED
    BY <1>3, <2>1, OwnerFrame DEF PauseTask, DeleteTask
<1>4. ASSUME NEW u \in Urls, Dispatch(u) PROVE OwnerInv'
  <2>1. /\ call'[Scheduler].pc = "admit"
        /\ \A s \in Callers : s # Scheduler => call'[s] = call[s]
        /\ UNCHANGED <<tableVars, sweep>>
    BY <1>4, Constants DEF Dispatch, Frame, TypeOK, Idle
  <2> QED
    BY <2>1, OwnerFrame DEF tableVars
<1>5. ASSUME NEW t \in Callers, CallStep(t) PROVE OwnerInv'
  <2>0. UNCHANGED sweep
    BY <1>5 DEF CallStep, Lock, Check, ReclaimStale, Create, Insert, Persist, Start,
         Log, Admit, Frame
  <2>1. CASE Lock(t)
    <3>1. call'[t].pc = "check" /\ \A s \in Callers : s # t => call'[s] = call[s]
      BY <2>1, GoesEffect DEF Lock
    <3> QED
      BY <2>0, <2>1, <3>1, OwnerFrame DEF Lock, tableVars
  <2>2. CASE Check(t)
    <3>0. Inside(t) /\ UNCHANGED ctx
      BY <2>2 DEF Check, Inside
    <3>1. CASE Goes(t, "create") /\ UNCHANGED <<map, mtx, queued, wish>>
      <4>1. call'[t].pc = "create" /\ \A s \in Callers : s # t => call'[s] = call[s]
        BY <3>1, GoesEffect
      <4> QED
        BY <2>0, <3>0, <3>1, <4>1, OwnerFrame
    <3>2. CASE Returns(t, "success") /\ UNCHANGED map
      BY <2>0, <3>0, <3>2, ReturnsEffect, OwnerFrame
    <3>3. CASE /\ map[call[t].url] # NoCtx /\ TakeOut(call[t].url)
               /\ call' = [call EXCEPT ![t].pc = "reclaim", ![t].stale = map[call[t].url]]
      <4> DEFINE c == map[call[t].url]
      <4>1. /\ c \in Ctxs /\ ctx[c].life = "live" /\ ctx[c].url = call[t].url
            /\ sweep.pc = "join" => sweep.own # c
        BY <1>0, <3>3 DEF OwnerInv, TableInv, SweepInv, InTable
      <4>2. /\ call'[t].pc = "reclaim" /\ call'[t].stale = c
            /\ \A s \in Callers : s # t => call'[s].pc \notin {"reclaim", "insert"}
        BY <3>0, <3>3, Alone DEF TypeOK, CallType
      <4>3. /\ map'[call[t].url] = NoCtx
            /\ \A u \in Urls : u # call[t].url => map'[u] = map[u]
        BY <1>0, <3>3 DEF TakeOut, TypeOK
      <4>4. \A u \in Urls : u # call[t].url => map[u] # c
        <5>1. \A u \in Urls : map[u] # NoCtx => ctx[map[u]].url = u
          BY DEF OwnerInv, TableInv
        <5> QED
          BY <4>1, <5>1, Constants
      <4>5. TableInv' /\ SweepInv'
        BY <1>0, <2>0, <3>0, <3>3, TakeOutFrame DEF OwnerInv
      <4> HIDE DEF c
      <4>6. c # NoCtx
        BY <4>1, Constants
      <4>7. StaleInv' /\ NewInv'
        BY <2>0, <3>0, <4>1, <4>2, <4>3, <4>4, <4>6 DEF StaleInv, NewInv, InTable
      <4> QED
        BY <4>5, <4>7 DEF OwnerInv
    <3> QED
      BY <2>2, <3>1, <3>2, <3>3 DEF Check
  <2>3. CASE ReclaimStale(t)
    <3>1. Inside(t) /\ call[t].pc = "reclaim" /\ UNCHANGED map
      BY <2>3 DEF ReclaimStale, Inside
    <3>2. /\ call'[t].pc = "create" /\ \A s \in Callers : s # t => call'[s] = call[s]
      BY <2>3, GoesEffect DEF ReclaimStale
    <3>3. /\ call[t].stale \in Ctxs /\ ~InTable(call[t].stale)
          /\ sweep.pc = "join" => sweep.own # call[t].stale
          /\ \A d \in Ctxs : d # call[t].stale => ctx'[d] = ctx[d]
      BY <1>0, <2>3, <3>1, ReclaimEffect DEF ReclaimStale, OwnerInv, StaleInv
    <3>4. TableInv' /\ SweepInv'
      BY <1>0, <2>0, <3>1, <3>3 DEF OwnerInv, TableInv, SweepInv, InTable
    <3>5. StaleInv' /\ NewInv'
      BY <3>1, <3>2, Alone DEF StaleInv, NewInv
    <3> QED
      BY <3>4, <3>5 DEF OwnerInv
  <2>4. CASE Create(t)
    <3>0. Inside(t) /\ UNCHANGED map
      BY <2>4 DEF Create, Inside
    <3>1. CASE Returns(t, "failure") /\ UNCHANGED ctx
      BY <2>0, <3>0, <3>1, ReturnsEffect, OwnerFrame
    <3>2. ASSUME NEW c \in Unused, ctx' = [ctx EXCEPT ![c] = FreshCtx(call[t].url)],
                 call' = [call EXCEPT ![t].pc = "insert", ![t].new = c]
          PROVE  OwnerInv'
      <4>1. /\ c \in Ctxs /\ ctx[c].life = "unused" /\ c # NoCtx
            /\ ctx'[c] = FreshCtx(call[t].url)
            /\ \A d \in Ctxs : d # c => ctx'[d] = ctx[d]
            /\ call'[t].pc = "insert" /\ call'[t].new = c /\ call'[t].url = call[t].url
            /\ \A s \in Callers : s # t => call'[s] = call[s]
        BY <3>2, CreateEffect
      <4>2. ctx'[c].life = "live" /\ ctx'[c].url = call[t].url
        BY <1>0, <4>1, FreshCtxType
      <4>3. ~InTable(c) /\ (sweep.pc = "join" => sweep.own # c)
        BY <1>0, <4>1 DEF OwnerInv, TableInv, SweepInv, InTable
      <4>4. TableInv' /\ SweepInv'
        BY <1>0, <2>0, <3>0, <4>1, <4>3 DEF OwnerInv, TableInv, SweepInv, InTable
      <4>5. StaleInv' /\ NewInv'
        BY <2>0, <3>0, <4>1, <4>2, <4>3, Alone DEF StaleInv, NewInv, InTable
      <4> QED
        BY <4>4, <4>5 DEF OwnerInv
    <3> QED
      BY <2>4, <3>1, <3>2 DEF Create
  <2>5. CASE Insert(t)
    <3> DEFINE c == call[t].new
               u == call[t].url
    <3>1. /\ Inside(t) /\ call[t].pc = "insert" /\ map[u] = NoCtx /\ u \in Urls /\ c \in Ctxs
      BY <1>0, <2>5 DEF Insert, Inside, ThreadInv, AbsentInv
    <3>2. /\ map' = [map EXCEPT ![u] = c] /\ UNCHANGED ctx
          /\ \E pc \in {"persist", "start"} : Goes(t, pc)
      BY <2>5, <3>1 DEF Insert
    <3>3. /\ call'[t].pc \in {"persist", "start"}
          /\ \A s \in Callers : s # t => call'[s] = call[s]
      BY <3>1, <3>2, GoesEffect, Constants
    <3>4. /\ ctx[c].life = "live" /\ ctx[c].url = u /\ ~InTable(c)
          /\ sweep.pc = "join" => sweep.own # c
      BY <3>1 DEF OwnerInv, NewInv
    <3>5. map'[u] = c /\ \A v \in Urls : v # u => map'[v] = map[v]
      BY <3>1, <3>2 DEF TypeOK
    <3> HIDE DEF c, u
    <3>6. TableInv' /\ SweepInv'
      BY <2>0, <3>2, <3>4, <3>5 DEF OwnerInv, TableInv, SweepInv, InTable
    <3>7. StaleInv' /\ NewInv'
      BY <3>1, <3>3, Alone DEF StaleInv, NewInv
    <3> QED
      BY <3>6, <3>7 DEF OwnerInv
  <2>6. CASE Persist(t)
    <3>0. Inside(t) /\ call[t].new # NoCtx
      BY <2>6 DEF Persist, Inside, TypeOK
    <3>1. CASE Goes(t, "start") /\ UNCHANGED tableVars
      <4>1. call'[t].pc = "start" /\ \A s \in Callers : s # t => call'[s] = call[s]
        BY <3>0, <3>1, GoesEffect
      <4> QED
        BY <2>0, <3>1, <4>1, OwnerFrame DEF tableVars
    <3>2. CASE /\ TakeOut(call[t].url)
               /\ IF map[call[t].url] = NoCtx THEN UNCHANGED ctx
                  ELSE Reclaim(map[call[t].url])
               /\ Returns(t, "failure")
      <4> DEFINE u == call[t].url
                 c == map[u]
      <4>1. call'[t].pc = "idle" /\ \A s \in Callers : s # t => call'[s] = call[s]
        BY <3>2, ReturnsEffect
      <4>2. \A d \in Ctxs : d # c => ctx'[d] = ctx[d]
        BY <1>0, <3>2, ReclaimEffect
      <4>3. TableInv' /\ SweepInv'
        BY <1>0, <2>0, <3>2, <4>2, TakeOutFrame DEF OwnerInv
      <4>4. StaleInv' /\ NewInv'
        BY <3>0, <4>1, Alone DEF StaleInv, NewInv
      <4> QED
        BY <4>3, <4>4 DEF OwnerInv
    <3> QED
      BY <2>6, <3>1, <3>2 DEF Persist
  <2>7. CASE Start(t)
    <3>1. call[t].new # NoCtx /\ UNCHANGED map /\ Goes(t, "log")
      BY <2>7 DEF Start, TypeOK
    <3>2. call'[t].pc = "log" /\ \A s \in Callers : s # t => call'[s] = call[s]
      BY <3>1, GoesEffect
    <3>3. \A c \in Ctxs : ctx'[c].life = ctx[c].life /\ ctx'[c].url = ctx[c].url
      BY <2>7, StartEffect
    <3> QED
      BY <2>0, <3>1, <3>2, <3>3, OwnerFrame
  <2>8. CASE Log(t)
    <3>1. Returns(t, "success") /\ UNCHANGED tableVars
      BY <2>8 DEF Log
    <3> QED
      BY <2>0, <3>1, ReturnsEffect, OwnerFrame DEF tableVars
  <2>9. CASE t = Scheduler /\ Admit
    <3>0. UNCHANGED tableVars
      BY <2>9 DEF Admit
    <3>1. CASE Returns(t, "wait")
      BY <2>0, <3>0, <3>1, ReturnsEffect, OwnerFrame DEF tableVars
    <3>2. CASE Goes(t, "check")
      <4>1. call'[t].pc = "check" /\ \A s \in Callers : s # t => call'[s] = call[s]
        BY <3>2, GoesEffect
      <4> QED
        BY <2>0, <3>0, <4>1, OwnerFrame DEF tableVars
    <3> QED
      BY <2>9, <3>1, <3>2 DEF Admit
  <2> QED
    BY <1>5, <2>1, <2>2, <2>3, <2>4, <2>5, <2>6, <2>7, <2>8, <2>9 DEF CallStep
<1>6. ASSUME NEW c \in Ctxs, WorkerStep(c) PROVE OwnerInv'
  <2>1. \A d \in Ctxs : ctx'[d].life = ctx[d].life /\ ctx'[d].url = ctx[d].url
    BY <1>6, WorkerEffect
  <2>2. UNCHANGED <<map, call, sweep>>
    BY <1>6 DEF WorkerStep, WorkerBuild, WorkerLoop, WorkerEmit, WorkerFrame
  <2> QED
    BY <2>1, <2>2, OwnerFrame
<1>7. ASSUME SweepStep PROVE OwnerInv'
  <2>0. UNCHANGED call
    BY <1>7 DEF SweepStep, SweepCollect, SweepTake, SweepJoin, SweepFrame
  <2>1. CASE SweepCollect
    <3>1. sweep'.pc = "take" /\ UNCHANGED tableVars
      BY <2>1 DEF SweepCollect, TypeOK, SweepType
    <3> QED
      BY <2>0, <3>1, OwnerFrame DEF tableVars
  <2>2. CASE SweepTake
    <3>1. CASE UNCHANGED map
      <4>1. CASE sweep'.pc # "join"
        BY <2>0, <2>2, <3>1, <4>1, OwnerFrame DEF SweepTake
      <4>2. CASE sweep'.pc = "join"
        <5>1. PICK u \in sweep.todo : map[u] # NoCtx /\ TakeOut(u)
          BY <2>2, <4>2 DEF SweepTake, Sweeps, TypeOK, SweepType
        <5>2. u \in Urls /\ map'[u] = NoCtx
          BY <5>1 DEF TakeOut, TypeOK, SweepType
        <5> QED
          BY <3>1, <5>1, <5>2
      <4> QED
        BY <4>1, <4>2
    <3>2. CASE ~UNCHANGED map
      <4>1. PICK u \in sweep.todo :
              /\ map[u] # NoCtx /\ TakeOut(u)
              /\ sweep' = [pc |-> "join", todo |-> sweep.todo \ {u}, own |-> map[u]]
        BY <2>2, <3>2 DEF SweepTake
      <4> DEFINE c == map[u]
      <4>2. /\ u \in Urls /\ map'[u] = NoCtx /\ \A v \in Urls : v # u => map'[v] = map[v]
        BY <4>1 DEF TakeOut, TypeOK, SweepType
      <4>3. c \in Ctxs /\ ctx[c].life = "live" /\ UNCHANGED ctx /\ sweep'.own = c
        BY <1>0, <2>2, <4>1, <4>2 DEF OwnerInv, TableInv, SweepTake
      <4>4. \A v \in Urls : v # u => map[v] # c
        BY <1>0, <4>2, <4>3, Constants DEF OwnerInv, TableInv
      <4>5. \A t \in Callers :
              /\ call[t].pc = "reclaim" => call[t].stale # c
              /\ call[t].pc = "insert" => call[t].new # c
        BY <4>2 DEF OwnerInv, StaleInv, NewInv, InTable
      <4>6. c # NoCtx
        BY <4>1
      <4> HIDE DEF c
      <4>7. TableInv' /\ SweepInv'
        BY <4>2, <4>3, <4>4, <4>6 DEF OwnerInv, TableInv, SweepInv, InTable
      <4>8. \A d \in Ctxs : InTable(d)' => InTable(d)
        BY <4>2, Constants DEF InTable
      <4>9. StaleInv' /\ NewInv'
        BY <1>0, <2>0, <4>3, <4>5, <4>8 DEF OwnerInv, StaleInv, NewInv
      <4> QED
        BY <4>7, <4>9 DEF OwnerInv
    <3> QED
      BY <3>1, <3>2
  <2>3. CASE SweepJoin
    <3> DEFINE c == sweep.own
    <3>1. sweep.pc = "join" /\ c \in Ctxs /\ UNCHANGED map /\ sweep'.pc = "take"
      BY <1>0, <2>3 DEF SweepJoin, Sweeps, TypeOK, SweepType
    <3>2. \A d \in Ctxs : d # c => ctx'[d] = ctx[d]
      BY <1>0, <2>3, <3>1, ReclaimEffect DEF SweepJoin
    <3>3. /\ ~InTable(c)
          /\ \A t \in Callers : /\ call[t].pc = "reclaim" => call[t].stale # c
                                /\ call[t].pc = "insert" => call[t].new # c
      BY <3>1 DEF OwnerInv, SweepInv, StaleInv, NewInv
    <3> HIDE DEF c
    <3>4. TableInv' /\ SweepInv'
      BY <1>0, <3>1, <3>2, <3>3 DEF OwnerInv, TableInv, SweepInv, InTable
    <3>5. StaleInv' /\ NewInv'
      BY <1>0, <2>0, <3>1, <3>2, <3>3 DEF OwnerInv, StaleInv, NewInv, InTable
    <3> QED
      BY <3>4, <3>5 DEF OwnerInv
  <2> QED
    BY <1>7, <2>1, <2>2, <2>3 DEF SweepStep
<1>8. ASSUME DestroyCancel \/ DestroyStep PROVE OwnerInv'
  <2>1. /\ sweep.pc = "idle" /\ UNCHANGED <<sweep, call>>
        /\ \A t \in Callers : call[t].pc = "idle"
    BY <1>8 DEF DestroyCancel, DestroyStep, DestroyLock, DestroyJoin, DestroyFrame,
         ThreadInv, QuietInv
  <2>2. CASE DestroyCancel
    <3>1. \A c \in Ctxs : ctx'[c].life = ctx[c].life /\ ctx'[c].url = ctx[c].url
      BY <2>2, <1>0 DEF DestroyCancel, CtxType
    <3> QED
      BY <2>1, <2>2, <3>1, OwnerFrame DEF DestroyCancel
  <2>3. CASE DestroyLock
    BY <2>1, <2>3, OwnerFrame DEF DestroyLock, tableVars
  <2>4. CASE DestroyJoin
    <3>1. \A u \in Urls : map'[u] = NoCtx
      BY <2>4 DEF DestroyJoin
    <3> QED
      BY <2>1, <3>1 DEF OwnerInv, TableInv, SweepInv, StaleInv, NewInv
  <2> QED
    BY <1>8, <2>2, <2>3, <2>4 DEF DestroyStep
<1>9. CASE UNCHANGED vars
  BY <1>9, OwnerFrame DEF vars, tableVars
<1> QED
  BY <1>1, <1>2, <1>3, <1>4, <1>5, <1>6, <1>7, <1>8, <1>9 DEF Next

-----------------------------------------------------------------------------
(* The theorems.                                                           *)

LEMMA InitInv == Init => IInv
<1> SUFFICES ASSUME Init PROVE IInv
  OBVIOUS
<1>1. PICK u \in Urls : u = CHOOSE v \in Urls : TRUE
  BY Constants
<1>2. UnusedCtx(u) \in CtxType /\ UnusedCtx(u).life = "unused" /\ UnusedCtx(u).thread = "none"
  BY DEF UnusedCtx, FreshCtx, CtxType, Threads, Statuses
<1>3. /\ ctx = [c \in Ctxs |-> UnusedCtx(u)] /\ call = [t \in Callers |-> Idle(u)]
  BY <1>1 DEF Init
<1>4. TypeOK
  BY ZenonT(30), <1>2, <1>3, IdleType, EngineAssumption DEF Init, TypeOK, SweepType
<1>5. ThreadInv
  BY <1>2, <1>3, IdleType
     DEF Init, ThreadInv, MutexInv, AbsentInv, EntryInv, FreshInv, LifeInv, QuietInv, Inside
<1>6. OwnerInv
  BY <1>3, IdleType DEF Init, OwnerInv, TableInv, SweepInv, StaleInv, NewInv
<1> QED
  BY <1>4, <1>5, <1>6 DEF IInv

\* The inductive invariant holds of every state of the engine.
THEOREM Invariant == Spec => []IInv
<1>1. IInv /\ [Next]_vars => IInv'
  BY TypeStep, ThreadStep, OwnerStep DEF IInv
<1> QED
  BY InitInv, <1>1, PTL DEF Spec

\* The types of the engine's variables, for any number of users, URLs,
\* contexts and calls.
THEOREM TypeCorrect == Spec => []TypeOK
<1>1. IInv => TypeOK
  BY DEF IInv
<1> QED
  BY Invariant, <1>1, PTL

\* start_download's second look at the table finds what its first one left:
\* nothing, because it holds mtx from one to the other.
THEOREM NoLostInsertion == Spec => []EmplaceNeverFails
<1>1. IInv => EmplaceNeverFails
  BY DEF IInv, ThreadInv, AbsentInv, EmplaceNeverFails
<1> QED
  BY Invariant, <1>1, PTL

\* Nobody frees a context whose thread may still run.
THEOREM JoinedBeforeFreed == Spec => []FreedIsJoined
<1>1. IInv => FreedIsJoined
  BY DEF IInv, ThreadInv, LifeInv, FreedIsJoined
<1> QED
  BY Invariant, <1>1, PTL

\* A context has one owner, which is why it is freed once.
THEOREM SingleOwner == Spec => []OwnedOnce
<1>1. ASSUME IInv, NEW c \in Ctxs
      PROVE  /\ \A o, p \in Owners(c) : o = p
             /\ Owners(c) # {} => ctx[c].life = "live"
  <2>0. c # NoCtx
    BY Constants
  <2>1. \A u, v \in Urls : map[u] = c /\ map[v] = c => u = v
    BY <1>1, <2>0 DEF IInv, OwnerInv, TableInv
  <2>2. \A s, t \in Callers :
          call[s].pc = "reclaim" /\ call[t].pc = "reclaim" => s = t
    BY <1>1 DEF IInv, ThreadInv, MutexInv, Inside
  <2>3. sweep.pc = "join" /\ sweep.own = c =>
          /\ ~InTable(c) /\ ctx[c].life = "live"
          /\ \A t \in Callers : call[t].pc = "reclaim" => call[t].stale # c
    BY <1>1 DEF IInv, OwnerInv, SweepInv, StaleInv
  <2>4. \A t \in Callers : call[t].pc = "reclaim" /\ call[t].stale = c =>
          ~InTable(c) /\ ctx[c].life = "live"
    BY <1>1 DEF IInv, OwnerInv, StaleInv
  <2>5. InTable(c) => ctx[c].life = "live"
    BY <1>1, <2>0 DEF IInv, OwnerInv, TableInv, InTable
  <2>6. \A o \in Owners(c) :
          \/ \E u \in Urls : o = <<"table", u>> /\ map[u] = c
          \/ \E t \in Callers : /\ o = <<"call", t>>
                                /\ call[t].pc = "reclaim" /\ call[t].stale = c
          \/ o = <<"sweep", Nobody>> /\ sweep.pc = "join" /\ sweep.own = c
    BY DEF Owners
  <2>7. \A u \in Urls : map[u] = c => InTable(c)
    BY DEF InTable
  <2>8. \A o, p \in Owners(c) : o = p
    BY <2>1, <2>2, <2>3, <2>4, <2>6, <2>7
  <2>9. Owners(c) # {} => ctx[c].life = "live"
    BY <2>3, <2>4, <2>5, <2>6, <2>7
  <2> QED
    BY <2>8, <2>9
<1>2. IInv => EmplaceNeverFails
  BY DEF IInv, ThreadInv, AbsentInv, EmplaceNeverFails
<1>3. IInv => OwnedOnce
  BY <1>1, <1>2 DEF OwnedOnce
<1> QED
  BY Invariant, <1>3, PTL

-----------------------------------------------------------------------------
(* Who keeps the workers.                                                  *)

\* A thread that has been started and not joined.
Busy(c) == Working(c) \/ ctx[c].thread = "done"
Owned(c) == InTable(c) \/ Swept(c) \/ TakenOut(c)

\* Until it is joined its context is alive, and somebody will join it.
BusyInv == \A c \in Ctxs : Busy(c) => ctx[c].life = "live" /\ Owned(c)

\* What start_task will start is in the table or has been swept, unless it is
\* gone.
Launches(t) ==
  call[t].pc \in {"persist", "start"} /\ ctx[call[t].new].life = "live" =>
    InTable(call[t].new) \/ Swept(call[t].new)
StartInv == \A t \in Callers : Launches(t)

\* A call that reclaims does so for its own URL; nobody has asked for anything
\* of a context that has not been inserted.
StaleUrlInv ==
  \A t \in Callers : call[t].pc = "reclaim" => ctx[call[t].stale].url = call[t].url
UnaskedInv ==
  \A t \in Callers :
    call[t].pc = "insert" => ~ctx[call[t].new].pause /\ ~ctx[call[t].new].del

KeptInv == BusyInv /\ StartInv /\ StaleUrlInv /\ UnaskedInv

\* A step that starts no thread and takes none from its owner.
LEMMA BusyFrame ==
  ASSUME BusyInv,
         \A c \in Ctxs : Busy(c)' => Busy(c) /\ ctx'[c].life = ctx[c].life,
         \A c \in Ctxs : Busy(c)' /\ Owned(c) => Owned(c)'
  PROVE  BusyInv'
BY DEF BusyInv

LEMMA OwnedFrame ==
  ASSUME UNCHANGED <<map, sweep>>,
         \A t \in Callers : call[t].pc = "reclaim" => call'[t] = call[t]
  PROVE  \A c \in Ctxs : Owned(c) => Owned(c)'
BY DEF Owned, InTable, Swept, TakenOut

\* A step of one caller that holds mtx, or takes it while nobody does.
LEMMA KeptByCaller ==
  ASSUME ThreadInv, NEW t \in Callers, Inside(t) \/ mtx = Nobody,
         \A s \in Callers : s # t => call'[s] = call[s],
         BusyInv',
         Launches(t)',
         call'[t].pc = "reclaim" => ctx'[call'[t].stale].url = call'[t].url,
         call'[t].pc = "insert" => ~ctx'[call'[t].new].pause /\ ~ctx'[call'[t].new].del
  PROVE  KeptInv'
<1>1. \A s \in Callers : s # t => ~Inside(s)'
  BY Constants DEF ThreadInv, MutexInv, Inside
<1>2. StartInv'
  BY <1>1 DEF StartInv, Launches, Inside
<1>3. StaleUrlInv' /\ UnaskedInv'
  BY <1>1 DEF StaleUrlInv, UnaskedInv, Inside
<1> QED
  BY <1>2, <1>3 DEF KeptInv

\* A step of anybody else.
LEMMA KeptByOther ==
  ASSUME TypeOK, OwnerInv, KeptInv, UNCHANGED call,
         BusyInv',
         \A c \in Ctxs :
           /\ ctx'[c].url = ctx[c].url
           /\ ctx'[c].life = "live" => ctx[c].life = "live"
           /\ ctx'[c].life = "live" /\ (InTable(c) \/ Swept(c)) =>
                InTable(c)' \/ Swept(c)'
           /\ ~InTable(c) => ctx'[c].pause = ctx[c].pause /\ ctx'[c].del = ctx[c].del
  PROVE  KeptInv'
<1>1. \A t \in Callers :
        /\ call[t].pc = "reclaim" => call[t].stale \in Ctxs
        /\ call[t].pc \in {"insert", "persist", "start"} => call[t].new \in Ctxs
  BY DEF TypeOK, CallType
<1>2. StartInv'
  <2> SUFFICES ASSUME NEW t \in Callers, call[t].pc \in {"persist", "start"},
                      ctx'[call[t].new].life = "live"
               PROVE  InTable(call[t].new)' \/ Swept(call[t].new)'
    BY DEF StartInv, Launches, InTable, Swept
  <2> QED
    BY <1>1 DEF KeptInv, StartInv, Launches
<1>3. StaleUrlInv'
  BY <1>1 DEF KeptInv, StaleUrlInv
<1>4. UnaskedInv'
  BY <1>1 DEF KeptInv, UnaskedInv, OwnerInv, NewInv
<1> QED
  BY <1>2, <1>3, <1>4 DEF KeptInv

\* What pause_task and delete_task write, and where.
LEMMA AskedFacts ==
  ASSUME TypeOK, NEW t \in Users, NEW u \in Urls, PauseTask(t, u) \/ DeleteTask(t, u)
  PROVE  /\ UNCHANGED <<map, call, sweep>>
         /\ \A d \in Ctxs : d # map[u] => ctx'[d] = ctx[d]
         /\ map[u] # NoCtx =>
              LET c == map[u] IN
              /\ PauseTask(t, u) => ctx'[c].pause /\ ctx'[c].del = ctx[c].del
              /\ DeleteTask(t, u) => ctx'[c].del /\ ctx'[c].pause = ctx[c].pause
<1>1. map[u] \in Ctxs \cup {NoCtx} /\ ctx \in [Ctxs -> CtxType]
  BY DEF TypeOK
<1>2. ASSUME map[u] # NoCtx, PauseTask(t, u)
      PROVE  ctx' = [ctx EXCEPT ![map[u]] = [ctx[map[u]] EXCEPT !.pause = TRUE]]
  BY <1>1, <1>2 DEF PauseTask
<1>3. ASSUME map[u] # NoCtx, DeleteTask(t, u)
      PROVE  ctx' = [ctx EXCEPT ![map[u]] =
                       [[ctx[map[u]] EXCEPT !.cancel = TRUE] EXCEPT !.del = TRUE]]
  BY <1>1, <1>3 DEF DeleteTask
<1>4. map[u] # NoCtx => ctx[map[u]] \in CtxType
  BY <1>1
<1>5. UNCHANGED <<map, call, sweep>> /\ (map[u] = NoCtx => ctx' = ctx)
  BY DEF PauseTask, DeleteTask
<1> DEFINE paused == [ctx[map[u]] EXCEPT !.pause = TRUE]
           deleted == [[ctx[map[u]] EXCEPT !.cancel = TRUE] EXCEPT !.del = TRUE]
<1>6. map[u] # NoCtx => /\ paused.pause /\ paused.del = ctx[map[u]].del
                        /\ deleted.del /\ deleted.pause = ctx[map[u]].pause
  BY <1>4 DEF CtxType
<1>7. map[u] # NoCtx =>
        /\ PauseTask(t, u) => ctx' = [ctx EXCEPT ![map[u]] = paused]
        /\ DeleteTask(t, u) => ctx' = [ctx EXCEPT ![map[u]] = deleted]
  BY <1>2, <1>3
<1> HIDE DEF paused, deleted
<1> QED
  BY <1>1, <1>5, <1>6, <1>7

LEMMA KeptStep == IInv /\ KeptInv /\ [Next]_vars => KeptInv'
<1> SUFFICES ASSUME IInv, KeptInv, [Next]_vars PROVE KeptInv'
  OBVIOUS
<1> USE DEF IInv
<1>0. /\ \A u \in Urls : map[u] # NoCtx => map[u] \in Ctxs
      /\ sweep.pc = "join" => sweep.own \in Ctxs
      /\ \A t \in Callers :
           /\ call[t].url \in Urls
           /\ call[t].pc = "reclaim" => call[t].stale \in Ctxs
           /\ call[t].pc \in {"insert", "persist", "start", "log"} => call[t].new \in Ctxs
      /\ ctx \in [Ctxs -> CtxType]
  BY DEF TypeOK, CallType, SweepType
<1>1. ASSUME NEW t \in Users, NEW u \in Urls, AddTask(t, u) PROVE KeptInv'
  <2>1. /\ call'[t].pc = "lock" /\ call[t].pc = "idle"
        /\ \A s \in Callers : s # t => call'[s] = call[s]
        /\ UNCHANGED <<tableVars, sweep>>
    BY <1>1, Constants DEF AddTask, Calls, TypeOK, Idle
  <2>2. BusyInv'
    BY <2>1, OwnedFrame, BusyFrame DEF KeptInv, Busy, Working, tableVars
  <2>3. \A s \in Callers : call'[s].pc # "lock" => call'[s] = call[s]
    BY <2>1
  <2>4. StartInv' /\ StaleUrlInv' /\ UnaskedInv'
    BY <2>1, <2>3 DEF KeptInv, StartInv, Launches, StaleUrlInv, UnaskedInv, InTable, Swept,
                      tableVars
  <2> QED
    BY <2>2, <2>4 DEF KeptInv
<1>2. ASSUME NEW t \in Users, NEW u \in Urls, ResumeTask(t, u) PROVE KeptInv'
  <2>1. UNCHANGED <<tableVars, sweep, call>>
    BY <1>2 DEF ResumeTask
  <2>2. BusyInv'
    BY <2>1, OwnedFrame, BusyFrame DEF KeptInv, Busy, Working, tableVars
  <2> QED
    BY <2>1, <2>2, KeptByOther DEF tableVars, InTable, Swept
<1>3. ASSUME NEW t \in Users, NEW u \in Urls, PauseTask(t, u) \/ DeleteTask(t, u)
      PROVE  KeptInv'
  <2>1. \A c \in Ctxs : /\ ctx'[c].life = ctx[c].life
                        /\ ctx'[c].thread = ctx[c].thread
                        /\ ctx'[c].url = ctx[c].url
    BY <1>3, AskEffect
  <2>2. /\ UNCHANGED <<map, sweep, call>>
        /\ \A d \in Ctxs : d # map[u] => ctx'[d] = ctx[d]
    BY <1>3, AskedFacts
  <2>3. BusyInv'
    BY <2>1, <2>2, OwnedFrame, BusyFrame DEF KeptInv, Busy, Working
  <2> QED
    BY <2>1, <2>2, <2>3, KeptByOther DEF InTable, Swept
<1>4. ASSUME NEW u \in Urls, Dispatch(u) PROVE KeptInv'
  <2>1. /\ call'[Scheduler].pc = "admit" /\ call[Scheduler].pc = "idle"
        /\ \A s \in Callers : s # Scheduler => call'[s] = call[s]
        /\ UNCHANGED <<tableVars, sweep>> /\ mtx = Nobody
    BY <1>4, Constants DEF Dispatch, Frame, TypeOK, Idle
  <2>2. \A s \in Callers : call[s].pc = "reclaim" => call'[s] = call[s]
    BY <2>1
  <2>3. BusyInv'
    BY <2>1, <2>2, OwnedFrame, BusyFrame DEF KeptInv, Busy, Working, tableVars
  <2> QED
    BY <2>1, <2>3, KeptByCaller, Constants DEF Launches
<1>5. ASSUME NEW t \in Callers, CallStep(t) PROVE KeptInv'
  <2>0. UNCHANGED sweep /\ (Inside(t) \/ mtx = Nobody)
    BY <1>5 DEF CallStep, Lock, Check, ReclaimStale, Create, Insert, Persist, Start,
         Log, Admit, Frame, Inside
  <2>a. ASSUME call[t].pc # "reclaim", UNCHANGED tableVars,
               \A s \in Callers : s # t => call'[s] = call[s]
        PROVE  BusyInv'
    <3>1. \A s \in Callers : call[s].pc = "reclaim" => call'[s] = call[s]
      BY <2>a
    <3> QED
      BY <2>0, <2>a, <3>1, OwnedFrame, BusyFrame DEF KeptInv, Busy, Working, tableVars
  <2>b. ASSUME UNCHANGED tableVars, call[t].pc # "reclaim",
               \A s \in Callers : s # t => call'[s] = call[s],
               call'[t].pc \in {"idle", "check", "create"}
        PROVE  KeptInv'
    BY <2>0, <2>a, <2>b, KeptByCaller DEF Launches
  <2>1. CASE Lock(t)
    <3>1. call'[t].pc = "check" /\ \A s \in Callers : s # t => call'[s] = call[s]
      BY <2>1, GoesEffect DEF Lock
    <3> QED
      BY <2>1, <2>b, <3>1 DEF Lock
  <2>2. CASE Check(t)
    <3>0. Inside(t) /\ UNCHANGED ctx /\ call[t].pc = "check"
      BY <2>2 DEF Check, Inside
    <3>1. CASE Goes(t, "create") /\ UNCHANGED map
      <4>1. call'[t].pc = "create" /\ \A s \in Callers : s # t => call'[s] = call[s]
        BY <3>1, GoesEffect
      <4> QED
        BY <2>b, <3>0, <3>1, <4>1 DEF tableVars
    <3>2. CASE Returns(t, "success") /\ UNCHANGED map
      BY <2>b, <3>0, <3>2, ReturnsEffect DEF tableVars
    <3>3. CASE /\ map[call[t].url] # NoCtx /\ TakeOut(call[t].url)
               /\ call' = [call EXCEPT ![t].pc = "reclaim", ![t].stale = map[call[t].url]]
      <4>1. PICK u \in Urls, c \in Ctxs : u = call[t].url /\ c = map[u] /\ ctx[c].url = u
        BY <1>0, <3>3 DEF OwnerInv, TableInv
      <4>2. /\ call'[t].pc = "reclaim" /\ call'[t].stale = c /\ call'[t].url = u
            /\ \A s \in Callers : s # t => call'[s] = call[s]
        BY <3>3, <4>1 DEF TypeOK, CallType
      <4>3. \A v \in Urls : v # u => map'[v] = map[v]
        BY <3>3, <4>1 DEF TakeOut, TypeOK
      <4>4. \A d \in Ctxs : InTable(d) => InTable(d)' \/ d = c
        BY <4>1, <4>3 DEF InTable
      <4>5. \A d \in Ctxs : TakenOut(d) => TakenOut(d)'
        BY <3>0, <4>2 DEF TakenOut
      <4>6. TakenOut(c)'
        BY <4>2 DEF TakenOut
      <4>7. BusyInv'
        BY <2>0, <3>0, <4>4, <4>5, <4>6, BusyFrame DEF KeptInv, Busy, Working, Owned, Swept
      <4> QED
        BY <3>0, <4>1, <4>2, <4>7, KeptByCaller DEF Launches
    <3> QED
      BY <2>2, <3>1, <3>2, <3>3 DEF Check
  <2>3. CASE ReclaimStale(t)
    <3> DEFINE c == call[t].stale
    <3>1. Inside(t) /\ call[t].pc = "reclaim" /\ UNCHANGED map /\ c \in Ctxs /\ Joinable(c)
      BY <1>0, <2>3 DEF ReclaimStale, Inside
    <3>2. /\ call'[t].pc = "create" /\ \A s \in Callers : s # t => call'[s] = call[s]
      BY <2>3, GoesEffect DEF ReclaimStale
    <3>3. /\ ctx'[c].thread \in {"none", "joined"}
          /\ \A d \in Ctxs : d # c => ctx'[d] = ctx[d]
      BY <1>0, <2>3, <3>1, ReclaimEffect DEF ReclaimStale, Joinable
    <3>4. \A d \in Ctxs : d # c => ~TakenOut(d)
      BY <3>1, Alone DEF TakenOut
    <3> HIDE DEF c
    <3>5. \A d \in Ctxs : Busy(d)' => d # c /\ Busy(d)
      BY <3>3 DEF Busy, Working
    <3>6. \A d \in Ctxs : d # c /\ Owned(d) => Owned(d)'
      BY <2>0, <3>1, <3>4 DEF Owned, InTable, Swept
    <3>7. BusyInv'
      BY <3>3, <3>5, <3>6, BusyFrame DEF KeptInv
    <3> QED
      BY <3>1, <3>2, <3>7, KeptByCaller DEF Launches
  <2>4. CASE Create(t)
    <3>0. Inside(t) /\ UNCHANGED map /\ call[t].pc = "create"
      BY <2>4 DEF Create, Inside
    <3>1. CASE Returns(t, "failure") /\ UNCHANGED ctx
      BY <2>b, <3>0, <3>1, ReturnsEffect DEF tableVars
    <3>2. ASSUME NEW c \in Unused, ctx' = [ctx EXCEPT ![c] = FreshCtx(call[t].url)],
                 call' = [call EXCEPT ![t].pc = "insert", ![t].new = c]
          PROVE  KeptInv'
      <4>1. /\ c \in Ctxs /\ ctx'[c] = FreshCtx(call[t].url)
            /\ \A d \in Ctxs : d # c => ctx'[d] = ctx[d]
            /\ call'[t].pc = "insert" /\ call'[t].new = c
            /\ \A s \in Callers : s # t => call'[s] = call[s]
        BY <3>2, CreateEffect
      <4>2. ctx'[c].thread = "none" /\ ~ctx'[c].pause /\ ~ctx'[c].del
        BY <4>1 DEF FreshCtx
      <4>3. \A s \in Callers : call[s].pc = "reclaim" => call'[s] = call[s]
        BY <3>0, <4>1
      <4>4. \A d \in Ctxs : Busy(d)' => d # c
        BY <4>2 DEF Busy, Working
      <4>5. \A d \in Ctxs : Owned(d) => Owned(d)'
        BY <2>0, <3>0, <4>3, OwnedFrame
      <4>6. BusyInv'
        BY <4>1, <4>4, <4>5, BusyFrame DEF KeptInv, Busy, Working
      <4> QED
        BY <3>0, <4>1, <4>2, <4>6, KeptByCaller DEF Launches
    <3> QED
      BY <2>4, <3>1, <3>2 DEF Create
  <2>5. CASE Insert(t)
    <3>0. PICK u \in Urls, c \in Ctxs : u = call[t].url /\ c = call[t].new
      BY <1>0, <2>5 DEF Insert
    <3>1. Inside(t) /\ call[t].pc = "insert" /\ map[u] = NoCtx
      BY <3>0, <1>0, <2>5 DEF Insert, Inside, ThreadInv, AbsentInv
    <3>2. /\ map' = [map EXCEPT ![u] = c] /\ UNCHANGED ctx
          /\ \E pc \in {"persist", "start"} : Goes(t, pc)
      BY <2>5, <3>0, <3>1 DEF Insert
    <3>3. /\ call'[t].pc \in {"persist", "start"} /\ call'[t].new = c
          /\ \A s \in Callers : s # t => call'[s] = call[s]
      BY <3>0, <3>1, <3>2, GoesEffect, Constants
    <3>5. map'[u] = c /\ \A v \in Urls : v # u => map'[v] = map[v]
      BY <3>1, <3>2 DEF TypeOK
    <3>6. \A d \in Ctxs : InTable(d) => InTable(d)'
      BY <3>1, <3>5, Constants DEF InTable
    <3>7. \A d \in Ctxs : TakenOut(d) => TakenOut(d)'
      BY <3>1, <3>3 DEF TakenOut
    <3>8. BusyInv'
      BY <2>0, <3>2, <3>6, <3>7, BusyFrame DEF KeptInv, Busy, Working, Owned, Swept
    <3>9. InTable(c)'
      BY <3>1, <3>5 DEF InTable
    <3>10. Launches(t)'
      BY <3>3, <3>9 DEF Launches
    <3> QED
      BY <3>1, <3>3, <3>8, <3>10, KeptByCaller
  <2>6. CASE Persist(t)
    <3>0. /\ Inside(t) /\ call[t].pc = "persist" /\ call[t].new # NoCtx
          /\ map[call[t].url] \in {NoCtx, call[t].new} /\ call[t].new \in Ctxs
          /\ ctx[call[t].new].thread = "none"
      BY <1>0, <2>6 DEF Persist, Inside, TypeOK, ThreadInv, EntryInv, FreshInv
    <3>1. CASE Goes(t, "start") /\ UNCHANGED tableVars
      <4>1. /\ call'[t].pc = "start" /\ call'[t].new = call[t].new
            /\ \A s \in Callers : s # t => call'[s] = call[s]
        BY <3>0, <3>1, GoesEffect
      <4>2. Launches(t)
        BY DEF KeptInv, StartInv
      <4>3. Launches(t)'
        BY <2>0, <3>0, <3>1, <4>1, <4>2 DEF Launches, InTable, Swept, tableVars
      <4> QED
        BY <2>a, <3>0, <3>1, <4>1, <4>3, KeptByCaller
    <3>2. CASE /\ TakeOut(call[t].url)
               /\ IF map[call[t].url] = NoCtx THEN UNCHANGED ctx
                  ELSE Reclaim(map[call[t].url])
               /\ Returns(t, "failure")
      <4> DEFINE u == call[t].url
                 c == map[u]
      <4>1. call'[t].pc = "idle" /\ \A s \in Callers : s # t => call'[s] = call[s]
        BY <3>2, ReturnsEffect
      <4>2. /\ \A d \in Ctxs : d # c => ctx'[d] = ctx[d]
            /\ c # NoCtx => c \in Ctxs /\ ctx'[c].thread = "none"
        BY <1>0, <3>0, <3>2, ReclaimEffect
      <4>3. u \in Urls /\ \A v \in Urls : v # u => map'[v] = map[v]
        BY <1>0, <3>2 DEF TakeOut, TypeOK
      <4>4. \A d \in Ctxs : Busy(d)' => d # c /\ Busy(d) /\ ctx'[d] = ctx[d]
        BY <4>2, Constants DEF Busy, Working
      <4>5. \A d \in Ctxs : d # c /\ InTable(d) => InTable(d)'
        BY <4>3 DEF InTable
      <4>6. \A d \in Ctxs : TakenOut(d) => TakenOut(d)'
        BY <3>0, <4>1 DEF TakenOut
      <4> HIDE DEF c, u
      <4>7. BusyInv'
        BY <2>0, <4>4, <4>5, <4>6, BusyFrame DEF KeptInv, Owned, Swept
      <4> QED
        BY <3>0, <4>1, <4>7, KeptByCaller DEF Launches
    <3> QED
      BY <2>6, <3>1, <3>2 DEF Persist
  <2>7. CASE Start(t)
    <3>1. /\ call[t].new \in Ctxs /\ call[t].new # NoCtx /\ UNCHANGED map
          /\ Goes(t, "log") /\ Inside(t) /\ call[t].pc = "start"
      BY <1>0, <2>7 DEF Start, TypeOK, Inside
    <3>2. call'[t].pc = "log" /\ \A s \in Callers : s # t => call'[s] = call[s]
      BY <3>1, GoesEffect
    <3>3. \A c \in Ctxs : /\ ctx'[c].life = ctx[c].life
                          /\ \/ ctx'[c].thread = ctx[c].thread
                             \/ c = call[t].new /\ ctx[c].life = "live"
      BY <2>7, StartEffect
    <3>4. Launches(t)
      BY DEF KeptInv, StartInv
    <3>5. \A s \in Callers : call[s].pc = "reclaim" => call'[s] = call[s]
      BY <3>1, <3>2
    <3>6. \A d \in Ctxs : Owned(d) => Owned(d)'
      BY <2>0, <3>1, <3>5, OwnedFrame
    <3>7. \A d \in Ctxs : Busy(d)' => ctx[d].life = "live" /\ Owned(d)
      BY <3>1, <3>3, <3>4 DEF KeptInv, BusyInv, Busy, Working, Launches, Owned
    <3>8. BusyInv'
      BY <3>3, <3>6, <3>7 DEF BusyInv
    <3> QED
      BY <3>1, <3>2, <3>8, KeptByCaller DEF Launches
  <2>8. CASE Log(t)
    <3>1. Returns(t, "success") /\ UNCHANGED tableVars /\ call[t].pc = "log"
      BY <2>8 DEF Log
    <3> QED
      BY <2>b, <3>1, ReturnsEffect
  <2>9. CASE t = Scheduler /\ Admit
    <3>0. UNCHANGED tableVars /\ call[t].pc = "admit"
      BY <2>9 DEF Admit
    <3>1. CASE Returns(t, "wait")
      BY <2>b, <3>0, <3>1, ReturnsEffect
    <3>2. CASE Goes(t, "check")
      <4>1. call'[t].pc = "check" /\ \A s \in Callers : s # t => call'[s] = call[s]
        BY <3>2, GoesEffect
      <4> QED
        BY <2>b, <3>0, <4>1
    <3> QED
      BY <2>9, <3>1, <3>2 DEF Admit
  <2> QED
    BY <1>5, <2>1, <2>2, <2>3, <2>4, <2>5, <2>6, <2>7, <2>8, <2>9 DEF CallStep
<1>6. ASSUME NEW c \in Ctxs, WorkerStep(c) PROVE KeptInv'
  <2>1. /\ ctx[c].thread \in Going /\ ctx'[c].life = ctx[c].life
        /\ ctx'[c].url = ctx[c].url
        /\ ctx'[c].pause = ctx[c].pause /\ ctx'[c].del = ctx[c].del
        /\ \A d \in Ctxs : d # c => ctx'[d] = ctx[d]
    BY <1>6, WorkerEffect
  <2>2. UNCHANGED <<map, call, sweep>>
    BY <1>6 DEF WorkerStep, WorkerBuild, WorkerLoop, WorkerEmit, WorkerFrame
  <2>3. \A d \in Ctxs : Busy(d)' => Busy(d) /\ ctx'[d].life = ctx[d].life
    BY <2>1 DEF Busy, Working, Going
  <2>4. BusyInv'
    BY <2>2, <2>3, OwnedFrame, BusyFrame DEF KeptInv
  <2> QED
    BY <2>1, <2>2, <2>4, KeptByOther DEF InTable, Swept
<1>7. ASSUME SweepStep PROVE KeptInv'
  <2>0. UNCHANGED call
    BY <1>7 DEF SweepStep, SweepCollect, SweepTake, SweepJoin, SweepFrame
  <2>1. CASE SweepCollect
    <3>1. sweep.pc = "idle" /\ UNCHANGED tableVars
      BY <2>1 DEF SweepCollect, Sweeps
    <3>2. \A d \in Ctxs : /\ InTable(d) => InTable(d)'
                          /\ ~Swept(d)
                          /\ TakenOut(d) => TakenOut(d)'
      BY <2>0, <3>1 DEF InTable, Swept, TakenOut, tableVars
    <3>3. BusyInv'
      BY <3>1, <3>2, BusyFrame DEF KeptInv, Owned, Busy, Working, tableVars
    <3> QED
      BY <2>0, <3>1, <3>2, <3>3, KeptByOther DEF tableVars
  <2>2. CASE SweepTake
    <3>0. sweep.pc = "take" /\ UNCHANGED ctx
      BY <2>2 DEF SweepTake, Sweeps
    <3>1. \A d \in Ctxs : InTable(d) => InTable(d)' \/ Swept(d)'
      <4>1. CASE UNCHANGED map
        BY <4>1 DEF InTable
      <4>2. ASSUME NEW u \in sweep.todo, TakeOut(u), sweep'.pc = "join",
                   sweep'.own = map[u]
            PROVE  \A d \in Ctxs : InTable(d) => InTable(d)' \/ Swept(d)'
        <5>1. u \in Urls /\ \A v \in Urls : v # u => map'[v] = map[v]
          BY <4>2 DEF TakeOut, TypeOK, SweepType
        <5> QED
          BY <4>2, <5>1 DEF InTable, Swept
      <4> QED
        BY <2>2, <4>1, <4>2 DEF SweepTake
    <3>2. \A d \in Ctxs : ~Swept(d) /\ (TakenOut(d) => TakenOut(d)')
      BY <2>0, <3>0 DEF Swept, TakenOut
    <3>3. BusyInv'
      BY <3>0, <3>1, <3>2, BusyFrame DEF KeptInv, Owned, Busy, Working
    <3> QED
      BY <2>0, <3>0, <3>1, <3>2, <3>3, KeptByOther
  <2>3. CASE SweepJoin
    <3> DEFINE c == sweep.own
    <3>1. sweep.pc = "join" /\ c \in Ctxs /\ UNCHANGED map /\ Joinable(c)
      BY <1>0, <2>3 DEF SweepJoin, Sweeps
    <3>2. /\ ctx'[c].thread \in {"none", "joined"} /\ ctx'[c].life = "freed"
          /\ ctx'[c].url = ctx[c].url
          /\ \A d \in Ctxs : d # c => ctx'[d] = ctx[d]
      BY <1>0, <2>3, <3>1, ReclaimEffect DEF SweepJoin, Joinable
    <3>3. ~InTable(c)
      BY <3>1 DEF OwnerInv, SweepInv
    <3> HIDE DEF c
    <3>4. \A d \in Ctxs : /\ Swept(d) => d = c
                          /\ InTable(d) => InTable(d)'
                          /\ TakenOut(d) => TakenOut(d)'
      BY <2>0, <3>1 DEF InTable, Swept, TakenOut, c
    <3>5. \A d \in Ctxs : Busy(d)' => d # c
      BY <3>2 DEF Busy, Working
    <3>6. BusyInv'
      BY <3>2, <3>4, <3>5, BusyFrame DEF KeptInv, Owned, Busy, Working
    <3>7. \A d \in Ctxs :
            /\ ctx'[d].url = ctx[d].url
            /\ ctx'[d].life = "live" => ctx[d].life = "live" /\ d # c
            /\ ~InTable(d) => d = c \/ ctx'[d] = ctx[d]
      BY <3>2
    <3>8. UnaskedInv'
      BY <1>0, <2>0, <3>1, <3>2 DEF KeptInv, UnaskedInv, OwnerInv, NewInv, c
    <3>9. StartInv'
      BY <1>0, <2>0, <3>4, <3>7 DEF KeptInv, StartInv, Launches
    <3>10. StaleUrlInv'
      BY <1>0, <2>0, <3>7 DEF KeptInv, StaleUrlInv
    <3> QED
      BY <3>6, <3>8, <3>9, <3>10 DEF KeptInv
  <2> QED
    BY <1>7, <2>1, <2>2, <2>3 DEF SweepStep
<1>8. ASSUME DestroyCancel \/ DestroyStep PROVE KeptInv'
  <2>1. /\ sweep.pc = "idle" /\ UNCHANGED <<sweep, call>>
        /\ \A t \in Callers : call[t].pc = "idle"
    BY <1>8 DEF DestroyCancel, DestroyStep, DestroyLock, DestroyJoin, DestroyFrame,
         ThreadInv, QuietInv
  <2>2. StartInv' /\ StaleUrlInv' /\ UnaskedInv'
    BY <2>1 DEF StartInv, Launches, StaleUrlInv, UnaskedInv
  <2>3. CASE DestroyCancel \/ DestroyLock
    <3>1. /\ UNCHANGED map
          /\ \A c \in Ctxs : ctx'[c].life = ctx[c].life /\ ctx'[c].thread = ctx[c].thread
      BY <2>3, <1>0 DEF DestroyCancel, DestroyLock, tableVars, CtxType
    <3>2. BusyInv'
      BY <2>1, <3>1, OwnedFrame, BusyFrame DEF KeptInv, Busy, Working
    <3> QED
      BY <2>2, <3>2 DEF KeptInv
  <2>4. CASE DestroyJoin
    <3>1. \A c \in Ctxs : /\ InTable(c) => ctx'[c].thread = "joined"
                          /\ ~InTable(c) => ctx'[c] = ctx[c]
      BY <1>0, <2>4 DEF DestroyJoin, CtxType
    <3>2. \A c \in Ctxs : Owned(c) => InTable(c)
      BY <2>1 DEF Owned, Swept, TakenOut
    <3>3. \A c \in Ctxs : ~Busy(c)'
      BY <3>1, <3>2 DEF KeptInv, BusyInv, Busy, Working
    <3>4. BusyInv'
      BY <3>3 DEF BusyInv
    <3> QED
      BY <2>2, <3>4 DEF KeptInv
  <2> QED
    BY <1>8, <2>3, <2>4 DEF DestroyStep
<1>9. CASE UNCHANGED vars
  <2>1. UNCHANGED <<tableVars, sweep, call>>
    BY <1>9 DEF vars
  <2>2. BusyInv'
    BY <2>1, OwnedFrame, BusyFrame DEF KeptInv, Busy, Working, tableVars
  <2> QED
    BY <2>1, <2>2, KeptByOther DEF tableVars, InTable, Swept
<1> QED
  BY <1>1, <1>2, <1>3, <1>4, <1>5, <1>6, <1>7, <1>8, <1>9 DEF Next

LEMMA InitKept == Init => KeptInv
<1> SUFFICES ASSUME Init PROVE KeptInv
  OBVIOUS
<1>1. PICK u \in Urls : u = CHOOSE v \in Urls : TRUE
  BY Constants
<1>2. \A t \in Callers : call[t].pc = "idle"
  BY <1>1, IdleType DEF Init
<1>3. \A c \in Ctxs : ctx[c].thread = "none"
  BY DEF Init, UnusedCtx, FreshCtx
<1> QED
  BY <1>2, <1>3
     DEF KeptInv, BusyInv, Busy, Working, StartInv, Launches, StaleUrlInv, UnaskedInv

\* The inductive invariant of the workers' owners.
THEOREM KeptInvariant == Spec => [](IInv /\ KeptInv)
<1>1. Init => IInv /\ KeptInv
  BY InitInv, InitKept
<1>2. IInv /\ KeptInv /\ [Next]_vars => (IInv /\ KeptInv)'
  <2>1. IInv /\ [Next]_vars => IInv'
    BY TypeStep, ThreadStep, OwnerStep DEF IInv
  <2> QED
    BY <2>1, KeptStep
<1> QED
  BY <1>1, <1>2, PTL DEF Spec

\* Of the contexts of one URL, one at most is in the table or in the hands of a
\* call that has taken it out.
Held(c) == InTable(c) \/ TakenOut(c)
HeldOnce ==
  \A c, d \in Ctxs : Held(c) /\ Held(d) /\ ctx[c].url = ctx[d].url => c = d

LEMMA HeldByOne == IInv /\ KeptInv => HeldOnce
<1> SUFFICES ASSUME IInv, KeptInv, NEW c \in Ctxs, NEW d \in Ctxs,
                    Held(c), Held(d), ctx[c].url = ctx[d].url
             PROVE  c = d
  BY DEF HeldOnce
<1>1. \A e \in Ctxs : InTable(e) => map[ctx[e].url] = e
  BY Constants DEF IInv, OwnerInv, TableInv, InTable
<1>2. \A t \in Callers : call[t].pc = "reclaim" =>
        map[call[t].url] = NoCtx /\ ctx[call[t].stale].url = call[t].url
  BY DEF IInv, ThreadInv, AbsentInv, KeptInv, StaleUrlInv
<1>3. \A e \in Ctxs : TakenOut(e) => map[ctx[e].url] = NoCtx
  BY <1>2 DEF TakenOut
<1>4. \A s, t \in Callers : call[s].pc = "reclaim" /\ call[t].pc = "reclaim" => s = t
  BY DEF IInv, ThreadInv, MutexInv, Inside
<1>5. CASE InTable(c) /\ InTable(d)
  BY <1>1, <1>5
<1>6. CASE TakenOut(c) /\ TakenOut(d)
  BY <1>4, <1>6 DEF TakenOut
<1> QED
  BY <1>1, <1>3, <1>5, <1>6, Constants DEF Held

\* No thread is forgotten, and two threads write one file only if the sweep has
\* taken a running one out of the table.
THEOREM OneAtATime == Spec => []OneWorker
<1>1. ASSUME IInv, KeptInv PROVE OneWorker
  <2>1. \A c \in Ctxs : Owned(c) => Owners(c) # {}
    <3> SUFFICES ASSUME NEW c \in Ctxs, Owned(c) PROVE Owners(c) # {}
      OBVIOUS
    <3>1. ASSUME NEW u \in Urls, map[u] = c PROVE <<"table", u>> \in Owners(c)
      BY <3>1 DEF Owners
    <3>2. ASSUME NEW t \in Callers, call[t].pc = "reclaim", call[t].stale = c
          PROVE  <<"call", t>> \in Owners(c)
      BY <3>2 DEF Owners
    <3>3. Swept(c) => <<"sweep", Nobody>> \in Owners(c)
      BY DEF Owners, Swept
    <3> QED
      BY <3>1, <3>2, <3>3 DEF Owned, InTable, TakenOut
  <2>2. \A c \in Ctxs : Working(c) \/ ctx[c].thread = "done" =>
                           ctx[c].life = "live" /\ Owners(c) # {}
    BY <1>1, <2>1 DEF KeptInv, BusyInv, Busy
  <2>3. \A c \in Ctxs : Working(c) => Held(c) \/ Swept(c)
    BY <1>1 DEF KeptInv, BusyInv, Busy, Owned, Held
  <2>4. HeldOnce
    BY <1>1, HeldByOne
  <2> QED
    BY <2>2, <2>3, <2>4 DEF OneWorker, HeldOnce
<1> QED
  BY KeptInvariant, <1>1, PTL

-----------------------------------------------------------------------------
(* The refinement of Workers.                                              *)

\* What a context contributes to its URL's worker.
Share(c) == IF Reached(c) THEN Facts(c) ELSE {}

LEMMA WorkerOfOne ==
  ASSUME HeldOnce, NEW c \in Ctxs, Reached(c)
  PROVE  WorkerOf(ctx[c].url) = Facts(c)
<1>1. {d \in Ctxs : Reached(d) /\ ctx[d].url = ctx[c].url} = {c}
  BY DEF HeldOnce, Reached, Held
<1> QED
  BY <1>1 DEF WorkerOf

LEMMA WorkerOfNone ==
  ASSUME NEW u \in Urls, \A c \in Ctxs : Reached(c) => ctx[c].url # u
  PROVE  WorkerOf(u) = {}
BY DEF WorkerOf

\* A step that leaves a context's share as it is.
Fixed(c) == /\ Reached(c)' <=> Reached(c)
            /\ Reached(c) => Facts(c)' = Facts(c) /\ ctx'[c].url = ctx[c].url

LEMMA PoolFrame ==
  ASSUME \A c \in Ctxs : Fixed(c)
  PROVE  UNCHANGED [u \in Urls |-> WorkerOf(u)]
<1>1. ASSUME NEW u \in Urls PROVE WorkerOf(u)' = WorkerOf(u)
  <2>1. \A c \in Ctxs : Reached(c)' /\ ctx'[c].url = u <=> Reached(c) /\ ctx[c].url = u
    BY DEF Fixed
  <2>2. \A c \in Ctxs : Reached(c) => Facts(c)' = Facts(c)
    BY DEF Fixed
  <2> QED
    BY <2>1, <2>2 DEF WorkerOf
<1> QED
  BY <1>1

\* A step that changes the share of one context, which is reached before it or
\* after it, changes the worker of its URL.
Workmen == [u \in Urls |-> WorkerOf(u)]
LEMMA PoolChange ==
  ASSUME HeldOnce, HeldOnce', NEW c \in Ctxs, NEW u \in Urls,
         ctx[c].url = u, ctx'[c].url = u, Reached(c) \/ Reached(c)',
         \A d \in Ctxs : d # c => Fixed(d)
  PROVE  /\ Workmen[u] = Share(c)
         /\ Workmen' = [Workmen EXCEPT ![u] = Share(c)']
<1>1. \A d \in Ctxs : d # c =>
        /\ Reached(d) => ctx[d].url # u
        /\ Reached(d)' => ctx'[d].url # u
  BY DEF HeldOnce, Held, Reached, Fixed
<1>2. WorkerOf(u) = Share(c)
  <2>1. CASE Reached(c)
    BY <2>1, WorkerOfOne DEF Share
  <2>2. CASE ~Reached(c)
    BY <1>1, <2>2, WorkerOfNone DEF Share
  <2> QED
    BY <2>1, <2>2
<1>3. WorkerOf(u)' = Share(c)'
  <2>1. CASE Reached(c)'
    <3>1. {d \in Ctxs : Reached(d)' /\ ctx'[d].url = u} = {c}
      BY <1>1, <2>1
    <3> QED
      BY <2>1, <3>1 DEF Share, WorkerOf
  <2>2. CASE ~Reached(c)'
    <3>1. {d \in Ctxs : Reached(d)' /\ ctx'[d].url = u} = {}
      BY <1>1, <2>2
    <3> QED
      BY <2>2, <3>1 DEF Share, WorkerOf
  <2> QED
    BY <2>1, <2>2
<1>4. ASSUME NEW v \in Urls, v # u PROVE WorkerOf(v)' = WorkerOf(v)
  <2>1. \A d \in Ctxs :
          Reached(d)' /\ ctx'[d].url = v <=> Reached(d) /\ ctx[d].url = v
    BY <1>4 DEF Fixed
  <2>2. \A d \in Ctxs : Reached(d) /\ ctx[d].url = v => Facts(d)' = Facts(d)
    BY <1>4 DEF Fixed
  <2> QED
    BY <2>1, <2>2 DEF WorkerOf
<1> QED
  BY <1>2, <1>3, <1>4 DEF Workmen

LEMMA EndStep ==
  ASSUME HeldOnce, HeldOnce', NEW c \in Ctxs, ctx[c].url \in Urls,
         ctx'[c].url = ctx[c].url, ~Reached(c)',
         \A d \in Ctxs : d # c => Fixed(d)
  PROVE  Pool!Next \/ UNCHANGED Workmen
<1>1. PICK u \in Urls : u = ctx[c].url
  OBVIOUS
<1>2. CASE Reached(c)
  <2>1. Workmen[u] = Share(c) /\ Workmen' = [Workmen EXCEPT ![u] = Share(c)']
    BY <1>1, <1>2, PoolChange
  <2>2. "runs" \in Workmen[u] /\ Share(c)' = {}
    BY <1>2, <2>1 DEF Share, Facts
  <2>3. Pool!Ends(u)
    BY <2>1, <2>2 DEF Pool!Ends, Workmen
  <2> QED
    BY <2>3 DEF Pool!Next
<1>3. CASE ~Reached(c)
  <2>1. \A d \in Ctxs : Fixed(d)
    BY <1>3 DEF Fixed
  <2> QED
    BY <2>1, PoolFrame DEF Workmen
<1> QED
  BY <1>2, <1>3

LEMMA StartsStep ==
  ASSUME HeldOnce, HeldOnce', NEW c \in Ctxs, ctx[c].url \in Urls,
         UNCHANGED ctx, ~Reached(c), Reached(c)', ~ctx[c].pause, ~ctx[c].del,
         \A d \in Ctxs : d # c => Fixed(d)
  PROVE  Pool!Next
<1>1. PICK u \in Urls : u = ctx[c].url
  OBVIOUS
<1>2. Workmen[u] = Share(c) /\ Workmen' = [Workmen EXCEPT ![u] = Share(c)']
  BY <1>1, PoolChange
<1>3. Workmen[u] = {} /\ Share(c)' = {"runs"}
  BY <1>2 DEF Share, Facts
<1>4. Pool!Starts(u)
  BY <1>2, <1>3 DEF Pool!Starts, Workmen
<1> QED
  BY <1>4 DEF Pool!Next

\* A step that changes neither who holds a context nor what it was asked for.
LEMMA HeldFrame ==
  ASSUME \A c \in Ctxs :
           /\ ctx'[c].url = ctx[c].url
           /\ ctx'[c].pause = ctx[c].pause /\ ctx'[c].del = ctx[c].del
           /\ Reached(c)' <=> Reached(c)
  PROVE  Pool!Next \/ UNCHANGED Workmen
<1>1. \A c \in Ctxs : Fixed(c)
  BY DEF Fixed, Facts
<1> QED
  BY <1>1, PoolFrame DEF Workmen

LEMMA AskStep ==
  ASSUME IInv, HeldOnce, HeldOnce', NEW t \in Users, NEW u \in Urls,
         PauseTask(t, u) \/ DeleteTask(t, u)
  PROVE  Pool!Next \/ UNCHANGED Workmen
<1>1. /\ UNCHANGED <<map, call, sweep>>
      /\ \A d \in Ctxs : d # map[u] => ctx'[d] = ctx[d]
      /\ \A d \in Ctxs : ctx'[d].thread = ctx[d].thread /\ ctx'[d].url = ctx[d].url
  BY AskedFacts, AskEffect DEF IInv
<1>2. \A d \in Ctxs : /\ Reached(d)' <=> Reached(d)
                      /\ d # map[u] => Fixed(d)
  BY <1>1 DEF Reached, Working, InTable, TakenOut, Fixed, Facts
<1>3. CASE \E c \in Ctxs : c = map[u] /\ Reached(c)
  <2>1. PICK c \in Ctxs : c = map[u] /\ Reached(c)
    BY <1>3
  <2>2. ctx[c].url = u /\ map[u] # NoCtx
    BY <2>1, Constants DEF IInv, OwnerInv, TableInv
  <2>3. Workmen[u] = Share(c) /\ Workmen' = [Workmen EXCEPT ![u] = Share(c)']
    BY <1>1, <1>2, <2>1, <2>2, PoolChange
  <2>4. /\ PauseTask(t, u) => Share(c)' = Share(c) \cup {"pause"}
        /\ DeleteTask(t, u) => Share(c)' = Share(c) \cup {"delete"}
    <3>1. /\ PauseTask(t, u) => ctx'[c].pause /\ ctx'[c].del = ctx[c].del
          /\ DeleteTask(t, u) => ctx'[c].del /\ ctx'[c].pause = ctx[c].pause
      BY <2>1, <2>2, AskedFacts DEF IInv
    <3>2. PauseTask(t, u) => Share(c)' = Share(c) \cup {"pause"}
      BY <1>2, <2>1, <3>1 DEF Share, Facts
    <3>3. DeleteTask(t, u) => Share(c)' = Share(c) \cup {"delete"}
      BY <1>2, <2>1, <3>1 DEF Share, Facts
    <3> QED
      BY <3>2, <3>3
  <2>5. "runs" \in Workmen[u]
    BY <2>1, <2>3 DEF Share, Facts
  <2>6. Pool!Asks(u, "pause") \/ Pool!Asks(u, "delete")
    BY <2>3, <2>4, <2>5 DEF Pool!Asks, Workmen
  <2> QED
    BY <2>6 DEF Pool!Next
<1>4. CASE ~ \E c \in Ctxs : c = map[u] /\ Reached(c)
  <2>1. \A d \in Ctxs : Fixed(d)
    BY <1>2, <1>4 DEF Fixed
  <2> QED
    BY <2>1, PoolFrame DEF Workmen
<1> QED
  BY <1>3, <1>4

LEMMA QuietStep ==
  ASSUME UNCHANGED tableVars,
         \A t \in Callers : call'[t] # call[t] =>
           call[t].pc # "reclaim" /\ call'[t].pc # "reclaim"
  PROVE  Pool!Next \/ UNCHANGED Workmen
<1>1. \A c \in Ctxs : /\ TakenOut(c)' <=> TakenOut(c)
                      /\ Reached(c)' <=> Reached(c)
  BY DEF TakenOut, Reached, Working, InTable, tableVars
<1> QED
  BY <1>1, HeldFrame DEF tableVars

LEMMA PoolStep ==
  ASSUME IInv, KeptInv, HeldOnce, HeldOnce', Next
  PROVE  Pool!Next \/ UNCHANGED Workmen
<1> USE DEF IInv
<1>0. /\ \A u \in Urls : map[u] # NoCtx => map[u] \in Ctxs /\ ctx[map[u]].url = u
      /\ sweep.pc = "join" => sweep.own \in Ctxs
      /\ \A t \in Callers :
           /\ call[t].url \in Urls
           /\ call[t].pc = "reclaim" => call[t].stale \in Ctxs
           /\ call[t].pc \in {"insert", "persist", "start", "log"} => call[t].new \in Ctxs
      /\ ctx \in [Ctxs -> CtxType]
      /\ \A c \in Ctxs : ctx[c].url \in Urls
  BY DEF TypeOK, CallType, SweepType, CtxType, OwnerInv, TableInv
<1>1. ASSUME NEW t \in Users, NEW u \in Urls, AddTask(t, u)
      PROVE  Pool!Next \/ UNCHANGED Workmen
  <2>1. /\ call'[t].pc = "lock" /\ call[t].pc = "idle"
        /\ \A s \in Callers : s # t => call'[s] = call[s]
        /\ UNCHANGED tableVars
    BY <1>1, Constants DEF AddTask, Calls, TypeOK, Idle
  <2>2. \A s \in Callers : call'[s] # call[s] =>
          call[s].pc # "reclaim" /\ call'[s].pc # "reclaim"
    BY <2>1
  <2> QED
    BY <2>1, <2>2, QuietStep
<1>2. ASSUME NEW t \in Users, NEW u \in Urls, ResumeTask(t, u)
      PROVE  Pool!Next \/ UNCHANGED Workmen
  BY <1>2, QuietStep DEF ResumeTask
<1>3. ASSUME NEW t \in Users, NEW u \in Urls, PauseTask(t, u) \/ DeleteTask(t, u)
      PROVE  Pool!Next \/ UNCHANGED Workmen
  BY <1>3, AskStep
<1>4. ASSUME NEW u \in Urls, Dispatch(u) PROVE Pool!Next \/ UNCHANGED Workmen
  <2>1. /\ call'[Scheduler].pc = "admit" /\ call[Scheduler].pc = "idle"
        /\ \A s \in Callers : s # Scheduler => call'[s] = call[s]
        /\ UNCHANGED tableVars
    BY <1>4, Constants DEF Dispatch, Frame, TypeOK, Idle
  <2>2. \A s \in Callers : call'[s] # call[s] =>
          call[s].pc # "reclaim" /\ call'[s].pc # "reclaim"
    BY <2>1
  <2> QED
    BY <2>1, <2>2, QuietStep
<1>5. ASSUME NEW t \in Callers, CallStep(t) PROVE Pool!Next \/ UNCHANGED Workmen
  <2>a. ASSUME UNCHANGED tableVars, call[t].pc # "reclaim",
               \A s \in Callers : s # t => call'[s] = call[s],
               call'[t].pc # "reclaim"
        PROVE  Pool!Next \/ UNCHANGED Workmen
    <3>1. \A s \in Callers : call'[s] # call[s] =>
            call[s].pc # "reclaim" /\ call'[s].pc # "reclaim"
      BY <2>a
    <3> QED
      BY <2>a, <3>1, QuietStep
  <2>1. CASE Lock(t)
    <3>1. call'[t].pc = "check" /\ \A s \in Callers : s # t => call'[s] = call[s]
      BY <2>1, GoesEffect DEF Lock
    <3> QED
      BY <2>1, <2>a, <3>1 DEF Lock
  <2>2. CASE Check(t)
    <3>0. Inside(t) /\ UNCHANGED ctx /\ call[t].pc = "check"
      BY <2>2 DEF Check, Inside
    <3>1. CASE Goes(t, "create") /\ UNCHANGED map
      <4>1. call'[t].pc = "create" /\ \A s \in Callers : s # t => call'[s] = call[s]
        BY <3>1, GoesEffect
      <4> QED
        BY <2>a, <3>0, <3>1, <4>1 DEF tableVars
    <3>2. CASE Returns(t, "success") /\ UNCHANGED map
      BY <2>a, <3>0, <3>2, ReturnsEffect DEF tableVars
    <3>3. CASE /\ map[call[t].url] # NoCtx /\ TakeOut(call[t].url)
               /\ call' = [call EXCEPT ![t].pc = "reclaim", ![t].stale = map[call[t].url]]
      <4>1. PICK u \in Urls, c \in Ctxs : u = call[t].url /\ c = map[u]
        BY <1>0, <3>3
      <4>2. /\ call'[t].pc = "reclaim" /\ call'[t].stale = c
            /\ \A s \in Callers : s # t => call'[s] = call[s]
        BY <3>3, <4>1 DEF TypeOK, CallType
      <4>3. map'[u] = NoCtx /\ \A v \in Urls : v # u => map'[v] = map[v]
        BY <3>3, <4>1 DEF TakeOut, TypeOK
      <4>4. \A d \in Ctxs : d # c => (InTable(d)' <=> InTable(d))
        BY <4>1, <4>3, Constants DEF InTable
      <4>5. \A d \in Ctxs : d # c => (TakenOut(d)' <=> TakenOut(d))
        BY <3>0, <4>2 DEF TakenOut
      <4>6. InTable(c) /\ TakenOut(c)'
        BY <4>1, <4>2 DEF InTable, TakenOut
      <4>7. \A d \in Ctxs : Reached(d)' <=> Reached(d)
        BY <3>0, <4>4, <4>5, <4>6 DEF Reached, Working
      <4> QED
        BY <3>0, <4>7, HeldFrame
    <3> QED
      BY <2>2, <3>1, <3>2, <3>3 DEF Check
  <2>3. CASE ReclaimStale(t)
    <3>1. PICK c \in Ctxs : c = call[t].stale
      BY <1>0, <2>3 DEF ReclaimStale
    <3>2. Inside(t) /\ call[t].pc = "reclaim" /\ UNCHANGED map /\ Joinable(c) /\ Reclaim(c)
      BY <2>3, <3>1 DEF ReclaimStale, Inside
    <3>3. /\ call'[t].pc = "create" /\ \A s \in Callers : s # t => call'[s] = call[s]
      BY <2>3, GoesEffect DEF ReclaimStale
    <3>4. ctx'[c].url = ctx[c].url /\ \A d \in Ctxs : d # c => ctx'[d] = ctx[d]
      BY <1>0, <3>2, ReclaimEffect
    <3>5. \A d \in Ctxs : ~TakenOut(d)' /\ (TakenOut(d) => d = c)
      BY <3>1, <3>2, <3>3, Alone DEF TakenOut
    <3>6. ~InTable(c)
      BY <3>1, <3>2 DEF OwnerInv, StaleInv
    <3>7. ~Reached(c)' /\ \A d \in Ctxs : d # c => Fixed(d)
      BY <3>2, <3>4, <3>5, <3>6 DEF Reached, Working, Fixed, Facts, InTable
    <3> QED
      BY <1>0, <3>4, <3>7, EndStep
  <2>4. CASE Create(t)
    <3>0. Inside(t) /\ UNCHANGED map /\ call[t].pc = "create"
      BY <2>4 DEF Create, Inside
    <3>1. CASE Returns(t, "failure") /\ UNCHANGED ctx
      BY <2>a, <3>0, <3>1, ReturnsEffect DEF tableVars
    <3>2. ASSUME NEW c \in Unused, ctx' = [ctx EXCEPT ![c] = FreshCtx(call[t].url)],
                 call' = [call EXCEPT ![t].pc = "insert", ![t].new = c]
          PROVE  Pool!Next \/ UNCHANGED Workmen
      <4>1. /\ c \in Ctxs /\ ctx[c].life = "unused" /\ c # NoCtx
            /\ \A d \in Ctxs : d # c => ctx'[d] = ctx[d]
            /\ call'[t].pc = "insert"
            /\ \A s \in Callers : s # t => call'[s] = call[s]
        BY <3>2, CreateEffect
      <4>2. ~InTable(c) /\ ~TakenOut(c)
        BY <4>1 DEF OwnerInv, TableInv, StaleInv, InTable, TakenOut
      <4>3. \A d \in Ctxs : /\ InTable(d)' <=> InTable(d)
                            /\ TakenOut(d)' <=> TakenOut(d)
        BY <3>0, <4>1 DEF InTable, TakenOut
      <4>4. \A d \in Ctxs : Fixed(d)
        BY <4>1, <4>2, <4>3 DEF Fixed, Reached, Working, Facts
      <4> QED
        BY <4>4, PoolFrame DEF Workmen
    <3> QED
      BY <2>4, <3>1, <3>2 DEF Create
  <2>5. CASE Insert(t)
    <3>0. PICK u \in Urls, c \in Ctxs : u = call[t].url /\ c = call[t].new
      BY <1>0, <2>5 DEF Insert
    <3>1. Inside(t) /\ call[t].pc = "insert" /\ map[u] = NoCtx
      BY <3>0, <2>5 DEF Insert, Inside, ThreadInv, AbsentInv
    <3>2. /\ map' = [map EXCEPT ![u] = c] /\ UNCHANGED ctx
          /\ \E pc \in {"persist", "start"} : Goes(t, pc)
      BY <2>5, <3>0, <3>1 DEF Insert
    <3>3. /\ call'[t].pc \in {"persist", "start"}
          /\ \A s \in Callers : s # t => call'[s] = call[s]
      BY <3>0, <3>1, <3>2, GoesEffect, Constants
    <3>4. /\ ctx[c].url = u /\ ~InTable(c) /\ ctx[c].thread = "none"
          /\ ~ctx[c].pause /\ ~ctx[c].del
      BY <3>0, <3>1 DEF OwnerInv, NewInv, ThreadInv, FreshInv, KeptInv, UnaskedInv
    <3>5. map'[u] = c /\ \A v \in Urls : v # u => map'[v] = map[v]
      BY <3>1, <3>2 DEF TypeOK
    <3>6. \A d \in Ctxs : ~TakenOut(d) /\ ~TakenOut(d)'
      BY <3>1, <3>3, Alone DEF TakenOut
    <3>7. \A d \in Ctxs : d # c => (InTable(d)' <=> InTable(d))
      BY <3>1, <3>5, Constants DEF InTable
    <3>8. InTable(c)'
      BY <3>5 DEF InTable
    <3>9. ~Reached(c) /\ Reached(c)' /\ \A d \in Ctxs : d # c => Fixed(d)
      BY <3>2, <3>4, <3>6, <3>7, <3>8 DEF Reached, Working, Fixed, Facts
    <3> QED
      BY <1>0, <3>2, <3>4, <3>9, StartsStep
  <2>6. CASE Persist(t)
    <3>0. /\ Inside(t) /\ call[t].pc = "persist" /\ call[t].new # NoCtx
      BY <2>6 DEF Persist, Inside, TypeOK
    <3>1. CASE Goes(t, "start") /\ UNCHANGED tableVars
      <4>1. call'[t].pc = "start" /\ \A s \in Callers : s # t => call'[s] = call[s]
        BY <3>0, <3>1, GoesEffect
      <4> QED
        BY <2>a, <3>0, <3>1, <4>1
    <3>2. CASE /\ TakeOut(call[t].url)
               /\ IF map[call[t].url] = NoCtx THEN UNCHANGED ctx
                  ELSE Reclaim(map[call[t].url])
               /\ Returns(t, "failure")
      <4>1. call'[t].pc = "idle" /\ \A s \in Callers : s # t => call'[s] = call[s]
        BY <3>2, ReturnsEffect
      <4>2. PICK u \in Urls : u = call[t].url
        BY <1>0
      <4>3. map'[u] = NoCtx /\ \A v \in Urls : v # u => map'[v] = map[v]
        BY <3>2, <4>2 DEF TakeOut, TypeOK
      <4>4. \A d \in Ctxs : ~TakenOut(d) /\ ~TakenOut(d)'
        BY <3>0, <4>1, Alone DEF TakenOut
      <4>5. CASE map[u] = NoCtx
        <5>1. \A d \in Ctxs : InTable(d)' <=> InTable(d)
          BY <4>3, <4>5, Constants DEF InTable
        <5>2. UNCHANGED ctx
          BY <3>2, <4>2, <4>5
        <5>3. \A d \in Ctxs : Reached(d)' <=> Reached(d)
          BY <4>4, <5>1, <5>2 DEF Reached, Working
        <5> QED
          BY <5>2, <5>3, HeldFrame
      <4>6. CASE map[u] # NoCtx
        <5>1. PICK c \in Ctxs : c = map[u] /\ ctx[c].url = u
          BY <1>0, <4>6
        <5>2. ctx'[c].url = ctx[c].url /\ \A d \in Ctxs : d # c => ctx'[d] = ctx[d]
          BY <1>0, <3>2, <4>2, <4>6, <5>1, ReclaimEffect
        <5>3. ~InTable(c)'
          BY <1>0, <4>3, <5>1, Constants DEF InTable
        <5>4. \A d \in Ctxs : d # c => (InTable(d)' <=> InTable(d))
          BY <4>3, <5>1, Constants DEF InTable
        <5>5. ~Reached(c)' /\ \A d \in Ctxs : d # c => Fixed(d)
          BY <4>4, <5>2, <5>3, <5>4 DEF Reached, Working, Fixed, Facts
        <5> QED
          BY <1>0, <5>2, <5>5, EndStep
      <4> QED
        BY <4>5, <4>6
    <3> QED
      BY <2>6, <3>1, <3>2 DEF Persist
  <2>7. CASE Start(t)
    <3>1. /\ call[t].new \in Ctxs /\ call[t].new # NoCtx /\ UNCHANGED map
          /\ Goes(t, "log") /\ call[t].pc = "start"
          /\ ctx[call[t].new].thread = "none"
      BY <1>0, <2>7 DEF Start, TypeOK, ThreadInv, FreshInv
    <3>2. call'[t].pc = "log" /\ \A s \in Callers : s # t => call'[s] = call[s]
      BY <3>1, GoesEffect
    <3>3. \A c \in Ctxs :
            /\ ctx'[c].url = ctx[c].url
            /\ ctx'[c].pause = ctx[c].pause /\ ctx'[c].del = ctx[c].del
            /\ \/ ctx'[c].thread = ctx[c].thread
               \/ ctx[c].thread = "none" /\ ctx'[c].thread = "build"
      BY <2>7, <3>1, StartEffect
    <3>4. \A d \in Ctxs : /\ InTable(d)' <=> InTable(d)
                          /\ TakenOut(d)' <=> TakenOut(d)
      BY <3>1, <3>2 DEF InTable, TakenOut
    <3>5. \A d \in Ctxs : Reached(d)' <=> Reached(d)
      BY <3>3, <3>4 DEF Reached, Working
    <3> QED
      BY <3>3, <3>5, HeldFrame
  <2>8. CASE Log(t)
    <3>1. Returns(t, "success") /\ UNCHANGED tableVars /\ call[t].pc = "log"
      BY <2>8 DEF Log
    <3> QED
      BY <2>a, <3>1, ReturnsEffect
  <2>9. CASE t = Scheduler /\ Admit
    <3>0. UNCHANGED tableVars /\ call[t].pc = "admit"
      BY <2>9 DEF Admit
    <3>1. CASE Returns(t, "wait")
      BY <2>a, <3>0, <3>1, ReturnsEffect
    <3>2. CASE Goes(t, "check")
      <4>1. call'[t].pc = "check" /\ \A s \in Callers : s # t => call'[s] = call[s]
        BY <3>2, GoesEffect
      <4> QED
        BY <2>a, <3>0, <4>1
    <3> QED
      BY <2>9, <3>1, <3>2 DEF Admit
  <2> QED
    BY <1>5, <2>1, <2>2, <2>3, <2>4, <2>5, <2>6, <2>7, <2>8, <2>9 DEF CallStep
<1>6. ASSUME NEW c \in Ctxs, WorkerStep(c) PROVE Pool!Next \/ UNCHANGED Workmen
  <2>1. /\ ctx[c].thread \in Going /\ ctx'[c].thread \in Going \cup {"done"}
        /\ ctx'[c].url = ctx[c].url
        /\ ctx'[c].pause = ctx[c].pause /\ ctx'[c].del = ctx[c].del
        /\ \A d \in Ctxs : d # c => ctx'[d] = ctx[d]
    BY <1>6, WorkerEffect
  <2>2. UNCHANGED <<map, call>>
    BY <1>6 DEF WorkerStep, WorkerBuild, WorkerLoop, WorkerEmit, WorkerFrame
  <2>3. \A d \in Ctxs : /\ InTable(d)' <=> InTable(d)
                        /\ TakenOut(d)' <=> TakenOut(d)
    BY <2>2 DEF InTable, TakenOut
  <2>4. CASE ctx'[c].thread \in Going
    <3>1. \A d \in Ctxs : Reached(d)' <=> Reached(d)
      BY <2>1, <2>3, <2>4 DEF Reached, Working, Going
    <3> QED
      BY <2>1, <3>1, HeldFrame
  <2>5. CASE ctx'[c].thread = "done"
    <3>1. ~Reached(c)' /\ \A d \in Ctxs : d # c => Fixed(d)
      BY <2>1, <2>3, <2>5 DEF Reached, Working, Fixed, Facts
    <3> QED
      BY <1>0, <2>1, <3>1, EndStep
  <2> QED
    BY <2>1, <2>4, <2>5
<1>7. ASSUME SweepStep PROVE Pool!Next \/ UNCHANGED Workmen
  <2>0. UNCHANGED call /\ \A d \in Ctxs : TakenOut(d)' <=> TakenOut(d)
    BY <1>7 DEF SweepStep, SweepCollect, SweepTake, SweepJoin, SweepFrame, TakenOut
  <2>1. CASE SweepCollect
    BY <2>0, <2>1, QuietStep DEF SweepCollect
  <2>2. CASE SweepTake
    <3>1. CASE UNCHANGED map
      BY <2>0, <2>2, <3>1, QuietStep DEF SweepTake, tableVars
    <3>2. ASSUME NEW u \in sweep.todo, map[u] # NoCtx, TakeOut(u)
          PROVE  Pool!Next \/ UNCHANGED Workmen
      <4>1. u \in Urls /\ map'[u] = NoCtx /\ \A v \in Urls : v # u => map'[v] = map[v]
        BY <3>2 DEF TakeOut, TypeOK, SweepType
      <4>2. PICK c \in Ctxs : c = map[u] /\ ctx[c].url = u
        BY <1>0, <3>2, <4>1
      <4>3. ~InTable(c)' /\ InTable(c)
        BY <1>0, <4>1, <4>2, Constants DEF InTable
      <4>4. \A d \in Ctxs : d # c => (InTable(d)' <=> InTable(d))
        BY <4>1, <4>2, Constants DEF InTable
      <4>5. ~TakenOut(c)
        BY <4>3 DEF OwnerInv, StaleInv, TakenOut
      <4>6. UNCHANGED ctx
        BY <2>2 DEF SweepTake
      <4>7. ~Reached(c)' /\ \A d \in Ctxs : d # c => Fixed(d)
        BY <2>0, <4>3, <4>4, <4>5, <4>6 DEF Reached, Working, Fixed, Facts
      <4> QED
        BY <1>0, <4>6, <4>7, EndStep
    <3> QED
      BY <2>2, <3>1, <3>2 DEF SweepTake
  <2>3. CASE SweepJoin
    <3>1. PICK c \in Ctxs : c = sweep.own
      BY <1>0, <2>3 DEF SweepJoin, Sweeps
    <3>2. sweep.pc = "join" /\ UNCHANGED map
      BY <2>3 DEF SweepJoin, Sweeps
    <3>3. \A d \in Ctxs : d # c => ctx'[d] = ctx[d]
      BY <1>0, <2>3, <3>1, ReclaimEffect DEF SweepJoin
    <3>4. ~InTable(c) /\ ~TakenOut(c)
      BY <3>1, <3>2 DEF OwnerInv, SweepInv, StaleInv, TakenOut
    <3>5. \A d \in Ctxs : Fixed(d)
      BY <2>0, <3>2, <3>3, <3>4 DEF Reached, Working, Fixed, Facts, InTable
    <3> QED
      BY <3>5, PoolFrame DEF Workmen
  <2> QED
    BY <1>7, <2>1, <2>2, <2>3 DEF SweepStep
<1>8. CASE DestroyCancel
  <2>1. UNCHANGED <<map, call>>
    BY <1>8 DEF DestroyCancel, DestroyFrame
  <2>2. \A c \in Ctxs : /\ ctx'[c].url = ctx[c].url /\ ctx'[c].thread = ctx[c].thread
                        /\ ctx'[c].pause = ctx[c].pause /\ ctx'[c].del = ctx[c].del
    BY <1>0, <1>8 DEF DestroyCancel, CtxType
  <2>3. \A d \in Ctxs : Reached(d)' <=> Reached(d)
    BY <2>1, <2>2 DEF Reached, Working, InTable, TakenOut
  <2> QED
    BY <2>2, <2>3, HeldFrame
<1>9. CASE DestroyLock
  BY <1>9, QuietStep DEF DestroyLock, DestroyFrame
<1>10. CASE DestroyJoin
  <2>1. \A t \in Callers : call'[t].pc = "idle"
    BY <1>10 DEF DestroyJoin, DestroyFrame, ThreadInv, QuietInv
  <2>2. \A d \in Ctxs : ~Reached(d)'
    BY <1>10, <2>1, Constants DEF DestroyJoin, Reached, InTable, TakenOut
  <2>3. \A u \in Urls : WorkerOf(u)' = {}
    BY <2>2 DEF WorkerOf
  <2>4. Pool!AllEnd
    BY <2>3 DEF Pool!AllEnd
  <2> QED
    BY <2>4 DEF Pool!Next
<1> QED
  BY <1>1, <1>2, <1>3, <1>4, <1>5, <1>6, <1>7, <1>8, <1>9, <1>10 DEF Next, DestroyStep

\* The engine implements Workers: nothing but a call that finds none gives a
\* download a worker, and what that was asked for stays asked until it ends.
THEOREM EngineKeepsWorkers == Spec => WorkersSpec
<1>1. Init => Pool!Init
  <2> SUFFICES ASSUME Init PROVE Pool!Init
    OBVIOUS
  <2>1. \A t \in Callers : call[t].pc = "idle"
    <3>1. PICK u \in Urls : u = CHOOSE v \in Urls : TRUE
      BY Constants
    <3> QED
      BY <3>1, IdleType DEF Init
  <2>2. \A d \in Ctxs : ~Reached(d)
    BY <2>1, Constants DEF Init, Reached, InTable, TakenOut
  <2>3. \A u \in Urls : WorkerOf(u) = {}
    BY <2>2 DEF WorkerOf
  <2> QED
    BY <2>3 DEF Pool!Init
<1>2. IInv /\ KeptInv => HeldOnce
  BY HeldByOne
<1>3. IInv /\ KeptInv /\ HeldOnce /\ HeldOnce' /\ [Next]_vars =>
        [Pool!Next]_Workmen
  <2>1. ASSUME UNCHANGED vars PROVE UNCHANGED Workmen
    <3>1. \A c \in Ctxs : Fixed(c)
      BY <2>1 DEF vars, tableVars, Fixed, Reached, Facts, Working, InTable, TakenOut
    <3> QED
      BY <3>1, PoolFrame DEF Workmen
  <2> QED
    BY <2>1, PoolStep
<1> QED
  BY <1>1, <1>2, <1>3, KeptInvariant, PTL DEF Spec, WorkersSpec, Pool!Spec, Workmen

-----------------------------------------------------------------------------
(* Joins.                                                                  *)

\* A thread that is joined is over or will see that it is to end.
Ending(c) == ctx[c].thread = "done" \/ ctx[c].cancel

\* A deletion also cancels; what a call joins, and what destroy does, is ending.
DelInv == \A c \in Ctxs : ctx[c].del => ctx[c].cancel
JoinInv ==
  /\ \A t \in Callers : call[t].pc = "reclaim" => Ending(call[t].stale)
  /\ destroy \in {"cancel", "join"} => \A c \in Ctxs : InTable(c) => Ending(c)

\* A step that takes back no request and restarts no thread.
Lasts(c) ==
  /\ (ctx[c].del => ctx[c].cancel) => (ctx'[c].del => ctx'[c].cancel)
  /\ ctx[c].life = "live" /\ ctx'[c].life = "live" /\ Ending(c) => Ending(c)'

LEMMA ReclaimLasts ==
  ASSUME TypeOK, NEW d \in Ctxs, Reclaim(d) PROVE \A c \in Ctxs : Lasts(c)
<1> DEFINE th == IF ctx[d].thread = "done" THEN "joined" ELSE ctx[d].thread
           new == [[ctx[d] EXCEPT !.life = "freed"] EXCEPT !.thread = th]
<1>1. ctx \in [Ctxs -> CtxType] /\ ctx[d] \in CtxType
  BY DEF TypeOK
<1>2. new.life = "freed" /\ new.del = ctx[d].del /\ new.cancel = ctx[d].cancel
  BY <1>1 DEF CtxType
<1>3. ctx' = [ctx EXCEPT ![d] = new]
  BY <1>1 DEF Reclaim, CtxType
<1> HIDE DEF new
<1>4. ctx'[d] = new /\ \A c \in Ctxs : c # d => ctx'[c] = ctx[c]
  BY <1>1, <1>3
<1> QED
  BY <1>2, <1>4 DEF Lasts, Ending

LEMMA AskLasts ==
  ASSUME TypeOK, NEW t \in Users, NEW u \in Urls, PauseTask(t, u) \/ DeleteTask(t, u)
  PROVE  \A c \in Ctxs : Lasts(c)
<1>1. map[u] \in Ctxs \cup {NoCtx} /\ ctx \in [Ctxs -> CtxType]
  BY DEF TypeOK
<1>2. CASE map[u] = NoCtx
  BY <1>2 DEF PauseTask, DeleteTask, Lasts, Ending
<1>3. CASE map[u] # NoCtx
  <2> DEFINE c == map[u]
             paused == [ctx[c] EXCEPT !.pause = TRUE]
             deleted == [[ctx[c] EXCEPT !.cancel = TRUE] EXCEPT !.del = TRUE]
  <2>1. c \in Ctxs /\ ctx[c] \in CtxType
    BY <1>1, <1>3
  <2>2. ctx' = [ctx EXCEPT ![c] = paused] \/ ctx' = [ctx EXCEPT ![c] = deleted]
    BY <1>1, <1>3 DEF PauseTask, DeleteTask
  <2>3. /\ paused.cancel = ctx[c].cancel /\ paused.del = ctx[c].del
        /\ paused.thread = ctx[c].thread /\ deleted.cancel
    BY <2>1 DEF CtxType
  <2> HIDE DEF c, paused, deleted
  <2>4. /\ ctx'[c] \in {paused, deleted}
        /\ \A d \in Ctxs : d # c => ctx'[d] = ctx[d]
    BY <1>1, <2>1, <2>2
  <2> QED
    BY <2>3, <2>4 DEF Lasts, Ending
<1> QED
  BY <1>2, <1>3

LEMMA EverythingLasts ==
  ASSUME IInv, Next PROVE \A c \in Ctxs : Lasts(c)
<1> USE DEF IInv
<1>0. ctx \in [Ctxs -> CtxType]
  BY DEF TypeOK
<1>1. ASSUME UNCHANGED ctx PROVE \A c \in Ctxs : Lasts(c)
  BY <1>1 DEF Lasts, Ending
<1>2. ASSUME NEW t \in Users, NEW u \in Urls,
             AddTask(t, u) \/ ResumeTask(t, u) \/ PauseTask(t, u) \/ DeleteTask(t, u)
      PROVE  \A c \in Ctxs : Lasts(c)
  <2>1. CASE AddTask(t, u) \/ ResumeTask(t, u)
    BY <1>1, <2>1 DEF AddTask, ResumeTask, tableVars
  <2> QED
    BY <1>2, <2>1, AskLasts
<1>3. ASSUME NEW u \in Urls, Dispatch(u) PROVE \A c \in Ctxs : Lasts(c)
  BY <1>1, <1>3 DEF Dispatch, tableVars
<1>4. ASSUME NEW t \in Callers, CallStep(t) PROVE \A c \in Ctxs : Lasts(c)
  <2>1. CASE Lock(t) \/ Check(t) \/ Log(t) \/ Admit
    BY <1>1, <2>1 DEF Lock, Check, Log, Admit, tableVars
  <2>2. CASE ReclaimStale(t)
    <3>1. call[t].stale \in Ctxs
      BY <2>2 DEF ReclaimStale, TypeOK, CallType
    <3> QED
      BY <2>2, <3>1, ReclaimLasts DEF ReclaimStale
  <2>3. CASE Create(t)
    <3>1. ASSUME NEW c \in Unused,
                 ctx' = [ctx EXCEPT ![c] = FreshCtx(call[t].url)],
                 call' = [call EXCEPT ![t].pc = "insert", ![t].new = c]
          PROVE  \A d \in Ctxs : Lasts(d)
      <4>1. /\ ctx[c].life = "unused" /\ ctx'[c] = FreshCtx(call[t].url)
            /\ \A d \in Ctxs : d # c => ctx'[d] = ctx[d]
        BY <3>1, CreateEffect
      <4>2. ~ctx'[c].del
        BY <4>1 DEF FreshCtx
      <4> QED
        BY <4>1, <4>2 DEF Lasts, Ending
    <3> QED
      BY <1>1, <2>3, <3>1 DEF Create
  <2>4. CASE Insert(t)
    <3>1. CASE UNCHANGED ctx
      BY <1>1, <3>1
    <3>2. CASE Reclaim(call[t].new)
      <4>1. call[t].new \in Ctxs
        BY <2>4 DEF Insert, TypeOK, CallType
      <4> QED
        BY <3>2, <4>1, ReclaimLasts
    <3> QED
      BY <2>4, <3>1, <3>2 DEF Insert
  <2>5. CASE Persist(t)
    <3>1. CASE UNCHANGED ctx
      BY <1>1, <3>1
    <3>2. CASE map[call[t].url] # NoCtx /\ Reclaim(map[call[t].url])
      <4>1. map[call[t].url] \in Ctxs
        BY <3>2 DEF TypeOK, CallType
      <4> QED
        BY <3>2, <4>1, ReclaimLasts
    <3> QED
      BY <2>5, <3>1, <3>2 DEF Persist, tableVars
  <2>6. CASE Start(t)
    <3>1. \A c \in Ctxs :
            /\ ctx'[c].del = ctx[c].del /\ ctx'[c].cancel = ctx[c].cancel
            /\ ctx'[c].thread = ctx[c].thread \/ c = call[t].new
      BY <2>6, StartEffect
    <3>2. ctx[call[t].new].thread = "none"
      BY <2>6 DEF Start, ThreadInv, FreshInv
    <3> QED
      BY <3>1, <3>2 DEF Lasts, Ending
  <2> QED
    BY <1>4, <2>1, <2>2, <2>3, <2>4, <2>5, <2>6 DEF CallStep
<1>5. ASSUME NEW d \in Ctxs, WorkerStep(d) PROVE \A c \in Ctxs : Lasts(c)
  <2>1. /\ ctx[d].thread \in Going
        /\ ctx'[d].del = ctx[d].del /\ ctx'[d].cancel = ctx[d].cancel
        /\ \A c \in Ctxs : c # d => ctx'[c] = ctx[c]
    BY <1>5, WorkerEffect
  <2> QED
    BY <2>1 DEF Lasts, Ending, Going
<1>6. ASSUME SweepStep PROVE \A c \in Ctxs : Lasts(c)
  <2>1. CASE SweepCollect \/ SweepTake
    BY <1>1, <2>1 DEF SweepCollect, SweepTake, tableVars
  <2>2. CASE SweepJoin
    <3>1. sweep.own \in Ctxs
      BY <2>2 DEF SweepJoin, Sweeps, TypeOK, SweepType
    <3> QED
      BY <2>2, <3>1, ReclaimLasts DEF SweepJoin
  <2> QED
    BY <1>6, <2>1, <2>2 DEF SweepStep
<1>7. ASSUME DestroyCancel PROVE \A c \in Ctxs : Lasts(c)
  <2>1. ASSUME NEW c \in Ctxs PROVE Lasts(c)
    <3>1. ctx'[c] = IF InTable(c) THEN [ctx[c] EXCEPT !.cancel = TRUE] ELSE ctx[c]
      BY <1>7 DEF DestroyCancel
    <3>2. /\ [ctx[c] EXCEPT !.cancel = TRUE].cancel
          /\ [ctx[c] EXCEPT !.cancel = TRUE].thread = ctx[c].thread
      BY <1>0 DEF CtxType
    <3> QED
      BY <3>1, <3>2 DEF Lasts, Ending
  <2> QED
    BY <2>1
<1>8. ASSUME DestroyStep PROVE \A c \in Ctxs : Lasts(c)
  <2>1. CASE DestroyLock
    BY <1>1, <2>1 DEF DestroyLock, tableVars
  <2>2. CASE DestroyJoin
    <3>1. ASSUME NEW c \in Ctxs PROVE Lasts(c)
      <4> DEFINE new == [[ctx[c] EXCEPT !.life = "freed"] EXCEPT !.thread = "joined"]
      <4>1. ctx'[c] = IF InTable(c) THEN new ELSE ctx[c]
        BY <1>0, <2>2 DEF DestroyJoin, CtxType
      <4>2. new.life = "freed" /\ new.cancel = ctx[c].cancel /\ new.del = ctx[c].del
        BY <1>0 DEF CtxType
      <4> HIDE DEF new
      <4> QED
        BY <4>1, <4>2 DEF Lasts, Ending
    <3> QED
      BY <3>1
  <2> QED
    BY <1>8, <2>1, <2>2 DEF DestroyStep
<1> QED
  BY <1>2, <1>3, <1>4, <1>5, <1>6, <1>7, <1>8 DEF Next

\* A call begins to join with Check only: a context that has ended or is deleted.
LEMMA WhoReclaims ==
  ASSUME TypeOK, Next, NEW t \in Callers, call'[t].pc = "reclaim"
  PROVE  \/ call'[t] = call[t]
         \/ /\ UNCHANGED ctx /\ call'[t].stale \in Ctxs
            /\ ctx[call'[t].stale].thread = "done" \/ ctx[call'[t].stale].del
<1>1. ASSUME NEW s \in Users, NEW u \in Urls,
             AddTask(s, u) \/ ResumeTask(s, u) \/ PauseTask(s, u) \/ DeleteTask(s, u)
      PROVE  call'[t] = call[t]
  <2>1. CASE AddTask(s, u)
    <3>1. call'[s].pc = "lock" /\ \A r \in Callers : r # s => call'[r] = call[r]
      BY <2>1, Constants DEF AddTask, TypeOK, Idle
    <3> QED
      BY <3>1
  <2> QED
    BY <1>1, <2>1 DEF ResumeTask, PauseTask, DeleteTask
<1>2. ASSUME NEW u \in Urls, Dispatch(u) PROVE call'[t] = call[t]
  <2>1. /\ call'[Scheduler].pc = "admit"
        /\ \A r \in Callers : r # Scheduler => call'[r] = call[r]
    BY <1>2, Constants DEF Dispatch, TypeOK, Idle
  <2> QED
    BY <2>1
<1>3. ASSUME NEW s \in Callers, CallStep(s), ~Check(s) PROVE call'[t] = call[t]
  <2>1. CASE \E result : Returns(s, result)
    BY <2>1, ReturnsEffect
  <2>2. CASE \E pc \in {"check", "create", "persist", "start", "log"} : Goes(s, pc)
    <3>1. PICK pc \in {"check", "create", "persist", "start", "log"} : Goes(s, pc)
      BY <2>2
    <3>2. call' = [call EXCEPT ![s].pc = pc] /\ call \in [Callers -> CallType]
      BY <3>1 DEF Goes, TypeOK
    <3>3. [call[s] EXCEPT !.pc = pc].pc = pc
      BY <3>2 DEF CallType
    <3>4. call'[s].pc = pc /\ \A r \in Callers : r # s => call'[r] = call[r]
      BY <3>2, <3>3
    <3> QED
      BY <3>1, <3>4
  <2>3. CASE Create(s)
    <3>1. ASSUME NEW c \in Unused,
                 ctx' = [ctx EXCEPT ![c] = FreshCtx(call[s].url)],
                 call' = [call EXCEPT ![s].pc = "insert", ![s].new = c]
          PROVE  call'[t] = call[t]
      BY <3>1, CreateEffect
    <3> QED
      BY <2>1, <2>3, <3>1 DEF Create
  <2> QED
    BY <1>3, <2>1, <2>2, <2>3 DEF CallStep, Lock, ReclaimStale, Insert, Persist, Start,
       Log, Admit
<1>4. ASSUME NEW s \in Callers, Check(s)
      PROVE  \/ call'[t] = call[t]
             \/ /\ UNCHANGED ctx /\ call'[t].stale \in Ctxs
                /\ ctx[call'[t].stale].thread = "done" \/ ctx[call'[t].stale].del
  <2>1. CASE Goes(s, "create")
    BY <2>1, GoesEffect
  <2>2. CASE Returns(s, "success")
    BY <2>2, ReturnsEffect
  <2>3. CASE /\ map[call[s].url] # NoCtx
             /\ call' = [call EXCEPT ![s].pc = "reclaim", ![s].stale = map[call[s].url]]
             /\ ctx[map[call[s].url]].thread = "done" \/ ctx[map[call[s].url]].del
    <3>1. map[call[s].url] \in Ctxs
      BY <2>3 DEF TypeOK, CallType
    <3>2. /\ call'[s].stale = map[call[s].url]
          /\ \A r \in Callers : r # s => call'[r] = call[r]
      BY <2>3 DEF TypeOK, CallType
    <3>3. UNCHANGED ctx
      BY <1>4 DEF Check
    <3> QED
      BY <2>3, <3>1, <3>2, <3>3
  <2> QED
    BY <1>4, <2>1, <2>2, <2>3 DEF Check
<1>5. ASSUME \/ \E c \in Ctxs : WorkerStep(c)
             \/ SweepStep \/ DestroyCancel \/ DestroyStep
      PROVE  call'[t] = call[t]
  BY <1>5 DEF WorkerStep, WorkerBuild, WorkerLoop, WorkerEmit, WorkerFrame, SweepStep,
     SweepCollect, SweepTake, SweepJoin, SweepFrame, DestroyCancel, DestroyStep,
     DestroyLock, DestroyJoin, DestroyFrame
<1> QED
  BY <1>1, <1>2, <1>3, <1>4, <1>5 DEF Next

\* Once destroy has begun nobody changes the table but destroy, at its end.
LEMMA DestroyedStays ==
  ASSUME ThreadInv, Next, ~DestroyCancel, destroy' \in {"cancel", "join"}
  PROVE  destroy \in {"cancel", "join"} /\ UNCHANGED map
<1>1. CASE DestroyStep
  BY <1>1 DEF DestroyStep, DestroyLock, DestroyJoin, tableVars
<1>2. CASE ~DestroyStep
  <2>1. destroy' = destroy
    BY <1>2 DEF Next, AddTask, ResumeTask, PauseTask, DeleteTask, Dispatch, CallStep, Lock,
       Check, ReclaimStale, Create, Insert, Persist, Start, Log, Admit, Frame, WorkerStep,
       WorkerBuild, WorkerLoop, WorkerEmit, WorkerFrame, SweepStep, SweepCollect, SweepTake,
       SweepJoin, SweepFrame
  <2>2. sweep.pc = "idle" /\ \A t \in Callers : call[t].pc = "idle"
    BY <2>1 DEF ThreadInv, QuietInv
  <2>3. ASSUME NEW t \in Users, NEW u \in Urls,
               AddTask(t, u) \/ ResumeTask(t, u) \/ PauseTask(t, u) \/ DeleteTask(t, u)
        PROVE  UNCHANGED map
    BY <2>3 DEF AddTask, ResumeTask, PauseTask, DeleteTask, tableVars
  <2>4. ASSUME NEW u \in Urls, Dispatch(u) PROVE UNCHANGED map
    BY <2>4 DEF Dispatch, tableVars
  <2>5. ASSUME NEW t \in Callers PROVE ~CallStep(t)
    BY <2>2, Constants DEF CallStep, Lock, Check, ReclaimStale, Create, Insert, Persist,
       Start, Log, Admit
  <2>6. ASSUME NEW c \in Ctxs, WorkerStep(c) PROVE UNCHANGED map
    BY <2>6 DEF WorkerStep, WorkerBuild, WorkerLoop, WorkerEmit, WorkerFrame
  <2>7. ~SweepTake /\ ~SweepJoin
    BY <2>2 DEF SweepTake, SweepJoin, Sweeps
  <2>8. SweepCollect => UNCHANGED map
    BY DEF SweepCollect, tableVars
  <2> QED
    BY <1>2, <2>1, <2>3, <2>4, <2>5, <2>6, <2>7, <2>8 DEF Next, SweepStep
<1> QED
  BY <1>1, <1>2

LEMMA JoinStep ==
  ASSUME IInv, IInv', DelInv, JoinInv, Next PROVE DelInv' /\ JoinInv'
<1>0. \A c \in Ctxs : Lasts(c)
  BY EverythingLasts
<1>1. DelInv'
  BY <1>0 DEF DelInv, Lasts
<1>2. ASSUME NEW t \in Callers, call'[t].pc = "reclaim" PROVE Ending(call[t].stale)'
  <2>1. CASE call'[t] = call[t]
    <3>1. /\ call[t].stale \in Ctxs /\ ctx[call[t].stale].life = "live"
          /\ ctx'[call[t].stale].life = "live"
      BY <1>2, <2>1 DEF IInv, TypeOK, CallType, OwnerInv, StaleInv
    <3>2. Ending(call[t].stale)
      BY <1>2, <2>1 DEF JoinInv
    <3>3. Ending(call[t].stale)' <=> ctx'[call[t].stale].thread = "done"
                                      \/ ctx'[call[t].stale].cancel
      BY <2>1 DEF Ending
    <3> QED
      BY <1>0, <3>1, <3>2, <3>3 DEF Lasts, Ending
  <2>2. CASE call'[t] # call[t]
    <3>1. /\ UNCHANGED ctx /\ call'[t].stale \in Ctxs
          /\ ctx[call'[t].stale].thread = "done" \/ ctx[call'[t].stale].del
      BY <1>2, <2>2, WhoReclaims DEF IInv
    <3> QED
      BY <3>1 DEF Ending, DelInv
  <2> QED
    BY <2>1, <2>2
<1>3. ASSUME destroy' \in {"cancel", "join"}, NEW c \in Ctxs, InTable(c)' PROVE Ending(c)'
  <2>1. CASE DestroyCancel
    <3>1. InTable(c) /\ ctx'[c] = [ctx[c] EXCEPT !.cancel = TRUE]
      BY <1>3, <2>1 DEF DestroyCancel, InTable
    <3>2. ctx[c] \in CtxType
      BY DEF IInv, TypeOK
    <3> QED
      BY <3>1, <3>2 DEF Ending, CtxType
  <2>2. CASE ~DestroyCancel
    <3>1. destroy \in {"cancel", "join"} /\ UNCHANGED map
      BY <1>3, <2>2, DestroyedStays DEF IInv
    <3>2. PICK u \in Urls : map[u] = c /\ map'[u] = c
      BY <1>3, <3>1 DEF InTable
    <3>3. ctx[c].life = "live" /\ ctx'[c].life = "live"
      BY <3>2, Constants DEF IInv, OwnerInv, TableInv
    <3>4. Ending(c)
      BY <3>1, <3>2 DEF InTable, JoinInv
    <3> QED
      BY <1>0, <3>3, <3>4 DEF Lasts
  <2> QED
    BY <2>1, <2>2
<1> QED
  BY <1>1, <1>2, <1>3 DEF JoinInv

\* The joins of a call, under mtx, and those of destroy, under g_map_mtx, wait for
\* threads that are over or have been told to end, whatever happens in between: what
\* CallsReturn rests on, as no worker waits for either lock.
THEOREM JoinsEnd ==
  Spec => [](/\ \A t \in Callers : call[t].pc = "reclaim" => Ending(call[t].stale)
             /\ destroy = "join" => \A c \in Ctxs : InTable(c) => Ending(c))
<1>1. Init => DelInv /\ JoinInv
  <2> SUFFICES ASSUME Init PROVE DelInv /\ JoinInv
    OBVIOUS
  <2>1. PICK u \in Urls : u = CHOOSE v \in Urls : TRUE
    BY Constants
  <2>2. \A c \in Ctxs : ~ctx[c].del
    BY <2>1 DEF Init, UnusedCtx, FreshCtx
  <2>3. \A t \in Callers : call[t].pc = "idle"
    BY <2>1, IdleType DEF Init
  <2> QED
    BY <2>2, <2>3 DEF Init, DelInv, JoinInv
<1>2. ASSUME UNCHANGED vars, DelInv, JoinInv PROVE DelInv' /\ JoinInv'
  BY <1>2 DEF vars, tableVars, DelInv, JoinInv, Ending, InTable
<1>3. IInv /\ IInv' /\ DelInv /\ JoinInv /\ [Next]_vars => DelInv' /\ JoinInv'
  BY <1>2, JoinStep
<1>4. JoinInv => /\ \A t \in Callers : call[t].pc = "reclaim" => Ending(call[t].stale)
                 /\ destroy = "join" => \A c \in Ctxs : InTable(c) => Ending(c)
  BY DEF JoinInv
<1> QED
  BY <1>1, <1>3, <1>4, Invariant, PTL DEF Spec
=============================================================================
