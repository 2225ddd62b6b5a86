---------------------------- MODULE HttpDownload ----------------------------
(***************************************************************************)
(* One HTTP download: the worker thread of http_engine_impl.cpp, the       *)
(* server it talks to, the file it writes and the resume row it saves.     *)
(*                                                                         *)
(* task_thread_func runs a curl multi loop that drives every part of the   *)
(* file; curl calls header_cb and write_cb from that same thread.  The     *)
(* first request is a bounded probe whose connection goes on as part 0.    *)
(* Around the thread, users add, resume, pause and delete, the process may *)
(* crash, the server may replace the file, the network and the disk may    *)
(* fail, and the user may remove what was downloaded.                      *)
(*                                                                         *)
(* Data are abstracted to what the properties tell apart: a byte of the    *)
(* file is the version it came from (Hole if it was never written, Garbage *)
(* if it was written at the wrong offset), a validator (ETag or            *)
(* Last-Modified) is the version it stands for, a wrapper directory is its *)
(* number n in the sequence name, name(1), name(2), ...                    *)
(***************************************************************************)
EXTENDS PartLayout, FiniteSets

CONSTANTS
  Sites,        \* the servers considered, see SiteRec
  Len,          \* Len[v] is the length of version v of the remote file
  FileCap,      \* no version and no redirect body is longer
  MaxRetries,   \* g_cfg.max_retries
  Files,        \* 1 .. n, the wrapper directories; bounds the model
  MaxBurst,     \* the most bytes one write_cb receives; bounds the model
  MaxRuns,      \* how often a worker is started; bounds the model
  MaxFaults,    \* how many faults happen; bounds the model
  Endless,      \* faults happen without bound
  UserRemoves   \* what the user may remove: subset of {"file", "wrapper"}

Versions == DOMAIN Len
Offsets == 0 .. (FileCap - 1)

\* What a server does: answer 206 to ranges, tell the length, send a
\* validator, and redirect first with a body of `redirect` bytes (0: none).
SiteRec ==
  [range : BOOLEAN, length : BOOLEAN, validator : BOOLEAN, redirect : Nat]

ASSUME DownloadAssumption ==
  /\ Sites \subseteq SiteRec
  /\ FileCap \in Nat \ {0}
  /\ Len \in [Versions -> 0 .. FileCap]
  /\ Versions \subseteq Nat \ {0}
  /\ 1 \in Versions
  /\ MaxRetries \in Nat
  /\ Files \subseteq Nat \ {0}
  /\ MaxBurst \in Nat \ {0}
  /\ MaxRuns \in Nat
  /\ MaxFaults \in Nat
  /\ Endless \in BOOLEAN
  /\ UserRemoves \subseteq {"file", "wrapper"}

Hole == 0
Garbage == -1
NoFile == 0        \* full_file_path is empty
NoValidator == 0   \* etag and last_modified are empty
OpenEnd == -1      \* the end of a range "n-", and of a part of unknown length

VARIABLES
  site,      \* the server of this behaviour, never changes
  version,   \* the version it serves
  pc,        \* where the worker thread is
  ctx,       \* the scalar fields of dl_task_ctx
  part,      \* dl_task_ctx::parts
  conn,      \* dl_task_ctx::part_ctx and the transfer each one drives
  pauseReq, cancelReq,  \* the two atomics of dl_task_ctx
  entry,     \* what is on disk under each wrapper name
  disk,      \* the bytes of the file in each wrapper
  saved,     \* the resume_data row of the URL
  loaded,    \* what do_resume has read of it, until start_download decides
  overtaken, \* the worker has started from a row replaced since; history
  runs, faults  \* counters that bound the model

downloadVars == <<ctx, part, conn>>
requestVars == <<pauseReq, cancelReq>>
storageVars == <<entry, disk, saved>>
resumeVars == <<loaded, overtaken>>
boundVars == <<runs, faults>>
vars == <<site, version, pc, downloadVars, requestVars, storageVars, resumeVars,
          boundVars>>

-----------------------------------------------------------------------------
(* States of the code's records.                                           *)

Statuses == {"DOWNLOADING", "COMPLETED", "ERROR", "PAUSED"}
Reasons == {"NONE", "NETWORK", "FAIL", "ERROR", "AUTH"}

\* "start" is the head of task_thread_func; "top", "perform" and "msgs" are
\* the stations of run_parts_multi's loop, "write" the middle of a write_cb
\* that has just finalized the probe; "finish" and "leave" come after the loop;
\* "done" is thread_done = 1.
PcStates == {"none", "start", "top", "perform", "write", "msgs", "finish",
             "leave", "done"}
Running == pc \notin {"none", "done"}

\* task_create_new.  `advanced` stands for total_done > last_emit_done, which
\* starts from -1; `drift` for the message that the file has changed.
FreshCtx ==
  [status |-> "DOWNLOADING", reason |-> "NONE", probing |-> TRUE,
   range |-> FALSE, total |-> -1, etag |-> NoValidator, file |-> NoFile,
   advanced |-> TRUE, drift |-> FALSE]

NewPartShort(start, end) ==  \* mutant: the inclusive end is not counted
  [start |-> start, end |-> end, size |-> end - start,
   done |-> 0, status |-> "DOWNLOADING", reason |-> "NONE"]
NewPart(start, end) ==
  [start |-> start, end |-> end,
   size |-> IF end >= start THEN end - start + 1 ELSE 0,
   done |-> 0, status |-> "DOWNLOADING", reason |-> "NONE"]

FreshParts == [i \in {0} |-> NewPart(0, OpenEnd)]

\* A part_ctx that run_parts_multi has not mounted yet.
NewConn ==
  [st |-> "new", probe |-> FALSE, ifRange |-> NoValidator, pos |-> 0,
   stop |-> 0, code |-> 0, ver |-> 0, seen |-> 0, rc |-> "none", retry |-> 0]

FreshConns == [i \in {0} |-> NewConn]

NoResume ==
  [file |-> NoFile, total |-> -1, range |-> FALSE, etag |-> NoValidator,
   part |-> [i \in {} |-> [start |-> 0, end |-> 0, done |-> 0]]]

\* Something goes wrong outside the program: MaxFaults times at most, or, if
\* faults are Endless, as often as there is occasion.
Fault == \/ Endless /\ faults' = 1
         \/ ~Endless /\ faults < MaxFaults /\ faults' = faults + 1

-----------------------------------------------------------------------------
(* The resume row.                                                         *)

\* serialize_resume, as emit_resume saves it.
Serialized ==
  [file |-> ctx.file, total |-> ctx.total, range |-> ctx.range,
   etag |-> ctx.etag,
   part |-> [i \in DOMAIN part |->
               [start |-> part[i].start, end |-> part[i].end,
                done |-> part[i].done]]]

RestoredAnew(p) ==  \* mutant: parts that are not complete start again
  LET new == NewPart(p.start, p.end)
      full == new.size > 0 /\ p.done >= new.size
  IN [new EXCEPT !.done = IF full THEN p.done ELSE 0,
                 !.status = IF full THEN "COMPLETED" ELSE "DOWNLOADING"]

\* deserialize_resume: sizes and statuses are computed again from the bounds.
Restored(p) ==
  LET new == NewPart(p.start, p.end)
      full == new.size > 0 /\ p.done >= new.size
  IN [new EXCEPT !.done = p.done,
                 !.status = IF full THEN "COMPLETED" ELSE "DOWNLOADING"]

\* emit_resume; what save_resume cannot write is lost without notice.
Emit == \/ saved' = Serialized /\ UNCHANGED faults
        \/ Fault /\ UNCHANGED saved

\* maybe_emit_resume: only for servers that support ranges, only on progress.
Emits == ctx.range /\ ctx.advanced
MaybeEmit == IF Emits THEN Emit ELSE UNCHANGED <<saved, faults>>

-----------------------------------------------------------------------------
(* Requests and results.                                                   *)

\* build_easy_for_part: the range a connection asks for.
Request(c, p) ==
  LET from == p.start + p.done
  IN [c EXCEPT !.st = "sent",
               !.probe = ctx.probing,
               !.ifRange = IF ctx.probing THEN NoValidator ELSE ctx.etag,
               !.pos = IF ctx.probing THEN 0 ELSE from,
               !.stop = IF ctx.probing THEN ProbeWindow
                        ELSE IF p.end >= from THEN p.end + 1 ELSE OpenEnd,
               !.code = 0, !.ver = 0, !.seen = 0, !.rc = "none"]

\* spawn_new_parts mounts the connections not mounted yet, except those of
\* parts restored as completed; building one of `broken` fails.
Unmounted == {i \in DOMAIN conn : conn[i].st = "new"}
Mountable == {i \in Unmounted : part[i].status # "COMPLETED"}
SpawnNewParts(broken) ==
  /\ conn' = [i \in DOMAIN conn |->
                IF i \notin Unmounted THEN conn[i]
                ELSE IF i \in Mountable \ broken THEN Request(conn[i], part[i])
                ELSE [conn[i] EXCEPT !.st = "idle"]]
  /\ part' = [i \in DOMAIN part |->
                IF i \in broken
                THEN [part[i] EXCEPT !.status = "ERROR", !.reason = "ERROR"]
                ELSE part[i]]
  /\ \/ broken = {} /\ UNCHANGED faults
     \/ broken # {} /\ Fault

Active == {i \in DOMAIN conn : conn[i].st \notin {"new", "idle"}}

\* classify_failure.
Retryable(rc, code) == rc = "net" \/ (rc \in {"ok", "http"} /\ code = 503)
FailureReason(rc, code) ==
  IF Retryable(rc, code) THEN "NETWORK"
  ELSE IF rc \in {"ok", "http"} /\ code = 403 THEN "AUTH" ELSE "ERROR"

\* handle_part_result: what becomes of a part whose transfer has ended.
Verdict(p, c) ==
  LET success == c.rc = "ok" /\ c.code \in {200, 206}
  IN IF p.status = "ERROR" THEN "failed"
     ELSE IF p.size > 0 /\ p.done >= p.size THEN "full"
     ELSE IF c.probe /\ c.rc = "ok" /\ c.code = 206 /\ p.done > 0
          THEN "continue"
     ELSE IF success /\ p.size <= 0 THEN "whole"
     ELSE IF (success \/ Retryable(c.rc, c.code)) /\ c.retry < MaxRetries
          THEN "retry"
     ELSE "giveup"

\* The reason of a part given up: a short but successful answer is NETWORK.
GiveupReason(c) ==
  IF c.rc = "ok" /\ c.code \in {200, 206} THEN "NETWORK"
  ELSE FailureReason(c.rc, c.code)

\* aggregate_status: the reason of the worst part wins.
Rank == [r \in Reasons |->
           CASE r = "AUTH" -> 4 [] r = "ERROR" -> 3 [] r = "FAIL" -> 2
             [] r = "NETWORK" -> 1 [] OTHER -> 0]
PartsIn(s) == {i \in DOMAIN part : part[i].status = s}
WorstReason ==
  CHOOSE r \in {part[i].reason : i \in PartsIn("ERROR")} :
    \A i \in PartsIn("ERROR") : Rank[part[i].reason] <= Rank[r]
Aggregated ==
  IF ctx.status = "ERROR" /\ ctx.reason = "ERROR" THEN ctx
  ELSE IF PartsIn("DOWNLOADING") # {}
       THEN [ctx EXCEPT !.status = "DOWNLOADING", !.reason = "NONE"]
  ELSE IF PartsIn("COMPLETED") = DOMAIN part
       THEN [ctx EXCEPT !.status = "COMPLETED", !.reason = "NONE"]
  ELSE IF PartsIn("ERROR") # {}
       THEN [ctx EXCEPT !.status = "ERROR", !.reason = WorstReason]
  ELSE ctx

-----------------------------------------------------------------------------
(* The users' calls and the world around the process.                      *)

Init ==
  /\ site \in Sites
  /\ version = 1
  /\ pc = "none"
  /\ ctx = FreshCtx /\ part = FreshParts /\ conn = FreshConns
  /\ pauseReq = FALSE /\ cancelReq = FALSE
  /\ entry = [f \in Files |-> "free"]
  /\ disk = [f \in Files |-> [o \in Offsets |-> Hole]]
  /\ saved = NoResume /\ loaded = NoResume
  /\ overtaken = FALSE
  /\ runs = 0 /\ faults = 0

FreeFiles == {f \in Files : entry[f] = "free"}

\* A worker is started when the previous one has ended or was lost.
StartTask ==
  /\ ~Running
  /\ runs < MaxRuns
  /\ FreeFiles # {}
  /\ pc' = "start"
  /\ pauseReq' = FALSE /\ cancelReq' = FALSE
  /\ runs' = runs + 1
  /\ UNCHANGED <<site, version, storageVars, faults>>

\* start_download from add_task: no resume data are passed.  The scheduler holds
\* mtx_ all through do_resume.
Add ==
  /\ loaded = NoResume
  /\ StartTask
  /\ ctx' = FreshCtx /\ part' = FreshParts /\ conn' = FreshConns
  /\ overtaken' = FALSE /\ UNCHANGED loaded

\* do_resume reads the row, unless the worker is about to pause.  Without a row
\* it comes to an Add.
Load ==
  /\ loaded = NoResume /\ saved # NoResume
  /\ ~(Running /\ pauseReq)
  /\ runs < MaxRuns
  /\ loaded' = saved
  /\ UNCHANGED <<site, version, pc, downloadVars, requestVars, storageVars,
                 overtaken, boundVars>>

\* start_download leaves a worker alone that runs and is not being deleted ...
GoOn ==
  /\ loaded # NoResume /\ loaded' = NoResume
  /\ Running /\ ~cancelReq
  /\ UNCHANGED <<site, version, pc, downloadVars, requestVars, storageVars,
                 overtaken, boundVars>>

\* ... and otherwise joins it and starts another from the row that was read, if
\* the file it names can be opened.
RestoredCtxNoEtag ==  \* mutant: the validator is not restored
  [FreshCtx EXCEPT !.probing = FALSE, !.range = loaded.range,
                   !.total = loaded.total, !.file = loaded.file]
RestoredCtx == [RestoredCtxNoEtag EXCEPT !.etag = loaded.etag]
Usable == loaded.file # NoFile /\ entry[loaded.file] = "file"
Resume ==
  /\ loaded # NoResume /\ loaded' = NoResume
  /\ StartTask
  /\ overtaken' = (loaded # saved)
  /\ IF Usable
     THEN /\ ctx' = RestoredCtx
          /\ part' = [i \in DOMAIN loaded.part |-> Restored(loaded.part[i])]
          /\ conn' = [i \in DOMAIN loaded.part |-> NewConn]
     ELSE ctx' = FreshCtx /\ part' = FreshParts /\ conn' = FreshConns

Pause ==
  /\ Running /\ ~pauseReq
  /\ pauseReq' = TRUE
  /\ UNCHANGED <<site, version, pc, downloadVars, cancelReq, storageVars,
                 resumeVars, boundVars>>

Cancel ==
  /\ Running /\ ~cancelReq
  /\ cancelReq' = TRUE
  /\ UNCHANGED <<site, version, pc, downloadVars, pauseReq, storageVars,
                 resumeVars, boundVars>>

\* The process dies; files and database stay.
Crash ==
  /\ pc # "none"
  /\ pc' = "none"
  /\ ctx' = FreshCtx /\ part' = FreshParts /\ conn' = FreshConns
  /\ pauseReq' = FALSE /\ cancelReq' = FALSE
  /\ loaded' = NoResume /\ overtaken' = FALSE
  /\ UNCHANGED <<site, version, storageVars, boundVars>>

\* The remote file is replaced.
Change ==
  /\ version + 1 \in Versions
  /\ version' = version + 1
  /\ UNCHANGED <<site, pc, downloadVars, requestVars, storageVars, resumeVars,
                 boundVars>>

\* The user removes the downloaded file, or its wrapper directory with it.
UserRemove(f) ==
  /\ entry[f] = "file"
  /\ Fault
  /\ \/ "file" \in UserRemoves /\ entry' = [entry EXCEPT ![f] = "dir"]
     \/ "wrapper" \in UserRemoves /\ entry' = [entry EXCEPT ![f] = "free"]
  /\ disk' = [disk EXCEPT ![f] = [o \in Offsets |-> Hole]]
  /\ UNCHANGED <<site, version, pc, downloadVars, requestVars, saved, resumeVars,
                 runs>>

-----------------------------------------------------------------------------
(* curl's callbacks, called inside curl_multi_perform.                     *)

Closed(c, rc) == [c EXCEPT !.st = "closed", !.rc = rc]
PartError(i) ==
  part' = [part EXCEPT ![i].status = "ERROR", ![i].reason = "ERROR"]

\* What a callback leaves alone, the bound counters aside.
CallbackFrame ==
  UNCHANGED <<site, version, requestVars, saved, resumeVars, runs>>

\* The status codes the server can answer a request with, faults aside.
Ranged(c) == site.range /\ c.ifRange \in {NoValidator, version}
Codes(c) ==
  IF ~Ranged(c) THEN {200}
  ELSE IF c.pos < Len[version] THEN {206}
  ELSE IF Len[version] = 0 THEN {200, 416} ELSE {416}

DriftedOnTagOnly(i, code) ==  \* mutant: a full stream is always accepted
  \/ code # 200 /\ site.length /\ ctx.total > 0 /\ Len[version] \notin {0, ctx.total}
  \/ site.validator /\ ctx.etag \notin {NoValidator, version}
\* header_cb: the file on the server is not the one begun.  A total of 0 is not
\* taken for one.
Drifted(i, code) ==
  \/ code = 200 /\ ~(DOMAIN part = {0} /\ part[i].done = 0)
  \/ code # 200 /\ site.length /\ ctx.total > 0 /\ Len[version] \notin {0, ctx.total}
  \/ site.validator /\ ctx.etag \notin {NoValidator, version}

\* The total a probe has seen when the headers are in: Content-Range's, else
\* the first Content-Length, a redirect's included.
SeenTotal(code) ==
  IF code = 206 /\ site.length THEN Len[version]
  ELSE IF site.redirect > 0 THEN site.redirect
  ELSE IF code = 200 /\ site.length THEN Len[version] ELSE 0

AcceptHeaders(i, code, last) ==
  /\ ctx' = [ctx EXCEPT
       !.total = IF code # 200 /\ site.length /\ @ <= 0 /\ Len[version] > 0
                 THEN Len[version] ELSE @,
       !.etag = IF site.validator THEN version ELSE @]
  /\ LET c == [conn[i] EXCEPT
                 !.st = "body", !.code = code, !.ver = version,
                 !.pos = IF code = 200 THEN 0 ELSE @,
                 !.stop = last,
                 !.seen = IF ctx.probing THEN SeenTotal(code) ELSE 0]
     IN conn' = [conn EXCEPT ![i] = IF code = 416 THEN Closed(c, "http") ELSE c]
  /\ UNCHANGED part

MarkDrift(i) ==
  /\ PartError(i)
  /\ ctx' = [ctx EXCEPT !.status = "ERROR", !.reason = "ERROR", !.drift = TRUE]
  /\ conn' = [conn EXCEPT ![i] = Closed(@, "write")]

\* Where the body of an answer to c may end.  To end early or late is a fault,
\* which only a server that tells the length lets its client notice.
FullStop(c, code) ==
  IF code = 206 /\ c.stop # OpenEnd THEN Smaller(c.stop, Len[version])
  ELSE Len[version]
BodyEnds(c, code) ==
  {FullStop(c, code)} \cup
    (IF code = 206 /\ site.length THEN (c.pos + 1) .. Len[version] ELSE {})

Reply(i) ==
  /\ pc = "perform"
  /\ conn[i].st = "sent"
  /\ ctx.status # "ERROR" /\ ~cancelReq
  /\ \E code \in Codes(conn[i]) : \E last \in BodyEnds(conn[i], code) :
       /\ IF last = FullStop(conn[i], code) THEN UNCHANGED faults ELSE Fault
       /\ IF Drifted(i, code) THEN MarkDrift(i) ELSE AcceptHeaders(i, code, last)
  /\ CallbackFrame /\ UNCHANGED <<pc, entry, disk>>

\* The transfer is cut, times out, or the server answers with an error.
TransferFails(i) ==
  /\ pc = "perform"
  /\ Fault
  /\ \/ /\ conn[i].st \in {"sent", "body"}
        /\ conn' = [conn EXCEPT ![i] = Closed(@, "net")]
     \/ /\ conn[i].st = "sent"
        /\ \E code \in {503, 403, 404} :
             conn' = [conn EXCEPT ![i] = Closed([@ EXCEPT !.code = code], "http")]
  /\ CallbackFrame /\ UNCHANGED <<pc, ctx, part, entry, disk>>

\* A callback returns short: the task has failed or somebody wants it to stop.
Refuse(i) ==
  /\ pc = "perform"
  /\ conn[i].st \in {"sent", "body"}
  /\ ctx.status = "ERROR" \/ cancelReq \/ pauseReq
  /\ conn' = [conn EXCEPT ![i] = Closed(@, "write")]
  /\ CallbackFrame /\ UNCHANGED <<pc, ctx, part, entry, disk, faults>>

BodyArrives(i) ==
  /\ pc = "perform"
  /\ conn[i].st = "body" /\ conn[i].pos < conn[i].stop
  /\ ctx.status # "ERROR" /\ ~cancelReq /\ ~pauseReq

\* acquire_wrapper_name takes the first name that nobody has.
FirstFree(f) == f \in FreeFiles /\ \A g \in FreeFiles : f <= g

\* A probe's total becomes the task's, if that is not known from the headers.
TotalFound(c) == IF ctx.total <= 0 /\ c.seen > 0 THEN c.seen ELSE ctx.total

\* finalize_probing, called by the first write_cb: names the file, creates it
\* and, if the server answered with a range, cuts it into parts.
FinalizeProbing(i, f) ==
  /\ BodyArrives(i)
  /\ ctx.probing
  /\ FirstFree(f)
  /\ pc' = "write"
  /\ ctx' = [ctx EXCEPT !.probing = FALSE, !.total = TotalFound(conn[i]),
                        !.file = f, !.range = conn[i].code = 206]
  /\ entry' = [entry EXCEPT ![f] = "file"]
  /\ LET total == TotalFound(conn[i]) IN
     IF conn[i].code = 206
     THEN /\ part' = [j \in PartIds(total) |->
                        NewPart(PartStart(total, j), PartEnd(total, j))]
          /\ conn' = [j \in PartIds(total) |->
                        IF j = 0 THEN [conn[i] EXCEPT !.retry = 0] ELSE NewConn]
     ELSE /\ part' = [j \in {0} |->
                        NewPart(0, IF total > 0 THEN total - 1 ELSE OpenEnd)]
          /\ UNCHANGED conn
  /\ CallbackFrame /\ UNCHANGED <<disk, faults>>

\* Making the directory, the file or its length fails: nothing is cut.
FinalizeFails(i, f) ==
  /\ BodyArrives(i)
  /\ ctx.probing
  /\ FirstFree(f)
  /\ Fault
  /\ ctx' = [ctx EXCEPT !.probing = FALSE, !.total = TotalFound(conn[i]),
                        !.file = f, !.status = "ERROR", !.reason = "ERROR"]
  /\ \E kind \in {"free", "dir", "file"} : entry' = [entry EXCEPT ![f] = kind]
  /\ conn' = [conn EXCEPT ![i] = Closed(@, "write")]
  /\ CallbackFrame /\ UNCHANGED <<pc, part, disk>>

WrittenUnflushed(bytes, c, off, n) ==  \* mutant: the last byte stays in a buffer
  [o \in Offsets |-> IF o \notin off .. (off + n - 2) THEN bytes[o]
                     ELSE IF off = c.pos THEN c.ver ELSE Garbage]

\* The body bytes [pos, pos + n) of c, written at offset off of disk.
Written(bytes, c, off, n) ==
  [o \in Offsets |-> IF o \notin off .. (off + n - 1) THEN bytes[o]
                     ELSE IF off = c.pos THEN c.ver ELSE Garbage]

\* The rest of write_cb.  A write that takes less than curl offers ends the
\* transfer; a part that is full takes nothing.
WriteBody(i) ==
  LET p == part[i]
      c == conn[i]
      off == p.start + p.done
      Takes(n) == IF p.size > 0 THEN Smaller(n, p.size - p.done) ELSE n
  IN /\ pc' = "perform"
     /\ \E n \in 1 .. Smaller(MaxBurst, c.stop - c.pos) :
          \/ /\ p.size > 0 /\ p.done >= p.size
             /\ conn' = [conn EXCEPT ![i] = Closed(@, "write")]
             /\ UNCHANGED <<ctx, part, disk, faults>>
          \/ /\ p.size <= 0 \/ p.done < p.size
             /\ \/ entry[ctx.file] # "file" /\ UNCHANGED faults
                \/ entry[ctx.file] = "file" /\ Fault
             /\ PartError(i)
             /\ conn' = [conn EXCEPT ![i] = Closed(@, "write")]
             /\ UNCHANGED <<ctx, disk>>
          \/ /\ p.size <= 0 \/ p.done < p.size
             /\ entry[ctx.file] = "file"
             /\ disk' = [disk EXCEPT ![ctx.file] = Written(@, c, off, Takes(n))]
             /\ part' = [part EXCEPT ![i].done = @ + Takes(n)]
             /\ ctx' = [ctx EXCEPT !.advanced = TRUE]
             /\ LET d == [c EXCEPT !.pos = @ + Takes(n)]
                IN conn' = [conn EXCEPT ![i] =
                              IF Takes(n) < n THEN Closed(d, "write") ELSE d]
             /\ UNCHANGED faults
     /\ CallbackFrame /\ UNCHANGED entry

\* A later write_cb, and the rest of the one that finalized the probe.
Receive(i) == BodyArrives(i) /\ ~ctx.probing /\ WriteBody(i)
ReceiveFirst == pc = "write" /\ WriteBody(0)

EndOfBody(i) ==
  /\ pc = "perform"
  /\ conn[i].st = "body" /\ conn[i].pos = conn[i].stop
  /\ conn' = [conn EXCEPT ![i] = Closed(@, "ok")]
  /\ CallbackFrame /\ UNCHANGED <<pc, ctx, part, entry, disk, faults>>

-----------------------------------------------------------------------------
(* The worker thread.                                                      *)

\* The worker touches neither the network nor the wrappers.
WorkerFrame ==
  UNCHANGED <<site, version, requestVars, entry, disk, resumeVars, runs>>
Stopping == pauseReq \/ cancelReq

\* maybe_emit_resume and what else ctx becomes.
EmitAnd(next) ==
  /\ MaybeEmit
  /\ ctx' = [next EXCEPT !.advanced = @ /\ ~Emits]

\* The head of task_thread_func, and run_parts_multi's first spawn.
WStart ==
  /\ pc = "start"
  /\ \/ /\ cancelReq
        /\ pc' = "done"
        /\ UNCHANGED <<downloadVars, saved, faults>>
     \/ /\ ~cancelReq /\ pauseReq
        /\ pc' = "done"
        /\ EmitAnd([ctx EXCEPT !.status = "PAUSED"])
        /\ UNCHANGED <<part, conn>>
     \/ /\ ~Stopping
        /\ pc' = "top"
        /\ \E broken \in SUBSET Mountable : SpawnNewParts(broken)
        /\ UNCHANGED <<ctx, saved>>
     \/ /\ ~Stopping                        \* curl_multi_init fails
        /\ pc' = "finish"
        /\ Fault
        /\ ctx' = [ctx EXCEPT !.status = "ERROR", !.reason = "ERROR"]
        /\ UNCHANGED <<part, conn, saved>>
  /\ WorkerFrame

WTopDeaf ==  \* mutant: the loop does not look at the requests
  /\ pc = "top"
  /\ pc' = IF Active = {} \/ (ctx.status = "ERROR" /\ ctx.reason = "ERROR")
           THEN "finish" ELSE "perform"
  /\ WorkerFrame /\ UNCHANGED <<downloadVars, saved, faults>>

\* The head of the loop.
WTop ==
  /\ pc = "top"
  /\ pc' = IF \/ Active = {}
              \/ Stopping
              \/ ctx.status = "ERROR" /\ ctx.reason = "ERROR"
           THEN "finish" ELSE "perform"
  /\ WorkerFrame /\ UNCHANGED <<downloadVars, saved, faults>>

\* curl_multi_poll returns, after 200 ms at the latest, or after whatever
\* callbacks the multi handle breaks, which ends the loop.
WPoll ==
  /\ pc = "perform"
  /\ \/ /\ pc' = "msgs"
        /\ \E broken \in SUBSET Mountable : SpawnNewParts(broken)
     \/ /\ pc' = "finish"
        /\ Fault /\ UNCHANGED <<part, conn>>
  /\ WorkerFrame /\ UNCHANGED <<ctx, saved>>

ClosedConns == {i \in DOMAIN conn : conn[i].st = "closed"}
Drop(i) == conn' = [conn EXCEPT ![i].st = "idle"]

RetriedUncounted(c) == c  \* mutant: the attempts of a connection are not counted
Retried(c) == [c EXCEPT !.retry = @ + 1]

\* One message of curl_multi_info_read and handle_part_result's verdict on it.
WMsg(i) ==
  LET p == part[i]
      c == conn[i]
      Again(d) == \/ /\ conn' = [conn EXCEPT ![i] = Request(d, p)]
                     /\ UNCHANGED <<part, faults>>
                  \/ Fault /\ PartError(i) /\ Drop(i)
      Ends(status, reason, size) ==
        /\ part' = [part EXCEPT ![i].status = status, ![i].reason = reason,
                                ![i].size = size]
        /\ Drop(i)
        /\ UNCHANGED faults
  IN /\ pc = "msgs"
     /\ c.st = "closed"
     /\ IF Stopping
        THEN Drop(i) /\ UNCHANGED <<ctx, part, faults>>
        ELSE LET v == Verdict(p, c) IN
             /\ ctx' = [ctx EXCEPT !.total =
                          IF v = "whole" /\ @ <= 0 THEN p.done ELSE @]
             /\ \/ v = "failed" /\ Drop(i) /\ UNCHANGED <<part, faults>>
                \/ v = "full" /\ Ends("COMPLETED", "NONE", p.size)
                \/ v = "whole" /\ Ends("COMPLETED", "NONE", p.done)
                \/ v = "continue" /\ Again(c)
                \/ v = "retry" /\ Again(Retried(c))
                \/ v = "giveup" /\ Ends("ERROR", GiveupReason(c), p.size)
     /\ WorkerFrame /\ UNCHANGED <<pc, saved>>

WEmit ==
  /\ pc = "msgs"
  /\ ClosedConns = {}
  /\ pc' = "top"
  /\ EmitAnd(ctx)
  /\ WorkerFrame /\ UNCHANGED <<part, conn>>

WFinishPauseFirst ==  \* mutant: a pause goes before the completion
  /\ pc = "finish"
  /\ pc' = "leave"
  /\ conn' = [i \in DOMAIN conn |-> [conn[i] EXCEPT !.st = "idle"]]
  /\ IF pauseReq /\ ~cancelReq THEN EmitAnd(Aggregated)
     ELSE /\ IF Aggregated.status = "COMPLETED" THEN Emit
             ELSE UNCHANGED <<saved, faults>>
          /\ ctx' = Aggregated
  /\ WorkerFrame /\ UNCHANGED part

\* cleanup_all, aggregate_status and the last emit.
WFinish ==
  /\ pc = "finish"
  /\ pc' = "leave"
  /\ conn' = [i \in DOMAIN conn |-> [conn[i] EXCEPT !.st = "idle"]]
  /\ \/ /\ Aggregated.status = "COMPLETED"
        /\ Emit
        /\ ctx' = Aggregated
     \/ /\ Aggregated.status # "COMPLETED" /\ pauseReq /\ ~cancelReq
        /\ EmitAnd(Aggregated)
     \/ /\ Aggregated.status # "COMPLETED" /\ ~(pauseReq /\ ~cancelReq)
        /\ ctx' = Aggregated
        /\ UNCHANGED <<saved, faults>>
  /\ WorkerFrame /\ UNCHANGED part

\* The tail of task_thread_func and its DoneGuard.
WLeave ==
  /\ pc = "leave"
  /\ pc' = "done"
  /\ ctx' = [ctx EXCEPT !.status = IF pauseReq /\ ~cancelReq THEN "PAUSED" ELSE @]
  /\ WorkerFrame /\ UNCHANGED <<part, conn, saved, faults>>

-----------------------------------------------------------------------------
Network ==
  \E i \in DOMAIN conn :
    \/ Reply(i) \/ TransferFails(i) \/ Refuse(i)
    \/ Receive(i) \/ EndOfBody(i)
    \/ \E f \in Files : FinalizeProbing(i, f) \/ FinalizeFails(i, f)
Worker ==
  \/ ReceiveFirst \/ WStart \/ WTop \/ WPoll \/ WEmit \/ WFinish \/ WLeave
  \/ \E i \in DOMAIN conn : WMsg(i)
Environment ==
  \/ Add \/ Load \/ GoOn \/ Resume \/ Pause \/ Cancel \/ Crash \/ Change
  \/ \E f \in Files : UserRemove(f)

Next == Network \/ Worker \/ Environment
Spec == Init /\ [][Next]_vars

\* The loop never blocks for longer than its 200 ms poll, and each transfer
\* ends sooner or later: CURLOPT_LOW_SPEED_TIME and CURLOPT_TIMEOUT see to it.
WorkerFairness == WF_vars(Worker)
NetworkFairness == SF_vars(Network)
PromptSpec == Spec /\ WorkerFairness

-----------------------------------------------------------------------------
(* Properties.                                                             *)

\* The types of the variables: one clause per record of the code.
CtxType ==
  [status : Statuses, reason : Reasons, probing : BOOLEAN, range : BOOLEAN,
   total : Int, etag : Versions \cup {NoValidator}, file : Files \cup {NoFile},
   advanced : BOOLEAN, drift : BOOLEAN]
PartType ==
  [start : Nat, end : Int, size : Nat, done : Nat,
   status : {"DOWNLOADING", "COMPLETED", "ERROR"}, reason : Reasons]
ConnStates == {"new", "sent", "body", "closed", "idle"}
Results == {"none", "ok", "net", "http", "write"}
ConnType ==
  [st : ConnStates, probe : BOOLEAN, ifRange : Versions \cup {NoValidator},
   pos : Nat, stop : Nat \cup {OpenEnd}, code : Nat, ver : Versions \cup {0},
   seen : Nat, rc : Results, retry : Nat]
RowPartType == [start : Nat, end : Int, done : Nat]

IsCtx == ctx \in CtxType
IsPart(parts) ==
  /\ 0 \in DOMAIN parts /\ DOMAIN parts \subseteq Nat
  /\ parts = [i \in DOMAIN parts |-> parts[i]]
  /\ \A i \in DOMAIN parts : parts[i] \in PartType
IsConn ==
  /\ conn = [i \in DOMAIN part |-> conn[i]]
  /\ \A i \in DOMAIN part : conn[i] \in ConnType
IsRow(r) ==
  /\ DOMAIN r = {"file", "total", "range", "etag", "part"}
  /\ r = [k \in DOMAIN r |-> r[k]]
  /\ r.file \in Files \cup {NoFile}
  /\ r.total \in Int
  /\ r.range \in BOOLEAN
  /\ r.etag \in Versions \cup {NoValidator}
  /\ DOMAIN r.part \subseteq Nat
  /\ r.part = [i \in DOMAIN r.part |-> r.part[i]]
  /\ \A i \in DOMAIN r.part : r.part[i] \in RowPartType
  /\ r # NoResume => 0 \in DOMAIN r.part

\* Every variable keeps the type its declaration gives it.
TypeOK ==
  /\ site \in Sites
  /\ version \in Versions
  /\ pc \in PcStates
  /\ IsCtx
  /\ IsPart(part)
  /\ IsConn
  /\ pauseReq \in BOOLEAN /\ cancelReq \in BOOLEAN
  /\ entry \in [Files -> {"free", "dir", "file"}]
  /\ disk \in [Files -> [Offsets -> Versions \cup {Hole, Garbage}]]
  /\ IsRow(saved) /\ IsRow(loaded)
  /\ overtaken \in BOOLEAN
  /\ runs \in Nat /\ faults \in Nat

\* DwFile's conservative invariant (http_engine_internal.h:71-73): what the
\* resume row counts as done is really in the file, whenever the process dies
\* and whatever failed before.  A row that ran ahead of the file would have
\* the next worker skip bytes that nobody ever fetched.
HasBytes(bytes, parts) ==
  \A i \in DOMAIN parts :
    \A o \in parts[i].start .. (parts[i].start + parts[i].done - 1) :
      o \in Offsets => bytes[o] # Hole
BytesOnDisk(file, parts) == entry[file] = "file" => HasBytes(disk[file], parts)
ResumeConservative == saved.file # NoFile => BytesOnDisk(saved.file, saved.part)

\* A worker that splits the file, and the row it saves, cover each byte of it
\* exactly once: finalize_probing's cut survives saving, restoring and growing.
Covers(parts, total) ==
  /\ \A o \in 0 .. (total - 1) :
       Cardinality({i \in DOMAIN parts : o \in parts[i].start .. parts[i].end}) = 1
  /\ \A i \in DOMAIN parts : parts[i].done <= parts[i].end + 1 - parts[i].start
PartsTile ==
  /\ ctx.range /\ part[0].end # OpenEnd => Covers(part, ctx.total)
  /\ saved.range /\ saved.part[0].end # OpenEnd => Covers(saved.part, saved.total)

\* Of a server that sends validators, no file ever holds bytes of two versions
\* or bytes at a wrong place: If-Range and header_cb's drift checks see to it
\* across pauses, crashes, retries and replacements of the remote file.
NoMixture ==
  site.validator /\ ctx.file # NoFile /\ entry[ctx.file] = "file" =>
    \A o \in Offsets : disk[ctx.file][o] \in {Hole, ctx.etag}

\* A download that ends as COMPLETED is the remote file, whole and of one
\* version, unless the user has removed it meanwhile.
IsVersion(bytes, v) ==
  \A o \in Offsets : bytes[o] = IF o < Len[v] THEN v ELSE Hole
CompletedIsWhole ==
  site.validator /\ ctx.status = "COMPLETED" =>
    /\ ctx.file # NoFile
    /\ entry[ctx.file] = "file" =>
         \E v \in 1 .. version : IsVersion(disk[ctx.file], v)

\* "The file has changed" is only ever said of a file that has changed, if the
\* server answers ranges: however a download was cut short, saved and resumed.
DriftOnlyOnChange == ctx.drift /\ site.range => version > 1

\* Pauses, deletions, restarts and resumes alone never fail a download.
FaultFreeNeverFails ==
  site.length /\ faults = 0 /\ version = 1 => ctx.status # "ERROR"

\* Going on after the probe window costs no retry (http_engine_impl.cpp:845,
\* http_engine_internal.h:229), nor does anything else that is not a fault.
ProbeContinuationIsFree ==
  faults = 0 /\ version = 1 => \A i \in DOMAIN conn : conn[i].retry = 0

\* A pause that comes when the last part is already in must not cost the
\* completion: status says PAUSED, but the row restores as completed.  A worker
\* whose row another overtook may have one of a different file.
RowComplete ==
  \A i \in DOMAIN saved.part : Restored(saved.part[i]).status = "COMPLETED"
LatePauseKeepsCompletion ==
  /\ pc = "done" /\ site.length /\ faults = 0 /\ ~overtaken
  /\ PartsIn("COMPLETED") = DOMAIN part
  => saved.file = ctx.file /\ RowComplete

\* Nothing is lost without a cause: no drift is seen where nothing changed, and
\* pauses, deletions, crashes and resumes cost neither the download, nor a
\* retry, nor its completion.
NothingLostWithoutCause ==
  /\ DriftOnlyOnChange
  /\ FaultFreeNeverFails
  /\ ProbeContinuationIsFree
  /\ LatePauseKeepsCompletion

\* The row of a file never goes back: last_emit_done and the worker's death
\* included, a resume never fetches again what an earlier row had secured.  Only
\* a worker whose row another worker overtook, between do_resume's reading it
\* and start_download's join, takes it back.
ResumeNeverRegresses ==
  [][saved'.file = saved.file /\ saved.file # NoFile /\ ~overtaken =>
       \A i \in DOMAIN saved.part :
         i \in DOMAIN saved'.part /\ saved'.part[i].done >= saved.part[i].done]_vars

\* It is one worker as Workers has them.
Facts ==
  IF Running THEN {"runs"} \cup {w \in {"pause"} : pauseReq}
                           \cup {w \in {"delete"} : cancelReq}
  ELSE {}
Pool == INSTANCE Workers WITH
  Downloads <- {"it"}, worker <- [d \in {"it"} |-> Facts]
WorkersSpec == Pool!Spec

\* A worker asked to stop does so, whatever the network does.
PauseIsPrompt == (Running /\ Stopping) ~> ~Running

\* If every transfer ends, every worker does: no part is waited for in vain
\* and no retry goes on for ever.
WorkerTerminates == NetworkFairness => ((pc = "start") ~> ~Running)
=============================================================================
