------------------------ MODULE HttpCompletionProofs ------------------------
(***************************************************************************)
(* Proofs about HttpDownload, continued: that a completed download is the  *)
(* whole file, and that a task to which nothing happens loses nothing it   *)
(* has received.  Both need to know, of every state, what the task and its *)
(* row hold true of the remote file and where each transfer stands.        *)
(***************************************************************************)
EXTENDS HttpDownloadProofs

-----------------------------------------------------------------------------
(* What each step does, field by field.                                    *)

\* A request for part p over connection c, which becomes d.
Asks(p, c, d) ==
  /\ d.st = "sent" /\ d.probe = ctx.probing /\ d.retry >= c.retry
  /\ d.ifRange = NoValidator \/ (d.ifRange = ctx.etag /\ ~ctx.probing)
  /\ d.pos = IF ctx.probing THEN 0 ELSE p.start + p.done
  /\ d.stop = IF ctx.probing THEN ProbeWindow
              ELSE IF p.end >= p.start + p.done THEN p.end + 1 ELSE OpenEnd
  /\ \/ c.st = "new" /\ p.status # "COMPLETED" /\ d.retry = c.retry
     \/ c.st = "closed" /\ Verdict(p, c) = "continue" /\ d.retry = c.retry
     \/ c.st = "closed" /\ Verdict(p, c) = "retry" /\ ~Stopping

\* What the worker's own steps make of part p and of its connection c: the part
\* q and the connection d.
PartMoves(p, c, q) ==
  /\ q.start = p.start /\ q.end = p.end /\ q.done = p.done
  /\ \/ q.status = p.status /\ q.size = p.size
     \/ faults' # 0 /\ q.status = "ERROR" /\ q.size = p.size
     \/ /\ c.st = "closed" /\ ~Stopping /\ Verdict(p, c) = "giveup"
        /\ q.status = "ERROR" /\ q.size = p.size
     \/ /\ c.st = "closed" /\ Verdict(p, c) = "full"
        /\ q.status = "COMPLETED" /\ q.size = p.size
     \/ /\ c.st = "closed" /\ Verdict(p, c) = "whole"
        /\ q.status = "COMPLETED" /\ q.size = p.done
ConnMoves(p, c, q, d) ==
  \/ d = c /\ q = p
  \/ d.st = "idle" /\ d.probe = c.probe /\ d.retry = c.retry
  \/ q = p /\ Asks(p, c, d)
Moves ==
  /\ DOMAIN part' = DOMAIN part /\ DOMAIN conn' = DOMAIN conn
  /\ faults' \in Nat /\ (faults' = 0 => faults = 0)
  /\ \A i \in DOMAIN conn :
       /\ PartMoves(part[i], conn[i], part'[i])
       /\ ConnMoves(part[i], conn[i], part'[i], conn'[i])

LEMMA VerdictIs ==
  ASSUME NEW p \in PartType, NEW c \in ConnType
  PROVE  /\ Verdict(p, c) = "full" =>
              p.size > 0 /\ p.done >= p.size /\ p.status # "ERROR"
         /\ Verdict(p, c) = "whole" =>
              /\ p.size = 0 /\ p.status # "ERROR"
              /\ c.rc = "ok" /\ ~(c.probe /\ c.code = 206 /\ p.done > 0)
         /\ Verdict(p, c) = "continue" =>
              /\ p.status # "ERROR" /\ (p.size = 0 \/ p.done < p.size)
              /\ c.probe /\ c.rc = "ok" /\ c.code = 206
         /\ Verdict(p, c) \in {"retry", "giveup"} =>
              /\ p.status # "ERROR" /\ (p.size = 0 \/ p.done < p.size)
              /\ ~(c.probe /\ c.rc = "ok" /\ c.code = 206 /\ p.done > 0)
              /\ ~(c.rc = "ok" /\ c.code \in {200, 206} /\ p.size = 0)
         /\ Verdict(p, c) = "retry" =>
              \/ c.rc = "ok" /\ c.code \in {200, 206}
              \/ c.rc = "net"
              \/ c.rc \in {"ok", "http"} /\ c.code = 503
<1>1. p.size \in Nat /\ p.done \in Nat
  BY DEF PartType
<1> QED
  BY <1>1 DEF Verdict, Retryable

LEMMA RequestAsks ==
  ASSUME TypeOK, NEW c \in ConnType, NEW p \in PartType, NEW r \in Nat
  PROVE  LET d == Request([c EXCEPT !.retry = r], p) IN
         /\ d.st = "sent" /\ d.probe = ctx.probing /\ d.retry = r
         /\ d.ifRange = NoValidator \/ (d.ifRange = ctx.etag /\ ~ctx.probing)
         /\ d.pos = IF ctx.probing THEN 0 ELSE p.start + p.done
         /\ d.stop = IF ctx.probing THEN ProbeWindow
                     ELSE IF p.end >= p.start + p.done THEN p.end + 1 ELSE OpenEnd
BY DEF Request, ConnType

LEMMA PartMovesFail ==
  ASSUME NEW p \in PartType, NEW c,
         NEW reason, NEW size, NEW status, size = p.size \/ size = p.done,
         \/ status = p.status /\ size = p.size
         \/ faults' # 0 /\ status = "ERROR" /\ size = p.size
         \/ /\ c.st = "closed" /\ ~Stopping /\ Verdict(p, c) = "giveup"
            /\ status = "ERROR" /\ size = p.size
         \/ /\ c.st = "closed" /\ Verdict(p, c) = "full"
            /\ status = "COMPLETED" /\ size = p.size
         \/ /\ c.st = "closed" /\ Verdict(p, c) = "whole"
            /\ status = "COMPLETED" /\ size = p.done
  PROVE  PartMoves(p, c, [p EXCEPT !.status = status, !.reason = reason, !.size = size])
<1> DEFINE q == [p EXCEPT !.status = status, !.reason = reason, !.size = size]
<1>1. /\ q.start = p.start /\ q.end = p.end /\ q.done = p.done
      /\ q.status = status /\ q.size = size
  BY DEF PartType
<1> HIDE DEF q
<1> QED
  BY <1>1 DEF PartMoves

LEMMA SpawnMoves ==
  ASSUME TypeOK, NEW broken \in SUBSET Mountable, SpawnNewParts(broken)
  PROVE  Moves
<1>1. /\ \A i \in DOMAIN part : part[i] \in PartType /\ conn[i] \in ConnType
      /\ DOMAIN conn = DOMAIN part
  BY DEF TypeOK, IsPart, IsConn
<1>2. DOMAIN part' = DOMAIN part /\ DOMAIN conn' = DOMAIN conn
  BY DEF SpawnNewParts
<1>3. faults' \in Nat /\ (faults' = 0 => faults = 0) /\ (broken # {} => faults' # 0)
  <2>1. faults \in Nat
    BY DEF TypeOK
  <2>2. Fault => faults' \in Nat \ {0}
    BY <2>1 DEF Fault
  <2>3. (broken = {} /\ faults' = faults) \/ Fault
    BY DEF SpawnNewParts
  <2> QED
    BY <2>1, <2>2, <2>3
<1>4. ASSUME NEW i \in DOMAIN conn
      PROVE  /\ PartMoves(part[i], conn[i], part'[i])
             /\ ConnMoves(part[i], conn[i], part'[i], conn'[i])
  <2> DEFINE p == part[i]
             c == conn[i]
             q == [p EXCEPT !.status = "ERROR", !.reason = "ERROR"]
             idle == [c EXCEPT !.st = "idle"]
             r == Request(c, p)
  <2>1. p \in PartType /\ c \in ConnType
    BY <1>1
  <2>2. /\ q.start = p.start /\ q.end = p.end /\ q.done = p.done
        /\ q.status = "ERROR" /\ q.size = p.size
    BY <2>1 DEF PartType
  <2>3. idle.st = "idle" /\ idle.probe = c.probe /\ idle.retry = c.retry
    BY <2>1 DEF ConnType
  <2>4. /\ r.st = "sent" /\ r.probe = ctx.probing /\ r.retry = c.retry
        /\ r.ifRange = NoValidator \/ (r.ifRange = ctx.etag /\ ~ctx.probing)
        /\ r.pos = IF ctx.probing THEN 0 ELSE p.start + p.done
        /\ r.stop = IF ctx.probing THEN ProbeWindow
                    ELSE IF p.end >= p.start + p.done THEN p.end + 1 ELSE OpenEnd
    BY <2>1 DEF Request, ConnType
  <2>5. \/ part'[i] = p /\ conn'[i] = c
        \/ part'[i] = p /\ conn'[i] = idle
        \/ c.st = "new" /\ p.status # "COMPLETED" /\ part'[i] = p /\ conn'[i] = r
        \/ faults' # 0 /\ part'[i] = q /\ conn'[i] = idle
    BY <1>1, <1>3 DEF SpawnNewParts, Mountable, Unmounted
  <2>6. c.retry \in Nat
    BY <2>1 DEF ConnType
  <2> HIDE DEF p, c, q, idle, r
  <2> QED
    BY <2>2, <2>3, <2>4, <2>5, <2>6 DEF PartMoves, ConnMoves, Asks, p, c
<1> QED
  BY <1>2, <1>3, <1>4 DEF Moves

LEMMA SameMoves ==
  ASSUME TypeOK, UNCHANGED part, faults' \in Nat, (faults' = 0 => faults = 0),
         \/ UNCHANGED conn
         \/ conn' = [i \in DOMAIN conn |-> [conn[i] EXCEPT !.st = "idle"]]
  PROVE  Moves
<1>1. \A i \in DOMAIN part : conn[i] \in ConnType
  BY DEF TypeOK, IsConn
<1>2. DOMAIN conn = DOMAIN part
  BY DEF TypeOK, IsConn
<1>3. ASSUME NEW i \in DOMAIN conn
      PROVE  ConnMoves(part[i], conn[i], part'[i], conn'[i])
  <2> DEFINE idle == [conn[i] EXCEPT !.st = "idle"]
  <2>1. idle.st = "idle" /\ idle.probe = conn[i].probe /\ idle.retry = conn[i].retry
    BY <1>1, <1>2 DEF ConnType
  <2>2. conn'[i] = conn[i] \/ conn'[i] = idle
    OBVIOUS
  <2> HIDE DEF idle
  <2> QED
    BY <2>1, <2>2 DEF ConnMoves
<1> QED
  BY <1>3 DEF Moves, PartMoves

LEMMA WMsgMoves ==
  ASSUME TypeOK, NEW i \in DOMAIN conn, WMsg(i)
  PROVE  /\ Moves /\ conn[i].st = "closed"
         /\ \/ ctx' = ctx
            \/ /\ Verdict(part[i], conn[i]) = "whole" /\ ctx.total <= 0
               /\ ctx' = [ctx EXCEPT !.total = part[i].done]
<1> DEFINE p == part[i]
           c == conn[i]
           v == Verdict(p, c)
           d == conn'[i]
           idle == [c EXCEPT !.st = "idle"]
<1>1. /\ p \in PartType /\ c \in ConnType /\ DOMAIN conn = DOMAIN part
      /\ c.st = "closed" /\ ctx \in CtxType /\ c.retry \in Nat /\ faults \in Nat
  BY DEF TypeOK, IsPart, IsConn, WMsg, IsCtx, ConnType
<1>2. idle.st = "idle" /\ idle.probe = c.probe /\ idle.retry = c.retry
  BY <1>1 DEF ConnType
<1>3. \A r \in Nat : LET e == Request([c EXCEPT !.retry = r], p) IN
         /\ e.st = "sent" /\ e.probe = ctx.probing /\ e.retry = r
         /\ e.ifRange = NoValidator \/ (e.ifRange = ctx.etag /\ ~ctx.probing)
         /\ e.pos = IF ctx.probing THEN 0 ELSE p.start + p.done
         /\ e.stop = IF ctx.probing THEN ProbeWindow
                     ELSE IF p.end >= p.start + p.done THEN p.end + 1 ELSE OpenEnd
  BY <1>1, RequestAsks
<1>4. c = [c EXCEPT !.retry = c.retry]
  BY <1>1 DEF ConnType
<1>5. Drop(i) => conn' = [conn EXCEPT ![i] = idle]
  BY DEF Drop
<1>6. PartError(i) =>
        part' = [part EXCEPT ![i] =
                   [p EXCEPT !.status = "ERROR", !.reason = "ERROR", !.size = p.size]]
  BY <1>1 DEF PartError, PartType
<1>7. \/ Stopping /\ Drop(i) /\ UNCHANGED <<ctx, part, faults>>
      \/ /\ ~Stopping
         /\ ctx' = [ctx EXCEPT !.total = IF v = "whole" /\ @ <= 0 THEN p.done ELSE @]
         /\ \/ v = "failed" /\ Drop(i) /\ UNCHANGED <<part, faults>>
            \/ /\ v = "full" /\ Drop(i) /\ UNCHANGED faults
               /\ part' = [part EXCEPT ![i] =
                     [p EXCEPT !.status = "COMPLETED", !.reason = "NONE", !.size = p.size]]
            \/ /\ v = "whole" /\ Drop(i) /\ UNCHANGED faults
               /\ part' = [part EXCEPT ![i] =
                     [p EXCEPT !.status = "COMPLETED", !.reason = "NONE", !.size = p.done]]
            \/ /\ v = "continue" /\ UNCHANGED <<part, faults>>
               /\ conn' = [conn EXCEPT ![i] = Request(c, p)]
            \/ /\ v = "retry" /\ UNCHANGED <<part, faults>>
               /\ conn' = [conn EXCEPT ![i] = Request([c EXCEPT !.retry = @ + 1], p)]
            \/ v \in {"continue", "retry"} /\ Fault /\ PartError(i) /\ Drop(i)
            \/ /\ v = "giveup" /\ Drop(i) /\ UNCHANGED faults
               /\ part' = [part EXCEPT ![i] =
                     [p EXCEPT !.status = "ERROR", !.reason = GiveupReason(c),
                               !.size = p.size]]
  BY DEF WMsg, Retried
<1>8. \/ ctx' = ctx
      \/ v = "whole" /\ ctx.total <= 0 /\ ctx' = [ctx EXCEPT !.total = p.done]
  <2> DEFINE total == IF v = "whole" /\ ctx.total <= 0 THEN p.done ELSE ctx.total
  <2>1. ctx' = ctx \/ ctx' = [ctx EXCEPT !.total = total]
    BY <1>7
  <2> HIDE DEF v, p
  <2>2. CASE v = "whole" /\ ctx.total <= 0
    <3>1. total = p.done
      BY <2>2
    <3> HIDE DEF total
    <3> QED
      BY <2>1, <2>2, <3>1
  <2>3. CASE ~(v = "whole" /\ ctx.total <= 0)
    <3>1. total = ctx.total
      BY <2>3
    <3> HIDE DEF total
    <3>2. [ctx EXCEPT !.total = total] = ctx
      BY <1>1, <3>1 DEF CtxType
    <3> QED
      BY <2>1, <3>2
  <2> QED
    BY <2>2, <2>3
<1>9. faults' \in Nat /\ (faults' = 0 => faults = 0)
  BY <1>1, <1>7 DEF Fault
<1>10. \/ part' = part
       \/ \E status, reason, size :
            /\ part' = [part EXCEPT ![i] = [p EXCEPT !.status = status,
                                                    !.reason = reason, !.size = size]]
            /\ size = p.size \/ size = p.done
            /\ \/ faults' # 0 /\ status = "ERROR" /\ size = p.size
               \/ ~Stopping /\ v = "giveup" /\ status = "ERROR" /\ size = p.size
               \/ v = "full" /\ status = "COMPLETED" /\ size = p.size
               \/ v = "whole" /\ status = "COMPLETED" /\ size = p.done
            /\ conn' = [conn EXCEPT ![i] = idle]
  <2> DEFINE Becomes(status, reason, size) ==
               /\ part' = [part EXCEPT ![i] = [p EXCEPT !.status = status,
                                                       !.reason = reason, !.size = size]]
               /\ conn' = [conn EXCEPT ![i] = idle]
  <2>1. Fault => faults' # 0
    BY <1>1 DEF Fault
  <2>2. \/ part' = part
        \/ v = "full" /\ Becomes("COMPLETED", "NONE", p.size)
        \/ v = "whole" /\ Becomes("COMPLETED", "NONE", p.done)
        \/ faults' # 0 /\ Becomes("ERROR", "ERROR", p.size)
        \/ ~Stopping /\ v = "giveup" /\ Becomes("ERROR", GiveupReason(c), p.size)
    <3> HIDE DEF v, p, idle
    <3> QED
      BY <1>5, <1>6, <1>7, <2>1
  <2>3. ASSUME NEW status, NEW reason, NEW size, Becomes(status, reason, size),
               size = p.size \/ size = p.done,
               \/ faults' # 0 /\ status = "ERROR" /\ size = p.size
               \/ ~Stopping /\ v = "giveup" /\ status = "ERROR" /\ size = p.size
               \/ v = "full" /\ status = "COMPLETED" /\ size = p.size
               \/ v = "whole" /\ status = "COMPLETED" /\ size = p.done
        PROVE  \E s, r, z :
            /\ part' = [part EXCEPT ![i] = [p EXCEPT !.status = s, !.reason = r,
                                                    !.size = z]]
            /\ z = p.size \/ z = p.done
            /\ \/ faults' # 0 /\ s = "ERROR" /\ z = p.size
               \/ ~Stopping /\ v = "giveup" /\ s = "ERROR" /\ z = p.size
               \/ v = "full" /\ s = "COMPLETED" /\ z = p.size
               \/ v = "whole" /\ s = "COMPLETED" /\ z = p.done
            /\ conn' = [conn EXCEPT ![i] = idle]
    <3> HIDE DEF v, p, idle
    <3> WITNESS status, reason, size
    <3> QED
      BY <2>3
  <2> HIDE DEF Becomes, v
  <2> QED
    BY <2>2, <2>3
<1>11. \/ conn' = [conn EXCEPT ![i] = idle]
       \/ part' = part /\ v = "continue" /\ conn' = [conn EXCEPT ![i] = Request(c, p)]
       \/ /\ part' = part /\ v = "retry" /\ ~Stopping
          /\ conn' = [conn EXCEPT ![i] = Request([c EXCEPT !.retry = @ + 1], p)]
  <2> HIDE DEF v, p, idle
  <2> QED
    BY <1>5, <1>7
<1>12. DOMAIN part' = DOMAIN part /\ DOMAIN conn' = DOMAIN conn
  BY <1>10, <1>11
<1>13. ASSUME NEW j \in DOMAIN conn
       PROVE  PartMoves(part[j], conn[j], part'[j])
  <2>1. CASE part'[j] = part[j]
    BY <2>1 DEF PartMoves
  <2>2. CASE part'[j] # part[j]
    <3>1. PICK status, reason, size :
            /\ part' = [part EXCEPT ![i] = [p EXCEPT !.status = status,
                                                    !.reason = reason, !.size = size]]
            /\ size = p.size \/ size = p.done
            /\ \/ faults' # 0 /\ status = "ERROR" /\ size = p.size
               \/ ~Stopping /\ v = "giveup" /\ status = "ERROR" /\ size = p.size
               \/ v = "full" /\ status = "COMPLETED" /\ size = p.size
               \/ v = "whole" /\ status = "COMPLETED" /\ size = p.done
      BY <1>10, <2>2
    <3>2. PartMoves(p, c, [p EXCEPT !.status = status, !.reason = reason, !.size = size])
      BY <1>1, <3>1, PartMovesFail
    <3>3. j = i /\ part'[i] = [p EXCEPT !.status = status, !.reason = reason,
                                       !.size = size]
      BY <1>1, <2>2, <3>1
    <3> QED
      BY <3>2, <3>3
  <2> QED
    BY <2>1, <2>2
<1>14. ASSUME NEW j \in DOMAIN conn
       PROVE  ConnMoves(part[j], conn[j], part'[j], conn'[j])
  <2>1. CASE j # i
    <3>1. conn'[j] = conn[j] /\ part'[j] = part[j]
      BY <1>1, <1>10, <1>11, <2>1
    <3> QED
      BY <3>1 DEF ConnMoves
  <2>2. CASE j = i
    <3>1. CASE conn' = [conn EXCEPT ![i] = idle]
      <4>1. conn'[j] = idle
        BY <2>2, <3>1
      <4> HIDE DEF idle
      <4> QED
        BY <1>2, <2>2, <4>1 DEF ConnMoves
    <3>2. ASSUME NEW r \in Nat, NEW e, part' = part, r >= c.retry,
                 e = Request([c EXCEPT !.retry = r], p),
                 conn' = [conn EXCEPT ![i] = e],
                 \/ v = "continue" /\ r = c.retry
                 \/ v = "retry" /\ ~Stopping
          PROVE  ConnMoves(part[j], conn[j], part'[j], conn'[j])
      <4>1. conn'[j] = e /\ part'[j] = p
        BY <2>2, <3>2
      <4>2. /\ e.st = "sent" /\ e.probe = ctx.probing /\ e.retry = r
            /\ e.ifRange = NoValidator \/ (e.ifRange = ctx.etag /\ ~ctx.probing)
            /\ e.pos = IF ctx.probing THEN 0 ELSE p.start + p.done
            /\ e.stop = IF ctx.probing THEN ProbeWindow
                        ELSE IF p.end >= p.start + p.done THEN p.end + 1 ELSE OpenEnd
        BY <1>3, <3>2
      <4>3. Asks(p, c, e)
        BY <1>1, <3>2, <4>2 DEF Asks
      <4> QED
        BY <2>2, <4>1, <4>3 DEF ConnMoves
    <3>3. c.retry + 1 \in Nat /\ c.retry + 1 >= c.retry
      BY <1>1
    <3>4. CASE part' = part /\ v = "continue" /\ conn' = [conn EXCEPT ![i] = Request(c, p)]
      <4> DEFINE e == Request(c, p)
      <4>1. /\ e = Request([c EXCEPT !.retry = c.retry], p)
            /\ conn' = [conn EXCEPT ![i] = e]
        BY <1>4, <3>4
      <4>2. c.retry \in Nat /\ c.retry >= c.retry
        BY <1>1
      <4> HIDE DEF e, c, v
      <4> QED
        BY <3>2, <3>4, <4>1, <4>2
    <3> QED
      BY <1>11, <3>1, <3>2, <3>3, <3>4
  <2> QED
    BY <2>1, <2>2
<1> QED
  BY <1>1, <1>8, <1>9, <1>12, <1>13, <1>14 DEF Moves

\* What the worker's steps have in common, the rest of a write_cb aside.
WorkerMoves ==
  /\ Moves /\ WorkerKeeps /\ IsCtx'
  /\ ctx'.etag = ctx.etag /\ ctx'.drift = ctx.drift
  /\ \/ ctx'.total = ctx.total
     \/ \E i \in DOMAIN conn :
          /\ conn[i].st = "closed" /\ Verdict(part[i], conn[i]) = "whole"
          /\ ctx'.total = part[i].done
  /\ UNCHANGED <<site, version, pauseReq, cancelReq>>

LEMMA EmitAndDrift ==
  ASSUME NEW next \in CtxType, EmitAnd(next)
  PROVE  ctx'.etag = next.etag /\ ctx'.drift = next.drift /\ ctx'.total = next.total
<1> DEFINE advanced == next.advanced /\ ~Emits
<1>1. ctx' = [next EXCEPT !.advanced = advanced]
  BY DEF EmitAnd
<1> HIDE DEF advanced
<1> QED
  BY <1>1 DEF CtxType

LEMMA FaultsGrow ==
  ASSUME TypeOK, Emit \/ MaybeEmit \/ Fault \/ UNCHANGED faults
  PROVE  faults' \in Nat /\ (faults' = 0 => faults = 0)
<1>1. faults \in Nat /\ (UNCHANGED faults \/ faults' \in Nat \ {0})
  BY DEF TypeOK, Emit, MaybeEmit, Fault
<1> QED
  BY <1>1

LEMMA WorkerDoes ==
  ASSUME TypeOK, ProbeInv, Worker, ~ReceiveFirst
  PROVE  WorkerMoves
<1>1. ctx \in CtxType
  BY DEF TypeOK, IsCtx
<1>2. TypeOK' /\ WorkerKeeps
  BY WorkerType DEF WorkerKeeps
<1>3. UNCHANGED <<site, version, pauseReq, cancelReq>>
  BY DEF Worker, WStart, WTop, WPoll, WEmit, WFinish, WLeave, WMsg, WorkerFrame,
         requestVars
<1>4. CASE /\ Moves
           /\ ctx'.etag = ctx.etag /\ ctx'.drift = ctx.drift /\ ctx'.total = ctx.total
  BY <1>2, <1>3, <1>4 DEF WorkerMoves, TypeOK
<1>5. CASE WStart
  <2>1. CASE UNCHANGED <<downloadVars, saved, faults>>
    BY <1>4, <2>1, SameMoves, FaultsGrow DEF downloadVars
  <2>2. CASE EmitAnd([ctx EXCEPT !.status = "PAUSED"]) /\ UNCHANGED <<part, conn>>
    <3> DEFINE next == [ctx EXCEPT !.status = "PAUSED"]
    <3>1. next \in CtxType /\ next.etag = ctx.etag /\ next.total = ctx.total
          /\ next.drift = ctx.drift
      BY <1>1 DEF CtxType, Statuses
    <3>2. EmitAnd(next) /\ MaybeEmit
      BY <2>2 DEF EmitAnd
    <3> HIDE DEF next
    <3> QED
      BY <1>4, <2>2, <3>1, <3>2, EmitAndDrift, SameMoves, FaultsGrow
  <2>3. CASE /\ \E broken \in SUBSET Mountable : SpawnNewParts(broken)
             /\ UNCHANGED <<ctx, saved>>
    BY <1>4, <2>3, SpawnMoves
  <2>4. CASE /\ Fault /\ ctx' = [ctx EXCEPT !.status = "ERROR", !.reason = "ERROR"]
             /\ UNCHANGED <<part, conn, saved>>
    <3>1. ctx'.etag = ctx.etag /\ ctx'.total = ctx.total /\ ctx'.drift = ctx.drift
      BY <1>1, <2>4 DEF CtxType
    <3> QED
      BY <1>4, <2>4, <3>1, SameMoves, FaultsGrow
  <2> QED
    BY <1>5, <2>1, <2>2, <2>3, <2>4 DEF WStart
<1>6. CASE WTop
  BY <1>4, <1>6, SameMoves, FaultsGrow DEF WTop, downloadVars
<1>7. CASE WPoll
  <2>1. CASE Fault /\ UNCHANGED <<part, conn>>
    BY <1>4, <1>7, <2>1, SameMoves, FaultsGrow DEF WPoll
  <2>2. CASE \E broken \in SUBSET Mountable : SpawnNewParts(broken)
    BY <1>4, <1>7, <2>2, SpawnMoves DEF WPoll
  <2> QED
    BY <1>7, <2>1, <2>2 DEF WPoll
<1>8. CASE WEmit
  <2>1. EmitAnd(ctx) /\ MaybeEmit /\ UNCHANGED <<part, conn>>
    BY <1>8 DEF WEmit, EmitAnd
  <2> QED
    BY <1>1, <1>4, <2>1, EmitAndDrift, SameMoves, FaultsGrow
<1>9. CASE WFinish
  <2>1. Aggregated \in CtxType /\ Aggregated.etag = ctx.etag
        /\ Aggregated.total = ctx.total /\ Aggregated.drift = ctx.drift
    BY <1>1, AggregatedType DEF Aggregated, CtxType
  <2>2. EmitAnd(Aggregated) \/ ctx' = Aggregated
    BY <1>9 DEF WFinish
  <2>3. Emit \/ MaybeEmit \/ UNCHANGED faults
    BY <1>9 DEF WFinish, EmitAnd
  <2>4. /\ conn' = [i \in DOMAIN conn |-> [conn[i] EXCEPT !.st = "idle"]]
        /\ UNCHANGED part
    BY <1>9 DEF WFinish
  <2>5. Moves
    BY <2>3, <2>4, SameMoves, FaultsGrow
  <2> QED
    BY <1>4, <2>1, <2>2, <2>5, EmitAndDrift
<1>10. CASE WLeave
  <2>1. ctx'.etag = ctx.etag /\ ctx'.total = ctx.total /\ ctx'.drift = ctx.drift
    <3> DEFINE status == IF pauseReq /\ ~cancelReq THEN "PAUSED" ELSE ctx.status
    <3>1. ctx' = [ctx EXCEPT !.status = status]
      BY <1>10 DEF WLeave
    <3> HIDE DEF status
    <3> QED
      BY <1>1, <3>1 DEF CtxType
  <2> QED
    BY <1>4, <1>10, <2>1, SameMoves, FaultsGrow DEF WLeave
<1>11. ASSUME NEW i \in DOMAIN conn, WMsg(i) PROVE WorkerMoves
  <2>1. /\ Moves /\ conn[i].st = "closed"
        /\ \/ ctx' = ctx
           \/ /\ Verdict(part[i], conn[i]) = "whole" /\ ctx.total <= 0
              /\ ctx' = [ctx EXCEPT !.total = part[i].done]
    BY <1>11, WMsgMoves
  <2>2. CASE ctx' = [ctx EXCEPT !.total = part[i].done]
    <3>1. ctx'.etag = ctx.etag /\ ctx'.drift = ctx.drift /\ ctx'.total = part[i].done
      BY <1>1, <2>2 DEF CtxType
    <3> QED
      BY <1>2, <1>3, <1>4, <2>1, <3>1 DEF WorkerMoves, TypeOK
  <2> QED
    BY <1>4, <2>1, <2>2
<1> QED
  BY <1>5, <1>6, <1>7, <1>8, <1>9, <1>10, <1>11 DEF Worker

\* A callback or the end of a transfer concerns connection i only.
OnlyAt(i) ==
  /\ DOMAIN part' = DOMAIN part /\ DOMAIN conn' = DOMAIN conn
  /\ \A j \in DOMAIN conn \ {i} : conn'[j] = conn[j] /\ part'[j] = part[j]
  /\ conn'[i].probe = conn[i].probe /\ conn'[i].retry = conn[i].retry
  /\ /\ part'[i].start = part[i].start /\ part'[i].end = part[i].end
     /\ part'[i].size = part[i].size
  /\ UNCHANGED <<site, version, pauseReq, cancelReq, saved, loaded, overtaken>>
  /\ faults' \in Nat /\ (faults' = 0 => faults = 0)

\* What a file that has changed does to the task.
Drifts(i) ==
  /\ part'[i].done = part[i].done /\ part'[i].status = "ERROR"
  /\ conn'[i].st = "closed" /\ conn'[i].rc = "write"
  /\ ctx'.status = "ERROR" /\ ctx'.reason = "ERROR" /\ ctx'.drift = TRUE
  /\ ctx'.total = ctx.total /\ ctx'.etag = ctx.etag

\* What the headers of an accepted answer do to it.
Accepts(i, code, last) ==
  /\ part'[i] = part[i]
  /\ IF code = 416 THEN conn'[i].st = "closed" /\ conn'[i].rc = "http"
                   ELSE conn'[i].st = "body"
  /\ conn'[i].code = code /\ conn'[i].ver = version
  /\ conn'[i].pos = IF code = 200 THEN 0 ELSE conn[i].pos
  /\ conn'[i].stop = last
  /\ conn'[i].seen = IF ctx.probing THEN SeenTotal(code) ELSE 0
  /\ ctx'.status = ctx.status /\ ctx'.reason = ctx.reason /\ ctx'.drift = ctx.drift
  /\ ctx'.total = IF code # 200 /\ site.length /\ ctx.total <= 0 /\ Len[version] > 0
                  THEN Len[version] ELSE ctx.total
  /\ ctx'.etag = IF site.validator THEN version ELSE ctx.etag

LEMMA ReplyIs ==
  ASSUME TypeOK, NEW i \in DOMAIN conn, Reply(i)
  PROVE  /\ OnlyAt(i) /\ UNCHANGED <<pc, entry, disk>>
         /\ conn[i].st = "sent" /\ ctx.status # "ERROR"
         /\ ctx'.file = ctx.file /\ ctx'.probing = ctx.probing /\ ctx'.range = ctx.range
         /\ \E code \in Codes(conn[i]) : \E last \in BodyEnds(conn[i], code) :
              /\ last # FullStop(conn[i], code) => faults' # 0
              /\ \/ Drifted(i, code) /\ Drifts(i)
                 \/ ~Drifted(i, code) /\ Accepts(i, code, last)
<1>1. /\ part[i] \in PartType /\ conn[i] \in ConnType /\ ctx \in CtxType
      /\ i \in DOMAIN part /\ faults \in Nat /\ DOMAIN conn = DOMAIN part
  BY DEF TypeOK, IsPart, IsConn, IsCtx
<1>2. PICK code \in Codes(conn[i]) : \E last \in BodyEnds(conn[i], code) :
        /\ IF last = FullStop(conn[i], code) THEN UNCHANGED faults ELSE Fault
        /\ IF Drifted(i, code) THEN MarkDrift(i) ELSE AcceptHeaders(i, code, last)
  BY DEF Reply
<1>3. PICK last \in BodyEnds(conn[i], code) :
        /\ IF last = FullStop(conn[i], code) THEN UNCHANGED faults ELSE Fault
        /\ IF Drifted(i, code) THEN MarkDrift(i) ELSE AcceptHeaders(i, code, last)
  BY <1>2
<1>4. /\ faults' \in Nat /\ (faults' = 0 => faults = 0)
      /\ last # FullStop(conn[i], code) => faults' # 0
  BY <1>1, <1>3 DEF Fault
<1>5. /\ UNCHANGED <<site, version, pauseReq, cancelReq, saved, loaded, overtaken,
                     pc, entry, disk>>
      /\ conn[i].st = "sent" /\ ctx.status # "ERROR"
  BY DEF Reply, CallbackFrame, requestVars, resumeVars
<1>6. CASE Drifted(i, code)
  <2> DEFINE d == Closed(conn[i], "write")
             q == [part[i] EXCEPT !.status = "ERROR", !.reason = "ERROR"]
  <2>1. /\ d.st = "closed" /\ d.rc = "write"
        /\ d.probe = conn[i].probe /\ d.retry = conn[i].retry
    BY <1>1 DEF Closed, ConnType
  <2>2. /\ q.start = part[i].start /\ q.end = part[i].end /\ q.size = part[i].size
        /\ q.done = part[i].done /\ q.status = "ERROR"
    BY <1>1 DEF PartType
  <2>3. conn' = [conn EXCEPT ![i] = d] /\ part' = [part EXCEPT ![i] = q]
    BY <1>3, <1>6 DEF MarkDrift, PartError
  <2> HIDE DEF d, q
  <2>4. OnlyAt(i) /\ conn'[i] = d /\ part'[i] = q
    BY <1>1, <1>4, <1>5, <2>1, <2>2, <2>3 DEF OnlyAt
  <2>5. /\ ctx'.status = "ERROR" /\ ctx'.reason = "ERROR" /\ ctx'.drift = TRUE
        /\ ctx'.total = ctx.total /\ ctx'.etag = ctx.etag
        /\ ctx'.file = ctx.file /\ ctx'.probing = ctx.probing /\ ctx'.range = ctx.range
    BY <1>1, <1>3, <1>6 DEF MarkDrift, CtxType
  <2>6. Drifts(i)
    BY <2>1, <2>2, <2>4, <2>5 DEF Drifts
  <2> QED
    BY <1>4, <1>5, <1>6, <2>4, <2>5, <2>6
<1>7. CASE ~Drifted(i, code)
  <2> DEFINE total == IF code # 200 /\ site.length /\ ctx.total <= 0
                         /\ Len[version] > 0
                      THEN Len[version] ELSE ctx.total
             etag == IF site.validator THEN version ELSE ctx.etag
             from == IF code = 200 THEN 0 ELSE conn[i].pos
             seen == IF ctx.probing THEN SeenTotal(code) ELSE 0
             d == [conn[i] EXCEPT !.st = "body", !.code = code, !.ver = version,
                                  !.pos = from, !.stop = last, !.seen = seen]
             e == IF code = 416 THEN Closed(d, "http") ELSE d
  <2>1. /\ ctx' = [ctx EXCEPT !.total = total, !.etag = etag] /\ part' = part
        /\ conn' = [conn EXCEPT ![i] = e]
    BY <1>3, <1>7 DEF AcceptHeaders
  <2>2. /\ ctx'.total = total /\ ctx'.etag = etag /\ ctx'.file = ctx.file
        /\ ctx'.probing = ctx.probing /\ ctx'.range = ctx.range
        /\ ctx'.status = ctx.status /\ ctx'.reason = ctx.reason
        /\ ctx'.drift = ctx.drift
    <3> HIDE DEF total, etag, e
    <3> QED
      BY <1>1, <2>1 DEF CtxType
  <2>3. /\ IF code = 416 THEN e.st = "closed" /\ e.rc = "http" ELSE e.st = "body"
        /\ e.code = code /\ e.ver = version /\ e.pos = from /\ e.stop = last
        /\ e.seen = seen /\ e.probe = conn[i].probe /\ e.retry = conn[i].retry
    <3> HIDE DEF from, seen
    <3> QED
      BY <1>1 DEF Closed, ConnType
  <2> HIDE DEF d, e
  <2>4. OnlyAt(i) /\ conn'[i] = e
    BY <1>1, <1>4, <1>5, <2>1, <2>3 DEF OnlyAt
  <2>5. Accepts(i, code, last)
    BY <2>1, <2>2, <2>3, <2>4 DEF Accepts
  <2> QED
    BY <1>4, <1>5, <1>7, <2>2, <2>4, <2>5
<1> QED
  BY <1>3, <1>6, <1>7

\* What the end of a transfer does to its connection.
Ends(i) ==
  /\ conn[i].st \in {"sent", "body"} /\ conn'[i].st = "closed" /\ conn'[i].pos = conn[i].pos
  /\ conn'[i].stop = conn[i].stop /\ conn'[i].ver = conn[i].ver
  /\ conn'[i].seen = conn[i].seen
  /\ \/ /\ conn[i].st = "body" /\ conn[i].pos = conn[i].stop
        /\ conn'[i].rc = "ok" /\ conn'[i].code = conn[i].code
     \/ /\ ctx.status = "ERROR" \/ Stopping
        /\ conn'[i].rc = "write"
     \/ faults' # 0 /\ conn'[i].rc \in {"net", "http"}

LEMMA EndIs ==
  ASSUME TypeOK, NEW i \in DOMAIN conn,
         TransferFails(i) \/ Refuse(i) \/ EndOfBody(i)
  PROVE  OnlyAt(i) /\ Ends(i) /\ UNCHANGED <<pc, ctx, part, entry, disk>>
<1>1. /\ conn[i] \in ConnType /\ faults \in Nat /\ DOMAIN conn = DOMAIN part
  BY DEF TypeOK, IsPart, IsConn
<1>2. UNCHANGED <<site, version, pauseReq, cancelReq, saved, loaded, overtaken, pc,
                  ctx, part, entry, disk>>
  BY DEF TransferFails, Refuse, EndOfBody, CallbackFrame, requestVars, resumeVars
<1>4. [conn[i] EXCEPT !.code = conn[i].code] = conn[i]
  BY <1>1 DEF ConnType
<1>5. /\ faults' \in Nat /\ (faults' = 0 => faults = 0)
      /\ TransferFails(i) => faults' # 0
  BY <1>1 DEF TransferFails, Refuse, EndOfBody, Fault
<1>6. \E code : \E rc \in {"ok", "write", "net", "http"} :
        /\ conn' = [conn EXCEPT ![i] = Closed([conn[i] EXCEPT !.code = code], rc)]
        /\ \/ /\ rc = "ok" /\ code = conn[i].code
              /\ conn[i].st = "body" /\ conn[i].pos = conn[i].stop
           \/ /\ ctx.status = "ERROR" \/ Stopping
              /\ rc = "write"
           \/ TransferFails(i) /\ rc \in {"net", "http"}
  <2>1. CASE EndOfBody(i)
    <3>1. /\ conn' = [conn EXCEPT ![i] =
                        Closed([conn[i] EXCEPT !.code = conn[i].code], "ok")]
          /\ conn[i].st = "body" /\ conn[i].pos = conn[i].stop
      BY <1>4, <2>1 DEF EndOfBody
    <3> QED
      BY <3>1
  <2>2. CASE Refuse(i)
    <3>1. /\ conn' = [conn EXCEPT ![i] =
                        Closed([conn[i] EXCEPT !.code = conn[i].code], "write")]
          /\ ctx.status = "ERROR" \/ Stopping
      BY <1>4, <2>2 DEF Refuse, Stopping
    <3> QED
      BY <3>1
  <2>3. CASE TransferFails(i)
    <3>1. CASE conn' = [conn EXCEPT ![i] = Closed(@, "net")]
      <4>1. conn' = [conn EXCEPT ![i] =
                        Closed([conn[i] EXCEPT !.code = conn[i].code], "net")]
        BY <1>4, <3>1
      <4> QED
        BY <2>3, <4>1
    <3>2. ASSUME NEW code,
                 conn' = [conn EXCEPT ![i] = Closed([@ EXCEPT !.code = code], "http")]
          PROVE  conn' = [conn EXCEPT ![i] =
                            Closed([conn[i] EXCEPT !.code = code], "http")]
      BY <3>2
    <3>3. \/ conn' = [conn EXCEPT ![i] = Closed(@, "net")]
          \/ \E code : conn' = [conn EXCEPT ![i] =
                                  Closed([conn[i] EXCEPT !.code = code], "http")]
      BY <2>3 DEF TransferFails
    <3> QED
      BY <2>3, <3>1, <3>3
  <2> QED
    BY <2>1, <2>2, <2>3
<1>7. PICK code : \E rc \in {"ok", "write", "net", "http"} :
        /\ conn' = [conn EXCEPT ![i] = Closed([conn[i] EXCEPT !.code = code], rc)]
        /\ \/ /\ rc = "ok" /\ code = conn[i].code
              /\ conn[i].st = "body" /\ conn[i].pos = conn[i].stop
           \/ /\ ctx.status = "ERROR" \/ Stopping
              /\ rc = "write"
           \/ TransferFails(i) /\ rc \in {"net", "http"}
  BY <1>6
<1>8. PICK rc \in {"ok", "write", "net", "http"} :
        /\ conn' = [conn EXCEPT ![i] = Closed([conn[i] EXCEPT !.code = code], rc)]
        /\ \/ /\ rc = "ok" /\ code = conn[i].code
              /\ conn[i].st = "body" /\ conn[i].pos = conn[i].stop
           \/ /\ ctx.status = "ERROR" \/ Stopping
              /\ rc = "write"
           \/ TransferFails(i) /\ rc \in {"net", "http"}
  BY <1>7
<1> DEFINE d == Closed([conn[i] EXCEPT !.code = code], rc)
<1>9. /\ d.st = "closed" /\ d.rc = rc /\ d.code = code
      /\ d.pos = conn[i].pos /\ d.stop = conn[i].stop /\ d.ver = conn[i].ver
      /\ d.seen = conn[i].seen /\ d.probe = conn[i].probe
      /\ d.retry = conn[i].retry
  BY <1>1 DEF Closed, ConnType
<1>10. conn' = [conn EXCEPT ![i] = d]
  BY <1>8
<1> HIDE DEF d
<1>11. OnlyAt(i) /\ conn'[i] = d
  BY <1>1, <1>2, <1>5, <1>9, <1>10 DEF OnlyAt
<1>12. conn[i].st \in {"sent", "body"}
  BY DEF TransferFails, Refuse, EndOfBody
<1>13. Ends(i)
  BY <1>5, <1>8, <1>9, <1>11, <1>12 DEF Ends
<1> QED
  BY <1>2, <1>11, <1>13

\* What write_cb does to its part and connection if it does not write, and if it
\* writes k bytes.
Rejects(i) ==
  /\ UNCHANGED <<ctx, disk>>
  /\ part'[i].done = part[i].done
  /\ conn'[i].st = "closed" /\ conn'[i].rc = "write"
  /\ \/ part[i].size > 0 /\ part[i].done >= part[i].size
        /\ part'[i].status = part[i].status
     \/ /\ faults' # 0 \/ entry[ctx.file] # "file"
        /\ part'[i].status = "ERROR"
Takes(i, k) ==
  /\ part[i].size > 0 => part[i].done + k <= part[i].size
  /\ conn[i].pos + k <= conn[i].stop
  /\ part'[i].done = part[i].done + k /\ part'[i].status = part[i].status
  /\ conn'[i].pos = conn[i].pos + k /\ conn'[i].stop = conn[i].stop
  /\ conn'[i].ver = conn[i].ver /\ conn'[i].code = conn[i].code
  /\ conn'[i].seen = conn[i].seen
  /\ \/ conn'[i].st = conn[i].st /\ conn'[i].rc = conn[i].rc
     \/ /\ conn'[i].st = "closed" /\ conn'[i].rc = "write"
        /\ part[i].size > 0 /\ part'[i].done = part[i].size

LEMMA WriteIs ==
  ASSUME TypeOK, NEW i \in DOMAIN part, WriteBody(i)
  PROVE  /\ OnlyAt(i) /\ entry' = entry /\ pc' = "perform"
         /\ Rejects(i) \/ \E k \in Nat : Writes(i, k) /\ Takes(i, k)
<1> DEFINE p == part[i]
           c == conn[i]
           takes(n) == IF p.size > 0 THEN Smaller(n, p.size - p.done) ELSE n
<1>1. /\ p \in PartType /\ c \in ConnType /\ faults \in Nat
      /\ DOMAIN conn = DOMAIN part
  BY DEF TypeOK, IsPart, IsConn
<1>2. PICK n \in 1 .. Smaller(MaxBurst, c.stop - c.pos) :
          \/ /\ p.size > 0 /\ p.done >= p.size
             /\ conn' = [conn EXCEPT ![i] = Closed(@, "write")]
             /\ UNCHANGED <<ctx, part, disk, faults>>
          \/ /\ \/ entry[ctx.file] # "file" /\ UNCHANGED faults
                \/ entry[ctx.file] = "file" /\ Fault
             /\ PartError(i)
             /\ conn' = [conn EXCEPT ![i] = Closed(@, "write")]
             /\ UNCHANGED <<ctx, disk>>
          \/ /\ p.size <= 0 \/ p.done < p.size
             /\ Writes(i, takes(n))
             /\ LET d == [c EXCEPT !.pos = @ + takes(n)]
                IN conn' = [conn EXCEPT ![i] =
                              IF takes(n) < n THEN Closed(d, "write") ELSE d]
             /\ UNCHANGED faults
  BY DEF WriteBody, Writes
<1>3. /\ UNCHANGED <<site, version, pauseReq, cancelReq, saved, loaded, overtaken,
                     entry>>
      /\ pc' = "perform"
  BY DEF WriteBody, CallbackFrame, requestVars, resumeVars
<1>4. n \in Nat /\ n <= c.stop - c.pos
  <2>1. c.stop - c.pos \in Int
    BY <1>1 DEF ConnType, OpenEnd
  <2>2. MaxBurst \in Nat
    BY DownloadAssumption
  <2> QED
    BY <2>1, <2>2 DEF Smaller
<1>5. faults' \in Nat /\ (faults' = 0 => faults = 0)
  BY <1>1, <1>2 DEF Fault
<1>6. CASE /\ conn' = [conn EXCEPT ![i] = Closed(@, "write")]
           /\ UNCHANGED <<ctx, disk>>
           /\ \/ p.size > 0 /\ p.done >= p.size /\ part' = part
              \/ /\ faults' # 0 \/ entry[ctx.file] # "file"
                 /\ PartError(i)
  <2> DEFINE e == Closed(c, "write")
             q == [p EXCEPT !.status = "ERROR", !.reason = "ERROR"]
  <2>1. e.st = "closed" /\ e.rc = "write" /\ e.probe = c.probe /\ e.retry = c.retry
    BY <1>1 DEF Closed, ConnType
  <2>2. /\ q.start = p.start /\ q.end = p.end /\ q.size = p.size
        /\ q.done = p.done /\ q.status = "ERROR"
    BY <1>1 DEF PartType
  <2>3. conn' = [conn EXCEPT ![i] = e]
    BY <1>6
  <2>4. \/ p.size > 0 /\ p.done >= p.size /\ part' = part
        \/ /\ faults' # 0 \/ entry[ctx.file] # "file"
           /\ part' = [part EXCEPT ![i] = q]
    BY <1>6 DEF PartError
  <2> HIDE DEF e, q
  <2>5. OnlyAt(i) /\ conn'[i] = e
    BY <1>1, <1>3, <1>5, <2>1, <2>2, <2>3, <2>4 DEF OnlyAt
  <2>6. \/ p.size > 0 /\ p.done >= p.size /\ part'[i] = p
        \/ /\ faults' # 0 \/ entry[ctx.file] # "file"
           /\ part'[i] = q
    BY <2>4
  <2>7. Rejects(i)
    BY <1>6, <2>1, <2>2, <2>5, <2>6 DEF Rejects
  <2> QED
    BY <1>3, <2>5, <2>7
<1>7. CASE /\ p.size <= 0 \/ p.done < p.size
           /\ Writes(i, takes(n))
           /\ LET d == [c EXCEPT !.pos = @ + takes(n)]
              IN conn' = [conn EXCEPT ![i] =
                            IF takes(n) < n THEN Closed(d, "write") ELSE d]
  <2> DEFINE k == takes(n)
             pos == c.pos + k
             d == [c EXCEPT !.pos = pos]
             e == IF k < n THEN Closed(d, "write") ELSE d
             done == p.done + k
             q == [p EXCEPT !.done = done]
  <2>1. /\ k \in Nat /\ k <= n /\ (p.size > 0 => p.done + k <= p.size)
        /\ k < n => p.size > 0 /\ p.done + k = p.size
    <3>1. p.size \in Nat /\ p.done \in Nat
      BY <1>1 DEF PartType
    <3> QED
      BY <1>4, <1>7, <3>1 DEF Smaller
  <2>2. /\ conn' = [conn EXCEPT ![i] = e] /\ Writes(i, k)
        /\ part' = [part EXCEPT ![i] = q]
    BY <1>7 DEF Writes
  <2> HIDE DEF k
  <2>3. pos <= c.stop
    BY <1>1, <1>4, <2>1 DEF ConnType, OpenEnd
  <2>4. /\ e.pos = pos /\ e.stop = c.stop /\ e.ver = c.ver /\ e.code = c.code
        /\ e.seen = c.seen /\ e.probe = c.probe /\ e.retry = c.retry
        /\ IF k < n THEN e.st = "closed" /\ e.rc = "write"
           ELSE e.st = c.st /\ e.rc = c.rc
    <3> HIDE DEF pos
    <3> QED
      BY <1>1 DEF Closed, ConnType
  <2>5. /\ q.start = p.start /\ q.end = p.end /\ q.size = p.size
        /\ q.done = done /\ q.status = p.status
    <3> HIDE DEF done
    <3> QED
      BY <1>1 DEF PartType
  <2> HIDE DEF d, e, q
  <2>6. OnlyAt(i) /\ conn'[i] = e /\ part'[i] = q
    BY <1>1, <1>3, <1>5, <2>2, <2>4, <2>5 DEF OnlyAt
  <2>7. Takes(i, k)
    BY <2>1, <2>3, <2>4, <2>5, <2>6 DEF Takes
  <2> QED
    BY <1>3, <2>1, <2>2, <2>6, <2>7
<1>8. Fault => faults' # 0
  BY <1>1 DEF Fault
<1> HIDE DEF takes
<1> QED
  BY <1>2, <1>6, <1>7, <1>8

\* What the answer to the probe makes of the task: in either case a file.
Finds(i, f) ==
  /\ ctx'.probing = FALSE /\ ctx'.file = f /\ ctx'.total = TotalFound(conn[i])
  /\ ctx'.etag = ctx.etag /\ ctx'.drift = ctx.drift
  /\ entry[f] = "free" /\ \A g \in Files \ {f} : entry'[g] = entry[g]
  /\ UNCHANGED <<site, version, pauseReq, cancelReq, saved, loaded, overtaken, disk>>

\* The parts it is cut into, and their connections.
Splits(i) ==
  /\ ctx'.range = (conn[i].code = 206)
  /\ ctx'.status = ctx.status /\ ctx'.reason = ctx.reason
  /\ DOMAIN part' = IF conn[i].code = 206 THEN PartIds(ctx'.total) ELSE {0}
  /\ 0 \in DOMAIN part' /\ part'[0].start = 0
  /\ conn[i].code # 206 =>
       part'[0].end = IF ctx'.total > 0 THEN ctx'.total - 1 ELSE OpenEnd
  /\ conn[i].code = 206 => part'[0].end = PartEnd(ctx'.total, 0)
  /\ \A j \in DOMAIN part' :
       /\ part'[j].done = 0 /\ part'[j].status = "DOWNLOADING"
       /\ IF part'[j].end = OpenEnd THEN j = 0 /\ part'[j].size = 0
          ELSE /\ part'[j].start <= part'[j].end
               /\ part'[j].size = part'[j].end + 1 - part'[j].start
  /\ DOMAIN conn' = DOMAIN part'
  /\ /\ conn'[0].st = conn[0].st /\ conn'[0].code = conn[0].code
     /\ conn'[0].pos = conn[0].pos /\ conn'[0].stop = conn[0].stop
     /\ conn'[0].ver = conn[0].ver /\ conn'[0].seen = conn[0].seen
     /\ conn'[0].probe = conn[0].probe /\ conn'[0].rc = conn[0].rc
     /\ conn'[0].retry \in {0, conn[0].retry}
  /\ \A j \in DOMAIN conn' \ {0} : conn'[j] = NewConn

\* How making the file fails.
Misses(i) ==
  /\ OnlyAt(i) /\ part' = part
  /\ ctx'.range = ctx.range /\ ctx'.status = "ERROR" /\ ctx'.reason = "ERROR"
  /\ conn'[i].st = "closed" /\ conn'[i].rc = "write"
  /\ faults' # 0

LEMMA FinalizeIs ==
  ASSUME TypeOK, ProbeInv, NEW i \in DOMAIN conn, NEW f \in Files,
         FinalizeProbing(i, f) \/ FinalizeFails(i, f)
  PROVE  /\ ctx.probing /\ i = 0 /\ DOMAIN conn = {0} /\ DOMAIN part = {0}
         /\ conn[0].st = "body" /\ conn[0].pos < conn[0].stop /\ ctx.status # "ERROR"
         /\ pc = "perform" /\ Finds(i, f)
         /\ \/ Splits(i) /\ pc' = "write" /\ entry'[f] = "file" /\ faults' = faults
            \/ Misses(i) /\ pc' = pc
<1> DEFINE total == TotalFound(conn[0])
<1>1. /\ ctx.probing /\ DOMAIN part = {0} /\ DOMAIN conn = {0} /\ i = 0
      /\ conn[0] \in ConnType /\ ctx \in CtxType /\ conn[0].st = "body"
      /\ conn[0].pos < conn[0].stop /\ pc = "perform" /\ ctx.status # "ERROR"
      /\ faults \in Nat
  BY DEF FinalizeProbing, FinalizeFails, BodyArrives, ProbeInv, TypeOK, IsConn, IsCtx
<1>2. /\ entry[f] = "free" /\ entry \in [Files -> {"free", "dir", "file"}]
      /\ \A g \in Files \ {f} : entry'[g] = entry[g]
      /\ UNCHANGED <<site, version, pauseReq, cancelReq, saved, loaded, overtaken,
                     disk>>
  BY DEF FinalizeProbing, FinalizeFails, FirstFree, FreeFiles, CallbackFrame, TypeOK,
         requestVars, resumeVars
<1>3. total \in Int
  BY <1>1 DEF TotalFound, ConnType, CtxType
<1>4. CASE FinalizeFails(i, f)
  <2> DEFINE d == Closed(conn[0], "write")
  <2>1. d.st = "closed" /\ d.rc = "write" /\ d.probe = conn[0].probe
        /\ d.retry = conn[0].retry
    BY <1>1 DEF Closed, ConnType
  <2>2. /\ part' = part /\ conn' = [conn EXCEPT ![0] = d] /\ faults' \in Nat \ {0}
        /\ pc' = pc
        /\ ctx' = [ctx EXCEPT !.probing = FALSE, !.total = total, !.file = f,
                              !.status = "ERROR", !.reason = "ERROR"]
    BY <1>1, <1>4 DEF FinalizeFails, Fault
  <2> HIDE DEF total
  <2>3. /\ ctx'.probing = FALSE /\ ctx'.total = total /\ ctx'.file = f
        /\ ctx'.status = "ERROR" /\ ctx'.reason = "ERROR"
        /\ ctx'.etag = ctx.etag /\ ctx'.drift = ctx.drift /\ ctx'.range = ctx.range
    BY <1>1, <2>2 DEF CtxType
  <2>4. Finds(i, f)
    BY <1>1, <1>2, <2>3 DEF Finds, total
  <2> HIDE DEF d
  <2>5. OnlyAt(i) /\ conn'[0] = d /\ faults' # 0
    BY <1>1, <1>2, <2>1, <2>2 DEF OnlyAt
  <2>6. Misses(i)
    BY <1>1, <2>1, <2>2, <2>3, <2>5 DEF Misses
  <2> QED
    BY <1>1, <2>2, <2>4, <2>6
<1>5. CASE FinalizeProbing(i, f)
  <2> DEFINE range == conn[0].code = 206
  <2>1. /\ ctx' = [ctx EXCEPT !.probing = FALSE, !.total = total, !.file = f,
                              !.range = range]
        /\ pc' = "write" /\ faults' = faults
        /\ entry' = [entry EXCEPT ![f] = "file"]
    BY <1>1, <1>5 DEF FinalizeProbing
  <2> HIDE DEF total
  <2>2. /\ ctx'.probing = FALSE /\ ctx'.total = total /\ ctx'.file = f
        /\ ctx'.status = ctx.status /\ ctx'.reason = ctx.reason
        /\ ctx'.etag = ctx.etag /\ ctx'.drift = ctx.drift /\ ctx'.range = range
    <3> HIDE DEF range
    <3> QED
      BY <1>1, <2>1 DEF CtxType
  <2>3. Finds(i, f) /\ entry'[f] = "file"
    BY <1>1, <1>2, <2>1, <2>2 DEF Finds, total
  <2>4. CASE conn[0].code = 206
    <3>1. /\ part' = [j \in PartIds(total) |->
                        NewPart(PartStart(total, j), PartEnd(total, j))]
          /\ conn' = [j \in PartIds(total) |->
                        IF j = 0 THEN [conn[0] EXCEPT !.retry = 0] ELSE NewConn]
      BY <1>1, <1>5, <2>4 DEF FinalizeProbing, total
    <3>2. 0 \in PartIds(total)
      BY <1>3, CutTypes
    <3>3. ASSUME NEW j \in PartIds(total)
          PROVE  /\ part'[j].start = PartStart(total, j)
                 /\ part'[j].end = PartEnd(total, j)
                 /\ part'[j].done = 0 /\ part'[j].status = "DOWNLOADING"
                 /\ IF part'[j].end = OpenEnd THEN j = 0 /\ part'[j].size = 0
                    ELSE /\ part'[j].start <= part'[j].end
                         /\ part'[j].size = part'[j].end + 1 - part'[j].start
      <4>1. part'[j] = NewPart(PartStart(total, j), PartEnd(total, j))
        BY <3>1
      <4>2. /\ part'[j].start = PartStart(total, j)
            /\ part'[j].end = PartEnd(total, j)
            /\ part'[j].done = 0 /\ part'[j].status = "DOWNLOADING"
            /\ part'[j].size = IF PartEnd(total, j) >= PartStart(total, j)
                               THEN PartEnd(total, j) - PartStart(total, j) + 1 ELSE 0
        BY <4>1 DEF NewPart
      <4>3. CASE total > 0
        <5>1. /\ PartStart(total, j) \in Nat /\ PartEnd(total, j) \in Int
              /\ PartStart(total, j) <= PartEnd(total, j)
          BY <1>3, <4>3, NoPartEmpty
        <5> QED
          BY <4>2, <5>1 DEF OpenEnd
      <4>4. CASE total <= 0
        <5>1. j = 0 /\ PartEnd(total, 0) = OpenEnd /\ PartStart(total, 0) = 0
          <6>1. Rest(total) <= 0
            BY <1>3, <4>4, LayoutAssumption
            DEF Rest, WantParts, HeadSize, Larger, Smaller
          <6>2. PartIds(total) = 0 .. 0
            BY <6>1 DEF PartIds, PartCount
          <6> QED
            BY <1>3, <4>4, <6>2 DEF PartEnd, PartStart, OpenEnd
        <5> QED
          BY <4>2, <5>1 DEF OpenEnd
      <4> QED
        BY <1>3, <4>2, <4>3, <4>4
    <3> DEFINE d == [conn[0] EXCEPT !.retry = 0]
    <3>4. /\ d.st = conn[0].st /\ d.code = conn[0].code
          /\ d.pos = conn[0].pos /\ d.stop = conn[0].stop
          /\ d.ver = conn[0].ver /\ d.seen = conn[0].seen
          /\ d.probe = conn[0].probe /\ d.rc = conn[0].rc /\ d.retry = 0
      BY <1>1 DEF ConnType
    <3>5. conn'[0] = d
      BY <3>1, <3>2
    <3> HIDE DEF d
    <3>6. PartStart(total, 0) = 0
      BY DEF PartStart
    <3>7. Splits(i)
      BY <1>1, <2>2, <2>4, <3>1, <3>2, <3>3, <3>4, <3>5, <3>6 DEF Splits
    <3> QED
      BY <1>1, <2>1, <2>3, <3>7
  <2>5. CASE conn[0].code # 206
    <3> DEFINE end == IF total > 0 THEN total - 1 ELSE OpenEnd
    <3>1. conn' = conn /\ part' = [j \in {0} |-> NewPart(0, end)]
      BY <1>1, <1>5, <2>5 DEF FinalizeProbing, total
    <3>2. /\ part'[0].start = 0 /\ part'[0].end = end /\ part'[0].done = 0
          /\ part'[0].status = "DOWNLOADING"
          /\ part'[0].size = IF end >= 0 THEN end - 0 + 1 ELSE 0
      BY <3>1 DEF NewPart
    <3>3. IF end = OpenEnd THEN part'[0].size = 0
          ELSE 0 <= end /\ part'[0].size = end + 1 - 0
      BY <1>3, <3>2 DEF OpenEnd
    <3>4. Splits(i)
      BY <1>1, <2>2, <2>5, <3>1, <3>2, <3>3 DEF Splits
    <3> QED
      BY <1>1, <2>1, <2>3, <3>4
  <2> QED
    BY <2>4, <2>5
<1> QED
  BY <1>4, <1>5

\* What everybody else may do to it.
Restores ==
  /\ Usable /\ pc' = "start" /\ overtaken' = (loaded # saved)
  /\ 0 \in DOMAIN loaded.part /\ DOMAIN part' = DOMAIN loaded.part
  /\ DOMAIN conn' = DOMAIN loaded.part
  /\ \A i \in DOMAIN loaded.part :
       part'[i] = Restored(loaded.part[i]) /\ conn'[i] = NewConn
  /\ ctx'.status = "DOWNLOADING" /\ ctx'.probing = FALSE /\ ctx'.drift = FALSE
  /\ ctx'.range = loaded.range /\ ctx'.total = loaded.total /\ ctx'.file = loaded.file
  /\ ctx'.etag = loaded.etag

LEMMA EnvironmentIs ==
  ASSUME TypeOK, Environment
  PROVE  /\ site' = site /\ saved' = saved /\ faults' \in Nat /\ (faults' = 0 => faults = 0)
         /\ \A r \in Rows' : r \in Rows \/ r = NoResume
         /\ version' = version \/ version' = version + 1
         /\ \/ Restores
            \/ /\ ctx' = FreshCtx /\ part' = FreshParts /\ conn' = FreshConns
               /\ pc' \in {"none", "start"}
            \/ /\ UNCHANGED <<ctx, part, conn, pc, overtaken>>
               /\ pauseReq => pauseReq'
               /\ cancelReq => cancelReq'
         /\ \/ UNCHANGED <<entry, disk>>
            \/ \E f \in Files : UserRemove(f)
<1>1. /\ faults \in Nat /\ IsRow(loaded) /\ cancelReq \in BOOLEAN
      /\ pauseReq \in BOOLEAN /\ saved' = saved
      /\ \A r \in Rows' : r \in Rows \/ r = NoResume
  BY EnvironmentRows DEF TypeOK
<1>2. CASE Add \/ Crash
  BY <1>1, <1>2 DEF Add, StartTask, Crash, storageVars, boundVars
<1>3. CASE Resume /\ ~Usable
  BY <1>1, <1>3 DEF Resume, StartTask, storageVars
<1>4. CASE Resume /\ Usable
  <2>1. /\ ctx' = RestoredCtx /\ loaded # NoResume /\ pc' = "start"
        /\ overtaken' = (loaded # saved)
        /\ part' = [i \in DOMAIN loaded.part |-> Restored(loaded.part[i])]
        /\ conn' = [i \in DOMAIN loaded.part |-> NewConn]
        /\ UNCHANGED <<site, version, entry, disk, faults>>
    BY <1>4 DEF Resume, StartTask, storageVars
  <2>2. /\ ctx'.status = "DOWNLOADING" /\ ctx'.probing = FALSE /\ ctx'.drift = FALSE
        /\ ctx'.range = loaded.range /\ ctx'.total = loaded.total
        /\ ctx'.file = loaded.file /\ ctx'.etag = loaded.etag
    BY <2>1 DEF RestoredCtx, RestoredCtxNoEtag, FreshCtx
  <2>3. 0 \in DOMAIN loaded.part
    BY <1>1, <2>1 DEF IsRow
  <2>4. Restores
    BY <1>4, <2>1, <2>2, <2>3 DEF Restores
  <2> QED
    BY <1>1, <2>1, <2>4
<1>5. CASE Load \/ GoOn \/ Pause \/ Cancel \/ Change
  BY <1>1, <1>5
  DEF Load, GoOn, Pause, Cancel, Change, downloadVars, storageVars, boundVars,
      requestVars, resumeVars
<1>6. ASSUME NEW f \in Files, UserRemove(f)
      PROVE  /\ UNCHANGED <<site, version, ctx, part, conn, pc, pauseReq, cancelReq,
                            overtaken>>
             /\ faults' \in Nat \ {0}
  BY <1>1, <1>6 DEF UserRemove, downloadVars, requestVars, resumeVars, Fault
<1> QED
  BY <1>1, <1>2, <1>3, <1>4, <1>5, <1>6 DEF Environment

-----------------------------------------------------------------------------
(* Where requests and bodies stand, and the shapes of parts and rows.      *)

NoEmptyFile == \A v \in Versions : Len[v] > 0

\* A connection that receives a body, or has received all of it.
Answered(c) == c.st = "body" \/ (c.st = "closed" /\ c.rc = "ok")

\* A transfer stands where its part has got to; a body is not empty and has
\* arrived whole when curl says so.
PlacedAt(i) ==
  /\ conn[i].st = "sent" \/ Answered(conn[i]) =>
       conn[i].pos = part[i].start + part[i].done
  /\ Answered(conn[i]) =>
       /\ 0 < conn[i].stop /\ conn[i].code \in {200, 206}
       /\ conn[i].code = 206 => site.range
  /\ conn[i].st = "closed" /\ conn[i].rc = "ok" => conn[i].pos = conn[i].stop

\* Only connection 0 probes; the others, and it later on, ask for what is left of
\* their part.
AskedAt(i) ==
  /\ conn[i].probe => i = 0
  /\ ctx.probing /\ conn[i].st \in {"sent", "body"} => conn[i].probe
  /\ conn[i].st = "sent" =>
       /\ conn[i].ifRange <= version
       /\ ctx.probing => conn[i].ifRange = NoValidator
       /\ conn[i].stop = IF conn[i].probe THEN ProbeWindow
                         ELSE IF part[i].end = OpenEnd THEN OpenEnd
                         ELSE part[i].end + 1

\* The size of a part is that of its bounds, or it is open and then gets its
\* size when it is complete.
ShapedAt(i) ==
  IF part[i].end = OpenEnd
  THEN i = 0 /\ (part[i].size # 0 => part[i].done >= part[i].size)
  ELSE /\ part[i].end >= part[i].start
       /\ part[i].size = part[i].end + 1 - part[i].start

\* Completed parts are full, and no full part will be asked for again.
DoneAt(i) ==
  /\ part[i].status = "COMPLETED" => part[i].size > 0 /\ part[i].done >= part[i].size
  /\ \/ conn[i].st = "sent"
     \/ conn[i].st = "new" /\ part[i].status # "COMPLETED"
     => part[i].size = 0 \/ part[i].done < part[i].size

PlaceInv ==
  /\ part[0].start = 0
  /\ \A r \in Rows : 0 \in DOMAIN r.part => r.part[0].start = 0
  /\ \A i \in DOMAIN conn : PlacedAt(i)
AskInv == \A i \in DOMAIN conn : AskedAt(i)
DoneInv == \A i \in DOMAIN conn : DoneAt(i)

\* Only an answer to a range can have the file split; a task that has no file
\* yet, or an open one, has one part.
ShapeInv ==
  /\ ctx.range => site.range
  /\ ~ctx.range \/ part[0].end = OpenEnd => DOMAIN part = {0}
  /\ ctx.probing => part[0].end = OpenEnd /\ part[0].size = 0
  /\ \A i \in DOMAIN conn : ShapedAt(i)

\* If the server tells the length, no part is open, unless the task has failed
\* to make its file, which is all it will ever do.
LengthInv ==
  site.length =>
    /\ Running /\ ~ctx.probing /\ part[0].end = OpenEnd =>
         /\ Failed /\ faults > 0 /\ ~ctx.range
         /\ \/ conn[0].st = "idle"
            \/ conn[0].st = "closed" /\ conn[0].rc = "write"
    /\ ctx.probing =>
         \A i \in DOMAIN conn : conn[i].st = "body" => ctx.total > 0 \/ conn[i].seen > 0
    /\ ctx.range => part[0].end # OpenEnd

\* The same of the rows; what is not split is only saved when it is complete.
AllFull(r) == \A i \in DOMAIN r.part : Restored(r.part[i]).status = "COMPLETED"
RowInv ==
  \A r \in Rows : r.file # NoFile =>
    /\ 0 \in DOMAIN r.part
    /\ r.range => site.range
    /\ ~r.range \/ r.part[0].end = OpenEnd => DOMAIN r.part = {0}
    /\ \A i \in DOMAIN r.part :
         IF r.part[i].end = OpenEnd THEN i = 0
         ELSE r.part[i].end >= r.part[i].start
    /\ site.length => r.part[0].end # OpenEnd
    /\ site.length /\ ~r.range => AllFull(r)

\* Validators are of versions that have been; some servers send none.
EtagOf(r) == r.etag <= version /\ (~site.validator => r.etag = NoValidator)
VerInv == EtagOf(ctx) /\ \A r \in Rows : EtagOf(r)

PartsInv == PlaceInv /\ AskInv /\ DoneInv /\ ShapeInv /\ LengthInv /\ RowInv /\ VerInv

\* All the parts are complete.
AllIn == PartsIn("COMPLETED") = DOMAIN part

LEMMA Basics ==
  ASSUME TypeOK
  PROVE  /\ DOMAIN conn = DOMAIN part /\ 0 \in DOMAIN part /\ DOMAIN part \subseteq Nat
         /\ ctx.total \in Int /\ ctx.etag \in Nat
         /\ \A r \in Rows : r.etag \in Nat
         /\ version \in Nat \ {0} /\ faults \in Nat
         /\ ctx.probing \in BOOLEAN /\ ctx.range \in BOOLEAN
         /\ site \in SiteRec
         /\ \A i \in DOMAIN part :
              /\ part[i].start \in Nat /\ part[i].end \in Int /\ part[i].size \in Nat
              /\ part[i].done \in Nat
              /\ conn[i].pos \in Nat /\ conn[i].stop \in Int /\ conn[i].seen \in Nat
              /\ conn[i].retry \in Nat /\ conn[i].ifRange \in Nat
              /\ part[i] \in PartType /\ conn[i] \in ConnType
<1>1. Versions \subseteq Nat \ {0} /\ Sites \subseteq SiteRec
  BY DownloadAssumption
<1>2. /\ version \in Versions /\ ctx \in CtxType
      /\ \A r \in Rows : r.etag \in Versions \cup {NoValidator}
      /\ site \in Sites /\ faults \in Nat /\ IsPart(part) /\ IsConn
  BY DEF TypeOK, IsCtx, IsRow, Rows
<1>3. /\ ctx.total \in Int /\ ctx.etag \in Versions \cup {NoValidator}
      /\ ctx.probing \in BOOLEAN /\ ctx.range \in BOOLEAN
  BY <1>2 DEF CtxType
<1>4. ASSUME NEW i \in DOMAIN part
      PROVE  /\ part[i].start \in Nat /\ part[i].end \in Int /\ part[i].size \in Nat
             /\ part[i].done \in Nat
             /\ conn[i].pos \in Nat /\ conn[i].stop \in Int /\ conn[i].seen \in Nat
             /\ conn[i].retry \in Nat /\ conn[i].ifRange \in Nat
             /\ part[i] \in PartType /\ conn[i] \in ConnType
  <2>1. part[i] \in PartType /\ conn[i] \in ConnType
    BY <1>2 DEF IsPart, IsConn
  <2>2. /\ part[i].start \in Nat /\ part[i].end \in Int /\ part[i].size \in Nat
        /\ part[i].done \in Nat
    BY <2>1 DEF PartType
  <2>3. /\ conn[i].pos \in Nat /\ conn[i].stop \in Nat \cup {OpenEnd}
        /\ conn[i].seen \in Nat /\ conn[i].retry \in Nat
        /\ conn[i].ifRange \in Versions \cup {NoValidator}
    BY <2>1 DEF ConnType
  <2>4. conn[i].stop \in Int
    BY <2>3 DEF OpenEnd
  <2>5. conn[i].ifRange \in Nat
    <3>1. Versions \cup {NoValidator} \subseteq Nat
      BY <1>1 DEF NoValidator
    <3> QED
      BY <2>3, <3>1
  <2> QED
    BY <2>1, <2>2, <2>3, <2>4, <2>5
<1>5. DOMAIN conn = DOMAIN part /\ 0 \in DOMAIN part /\ DOMAIN part \subseteq Nat
  BY <1>2 DEF IsPart, IsConn
<1> QED
  BY <1>1, <1>2, <1>3, <1>4, <1>5 DEF NoValidator

LEMMA RestoredIs ==
  ASSUME NEW p \in RowPartType
  PROVE  LET q == Restored(p) IN
         /\ q.start = p.start /\ q.end = p.end /\ q.done = p.done
         /\ q.size = IF p.end >= p.start THEN p.end + 1 - p.start ELSE 0
         /\ q.status = IF q.size > 0 /\ p.done >= q.size
                       THEN "COMPLETED" ELSE "DOWNLOADING"
<1>1. p.start \in Nat /\ p.end \in Int /\ p.done \in Nat
  BY DEF RowPartType
<1> DEFINE size == IF p.end >= p.start THEN p.end - p.start + 1 ELSE 0
           status == IF size > 0 /\ p.done >= size THEN "COMPLETED" ELSE "DOWNLOADING"
           n == [start |-> p.start, end |-> p.end, size |-> size, done |-> 0,
                 status |-> "DOWNLOADING", reason |-> "NONE"]
<1>2. Restored(p) = [n EXCEPT !.done = p.done, !.status = status]
  BY DEF Restored, NewPart
<1> HIDE DEF status, size
<1>3. /\ Restored(p).start = p.start /\ Restored(p).end = p.end
      /\ Restored(p).done = p.done /\ Restored(p).size = size
      /\ Restored(p).status = status
  BY <1>2
<1>4. size = IF p.end >= p.start THEN p.end + 1 - p.start ELSE 0
  BY <1>1 DEF size
<1> QED
  BY <1>3, <1>4 DEF status

LEMMA FreshIs ==
  ASSUME ctx' = FreshCtx, part' = FreshParts, conn' = FreshConns
  PROVE  /\ DOMAIN part' = {0} /\ DOMAIN conn' = {0} /\ conn'[0] = NewConn
         /\ part'[0].start = 0 /\ part'[0].end = OpenEnd /\ part'[0].size = 0
         /\ part'[0].done = 0 /\ part'[0].status = "DOWNLOADING"
         /\ ctx'.probing = TRUE /\ ctx'.range = FALSE /\ ctx'.total = -1
         /\ ctx'.etag = 0 /\ ctx'.file = NoFile /\ ctx'.status = "DOWNLOADING"
         /\ ctx'.drift = FALSE /\ ctx'.reason = "NONE"
BY DEF FreshCtx, FreshParts, FreshConns, NewPart, OpenEnd, NoValidator

LEMMA NewConnIs ==
  /\ NewConn.st = "new" /\ NewConn.probe = FALSE /\ NewConn.retry = 0
  /\ NewConn.rc = "none" /\ ~Answered(NewConn)
BY DEF NewConn, Answered

\* What the rows and the site say of parts does not change while nobody saves.
LEMMA RowInvStays ==
  ASSUME RowInv, \A r \in Rows' : r \in Rows \/ r = NoResume, site' = site
  PROVE  RowInv'
BY NoResumeIs DEF RowInv, AllFull

LEMMA EtagsStay ==
  ASSUME TypeOK, VerInv, \A r \in Rows' : r \in Rows \/ r = NoResume, site' = site,
         version' = version \/ version' = version + 1
  PROVE  \A r \in Rows \cup Rows' : EtagOf(r)'
<1>1. NoResume.etag = NoValidator
  BY DEF NoResume
<1> QED
  BY <1>1, Basics DEF VerInv, EtagOf, NoValidator

LEMMA EnvironmentParts ==
  ASSUME TypeOK, ProbeInv, PartsInv, Environment
  PROVE  PartsInv'
<1> USE DEF PartsInv
<1>1. /\ site' = site /\ saved' = saved /\ faults' \in Nat /\ (faults' = 0 => faults = 0)
      /\ version' = version \/ version' = version + 1
      /\ \/ Restores
         \/ /\ ctx' = FreshCtx /\ part' = FreshParts /\ conn' = FreshConns
            /\ pc' \in {"none", "start"}
         \/ UNCHANGED <<ctx, part, conn, pc>>
      /\ \A r \in Rows' : r \in Rows \/ (r = NoResume /\ DOMAIN r.part = {})
      /\ \A r \in Rows \cup Rows' : EtagOf(r)'
  BY EnvironmentIs, EtagsStay, NoResumeIs
<1>2. RowInv'
  BY <1>1, RowInvStays
<1>3. version' >= version /\ version' \in Int
  BY <1>1, Basics
<1>4. CASE UNCHANGED <<ctx, part, conn, pc>>
  <2>1. VerInv'
    BY <1>1, <1>3, <1>4, Basics DEF VerInv, EtagOf
  <2>2. \A i \in DOMAIN conn : conn[i].ifRange \in Nat /\ version \in Nat
    BY Basics
  <2>3. AskInv'
    BY <1>3, <1>4, <2>2 DEF AskInv, AskedAt
  <2>4. LengthInv'
    BY <1>1, <1>4, Basics DEF LengthInv, Failed, Running
  <2> QED
    BY <1>1, <1>2, <1>4, <2>1, <2>3, <2>4
    DEF PlaceInv, PlacedAt, DoneInv, DoneAt, ShapeInv, ShapedAt
<1>5. CASE ctx' = FreshCtx /\ part' = FreshParts /\ conn' = FreshConns
  <2>1. VerInv'
    BY <1>1, <1>3, <1>5, FreshIs, Basics DEF VerInv, EtagOf, NoValidator
  <2>2. PlaceInv' /\ AskInv' /\ DoneInv'
    BY <1>1, <1>5, FreshIs, NewConnIs
    DEF PlaceInv, PlacedAt, AskInv, AskedAt, DoneInv, DoneAt
  <2>3. ShapeInv' /\ LengthInv'
    BY ZenonT(30), <1>5, FreshIs, NewConnIs DEF ShapeInv, ShapedAt, LengthInv
  <2> QED
    BY <1>2, <2>1, <2>2, <2>3
<1>6. CASE Restores
  <2>1. /\ loaded.file # NoFile /\ DOMAIN part' = DOMAIN loaded.part
        /\ DOMAIN conn' = DOMAIN loaded.part /\ 0 \in DOMAIN loaded.part
        /\ \A i \in DOMAIN loaded.part : conn'[i] = NewConn
        /\ ctx'.probing = FALSE /\ ctx'.range = loaded.range
        /\ ctx'.etag = loaded.etag /\ loaded \in Rows
    BY <1>6 DEF Restores, Usable, Rows
  <2>2. \A i \in DOMAIN loaded.part :
          /\ loaded.part[i].start \in Nat /\ loaded.part[i].end \in Int
          /\ loaded.part[i].done \in Nat
          /\ part'[i].start = loaded.part[i].start /\ part'[i].end = loaded.part[i].end
          /\ part'[i].done = loaded.part[i].done
          /\ part'[i].size = IF loaded.part[i].end >= loaded.part[i].start
                             THEN loaded.part[i].end + 1 - loaded.part[i].start ELSE 0
          /\ part'[i].status = IF part'[i].size > 0 /\ loaded.part[i].done >= part'[i].size
                               THEN "COMPLETED" ELSE "DOWNLOADING"
    <3>1. \A i \in DOMAIN loaded.part : loaded.part[i] \in RowPartType
      BY DEF TypeOK, IsRow
    <3>2. \A i \in DOMAIN loaded.part : part'[i] = Restored(loaded.part[i])
      BY <1>6 DEF Restores
    <3> QED
      BY <3>1, <3>2, RestoredIs DEF RowPartType
  <2>3. VerInv'
    BY <1>1, <2>1 DEF VerInv, EtagOf
  <2>4. PlaceInv'
    BY <1>1, <2>1, <2>2, NewConnIs DEF PlaceInv, PlacedAt
  <2>5. AskInv'
    BY <2>1, NewConnIs DEF AskInv, AskedAt
  <2>6. DoneInv'
    BY <2>1, <2>2, NewConnIs DEF DoneInv, DoneAt
  <2>7. ShapeInv'
    BY <1>1, <2>1, <2>2 DEF ShapeInv, ShapedAt, RowInv, OpenEnd
  <2>8. LengthInv'
    BY <1>1, <2>1, <2>2 DEF LengthInv, RowInv
  <2> QED
    BY <1>2, <2>3, <2>4, <2>5, <2>6, <2>7, <2>8
<1> QED
  BY <1>1, <1>4, <1>5, <1>6

\* What a step that concerns one connection has to show.
LEMMA OnlyAtParts ==
  ASSUME TypeOK, PartsInv, NEW i \in DOMAIN conn, OnlyAt(i),
         conn'[i].st \in {"body", "closed", "idle"},
         conn'[i].st = "body" => conn[i].st \in {"sent", "body"},
         PlacedAt(i)', LengthInv',
         part'[i].done \in Nat, part'[i].done >= part[i].done,
         part'[i].status = "COMPLETED" => part[i].status = "COMPLETED",
         ctx'.range = ctx.range, ctx'.probing => ctx.probing,
         \/ ctx'.etag = ctx.etag
         \/ site.validator /\ ctx'.etag = version
  PROVE  PartsInv'
<1> USE DEF PartsInv
<1>1. /\ DOMAIN part' = DOMAIN part /\ DOMAIN conn' = DOMAIN conn
      /\ \A j \in DOMAIN conn \ {i} : conn'[j] = conn[j] /\ part'[j] = part[j]
      /\ conn'[i].probe = conn[i].probe
      /\ part'[i].start = part[i].start /\ part'[i].end = part[i].end
      /\ part'[i].size = part[i].size
      /\ site' = site /\ version' = version /\ Rows' = Rows
  BY RowsStay DEF OnlyAt
<1>2. /\ DOMAIN conn = DOMAIN part /\ 0 \in DOMAIN part
      /\ \A j \in DOMAIN part : part[j].done \in Nat /\ part[j].size \in Nat
      /\ version \in Nat /\ i \in DOMAIN part /\ part[i].done \in Nat
  BY Basics
<1>3. /\ part'[0].start = part[0].start /\ part'[0].end = part[0].end
      /\ part'[0].size = part[0].size
  BY <1>1, <1>2
<1>4. PlaceInv'
  BY <1>1, <1>2, <1>3 DEF PlaceInv, PlacedAt
<1>5. AskInv'
  BY <1>1, <1>2 DEF AskInv, AskedAt
<1>6. DoneInv' /\ ShapeInv'
  <2>1. part'[i].status = "COMPLETED" => part[i].size > 0 /\ part'[i].done >= part[i].size
    BY <1>2 DEF DoneInv, DoneAt
  <2>2. DoneInv'
    BY <1>1, <1>2, <2>1 DEF DoneInv, DoneAt
  <2>3. \A j \in DOMAIN conn : ShapedAt(j)'
    BY <1>1, <1>2 DEF ShapeInv, ShapedAt
  <2> QED
    BY <1>1, <1>2, <1>3, <2>2, <2>3 DEF ShapeInv
<1>7. VerInv'
  BY <1>1, <1>2 DEF VerInv, EtagOf
<1>8. RowInv'
  BY <1>1, RowInvStays
<1> QED
  BY <1>4, <1>5, <1>6, <1>7, <1>8

\* Where a body may end.
LEMMA BodyEndIs ==
  ASSUME TypeOK, NEW i \in DOMAIN conn, NEW code \in Codes(conn[i]),
         NEW last \in BodyEnds(conn[i], code)
  PROVE  /\ code \in {200, 206, 416} /\ Len[version] \in Nat /\ last \in Nat
         /\ code = 206 => Ranged(conn[i]) /\ conn[i].pos < Len[version]
         /\ code = 200 => last = Len[version] /\ last = FullStop(conn[i], code)
         /\ last <= Len[version]
         /\ FullStop(conn[i], code) =
              IF code = 206 /\ conn[i].stop # OpenEnd /\ conn[i].stop < Len[version]
              THEN conn[i].stop ELSE Len[version]
         /\ \/ last = IF code = 206 /\ conn[i].stop # OpenEnd /\ conn[i].stop < Len[version]
                      THEN conn[i].stop ELSE Len[version]
            \/ code = 206 /\ site.length /\ conn[i].pos < last
         /\ code = 416 =>
              Ranged(conn[i]) /\ (Len[version] = 0 \/ conn[i].pos >= Len[version])
<1>1. conn[i] \in ConnType /\ Len[version] \in Nat
  BY DownloadAssumption DEF TypeOK, IsConn
<1>2. conn[i].pos \in Nat /\ conn[i].stop \in Nat \cup {OpenEnd}
  BY <1>1 DEF ConnType
<1>3. /\ code \in {200, 206, 416}
      /\ code = 206 => Ranged(conn[i]) /\ conn[i].pos < Len[version]
      /\ code = 416 => Ranged(conn[i]) /\ (Len[version] = 0 \/ conn[i].pos >= Len[version])
  BY <1>1, <1>2 DEF Codes
<1>4. \/ last = FullStop(conn[i], code)
      \/ code = 206 /\ site.length /\ last \in (conn[i].pos + 1) .. Len[version]
  BY DEF BodyEnds
<1>5. /\ FullStop(conn[i], code) \in Nat /\ FullStop(conn[i], code) <= Len[version]
      /\ FullStop(conn[i], code) =
           IF code = 206 /\ conn[i].stop # OpenEnd /\ conn[i].stop < Len[version]
           THEN conn[i].stop ELSE Len[version]
  BY <1>1, <1>2 DEF FullStop, Smaller, OpenEnd
<1>6. code = 200 => last = Len[version] /\ last = FullStop(conn[i], code)
  BY <1>4, <1>5
<1> QED
  BY <1>1, <1>2, <1>3, <1>4, <1>5, <1>6

\* The range a request that has been sent asks for is not empty.
LEMMA AskIsPositive ==
  ASSUME TypeOK, AskInv, ShapeInv, NEW i \in DOMAIN conn, conn[i].st = "sent"
  PROVE  conn[i].stop # OpenEnd => conn[i].stop > 0
<1>1. ProbeWindow \in Nat \ {0}
  BY LayoutAssumption
<1>2. i \in DOMAIN part /\ part[i].start \in Nat /\ part[i].end \in Int
  BY Basics
<1> QED
  BY <1>1, <1>2 DEF AskInv, AskedAt, ShapeInv, ShapedAt

LEMMA ReplyParts ==
  ASSUME TypeOK, NoEmptyFile, PartsInv, NEW i \in DOMAIN conn, Reply(i)
  PROVE  PartsInv'
<1>1. /\ OnlyAt(i) /\ UNCHANGED <<pc, entry, disk>>
      /\ conn[i].st = "sent" /\ ctx.status # "ERROR"
      /\ ctx'.file = ctx.file /\ ctx'.probing = ctx.probing /\ ctx'.range = ctx.range
  BY ReplyIs
<1>2. PICK code \in Codes(conn[i]) : \E last \in BodyEnds(conn[i], code) :
        \/ Drifted(i, code) /\ Drifts(i)
        \/ ~Drifted(i, code) /\ Accepts(i, code, last)
  BY ReplyIs
<1>3. PICK last \in BodyEnds(conn[i], code) :
        \/ Drifted(i, code) /\ Drifts(i)
        \/ ~Drifted(i, code) /\ Accepts(i, code, last)
  BY <1>2
<1>4. /\ code \in {200, 206, 416} /\ Len[version] \in Nat /\ last \in Nat
      /\ code = 206 => Ranged(conn[i]) /\ conn[i].pos < Len[version]
      /\ code = 200 => last = Len[version]
      /\ last = Len[version] \/ last = conn[i].stop \/ (code = 206 /\ conn[i].pos < last)
      /\ last = conn[i].stop => conn[i].stop # OpenEnd
  BY BodyEndIs DEF OpenEnd
<1>5. /\ DOMAIN conn = DOMAIN part /\ 0 \in DOMAIN part /\ i \in DOMAIN part
      /\ part[i].done \in Nat /\ part[i].start \in Nat /\ conn[i].pos \in Nat
      /\ ctx.total \in Int
  BY Basics
<1>6. part'[i].done = part[i].done
      /\ (part'[i].status = "COMPLETED" => part[i].status = "COMPLETED")
  BY <1>3 DEF Drifts, Accepts
<1>7. conn'[i].st \in {"body", "closed", "idle"}
  BY <1>3 DEF Drifts, Accepts
<1>8. part'[i].start = part[i].start /\ site' = site /\ pc' = pc /\ version' = version
      /\ part'[0].end = part[0].end /\ DOMAIN conn' = DOMAIN conn
      /\ \A j \in DOMAIN conn \ {i} : conn'[j] = conn[j]
  BY <1>1, <1>5 DEF OnlyAt
<1>9. Len[version] > 0
  BY DEF TypeOK, NoEmptyFile
<1>10. PlacedAt(i)' /\ (site.length /\ ctx.probing /\ conn'[i].st = "body" =>
                          ctx'.total > 0 \/ conn'[i].seen > 0)
  <2>1. CASE Drifts(i)
    BY <2>1 DEF Drifts, PlacedAt, Answered
  <2>2. CASE ~Drifted(i, code) /\ Accepts(i, code, last) /\ code = 416
    BY <2>2 DEF Accepts, PlacedAt, Answered
  <2>3. CASE ~Drifted(i, code) /\ Accepts(i, code, last) /\ code # 416
    <3>1. /\ conn'[i].st = "body" /\ conn'[i].code = code /\ conn'[i].stop = last
          /\ conn'[i].pos = IF code = 200 THEN 0 ELSE conn[i].pos
          /\ conn'[i].seen = IF ctx.probing THEN SeenTotal(code) ELSE 0
          /\ ctx'.total = IF code # 200 /\ site.length /\ ctx.total <= 0
                             /\ Len[version] > 0
                          THEN Len[version] ELSE ctx.total
      BY <2>3 DEF Accepts
    <3>2. conn[i].pos = part[i].start + part[i].done
      BY <1>1 DEF PartsInv, PlaceInv, PlacedAt
    <3>3. code = 200 => part[i].start + part[i].done = 0
      <4>1. code = 200 => DOMAIN part = {0} /\ part[i].done = 0
        BY <2>3 DEF Drifted
      <4> QED
        BY <1>5, <4>1 DEF PartsInv, PlaceInv
    <3>4. last > 0
      BY <1>1, <1>4, <1>5, <1>9, AskIsPositive DEF PartsInv
    <3>5. code \in {200, 206} /\ (code = 206 => site.range)
      BY <1>4, <2>3 DEF Ranged
    <3>6. PlacedAt(i)'
      BY <1>6, <1>8, <3>1, <3>2, <3>3, <3>4, <3>5 DEF PlacedAt, Answered
    <3>7. site.length /\ ctx.probing => ctx'.total > 0 \/ conn'[i].seen > 0
      <4>1. CASE code = 200 /\ site.length
        BY <1>9, <3>1, <4>1 DEF SeenTotal
      <4>2. CASE code # 200
        BY <1>4, <1>5, <1>9, <3>1, <4>2
      <4> QED
        BY <4>1, <4>2
    <3> QED
      BY <3>6, <3>7
  <2> QED
    BY <1>3, <2>1, <2>2, <2>3
<1>11. ctx.total > 0 => ctx'.total > 0
  BY <1>3, <1>5 DEF Drifts, Accepts
<1>12. LengthInv'
  BY <1>1, <1>8, <1>10, <1>11 DEF PartsInv, LengthInv, Running, Failed
<1>13. \/ ctx'.etag = ctx.etag
       \/ site.validator /\ ctx'.etag = version
  BY <1>3 DEF Drifts, Accepts
<1> QED
  BY <1>1, <1>5, <1>6, <1>7, <1>10, <1>12, <1>13, OnlyAtParts

LEMMA EndParts ==
  ASSUME TypeOK, PartsInv, NEW i \in DOMAIN conn,
         TransferFails(i) \/ Refuse(i) \/ EndOfBody(i)
  PROVE  PartsInv'
<1>1. OnlyAt(i) /\ Ends(i) /\ UNCHANGED <<pc, ctx, part, entry, disk>>
  BY EndIs
<1>2. /\ 0 \in DOMAIN part /\ DOMAIN conn = DOMAIN part /\ faults \in Nat
      /\ i \in DOMAIN part /\ part[i].done \in Nat
  BY Basics
<1>3. PlacedAt(i) /\ conn'[i].st = "closed"
  BY <1>1 DEF PartsInv, PlaceInv, Ends
<1>4. PlacedAt(i)'
  BY <1>1, <1>3 DEF PlacedAt, Answered, Ends, OnlyAt
<1>5. /\ conn[i].st \in {"sent", "body"} /\ faults' \in Nat /\ (faults' = 0 => faults = 0)
      /\ DOMAIN conn' = DOMAIN conn /\ site' = site
      /\ \A j \in DOMAIN conn \ {i} : conn'[j] = conn[j]
  BY <1>1 DEF Ends, OnlyAt
<1>6. LengthInv'
  BY <1>1, <1>2, <1>3, <1>5 DEF PartsInv, LengthInv, Running, Failed
<1> QED
  BY <1>1, <1>2, <1>3, <1>4, <1>6, OnlyAtParts

LEMMA WriteParts ==
  ASSUME TypeOK, PartsInv, NEW i \in DOMAIN conn, conn[i].st = "body", WriteBody(i),
         ~ctx.probing, Running
  PROVE  PartsInv'
<1>1. /\ 0 \in DOMAIN part /\ DOMAIN conn = DOMAIN part /\ i \in DOMAIN part
      /\ part[i].done \in Nat /\ part[i].start \in Nat /\ conn[i].pos \in Nat
      /\ part[i].status \in {"DOWNLOADING", "COMPLETED", "ERROR"} /\ ctx \in CtxType
  BY Basics DEF PartType, TypeOK, IsCtx
<1>2. OnlyAt(i) /\ entry' = entry /\ pc' = "perform"
  BY <1>1, WriteIs
<1>3. Rejects(i) \/ \E k \in Nat : Writes(i, k) /\ Takes(i, k)
  BY <1>1, WriteIs
<1>4. PlacedAt(i)
  BY DEF PartsInv, PlaceInv
<1>5. /\ ctx'.range = ctx.range /\ ctx'.probing = ctx.probing /\ ctx'.etag = ctx.etag
  BY <1>1, <1>3 DEF Rejects, Writes, CtxType
<1>6. /\ conn'[i].st \in {"body", "closed"}
      /\ part'[i].done \in Nat /\ part'[i].done >= part[i].done
      /\ part'[i].status = "COMPLETED" => part[i].status = "COMPLETED"
      /\ PlacedAt(i)'
  <2>1. part'[i].start = part[i].start /\ site' = site
    BY <1>2 DEF OnlyAt
  <2>2. CASE Rejects(i)
    BY <1>1, <1>4, <2>1, <2>2 DEF Rejects, PlacedAt, Answered
  <2>3. ASSUME NEW k \in Nat, Takes(i, k)
        PROVE  /\ conn'[i].st \in {"body", "closed"}
               /\ part'[i].done \in Nat /\ part'[i].done >= part[i].done
               /\ part'[i].status = "COMPLETED" => part[i].status = "COMPLETED"
               /\ PlacedAt(i)'
    BY <1>1, <1>4, <2>1, <2>3 DEF Takes, PlacedAt, Answered
  <2> QED
    BY <1>3, <2>2, <2>3
<1>7. LengthInv'
  <2>1. part[0].end = OpenEnd => i = 0
    BY <1>1 DEF PartsInv, ShapeInv
  <2>2. ~(site.length /\ part[0].end = OpenEnd)
    BY <2>1 DEF PartsInv, LengthInv
  <2>3. part'[0].end = part[0].end /\ site' = site
    BY <1>1, <1>2 DEF OnlyAt
  <2> QED
    BY <1>5, <2>2, <2>3 DEF LengthInv
<1> QED
  BY <1>1, <1>2, <1>5, <1>6, <1>7, OnlyAtParts

\* A file of unknown length is not cut, one of known length has a part 0.
LEMMA CutIsOpen ==
  ASSUME NEW total \in Int
  PROVE  /\ total <= 0 => PartIds(total) = {0}
         /\ total > 0 => PartEnd(total, 0) >= 0
<1>1. CASE total > 0
  <2>1. 0 \in PartIds(total) /\ PartStart(total, 0) = 0
    BY CutTypes DEF PartStart
  <2> QED
    BY <1>1, <2>1, NoPartEmpty
<1>2. CASE total <= 0
  <2>1. Rest(total) <= 0
    BY <1>2, LayoutAssumption DEF Rest, WantParts, HeadSize, Larger, Smaller
  <2> QED
    BY <1>2, <2>1 DEF PartIds, PartCount
<1> QED
  BY <1>1, <1>2

LEMMA FinalizeParts ==
  ASSUME TypeOK, ProbeInv, PartsInv, NEW i \in DOMAIN conn, NEW f \in Files,
         FinalizeProbing(i, f) \/ FinalizeFails(i, f)
  PROVE  PartsInv'
<1>1. /\ ctx.probing /\ i = 0 /\ DOMAIN conn = {0} /\ DOMAIN part = {0}
      /\ conn[0].st = "body" /\ conn[0].pos < conn[0].stop /\ ctx.status # "ERROR"
      /\ pc = "perform" /\ Finds(i, f)
  BY FinalizeIs
<1>2. \/ Splits(i) /\ pc' = "write" /\ entry'[f] = "file" /\ faults' = faults
      \/ Misses(i) /\ pc' = pc
  BY FinalizeIs
<1>3. /\ ctx'.probing = FALSE /\ ctx'.file = f /\ ctx'.total = TotalFound(conn[0])
      /\ ctx'.etag = ctx.etag
      /\ site' = site /\ version' = version /\ Rows' = Rows
  BY <1>1, RowsStay DEF Finds
<1>4. /\ ctx.total \in Int /\ conn[0].seen \in Nat /\ conn[0].pos \in Nat
      /\ part[0].done = 0 /\ part[0].start = 0
  BY <1>1, Basics DEF ProbeInv, PartsInv, PlaceInv
<1>5. PlacedAt(0) /\ AskedAt(0) /\ conn[0].pos = 0
  BY <1>1, <1>4 DEF PartsInv, PlaceInv, AskInv, PlacedAt, Answered
<1>6. ctx'.total \in Int /\ (site.length => ctx'.total > 0)
  BY <1>1, <1>3, <1>4 DEF TotalFound, PartsInv, LengthInv
<1>7. CASE Misses(i)
  <2>1. /\ OnlyAt(0) /\ part' = part /\ ctx'.range = ctx.range
        /\ ctx'.status = "ERROR" /\ ctx'.reason = "ERROR"
        /\ conn'[0].st = "closed" /\ conn'[0].rc = "write" /\ faults' # 0
        /\ faults' \in Nat /\ faults \in Nat
    BY <1>1, <1>7, Basics DEF Misses, OnlyAt
  <2>2. PlacedAt(0)'
    BY <2>1 DEF PlacedAt, Answered
  <2>3. ~ctx.range
    BY <1>1 DEF ProbeInv
  <2>4. LengthInv'
    BY <1>3, <2>1, <2>3 DEF LengthInv, Failed
  <2> QED
    BY <1>1, <1>3, <1>4, <2>1, <2>2, <2>4, OnlyAtParts
<1>8. CASE Splits(i)
  <2>1. /\ ctx'.range = (conn[0].code = 206)
        /\ DOMAIN part' = IF conn[0].code = 206 THEN PartIds(ctx'.total) ELSE {0}
        /\ 0 \in DOMAIN part' /\ part'[0].start = 0 /\ DOMAIN conn' = DOMAIN part'
        /\ conn[0].code # 206 =>
             part'[0].end = IF ctx'.total > 0 THEN ctx'.total - 1 ELSE OpenEnd
        /\ conn[0].code = 206 => part'[0].end = PartEnd(ctx'.total, 0)
    BY <1>1, <1>8 DEF Splits
  <2>2. \A j \in DOMAIN part' :
          /\ part'[j].done = 0 /\ part'[j].status = "DOWNLOADING"
          /\ IF part'[j].end = OpenEnd THEN j = 0 /\ part'[j].size = 0
             ELSE /\ part'[j].start <= part'[j].end
                  /\ part'[j].size = part'[j].end + 1 - part'[j].start
    BY <1>8 DEF Splits
  <2>3. /\ conn'[0].st = "body" /\ conn'[0].code = conn[0].code
        /\ conn'[0].pos = conn[0].pos /\ conn'[0].stop = conn[0].stop
        /\ conn'[0].probe = conn[0].probe
        /\ \A j \in DOMAIN conn' \ {0} : conn'[j] = NewConn
    BY <1>1, <1>8 DEF Splits
  <2>4. PlacedAt(0)' /\ AskedAt(0)'
    BY <1>1, <1>3, <1>5, <2>1, <2>2, <2>3 DEF PlacedAt, AskedAt, Answered
  <2>5. ASSUME NEW j \in DOMAIN conn', j # 0
        PROVE  PlacedAt(j)' /\ AskedAt(j)' /\ DoneAt(j)' /\ ShapedAt(j)'
    <3>1. conn'[j] = NewConn /\ j \in DOMAIN part'
      BY <2>1, <2>3, <2>5
    <3>2. /\ part'[j].start \in Int /\ part'[j].end \in Int
          /\ part'[j].status = "DOWNLOADING" /\ part'[j].done = 0
          /\ part'[j].end # OpenEnd /\ part'[j].start <= part'[j].end
          /\ part'[j].size = part'[j].end + 1 - part'[j].start
      <4>1. TypeOK'
        BY <1>1, FinalizeProbingType, FinalizeFailsType
      <4>2. part'[j] \in PartType
        BY <3>1, <4>1 DEF TypeOK, IsPart
      <4> QED
        BY <2>2, <2>5, <3>1, <4>2 DEF PartType
    <3> QED
      BY <3>1, <3>2, NewConnIs DEF PlacedAt, AskedAt, DoneAt, ShapedAt
  <2>6. DoneAt(0)' /\ ShapedAt(0)'
    BY <2>1, <2>2, <2>3 DEF DoneAt, ShapedAt
  <2>7. PlaceInv' /\ AskInv' /\ DoneInv'
    BY <1>3, <2>1, <2>4, <2>5, <2>6 DEF PlaceInv, AskInv, DoneInv, PartsInv
  <2>8. ctx'.total > 0 => part'[0].end # OpenEnd
    BY <1>6, <2>1, CutIsOpen DEF OpenEnd
  <2>9. ~ctx'.range \/ part'[0].end = OpenEnd => DOMAIN part' = {0}
    <3>1. CASE conn[0].code = 206
      <4>1. DOMAIN part' = PartIds(ctx'.total) /\ ctx'.range
        BY <2>1, <3>1
      <4> QED
        BY <1>6, <2>8, <4>1, CutIsOpen
    <3>2. CASE conn[0].code # 206
      BY <2>1, <3>2
    <3> QED
      BY <3>1, <3>2
  <2>10. ShapeInv'
    <3>1. ctx'.range => site.range
      BY <1>1, <1>5, <2>1 DEF PlacedAt, Answered
    <3> QED
      BY <1>3, <2>1, <2>5, <2>6, <2>9, <3>1 DEF ShapeInv
  <2>11. LengthInv'
    BY <1>3, <1>6, <2>8 DEF LengthInv
  <2>12. RowInv' /\ VerInv'
    BY <1>3, RowInvStays DEF VerInv, EtagOf, PartsInv
  <2> QED
    BY <2>7, <2>10, <2>11, <2>12 DEF PartsInv
<1> QED
  BY <1>2, <1>7, <1>8

-----------------------------------------------------------------------------
\* The worker saves a row of parts that are not all in only if the file is split.
LEMMA WorkerSaves ==
  ASSUME TypeOK, Worker, ~ReceiveFirst
  PROVE  \/ saved' = saved
         \/ saved' = Serialized /\ ctx.range
         \/ saved' = Serialized /\ AllIn /\ ~Failed /\ pc = "finish"
<1>1. ASSUME NEW next, EmitAnd(next)
      PROVE  saved' = saved \/ (saved' = Serialized /\ ctx.range)
  BY <1>1 DEF EmitAnd, MaybeEmit, Emit, Emits
<1>2. CASE WFinish
  <2>1. CASE Aggregated.status = "COMPLETED" /\ Emit
    <3>1. saved' = saved \/ saved' = Serialized
      BY <2>1 DEF Emit
    <3>2. ~Failed
      BY <2>1 DEF Aggregated, Failed
    <3>3. AllIn
      <4>1. ctx \in CtxType /\ IsPart(part)
        BY DEF TypeOK, IsCtx
      <4>2. \A i \in DOMAIN part :
              part[i].status \in {"DOWNLOADING", "COMPLETED", "ERROR"}
        BY <4>1 DEF IsPart, PartType
      <4>3. CASE PartsIn("DOWNLOADING") # {}
        <5>1. Aggregated = [ctx EXCEPT !.status = "DOWNLOADING", !.reason = "NONE"]
          BY <3>2, <4>3 DEF Aggregated, Failed
        <5> QED
          BY <2>1, <4>1, <5>1 DEF CtxType
      <4>4. CASE PartsIn("DOWNLOADING") = {} /\ ~AllIn /\ PartsIn("ERROR") # {}
        <5>1. Aggregated = [ctx EXCEPT !.status = "ERROR", !.reason = WorstReason]
          BY <3>2, <4>4 DEF Aggregated, Failed, AllIn
        <5> HIDE DEF Aggregated
        <5> QED
          BY <2>1, <4>1, <5>1 DEF CtxType
      <4>5. PartsIn("DOWNLOADING") = {} /\ PartsIn("ERROR") = {} => AllIn
        BY <4>2 DEF PartsIn, AllIn
      <4> QED
        BY <4>3, <4>4, <4>5
    <3> QED
      BY <1>2, <3>1, <3>2, <3>3 DEF WFinish
  <2>2. CASE EmitAnd(Aggregated)
    BY <1>1, <2>2
  <2> QED
    BY <1>2, <2>1, <2>2 DEF WFinish
<1>3. CASE ~WFinish
  <2>1. saved' = saved \/ \E next : EmitAnd(next)
    BY <1>3 DEF Worker, WStart, WTop, WPoll, WEmit, WLeave, WMsg, downloadVars
  <2> QED
    BY <1>1, <2>1
<1> QED
  BY <1>2, <1>3

\* A body of unknown length that has ended is complete, and is not empty.
LEMMA WholeIs ==
  ASSUME TypeOK, ProbeInv, PartsInv, NEW i \in DOMAIN conn, conn[i].st = "closed",
         Verdict(part[i], conn[i]) = "whole"
  PROVE  /\ i = 0 /\ part[i].end = OpenEnd /\ part[i].size = 0 /\ conn[i].rc = "ok"
         /\ part[i].done > 0 /\ part[i].done = conn[i].stop /\ ~ctx.probing
         /\ ~(conn[i].probe /\ conn[i].code = 206)
         /\ DOMAIN part = {0}
<1>1. /\ DOMAIN conn = DOMAIN part /\ part[i] \in PartType /\ conn[i] \in ConnType
      /\ part[i].start \in Nat /\ part[i].end \in Int /\ part[i].done \in Nat
      /\ conn[i].stop \in Int
  BY Basics
<1>2. /\ part[i].size = 0 /\ conn[i].rc = "ok"
      /\ ~(conn[i].probe /\ conn[i].code = 206 /\ part[i].done > 0)
  BY <1>1, VerdictIs
<1>3. part[i].end = OpenEnd
  BY <1>1, <1>2 DEF PartsInv, ShapeInv, ShapedAt
<1>4. conn[i].stop = part[i].start + part[i].done /\ conn[i].stop > 0
  BY <1>1, <1>2 DEF PartsInv, PlaceInv, PlacedAt, Answered
<1>5. part[0].start = 0 /\ (part[0].end = OpenEnd => DOMAIN part = {0})
  BY DEF PartsInv, PlaceInv, ShapeInv
<1>6. i = 0 /\ DOMAIN part = {0}
  <2>1. i = 0
    BY <1>1, <1>3 DEF PartsInv, ShapeInv, ShapedAt
  <2> QED
    BY <1>3, <1>5, <2>1
<1>7. part[i].done > 0 /\ part[i].done = conn[i].stop
  BY <1>1, <1>4, <1>5, <1>6
<1> QED
  BY <1>2, <1>3, <1>6, <1>7 DEF ProbeInv

\* A request is only sent for a part that is not full.
LEMMA AskedPart ==
  ASSUME TypeOK, ProbeInv, PartsInv, NEW i \in DOMAIN conn,
         Asks(part[i], conn[i], conn'[i])
  PROVE  /\ part[i].size = 0 \/ part[i].done < part[i].size
         /\ conn'[i].st = "sent" /\ conn'[i].pos = part[i].start + part[i].done
         /\ conn'[i].probe = ctx.probing /\ (ctx.probing => i = 0)
         /\ \/ conn'[i].ifRange = NoValidator
            \/ conn'[i].ifRange = ctx.etag /\ ~ctx.probing
         /\ conn'[i].stop = IF ctx.probing THEN ProbeWindow
                            ELSE IF part[i].end = OpenEnd THEN OpenEnd
                            ELSE part[i].end + 1
<1>1. /\ DOMAIN conn = DOMAIN part /\ part[i] \in PartType /\ conn[i] \in ConnType
      /\ part[i].start \in Nat /\ part[i].end \in Int /\ part[i].done \in Nat
      /\ part[i].size \in Nat
  BY Basics
<1>2. part[i].size = 0 \/ part[i].done < part[i].size
  BY <1>1, VerdictIs DEF Asks, PartsInv, DoneInv, DoneAt
<1>3. ctx.probing => i = 0 /\ part[i].start + part[i].done = 0
  BY <1>1 DEF ProbeInv, PartsInv, PlaceInv
<1>4. part[i].end >= part[i].start + part[i].done <=> part[i].end # OpenEnd
  BY <1>1, <1>2 DEF PartsInv, ShapeInv, ShapedAt, OpenEnd
<1> QED
  BY <1>2, <1>3, <1>4 DEF Asks

LEMMA WorkerAt ==
  ASSUME TypeOK, ProbeInv, PartsInv, Moves, WorkerKeeps, NEW i \in DOMAIN conn,
         UNCHANGED <<site, version>>
  PROVE  PlacedAt(i)' /\ AskedAt(i)' /\ ShapedAt(i)' /\ DoneAt(i)'
<1>1. /\ DOMAIN conn = DOMAIN part /\ part[i] \in PartType /\ conn[i] \in ConnType
      /\ part[i].start \in Nat /\ part[i].end \in Int /\ part[i].done \in Nat
      /\ part[i].size \in Nat /\ ctx.etag \in Nat /\ version \in Nat
  BY Basics
<1>2. PartMoves(part[i], conn[i], part'[i])
      /\ ConnMoves(part[i], conn[i], part'[i], conn'[i])
  BY DEF Moves
<1>3. part'[i].start = part[i].start /\ part'[i].done = part[i].done
      /\ part'[i].end = part[i].end
  BY <1>2 DEF PartMoves
<1>4. PlacedAt(i) /\ AskedAt(i) /\ ShapedAt(i) /\ DoneAt(i) /\ ctx.etag <= version
  BY <1>1 DEF PartsInv, PlaceInv, AskInv, ShapeInv, DoneInv, VerInv, EtagOf
<1>5. ShapedAt(i)' /\ (part'[i].status = "COMPLETED" =>
                         part'[i].size > 0 /\ part'[i].done >= part'[i].size)
  <2>1. CASE part'[i].size = part[i].size
    <3>1. part'[i].status = "COMPLETED" => part[i].size > 0 /\ part[i].done >= part[i].size
      BY <1>1, <1>2, <1>4, <2>1, VerdictIs, WholeIs DEF PartMoves, DoneAt
    <3> QED
      BY <1>3, <1>4, <2>1, <3>1 DEF ShapedAt
  <2>2. CASE part'[i].size # part[i].size
    <3>1. conn[i].st = "closed" /\ Verdict(part[i], conn[i]) = "whole"
          /\ part'[i].size = part[i].done
      BY <1>2, <2>2 DEF PartMoves
    <3>2. part[i].end = OpenEnd /\ part[i].done > 0 /\ i = 0
      BY <3>1, WholeIs
    <3> QED
      BY <1>1, <1>3, <3>1, <3>2 DEF ShapedAt
  <2> QED
    BY <2>1, <2>2
<1>6. CASE conn'[i] = conn[i] /\ part'[i] = part[i]
  BY <1>4, <1>6 DEF PlacedAt, AskedAt, ShapedAt, DoneAt, WorkerKeeps
<1>7. CASE conn'[i].st = "idle" /\ conn'[i].probe = conn[i].probe
  BY <1>4, <1>5, <1>7 DEF PlacedAt, AskedAt, DoneAt, Answered
<1>8. CASE part'[i] = part[i] /\ Asks(part[i], conn[i], conn'[i])
  <2>1. /\ part[i].size = 0 \/ part[i].done < part[i].size
        /\ conn'[i].st = "sent" /\ conn'[i].pos = part[i].start + part[i].done
        /\ conn'[i].probe = ctx.probing /\ (ctx.probing => i = 0)
        /\ \/ conn'[i].ifRange = NoValidator
           \/ conn'[i].ifRange = ctx.etag /\ ~ctx.probing
        /\ conn'[i].stop = IF ctx.probing THEN ProbeWindow
                           ELSE IF part[i].end = OpenEnd THEN OpenEnd
                           ELSE part[i].end + 1
    BY <1>8, AskedPart
  <2> QED
    BY <1>1, <1>4, <1>5, <1>8, <2>1
    DEF PlacedAt, AskedAt, DoneAt, Answered, NoValidator, WorkerKeeps
<1> QED
  BY <1>2, <1>6, <1>7, <1>8 DEF ConnMoves

LEMMA WorkerRow ==
  ASSUME TypeOK, ProbeInv, PartsInv, site' = site, loaded' = loaded, Running,
         \/ saved' = saved
         \/ saved' = Serialized /\ ctx.range
         \/ saved' = Serialized /\ AllIn /\ ~Failed
  PROVE  RowInv' /\ \A r \in Rows' : 0 \in DOMAIN r.part => r.part[0].start = 0
<1>0. \A r \in Rows' : r \in Rows \/ r = saved'
  BY DEF Rows
<1>1. CASE saved' = saved
  BY <1>1, RowsStay, RowInvStays DEF PartsInv, PlaceInv
<1>2. CASE saved' = Serialized /\ (ctx.range \/ (AllIn /\ ~Failed))
  <2>1. /\ saved'.file = ctx.file /\ saved'.range = ctx.range
        /\ DOMAIN saved'.part = DOMAIN part
        /\ \A i \in DOMAIN part :
             /\ saved'.part[i].start = part[i].start
             /\ saved'.part[i].end = part[i].end
             /\ saved'.part[i].done = part[i].done
    BY <1>2 DEF Serialized
  <2>2. 0 \in DOMAIN part /\ DOMAIN conn = DOMAIN part
    BY Basics
  <2>3. ASSUME ctx.file # NoFile, site.length
        PROVE  part[0].end # OpenEnd
    <3>1. ~ctx.probing
      BY <2>3 DEF ProbeInv
    <3> QED
      BY <1>2, <2>3, <3>1 DEF PartsInv, LengthInv
  <2>4. ASSUME ctx.file # NoFile, site.length, ~ctx.range
        PROVE  AllFull(saved)'
    <3>1. ~ctx.probing /\ AllIn /\ DOMAIN part = {0} /\ part[0].end # OpenEnd
      BY <1>2, <2>3, <2>4 DEF ProbeInv, PartsInv, ShapeInv
    <3>2. part[0].status = "COMPLETED"
      BY <2>2, <3>1 DEF AllIn, PartsIn
    <3>3. /\ part[0].size > 0 /\ part[0].done >= part[0].size
          /\ part[0].end >= part[0].start
          /\ part[0].size = part[0].end + 1 - part[0].start
      BY <2>2, <3>1, <3>2 DEF PartsInv, DoneInv, DoneAt, ShapeInv, ShapedAt
    <3>4. IsRow(saved)'
      BY <1>2, SerializedType
    <3>5. saved'.part[0] \in RowPartType
      BY <2>1, <2>2, <3>4 DEF IsRow
    <3>6. Restored(saved'.part[0]).status = "COMPLETED"
      BY <2>1, <2>2, <3>3, <3>5, RestoredIs
    <3> QED
      BY <2>1, <3>1, <3>6 DEF AllFull
  <2>5. \A i \in DOMAIN part : ShapedAt(i)
    BY <2>2 DEF PartsInv, ShapeInv
  <2> QED
    BY <1>0, <2>1, <2>2, <2>3, <2>4, <2>5
    DEF PartsInv, PlaceInv, ShapeInv, ShapedAt, RowInv, AllFull
<1> QED
  BY <1>1, <1>2

LEMMA WorkerParts ==
  ASSUME TypeOK, ProbeInv, PartsInv, Worker, ~ReceiveFirst
  PROVE  PartsInv'
<1>1. WorkerMoves
  BY WorkerDoes
<1>2. Moves /\ WorkerKeeps /\ ctx'.etag = ctx.etag
      /\ UNCHANGED <<site, version>>
  BY <1>1 DEF WorkerMoves
<1>3. /\ DOMAIN part' = DOMAIN part /\ DOMAIN conn' = DOMAIN conn
      /\ DOMAIN conn = DOMAIN part /\ 0 \in DOMAIN part
      /\ (faults' = 0 => faults = 0) /\ faults' \in Nat /\ faults \in Nat
      /\ ctx'.probing = ctx.probing /\ ctx'.range = ctx.range /\ ctx'.file = ctx.file
      /\ Running
  BY <1>2, Basics DEF Moves, WorkerKeeps
<1>4. \A i \in DOMAIN conn : PlacedAt(i)' /\ AskedAt(i)' /\ ShapedAt(i)' /\ DoneAt(i)'
  BY <1>2, WorkerAt
<1>5. /\ saved' = saved \/ saved' = Serialized
      /\ RowInv' /\ \A r \in Rows' : 0 \in DOMAIN r.part => r.part[0].start = 0
      /\ \A r \in Rows' : r \in Rows \/ r = saved'
  BY <1>2, <1>3, WorkerSaves, WorkerRow DEF WorkerKeeps, Rows
<1>6. /\ PartMoves(part[0], conn[0], part'[0])
      /\ ConnMoves(part[0], conn[0], part'[0], conn'[0])
  BY <1>2, <1>3 DEF Moves
<1>7. part'[0].start = part[0].start /\ part'[0].end = part[0].end
  BY <1>6 DEF PartMoves
<1>8. PlaceInv' /\ AskInv' /\ DoneInv'
  BY <1>3, <1>4, <1>5, <1>7 DEF PartsInv, PlaceInv, AskInv, DoneInv
<1>9. ShapeInv'
  <2>1. ctx.probing => part'[0].size = 0
    BY <1>3, <1>6 DEF PartMoves, ProbeInv, PartsInv, ShapeInv
  <2> QED
    BY <1>2, <1>3, <1>4, <1>7, <2>1 DEF PartsInv, ShapeInv
<1>10. LengthInv'
  <2>1. ASSUME conn[0].st = "closed", conn[0].rc = "write"
        PROVE  ~Asks(part[0], conn[0], conn'[0])
    <3>1. part[0] \in PartType /\ conn[0] \in ConnType
      BY <1>3, Basics
    <3> QED
      BY <2>1, <3>1, VerdictIs DEF Asks
  <2>2. ASSUME \/ conn[0].st = "idle"
               \/ conn[0].st = "closed" /\ conn[0].rc = "write"
        PROVE  \/ conn'[0].st = "idle"
               \/ conn'[0].st = "closed" /\ conn'[0].rc = "write"
    BY <1>6, <2>1, <2>2 DEF ConnMoves, Asks
  <2>3. ASSUME site.length, Running', ~ctx'.probing, part'[0].end = OpenEnd
        PROVE  /\ Failed' /\ faults' > 0 /\ ~ctx'.range
               /\ \/ conn'[0].st = "idle"
                  \/ conn'[0].st = "closed" /\ conn'[0].rc = "write"
    <3>1. /\ Failed /\ faults > 0 /\ ~ctx.range
          /\ \/ conn[0].st = "idle"
             \/ conn[0].st = "closed" /\ conn[0].rc = "write"
      BY <1>3, <1>7, <2>3 DEF PartsInv, LengthInv
    <3> QED
      BY <1>2, <1>3, <2>2, <2>3, <3>1 DEF WorkerKeeps
  <2>4. ASSUME site.length, ctx'.probing, NEW i \in DOMAIN conn, conn'[i].st = "body"
        PROVE  ctx'.total > 0 \/ conn'[i].seen > 0
    <3>1. conn'[i] = conn[i]
      BY <1>2, <2>4 DEF Moves, ConnMoves, Asks
    <3>2. ctx.total > 0 \/ conn[i].seen > 0
      BY <1>3, <2>4, <3>1 DEF PartsInv, LengthInv
    <3>3. ctx'.total = ctx.total
      BY <1>1, <1>3, <2>4, WholeIs DEF WorkerMoves
    <3> QED
      BY <3>1, <3>2, <3>3
  <2> QED
    BY <1>2, <1>3, <1>7, <2>3, <2>4 DEF PartsInv, LengthInv
<1>11. VerInv'
  BY <1>2, <1>5 DEF PartsInv, VerInv, EtagOf, Serialized, Rows
<1> QED
  BY <1>5, <1>8, <1>9, <1>10, <1>11 DEF PartsInv

LEMMA PartsInit == Init => PartsInv
<1> SUFFICES ASSUME Init PROVE PartsInv
  OBVIOUS
<1>1. ctx = FreshCtx /\ part = FreshParts /\ conn = FreshConns /\ version = 1
  BY DEF Init
<1>2. /\ DOMAIN part = {0} /\ DOMAIN conn = {0} /\ conn[0] = NewConn
      /\ part[0].start = 0 /\ part[0].end = OpenEnd /\ part[0].size = 0
      /\ part[0].done = 0 /\ part[0].status = "DOWNLOADING"
      /\ ctx.probing = TRUE /\ ctx.range = FALSE /\ ctx.etag = 0
  BY <1>1 DEF FreshCtx, FreshParts, FreshConns, NewPart, OpenEnd, NoValidator
<1>3. \A r \in Rows : r.file = NoFile /\ r.etag = 0 /\ DOMAIN r.part = {}
  BY DEF Init, Rows, NoResume, NoValidator
<1> QED
  BY <1>1, <1>2, <1>3, NewConnIs
  DEF PartsInv, PlaceInv, PlacedAt, AskInv, AskedAt, DoneInv, DoneAt, ShapeInv,
      ShapedAt, LengthInv, RowInv, VerInv, EtagOf, NoValidator

LEMMA PartsStep ==
  ASSUME NoEmptyFile, TypeInv, PartsInv, [Next]_vars
  PROVE  PartsInv'
<1>1. TypeOK /\ ProbeInv /\ ConnInv
  BY DEF TypeInv
<1>2. CASE UNCHANGED vars
  BY <1>2, RowsStay
  DEF vars, downloadVars, requestVars, storageVars, resumeVars, boundVars, PartsInv, PlaceInv,
      PlacedAt, AskInv, AskedAt, DoneInv, DoneAt, ShapeInv, ShapedAt, LengthInv, RowInv,
      VerInv, EtagOf, AllFull, Running, Failed
<1>3. CASE Environment
  BY <1>1, <1>3, EnvironmentParts
<1>4. CASE Worker /\ ~ReceiveFirst
  BY <1>1, <1>4, WorkerParts
<1>5. CASE ReceiveFirst
  <2>1. WriteBody(0) /\ pc = "write" /\ 0 \in DOMAIN conn
    BY <1>1, <1>5, Basics DEF ReceiveFirst
  <2> QED
    BY <1>1, <2>1, WriteParts DEF ConnInv, Running
<1>6. ASSUME NEW i \in DOMAIN conn, Reply(i) PROVE PartsInv'
  BY <1>1, <1>6, ReplyParts
<1>7. ASSUME NEW i \in DOMAIN conn, TransferFails(i) \/ Refuse(i) \/ EndOfBody(i)
      PROVE  PartsInv'
  BY <1>1, <1>7, EndParts
<1>8. ASSUME NEW i \in DOMAIN conn, Receive(i) PROVE PartsInv'
  BY <1>1, <1>8, WriteParts DEF Receive, BodyArrives, Running
<1>9. ASSUME NEW i \in DOMAIN conn, NEW f \in Files,
             FinalizeProbing(i, f) \/ FinalizeFails(i, f)
      PROVE  PartsInv'
  BY <1>1, <1>9, FinalizeParts
<1> QED
  BY <1>2, <1>3, <1>4, <1>5, <1>6, <1>7, <1>8, <1>9 DEF Next, Network

-----------------------------------------------------------------------------
(* What a task knows of the file it downloads.                             *)

\* Redirects only come from servers that answer ranges and tell the length: of
\* the others, finalize_probing takes the length of the redirect's own body for
\* that of the file.
HonestRedirects ==
  \A s \in Sites : s.redirect = 0 \/ (s.range /\ s.length)

\* The version a task, or a row, is about, if it can know.
Knowable == site.validator \/ version = 1
Ver == IF site.validator THEN ctx.etag ELSE 1
RowVer(r) == IF site.validator THEN r.etag ELSE 1

\* Answers are of that version, and as long as it is if nothing says otherwise.
AnswerAt(i) ==
  Answered(conn[i]) =>
    /\ Ver # 0 /\ conn[i].ver = Ver /\ conn[i].stop <= Len[Ver]
    /\ conn[i].seen > 0 => conn[i].seen = Len[Ver]
    /\ conn[i].code = 200 => conn[i].stop = Len[Ver]
    /\ conn[i].code = 206 /\ ~conn[i].probe /\ ~site.length =>
         conn[i].stop = Len[Ver]
    /\ ~site.length => conn[i].seen = 0
AnswersInv == Knowable => \A i \in DOMAIN conn : AnswerAt(i)

\* What a task holds to be the length is that version's.
TotalInv ==
  Knowable =>
    /\ ~ctx.probing => Ver # 0
    /\ ctx.total > 0 => Ver # 0 /\ ctx.total = Len[Ver]
    /\ ~ctx.range /\ part[0].end # OpenEnd => part[0].end = Len[Ver] - 1
    /\ part[0].end = OpenEnd /\ part[0].size # 0 => part[0].size = Len[Ver]
    /\ ~site.length => /\ part[0].end = OpenEnd
                       /\ ctx.probing => ctx.total <= 0
RowTotalInv ==
  \A r \in Rows : Knowable /\ r.file # NoFile =>
    /\ RowVer(r) # 0
    /\ r.total > 0 => r.total = Len[RowVer(r)]
    /\ ~r.range /\ r.part[0].end # OpenEnd => r.part[0].end = Len[RowVer(r)] - 1
    /\ ~site.length => r.part[0].end = OpenEnd

KnownInv == AnswersInv /\ TotalInv /\ RowTotalInv

LEMMA VerIs ==
  ASSUME TypeOK
  PROVE  /\ Ver \in Versions \cup {0} /\ \A r \in Rows : RowVer(r) \in Versions \cup {0}
         /\ \A v \in Versions : Len[v] \in Nat
         /\ 0 \notin Versions
<1>1. /\ ctx.etag \in Versions \cup {NoValidator}
      /\ \A r \in Rows : r.etag \in Versions \cup {NoValidator}
  BY DEF TypeOK, IsCtx, CtxType, IsRow, Rows
<1>2. 1 \in Versions /\ Len \in [Versions -> 0 .. FileCap] /\ FileCap \in Nat
      /\ Versions \subseteq Nat \ {0}
  BY DownloadAssumption
<1> QED
  BY <1>1, <1>2 DEF Ver, RowVer, NoValidator

\* A row keeps its version.
LEMMA RowTotalStays ==
  ASSUME RowTotalInv, \A r \in Rows' : r \in Rows \/ r = NoResume, site' = site,
         Knowable' => Knowable
  PROVE  RowTotalInv'
BY NoResumeIs DEF RowTotalInv, RowVer

LEMMA EnvironmentKnown ==
  ASSUME TypeOK, PartsInv, KnownInv, Environment
  PROVE  KnownInv'
<1>1. /\ site' = site /\ \A r \in Rows' : r \in Rows \/ r = NoResume
      /\ version' = version \/ version' = version + 1
      /\ \/ Restores
         \/ /\ ctx' = FreshCtx /\ part' = FreshParts /\ conn' = FreshConns
            /\ pc' \in {"none", "start"}
         \/ UNCHANGED <<ctx, part, conn, pc>>
  BY EnvironmentIs
<1>2. Knowable' => Knowable
  <2>1. version \in Nat \ {0}
    BY Basics
  <2> QED
    BY <1>1, <2>1 DEF Knowable
<1>3. RowTotalInv'
  BY <1>1, <1>2, RowTotalStays DEF KnownInv
<1>4. CASE UNCHANGED <<ctx, part, conn, pc>>
  BY <1>1, <1>2, <1>3, <1>4 DEF KnownInv, AnswersInv, AnswerAt, TotalInv, Ver
<1>5. CASE ctx' = FreshCtx /\ part' = FreshParts /\ conn' = FreshConns
  <2>1. AnswersInv'
    BY <1>5, FreshIs, NewConnIs DEF AnswersInv, AnswerAt
  <2>2. TotalInv'
    <3>1. /\ ctx'.probing = TRUE /\ ctx'.total = -1
          /\ part'[0].end = OpenEnd /\ part'[0].size = 0
      BY <1>5, FreshIs
    <3> QED
      BY <3>1 DEF TotalInv
  <2> QED
    BY <1>3, <2>1, <2>2 DEF KnownInv
<1>6. CASE Restores
  <2>1. /\ loaded.file # NoFile /\ DOMAIN conn' = DOMAIN loaded.part
        /\ 0 \in DOMAIN loaded.part
        /\ \A i \in DOMAIN loaded.part : conn'[i] = NewConn
        /\ ctx'.probing = FALSE /\ ctx'.range = loaded.range
        /\ ctx'.etag = loaded.etag /\ ctx'.total = loaded.total
        /\ part'[0] = Restored(loaded.part[0])
        /\ loaded \in Rows
    BY <1>6 DEF Restores, Usable, Rows
  <2>2. /\ part'[0].end = loaded.part[0].end
        /\ part'[0].end = OpenEnd => part'[0].size = 0
    <3>1. loaded.part[0] \in RowPartType
      BY <2>1 DEF TypeOK, IsRow
    <3> QED
      BY <2>1, <3>1, RestoredIs DEF RowPartType, OpenEnd
  <2>3. Ver' = RowVer(loaded)
    BY <1>1, <2>1 DEF Ver, RowVer
  <2>4. AnswersInv'
    BY <2>1, NewConnIs DEF AnswersInv, AnswerAt
  <2>5. TotalInv'
    BY <1>1, <1>2, <2>1, <2>2, <2>3 DEF KnownInv, RowTotalInv, TotalInv
  <2> QED
    BY <1>3, <2>4, <2>5 DEF KnownInv
<1> QED
  BY <1>1, <1>4, <1>5, <1>6

\* What a step that concerns one connection, and not the row, has to show.
LEMMA OnlyAtKnown ==
  ASSUME TypeOK, KnownInv, NEW i \in DOMAIN conn, OnlyAt(i), Knowable => AnswerAt(i)',
         Knowable => TotalInv', Knowable /\ Ver # 0 => Ver' = Ver,
         Ver = 0 => DOMAIN conn = {i}
  PROVE  KnownInv'
<1>1. /\ site' = site /\ version' = version /\ Rows' = Rows
      /\ DOMAIN conn' = DOMAIN conn
      /\ \A j \in DOMAIN conn \ {i} : conn'[j] = conn[j]
  BY RowsStay DEF OnlyAt
<1>2. Knowable' = Knowable
  BY <1>1 DEF Knowable
<1>3. RowTotalInv'
  BY <1>1, <1>2, RowTotalStays DEF KnownInv
<1>4. AnswersInv'
  BY <1>1, <1>2 DEF KnownInv, AnswersInv, AnswerAt
<1> QED
  BY <1>2, <1>3, <1>4 DEF KnownInv, TotalInv

LEMMA ReplyKnown ==
  ASSUME TypeOK, ProbeInv, NoEmptyFile, HonestRedirects, PartsInv, KnownInv,
         NEW i \in DOMAIN conn, Reply(i)
  PROVE  KnownInv'
<1>1. /\ OnlyAt(i) /\ UNCHANGED <<pc, entry, disk>>
      /\ conn[i].st = "sent" /\ ctx.status # "ERROR"
      /\ ctx'.file = ctx.file /\ ctx'.probing = ctx.probing /\ ctx'.range = ctx.range
  BY ReplyIs
<1>2. PICK code \in Codes(conn[i]) : \E last \in BodyEnds(conn[i], code) :
        \/ Drifted(i, code) /\ Drifts(i)
        \/ ~Drifted(i, code) /\ Accepts(i, code, last)
  BY ReplyIs
<1>3. PICK last \in BodyEnds(conn[i], code) :
        \/ Drifted(i, code) /\ Drifts(i)
        \/ ~Drifted(i, code) /\ Accepts(i, code, last)
  BY <1>2
<1>4. /\ code \in {200, 206, 416} /\ Len[version] \in Nat /\ last \in Nat
      /\ code = 200 => last = Len[version]
      /\ last <= Len[version]
      /\ \/ last = IF code = 206 /\ conn[i].stop # OpenEnd /\ conn[i].stop < Len[version]
                   THEN conn[i].stop ELSE Len[version]
         \/ code = 206 /\ site.length
  BY BodyEndIs
<1>5. /\ site' = site /\ version' = version /\ part'[0].end = part[0].end
      /\ part'[0].size = part[0].size /\ DOMAIN conn = DOMAIN part /\ 0 \in DOMAIN part
      /\ conn'[i].probe = conn[i].probe
  BY <1>1, Basics DEF OnlyAt
<1>6. ctx.total \in Int /\ ctx.etag \in Nat /\ version \in Nat \ {0} /\ site \in Sites
  BY Basics DEF TypeOK
<1>7. Knowable /\ Ver = 0 => ctx.probing /\ DOMAIN conn = {i}
  BY <1>5 DEF KnownInv, TotalInv, ProbeInv
<1>8. CASE Drifts(i)
  <2>1. ~Answered(conn'[i]) /\ ctx'.etag = ctx.etag /\ ctx'.total = ctx.total
    BY <1>8 DEF Drifts, Answered
  <2>2. AnswerAt(i)' /\ Ver' = Ver
    BY <1>5, <2>1 DEF AnswerAt, Ver
  <2>3. Knowable => TotalInv'
    BY <1>1, <1>5, <2>1, <2>2 DEF KnownInv, TotalInv
  <2>4. Knowable => KnownInv'
    BY <1>1, <1>7, <2>2, <2>3, OnlyAtKnown
  <2> QED
    BY <1>5, <2>4, RowTotalStays
    DEF KnownInv, Knowable, AnswersInv, TotalInv, RowTotalInv
<1>9. CASE ~Drifted(i, code) /\ Accepts(i, code, last)
  <2>1. /\ Answered(conn'[i]) => code \in {200, 206}
        /\ conn'[i].code = code /\ conn'[i].ver = version /\ conn'[i].stop = last
        /\ conn'[i].seen = IF ctx.probing THEN SeenTotal(code) ELSE 0
        /\ ctx'.total = IF code # 200 /\ site.length /\ ctx.total <= 0
                           /\ Len[version] > 0
                        THEN Len[version] ELSE ctx.total
        /\ ctx'.etag = IF site.validator THEN version ELSE ctx.etag
    BY <1>4, <1>9 DEF Accepts, Answered
  <2> SUFFICES ASSUME Knowable PROVE KnownInv'
    BY <1>5 DEF KnownInv, Knowable, AnswersInv, TotalInv, RowTotalInv
  <2>2. Ver' = version
    BY <1>5, <2>1 DEF Ver, Knowable
  <2>3. Ver = 0 \/ Ver = version
    BY <1>9 DEF Ver, Knowable, Drifted, NoValidator
  <2>4. ~site.length => SeenTotal(code) = 0
    BY <1>6 DEF HonestRedirects, SeenTotal
  <2>5. ctx.probing /\ SeenTotal(code) > 0 => SeenTotal(code) = Len[version] \/ code = 416
    <3>1. ctx.probing /\ code = 200 => ~site.range
      <4>1. ctx.probing => conn[i].ifRange = NoValidator
        BY <1>1 DEF PartsInv, AskInv, AskedAt
      <4>2. Len[version] # 0
        BY DEF TypeOK, NoEmptyFile
      <4> QED
        BY <4>1, <4>2 DEF Codes, Ranged
    <3>2. ctx.probing /\ code = 200 => site.redirect = 0
      BY <1>6, <3>1 DEF HonestRedirects
    <3>3. code = 206 => site.length \/ site.redirect = 0
      BY <1>6 DEF HonestRedirects
    <3> QED
      BY <1>4, <3>2, <3>3 DEF SeenTotal
  <2>6. code = 206 /\ ~conn[i].probe /\ ~site.length => last = Len[version]
    <3>1. ~site.length => part[0].end = OpenEnd /\ DOMAIN part = {0}
      BY DEF KnownInv, TotalInv, PartsInv, ShapeInv
    <3>2. ~site.length /\ ~conn[i].probe => conn[i].stop = OpenEnd
      BY <1>1, <1>5, <3>1 DEF PartsInv, AskInv, AskedAt
    <3> QED
      BY <1>4, <3>2
  <2>7. AnswerAt(i)'
    BY <1>4, <1>5, <1>6, <2>1, <2>2, <2>4, <2>5, <2>6 DEF AnswerAt
  <2>8. TotalInv'
    BY <1>1, <1>4, <1>5, <1>6, <1>7, <2>1, <2>2, <2>3
    DEF KnownInv, TotalInv, PartsInv, ShapeInv
  <2> QED
    BY <1>1, <1>7, <2>2, <2>3, <2>7, <2>8, OnlyAtKnown
<1> QED
  BY <1>3, <1>8, <1>9

\* While nothing is known yet there is one connection.
LEMMA UnknownIsProbe ==
  ASSUME TypeOK, ProbeInv, KnownInv, NEW i \in DOMAIN conn, Knowable, Ver = 0
  PROVE  ctx.probing /\ DOMAIN conn = {i}
BY Basics DEF KnownInv, TotalInv, ProbeInv

LEMMA NotKnowable ==
  ASSUME ~Knowable', KnownInv PROVE KnownInv'
BY DEF KnownInv, AnswersInv, TotalInv, RowTotalInv

LEMMA EndKnown ==
  ASSUME TypeOK, ProbeInv, KnownInv, NEW i \in DOMAIN conn,
         TransferFails(i) \/ Refuse(i) \/ EndOfBody(i)
  PROVE  KnownInv'
<1>1. OnlyAt(i) /\ Ends(i) /\ UNCHANGED <<pc, ctx, part, entry, disk>>
  BY EndIs
<1>2. site' = site /\ version' = version /\ conn'[i].probe = conn[i].probe
      /\ Ver' = Ver
  BY <1>1 DEF OnlyAt, Ver
<1>3. Knowable => AnswerAt(i)
  BY DEF KnownInv, AnswersInv
<1>4. Knowable => AnswerAt(i)'
  BY <1>1, <1>2, <1>3 DEF AnswerAt, Answered, Ends
<1>5. Knowable => TotalInv'
  BY <1>1, <1>2 DEF KnownInv, TotalInv
<1>6. Knowable' = Knowable
  BY <1>2 DEF Knowable
<1> QED
  BY <1>1, <1>2, <1>4, <1>5, <1>6, UnknownIsProbe, OnlyAtKnown, NotKnowable

LEMMA WriteKnown ==
  ASSUME TypeOK, ProbeInv, KnownInv, NEW i \in DOMAIN conn, conn[i].st = "body",
         WriteBody(i), ~ctx.probing
  PROVE  KnownInv'
<1>1. /\ i \in DOMAIN part /\ 0 \in DOMAIN part /\ ctx \in CtxType
      /\ DOMAIN conn = DOMAIN part
  BY Basics DEF TypeOK, IsCtx
<1>2. OnlyAt(i)
  BY <1>1, WriteIs
<1>3. Rejects(i) \/ \E k \in Nat : Writes(i, k) /\ Takes(i, k)
  BY <1>1, WriteIs
<1>4. /\ ctx'.range = ctx.range /\ ctx'.probing = ctx.probing /\ ctx'.etag = ctx.etag
      /\ ctx'.total = ctx.total
  BY <1>1, <1>3 DEF Rejects, Writes, CtxType
<1>5. /\ site' = site /\ version' = version /\ conn'[i].probe = conn[i].probe
      /\ part'[0].end = part[0].end /\ part'[0].size = part[0].size
      /\ Ver' = Ver /\ Knowable' = Knowable
  BY <1>1, <1>2, <1>4 DEF OnlyAt, Ver, Knowable
<1>6. Knowable => AnswerAt(i)
  BY DEF KnownInv, AnswersInv
<1>7. Knowable => AnswerAt(i)'
  <2>1. CASE Rejects(i)
    BY <2>1 DEF Rejects, AnswerAt, Answered
  <2>2. ASSUME NEW k \in Nat, Takes(i, k), Knowable
        PROVE  AnswerAt(i)'
    BY <1>5, <1>6, <2>2 DEF Takes, AnswerAt, Answered
  <2> QED
    BY <1>3, <2>1, <2>2
<1>8. Knowable => TotalInv'
  BY <1>4, <1>5 DEF KnownInv, TotalInv
<1> QED
  BY <1>2, <1>5, <1>7, <1>8, UnknownIsProbe, OnlyAtKnown, NotKnowable

LEMMA FinalizeKnown ==
  ASSUME TypeOK, ProbeInv, PartsInv, KnownInv, NEW i \in DOMAIN conn, NEW f \in Files,
         FinalizeProbing(i, f) \/ FinalizeFails(i, f)
  PROVE  KnownInv'
<1>1. /\ ctx.probing /\ i = 0 /\ DOMAIN conn = {0} /\ DOMAIN part = {0}
      /\ conn[0].st = "body" /\ Finds(i, f)
  BY FinalizeIs
<1>2. Splits(i) \/ Misses(i)
  BY FinalizeIs
<1>3. /\ ctx'.probing = FALSE /\ ctx'.total = TotalFound(conn[0])
      /\ ctx'.etag = ctx.etag
      /\ site' = site /\ version' = version /\ Rows' = Rows
  BY <1>1, RowsStay DEF Finds
<1>4. Ver' = Ver /\ Knowable' = Knowable
  BY <1>3 DEF Ver, Knowable
<1>5. ctx.total \in Int /\ conn[0].seen \in Nat
      /\ part[0].end = OpenEnd /\ part[0].size = 0
  BY <1>1, Basics DEF PartsInv, ShapeInv
<1>6. CASE ~Knowable
  BY <1>4, <1>6, NotKnowable
<1>7. CASE Knowable
  <2>1. /\ Ver # 0 /\ conn[0].ver = Ver /\ conn[0].stop <= Len[Ver]
        /\ conn[0].seen > 0 => conn[0].seen = Len[Ver]
        /\ conn[0].code = 200 => conn[0].stop = Len[Ver]
        /\ conn[0].code = 206 /\ ~conn[0].probe /\ ~site.length =>
             conn[0].stop = Len[Ver]
        /\ ~site.length => conn[0].seen = 0
    BY <1>1, <1>7 DEF KnownInv, AnswersInv, AnswerAt, Answered
  <2>2. /\ ctx'.total \in Int
        /\ ctx'.total > 0 => ctx'.total = Len[Ver]
        /\ ~site.length => ctx'.total <= 0
    BY <1>1, <1>3, <1>5, <1>7, <2>1 DEF TotalFound, KnownInv, TotalInv
  <2>3. RowTotalInv'
    BY <1>3, <1>4, RowTotalStays DEF KnownInv
  <2>4. CASE Misses(i)
    <3>1. OnlyAt(0) /\ part' = part /\ conn'[0].st = "closed" /\ conn'[0].rc = "write"
      BY <1>1, <2>4 DEF Misses
    <3>2. AnswersInv'
      BY <1>1, <3>1 DEF AnswersInv, AnswerAt, Answered, OnlyAt
    <3>3. TotalInv'
      BY <1>3, <1>4, <1>5, <2>1, <2>2, <3>1 DEF TotalInv
    <3> QED
      BY <2>3, <3>2, <3>3 DEF KnownInv
  <2>5. CASE Splits(i)
    <3>1. /\ ctx'.range = (conn[0].code = 206)
          /\ DOMAIN conn' = DOMAIN part' /\ 0 \in DOMAIN part'
          /\ conn[0].code # 206 =>
               part'[0].end = IF ctx'.total > 0 THEN ctx'.total - 1 ELSE OpenEnd
          /\ conn[0].code = 206 => part'[0].end = PartEnd(ctx'.total, 0)
          /\ part'[0].end = OpenEnd => part'[0].size = 0
      BY <1>1, <2>5 DEF Splits
    <3>2. /\ conn'[0].st = "body" /\ conn'[0].code = conn[0].code
          /\ conn'[0].stop = conn[0].stop
          /\ conn'[0].ver = conn[0].ver /\ conn'[0].seen = conn[0].seen
          /\ conn'[0].probe = conn[0].probe
          /\ \A j \in DOMAIN conn' \ {0} : conn'[j] = NewConn
      BY <1>1, <2>5 DEF Splits
    <3>3. AnswerAt(0)'
      BY <1>3, <1>4, <2>1, <3>2 DEF AnswerAt, Answered
    <3>4. \A j \in DOMAIN conn' \ {0} : AnswerAt(j)'
      BY <3>2, NewConnIs DEF AnswerAt
    <3>5. ctx'.total <= 0 => part'[0].end = OpenEnd
      BY <2>2, <3>1 DEF PartEnd, OpenEnd
    <3>6. ~ctx'.range /\ part'[0].end # OpenEnd => part'[0].end = Len[Ver] - 1
      BY <2>2, <3>1
    <3>7. TotalInv'
      BY <1>3, <1>4, <2>1, <2>2, <3>1, <3>5, <3>6 DEF TotalInv
    <3> QED
      BY <2>3, <3>3, <3>4, <3>7 DEF KnownInv, AnswersInv
  <2> QED
    BY <1>2, <2>4, <2>5
<1> QED
  BY <1>6, <1>7

\* A body whose part had no size ends where the file does.
LEMMA WholeLength ==
  ASSUME TypeOK, ProbeInv, PartsInv, KnownInv, Running, Knowable,
         NEW i \in DOMAIN conn, conn[i].st = "closed",
         Verdict(part[i], conn[i]) = "whole"
  PROVE  part[i].done = Len[Ver] /\ Ver # 0
<1>1. /\ i = 0 /\ part[i].end = OpenEnd /\ conn[i].rc = "ok"
      /\ part[i].done = conn[i].stop /\ ~ctx.probing
      /\ ~(conn[i].probe /\ conn[i].code = 206)
  BY WholeIs
<1>2. ~site.length
  BY <1>1 DEF PartsInv, LengthInv
<1>3. conn[i].code \in {200, 206}
  BY <1>1 DEF PartsInv, PlaceInv, PlacedAt, Answered
<1> QED
  BY <1>1, <1>2, <1>3 DEF KnownInv, AnswersInv, AnswerAt, Answered

LEMMA WorkerKnown ==
  ASSUME TypeOK, ProbeInv, PartsInv, KnownInv, Worker, ~ReceiveFirst
  PROVE  KnownInv'
<1>1. WorkerMoves
  BY WorkerDoes
<1>2. Moves /\ WorkerKeeps /\ ctx'.etag = ctx.etag
      /\ UNCHANGED <<site, version>>
  BY <1>1 DEF WorkerMoves
<1>3. /\ DOMAIN conn' = DOMAIN conn /\ 0 \in DOMAIN conn /\ ctx.total \in Int
      /\ ctx'.probing = ctx.probing /\ ctx'.range = ctx.range
      /\ Running /\ (saved' = saved \/ saved' = Serialized)
  BY <1>2, Basics DEF Moves, WorkerKeeps
<1>4. Ver' = Ver /\ Knowable' = Knowable
  BY <1>2 DEF Ver, Knowable
<1>5. CASE ~Knowable
  BY <1>4, <1>5, NotKnowable
<1>6. CASE Knowable
  <2>1. AnswersInv'
    <3>1. ASSUME NEW i \in DOMAIN conn PROVE AnswerAt(i)'
      <4>1. conn'[i] = conn[i] \/ conn'[i].st = "idle" \/ conn'[i].st = "sent"
        BY <1>2 DEF Moves, ConnMoves, Asks
      <4> QED
        BY <1>2, <1>4, <1>6, <4>1 DEF KnownInv, AnswersInv, AnswerAt, Answered
    <3> QED
      BY <1>3, <3>1 DEF AnswersInv
  <2>2. /\ part'[0].end = part[0].end
        /\ part'[0].size = part[0].size \/ part'[0].size = Len[Ver]
    BY <1>2, <1>3, <1>6, WholeLength DEF Moves, PartMoves
  <2>3. ctx'.total = ctx.total
        \/ (ctx'.total = Len[Ver] /\ Ver # 0 /\ ~ctx.probing)
    BY <1>1, <1>3, <1>6, WholeLength, WholeIs DEF WorkerMoves
  <2>4. TotalInv'
    BY <1>2, <1>3, <1>4, <1>6, <2>2, <2>3 DEF KnownInv, TotalInv
  <2>5. RowTotalInv'
    <3>0. loaded' = loaded /\ \A r \in Rows' : r \in Rows \/ r = saved'
      BY <1>2 DEF WorkerKeeps, Rows
    <3>1. CASE saved' = saved
      BY <1>2, <1>4, <3>0, <3>1, RowsStay, RowTotalStays DEF KnownInv
    <3>2. CASE saved' = Serialized
      <4>1. /\ saved'.file = ctx.file /\ saved'.range = ctx.range
            /\ saved'.total = ctx.total /\ saved'.etag = ctx.etag
            /\ saved'.part[0].end = part[0].end
        BY <1>3, <3>2, Basics DEF Serialized
      <4>2. RowVer(saved)' = Ver
        BY <1>2, <4>1 DEF RowVer, Ver
      <4>3. \A r \in Rows : RowVer(r)' = RowVer(r)
        BY <1>2 DEF RowVer
      <4> QED
        BY <1>2, <1>4, <1>6, <3>0, <4>1, <4>2, <4>3
        DEF KnownInv, TotalInv, RowTotalInv, RowVer, ProbeInv
    <3> QED
      BY <1>3, <3>1, <3>2
  <2> QED
    BY <2>1, <2>4, <2>5 DEF KnownInv
<1> QED
  BY <1>5, <1>6

LEMMA KnownInit == Init => KnownInv
<1> SUFFICES ASSUME Init PROVE KnownInv
  OBVIOUS
<1>1. ctx = FreshCtx /\ part = FreshParts /\ conn = FreshConns
      /\ \A r \in Rows : r = NoResume
  BY DEF Init, Rows
<1>2. /\ DOMAIN part = {0} /\ DOMAIN conn = {0} /\ conn[0] = NewConn
      /\ part[0].end = OpenEnd /\ part[0].size = 0
      /\ ctx.probing = TRUE /\ ctx.total = -1
  BY <1>1 DEF FreshCtx, FreshParts, FreshConns, NewPart, OpenEnd
<1> QED
  BY <1>1, <1>2, NewConnIs, NoResumeIs DEF KnownInv, AnswersInv, AnswerAt, TotalInv, RowTotalInv

LEMMA KnownStep ==
  ASSUME NoEmptyFile, HonestRedirects, TypeInv, PartsInv, KnownInv, [Next]_vars
  PROVE  KnownInv'
<1>1. TypeOK /\ ProbeInv /\ ConnInv
  BY DEF TypeInv
<1>2. CASE UNCHANGED vars
  BY <1>2, RowsStay
  DEF vars, downloadVars, requestVars, storageVars, resumeVars, boundVars, KnownInv, AnswersInv,
      AnswerAt, TotalInv, RowTotalInv, Knowable, Ver, RowVer
<1>3. CASE Environment
  BY <1>1, <1>3, EnvironmentKnown
<1>4. CASE Worker /\ ~ReceiveFirst
  BY <1>1, <1>4, WorkerKnown
<1>5. CASE ReceiveFirst
  <2>1. WriteBody(0) /\ pc = "write" /\ 0 \in DOMAIN conn
    BY <1>1, <1>5, Basics DEF ReceiveFirst
  <2> QED
    BY <1>1, <2>1, WriteKnown DEF ConnInv
<1>6. ASSUME NEW i \in DOMAIN conn, Reply(i) PROVE KnownInv'
  BY <1>1, <1>6, ReplyKnown
<1>7. ASSUME NEW i \in DOMAIN conn, TransferFails(i) \/ Refuse(i) \/ EndOfBody(i)
      PROVE  KnownInv'
  BY <1>1, <1>7, EndKnown
<1>8. ASSUME NEW i \in DOMAIN conn, Receive(i) PROVE KnownInv'
  BY <1>1, <1>8, WriteKnown DEF Receive, BodyArrives
<1>9. ASSUME NEW i \in DOMAIN conn, NEW f \in Files,
             FinalizeProbing(i, f) \/ FinalizeFails(i, f)
      PROVE  KnownInv'
  BY <1>1, <1>9, FinalizeKnown
<1> QED
  BY <1>2, <1>3, <1>4, <1>5, <1>6, <1>7, <1>8, <1>9 DEF Next, Network

-----------------------------------------------------------------------------
(* What happens while nothing changes and nothing fails.                   *)

LEMMA PartEndBound ==
  ASSUME NEW total \in Nat \ {0}, NEW i \in PartIds(total)
  PROVE  PartEnd(total, i) < total
<1> DEFINE k == PartCount(total)
           h == Part0Size(total)
           c == Chunk(total)
<1>1. /\ k \in Nat \ {0} /\ h \in 1 .. total /\ c \in Nat
      /\ k > 1 => c >= 1 /\ h + c * (k - 2) < total
  BY CutBounds
<1>2. i \in Nat /\ i <= k - 1
  BY <1>1 DEF PartIds
<1>3. CASE i = 0
  BY <1>1, <1>3 DEF PartEnd
<1>4. CASE i = k - 1 /\ i # 0
  BY <1>1, <1>4 DEF PartEnd
<1>5. CASE i # 0 /\ i # k - 1
  <2>1. i \in Nat /\ i - 1 \in Nat /\ k - 2 \in Nat /\ i <= k - 2
    BY <1>1, <1>2, <1>5
  <2>2. c * i \in Nat /\ c * (k - 2) \in Nat /\ c * i <= c * (k - 2)
    BY <1>1, <2>1, TimesMonotonic
  <2>3. c * (i - 1) \in Nat /\ c * (i - 1) + c = c * i
    BY <1>1, <2>1, SMT
  <2>4. PartEnd(total, i) = h + c * (i - 1) + c - 1
    BY <1>5 DEF PartEnd, PartStart
  <2>5. h \in Nat /\ h + c * (k - 2) < total /\ c \in Nat
    BY <1>1, <2>1
  <2> DEFINE before == c * (i - 1)
             after == c * i
             last == c * (k - 2)
  <2>6. /\ before \in Nat /\ after \in Nat /\ last \in Nat
        /\ before + c = after /\ after <= last /\ h + last < total
        /\ PartEnd(total, i) = h + before + c - 1
    BY <2>2, <2>3, <2>4, <2>5
  <2> HIDE DEF before, after, last, h, c, k
  <2> QED
    BY <2>5, <2>6
<1> QED
  BY <1>2, <1>3, <1>4, <1>5

\* No part reaches beyond the version the task is about.
LEMMA EndWithin ==
  ASSUME TypeOK, PartsInv, KnownInv, TaskCut, Knowable, ~ctx.probing,
         NEW i \in DOMAIN part, part[i].end # OpenEnd
  PROVE  part[i].end + 1 <= Len[Ver]
<1>1. /\ 0 \in DOMAIN part /\ part[i].end \in Int /\ ctx.total \in Int
      /\ Ver \in Versions /\ Len[Ver] \in Nat
  BY Basics, VerIs DEF KnownInv, TotalInv
<1>2. CASE ~ctx.range
  BY <1>1, <1>2 DEF PartsInv, ShapeInv, KnownInv, TotalInv
<1>3. CASE ctx.range
  <2>1. part[0].end # OpenEnd
    BY <1>1 DEF PartsInv, ShapeInv
  <2>2. Cut(part, ctx.total)
    BY <1>3, <2>1 DEF TaskCut
  <2>3. /\ ctx.total \in Nat \ {0} /\ ctx.total = Len[Ver]
        /\ i \in PartIds(ctx.total) /\ part[i].end = PartEnd(ctx.total, i)
    BY <1>1, <2>2 DEF Cut, KnownInv, TotalInv
  <2> QED
    BY <1>1, <2>3, PartEndBound
<1> QED
  BY <1>2, <1>3

\* The first version of a file is answered with a range, and seen not to have
\* changed, by a server that answers ranges.
FirstInv ==
  version = 1 /\ site.range =>
    /\ ~ctx.drift
    /\ \A i \in DOMAIN conn : Answered(conn[i]) => conn[i].code = 206

LEMMA FirstAnswer ==
  ASSUME TypeOK, NoEmptyFile, PartsInv, KnownInv, version = 1, site.range,
         NEW i \in DOMAIN conn, conn[i].st = "sent", NEW code \in Codes(conn[i])
  PROVE  code # 200 /\ ~Drifted(i, code)
<1>1. conn[i].ifRange \in Nat /\ ctx.etag \in Nat /\ Len[1] # 0
  BY Basics DEF TypeOK, NoEmptyFile
<1>2. conn[i].ifRange \in {0, 1} /\ ctx.etag \in {0, 1}
  BY <1>1 DEF PartsInv, AskInv, AskedAt, VerInv, EtagOf
<1>3. code # 200
  BY <1>1, <1>2 DEF Codes, Ranged, NoValidator
<1>4. ctx.total > 0 => ctx.total = Len[1]
  <2>1. Ver \in {0, 1}
    BY <1>2 DEF Ver
  <2> QED
    BY <2>1 DEF KnownInv, TotalInv, Knowable
<1> QED
  BY <1>2, <1>3, <1>4 DEF Drifted, NoValidator

LEMMA FirstStep ==
  ASSUME NoEmptyFile, TypeInv, PartsInv, KnownInv, FirstInv, [Next]_vars
  PROVE  FirstInv'
<1> SUFFICES ASSUME version' = 1, site'.range PROVE FirstInv'
  BY DEF FirstInv
<1>1. TypeOK /\ ProbeInv /\ ConnInv
  BY DEF TypeInv
<1>2. site' = site
  BY SiteStays
<1>3. CASE Environment
  <2>1. /\ version' = version \/ version' = version + 1
        /\ \/ Restores
           \/ ctx' = FreshCtx /\ part' = FreshParts /\ conn' = FreshConns
           \/ UNCHANGED <<ctx, part, conn, pc>>
    BY <1>1, <1>3, EnvironmentIs
  <2>2. version = 1
    <3>1. version \in Nat \ {0}
      BY <1>1, Basics
    <3> QED
      BY <2>1, <3>1
  <2>3. CASE Restores
    BY <2>3, NewConnIs DEF Restores, FirstInv
  <2>4. CASE ctx' = FreshCtx /\ part' = FreshParts /\ conn' = FreshConns
    <3>1. ctx'.drift = FALSE /\ DOMAIN conn' = {0} /\ conn'[0] = NewConn
      BY <2>4, FreshIs
    <3> QED
      BY <3>1, NewConnIs DEF FirstInv
  <2>5. CASE UNCHANGED <<ctx, part, conn, pc>>
    BY <1>2, <2>2, <2>5 DEF FirstInv
  <2> QED
    BY <2>1, <2>3, <2>4, <2>5
<1>4. CASE UNCHANGED vars
  BY <1>4 DEF vars, downloadVars, FirstInv
<1>5. CASE Worker /\ ~ReceiveFirst
  <2>1. WorkerMoves
    BY <1>1, <1>5, WorkerDoes
  <2>2. /\ ctx'.drift = ctx.drift /\ version' = version /\ DOMAIN conn' = DOMAIN conn
        /\ \A i \in DOMAIN conn :
             conn'[i] = conn[i] \/ conn'[i].st = "idle" \/ conn'[i].st = "sent"
    BY <2>1 DEF WorkerMoves, Moves, ConnMoves, Asks
  <2> QED
    BY <1>2, <2>2 DEF FirstInv, Answered
<1>6. ASSUME NEW i \in DOMAIN conn, OnlyAt(i), ctx'.drift = ctx.drift,
             Answered(conn'[i]) => Answered(conn[i]) /\ conn'[i].code = conn[i].code
      PROVE  FirstInv'
  BY <1>2, <1>6 DEF FirstInv, OnlyAt
<1>7. ASSUME NEW i \in DOMAIN conn, Reply(i) PROVE FirstInv'
  <2>1. OnlyAt(i) /\ conn[i].st = "sent"
    BY <1>1, <1>7, ReplyIs
  <2>2. PICK code \in Codes(conn[i]) : \E last \in BodyEnds(conn[i], code) :
          \/ Drifted(i, code) /\ Drifts(i)
          \/ ~Drifted(i, code) /\ Accepts(i, code, last)
    BY <1>1, <1>7, ReplyIs
  <2>3. version = 1 /\ site.range
    BY <1>2, <2>1 DEF OnlyAt
  <2>4. code # 200 /\ ~Drifted(i, code)
    BY <1>1, <2>1, <2>3, FirstAnswer
  <2>5. /\ ctx'.drift = ctx.drift /\ conn'[i].code = code
        /\ code = 416 => ~Answered(conn'[i])
    BY <2>2, <2>4 DEF Accepts, Answered
  <2>6. code \in {206, 416}
    BY <2>4 DEF Codes
  <2> QED
    BY <2>1, <2>3, <2>5, <2>6 DEF FirstInv, OnlyAt
<1>8. ASSUME NEW i \in DOMAIN conn, TransferFails(i) \/ Refuse(i) \/ EndOfBody(i)
      PROVE  FirstInv'
  <2>1. OnlyAt(i) /\ Ends(i) /\ ctx' = ctx
    BY <1>1, <1>8, EndIs
  <2> QED
    BY <1>6, <2>1 DEF Ends, Answered
<1>9. ASSUME NEW i \in DOMAIN conn, conn[i].st = "body", WriteBody(i) PROVE FirstInv'
  <2>1. i \in DOMAIN part /\ ctx \in CtxType
    BY <1>1, Basics DEF TypeOK, IsCtx
  <2>2. OnlyAt(i)
    BY <1>1, <1>9, <2>1, WriteIs
  <2>3. Rejects(i) \/ \E k \in Nat : Writes(i, k) /\ Takes(i, k)
    BY <1>1, <1>9, <2>1, WriteIs
  <2>4. ctx'.drift = ctx.drift
    BY <2>1, <2>3 DEF Rejects, Writes, CtxType
  <2>5. Answered(conn'[i]) => Answered(conn[i]) /\ conn'[i].code = conn[i].code
    BY <1>9, <2>3 DEF Rejects, Takes, Answered
  <2> QED
    BY <1>6, <2>2, <2>4, <2>5
<1>10. ASSUME NEW i \in DOMAIN conn, Receive(i) PROVE FirstInv'
  BY <1>9, <1>10 DEF Receive, BodyArrives
<1>11. CASE ReceiveFirst
  BY <1>1, <1>9, <1>11, Basics DEF ReceiveFirst, ConnInv
<1>12. ASSUME NEW i \in DOMAIN conn, NEW f \in Files,
              FinalizeProbing(i, f) \/ FinalizeFails(i, f)
       PROVE  FirstInv'
  <2>1. i = 0 /\ Finds(i, f) /\ (Splits(i) \/ Misses(i)) /\ DOMAIN conn = {0}
    BY <1>1, <1>12, FinalizeIs
  <2>2. ctx'.drift = ctx.drift /\ version = 1
    BY <2>1 DEF Finds
  <2>3. CASE Misses(i)
    BY <1>6, <2>2, <2>3 DEF Misses, Answered
  <2>4. CASE Splits(i)
    <3>1. /\ conn'[0].st = conn[0].st /\ conn'[0].code = conn[0].code
          /\ conn'[0].rc = conn[0].rc
          /\ \A j \in DOMAIN conn' \ {0} : conn'[j] = NewConn
      BY <2>4 DEF Splits
    <3> QED
      BY <1>2, <2>1, <2>2, <3>1, NewConnIs DEF FirstInv, Answered
  <2> QED
    BY <2>1, <2>3, <2>4
<1> QED
  BY <1>3, <1>4, <1>5, <1>7, <1>8, <1>10, <1>11, <1>12 DEF Next, Network

\* While nothing fails, a running task has its file; it has failed only if a
\* part has, and transfers end in no other way than the program's own.
ClosedAt(i) ==
  conn[i].st = "closed" =>
    \/ conn[i].rc \in {"ok", "write"}
    \/ conn[i].rc = "http" /\ conn[i].code = 416
ThereInv ==
  faults = 0 =>
    /\ Running /\ ~ctx.probing => entry[ctx.file] = "file"
    /\ Running /\ Failed => \E i \in DOMAIN part : part[i].status = "ERROR"
    /\ \A i \in DOMAIN conn : ClosedAt(i)

LEMMA AggregatedFails ==
  ASSUME TypeOK
  PROVE  /\ Aggregated.status = "ERROR" =>
              ctx.status = "ERROR" \/ \E i \in DOMAIN part : part[i].status = "ERROR"
         /\ Aggregated.status = "ERROR" /\ Aggregated.reason = "ERROR" =>
              Failed \/ \E i \in DOMAIN part : part[i].status = "ERROR"
         /\ AllIn /\ ~Failed => Aggregated.status = "COMPLETED"
<1>1. ctx \in CtxType /\ 0 \in DOMAIN part
  BY Basics DEF TypeOK, IsCtx
<1>2. PartsIn("ERROR") # {} => \E i \in DOMAIN part : part[i].status = "ERROR"
  BY DEF PartsIn
<1>3. \/ Aggregated = ctx /\ (AllIn /\ PartsIn("DOWNLOADING") = {} => Failed)
      \/ /\ Aggregated = [ctx EXCEPT !.status = "DOWNLOADING", !.reason = "NONE"]
         /\ PartsIn("DOWNLOADING") # {}
      \/ Aggregated = [ctx EXCEPT !.status = "COMPLETED", !.reason = "NONE"]
      \/ ~AllIn /\ PartsIn("ERROR") # {}
  BY DEF Aggregated, Failed, AllIn
<1>4. AllIn => PartsIn("DOWNLOADING") = {}
  BY DEF AllIn, PartsIn
<1> HIDE DEF Aggregated
<1> QED
  BY <1>1, <1>2, <1>3, <1>4 DEF CtxType, Failed

LEMMA EmitAndStatus ==
  ASSUME NEW next \in CtxType, EmitAnd(next)
  PROVE  ctx'.status = next.status /\ ctx'.reason = next.reason
<1> DEFINE advanced == next.advanced /\ ~Emits
<1>1. ctx' = [next EXCEPT !.advanced = advanced]
  BY DEF EmitAnd
<1> HIDE DEF advanced
<1> QED
  BY <1>1 DEF CtxType

\* Without faults the worker fails only with one of its parts.
LEMMA WorkerFails ==
  ASSUME TypeOK, Worker, ~ReceiveFirst, faults' = faults, faults = 0
  PROVE  /\ ctx'.status = "ERROR" =>
              ctx.status = "ERROR" \/ \E i \in DOMAIN part : part[i].status = "ERROR"
         /\ Failed' => Failed \/ \E i \in DOMAIN part : part[i].status = "ERROR"
<1>1. ctx \in CtxType /\ faults \in Nat
  BY DEF TypeOK, IsCtx
<1>2. CASE ctx'.status = ctx.status /\ ctx'.reason = ctx.reason
  BY <1>2 DEF Failed
<1>3. CASE ctx'.status = "PAUSED"
  BY <1>3 DEF Failed
<1>4. ~Fault
  BY <1>1 DEF Fault
<1>5. CASE WStart
  <2>1. CASE EmitAnd([ctx EXCEPT !.status = "PAUSED"])
    <3> DEFINE next == [ctx EXCEPT !.status = "PAUSED"]
    <3>1. next \in CtxType /\ next.status = "PAUSED"
      BY <1>1 DEF CtxType, Statuses
    <3>2. EmitAnd(next)
      BY <2>1
    <3> HIDE DEF next
    <3> QED
      BY <1>3, <3>1, <3>2, EmitAndStatus
  <2> QED
    BY <1>2, <1>4, <1>5, <2>1 DEF WStart, downloadVars
<1>6. CASE WTop \/ WPoll
  BY <1>2, <1>6 DEF WTop, WPoll, downloadVars
<1>7. CASE WEmit
  BY <1>1, <1>2, <1>7, EmitAndStatus DEF WEmit
<1>8. CASE WFinish
  <2>1. Aggregated \in CtxType
    BY <1>1, AggregatedType DEF TypeOK
  <2>2. EmitAnd(Aggregated) \/ ctx' = Aggregated
    BY <1>8 DEF WFinish
  <2>3. ctx'.status = Aggregated.status /\ ctx'.reason = Aggregated.reason
    BY <2>1, <2>2, EmitAndStatus
  <2> QED
    BY <2>3, AggregatedFails DEF Failed
<1>9. CASE WLeave
  <2> DEFINE status == IF pauseReq /\ ~cancelReq THEN "PAUSED" ELSE ctx.status
  <2>1. ctx' = [ctx EXCEPT !.status = status]
    BY <1>9 DEF WLeave
  <2>2. status = "PAUSED" \/ status = ctx.status
    OBVIOUS
  <2> HIDE DEF status
  <2>3. ctx'.status = status /\ ctx'.reason = ctx.reason
    BY <1>1, <2>1 DEF CtxType
  <2> QED
    BY <1>2, <1>3, <2>2, <2>3
<1>10. ASSUME NEW i \in DOMAIN conn, WMsg(i)
       PROVE  ctx'.status = ctx.status /\ ctx'.reason = ctx.reason
  BY <1>1, <1>10, WMsgMoves DEF CtxType
<1> QED
  BY <1>2, <1>5, <1>6, <1>7, <1>8, <1>9, <1>10 DEF Worker

\* A failed part stays so.
LEMMA FailedStays ==
  ASSUME TypeOK, Moves, NEW i \in DOMAIN part, part[i].status = "ERROR"
  PROVE  part'[i].status = "ERROR"
<1>1. part[i] \in PartType /\ conn[i] \in ConnType /\ i \in DOMAIN conn
  BY Basics
<1> QED
  BY <1>1, VerdictIs DEF Moves, PartMoves

LEMMA ThereStep ==
  ASSUME TypeInv, ThereInv, [Next]_vars
  PROVE  ThereInv'
<1>1. TypeOK /\ ProbeInv /\ ConnInv
  BY DEF TypeInv
<1> SUFFICES ASSUME faults' = 0 PROVE ThereInv'
  BY DEF ThereInv
<1>2. faults \in Nat /\ DOMAIN conn = DOMAIN part /\ 0 \in DOMAIN part
  BY <1>1, Basics
<1>3. CASE Environment
  <2>1. /\ (faults' = 0 => faults = 0)
        /\ \/ Restores
           \/ /\ ctx' = FreshCtx /\ part' = FreshParts /\ conn' = FreshConns
           \/ UNCHANGED <<ctx, part, conn, pc>>
        /\ \/ UNCHANGED <<entry, disk>>
           \/ \E f \in Files : UserRemove(f)
    BY <1>1, <1>3, EnvironmentIs
  <2>2. entry' = entry /\ faults = 0
    BY <1>2, <2>1 DEF UserRemove, Fault
  <2>3. CASE Restores
    BY <2>2, <2>3, NewConnIs DEF Restores, ThereInv, Usable, Failed, ClosedAt
  <2>4. CASE ctx' = FreshCtx /\ part' = FreshParts /\ conn' = FreshConns
    <3>1. ctx'.probing = TRUE /\ ctx'.status = "DOWNLOADING" /\ DOMAIN conn' = {0}
          /\ conn'[0] = NewConn
      BY <2>4, FreshIs
    <3> QED
      BY <3>1, NewConnIs DEF ThereInv, Failed, ClosedAt
  <2>5. CASE UNCHANGED <<ctx, part, conn, pc>>
    BY <2>2, <2>5 DEF ThereInv, Failed, ClosedAt, Running
  <2> QED
    BY <2>1, <2>3, <2>4, <2>5
<1>4. CASE UNCHANGED vars
  BY <1>4
  DEF vars, downloadVars, storageVars, boundVars, ThereInv, ClosedAt, Running, Failed
<1>5. CASE Worker /\ ~ReceiveFirst
  <2>1. WorkerMoves
    BY <1>1, <1>5, WorkerDoes
  <2>2. Moves /\ WorkerKeeps
    BY <2>1 DEF WorkerMoves
  <2>3. /\ DOMAIN part' = DOMAIN part /\ DOMAIN conn' = DOMAIN conn
        /\ faults = 0 /\ faults' = faults /\ Running
        /\ ctx'.probing = ctx.probing /\ ctx'.file = ctx.file /\ entry' = entry
        /\ \A i \in DOMAIN conn :
             conn'[i] = conn[i] \/ conn'[i].st = "idle" \/ conn'[i].st = "sent"
    BY <1>2, <2>2 DEF Moves, WorkerKeeps, ConnMoves, Asks
  <2>4. Failed' => \E i \in DOMAIN part : part[i].status = "ERROR"
    BY <1>1, <1>5, <2>3, WorkerFails DEF ThereInv
  <2>5. Failed' => \E i \in DOMAIN part' : part'[i].status = "ERROR"
    BY <1>1, <2>2, <2>3, <2>4, FailedStays
  <2> QED
    BY <2>3, <2>5 DEF ThereInv, ClosedAt
<1>6. ASSUME NEW i \in DOMAIN conn, OnlyAt(i), Running' => Running, ClosedAt(i)',
             ctx'.probing = ctx.probing, ctx'.file = ctx.file, entry' = entry,
             \/ Failed' => Failed
             \/ part'[i].status = "ERROR",
             part[i].status = "ERROR" => part'[i].status = "ERROR"
      PROVE  ThereInv'
  <2>1. /\ faults = 0 /\ DOMAIN part' = DOMAIN part /\ DOMAIN conn' = DOMAIN conn
        /\ \A j \in DOMAIN conn \ {i} : conn'[j] = conn[j] /\ part'[j] = part[j]
    BY <1>2, <1>6 DEF OnlyAt
  <2>2. \A j \in DOMAIN conn : ClosedAt(j)'
    BY <1>6, <2>1 DEF ThereInv, ClosedAt
  <2>3. Running' /\ Failed' => \E j \in DOMAIN part' : part'[j].status = "ERROR"
    BY <1>2, <1>6, <2>1 DEF ThereInv
  <2> QED
    BY <1>6, <2>1, <2>2, <2>3 DEF ThereInv
<1>7. ASSUME NEW i \in DOMAIN conn, Reply(i) PROVE ThereInv'
  <2>1. /\ OnlyAt(i) /\ UNCHANGED <<pc, entry, disk>>
        /\ ctx'.file = ctx.file /\ ctx'.probing = ctx.probing
    BY <1>1, <1>7, ReplyIs
  <2>2. PICK code \in Codes(conn[i]) : \E last \in BodyEnds(conn[i], code) :
          \/ Drifted(i, code) /\ Drifts(i)
          \/ ~Drifted(i, code) /\ Accepts(i, code, last)
    BY <1>1, <1>7, ReplyIs
  <2>3. CASE Drifts(i)
    <3>1. ClosedAt(i)' /\ part'[i].status = "ERROR"
      BY <2>3 DEF Drifts, ClosedAt
    <3> QED
      BY <1>6, <2>1, <3>1 DEF Running
  <2>4. ASSUME NEW last, Accepts(i, code, last)
        PROVE  ThereInv'
    <3>1. ClosedAt(i)' /\ part'[i] = part[i]
          /\ ctx'.status = ctx.status /\ ctx'.reason = ctx.reason
      BY <2>4 DEF Accepts, ClosedAt
    <3> QED
      BY <1>6, <2>1, <3>1 DEF Running, Failed
  <2> QED
    BY <2>2, <2>3, <2>4
<1>8. ASSUME NEW i \in DOMAIN conn, TransferFails(i) \/ Refuse(i) \/ EndOfBody(i)
      PROVE  ThereInv'
  <2>1. OnlyAt(i) /\ Ends(i) /\ UNCHANGED <<pc, ctx, part, entry, disk>>
    BY <1>1, <1>8, EndIs
  <2>2. ClosedAt(i)'
    BY <1>2, <2>1 DEF Ends, ClosedAt, OnlyAt
  <2> QED
    BY <1>6, <2>1, <2>2 DEF Running, Failed
<1>9. ASSUME NEW i \in DOMAIN conn, conn[i].st = "body", WriteBody(i), Running
      PROVE  ThereInv'
  <2>1. i \in DOMAIN part /\ ctx \in CtxType
    BY <1>1, <1>2 DEF TypeOK, IsCtx
  <2>2. OnlyAt(i) /\ entry' = entry
    BY <1>1, <1>9, <2>1, WriteIs
  <2>3. Rejects(i) \/ \E k \in Nat : Writes(i, k) /\ Takes(i, k)
    BY <1>1, <1>9, <2>1, WriteIs
  <2>4. /\ ctx'.probing = ctx.probing /\ ctx'.file = ctx.file
        /\ ctx'.status = ctx.status /\ ctx'.reason = ctx.reason
    BY <2>1, <2>3 DEF Rejects, Writes, CtxType
  <2>5. ClosedAt(i)' /\ (part[i].status = "ERROR" => part'[i].status = "ERROR")
    BY <1>9, <2>3 DEF Rejects, Takes, ClosedAt
  <2> QED
    BY <1>6, <1>9, <2>2, <2>4, <2>5 DEF Failed
<1>10. ASSUME NEW i \in DOMAIN conn, Receive(i) PROVE ThereInv'
  BY <1>9, <1>10 DEF Receive, BodyArrives, Running
<1>11. CASE ReceiveFirst
  BY <1>1, <1>2, <1>9, <1>11 DEF ReceiveFirst, ConnInv, Running
<1>12. ASSUME NEW i \in DOMAIN conn, NEW f \in Files,
              FinalizeProbing(i, f) \/ FinalizeFails(i, f)
       PROVE  ThereInv'
  <2>1. /\ i = 0 /\ Finds(i, f) /\ conn[0].st = "body" /\ ctx.status # "ERROR"
        /\ \/ Splits(i) /\ entry'[f] = "file"
           \/ Misses(i)
    BY <1>1, <1>12, FinalizeIs
  <2>2. Splits(i) /\ entry'[f] = "file"
    BY <1>2, <2>1 DEF Misses
  <2>3. /\ ctx'.status # "ERROR" /\ ctx'.file = f /\ conn'[0].st = "body"
        /\ \A j \in DOMAIN conn' \ {0} : conn'[j] = NewConn
    BY <2>1, <2>2 DEF Splits, Finds
  <2> QED
    BY <2>2, <2>3, NewConnIs DEF ThereInv, ClosedAt, Failed
<1> QED
  BY <1>3, <1>4, <1>5, <1>7, <1>8, <1>10, <1>11, <1>12 DEF Next, Network

\* When the worker starts, or has done its last emit, and all parts are in, the
\* row says so, unless another one had overtaken it.
LateInv ==
  faults = 0 /\ ~overtaken /\ site.length /\ pc \in {"start", "leave", "done"} /\ AllIn =>
    saved.file = ctx.file /\ RowComplete

LEMMA AllInRow ==
  ASSUME TypeOK, ProbeInv, PartsInv, site.length, Running, AllIn, faults = 0,
         saved' = Serialized
  PROVE  saved'.file = ctx.file /\ RowComplete'
<1>1. DOMAIN conn = DOMAIN part /\ 0 \in DOMAIN part
  BY Basics
<1>2. /\ saved'.file = ctx.file /\ DOMAIN saved'.part = DOMAIN part
      /\ \A i \in DOMAIN part :
           /\ saved'.part[i].start = part[i].start
           /\ saved'.part[i].end = part[i].end
           /\ saved'.part[i].done = part[i].done
  BY DEF Serialized
<1>3. \A i \in DOMAIN part : /\ part[i].status = "COMPLETED"
                             /\ part[i].size > 0 /\ part[i].done >= part[i].size
  BY <1>1 DEF AllIn, PartsIn, PartsInv, DoneInv, DoneAt
<1>4. ~ctx.probing
  BY <1>1, <1>3 DEF PartsInv, ShapeInv
<1>5. part[0].end # OpenEnd
  BY <1>4 DEF PartsInv, LengthInv
<1>6. \A i \in DOMAIN part : part[i].end >= part[i].start
                             /\ part[i].size = part[i].end + 1 - part[i].start
  BY <1>1, <1>5 DEF PartsInv, ShapeInv, ShapedAt
<1>7. \A i \in DOMAIN saved'.part : saved'.part[i] \in RowPartType
  BY SerializedType DEF IsRow
<1>8. \A i \in DOMAIN part : Restored(saved'.part[i]).status = "COMPLETED"
  BY <1>2, <1>3, <1>6, <1>7, RestoredIs
<1> QED
  BY <1>2, <1>8 DEF RowComplete

LEMMA LateStep ==
  ASSUME TypeInv, PartsInv, ThereInv, LateInv, [Next]_vars
  PROVE  LateInv'
<1>1. TypeOK /\ ProbeInv /\ ConnInv
  BY DEF TypeInv
<1> SUFFICES ASSUME faults' = 0, ~overtaken', site'.length,
                    pc' \in {"start", "leave", "done"}, AllIn'
             PROVE  saved'.file = ctx'.file /\ RowComplete'
  BY DEF LateInv
<1>2. faults \in Nat /\ DOMAIN conn = DOMAIN part /\ 0 \in DOMAIN part
      /\ site' = site
  BY <1>1, Basics, SiteStays
<1>3. CASE Environment
  <2>1. /\ (faults' = 0 => faults = 0) /\ saved' = saved
        /\ \/ Restores
           \/ ctx' = FreshCtx /\ part' = FreshParts /\ conn' = FreshConns
           \/ UNCHANGED <<ctx, part, conn, pc, overtaken>>
    BY <1>1, <1>3, EnvironmentIs
  <2>2. faults = 0
    BY <1>2, <2>1
  <2>3. CASE Restores
    <3>1. /\ loaded = saved
          /\ DOMAIN part' = DOMAIN saved.part /\ ctx'.file = saved.file
          /\ \A i \in DOMAIN saved.part : part'[i] = Restored(saved.part[i])
      BY <2>3 DEF Restores
    <3>2. \A i \in DOMAIN part' : part'[i].status = "COMPLETED"
      BY DEF AllIn, PartsIn
    <3> QED
      BY <2>1, <3>1, <3>2 DEF RowComplete
  <2>4. CASE ctx' = FreshCtx /\ part' = FreshParts /\ conn' = FreshConns
    <3>1. DOMAIN part' = {0} /\ part'[0].status = "DOWNLOADING"
      BY <2>4, FreshIs
    <3> QED
      BY <3>1 DEF AllIn, PartsIn
  <2>5. CASE UNCHANGED <<ctx, part, conn, pc, overtaken>>
    BY <1>2, <2>1, <2>2, <2>5 DEF LateInv, AllIn, PartsIn, RowComplete
  <2> QED
    BY <2>1, <2>3, <2>4, <2>5
<1>4. CASE UNCHANGED vars
  BY <1>4
  DEF vars, downloadVars, storageVars, resumeVars, boundVars, LateInv, AllIn, PartsIn,
      RowComplete
<1>5. CASE Network \/ ReceiveFirst
  <2>1. CASE ReceiveFirst
    <3>1. pc' = "perform"
      BY <2>1 DEF ReceiveFirst, WriteBody
    <3> QED
      BY <3>1
  <2>2. CASE Network
    <3>1. PICK i \in DOMAIN conn :
            \/ Reply(i) \/ TransferFails(i) \/ Refuse(i) \/ Receive(i) \/ EndOfBody(i)
            \/ \E f \in Files : FinalizeProbing(i, f) \/ FinalizeFails(i, f)
      BY <2>2 DEF Network
    <3>2. CASE Reply(i) \/ TransferFails(i)
      BY <3>2 DEF Reply, TransferFails
    <3>3. CASE Refuse(i) \/ EndOfBody(i)
      BY <3>3 DEF Refuse, EndOfBody
    <3>4. CASE Receive(i)
      BY <3>4 DEF Receive, WriteBody
    <3>5. CASE \E f \in Files : FinalizeProbing(i, f)
      BY <3>5 DEF FinalizeProbing
    <3>6. CASE \E f \in Files : FinalizeFails(i, f)
      BY <3>6 DEF FinalizeFails, BodyArrives
    <3> QED
      BY <3>1, <3>2, <3>3, <3>4, <3>5, <3>6
  <2> QED
    BY <1>5, <2>1, <2>2
<1>6. CASE Worker /\ ~ReceiveFirst
  <2>1. WorkerMoves
    BY <1>1, <1>6, WorkerDoes
  <2>2. /\ (faults' = 0 => faults = 0) /\ ctx'.file = ctx.file /\ Running
        /\ overtaken' = overtaken
    BY <2>1 DEF WorkerMoves, Moves, WorkerKeeps
  <2>3. faults = 0 /\ faults' = faults
    BY <1>2, <2>2
  <2>4. \/ WStart /\ pc' = "done" /\ UNCHANGED part
        \/ WLeave
        \/ WFinish
    BY <1>6
    DEF Worker, WStart, WTop, WPoll, WEmit, WMsg, downloadVars
  <2>5. part' = part /\ AllIn
    BY <2>4 DEF WLeave, WFinish, AllIn, PartsIn
  <2>6. saved' = saved \/ saved' = Serialized
    BY <2>1 DEF WorkerMoves, WorkerKeeps
  <2>7. CASE saved' = Serialized
    BY <1>1, <1>2, <2>2, <2>3, <2>5, <2>7, AllInRow
  <2>8. CASE saved' = saved /\ pc \in {"start", "leave"}
    BY <1>2, <2>2, <2>3, <2>5, <2>8 DEF LateInv, RowComplete
  <2>9. CASE WFinish
    <3>1. ~Failed
      BY <2>2, <2>3, <2>5 DEF ThereInv, AllIn, PartsIn
    <3>2. Aggregated.status = "COMPLETED"
      BY <1>1, <2>5, <3>1, AggregatedFails
    <3>3. saved' = Serialized
      BY <1>2, <2>3, <2>9, <3>2 DEF WFinish, Emit, Fault
    <3> QED
      BY <2>7, <3>3
  <2> QED
    BY <2>4, <2>6, <2>7, <2>8, <2>9 DEF WStart, WLeave
<1> QED
  BY <1>3, <1>4, <1>5, <1>6 DEF Next

\* While nothing changes either, nothing is tried twice, and answers are as long
\* as was asked for.
StraightAt(i) ==
  /\ conn[i].retry = 0
  /\ Answered(conn[i]) /\ conn[i].code = 206 /\ ~conn[i].probe =>
       conn[i].stop = IF part[i].end = OpenEnd THEN Len[1] ELSE part[i].end + 1

\* If the server tells the length, no part fails: a transfer ends with its body,
\* when its part is full or when somebody wants it to.  If it answers no ranges,
\* only an empty part is asked for.
CleanAt(i) ==
  /\ part[i].status # "ERROR"
  /\ conn[i].st = "closed" =>
       \/ conn[i].rc = "ok"
       \/ conn[i].rc = "write" /\ Stopping
       \/ conn[i].rc = "write" /\ part[i].size > 0 /\ part[i].done >= part[i].size
  /\ /\ ~site.range
     /\ \/ conn[i].st = "sent"
        \/ conn[i].st = "new" /\ part[i].status # "COMPLETED"
     => part[i].done = 0

StraightInv ==
  faults = 0 /\ version = 1 =>
    /\ \A i \in DOMAIN conn : StraightAt(i)
    /\ site.length => ctx.status # "ERROR" /\ \A i \in DOMAIN conn : CleanAt(i)

FreeInv == ThereInv /\ LateInv /\ StraightInv

\* An answer that has ended gave its part all it lacked, the probe's aside.
LEMMA AnswerIsAll ==
  ASSUME TypeOK, ProbeInv, PartsInv, KnownInv, FirstInv, StraightInv,
         version = 1, faults = 0, NEW i \in DOMAIN conn,
         conn[i].st = "closed", conn[i].rc = "ok"
  PROVE  Verdict(part[i], conn[i]) \notin {"retry", "giveup"}
<1> SUFFICES ASSUME Verdict(part[i], conn[i]) \in {"retry", "giveup"} PROVE FALSE
  OBVIOUS
<1> DEFINE p == part[i]
           c == conn[i]
<1>1. /\ DOMAIN conn = DOMAIN part /\ p \in PartType /\ c \in ConnType
      /\ p.start \in Nat /\ p.end \in Int /\ p.done \in Nat /\ p.size \in Nat
      /\ c.pos \in Nat /\ c.stop \in Int /\ 0 \in DOMAIN part
  BY Basics
<1>2. Answered(c) /\ c.code \in {200, 206}
  BY DEF PartsInv, PlaceInv, PlacedAt, Answered
<1>3. /\ p.size > 0 /\ p.done < p.size
      /\ ~(c.probe /\ c.code = 206 /\ p.done > 0)
  BY <1>1, <1>2, VerdictIs
<1>4. p.start + p.done = c.stop /\ c.stop > 0
  BY <1>2 DEF PartsInv, PlaceInv, PlacedAt
<1>5. p.end # OpenEnd /\ p.size = p.end + 1 - p.start
  BY <1>1, <1>3 DEF PartsInv, ShapeInv, ShapedAt
<1>6. CASE c.code = 206 /\ c.probe
  <2>1. i = 0 /\ p.start = 0
    BY <1>6 DEF PartsInv, AskInv, AskedAt, PlaceInv
  <2> QED
    BY <1>1, <1>3, <1>4, <1>6, <2>1
<1>7. CASE c.code = 206 /\ ~c.probe
  <2>1. c.stop = p.end + 1
    BY <1>2, <1>5, <1>7 DEF StraightInv, StraightAt
  <2> QED
    BY <1>1, <1>3, <1>4, <1>5, <2>1
<1>8. CASE c.code = 200
  <2>1. ~site.range
    BY <1>2, <1>8 DEF FirstInv
  <2>2. i = 0 /\ p.start = 0 /\ ~ctx.range
    BY <1>1, <2>1 DEF PartsInv, ShapeInv, PlaceInv
  <2>3. Ver = 1
    <3>1. Ver # 0
      BY <1>2 DEF KnownInv, AnswersInv, AnswerAt, Knowable
    <3>2. ctx.etag \in Nat /\ ctx.etag <= 1
      BY Basics DEF PartsInv, VerInv, EtagOf
    <3> QED
      BY <3>1, <3>2 DEF Ver
  <2>4. c.stop = Len[1] /\ p.end = Len[1] - 1
    BY <1>2, <1>5, <1>8, <2>2, <2>3
    DEF KnownInv, AnswersInv, AnswerAt, TotalInv, Knowable
  <2>5. Len[1] \in Nat
    BY DownloadAssumption
  <2> QED
    BY <1>1, <1>3, <1>4, <1>5, <2>2, <2>4, <2>5
<1> QED
  BY <1>2, <1>6, <1>7, <1>8

LEMMA NoRetry ==
  ASSUME TypeOK, ProbeInv, PartsInv, KnownInv, FirstInv, ThereInv, StraightInv,
         version = 1, faults = 0, NEW i \in DOMAIN conn, conn[i].st = "closed"
  PROVE  /\ Verdict(part[i], conn[i]) # "retry"
         /\ site.length /\ ~Stopping => Verdict(part[i], conn[i]) # "giveup"
<1>1. DOMAIN conn = DOMAIN part /\ part[i] \in PartType /\ conn[i] \in ConnType
      /\ part[i].done \in Nat /\ part[i].size \in Nat
  BY Basics
<1>2. conn[i].rc = "ok" => conn[i].code \in {200, 206}
  BY DEF PartsInv, PlaceInv, PlacedAt, Answered
<1>3. ClosedAt(i) /\ (site.length => CleanAt(i))
  BY DEF ThereInv, StraightInv
<1>4. Verdict(part[i], conn[i]) = "retry" => conn[i].rc = "ok"
  BY <1>1, <1>2, <1>3, VerdictIs DEF ClosedAt
<1>5. site.length /\ ~Stopping /\ Verdict(part[i], conn[i]) = "giveup" =>
        conn[i].rc = "ok"
  BY <1>1, <1>3, VerdictIs DEF CleanAt
<1> QED
  BY <1>4, <1>5, AnswerIsAll

LEMMA EnvironmentStraight ==
  ASSUME TypeOK, PartsInv, StraightInv, Environment
  PROVE  StraightInv'
<1> SUFFICES ASSUME faults' = 0, version' = 1 PROVE StraightInv'
  BY DEF StraightInv
<1>1. /\ site' = site /\ (faults' = 0 => faults = 0)
      /\ version' = version \/ version' = version + 1
      /\ \/ Restores
         \/ ctx' = FreshCtx /\ part' = FreshParts /\ conn' = FreshConns
         \/ /\ UNCHANGED <<ctx, part, conn, pc>>
            /\ pauseReq => pauseReq'
            /\ cancelReq => cancelReq'
  BY EnvironmentIs
<1>2. faults = 0 /\ version = 1
  <2>1. faults \in Nat /\ version \in Nat \ {0}
    BY Basics
  <2> QED
    BY <1>1, <2>1
<1>3. CASE Restores
  <2>1. /\ DOMAIN conn' = DOMAIN loaded.part /\ ctx'.status = "DOWNLOADING"
        /\ \A i \in DOMAIN loaded.part :
             part'[i] = Restored(loaded.part[i]) /\ conn'[i] = NewConn
        /\ loaded.file # NoFile /\ loaded \in Rows
    BY <1>3 DEF Restores, Usable, Rows
  <2>2. ASSUME NEW i \in DOMAIN loaded.part, site.length PROVE CleanAt(i)'
    <3>1. loaded.part[i] \in RowPartType
      BY DEF TypeOK, IsRow
    <3>2. part'[i].status \in {"COMPLETED", "DOWNLOADING"}
      BY <2>1, <3>1, RestoredIs
    <3>3. ~site.range => part'[i].status = "COMPLETED"
      BY <2>1, <2>2 DEF PartsInv, RowInv, AllFull
    <3> QED
      BY <1>1, <2>1, <3>2, <3>3, NewConnIs DEF CleanAt
  <2>3. \A i \in DOMAIN loaded.part : StraightAt(i)'
    BY <2>1, NewConnIs DEF StraightAt
  <2> QED
    BY <1>1, <2>1, <2>2, <2>3 DEF StraightInv
<1>4. CASE ctx' = FreshCtx /\ part' = FreshParts /\ conn' = FreshConns
  <2>1. /\ DOMAIN conn' = {0} /\ conn'[0] = NewConn /\ ctx'.status = "DOWNLOADING"
        /\ part'[0].status = "DOWNLOADING" /\ part'[0].done = 0
    BY <1>4, FreshIs
  <2> QED
    BY <2>1, NewConnIs DEF StraightInv, StraightAt, CleanAt
<1>5. CASE /\ UNCHANGED <<ctx, part, conn, pc>>
           /\ pauseReq => pauseReq'
           /\ cancelReq => cancelReq'
  BY <1>1, <1>2, <1>5 DEF StraightInv, StraightAt, CleanAt, Stopping
<1> QED
  BY <1>1, <1>3, <1>4, <1>5

\* What a step that concerns one connection has to show.
LEMMA OnlyAtStraight ==
  ASSUME TypeOK, StraightInv, NEW i \in DOMAIN conn, OnlyAt(i), faults' = 0,
         version = 1 /\ faults = 0 => StraightAt(i)',
         version = 1 /\ faults = 0 /\ site.length => ctx'.status # "ERROR" /\ CleanAt(i)'
  PROVE  StraightInv'
<1>1. /\ (faults' = 0 => faults = 0) /\ version' = version /\ site' = site
      /\ Stopping' = Stopping /\ DOMAIN conn' = DOMAIN conn
      /\ \A j \in DOMAIN conn \ {i} : conn'[j] = conn[j] /\ part'[j] = part[j]
  BY DEF OnlyAt, Stopping
<1>2. faults = 0
  BY <1>1, Basics
<1>3. ASSUME NEW j \in DOMAIN conn \ {i}, version = 1
      PROVE  StraightAt(j)' /\ (site.length => CleanAt(j)')
  <2>1. StraightAt(j) /\ (site.length => CleanAt(j))
    BY <1>2, <1>3 DEF StraightInv
  <2> QED
    BY <1>1, <2>1 DEF StraightAt, CleanAt
<1> QED
  BY <1>1, <1>2, <1>3 DEF StraightInv

LEMMA EndStraight ==
  ASSUME TypeOK, StraightInv, NEW i \in DOMAIN conn, faults' = 0,
         TransferFails(i) \/ Refuse(i) \/ EndOfBody(i)
  PROVE  StraightInv'
<1>1. OnlyAt(i) /\ Ends(i) /\ UNCHANGED <<pc, ctx, part, entry, disk>>
  BY EndIs
<1>2. site' = site /\ Stopping' = Stopping /\ conn'[i].probe = conn[i].probe
      /\ conn'[i].retry = conn[i].retry /\ faults \in Nat
  BY <1>1, Basics DEF OnlyAt, Stopping
<1>3. ASSUME version = 1, faults = 0 PROVE StraightAt(i)'
  <2>1. StraightAt(i)
    BY <1>3 DEF StraightInv
  <2> QED
    BY <1>1, <1>2, <2>1 DEF StraightAt, Ends, Answered
<1>4. ASSUME version = 1, faults = 0, site.length
      PROVE  ctx'.status # "ERROR" /\ CleanAt(i)'
  <2>1. ctx.status # "ERROR" /\ CleanAt(i)
    BY <1>4 DEF StraightInv
  <2> QED
    BY <1>1, <1>2, <1>4, <2>1 DEF CleanAt, Ends
<1> QED
  BY <1>1, <1>3, <1>4, OnlyAtStraight

LEMMA WriteStraight ==
  ASSUME TypeOK, ThereInv, StraightInv, NEW i \in DOMAIN conn, faults' = 0,
         conn[i].st = "body", WriteBody(i), ~ctx.probing, Running
  PROVE  StraightInv'
<1>1. i \in DOMAIN part /\ ctx \in CtxType /\ faults \in Nat
  BY Basics DEF TypeOK, IsCtx
<1>2. OnlyAt(i)
  BY <1>1, WriteIs
<1>3. Rejects(i) \/ \E k \in Nat : Writes(i, k) /\ Takes(i, k)
  BY <1>1, WriteIs
<1>4. /\ site' = site /\ Stopping' = Stopping /\ conn'[i].probe = conn[i].probe
      /\ conn'[i].retry = conn[i].retry /\ part'[i].end = part[i].end
      /\ part'[i].size = part[i].size
  BY <1>2 DEF OnlyAt, Stopping
<1>5. ctx'.status = ctx.status
  BY <1>1, <1>3 DEF Rejects, Writes, CtxType
<1>6. ASSUME version = 1, faults = 0 PROVE StraightAt(i)'
  <2>1. StraightAt(i)
    BY <1>6 DEF StraightInv
  <2>2. Answered(conn'[i]) => /\ Answered(conn[i]) /\ conn'[i].code = conn[i].code
                              /\ conn'[i].stop = conn[i].stop
    BY <1>3 DEF Rejects, Takes, Answered
  <2> QED
    BY <1>4, <2>1, <2>2 DEF StraightAt
<1>7. ASSUME version = 1, faults = 0, site.length
      PROVE  ctx'.status # "ERROR" /\ CleanAt(i)'
  <2>1. ctx.status # "ERROR" /\ CleanAt(i) /\ entry[ctx.file] = "file"
    BY <1>7 DEF StraightInv, ThereInv
  <2>2. CASE Rejects(i)
    <3>1. /\ conn'[i].st = "closed" /\ conn'[i].rc = "write"
          /\ part[i].size > 0 /\ part[i].done >= part[i].size
          /\ part'[i].status = part[i].status /\ part'[i].done = part[i].done
      BY <1>7, <2>1, <2>2 DEF Rejects
    <3> QED
      BY <1>4, <1>5, <2>1, <3>1 DEF CleanAt
  <2>3. ASSUME NEW k \in Nat, Takes(i, k)
        PROVE  CleanAt(i)'
    <3>1. /\ part'[i].status = part[i].status
          /\ \/ conn'[i].st = "body"
             \/ /\ conn'[i].st = "closed" /\ conn'[i].rc = "write"
                /\ part[i].size > 0 /\ part'[i].done = part[i].size
      BY <2>3 DEF Takes
    <3>2. part[i].size \in Nat
      BY <1>1, Basics
    <3> QED
      BY <1>4, <2>1, <3>1, <3>2 DEF CleanAt
  <2> QED
    BY <1>3, <1>5, <2>1, <2>2, <2>3
<1> QED
  BY <1>2, <1>6, <1>7, OnlyAtStraight

LEMMA FirstVer ==
  ASSUME TypeOK, PartsInv, KnownInv, version = 1, ~ctx.probing
  PROVE  Ver = 1 /\ Knowable
<1>1. ctx.etag \in Nat /\ ctx.etag <= 1
  BY Basics DEF PartsInv, VerInv, EtagOf
<1>2. Knowable /\ Ver # 0
  BY DEF KnownInv, TotalInv, Knowable
<1> QED
  BY <1>1, <1>2 DEF Ver

\* The first version of a file has what a request asks for.
LEMMA AskedIsThere ==
  ASSUME TypeOK, ProbeInv, NoEmptyFile, PartsInv, KnownInv, TaskCut, Running,
         version = 1, site.length, NEW i \in DOMAIN conn, conn[i].st = "sent"
  PROVE  conn[i].pos < Len[1]
<1>1. /\ DOMAIN conn = DOMAIN part /\ Len[1] \in Nat \ {0}
      /\ part[i].start \in Nat /\ part[i].end \in Int /\ part[i].done \in Nat
  <2>1. Len[1] \in Nat
    BY DownloadAssumption
  <2>2. Len[1] > 0
    BY DownloadAssumption DEF NoEmptyFile
  <2> QED
    BY <2>1, <2>2, Basics
<1>2. conn[i].pos = part[i].start + part[i].done
  BY DEF PartsInv, PlaceInv, PlacedAt
<1>3. CASE ctx.probing
  <2>1. part[i].start = 0 /\ part[i].done = 0
    BY <1>1, <1>3 DEF ProbeInv, PartsInv, PlaceInv
  <2> QED
    BY <1>1, <1>2, <2>1
<1>4. CASE ~ctx.probing
  <2>1. part[i].end # OpenEnd
    BY <1>1, <1>4 DEF PartsInv, ShapeInv, ShapedAt, LengthInv
  <2>2. part[i].end + 1 <= Len[1]
    BY <1>1, <1>4, <2>1, FirstVer, EndWithin
  <2>3. part[i].start + part[i].done < part[i].end + 1
    BY <1>1, <2>1 DEF PartsInv, DoneInv, DoneAt, ShapeInv, ShapedAt
  <2> QED
    BY <1>1, <1>2, <2>2, <2>3
<1> QED
  BY <1>3, <1>4

LEMMA ReplyStraight ==
  ASSUME TypeOK, ProbeInv, NoEmptyFile, PartsInv, KnownInv, TaskCut, StraightInv,
         NEW i \in DOMAIN conn, Reply(i), faults' = 0
  PROVE  StraightInv'
<1>1. /\ OnlyAt(i) /\ conn[i].st = "sent" /\ ctx.status # "ERROR"
      /\ ctx'.probing = ctx.probing
  BY ReplyIs
<1>2. PICK code \in Codes(conn[i]) : \E last \in BodyEnds(conn[i], code) :
        /\ last # FullStop(conn[i], code) => faults' # 0
        /\ \/ Drifted(i, code) /\ Drifts(i)
           \/ ~Drifted(i, code) /\ Accepts(i, code, last)
  BY ReplyIs
<1>3. PICK last \in BodyEnds(conn[i], code) :
        /\ last # FullStop(conn[i], code) => faults' # 0
        /\ \/ Drifted(i, code) /\ Drifts(i)
           \/ ~Drifted(i, code) /\ Accepts(i, code, last)
  BY <1>2
<1>4. /\ site' = site /\ version' = version /\ faults \in Nat /\ Running
      /\ conn'[i].probe = conn[i].probe /\ conn'[i].retry = conn[i].retry
      /\ part'[i].end = part[i].end /\ DOMAIN conn = DOMAIN part /\ 0 \in DOMAIN part
  BY <1>1, Basics DEF OnlyAt, Reply, Running
<1>5. ASSUME version = 1, faults = 0 PROVE StraightAt(i)'
  <2>1. conn'[i].retry = 0
    BY <1>4, <1>5 DEF StraightInv, StraightAt
  <2>2. ASSUME Answered(conn'[i]), conn'[i].code = 206, ~conn'[i].probe
        PROVE  conn'[i].stop = IF part[i].end = OpenEnd THEN Len[1] ELSE part[i].end + 1
    <3>1. ~Drifted(i, code) /\ Accepts(i, code, last)
      BY <1>3, <2>2 DEF Drifts, Answered
    <3>2. code = 206 /\ conn'[i].stop = last /\ last = FullStop(conn[i], code)
      BY <1>3, <1>5, <2>2, <3>1 DEF Accepts
    <3>3. last = IF conn[i].stop # OpenEnd /\ conn[i].stop < Len[1]
                 THEN conn[i].stop ELSE Len[1]
      BY <1>5, <3>2, BodyEndIs
    <3>4. /\ conn[i].stop = IF part[i].end = OpenEnd THEN OpenEnd ELSE part[i].end + 1
          /\ ~ctx.probing
      BY <1>1, <1>4, <2>2 DEF PartsInv, AskInv, AskedAt
    <3>5. part[i].end # OpenEnd => part[i].end + 1 <= Len[1]
      BY <1>4, <1>5, <3>4, FirstVer, EndWithin
    <3>6. /\ part[i].end \in Int /\ Len[1] \in Nat
          /\ part[i].end # OpenEnd => part[i].end >= 0
      BY <1>4, Basics, DownloadAssumption DEF PartsInv, ShapeInv, ShapedAt
    <3> QED
      BY <3>2, <3>3, <3>4, <3>5, <3>6 DEF OpenEnd
  <2> QED
    BY <1>4, <1>5, <2>1, <2>2 DEF StraightAt
<1>6. ASSUME version = 1, faults = 0, site.length
      PROVE  ctx'.status # "ERROR" /\ CleanAt(i)'
  <2>1. CleanAt(i)
    BY <1>6 DEF StraightInv
  <2>2. conn[i].pos < Len[1]
    BY <1>1, <1>4, <1>6, AskedIsThere
  <2>3. code # 416 /\ ~Drifted(i, code)
    <3>1. CASE site.range
      <4>1. ~Drifted(i, code)
        BY <1>1, <1>6, <3>1, FirstAnswer
      <4>2. code # 416
        <5>1. conn[i].pos \in Nat /\ Len[1] \in Nat
          BY <1>4, Basics, DownloadAssumption
        <5> QED
          BY <1>6, <2>2, <5>1 DEF Codes
      <4> QED
        BY <4>1, <4>2
    <3>2. CASE ~site.range
      <4>1. code = 200
        BY <3>2 DEF Codes, Ranged
      <4>2. DOMAIN part = {0} /\ part[i].done = 0
        BY <1>1, <2>1, <3>2 DEF CleanAt, PartsInv, ShapeInv
      <4>3. ctx.etag \in {NoValidator, version}
        <5>1. ctx.etag \in Nat /\ ctx.etag <= 1
          BY <1>6, Basics DEF PartsInv, VerInv, EtagOf
        <5> QED
          BY <1>6, <5>1 DEF NoValidator
      <4> QED
        BY <4>1, <4>2, <4>3 DEF Drifted
    <3> QED
      BY <3>1, <3>2
  <2>4. /\ conn'[i].st = "body" /\ ctx'.status = ctx.status
        /\ part'[i] = part[i]
    BY <1>3, <2>3 DEF Accepts
  <2> QED
    BY <1>1, <2>1, <2>4 DEF CleanAt
<1> QED
  BY <1>1, <1>5, <1>6, OnlyAtStraight

LEMMA FinalizeStraight ==
  ASSUME TypeOK, ProbeInv, PartsInv, StraightInv, NEW i \in DOMAIN conn,
         NEW f \in Files, FinalizeProbing(i, f) \/ FinalizeFails(i, f), faults' = 0
  PROVE  StraightInv'
<1>1. /\ ctx.probing /\ i = 0 /\ DOMAIN conn = {0} /\ DOMAIN part = {0}
      /\ conn[0].st = "body" /\ ctx.status # "ERROR" /\ Finds(i, f)
      /\ \/ Splits(i) /\ faults' = faults
         \/ Misses(i)
  BY FinalizeIs
<1>2. Splits(i) /\ faults = 0
  BY <1>1, Basics DEF Misses
<1>3. site' = site /\ version' = version
  BY <1>1 DEF Finds
<1>4. conn[0].probe
  BY <1>1 DEF PartsInv, AskInv, AskedAt
<1>5. /\ conn'[0].st = "body" /\ conn'[0].probe /\ conn'[0].retry \in {0, conn[0].retry}
      /\ 0 \in DOMAIN part' /\ DOMAIN conn' = DOMAIN part'
      /\ \A j \in DOMAIN conn' \ {0} : conn'[j] = NewConn
      /\ \A j \in DOMAIN part' : part'[j].done = 0 /\ part'[j].status = "DOWNLOADING"
      /\ ctx'.status # "ERROR"
  BY <1>1, <1>2, <1>4 DEF Splits
<1>6. ASSUME version = 1, NEW j \in DOMAIN conn'
      PROVE  StraightAt(j)' /\ CleanAt(j)'
  <2>1. conn[0].retry = 0
    BY <1>1, <1>2, <1>6 DEF StraightInv, StraightAt
  <2>2. CASE j = 0
    BY <1>5, <2>1, <2>2 DEF StraightAt, CleanAt
  <2>3. CASE j # 0
    BY <1>5, <1>6, <2>3, NewConnIs DEF StraightAt, CleanAt
  <2> QED
    BY <2>2, <2>3
<1> QED
  BY <1>3, <1>5, <1>6 DEF StraightInv

LEMMA WorkerStraight ==
  ASSUME TypeOK, ProbeInv, PartsInv, KnownInv, FirstInv, ThereInv, StraightInv,
         Worker, ~ReceiveFirst, faults' = 0
  PROVE  StraightInv'
<1>1. WorkerMoves
  BY WorkerDoes
<1>2. Moves /\ UNCHANGED <<site, version, pauseReq, cancelReq>>
  BY <1>1 DEF WorkerMoves
<1>3. /\ faults = 0 /\ faults' = faults /\ DOMAIN conn' = DOMAIN conn
      /\ Stopping' = Stopping
  BY <1>2, Basics DEF Moves, Stopping
<1> SUFFICES ASSUME version = 1 PROVE StraightInv'
  BY <1>2 DEF StraightInv
<1>4. ASSUME NEW i \in DOMAIN conn
      PROVE  StraightAt(i)' /\ (site.length => CleanAt(i)')
  <2>1. StraightAt(i) /\ (site.length => CleanAt(i))
    BY <1>3 DEF StraightInv
  <2>2. PartMoves(part[i], conn[i], part'[i])
        /\ ConnMoves(part[i], conn[i], part'[i], conn'[i])
    BY <1>2 DEF Moves
  <2>3. part'[i].done = part[i].done /\ part'[i].end = part[i].end
    BY <2>2 DEF PartMoves
  <2>4. /\ conn[i].st = "closed" => Verdict(part[i], conn[i]) # "retry"
        /\ conn[i].st = "closed" /\ site.length /\ ~Stopping =>
             Verdict(part[i], conn[i]) # "giveup"
    BY <1>3, NoRetry
  <2>5. CASE conn'[i] = conn[i] /\ part'[i] = part[i]
    BY <1>2, <1>3, <2>1, <2>5 DEF StraightAt, CleanAt
  <2>6. site.length => part'[i].status # "ERROR"
    BY <1>3, <2>1, <2>2, <2>4 DEF PartMoves, CleanAt
  <2>7. CASE conn'[i].st = "idle" /\ conn'[i].retry = conn[i].retry
    BY <2>1, <2>6, <2>7 DEF StraightAt, CleanAt, Answered
  <2>8. CASE part'[i] = part[i] /\ Asks(part[i], conn[i], conn'[i])
    <3>1. conn'[i].st = "sent" /\ conn'[i].retry = conn[i].retry
      BY <2>4, <2>8 DEF Asks
    <3>2. ASSUME site.length, ~site.range PROVE part[i].done = 0
      <4>1. \/ conn[i].st = "new" /\ part[i].status # "COMPLETED"
            \/ conn[i].st = "closed" /\ Verdict(part[i], conn[i]) = "continue"
        BY <2>4, <2>8 DEF Asks
      <4>2. ASSUME conn[i].st = "closed", Verdict(part[i], conn[i]) = "continue"
            PROVE  FALSE
        <5>1. conn[i].rc = "ok" /\ conn[i].code = 206
          BY <4>2, Basics, VerdictIs
        <5> QED
          BY <3>2, <4>2, <5>1 DEF PartsInv, PlaceInv, PlacedAt, Answered
      <4> QED
        BY <2>1, <3>2, <4>1, <4>2 DEF CleanAt
    <3> QED
      BY <1>2, <2>1, <2>3, <2>6, <3>1, <3>2 DEF StraightAt, CleanAt, Answered
  <2> QED
    BY <2>2, <2>5, <2>7, <2>8 DEF ConnMoves
<1>5. site.length => ctx'.status # "ERROR"
  <2>1. ASSUME site.length PROVE ctx.status # "ERROR" /\ \A i \in DOMAIN part :
                                   part[i].status # "ERROR"
    BY <1>3, <2>1, Basics DEF StraightInv, CleanAt
  <2> QED
    BY <1>3, <2>1, WorkerFails
<1> QED
  BY <1>2, <1>3, <1>4, <1>5 DEF StraightInv

LEMMA StraightStep ==
  ASSUME NoEmptyFile, TypeInv, TaskCut, PartsInv, KnownInv, FirstInv, ThereInv,
         StraightInv, [Next]_vars
  PROVE  StraightInv'
<1>1. TypeOK /\ ProbeInv /\ ConnInv
  BY DEF TypeInv
<1> SUFFICES ASSUME faults' = 0 PROVE StraightInv'
  BY DEF StraightInv
<1>2. CASE UNCHANGED vars
  BY <1>2
  DEF vars, downloadVars, requestVars, boundVars, StraightInv, StraightAt, CleanAt,
      Stopping
<1>3. CASE Environment
  BY <1>1, <1>3, EnvironmentStraight
<1>4. CASE Worker /\ ~ReceiveFirst
  BY <1>1, <1>4, WorkerStraight
<1>5. CASE ReceiveFirst
  <2>1. WriteBody(0) /\ pc = "write" /\ 0 \in DOMAIN conn
    BY <1>1, <1>5, Basics DEF ReceiveFirst
  <2> QED
    BY <1>1, <2>1, WriteStraight DEF ConnInv, Running
<1>6. ASSUME NEW i \in DOMAIN conn, Reply(i) PROVE StraightInv'
  BY <1>1, <1>6, ReplyStraight
<1>7. ASSUME NEW i \in DOMAIN conn, TransferFails(i) \/ Refuse(i) \/ EndOfBody(i)
      PROVE  StraightInv'
  BY <1>1, <1>7, EndStraight
<1>8. ASSUME NEW i \in DOMAIN conn, Receive(i) PROVE StraightInv'
  BY <1>1, <1>8, WriteStraight DEF Receive, BodyArrives, Running
<1>9. ASSUME NEW i \in DOMAIN conn, NEW f \in Files,
             FinalizeProbing(i, f) \/ FinalizeFails(i, f)
      PROVE  StraightInv'
  BY <1>1, <1>9, FinalizeStraight
<1> QED
  BY <1>2, <1>3, <1>4, <1>5, <1>6, <1>7, <1>8, <1>9 DEF Next, Network

LEMMA FreeInit == Init => FirstInv /\ FreeInv
<1> SUFFICES ASSUME Init PROVE FirstInv /\ FreeInv
  OBVIOUS
<1>1. /\ ctx = FreshCtx /\ part = FreshParts /\ conn = FreshConns
      /\ version = 1 /\ pc = "none"
  BY DEF Init
<1>2. /\ DOMAIN part = {0} /\ DOMAIN conn = {0} /\ conn[0] = NewConn
      /\ part[0].status = "DOWNLOADING" /\ part[0].done = 0
      /\ ctx.status = "DOWNLOADING" /\ ctx.drift = FALSE
  BY <1>1 DEF FreshCtx, FreshParts, FreshConns, NewPart
<1>3. FirstInv
  BY <1>2, NewConnIs DEF FirstInv
<1>4. ThereInv /\ LateInv
  BY <1>1, <1>2, NewConnIs DEF ThereInv, LateInv, Running, ClosedAt
<1>5. StraightInv
  BY <1>2, NewConnIs DEF StraightInv, StraightAt, CleanAt
<1> QED
  BY <1>3, <1>4, <1>5 DEF FreeInv

\* Whatever part of the file is asked for, whoever pauses, deletes, restarts or
\* resumes, and whenever the process dies: as long as nothing outside the
\* program goes wrong and the file does not change, no drift is seen, nothing is
\* tried again, the download does not fail, and a late pause does not cost its
\* completion.
THEOREM FreeOfCharge ==
  ASSUME NoEmptyFile, HonestRedirects
  PROVE  Spec => []NothingLostWithoutCause
<1> DEFINE Inv == TypeInv /\ CutInv /\ PartsInv /\ KnownInv /\ FirstInv /\ FreeInv
<1>1. Init => Inv
  <2>1. Init => CutInv
    BY NoResumeIs DEF Init, CutInv, TaskCut, RowCut, Rows, FreshCtx
  <2> QED
    BY <2>1, TypeInvInit, PartsInit, KnownInit, FreeInit
<1>2. Inv /\ [Next]_vars => Inv'
  BY TypeInvStep, CutStep, PartsStep, KnownStep, FirstStep, ThereStep, LateStep,
     StraightStep
  DEF FreeInv, CutInv
<1>3. Inv => NothingLostWithoutCause
  <2> SUFFICES ASSUME Inv PROVE NothingLostWithoutCause
    OBVIOUS
  <2>1. TypeOK
    BY DEF TypeInv
  <2>2. DriftOnlyOnChange
    BY <2>1, Basics DEF FirstInv, DriftOnlyOnChange
  <2>3. FaultFreeNeverFails /\ ProbeContinuationIsFree
    BY DEF FreeInv, StraightInv, StraightAt, FaultFreeNeverFails,
           ProbeContinuationIsFree
  <2>4. LatePauseKeepsCompletion
    BY DEF FreeInv, LateInv, AllIn, LatePauseKeepsCompletion
  <2> QED
    BY <2>2, <2>3, <2>4 DEF NothingLostWithoutCause
<1> QED
  BY <1>1, <1>2, <1>3, PTL DEF Spec

-----------------------------------------------------------------------------
(* A completed download is the whole file.                                 *)

\* Nothing is written beyond the end of the version a file is about.
NoneBeyond(bytes, v) == \A o \in Offsets : o >= Len[v] => bytes[o] = Hole
ShortInv ==
  /\ ~ctx.probing /\ entry[ctx.file] = "file" => NoneBeyond(disk[ctx.file], ctx.etag)
  /\ \A r \in Rows : r.file # NoFile /\ entry[r.file] = "file" =>
       NoneBeyond(disk[r.file], r.etag)

\* A task is only said to be completed at its end, and then it is whole.
WholeInv ==
  ctx.status = "COMPLETED" =>
    /\ pc \in {"leave", "done"} /\ ~ctx.probing
    /\ site.validator /\ entry[ctx.file] = "file" => IsVersion(disk[ctx.file], ctx.etag)

LEMMA EnvironmentShort ==
  ASSUME IInv, ShortInv, "wrapper" \notin UserRemoves, Environment
  PROVE  ShortInv'
<1> USE DEF IInv
<1>1. /\ \A r \in Rows' : r \in Rows \/ r = NoResume
      /\ \/ Restores
         \/ ctx' = FreshCtx /\ part' = FreshParts /\ conn' = FreshConns
         \/ UNCHANGED <<ctx, part, conn, pc>>
      /\ \/ UNCHANGED <<entry, disk>>
         \/ \E f \in Files : UserRemove(f)
  BY EnvironmentIs
<1>2. \A f \in Files : entry'[f] = "file" => entry[f] = "file" /\ disk'[f] = disk[f]
  BY <1>1 DEF UserRemove, TypeOK
<1>3. /\ \A r \in Rows : r.file # NoFile => r.file \in Files
      /\ ~ctx.probing => ctx.file \in Files
  BY RowsAre DEF ProbeInv
<1>4. \A r \in Rows \cup Rows' : r.file # NoFile /\ entry'[r.file] = "file" =>
        NoneBeyond(disk'[r.file], r.etag)
  BY <1>1, <1>2, <1>3, NoResumeIs DEF ShortInv
<1>5. ASSUME ~ctx'.probing, entry'[ctx'.file] = "file"
      PROVE  NoneBeyond(disk'[ctx'.file], ctx'.etag)
  <2>1. CASE Restores
    BY <1>4, <1>5, <2>1 DEF Restores, Usable, Rows
  <2>2. CASE ctx' = FreshCtx /\ part' = FreshParts /\ conn' = FreshConns
    BY <1>5, <2>2, FreshIs
  <2>3. CASE UNCHANGED <<ctx, part, conn, pc>>
    BY <1>2, <1>3, <1>5, <2>3 DEF ShortInv
  <2> QED
    BY <1>1, <2>1, <2>2, <2>3
<1> QED
  BY <1>4, <1>5 DEF ShortInv

LEMMA WriteShort ==
  ASSUME IInv, MixInv, PartsInv, KnownInv, ShortInv, site.validator,
         NEW i \in DOMAIN conn, conn[i].st = "body", WriteBody(i), ~ctx.probing
  PROVE  ShortInv'
<1> USE DEF IInv
<1>1. /\ i \in DOMAIN part /\ ctx \in CtxType /\ ctx.file \in Files
      /\ part[i].start \in Nat /\ part[i].done \in Nat /\ conn[i].pos \in Nat
      /\ conn[i].stop \in Int
  BY Basics DEF TypeOK, IsCtx, ProbeInv
<1>2. OnlyAt(i) /\ entry' = entry
  BY <1>1, WriteIs
<1>3. Rows' = Rows
  BY <1>2, RowsStay DEF OnlyAt
<1>4. CASE Rejects(i)
  BY <1>2, <1>3, <1>4 DEF Rejects, ShortInv
<1>5. ASSUME NEW k \in Nat, Writes(i, k), Takes(i, k)
      PROVE  ShortInv'
  <2> DEFINE off == part[i].start + part[i].done
             b == disk[ctx.file]
             w == Written(b, conn[i], off, k)
  <2>1. /\ ctx'.file = ctx.file /\ ctx'.probing = ctx.probing /\ ctx'.etag = ctx.etag
        /\ entry[ctx.file] = "file"
    BY <1>1, <1>5 DEF Writes, CtxType
  <2>2. off = conn[i].pos /\ conn[i].pos + k <= conn[i].stop
    BY <1>5 DEF PartsInv, PlaceInv, PlacedAt, Answered, Takes
  <2>3. conn[i].stop <= Len[ctx.etag] /\ Len[ctx.etag] \in Nat
    <3>1. conn[i].stop <= Len[Ver] /\ Ver # 0 /\ Ver = ctx.etag
      BY DEF KnownInv, AnswersInv, AnswerAt, Answered, Knowable, Ver
    <3> QED
      BY <3>1, VerIs
  <2>4. NoneBeyond(b, ctx.etag)
    BY <2>1 DEF ShortInv
  <2>5. NoneBeyond(w, ctx.etag)
    <3>1. ASSUME NEW o \in Offsets, o >= Len[ctx.etag] PROVE w[o] = Hole
      <4>1. o \notin off .. (off + k - 1)
        BY <1>1, <2>2, <2>3, <3>1 DEF Offsets
      <4>2. w[o] = b[o]
        BY <4>1 DEF Written
      <4> QED
        BY <2>4, <3>1, <4>2 DEF NoneBeyond
    <3> QED
      BY <3>1 DEF NoneBeyond
  <2>6. disk' = [disk EXCEPT ![ctx.file] = w]
    BY <1>5 DEF Writes
  <2> HIDE DEF w
  <2>7. disk'[ctx.file] = w /\ \A g \in Files \ {ctx.file} : disk'[g] = disk[g]
    BY <1>1, <2>6 DEF TypeOK
  <2>8. \A r \in Rows : r.file # NoFile /\ r.file = ctx.file => r.etag = ctx.etag
    BY DEF MixInv, TagInv
  <2>9. \A r \in Rows : r.file # NoFile => r.file \in Files
    BY RowsAre
  <2> QED
    BY <1>2, <1>3, <2>1, <2>5, <2>7, <2>8, <2>9 DEF ShortInv
<1> QED
  BY <1>1, <1>4, <1>5, WriteIs

LEMMA ShortStep ==
  ASSUME IInv, MixInv, PartsInv, KnownInv, ShortInv, site.validator,
         "wrapper" \notin UserRemoves, [Next]_vars
  PROVE  ShortInv'
<1> USE DEF IInv
<1>1. DOMAIN conn = DOMAIN part /\ 0 \in DOMAIN part
  BY Basics
<1>2. CASE UNCHANGED vars
  BY <1>2, RowsStay DEF vars, downloadVars, storageVars, resumeVars, ShortInv
<1>3. CASE Environment
  BY <1>3, EnvironmentShort
<1>4. CASE Worker /\ ~ReceiveFirst
  <2>1. WorkerMoves
    BY <1>4, WorkerDoes
  <2>2. /\ entry' = entry /\ disk' = disk /\ ctx'.file = ctx.file
        /\ ctx'.probing = ctx.probing /\ ctx'.etag = ctx.etag
        /\ saved' = saved \/ saved' = Serialized
        /\ \A r \in Rows' : r \in Rows \/ r = saved'
    BY <2>1 DEF WorkerMoves, WorkerKeeps, Rows
  <2>3. saved' = Serialized => saved'.file = ctx.file /\ saved'.etag = ctx.etag
    BY DEF Serialized
  <2>4. ctx.probing => ctx.file = NoFile
    BY DEF ProbeInv
  <2> QED
    BY <2>2, <2>3, <2>4 DEF ShortInv, Rows
<1>5. CASE ReceiveFirst
  BY <1>1, <1>5, WriteShort DEF ReceiveFirst, ConnInv
<1>6. ASSUME NEW i \in DOMAIN conn, Reply(i) PROVE ShortInv'
  <2>1. /\ OnlyAt(i) /\ UNCHANGED <<pc, entry, disk>>
        /\ ctx'.file = ctx.file /\ ctx'.probing = ctx.probing
    BY <1>6, ReplyIs
  <2>2. PICK code \in Codes(conn[i]) : \E last \in BodyEnds(conn[i], code) :
          \/ Drifted(i, code) /\ Drifts(i)
          \/ ~Drifted(i, code) /\ Accepts(i, code, last)
    BY <1>6, ReplyIs
  <2>3. ~ctx.probing => ctx.etag # NoValidator
    BY DEF MixInv, TagInv
  <2>4. ~ctx.probing => ctx'.etag = ctx.etag
    BY <2>2, <2>3 DEF Drifts, Accepts, Drifted
  <2> QED
    BY <2>1, <2>4, RowsStay DEF ShortInv, OnlyAt
<1>7. ASSUME NEW i \in DOMAIN conn, TransferFails(i) \/ Refuse(i) \/ EndOfBody(i)
      PROVE  ShortInv'
  <2>1. OnlyAt(i) /\ UNCHANGED <<ctx, entry, disk>>
    BY <1>7, EndIs
  <2> QED
    BY <2>1, RowsStay DEF ShortInv, OnlyAt
<1>8. ASSUME NEW i \in DOMAIN conn, Receive(i) PROVE ShortInv'
  BY <1>8, WriteShort DEF Receive, BodyArrives
<1>9. ASSUME NEW i \in DOMAIN conn, NEW f \in Files,
             FinalizeProbing(i, f) \/ FinalizeFails(i, f)
      PROVE  ShortInv'
  <2>1. Finds(i, f)
    BY <1>9, FinalizeIs
  <2>2. /\ ctx'.file = f /\ ctx'.etag = ctx.etag /\ entry[f] = "free"
        /\ \A g \in Files \ {f} : entry'[g] = entry[g]
        /\ Rows' = Rows /\ disk' = disk
    BY <2>1, RowsStay DEF Finds
  <2>3. \A r \in Rows : r.file # NoFile => r.file \in Files /\ r.file # f
    BY <2>2, RowsAre DEF EntryInv
  <2>4. NoneBeyond(disk[f], ctx.etag)
    BY <2>2 DEF MixInv, TagInv, NoneBeyond
  <2> QED
    BY <2>2, <2>3, <2>4 DEF ShortInv
<1> QED
  BY <1>2, <1>3, <1>4, <1>5, <1>6, <1>7, <1>8, <1>9 DEF Next, Network

LEMMA AggregatedCompletes ==
  ASSUME TypeOK, Aggregated.status = "COMPLETED", ctx.status # "COMPLETED"
  PROVE  AllIn
<1>1. ctx \in CtxType
  BY DEF TypeOK, IsCtx
<1>2. \/ Aggregated = ctx
      \/ Aggregated = [ctx EXCEPT !.status = "DOWNLOADING", !.reason = "NONE"]
      \/ AllIn
      \/ Aggregated = [ctx EXCEPT !.status = "ERROR", !.reason = WorstReason]
  BY DEF Aggregated, AllIn
<1> HIDE DEF Aggregated
<1> QED
  BY <1>1, <1>2 DEF CtxType

\* When all parts are in, their bytes are there up to the end of the version.
LEMMA AllInFills ==
  ASSUME TypeOK, PartsInv, KnownInv, TaskCut, Knowable, AllIn,
         NEW o \in 0 .. (Len[Ver] - 1)
  PROVE  \E i \in DOMAIN part : o \in part[i].start .. (part[i].start + part[i].done - 1)
<1>1. /\ DOMAIN conn = DOMAIN part /\ 0 \in DOMAIN part /\ ctx.total \in Int
      /\ \A i \in DOMAIN part : /\ part[i].start \in Nat /\ part[i].end \in Int
                                /\ part[i].size \in Nat /\ part[i].done \in Nat
  BY Basics
<1>2. \A i \in DOMAIN part : part[i].size > 0 /\ part[i].done >= part[i].size
  BY <1>1 DEF AllIn, PartsIn, PartsInv, DoneInv, DoneAt
<1>3. ~ctx.probing
  BY <1>1, <1>2 DEF PartsInv, ShapeInv
<1>4. Ver \in Versions /\ Len[Ver] \in Nat
  BY <1>3, VerIs DEF KnownInv, TotalInv
<1>5. \A i \in DOMAIN part : part[i].end # OpenEnd =>
        part[i].size = part[i].end + 1 - part[i].start
  BY <1>1 DEF PartsInv, ShapeInv, ShapedAt
<1>6. CASE ctx.range /\ part[0].end # OpenEnd
  <2>1. Cut(part, ctx.total) /\ ctx.total = Len[Ver]
    BY <1>6 DEF TaskCut, Cut, KnownInv, TotalInv
  <2>2. /\ ctx.total \in Nat \ {0} /\ DOMAIN part = PartIds(ctx.total)
        /\ \A i \in DOMAIN part : /\ part[i].start = PartStart(ctx.total, i)
                                  /\ part[i].end = PartEnd(ctx.total, i)
    BY <1>1, <2>1 DEF Cut
  <2>3. PICK i \in PartIds(ctx.total) :
          o \in PartStart(ctx.total, i) .. PartEnd(ctx.total, i)
    BY <2>1, <2>2, EachByteInOnePart
  <2>4. o \in part[i].start .. part[i].end /\ i \in DOMAIN part
    BY <2>2, <2>3
  <2>5. part[i].end # OpenEnd
    BY <1>1, <2>4 DEF OpenEnd
  <2> QED
    BY <1>1, <1>2, <1>5, <2>4, <2>5
<1>7. CASE ~(ctx.range /\ part[0].end # OpenEnd)
  <2>1. part[0].size = Len[Ver]
    <3>1. CASE part[0].end = OpenEnd
      BY <1>1, <1>2, <3>1 DEF KnownInv, TotalInv
    <3>2. CASE part[0].end # OpenEnd
      <4>1. part[0].end = Len[Ver] - 1 /\ part[0].start = 0
        BY <1>7, <3>2 DEF KnownInv, TotalInv, PartsInv, PlaceInv
      <4> QED
        BY <1>1, <1>4, <1>5, <3>2, <4>1
    <3> QED
      BY <3>1, <3>2
  <2>2. part[0].start = 0
    BY DEF PartsInv, PlaceInv
  <2> QED
    BY <1>1, <1>2, <1>4, <2>1, <2>2
<1> QED
  BY <1>6, <1>7

LEMMA AllInIsWhole ==
  ASSUME IInv, MixInv, TaskCut, PartsInv, KnownInv, ShortInv, site.validator, AllIn,
         ~ctx.probing, entry[ctx.file] = "file"
  PROVE  IsVersion(disk[ctx.file], ctx.etag)
<1> DEFINE bytes == disk[ctx.file]
<1>1. TypeOK /\ Knowable /\ Ver = ctx.etag
  BY DEF IInv, Knowable, Ver
<1>2. Len[Ver] \in Nat
  BY <1>1, VerIs DEF KnownInv, TotalInv
<1>3. Pure(bytes, ctx.etag) /\ HasBytes(bytes, part) /\ NoneBeyond(bytes, ctx.etag)
  BY DEF MixInv, TagInv, IInv, DiskInv, BytesOnDisk, ShortInv
<1>4. ASSUME NEW o \in Offsets, o < Len[Ver] PROVE bytes[o] = ctx.etag
  <2>1. o \in 0 .. (Len[Ver] - 1)
    BY <1>2, <1>4 DEF Offsets
  <2>2. PICK i \in DOMAIN part : o \in part[i].start .. (part[i].start + part[i].done - 1)
    BY <1>1, <2>1, AllInFills
  <2>3. bytes[o] # Hole
    BY <1>3, <2>2 DEF HasBytes
  <2> QED
    BY <1>3, <2>3 DEF Pure
<1>5. ASSUME NEW o \in Offsets, ~(o < Len[Ver]) PROVE bytes[o] = Hole
  <2>1. o >= Len[Ver]
    BY <1>2, <1>5 DEF Offsets
  <2> QED
    BY <1>1, <1>3, <2>1 DEF NoneBeyond
<1> QED
  BY <1>1, <1>4, <1>5 DEF IsVersion

LEMMA WholeStep ==
  ASSUME IInv, site.validator => MixInv /\ ShortInv, TaskCut, PartsInv, KnownInv,
         WholeInv, "wrapper" \notin UserRemoves, [Next]_vars
  PROVE  WholeInv'
<1> USE DEF IInv
<1> SUFFICES ASSUME ctx'.status = "COMPLETED" PROVE WholeInv'
  BY DEF WholeInv
<1>1. /\ DOMAIN conn = DOMAIN part /\ 0 \in DOMAIN part /\ ctx \in CtxType
      /\ ctx.file \in Files \/ ctx.probing
  BY Basics DEF TypeOK, IsCtx, ProbeInv
<1>2. CASE UNCHANGED vars
  BY <1>2 DEF vars, downloadVars, storageVars, WholeInv
<1>3. CASE Environment
  <2>1. /\ site' = site
        /\ \/ Restores
           \/ ctx' = FreshCtx /\ part' = FreshParts /\ conn' = FreshConns
           \/ UNCHANGED <<ctx, part, conn, pc>>
        /\ \/ UNCHANGED <<entry, disk>>
           \/ \E f \in Files : UserRemove(f)
    BY <1>3, EnvironmentIs
  <2>2. UNCHANGED <<ctx, part, conn, pc>>
    BY <2>1, FreshIs DEF Restores
  <2>3. \A f \in Files : entry'[f] = "file" => entry[f] = "file" /\ disk'[f] = disk[f]
    BY <2>1 DEF UserRemove, TypeOK
  <2> QED
    BY <1>1, <2>1, <2>2, <2>3 DEF WholeInv
<1>4. ASSUME ctx'.status = ctx.status, pc \in {"perform", "write"} PROVE FALSE
  BY <1>4 DEF WholeInv
<1>5. ASSUME NEW i \in DOMAIN conn, WriteBody(i), pc \in {"perform", "write"}
      PROVE  FALSE
  <2>1. ctx'.status = ctx.status
    BY <1>1, <1>5, WriteIs DEF Rejects, Writes, CtxType
  <2> QED
    BY <1>4, <1>5, <2>1
<1>6. CASE ReceiveFirst
  BY <1>1, <1>5, <1>6 DEF ReceiveFirst
<1>7. CASE Network
  <2>1. pc = "perform"
    BY <1>7
    DEF Network, Reply, TransferFails, Refuse, Receive, EndOfBody, FinalizeProbing,
        FinalizeFails, BodyArrives
  <2>2. ASSUME NEW i \in DOMAIN conn, Reply(i) PROVE FALSE
    <3>1. PICK code \in Codes(conn[i]) : \E last \in BodyEnds(conn[i], code) :
            \/ Drifted(i, code) /\ Drifts(i)
            \/ ~Drifted(i, code) /\ Accepts(i, code, last)
      BY <2>2, ReplyIs
    <3> QED
      BY <1>4, <2>1, <3>1 DEF Drifts, Accepts
  <2>3. ASSUME NEW i \in DOMAIN conn, NEW f \in Files,
               FinalizeProbing(i, f) \/ FinalizeFails(i, f)
        PROVE  FALSE
    <3>1. Splits(i) \/ Misses(i)
      BY <2>3, FinalizeIs
    <3> QED
      BY <1>4, <2>1, <3>1 DEF Splits, Misses
  <2> QED
    BY <1>4, <1>5, <1>7, <2>1, <2>2, <2>3
    DEF Network, TransferFails, Refuse, EndOfBody, Receive
<1>8. CASE Worker /\ ~ReceiveFirst
  <2>1. WorkerMoves
    BY <1>8, WorkerDoes
  <2>2. /\ site' = site /\ entry' = entry /\ disk' = disk /\ ctx'.file = ctx.file
        /\ ctx'.probing = ctx.probing /\ ctx'.etag = ctx.etag
    BY <2>1 DEF WorkerMoves, WorkerKeeps
  <2>3. CASE WFinish
    <3>1. Aggregated \in CtxType
      BY <1>1, AggregatedType DEF TypeOK
    <3>2. EmitAnd(Aggregated) \/ ctx' = Aggregated
      BY <2>3 DEF WFinish
    <3>3. Aggregated.status = "COMPLETED"
      BY <3>1, <3>2, EmitAndStatus
    <3>4. pc' = "leave" /\ ctx.status # "COMPLETED"
      BY <2>3 DEF WFinish, WholeInv
    <3>5. AllIn
      BY <3>3, <3>4, AggregatedCompletes
    <3>6. ~ctx.probing
      BY <1>1, <3>5, Basics
      DEF AllIn, PartsIn, PartsInv, DoneInv, DoneAt, ShapeInv
    <3> QED
      BY <2>2, <3>4, <3>5, <3>6, AllInIsWhole DEF WholeInv
  <2>4. CASE WLeave
    <3> DEFINE status == IF pauseReq /\ ~cancelReq THEN "PAUSED" ELSE ctx.status
    <3>1. ctx' = [ctx EXCEPT !.status = status] /\ pc' = "done"
      BY <2>4 DEF WLeave
    <3>2. status = "PAUSED" \/ status = ctx.status
      OBVIOUS
    <3> HIDE DEF status
    <3>3. ctx.status = "COMPLETED"
      BY <1>1, <3>1, <3>2 DEF CtxType
    <3> QED
      BY <2>2, <3>1, <3>3 DEF WholeInv
  <2>5. CASE ~WFinish /\ ~WLeave
    <3>1. pc \in {"start", "top", "perform", "msgs"}
      BY <1>8, <2>5 DEF Worker, WStart, WTop, WPoll, WEmit, WMsg
    <3>2. ctx.status # "COMPLETED"
      BY <3>1 DEF WholeInv
    <3>3. ctx'.status \in {ctx.status, "PAUSED", "ERROR"}
      <4>1. CASE WStart
        <5>1. CASE EmitAnd([ctx EXCEPT !.status = "PAUSED"])
          <6> DEFINE next == [ctx EXCEPT !.status = "PAUSED"]
          <6>1. next \in CtxType /\ next.status = "PAUSED"
            BY <1>1 DEF CtxType, Statuses
          <6>2. EmitAnd(next)
            BY <5>1
          <6> HIDE DEF next
          <6> QED
            BY <6>1, <6>2, EmitAndStatus
        <5> QED
          BY <1>1, <4>1, <5>1 DEF WStart, downloadVars, CtxType
      <4>2. CASE WTop \/ WPoll
        BY <4>2 DEF WTop, WPoll, downloadVars
      <4>3. CASE WEmit
        BY <1>1, <4>3, EmitAndStatus DEF WEmit
      <4>4. ASSUME NEW i \in DOMAIN conn, WMsg(i) PROVE ctx'.status = ctx.status
        BY <1>1, <4>4, WMsgMoves DEF CtxType
      <4> QED
        BY <1>8, <2>5, <4>1, <4>2, <4>3, <4>4 DEF Worker
    <3> QED
      BY <3>2, <3>3
  <2> QED
    BY <2>3, <2>4, <2>5
<1> QED
  BY <1>2, <1>3, <1>6, <1>7, <1>8 DEF Next

\* Unless the user removes wrapper directories, a download that has ended as
\* completed is the remote file, whole and of one version, however often it was
\* paused, cut off, lost its process or failed to save, and whenever the remote
\* file changed: of a server that sends validators.
THEOREM CompletedIsTheFile ==
  ASSUME "wrapper" \notin UserRemoves, NoEmptyFile, HonestRedirects
  PROVE  Spec => []CompletedIsWhole
<1> DEFINE Tagged == site.validator => MixInv /\ ShortInv
           Inv == IInv /\ TypeInv /\ CutInv /\ PartsInv /\ KnownInv /\ Tagged /\ WholeInv
<1>1. Init => Inv
  <2>1. Init => CutInv
    BY NoResumeIs DEF Init, CutInv, TaskCut, RowCut, Rows, FreshCtx
  <2>2. Init => ShortInv /\ WholeInv
    BY NoResumeIs DEF Init, ShortInv, WholeInv, Rows, FreshCtx
  <2> QED
    BY <2>1, <2>2, IInvInit, TypeInvInit, PartsInit, KnownInit, InitMix
<1>2. Inv /\ [Next]_vars => Inv'
  <2> SUFFICES ASSUME Inv, [Next]_vars PROVE Inv'
    OBVIOUS
  <2>1. IInv' /\ TypeInv' /\ CutInv'
    BY IInvStep, TypeInvStep, CutStep
  <2>2. PartsInv' /\ KnownInv'
    BY PartsStep, KnownStep
  <2>3. Tagged'
    BY MixStep, ShortStep, SiteStays
  <2>4. WholeInv'
    BY WholeStep DEF CutInv
  <2> QED
    BY <2>1, <2>2, <2>3, <2>4
<1>3. Inv => CompletedIsWhole
  <2> SUFFICES ASSUME Inv, site.validator, ctx.status = "COMPLETED"
               PROVE  /\ ctx.file # NoFile
                      /\ entry[ctx.file] = "file" =>
                           \E v \in 1 .. version : IsVersion(disk[ctx.file], v)
    BY DEF CompletedIsWhole
  <2>1. ~ctx.probing /\ (entry[ctx.file] = "file" => IsVersion(disk[ctx.file], ctx.etag))
    BY DEF WholeInv
  <2>2. ctx.file # NoFile
    BY <2>1, DownloadAssumption DEF IInv, ProbeInv, NoFile
  <2>3. ctx.etag \in 1 .. version
    <3>1. ctx.etag # 0 /\ ctx.etag <= version
      BY <2>1 DEF KnownInv, TotalInv, Knowable, Ver, PartsInv, VerInv, EtagOf
    <3>2. ctx.etag \in Nat /\ version \in Nat
      BY Basics DEF IInv
    <3> QED
      BY <3>1, <3>2
  <2> QED
    BY <2>1, <2>2, <2>3
<1> HIDE DEF Inv
<1> QED
  BY <1>1, <1>2, <1>3, PTL DEF Spec
=============================================================================
