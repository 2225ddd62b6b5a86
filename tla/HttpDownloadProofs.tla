------------------------- MODULE HttpDownloadProofs -------------------------
(***************************************************************************)
(* Proofs about HttpDownload for every server, file, configuration and     *)
(* bound: that the parts cut from a file cover it; the types of the        *)
(* variables; that a saved resume row never runs ahead of the file it      *)
(* describes; that no file holds bytes of two versions; that the parts of  *)
(* a task cover each byte of its file once; that a row never holds less    *)
(* than the row of the same file it replaces; that a download is one worker*)
(* as Workers has them.                                                    *)
(***************************************************************************)
EXTENDS HttpDownload, FiniteSetTheorems, TLAPS

-----------------------------------------------------------------------------
(* The parts that a file is cut into.                                      *)

LEMMA DivBounds ==
  ASSUME NEW a \in Nat, NEW b \in Nat \ {0}
  PROVE  /\ a \div b \in Nat
         /\ b * (a \div b) <= a
         /\ a < b * (a \div b) + b
  BY SMT

LEMMA HeadBounds ==
  ASSUME NEW total \in Nat \ {0}
  PROVE  /\ WantParts(total) \in Nat \ {0}
         /\ HeadSize(total) \in 1 .. total
         /\ HeadSize(total) >= Smaller(ProbeWindow, total)
<1>1. WantParts(total) \in Nat \ {0}
  BY LayoutAssumption DEF WantParts
<1>2. total \div WantParts(total) \in 0 .. total
  <2>1. /\ total \div WantParts(total) \in Nat
        /\ WantParts(total) * (total \div WantParts(total)) <= total
    BY <1>1, DivBounds
  <2>2. ASSUME NEW q \in Nat, NEW w \in Nat \ {0}, w * q <= total
        PROVE  q <= total
    BY <2>2, SMT
  <2>3. QED
    BY <1>1, <2>1, <2>2
<1>3. Smaller(ProbeWindow, total) \in 1 .. total
  BY LayoutAssumption DEF Smaller
<1>4. QED
  BY <1>1, <1>2, <1>3 DEF HeadSize, Larger

\* Dividing at least k - 1 bytes over k - 1 tail parts gives each one a byte.
LEMMA ChunkPositive ==
  ASSUME NEW r \in Nat, NEW m \in Nat \ {0}, r >= m
  PROVE  /\ r \div m \in Nat \ {0}
         /\ (m - 1) * (r \div m) < r
<1> DEFINE q == r \div m
<1>1. q \in Nat /\ m * q <= r /\ r < m * q + m
  BY DivBounds
<1>2. q # 0
  <2> SUFFICES ASSUME q = 0 PROVE FALSE
    OBVIOUS
  <2>1. m * q = 0
    BY SMT
  <2> QED
    BY <1>1, <2>1
<1>3. (m - 1) * q = m * q - q
  BY <1>1, SMT
<1> QED
  BY <1>1, <1>2, <1>3

\* The two facts about the cut that the tiling rests on: it keeps the head
\* within the file, and the tail parts get a positive chunk that leaves the
\* last one at least a byte.
LEMMA CutBounds ==
  ASSUME NEW total \in Nat \ {0}
  PROVE  /\ PartCount(total) \in Nat \ {0}
         /\ Part0Size(total) \in 1 .. total
         /\ Chunk(total) \in Nat
         /\ PartCount(total) > 1 =>
               /\ Chunk(total) >= 1
               /\ Part0Size(total) + Chunk(total) * (PartCount(total) - 2) < total
<1> DEFINE k == PartCount(total)
           h == HeadSize(total)
<1>1. WantParts(total) \in Nat \ {0} /\ h \in 1 .. total
  BY HeadBounds
<1>2. CASE k = 1
  BY <1>2 DEF Part0Size, Chunk
<1>3. CASE k # 1
  <2>1. /\ WantParts(total) # 1
        /\ Rest(total) = total - h
        /\ Rest(total) > 0
        /\ k \in Nat \ {0, 1}
        /\ Rest(total) >= k - 1
    BY <1>1, <1>3 DEF PartCount, Rest
  <2>2. Part0Size(total) = h
    BY <1>3 DEF Part0Size
  <2> DEFINE r == total - h
             m == k - 1
  <2>3. Chunk(total) = r \div m
    BY <1>3, <2>2 DEF Chunk
  <2>4. r \in Nat /\ m \in Nat \ {0} /\ r >= m
    BY <1>1, <2>1
  <2>5. r \div m \in Nat \ {0} /\ (m - 1) * (r \div m) < r
    <3> HIDE DEF r, m
    <3> QED
      BY <2>4, ChunkPositive
  <2>6. Chunk(total) * (k - 2) = (m - 1) * (r \div m)
    <3>1. Chunk(total) \in Nat
      BY <2>3, <2>5
    <3>2. k - 2 = m - 1
      BY <2>1
    <3>3. ASSUME NEW a \in Nat, NEW b \in Int PROVE a * b = b * a
      BY SMT
    <3> HIDE DEF r, m, k
    <3> QED
      BY <2>3, <2>4, <3>1, <3>2, <3>3
  <2> QED
    <3>1. Chunk(total) \in Nat \ {0}
      BY <2>3, <2>5
    <3>2. Chunk(total) * (k - 2) < total - h
      BY <2>5, <2>6
    <3>3. Chunk(total) * (k - 2) \in Int
      BY <2>1, <3>1
    <3> QED
      BY <1>1, <2>1, <2>2, <3>1, <3>2, <3>3
<1> QED
  BY <1>2, <1>3

-----------------------------------------------------------------------------
\* The parts finalize_probing cuts tile the file, for every configuration and
\* every known length.
THEOREM LayoutTiles ==
  ASSUME NEW total \in Nat \ {0}
  PROVE  Tiles(total)
<1> DEFINE k == PartCount(total)
           h == Part0Size(total)
           c == Chunk(total)
<1>1. /\ k \in Nat \ {0}
      /\ h \in 1 .. total
      /\ c \in Nat
      /\ k > 1 => c >= 1 /\ h + c * (k - 2) < total
  BY CutBounds
<1>2. k = 1 => h = total
  BY DEF Part0Size
<1>3. PartStart(total, 0) = 0 /\ PartEnd(total, 0) = h - 1
  BY DEF PartStart, PartEnd
<1>4. ASSUME NEW i \in PartIds(total), i # 0
      PROVE  /\ PartStart(total, i) = h + c * (i - 1)
             /\ PartStart(total, i) = PartEnd(total, i - 1) + 1
             /\ PartStart(total, i) <= PartEnd(total, i)
  <2>1. i \in Nat /\ 1 <= i /\ i <= k - 1 /\ k > 1
    BY <1>1, <1>4 DEF PartIds
  <2>2. PartStart(total, i) = h + c * (i - 1)
    BY <1>4 DEF PartStart
  <2>3. c * (i - 1) \in Nat
    BY <1>1, <2>1
  <2>4. PartEnd(total, i - 1) = PartStart(total, i) - 1
    <3>1. CASE i = 1
      <4>1. c * (i - 1) = 0
        BY <1>1, <3>1
      <4> QED
        BY <1>1, <1>3, <2>2, <3>1, <4>1
    <3>2. CASE i # 1
      <4>1. PartEnd(total, i - 1) = PartStart(total, i - 1) + c - 1
        BY <1>1, <2>1, <3>2 DEF PartEnd
      <4>2. PartStart(total, i - 1) = h + c * ((i - 1) - 1)
        BY <2>1, <3>2 DEF PartStart
      <4>3. c * ((i - 1) - 1) = c * (i - 1) - c
        BY <1>1, <2>1
      <4> HIDE DEF h, c, k
      <4> QED
        BY <1>1, <2>2, <2>3, <4>1, <4>2, <4>3
    <3> QED
      BY <3>1, <3>2
  <2>5. PartStart(total, i) <= PartEnd(total, i)
    <3>1. CASE i = k - 1
      <4>1. PartEnd(total, i) = total - 1
        BY <1>4, <3>1 DEF PartEnd
      <4>2. i - 1 = k - 2
        BY <1>1, <3>1
      <4> HIDE DEF h, c, k
      <4> QED
        BY <1>1, <2>1, <2>2, <2>3, <4>1, <4>2
    <3>2. CASE i # k - 1
      <4>1. PartEnd(total, i) = PartStart(total, i) + c - 1
        BY <1>4, <3>2 DEF PartEnd
      <4> HIDE DEF h, c, k
      <4> QED
        BY <1>1, <2>1, <2>2, <2>3, <4>1
    <3> QED
      BY <3>1, <3>2
  <2> QED
    <3>1. PartEnd(total, i - 1) \in Int
      BY <1>1, <2>2, <2>3, <2>4
    <3> QED
      BY <2>2, <2>4, <2>5, <3>1, <1>1, <2>3
<1>5. PartEnd(total, k - 1) = total - 1
  <2>1. CASE k = 1
    BY <1>1, <1>2, <1>3, <2>1
  <2>2. CASE k # 1
    BY <1>1, <2>2 DEF PartEnd
  <2> QED
    BY <2>1, <2>2
<1> QED
  BY <1>1, <1>3, <1>4, <1>5 DEF Tiles, PartIds

LEMMA TimesMonotonic ==
  ASSUME NEW c \in Nat, NEW a \in Nat, NEW b \in Nat, a <= b
  PROVE  c * a \in Nat /\ c * b \in Nat /\ c * a <= c * b
<1>1. b - a \in Nat /\ c * (b - a) \in Nat
  BY SMT
<1>2. c * b = c * a + c * (b - a)
  BY SMT
<1> QED
  BY <1>1, <1>2, SMT

\* No byte of the file is left out, and none is fetched by two connections.
THEOREM EachByteInOnePart ==
  ASSUME NEW total \in Nat \ {0}, NEW o \in 0 .. (total - 1)
  PROVE  \E i \in PartIds(total) :
           {j \in PartIds(total) : o \in PartStart(total, j) .. PartEnd(total, j)} = {i}
<1> DEFINE k == PartCount(total)
           h == Part0Size(total)
           c == Chunk(total)
           Has(j) == o \in PartStart(total, j) .. PartEnd(total, j)
<1>1. /\ k \in Nat \ {0} /\ h \in 1 .. total /\ c \in Nat
      /\ k > 1 => c \in Nat \ {0}
      /\ k = 1 => h = total
  BY CutBounds DEF Part0Size
<1>2. PartIds(total) = 0 .. (k - 1)
  BY DEF PartIds
<1>3. Has(0) <=> o < h
  BY <1>1 DEF PartStart, PartEnd
<1>4. ASSUME NEW j \in 1 .. (k - 1)
      PROVE  /\ c * (j - 1) \in Nat
             /\ PartStart(total, j) = h + c * (j - 1)
             /\ PartEnd(total, j) = IF j = k - 1 THEN total - 1
                                    ELSE h + c * (j - 1) + c - 1
  <2>1. j - 1 \in Nat /\ j # 0
    BY <1>1
  <2>2. c * (j - 1) \in Nat
    BY <1>1, <2>1, TimesMonotonic
  <2> QED
    BY <2>1, <2>2 DEF PartStart, PartEnd
<1> HIDE DEF k, h, c
<1>5. ASSUME NEW j \in 1 .. (k - 1)
      PROVE  /\ c * (j - 1) \in Nat
             /\ Has(j) <=> /\ o >= h + c * (j - 1)
                           /\ j = k - 1 \/ o < h + c * (j - 1) + c
  BY <1>1, <1>4
<1> HIDE DEF Has
<1>6. \E i \in 0 .. (k - 1) : Has(i)
  <2>1. CASE o < h
    BY <1>1, <1>3, <2>1
  <2>2. CASE o >= h
    <3>1. k > 1 /\ c \in Nat \ {0} /\ o - h \in Nat
      BY <1>1, <2>2
    <3> DEFINE q == (o - h) \div c
    <3>2. q \in Nat /\ c * q <= o - h /\ o - h < c * q + c
      BY <3>1, DivBounds
    <3> HIDE DEF q
    <3>3. c * q \in Nat
      BY <1>1, <3>2, TimesMonotonic
    <3>4. CASE q + 1 <= k - 1
      <4>1. q + 1 \in 1 .. (k - 1) /\ (q + 1) - 1 = q
        BY <1>1, <3>2, <3>4
      <4>2. Has(q + 1)
        BY <1>1, <1>5, <3>2, <3>3, <4>1
      <4> QED
        BY <1>1, <4>1, <4>2
    <3>5. CASE q + 1 > k - 1
      <4>1. k - 1 \in 1 .. (k - 1) /\ (k - 1) - 1 \in Nat /\ (k - 1) - 1 <= q
        BY <1>1, <3>1, <3>2, <3>5
      <4>2. c * ((k - 1) - 1) <= c * q /\ c * ((k - 1) - 1) \in Nat
        BY <1>1, <3>2, <4>1, TimesMonotonic
      <4>3. Has(k - 1)
        BY <1>1, <1>5, <3>2, <3>3, <4>1, <4>2
      <4> QED
        BY <1>1, <4>1, <4>3
    <3> QED
      BY <1>1, <3>2, <3>4, <3>5
  <2> QED
    BY <1>1, <2>1, <2>2
<1>7. ASSUME NEW i \in 0 .. (k - 1), NEW j \in 0 .. (k - 1), Has(i), Has(j), i < j
      PROVE  FALSE
  <2>1. j \in 1 .. (k - 1)
    BY <1>1, <1>7
  <2>2. o >= h + c * (j - 1) /\ c * (j - 1) \in Nat
    BY <1>5, <1>7, <2>1
  <2>3. CASE i = 0
    BY <1>1, <1>3, <1>7, <2>2, <2>3
  <2>4. CASE i # 0
    <3>1. i \in 1 .. (k - 1) /\ i # k - 1 /\ i - 1 \in Nat /\ i <= j - 1 /\ j - 1 \in Nat
      BY <1>1, <1>7, <2>4
    <3>2. o < h + c * (i - 1) + c
      BY <1>5, <1>7, <3>1
    <3>3. c * i <= c * (j - 1) /\ c * i \in Nat
      BY <1>1, <3>1, TimesMonotonic
    <3>4. c * (i - 1) + c = c * i
      BY <1>1, <3>1, SMT
    <3>5. c * (i - 1) \in Nat
      BY <1>5, <3>1
    <3> QED
      BY <1>1, <2>2, <3>2, <3>3, <3>4, <3>5
  <2> QED
    BY <2>3, <2>4
<1>8. PICK i \in 0 .. (k - 1) : Has(i)
  BY <1>6
<1>9. \A j \in 0 .. (k - 1) : Has(j) => j = i
  BY <1>1, <1>7, <1>8
<1>10. {j \in PartIds(total) : Has(j)} = {i} /\ i \in PartIds(total)
  BY <1>2, <1>8, <1>9
<1> QED
  BY <1>10 DEF Has

\* The probe window never reaches past part 0, for every configuration.
THEOREM ProbeWindowInsidePart0 ==
  ASSUME NEW total \in Nat \ {0}
  PROVE  WindowFits(total)
<1>1. Part0Size(total) >= Smaller(ProbeWindow, total)
  BY HeadBounds, LayoutAssumption DEF Part0Size, Smaller
<1>2. PartEnd(total, 0) = Part0Size(total) - 1
  BY DEF PartEnd
<1>3. Part0Size(total) \in Int /\ Smaller(ProbeWindow, total) \in Int
  BY CutBounds, LayoutAssumption DEF Smaller
<1> QED
  BY <1>1, <1>2, <1>3 DEF WindowFits

-----------------------------------------------------------------------------
(* The inductive invariant.                                                *)

\* While the probe has not been answered there is no file, and one part of
\* which nothing has been received; afterwards there is a file.
ProbeInv ==
  IF ctx.probing
  THEN /\ ctx.file = NoFile /\ ~ctx.range
       /\ DOMAIN part = {0} /\ part[0].done = 0
  ELSE ctx.file \in Files

\* A body that is being received belongs to a version; between finalizing a
\* probe and writing its first bytes, connection 0 still has them to give.
ConnInv ==
  /\ \A i \in DOMAIN conn : conn[i].st = "body" => conn[i].ver \in Versions
  /\ pc = "write" =>
       /\ ~ctx.probing
       /\ conn[0].st = "body" /\ conn[0].pos < conn[0].stop

\* The row saved and the one that do_resume has read.
Rows == {saved, loaded}

\* No row names a wrapper that is not there, nor does a live task, unless it
\* failed to make it and will therefore save nothing.
EntryInv ==
  /\ \A r \in Rows : r.file # NoFile => entry[r.file] # "free"
  /\ Running /\ ~ctx.probing /\ entry[ctx.file] = "free" =>
       ctx.status = "ERROR" /\ ctx.reason = "ERROR" /\ ~ctx.range

\* What the task and the rows count as done is in the file.
RowsOnDisk == \A r \in Rows : r.file # NoFile => BytesOnDisk(r.file, r.part)
DiskInv ==
  /\ ~ctx.probing => BytesOnDisk(ctx.file, part)
  /\ RowsOnDisk

IInv == TypeOK /\ ProbeInv /\ ConnInv /\ EntryInv /\ DiskInv

-----------------------------------------------------------------------------
(* What the operators of the model return.                                 *)

LEMMA NewPartType ==
  ASSUME NEW start \in Nat, NEW end \in Int
  PROVE  NewPart(start, end) \in PartType /\ NewPart(start, end).done = 0
BY DEF NewPart, PartType, Reasons

LEMMA NewConnType ==
  NewConn \in ConnType /\ NewConn.st = "new"
BY DEF NewConn, ConnType, ConnStates, Results, NoValidator

LEMMA RequestType ==
  ASSUME NEW c \in ConnType, NEW p \in PartType, IsCtx
  PROVE  Request(c, p) \in ConnType /\ Request(c, p).st = "sent"
<1>1. /\ p.start + p.done \in Nat
      /\ p.end \in Int
      /\ p.end >= p.start + p.done => p.end + 1 \in Nat
  BY DEF PartType
<1>2. /\ ProbeWindow \in Nat
      /\ ctx.probing \in BOOLEAN
      /\ ctx.etag \in Versions \cup {NoValidator}
  BY LayoutAssumption DEF IsCtx, CtxType
<1> QED
  BY ZenonT(30), <1>1, <1>2 DEF Request, ConnType, ConnStates, Results, NoValidator, OpenEnd

LEMMA ClosedType ==
  ASSUME NEW c \in ConnType, NEW rc \in Results
  PROVE  Closed(c, rc) \in ConnType /\ Closed(c, rc).st = "closed"
BY DEF Closed, ConnType, ConnStates

LEMMA FreshTypes ==
  /\ FreshCtx \in CtxType
  /\ DOMAIN FreshParts = {0} /\ IsPart(FreshParts) /\ FreshParts[0].done = 0
  /\ DOMAIN FreshConns = {0} /\ FreshConns[0] = NewConn
  /\ FreshConns = [i \in {0} |-> FreshConns[i]]
<1>1. NewPart(0, OpenEnd) \in PartType /\ NewPart(0, OpenEnd).done = 0
  BY NewPartType DEF OpenEnd
<1>2. FreshCtx \in CtxType
  BY DEF FreshCtx, CtxType, Statuses, Reasons, NoFile, NoValidator
<1> QED
  BY <1>1, <1>2 DEF FreshParts, FreshConns, IsPart

LEMMA RestoredType ==
  ASSUME NEW p \in RowPartType
  PROVE  /\ Restored(p) \in PartType
         /\ Restored(p).start = p.start /\ Restored(p).done = p.done
<1>1. p.start \in Nat /\ p.end \in Int /\ p.done \in Nat
  BY DEF RowPartType
<1>2. NewPart(p.start, p.end) \in PartType
  BY <1>1, NewPartType
<1> QED
  BY <1>1, <1>2 DEF Restored, PartType, NewPart

\* The cut of a file gives every part a start; if the length is unknown there
\* is only part 0.
LEMMA CutTypes ==
  ASSUME NEW total \in Int
  PROVE  /\ 0 \in PartIds(total) /\ PartIds(total) \subseteq Nat
         /\ \A j \in PartIds(total) :
              PartStart(total, j) \in Nat /\ PartEnd(total, j) \in Int
<1>1. CASE total > 0
  <2>1. /\ PartCount(total) \in Nat \ {0}
        /\ Part0Size(total) \in 1 .. total
        /\ Chunk(total) \in Nat
    BY <1>1, CutBounds
  <2>2. ASSUME NEW j \in PartIds(total)
        PROVE  PartStart(total, j) \in Nat /\ PartEnd(total, j) \in Int
    <3>1. j \in Nat /\ (j # 0 => j - 1 \in Nat)
      BY <2>1 DEF PartIds
    <3>2. j # 0 => Chunk(total) * (j - 1) \in Nat
      BY <2>1, <3>1, SMT
    <3>3. PartStart(total, j) \in Nat
      BY <2>1, <3>1, <3>2 DEF PartStart
    <3> QED
      BY <2>1, <3>3 DEF PartEnd
  <2> QED
    BY <2>1, <2>2 DEF PartIds
<1>2. CASE total <= 0
  <2>1. WantParts(total) = 1
    BY <1>2, LayoutAssumption DEF WantParts
  <2>2. PartCount(total) = 1
    BY <2>1 DEF PartCount, Rest
  <2> QED
    BY <1>2, <2>2 DEF PartIds, PartStart, PartEnd
<1> QED
  BY <1>1, <1>2

\* Assigning one element of part or conn keeps the type of the whole.
LEMMA PartUpdate ==
  ASSUME IsPart(part), NEW i \in DOMAIN part, NEW p \in PartType,
         part' = [part EXCEPT ![i] = p]
  PROVE  IsPart(part)' /\ DOMAIN part' = DOMAIN part
BY DEF IsPart

LEMMA ConnUpdate ==
  ASSUME IsConn, NEW i \in DOMAIN part, NEW c \in ConnType,
         conn' = [conn EXCEPT ![i] = c], DOMAIN part' = DOMAIN part
  PROVE  IsConn' /\ DOMAIN conn' = DOMAIN conn
BY DEF IsConn

\* What a step leaves alone keeps its type.
LEMMA Frames ==
  /\ IsRow(saved) /\ saved' = saved => IsRow(saved)'
  /\ IsRow(loaded) /\ loaded' = loaded => IsRow(loaded)'
  /\ IsCtx /\ ctx' = ctx => IsCtx'
  /\ IsPart(part) /\ part' = part => IsPart(part)' /\ DOMAIN part' = DOMAIN part
  /\ IsConn /\ conn' = conn /\ DOMAIN part' = DOMAIN part => IsConn'
BY DEF IsRow, IsCtx, IsPart, IsConn

LEMMA NoResumeType == ASSUME NEW r, r = NoResume PROVE IsRow(r)
BY DEF IsRow, NoResume, NoFile, NoValidator

LEMMA StartType ==
  ASSUME TypeOK, StartTask
  PROVE  /\ site' \in Sites /\ version' \in Versions /\ pc' \in PcStates
         /\ pauseReq' \in BOOLEAN /\ cancelReq' \in BOOLEAN
         /\ entry' = entry /\ disk' = disk /\ saved' = saved
         /\ runs' \in Nat /\ faults' \in Nat
<1>1. runs' \in Nat
  BY DEF TypeOK, StartTask
<1> QED
  BY <1>1 DEF TypeOK, StartTask, storageVars, PcStates

-----------------------------------------------------------------------------
(* Every step keeps the types, and names a file exactly when it answers the *)
(* probe.                                                                   *)

LEMMA EnvironmentType ==
  ASSUME TypeOK, ProbeInv, Environment
  PROVE  TypeOK' /\ ProbeInv'
<1> USE DEF TypeOK
<1>1. CASE Add
  <2>1. /\ IsCtx' /\ IsPart(part)' /\ IsConn'
        /\ IsRow(saved)' /\ IsRow(loaded)' /\ overtaken' \in BOOLEAN
    BY <1>1, FreshTypes, NewConnType, Frames
    DEF Add, StartTask, storageVars, IsCtx, IsConn, IsPart
  <2>2. ProbeInv'
    BY <1>1, FreshTypes DEF Add, ProbeInv, FreshCtx
  <2> QED
    BY <1>1, <2>1, <2>2, StartType DEF Add
<1>2. CASE Resume
  <2>0. IsRow(saved)' /\ IsRow(loaded)' /\ overtaken' \in BOOLEAN
    BY <1>2, NoResumeType, Frames DEF Resume, StartTask, storageVars
  <2>1. CASE Usable
    <3>1. /\ ctx' = RestoredCtx
          /\ part' = [i \in DOMAIN loaded.part |-> Restored(loaded.part[i])]
          /\ conn' = [i \in DOMAIN loaded.part |-> NewConn]
          /\ saved' = saved /\ loaded # NoResume
      BY <1>2, <2>1 DEF Resume, StartTask, storageVars
    <3>2. /\ 0 \in DOMAIN loaded.part /\ DOMAIN loaded.part \subseteq Nat
          /\ \A i \in DOMAIN loaded.part : loaded.part[i] \in RowPartType
      BY <3>1 DEF IsRow
    <3>3. IsPart(part)'
      BY <3>1, <3>2, RestoredType DEF IsPart
    <3>4. IsConn'
      BY <3>1, NewConnType DEF IsConn
    <3>5. ctx' \in CtxType /\ ctx'.probing = FALSE /\ ctx'.file = loaded.file
      BY <3>1, FreshTypes
      DEF RestoredCtx, RestoredCtxNoEtag, FreshCtx, CtxType, IsRow, Statuses, Reasons
    <3>6. ProbeInv'
      BY <2>1, <3>5 DEF ProbeInv, Usable, IsRow
    <3> QED
      BY <1>2, <2>0, <3>3, <3>4, <3>5, <3>6, StartType
      DEF Resume, IsCtx
  <2>2. CASE ~Usable
    <3>1. ctx' = FreshCtx /\ part' = FreshParts /\ conn' = FreshConns
      BY <1>2, <2>2 DEF Resume
    <3>2. /\ IsCtx' /\ IsPart(part)' /\ IsConn'
      BY <3>1, FreshTypes, NewConnType DEF IsCtx, IsConn, IsPart
    <3>3. ProbeInv'
      BY <3>1, FreshTypes DEF ProbeInv, FreshCtx
    <3> QED
      BY <1>2, <2>0, <3>2, <3>3, StartType DEF Resume
  <2> QED
    BY <2>1, <2>2
<1>3. CASE Pause \/ Cancel
  <2>1. ctx' = ctx /\ part' = part /\ conn' = conn /\ saved' = saved
    BY <1>3 DEF Pause, Cancel, downloadVars, storageVars
  <2> QED
    BY <1>3, <2>1, Frames
    DEF Pause, Cancel, storageVars, resumeVars, boundVars, ProbeInv
<1>4. CASE Crash
  <2>1. /\ IsCtx' /\ IsPart(part)' /\ IsConn'
        /\ IsRow(saved)' /\ IsRow(loaded)' /\ overtaken' \in BOOLEAN
    BY <1>4, FreshTypes, NewConnType, NoResumeType, Frames
    DEF Crash, storageVars, IsCtx, IsConn, IsPart
  <2>2. ProbeInv'
    BY <1>4, FreshTypes DEF Crash, ProbeInv, FreshCtx
  <2> QED
    BY <1>4, <2>1, <2>2 DEF Crash, storageVars, boundVars, PcStates
<1>5. CASE Change
  <2>1. ctx' = ctx /\ part' = part /\ conn' = conn /\ saved' = saved
    BY <1>5 DEF Change, downloadVars, storageVars
  <2> QED
    BY <1>5, <2>1, Frames
    DEF Change, storageVars, resumeVars, boundVars, requestVars, ProbeInv
<1>6. ASSUME NEW f \in Files, UserRemove(f)
      PROVE  TypeOK' /\ ProbeInv'
  <2>1. ctx' = ctx /\ part' = part /\ conn' = conn /\ saved' = saved
    BY <1>6 DEF UserRemove, downloadVars
  <2>2. entry' \in [Files -> {"free", "dir", "file"}]
    BY <1>6 DEF UserRemove
  <2>3. disk' \in [Files -> [Offsets -> Versions \cup {Hole, Garbage}]]
    BY <1>6 DEF UserRemove, Hole
  <2> QED
    BY <1>6, <2>1, <2>2, <2>3, Frames
    DEF UserRemove, requestVars, resumeVars, ProbeInv, Fault
<1>7. CASE Load \/ GoOn
  <2>1. ctx' = ctx /\ part' = part /\ conn' = conn /\ saved' = saved
    BY <1>7 DEF Load, GoOn, downloadVars, storageVars
  <2>2. IsRow(loaded)' /\ overtaken' = overtaken
    BY <1>7, NoResumeType DEF Load, GoOn, IsRow
  <2> QED
    BY <1>7, <2>1, <2>2, Frames
    DEF Load, GoOn, storageVars, boundVars, requestVars, ProbeInv
<1> QED
  BY <1>1, <1>2, <1>3, <1>4, <1>5, <1>6, <1>7 DEF Environment

\* A part that fails keeps its place and what it has done.
LEMMA PartErrorType ==
  ASSUME IsPart(part), NEW i \in DOMAIN part, PartError(i)
  PROVE  /\ IsPart(part)' /\ DOMAIN part' = DOMAIN part
         /\ \A j \in DOMAIN part : /\ part'[j].start = part[j].start
                                  /\ part'[j].done = part[j].done
<1> DEFINE p == [part[i] EXCEPT !.status = "ERROR", !.reason = "ERROR"]
<1>1. part[i] \in PartType
  BY DEF IsPart
<1>2. p \in PartType /\ p.start = part[i].start /\ p.done = part[i].done
  BY <1>1 DEF PartType, Reasons
<1>3. part' = [part EXCEPT ![i] = p]
  BY DEF PartError
<1> HIDE DEF p
<1>4. IsPart(part)' /\ DOMAIN part' = DOMAIN part
  BY <1>2, <1>3, PartUpdate
<1> QED
  BY <1>2, <1>3, <1>4

LEMMA ReplyType ==
  ASSUME TypeOK, ProbeInv, NEW i \in DOMAIN conn, Reply(i)
  PROVE  TypeOK' /\ ProbeInv'
<1> DEFINE c == conn[i]
<1>1. i \in DOMAIN part /\ c \in ConnType /\ DOMAIN conn = DOMAIN part
  BY DEF TypeOK, IsConn
<1>2. PICK code \in Codes(c) : \E last \in BodyEnds(c, code) :
        /\ IF last = FullStop(c, code) THEN UNCHANGED faults ELSE Fault
        /\ IF Drifted(i, code) THEN MarkDrift(i) ELSE AcceptHeaders(i, code, last)
  BY DEF Reply
<1>3. PICK last \in BodyEnds(c, code) :
        /\ IF last = FullStop(c, code) THEN UNCHANGED faults ELSE Fault
        /\ IF Drifted(i, code) THEN MarkDrift(i) ELSE AcceptHeaders(i, code, last)
  BY <1>2
<1>4. code \in {200, 206, 416}
  BY DEF Codes
<1>5. version \in Versions /\ Len[version] \in Nat /\ site \in SiteRec
  BY DownloadAssumption DEF TypeOK
<1>6. FullStop(c, code) \in Nat
  BY <1>1, <1>4, <1>5 DEF FullStop, Smaller, ConnType, OpenEnd
<1>7. last \in Nat
  BY <1>1, <1>5, <1>6 DEF BodyEnds, ConnType
<1>8. faults' \in Nat
  BY <1>3 DEF Fault, TypeOK
<1>9. /\ IsPart(part)' /\ IsConn' /\ IsCtx' /\ ProbeInv'
  <2>1. CASE Drifted(i, code)
    <3>1. MarkDrift(i)
      BY <1>3, <2>1
    <3>2. /\ IsPart(part)' /\ DOMAIN part' = DOMAIN part
          /\ \A j \in DOMAIN part : part'[j].done = part[j].done
      BY <1>1, <3>1, PartErrorType DEF MarkDrift, TypeOK
    <3>3. IsConn'
      BY <1>1, <3>1, <3>2, ClosedType, ConnUpdate DEF MarkDrift, TypeOK, Results
    <3>4. ctx' \in CtxType /\ ctx'.probing = ctx.probing /\ ctx'.file = ctx.file
          /\ ctx'.range = ctx.range
      BY <3>1 DEF MarkDrift, TypeOK, IsCtx, CtxType, Statuses, Reasons
    <3> QED
      BY <3>2, <3>3, <3>4 DEF ProbeInv, IsCtx
  <2>2. CASE ~Drifted(i, code)
    <3>1. AcceptHeaders(i, code, last)
      BY <1>3, <2>2
    <3>2. SeenTotal(code) \in Nat
      BY <1>5 DEF SeenTotal, SiteRec
    <3> DEFINE from == IF code = 200 THEN 0 ELSE c.pos
               seen == IF ctx.probing THEN SeenTotal(code) ELSE 0
               d == [c EXCEPT !.st = "body", !.code = code, !.ver = version,
                              !.pos = from, !.stop = last, !.seen = seen]
               e == IF code = 416 THEN Closed(d, "http") ELSE d
    <3>a. from \in Nat /\ seen \in Nat
      BY <1>1, <3>2 DEF ConnType
    <3>b. code \in Nat /\ last \in Nat \cup {OpenEnd} /\ version \in Versions \cup {0}
      BY <1>4, <1>5, <1>7
    <3> HIDE DEF from, seen
    <3>3. d \in ConnType
      BY <1>1, <3>a, <3>b DEF ConnType, ConnStates
    <3>4. e \in ConnType
      BY <3>3, ClosedType DEF Results
    <3>5. part' = part /\ conn' = [conn EXCEPT ![i] = e]
      BY <3>1 DEF AcceptHeaders, from, seen
    <3> HIDE DEF d, e
    <3>6. IsPart(part)' /\ IsConn'
      BY <1>1, <3>4, <3>5, Frames, ConnUpdate DEF TypeOK
    <3>7. ctx' \in CtxType /\ ctx'.probing = ctx.probing /\ ctx'.file = ctx.file
          /\ ctx'.range = ctx.range
      <4> DEFINE total == IF code # 200 /\ site.length /\ ctx.total <= 0
                             /\ Len[version] > 0
                          THEN Len[version] ELSE ctx.total
                 etag == IF site.validator THEN version ELSE ctx.etag
      <4>1. ctx' = [ctx EXCEPT !.total = total, !.etag = etag]
        BY <3>1 DEF AcceptHeaders
      <4>2. total \in Int /\ etag \in Versions \cup {NoValidator}
        BY <1>5 DEF TypeOK, IsCtx, CtxType
      <4> HIDE DEF total, etag
      <4> QED
        BY <4>1, <4>2 DEF TypeOK, IsCtx, CtxType
    <3> QED
      BY <3>5, <3>6, <3>7 DEF ProbeInv, IsCtx
  <2> QED
    BY <2>1, <2>2
<1>10. IsRow(saved)'
  BY Frames DEF Reply, CallbackFrame, resumeVars, TypeOK
<1> QED
  BY <1>8, <1>9, <1>10
  DEF TypeOK, Reply, CallbackFrame, resumeVars, requestVars

\* A transfer that ends leaves its connection closed.
LEMMA TransferEndCloses ==
  ASSUME TypeOK, NEW i \in DOMAIN conn,
         TransferFails(i) \/ Refuse(i) \/ EndOfBody(i)
  PROVE  \E c \in ConnType : conn' = [conn EXCEPT ![i] = c] /\ c.st = "closed"
<1>1. conn[i] \in ConnType
  BY DEF TypeOK, IsConn
<1>2. ASSUME NEW code \in Nat
      PROVE  [conn[i] EXCEPT !.code = code] \in ConnType
  BY <1>1 DEF ConnType
<1>3. \E c \in ConnType : \E rc \in Results :
        conn' = [conn EXCEPT ![i] = Closed(c, rc)]
  <2>1. CASE TransferFails(i)
    <3>1. CASE conn' = [conn EXCEPT ![i] = Closed(@, "net")]
      BY <1>1, <3>1 DEF Results
    <3>2. ASSUME NEW code \in {503, 403, 404},
                 conn' = [conn EXCEPT ![i] = Closed([@ EXCEPT !.code = code], "http")]
          PROVE  \E c \in ConnType : \E rc \in Results :
                   conn' = [conn EXCEPT ![i] = Closed(c, rc)]
      <4> DEFINE d == [conn[i] EXCEPT !.code = code]
      <4>1. d \in ConnType
        BY <1>2
      <4>2. conn' = [conn EXCEPT ![i] = Closed(d, "http")]
        BY <3>2
      <4> HIDE DEF d
      <4> QED
        BY <4>1, <4>2 DEF Results
    <3> QED
      BY <2>1, <3>1, <3>2 DEF TransferFails
  <2>2. CASE Refuse(i)
    BY <1>1, <2>2 DEF Refuse, Results
  <2>3. CASE EndOfBody(i)
    BY <1>1, <2>3 DEF EndOfBody, Results
  <2> QED
    BY <2>1, <2>2, <2>3
<1> QED
  BY <1>3, ClosedType

LEMMA TransferEndType ==
  ASSUME TypeOK, ProbeInv, NEW i \in DOMAIN conn,
         TransferFails(i) \/ Refuse(i) \/ EndOfBody(i)
  PROVE  TypeOK' /\ ProbeInv'
<1>1. i \in DOMAIN part /\ conn[i] \in ConnType
  BY DEF TypeOK, IsConn
<1>2. /\ part' = part /\ ctx' = ctx /\ saved' = saved
      /\ pc' = pc /\ entry' = entry /\ disk' = disk
  BY DEF TransferFails, Refuse, EndOfBody, CallbackFrame
<1>4. \E c \in ConnType : conn' = [conn EXCEPT ![i] = c] /\ c.st = "closed"
  BY TransferEndCloses
<1>5. IsConn'
  BY <1>1, <1>2, <1>4, ConnUpdate DEF TypeOK
<1>6. faults' \in Nat
  BY DEF TransferFails, Refuse, EndOfBody, Fault, TypeOK
<1>7. /\ IsPart(part)' /\ IsCtx' /\ IsRow(saved)' /\ ProbeInv'
  BY <1>2, Frames DEF TypeOK, ProbeInv
<1>8. CallbackFrame
  BY DEF TransferFails, Refuse, EndOfBody
<1> QED
  BY <1>2, <1>5, <1>6, <1>7, <1>8 DEF TypeOK, CallbackFrame, resumeVars, requestVars

LEMMA FinalizeProbingType ==
  ASSUME TypeOK, ProbeInv, NEW i \in DOMAIN conn, NEW f \in Files,
         FinalizeProbing(i, f)
  PROVE  TypeOK' /\ ProbeInv' /\ \A j \in DOMAIN part' : part'[j].done = 0
<1> DEFINE total == TotalFound(conn[i])
<1>1. /\ ctx.probing /\ DOMAIN part = {0} /\ DOMAIN conn = {0} /\ i = 0
      /\ conn[0] \in ConnType /\ ctx \in CtxType
  BY DEF FinalizeProbing, ProbeInv, TypeOK, IsConn, IsCtx
<1>2. total \in Int
  BY <1>1 DEF TotalFound, ConnType, CtxType
<1>3. /\ ctx' \in CtxType /\ ctx'.probing = FALSE /\ ctx'.file = f
  <2> DEFINE ranged == conn[i].code = 206
  <2>1. ctx' = [ctx EXCEPT !.probing = FALSE, !.total = total,
                           !.file = f, !.range = ranged]
    BY DEF FinalizeProbing
  <2>2. ranged \in BOOLEAN
    OBVIOUS
  <2> HIDE DEF ranged, total
  <2> QED
    BY <1>1, <1>2, <2>1, <2>2 DEF CtxType
<1>4. /\ IsPart(part)' /\ IsConn'
      /\ \A j \in DOMAIN part' : part'[j].done = 0
  <2>1. CASE conn[i].code = 206
    <3>1. /\ part' = [j \in PartIds(total) |->
                        NewPart(PartStart(total, j), PartEnd(total, j))]
          /\ conn' = [j \in PartIds(total) |->
                        IF j = 0 THEN [conn[i] EXCEPT !.retry = 0] ELSE NewConn]
      BY <2>1 DEF FinalizeProbing
    <3>2. /\ 0 \in PartIds(total) /\ PartIds(total) \subseteq Nat
          /\ \A j \in PartIds(total) :
               /\ NewPart(PartStart(total, j), PartEnd(total, j)) \in PartType
               /\ NewPart(PartStart(total, j), PartEnd(total, j)).done = 0
      BY <1>2, CutTypes, NewPartType
    <3>3. [conn[i] EXCEPT !.retry = 0] \in ConnType
      BY <1>1 DEF ConnType
    <3> HIDE DEF total
    <3> QED
      BY <3>1, <3>2, <3>3, NewConnType DEF IsPart, IsConn
  <2>2. CASE conn[i].code # 206
    <3> DEFINE p == NewPart(0, IF total > 0 THEN total - 1 ELSE OpenEnd)
    <3>1. part' = [j \in {0} |-> p] /\ conn' = conn
      BY <2>2 DEF FinalizeProbing
    <3>2. p \in PartType /\ p.done = 0
      BY <1>2, NewPartType DEF OpenEnd
    <3> HIDE DEF p
    <3> QED
      BY <1>1, <3>1, <3>2 DEF IsPart, IsConn, TypeOK
  <2> QED
    BY <2>1, <2>2
<1>5. /\ pc' \in PcStates
      /\ entry' \in [Files -> {"free", "dir", "file"}]
      /\ disk' = disk /\ faults' = faults /\ saved' = saved
  BY DEF FinalizeProbing, CallbackFrame, resumeVars, TypeOK, PcStates
<1>6. ProbeInv'
  BY <1>3 DEF ProbeInv
<1>7. CallbackFrame
  BY DEF FinalizeProbing
<1> QED
  BY <1>3, <1>4, <1>5, <1>6, <1>7, Frames
  DEF TypeOK, CallbackFrame, resumeVars, requestVars, IsCtx

LEMMA FinalizeFailsType ==
  ASSUME TypeOK, ProbeInv, NEW i \in DOMAIN conn, NEW f \in Files,
         FinalizeFails(i, f)
  PROVE  TypeOK' /\ ProbeInv'
<1>1. /\ i \in DOMAIN part /\ conn[i] \in ConnType /\ ctx \in CtxType
  BY DEF TypeOK, IsConn, IsCtx
<1>2. TotalFound(conn[i]) \in Int
  BY <1>1 DEF TotalFound, ConnType, CtxType
<1>3. /\ ctx' \in CtxType /\ ctx'.probing = FALSE /\ ctx'.file = f
  BY <1>1, <1>2 DEF FinalizeFails, CtxType, Statuses, Reasons
<1>4. part' = part /\ conn' = [conn EXCEPT ![i] = Closed(@, "write")]
  BY DEF FinalizeFails
<1>5. IsPart(part)' /\ IsConn'
  BY <1>1, <1>4, ClosedType, ConnUpdate, Frames DEF Results, TypeOK
<1>6. /\ entry' \in [Files -> {"free", "dir", "file"}]
      /\ pc' = pc /\ disk' = disk /\ saved' = saved /\ faults' \in Nat
  BY DEF FinalizeFails, CallbackFrame, resumeVars, TypeOK, Fault
<1>7. ProbeInv'
  BY <1>3 DEF ProbeInv
<1>8. CallbackFrame
  BY DEF FinalizeFails
<1> QED
  BY <1>3, <1>5, <1>6, <1>7, <1>8, Frames
  DEF TypeOK, CallbackFrame, resumeVars, requestVars, IsCtx

\* write_cb refuses to write, or writes k bytes at the place the part has got
\* to and counts them; whichever, the connection stays typed.
Writes(i, k) ==
  LET off == part[i].start + part[i].done
  IN /\ entry[ctx.file] = "file"
     /\ disk' = [disk EXCEPT ![ctx.file] = Written(@, conn[i], off, k)]
     /\ part' = [part EXCEPT ![i].done = @ + k]
     /\ ctx' = [ctx EXCEPT !.advanced = TRUE]

LEMMA WriteBodyCases ==
  ASSUME TypeOK, NEW i \in DOMAIN part, WriteBody(i)
  PROVE  /\ \/ PartError(i) /\ UNCHANGED <<ctx, disk>>
            \/ UNCHANGED <<ctx, part, disk>>
            \/ \E k \in Nat : Writes(i, k)
         /\ \E c \in ConnType :
              /\ conn' = [conn EXCEPT ![i] = c]
              /\ c.st = "body" => c.ver = conn[i].ver /\ conn[i].st = "body"
         /\ faults' \in Nat /\ pc' = "perform" /\ entry' = entry /\ CallbackFrame
<1> DEFINE p == part[i]
           c == conn[i]
           Takes(n) == IF p.size > 0 THEN Smaller(n, p.size - p.done) ELSE n
<1>1. p \in PartType /\ c \in ConnType
  BY DEF TypeOK, IsPart, IsConn
<1>2. PICK n \in 1 .. Smaller(MaxBurst, c.stop - c.pos) :
          \/ /\ p.size > 0 /\ p.done >= p.size
             /\ conn' = [conn EXCEPT ![i] = Closed(@, "write")]
             /\ UNCHANGED <<ctx, part, disk, faults>>
          \/ /\ p.size <= 0 \/ p.done < p.size
             /\ \/ entry[ctx.file] # "file" /\ UNCHANGED faults
                \/ entry[ctx.file] = "file" /\ Fault
             /\ PartError(i)
             /\ conn' = [conn EXCEPT ![i] = Closed(@, "write")]
             /\ UNCHANGED <<ctx, disk>>
          \/ /\ p.size <= 0 \/ p.done < p.size
             /\ Writes(i, Takes(n))
             /\ LET d == [c EXCEPT !.pos = @ + Takes(n)]
                IN conn' = [conn EXCEPT ![i] =
                              IF Takes(n) < n THEN Closed(d, "write") ELSE d]
             /\ UNCHANGED faults
  BY DEF WriteBody, Writes
<1>3. n \in Nat
  OBVIOUS
<1>4. /\ pc' = "perform" /\ entry' = entry /\ CallbackFrame /\ faults' \in Nat
  BY <1>2 DEF WriteBody, Fault, TypeOK
<1>5. CASE conn' = [conn EXCEPT ![i] = Closed(@, "write")]
  <2> DEFINE e == Closed(c, "write")
  <2>1. e \in ConnType /\ e.st = "closed" /\ conn' = [conn EXCEPT ![i] = e]
    BY <1>1, <1>5, ClosedType DEF Results
  <2>2. CASE UNCHANGED <<ctx, part, disk>>
    BY <1>4, <2>1, <2>2
  <2>3. CASE PartError(i) /\ UNCHANGED <<ctx, disk>>
    BY <1>4, <2>1, <2>3
  <2>4. CASE /\ p.size <= 0 \/ p.done < p.size
             /\ Writes(i, Takes(n))
    <3>1. Takes(n) \in Nat
      BY <1>1, <1>3, <2>4 DEF PartType, Smaller
    <3> HIDE DEF Takes, e
    <3> QED
      BY <1>4, <2>1, <2>4, <3>1
  <2> QED
    BY <1>2, <2>2, <2>3, <2>4
<1>6. CASE /\ p.size <= 0 \/ p.done < p.size
           /\ Writes(i, Takes(n))
           /\ LET d == [c EXCEPT !.pos = @ + Takes(n)]
              IN conn' = [conn EXCEPT ![i] =
                            IF Takes(n) < n THEN Closed(d, "write") ELSE d]
  <2>1. Takes(n) \in Nat
    BY <1>1, <1>3, <1>6 DEF PartType, Smaller
  <2> DEFINE k == Takes(n)
             d == [c EXCEPT !.pos = @ + k]
             e == IF k < n THEN Closed(d, "write") ELSE d
  <2>2. conn' = [conn EXCEPT ![i] = e] /\ Writes(i, k)
    BY <1>6
  <2> HIDE DEF k
  <2>3. c.pos + k \in Nat
    BY <1>1, <2>1 DEF ConnType, k
  <2>4. d \in ConnType /\ d.st = c.st /\ d.ver = c.ver
    BY <1>1, <2>3 DEF ConnType
  <2> HIDE DEF d
  <2>5. e \in ConnType /\ (e.st = "body" => e.ver = c.ver /\ c.st = "body")
    BY <2>4, ClosedType DEF Results
  <2> HIDE DEF e
  <2> QED
    BY <1>4, <2>1, <2>2, <2>5 DEF k
<1> QED
  BY <1>2, <1>5, <1>6

LEMMA WriteBodyType ==
  ASSUME TypeOK, ProbeInv, ~ctx.probing, NEW i \in DOMAIN part, WriteBody(i)
  PROVE  TypeOK' /\ ProbeInv'
<1>1. /\ faults' \in Nat /\ pc' = "perform" /\ entry' = entry /\ CallbackFrame
  BY WriteBodyCases
<1>2. /\ part[i] \in PartType /\ conn[i] \in ConnType /\ ctx \in CtxType
      /\ ctx.file \in Files
  BY DEF TypeOK, IsPart, IsConn, IsCtx, ProbeInv
<1>3. /\ IsPart(part)' /\ DOMAIN part' = DOMAIN part
      /\ disk' \in [Files -> [Offsets -> Versions \cup {Hole, Garbage}]]
      /\ ctx' \in CtxType /\ ctx'.probing = ctx.probing /\ ctx'.file = ctx.file
  <2>1. CASE PartError(i) /\ UNCHANGED <<ctx, disk>>
    BY <1>2, <2>1, PartErrorType DEF TypeOK
  <2>2. CASE UNCHANGED <<ctx, part, disk>>
    BY <1>2, <2>2, Frames DEF TypeOK
  <2>3. ASSUME NEW k \in Nat, Writes(i, k)
        PROVE  /\ IsPart(part)' /\ DOMAIN part' = DOMAIN part
               /\ disk' \in [Files -> [Offsets -> Versions \cup {Hole, Garbage}]]
               /\ ctx' \in CtxType /\ ctx'.probing = ctx.probing
               /\ ctx'.file = ctx.file
    <3> DEFINE p == [part[i] EXCEPT !.done = @ + k]
    <3>1. p \in PartType
      BY <1>2 DEF PartType
    <3>2. part' = [part EXCEPT ![i] = p]
      BY <2>3 DEF Writes
    <3> HIDE DEF p
    <3>3. IsPart(part)' /\ DOMAIN part' = DOMAIN part
      BY <3>1, <3>2, PartUpdate DEF TypeOK
    <3> DEFINE b == Written(disk[ctx.file], conn[i], part[i].start + part[i].done, k)
    <3>4. disk[ctx.file] \in [Offsets -> Versions \cup {Hole, Garbage}]
      BY <1>2 DEF TypeOK
    <3>5. b \in [Offsets -> Versions \cup {Hole, Garbage}]
      BY <1>2, <3>4 DEF Written, ConnType, Hole
    <3>6. disk' = [disk EXCEPT ![ctx.file] = b]
      BY <2>3 DEF Writes
    <3> HIDE DEF b
    <3>7. disk' \in [Files -> [Offsets -> Versions \cup {Hole, Garbage}]]
      BY <3>5, <3>6 DEF TypeOK
    <3>8. ctx' \in CtxType /\ ctx'.probing = ctx.probing /\ ctx'.file = ctx.file
      BY <1>2, <2>3 DEF Writes, CtxType
    <3> QED
      BY <3>3, <3>7, <3>8
  <2> QED
    BY <2>1, <2>2, <2>3, WriteBodyCases
<1>4. IsConn'
  BY <1>3, ConnUpdate, WriteBodyCases DEF TypeOK
<1>5. ProbeInv'
  BY <1>3 DEF ProbeInv
<1> QED
  BY <1>1, <1>3, <1>4, <1>5, Frames
  DEF TypeOK, CallbackFrame, resumeVars, requestVars, IsCtx, PcStates

LEMMA NetworkType ==
  ASSUME TypeOK, ProbeInv, Network
  PROVE  TypeOK' /\ ProbeInv'
<1>1. PICK i \in DOMAIN conn :
        \/ Reply(i) \/ TransferFails(i) \/ Refuse(i)
        \/ Receive(i) \/ EndOfBody(i)
        \/ \E f \in Files : FinalizeProbing(i, f) \/ FinalizeFails(i, f)
  BY DEF Network
<1>2. i \in DOMAIN part
  BY DEF TypeOK, IsConn
<1>3. CASE Reply(i)
  BY <1>3, ReplyType
<1>4. CASE TransferFails(i) \/ Refuse(i) \/ EndOfBody(i)
  BY <1>4, TransferEndType
<1>5. CASE Receive(i)
  BY <1>2, <1>5, WriteBodyType DEF Receive
<1>6. CASE \E f \in Files : FinalizeProbing(i, f) \/ FinalizeFails(i, f)
  BY <1>6, FinalizeProbingType, FinalizeFailsType
<1> QED
  BY <1>1, <1>3, <1>4, <1>5, <1>6

\* What the worker's steps have in common, except the one that goes on with a
\* write_cb: they never touch the files, the task's name for its file, or what
\* a part has done, and they only save a row that says what the task says.
Failed == ctx.status = "ERROR" /\ ctx.reason = "ERROR"
WorkerKeeps ==
  /\ entry' = entry /\ disk' = disk
  /\ ctx'.file = ctx.file /\ ctx'.probing = ctx.probing /\ ctx'.range = ctx.range
  /\ DOMAIN part' = DOMAIN part
  /\ \A i \in DOMAIN part : /\ part'[i].start = part[i].start
                            /\ part'[i].done = part[i].done
  /\ \A i \in DOMAIN part :
       conn'[i].st = "body" => conn[i].st = "body" /\ conn'[i].ver = conn[i].ver
  /\ Running /\ pc' # "write"
  /\ Running' /\ Failed => Failed'
  /\ saved' = saved \/ (saved' = Serialized /\ (ctx.range \/ ~Failed))
  /\ UNCHANGED <<loaded, overtaken>>

LEMMA SerializedType ==
  ASSUME TypeOK, saved' = Serialized
  PROVE  IsRow(saved)'
<1>1. /\ ctx \in CtxType /\ 0 \in DOMAIN part /\ DOMAIN part \subseteq Nat
      /\ \A i \in DOMAIN part : part[i] \in PartType
  BY DEF TypeOK, IsCtx, IsPart
<1> DEFINE row == [i \in DOMAIN part |->
                     [start |-> part[i].start, end |-> part[i].end,
                      done |-> part[i].done]]
<1>2. \A i \in DOMAIN row : row[i] \in RowPartType
  BY <1>1 DEF PartType, RowPartType
<1>3. saved' = [file |-> ctx.file, total |-> ctx.total, range |-> ctx.range,
                etag |-> ctx.etag, part |-> row]
  BY DEF Serialized
<1>4. DOMAIN row = DOMAIN part /\ row = [i \in DOMAIN row |-> row[i]]
  OBVIOUS
<1> HIDE DEF row
<1> QED
  BY <1>1, <1>2, <1>3, <1>4 DEF IsRow, CtxType

LEMMA EmitType ==
  ASSUME TypeOK, Emit
  PROVE  IsRow(saved)' /\ faults' \in Nat
BY SerializedType, Frames DEF Emit, Fault, TypeOK

LEMMA MaybeEmitType ==
  ASSUME TypeOK, MaybeEmit
  PROVE  IsRow(saved)' /\ faults' \in Nat
BY EmitType, Frames DEF MaybeEmit, TypeOK

LEMMA SpawnType ==
  ASSUME TypeOK, NEW broken \in SUBSET Mountable, SpawnNewParts(broken)
  PROVE  /\ IsPart(part)' /\ IsConn' /\ faults' \in Nat
         /\ DOMAIN part' = DOMAIN part
         /\ \A i \in DOMAIN part : /\ part'[i].start = part[i].start
                                  /\ part'[i].done = part[i].done
         /\ \A i \in DOMAIN conn :
              conn'[i].st = "body" => conn'[i] = conn[i]
<1>1. /\ 0 \in DOMAIN part /\ DOMAIN part \subseteq Nat
      /\ \A i \in DOMAIN part : part[i] \in PartType /\ conn[i] \in ConnType
      /\ DOMAIN conn = DOMAIN part
  BY DEF TypeOK, IsPart, IsConn
<1>2. ASSUME NEW i \in DOMAIN part
      PROVE  /\ part'[i] \in PartType
             /\ part'[i].start = part[i].start /\ part'[i].done = part[i].done
  BY <1>1 DEF SpawnNewParts, PartType, Reasons
<1>3. ASSUME NEW i \in DOMAIN part
      PROVE  /\ conn'[i] \in ConnType
             /\ conn'[i].st = "body" => conn'[i] = conn[i]
  <2>1. Request(conn[i], part[i]) \in ConnType /\ Request(conn[i], part[i]).st = "sent"
    BY <1>1, RequestType DEF TypeOK
  <2>2. [conn[i] EXCEPT !.st = "idle"] \in ConnType
    BY <1>1 DEF ConnType, ConnStates
  <2>3. \/ conn'[i] = conn[i]
        \/ conn'[i] = Request(conn[i], part[i])
        \/ conn'[i] = [conn[i] EXCEPT !.st = "idle"]
    BY <1>1 DEF SpawnNewParts
  <2>4. [conn[i] EXCEPT !.st = "idle"].st = "idle"
    BY <1>1 DEF ConnType
  <2> QED
    BY <1>1, <2>1, <2>2, <2>3, <2>4
<1>4. DOMAIN part' = DOMAIN part /\ part' = [i \in DOMAIN part' |-> part'[i]]
  BY DEF SpawnNewParts
<1>5. conn' = [i \in DOMAIN part' |-> conn'[i]]
  BY <1>1, <1>4 DEF SpawnNewParts
<1>6. UNCHANGED faults \/ Fault
  BY DEF SpawnNewParts
<1>7. faults' \in Nat
  BY <1>6 DEF Fault, TypeOK
<1> QED
  BY <1>1, <1>2, <1>3, <1>4, <1>5, <1>7 DEF IsPart, IsConn

\* Any set of reasons that is not empty has a worst one.
LEMMA WorstExists ==
  ASSUME NEW S \in SUBSET Reasons, S # {}
  PROVE  \E r \in S : \A s \in S : Rank[s] <= Rank[r]
<1>1. /\ Rank["NONE"] = 0 /\ Rank["NETWORK"] = 1 /\ Rank["FAIL"] = 2
      /\ Rank["ERROR"] = 3 /\ Rank["AUTH"] = 4
  BY DEF Rank, Reasons
<1>2. \A s \in S : s \in {"NONE", "NETWORK", "FAIL", "ERROR", "AUTH"}
  BY DEF Reasons
<1>3. CASE "AUTH" \in S
  BY <1>1, <1>2, <1>3
<1>4. CASE "AUTH" \notin S /\ "ERROR" \in S
  BY <1>1, <1>2, <1>4
<1>5. CASE "AUTH" \notin S /\ "ERROR" \notin S /\ "FAIL" \in S
  BY <1>1, <1>2, <1>5
<1>6. CASE /\ "AUTH" \notin S /\ "ERROR" \notin S /\ "FAIL" \notin S
           /\ "NETWORK" \in S
  BY <1>1, <1>2, <1>6
<1>7. CASE S = {"NONE"}
  BY <1>1, <1>7
<1> QED
  BY <1>2, <1>3, <1>4, <1>5, <1>6, <1>7

LEMMA AggregatedType ==
  ASSUME TypeOK
  PROVE  /\ Aggregated \in CtxType
         /\ Aggregated.file = ctx.file /\ Aggregated.probing = ctx.probing
         /\ Aggregated.range = ctx.range
<1>1. ctx \in CtxType
  BY DEF TypeOK, IsCtx
<1>2. PartsIn("ERROR") # {} => WorstReason \in Reasons
  <2> SUFFICES ASSUME PartsIn("ERROR") # {}
               PROVE  WorstReason \in Reasons
    OBVIOUS
  <2> DEFINE S == {part[i].reason : i \in PartsIn("ERROR")}
  <2>1. S \in SUBSET Reasons
    BY DEF PartsIn, TypeOK, IsPart, PartType
  <2>2. \E r \in S : \A s \in S : Rank[s] <= Rank[r]
    <3> HIDE DEF S
    <3> SUFFICES S # {}
      BY <2>1, WorstExists
    <3> QED
      BY DEF S
  <2>3. \E r \in S : \A i \in PartsIn("ERROR") : Rank[part[i].reason] <= Rank[r]
    BY <2>2
  <2>4. WorstReason \in S
    BY <2>3 DEF WorstReason
  <2> QED
    BY <2>1, <2>4
<1> QED
  BY ZenonT(30), <1>1, <1>2 DEF Aggregated, CtxType, Statuses, Reasons
LEMMA EmitAndType ==
  ASSUME TypeOK, NEW next \in CtxType, EmitAnd(next)
  PROVE  /\ IsRow(saved)' /\ faults' \in Nat /\ ctx' \in CtxType
         /\ ctx'.file = next.file /\ ctx'.probing = next.probing
         /\ ctx'.range = next.range
         /\ ctx'.status = next.status /\ ctx'.reason = next.reason
         /\ saved' = saved \/ (saved' = Serialized /\ ctx.range)
<1>1. IsRow(saved)' /\ faults' \in Nat
  BY MaybeEmitType DEF EmitAnd
<1>2. saved' = saved \/ (saved' = Serialized /\ ctx.range)
  BY DEF EmitAnd, MaybeEmit, Emits, Emit
<1> DEFINE advanced == next.advanced /\ ~Emits
<1>3. ctx' = [next EXCEPT !.advanced = advanced] /\ advanced \in BOOLEAN
  BY DEF EmitAnd
<1> HIDE DEF advanced
<1>4. /\ ctx' \in CtxType
      /\ ctx'.file = next.file /\ ctx'.probing = next.probing
      /\ ctx'.range = next.range
      /\ ctx'.status = next.status /\ ctx'.reason = next.reason
  BY <1>3 DEF CtxType
<1> QED
  BY <1>1, <1>2, <1>4

\* All the connections are taken off the multi handle.
LEMMA IdleType ==
  ASSUME TypeOK, DOMAIN part' = DOMAIN part,
         conn' = [i \in DOMAIN conn |-> [conn[i] EXCEPT !.st = "idle"]]
  PROVE  IsConn' /\ \A i \in DOMAIN part : conn'[i].st = "idle"
<1>1. \A i \in DOMAIN part :
        /\ [conn[i] EXCEPT !.st = "idle"] \in ConnType
        /\ [conn[i] EXCEPT !.st = "idle"].st = "idle"
  BY DEF TypeOK, IsConn, ConnType, ConnStates
<1> QED
  BY <1>1 DEF TypeOK, IsConn

LEMMA WStartType ==
  ASSUME TypeOK, WStart
  PROVE  TypeOK' /\ WorkerKeeps
<1>1. ctx \in CtxType /\ Running /\ WorkerFrame
  BY DEF WStart, Running, TypeOK, IsCtx
<1>2. CASE /\ pc' = "done"
           /\ UNCHANGED <<downloadVars, saved, faults>>
  BY <1>1, <1>2, Frames
  DEF TypeOK, WorkerFrame, resumeVars, WorkerKeeps, downloadVars, requestVars,
      PcStates, Running
<1>3. CASE /\ pc' = "done"
           /\ EmitAnd([ctx EXCEPT !.status = "PAUSED"])
           /\ UNCHANGED <<part, conn>>
  <2> DEFINE next == [ctx EXCEPT !.status = "PAUSED"]
  <2>1. /\ next \in CtxType /\ next.file = ctx.file
        /\ next.probing = ctx.probing /\ next.range = ctx.range
    BY <1>1 DEF CtxType, Statuses
  <2>2. EmitAnd(next)
    BY <1>3
  <2> HIDE DEF next
  <2>3. /\ IsRow(saved)' /\ faults' \in Nat /\ ctx' \in CtxType
        /\ ctx'.file = ctx.file /\ ctx'.probing = ctx.probing
        /\ ctx'.range = ctx.range
        /\ saved' = saved \/ (saved' = Serialized /\ ctx.range)
    BY <2>1, <2>2, EmitAndType
  <2> QED
    BY <1>1, <1>3, <2>3, Frames
    DEF TypeOK, WorkerFrame, resumeVars, WorkerKeeps, requestVars, PcStates,
        Running, IsCtx
<1>4. CASE /\ pc' = "top"
           /\ \E broken \in SUBSET Mountable : SpawnNewParts(broken)
           /\ UNCHANGED <<ctx, saved>>
  <2>1. PICK broken \in SUBSET Mountable : SpawnNewParts(broken)
    BY <1>4
  <2> QED
    BY <1>1, <1>4, <2>1, SpawnType, Frames
    DEF TypeOK, WorkerFrame, resumeVars, WorkerKeeps, requestVars, PcStates,
        Failed, IsConn
<1>5. CASE /\ pc' = "finish"
           /\ Fault
           /\ ctx' = [ctx EXCEPT !.status = "ERROR", !.reason = "ERROR"]
           /\ UNCHANGED <<part, conn, saved>>
  <2>1. /\ ctx' \in CtxType /\ ctx'.file = ctx.file
        /\ ctx'.probing = ctx.probing /\ ctx'.range = ctx.range
        /\ ctx'.status = "ERROR" /\ ctx'.reason = "ERROR"
    BY <1>1, <1>5 DEF CtxType, Statuses, Reasons
  <2>2. faults' \in Nat
    BY <1>5 DEF Fault, TypeOK
  <2> QED
    BY <1>1, <1>5, <2>1, <2>2, Frames
    DEF TypeOK, WorkerFrame, resumeVars, WorkerKeeps, requestVars, PcStates,
        Failed, IsCtx
<1> QED
  BY <1>2, <1>3, <1>4, <1>5 DEF WStart

LEMMA WTopType ==
  ASSUME TypeOK, WTop
  PROVE  TypeOK' /\ WorkerKeeps
<1>1. /\ ctx' = ctx /\ part' = part /\ conn' = conn /\ saved' = saved
      /\ pc' \in {"finish", "perform"} /\ Running /\ WorkerFrame
  BY DEF WTop, downloadVars, Running
<1>2. faults' = faults
  BY DEF WTop
<1> QED
  BY <1>1, <1>2, Frames
  DEF TypeOK, WorkerFrame, resumeVars, WorkerKeeps, requestVars, PcStates, Failed

LEMMA WPollType ==
  ASSUME TypeOK, WPoll
  PROVE  TypeOK' /\ WorkerKeeps
<1>1. /\ ctx' = ctx /\ saved' = saved
      /\ pc' \in {"msgs", "finish"} /\ Running /\ WorkerFrame
  BY DEF WPoll, Running
<1>2. CASE \E broken \in SUBSET Mountable : SpawnNewParts(broken)
  <2>1. PICK broken \in SUBSET Mountable : SpawnNewParts(broken)
    BY <1>2
  <2> QED
    BY <1>1, <2>1, SpawnType, Frames
    DEF TypeOK, WorkerFrame, resumeVars, WorkerKeeps, requestVars, PcStates,
        Failed, IsConn
<1>3. CASE Fault /\ UNCHANGED <<part, conn>>
  <2>1. faults' \in Nat
    BY <1>3 DEF Fault, TypeOK
  <2> QED
    BY <1>1, <1>3, <2>1, Frames
    DEF TypeOK, WorkerFrame, resumeVars, WorkerKeeps, requestVars, PcStates,
        Failed
<1> QED
  BY <1>2, <1>3 DEF WPoll

LEMMA WEmitType ==
  ASSUME TypeOK, WEmit
  PROVE  TypeOK' /\ WorkerKeeps
<1>1. /\ EmitAnd(ctx) /\ ctx \in CtxType /\ part' = part /\ conn' = conn
      /\ pc' = "top" /\ Running /\ WorkerFrame
  BY DEF WEmit, Running, TypeOK, IsCtx
<1>2. /\ IsRow(saved)' /\ faults' \in Nat /\ ctx' \in CtxType
      /\ ctx'.file = ctx.file /\ ctx'.probing = ctx.probing
      /\ ctx'.range = ctx.range
      /\ ctx'.status = ctx.status /\ ctx'.reason = ctx.reason
      /\ saved' = saved \/ (saved' = Serialized /\ ctx.range)
  BY <1>1, EmitAndType
<1> QED
  BY <1>1, <1>2, Frames
  DEF TypeOK, WorkerFrame, resumeVars, WorkerKeeps, requestVars, PcStates,
      Failed, IsCtx

LEMMA WFinishType ==
  ASSUME TypeOK, WFinish
  PROVE  TypeOK' /\ WorkerKeeps
<1>1. /\ pc' = "leave" /\ part' = part /\ Running /\ WorkerFrame
      /\ conn' = [i \in DOMAIN conn |-> [conn[i] EXCEPT !.st = "idle"]]
  BY DEF WFinish, Running
<1>2. /\ Aggregated \in CtxType
      /\ Aggregated.file = ctx.file /\ Aggregated.probing = ctx.probing
      /\ Aggregated.range = ctx.range
  BY AggregatedType
<1>3. Failed => Aggregated = ctx
  BY DEF Failed, Aggregated
<1>4. /\ IsRow(saved)' /\ faults' \in Nat /\ ctx' \in CtxType
      /\ ctx'.file = ctx.file /\ ctx'.probing = ctx.probing
      /\ ctx'.range = ctx.range
      /\ Failed => Failed'
      /\ saved' = saved \/ (saved' = Serialized /\ (ctx.range \/ ~Failed))
  <2>1. CASE /\ Aggregated.status = "COMPLETED"
             /\ Emit
             /\ ctx' = Aggregated
    BY <1>2, <1>3, <2>1, EmitType DEF Emit, Failed
  <2>2. CASE EmitAnd(Aggregated)
    <3>1. /\ IsRow(saved)' /\ faults' \in Nat /\ ctx' \in CtxType
          /\ ctx'.file = Aggregated.file /\ ctx'.probing = Aggregated.probing
          /\ ctx'.range = Aggregated.range
          /\ ctx'.status = Aggregated.status /\ ctx'.reason = Aggregated.reason
          /\ saved' = saved \/ (saved' = Serialized /\ ctx.range)
      BY <1>2, <2>2, EmitAndType
    <3> QED
      BY <1>2, <1>3, <3>1 DEF Failed
  <2>3. CASE ctx' = Aggregated /\ UNCHANGED <<saved, faults>>
    BY <1>2, <1>3, <2>3, Frames DEF Failed, TypeOK
  <2> QED
    BY <2>1, <2>2, <2>3 DEF WFinish
<1> QED
  BY <1>1, <1>4, Frames, IdleType
  DEF TypeOK, WorkerFrame, resumeVars, WorkerKeeps, requestVars, PcStates, IsCtx

LEMMA WLeaveType ==
  ASSUME TypeOK, WLeave
  PROVE  TypeOK' /\ WorkerKeeps
<1>1. /\ pc' = "done" /\ part' = part /\ conn' = conn /\ saved' = saved
      /\ faults' = faults /\ Running /\ WorkerFrame /\ ctx \in CtxType
  BY DEF WLeave, Running, TypeOK, IsCtx
<1> DEFINE status == IF pauseReq /\ ~cancelReq THEN "PAUSED" ELSE ctx.status
<1>2. ctx' = [ctx EXCEPT !.status = status]
  BY DEF WLeave
<1>3. status \in Statuses
  BY <1>1 DEF CtxType, Statuses
<1> HIDE DEF status
<1>4. /\ ctx' \in CtxType /\ ctx'.file = ctx.file
      /\ ctx'.probing = ctx.probing /\ ctx'.range = ctx.range
  BY <1>1, <1>2, <1>3 DEF CtxType
<1> QED
  BY <1>1, <1>4, Frames
  DEF TypeOK, WorkerFrame, resumeVars, WorkerKeeps, requestVars, PcStates,
      Running, IsCtx
\* handle_part_result leaves a part where it is, and its connection either
\* idle or with a new request.
LEMMA WMsgCases ==
  ASSUME TypeOK, NEW i \in DOMAIN part, WMsg(i)
  PROVE  /\ faults' \in Nat
         /\ \E c \in ConnType :
              conn' = [conn EXCEPT ![i] = c] /\ c.st \in {"idle", "sent"}
         /\ \/ part' = part
            \/ PartError(i)
            \/ \E reason \in Reasons, size \in Nat :
                 \E status \in {"COMPLETED", "ERROR"} :
                   part' = [part EXCEPT ![i].status = status,
                                        ![i].reason = reason, ![i].size = size]
<1>1. /\ part[i] \in PartType /\ conn[i] \in ConnType /\ IsCtx
  BY DEF TypeOK, IsPart, IsConn
<1> DEFINE p == part[i]
           c == conn[i]
           v == Verdict(p, c)
           Again(d) == \/ /\ conn' = [conn EXCEPT ![i] = Request(d, p)]
                          /\ UNCHANGED <<part, faults>>
                       \/ Fault /\ PartError(i) /\ Drop(i)
           Ends(status, reason, size) ==
             /\ part' = [part EXCEPT ![i].status = status, ![i].reason = reason,
                                     ![i].size = size]
             /\ Drop(i)
             /\ UNCHANGED faults
           idle == [c EXCEPT !.st = "idle"]
<1>2. idle \in ConnType /\ idle.st = "idle"
  BY <1>1 DEF ConnType, ConnStates
<1>3. Drop(i) => conn' = [conn EXCEPT ![i] = idle]
  BY DEF Drop
<1>4. Fault => faults' \in Nat
  BY DEF Fault, TypeOK
<1>5. faults \in Nat
  BY DEF TypeOK
<1>6. \/ Drop(i) /\ UNCHANGED <<part, faults>>
      \/ Ends("COMPLETED", "NONE", p.size)
      \/ Ends("COMPLETED", "NONE", p.done)
      \/ Again(c)
      \/ Again([c EXCEPT !.retry = @ + 1])
      \/ Ends("ERROR", GiveupReason(c), p.size)
  BY DEF WMsg, Retried
<1> HIDE DEF idle, v
<1>7. CASE Drop(i) /\ UNCHANGED <<part, faults>>
  BY <1>2, <1>3, <1>5, <1>7
<1>8. ASSUME NEW d \in ConnType, Again(d)
      PROVE  /\ faults' \in Nat
             /\ \E e \in ConnType :
                  conn' = [conn EXCEPT ![i] = e] /\ e.st \in {"idle", "sent"}
             /\ part' = part \/ PartError(i)
  <2>1. Request(d, p) \in ConnType /\ Request(d, p).st = "sent"
    BY <1>1, RequestType
  <2>2. CASE /\ conn' = [conn EXCEPT ![i] = Request(d, p)]
             /\ UNCHANGED <<part, faults>>
    BY <1>5, <2>1, <2>2
  <2>3. CASE Fault /\ PartError(i) /\ Drop(i)
    BY <1>2, <1>3, <1>4, <2>3
  <2> QED
    BY <1>8, <2>2, <2>3
<1>9. ASSUME NEW status \in {"COMPLETED", "ERROR"}, NEW reason \in Reasons,
             NEW size \in Nat, Ends(status, reason, size)
      PROVE  /\ faults' \in Nat
             /\ \E e \in ConnType :
                  conn' = [conn EXCEPT ![i] = e] /\ e.st \in {"idle", "sent"}
             /\ \E r \in Reasons, z \in Nat :
                  \E s \in {"COMPLETED", "ERROR"} :
                    part' = [part EXCEPT ![i].status = s, ![i].reason = r,
                                         ![i].size = z]
  BY <1>2, <1>3, <1>5, <1>9
<1>10. /\ p.size \in Nat /\ p.done \in Nat /\ "NONE" \in Reasons
       /\ GiveupReason(c) \in Reasons
  BY <1>1 DEF PartType, Reasons, GiveupReason, FailureReason
<1>11. [c EXCEPT !.retry = @ + 1] \in ConnType
  BY <1>1 DEF ConnType
<1>12. CASE Again(c)
  <2> HIDE DEF Again
  <2> QED
    BY <1>1, <1>8, <1>12
<1>13. CASE Again([c EXCEPT !.retry = @ + 1])
  <2> HIDE DEF Again
  <2> QED
    BY <1>8, <1>11, <1>13
<1> HIDE DEF Ends, Again
<1>14. CASE Ends("COMPLETED", "NONE", p.size)
  BY <1>9, <1>10, <1>14
<1>15. CASE Ends("COMPLETED", "NONE", p.done)
  BY <1>9, <1>10, <1>15
<1>16. CASE Ends("ERROR", GiveupReason(c), p.size)
  BY <1>9, <1>10, <1>16
<1> QED
  BY <1>6, <1>7, <1>12, <1>13, <1>14, <1>15, <1>16

LEMMA WMsgType ==
  ASSUME TypeOK, NEW i \in DOMAIN part, WMsg(i)
  PROVE  TypeOK' /\ WorkerKeeps
<1>1. /\ pc' = pc /\ pc = "msgs" /\ Running /\ saved' = saved /\ WorkerFrame
  BY DEF WMsg, Running
<1>2. ctx' \in CtxType /\ ctx'.file = ctx.file /\ ctx'.probing = ctx.probing
      /\ ctx'.range = ctx.range
      /\ ctx'.status = ctx.status /\ ctx'.reason = ctx.reason
  <2>1. part[i].done \in Int /\ ctx \in CtxType
    BY DEF TypeOK, IsPart, IsCtx, PartType
  <2>2. ctx' = ctx \/ \E total \in Int : ctx' = [ctx EXCEPT !.total = total]
    <3>1. CASE Stopping
      BY <1>1, <3>1 DEF WMsg
    <3>2. CASE ~Stopping
      <4> DEFINE total == IF Verdict(part[i], conn[i]) = "whole" /\ ctx.total <= 0
                          THEN part[i].done ELSE ctx.total
      <4>1. ctx' = [ctx EXCEPT !.total = total]
        BY <3>2 DEF WMsg
      <4>2. total \in Int
        BY <2>1 DEF CtxType
      <4> QED
        BY <4>1, <4>2
    <3> QED
      BY <3>1, <3>2
  <2> QED
    BY <2>1, <2>2 DEF CtxType
<1>3. /\ IsPart(part)' /\ DOMAIN part' = DOMAIN part
      /\ \A j \in DOMAIN part : /\ part'[j].start = part[j].start
                               /\ part'[j].done = part[j].done
  <2>1. CASE part' = part
    BY <2>1, Frames DEF TypeOK
  <2>2. CASE PartError(i)
    BY <2>2, PartErrorType DEF TypeOK
  <2>3. CASE \E reason \in Reasons, size \in Nat :
               \E status \in {"COMPLETED", "ERROR"} :
                 part' = [part EXCEPT ![i].status = status,
                                      ![i].reason = reason, ![i].size = size]
    <3>0. PICK reason \in Reasons, size \in Nat, status \in {"COMPLETED", "ERROR"} :
            part' = [part EXCEPT ![i].status = status,
                                 ![i].reason = reason, ![i].size = size]
      BY <2>3
    <3> DEFINE p == [part[i] EXCEPT !.status = status, !.reason = reason,
                                    !.size = size]
    <3>1. p \in PartType /\ p.start = part[i].start /\ p.done = part[i].done
      BY DEF TypeOK, IsPart, PartType
    <3>2. part' = [part EXCEPT ![i] = p]
      BY <3>0
    <3> HIDE DEF p
    <3>3. IsPart(part)' /\ DOMAIN part' = DOMAIN part
      BY <3>1, <3>2, PartUpdate DEF TypeOK
    <3> QED
      BY <3>1, <3>2, <3>3
  <2> QED
    BY <2>1, <2>2, <2>3, WMsgCases
<1>4. PICK c \in ConnType :
        conn' = [conn EXCEPT ![i] = c] /\ c.st \in {"idle", "sent"}
  BY WMsgCases
<1>5. IsConn'
  BY <1>3, <1>4, ConnUpdate DEF TypeOK
<1>6. \A j \in DOMAIN part :
        conn'[j].st = "body" => conn[j].st = "body" /\ conn'[j].ver = conn[j].ver
  BY <1>4 DEF TypeOK, IsConn
<1>7. faults' \in Nat
  BY WMsgCases
<1> QED
  BY <1>1, <1>2, <1>3, <1>5, <1>6, <1>7, Frames
  DEF TypeOK, WorkerFrame, resumeVars, WorkerKeeps, requestVars, PcStates,
      Failed, IsCtx

LEMMA WorkerType ==
  ASSUME TypeOK, Worker, ~ReceiveFirst
  PROVE  TypeOK' /\ WorkerKeeps
<1>1. CASE \E i \in DOMAIN conn : WMsg(i)
  BY <1>1, WMsgType DEF TypeOK, IsConn
<1> QED
  BY <1>1, WStartType, WTopType, WPollType, WEmitType, WFinishType, WLeaveType
  DEF Worker

-----------------------------------------------------------------------------
(* The types hold: an answered probe stays answered, and what is received   *)
(* belongs to a version.                                                    *)

TypeInv == TypeOK /\ ProbeInv /\ ConnInv

LEMMA TypeInvInit == Init => TypeInv
<1> SUFFICES ASSUME Init PROVE TypeInv
  OBVIOUS
<1>1. IsCtx /\ IsPart(part) /\ IsConn
  BY FreshTypes, NewConnType DEF Init, IsCtx, IsConn
<1>2. IsRow(saved) /\ IsRow(loaded) /\ overtaken \in BOOLEAN
  BY NoResumeType DEF Init
<1>3. site \in Sites /\ version \in Versions /\ pc \in PcStates
  BY DownloadAssumption DEF Init, PcStates
<1>4. /\ pauseReq \in BOOLEAN /\ cancelReq \in BOOLEAN
      /\ entry \in [Files -> {"free", "dir", "file"}]
      /\ disk \in [Files -> [Offsets -> Versions \cup {Hole, Garbage}]]
      /\ runs \in Nat /\ faults \in Nat
  BY DEF Init
<1>5. ProbeInv
  BY FreshTypes DEF Init, ProbeInv, FreshCtx
<1>6. ConnInv
  BY FreshTypes, NewConnType DEF Init, ConnInv
<1> QED
  BY <1>1, <1>2, <1>3, <1>4, <1>5, <1>6 DEF TypeInv, TypeOK

LEMMA ReplyVersion ==
  ASSUME TypeOK, ConnInv, NEW i \in DOMAIN conn, Reply(i)
  PROVE  \A j \in DOMAIN conn' : conn'[j].st = "body" => conn'[j].ver \in Versions
<1>1. conn[i] \in ConnType /\ version \in Versions
  BY DEF TypeOK, IsConn
<1>2. PICK code \in Codes(conn[i]) : \E last \in BodyEnds(conn[i], code) :
        IF Drifted(i, code) THEN MarkDrift(i) ELSE AcceptHeaders(i, code, last)
  BY DEF Reply
<1>3. PICK last \in BodyEnds(conn[i], code) :
        IF Drifted(i, code) THEN MarkDrift(i) ELSE AcceptHeaders(i, code, last)
  BY <1>2
<1>4. \E c : /\ conn' = [conn EXCEPT ![i] = c]
             /\ c.st = "body" => c.ver \in Versions
  <2>1. CASE MarkDrift(i)
    BY <1>1, <2>1, ClosedType DEF MarkDrift, Results
  <2>2. CASE AcceptHeaders(i, code, last)
    <3> DEFINE from == IF code = 200 THEN 0 ELSE conn[i].pos
               seen == IF ctx.probing THEN SeenTotal(code) ELSE 0
               d == [conn[i] EXCEPT !.st = "body", !.code = code, !.ver = version,
                              !.pos = from, !.stop = last, !.seen = seen]
               e == IF code = 416 THEN Closed(d, "http") ELSE d
    <3>1. conn' = [conn EXCEPT ![i] = e]
      BY <2>2 DEF AcceptHeaders
    <3>2. d.ver = version
      BY <1>1 DEF ConnType
    <3>3. Closed(d, "http").ver = d.ver
      BY <1>1 DEF ConnType, Closed
    <3> HIDE DEF d
    <3>4. e.st = "body" => e.ver \in Versions
      BY <1>1, <3>2, <3>3
    <3> HIDE DEF e
    <3> QED
      BY <3>1, <3>4
  <2> QED
    BY <1>3, <2>1, <2>2
<1> QED
  BY <1>4 DEF ConnInv

LEMMA ConnInvStep ==
  ASSUME TypeInv, [Next]_vars
  PROVE  ConnInv'
<1> USE DEF TypeInv
<1>1. DOMAIN conn = DOMAIN part
  BY DEF TypeOK, IsConn
<1>2. CASE UNCHANGED vars
  BY <1>2 DEF vars, downloadVars, ConnInv
<1>3. CASE Environment
  <2>1. CASE Add \/ Crash
    BY <2>1, FreshTypes, NewConnType DEF Add, Crash, StartTask, ConnInv
  <2>2. CASE Resume
    <3>1. \A i \in DOMAIN conn' : conn'[i] = NewConn
      BY <2>2, FreshTypes DEF Resume
    <3> QED
      BY <2>2, <3>1, NewConnType DEF Resume, StartTask, ConnInv
  <2>3. CASE \/ Load \/ GoOn \/ Pause \/ Cancel \/ Change
             \/ \E f \in Files : UserRemove(f)
    BY <2>3 DEF Load, GoOn, Pause, Cancel, Change, UserRemove, downloadVars, ConnInv
  <2> QED
    BY <1>3, <2>1, <2>2, <2>3 DEF Environment
<1>4. ASSUME NEW i \in DOMAIN conn, Reply(i)
      PROVE  ConnInv'
  BY <1>4, ReplyVersion DEF Reply, ConnInv
<1>5. ASSUME NEW i \in DOMAIN conn, TransferFails(i) \/ Refuse(i) \/ EndOfBody(i)
      PROVE  ConnInv'
  <2>1. conn[i] \in ConnType /\ pc' = "perform"
    BY <1>1, <1>5 DEF TypeOK, IsConn, TransferFails, Refuse, EndOfBody
  <2>2. \E c \in ConnType : conn' = [conn EXCEPT ![i] = c] /\ c.st = "closed"
    BY <1>5, TransferEndCloses
  <2> QED
    BY <2>1, <2>2 DEF ConnInv
<1>6. ASSUME NEW i \in DOMAIN conn, NEW f \in Files, FinalizeProbing(i, f)
      PROVE  ConnInv'
  <2>1. /\ ctx.probing /\ DOMAIN conn = {0} /\ i = 0 /\ conn[0] \in ConnType
        /\ conn[0].st = "body" /\ conn[0].pos < conn[0].stop
    BY <1>1, <1>6 DEF FinalizeProbing, BodyArrives, ProbeInv, TypeOK, IsConn
  <2>2. pc' = "write" /\ ctx'.probing = FALSE
    BY <1>6 DEF FinalizeProbing, TypeOK, IsCtx, CtxType
  <2>3. \A j \in DOMAIN conn' : j # 0 => conn'[j] = NewConn
    BY <1>6, <2>1 DEF FinalizeProbing
  <2>4. conn'[0] = conn[0] \/ conn'[0] = [conn[0] EXCEPT !.retry = 0]
    <3>1. 0 \in PartIds(TotalFound(conn[i]))
      <4>1. TotalFound(conn[i]) \in Int
        BY <2>1 DEF TotalFound, ConnType, TypeOK, IsCtx, CtxType
      <4> QED
        BY <4>1, CutTypes
    <3> QED
      BY <1>6, <2>1, <3>1 DEF FinalizeProbing
  <2>5. /\ conn'[0].st = "body" /\ conn'[0].pos < conn'[0].stop
        /\ conn'[0].ver = conn[0].ver
    BY <2>1, <2>4 DEF ConnType
  <2> QED
    BY <2>1, <2>2, <2>3, <2>5, NewConnType DEF ConnInv
<1>7. ASSUME NEW i \in DOMAIN conn, NEW f \in Files, FinalizeFails(i, f)
      PROVE  ConnInv'
  <2>1. conn[i] \in ConnType /\ pc' = "perform"
    BY <1>1, <1>7 DEF TypeOK, IsConn, FinalizeFails, BodyArrives
  <2>2. /\ DOMAIN conn' = DOMAIN conn /\ conn'[i].st = "closed"
        /\ \A j \in DOMAIN conn \ {i} : conn'[j] = conn[j]
    BY <1>7, <2>1 DEF FinalizeFails, Closed, ConnType
  <2> QED
    BY <2>1, <2>2 DEF ConnInv
<1>8. ASSUME NEW i \in DOMAIN part, WriteBody(i)
      PROVE  ConnInv'
  BY <1>1, <1>8, WriteBodyCases DEF ConnInv
<1>9. CASE Worker /\ ~ReceiveFirst
  <2>1. WorkerKeeps /\ DOMAIN conn' = DOMAIN part
    BY <1>9, WorkerType DEF WorkerKeeps, TypeOK, IsConn
  <2> QED
    BY <1>1, <2>1 DEF ConnInv, WorkerKeeps
<1> QED
  BY <1>1, <1>2, <1>3, <1>4, <1>5, <1>6, <1>7, <1>8, <1>9
  DEF Next, Network, Receive, ReceiveFirst, TypeOK, IsPart

LEMMA TypeInvStep ==
  ASSUME TypeInv, [Next]_vars
  PROVE  TypeInv'
<1> USE DEF TypeInv
<1>1. CASE UNCHANGED vars
  <2>1. /\ ctx' = ctx /\ part' = part /\ conn' = conn /\ saved' = saved
        /\ entry' = entry /\ disk' = disk /\ runs' = runs /\ faults' = faults
        /\ pauseReq' = pauseReq /\ cancelReq' = cancelReq
        /\ site' = site /\ version' = version /\ pc' = pc
        /\ loaded' = loaded /\ overtaken' = overtaken
    BY <1>1
    DEF vars, downloadVars, storageVars, resumeVars, boundVars, requestVars
  <2> QED
    BY <2>1, ConnInvStep, Frames DEF TypeOK, ProbeInv
<1>2. CASE Environment
  BY <1>2, EnvironmentType, ConnInvStep
<1>3. CASE Network
  BY <1>3, NetworkType, ConnInvStep
<1>4. CASE ReceiveFirst
  <2>1. ~ctx.probing /\ 0 \in DOMAIN part /\ WriteBody(0)
    BY <1>4 DEF ReceiveFirst, ConnInv, TypeOK, IsPart
  <2> QED
    BY <2>1, WriteBodyType, ConnInvStep
<1>5. CASE Worker /\ ~ReceiveFirst
  <2>1. TypeOK' /\ WorkerKeeps
    BY <1>5, WorkerType
  <2>2. ProbeInv'
    BY <2>1 DEF WorkerKeeps, ProbeInv, TypeOK, IsPart
  <2> QED
    BY <2>1, <2>2, ConnInvStep
<1> QED
  BY <1>1, <1>2, <1>3, <1>4, <1>5 DEF Next

\* Whatever the server, the users, the network and the disk do, every variable
\* keeps its type; in particular each part stays with its connection, and a row
\* that names parts always has a part 0.
THEOREM TypeCorrect == Spec => []TypeOK
<1>1. Init => TypeInv
  BY TypeInvInit
<1>2. TypeInv /\ [Next]_vars => TypeInv'
  BY TypeInvStep
<1>3. TypeInv => TypeOK
  BY DEF TypeInv
<1> QED
  BY <1>1, <1>2, <1>3, PTL DEF Spec

-----------------------------------------------------------------------------
(* The row never runs ahead of the file.                                    *)

\* Files that only gain bytes keep what parts with the same progress count.
LEMMA BytesKept ==
  ASSUME NEW b, NEW c, NEW p, NEW q, HasBytes(b, p),
         DOMAIN q = DOMAIN p,
         \A i \in DOMAIN p : q[i].start = p[i].start /\ q[i].done = p[i].done,
         \A o \in Offsets : b[o] # Hole => c[o] # Hole
  PROVE  HasBytes(c, q)
BY DEF HasBytes

\* The rows after a step are those before it, or none, or what the worker has
\* serialized.
LEMMA RowsAre ==
  ASSUME TypeOK
  PROVE  \A r \in Rows : IsRow(r) /\ (r.file # NoFile => r.file \in Files)
BY DEF Rows, TypeOK, IsRow

LEMMA NoResumeIs ==
  /\ NoResume.file = NoFile /\ ~NoResume.range
  /\ DOMAIN NoResume.part = {}
BY DEF NoResume

LEMMA RowsStay == ASSUME UNCHANGED <<saved, loaded>> PROVE Rows' = Rows
BY DEF Rows

LEMMA EnvironmentRows ==
  ASSUME Environment
  PROVE  saved' = saved /\ \A r \in Rows' : r \in Rows \/ r = NoResume
<1>1. saved' = saved /\ loaded' \in {loaded, saved, NoResume}
  BY DEF Environment, Add, Load, GoOn, Resume, StartTask, Pause, Cancel, Crash,
         Change, UserRemove, storageVars, resumeVars
<1> QED
  BY <1>1 DEF Rows

LEMMA EnvironmentSafe ==
  ASSUME IInv, "wrapper" \notin UserRemoves, Environment, TypeInv'
  PROVE  EntryInv' /\ DiskInv'
<1> USE DEF IInv, TypeInv
<1>1. /\ \A r \in Rows : r.file # NoFile => r.file \in Files
      /\ \A r \in Rows' : r \in Rows \/ r.file = NoFile
  BY RowsAre, EnvironmentRows DEF NoResume
<1>2. CASE Add \/ Crash
  <2>1. entry' = entry /\ disk' = disk /\ ctx' = FreshCtx
    BY <1>2 DEF Add, StartTask, Crash, storageVars
  <2>2. ctx'.probing
    BY <2>1 DEF FreshCtx
  <2> QED
    BY <1>1, <2>1, <2>2 DEF EntryInv, DiskInv, RowsOnDisk, BytesOnDisk
<1>3. CASE Resume
  <2>1. entry' = entry /\ disk' = disk
    BY <1>3 DEF Resume, StartTask, storageVars
  <2>2. CASE ~Usable
    <3>1. ctx'.probing
      BY <1>3, <2>2 DEF Resume, FreshCtx
    <3> QED
      BY <1>1, <2>1, <3>1 DEF EntryInv, DiskInv, RowsOnDisk, BytesOnDisk
  <2>3. CASE Usable
    <3>1. /\ loaded.file # NoFile /\ entry[loaded.file] = "file"
          /\ ctx'.file = loaded.file
          /\ part' = [i \in DOMAIN loaded.part |-> Restored(loaded.part[i])]
      BY <1>3, <2>3 DEF Resume, Usable, RestoredCtx, RestoredCtxNoEtag, FreshCtx
    <3>2. HasBytes(disk[loaded.file], loaded.part)
      BY <3>1 DEF DiskInv, RowsOnDisk, Rows, BytesOnDisk
    <3>3. \A i \in DOMAIN loaded.part : loaded.part[i] \in RowPartType
      BY DEF TypeOK, IsRow
    <3>4. /\ DOMAIN part' = DOMAIN loaded.part
          /\ \A i \in DOMAIN loaded.part :
               /\ part'[i].start = loaded.part[i].start
               /\ part'[i].done = loaded.part[i].done
      BY <3>1, <3>3, RestoredType
    <3>5. HasBytes(disk[loaded.file], part')
      BY <3>2, <3>4, BytesKept
    <3> QED
      BY <1>1, <2>1, <3>1, <3>5 DEF EntryInv, DiskInv, RowsOnDisk, BytesOnDisk
  <2> QED
    BY <2>2, <2>3
<1>4. CASE Load \/ GoOn \/ Pause \/ Cancel \/ Change
  <2>1. /\ entry' = entry /\ disk' = disk
        /\ ctx' = ctx /\ part' = part /\ pc' = pc
    BY <1>4 DEF Load, GoOn, Pause, Cancel, Change, storageVars, downloadVars
  <2> QED
    BY <1>1, <2>1 DEF EntryInv, DiskInv, RowsOnDisk, BytesOnDisk, Running
<1>5. ASSUME NEW f \in Files, UserRemove(f)
      PROVE  EntryInv' /\ DiskInv'
  <2>1. /\ ctx' = ctx /\ part' = part /\ pc' = pc
        /\ entry' = [entry EXCEPT ![f] = "dir"]
        /\ \A g \in Files \ {f} : disk'[g] = disk[g]
    BY <1>5 DEF UserRemove, downloadVars, TypeOK
  <2>2. ~ctx.probing => ctx.file \in Files
    BY DEF ProbeInv
  <2>3. EntryInv'
    BY <1>1, <2>1, <2>2 DEF EntryInv, Running, TypeOK
  <2>4. ASSUME NEW g \in Files, NEW p, BytesOnDisk(g, p), entry'[g] = "file"
        PROVE  HasBytes(disk'[g], p)
    BY <2>1, <2>4 DEF BytesOnDisk, TypeOK
  <2>5. ~ctx.probing => BytesOnDisk(ctx.file, part)'
    BY <2>1, <2>2, <2>4 DEF DiskInv, BytesOnDisk
  <2>6. RowsOnDisk'
    BY <1>1, <2>1, <2>4 DEF DiskInv, RowsOnDisk, BytesOnDisk
  <2> QED
    BY <2>1, <2>3, <2>5, <2>6 DEF DiskInv
<1> QED
  BY <1>2, <1>3, <1>4, <1>5 DEF Environment

\* Steps that leave the files and what the parts have done alone.
LEMMA QuietSafe ==
  ASSUME IInv, entry' = entry, disk' = disk, UNCHANGED <<saved, loaded>>,
         ctx'.file = ctx.file, ctx'.probing = ctx.probing,
         ctx'.range = ctx.range,
         Running' => Running, Running' /\ Failed => Failed',
         DOMAIN part' = DOMAIN part,
         \A i \in DOMAIN part : /\ part'[i].start = part[i].start
                               /\ part'[i].done = part[i].done
  PROVE  EntryInv' /\ DiskInv'
<1> USE DEF IInv
<1>1. EntryInv'
  BY RowsStay DEF EntryInv, Failed
<1>2. HasBytes(disk[ctx.file], part) => HasBytes(disk[ctx.file], part')
  BY BytesKept
<1>3. ~ctx'.probing => BytesOnDisk(ctx.file, part)'
  BY <1>2 DEF DiskInv, BytesOnDisk
<1>4. RowsOnDisk'
  BY RowsStay DEF DiskInv, RowsOnDisk, BytesOnDisk
<1> QED
  BY <1>1, <1>3, <1>4 DEF DiskInv

LEMMA ReplySafe ==
  ASSUME IInv, NEW i \in DOMAIN conn, Reply(i)
  PROVE  EntryInv' /\ DiskInv'
<1> USE DEF IInv
<1>1. /\ pc' = pc /\ entry' = entry /\ disk' = disk
      /\ UNCHANGED <<saved, loaded>>
      /\ ctx.status # "ERROR" /\ ctx \in CtxType /\ IsPart(part)
      /\ i \in DOMAIN part
  BY DEF Reply, CallbackFrame, resumeVars, TypeOK, IsCtx, IsConn
<1>2. \E code \in Codes(conn[i]) : \E last \in BodyEnds(conn[i], code) :
        MarkDrift(i) \/ AcceptHeaders(i, code, last)
  BY DEF Reply
<1>3. CASE MarkDrift(i)
  <2>1. /\ DOMAIN part' = DOMAIN part
        /\ \A j \in DOMAIN part : /\ part'[j].start = part[j].start
                                 /\ part'[j].done = part[j].done
    BY <1>1, <1>3, PartErrorType DEF MarkDrift
  <2>2. /\ ctx'.file = ctx.file /\ ctx'.probing = ctx.probing
        /\ ctx'.range = ctx.range
    BY <1>1, <1>3 DEF MarkDrift, CtxType
  <2>3. Running' => Running
    BY <1>1 DEF Running
  <2> QED
    BY <1>1, <2>1, <2>2, <2>3, QuietSafe DEF Failed
<1>4. ASSUME NEW code, NEW last, AcceptHeaders(i, code, last)
      PROVE  EntryInv' /\ DiskInv'
  <2>1. /\ ctx'.file = ctx.file /\ ctx'.probing = ctx.probing
        /\ ctx'.range = ctx.range /\ part' = part
    BY <1>1, <1>4 DEF AcceptHeaders, CtxType
  <2>2. Running' => Running
    BY <1>1 DEF Running
  <2> QED
    BY <1>1, <2>1, <2>2, QuietSafe DEF Failed
<1> QED
  BY <1>2, <1>3, <1>4

LEMMA FinalizeProbingSafe ==
  ASSUME IInv, NEW i \in DOMAIN conn, NEW f \in Files, FinalizeProbing(i, f)
  PROVE  EntryInv' /\ DiskInv'
<1> USE DEF IInv
<1>1. /\ entry[f] = "free" /\ entry' = [entry EXCEPT ![f] = "file"]
      /\ disk' = disk /\ Rows' = Rows
  BY RowsStay
  DEF FinalizeProbing, FirstFree, FreeFiles, CallbackFrame, resumeVars
<1>2. \A r \in Rows : r.file # NoFile => r.file \in Files /\ r.file # f
  BY <1>1, RowsAre DEF EntryInv
<1>3. /\ ctx'.file = f /\ entry'[f] = "file"
      /\ \A r \in Rows : r.file # NoFile => entry'[r.file] = entry[r.file]
  BY <1>1, <1>2 DEF FinalizeProbing, TypeOK, IsCtx, CtxType
<1>4. EntryInv'
  BY <1>1, <1>3 DEF EntryInv
<1>5. HasBytes(disk'[f], part')
  <2>1. TypeOK' /\ \A j \in DOMAIN part' : part'[j].done = 0
    BY FinalizeProbingType
  <2>2. \A j \in DOMAIN part' : part'[j].start \in Nat
    BY <2>1 DEF TypeOK, IsPart, PartType
  <2> QED
    BY <2>1, <2>2 DEF HasBytes
<1>6. RowsOnDisk'
  BY <1>1, <1>2, <1>3 DEF DiskInv, RowsOnDisk, BytesOnDisk
<1> QED
  BY <1>3, <1>4, <1>5, <1>6 DEF DiskInv, BytesOnDisk

LEMMA FinalizeFailsSafe ==
  ASSUME IInv, NEW i \in DOMAIN conn, NEW f \in Files, FinalizeFails(i, f)
  PROVE  EntryInv' /\ DiskInv'
<1> USE DEF IInv
<1>1. /\ entry[f] = "free" /\ disk' = disk /\ Rows' = Rows /\ part' = part
      /\ \A g \in Files \ {f} : entry'[g] = entry[g]
  BY RowsStay
  DEF FinalizeFails, FirstFree, FreeFiles, CallbackFrame, resumeVars, TypeOK
<1>2. \A r \in Rows : r.file # NoFile => r.file \in Files /\ r.file # f
  BY <1>1, RowsAre DEF EntryInv
<1>3. ctx.probing /\ ctx \in CtxType
  BY DEF FinalizeFails, TypeOK, IsCtx
<1>4. /\ ctx'.file = f /\ ctx'.status = "ERROR" /\ ctx'.reason = "ERROR"
      /\ ctx'.range = FALSE
  BY <1>3 DEF FinalizeFails, CtxType, ProbeInv
<1>5. EntryInv'
  BY <1>1, <1>2, <1>4 DEF EntryInv
<1>6. HasBytes(disk[f], part)
  BY <1>3 DEF HasBytes, ProbeInv, TypeOK, IsPart, PartType
<1>7. RowsOnDisk'
  BY <1>1, <1>2 DEF DiskInv, RowsOnDisk, BytesOnDisk
<1> QED
  BY <1>1, <1>4, <1>5, <1>6, <1>7 DEF DiskInv, BytesOnDisk

\* A body byte is not a hole, wherever it is written.
LEMMA WrittenBytes ==
  ASSUME NEW b, NEW c \in ConnType, c.ver \in Versions,
         NEW off \in Nat, NEW k \in Nat
  PROVE  LET w == Written(b, c, off, k)
         IN \A o \in Offsets : /\ o \in off .. (off + k - 1) => w[o] # Hole
                               /\ b[o] # Hole => w[o] # Hole
BY DownloadAssumption DEF Written, Garbage, Hole

LEMMA WriteBodySafe ==
  ASSUME IInv, ~ctx.probing, NEW i \in DOMAIN part, conn[i].st = "body",
         pc # "done", pc # "none", WriteBody(i)
  PROVE  EntryInv' /\ DiskInv'
<1> USE DEF IInv
<1>1. /\ pc' = "perform" /\ entry' = entry /\ UNCHANGED <<saved, loaded>> /\ Running
      /\ IsPart(part) /\ conn[i] \in ConnType /\ conn[i].ver \in Versions
      /\ ctx \in CtxType /\ ctx.file \in Files /\ part[i] \in PartType
  BY WriteBodyCases
  DEF CallbackFrame, resumeVars, TypeOK, IsConn, IsCtx, IsPart, ConnInv,
      ProbeInv, Running
<1>2. CASE PartError(i) /\ UNCHANGED <<ctx, disk>>
  <2>1. /\ DOMAIN part' = DOMAIN part
        /\ \A j \in DOMAIN part : /\ part'[j].start = part[j].start
                                 /\ part'[j].done = part[j].done
    BY <1>1, <1>2, PartErrorType
  <2> QED
    BY <1>1, <1>2, <2>1, QuietSafe DEF Failed
<1>3. CASE UNCHANGED <<ctx, part, disk>>
  BY <1>1, <1>3, QuietSafe DEF Failed
<1>4. ASSUME NEW k \in Nat, Writes(i, k)
      PROVE  EntryInv' /\ DiskInv'
  <2> DEFINE off == part[i].start + part[i].done
             b == disk[ctx.file]
             w == Written(b, conn[i], off, k)
  <2>1. /\ ctx'.file = ctx.file /\ ctx'.probing = ctx.probing
        /\ ctx'.range = ctx.range
        /\ ctx'.status = ctx.status /\ ctx'.reason = ctx.reason
    BY <1>1, <1>4 DEF Writes, CtxType
  <2>2. EntryInv'
    BY <1>1, <2>1, RowsStay DEF EntryInv
  <2>3. off \in Nat
    BY <1>1 DEF PartType
  <2>4. disk' = [disk EXCEPT ![ctx.file] = w]
    BY <1>4 DEF Writes
  <2>5. \A o \in Offsets : /\ o \in off .. (off + k - 1) => w[o] # Hole
                           /\ b[o] # Hole => w[o] # Hole
    BY <1>1, <2>3, WrittenBytes
  <2>6. HasBytes(b, part)
    BY <1>4 DEF DiskInv, BytesOnDisk, Writes
  <2> HIDE DEF w, b
  <2>7. disk'[ctx.file] = w
    BY <1>1, <2>4 DEF TypeOK
  <2>8. HasBytes(w, part')
    <3>1. /\ DOMAIN part' = DOMAIN part
          /\ \A j \in DOMAIN part \ {i} : part'[j] = part[j]
          /\ part'[i].start = part[i].start /\ part'[i].done = part[i].done + k
      BY <1>1, <1>4 DEF Writes, PartType
    <3>2. ASSUME NEW j \in DOMAIN part \ {i}, NEW o \in Offsets,
                 o \in part'[j].start .. (part'[j].start + part'[j].done - 1)
          PROVE  w[o] # Hole
      BY <2>5, <2>6, <3>1, <3>2 DEF HasBytes
    <3>3. ASSUME NEW o \in Offsets,
                 o \in part'[i].start .. (part'[i].start + part'[i].done - 1)
          PROVE  w[o] # Hole
      <4>1. part[i].start \in Nat /\ part[i].done \in Nat /\ o \in Int
        BY <1>1 DEF PartType, Offsets
      <4>2. CASE o < off
        <5>1. o \in part[i].start .. (part[i].start + part[i].done - 1)
          BY <3>1, <3>3, <4>1, <4>2
        <5>2. b[o] # Hole
          BY <2>6, <5>1 DEF HasBytes
        <5> QED
          BY <2>5, <5>2
      <4>3. CASE o >= off
        <5>1. o \in off .. (off + k - 1)
          BY <3>1, <3>3, <4>1, <4>3
        <5> QED
          BY <2>5, <5>1
      <4> QED
        BY <4>1, <4>2, <4>3, <2>3
    <3> QED
      BY <3>1, <3>2, <3>3 DEF HasBytes
  <2>9. ASSUME NEW r \in Rows, r.file # NoFile
        PROVE  BytesOnDisk(r.file, r.part)'
    <3>1. CASE r.file = ctx.file
      <4>1. \A o \in Offsets : b[o] # Hole => w[o] # Hole
        BY <2>5
      <4>2. HasBytes(b, r.part) => HasBytes(w, r.part)
        BY <4>1, BytesKept
      <4> QED
        BY <1>1, <2>7, <2>9, <3>1, <4>2 DEF DiskInv, RowsOnDisk, BytesOnDisk, b
    <3>2. CASE r.file # ctx.file
      <4>1. disk'[r.file] = disk[r.file]
        BY <1>1, <2>4, <2>9, <3>2, RowsAre DEF TypeOK
      <4> QED
        BY <1>1, <2>9, <4>1 DEF DiskInv, RowsOnDisk, BytesOnDisk
    <3> QED
      BY <3>1, <3>2
  <2>10. RowsOnDisk'
    BY <1>1, <2>9, RowsStay DEF RowsOnDisk
  <2> QED
    BY <2>1, <2>2, <2>7, <2>8, <2>10 DEF DiskInv, BytesOnDisk
<1> QED
  BY <1>2, <1>3, <1>4, WriteBodyCases DEF TypeOK

LEMMA WorkerSafe ==
  ASSUME IInv, Worker, ~ReceiveFirst
  PROVE  EntryInv' /\ DiskInv'
<1> USE DEF IInv
<1>1. WorkerKeeps /\ Running
  BY WorkerType DEF WorkerKeeps
<1>2. CASE saved' = saved
  BY <1>1, <1>2, QuietSafe DEF WorkerKeeps
<1>3. CASE saved' = Serialized /\ (ctx.range \/ ~Failed)
  <2>0. \A r \in Rows' : r \in Rows \/ r = saved'
    BY <1>1 DEF Rows, WorkerKeeps
  <2>1. saved'.file = ctx.file /\ saved'.part = [i \in DOMAIN part |->
          [start |-> part[i].start, end |-> part[i].end, done |-> part[i].done]]
    BY <1>3 DEF Serialized
  <2>2. ~ctx.probing => ctx.file \in Files /\ BytesOnDisk(ctx.file, part)
    BY DEF DiskInv, ProbeInv
  <2>3. ctx.probing => ctx.file = NoFile
    BY DEF ProbeInv
  <2>4. ~ctx.probing => entry[ctx.file] # "free"
    BY <1>1, <1>3 DEF EntryInv, Failed
  <2>5. EntryInv'
    BY <1>1, <2>0, <2>1, <2>3, <2>4 DEF EntryInv, WorkerKeeps, Failed
  <2>6. HasBytes(disk[ctx.file], part) => HasBytes(disk[ctx.file], part')
    BY <1>1, BytesKept DEF WorkerKeeps
  <2>7. HasBytes(disk[ctx.file], part) => HasBytes(disk[ctx.file], saved'.part)
    <3>1. /\ DOMAIN saved'.part = DOMAIN part
          /\ \A i \in DOMAIN part : /\ saved'.part[i].start = part[i].start
                                   /\ saved'.part[i].done = part[i].done
      BY <2>1
    <3> QED
      BY <3>1, BytesKept
  <2> QED
    BY <1>1, <2>0, <2>1, <2>2, <2>3, <2>5, <2>6, <2>7
    DEF DiskInv, RowsOnDisk, BytesOnDisk, WorkerKeeps
<1> QED
  BY <1>1, <1>2, <1>3 DEF WorkerKeeps

LEMMA IInvStep ==
  ASSUME IInv, "wrapper" \notin UserRemoves, [Next]_vars
  PROVE  IInv'
<1>1. TypeInv
  BY DEF IInv, TypeInv
<1>2. TypeInv'
  BY <1>1, TypeInvStep
<1>3. DOMAIN conn = DOMAIN part /\ 0 \in DOMAIN part
  BY <1>1 DEF TypeInv, TypeOK, IsConn, IsPart
<1>4. EntryInv' /\ DiskInv'
  <2>1. CASE UNCHANGED vars
    <3>1. /\ ctx' = ctx /\ part' = part /\ UNCHANGED <<saved, loaded>>
          /\ entry' = entry /\ disk' = disk /\ pc' = pc
      BY <2>1 DEF vars, downloadVars, storageVars, resumeVars
    <3> QED
      BY <3>1, QuietSafe DEF Running, Failed
  <2>2. CASE Environment
    BY <1>2, <2>2, EnvironmentSafe
  <2>3. ASSUME NEW i \in DOMAIN conn, Reply(i)
        PROVE  EntryInv' /\ DiskInv'
    BY <2>3, ReplySafe
  <2>4. ASSUME NEW i \in DOMAIN conn, TransferFails(i) \/ Refuse(i) \/ EndOfBody(i)
        PROVE  EntryInv' /\ DiskInv'
    <3>1. /\ ctx' = ctx /\ part' = part /\ UNCHANGED <<saved, loaded>>
          /\ entry' = entry /\ disk' = disk /\ pc' = pc
      BY <2>4 DEF TransferFails, Refuse, EndOfBody, CallbackFrame, resumeVars
    <3> QED
      BY <3>1, QuietSafe DEF Running, Failed
  <2>5. ASSUME NEW i \in DOMAIN conn, Receive(i)
        PROVE  EntryInv' /\ DiskInv'
    BY <1>3, <2>5, WriteBodySafe DEF Receive, BodyArrives
  <2>6. CASE ReceiveFirst
    BY <1>3, <2>6, WriteBodySafe DEF ReceiveFirst, IInv, ConnInv
  <2>7. ASSUME NEW i \in DOMAIN conn, NEW f \in Files,
               FinalizeProbing(i, f) \/ FinalizeFails(i, f)
        PROVE  EntryInv' /\ DiskInv'
    BY <2>7, FinalizeProbingSafe, FinalizeFailsSafe
  <2>8. CASE Worker /\ ~ReceiveFirst
    BY <2>8, WorkerSafe
  <2> QED
    BY <2>1, <2>2, <2>3, <2>4, <2>5, <2>6, <2>7, <2>8 DEF Next, Network
<1> QED
  BY <1>2, <1>4 DEF IInv, TypeInv

LEMMA IInvInit == Init => IInv
<1> SUFFICES ASSUME Init PROVE IInv
  OBVIOUS
<1>1. TypeInv
  BY TypeInvInit
<1>2. (\A r \in Rows : r.file = NoFile) /\ pc = "none" /\ ctx.probing
  BY DEF Init, Rows, NoResume, FreshCtx
<1> QED
  BY <1>1, <1>2
  DEF IInv, TypeInv, EntryInv, DiskInv, RowsOnDisk, Running

\* Unless the user removes wrapper directories, what the resume row counts as
\* done is in the file: across pauses, crashes, lost saves, failing writes,
\* retries, new versions of the remote file and every number of restarts.
THEOREM RowNeverAheadOfFile ==
  ASSUME "wrapper" \notin UserRemoves
  PROVE  Spec => []ResumeConservative
<1>1. Init => IInv
  BY IInvInit
<1>2. IInv /\ [Next]_vars => IInv'
  BY IInvStep
<1>3. IInv => ResumeConservative
  BY DEF IInv, DiskInv, RowsOnDisk, Rows, ResumeConservative
<1> QED
  BY <1>1, <1>2, <1>3, PTL DEF Spec

-----------------------------------------------------------------------------
(* What the worker's own steps do to parts, connections and rows.          *)

\* Where a connection that is sent or receives stands, after a step that gives
\* it back as it was or asks again from where the part has got to.
AsBeforeOrAsked(i) ==
  conn'[i].st \in {"sent", "body"} =>
    \/ conn'[i] = conn[i]
    \/ /\ conn'[i].st = "sent"
       /\ conn'[i].pos = IF ctx.probing THEN 0 ELSE part[i].start + part[i].done

PartsStay ==
  /\ DOMAIN part' = DOMAIN part
  /\ \A i \in DOMAIN part :
       /\ part'[i].start = part[i].start /\ part'[i].end = part[i].end
       /\ part'[i].done = part[i].done
       /\ part'[i].size = part[i].size \/ part[i].size = 0

WorkerEffect ==
  /\ ctx'.etag = ctx.etag /\ (ctx.total > 0 => ctx'.total = ctx.total)
  /\ PartsStay
  /\ DOMAIN conn' = DOMAIN conn /\ \A i \in DOMAIN conn : AsBeforeOrAsked(i)
  /\ saved' = saved \/ saved' = Serialized
  /\ UNCHANGED <<site, entry, disk>>

LEMMA PartErrorStays ==
  ASSUME IsPart(part), NEW i \in DOMAIN part, PartError(i)
  PROVE  PartsStay
<1> DEFINE p == [part[i] EXCEPT !.status = "ERROR", !.reason = "ERROR"]
<1>1. part[i] \in PartType
  BY DEF IsPart
<1>2. /\ p.start = part[i].start /\ p.done = part[i].done
      /\ p.end = part[i].end /\ p.size = part[i].size
  BY <1>1 DEF PartType, Reasons
<1>3. part' = [part EXCEPT ![i] = p]
  BY DEF PartError
<1> HIDE DEF p
<1> QED
  BY <1>2, <1>3 DEF PartsStay

LEMMA RequestIs ==
  ASSUME NEW c \in ConnType, NEW p \in PartType
  PROVE  /\ Request(c, p).st = "sent"
         /\ Request(c, p).pos = IF ctx.probing THEN 0 ELSE p.start + p.done
BY DEF Request, ConnType

LEMMA SpawnEffect ==
  ASSUME TypeOK, NEW broken \in SUBSET Mountable, SpawnNewParts(broken)
  PROVE  /\ PartsStay
         /\ DOMAIN conn' = DOMAIN conn /\ \A i \in DOMAIN conn : AsBeforeOrAsked(i)
<1>1. /\ \A i \in DOMAIN part : part[i] \in PartType /\ conn[i] \in ConnType
      /\ DOMAIN conn = DOMAIN part
  BY DEF TypeOK, IsPart, IsConn
<1>2. PartsStay
  <2>1. DOMAIN part' = DOMAIN part
    BY DEF SpawnNewParts
  <2>2. ASSUME NEW i \in DOMAIN part
        PROVE  /\ part'[i].start = part[i].start /\ part'[i].end = part[i].end
               /\ part'[i].done = part[i].done /\ part'[i].size = part[i].size
    <3> DEFINE p == [part[i] EXCEPT !.status = "ERROR", !.reason = "ERROR"]
    <3>1. /\ p.start = part[i].start /\ p.end = part[i].end
          /\ p.done = part[i].done /\ p.size = part[i].size
      BY <1>1 DEF PartType
    <3>2. part'[i] = part[i] \/ part'[i] = p
      BY DEF SpawnNewParts
    <3> HIDE DEF p
    <3> QED
      BY <3>1, <3>2
  <2> QED
    BY <2>1, <2>2 DEF PartsStay
<1>3. ASSUME NEW i \in DOMAIN conn PROVE AsBeforeOrAsked(i)
  <2>1. \/ conn'[i] = conn[i]
        \/ conn'[i] = Request(conn[i], part[i])
        \/ conn'[i] = [conn[i] EXCEPT !.st = "idle"]
    BY DEF SpawnNewParts
  <2>2. [conn[i] EXCEPT !.st = "idle"].st = "idle"
    BY <1>1 DEF ConnType
  <2>3. /\ Request(conn[i], part[i]).st = "sent"
        /\ Request(conn[i], part[i]).pos = IF ctx.probing THEN 0
                                           ELSE part[i].start + part[i].done
    <3>1. conn[i] \in ConnType /\ part[i] \in PartType
      BY <1>1
    <3> QED
      BY <3>1, RequestIs
  <2> QED
    BY <2>1, <2>2, <2>3 DEF AsBeforeOrAsked
<1> QED
  BY <1>2, <1>3 DEF SpawnNewParts

LEMMA EmitAndEffect ==
  ASSUME NEW next \in CtxType, EmitAnd(next)
  PROVE  /\ ctx'.etag = next.etag /\ ctx'.total = next.total
         /\ saved' = saved \/ saved' = Serialized
<1>1. saved' = saved \/ saved' = Serialized
  BY DEF EmitAnd, MaybeEmit, Emit
<1> DEFINE advanced == next.advanced /\ ~Emits
<1>2. ctx' = [next EXCEPT !.advanced = advanced]
  BY DEF EmitAnd
<1> HIDE DEF advanced
<1> QED
  BY <1>1, <1>2 DEF CtxType

\* Taking a connection off, or closing it.
LEMMA DropEffect ==
  ASSUME TypeOK, NEW i \in DOMAIN conn, NEW c \in ConnType,
         c.st \notin {"sent", "body"}, conn' = [conn EXCEPT ![i] = c]
  PROVE  DOMAIN conn' = DOMAIN conn /\ \A j \in DOMAIN conn : AsBeforeOrAsked(j)
<1>1. conn'[i] = c /\ \A j \in DOMAIN conn \ {i} : conn'[j] = conn[j]
  OBVIOUS
<1> QED
  BY <1>1 DEF AsBeforeOrAsked

LEMMA SameConns ==
  ASSUME UNCHANGED conn
  PROVE  DOMAIN conn' = DOMAIN conn /\ \A j \in DOMAIN conn : AsBeforeOrAsked(j)
BY DEF AsBeforeOrAsked

LEMMA SameParts == ASSUME UNCHANGED part PROVE PartsStay
BY DEF PartsStay

LEMMA WMsgEffect ==
  ASSUME TypeOK, NEW i \in DOMAIN conn, WMsg(i)
  PROVE  WorkerEffect
<1>1. /\ part[i] \in PartType /\ conn[i] \in ConnType /\ ctx \in CtxType
      /\ i \in DOMAIN part
  BY DEF TypeOK, IsPart, IsConn, IsCtx
<1> DEFINE p == part[i]
           c == conn[i]
           v == Verdict(p, c)
           Again(d) == \/ /\ conn' = [conn EXCEPT ![i] = Request(d, p)]
                          /\ UNCHANGED <<part, faults>>
                       \/ Fault /\ PartError(i) /\ Drop(i)
           Ends(status, reason, size) ==
             /\ part' = [part EXCEPT ![i].status = status, ![i].reason = reason,
                                     ![i].size = size]
             /\ Drop(i)
             /\ UNCHANGED faults
           idle == [c EXCEPT !.st = "idle"]
           total == IF v = "whole" /\ ctx.total <= 0 THEN p.done ELSE ctx.total
<1>2. idle \in ConnType /\ idle.st = "idle"
  BY <1>1 DEF ConnType, ConnStates
<1>3. Drop(i) => conn' = [conn EXCEPT ![i] = idle]
  BY DEF Drop
<1>4. saved' = saved /\ UNCHANGED <<site, entry, disk>>
  BY DEF WMsg, WorkerFrame
<1>5. ctx' = ctx \/ ctx' = [ctx EXCEPT !.total = total]
  BY DEF WMsg, Retried
<1>6. ctx'.etag = ctx.etag /\ (ctx.total > 0 => ctx'.total = ctx.total)
  <2>1. ctx.total > 0 => total = ctx.total
    BY <1>1 DEF CtxType
  <2> HIDE DEF total
  <2> QED
    BY <1>1, <1>5, <2>1 DEF CtxType
<1>7. \/ Drop(i) /\ UNCHANGED part
      \/ Again(c)
      \/ Again([c EXCEPT !.retry = @ + 1])
      \/ \E status, reason : Ends(status, reason, p.size)
      \/ p.size = 0 /\ \E status, reason : Ends(status, reason, p.done)
  <2>1. v = "whole" => p.size <= 0
    BY DEF Verdict
  <2>2. p.size <= 0 => p.size = 0
    BY <1>1 DEF PartType
  <2>3. \/ Drop(i) /\ UNCHANGED part
        \/ Ends("COMPLETED", "NONE", p.size)
        \/ v = "whole" /\ Ends("COMPLETED", "NONE", p.done)
        \/ Again(c)
        \/ Again([c EXCEPT !.retry = @ + 1])
        \/ Ends("ERROR", GiveupReason(c), p.size)
    BY DEF WMsg, Retried
  <2> HIDE DEF Ends, Again, v
  <2> QED
    BY <2>1, <2>2, <2>3
<1> HIDE DEF idle, v, total
<1>8. ASSUME NEW d \in ConnType, Again(d)
      PROVE  /\ PartsStay /\ DOMAIN conn' = DOMAIN conn
             /\ \A j \in DOMAIN conn : AsBeforeOrAsked(j)
  <2>1. Request(d, p).st = "sent"
        /\ Request(d, p).pos = IF ctx.probing THEN 0 ELSE p.start + p.done
    BY <1>1, RequestIs
  <2>2. CASE /\ conn' = [conn EXCEPT ![i] = Request(d, p)]
             /\ UNCHANGED <<part, faults>>
    <3> DEFINE r == Request(d, p)
    <3>1. conn' = [conn EXCEPT ![i] = r]
      BY <2>2
    <3>2. r.st = "sent" /\ r.pos = IF ctx.probing THEN 0 ELSE p.start + p.done
      BY <2>1
    <3> HIDE DEF r
    <3>3. conn'[i] = r /\ \A j \in DOMAIN conn \ {i} : conn'[j] = conn[j]
      BY <3>1
    <3> QED
      BY <2>2, <3>1, <3>2, <3>3, SameParts DEF AsBeforeOrAsked
  <2>3. CASE Fault /\ PartError(i) /\ Drop(i)
    BY <1>1, <1>2, <1>3, <2>3, PartErrorStays, DropEffect DEF TypeOK
  <2> QED
    BY <1>8, <2>2, <2>3
<1>9. ASSUME NEW status, NEW reason, NEW size, Ends(status, reason, size),
             size = p.size \/ p.size = 0
      PROVE  /\ PartsStay /\ DOMAIN conn' = DOMAIN conn
             /\ \A j \in DOMAIN conn : AsBeforeOrAsked(j)
  <2> DEFINE q == [p EXCEPT !.status = status, !.reason = reason, !.size = size]
  <2>1. part' = [part EXCEPT ![i] = q]
    BY <1>1, <1>9
  <2>2. /\ q.start = p.start /\ q.end = p.end /\ q.done = p.done
        /\ q.size = p.size \/ p.size = 0
    BY <1>1, <1>9 DEF PartType
  <2> HIDE DEF q
  <2>3. PartsStay
    BY <2>1, <2>2 DEF PartsStay
  <2> QED
    BY <1>2, <1>3, <1>9, <2>3, DropEffect
<1>10. [c EXCEPT !.retry = @ + 1] \in ConnType
  BY <1>1 DEF ConnType
<1> HIDE DEF Ends, Again
<1>11. /\ PartsStay /\ DOMAIN conn' = DOMAIN conn
       /\ \A j \in DOMAIN conn : AsBeforeOrAsked(j)
  BY <1>1, <1>2, <1>3, <1>7, <1>8, <1>9, <1>10, DropEffect, SameParts
<1> QED
  BY <1>4, <1>6, <1>11 DEF WorkerEffect

LEMMA WorkerHasEffect ==
  ASSUME TypeOK, Worker, ~ReceiveFirst
  PROVE  WorkerEffect
<1>1. ctx \in CtxType /\ IsPart(part)
  BY DEF TypeOK, IsCtx
<1>2. CASE WStart
  <2>1. UNCHANGED <<site, entry, disk>>
    BY <1>2 DEF WStart, WorkerFrame
  <2>2. CASE UNCHANGED <<downloadVars, saved, faults>>
    BY <2>1, <2>2, SameParts, SameConns DEF WorkerEffect, downloadVars
  <2>3. CASE EmitAnd([ctx EXCEPT !.status = "PAUSED"]) /\ UNCHANGED <<part, conn>>
    <3> DEFINE next == [ctx EXCEPT !.status = "PAUSED"]
    <3>1. next \in CtxType /\ next.etag = ctx.etag /\ next.total = ctx.total
      BY <1>1 DEF CtxType, Statuses
    <3>2. EmitAnd(next)
      BY <2>3
    <3> HIDE DEF next
    <3> QED
      BY <2>1, <2>3, <3>1, <3>2, EmitAndEffect, SameParts, SameConns DEF WorkerEffect
  <2>4. CASE /\ \E broken \in SUBSET Mountable : SpawnNewParts(broken)
             /\ UNCHANGED <<ctx, saved>>
    BY <2>1, <2>4, SpawnEffect DEF WorkerEffect
  <2>5. CASE /\ ctx' = [ctx EXCEPT !.status = "ERROR", !.reason = "ERROR"]
             /\ UNCHANGED <<part, conn, saved>>
    <3>1. ctx'.etag = ctx.etag /\ ctx'.total = ctx.total
      BY <1>1, <2>5 DEF CtxType
    <3> QED
      BY <2>1, <2>5, <3>1, SameParts, SameConns DEF WorkerEffect
  <2> QED
    BY <1>2, <2>2, <2>3, <2>4, <2>5 DEF WStart
<1>3. CASE WTop
  BY <1>3, SameParts, SameConns DEF WTop, WorkerFrame, WorkerEffect, downloadVars
<1>4. CASE WPoll
  <2>1. UNCHANGED <<site, entry, disk, ctx, saved>>
    BY <1>4 DEF WPoll, WorkerFrame
  <2>2. CASE \E broken \in SUBSET Mountable : SpawnNewParts(broken)
    BY <2>1, <2>2, SpawnEffect DEF WorkerEffect
  <2>3. CASE UNCHANGED <<part, conn>>
    BY <2>1, <2>3, SameParts, SameConns DEF WorkerEffect
  <2> QED
    BY <1>4, <2>2, <2>3 DEF WPoll
<1>5. CASE WEmit
  BY <1>1, <1>5, EmitAndEffect, SameParts, SameConns DEF WEmit, WorkerFrame, WorkerEffect
<1>6. CASE WFinish
  <2>1. UNCHANGED <<site, entry, disk, part>>
    BY <1>6 DEF WFinish, WorkerFrame
  <2>2. DOMAIN conn' = DOMAIN conn /\ \A i \in DOMAIN conn : AsBeforeOrAsked(i)
    <3>1. \A i \in DOMAIN conn : [conn[i] EXCEPT !.st = "idle"].st = "idle"
      BY DEF TypeOK, IsConn, ConnType
    <3> QED
      BY <1>6, <3>1 DEF WFinish, AsBeforeOrAsked
  <2>3. Aggregated \in CtxType /\ Aggregated.etag = ctx.etag
        /\ Aggregated.total = ctx.total
    BY <1>1, AggregatedType DEF Aggregated, CtxType
  <2>4. \/ EmitAnd(Aggregated)
        \/ ctx' = Aggregated /\ (saved' = saved \/ saved' = Serialized)
    BY <1>6 DEF WFinish, Emit
  <2> QED
    BY <2>1, <2>2, <2>3, <2>4, EmitAndEffect, SameParts DEF WorkerEffect
<1>7. CASE WLeave
  <2>1. ctx'.etag = ctx.etag /\ ctx'.total = ctx.total
    <3> DEFINE status == IF pauseReq /\ ~cancelReq THEN "PAUSED" ELSE ctx.status
    <3>1. ctx' = [ctx EXCEPT !.status = status]
      BY <1>7 DEF WLeave
    <3> HIDE DEF status
    <3> QED
      BY <1>1, <3>1 DEF CtxType
  <2> QED
    BY <1>7, <2>1, SameParts, SameConns DEF WLeave, WorkerFrame, WorkerEffect
<1>8. ASSUME NEW i \in DOMAIN conn, WMsg(i) PROVE WorkerEffect
  BY <1>8, WMsgEffect
<1> QED
  BY <1>2, <1>3, <1>4, <1>5, <1>6, <1>7, <1>8 DEF Worker

-----------------------------------------------------------------------------
(* No file holds bytes of two versions.                                    *)

Pure(bytes, v) == \A o \in Offsets : bytes[o] \in {Hole, v}

\* The file of the task holds what its validator stands for, that of a row what
\* the row's stands for; they agree where they describe the same file, and a
\* wrapper that nobody has yet is blank.
TagInv ==
  /\ ~ctx.probing =>
       /\ ctx.etag # NoValidator
       /\ entry[ctx.file] = "file" => Pure(disk[ctx.file], ctx.etag)
  /\ \A r \in Rows : r.file # NoFile =>
       /\ r.etag # NoValidator
       /\ entry[r.file] = "file" => Pure(disk[r.file], r.etag)
       /\ r.file = ctx.file => r.etag = ctx.etag
       /\ \A q \in Rows : q.file = r.file => q.etag = r.etag
  /\ \A f \in Files : entry[f] = "free" => disk[f] = [o \in Offsets |-> Hole]

\* A connection stands where its part has got to, and receives the version that
\* the task's validator stands for.
AimInv ==
  /\ part[0].start = 0
  /\ \A r \in Rows : 0 \in DOMAIN r.part => r.part[0].start = 0
  /\ \A i \in DOMAIN conn :
       /\ conn[i].st \in {"sent", "body"} => conn[i].pos = part[i].start + part[i].done
       /\ conn[i].st = "body" => conn[i].ver = ctx.etag

MixInv == TagInv /\ AimInv

LEMMA TagSame ==
  ASSUME TagInv, UNCHANGED <<entry, disk, saved, loaded>>,
         ctx'.file = ctx.file, ctx'.probing = ctx.probing, ctx'.etag = ctx.etag
  PROVE  TagInv'
BY RowsStay DEF TagInv

LEMMA AimSame ==
  ASSUME TypeOK, ProbeInv, AimInv, PartsStay, ctx'.etag = ctx.etag,
         \A r \in Rows' : 0 \in DOMAIN r.part => r.part[0].start = 0,
         DOMAIN conn' = DOMAIN conn, \A i \in DOMAIN conn : AsBeforeOrAsked(i)
  PROVE  AimInv'
<1>1. /\ DOMAIN conn = DOMAIN part /\ 0 \in DOMAIN part
      /\ \A i \in DOMAIN part : part[i] \in PartType
  BY DEF TypeOK, IsConn, IsPart
<1>2. part'[0].start = 0
  BY <1>1 DEF AimInv, PartsStay
<1>3. ASSUME NEW i \in DOMAIN conn, conn'[i].st \in {"sent", "body"}
      PROVE  /\ conn'[i].pos = part'[i].start + part'[i].done
             /\ conn'[i].st = "body" => conn'[i].ver = ctx.etag
  <2>1. part'[i].start = part[i].start /\ part'[i].done = part[i].done
    BY <1>1 DEF PartsStay
  <2>2. CASE conn'[i] = conn[i]
    BY <1>3, <2>1, <2>2 DEF AimInv
  <2>3. CASE /\ conn'[i].st = "sent"
             /\ conn'[i].pos = IF ctx.probing THEN 0 ELSE part[i].start + part[i].done
    <3>1. ctx.probing => part[i].start + part[i].done = 0
      BY <1>1 DEF ProbeInv, AimInv
    <3> QED
      BY <2>1, <2>3, <3>1
  <2> QED
    BY <1>3, <2>2, <2>3 DEF AsBeforeOrAsked
<1> QED
  BY <1>2, <1>3 DEF AimInv

LEMMA InitMix == Init => MixInv
<1> SUFFICES ASSUME Init PROVE MixInv
  OBVIOUS
<1>1. /\ ctx.probing /\ \A r \in Rows : r = NoResume
      /\ disk = [f \in Files |-> [o \in Offsets |-> Hole]]
  BY DEF Init, FreshCtx, Rows
<1>2. part[0].start = 0 /\ \A i \in DOMAIN conn : conn[i].st = "new"
  BY DEF Init, FreshParts, NewPart, FreshConns, NewConn
<1> QED
  BY <1>1, <1>2, NoResumeIs DEF MixInv, TagInv, AimInv

LEMMA FreshMix ==
  ASSUME TypeOK, MixInv, Environment, UNCHANGED storageVars,
         ctx' = FreshCtx, part' = FreshParts, conn' = FreshConns
  PROVE  MixInv'
<1>1. /\ UNCHANGED <<entry, disk>> /\ ctx'.probing /\ ctx'.file = NoFile
  BY DEF storageVars, FreshCtx
<1>2. part'[0].start = 0 /\ \A i \in DOMAIN conn' : conn'[i].st = "new"
  BY DEF FreshParts, NewPart, FreshConns, NewConn
<1> QED
  BY <1>1, <1>2, EnvironmentRows, NoResumeIs DEF MixInv, TagInv, AimInv

LEMMA EnvironmentMix ==
  ASSUME IInv, MixInv, "wrapper" \notin UserRemoves, Environment
  PROVE  MixInv'
<1> USE DEF IInv
<1>0. /\ \A r \in Rows : r.file # NoFile => r.file \in Files
      /\ \A r \in Rows' : r \in Rows \/ (r.file = NoFile /\ DOMAIN r.part = {})
  BY RowsAre, EnvironmentRows, NoResumeIs
<1>1. CASE Add \/ Crash
  BY <1>1, FreshMix DEF Add, StartTask, Crash
<1>2. CASE Resume
  <2>1. CASE ~Usable
    BY <1>2, <2>1, FreshMix DEF Resume, StartTask
  <2>2. CASE Usable
    <3>1. /\ loaded.file # NoFile /\ entry[loaded.file] = "file"
          /\ UNCHANGED <<entry, disk>> /\ loaded \in Rows
          /\ ctx'.file = loaded.file /\ ctx'.etag = loaded.etag /\ ctx'.probing = FALSE
          /\ part' = [i \in DOMAIN loaded.part |-> Restored(loaded.part[i])]
          /\ conn' = [i \in DOMAIN loaded.part |-> NewConn]
      BY <1>2, <2>2
      DEF Resume, StartTask, storageVars, Usable, RestoredCtx, RestoredCtxNoEtag, FreshCtx,
          Rows
    <3>2. TagInv'
      BY <1>0, <3>1 DEF MixInv, TagInv
    <3>3. 0 \in DOMAIN loaded.part /\ loaded.part[0] \in RowPartType
      BY <1>2 DEF Resume, TypeOK, IsRow
    <3>4. part'[0].start = 0
      BY <3>1, <3>3, RestoredType DEF MixInv, AimInv
    <3>5. \A i \in DOMAIN conn' : conn'[i].st = "new"
      BY <3>1 DEF NewConn
    <3> QED
      BY <1>0, <3>2, <3>4, <3>5 DEF MixInv, AimInv
  <2> QED
    BY <2>1, <2>2
<1>3. CASE Load \/ GoOn \/ Pause \/ Cancel \/ Change
  <2>1. UNCHANGED <<entry, disk, ctx, part, conn>>
    BY <1>3 DEF Load, GoOn, Pause, Cancel, Change, storageVars, downloadVars
  <2> QED
    BY <1>0, <2>1 DEF MixInv, TagInv, AimInv
<1>4. ASSUME NEW f \in Files, UserRemove(f)
      PROVE  MixInv'
  <2>1. /\ UNCHANGED <<ctx, part, conn>>
        /\ entry' = [entry EXCEPT ![f] = "dir"]
        /\ \A g \in Files \ {f} : disk'[g] = disk[g] /\ entry'[g] = entry[g]
        /\ entry'[f] = "dir"
    BY <1>4 DEF UserRemove, downloadVars, TypeOK
  <2>2. ~ctx.probing => ctx.file \in Files
    BY DEF ProbeInv
  <2>3. TagInv'
    BY <1>0, <2>1, <2>2 DEF MixInv, TagInv
  <2> QED
    BY <1>0, <2>1, <2>3 DEF MixInv, AimInv
<1> QED
  BY <1>1, <1>2, <1>3, <1>4 DEF Environment

\* A step that takes a connection off its transfer, or leaves all as they are.
LEMMA ClosesMix ==
  ASSUME TypeOK, ProbeInv, MixInv, PartsStay,
         UNCHANGED <<entry, disk, saved, loaded>>,
         ctx'.file = ctx.file, ctx'.probing = ctx.probing, ctx'.etag = ctx.etag,
         NEW i \in DOMAIN conn, NEW c \in ConnType,
         c.st \notin {"sent", "body"}, conn' = [conn EXCEPT ![i] = c]
  PROVE  MixInv'
BY TagSame, AimSame, DropEffect, RowsStay DEF MixInv, AimInv

LEMMA WorkerMix ==
  ASSUME IInv, MixInv, Worker, ~ReceiveFirst
  PROVE  MixInv'
<1> USE DEF IInv
<1>1. WorkerKeeps /\ WorkerEffect
  BY WorkerType, WorkerHasEffect DEF WorkerKeeps
<1>2. /\ ctx'.file = ctx.file /\ ctx'.probing = ctx.probing /\ ctx'.etag = ctx.etag
      /\ UNCHANGED <<entry, disk>> /\ PartsStay
      /\ DOMAIN conn' = DOMAIN conn /\ \A i \in DOMAIN conn : AsBeforeOrAsked(i)
      /\ (saved' = saved \/ saved' = Serialized) /\ loaded' = loaded
  BY <1>1 DEF WorkerKeeps, WorkerEffect
<1>3. CASE saved' = saved
  BY <1>2, <1>3, TagSame, AimSame, RowsStay DEF MixInv, AimInv
<1>4. CASE saved' = Serialized
  <2>0. \A r \in Rows' : r \in Rows \/ r = saved'
    BY <1>2 DEF Rows
  <2>1. /\ saved'.file = ctx.file /\ saved'.etag = ctx.etag
        /\ saved'.part[0].start = part[0].start
    BY <1>4 DEF Serialized, TypeOK, IsPart
  <2>2. ctx.file # NoFile => ~ctx.probing
    BY DEF ProbeInv
  <2>3. TagInv'
    BY <1>2, <2>0, <2>1, <2>2 DEF MixInv, TagInv
  <2> QED
    BY <1>2, <2>0, <2>1, <2>3, AimSame DEF MixInv, AimInv
<1> QED
  BY <1>2, <1>3, <1>4

LEMMA ReplyMix ==
  ASSUME IInv, MixInv, site.validator, NEW i \in DOMAIN conn, Reply(i)
  PROVE  MixInv'
<1> USE DEF IInv
<1>1. /\ UNCHANGED <<entry, disk, saved, loaded>> /\ conn[i].st = "sent"
      /\ ctx \in CtxType /\ IsPart(part) /\ i \in DOMAIN part /\ conn[i] \in ConnType
      /\ DOMAIN conn = DOMAIN part
  BY DEF Reply, CallbackFrame, resumeVars, TypeOK, IsCtx, IsConn
<1>2. \E code \in Codes(conn[i]) : \E last \in BodyEnds(conn[i], code) :
        IF Drifted(i, code) THEN MarkDrift(i) ELSE AcceptHeaders(i, code, last)
  BY DEF Reply
<1>3. CASE MarkDrift(i)
  <2>1. PartsStay
    BY <1>1, <1>3, PartErrorStays DEF MarkDrift
  <2>2. /\ ctx'.file = ctx.file /\ ctx'.probing = ctx.probing /\ ctx'.etag = ctx.etag
    BY <1>1, <1>3 DEF MarkDrift, CtxType
  <2>3. Closed(conn[i], "write") \in ConnType /\ Closed(conn[i], "write").st = "closed"
    BY <1>1, ClosedType DEF Results
  <2>4. conn' = [conn EXCEPT ![i] = Closed(conn[i], "write")]
    BY <1>3 DEF MarkDrift
  <2> QED
    BY <1>1, <2>1, <2>2, <2>3, <2>4, ClosesMix
<1>4. ASSUME NEW code, NEW last, ~Drifted(i, code), AcceptHeaders(i, code, last)
      PROVE  MixInv'
  <2>1. ctx.etag \in {NoValidator, version}
    BY <1>4 DEF Drifted
  <2>2. code = 200 => DOMAIN part = {0} /\ part[i].done = 0
    BY <1>4 DEF Drifted
  <2>3. /\ ctx'.etag = version /\ ctx'.file = ctx.file /\ ctx'.probing = ctx.probing
        /\ part' = part
    <3> DEFINE total == IF code # 200 /\ site.length /\ ctx.total <= 0
                           /\ Len[version] > 0
                        THEN Len[version] ELSE ctx.total
    <3>1. ctx' = [ctx EXCEPT !.total = total, !.etag = version]
      BY <1>4 DEF AcceptHeaders
    <3> HIDE DEF total
    <3> QED
      BY <1>1, <1>4, <3>1 DEF AcceptHeaders, CtxType
  <2>4. TagInv'
    BY <1>1, <2>1, <2>3, RowsStay DEF MixInv, TagInv, ProbeInv
  <2> DEFINE from == IF code = 200 THEN 0 ELSE conn[i].pos
             seen == IF ctx.probing THEN SeenTotal(code) ELSE 0
             d == [conn[i] EXCEPT !.st = "body", !.code = code, !.ver = version,
                                  !.pos = from, !.stop = last, !.seen = seen]
             e == IF code = 416 THEN Closed(d, "http") ELSE d
  <2>5. conn' = [conn EXCEPT ![i] = e]
    BY <1>4 DEF AcceptHeaders
  <2>6. from = part[i].start + part[i].done
    <3>1. code = 200 => i = 0 /\ part[i].start = 0 /\ part[i].done = 0
      BY <1>1, <2>2 DEF MixInv, AimInv
    <3>2. code # 200 => conn[i].pos = part[i].start + part[i].done
      BY <1>1 DEF MixInv, AimInv
    <3> QED
      BY <3>1, <3>2
  <2> HIDE DEF from, seen
  <2>7. e.st = "closed" \/ (e.st = "body" /\ e.pos = from /\ e.ver = version)
    <3>1. d.st = "body" /\ d.pos = from /\ d.ver = version
      BY <1>1 DEF ConnType
    <3>2. Closed(d, "http").st = "closed"
      BY <1>1 DEF Closed, ConnType
    <3> HIDE DEF d
    <3> QED
      BY <3>1, <3>2
  <2> HIDE DEF e
  <2>8. conn'[i] = e /\ \A j \in DOMAIN conn \ {i} : conn'[j] = conn[j]
    BY <2>5
  <2>9. \A j \in DOMAIN conn : conn[j].st = "body" => ctx.etag = version
    BY <2>1, DownloadAssumption DEF MixInv, AimInv, ConnInv, NoValidator
  <2>10. AimInv'
    BY <1>1, <2>3, <2>5, <2>6, <2>7, <2>8, <2>9, RowsStay DEF MixInv, AimInv
  <2> QED
    BY <2>4, <2>10 DEF MixInv
<1> QED
  BY <1>2, <1>3, <1>4

\* What write_cb does to the connection it was called for.
LEMMA WriteBodyAims ==
  ASSUME TypeOK, NEW i \in DOMAIN part, WriteBody(i)
  PROVE  \/ /\ PartError(i) \/ UNCHANGED part
            /\ UNCHANGED <<ctx, disk>>
            /\ \E e \in ConnType : e.st = "closed" /\ conn' = [conn EXCEPT ![i] = e]
         \/ \E k \in Nat : \E e \in ConnType :
              /\ Writes(i, k)
              /\ part[i].size > 0 => part[i].done + k <= part[i].size
              /\ conn' = [conn EXCEPT ![i] = e]
              /\ \/ e.st = "closed"
                 \/ e.st = conn[i].st /\ e.ver = conn[i].ver /\ e.pos = conn[i].pos + k
<1> DEFINE p == part[i]
           c == conn[i]
           Takes(n) == IF p.size > 0 THEN Smaller(n, p.size - p.done) ELSE n
<1>1. p \in PartType /\ c \in ConnType
  BY DEF TypeOK, IsPart, IsConn
<1>2. PICK n \in 1 .. Smaller(MaxBurst, c.stop - c.pos) :
          \/ /\ conn' = [conn EXCEPT ![i] = Closed(@, "write")]
             /\ UNCHANGED <<ctx, part, disk>>
          \/ /\ PartError(i)
             /\ conn' = [conn EXCEPT ![i] = Closed(@, "write")]
             /\ UNCHANGED <<ctx, disk>>
          \/ /\ p.size <= 0 \/ p.done < p.size
             /\ Writes(i, Takes(n))
             /\ LET d == [c EXCEPT !.pos = @ + Takes(n)]
                IN conn' = [conn EXCEPT ![i] =
                              IF Takes(n) < n THEN Closed(d, "write") ELSE d]
  BY DEF WriteBody, Writes
<1>3. n \in Nat
  OBVIOUS
<1>4. CASE /\ conn' = [conn EXCEPT ![i] = Closed(@, "write")]
           /\ PartError(i) \/ UNCHANGED part
           /\ UNCHANGED <<ctx, disk>>
  <2> DEFINE e == Closed(c, "write")
  <2>1. e \in ConnType /\ e.st = "closed" /\ conn' = [conn EXCEPT ![i] = e]
    BY <1>1, <1>4, ClosedType DEF Results
  <2> HIDE DEF e
  <2> QED
    BY <1>4, <2>1
<1>5. CASE /\ p.size <= 0 \/ p.done < p.size
           /\ Writes(i, Takes(n))
           /\ LET d == [c EXCEPT !.pos = @ + Takes(n)]
              IN conn' = [conn EXCEPT ![i] =
                            IF Takes(n) < n THEN Closed(d, "write") ELSE d]
  <2>1. Takes(n) \in Nat /\ (p.size > 0 => p.done + Takes(n) <= p.size)
    BY <1>1, <1>3, <1>5 DEF PartType, Smaller
  <2> DEFINE k == Takes(n)
             d == [c EXCEPT !.pos = @ + k]
             e == IF k < n THEN Closed(d, "write") ELSE d
  <2>2. conn' = [conn EXCEPT ![i] = e] /\ Writes(i, k)
    BY <1>5
  <2> HIDE DEF k
  <2>3. c.pos + k \in Nat
    BY <1>1, <2>1 DEF ConnType, k
  <2>4. d \in ConnType /\ d.st = c.st /\ d.ver = c.ver /\ d.pos = c.pos + k
    BY <1>1, <2>3 DEF ConnType
  <2> HIDE DEF d
  <2>5. e \in ConnType /\ (e.st = "closed" \/ e = d)
    BY <2>4, ClosedType DEF Results
  <2> HIDE DEF e
  <2>6. k \in Nat /\ (p.size > 0 => p.done + k <= p.size)
    BY <2>1 DEF k
  <2> QED
    BY <2>2, <2>4, <2>5, <2>6
<1> QED
  BY <1>2, <1>4, <1>5

LEMMA WriteBodyMix ==
  ASSUME IInv, MixInv, ~ctx.probing, NEW i \in DOMAIN part, conn[i].st = "body",
         WriteBody(i)
  PROVE  MixInv'
<1> USE DEF IInv
<1>1. /\ UNCHANGED <<entry, saved, loaded>> /\ ctx \in CtxType /\ ctx.file \in Files
      /\ DOMAIN conn = DOMAIN part /\ part[i] \in PartType /\ conn[i] \in ConnType
      /\ IsPart(part) /\ ctx.etag # NoValidator
  BY DEF WriteBody, CallbackFrame, resumeVars, TypeOK, IsConn, IsCtx, IsPart,
         ProbeInv, MixInv, TagInv
<1>2. CASE /\ PartError(i) \/ UNCHANGED part
           /\ UNCHANGED <<ctx, disk>>
           /\ \E e \in ConnType : e.st = "closed" /\ conn' = [conn EXCEPT ![i] = e]
  BY <1>1, <1>2, PartErrorStays, SameParts, ClosesMix
<1>3. ASSUME NEW k \in Nat, NEW e \in ConnType, Writes(i, k),
             conn' = [conn EXCEPT ![i] = e],
             \/ e.st = "closed"
             \/ e.st = conn[i].st /\ e.ver = conn[i].ver /\ e.pos = conn[i].pos + k
      PROVE  MixInv'
  <2> DEFINE off == part[i].start + part[i].done
             w == Written(disk[ctx.file], conn[i], off, k)
  <2>1. /\ ctx'.file = ctx.file /\ ctx'.probing = ctx.probing /\ ctx'.etag = ctx.etag
        /\ entry[ctx.file] = "file"
    BY <1>1, <1>3 DEF Writes, CtxType
  <2>2. /\ DOMAIN part' = DOMAIN part
        /\ \A j \in DOMAIN part \ {i} : part'[j] = part[j]
        /\ part'[i].start = part[i].start /\ part'[i].done = part[i].done + k
    BY <1>1, <1>3 DEF Writes, PartType
  <2>3. conn[i].pos = off /\ conn[i].ver = ctx.etag
    BY <1>1 DEF MixInv, AimInv
  <2>4. Pure(w, ctx.etag)
    <3>1. Pure(disk[ctx.file], ctx.etag)
      BY <1>1, <2>1 DEF MixInv, TagInv
    <3> QED
      BY <2>3, <3>1 DEF Pure, Written
  <2>5. disk' = [disk EXCEPT ![ctx.file] = w]
    BY <1>3 DEF Writes
  <2> HIDE DEF w
  <2>6. disk'[ctx.file] = w /\ \A g \in Files \ {ctx.file} : disk'[g] = disk[g]
    BY <1>1, <2>5 DEF TypeOK
  <2>7. TagInv'
    <3>1. Rows' = Rows /\ \A r \in Rows : r.file # NoFile => r.file \in Files
      BY <1>1, RowsStay, RowsAre
    <3>2. ~ctx'.probing => ctx'.etag # NoValidator /\ Pure(disk'[ctx'.file], ctx'.etag)
      BY <1>1, <2>1, <2>4, <2>6
    <3>3. \A r \in Rows' : r.file # NoFile =>
            /\ r.etag # NoValidator
            /\ entry'[r.file] = "file" => Pure(disk'[r.file], r.etag)
      BY <1>1, <2>4, <2>6, <3>1 DEF MixInv, TagInv
    <3>4. \A f \in Files : entry'[f] = "free" => disk'[f] = [o \in Offsets |-> Hole]
      BY <1>1, <2>1, <2>6 DEF MixInv, TagInv
    <3> QED
      BY <1>1, <2>1, <3>1, <3>2, <3>3, <3>4 DEF MixInv, TagInv
  <2>8. conn'[i] = e /\ \A j \in DOMAIN conn \ {i} : conn'[j] = conn[j]
    BY <1>1, <1>3
  <2>9. conn'[i].st = "body" => conn'[i].pos = part'[i].start + part'[i].done
                                /\ conn'[i].ver = ctx'.etag
    <3>1. part[i].start \in Nat /\ part[i].done \in Nat
      BY <1>1 DEF PartType
    <3> QED
      BY <1>3, <2>1, <2>2, <2>3, <2>8, <3>1
  <2>10. conn'[i].st \in {"body", "closed"}
    BY <1>3, <2>8
  <2>11. part'[0].start = part[0].start
    BY <2>2 DEF TypeOK, IsPart
  <2>12. AimInv'
    BY <1>1, <1>3, <2>1, <2>2, <2>8, <2>9, <2>10, <2>11, RowsStay DEF MixInv, AimInv
  <2> QED
    BY <2>7, <2>12 DEF MixInv
<1> QED
  BY <1>2, <1>3, WriteBodyAims

LEMMA FinalizeMix ==
  ASSUME IInv, MixInv, NEW i \in DOMAIN conn, NEW f \in Files,
         FinalizeProbing(i, f) \/ FinalizeFails(i, f)
  PROVE  MixInv'
<1> USE DEF IInv
<1>1. /\ ctx.probing /\ DOMAIN part = {0} /\ DOMAIN conn = {0} /\ i = 0
      /\ conn[0] \in ConnType /\ ctx \in CtxType /\ conn[0].st = "body"
      /\ part[0].done = 0
  BY DEF FinalizeProbing, FinalizeFails, BodyArrives, ProbeInv, TypeOK, IsConn, IsCtx
<1>2. conn[0].pos = 0 /\ conn[0].ver = ctx.etag /\ ctx.etag # NoValidator
  BY <1>1, DownloadAssumption DEF MixInv, AimInv, ConnInv, NoValidator
<1>3. /\ entry[f] = "free" /\ disk' = disk /\ Rows' = Rows
      /\ \A g \in Files \ {f} : entry'[g] = entry[g]
  BY RowsStay
  DEF FinalizeProbing, FinalizeFails, FirstFree, FreeFiles, CallbackFrame,
      resumeVars, TypeOK
<1>4. ctx'.file = f /\ ctx'.etag = ctx.etag /\ ctx'.probing = FALSE
  <2>1. CASE FinalizeProbing(i, f)
    <3> DEFINE range == conn[i].code = 206
               total == TotalFound(conn[i])
    <3>1. ctx' = [ctx EXCEPT !.probing = FALSE, !.total = total,
                             !.file = f, !.range = range]
      BY <2>1 DEF FinalizeProbing
    <3> HIDE DEF range, total
    <3> QED
      BY <1>1, <3>1 DEF CtxType
  <2>2. CASE FinalizeFails(i, f)
    <3> DEFINE total == TotalFound(conn[i])
    <3>1. ctx' = [ctx EXCEPT !.probing = FALSE, !.total = total, !.file = f,
                             !.status = "ERROR", !.reason = "ERROR"]
      BY <2>2 DEF FinalizeFails
    <3> HIDE DEF total
    <3> QED
      BY <1>1, <3>1 DEF CtxType
  <2> QED
    BY <2>1, <2>2
<1>5. \A r \in Rows : r.file # NoFile => r.file \in Files /\ r.file # f
  BY <1>3, RowsAre DEF EntryInv
<1>6. TagInv'
  <2>1. disk[f] = [o \in Offsets |-> Hole]
    BY <1>3 DEF MixInv, TagInv
  <2>2. Pure(disk[f], ctx.etag)
    BY <2>1 DEF Pure
  <2> QED
    BY <1>2, <1>3, <1>4, <1>5, <2>2 DEF MixInv, TagInv
<1>7. /\ part'[0].start = 0 /\ part'[0].done = 0
      /\ 0 \in DOMAIN conn' /\ \A j \in DOMAIN conn' : j = 0 \/ conn'[j].st = "new"
      /\ conn'[0].st = "body" =>
           conn'[0].pos = conn[0].pos /\ conn'[0].ver = conn[0].ver
      /\ conn'[0].st # "sent"
  <2>1. CASE FinalizeFails(i, f)
    <3>1. Closed(conn[0], "write").st = "closed"
      BY <1>1, ClosedType DEF Results
    <3>2. conn' = [conn EXCEPT ![0] = Closed(conn[0], "write")] /\ part' = part
      BY <1>1, <2>1 DEF FinalizeFails
    <3> QED
      BY <1>1, <3>1, <3>2 DEF MixInv, AimInv
  <2>2. CASE FinalizeProbing(i, f) /\ conn[i].code = 206
    <3> DEFINE total == TotalFound(conn[0])
    <3>1. total \in Int
      BY <1>1 DEF TotalFound, ConnType, CtxType
    <3>2. /\ part' = [j \in PartIds(total) |->
                        NewPart(PartStart(total, j), PartEnd(total, j))]
          /\ conn' = [j \in PartIds(total) |->
                        IF j = 0 THEN [conn[0] EXCEPT !.retry = 0] ELSE NewConn]
      BY <1>1, <2>2 DEF FinalizeProbing
    <3> HIDE DEF total
    <3>3. 0 \in PartIds(total) /\ PartStart(total, 0) = 0
      BY <3>1, CutTypes DEF PartStart
    <3>4. /\ NewPart(0, PartEnd(total, 0)).start = 0
          /\ NewPart(0, PartEnd(total, 0)).done = 0
      BY DEF NewPart
    <3>5. NewConn.st = "new"
      BY DEF NewConn
    <3>6. /\ [conn[0] EXCEPT !.retry = 0].st = "body"
          /\ [conn[0] EXCEPT !.retry = 0].pos = conn[0].pos
          /\ [conn[0] EXCEPT !.retry = 0].ver = conn[0].ver
      BY <1>1 DEF ConnType
    <3> QED
      BY <3>2, <3>3, <3>4, <3>5, <3>6
  <2>3. CASE FinalizeProbing(i, f) /\ conn[i].code # 206
    <3>1. conn' = conn /\ \E end : part' = [j \in {0} |-> NewPart(0, end)]
      BY <2>3 DEF FinalizeProbing
    <3>2. \A end : NewPart(0, end).start = 0 /\ NewPart(0, end).done = 0
      BY DEF NewPart
    <3> QED
      BY <1>1, <3>1, <3>2
  <2> QED
    BY <2>1, <2>2, <2>3
<1>8. AimInv'
  BY <1>2, <1>3, <1>4, <1>7 DEF MixInv, AimInv
<1> QED
  BY <1>6, <1>8 DEF MixInv

LEMMA SiteStays == ASSUME [Next]_vars PROVE site' = site
<1>1. CASE UNCHANGED vars
  BY <1>1 DEF vars
<1>2. CASE Environment
  BY <1>2
  DEF Environment, Add, Load, GoOn, Resume, StartTask, Pause, Cancel, Crash,
      Change, UserRemove
<1>3. CASE Network
  BY <1>3
  DEF Network, Reply, TransferFails, Refuse, Receive, WriteBody, EndOfBody,
      FinalizeProbing, FinalizeFails, CallbackFrame
<1>4. CASE Worker
  BY <1>4
  DEF Worker, ReceiveFirst, WriteBody, CallbackFrame, WStart, WTop, WPoll, WEmit,
      WFinish, WLeave, WMsg, WorkerFrame
<1> QED
  BY <1>1, <1>2, <1>3, <1>4 DEF Next

LEMMA MixStep ==
  ASSUME IInv, MixInv, site.validator, "wrapper" \notin UserRemoves, [Next]_vars
  PROVE  MixInv'
<1>1. /\ TypeOK /\ ProbeInv /\ DOMAIN conn = DOMAIN part /\ 0 \in DOMAIN part
      /\ \A i \in DOMAIN conn : conn[i] \in ConnType
  BY DEF IInv, TypeOK, IsConn, IsPart
<1>2. CASE UNCHANGED vars
  <2>1. UNCHANGED <<entry, disk, saved, loaded, ctx, part, conn>>
    BY <1>2 DEF vars, downloadVars, storageVars, resumeVars
  <2> QED
    BY <2>1, RowsStay DEF MixInv, TagInv, AimInv
<1>3. CASE Environment
  BY <1>3, EnvironmentMix
<1>4. ASSUME NEW i \in DOMAIN conn, Reply(i) PROVE MixInv'
  BY <1>4, ReplyMix
<1>5. ASSUME NEW i \in DOMAIN conn, TransferFails(i) \/ Refuse(i) \/ EndOfBody(i)
      PROVE  MixInv'
  <2>1. /\ UNCHANGED <<entry, disk, saved, loaded, ctx, part>>
        /\ \E c \in ConnType : c.st = "closed" /\ conn' = [conn EXCEPT ![i] = c]
    <3>1. UNCHANGED <<entry, disk, saved, loaded, ctx, part>>
      BY <1>5 DEF TransferFails, Refuse, EndOfBody, CallbackFrame, resumeVars
    <3> QED
      BY <1>1, <1>5, <3>1, TransferEndCloses
  <2> QED
    BY <1>1, <2>1, SameParts, ClosesMix
<1>6. ASSUME NEW i \in DOMAIN conn, Receive(i) PROVE MixInv'
  BY <1>1, <1>6, WriteBodyMix DEF Receive, BodyArrives
<1>7. CASE ReceiveFirst
  BY <1>1, <1>7, WriteBodyMix DEF ReceiveFirst, IInv, ConnInv
<1>8. ASSUME NEW i \in DOMAIN conn, NEW f \in Files,
             FinalizeProbing(i, f) \/ FinalizeFails(i, f)
      PROVE  MixInv'
  BY <1>8, FinalizeMix
<1>9. CASE Worker /\ ~ReceiveFirst
  BY <1>9, WorkerMix
<1> QED
  BY <1>2, <1>3, <1>4, <1>5, <1>6, <1>7, <1>8, <1>9 DEF Next, Network

\* Unless the user removes wrapper directories, no file of a server that sends
\* validators holds bytes of two versions or at a wrong place, across pauses,
\* crashes, lost saves, failing writes, retries and changes of the remote file.
THEOREM NoFileIsMixed ==
  ASSUME "wrapper" \notin UserRemoves
  PROVE  Spec => []NoMixture
<1> DEFINE Mix == site.validator => MixInv
<1>1. Init => IInv /\ Mix
  BY IInvInit, InitMix
<1>2. IInv /\ Mix /\ [Next]_vars => IInv' /\ Mix'
  BY IInvStep, MixStep, SiteStays
<1>3. IInv /\ Mix => NoMixture
  BY DEF IInv, ProbeInv, MixInv, TagInv, NoMixture, Pure
<1> HIDE DEF Mix
<1> QED
  BY <1>1, <1>2, <1>3, PTL DEF Spec

-----------------------------------------------------------------------------
(* A file that is split is covered exactly once, part by part.             *)

Cut(parts, total) ==
  /\ total > 0
  /\ DOMAIN parts = PartIds(total)
  /\ \A i \in PartIds(total) :
       /\ parts[i].start = PartStart(total, i) /\ parts[i].end = PartEnd(total, i)
       /\ parts[i].done <= parts[i].end + 1 - parts[i].start

\* The parts of a task that splits its file, and of its rows, are the cut of the
\* task's total, which is known; each is as large as its bounds say.
TaskCut ==
  ctx.range /\ part[0].end # OpenEnd =>
    /\ Cut(part, ctx.total)
    /\ \A i \in DOMAIN part : part[i].size = part[i].end + 1 - part[i].start
RowCut ==
  \A r \in Rows : r.range /\ r.part[0].end # OpenEnd => Cut(r.part, r.total)

LEMMA CutOnce ==
  ASSUME NEW parts, NEW total \in Int, Cut(parts, total)
  PROVE  Covers(parts, total)
<1>1. total \in Nat \ {0}
  BY DEF Cut
<1>2. ASSUME NEW o \in 0 .. (total - 1)
      PROVE  Cardinality({i \in DOMAIN parts : o \in parts[i].start .. parts[i].end}) = 1
  <2>1. {i \in DOMAIN parts : o \in parts[i].start .. parts[i].end}
          = {j \in PartIds(total) : o \in PartStart(total, j) .. PartEnd(total, j)}
    BY DEF Cut
  <2>2. \E i \in PartIds(total) :
          {j \in PartIds(total) : o \in PartStart(total, j) .. PartEnd(total, j)} = {i}
    BY <1>1, <1>2, EachByteInOnePart
  <2> QED
    BY <2>1, <2>2, FS_Singleton
<1> QED
  BY <1>2 DEF Covers, Cut

LEMMA NoPartEmpty ==
  ASSUME NEW total \in Nat \ {0}, NEW i \in PartIds(total)
  PROVE  /\ PartStart(total, i) \in Nat /\ PartEnd(total, i) \in Int
         /\ PartStart(total, i) <= PartEnd(total, i)
BY LayoutTiles, CutTypes DEF Tiles

LEMMA RowCutStays ==
  ASSUME TypeOK, TaskCut, RowCut, saved' = saved \/ saved' = Serialized,
         loaded' = loaded
  PROVE  RowCut'
<1>1. CASE saved' = saved
  BY <1>1, RowsStay DEF RowCut
<1>2. CASE saved' = Serialized
  <2>0. \A r \in Rows' : r \in Rows \/ r = saved'
    BY DEF Rows
  <2>1. /\ saved'.range = ctx.range /\ saved'.total = ctx.total
        /\ DOMAIN saved'.part = DOMAIN part
        /\ \A i \in DOMAIN part :
             /\ saved'.part[i].start = part[i].start
             /\ saved'.part[i].end = part[i].end
             /\ saved'.part[i].done = part[i].done
    BY <1>2 DEF Serialized
  <2>2. 0 \in DOMAIN part
    BY DEF TypeOK, IsPart
  <2> QED
    BY <2>0, <2>1, <2>2 DEF TaskCut, RowCut, Cut
<1> QED
  BY <1>1, <1>2

LEMMA TaskCutStays ==
  ASSUME TypeOK, TaskCut, PartsStay, ctx'.range = ctx.range,
         ctx.total > 0 => ctx'.total = ctx.total
  PROVE  TaskCut'
<1> SUFFICES ASSUME ctx'.range, part'[0].end # OpenEnd
             PROVE  /\ Cut(part', ctx'.total)
                    /\ \A i \in DOMAIN part' :
                         part'[i].size = part'[i].end + 1 - part'[i].start
  BY DEF TaskCut
<1>1. 0 \in DOMAIN part /\ ctx.total \in Int
  BY DEF TypeOK, IsPart, IsCtx, CtxType
<1>2. /\ Cut(part, ctx.total)
      /\ \A i \in DOMAIN part : part[i].size = part[i].end + 1 - part[i].start
  BY <1>1 DEF TaskCut, PartsStay
<1>3. ctx.total \in Nat \ {0} /\ ctx'.total = ctx.total
  BY <1>1, <1>2 DEF Cut
<1>4. \A i \in DOMAIN part : part[i].size > 0
  BY <1>2, <1>3, NoPartEmpty DEF Cut
<1> QED
  BY <1>2, <1>3, <1>4 DEF PartsStay, Cut

LEMMA RestoredBounds ==
  ASSUME NEW p \in RowPartType, p.start <= p.end
  PROVE  /\ Restored(p).start = p.start /\ Restored(p).end = p.end
         /\ Restored(p).done = p.done
         /\ Restored(p).size = p.end + 1 - p.start
<1>1. p.start \in Nat /\ p.end \in Int /\ p.done \in Nat
  BY DEF RowPartType
<1> QED
  BY <1>1 DEF Restored, NewPart

LEMMA EnvironmentCut ==
  ASSUME TypeOK, TaskCut, RowCut, Environment
  PROVE  TaskCut' /\ RowCut'
<1>2. RowCut'
  BY EnvironmentRows, NoResumeIs DEF RowCut
<1>3. CASE ctx' = FreshCtx /\ part' = FreshParts
  BY <1>2, <1>3 DEF TaskCut, FreshCtx
<1>4. CASE ctx' = ctx /\ part' = part
  BY <1>2, <1>4 DEF TaskCut
<1>5. CASE Resume /\ Usable
  <2>1. /\ ctx'.range = loaded.range /\ ctx'.total = loaded.total
        /\ part' = [i \in DOMAIN loaded.part |-> Restored(loaded.part[i])]
    BY <1>5 DEF Resume, RestoredCtx, RestoredCtxNoEtag, FreshCtx
  <2>2. /\ 0 \in DOMAIN loaded.part /\ loaded.total \in Int
        /\ \A i \in DOMAIN loaded.part : loaded.part[i] \in RowPartType
    BY <1>5 DEF Resume, TypeOK, IsRow
  <2>3. SUFFICES ASSUME ctx'.range, part'[0].end # OpenEnd
                 PROVE  /\ Cut(part', ctx'.total)
                        /\ \A i \in DOMAIN part' :
                             part'[i].size = part'[i].end + 1 - part'[i].start
    BY <1>2 DEF TaskCut
  <2>4. part'[0].end = loaded.part[0].end
    BY <2>1, <2>2 DEF Restored, NewPart, RowPartType
  <2>5. Cut(loaded.part, loaded.total)
    BY <2>1, <2>3, <2>4 DEF RowCut, Rows
  <2>6. \A i \in DOMAIN loaded.part : loaded.part[i].start <= loaded.part[i].end
    BY <2>2, <2>5, NoPartEmpty DEF Cut
  <2>7. \A i \in DOMAIN part' :
          /\ part'[i].start = loaded.part[i].start
          /\ part'[i].end = loaded.part[i].end
          /\ part'[i].done = loaded.part[i].done
          /\ part'[i].size = loaded.part[i].end + 1 - loaded.part[i].start
    BY <2>1, <2>2, <2>6, RestoredBounds
  <2>8. DOMAIN part' = DOMAIN loaded.part
    BY <2>1
  <2> QED
    BY <2>1, <2>5, <2>7, <2>8 DEF Cut
<1> QED
  BY <1>3, <1>4, <1>5
  DEF Environment, Add, Load, GoOn, Resume, Pause, Cancel, Crash, Change,
      UserRemove, downloadVars

LEMMA ReplyCut ==
  ASSUME TypeOK, TaskCut, NEW i \in DOMAIN conn, Reply(i)
  PROVE  TaskCut'
<1>1. ctx \in CtxType /\ IsPart(part) /\ i \in DOMAIN part
  BY DEF TypeOK, IsCtx, IsConn
<1>2. CASE MarkDrift(i)
  <2>1. PartsStay
    BY <1>1, <1>2, PartErrorStays DEF MarkDrift
  <2>2. ctx'.range = ctx.range /\ ctx'.total = ctx.total
    BY <1>1, <1>2 DEF MarkDrift, CtxType
  <2> QED
    BY <2>1, <2>2, TaskCutStays
<1>3. ASSUME NEW code, NEW last, AcceptHeaders(i, code, last)
      PROVE  TaskCut'
  <2> DEFINE total == IF code # 200 /\ site.length /\ ctx.total <= 0
                         /\ Len[version] > 0
                      THEN Len[version] ELSE ctx.total
             etag == IF site.validator THEN version ELSE ctx.etag
  <2>1. ctx' = [ctx EXCEPT !.total = total, !.etag = etag]
    BY <1>3 DEF AcceptHeaders
  <2>2. ctx.total > 0 => total = ctx.total
    BY <1>1 DEF CtxType
  <2> HIDE DEF total, etag
  <2>3. ctx'.range = ctx.range /\ (ctx.total > 0 => ctx'.total = ctx.total)
    BY <1>1, <2>1, <2>2 DEF CtxType
  <2>4. part' = part
    BY <1>3 DEF AcceptHeaders
  <2> QED
    BY <2>3, <2>4, SameParts, TaskCutStays
<1> QED
  BY <1>2, <1>3 DEF Reply

LEMMA WriteBodyCut ==
  ASSUME TypeOK, TaskCut, NEW i \in DOMAIN part, WriteBody(i)
  PROVE  TaskCut'
<1>1. /\ ctx \in CtxType /\ IsPart(part) /\ part[i] \in PartType
      /\ 0 \in DOMAIN part
  BY DEF TypeOK, IsCtx, IsPart
<1>2. CASE (PartError(i) \/ UNCHANGED part) /\ UNCHANGED ctx
  BY <1>1, <1>2, PartErrorStays, SameParts, TaskCutStays
<1>3. ASSUME NEW k \in Nat, Writes(i, k),
             part[i].size > 0 => part[i].done + k <= part[i].size
      PROVE  TaskCut'
  <2>1. ctx'.range = ctx.range /\ ctx'.total = ctx.total
    BY <1>1, <1>3 DEF Writes, CtxType
  <2>2. /\ DOMAIN part' = DOMAIN part
        /\ \A j \in DOMAIN part : /\ part'[j].start = part[j].start
                                  /\ part'[j].end = part[j].end
                                  /\ part'[j].size = part[j].size
        /\ \A j \in DOMAIN part \ {i} : part'[j] = part[j]
        /\ part'[i].done = part[i].done + k
    BY <1>1, <1>3 DEF Writes, PartType
  <2>3. SUFFICES ASSUME ctx.range, part[0].end # OpenEnd
                 PROVE  /\ Cut(part', ctx.total)
                        /\ \A j \in DOMAIN part' :
                             part'[j].size = part'[j].end + 1 - part'[j].start
    BY <1>1, <2>1, <2>2 DEF TaskCut
  <2>4. /\ Cut(part, ctx.total)
        /\ \A j \in DOMAIN part : part[j].size = part[j].end + 1 - part[j].start
    BY <2>3 DEF TaskCut
  <2>5. ctx.total \in Nat \ {0}
    BY <1>1, <2>4 DEF Cut, CtxType
  <2>6. part[i].size > 0
    BY <2>4, <2>5, NoPartEmpty DEF Cut
  <2>7. part'[i].done <= part'[i].end + 1 - part'[i].start
    BY <1>3, <2>2, <2>4, <2>6
  <2> QED
    BY <2>2, <2>4, <2>7 DEF Cut
<1> QED
  BY <1>2, <1>3, WriteBodyAims

LEMMA FinalizeCut ==
  ASSUME TypeOK, ProbeInv, NEW i \in DOMAIN conn, NEW f \in Files,
         FinalizeProbing(i, f) \/ FinalizeFails(i, f)
  PROVE  TaskCut'
<1>1. ctx.probing /\ ~ctx.range /\ ctx \in CtxType /\ conn[i] \in ConnType
  BY DEF FinalizeProbing, FinalizeFails, ProbeInv, TypeOK, IsCtx, IsConn
<1>2. CASE FinalizeFails(i, f)
  <2>1. ctx'.range = ctx.range
    BY <1>1, <1>2 DEF FinalizeFails, CtxType
  <2> QED
    BY <1>1, <2>1 DEF TaskCut
<1>3. CASE FinalizeProbing(i, f) /\ conn[i].code # 206
  <2>1. ctx'.range = FALSE
    BY <1>1, <1>3 DEF FinalizeProbing, CtxType
  <2> QED
    BY <2>1 DEF TaskCut
<1>4. CASE FinalizeProbing(i, f) /\ conn[i].code = 206
  <2> DEFINE total == TotalFound(conn[i])
  <2>1. total \in Int
    BY <1>1 DEF TotalFound, ConnType, CtxType
  <2>2. /\ ctx'.total = total
        /\ part' = [j \in PartIds(total) |->
                      NewPart(PartStart(total, j), PartEnd(total, j))]
    BY <1>1, <1>4 DEF FinalizeProbing, CtxType
  <2> HIDE DEF total
  <2>3. 0 \in PartIds(total)
    BY <2>1, CutTypes
  <2>4. part'[0].end = PartEnd(total, 0)
    BY <2>2, <2>3 DEF NewPart
  <2>5. CASE total <= 0
    <3>1. PartEnd(total, 0) = OpenEnd
      BY <2>1, <2>5 DEF PartEnd, OpenEnd
    <3> QED
      BY <2>4, <3>1 DEF TaskCut
  <2>6. CASE total > 0
    <3>1. ASSUME NEW j \in PartIds(total)
          PROVE  /\ part'[j].start = PartStart(total, j)
                 /\ part'[j].end = PartEnd(total, j)
                 /\ part'[j].done = 0
                 /\ part'[j].size = PartEnd(total, j) + 1 - PartStart(total, j)
                 /\ part'[j].done <= part'[j].end + 1 - part'[j].start
      <4>1. /\ PartStart(total, j) \in Nat /\ PartEnd(total, j) \in Int
            /\ PartStart(total, j) <= PartEnd(total, j)
        BY <2>1, <2>6, NoPartEmpty
      <4>2. part'[j] = NewPart(PartStart(total, j), PartEnd(total, j))
        BY <2>2
      <4> QED
        BY <4>1, <4>2 DEF NewPart
    <3>2. DOMAIN part' = PartIds(total)
      BY <2>2
    <3> QED
      BY <2>2, <2>6, <3>1, <3>2 DEF TaskCut, Cut
  <2> QED
    BY <2>1, <2>5, <2>6
<1> QED
  BY <1>2, <1>3, <1>4

CutInv == TaskCut /\ RowCut

LEMMA CutStep ==
  ASSUME TypeInv, CutInv, [Next]_vars
  PROVE  CutInv'
<1> USE DEF TypeInv, CutInv
<1>1. DOMAIN conn = DOMAIN part /\ 0 \in DOMAIN part
  BY DEF TypeOK, IsConn, IsPart
<1>2. CASE UNCHANGED vars
  <2>1. UNCHANGED <<saved, loaded, ctx, part>>
    BY <1>2 DEF vars, downloadVars, storageVars, resumeVars
  <2> QED
    BY <2>1, RowsStay DEF TaskCut, RowCut
<1>3. CASE Environment
  BY <1>3, EnvironmentCut
<1>4. CASE UNCHANGED <<saved, loaded>> /\ Network
  <2>1. RowCut'
    BY <1>4, RowCutStays
  <2>2. ASSUME NEW i \in DOMAIN conn, TransferFails(i) \/ Refuse(i) \/ EndOfBody(i)
        PROVE  TaskCut'
    <3>1. UNCHANGED <<ctx, part>>
      BY <2>2 DEF TransferFails, Refuse, EndOfBody
    <3> QED
      BY <3>1 DEF TaskCut
  <2>3. ASSUME NEW i \in DOMAIN conn, Receive(i) PROVE TaskCut'
    BY <1>1, <2>3, WriteBodyCut DEF Receive
  <2> QED
    <3>1. ASSUME NEW i \in DOMAIN conn, Reply(i) PROVE TaskCut'
      BY <3>1, ReplyCut
    <3>2. ASSUME NEW i \in DOMAIN conn, NEW f \in Files,
                 FinalizeProbing(i, f) \/ FinalizeFails(i, f)
          PROVE  TaskCut'
      BY <3>2, FinalizeCut
    <3> QED
      BY <1>4, <2>1, <2>2, <2>3, <3>1, <3>2 DEF Network
<1>5. Network => UNCHANGED <<saved, loaded>>
  BY DEF Network, Reply, TransferFails, Refuse, Receive, WriteBody, EndOfBody,
         FinalizeProbing, FinalizeFails, CallbackFrame, resumeVars
<1>6. CASE ReceiveFirst
  <2>1. WriteBody(0) /\ UNCHANGED <<saved, loaded>>
    BY <1>6 DEF ReceiveFirst, WriteBody, CallbackFrame, resumeVars
  <2> QED
    BY <1>1, <2>1, WriteBodyCut, RowCutStays
<1>7. CASE Worker /\ ~ReceiveFirst
  <2>1. /\ PartsStay /\ ctx'.range = ctx.range
        /\ ctx.total > 0 => ctx'.total = ctx.total
        /\ (saved' = saved \/ saved' = Serialized) /\ loaded' = loaded
    BY <1>7, WorkerType, WorkerHasEffect DEF WorkerKeeps, WorkerEffect
  <2> QED
    BY <2>1, TaskCutStays, RowCutStays
<1> QED
  BY <1>2, <1>3, <1>4, <1>5, <1>6, <1>7 DEF Next

\* Whatever the server, the users, the network and the disk do, the parts of a
\* download that splits its file, and those of the row it has saved, cover each
\* byte exactly once and none has more than its share.
THEOREM PartsCoverTheFile == Spec => []PartsTile
<1>1. Init => TypeInv /\ CutInv
  BY TypeInvInit, NoResumeIs DEF Init, CutInv, TaskCut, RowCut, Rows, FreshCtx
<1>2. TypeInv /\ CutInv /\ [Next]_vars => TypeInv' /\ CutInv'
  BY TypeInvStep, CutStep
<1>3. TypeInv /\ CutInv => PartsTile
  BY CutOnce
  DEF TypeInv, TypeOK, IsCtx, CtxType, IsRow, CutInv, TaskCut, RowCut, Rows, PartsTile
<1> QED
  BY <1>1, <1>2, <1>3, PTL DEF Spec

-----------------------------------------------------------------------------
(* A row never goes back.                                                  *)

\* What describes the task's own file is not ahead of the task, unless the worker
\* has started from a row that another had overtaken.
Behind(row) ==
  row.file # NoFile /\ row.file = ctx.file =>
    \A i \in DOMAIN row.part :
      i \in DOMAIN part /\ part[i].done >= row.part[i].done
BehindInv == ~overtaken => Behind(saved)

Grows ==
  /\ DOMAIN part \subseteq DOMAIN part'
  /\ \A i \in DOMAIN part : part'[i].done >= part[i].done

RowGrows ==
  saved'.file = saved.file /\ saved.file # NoFile /\ ~overtaken =>
    \A i \in DOMAIN saved.part :
      i \in DOMAIN saved'.part /\ saved'.part[i].done >= saved.part[i].done

LEMMA BehindKept ==
  ASSUME TypeOK, BehindInv, Grows, ctx'.file = ctx.file,
         UNCHANGED <<saved, overtaken>>,
         \A i \in DOMAIN part : part'[i].done \in Int
  PROVE  BehindInv'
<1>1. /\ \A i \in DOMAIN part : part[i].done \in Int
      /\ \A i \in DOMAIN saved.part : saved.part[i].done \in Int
  BY DEF TypeOK, IsPart, PartType, IsRow, RowPartType
<1> QED
  BY <1>1 DEF BehindInv, Behind, Grows

LEMMA EnvironmentBehind ==
  ASSUME IInv, BehindInv, Environment
  PROVE  BehindInv'
<1>1. saved' = saved
  BY EnvironmentRows
<1>2. CASE ctx' = FreshCtx
  BY <1>1, <1>2 DEF BehindInv, Behind, FreshCtx
<1>3. CASE ctx' = ctx /\ part' = part /\ overtaken' = overtaken
  BY <1>1, <1>3 DEF BehindInv, Behind
<1>4. CASE /\ part' = [i \in DOMAIN loaded.part |-> Restored(loaded.part[i])]
           /\ overtaken' = (loaded # saved)
  <2>1. ASSUME ~overtaken', NEW i \in DOMAIN saved.part
        PROVE  i \in DOMAIN part' /\ part'[i].done >= saved.part[i].done
    <3>1. loaded = saved /\ saved.part[i] \in RowPartType
      BY <1>4, <2>1 DEF IInv, TypeOK, IsRow
    <3>2. part'[i].done = saved.part[i].done
      BY <1>4, <3>1, RestoredType
    <3> QED
      BY <1>4, <3>1, <3>2 DEF RowPartType
  <2> QED
    BY <1>1, <2>1 DEF BehindInv, Behind
<1> QED
  BY <1>2, <1>3, <1>4
  DEF Environment, Add, Load, GoOn, Resume, Pause, Cancel, Crash, Change,
      UserRemove,
      downloadVars, resumeVars

LEMMA NetworkBehind ==
  ASSUME IInv, BehindInv, Network \/ ReceiveFirst
  PROVE  BehindInv' /\ saved' = saved
<1> USE DEF IInv
<1>1. UNCHANGED <<saved, overtaken>>
  BY DEF Network, Reply, TransferFails, Refuse, Receive, ReceiveFirst, WriteBody,
         EndOfBody, FinalizeProbing, FinalizeFails, CallbackFrame, resumeVars
<1>2. /\ DOMAIN conn = DOMAIN part /\ 0 \in DOMAIN part /\ IsPart(part)
      /\ ctx \in CtxType /\ \A i \in DOMAIN part : part[i] \in PartType
  BY DEF TypeOK, IsConn, IsPart, IsCtx
<1>3. \A i \in DOMAIN part : part[i].done \in Nat
  BY <1>2 DEF PartType
<1>4. CASE PartsStay /\ ctx'.file = ctx.file
  BY <1>1, <1>3, <1>4, BehindKept DEF PartsStay, Grows
<1>5. ASSUME NEW i \in DOMAIN conn, Reply(i) PROVE BehindInv'
  <2>1. CASE MarkDrift(i)
    <3>1. ctx'.file = ctx.file
      BY <1>2, <2>1 DEF MarkDrift, CtxType
    <3> QED
      BY <1>2, <1>4, <2>1, <3>1, PartErrorStays DEF MarkDrift
  <2>2. ASSUME NEW code, NEW last, AcceptHeaders(i, code, last) PROVE BehindInv'
    <3> DEFINE total == IF code # 200 /\ site.length /\ ctx.total <= 0
                           /\ Len[version] > 0
                        THEN Len[version] ELSE ctx.total
               etag == IF site.validator THEN version ELSE ctx.etag
    <3>1. ctx' = [ctx EXCEPT !.total = total, !.etag = etag] /\ part' = part
      BY <2>2 DEF AcceptHeaders
    <3> HIDE DEF total, etag
    <3>2. ctx'.file = ctx.file
      BY <1>2, <3>1 DEF CtxType
    <3> QED
      BY <1>4, <3>1, <3>2, SameParts
  <2> QED
    BY <1>5, <2>1, <2>2 DEF Reply
<1>6. ASSUME NEW i \in DOMAIN conn, TransferFails(i) \/ Refuse(i) \/ EndOfBody(i)
      PROVE  BehindInv'
  <2>1. ctx' = ctx /\ part' = part
    BY <1>6 DEF TransferFails, Refuse, EndOfBody
  <2> QED
    BY <1>4, <2>1, SameParts
<1>7. ASSUME NEW i \in DOMAIN part, WriteBody(i) PROVE BehindInv'
  <2>1. CASE (PartError(i) \/ UNCHANGED part) /\ UNCHANGED ctx
    BY <1>2, <1>4, <1>7, <2>1, PartErrorStays, SameParts
  <2>2. ASSUME NEW k \in Nat, Writes(i, k) PROVE BehindInv'
    <3>1. ctx'.file = ctx.file
      BY <1>2, <2>2 DEF Writes, CtxType
    <3>2. /\ DOMAIN part' = DOMAIN part
          /\ \A j \in DOMAIN part \ {i} : part'[j] = part[j]
          /\ part'[i].done = part[i].done + k
      BY <1>2, <2>2 DEF Writes, PartType
    <3>3. \A j \in DOMAIN part : part'[j].done \in Int /\ part'[j].done >= part[j].done
      BY <1>3, <2>2, <3>2
    <3> QED
      BY <1>1, <3>1, <3>2, <3>3, BehindKept DEF Grows
  <2> QED
    BY <1>7, <2>1, <2>2, WriteBodyAims
<1>8. ASSUME NEW i \in DOMAIN conn, NEW f \in Files,
             FinalizeProbing(i, f) \/ FinalizeFails(i, f)
      PROVE  BehindInv'
  <2>1. ctx'.file = f
    <3>1. CASE FinalizeProbing(i, f)
      <4> DEFINE range == conn[i].code = 206
                 total == TotalFound(conn[i])
      <4>1. ctx' = [ctx EXCEPT !.probing = FALSE, !.total = total,
                               !.file = f, !.range = range]
        BY <3>1 DEF FinalizeProbing
      <4> HIDE DEF range, total
      <4> QED
        BY <1>2, <4>1 DEF CtxType
    <3>2. CASE FinalizeFails(i, f)
      <4> DEFINE total == TotalFound(conn[i])
      <4>1. ctx' = [ctx EXCEPT !.probing = FALSE, !.total = total, !.file = f,
                               !.status = "ERROR", !.reason = "ERROR"]
        BY <3>2 DEF FinalizeFails
      <4> HIDE DEF total
      <4> QED
        BY <1>2, <4>1 DEF CtxType
    <3> QED
      BY <1>8, <3>1, <3>2
  <2>2. entry[f] = "free"
    BY <1>8 DEF FinalizeProbing, FinalizeFails, FirstFree, FreeFiles
  <2>3. saved.file # f
    BY <2>2, DownloadAssumption DEF EntryInv, Rows, NoFile
  <2> QED
    BY <1>1, <2>1, <2>3 DEF BehindInv, Behind
<1>9. BehindInv'
  <2>1. CASE ReceiveFirst
    BY <1>2, <1>7, <2>1 DEF ReceiveFirst
  <2>2. ASSUME NEW i \in DOMAIN conn, Receive(i) PROVE BehindInv'
    BY <1>2, <1>7, <2>2 DEF Receive
  <2> QED
    BY <1>5, <1>6, <1>8, <2>1, <2>2 DEF Network
<1> QED
  BY <1>1, <1>9

LEMMA WorkerBehind ==
  ASSUME IInv, BehindInv, Worker, ~ReceiveFirst
  PROVE  BehindInv' /\ RowGrows
<1> USE DEF IInv
<1>1. WorkerKeeps /\ WorkerEffect
  BY WorkerType, WorkerHasEffect DEF WorkerKeeps
<1>2. /\ ctx'.file = ctx.file /\ PartsStay /\ overtaken' = overtaken
      /\ saved' = saved \/ saved' = Serialized
  BY <1>1 DEF WorkerKeeps, WorkerEffect
<1>3. /\ \A i \in DOMAIN part : part[i].done \in Nat
      /\ \A i \in DOMAIN saved.part : saved.part[i].done \in Nat
  BY DEF TypeOK, IsPart, PartType, IsRow, RowPartType
<1>4. CASE saved' = saved
  BY <1>2, <1>3, <1>4, BehindKept DEF PartsStay, Grows, RowGrows
<1>5. CASE saved' = Serialized
  <2>1. /\ saved'.file = ctx.file /\ DOMAIN saved'.part = DOMAIN part
        /\ \A i \in DOMAIN part : saved'.part[i].done = part[i].done
    BY <1>5 DEF Serialized
  <2> QED
    BY <1>2, <1>3, <2>1 DEF BehindInv, Behind, PartsStay, RowGrows
<1> QED
  BY <1>2, <1>4, <1>5

LEMMA BehindStep ==
  ASSUME IInv, BehindInv, [Next]_vars
  PROVE  BehindInv' /\ RowGrows
<1>1. ASSUME saved' = saved PROVE RowGrows
  BY <1>1 DEF RowGrows, IInv, TypeOK, IsRow, RowPartType
<1>2. CASE UNCHANGED vars
  <2>1. UNCHANGED <<saved, overtaken, ctx, part>>
    BY <1>2 DEF vars, downloadVars, storageVars, resumeVars
  <2> QED
    BY <1>1, <2>1 DEF BehindInv, Behind
<1>3. CASE Environment
  <2>1. saved' = saved
    BY <1>3, EnvironmentRows
  <2> QED
    BY <1>1, <1>3, <2>1, EnvironmentBehind
<1>4. CASE Network \/ ReceiveFirst
  BY <1>1, <1>4, NetworkBehind
<1>5. CASE Worker /\ ~ReceiveFirst
  BY <1>5, WorkerBehind
<1> QED
  BY <1>2, <1>3, <1>4, <1>5 DEF Next

\* Unless the user removes wrapper directories, a resume never fetches again
\* what an earlier row of the same file had secured; the one worker excepted that
\* starts from a row which do_resume had read before its last emit, and which only
\* start_download's join orders after it (http_engine.cpp:320, 164, 175).
THEOREM RowNeverGoesBack ==
  ASSUME "wrapper" \notin UserRemoves
  PROVE  Spec => ResumeNeverRegresses
<1>1. Init => IInv /\ BehindInv
  BY IInvInit DEF Init, NoResume, BehindInv, Behind
<1>2. IInv /\ BehindInv /\ [Next]_vars => IInv' /\ BehindInv'
  BY IInvStep, BehindStep
<1>3. IInv /\ BehindInv /\ [Next]_vars => [RowGrows]_vars
  BY BehindStep
<1>4. [][RowGrows]_vars => ResumeNeverRegresses
  BY PTL DEF RowGrows, ResumeNeverRegresses
<1> QED
  BY <1>1, <1>2, <1>3, <1>4, PTL DEF Spec

-----------------------------------------------------------------------------
(* The refinement of Workers.                                              *)

LEMMA RunsOrEnds ==
  ASSUME UNCHANGED requestVars, Running' => Running
  PROVE  Pool!Next \/ UNCHANGED [d \in {"it"} |-> Facts]
<1>1. CASE Running' <=> Running
  BY <1>1 DEF Facts, requestVars
<1>2. CASE Running /\ ~Running'
  <2>1. "runs" \in Facts /\ Facts' = {}
    BY <1>2 DEF Facts
  <2>2. Pool!Ends("it")
    BY <2>1 DEF Pool!Ends
  <2> QED
    BY <2>2 DEF Pool!Next
<1> QED
  BY <1>1, <1>2

LEMMA PoolStep == Next => Pool!Next \/ UNCHANGED [d \in {"it"} |-> Facts]
<1> SUFFICES ASSUME Next PROVE Pool!Next \/ UNCHANGED [d \in {"it"} |-> Facts]
  OBVIOUS
<1>1. CASE Network
  <2>0. PICK i \in DOMAIN conn :
          \/ Reply(i) \/ TransferFails(i) \/ Refuse(i) \/ Receive(i) \/ EndOfBody(i)
          \/ \E f \in Files : FinalizeProbing(i, f) \/ FinalizeFails(i, f)
    BY <1>1 DEF Network
  <2>1. Reply(i) => UNCHANGED requestVars /\ (Running' => Running)
    BY DEF Reply, CallbackFrame, Running
  <2>2. TransferFails(i) => UNCHANGED requestVars /\ (Running' => Running)
    BY DEF TransferFails, CallbackFrame, Running
  <2>3. Refuse(i) => UNCHANGED requestVars /\ (Running' => Running)
    BY DEF Refuse, CallbackFrame, Running
  <2>4. Receive(i) => UNCHANGED requestVars /\ (Running' => Running)
    BY DEF Receive, BodyArrives, WriteBody, CallbackFrame, Running
  <2>5. EndOfBody(i) => UNCHANGED requestVars /\ (Running' => Running)
    BY DEF EndOfBody, CallbackFrame, Running
  <2>6. (\E f \in Files : FinalizeProbing(i, f)) => UNCHANGED requestVars /\ (Running' => Running)
    BY DEF FinalizeProbing, BodyArrives, CallbackFrame, Running
  <2>7. (\E f \in Files : FinalizeFails(i, f)) => UNCHANGED requestVars /\ (Running' => Running)
    BY DEF FinalizeFails, CallbackFrame, Running
  <2> QED
    BY <2>0, <2>1, <2>2, <2>3, <2>4, <2>5, <2>6, <2>7, RunsOrEnds
<1>2. CASE Worker
  <2>1. ReceiveFirst => UNCHANGED requestVars /\ (Running' => Running)
    BY DEF ReceiveFirst, WriteBody, CallbackFrame, Running
  <2>2. WStart => UNCHANGED requestVars /\ (Running' => Running)
    BY DEF WStart, WorkerFrame, Running
  <2>3. WTop => UNCHANGED requestVars /\ (Running' => Running)
    BY DEF WTop, WorkerFrame, Running
  <2>4. WPoll => UNCHANGED requestVars /\ (Running' => Running)
    BY DEF WPoll, WorkerFrame, Running
  <2>5. WEmit => UNCHANGED requestVars /\ (Running' => Running)
    BY DEF WEmit, WorkerFrame, Running
  <2>6. WFinish => UNCHANGED requestVars /\ (Running' => Running)
    BY DEF WFinish, WorkerFrame, Running
  <2>7. WLeave => UNCHANGED requestVars /\ (Running' => Running)
    BY DEF WLeave, WorkerFrame, Running
  <2>8. (\E i \in DOMAIN conn : WMsg(i)) => UNCHANGED requestVars /\ (Running' => Running)
    BY DEF WMsg, WorkerFrame, Running
  <2> QED
    BY <1>2, <2>1, <2>2, <2>3, <2>4, <2>5, <2>6, <2>7, <2>8, RunsOrEnds DEF Worker
<1>3. CASE Add \/ Resume
  <2>1. Facts = {} /\ Facts' = {"runs"}
    BY <1>3 DEF Add, Resume, StartTask, Facts, Running
  <2>2. Pool!Starts("it")
    BY <2>1 DEF Pool!Starts
  <2> QED
    BY <2>2 DEF Pool!Next
<1>4. CASE Pause
  <2>1. "runs" \in Facts /\ Facts' = Facts \cup {"pause"}
    BY <1>4 DEF Pause, Facts, Running
  <2>2. Pool!Asks("it", "pause")
    BY <2>1 DEF Pool!Asks
  <2> QED
    BY <2>2 DEF Pool!Next
<1>5. CASE Cancel
  <2>1. "runs" \in Facts /\ Facts' = Facts \cup {"delete"}
    BY <1>5 DEF Cancel, Facts, Running
  <2>2. Pool!Asks("it", "delete")
    BY <2>1 DEF Pool!Asks
  <2> QED
    BY <2>2 DEF Pool!Next
<1>6. CASE Crash
  <2>1. Facts' = {}
    BY <1>6 DEF Crash, Facts, Running
  <2>2. Pool!AllEnd
    BY <2>1 DEF Pool!AllEnd
  <2> QED
    BY <2>2 DEF Pool!Next
<1>7. ASSUME Load \/ GoOn \/ Change \/ \E f \in Files : UserRemove(f)
      PROVE  UNCHANGED [d \in {"it"} |-> Facts]
  BY <1>7 DEF Load, GoOn, Change, UserRemove, Facts, Running, requestVars
<1> QED
  BY <1>1, <1>2, <1>3, <1>4, <1>5, <1>6, <1>7 DEF Next, Environment

\* A worker of the model of its own, with the requests that reach it, is one of
\* those the engine keeps: it forgets no request and ends once.
THEOREM DownloadIsAWorker == Spec => WorkersSpec
<1>1. Init => Pool!Init
  BY DEF Init, Pool!Init, Facts, Running
<1>2. [Next]_vars => [Pool!Next]_[d \in {"it"} |-> Facts]
  BY PoolStep DEF vars, Facts, Running, requestVars
<1> QED
  BY <1>1, <1>2, PTL DEF Spec, WorkersSpec, Pool!Spec

=============================================================================
