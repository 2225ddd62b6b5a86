------------------------- MODULE TorrentEngineProofs -------------------------
(***************************************************************************)
(* Proofs about TorrentEngine for any layout of files and pieces and any   *)
(* bounds: the types of the variables, that files are told truly, that     *)
(* what is not admitted does not download, that the engine implements      *)
(* BtSession, that progress that is to be saved is on its way, and that    *)
(* the intervals told of a file are just the bytes that are there.         *)
(***************************************************************************)
EXTENDS TorrentEngine, SequenceTheorems, FiniteSetTheorems,
        WellFoundedInduction, TLAPS

-----------------------------------------------------------------------------
(* The inductive invariant.                                                *)

\* libtorrent has what is on the disk, and that has been verified.
PiecesInv == handle.have \subseteq disk /\ disk \subseteq verified

\* An alert that says that a file is complete says so of verified pieces.
GoodAlerts ==
  {a \in AlertType : a.type = "file" => \A f \in a.what : PiecesOf(f) \subseteq verified}
AlertsInv == alerts \in Seq(GoodAlerts)

TruthInv == PiecesInv /\ AlertsInv /\ FilesAreTrue

-----------------------------------------------------------------------------
(* Files and pieces.                                                       *)

LEMMA Constants ==
  /\ IsFiniteSet(Files) /\ Files \subseteq Nat
  /\ \A f \in Files : First[f] \in Nat /\ Size[f] \in Nat
  /\ PieceLength \in Nat \ {0}
BY LayoutAssumption

LEMMA DivBounds ==
  ASSUME NEW a \in Nat, NEW b \in Nat \ {0}
  PROVE  /\ a \div b \in Nat
         /\ b * (a \div b) <= a
         /\ a < b * (a \div b) + b
BY SMT

LEMMA DivMonotonic ==
  ASSUME NEW a \in Nat, NEW c \in Nat, NEW b \in Nat \ {0}, a <= c
  PROVE  a \div b <= c \div b
<1> DEFINE q == a \div b
           r == c \div b
<1>1. q \in Nat /\ r \in Nat /\ b * q <= a /\ c < b * r + b
  BY DivBounds
<1>2. b * q < b * (r + 1)
  BY <1>1, SMT
<1>3. q < r + 1
  <2> SUFFICES ASSUME r + 1 <= q PROVE FALSE
    BY <1>1
  <2>1. b * (r + 1) <= b * q
    <3> HIDE DEF q, r
    <3>1. PICK d \in Nat : q = r + 1 + d
      BY <1>1
    <3>2. b * q = b * (r + 1) + b * d
      BY <1>1, <3>1, SMT
    <3>3. b * d \in Nat
      BY <3>1
    <3> QED
      BY <1>1, <3>2, <3>3
  <2> QED
    BY <1>1, <1>2, <2>1
<1> QED
  BY <1>1, <1>3

\* Every byte of a file lies in one of the file's pieces.
LEMMA ByteInPiece ==
  ASSUME NEW f \in Files, NEW b \in Bytes(f)
  PROVE  (First[f] + b) \div PieceLength \in PiecesOf(f)
<1>1. First[f] \in Nat /\ Size[f] \in Nat /\ PieceLength \in Nat \ {0}
  BY Constants
<1>2. b \in Nat /\ b <= Size[f] - 1 /\ Size[f] # 0
  BY <1>1 DEF Bytes
<1>3. First[f] + b \in Nat /\ First[f] + Size[f] - 1 \in Nat
  BY <1>1, <1>2
<1>4. /\ First[f] \div PieceLength <= (First[f] + b) \div PieceLength
      /\ (First[f] + b) \div PieceLength <= (First[f] + Size[f] - 1) \div PieceLength
  BY <1>1, <1>2, <1>3, DivMonotonic
<1>5. /\ First[f] \div PieceLength \in Nat
      /\ (First[f] + b) \div PieceLength \in Nat
      /\ (First[f] + Size[f] - 1) \div PieceLength \in Nat
  BY <1>1, <1>3, DivBounds
<1> QED
  BY <1>2, <1>4, <1>5 DEF PiecesOf, FirstPiece, LastPiece

LEMMA HadWhole ==
  ASSUME NEW f \in Files, NEW have, PiecesOf(f) \subseteq have
  PROVE  Had(f, have) = Bytes(f)
BY ByteInPiece DEF Had

LEMMA HadMonotonic ==
  ASSUME NEW f \in Files, NEW have, NEW more, have \subseteq more
  PROVE  Had(f, have) \subseteq Had(f, more)
BY DEF Had

LEMMA BytesCount ==
  ASSUME NEW f \in Files
  PROVE  /\ Bytes(f) \in SUBSET Nat /\ IsFiniteSet(Bytes(f))
         /\ Cardinality(Bytes(f)) = Size[f]
<1>1. Size[f] \in Nat
  BY Constants
<1>2. Cardinality(0..Size[f] - 1) = IF 0 > Size[f] - 1 THEN 0 ELSE Size[f] - 1 - 0 + 1
  BY SMTT(30), <1>1, FS_Interval
<1>3. IsFiniteSet(0..Size[f] - 1)
  BY <1>1, FS_Interval
<1> QED
  BY <1>1, <1>2, <1>3 DEF Bytes

LEMMA HadCount ==
  ASSUME NEW f \in Files, NEW have
  PROVE  /\ Had(f, have) \in SUBSET Nat /\ Had(f, have) \subseteq Bytes(f)
         /\ Cardinality(Had(f, have)) \in Nat
         /\ Cardinality(Had(f, have)) <= Size[f]
<1>1. Had(f, have) \in SUBSET Bytes(f)
  BY DEF Had
<1>2. IsFiniteSet(Had(f, have)) /\ Cardinality(Had(f, have)) <= Size[f]
  BY <1>1, BytesCount, FS_Subset
<1> QED
  BY <1>1, <1>2, BytesCount, FS_CardinalityType

-----------------------------------------------------------------------------
(* Alerts and handles.                                                     *)

HandleType ==
  [at : {"none", "held", "on"}, meta : BOOLEAN, have : SUBSET Pieces,
   saved : SUBSET SUBSET Pieces, missed : BOOLEAN, moves : Nat]

LEMMA OneOf ==
  ASSUME NEW S, NEW a \in S
  PROVE  <<a>> \in Seq(S)
OBVIOUS

\* Every alert that carries no file is good.
LEMMA PlainAlerts ==
  /\ \A type \in {"added", "metadata", "moved", "finished", "error"} :
       Alert(type, {}) \in GoodAlerts
  /\ \A type \in {"piece", "resume"} : \A what \in SUBSET Pieces :
       Alert(type, what) \in GoodAlerts
BY DEF Alert, GoodAlerts, AlertType

LEMMA FoundIs ==
  ASSUME TypeOK, PiecesInv, NEW found \in Found
  PROVE  /\ found.h \in HandleType /\ found.h.have \subseteq disk
         /\ found.h.at # "none"
         /\ IF InSession THEN found.h = handle ELSE found.h.at = "held"
         /\ found.new \in Seq(GoodAlerts)
<1>1. CASE InSession
  <2>1. found = [h |-> handle, new |-> <<>>]
    BY <1>1 DEF Found
  <2>2. <<>> \in Seq(GoodAlerts)
    BY EmptySeq
  <2> QED
    BY <1>1, <2>1, <2>2 DEF TypeOK, HandleType, PiecesInv, InSession
<1>2. CASE ~InSession
  <2>1. PICK meta \in BOOLEAN :
          found = [h |-> Rebuilt(meta),
                   new |-> <<Alert("added", {})>> \o
                           (IF Whole(Rebuilt(meta)) THEN <<Alert("finished", {})>> ELSE <<>>)]
    BY <1>2 DEF Found
  <2>2. /\ Rebuilt(meta) \in HandleType /\ Rebuilt(meta).have \subseteq disk
        /\ Rebuilt(meta).at = "held"
    <3>1. (UNION db.resume) \cap disk \in SUBSET Pieces
      BY DEF TypeOK
    <3>2. NoHandle \in HandleType
      BY DEF NoHandle, HandleType
    <3>3. (IF db.resume = {} THEN meta ELSE TRUE) \in BOOLEAN
      OBVIOUS
    <3> QED
      BY <3>1, <3>2, <3>3 DEF Rebuilt, HandleType
  <2>3. <<Alert("added", {})>> \in Seq(GoodAlerts)
    BY PlainAlerts, OneOf
  <2>4. (IF Whole(Rebuilt(meta)) THEN <<Alert("finished", {})>> ELSE <<>>) \in Seq(GoodAlerts)
    BY PlainAlerts, OneOf, EmptySeq
  <2>5. found.new \in Seq(GoodAlerts)
    BY <2>1, <2>3, <2>4, ConcatProperties
  <2> QED
    BY <1>2, <2>1, <2>2, <2>5
<1> QED
  BY <1>1, <1>2

\* Whatever of some good alerts is dropped, good ones are pending.
LEMMA PostsGood ==
  ASSUME NEW S, alerts \in Seq(S), NEW posted \in Seq(S), Posts(posted)
  PROVE  alerts' \in Seq(S)
<1>1. CASE alerts' = alerts \o posted
  BY <1>1, ConcatProperties
<1>2. CASE \E n \in 0..Len(posted) - 1 : alerts' = alerts \o SubSeq(posted, 1, n)
  <2>1. PICK n \in 0..Len(posted) - 1 : alerts' = alerts \o SubSeq(posted, 1, n)
    BY <1>2
  <2>2. Len(posted) \in Nat
    BY LenProperties
  <2>3. n \in Int /\ \A i \in 1..n : i \in 1..Len(posted)
    BY <2>1, <2>2
  <2>4. \A i \in 1..n : posted[i] \in S
    BY <2>3, ElementOfSeq
  <2>5. SubSeq(posted, 1, n) \in Seq(S)
    BY <2>3, <2>4, SubSeqProperties
  <2> QED
    BY <2>1, <2>5, ConcatProperties
<1> QED
  BY <1>1, <1>2 DEF Posts

LEMMA FileAlertsGood ==
  ASSUME TypeOK, PiecesInv, NEW p \in Pieces, NEW files \in FileAlerts(p),
         verified' = verified \cup {p}
  PROVE  files \in Seq(GoodAlerts')
<1>1. PICK order \in [1..Cardinality(Completed(p)) -> Completed(p)] :
        files = [i \in DOMAIN order |-> Alert("file", {order[i]})]
  BY DEF FileAlerts
<1>2. Cardinality(Completed(p)) \in Nat
  <2>1. Completed(p) \in SUBSET Files
    BY DEF Completed
  <2> QED
    BY <2>1, Constants, FS_Subset, FS_CardinalityType
<1>3. \A f \in Completed(p) : Alert("file", {f}) \in GoodAlerts'
  <2> TAKE f \in Completed(p)
  <2>1. f \in Files /\ PiecesOf(f) \subseteq verified'
    BY DEF Completed, PiecesInv
  <2> QED
    BY <2>1 DEF Alert, GoodAlerts, AlertType
<1>4. /\ DOMAIN files = 1..Cardinality(Completed(p))
      /\ \A i \in 1..Cardinality(Completed(p)) : files[i] \in GoodAlerts'
  BY <1>1, <1>3
<1>5. files \in [1..Cardinality(Completed(p)) -> GoodAlerts']
  BY <1>1, <1>4
<1> QED
  BY <1>2, <1>5

-----------------------------------------------------------------------------
(* Pieces and alerts.                                                      *)

LEMMA PiecesStep ==
  ASSUME TypeOK, PiecesInv, [Next]_vars
  PROVE  PiecesInv'
<1> USE DEF PiecesInv
<1> DEFINE Keeps == handle'.have = handle.have /\ disk' = disk /\ verified' = verified
<1>1. ASSUME NEW found \in Found, NEW at, Takes(found, at), World
      PROVE  PiecesInv'
  <2>1. handle'.have = found.h.have
    BY <1>1, FoundIs DEF Takes, HandleType
  <2> QED
    BY <1>1, <2>1, FoundIs DEF World
<1>2. ASSUME Removes, verified' = verified, disk' \in {disk, {}}
      PROVE  PiecesInv'
  BY <1>2 DEF Removes, NoHandle
<1>3. ASSUME FindsNone, World
      PROVE  PiecesInv'
  BY <1>3 DEF FindsNone, World
<1>4. CASE AddTask
  BY <1>1, <1>3, <1>4 DEF AddTask
<1>5. CASE ResumeTask
  BY <1>5 DEF ResumeTask, World
<1>6. CASE PauseTask
  BY <1>1, <1>3, <1>6 DEF PauseTask
<1>7. CASE DeleteTask
  BY <1>2, <1>7 DEF DeleteTask
<1>8. CASE Restart
  BY <1>2, <1>8 DEF Restart, World
<1>9. CASE Dispatch
  <2>1. ASSUME NEW found \in Found,
               handle' = [found.h EXCEPT !.at = "on", !.saved = Data(found.h.have)], World
        PROVE  PiecesInv'
    <3>1. handle'.have = found.h.have
      BY <2>1, FoundIs DEF HandleType
    <3> QED
      BY <2>1, <3>1, FoundIs DEF World
  <2> QED
    BY <1>1, <1>3, <1>9, <2>1 DEF Dispatch
<1>10. CASE Sweep
  BY <1>2, <1>10 DEF Sweep, World
<1>11. CASE ReceivesMetadata \/ MovesStorage \/ SessionFails \/ RequestResume
  <2>1. Keeps
    BY <1>11 DEF ReceivesMetadata, MovesStorage, SessionFails, RequestResume, World, TypeOK
  <2> QED
    BY <2>1
<1>12. CASE ChecksPiece
  <2>1. PICK p \in disk \ handle.have : handle' = [handle EXCEPT !.have = @ \cup {p}]
    BY <1>12 DEF ChecksPiece
  <2>2. handle'.have = handle.have \cup {p}
    BY <2>1 DEF TypeOK
  <2> QED
    BY <1>12, <2>2 DEF ChecksPiece, World
<1>13. CASE DownloadsPiece
  <2>1. PICK p \in Pieces : /\ handle' = [handle EXCEPT !.have = @ \cup {p}]
                            /\ disk' = disk \cup {p} /\ verified' = verified \cup {p}
    BY <1>13 DEF DownloadsPiece
  <2>2. handle'.have = handle.have \cup {p}
    BY <2>1 DEF TypeOK
  <2> QED
    BY <2>1, <2>2
<1>14. CASE HandleAlert
  <2>1. Keeps
    <3>1. CASE HandlesAdded \/ HandlesMetadata \/ HandlesMoved
      BY <3>1 DEF HandlesAdded, HandlesMetadata, HandlesMoved, Handles, Parses, World, TypeOK
    <3>2. CASE HandlesPiece \/ HandlesFile \/ HandlesFinished \/ HandlesError \/ HandlesResume
      BY <3>2 DEF HandlesPiece, HandlesFile, HandlesFinished, HandlesError,
                  HandlesResume, Handles, World, TypeOK
    <3> QED
      BY <1>14, <3>1, <3>2 DEF HandleAlert
  <2> QED
    BY <2>1
<1>15. CASE UNCHANGED vars
  BY <1>15 DEF vars
<1> QED
  BY <1>4, <1>5, <1>6, <1>7, <1>8, <1>9, <1>10, <1>11, <1>12, <1>13, <1>14, <1>15
     DEF Next, Called, Libtorrent

\* What was good stays good, as verified only grows.
LEMMA GoodGrows ==
  ASSUME verified \subseteq verified', NEW s \in Seq(GoodAlerts)
  PROVE  s \in Seq(GoodAlerts')
<1>1. GoodAlerts \subseteq GoodAlerts'
  BY DEF GoodAlerts, AlertType
<1> QED
  BY <1>1, SeqMonotonic

LEMMA AlertsStep ==
  ASSUME TypeOK, PiecesInv, AlertsInv, [Next]_vars
  PROVE  AlertsInv'
<1> USE DEF AlertsInv
<1>1. ASSUME verified' = verified, alerts' \in Seq(GoodAlerts)
      PROVE  AlertsInv'
  <2>1. GoodAlerts' = GoodAlerts
    BY <1>1 DEF GoodAlerts
  <2> QED
    BY <1>1, <2>1
<1>2. ASSUME NEW found \in Found, NEW at, Takes(found, at), World
      PROVE  AlertsInv'
  <2>1. alerts' \in Seq(GoodAlerts)
    BY <1>2, FoundIs, ConcatProperties DEF Takes
  <2> QED
    BY <1>1, <1>2, <2>1 DEF World
<1>3. ASSUME Removes, verified' = verified
      PROVE  AlertsInv'
  BY <1>1, <1>3, EmptySeq DEF Removes
<1>4. ASSUME FindsNone, World
      PROVE  AlertsInv'
  <2>1. alerts' \in Seq(GoodAlerts)
    BY <1>4, PlainAlerts, AppendProperties DEF FindsNone
  <2> QED
    BY <1>1, <1>4, <2>1 DEF World
<1>5. CASE AddTask
  BY <1>2, <1>4, <1>5 DEF AddTask
<1>6. CASE ResumeTask
  BY <1>1, <1>6 DEF ResumeTask, World
<1>7. CASE PauseTask
  BY <1>2, <1>4, <1>7 DEF PauseTask
<1>8. CASE DeleteTask \/ Restart \/ Sweep
  BY <1>3, <1>8 DEF DeleteTask, Restart, Sweep, World
<1>9. CASE Dispatch
  <2>1. ASSUME NEW found \in Found, World,
               alerts' = alerts \o found.new \o <<Alert("resume", found.h.have)>>
        PROVE  AlertsInv'
    <3>1. found.h.have \in SUBSET Pieces
      BY FoundIs DEF HandleType
    <3>2. <<Alert("resume", found.h.have)>> \in Seq(GoodAlerts)
      BY <3>1, PlainAlerts, OneOf
    <3>3. alerts \o found.new \in Seq(GoodAlerts)
      BY FoundIs, ConcatProperties
    <3>4. alerts' \in Seq(GoodAlerts)
      BY <2>1, <3>2, <3>3, ConcatProperties
    <3> QED
      BY <1>1, <2>1, <3>4 DEF World
  <2> QED
    BY <1>2, <1>4, <1>9, <2>1 DEF Dispatch
<1>10. ASSUME NEW posted \in Seq(GoodAlerts), Posts(posted), World
       PROVE  AlertsInv'
  BY <1>1, <1>10, PostsGood DEF World
<1>11. CASE ReceivesMetadata
  <2>1. <<Alert("metadata", {})>> \in Seq(GoodAlerts)
    BY PlainAlerts, OneOf
  <2> QED
    BY <1>10, <1>11, <2>1 DEF ReceivesMetadata
<1>12. CASE ChecksPiece
  <2>1. (IF Whole(handle') THEN <<Alert("finished", {})>> ELSE <<>>) \in Seq(GoodAlerts)
    BY PlainAlerts, OneOf, EmptySeq
  <2> QED
    BY <1>10, <1>12, <2>1 DEF ChecksPiece
<1>13. CASE DownloadsPiece
  <2>1. PICK p \in Pieces :
          /\ verified' = verified \cup {p}
          /\ \E files \in FileAlerts(p) :
               Posts(<<Alert("piece", {p})>> \o files \o
                     (IF Whole(handle') THEN <<Alert("finished", {})>> ELSE <<>>))
    BY <1>13 DEF DownloadsPiece
  <2>2. PICK files \in FileAlerts(p) :
          Posts(<<Alert("piece", {p})>> \o files \o
                (IF Whole(handle') THEN <<Alert("finished", {})>> ELSE <<>>))
    BY <2>1
  <2>3. files \in Seq(GoodAlerts')
    BY <2>1, FileAlertsGood
  <2>4. <<Alert("piece", {p})>> \in Seq(GoodAlerts')
    <3>1. <<Alert("piece", {p})>> \in Seq(GoodAlerts)
      BY PlainAlerts, OneOf
    <3> QED
      BY <2>1, <3>1, GoodGrows
  <2>5. (IF Whole(handle') THEN <<Alert("finished", {})>> ELSE <<>>) \in Seq(GoodAlerts')
    <3>1. <<Alert("finished", {})>> \in Seq(GoodAlerts)
      BY PlainAlerts, OneOf
    <3> QED
      BY <2>1, <3>1, GoodGrows, EmptySeq
  <2>6. alerts \in Seq(GoodAlerts')
    BY <2>1, GoodGrows
  <2>7. <<Alert("piece", {p})>> \o files \in Seq(GoodAlerts')
    BY <2>3, <2>4, ConcatProperties
  <2>8. <<Alert("piece", {p})>> \o files \o
        (IF Whole(handle') THEN <<Alert("finished", {})>> ELSE <<>>) \in Seq(GoodAlerts')
    BY <2>5, <2>7, ConcatProperties
  <2> QED
    BY <2>2, <2>6, <2>8, PostsGood
<1>14. ASSUME NEW a \in GoodAlerts, alerts' = Append(alerts, a), World
       PROVE  AlertsInv'
  BY <1>1, <1>14, AppendProperties DEF World
<1>15. CASE MovesStorage \/ SessionFails
  BY <1>14, <1>15, PlainAlerts DEF MovesStorage, SessionFails
<1>16. CASE RequestResume
  BY <1>14, <1>16, PlainAlerts DEF RequestResume, TypeOK
<1>17. CASE HandleAlert
  <2>1. verified' = verified /\ alerts # <<>> /\ alerts' = Tail(alerts)
    BY <1>17 DEF HandleAlert, HandlesAdded, HandlesMetadata, HandlesMoved, HandlesPiece,
       HandlesFile, HandlesFinished, HandlesError, HandlesResume, Handles, World
  <2> QED
    BY <1>1, <2>1, HeadTailProperties
<1>18. CASE UNCHANGED vars
  BY <1>1, <1>18 DEF vars
<1> QED
  BY <1>5, <1>6, <1>7, <1>8, <1>9, <1>11, <1>12, <1>13, <1>15, <1>16, <1>17, <1>18
     DEF Next, Called, Libtorrent

-----------------------------------------------------------------------------
(* Types.                                                                  *)

EntryType == [status : Statuses, del : BOOLEAN, files : FilesType]
DbType == [task : BOOLEAN, files : FilesType, resume : SUBSET SUBSET Pieces]

LEMMA CountsMore ==
  ASSUME TypeOK, NEW n \in Nat, Counts(n)
  PROVE  events' \in Nat
BY DEF TypeOK, Counts

LEMMA NoFilesType ==
  NoFiles \in FilesType /\ \A status \in Statuses : Entry(status, NoFiles) \in EntryType
BY DEF NoFiles, FilesType, Entry, EntryType

LEMMA ProgressType ==
  ASSUME NEW done \in Progress
  PROVE  /\ done \in [Files -> Nat]
         /\ \A f \in Files : done[f] <= Size[f]
<1>1. PICK partial \in [Files -> 0..MaxPartial] :
        done = [f \in Files |-> Cardinality(Had(f, handle.have)) + partial[f]]
  BY DEF Progress
<1>2. \A f \in Files : Cardinality(Had(f, handle.have)) \in Nat
  BY HadCount
<1>3. MaxPartial \in Nat
  BY TorrentAssumption
<1> QED
  BY <1>1, <1>2, <1>3 DEF Progress

LEMMA ParsedType ==
  ASSUME TypeOK, NEW done \in Progress
  PROVE  /\ Parsed(done) \in FilesType
         /\ \A fs \in SUBSET Files : Saved(Parsed(done), fs) \in FilesType
<1>1. Parsed(done) \in FilesType
  <2>1. \A f \in Files : (IF done[f] < entry.files.done[f] THEN {}
                          ELSE entry.files.segs[f]) \in SUBSET Nat
    BY DEF TypeOK, FilesType
  <2> QED
    BY <2>1, ProgressType DEF Parsed, FilesType
<1> QED
  BY <1>1 DEF Saved, FilesType, TypeOK

\* What the handlers of alerts write into the entry's files is of their type.
LEMMA EntryKeepsType ==
  ASSUME TypeOK, NEW segs \in [Files -> SUBSET Nat], NEW done \in [Files -> Nat],
         entry' = [entry EXCEPT !.files.segs = segs, !.files.done = done]
  PROVE  /\ entry' \in EntryType
         /\ entry'.status = entry.status /\ entry'.del = entry.del
         /\ entry'.files.segs = segs /\ entry'.files.done = done
BY DEF TypeOK, EntryType, FilesType

LEMMA ParsesType ==
  ASSUME TypeOK, Parses
  PROVE  /\ entry' \in EntryType /\ db' \in DbType /\ handle' \in HandleType
         /\ events' \in Nat /\ Known' = Known /\ db'.task = db.task
         /\ handle'.at = handle.at
<1>1. CASE ~Known \/ entry.del
  BY <1>1 DEF Parses, TypeOK, EntryType, DbType, HandleType, Known
<1>2. CASE ~(~Known \/ entry.del)
  <2>1. PICK done \in Progress :
          /\ \/ db' = [db EXCEPT !.files = Saved(Parsed(done), Files)] /\ UNCHANGED events
             \/ \E n \in Files :
                  db' = [db EXCEPT !.files = Saved(Parsed(done), {f \in Files : f < n})]
                /\ Fault
          /\ \/ /\ dir /\ handle' = [handle EXCEPT !.moves = @ + 1]
                /\ entry' = [entry EXCEPT !.files = Parsed(done)]
             \/ /\ ~dir /\ UNCHANGED handle
                /\ entry' = [entry EXCEPT !.files = Parsed(done), !.status = "QUEUED"]
    BY <1>2 DEF Parses
  <2>2. /\ Parsed(done) \in FilesType
        /\ \A fs \in SUBSET Files : Saved(Parsed(done), fs) \in FilesType
    BY ParsedType
  <2>3. db' \in DbType /\ db'.task = db.task /\ events' \in Nat
    <3>1. \A n \in Files : {f \in Files : f < n} \in SUBSET Files
      OBVIOUS
    <3>2. CASE db' = [db EXCEPT !.files = Saved(Parsed(done), Files)] /\ UNCHANGED events
      BY <2>2, <3>2 DEF TypeOK, DbType
    <3>3. CASE \E n \in Files :
                 db' = [db EXCEPT !.files = Saved(Parsed(done), {f \in Files : f < n})]
               /\ Fault
      BY <2>2, <3>1, <3>3 DEF TypeOK, DbType, Fault, Counts
    <3> QED
      BY <2>1, <3>2, <3>3
  <2>4. handle' \in HandleType /\ handle'.at = handle.at
    <3>1. handle \in HandleType /\ handle.moves + 1 \in Nat
      BY DEF TypeOK, HandleType
    <3>2. handle' = handle \/ handle' = [handle EXCEPT !.moves = handle.moves + 1]
      BY <2>1
    <3> QED
      BY <3>1, <3>2 DEF HandleType
  <2>5. entry' \in EntryType /\ Known' = Known
    <3>1. \/ entry' = [entry EXCEPT !.files = Parsed(done)]
          \/ entry' = [entry EXCEPT !.files = Parsed(done), !.status = "QUEUED"]
      BY <2>1
    <3>2. entry \in EntryType /\ "QUEUED" \in Statuses
      BY DEF TypeOK, EntryType, Statuses
    <3> QED
      BY <1>2, <2>2, <3>1, <3>2 DEF EntryType, Known
  <2> QED
    BY <2>3, <2>4, <2>5
<1> QED
  BY <1>1, <1>2

\* Types that only need the action's own variables.
LEMMA CallsType ==
  ASSUME TypeOK, PiecesInv, AlertsInv', PiecesInv', Called \/ Dispatch \/ Sweep
  PROVE  TypeOK'
<1> SUFFICES /\ entry' \in EntryType /\ db' \in DbType /\ handle' \in HandleType
             /\ disk' \in SUBSET Pieces /\ verified' \in SUBSET Pieces
             /\ dir' \in BOOLEAN /\ events' \in Nat
             /\ Known' <=> db'.task
             /\ InSession' => Known'
  <2>1. alerts' \in Seq(AlertType)
    <3>1. GoodAlerts' \subseteq AlertType
      BY DEF GoodAlerts, AlertType
    <3> QED
      BY <3>1, SeqMonotonic DEF AlertsInv
  <2> QED
    BY <2>1 DEF TypeOK, EntryType, DbType, HandleType
<1>1. /\ disk' \in SUBSET Pieces /\ verified' \in SUBSET Pieces /\ dir' \in BOOLEAN
  <2>1. disk' \in {disk, {}} /\ verified' = verified /\ dir' = dir
    BY DEF Called, AddTask, ResumeTask, PauseTask, DeleteTask, Restart, Dispatch,
       Sweep, World
  <2> QED
    BY <2>1 DEF TypeOK
<1>2. events' \in Nat
  <2>1. CASE AddTask \/ PauseTask
    BY <2>1, CountsMore DEF AddTask, PauseTask, Call
  <2>2. CASE ResumeTask \/ DeleteTask \/ Restart
    BY <2>2, CountsMore DEF ResumeTask, DeleteTask, Restart, Call
  <2>3. CASE Dispatch \/ Sweep
    BY <2>3, CountsMore DEF Dispatch, Sweep, Fault, TypeOK
  <2> QED
    BY <2>1, <2>2, <2>3 DEF Called
<1>3. NoHandle \in HandleType /\ NoHandle.at = "none"
  BY DEF NoHandle, HandleType
<1>4. ASSUME NEW found \in Found, NEW at \in {"none", "held", "on"}, Takes(found, at)
      PROVE  handle' \in HandleType
  BY <1>4, FoundIs DEF Takes, HandleType
<1>5. handle' \in HandleType
  <2>1. \A found \in Found : found.h.at \in {"none", "held", "on"}
    BY FoundIs DEF HandleType
  <2>2. handle \in HandleType
    BY DEF TypeOK, HandleType
  <2>3. CASE AddTask \/ PauseTask
    BY <1>4, <2>1, <2>2, <2>3 DEF AddTask, PauseTask, FindsNone
  <2>4. CASE ResumeTask \/ DeleteTask \/ Restart \/ Sweep
    BY <1>3, <2>2, <2>4 DEF ResumeTask, DeleteTask, Restart, Sweep, Removes
  <2>5. CASE Dispatch
    <3>1. ASSUME NEW found \in Found,
                 handle' = [found.h EXCEPT !.at = "on", !.saved = Data(found.h.have)]
          PROVE  handle' \in HandleType
      <4>1. found.h \in HandleType
        BY FoundIs
      <4>2. Data(found.h.have) \in SUBSET SUBSET Pieces
        BY <4>1 DEF Data, HandleType
      <4> QED
        BY <3>1, <4>1, <4>2 DEF HandleType
    <3> QED
      BY <1>4, <2>1, <2>2, <2>5, <3>1 DEF Dispatch, FindsNone
  <2> QED
    BY <2>3, <2>4, <2>5 DEF Called
<1>6. CASE AddTask
  <2> DEFINE e == IF Known THEN entry ELSE Entry("RESOLVING", NoFiles)
  <2>1. e \in EntryType /\ e.status # "absent"
    BY NoFilesType DEF TypeOK, EntryType, Known, Entry, Statuses
  <2>2. entry' = e \/ entry' = [e EXCEPT !.status = "ERROR"]
    BY <1>6 DEF AddTask
  <2>3. entry' \in EntryType /\ Known'
    <3> HIDE DEF e
    <3> QED
      BY <2>1, <2>2 DEF EntryType, Known, Statuses
  <2>4. db' \in DbType /\ db'.task
    BY <1>6, NoFilesType DEF AddTask, TypeOK, DbType
  <2> QED
    BY <1>1, <1>2, <1>5, <2>3, <2>4
<1>7. CASE Restart
  <2>1. ~InSession' /\ db' = db
    BY <1>3, <1>7 DEF Restart, Removes, InSession
  <2>2. entry' \in EntryType /\ (Known' <=> db'.task)
    BY <1>7, NoFilesType DEF Restart, Entry, Absent, Known, TypeOK, EntryType, DbType,
       Statuses
  <2> QED
    BY <1>1, <1>2, <1>5, <2>1, <2>2 DEF TypeOK, DbType
<1>8. CASE ResumeTask \/ PauseTask \/ Dispatch
  <2>1. entry' \in EntryType /\ Known' /\ db' = db /\ Known
    BY <1>8 DEF ResumeTask, PauseTask, Dispatch, TypeOK, EntryType, Known, Statuses
  <2> QED
    BY <1>1, <1>2, <1>5, <2>1 DEF TypeOK, DbType
<1>9. CASE DeleteTask \/ Sweep
  <2>1. ~InSession' /\ db' = db /\ entry' \in EntryType /\ Known' = Known
    BY <1>3, <1>9 DEF DeleteTask, Sweep, Removes, InSession, TypeOK, EntryType, Known
  <2> QED
    BY <1>1, <1>2, <1>5, <2>1 DEF TypeOK, DbType
<1> QED
  BY <1>6, <1>7, <1>8, <1>9 DEF Called

LEMMA LibtorrentType ==
  ASSUME TypeOK, PiecesInv, AlertsInv', PiecesInv',
         Libtorrent \/ HandleAlert \/ RequestResume \/ UNCHANGED vars
  PROVE  TypeOK'
<1> SUFFICES /\ entry' \in EntryType /\ db' \in DbType /\ handle' \in HandleType
             /\ disk' \in SUBSET Pieces /\ verified' \in SUBSET Pieces
             /\ dir' \in BOOLEAN /\ events' \in Nat
             /\ Known' = Known /\ db'.task = db.task /\ handle'.at = handle.at
  <2>1. alerts' \in Seq(AlertType)
    <3>1. GoodAlerts' \subseteq AlertType
      BY DEF GoodAlerts, AlertType
    <3> QED
      BY <3>1, SeqMonotonic DEF AlertsInv
  <2> QED
    BY <2>1 DEF TypeOK, EntryType, DbType, HandleType, InSession
<1> USE DEF EntryType, DbType, HandleType
<1>1. CASE Libtorrent
  <2>1. /\ handle' \in HandleType /\ handle'.at = handle.at
    <3>1. CASE ReceivesMetadata \/ SessionFails
      BY <3>1 DEF ReceivesMetadata, SessionFails, TypeOK
    <3>2. CASE ChecksPiece \/ DownloadsPiece
      <4>1. PICK p \in Pieces : handle' = [handle EXCEPT !.have = @ \cup {p}]
        BY <3>2 DEF ChecksPiece, DownloadsPiece, TypeOK
      <4> QED
        BY <4>1 DEF TypeOK
    <3>3. CASE MovesStorage
      <4>1. handle.moves - 1 \in Nat /\ handle' = [handle EXCEPT !.moves = handle.moves - 1]
        BY <3>3 DEF MovesStorage, TypeOK
      <4> QED
        BY <4>1 DEF TypeOK
    <3> QED
      BY <1>1, <3>1, <3>2, <3>3 DEF Libtorrent
  <2>2. /\ disk' \in SUBSET Pieces /\ verified' \in SUBSET Pieces /\ dir' \in BOOLEAN
        /\ entry' = entry /\ db' = db
    <3>1. CASE DownloadsPiece
      BY <3>1 DEF DownloadsPiece, Apart, TypeOK
    <3>2. CASE ReceivesMetadata \/ ChecksPiece \/ MovesStorage \/ SessionFails
      <4>1. UNCHANGED <<disk, verified, dir, entry, db>>
        BY <3>2 DEF ReceivesMetadata, ChecksPiece, MovesStorage, SessionFails, World, Apart
      <4> QED
        BY <4>1 DEF TypeOK
    <3> QED
      BY <1>1, <3>1, <3>2 DEF Libtorrent
  <2>3. events' \in Nat
    <3>1. \A posted : Posts(posted) => events' = events \/ Fault
      BY DEF Posts
    <3>2. events' = events \/ Fault
      BY <1>1, <3>1 DEF Libtorrent, ReceivesMetadata, ChecksPiece, DownloadsPiece,
         MovesStorage, SessionFails
    <3> QED
      BY <3>2, CountsMore DEF Fault, TypeOK
  <2> QED
    BY <2>1, <2>2, <2>3 DEF TypeOK, Known
<1>2. CASE HandleAlert
  <2>1. /\ disk' \in SUBSET Pieces /\ verified' \in SUBSET Pieces /\ dir' \in BOOLEAN
    BY <1>2 DEF HandleAlert, HandlesAdded, HandlesMetadata, HandlesMoved, HandlesPiece,
       HandlesFile, HandlesFinished, HandlesError, HandlesResume, Handles, World, TypeOK
  <2>2. CASE HandlesAdded \/ HandlesMetadata \/ HandlesMoved
    <3>1. Parses \/ UNCHANGED <<entry, db, handle, events>>
      BY <2>2 DEF HandlesAdded, HandlesMetadata, HandlesMoved
    <3> QED
      BY <2>1, <3>1, ParsesType DEF TypeOK, Known
  <2>3. CASE HandlesPiece
    <3>1. PICK fs : Updates(fs)
      BY <2>3 DEF HandlesPiece
    <3>2. \A f \in Files : /\ Had(f, handle.have) \in SUBSET Nat
                           /\ Cardinality(Had(f, handle.have)) \in Nat
      BY HadCount
    <3>3. entry.files \in FilesType
      BY DEF TypeOK
    <3>4. /\ [f \in Files |-> IF f \in fs THEN Had(f, handle.have)
                              ELSE entry.files.segs[f]] \in [Files -> SUBSET Nat]
          /\ [f \in Files |-> IF f \in fs THEN Cardinality(Had(f, handle.have))
                              ELSE entry.files.done[f]] \in [Files -> Nat]
      BY <3>2, <3>3 DEF FilesType
    <3>5. entry' \in EntryType /\ Known' = Known
      BY <3>1, <3>4, EntryKeepsType DEF Updates, Known
    <3> QED
      BY <2>1, <2>3, <3>5 DEF HandlesPiece, TypeOK
  <2>4. CASE HandlesFile
    <3> DEFINE completed == Head(alerts).what \cap entry.files.listed
    <3>1. entry.files \in FilesType
      BY DEF TypeOK
    <3>2. /\ [f \in Files |-> IF f \in completed THEN Bytes(f)
                              ELSE entry.files.segs[f]] \in [Files -> SUBSET Nat]
          /\ [f \in Files |-> IF f \in completed THEN Size[f]
                              ELSE entry.files.done[f]] \in [Files -> Nat]
      BY <3>1, BytesCount, Constants DEF FilesType
    <3>3. entry' \in EntryType /\ Known' = Known
      BY <2>4, <3>2, EntryKeepsType DEF HandlesFile, Known
    <3> QED
      BY <2>1, <2>4, <3>3 DEF HandlesFile, TypeOK
  <2>5. CASE HandlesFinished \/ HandlesError
    BY <2>1, <2>5 DEF HandlesFinished, HandlesError, Says, TypeOK, Known, Statuses
  <2>6. CASE HandlesResume
    <3>1. Head(alerts) \in AlertType /\ Head(alerts).type = "resume"
      BY <2>6, HeadTailProperties DEF HandlesResume, Handles, TypeOK
    <3>2. Head(alerts).what \in SUBSET Pieces
      BY <3>1 DEF AlertType
    <3>3. CASE entry.del
      BY <2>1, <2>6, <3>3 DEF HandlesResume, TypeOK, Known
    <3>4. CASE ~entry.del
      <4>1. /\ entry' = entry
            /\ db' = db \/ db' = [db EXCEPT !.resume = Data(Head(alerts).what)]
            /\ \E missed \in BOOLEAN : handle' = [handle EXCEPT !.missed = missed]
            /\ events' = events \/ events' = events + 1
        BY <2>6, <3>4 DEF HandlesResume, Fault, Counts
      <4>2. Data(Head(alerts).what) \in SUBSET SUBSET Pieces
        BY <3>2 DEF Data
      <4>3. db' \in DbType /\ db'.task = db.task
        BY <4>1, <4>2 DEF TypeOK
      <4>4. handle' \in HandleType /\ handle'.at = handle.at
        BY <4>1 DEF TypeOK
      <4> QED
        BY <2>1, <4>1, <4>3, <4>4 DEF TypeOK, Known
    <3> QED
      BY <3>3, <3>4
  <2> QED
    BY <1>2, <2>2, <2>3, <2>4, <2>5, <2>6 DEF HandleAlert
<1>3. CASE RequestResume
  BY <1>3 DEF RequestResume, Data, Apart, World, TypeOK, Known
<1>4. CASE UNCHANGED vars
  BY <1>4 DEF vars, TypeOK, Known
<1> QED
  BY <1>1, <1>2, <1>3, <1>4

LEMMA TypeStep ==
  ASSUME TypeOK, PiecesInv, AlertsInv, [Next]_vars
  PROVE  TypeOK'
<1>1. PiecesInv' /\ AlertsInv'
  BY PiecesStep, AlertsStep
<1>2. CASE Called \/ Dispatch \/ Sweep
  BY <1>1, <1>2, CallsType
<1>3. CASE Libtorrent \/ HandleAlert \/ RequestResume \/ UNCHANGED vars
  BY <1>1, <1>3, LibtorrentType
<1> QED
  BY <1>2, <1>3 DEF Next

-----------------------------------------------------------------------------
(* Files.                                                                  *)

\* What FilesAreTrue says of one list of files.
TrueFiles(files, pieces) ==
  \A f \in Files : /\ files.segs[f] \subseteq Had(f, pieces)
                   /\ Cardinality(files.segs[f]) <= files.done[f]
                   /\ files.done[f] <= Size[f]

LEMMA TrueFilesAre ==
  FilesAreTrue <=> TrueFiles(entry.files, verified) /\ TrueFiles(db.files, verified)
BY HadCount DEF FilesAreTrue, SegmentsVerified, FilesConsistent, TrueFiles

LEMMA TrueFilesStay ==
  ASSUME NEW files, NEW have, NEW more, have \subseteq more, TrueFiles(files, have)
  PROVE  TrueFiles(files, more)
BY HadMonotonic DEF TrueFiles

LEMMA NoFilesTrue ==
  ASSUME NEW pieces
  PROVE  TrueFiles(NoFiles, pieces)
BY FS_EmptySet, Constants DEF TrueFiles, NoFiles

LEMMA VerifiedGrows ==
  ASSUME [Next]_vars
  PROVE  verified \subseteq verified'
<1>1. CASE DownloadsPiece
  BY <1>1 DEF DownloadsPiece
<1>2. CASE Called \/ Dispatch \/ Sweep
  BY <1>2 DEF Called, AddTask, ResumeTask, PauseTask, DeleteTask, Restart, Dispatch,
     Sweep, World
<1>3. CASE ReceivesMetadata \/ ChecksPiece \/ MovesStorage \/ SessionFails \/ RequestResume
  BY <1>3 DEF ReceivesMetadata, ChecksPiece, MovesStorage, SessionFails, RequestResume, World
<1>4. CASE HandleAlert
  BY <1>4 DEF HandleAlert, HandlesAdded, HandlesMetadata, HandlesMoved, HandlesPiece,
     HandlesFile, HandlesFinished, HandlesError, HandlesResume, Handles, World
<1>5. CASE UNCHANGED vars
  BY <1>5 DEF vars
<1> QED
  BY <1>1, <1>2, <1>3, <1>4, <1>5 DEF Next, Libtorrent

\* A step that only moves lists of files about, or drops them.
LEMMA FilesMoved ==
  ASSUME FilesAreTrue, verified \subseteq verified',
         entry'.files \in {entry.files, db.files, NoFiles},
         db'.files \in {db.files, NoFiles}
  PROVE  FilesAreTrue'
<1>1. \A files \in {entry.files, db.files, NoFiles} : TrueFiles(files, verified')
  BY TrueFilesAre, TrueFilesStay, NoFilesTrue
<1>2. TrueFiles(entry'.files, verified') /\ TrueFiles(db'.files, verified')
  BY <1>1
<1> QED
  BY <1>2, HadCount DEF FilesAreTrue, SegmentsVerified, FilesConsistent, TrueFiles

\* handle_parsed: intervals stay only where the file has at least as much.
LEMMA ParsedTrue ==
  ASSUME TypeOK, FilesAreTrue, NEW done \in Progress
  PROVE  /\ TrueFiles(Parsed(done), verified)
         /\ \A fs \in SUBSET Files : TrueFiles(Saved(Parsed(done), fs), verified)
<1>1. TrueFiles(Parsed(done), verified)
  <2> SUFFICES ASSUME NEW f \in Files
               PROVE  /\ Parsed(done).segs[f] \subseteq Had(f, verified)
                      /\ Cardinality(Parsed(done).segs[f]) <= Parsed(done).done[f]
                      /\ Parsed(done).done[f] <= Size[f]
    BY DEF TrueFiles
  <2>1. /\ Parsed(done).done[f] = done[f]
        /\ Parsed(done).segs[f] = IF done[f] < entry.files.done[f] THEN {}
                                  ELSE entry.files.segs[f]
    BY DEF Parsed
  <2>2. done[f] \in Nat /\ done[f] <= Size[f]
    BY ProgressType
  <2>3. /\ entry.files.segs[f] \subseteq Had(f, verified)
        /\ Cardinality(entry.files.segs[f]) <= entry.files.done[f]
    BY TrueFilesAre DEF TrueFiles
  <2>4. entry.files.done[f] \in Nat
    BY DEF TypeOK, FilesType
  <2>5. Cardinality(entry.files.segs[f]) \in Nat
    <3>1. entry.files.segs[f] \in SUBSET Bytes(f)
      BY <2>3, HadCount
    <3> QED
      BY <3>1, BytesCount, FS_Subset, FS_CardinalityType
  <2>6. CASE done[f] < entry.files.done[f]
    BY <2>1, <2>2, <2>6, FS_EmptySet
  <2>7. CASE ~(done[f] < entry.files.done[f])
    BY <2>1, <2>2, <2>3, <2>4, <2>5, <2>7
  <2> QED
    BY <2>6, <2>7
<1>2. TrueFiles(db.files, verified)
  BY TrueFilesAre
<1>3. ASSUME NEW fs \in SUBSET Files, NEW f \in Files
      PROVE  \/ /\ Saved(Parsed(done), fs).segs[f] = Parsed(done).segs[f]
                /\ Saved(Parsed(done), fs).done[f] = Parsed(done).done[f]
             \/ /\ Saved(Parsed(done), fs).segs[f] = db.files.segs[f]
                /\ Saved(Parsed(done), fs).done[f] = db.files.done[f]
  BY DEF Saved
<1> QED
  BY <1>1, <1>2, <1>3 DEF TrueFiles

LEMMA ParsesTrue ==
  ASSUME TypeOK, FilesAreTrue, verified' = verified, Parses
  PROVE  FilesAreTrue'
<1>1. CASE ~Known \/ entry.del
  BY <1>1, FilesMoved DEF Parses
<1>2. CASE ~(~Known \/ entry.del)
  <2>1. PICK done \in Progress :
          /\ \/ db' = [db EXCEPT !.files = Saved(Parsed(done), Files)] /\ UNCHANGED events
             \/ \E n \in Files :
                  db' = [db EXCEPT !.files = Saved(Parsed(done), {f \in Files : f < n})]
                /\ Fault
          /\ \/ /\ dir /\ handle' = [handle EXCEPT !.moves = @ + 1]
                /\ entry' = [entry EXCEPT !.files = Parsed(done)]
             \/ /\ ~dir /\ UNCHANGED handle
                /\ entry' = [entry EXCEPT !.files = Parsed(done), !.status = "QUEUED"]
    BY <1>2 DEF Parses
  <2>2. entry'.files = Parsed(done)
    BY <2>1 DEF TypeOK
  <2>3. PICK fs \in SUBSET Files : db' = [db EXCEPT !.files = Saved(Parsed(done), fs)]
    <3>1. \A n \in Files : {f \in Files : f < n} \in SUBSET Files
      OBVIOUS
    <3> QED
      BY <2>1, <3>1
  <2>4. db'.files = Saved(Parsed(done), fs)
    BY <2>3 DEF TypeOK
  <2>5. TrueFiles(entry'.files, verified') /\ TrueFiles(db'.files, verified')
    BY <2>2, <2>4, ParsedTrue
  <2> QED
    BY <2>5, HadCount DEF FilesAreTrue, SegmentsVerified, FilesConsistent, TrueFiles
<1> QED
  BY <1>1, <1>2

\* handle_piece_finished and the handler of file_completed_alert.
LEMMA UpdatesTrue ==
  ASSUME TypeOK, FilesAreTrue, NEW fs, NEW segs, NEW done,
         verified' = verified, db' = db,
         \A f \in Files : segs[f] \in SUBSET Nat /\ done[f] \in Nat,
         \A f \in Files : f \in fs => /\ segs[f] \subseteq Had(f, verified)
                                      /\ Cardinality(segs[f]) <= done[f]
                                      /\ done[f] <= Size[f],
         entry' = [entry EXCEPT
           !.files.segs = [f \in Files |-> IF f \in fs THEN segs[f] ELSE entry.files.segs[f]],
           !.files.done = [f \in Files |-> IF f \in fs THEN done[f] ELSE entry.files.done[f]]]
  PROVE  FilesAreTrue'
<1>1. entry.files \in FilesType
  BY DEF TypeOK
<1>2. /\ [f \in Files |-> IF f \in fs THEN segs[f] ELSE entry.files.segs[f]]
           \in [Files -> SUBSET Nat]
      /\ [f \in Files |-> IF f \in fs THEN done[f] ELSE entry.files.done[f]]
           \in [Files -> Nat]
  BY <1>1 DEF FilesType
<1>3. /\ entry'.files.segs = [f \in Files |-> IF f \in fs THEN segs[f]
                                              ELSE entry.files.segs[f]]
      /\ entry'.files.done = [f \in Files |-> IF f \in fs THEN done[f]
                                              ELSE entry.files.done[f]]
  BY <1>2, EntryKeepsType
<1>4. TrueFiles(entry.files, verified) /\ TrueFiles(db.files, verified)
  BY TrueFilesAre
<1>5. TrueFiles(entry'.files, verified)
  <2>1. SUFFICES ASSUME NEW f \in Files
                 PROVE  /\ entry'.files.segs[f] \subseteq Had(f, verified)
                        /\ Cardinality(entry'.files.segs[f]) <= entry'.files.done[f]
                        /\ entry'.files.done[f] <= Size[f]
    BY <2>1 DEF TrueFiles
  <2>2. CASE f \in fs
    <3>1. entry'.files.segs[f] = segs[f] /\ entry'.files.done[f] = done[f]
      BY <1>3, <2>2
    <3> QED
      BY <2>2, <3>1
  <2>3. CASE f \notin fs
    <3>1. /\ entry'.files.segs[f] = entry.files.segs[f]
          /\ entry'.files.done[f] = entry.files.done[f]
      BY <1>3, <2>3
    <3> QED
      BY <1>4, <3>1 DEF TrueFiles
  <2> QED
    BY <2>2, <2>3
<1>6. TrueFiles(entry'.files, verified') /\ TrueFiles(db'.files, verified')
  BY <1>4, <1>5
<1> QED
  BY <1>6, HadCount DEF FilesAreTrue, SegmentsVerified, FilesConsistent, TrueFiles

LEMMA FilesStep ==
  ASSUME TypeOK, PiecesInv, AlertsInv, FilesAreTrue, [Next]_vars
  PROVE  FilesAreTrue'
<1>1. verified \subseteq verified'
  BY VerifiedGrows
<1>2. entry.files \in FilesType
  BY DEF TypeOK
<1>3. CASE AddTask
  <2> DEFINE e == IF Known THEN entry ELSE Entry("RESOLVING", NoFiles)
  <2>1. entry' = e \/ entry' = [e EXCEPT !.status = "ERROR"]
    BY <1>3 DEF AddTask
  <2>2. e \in EntryType /\ e.files \in {entry.files, NoFiles}
    BY NoFilesType DEF TypeOK, EntryType, Entry, Statuses
  <2>3. entry'.files = e.files
    <3> HIDE DEF e
    <3> QED
      BY <2>1, <2>2 DEF EntryType
  <2>4. db'.files = NoFiles
    BY <1>3 DEF AddTask, TypeOK
  <2> QED
    BY <1>1, <2>2, <2>3, <2>4, FilesMoved
<1>4. CASE Restart
  <2>1. entry'.files \in {db.files, NoFiles} /\ db'.files = db.files
    BY <1>4 DEF Restart, Entry, Absent
  <2> QED
    BY <1>1, <2>1, FilesMoved
<1>5. CASE ResumeTask \/ PauseTask \/ DeleteTask \/ Dispatch \/ Sweep
  <2>1. entry'.files = entry.files /\ db'.files = db.files
    BY <1>5 DEF ResumeTask, PauseTask, DeleteTask, Dispatch, Sweep, TypeOK
  <2> QED
    BY <1>1, <2>1, FilesMoved
<1>6. CASE Libtorrent \/ RequestResume \/ UNCHANGED vars
  <2>1. entry' = entry /\ db' = db
    BY <1>6 DEF Libtorrent, ReceivesMetadata, ChecksPiece, DownloadsPiece, MovesStorage,
       SessionFails, RequestResume, Apart, vars
  <2> QED
    BY <1>1, <2>1, FilesMoved
<1>7. CASE HandleAlert
  <2>1. verified' = verified /\ alerts # <<>>
    BY <1>7 DEF HandleAlert, HandlesAdded, HandlesMetadata, HandlesMoved, HandlesPiece,
       HandlesFile, HandlesFinished, HandlesError, HandlesResume, Handles, World
  <2>2. CASE HandlesAdded \/ HandlesMetadata \/ HandlesMoved
    <3>1. CASE Parses
      BY <2>1, <3>1, ParsesTrue
    <3>2. CASE UNCHANGED <<entry, db>>
      BY <1>1, <3>2, FilesMoved
    <3> QED
      BY <2>2, <3>1, <3>2 DEF HandlesAdded, HandlesMetadata, HandlesMoved
  <2>3. CASE HandlesFinished \/ HandlesError \/ HandlesResume
    <3>1. entry'.files = entry.files /\ db'.files = db.files
      BY <2>3 DEF HandlesFinished, HandlesError, HandlesResume, Says, TypeOK
    <3> QED
      BY <1>1, <3>1, FilesMoved
  <2>4. CASE HandlesPiece
    <3> DEFINE segs == [f \in Files |-> Had(f, handle.have)]
               done == [f \in Files |-> Cardinality(Had(f, handle.have))]
    <3>1. PICK fs : Updates(fs)
      BY <2>4 DEF HandlesPiece
    <3>2. db' = db
      BY <2>4 DEF HandlesPiece
    <3>3. \A f \in Files : segs[f] = Had(f, handle.have) /\ done[f] = Cardinality(segs[f])
      OBVIOUS
    <3>4. handle.have \subseteq verified
      BY DEF PiecesInv
    <3>5. \A f \in Files : /\ segs[f] \in SUBSET Nat /\ done[f] \in Nat
                           /\ done[f] <= Size[f]
      BY <3>3, HadCount
    <3>6. \A f \in Files : segs[f] \subseteq Had(f, verified)
      BY <3>3, <3>4, HadMonotonic
    <3>7. entry' = [entry EXCEPT
            !.files.segs = [f \in Files |-> IF f \in fs THEN segs[f] ELSE entry.files.segs[f]],
            !.files.done = [f \in Files |-> IF f \in fs THEN done[f] ELSE entry.files.done[f]]]
      <4>1. /\ [f \in Files |-> IF f \in fs THEN segs[f] ELSE entry.files.segs[f]]
               = [f \in Files |-> IF f \in fs THEN Had(f, handle.have)
                                  ELSE entry.files.segs[f]]
            /\ [f \in Files |-> IF f \in fs THEN done[f] ELSE entry.files.done[f]]
               = [f \in Files |-> IF f \in fs THEN Cardinality(Had(f, handle.have))
                                  ELSE entry.files.done[f]]
        OBVIOUS
      <4> HIDE DEF segs, done
      <4> QED
        BY <3>1, <4>1 DEF Updates
    <3>8. \A f \in Files : Cardinality(segs[f]) <= done[f]
      BY <3>3, <3>5
    <3> HIDE DEF segs, done
    <3> QED
      BY <2>1, <3>2, <3>5, <3>6, <3>7, <3>8, UpdatesTrue
  <2>5. CASE HandlesFile
    <3> DEFINE completed == Head(alerts).what \cap entry.files.listed
               segs == [f \in Files |-> Bytes(f)]
    <3>1. Head(alerts) \in GoodAlerts /\ Head(alerts).type = "file"
      BY <2>1, <2>5, HeadTailProperties DEF AlertsInv, HandlesFile, Handles
    <3>2. \A f \in completed : f \in Files /\ PiecesOf(f) \subseteq verified
      BY <3>1 DEF GoodAlerts, AlertType
    <3>3. db' = db
      BY <2>5 DEF HandlesFile
    <3>4. \A f \in Files : /\ segs[f] \in SUBSET Nat /\ Size[f] \in Nat
                           /\ Cardinality(segs[f]) <= Size[f]
      BY BytesCount, Constants
    <3>5. \A f \in Files : f \in completed => segs[f] \subseteq Had(f, verified)
      BY <3>2, HadWhole
    <3>6. entry' = [entry EXCEPT
            !.files.segs = [f \in Files |-> IF f \in completed THEN segs[f]
                                            ELSE entry.files.segs[f]],
            !.files.done = [f \in Files |-> IF f \in completed THEN Size[f]
                                            ELSE entry.files.done[f]]]
      <4>1. [f \in Files |-> IF f \in completed THEN segs[f] ELSE entry.files.segs[f]]
            = [f \in Files |-> IF f \in completed THEN Bytes(f) ELSE entry.files.segs[f]]
        OBVIOUS
      <4> HIDE DEF segs
      <4> QED
        BY <2>5, <4>1 DEF HandlesFile
    <3>7. \A f \in Files : Size[f] <= Size[f]
      BY Constants
    <3> HIDE DEF segs, completed
    <3> QED
      BY <2>1, <3>3, <3>4, <3>5, <3>6, <3>7, UpdatesTrue
  <2> QED
    BY <1>7, <2>2, <2>3, <2>4, <2>5 DEF HandleAlert
<1> QED
  BY <1>3, <1>4, <1>5, <1>6, <1>7 DEF Next, Called

-----------------------------------------------------------------------------
(* What is not admitted.                                                   *)

LEMMA HeldStep ==
  ASSUME TypeOK, PiecesInv, HeldUntilAdmitted, [Next]_vars
  PROVE  HeldUntilAdmitted'
<1> USE DEF HeldUntilAdmitted
<1>1. ASSUME NEW found \in Found, NEW at, Takes(found, at)
      PROVE  handle'.at = at
  BY <1>1, FoundIs DEF Takes, HandleType
<1>2. ASSUME ~InSession, FindsNone
      PROVE  handle'.at # "on"
  BY <1>2 DEF FindsNone, InSession
<1>3. CASE AddTask
  <2>1. \A found \in Found : found.h.at = "held"
    BY <1>3, FoundIs DEF AddTask
  <2> QED
    BY <1>1, <1>2, <1>3, <2>1 DEF AddTask
<1>4. CASE ResumeTask
  BY <1>4 DEF ResumeTask, TypeOK
<1>5. CASE Dispatch
  <2>1. entry.del = FALSE /\ entry' \in [status : Statuses, del : BOOLEAN, files : FilesType]
        /\ entry'.del = FALSE
        /\ entry'.status \in {"DOWNLOADING", "ERROR", "QUEUED"}
    BY <1>5 DEF Dispatch, TypeOK, Statuses
  <2> QED
    BY <2>1
<1>6. CASE PauseTask
  BY <1>1, <1>2, <1>6 DEF PauseTask, FindsNone
<1>7. CASE DeleteTask \/ Restart \/ Sweep
  BY <1>7 DEF DeleteTask, Restart, Sweep, Removes, NoHandle
<1>8. CASE Libtorrent \/ RequestResume \/ UNCHANGED vars
  <2>1. entry' = entry
    BY <1>8 DEF Libtorrent, ReceivesMetadata, ChecksPiece, DownloadsPiece, MovesStorage,
       SessionFails, RequestResume, Apart, vars
  <2>2. handle'.at = handle.at
    BY <1>8 DEF Libtorrent, ReceivesMetadata, ChecksPiece, DownloadsPiece, MovesStorage,
       SessionFails, RequestResume, vars, TypeOK
  <2> QED
    BY <2>1, <2>2
<1>9. CASE HandleAlert
  <2>1. CASE HandlesAdded \/ HandlesMetadata \/ HandlesMoved
    <3>1. CASE Parses
      <4>1. handle'.at = handle.at
        BY <3>1, ParsesType
      <4>2. \/ entry' = entry
            \/ ~entry.del /\ \E done :
                 \/ entry' = [entry EXCEPT !.files = Parsed(done)]
                 \/ entry' = [entry EXCEPT !.files = Parsed(done), !.status = "QUEUED"]
        BY <3>1 DEF Parses
      <4>3. \/ entry' = entry
            \/ entry'.del = FALSE /\ entry'.status \in {entry.status, "QUEUED"}
        BY <4>2 DEF TypeOK
      <4> QED
        BY <4>1, <4>3
    <3>2. CASE UNCHANGED <<entry, handle>>
      BY <3>2
    <3> QED
      BY <2>1, <3>1, <3>2 DEF HandlesAdded, HandlesMetadata, HandlesMoved
  <2>2. CASE HandlesPiece \/ HandlesFile
    <3>1. handle' = handle /\ entry'.status = entry.status /\ entry'.del = entry.del
      BY <2>2 DEF HandlesPiece, HandlesFile, Updates, TypeOK
    <3> QED
      BY <3>1
  <2>3. CASE HandlesFinished \/ HandlesError
    <3>1. handle' = handle /\ entry'.del = entry.del
          /\ entry'.status \in {entry.status, "COMPLETED", "ERROR"}
      BY <2>3 DEF HandlesFinished, HandlesError, Says, TypeOK
    <3> QED
      BY <3>1
  <2>4. CASE HandlesResume
    <3>1. entry' = entry /\ handle'.at = handle.at
      BY <2>4 DEF HandlesResume, TypeOK
    <3> QED
      BY <3>1
  <2> QED
    BY <1>9, <2>1, <2>2, <2>3, <2>4 DEF HandleAlert
<1> QED
  BY <1>3, <1>4, <1>5, <1>6, <1>7, <1>8, <1>9 DEF Next, Called

-----------------------------------------------------------------------------
(* The theorems.                                                           *)

IInv == TypeOK /\ TruthInv /\ HeldUntilAdmitted

LEMMA InvInit == Init => IInv
<1> SUFFICES ASSUME Init PROVE IInv
  OBVIOUS
<1>1. TypeOK
  <2>1. Absent \in EntryType /\ ~Known
    BY NoFilesType DEF Init, Absent, Entry, EntryType, Statuses, Known
  <2>2. NoHandle \in HandleType /\ ~InSession
    BY DEF Init, NoHandle, HandleType, InSession
  <2> QED
    BY <2>1, <2>2, NoFilesType, EmptySeq DEF Init, TypeOK, EntryType, HandleType
<1>2. PiecesInv /\ AlertsInv
  BY EmptySeq DEF Init, PiecesInv, AlertsInv, NoHandle
<1>3. FilesAreTrue
  BY TrueFilesAre, NoFilesTrue DEF Init, Absent, Entry
<1>4. HeldUntilAdmitted
  BY DEF Init, HeldUntilAdmitted, NoHandle
<1> QED
  BY <1>1, <1>2, <1>3, <1>4 DEF IInv, TruthInv

LEMMA InvStep == IInv /\ [Next]_vars => IInv'
BY PiecesStep, AlertsStep, TypeStep, FilesStep, HeldStep DEF IInv, TruthInv

\* The inductive invariant holds in every reachable state.
THEOREM Invariant == Spec => []IInv
BY InvInit, InvStep, PTL DEF Spec

\* Every variable has its type, an entry has a row, and only what has an entry
\* is in the session.
THEOREM TypeCorrect == Spec => []TypeOK
<1>1. IInv => TypeOK
  BY DEF IInv
<1> QED
  BY <1>1, Invariant, PTL

\* What the application is told of a file, and what a restart reads back, claims
\* no byte that was never verified, nor more than the file has.
THEOREM FilesTold == Spec => []FilesAreTrue
<1>1. IInv => FilesAreTrue
  BY DEF IInv, TruthInv
<1> QED
  BY <1>1, Invariant, PTL

\* Nothing that is deleted, paused or not parsed yet downloads.
THEOREM Admitted == Spec => []HeldUntilAdmitted
<1>1. IInv => HeldUntilAdmitted
  BY DEF IInv
<1> QED
  BY <1>1, Invariant, PTL

-----------------------------------------------------------------------------
(* The refinement of BtSession.                                            *)

\* What is not in the session is blank, and all that is still to be told of it
\* is that it could not be built.
Errors == {Alert("error", {})}
OutInv == InSession \/ (handle = NoHandle /\ alerts \in Seq(Errors))

\* What is told to be finished is whole.
Unfinished == {a \in AlertType : a.type # "finished"}
WholeInv == Whole(handle) \/ alerts \in Seq(Unfinished)

LEMMA NoHandleIs ==
  /\ NoHandle \in HandleType /\ NoHandle.at = "none" /\ NoHandle.moves = 0
  /\ Whole(NoHandle) = FALSE
BY DEF NoHandle, HandleType, Whole

LEMMA OutStep ==
  ASSUME TypeOK, PiecesInv, OutInv, [Next]_vars
  PROVE  OutInv'
<1> SUFFICES ASSUME ~InSession' PROVE handle' = NoHandle /\ alerts' \in Seq(Errors)
  BY DEF OutInv
<1> USE DEF OutInv
<1>1. \A found \in Found : \A at : Takes(found, at) => handle'.at = at
  BY FoundIs DEF Takes, HandleType
<1>2. ASSUME NEW found \in Found, NEW at \in {"held", "on"}, Takes(found, at) PROVE FALSE
  BY <1>1, <1>2 DEF InSession
<1>3. \A found \in Found : found.h.at \in {"held", "on"}
  BY FoundIs DEF HandleType
<1>4. ASSUME FindsNone PROVE handle' = NoHandle /\ alerts' \in Seq(Errors)
  BY <1>4, AppendProperties DEF FindsNone, Errors
<1>5. ASSUME Removes PROVE handle' = NoHandle /\ alerts' \in Seq(Errors)
  BY <1>5, EmptySeq DEF Removes
<1>6. CASE AddTask \/ PauseTask
  BY <1>2, <1>3, <1>4, <1>6 DEF AddTask, PauseTask
<1>7. CASE ResumeTask \/ UNCHANGED vars
  BY <1>7 DEF ResumeTask, vars, InSession
<1>8. CASE DeleteTask \/ Restart \/ Sweep
  BY <1>5, <1>8 DEF DeleteTask, Restart, Sweep
<1>9. CASE Dispatch
  <2>1. \A found \in Found :
          handle' # [found.h EXCEPT !.at = "on", !.saved = Data(found.h.have)]
    BY FoundIs DEF HandleType, InSession
  <2> QED
    BY <1>2, <1>3, <1>4, <1>9, <2>1 DEF Dispatch
<1>10. CASE Libtorrent \/ RequestResume
  <2>1. handle'.at = handle.at
    BY <1>10 DEF Libtorrent, ReceivesMetadata, ChecksPiece, DownloadsPiece, MovesStorage,
       SessionFails, RequestResume, TypeOK
  <2>2. ~InSession
    BY <2>1 DEF InSession
  <2>3. ~(handle.moves > 0) /\ handle.at = "none"
    BY <2>2, NoHandleIs DEF InSession
  <2> QED
    BY <1>10, <2>2, <2>3 DEF Libtorrent, ReceivesMetadata, ChecksPiece, DownloadsPiece,
       MovesStorage, SessionFails, RequestResume
<1>11. CASE HandleAlert
  <2>1. handle'.at = handle.at
    BY <1>11, ParsesType
    DEF HandleAlert, HandlesAdded, HandlesMetadata, HandlesMoved, HandlesPiece,
        HandlesFile, HandlesFinished, HandlesError, HandlesResume, TypeOK
  <2>2. handle = NoHandle /\ alerts \in Seq(Errors)
    BY <2>1 DEF InSession
  <2>3. alerts # <<>> /\ alerts' = Tail(alerts)
    BY <1>11 DEF HandleAlert, HandlesAdded, HandlesMetadata, HandlesMoved, HandlesPiece,
       HandlesFile, HandlesFinished, HandlesError, HandlesResume, Handles
  <2>4. Head(alerts).type = "error"
    BY <2>2, <2>3, HeadTailProperties DEF Errors, Alert
  <2>5. UNCHANGED handle
    BY <1>11, <2>4
    DEF HandleAlert, HandlesAdded, HandlesMetadata, HandlesMoved, HandlesPiece,
        HandlesFile, HandlesFinished, HandlesError, HandlesResume, Handles
  <2> QED
    BY <2>2, <2>3, <2>5, HeadTailProperties
<1> QED
  BY <1>6, <1>7, <1>8, <1>9, <1>10, <1>11 DEF Next, Called

\* Whether a handle is whole, by what it is made of.
LEMMA WholeIs ==
  ASSUME NEW h, NEW k, h.meta = k.meta, h.have = k.have
  PROVE  Whole(h) <=> Whole(k)
BY DEF Whole

LEMMA PlainUnfinished ==
  /\ \A type \in {"added", "metadata", "moved", "error"} : Alert(type, {}) \in Unfinished
  /\ \A type \in {"piece", "resume"} : \A what \in SUBSET Pieces :
       Alert(type, what) \in Unfinished
BY DEF Alert, Unfinished, AlertType

LEMMA FileAlertsUnfinished ==
  ASSUME NEW p \in Pieces, NEW files \in FileAlerts(p)
  PROVE  files \in Seq(Unfinished)
<1>1. PICK order \in [1..Cardinality(Completed(p)) -> Completed(p)] :
        files = [i \in DOMAIN order |-> Alert("file", {order[i]})]
  BY DEF FileAlerts
<1>2. Cardinality(Completed(p)) \in Nat
  <2>1. Completed(p) \in SUBSET Files
    BY DEF Completed
  <2> QED
    BY <2>1, Constants, FS_Subset, FS_CardinalityType
<1>3. \A f \in Completed(p) : Alert("file", {f}) \in Unfinished
  BY DEF Completed, Alert, Unfinished, AlertType
<1>4. files \in [1..Cardinality(Completed(p)) -> Unfinished]
  BY <1>1, <1>3
<1> QED
  BY <1>2, <1>4

LEMMA FoundUnfinished ==
  ASSUME TypeOK, OutInv, WholeInv, NEW found \in Found, ~Whole(found.h)
  PROVE  alerts \o found.new \in Seq(Unfinished)
<1>1. alerts \in Seq(Unfinished) /\ found.new \in Seq(Unfinished)
  <2>1. CASE InSession
    <3>1. found = [h |-> handle, new |-> <<>>]
      BY <2>1 DEF Found
    <3> QED
      BY <3>1, EmptySeq DEF WholeInv
  <2>2. CASE ~InSession
    <3>1. PICK meta \in BOOLEAN :
            found = [h |-> Rebuilt(meta),
                     new |-> <<Alert("added", {})>> \o
                             (IF Whole(Rebuilt(meta)) THEN <<Alert("finished", {})>>
                              ELSE <<>>)]
      BY <2>2 DEF Found
    <3>2. found.new = <<Alert("added", {})>> \o <<>>
      BY <3>1
    <3>3. <<Alert("added", {})>> \in Seq(Unfinished) /\ <<>> \in Seq(Unfinished)
      BY PlainUnfinished, OneOf, EmptySeq
    <3>4. Errors \subseteq Unfinished
      BY PlainUnfinished DEF Errors
    <3>5. alerts \in Seq(Unfinished)
      BY <2>2, <3>4, SeqMonotonic DEF OutInv
    <3> QED
      BY <3>2, <3>3, <3>5, ConcatProperties
  <2> QED
    BY <2>1, <2>2
<1> QED
  BY <1>1, ConcatProperties

LEMMA WholeStep ==
  ASSUME TypeOK, PiecesInv, OutInv, WholeInv, [Next]_vars
  PROVE  WholeInv'
<1> SUFFICES ASSUME ~Whole(handle)' PROVE alerts' \in Seq(Unfinished)
  BY DEF WholeInv
<1>1. ASSUME handle'.meta = handle.meta, handle'.have = handle.have
      PROVE  alerts \in Seq(Unfinished)
  BY <1>1, WholeIs DEF WholeInv
<1>2. ASSUME NEW found \in Found, NEW at, Takes(found, at)
      PROVE  alerts' \in Seq(Unfinished)
  <2>1. handle'.meta = found.h.meta /\ handle'.have = found.h.have
    BY <1>2, FoundIs DEF Takes, HandleType
  <2>2. ~Whole(found.h)
    BY <2>1, WholeIs
  <2> QED
    BY <1>2, <2>2, FoundUnfinished DEF Takes
<1>3. ASSUME FindsNone PROVE alerts' \in Seq(Unfinished)
  BY <1>1, <1>3, PlainUnfinished, AppendProperties DEF FindsNone
<1>4. ASSUME Removes PROVE alerts' \in Seq(Unfinished)
  BY <1>4, EmptySeq DEF Removes
<1>5. CASE AddTask \/ PauseTask
  BY <1>2, <1>3, <1>5 DEF AddTask, PauseTask
<1>6. CASE ResumeTask \/ UNCHANGED vars
  BY <1>1, <1>6 DEF ResumeTask, vars
<1>7. CASE DeleteTask \/ Restart \/ Sweep
  BY <1>4, <1>7 DEF DeleteTask, Restart, Sweep
<1>8. CASE Dispatch
  <2>1. ASSUME NEW found \in Found,
               handle' = [found.h EXCEPT !.at = "on", !.saved = Data(found.h.have)],
               alerts' = alerts \o found.new \o <<Alert("resume", found.h.have)>>
        PROVE  alerts' \in Seq(Unfinished)
    <3>1. handle'.meta = found.h.meta /\ handle'.have = found.h.have
          /\ found.h.have \in SUBSET Pieces
      BY <2>1, FoundIs DEF HandleType
    <3>2. alerts \o found.new \in Seq(Unfinished)
      BY <3>1, WholeIs, FoundUnfinished
    <3>3. <<Alert("resume", found.h.have)>> \in Seq(Unfinished)
      BY <3>1, PlainUnfinished, OneOf
    <3> QED
      BY <2>1, <3>2, <3>3, ConcatProperties
  <2> QED
    BY <1>2, <1>3, <1>8, <2>1 DEF Dispatch
<1>9. ASSUME NEW p \in Pieces, handle' = [handle EXCEPT !.have = @ \cup {p}]
      PROVE  alerts \in Seq(Unfinished)
  <2>1. handle'.meta = handle.meta /\ handle'.have = handle.have \cup {p}
        /\ handle.have \subseteq Pieces
    BY <1>9 DEF TypeOK
  <2> QED
    BY <2>1 DEF WholeInv, Whole
<1>10. CASE ReceivesMetadata
  <2>1. handle'.meta = TRUE /\ handle'.have = handle.have
    BY <1>10 DEF ReceivesMetadata, TypeOK
  <2>2. alerts \in Seq(Unfinished)
    BY <2>1 DEF WholeInv, Whole
  <2>3. <<Alert("metadata", {})>> \in Seq(Unfinished)
    BY PlainUnfinished, OneOf
  <2> QED
    BY <1>10, <2>2, <2>3, PostsGood DEF ReceivesMetadata
<1>11. CASE ChecksPiece
  <2>1. alerts \in Seq(Unfinished) /\ Posts(<<>>)
    BY <1>9, <1>11 DEF ChecksPiece, TypeOK
  <2>2. <<>> \in Seq(Unfinished)
    BY EmptySeq
  <2> QED
    BY <2>1, <2>2, PostsGood
<1>12. CASE DownloadsPiece
  <2>1. PICK p \in Pieces :
          /\ handle' = [handle EXCEPT !.have = @ \cup {p}]
          /\ \E files \in FileAlerts(p) :
               Posts(<<Alert("piece", {p})>> \o files \o
                     (IF Whole(handle') THEN <<Alert("finished", {})>> ELSE <<>>))
    BY <1>12 DEF DownloadsPiece
  <2>2. PICK files \in FileAlerts(p) : Posts(<<Alert("piece", {p})>> \o files \o <<>>)
    BY <2>1
  <2>3. files \in Seq(Unfinished)
    BY FileAlertsUnfinished
  <2>4. <<Alert("piece", {p})>> \in Seq(Unfinished) /\ <<>> \in Seq(Unfinished)
    BY PlainUnfinished, OneOf, EmptySeq
  <2>5. <<Alert("piece", {p})>> \o files \in Seq(Unfinished)
    BY <2>3, <2>4, ConcatProperties
  <2>6. <<Alert("piece", {p})>> \o files \o <<>> \in Seq(Unfinished)
    BY <2>4, <2>5, ConcatProperties
  <2> QED
    BY <1>9, <2>1, <2>2, <2>6, PostsGood
<1>13. CASE MovesStorage \/ SessionFails \/ RequestResume
  <2>1. handle'.meta = handle.meta /\ handle'.have = handle.have
    BY <1>13 DEF MovesStorage, SessionFails, RequestResume, TypeOK
  <2>2. PICK a \in Unfinished : alerts' = Append(alerts, a)
    BY <1>13, PlainUnfinished DEF MovesStorage, SessionFails, RequestResume, TypeOK
  <2> QED
    BY <1>1, <2>1, <2>2, AppendProperties
<1>14. CASE HandleAlert
  <2>1. handle'.meta = handle.meta /\ handle'.have = handle.have
    <3>1. CASE HandlesAdded \/ HandlesMetadata \/ HandlesMoved
      BY <3>1 DEF HandlesAdded, HandlesMetadata, HandlesMoved, Parses, TypeOK
    <3>2. CASE HandlesPiece \/ HandlesFile \/ HandlesFinished \/ HandlesError \/ HandlesResume
      BY <3>2 DEF HandlesPiece, HandlesFile, HandlesFinished, HandlesError, HandlesResume,
                  TypeOK
    <3> QED
      BY <1>14, <3>1, <3>2 DEF HandleAlert
  <2>2. alerts # <<>> /\ alerts' = Tail(alerts)
    BY <1>14 DEF HandleAlert, HandlesAdded, HandlesMetadata, HandlesMoved, HandlesPiece,
       HandlesFile, HandlesFinished, HandlesError, HandlesResume, Handles
  <2> QED
    BY <1>1, <2>1, <2>2, HeadTailProperties
<1> QED
  BY <1>5, <1>6, <1>7, <1>8, <1>10, <1>11, <1>12, <1>13, <1>14 DEF Next, Called, Libtorrent

\* What BtSession sees of the torrent.
Of(h) == [at |-> h.at, whole |-> Whole(h)]
Slice == [status |-> entry.status, del |-> entry.del, handle |-> Of(handle)]
Bt == [t \in {"it"} |-> Slice]

\* What the operators of BtSession read, by their names here.
LEMMA SliceIs ==
  ASSUME NEW t \in {"it"}
  PROVE  /\ Session!Known(t) <=> Known
         /\ Session!InSession(t) <=> InSession
         /\ Bt[t].status = entry.status /\ Bt[t].del = entry.del
         /\ Bt[t].handle = Of(handle)
         /\ Bt[t].handle.at = handle.at
         /\ Bt[t].handle.whole <=> Whole(handle)
BY DEF Bt, Slice, Of, Session!Known, Session!InSession, Known, InSession

LEMMA NoHandleSlice == Session!NoHandle = Of(NoHandle)
<1>1. Whole(NoHandle) = FALSE /\ NoHandle.at = "none"
  BY NoHandleIs
<1> HIDE DEF NoHandle
<1> QED
  BY <1>1 DEF Of, Session!NoHandle

LEMMA SliceSame ==
  ASSUME entry'.status = entry.status, entry'.del = entry.del,
         handle'.at = handle.at, Whole(handle)' <=> Whole(handle)
  PROVE  UNCHANGED Bt
<1>1. Whole(handle)' = Whole(handle)
  BY DEF Whole
<1>2. Of(handle)' = Of(handle)
  BY <1>1 DEF Of
<1> QED
  BY <1>2 DEF Bt, Slice

\* A step is what BtSession calls Becomes.
LEMMA BecomesIs ==
  ASSUME entry'.del = entry.del, NEW t \in {"it"},
         NEW s, s = entry'.status, NEW w, w = Of(handle')
  PROVE  Session!Becomes(t, s, w)
<1>1. Slice' = [status |-> s, del |-> Bt[t].del, handle |-> w]
  BY SliceIs DEF Slice, Of
<1>2. Bt' = [Bt EXCEPT ![t] = Slice']
  BY DEF Bt
<1> QED
  BY <1>1, <1>2 DEF Session!Becomes, Bt, Slice, Of

\* What find_handle returns, put where it is to be.
LEMMA FoundSlice ==
  ASSUME TypeOK, PiecesInv, NEW t \in {"it"}, NEW found \in Found
  PROVE  Of(found.h) \in Session!Found(t)
<1>1. CASE InSession
  BY <1>1, FoundIs, SliceIs DEF Session!Found, Bt, Slice, Of
<1>2. CASE ~InSession
  <2>1. found.h.at = "held" /\ Whole(found.h) \in BOOLEAN
    BY <1>2, FoundIs DEF Whole
  <2>2. Session!Found(t) = [at : {"held"}, whole : BOOLEAN]
    BY <1>2, SliceIs DEF Session!Found, Bt, Slice, Of
  <2> QED
    BY <2>1, <2>2 DEF Of
<1> QED
  BY <1>1, <1>2

LEMMA TakesSlice ==
  ASSUME TypeOK, PiecesInv, NEW found \in Found, NEW at,
         handle'.at = at, handle'.meta = found.h.meta, handle'.have = found.h.have
  PROVE  Of(handle') = Session!Put(Of(found.h), at)
<1>1. Whole(handle') = Whole(found.h)
  BY DEF Whole
<1>2. Of(handle') = [at |-> at, whole |-> Whole(found.h)]
  BY <1>1 DEF Of
<1>3. Of(found.h).whole = Whole(found.h)
  BY DEF Of
<1> QED
  BY <1>2, <1>3 DEF Session!Put

LEMMA AddTaskSlice ==
  ASSUME TypeOK, PiecesInv, OutInv, NEW t \in {"it"}, AddTask
  PROVE  Session!Adds(t)
<1> DEFINE s == IF Known THEN entry.status ELSE "RESOLVING"
<1>1. ~entry.del /\ ~InSession /\ handle = NoHandle
  BY DEF AddTask, OutInv
<1>2. entry'.del = entry.del /\ entry'.status \in {s, "ERROR"}
  <2> DEFINE e == IF Known THEN entry ELSE Entry("RESOLVING", NoFiles)
  <2>1. entry' = e \/ entry' = [e EXCEPT !.status = "ERROR"]
    BY DEF AddTask
  <2>2. ~Known => entry.del = FALSE
    BY <1>1 DEF TypeOK
  <2>3. e.status = s /\ e.del = entry.del
    BY <1>1 DEF Entry, TypeOK
  <2>4. /\ [e EXCEPT !.status = "ERROR"].del = e.del
        /\ [e EXCEPT !.status = "ERROR"].status = "ERROR"
    BY <1>1 DEF Entry, TypeOK
  <2> HIDE DEF e, s
  <2> QED
    BY <2>1, <2>3, <2>4
<1>3. \/ \E found \in Found : Of(handle') = Of(found.h)
      \/ entry'.status = s /\ UNCHANGED handle
  <2>1. CASE \E found \in Found : Takes(found, found.h.at)
    <3>1. PICK found \in Found : Takes(found, found.h.at)
      BY <2>1
    <3>2. handle' = found.h
      BY <3>1, FoundIs DEF Takes, HandleType
    <3> QED
      BY <3>2
  <2>2. CASE /\ FindsNone
             /\ entry' = IF Known THEN entry ELSE Entry("RESOLVING", NoFiles)
    BY <2>2 DEF FindsNone, Entry
  <2> QED
    BY <2>1, <2>2 DEF AddTask
<1> HIDE DEF s
<1>4. PICK r, w : r = entry'.status /\ w = Of(handle')
  OBVIOUS
<1>5. Session!Becomes(t, r, w)
  BY <1>2, <1>4, BecomesIs
<1>6. w \in Session!Found(t) \/ (r = s /\ w = Session!NoHandle)
  BY <1>1, <1>3, <1>4, FoundSlice, NoHandleSlice
<1>7. s = IF Session!Known(t) THEN Bt[t].status ELSE "RESOLVING"
  BY SliceIs DEF s
<1>8. \/ Session!Becomes(t, s, Session!NoHandle)
      \/ \E h \in Session!Found(t) :
           Session!Becomes(t, s, h) \/ Session!Becomes(t, "ERROR", h)
  BY <1>2, <1>4, <1>5, <1>6 DEF Session!Becomes
<1> QED
  BY <1>1, <1>7, <1>8, SliceIs DEF Session!Adds, Bt, Slice, Of

LEMMA CallSlices ==
  ASSUME TypeOK, PiecesInv, NEW t \in {"it"}, ResumeTask \/ PauseTask \/ DeleteTask
  PROVE  Session!Queues(t) \/ Session!Pauses(t) \/ Session!Deletes(t) \/ UNCHANGED Bt
<1>1. CASE ResumeTask
  <2>1. entry'.del = entry.del /\ entry'.status = "QUEUED" /\ UNCHANGED handle
    BY <1>1 DEF ResumeTask, TypeOK
  <2>2. PICK s, w : s = "QUEUED" /\ w = Bt[t].handle
    OBVIOUS
  <2>3. Session!Becomes(t, s, w)
    BY <2>1, <2>2, BecomesIs, SliceIs
  <2> QED
    BY <1>1, <2>2, <2>3, SliceIs
    DEF ResumeTask, Session!Queues, Session!Becomes, Bt, Slice, Of
<1>2. CASE PauseTask
  <2>1. CASE FindsNone /\ UNCHANGED entry
    BY <2>1, SliceSame DEF FindsNone
  <2>2. CASE /\ \E found \in Found : Takes(found, "held")
             /\ entry' = [entry EXCEPT !.status = "PAUSED"]
    <3>1. PICK found \in Found : Takes(found, "held")
      BY <2>2
    <3>2. PICK s, w : s = "PAUSED" /\ w = Session!Put(Of(found.h), "held")
      OBVIOUS
    <3>3. entry'.del = entry.del /\ entry'.status = s
      BY <2>2, <3>2 DEF TypeOK
    <3>4. w = Of(handle')
      BY <3>1, <3>2, FoundIs, TakesSlice DEF Takes, HandleType
    <3>5. Session!Becomes(t, s, w)
      BY <3>3, <3>4, BecomesIs
    <3> QED
      BY <1>2, <3>2, <3>5, FoundSlice, SliceIs
      DEF PauseTask, Session!Pauses, Session!Becomes, Bt, Slice, Of
  <2> QED
    BY <1>2, <2>1, <2>2 DEF PauseTask
<1>3. CASE DeleteTask
  <2>1. entry'.status = entry.status /\ entry'.del = TRUE /\ handle' = NoHandle
    BY <1>3 DEF DeleteTask, Removes, TypeOK
  <2>2. Slice' = [status |-> Bt[t].status, del |-> TRUE, handle |-> Session!NoHandle]
    BY <2>1, SliceIs, NoHandleSlice DEF Slice
  <2>3. Bt' = [Bt EXCEPT ![t] = Slice']
    BY DEF Bt
  <2> QED
    BY <1>3, <2>2, <2>3, SliceIs DEF DeleteTask, Session!Deletes, Bt, Slice, Of
<1> QED
  BY <1>1, <1>2, <1>3

LEMMA FailsSlice ==
  ASSUME NEW t \in {"it"}, Known, UNCHANGED handle,
         entry'.status = "ERROR", entry'.del = entry.del
  PROVE  Session!Fails(t)
<1>1. PICK s, w : s = "ERROR" /\ w = Bt[t].handle
  OBVIOUS
<1>2. Session!Becomes(t, s, w)
  BY <1>1, BecomesIs, SliceIs
<1> QED
  BY <1>1, <1>2, SliceIs DEF Session!Fails, Session!Becomes, Bt, Slice, Of

LEMMA DispatchSlice ==
  ASSUME TypeOK, PiecesInv, NEW t \in {"it"}, Dispatch
  PROVE  Session!Starts(t) \/ Session!Fails(t)
<1>1. entry.status = "QUEUED" /\ entry.del = FALSE /\ Known
  BY DEF Dispatch, Known, TypeOK
<1>2. ASSUME NEW found \in Found, handle'.at = "on", handle'.meta = found.h.meta,
             handle'.have = found.h.have, entry' = [entry EXCEPT !.status = "DOWNLOADING"]
      PROVE  Session!Starts(t)
  <2>1. PICK s, w : s = "DOWNLOADING" /\ w = Session!Put(Of(found.h), "on")
    OBVIOUS
  <2>2. entry'.del = entry.del /\ entry'.status = s
    BY <1>2, <2>1 DEF TypeOK
  <2>3. w = Of(handle')
    BY <1>2, <2>1, TakesSlice
  <2>4. Session!Becomes(t, s, w)
    BY <2>2, <2>3, BecomesIs
  <2> QED
    BY <1>1, <2>1, <2>4, FoundSlice, SliceIs
    DEF Session!Starts, Session!Becomes, Bt, Slice, Of
<1>3. ASSUME NEW found \in Found, Takes(found, found.h.at),
             entry' = [entry EXCEPT !.status = "ERROR"]
      PROVE  Session!Starts(t)
  <2>1. PICK s, w : s = "ERROR" /\ w = Of(found.h)
    OBVIOUS
  <2>2. entry'.del = entry.del /\ entry'.status = s
    BY <1>3, <2>1 DEF TypeOK
  <2>3. handle' = found.h
    BY <1>3, FoundIs DEF Takes, HandleType
  <2>4. Session!Becomes(t, s, w)
    BY <2>1, <2>2, <2>3, BecomesIs
  <2> QED
    BY <1>1, <2>1, <2>4, FoundSlice, SliceIs
    DEF Session!Starts, Session!Becomes, Bt, Slice, Of
<1>4. ASSUME FindsNone, entry' = [entry EXCEPT !.status = "ERROR"]
      PROVE  Session!Fails(t)
  BY <1>1, <1>4, FailsSlice DEF FindsNone, TypeOK
<1>5. ASSUME NEW found \in Found, Takes(found, "on")
      PROVE  handle'.at = "on" /\ handle'.meta = found.h.meta /\ handle'.have = found.h.have
  BY <1>5, FoundIs DEF Takes, HandleType
<1>6. ASSUME NEW found \in Found,
             handle' = [found.h EXCEPT !.at = "on", !.saved = Data(found.h.have)]
      PROVE  handle'.at = "on" /\ handle'.meta = found.h.meta /\ handle'.have = found.h.have
  BY <1>6, FoundIs DEF HandleType
<1> QED
  BY <1>2, <1>3, <1>4, <1>5, <1>6 DEF Dispatch

LEMMA LeavesSlice ==
  ASSUME TypeOK, NEW t \in {"it"}, Sweep
  PROVE  Session!Leaves(t)
<1>1. PICK s, w : s = entry.status /\ w = Session!NoHandle
  OBVIOUS
<1>2. UNCHANGED entry /\ handle' = NoHandle /\ InSession /\ (entry.del \/ Whole(handle))
  BY DEF Sweep, Removes
<1>3. Session!Becomes(t, s, w)
  BY <1>1, <1>2, NoHandleSlice, BecomesIs
<1> QED
  BY <1>1, <1>2, <1>3, SliceIs DEF Session!Leaves, Bt, Slice, Of

LEMMA RestartSlice == ASSUME TypeOK, Restart PROVE Session!Restarts
<1>1. handle' = NoHandle
  BY DEF Restart, Removes
<1>2. entry'.status = (IF Known THEN "QUEUED" ELSE "absent") /\ entry'.del = FALSE
  BY DEF Restart, TypeOK, Absent, Entry
<1>3. Slice' = [status |-> IF Known THEN "QUEUED" ELSE "absent", del |-> FALSE,
                handle |-> Session!NoHandle]
  BY <1>1, <1>2, NoHandleSlice DEF Slice
<1>4. Bt' = [t \in {"it"} |->
               [status |-> IF Session!Known(t) THEN "QUEUED" ELSE "absent", del |-> FALSE,
                handle |-> Session!NoHandle]]
  BY <1>3, SliceIs DEF Bt
<1> QED
  BY <1>4 DEF Session!Restarts, Bt, Slice, Of

\* libtorrent may have all of the torrent now, which is not told yet.
LEMMA LibtorrentSlice ==
  ASSUME TypeOK, NEW t \in {"it"}, Libtorrent \/ RequestResume
  PROVE  Session!Completes(t) \/ UNCHANGED Bt
<1>1. UNCHANGED entry /\ handle'.at = handle.at
  BY DEF Libtorrent, ReceivesMetadata, ChecksPiece, DownloadsPiece, MovesStorage,
     SessionFails, RequestResume, Apart, TypeOK
<1>2. CASE Whole(handle)' <=> Whole(handle)
  BY <1>1, <1>2, SliceSame
<1>3. CASE ~(Whole(handle)' <=> Whole(handle))
  <2>1. ReceivesMetadata \/ ChecksPiece \/ DownloadsPiece
    <3>1. CASE MovesStorage \/ SessionFails \/ RequestResume
      <4>1. handle'.meta = handle.meta /\ handle'.have = handle.have
        BY <3>1 DEF MovesStorage, SessionFails, RequestResume, TypeOK
      <4> QED
        BY <1>3, <4>1, WholeIs
    <3> QED
      BY <3>1 DEF Libtorrent
  <2>2. Whole(handle') = TRUE
    <3>1. CASE ReceivesMetadata
      <4>1. handle'.have = handle.have /\ handle'.meta = TRUE
        BY <3>1 DEF ReceivesMetadata, TypeOK
      <4> QED
        BY <1>3, <4>1 DEF Whole
    <3>2. CASE ChecksPiece \/ DownloadsPiece
      <4>1. PICK p \in Pieces : handle' = [handle EXCEPT !.have = @ \cup {p}]
        BY <3>2 DEF ChecksPiece, DownloadsPiece, TypeOK
      <4>2. /\ handle'.meta = handle.meta /\ handle'.have = handle.have \cup {p}
            /\ handle.have \subseteq Pieces
        BY <4>1 DEF TypeOK
      <4> QED
        BY <1>3, <4>1, <4>2 DEF Whole
    <3> QED
      BY <2>1, <3>1, <3>2
  <2>3. InSession
    BY <2>1 DEF ReceivesMetadata, ChecksPiece, DownloadsPiece, InSession
  <2>4. PICK s, w : s = entry.status /\ w = [at |-> handle.at, whole |-> TRUE]
    OBVIOUS
  <2>5. w = Of(handle')
    BY <1>1, <2>2, <2>4 DEF Of
  <2>6. Session!Becomes(t, s, w)
    BY <1>1, <2>4, <2>5, BecomesIs
  <2>7. s = Bt[t].status /\ w = [at |-> Bt[t].handle.at, whole |-> TRUE]
    BY <2>4, SliceIs
  <2>8. Session!Completes(t)
    BY <2>3, <2>6, <2>7, SliceIs DEF Session!Completes, Bt, Slice, Of
  <2> QED
    BY <2>8
<1> QED
  BY <1>2, <1>3

\* The alerts, which come late; what is told to be finished still is whole.
LEMMA AlertSlice ==
  ASSUME TypeOK, PiecesInv, OutInv, WholeInv, NEW t \in {"it"}, HandleAlert
  PROVE  Session!Queues(t) \/ Session!Finishes(t) \/ Session!Fails(t) \/ UNCHANGED Bt
<1>1. ASSUME Parses PROVE Session!Queues(t) \/ UNCHANGED Bt
  <2>1. /\ handle'.at = handle.at
        /\ handle'.meta = handle.meta /\ handle'.have = handle.have
        /\ \/ entry'.status = entry.status /\ entry'.del = entry.del
           \/ Known /\ ~entry.del /\ entry'.status = "QUEUED" /\ entry'.del = entry.del
    BY <1>1 DEF Parses, TypeOK
  <2>2. Whole(handle)' = Whole(handle)
    BY <2>1 DEF Whole
  <2>3. CASE entry'.status = entry.status /\ entry'.del = entry.del
    BY <2>1, <2>2, <2>3, SliceSame
  <2>4. CASE Known /\ ~entry.del /\ entry'.status = "QUEUED" /\ entry'.del = entry.del
    <3>1. PICK s, w : s = "QUEUED" /\ w = Bt[t].handle
      OBVIOUS
    <3>2. w = Of(handle')
      BY <2>1, <2>2, <3>1, SliceIs DEF Of
    <3>3. Session!Becomes(t, s, w)
      BY <2>4, <3>1, <3>2, BecomesIs
    <3> QED
      BY <2>4, <3>1, <3>3, SliceIs DEF Session!Queues, Session!Becomes, Bt, Slice, Of
  <2> QED
    BY <2>1, <2>3, <2>4
<1>2. ASSUME UNCHANGED <<entry, handle>> PROVE UNCHANGED Bt
  BY <1>2 DEF Bt, Slice, Of, Whole
<1>3. CASE HandlesAdded \/ HandlesMetadata \/ HandlesMoved
  BY <1>1, <1>2, <1>3 DEF HandlesAdded, HandlesMetadata, HandlesMoved
<1>4. CASE HandlesPiece \/ HandlesFile
  <2>1. UNCHANGED handle /\ entry'.status = entry.status /\ entry'.del = entry.del
    BY <1>4 DEF HandlesPiece, HandlesFile, Updates, TypeOK
  <2> QED
    BY <2>1, SliceSame
<1>5. CASE HandlesFinished
  <2>1. UNCHANGED handle
    BY <1>5 DEF HandlesFinished
  <2>2. CASE ~Known
    BY <1>2, <1>5, <2>1, <2>2 DEF HandlesFinished, Says
  <2>3. CASE Known
    <3>1. Whole(handle)
      <4>1. Head(alerts).type = "finished" /\ alerts # <<>>
        BY <1>5 DEF HandlesFinished, Handles
      <4>2. alerts \notin Seq(Unfinished)
        BY <4>1, HeadTailProperties DEF Unfinished
      <4> QED
        BY <4>2 DEF WholeInv
    <3>2. entry'.status = "COMPLETED" /\ entry'.del = entry.del
      BY <1>5, <2>3 DEF HandlesFinished, Says, TypeOK
    <3>3. PICK s, w : s = "COMPLETED" /\ w = Bt[t].handle
      OBVIOUS
    <3>4. Session!Becomes(t, s, w)
      BY <2>1, <3>2, <3>3, BecomesIs, SliceIs
    <3> QED
      BY <2>3, <3>1, <3>3, <3>4, SliceIs
      DEF Session!Finishes, Session!Becomes, Bt, Slice, Of
  <2> QED
    BY <2>2, <2>3
<1>6. CASE HandlesError
  <2>1. CASE ~Known
    BY <1>2, <1>6, <2>1 DEF HandlesError, Says
  <2>2. CASE Known
    BY <1>6, <2>2, FailsSlice DEF HandlesError, Says, TypeOK
  <2> QED
    BY <2>1, <2>2
<1>7. CASE HandlesResume
  <2>1. /\ UNCHANGED entry
        /\ handle'.at = handle.at
        /\ handle'.meta = handle.meta /\ handle'.have = handle.have
    BY <1>7 DEF HandlesResume, TypeOK
  <2> QED
    BY <2>1, WholeIs, SliceSame
<1> QED
  BY <1>3, <1>4, <1>5, <1>6, <1>7 DEF HandleAlert

\* The engine does to a torrent nothing but what BtSession has it do, so what
\* TaskScheduler counts on it for is so: a handle that a call has brought back
\* stays held until its task is admitted, only what is whole completes, although
\* the alerts that say so come late, and nothing that is deleted is queued anew.
THEOREM EngineKeepsSession == Spec => SessionSpec
<1>1. Init => Session!Init /\ OutInv /\ WholeInv
  <2> SUFFICES ASSUME Init PROVE Session!Init /\ OutInv /\ WholeInv
    OBVIOUS
  <2>1. entry.status = "absent" /\ entry.del = FALSE /\ handle = NoHandle /\ alerts = <<>>
    BY DEF Init, Absent, Entry
  <2>2. Slice \in [status : {"absent", "QUEUED"}, del : {FALSE},
                   handle : {Session!NoHandle}]
    BY <2>1, NoHandleSlice DEF Slice
  <2>3. Session!Init
    BY <2>2 DEF Session!Init, Slice, Of
  <2> QED
    BY <2>1, <2>3, EmptySeq DEF OutInv, WholeInv
<1>2. IInv /\ OutInv /\ WholeInv /\ [Next]_vars => OutInv' /\ WholeInv'
  BY OutStep, WholeStep DEF IInv, TruthInv
<1>3. IInv /\ OutInv /\ WholeInv /\ [Next]_vars => [Session!Next]_Bt
  <2> SUFFICES ASSUME IInv, OutInv, WholeInv, [Next]_vars
               PROVE  Session!Next \/ UNCHANGED Bt
    OBVIOUS
  <2>1. TypeOK /\ PiecesInv
    BY DEF IInv, TruthInv
  <2>2. PICK t : t \in {"it"}
    OBVIOUS
  <2>3. CASE AddTask \/ ResumeTask \/ PauseTask \/ DeleteTask
    BY <2>1, <2>2, <2>3, AddTaskSlice, CallSlices DEF Session!Next
  <2>4. CASE Restart
    BY <2>1, <2>4, RestartSlice DEF Session!Next
  <2>5. CASE Dispatch
    BY <2>1, <2>2, <2>5, DispatchSlice DEF Session!Next
  <2>6. CASE Sweep
    BY <2>1, <2>2, <2>6, LeavesSlice DEF Session!Next
  <2>7. CASE Libtorrent \/ RequestResume
    BY <2>1, <2>2, <2>7, LibtorrentSlice DEF Session!Next
  <2>8. CASE HandleAlert
    BY <2>1, <2>2, <2>8, AlertSlice DEF Session!Next
  <2>9. CASE UNCHANGED vars
    BY <2>9, SliceSame DEF vars
  <2> QED
    BY <2>3, <2>4, <2>5, <2>6, <2>7, <2>8, <2>9 DEF Next, Called
<1> QED
  BY <1>1, <1>2, <1>3, Invariant, PTL DEF Spec, SessionSpec, Session!Spec, Bt, Slice, Of

-----------------------------------------------------------------------------
(* Resume data.                                                            *)

\* Alerts that bring no resume data, and what the last ones that are pending bring.
Silent == {a \in AlertType : a.type # "resume"}
LastAsked(s, have) ==
  \E i \in 1..Len(s) :
    /\ s[i].type = "resume" /\ s[i].what = have
    /\ \A j \in i + 1..Len(s) : s[j].type # "resume"

\* What libtorrent has last given is pending, or it is in the database, or it has
\* got lost as the entry is being deleted or the row could not be written.
SavedInv ==
  IF handle.saved = {} THEN alerts \in Seq(Silent)
  ELSE \/ \E have : LastAsked(alerts, have) /\ handle.saved = Data(have)
       \/ /\ alerts \in Seq(Silent)
          /\ entry.del \/ handle.missed \/ db.resume = handle.saved

LEMMA PlainSilent ==
  /\ \A type \in {"added", "metadata", "moved", "finished", "error"} :
       Alert(type, {}) \in Silent
  /\ \A what \in SUBSET Pieces : Alert("piece", what) \in Silent
BY DEF Alert, Silent, AlertType

LEMMA LastStays ==
  ASSUME NEW s \in Seq(AlertType), NEW t \in Seq(Silent), NEW have, LastAsked(s, have)
  PROVE  LastAsked(s \o t, have)
<1>1. t \in Seq(AlertType)
  BY SeqMonotonic DEF Silent
<1>2. Len(s) \in Nat /\ Len(t) \in Nat /\ Len(s \o t) = Len(s) + Len(t)
  BY <1>1, ConcatProperties, LenProperties
<1>3. \A i \in 1..Len(s) + Len(t) :
        (s \o t)[i] = IF i <= Len(s) THEN s[i] ELSE t[i - Len(s)]
  BY <1>1, ConcatProperties
<1>4. \A i \in 1..Len(t) : t[i].type # "resume"
  BY ElementOfSeq DEF Silent
<1>5. PICK i \in 1..Len(s) :
        /\ s[i].type = "resume" /\ s[i].what = have
        /\ \A j \in i + 1..Len(s) : s[j].type # "resume"
  BY DEF LastAsked
<1>6. i \in 1..Len(s \o t) /\ (s \o t)[i] = s[i]
  BY <1>2, <1>3
<1>7. ASSUME NEW j \in i + 1..Len(s \o t) PROVE (s \o t)[j].type # "resume"
  <2>1. CASE j <= Len(s)
    <3>1. j \in i + 1..Len(s) /\ (s \o t)[j] = s[j]
      BY <1>2, <1>3, <2>1
    <3> QED
      BY <1>5, <3>1
  <2>2. CASE ~(j <= Len(s))
    <3>1. j - Len(s) \in 1..Len(t) /\ (s \o t)[j] = t[j - Len(s)]
      BY <1>2, <1>3, <2>2
    <3> QED
      BY <1>4, <3>1
  <2> QED
    BY <2>1, <2>2
<1> QED
  BY <1>5, <1>6, <1>7 DEF LastAsked

LEMMA LastNew ==
  ASSUME NEW s \in Seq(AlertType), NEW have \in SUBSET Pieces
  PROVE  LastAsked(Append(s, Alert("resume", have)), have)
<1> DEFINE a == Alert("resume", have)
           n == Len(s) + 1
<1>1. a \in AlertType /\ a.type = "resume" /\ a.what = have
  BY DEF Alert, AlertType
<1> HIDE DEF a
<1>2. Len(s) \in Nat /\ Len(Append(s, a)) = n /\ Append(s, a)[n] = a
  BY <1>1, AppendProperties, LenProperties
<1>3. n \in 1..n /\ \A j \in n + 1..n : FALSE
  BY <1>2
<1> QED
  BY <1>1, <1>2, <1>3 DEF LastAsked, a

LEMMA LastTail ==
  ASSUME NEW s \in Seq(AlertType), s # <<>>, NEW have, LastAsked(s, have)
  PROVE  \/ LastAsked(Tail(s), have)
         \/ /\ Head(s).type = "resume" /\ Head(s).what = have
            /\ Tail(s) \in Seq(Silent)
<1>1. /\ Tail(s) \in Seq(AlertType) /\ Len(Tail(s)) = Len(s) - 1 /\ Len(s) \in Nat
      /\ \A i \in 1..Len(Tail(s)) : Tail(s)[i] = s[i + 1]
  BY HeadTailProperties, LenProperties
<1>2. PICK i \in 1..Len(s) :
        /\ s[i].type = "resume" /\ s[i].what = have
        /\ \A j \in i + 1..Len(s) : s[j].type # "resume"
  BY DEF LastAsked
<1>3. CASE i = 1
  <2>1. Head(s) = s[1]
    OBVIOUS
  <2>2. ASSUME NEW j \in 1..Len(Tail(s)) PROVE Tail(s)[j] \in Silent
    <3>1. Tail(s)[j] \in AlertType
      BY <1>1, ElementOfSeq
    <3>2. j + 1 \in i + 1..Len(s)
      BY <1>1, <1>3
    <3> QED
      BY <1>1, <1>2, <3>1, <3>2 DEF Silent
  <2>3. Tail(s) \in Seq(Silent)
    <3>1. Tail(s) \in [1..Len(Tail(s)) -> Silent]
      BY <1>1, <2>2, LenProperties
    <3>2. PICK n \in Nat : n = Len(Tail(s))
      BY <1>1, LenProperties
    <3>3. [1..n -> Silent] \subseteq Seq(Silent)
      OBVIOUS
    <3> QED
      BY <3>1, <3>2, <3>3
  <2> QED
    BY <1>2, <1>3, <2>1, <2>3
<1>4. CASE i # 1
  <2>1. i - 1 \in 1..Len(Tail(s)) /\ Tail(s)[i - 1] = s[i]
    BY <1>1, <1>4
  <2>2. ASSUME NEW j \in i - 1 + 1..Len(Tail(s)) PROVE Tail(s)[j].type # "resume"
    <3>1. j \in 1..Len(Tail(s)) /\ j + 1 \in i + 1..Len(s)
      BY <1>1
    <3> QED
      BY <1>1, <1>2, <3>1
  <2> QED
    BY <1>2, <2>1, <2>2 DEF LastAsked
<1> QED
  BY <1>3, <1>4

\* A step that gives no resume data and saves none.
LEMMA SavedFrame ==
  ASSUME TypeOK, SavedInv, NEW new \in Seq(Silent), alerts' = alerts \o new,
         handle'.saved = handle.saved, handle'.missed = handle.missed,
         db'.resume = db.resume, entry'.del = entry.del
  PROVE  SavedInv'
<1>1. alerts \in Seq(AlertType)
  BY DEF TypeOK
<1>2. alerts \in Seq(Silent) => alerts' \in Seq(Silent)
  BY ConcatProperties
<1>3. \A have : LastAsked(alerts, have) => LastAsked(alerts', have)
  BY <1>1, LastStays
<1> QED
  BY <1>2, <1>3 DEF SavedInv

LEMMA SavedSame ==
  ASSUME SavedInv, alerts' = alerts,
         handle'.saved = handle.saved, handle'.missed = handle.missed,
         db'.resume = db.resume, entry'.del = entry.del
  PROVE  SavedInv'
BY DEF SavedInv

\* A step that gives resume data.
LEMMA SavedAsks ==
  ASSUME NEW s \in Seq(AlertType), NEW have \in SUBSET Pieces,
         alerts' = Append(s, Alert("resume", have)), handle'.saved = Data(have)
  PROVE  SavedInv'
<1>1. LastAsked(alerts', have)
  BY LastNew
<1>2. handle'.saved # {}
  BY DEF Data
<1> QED
  BY <1>1, <1>2 DEF SavedInv

LEMMA SavedNot == ASSUME Removes PROVE SavedInv'
BY EmptySeq DEF Removes, NoHandle, SavedInv

\* Handling an alert that brings none.
LEMMA SavedPast ==
  ASSUME TypeOK, SavedInv, alerts # <<>>, alerts' = Tail(alerts),
         Head(alerts).type # "resume",
         handle'.saved = handle.saved, handle'.missed = handle.missed,
         db'.resume = db.resume, entry'.del = entry.del
  PROVE  SavedInv'
<1>1. alerts \in Seq(AlertType)
  BY DEF TypeOK
<1>2. alerts \in Seq(Silent) => alerts' \in Seq(Silent)
  BY HeadTailProperties
<1>3. \A have : LastAsked(alerts, have) => LastAsked(alerts', have)
  BY <1>1, LastTail
<1> QED
  BY <1>2, <1>3 DEF SavedInv

LEMMA FoundSaved ==
  ASSUME TypeOK, OutInv, NEW found \in Found
  PROVE  /\ found.h.saved = handle.saved /\ found.h.missed = handle.missed
         /\ found.new \in Seq(Silent)
<1>1. CASE InSession
  <2>1. found = [h |-> handle, new |-> <<>>]
    BY <1>1 DEF Found
  <2> QED
    BY <2>1, EmptySeq
<1>2. CASE ~InSession
  <2>1. PICK meta \in BOOLEAN :
          found = [h |-> Rebuilt(meta),
                   new |-> <<Alert("added", {})>> \o
                           (IF Whole(Rebuilt(meta)) THEN <<Alert("finished", {})>> ELSE <<>>)]
    BY <1>2 DEF Found
  <2>2. Rebuilt(meta).saved = NoHandle.saved /\ Rebuilt(meta).missed = NoHandle.missed
    BY DEF Rebuilt, NoHandle
  <2>3. /\ <<Alert("added", {})>> \in Seq(Silent)
        /\ (IF Whole(Rebuilt(meta)) THEN <<Alert("finished", {})>> ELSE <<>>) \in Seq(Silent)
    BY PlainSilent, OneOf, EmptySeq
  <2>4. found.new \in Seq(Silent)
    BY <2>1, <2>3, ConcatProperties
  <2> QED
    BY <1>2, <2>1, <2>2, <2>4 DEF OutInv
<1> QED
  BY <1>1, <1>2

LEMMA PostsSilent ==
  ASSUME NEW posted \in Seq(Silent), Posts(posted)
  PROVE  \E new \in Seq(Silent) : alerts' = alerts \o new
<1>1. CASE \E n \in 0..Len(posted) - 1 : alerts' = alerts \o SubSeq(posted, 1, n)
  <2>1. PICK n \in 0..Len(posted) - 1 : alerts' = alerts \o SubSeq(posted, 1, n)
    BY <1>1
  <2>2. Len(posted) \in Nat
    BY LenProperties
  <2>3. n \in Int /\ \A i \in 1..n : i \in 1..Len(posted)
    BY <2>1, <2>2
  <2>4. \A i \in 1..n : posted[i] \in Silent
    BY <2>3, ElementOfSeq
  <2>5. SubSeq(posted, 1, n) \in Seq(Silent)
    BY <2>3, <2>4, SubSeqProperties
  <2> QED
    BY <2>1, <2>5
<1> QED
  BY <1>1 DEF Posts

LEMMA FileAlertsSilent ==
  ASSUME NEW p \in Pieces, NEW files \in FileAlerts(p)
  PROVE  files \in Seq(Silent)
<1>1. PICK order \in [1..Cardinality(Completed(p)) -> Completed(p)] :
        files = [i \in DOMAIN order |-> Alert("file", {order[i]})]
  BY DEF FileAlerts
<1>2. Cardinality(Completed(p)) \in Nat
  <2>1. Completed(p) \in SUBSET Files
    BY DEF Completed
  <2> QED
    BY <2>1, Constants, FS_Subset, FS_CardinalityType
<1>3. \A f \in Completed(p) : Alert("file", {f}) \in Silent
  BY DEF Completed, Alert, Silent, AlertType
<1>4. files \in [1..Cardinality(Completed(p)) -> Silent]
  BY <1>1, <1>3
<1> QED
  BY <1>2, <1>4

LEMMA CallsSave ==
  ASSUME TypeOK, PiecesInv, OutInv, SavedInv, Called \/ Dispatch \/ Sweep PROVE SavedInv'
<1>1. ASSUME NEW found \in Found, NEW at, Takes(found, at),
             db'.resume = db.resume, entry'.del = entry.del
      PROVE  SavedInv'
  <2>1. handle'.saved = handle.saved /\ handle'.missed = handle.missed
    BY <1>1, FoundIs, FoundSaved DEF Takes, HandleType
  <2> QED
    BY <1>1, <2>1, FoundSaved, SavedFrame DEF Takes
<1>2. ASSUME FindsNone, db'.resume = db.resume, entry'.del = entry.del PROVE SavedInv'
  <2>1. CASE alerts' = alerts
    BY <1>2, <2>1, SavedSame DEF FindsNone
  <2>2. CASE alerts' = Append(alerts, Alert("error", {}))
    <3>1. alerts' = alerts \o <<Alert("error", {})>>
      BY <2>2, PlainAlerts, AppendIsConcat DEF TypeOK
    <3>2. <<Alert("error", {})>> \in Seq(Silent)
      BY PlainSilent, OneOf
    <3> QED
      BY <1>2, <3>1, <3>2, SavedFrame DEF FindsNone
  <2> QED
    BY <1>2, <2>1, <2>2 DEF FindsNone
<1>3. CASE AddTask
  <2>1. db'.resume = db.resume
    BY <1>3 DEF AddTask, TypeOK
  <2>2. entry'.del = entry.del
    <3>1. PICK e : e = IF Known THEN entry ELSE Entry("RESOLVING", NoFiles)
      OBVIOUS
    <3>2. e.del = entry.del /\ [e EXCEPT !.status = "ERROR"].del = entry.del
      BY <1>3, <3>1 DEF AddTask, Entry, TypeOK
    <3>3. entry' = e \/ entry' = [e EXCEPT !.status = "ERROR"]
      BY <1>3, <3>1 DEF AddTask
    <3> QED
      BY <3>2, <3>3
  <2> QED
    BY <1>1, <1>2, <1>3, <2>1, <2>2 DEF AddTask
<1>4. CASE PauseTask
  <2>1. UNCHANGED db /\ entry'.del = entry.del
    BY <1>4 DEF PauseTask, TypeOK
  <2> QED
    BY <1>1, <1>2, <1>4, <2>1 DEF PauseTask
<1>5. CASE ResumeTask
  <2>1. UNCHANGED <<db, handle, alerts>> /\ entry'.del = entry.del
    BY <1>5 DEF ResumeTask, TypeOK
  <2> QED
    BY <2>1, SavedSame
<1>6. CASE DeleteTask \/ Restart \/ Sweep
  BY <1>6, SavedNot DEF DeleteTask, Restart, Sweep
<1>7. CASE Dispatch
  <2>1. UNCHANGED db /\ entry'.del = entry.del
    BY <1>7 DEF Dispatch, TypeOK
  <2>2. ASSUME NEW found \in Found,
               handle' = [found.h EXCEPT !.at = "on", !.saved = Data(found.h.have)],
               alerts' = alerts \o found.new \o <<Alert("resume", found.h.have)>>
        PROVE  SavedInv'
    <3>1. found.h.have \in SUBSET Pieces /\ handle'.saved = Data(found.h.have)
      BY <2>2, FoundIs DEF HandleType
    <3>2. alerts \o found.new \in Seq(AlertType)
      <4>1. found.new \in Seq(AlertType)
        BY FoundSaved, SeqMonotonic DEF Silent
      <4> QED
        BY <4>1, ConcatProperties DEF TypeOK
    <3>3. Alert("resume", found.h.have) \in AlertType
      BY <3>1 DEF Alert, AlertType
    <3>4. alerts' = Append(alerts \o found.new, Alert("resume", found.h.have))
      BY <2>2, <3>2, <3>3, AppendIsConcat
    <3> QED
      BY <3>1, <3>2, <3>4, SavedAsks
  <2> QED
    BY <1>1, <1>2, <1>7, <2>1, <2>2 DEF Dispatch
<1> QED
  BY <1>3, <1>4, <1>5, <1>6, <1>7 DEF Called

LEMMA LibtorrentSaves ==
  ASSUME TypeOK, PiecesInv, SavedInv, Libtorrent \/ RequestResume PROVE SavedInv'
<1>1. CASE Libtorrent
  <2>1. /\ UNCHANGED <<entry, db>>
        /\ handle'.saved = handle.saved /\ handle'.missed = handle.missed
    BY <1>1 DEF Libtorrent, ReceivesMetadata, ChecksPiece, DownloadsPiece, MovesStorage,
       SessionFails, Apart, TypeOK
  <2>2. \E new \in Seq(Silent) : alerts' = alerts \o new
    <3>1. CASE ReceivesMetadata
      <4>1. <<Alert("metadata", {})>> \in Seq(Silent)
        BY PlainSilent, OneOf
      <4> QED
        BY <3>1, <4>1, PostsSilent DEF ReceivesMetadata
    <3>2. CASE ChecksPiece
      <4>1. /\ <<Alert("finished", {})>> \in Seq(Silent)
            /\ <<>> \in Seq(Silent)
        BY PlainSilent, OneOf, EmptySeq
      <4> QED
        BY <3>2, <4>1, PostsSilent DEF ChecksPiece
    <3>3. CASE DownloadsPiece
      <4>a. PICK p \in Pieces : \E files \in FileAlerts(p) :
              Posts(<<Alert("piece", {p})>> \o files \o
                    (IF Whole(handle') THEN <<Alert("finished", {})>> ELSE <<>>))
        BY <3>3 DEF DownloadsPiece
      <4>1. PICK files \in FileAlerts(p) :
              Posts(<<Alert("piece", {p})>> \o files \o
                    (IF Whole(handle') THEN <<Alert("finished", {})>> ELSE <<>>))
        BY <4>a
      <4>2. /\ <<Alert("piece", {p})>> \in Seq(Silent)
            /\ (IF Whole(handle') THEN <<Alert("finished", {})>> ELSE <<>>) \in Seq(Silent)
            /\ files \in Seq(Silent)
        BY PlainSilent, OneOf, EmptySeq, FileAlertsSilent
      <4>3. <<Alert("piece", {p})>> \o files \in Seq(Silent)
        BY <4>2, ConcatProperties
      <4>4. <<Alert("piece", {p})>> \o files \o
              (IF Whole(handle') THEN <<Alert("finished", {})>> ELSE <<>>) \in Seq(Silent)
        BY <4>2, <4>3, ConcatProperties
      <4> QED
        BY <4>1, <4>4, PostsSilent
    <3>4. CASE MovesStorage \/ SessionFails
      <4>1. PICK a \in Silent : alerts' = Append(alerts, a)
        BY <3>4, PlainSilent DEF MovesStorage, SessionFails
      <4>2. alerts' = alerts \o <<a>> /\ <<a>> \in Seq(Silent)
        BY <4>1, AppendIsConcat, OneOf DEF TypeOK, Silent
      <4> QED
        BY <4>2
    <3> QED
      BY <1>1, <3>1, <3>2, <3>3, <3>4 DEF Libtorrent
  <2> QED
    BY <2>1, <2>2, SavedFrame
<1>2. CASE RequestResume
  <2>1. alerts \in Seq(AlertType) /\ handle.have \in SUBSET Pieces
        /\ handle'.saved = Data(handle.have)
    BY <1>2 DEF RequestResume, TypeOK
  <2> QED
    BY <1>2, <2>1, SavedAsks DEF RequestResume
<1> QED
  BY <1>1, <1>2

LEMMA AlertsSave ==
  ASSUME TypeOK, SavedInv, HandleAlert PROVE SavedInv'
<1>1. alerts # <<>> /\ alerts' = Tail(alerts) /\ alerts \in Seq(AlertType)
  BY DEF HandleAlert, HandlesAdded, HandlesMetadata, HandlesMoved, HandlesPiece,
     HandlesFile, HandlesFinished, HandlesError, HandlesResume, Handles, TypeOK
<1>2. ASSUME Parses
      PROVE  /\ handle'.saved = handle.saved /\ handle'.missed = handle.missed
             /\ db'.resume = db.resume /\ entry'.del = entry.del
  BY <1>2 DEF Parses, TypeOK
<1>3. CASE HandlesAdded \/ HandlesMetadata \/ HandlesMoved
  <2>1. Head(alerts).type # "resume" /\ (Parses \/ UNCHANGED <<entry, db, handle>>)
    BY <1>3 DEF HandlesAdded, HandlesMetadata, HandlesMoved, Handles
  <2> QED
    BY <1>1, <1>2, <2>1, SavedPast
<1>4. CASE HandlesPiece \/ HandlesFile \/ HandlesFinished \/ HandlesError
  <2>1. /\ Head(alerts).type # "resume" /\ UNCHANGED <<db, handle>>
        /\ entry'.del = entry.del
    BY <1>4 DEF HandlesPiece, HandlesFile, HandlesFinished, HandlesError, Handles,
       Updates, Says, TypeOK
  <2> QED
    BY <1>1, <2>1, SavedPast
<1>5. CASE HandlesResume
  <2>1. Head(alerts).type = "resume" /\ UNCHANGED entry
    BY <1>5 DEF HandlesResume, Handles
  <2>2. alerts \notin Seq(Silent)
    BY <1>1, <2>1, HeadTailProperties DEF Silent
  <2>3. handle.saved # {}
        /\ \E have : LastAsked(alerts, have) /\ handle.saved = Data(have)
    BY <2>2 DEF SavedInv
  <2>4. PICK have : LastAsked(alerts, have) /\ handle.saved = Data(have)
    BY <2>3
  <2>5. handle'.saved = handle.saved
    BY <1>5 DEF HandlesResume, TypeOK
  <2>6. CASE LastAsked(Tail(alerts), have)
    BY <1>1, <2>3, <2>4, <2>5, <2>6 DEF SavedInv
  <2>7. CASE /\ Head(alerts).what = have
             /\ Tail(alerts) \in Seq(Silent)
    <3>1. entry.del \/ handle'.missed \/ db'.resume = Data(have)
      BY <1>5, <2>7 DEF HandlesResume, TypeOK
    <3> QED
      BY <1>1, <2>1, <2>3, <2>4, <2>5, <2>7, <3>1 DEF SavedInv
  <2> QED
    BY <1>1, <2>4, <2>6, <2>7, LastTail
<1> QED
  BY <1>3, <1>4, <1>5 DEF HandleAlert

\* As long as a torrent is in the session, is not being deleted and no save of it has
\* failed, what it has and the database does not have is still to be asked for by
\* resume_loop or is what the last pending resume data are about: no order of calls,
\* alerts, failures and dropped alerts loses it.  It is what ProgressIsSaved rests on.
THEOREM ProgressIsOnItsWay ==
  Spec => [](/\ InSession /\ handle.meta /\ ~entry.del /\ ~handle.missed
             /\ db.resume # Data(handle.have)
             => handle.saved # Data(handle.have) \/ LastAsked(alerts, handle.have))
<1>1. Init => OutInv /\ SavedInv
  BY EmptySeq DEF Init, OutInv, SavedInv, NoHandle
<1>2. IInv /\ OutInv /\ SavedInv /\ [Next]_vars => OutInv' /\ SavedInv'
  <2> SUFFICES ASSUME IInv, OutInv, SavedInv, [Next]_vars PROVE OutInv' /\ SavedInv'
    OBVIOUS
  <2>1. TypeOK /\ PiecesInv
    BY DEF IInv, TruthInv
  <2>2. OutInv'
    BY <2>1, OutStep
  <2>3. CASE UNCHANGED vars
    BY <2>2, <2>3, SavedSame DEF vars
  <2>4. CASE Next
    BY <2>1, <2>2, <2>4, CallsSave, LibtorrentSaves, AlertsSave DEF Next
  <2> QED
    BY <2>3, <2>4
<1>3. SavedInv => (/\ InSession /\ handle.meta /\ ~entry.del /\ ~handle.missed
                   /\ db.resume # Data(handle.have)
                   => handle.saved # Data(handle.have) \/ LastAsked(alerts, handle.have))
  BY DEF SavedInv, Data
<1> QED
  BY <1>1, <1>2, <1>3, Invariant, PTL DEF Spec

-----------------------------------------------------------------------------
(* Induction.  The provers cannot instantiate a theorem with a predicate,  *)
(* but they can with a set.                                                *)

LEMMA LeastNumber ==
  ASSUME NEW S, S \subseteq Nat, S # {}
  PROVE  \E m \in S : \A n \in S : m <= n
<1>1. \E m \in S : \A n \in S : ~(n < m)
  <2>1. PICK m \in S : \A n \in S : ~(<<n, m>> \in OpToRel(<, Nat))
    BY NatLessThanWellFounded, WFMin
  <2>2. ASSUME NEW n \in S, n < m PROVE FALSE
    <3>1. <<n, m>> \in OpToRel(<, Nat)
      BY <2>2 DEF OpToRel
    <3> QED
      BY <2>1, <3>1
  <2> QED
    BY <2>2
<1> QED
  BY <1>1

LEMMA InductionUpTo ==
  ASSUME NEW S, NEW low \in Int, NEW high \in Int, low <= high,
         low \in S,
         \A p \in low + 1..high : p - 1 \in S => p \in S
  PROVE  high \in S
<1> SUFFICES ASSUME high \notin S PROVE FALSE
  OBVIOUS
<1> DEFINE Out == {k \in Nat : low + k <= high /\ low + k \notin S}
<1>1. high - low \in Out
  OBVIOUS
<1>2. PICK m \in Out : \A n \in Out : m <= n
  <2> HIDE DEF Out
  <2>1. Out \subseteq Nat
    BY DEF Out
  <2> QED
    BY <1>1, <2>1, LeastNumber
<1>3. m - 1 \in Nat /\ m - 1 \notin Out
  BY <1>2
<1> QED
  BY <1>2, <1>3

-----------------------------------------------------------------------------
(* The loop of handle_piece_finished.                                      *)

LEMMA TimesMonotonic ==
  ASSUME NEW a \in Nat, NEW c \in Nat, NEW b \in Nat \ {0}, a < c
  PROVE  a * b + b <= c * b
<1>1. PICK d \in Nat : c = a + 1 + d
  <2>1. c - a - 1 \in Nat /\ c = a + 1 + (c - a - 1)
    OBVIOUS
  <2> QED
    BY <2>1
<1>2. c * b = a * b + b + d * b
  BY <1>1, SMT
<1>3. d * b \in Nat /\ a * b \in Nat
  OBVIOUS
<1> QED
  BY <1>2, <1>3

LEMMA Quotient ==
  ASSUME NEW a \in Nat, NEW b \in Nat \ {0}
  PROVE  a \div b \in Nat /\ (a \div b) * b <= a /\ a < (a \div b) * b + b
BY SMT

LEMMA QuotientIs ==
  ASSUME NEW a \in Nat, NEW b \in Nat \ {0}, NEW q \in Nat
  PROVE  a \div b = q <=> q * b <= a /\ a < q * b + b
<1> DEFINE r == a \div b
<1>1. r \in Nat /\ r * b <= a /\ a < r * b + b
  BY Quotient
<1>2. q * b \in Nat /\ r * b \in Nat
  BY <1>1
<1> HIDE DEF r
<1>3. q < r => q * b + b <= r * b
  BY <1>1, TimesMonotonic
<1>4. r < q => r * b + b <= q * b
  BY <1>1, TimesMonotonic
<1>5. r = q <=> q * b <= a /\ a < q * b + b
  BY <1>1, <1>2, <1>3, <1>4
<1> QED
  BY <1>5 DEF r

\* A piece's part of a file, and that of a later piece.
LEMMA PieceInFile ==
  ASSUME NEW f \in Files, NEW p \in PiecesOf(f)
  PROVE  /\ p \in Nat /\ p >= FirstPiece(f) /\ p <= LastPiece(f) /\ Size[f] # 0
         /\ Start(f, p) \in Bytes(f) /\ Finish(f, p) \in Bytes(f)
         /\ Start(f, p) <= Finish(f, p)
         /\ \A b \in Bytes(f) :
              (First[f] + b) \div PieceLength = p <=> b \in Start(f, p)..Finish(f, p)
         /\ \A q \in PiecesOf(f) : q > p => Finish(f, p) < Start(f, q)
<1> DEFINE F == First[f]
           S == Size[f]
           L == PieceLength
<1>1. F \in Nat /\ S \in Nat /\ L \in Nat \ {0}
  BY Constants
<1>2. S # 0 /\ F + S - 1 \in Nat
  BY <1>1 DEF PiecesOf
<1>3. /\ FirstPiece(f) \in Nat /\ F < FirstPiece(f) * L + L
      /\ LastPiece(f) \in Nat /\ LastPiece(f) * L <= F + S - 1
  BY <1>1, <1>2, Quotient DEF FirstPiece, LastPiece
<1>4. ASSUME NEW q \in PiecesOf(f)
      PROVE  /\ q \in Nat /\ q >= FirstPiece(f) /\ q <= LastPiece(f)
             /\ q * L \in Nat /\ (q + 1) * L = q * L + L
             /\ q * L < F + S /\ F < q * L + L
  <2>1. q \in Nat /\ q >= FirstPiece(f) /\ q <= LastPiece(f)
    BY <1>2, <1>3 DEF PiecesOf
  <2>2. q * L \in Nat /\ (q + 1) * L = q * L + L
    BY <1>1, <2>1, SMT
  <2>3. /\ FirstPiece(f) * L \in Nat /\ LastPiece(f) * L \in Nat
        /\ q = LastPiece(f) \/ q * L + L <= LastPiece(f) * L
        /\ q = FirstPiece(f) \/ FirstPiece(f) * L + L <= q * L
    BY <1>1, <1>3, <2>1, TimesMonotonic
  <2> QED
    BY <1>1, <1>3, <2>1, <2>2, <2>3
<1>5. /\ Start(f, p) = IF p * L < F THEN 0 ELSE p * L - F
      /\ Finish(f, p) = IF p * L + L < F + S THEN p * L + L - 1 - F ELSE S - 1
  BY <1>1, <1>4 DEF Start, Finish
<1>6. /\ Start(f, p) \in 0..S - 1 /\ Finish(f, p) \in 0..S - 1
      /\ Start(f, p) <= Finish(f, p)
  <2> HIDE DEF F, S, L
  <2> QED
    BY <1>1, <1>2, <1>4, <1>5
<1>7. ASSUME NEW b \in Bytes(f)
      PROVE  (F + b) \div L = p <=> b \in Start(f, p)..Finish(f, p)
  <2>1. b \in 0..S - 1 /\ b \in Nat /\ F + b \in Nat
    BY <1>1, <1>2 DEF Bytes
  <2>2. (F + b) \div L = p <=> p * L <= F + b /\ F + b < p * L + L
    BY <1>1, <1>4, <2>1, QuotientIs
  <2> HIDE DEF F, S, L
  <2> QED
    BY <1>1, <1>2, <1>4, <1>5, <2>1, <2>2
<1>8. ASSUME NEW q \in PiecesOf(f), q > p
      PROVE  Finish(f, p) < Start(f, q)
  <2>1. Start(f, q) = IF q * L < F THEN 0 ELSE q * L - F
    BY <1>1, <1>4 DEF Start
  <2>2. p * L + L <= q * L
    BY <1>1, <1>4, <1>8, TimesMonotonic
  <2> HIDE DEF F, S, L
  <2> QED
    BY <1>1, <1>2, <1>4, <1>5, <2>1, <2>2
<1> QED
  BY <1>2, <1>4, <1>6, <1>7, <1>8 DEF Bytes

Intervals == Seq(Nat \X Nat)

LEMMA InCovered ==
  ASSUME NEW segs, NEW b
  PROVE  b \in Covered(segs) <=> \E i \in DOMAIN segs : b \in segs[i][1]..segs[i][2]
BY DEF Covered

LEMMA JoinsIs ==
  ASSUME NEW segs \in Intervals, NEW start \in Nat, NEW finish \in Nat
  PROVE  LET next == Joins(segs, start, finish)
             last == Len(segs)
         IN /\ next \in Intervals
            /\ IF segs # <<>> /\ segs[last][2] + 1 = start
               THEN /\ Len(next) = last
                    /\ \A i \in 1..last - 1 : next[i] = segs[i]
                    /\ next[last] = <<segs[last][1], finish>>
               ELSE /\ Len(next) = last + 1
                    /\ \A i \in 1..last : next[i] = segs[i]
                    /\ next[last + 1] = <<start, finish>>
<1> DEFINE next == Joins(segs, start, finish)
           last == Len(segs)
<1> USE DEF Intervals
<1>1. CASE segs # <<>> /\ segs[last][2] + 1 = start
  <2>1. last \in 1..Len(segs) /\ segs[last] \in Nat \X Nat
    BY <1>1
  <2>2. [segs[last] EXCEPT ![2] = finish] = <<segs[last][1], finish>>
    <3>1. PICK a, b \in Nat : segs[last] = <<a, b>>
      BY ONLY <2>1
    <3>2. [<<a, b>> EXCEPT ![2] = finish] = <<a, finish>>
      BY ONLY SMT
    <3> QED
      BY ONLY <3>1, <3>2
  <2>3. next = [segs EXCEPT ![last] = <<segs[last][1], finish>>]
    BY <1>1, <2>2 DEF Joins
  <2>4. /\ next \in Intervals /\ Len(next) = last
        /\ \A i \in 1..last : next[i] = IF i = last THEN <<segs[last][1], finish>>
                                         ELSE segs[i]
    <3>1. <<segs[last][1], finish>> \in Nat \X Nat
      BY <2>1
    <3> QED
      BY <2>1, <2>3, <3>1, ExceptSeq
  <2>5. 1..last - 1 \subseteq 1..last /\ last \in 1..last /\ last \notin 1..last - 1
    BY <2>1
  <2> QED
    BY <1>1, <2>4, <2>5
<1>2. CASE ~(segs # <<>> /\ segs[last][2] + 1 = start)
  <2>1. next = Append(segs, <<start, finish>>)
    BY <1>2 DEF Joins
  <2>2. /\ next \in Intervals /\ Len(next) = last + 1
        /\ \A i \in 1..last : next[i] = segs[i]
        /\ next[last + 1] = <<start, finish>>
    BY <2>1, AppendProperties
  <2> QED
    BY <1>2, <2>2
<1> QED
  BY <1>1, <1>2

\* What the loop has made of the pieces up to p.
RunsUpTo(f, have, p, segs) ==
  /\ segs \in Intervals
  /\ WellFormed(f, segs)
  /\ \A b \in Bytes(f) :
       b \in Covered(segs)
         <=> (First[f] + b) \div PieceLength \in have
             /\ (First[f] + b) \div PieceLength <= p
  /\ segs # <<>> => \A q \in PiecesOf(f) : q > p => segs[Len(segs)][2] < Start(f, q)

\* One round of the loop.
Round(f, have, p, segs) ==
  IF p \in have THEN Joins(segs, Start(f, p), Finish(f, p)) ELSE segs

LEMMA RoundKeepsRuns ==
  ASSUME NEW f \in Files, NEW have, NEW p \in PiecesOf(f), NEW segs,
         RunsUpTo(f, have, p - 1, segs)
  PROVE  RunsUpTo(f, have, p, Round(f, have, p, segs))
<1> DEFINE piece(b) == (First[f] + b) \div PieceLength
           start == Start(f, p)
           finish == Finish(f, p)
           last == Len(segs)
           next == Joins(segs, start, finish)
<1>1. /\ p \in Nat
      /\ start \in Bytes(f) /\ finish \in Bytes(f) /\ start <= finish
      /\ \A b \in Bytes(f) : piece(b) = p <=> b \in start..finish
      /\ \A q \in PiecesOf(f) : q > p => finish < Start(f, q)
  BY PieceInFile
<1>2. /\ Bytes(f) \subseteq Nat /\ PiecesOf(f) \subseteq Nat
      /\ \A b \in Bytes(f) : piece(b) \in Nat
  <2>1. \A b \in Bytes(f) : piece(b) \in PiecesOf(f)
    BY ByteInPiece
  <2> QED
    BY <2>1, PieceInFile, BytesCount
<1>3. \A b \in Bytes(f) : piece(b) <= p <=> piece(b) <= p - 1 \/ piece(b) = p
  BY <1>1, <1>2
<1>4. /\ segs \in Intervals /\ WellFormed(f, segs)
      /\ \A b \in Bytes(f) : b \in Covered(segs) <=> piece(b) \in have /\ piece(b) <= p - 1
      /\ segs # <<>> => \A q \in PiecesOf(f) : q > p - 1 => segs[last][2] < Start(f, q)
  BY DEF RunsUpTo
<1>5. /\ last \in Nat /\ DOMAIN segs = 1..last /\ (segs # <<>> => last \in 1..last)
      /\ \A i \in 1..last : segs[i][1] \in Nat /\ segs[i][2] \in Nat
  BY <1>4 DEF Intervals
<1>9. /\ \A i \in 1..last : segs[i][1] \in Nat /\ segs[i][2] \in Nat
      /\ \A i \in 1..last : segs[i][1] \in Bytes(f) /\ segs[i][2] \in Bytes(f)
      /\ \A i \in 1..last : segs[i][1] <= segs[i][2]
      /\ \A i \in 1..last - 1 : segs[i][2] + 1 < segs[i + 1][1]
  BY <1>4, <1>5 DEF WellFormed
<1>10. last \in Nat /\ (segs # <<>> => last \in 1..last) /\ (last # 0 => segs # <<>>)
  BY <1>4 DEF Intervals
<1>11. start \in Nat /\ finish \in Nat /\ start <= finish
  BY <1>1, <1>2
<1>6. segs # <<>> => segs[last][2] < start
  BY <1>1, <1>4
<1> HIDE DEF start, finish, next, piece
<1>7. CASE p \notin have
  <2>1. \A b \in Bytes(f) : b \in Covered(segs) <=> piece(b) \in have /\ piece(b) <= p
    BY <1>1, <1>3, <1>4, <1>7
  <2>2. segs # <<>> => \A q \in PiecesOf(f) : q > p => segs[last][2] < Start(f, q)
    BY <1>1, <1>2, <1>4
  <2> QED
    BY <1>4, <1>7, <2>1, <2>2 DEF RunsUpTo, Round, piece
<1>8. CASE p \in have
  <2>1. /\ next \in Intervals
        /\ IF segs # <<>> /\ segs[last][2] + 1 = start
           THEN /\ Len(next) = last
                /\ \A i \in 1..last - 1 : next[i] = segs[i]
                /\ next[last] = <<segs[last][1], finish>>
           ELSE /\ Len(next) = last + 1
                /\ \A i \in 1..last : next[i] = segs[i]
                /\ next[last + 1] = <<start, finish>>
    BY <1>1, <1>2, <1>4, JoinsIs DEF next, start, finish
  <2>2. DOMAIN next = 1..Len(next) /\ Len(next) \in Nat
    BY <2>1 DEF Intervals
  <2>3. ASSUME segs # <<>> /\ segs[last][2] + 1 = start
        PROVE  /\ WellFormed(f, next)
               /\ \A b \in Bytes(f) :
                    b \in Covered(next) <=> b \in Covered(segs) \/ b \in start..finish
    <3>1. /\ DOMAIN next = 1..last /\ last \in 1..last
          /\ \A i \in 1..last : /\ next[i][1] = segs[i][1]
                                /\ next[i][2] = IF i = last THEN finish ELSE segs[i][2]
      <4>1. \A i \in 1..last : i = last \/ i \in 1..last - 1
        BY <1>10
      <4>2. DOMAIN next = 1..last /\ last \in 1..last
        BY <1>10, <2>1, <2>2, <2>3
      <4>3. ASSUME NEW i \in 1..last - 1
            PROVE  i \in 1..last /\ i # last /\ next[i] = segs[i]
        BY <1>10, <2>1, <2>3
      <4>4. next[last][1] = segs[last][1] /\ next[last][2] = finish
        BY <2>1, <2>3
      <4> QED
        BY <4>1, <4>2, <4>3, <4>4
    <3>2. segs[last][1] <= finish /\ segs[last][1] <= segs[last][2]
      BY <1>6, <1>9, <1>11, <3>1
    <3>3. WellFormed(f, next)
      <4>1. ASSUME NEW i \in 1..last
            PROVE  /\ next[i][1] \in Bytes(f) /\ next[i][2] \in Bytes(f)
                   /\ next[i][1] <= next[i][2]
        BY <1>1, <1>9, <3>1, <3>2
      <4>2. ASSUME NEW i \in 1..last - 1
            PROVE  next[i][2] + 1 < next[i + 1][1]
        <5>1. i \in 1..last /\ i + 1 \in 1..last /\ i # last
          BY <1>10
        <5> QED
          BY <1>9, <3>1, <5>1
      <4> QED
        <5>1. Len(next) = last
          BY <2>1, <2>3
        <5> QED
          BY <3>1, <4>1, <4>2, <5>1 DEF WellFormed
    <3>4. ASSUME NEW b \in Bytes(f)
          PROVE  b \in Covered(next) <=> b \in Covered(segs) \/ b \in start..finish
      <4>1. b \in Nat
        BY <1>2
      <4>2. b \in next[last][1]..next[last][2]
              <=> b \in segs[last][1]..segs[last][2] \/ b \in start..finish
        BY <1>9, <1>11, <2>3, <3>1, <3>2, <4>1
      <4> QED
        <5>1. \A i \in 1..last : i # last =>
                next[i][1]..next[i][2] = segs[i][1]..segs[i][2]
          BY <3>1
        <5>2. b \in Covered(segs) <=> \E i \in 1..last : b \in segs[i][1]..segs[i][2]
          BY <1>5, InCovered
        <5>3. b \in Covered(next) <=> \E i \in 1..last : b \in next[i][1]..next[i][2]
          BY <3>1, InCovered
        <5> HIDE DEF last
        <5> QED
          BY <3>1, <4>2, <5>1, <5>2, <5>3
    <3> QED
      BY <3>3, <3>4
  <2>4. ASSUME ~(segs # <<>> /\ segs[last][2] + 1 = start)
        PROVE  /\ WellFormed(f, next)
               /\ \A b \in Bytes(f) :
                    b \in Covered(next) <=> b \in Covered(segs) \/ b \in start..finish
    <3>1. /\ DOMAIN next = 1..last + 1 /\ last + 1 \in 1..last + 1
          /\ \A i \in 1..last : i \in 1..last + 1 /\ next[i] = segs[i]
          /\ \A i \in 1..last + 1 : i \in 1..last \/ i = last + 1
          /\ next[last + 1][1] = start /\ next[last + 1][2] = finish
      <4>1. /\ \A i \in 1..last : i \in 1..last + 1
            /\ \A i \in 1..last + 1 : i \in 1..last \/ i = last + 1
            /\ last + 1 \in 1..last + 1
        BY <1>10
      <4>2. Len(next) = last + 1 /\ DOMAIN next = 1..last + 1
        BY <2>1, <2>2, <2>4
      <4>3. \A i \in 1..last : next[i] = segs[i]
        BY <2>1, <2>4
      <4>4. next[last + 1][1] = start /\ next[last + 1][2] = finish
        BY <2>1, <2>4
      <4> QED
        BY <4>1, <4>2, <4>3, <4>4
    <3>2. segs # <<>> => segs[last][2] + 1 < start
      BY <1>6, <1>9, <1>10, <1>11, <2>4
    <3>3. WellFormed(f, next)
      <4>1. ASSUME NEW i \in 1..last + 1
            PROVE  /\ next[i][1] \in Bytes(f) /\ next[i][2] \in Bytes(f)
                   /\ next[i][1] <= next[i][2]
        BY <1>1, <1>9, <3>1
      <4>2. ASSUME NEW i \in 1..last
            PROVE  next[i][2] + 1 < next[i + 1][1]
        <5>1. CASE i = last
          <6>1. segs # <<>>
            BY <1>10, <5>1
          <6> QED
            BY <3>1, <3>2, <5>1, <6>1
        <5>2. CASE i # last
          <6>1. i \in 1..last - 1 /\ i + 1 \in 1..last
            BY <1>10, <5>2
          <6> QED
            BY <1>9, <3>1, <6>1
        <5> QED
          BY <5>1, <5>2
      <4>3. Len(next) - 1 = last
        BY <1>5, <2>1, <2>4
      <4> QED
        BY <3>1, <4>1, <4>2, <4>3 DEF WellFormed
    <3>4. ASSUME NEW b \in Bytes(f)
          PROVE  b \in Covered(next) <=> b \in Covered(segs) \/ b \in start..finish
      BY SMTT(30), <1>5, <3>1, InCovered
    <3> QED
      BY <3>3, <3>4
  <2>5. \A b \in Bytes(f) : b \in Covered(next) <=> piece(b) \in have /\ piece(b) <= p
    <3>1. ASSUME NEW b \in Bytes(f)
          PROVE  b \in Covered(next) <=> b \in Covered(segs) \/ piece(b) = p
      BY <1>1, <2>3, <2>4
    <3> QED
      BY <1>3, <1>4, <1>8, <3>1
  <2>6. \A q \in PiecesOf(f) : q > p => next[Len(next)][2] < Start(f, q)
    <3>1. next[Len(next)][2] = finish
      BY <2>1
    <3> QED
      BY <1>1, <3>1
  <2> QED
    BY <1>8, <2>1, <2>3, <2>4, <2>5, <2>6 DEF RunsUpTo, Round, next, start, finish, piece
<1> QED
  BY <1>7, <1>8

\* The recursion of Segments, over the pieces up to n.
IsLoop(f, have, upTo, n) ==
  upTo = [p \in FirstPiece(f) - 1..n |->
            IF p < FirstPiece(f) THEN <<>> ELSE Round(f, have, p, upTo[p - 1])]

\* There is such a function.
LEMMA LoopExists ==
  ASSUME NEW f \in Files, NEW have, Size[f] # 0
  PROVE  \E upTo : IsLoop(f, have, upTo, LastPiece(f))
<1> DEFINE low == FirstPiece(f) - 1
           S == {n \in Int : \E upTo : IsLoop(f, have, upTo, n)}
<1>1. FirstPiece(f) \in Nat /\ LastPiece(f) \in Nat /\ FirstPiece(f) <= LastPiece(f)
  <2>1. First[f] \in Nat /\ Size[f] \in Nat /\ PieceLength \in Nat \ {0}
    BY Constants
  <2>2. First[f] + Size[f] - 1 \in Nat /\ First[f] <= First[f] + Size[f] - 1
    BY <2>1
  <2> QED
    BY <2>1, <2>2, DivBounds, DivMonotonic DEF FirstPiece, LastPiece
<1>2. low \in S
  <2> DEFINE upTo == [p \in low..low |-> <<>>]
  <2>1. \A p \in low..low : p < FirstPiece(f)
    BY <1>1
  <2>2. upTo = [p \in low..low |->
                  IF p < FirstPiece(f) THEN <<>> ELSE Round(f, have, p, upTo[p - 1])]
    BY <2>1
  <2> QED
    <3>1. IsLoop(f, have, upTo, low)
      BY <2>2 DEF IsLoop
    <3> HIDE DEF upTo
    <3> QED
      BY <1>1, <3>1
<1>3. ASSUME NEW n \in low + 1..LastPiece(f), n - 1 \in S
      PROVE  n \in S
  <2>1. PICK upTo : IsLoop(f, have, upTo, n - 1)
    BY <1>3
  <2> DEFINE more == [p \in low..n |-> IF p = n THEN Round(f, have, n, upTo[n - 1])
                                       ELSE upTo[p]]
  <2>2. n \in Int /\ n > low /\ n >= FirstPiece(f)
    BY <1>1
  <2>3. ASSUME NEW p \in low..n
        PROVE  more[p] = IF p < FirstPiece(f) THEN <<>>
                         ELSE Round(f, have, p, more[p - 1])
    <3>1. CASE p = n
      <4>1. n - 1 \in low..n /\ n - 1 # n /\ n \in low..n
        BY <1>1, <2>2
      <4>2. more[n - 1] = upTo[n - 1] /\ more[n] = Round(f, have, n, upTo[n - 1])
        BY <4>1
      <4> HIDE DEF more
      <4> QED
        BY <1>1, <2>2, <3>1, <4>2
    <3>2. CASE p # n
      <4>1. p \in low..n - 1
        BY <1>1, <2>2, <3>2
      <4>2. upTo[p] = IF p < FirstPiece(f) THEN <<>>
                      ELSE Round(f, have, p, upTo[p - 1])
        BY <2>1, <4>1 DEF IsLoop
      <4>3. more[p] = upTo[p]
        BY <3>2
      <4>4. p >= FirstPiece(f) => more[p - 1] = upTo[p - 1]
        <5>1. p >= FirstPiece(f) => p - 1 \in low..n /\ p - 1 # n
          BY <1>1, <2>2, <4>1
        <5> QED
          BY <5>1
      <4> HIDE DEF more
      <4> QED
        BY <1>1, <2>2, <4>1, <4>2, <4>3, <4>4
    <3> QED
      BY <3>1, <3>2
  <2>4. IsLoop(f, have, more, n)
    <3>1. more = [p \in low..n |-> more[p]]
      OBVIOUS
    <3> HIDE DEF more
    <3> QED
      BY <2>3, <3>1 DEF IsLoop
  <2> QED
    BY <2>2, <2>4
<1>4. low \in Int /\ LastPiece(f) \in Int /\ low <= LastPiece(f)
  BY <1>1
<1> HIDE DEF S, low
<1>5. LastPiece(f) \in S
  BY <1>2, <1>3, <1>4, InductionUpTo
<1> QED
  BY <1>5 DEF S

LEMMA LoopKeepsRuns ==
  ASSUME NEW f \in Files, NEW have, Size[f] # 0, NEW upTo,
         IsLoop(f, have, upTo, LastPiece(f))
  PROVE  RunsUpTo(f, have, LastPiece(f), upTo[LastPiece(f)])
<1> DEFINE low == FirstPiece(f) - 1
           high == LastPiece(f)
           S == {p \in low..high : RunsUpTo(f, have, p, upTo[p])}
<1>1. FirstPiece(f) \in Nat /\ high \in Nat /\ FirstPiece(f) <= high
  <2>1. First[f] \in Nat /\ Size[f] \in Nat /\ PieceLength \in Nat \ {0}
    BY Constants
  <2>2. First[f] + Size[f] - 1 \in Nat /\ First[f] <= First[f] + Size[f] - 1
    BY <2>1
  <2> QED
    BY <2>1, <2>2, DivBounds, DivMonotonic DEF FirstPiece, LastPiece
<1>2. low \in S
  <2>1. low \in low..high /\ low < FirstPiece(f)
    BY <1>1
  <2>2. upTo[low] = <<>>
    BY <2>1 DEF IsLoop
  <2>3. \A b \in Bytes(f) : b \notin Covered(<<>>)
    BY InCovered
  <2>4. \A b \in Bytes(f) : ~((First[f] + b) \div PieceLength <= low)
    <3>1. ASSUME NEW b \in Bytes(f) PROVE ~((First[f] + b) \div PieceLength <= low)
      <4>1. (First[f] + b) \div PieceLength \in PiecesOf(f)
        BY ByteInPiece
      <4> QED
        BY <1>1, <4>1, PieceInFile
    <3> QED
      BY <3>1
  <2>5. WellFormed(f, <<>>) /\ <<>> \in Intervals
    BY DEF WellFormed, Intervals
  <2>6. RunsUpTo(f, have, low, <<>>)
    BY <2>3, <2>4, <2>5 DEF RunsUpTo
  <2> QED
    BY <2>1, <2>2, <2>6
<1>3. ASSUME NEW p \in low + 1..high, p - 1 \in S
      PROVE  p \in S
  <2>1. p \in low..high /\ ~(p < FirstPiece(f)) /\ p \in FirstPiece(f)..LastPiece(f)
    BY <1>1
  <2>2. upTo[p] = Round(f, have, p, upTo[p - 1])
    BY <2>1 DEF IsLoop
  <2>3. RunsUpTo(f, have, p - 1, upTo[p - 1])
    BY <1>3
  <2>4. p \in PiecesOf(f)
    BY <2>1 DEF PiecesOf
  <2>5. RunsUpTo(f, have, p, upTo[p])
    BY <2>2, <2>3, <2>4, RoundKeepsRuns
  <2> QED
    BY <2>1, <2>5
<1>4. low \in Int /\ high \in Int /\ low <= high
  BY <1>1
<1> HIDE DEF S, low
<1>5. high \in S
  BY <1>2, <1>3, <1>4, InductionUpTo
<1> QED
  BY <1>5 DEF S

\* The loop's result for any file and any set of pieces that are there.
LEMMA SegmentsOfAnySet ==
  ASSUME NEW f \in Files, NEW have
  PROVE  /\ WellFormed(f, Segments(f, have))
         /\ Covered(Segments(f, have)) = Had(f, have)
<1>1. CASE Size[f] = 0
  <2>1. Segments(f, have) = <<>>
    BY <1>1 DEF Segments
  <2>2. Bytes(f) = {}
    BY <1>1 DEF Bytes
  <2>3. \A b : b \notin Covered(<<>>)
    BY InCovered
  <2> QED
    BY <2>1, <2>2, <2>3 DEF WellFormed, Had
<1>2. CASE Size[f] # 0
  <2> DEFINE loop == CHOOSE upTo : IsLoop(f, have, upTo, LastPiece(f))
             segs == Segments(f, have)
  <2>1. segs = loop[LastPiece(f)]
    BY <1>2 DEF Segments, IsLoop, Round
  <2>2. IsLoop(f, have, loop, LastPiece(f))
    BY <1>2, LoopExists
  <2> HIDE DEF loop
  <2>3. RunsUpTo(f, have, LastPiece(f), segs)
    BY <1>2, <2>1, <2>2, LoopKeepsRuns
  <2> HIDE DEF segs
  <2>4. Covered(segs) \subseteq Bytes(f)
    <3>1. ASSUME NEW i \in DOMAIN segs, NEW b \in segs[i][1]..segs[i][2]
          PROVE  b \in Bytes(f)
      <4>1. segs[i][1] \in Bytes(f) /\ segs[i][2] \in Bytes(f)
        BY <2>3 DEF RunsUpTo, WellFormed
      <4> QED
        BY <4>1, Constants DEF Bytes
    <3> QED
      BY <3>1, InCovered
  <2>5. \A b \in Bytes(f) : (First[f] + b) \div PieceLength <= LastPiece(f)
    BY ByteInPiece, PieceInFile
  <2>6. Covered(segs) = Had(f, have)
    BY <2>3, <2>4, <2>5 DEF RunsUpTo, Had
  <2> QED
    BY <2>3, <2>6 DEF RunsUpTo, segs
<1> QED
  BY <1>1, <1>2

\* The application is told the intervals of a file that are there, in order,
\* apart and exactly, whatever the bitmap is that handle_piece_finished reads.
THEOREM LoopMakesRuns == Spec => []SegmentsAreRuns
<1>1. SegmentsAreRuns
  BY SegmentsOfAnySet DEF SegmentsAreRuns
<1> QED
  BY <1>1, PTL
=============================================================================
