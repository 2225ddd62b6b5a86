---------------------------- MODULE FileSegments ----------------------------
(***************************************************************************)
(* The layout of a torrent, whose files lie one after another and whose    *)
(* pieces cross their borders, and what handle_piece_finished makes of the *)
(* bitmap of pieces: for a file, the intervals of bytes that are there.    *)
(***************************************************************************)
EXTENDS Integers, Sequences, FiniteSets

CONSTANTS
  Files,        \* the indices of the files
  First, Size,  \* a file's offset in the torrent, and its length
  PieceLength

ASSUME LayoutAssumption ==
  /\ Files \subseteq Nat /\ IsFiniteSet(Files)
  /\ First \in [Files -> Nat] /\ Size \in [Files -> Nat]
  /\ PieceLength \in Nat \ {0}

Bytes(f) == 0..Size[f] - 1
FirstPiece(f) == First[f] \div PieceLength
LastPiece(f) == (First[f] + Size[f] - 1) \div PieceLength
\* map_block: an empty file has no piece.
PiecesOf(f) == IF Size[f] = 0 THEN {} ELSE FirstPiece(f)..LastPiece(f)
Pieces == UNION {PiecesOf(f) : f \in Files}

\* A piece's part of a file, from its first to its last byte.
Start(f, p) ==
  IF p * PieceLength < First[f] THEN 0 ELSE p * PieceLength - First[f]
Finish(f, p) ==
  IF (p + 1) * PieceLength < First[f] + Size[f]
  THEN (p + 1) * PieceLength - 1 - First[f] ELSE Size[f] - 1

\* The bytes of a file that are in the pieces of have.
Had(f, have) == {b \in Bytes(f) : (First[f] + b) \div PieceLength \in have}

\* One piece more: it prolongs the last interval or starts a new one.
JoinsNext(segs, start, finish) ==  \* mutant: intervals that share no byte are kept apart
  IF segs # <<>> /\ segs[Len(segs)][2] = start
  THEN [segs EXCEPT ![Len(segs)][2] = finish]
  ELSE Append(segs, <<start, finish>>)
Joins(segs, start, finish) ==
  IF segs # <<>> /\ segs[Len(segs)][2] + 1 = start
  THEN [segs EXCEPT ![Len(segs)][2] = finish]
  ELSE Append(segs, <<start, finish>>)

\* The loop over the file's pieces.
Segments(f, have) ==
  LET upTo[p \in FirstPiece(f) - 1 .. LastPiece(f)] ==
        IF p < FirstPiece(f) THEN <<>>
        ELSE IF p \in have THEN Joins(upTo[p - 1], Start(f, p), Finish(f, p))
        ELSE upTo[p - 1]
  IN IF Size[f] = 0 THEN <<>> ELSE upTo[LastPiece(f)]

\* What segments cover.
Covered(segs) == UNION {s[1]..s[2] : s \in {segs[i] : i \in DOMAIN segs}}

\* What TaskFileStore::valid asks of segments, and that there are gaps between.
WellFormed(f, segs) ==
  /\ \A i \in DOMAIN segs : /\ segs[i][1] \in Bytes(f) /\ segs[i][2] \in Bytes(f)
                            /\ segs[i][1] <= segs[i][2]
  /\ \A i \in 1..Len(segs) - 1 : segs[i][2] + 1 < segs[i + 1][1]
=============================================================================
