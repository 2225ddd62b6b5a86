----------------------------- MODULE PartLayout -----------------------------
(***************************************************************************)
(* How finalize_probing cuts a file of known length into parts once the    *)
(* probe request has been answered with 206.  Part 0 belongs to the probe  *)
(* connection and is never shorter than the probe window, so that every    *)
(* byte of the window is kept; the rest is dealt out evenly and the tail   *)
(* part takes the remainder.  Bounds are inclusive, as in dw_part_state.   *)
(***************************************************************************)
EXTENDS Integers

CONSTANTS
  ProbeWindow,   \* kProbeWindowBytes, the length of the probe request's range
  DefaultParts,  \* g_cfg.default_parts, after sync_config's fallback
  MinSplit       \* g_cfg.min_size_for_split, after sync_config's fallback

ASSUME LayoutAssumption ==
  /\ ProbeWindow \in Nat \ {0}
  /\ DefaultParts \in Nat \ {0}
  /\ MinSplit \in Nat \ {0}

Smaller(a, b) == IF a < b THEN a ELSE b
Larger(a, b) == IF a < b THEN b ELSE a

-----------------------------------------------------------------------------
\* The number of parts the configuration asks for.
WantParts(total) ==
  IF total >= MinSplit /\ DefaultParts > 1 THEN DefaultParts ELSE 1

\* The length of part 0 if the file is split at all.
HeadSize(total) ==
  Larger(total \div WantParts(total), Smaller(ProbeWindow, total))

\* What is left for the other parts; zero when the file is not split.
Rest(total) == IF WantParts(total) = 1 THEN 0 ELSE total - HeadSize(total)

\* The number of parts actually cut: none but the head when nothing is left,
\* one tail part when the rest is too short to give each part a byte.
PartCount(total) ==
  IF Rest(total) <= 0 THEN 1
  ELSE IF Rest(total) < WantParts(total) - 1 THEN 2
  ELSE WantParts(total)

Part0Size(total) == IF PartCount(total) = 1 THEN total ELSE HeadSize(total)

Chunk(total) ==
  IF PartCount(total) = 1 THEN 0
  ELSE (total - Part0Size(total)) \div (PartCount(total) - 1)

\* Of a file whose length is unknown (total <= 0), part 0 is open: end = -1.
PartStart(total, i) ==
  IF i = 0 THEN 0 ELSE Part0Size(total) + Chunk(total) * (i - 1)

PartEndOff(total, i) ==  \* mutant: the bound of part 0 is exclusive
  IF i = 0 THEN (IF total > 0 THEN Part0Size(total) ELSE -1)
  ELSE IF i = PartCount(total) - 1 THEN total - 1
  ELSE PartStart(total, i) + Chunk(total) - 1
PartEnd(total, i) ==
  IF i = 0 THEN (IF total > 0 THEN Part0Size(total) - 1 ELSE -1)
  ELSE IF i = PartCount(total) - 1 THEN total - 1
  ELSE PartStart(total, i) + Chunk(total) - 1

PartIds(total) == 0 .. (PartCount(total) - 1)

-----------------------------------------------------------------------------
(***************************************************************************)
(* The parts tile the file: part 0 starts at byte 0, each part ends right  *)
(* before the next one starts, the last ends at the last byte and none is  *)
(* empty.  A gap would leave a hole that no connection ever fetches; an    *)
(* overlap would have two connections write the same bytes.                *)
(***************************************************************************)
Tiles(total) ==
  /\ PartStart(total, 0) = 0
  /\ \A i \in PartIds(total) : PartStart(total, i) <= PartEnd(total, i)
  /\ \A i \in PartIds(total) :
        i # 0 => PartStart(total, i) = PartEnd(total, i - 1) + 1
  /\ PartEnd(total, PartCount(total) - 1) = total - 1

(***************************************************************************)
(* The whole probe window lies inside part 0, so the probe connection can  *)
(* write everything it receives (the bytes past the file's end aside).     *)
(***************************************************************************)
WindowFits(total) ==
  PartEnd(total, 0) >= Smaller(ProbeWindow, total) - 1
=============================================================================
