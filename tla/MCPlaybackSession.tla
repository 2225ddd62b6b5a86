------------------------- MODULE MCPlaybackSession -------------------------
(* An instance of PlaybackSession for TLC. *)
EXTENDS PlaybackSession
=============================================================================
