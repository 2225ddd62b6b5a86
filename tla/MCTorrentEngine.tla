-------------------------- MODULE MCTorrentEngine ---------------------------
(* Values for the constants of TorrentEngine: a file of three pieces, the    *)
(* last of which it shares with the second file.                             *)
EXTENDS TorrentEngine

MCFirst == <<0, 5>>
MCSize == <<5, 1>>
=============================================================================
