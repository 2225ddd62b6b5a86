----------------------------- MODULE UniqueName -----------------------------
(***************************************************************************)
(* acquire_wrapper_name (unique_name.cpp) as several HTTP workers call it  *)
(* for files of one name when their probes end (finalize_probing): each in *)
(* a thread of its own, none of them with mtx_.                            *)
(***************************************************************************)
EXTENDS Naturals

CONSTANTS
  Workers,
  Last,   \* the last number that is tried: 9999
  Stamps  \* the milliseconds in which a name may be given up; bounds the model

\* The names: as it is, numbered, or with a time stamp.
Number(n) == <<"number", n>>
Stamp(ms) == <<"stamp", ms>>

VARIABLES
  disk, \* the names that are taken
  call  \* of each worker: where its call is, the candidate, the name it got and
        \* whether it has created it

vars == <<disk, call>>

Init ==
  /\ disk \in SUBSET {Number(n) : n \in 0..Last}
  /\ call = [w \in Workers |-> [pc |-> "probe", n |-> 0, name |-> {},
                               held |-> FALSE]]

To(w, pc) == call' = [call EXCEPT ![w].pc = pc]

\* finalize_probing begins with the name as it is.
Begins(w) ==
  call[w].pc = "probe" /\ To(w, "look") /\ UNCHANGED disk

\* entry_exists.
FindsFree(w) ==
  /\ call[w].pc = "look" /\ Number(call[w].n) \notin disk
  /\ To(w, "create") /\ UNCHANGED disk
FindsTaken(w) ==
  /\ call[w].pc = "look" /\ Number(call[w].n) \in disk
  /\ IF call[w].n < Last THEN call' = [call EXCEPT ![w].n = @ + 1] ELSE To(w, "stamp")
  /\ UNCHANGED disk

\* create_entry is create_directories, to which a directory that is there is no
\* error; and an error changes nothing about the name.
Takes(w, name) ==
  \E held \in BOOLEAN :
    /\ call' = [call EXCEPT ![w].pc = "done", ![w].name = {name}, ![w].held = held]
    /\ disk' = IF held THEN disk \cup {name} ELSE disk
Creates(w) == call[w].pc = "create" /\ Takes(w, Number(call[w].n))
\* The last resort is not even looked for.
FallsBack(w) == call[w].pc = "stamp" /\ \E ms \in Stamps : Takes(w, Stamp(ms))

Next == \E w \in Workers : \/ Begins(w) \/ FindsFree(w) \/ FindsTaken(w)
                           \/ Creates(w) \/ FallsBack(w)
Spec == Init /\ [][Next]_vars

-----------------------------------------------------------------------------
\* "Whoever has settled a name holds it; the caller serialises looking and
\* creating" (unique_name.h:14-18): no two workers are given one wrapper that both
\* of them have created.
OwnWrapper ==
  \A v, w \in Workers :
    v # w /\ call[v].held /\ call[w].held => call[v].name \cap call[w].name = {}
=============================================================================
