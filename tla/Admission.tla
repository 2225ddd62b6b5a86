------------------------------ MODULE Admission ------------------------------
(***************************************************************************)
(* What TaskManager's scheduler promises about the slots of                *)
(* max_concurrent_downloads: in its turn it admits the foremost waiting    *)
(* task while there is a slot, and takes a slot away only from one task at *)
(* a time, for a forced one, which then gets it.  Out of its turn (calls   *)
(* of the API, events of the engines, maintenance) anything may happen to  *)
(* the tasks.                                                              *)
(***************************************************************************)
EXTENDS Naturals, FiniteSets

CONSTANTS
  Tasks,     \* the tasks of the registry
  Priority,  \* the queue priority of each
  Created    \* when each was created

VARIABLES
  waiting,   \* the tasks that wait for a slot
  forced,    \* those of them that may take one away
  active,    \* the tasks that hold a slot
  max,       \* how many slots there are
  turn       \* "others", "scheduler", or "owes": it has taken a slot away

vars == <<waiting, forced, active, max, turn>>

\* The order in which waiting tasks are admitted; equals are in no order.
Better(t, u) ==
  \/ t \in forced /\ u \notin forced
  \/ /\ t \in forced <=> u \in forced
     /\ \/ Priority[t] > Priority[u]
        \/ Priority[t] = Priority[u] /\ Created[t] < Created[u]
Foremost(t) == t \in waiting /\ \A u \in waiting : ~Better(u, t)

Init ==
  /\ waiting \subseteq Tasks /\ forced \subseteq waiting
  /\ active \subseteq Tasks \ waiting
  /\ turn = "others"

Others ==
  /\ turn = "others" /\ turn' = "others"
  /\ waiting' \subseteq Tasks /\ forced' \subseteq waiting'
  /\ active' \subseteq Tasks \ waiting'

TakeTurn ==
  /\ turn = "others" /\ turn' = "scheduler"
  /\ UNCHANGED <<waiting, forced, active, max>>

\* The foremost task gets a slot, or the engine cannot start it and it neither
\* waits nor holds one.
Admit(t) ==
  /\ turn # "others" /\ turn' = "scheduler"
  /\ Foremost(t) /\ (turn = "owes" => t \in forced)
  /\ Cardinality(active) < max
  /\ waiting' = waiting \ {t} /\ forced' = forced \ {t}
  /\ active' \in {active, active \cup {t}}
  /\ UNCHANGED max

\* With more slots held than there are, because max has been lowered, it takes
\* more than one away.
Preempt(t) ==
  /\ turn # "others" /\ turn' = "owes"
  /\ \E u \in forced : Foremost(u)
  /\ Cardinality(active) >= max
  /\ t \in active /\ active' = active \ {t}
  /\ UNCHANGED <<waiting, forced, max>>

\* The turn ends; with a slot owed, only because the engine has the foremost
\* task wait or does not give up the next slot that is needed.
GiveTurn ==
  /\ turn # "others" /\ turn' = "others"
  /\ UNCHANGED <<waiting, forced, active, max>>

\* The process ends, and begins again with nothing active.  Force outlives it.
Restart ==
  /\ turn' = "others"
  /\ waiting' \subseteq Tasks /\ forced' \subseteq waiting' /\ active' = {}

Next ==
  \/ Others \/ TakeTurn \/ GiveTurn \/ Restart
  \/ \E t \in Tasks : Admit(t) \/ Preempt(t)
Spec == Init /\ [][Next]_vars
=============================================================================
