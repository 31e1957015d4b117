---------------------------- MODULE DurableStore ----------------------------
(***************************************************************************)
(* What the database promises, seen from the file alone: an event is added *)
(* by itself, and a consolidation run leaves either nothing or, in one     *)
(* step, its summary, what it learned and its cursor.  Runs commit in the  *)
(* order in which they began and each at most once.  A run that had        *)
(* nothing to digest leaves its cursor only.                               *)
(***************************************************************************)
EXTENDS Integers

CONSTANTS Runs,          \* numbers of runs
          NoKnowledge    \* the entity and relation tables of a new database

VARIABLES log,           \* number of events
          digests,       \* the runs whose summary is in
          cursors,       \* the runs whose cursor is in
          knowledge      \* entities and relations

vars == <<log, digests, cursors, knowledge>>

Init ==
    /\ log = 0
    /\ digests = {} /\ cursors = {}
    /\ knowledge = NoKnowledge

AppendEvent ==
    /\ log' = log + 1
    /\ UNCHANGED <<digests, cursors, knowledge>>

IsNext(r) == \A q \in cursors : q < r

\* knowledge' is whatever the run makes of it.
Consolidate(r) ==
    /\ IsNext(r)
    /\ digests' = digests \cup {r}
    /\ cursors' = cursors \cup {r}
    /\ UNCHANGED log

SkipEvents(r) ==
    /\ IsNext(r)
    /\ cursors' = cursors \cup {r}
    /\ UNCHANGED <<log, digests, knowledge>>

Next ==
    \/ AppendEvent
    \/ \E r \in Runs : Consolidate(r) \/ SkipEvents(r)

Spec == Init /\ [][Next]_vars
=============================================================================
