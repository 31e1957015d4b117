------------------------- MODULE ConsolidationBatch -------------------------
(***************************************************************************)
(* The pure part of a consolidation run: which events the store returns    *)
(* for a request (LoadEventsAfterCursor) and which of them the batch       *)
(* builder takes (ConsolidationBatchBuilder::Build).                       *)
(*                                                                         *)
(* An event's id is its rowid in memory_events (AUTOINCREMENT, nothing     *)
(* deletes a row), so the log is a sequence and the id of an event is its  *)
(* position.  Cursors are ids; 0 stands for the empty cursor string, which *)
(* CursorToInt also turns into 0.  The loop over the ids in ascending      *)
(* order is written as the set of ids it reaches.                          *)
(***************************************************************************)
EXTENDS Integers, Sequences, FiniteSets, FiniteSetsExt

CONSTANT NoSession    \* the empty session id: the agent-level scope

Message == "MESSAGE_APPENDED"

\* A request without a session covers every session of the agent.
InScope(event, agentId, sessionId) ==
    /\ event.agentId = agentId
    /\ sessionId = NoSession \/ event.sessionId = sessionId

\* The ids LoadEventsAfterCursor returns out of the first n rows.  The
\* exclusion list reaches the SQL only when no session is given.
LoadEventsAfterCursor(log, n, req, cursor) ==
    {i \in 1..n :
        /\ i > cursor
        /\ InScope(log[i], req.agentId, req.sessionId)
        /\ req.sessionId = NoSession =>
              log[i].sessionId \notin req.excludedSessionIds}

\* The events that enter the batch when the loop gets to them.
Eligible(log, req, ids) ==
    {i \in ids :
        /\ req.sessionId = NoSession \/ log[i].sessionId = req.sessionId
        /\ log[i].sessionId \notin req.excludedSessionIds
        /\ log[i].type = Message}

Limit(req, ids) ==
    IF req.forceReprocess /\ req.maxEvents <= 0
    THEN Cardinality(ids)
    ELSE req.maxEvents

\* The loop breaks after it has taken Limit events, so it reaches an event
\* exactly when fewer than Limit eligible ones come before it.
Reached(log, req, ids) ==
    {i \in ids :
        \/ Limit(req, ids) <= 0
        \/ Cardinality({j \in Eligible(log, req, ids) : j < i}) < Limit(req, ids)}

\* Mutants of Build.  The cursor moves past everything loaded, a truncated
\* batch included; and: events that are skipped count against the limit, and
\* the cursor stays with the last event taken.
BuildCursorPastBatch(log, req, ids) ==
    [events |-> Eligible(log, req, ids) \cap Reached(log, req, ids),
     nextCursor |-> Max(ids \cup {0})]
BuildStopsAtSkipped(log, req, ids) ==
    LET seen == {i \in ids : Cardinality({j \in ids : j < i}) < Limit(req, ids)}
        taken == Eligible(log, req, ids) \cap seen
    IN  [events |-> taken, nextCursor |-> Max(taken \cup {0})]

\* ConsolidationBatchBuilder::Build: the batch and the cursor after it.  The
\* cursor moves over every event the loop reaches, taken or skipped.
Build(log, req, ids) ==
    IF ~req.forceReprocess /\ req.maxEvents <= 0
    THEN [events |-> {}, nextCursor |-> 0]
    ELSE [events |-> Eligible(log, req, ids) \cap Reached(log, req, ids),
          nextCursor |-> Max(Reached(log, req, ids) \cup {0})]
=============================================================================
