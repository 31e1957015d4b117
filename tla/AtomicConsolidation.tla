------------------------ MODULE AtomicConsolidation ------------------------
(***************************************************************************)
(* What Consolidate promises to the callers of one runtime: each run that  *)
(* writes anything behaves as if it loaded its cursor and committed its    *)
(* batch in one step, on some prefix of the log as it is at that step.     *)
(* Runs that fail, find nothing or crash leave no trace.  What a request   *)
(* selects from the log is a parameter.                                    *)
(***************************************************************************)
EXTENDS Integers, Sequences

CONSTANTS Agents, Sessions, NoSession, EventTypes, Requests, MaxLog,
          LoadEventsAfterCursor(_, _, _, _), Build(_, _, _)

VARIABLES events, cursors, summaries

Init ==
    /\ events = << >>
    /\ cursors = [s \in Agents \X (Sessions \cup {NoSession}) |-> 0]
    /\ summaries = << >>

AppendEvent(event) ==
    /\ Len(events) < MaxLog
    /\ events' = Append(events, event)
    /\ UNCHANGED <<cursors, summaries>>

\* The batch a run makes from the first n events and the cursor it finds.
AtomicBatch(req, n) ==
    LET start == IF req.forceReprocess THEN 0 ELSE cursors[<<req.agentId, req.sessionId>>]
    IN  Build(events, req, LoadEventsAfterCursor(events, n, req, start))

Consolidate(req, n) ==
    /\ AtomicBatch(req, n).nextCursor # 0
    /\ cursors' = [cursors EXCEPT ![<<req.agentId, req.sessionId>>] = AtomicBatch(req, n).nextCursor]
    /\ summaries' = IF AtomicBatch(req, n).events = {} THEN summaries
                    ELSE Append(summaries, [agentId |-> req.agentId, sessionId |-> req.sessionId,
                                            events |-> AtomicBatch(req, n).events])
    /\ UNCHANGED events

Next ==
    \/ \E event \in [agentId : Agents, sessionId : Sessions, type : EventTypes] : AppendEvent(event)
    \/ \E req \in Requests, n \in 0..Len(events) : Consolidate(req, n)

Spec == Init /\ [][Next]_<<events, cursors, summaries>>
=============================================================================
