-------------------------- MODULE MCConsolidation --------------------------
(***************************************************************************)
(* Small instances of Consolidation.                                       *)
(***************************************************************************)
EXTENDS Consolidation, TLC

CONSTANTS a1, s1, s2, r1, t1, t2

\* Threads of one runtime are alike; only for the runs without liveness.
Symmetry == Permutations({t1, t2})

Req(session, max, force, excluded) ==
    [agentId |-> a1, sessionId |-> session, maxEvents |-> max,
     forceReprocess |-> force, excludedSessionIds |-> excluded]

MCEventTypes == {Message, "TOOL_CALL_FINISHED"}

\* Both threads in one process.
OneRuntime == [t \in Threads |-> r1]

\* Runs from the first event, a truncated and an unlimited one (maxEvents 0),
\* and incremental ones: disabled, of the agent, of one session, with a session
\* excluded.
Mixed == {Req(NoSession, 1, TRUE, {}), Req(NoSession, 0, TRUE, {s2}),
          Req(NoSession, 0, FALSE, {}), Req(NoSession, 2, FALSE, {s2}),
          Req(s1, 1, FALSE, {})}

\* A host that consolidates event by event and excludes one session.
HostLoop == {Req(NoSession, 1, FALSE, {s2})}
=============================================================================
