----------------------------- MODULE MCReadPath -----------------------------
(***************************************************************************)
(* Small instances of ReadPath.                                            *)
(***************************************************************************)
EXTENDS ReadPath

CONSTANTS s1, s2

Req(session, query, sections, budget, messages, refs, limit) ==
    [sessionId |-> session, query |-> query, includeSections |-> sections, tokenBudget |-> budget,
     messageLimit |-> messages, payloadLimit |-> refs, longTermLimit |-> limit]

Rec(type, session, rank, like) ==
    [type |-> type, sessionId |-> session, rank |-> rank, like |-> like]

\* Every type, matched well, less well, by LIKE only and by FTS only.
RankedRecords == {Rec("summary", s1, 2, TRUE), Rec("summary", s2, 3, FALSE),
                  Rec("entity", NoSession, 3, TRUE), Rec("entity", NoSession, 0, TRUE),
                  Rec("relation", NoSession, 3, TRUE)}

\* SearchMemory with and without a session; a limit that is not positive.
MCSearches == {<<NoSession, 1>>, <<NoSession, 2>>, <<s1, 1>>, <<NoSession, 0>>}

\* All sections or one of them, of one session and of all, with and without a
\* query, with limits the tables reach and limits they do not; the long-term
\* limit given, from the token budget and from the configured budget.
MCRequests == {Req(s1, FALSE, {}, 4096, 1, 1, 1), Req(NoSession, FALSE, {}, 0, 2, 2, -1),
               Req(NoSession, TRUE, {}, 400, 2, 2, -1), Req(s1, TRUE, {"long_term"}, 0, 0, 0, 1),
               Req(s1, FALSE, {"messages"}, 0, 3, 0, 0), Req(s1, TRUE, {"payloads"}, 0, 0, 1, 0)}
=============================================================================
