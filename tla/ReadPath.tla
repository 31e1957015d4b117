------------------------------ MODULE ReadPath ------------------------------
(***************************************************************************)
(* BuildContext and SearchMemory against a database that other threads and *)
(* runtimes keep writing to.  ContextBuilder takes no lock of its own: its *)
(* store reads (recent events, search, snapshot, recent payloads) are      *)
(* separate steps and anything may be committed between two of them.       *)
(*                                                                         *)
(* One agent, one reader (readers share nothing but the store).  memory    *)
(* holds the long-term rows as SearchRanking describes them.               *)
(***************************************************************************)
EXTENDS SearchRanking

CONSTANTS Sessions,
          Requests,        \* the context requests of the callers
          Searches,        \* session ids and limits of SearchMemory
          Records,         \* the long-term rows that may be written
          ConfigBudget,    \* config.tokenBudget
          MaxEvents, MaxPayloads, MaxRecords, MaxTime,
          MaxRows          \* rows of all tables together

Message == "MESSAGE_APPENDED"
Sections == {"messages", "long_term", "payloads"}

ASSUME RequestsAssumption ==
    /\ Requests # {}
    /\ Requests \subseteq
          [sessionId : Sessions \cup {NoSession}, query : BOOLEAN,    \* the query is not empty
           includeSections : SUBSET Sections,
           tokenBudget : Int, messageLimit : Int, payloadLimit : Int, longTermLimit : Int]
ASSUME SearchesAssumption == Searches \subseteq (Sessions \cup {NoSession}) \X Int
ASSUME RecordsAssumption ==
    Records \subseteq [type : RecordTypes, sessionId : Sessions \cup {NoSession},
                       rank : 0..3, like : BOOLEAN]
ASSUME BudgetAssumption == ConfigBudget \in Int

VARIABLES
    events,      \* rows of memory_events: session, type, payload reference (0: none)
    payloads,    \* rows of memory_payloads: session, does the query match
    memory,      \* rows of the three long-term tables
    now,         \* CURRENT_TIMESTAMP, in seconds
    storeUp,     \* the runtime has a store
    pc, request,
    hits,        \* what the search of the running call found
    package,     \* the context under construction, then the one returned
    result,
    began        \* history: how long the tables were when the call started

Rows == Len(events) + Len(payloads) + Len(memory)

database == <<events, payloads, memory, now>>
vars == <<database, storeUp, pc, request, hits, package, result, began>>

EmptyPackage == [messages |-> {}, text |-> {}, structured |-> {}, payloadRefs |-> {}]
NothingYet == [events |-> 0, payloads |-> 0]
AnyRequest == CHOOSE req \in Requests : TRUE

Init ==
    /\ events = << >> /\ payloads = << >> /\ memory = << >>
    /\ now = 0
    /\ storeUp \in BOOLEAN
    /\ pc = "idle"
    /\ request = AnyRequest
    /\ hits = {}
    /\ package = EmptyPackage
    /\ result = "none"
    /\ began = NothingYet

-----------------------------------------------------------------------------
(* What is committed meanwhile.                                            *)

InSession(row, sessionId) == sessionId = NoSession \/ row.sessionId = sessionId

\* A host refers to a payload after WritePayload has returned its uri.
AppendEvent(session, type, payloadRef) ==
    /\ storeUp
    /\ Len(events) < MaxEvents /\ Rows < MaxRows
    /\ payloadRef # 0 => payloadRef <= Len(payloads) /\ payloads[payloadRef].sessionId = session
    /\ events' = Append(events, [sessionId |-> session, type |-> type, payloadRef |-> payloadRef])
    /\ UNCHANGED <<payloads, memory, now, storeUp, pc, request, hits, package, result, began>>

SavePayload(session, matches) ==
    /\ storeUp
    /\ Len(payloads) < MaxPayloads /\ Rows < MaxRows
    /\ payloads' = Append(payloads, [sessionId |-> session, matches |-> matches])
    /\ UNCHANGED <<events, memory, now, storeUp, pc, request, hits, package, result, began>>

\* Mutant: the host's clock, ahead of CURRENT_TIMESTAMP, is bound.
RowHostClock(record) == [type |-> record.type, sessionId |-> record.sessionId, rank |-> record.rank,
                         like |-> record.like, active |-> TRUE, updatedAt |-> now + 1]

Row(record) == [type |-> record.type, sessionId |-> record.sessionId, rank |-> record.rank,
                like |-> record.like, active |-> TRUE, updatedAt |-> now]

\* A consolidation commits a new row.
SaveRecord(record) ==
    /\ storeUp
    /\ Len(memory) < MaxRecords /\ Rows < MaxRows
    /\ memory' = Append(memory, Row(record))
    /\ UNCHANGED <<events, payloads, now, storeUp, pc, request, hits, package, result, began>>

\* It saves an entity it knows: ON CONFLICT(id) DO UPDATE.
ResaveEntity(i, record) ==
    /\ storeUp
    /\ memory[i].type = "entity" /\ record.type = "entity"
    /\ memory' = [memory EXCEPT ![i] = Row(record)]
    /\ UNCHANGED <<events, payloads, now, storeUp, pc, request, hits, package, result, began>>

\* It supersedes an entity or replaces a relation.
Retire(i) ==
    /\ storeUp
    /\ memory[i].type # "summary" /\ memory[i].active
    /\ memory' = [memory EXCEPT ![i].active = FALSE, ![i].updatedAt = now]
    /\ UNCHANGED <<events, payloads, now, storeUp, pc, request, hits, package, result, began>>

Tick ==
    /\ now < MaxTime
    /\ now' = now + 1
    /\ UNCHANGED <<events, payloads, memory, storeUp, pc, request, hits, package, result, began>>

-----------------------------------------------------------------------------
(* ContextBuilder.                                                         *)

\* No section named: all of them.
ShouldInclude(req, section) == req.includeSections = {} \/ section \in req.includeSections

\* A long_term_limit >= 0 wins, otherwise the token budget decides.
LongTermMemoryLimit(req) ==
    LET budget == IF req.tokenBudget > 0 THEN req.tokenBudget ELSE ConfigBudget
    IN  IF req.longTermLimit >= 0 THEN req.longTermLimit
        ELSE IF budget <= 0 THEN 20
        ELSE Max({1, Min({50, budget \div 200})})

\* Mutant: ascending ids without the reversal.
LoadOldestEvents(req, limit) ==
    LET scope == {i \in DOMAIN events : InSession(events[i], req.sessionId)}
    IN  {i \in scope : Cardinality({j \in scope : j < i}) < limit}

\* ORDER BY id DESC LIMIT.
LoadRecentEvents(req, limit) ==
    LET scope == {i \in DOMAIN events : InSession(events[i], req.sessionId)}
    IN  {i \in scope : Cardinality({j \in scope : j > i}) < limit}

\* ORDER BY created_at DESC, id DESC LIMIT.
LoadRecentPayloads(req, limit) ==
    LET scope == {p \in DOMAIN payloads : InSession(payloads[p], req.sessionId)}
    IN  {p \in scope : Cardinality({q \in scope : q > p}) < limit}

\* The limit counts events; the messages among them are kept.
LoadMessagesForContext(req) ==
    IF ShouldInclude(req, "messages") /\ storeUp /\ req.messageLimit > 0
    THEN {i \in LoadRecentEvents(req, req.messageLimit) : events[i].type = Message}
    ELSE {}

\* Every term of the query occurs in the payload; a query without terms matches.
MatchesPayloadQuery(p, req) == req.query => payloads[p].matches

\* The limit counts payloads; the ones that match the query are kept.
LoadPayloadsForContext(req) ==
    IF ShouldInclude(req, "payloads") /\ storeUp /\ req.payloadLimit > 0
    THEN {p \in LoadRecentPayloads(req, req.payloadLimit) : MatchesPayloadQuery(p, req)}
    ELSE {}

WantsLongTerm(req) == ShouldInclude(req, "long_term") /\ storeUp /\ LongTermMemoryLimit(req) > 0

Structured(rows) == {i \in rows : memory[i].type # "summary"}

BuildContext(req) ==
    /\ pc = "idle"
    /\ pc' = "messages"
    /\ request' = req
    /\ hits' = {}
    /\ package' = EmptyPackage
    /\ result' = "none"
    /\ began' = [events |-> Len(events), payloads |-> Len(payloads)]
    /\ UNCHANGED <<database, storeUp>>

LoadMessages ==
    /\ pc = "messages"
    /\ package' = [package EXCEPT !.messages = LoadMessagesForContext(request)]
    /\ pc' = IF WantsLongTerm(request)
             THEN IF request.query THEN "search" ELSE "snapshot"
             ELSE "payloads"
    /\ UNCHANGED <<database, storeUp, request, hits, result, began>>

\* With a query the text lists the search hits.
Search(ftsFailed) ==
    /\ pc = "search"
    /\ hits' \in SearchLongTermMemory(memory, request.sessionId, LongTermMemoryLimit(request), ftsFailed)
    /\ package' = [package EXCEPT !.text = hits']
    /\ pc' = "snapshot"
    /\ UNCHANGED <<database, storeUp, request, result, began>>

\* Without a query the snapshot is shown, in text and structured; with one it
\* only filters the structured part.
LoadSnapshot ==
    /\ pc = "snapshot"
    /\ \E rows \in LoadLongTermMemory(memory, request.sessionId, LongTermMemoryLimit(request)) :
          package' = IF request.query
                     THEN [package EXCEPT !.structured = Structured(rows) \cap hits]
                     ELSE [package EXCEPT !.text = rows, !.structured = Structured(rows)]
    /\ pc' = "payloads"
    /\ UNCHANGED <<database, storeUp, request, hits, result, began>>

Return(outcome, answer) ==
    /\ pc' = "idle"
    /\ package' = answer
    /\ result' = outcome
    /\ UNCHANGED <<database, storeUp, request, hits, began>>

\* Mutant: the payload rows are read when the call starts.
LoadPayloadsAtStart ==
    /\ pc = "payloads"
    /\ Return("ok", [package EXCEPT !.payloadRefs =
                        {p \in LoadPayloadsForContext(request) : p <= began.payloads}])

LoadPayloads ==
    /\ pc = "payloads"
    /\ Return("ok", [package EXCEPT !.payloadRefs = LoadPayloadsForContext(request)])

\* A store read fails: the caller gets the error and no package.
Fail ==
    /\ storeUp
    /\ \/ pc = "messages" /\ ShouldInclude(request, "messages") /\ request.messageLimit > 0
       \/ pc \in {"search", "snapshot"}
       \/ pc = "payloads" /\ ShouldInclude(request, "payloads") /\ request.payloadLimit > 0
    /\ Return("error", EmptyPackage)

\* BuiltinMemoryRuntime::SearchMemory, one call of the store.
SearchMemory(sessionId, limit, ftsFailed) ==
    /\ pc = "idle"
    /\ began' = NothingYet
    /\ package' = EmptyPackage
    /\ IF storeUp
       THEN /\ hits' \in SearchLongTermMemory(memory, sessionId, limit, ftsFailed)
            /\ request' = [request EXCEPT !.sessionId = sessionId, !.longTermLimit = limit]
            /\ pc' = "answer"
            /\ result' = "none"
       ELSE /\ result' = "error"
            /\ UNCHANGED <<hits, request, pc>>
    /\ UNCHANGED <<database, storeUp>>

Answer ==
    /\ pc = "answer"
    /\ pc' = "idle"
    /\ result' = "none"
    /\ hits' = {}
    /\ request' = AnyRequest
    /\ UNCHANGED <<database, storeUp, package, began>>

-----------------------------------------------------------------------------
Write ==
    \/ \E s \in Sessions, type \in {Message, "TOOL_CALL_FINISHED"}, p \in 0..MaxPayloads :
          AppendEvent(s, type, p)
    \/ \E s \in Sessions, matches \in BOOLEAN : SavePayload(s, matches)
    \/ \E record \in Records : SaveRecord(record)
    \/ \E i \in DOMAIN memory, record \in Records : ResaveEntity(i, record)
    \/ \E i \in DOMAIN memory : Retire(i)
    \/ Tick

Read ==
    \/ \E req \in Requests : BuildContext(req)
    \/ LoadMessages
    \/ \E ftsFailed \in BOOLEAN : Search(ftsFailed)
    \/ LoadSnapshot
    \/ LoadPayloads
    \/ Fail
    \/ \E q \in Searches, ftsFailed \in BOOLEAN : SearchMemory(q[1], q[2], ftsFailed)
    \/ Answer

Next == Write \/ Read

Spec == Init /\ [][Next]_vars

-----------------------------------------------------------------------------
(* Properties.                                                             *)

\* Rows, request and package hold values of their kind.
TypeOK ==
    /\ events \in Seq([sessionId : Sessions, type : {Message, "TOOL_CALL_FINISHED"},
                       payloadRef : 0..MaxPayloads])
    /\ payloads \in Seq([sessionId : Sessions, matches : BOOLEAN])
    /\ \A i \in DOMAIN memory : memory[i].updatedAt \in 0..now /\ memory[i].active \in BOOLEAN
    /\ pc \in {"idle", "messages", "search", "snapshot", "payloads", "answer"}
    /\ hits \subseteq DOMAIN memory
    /\ package.messages \subseteq DOMAIN events
    /\ package.text \cup package.structured \subseteq DOMAIN memory
    /\ package.payloadRefs \subseteq DOMAIN payloads
    /\ result \in {"none", "ok", "error"}

Candidates(Matches(_, _, _)) ==
    UNION {Matches(memory, request'.sessionId, type) : type \in RecordTypes}

\* Candidates of all types are merged, sorted by score and cut at the limit
\* (docs/storage_design.md:79), although every statement is cut at the limit
\* by its own order first: no hit scores less than a candidate left out, and
\* an FTS failure in mid-search never leaves a part of the FTS answer.
SearchReturnsBest ==
    [][LET limit == IF pc = "search" THEN LongTermMemoryLimit(request) ELSE request'.longTermLimit
           wanted == IF limit > 0 THEN limit ELSE 10
       IN  (pc = "search" /\ pc' = "snapshot") \/ (pc = "idle" /\ pc' = "answer") =>
              \/ BestOf(memory, wanted, Candidates(FtsMatches), "fts_bm25", hits')
              \/ BestOf(memory, wanted, Candidates(LikeMatches), "like_fallback", hits')]_vars

\* Row i is one of the last n rows of its table that the session covers.
StillRecent(rows, sessionId, n, i) ==
    /\ InSession(rows[i], sessionId)
    /\ Cardinality({j \in i..Len(rows) : InSession(rows[j], sessionId)}) <= n

\* Read your writes: what was acknowledged before BuildContext was called and
\* is still recent when it returns is in the package, although the tables grow
\* while it is built.
ReadYourWrites ==
    [][pc = "payloads" /\ result' = "ok" /\ storeUp =>
        /\ ShouldInclude(request, "messages") =>
              \A i \in 1..began.events :
                  /\ StillRecent(events, request.sessionId, request.messageLimit, i)
                  /\ events[i].type = Message
                  => i \in package'.messages
        /\ ShouldInclude(request, "payloads") /\ ~request.query =>
              \A p \in 1..began.payloads :
                  StillRecent(payloads, request.sessionId, request.payloadLimit, p)
                  => p \in package'.payloadRefs]_vars

\* A message in the package that refers to an offloaded payload comes with the
\* payload's reference, unless newer payloads have pushed it out: messages are
\* read before payloads and a payload is stored before it is referred to.
ReferencedPayloadListed ==
    result = "ok" /\ pc = "idle" /\ request.includeSections = {} /\ ~request.query =>
        \A i \in package.messages :
            LET p == events[i].payloadRef
            IN  p # 0 /\ StillRecent(payloads, request.sessionId, request.payloadLimit, p)
                    => p \in package.payloadRefs
=============================================================================
