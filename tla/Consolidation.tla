--------------------------- MODULE Consolidation ---------------------------
(***************************************************************************)
(* Consolidation of the event log into long-term memory: AppendEvent and   *)
(* Consolidate of BuiltinMemoryRuntime, with ConsolidationService and the  *)
(* tables of the SQLite store they read and write.                         *)
(*                                                                         *)
(* Several runtimes (processes) may share one database.  Threads of one    *)
(* runtime serialise on its consolidationMutex, which is held from the     *)
(* cursor load to the end of the commit, model call included; threads of   *)
(* different runtimes do not exclude each other.  Every store call is one  *)
(* step: it runs under the store's mutex, and a write transaction under    *)
(* SQLite's write lock (module LongTermStore takes it apart).              *)
(***************************************************************************)
EXTENDS ConsolidationBatch

CONSTANTS Agents, Sessions, EventTypes,
          Runtimes, Threads, RuntimeOf,
          Requests,
          NoThread,
          MaxLog,          \* bound on the rows of memory_events
          MaxSummaries     \* bound on the session rows of memory_summaries

Scopes == Agents \X (Sessions \cup {NoSession})
Events == [agentId : Agents, sessionId : Sessions, type : EventTypes]
RequestType == [agentId : Agents, sessionId : Sessions \cup {NoSession},
                maxEvents : Int, forceReprocess : BOOLEAN,
                excludedSessionIds : SUBSET Sessions]

ASSUME RequestsAssumption == Requests # {} /\ Requests \subseteq RequestType
ASSUME ThreadsAssumption == NoThread \notin Threads /\ RuntimeOf \in [Threads -> Runtimes]
ASSUME BoundsAssumption == MaxLog \in Nat /\ MaxSummaries \in Nat

VARIABLES
    events,              \* memory_events, the id of a row is its position
    cursors,             \* memory_consolidation_cursors, 0 where there is no row
    summaries,           \* session rows of memory_summaries with the events they digest
    skipped,             \* history: events a committed run passed over as excluded
    storeUp,             \* per runtime: CreateRuntimeServices opened the store
    consolidationMutex,  \* per runtime: the thread that holds it
    pc, request,         \* per thread: where it is in Consolidate, and for what
    startCursor,         \* per thread: the cursor it loaded
    snapshot,            \* per thread: the rows of memory_events its SELECT saw
    result               \* per thread: what its last Consolidate returned

database == <<events, cursors, summaries, skipped>>
locals == <<request, startCursor, snapshot>>
vars == <<database, storeUp, consolidationMutex, pc, locals, result>>

AnyRequest == CHOOSE q \in Requests : TRUE

Init ==
    /\ events = << >>
    /\ cursors = [s \in Scopes |-> 0]
    /\ summaries = << >>
    /\ skipped = [s \in Scopes |-> {}]
    /\ storeUp \in [Runtimes -> BOOLEAN]
    /\ consolidationMutex = [r \in Runtimes |-> NoThread]
    /\ pc = [t \in Threads |-> "idle"]
    /\ request = [t \in Threads |-> AnyRequest]
    /\ startCursor = [t \in Threads |-> 0]
    /\ snapshot = [t \in Threads |-> 0]
    /\ result = [t \in Threads |-> "none"]

-----------------------------------------------------------------------------
(* What a thread in the middle of a run works with.                        *)

Scope(t) == <<request[t].agentId, request[t].sessionId>>

Loaded(t) == LoadEventsAfterCursor(events, snapshot[t], request[t], startCursor[t])

Batch(t) == Build(events, request[t], Loaded(t))

\* The events that a run of t steps over because their session is excluded,
\* up to and including event n.
PassedOver(t, n) ==
    {i \in 1..n :
        /\ i > startCursor[t]
        /\ InScope(events[i], request[t].agentId, request[t].sessionId)
        /\ events[i].sessionId \in request[t].excludedSessionIds}

\* Mutant: the lock is not released.
ReturnStillLocked(t, outcome) ==
    /\ pc' = [pc EXCEPT ![t] = "idle"]
    /\ request' = [request EXCEPT ![t] = AnyRequest]
    /\ startCursor' = [startCursor EXCEPT ![t] = 0]
    /\ snapshot' = [snapshot EXCEPT ![t] = 0]
    /\ result' = [result EXCEPT ![t] = outcome]
    /\ UNCHANGED <<consolidationMutex, storeUp>>

\* lock_guard leaves its scope and the call returns.
Return(t, outcome) ==
    /\ consolidationMutex' = [consolidationMutex EXCEPT ![RuntimeOf[t]] = NoThread]
    /\ pc' = [pc EXCEPT ![t] = "idle"]
    /\ request' = [request EXCEPT ![t] = AnyRequest]
    /\ startCursor' = [startCursor EXCEPT ![t] = 0]
    /\ snapshot' = [snapshot EXCEPT ![t] = 0]
    /\ result' = [result EXCEPT ![t] = outcome]
    /\ UNCHANGED storeUp

-----------------------------------------------------------------------------
(* BuiltinMemoryRuntime::AppendEvent.  A failed insert changes nothing.    *)
AppendEvent(r, event) ==
    /\ storeUp[r]
    /\ Len(events) < MaxLog
    /\ events' = Append(events, event)
    /\ UNCHANGED <<cursors, summaries, skipped, storeUp, consolidationMutex, pc, locals, result>>

\* A caller enters Consolidate: with no store it is turned away at once,
\* otherwise it waits for consolidationMutex.
Call(t, req) ==
    /\ pc[t] = "idle"
    /\ Len(summaries) < MaxSummaries
    /\ IF storeUp[RuntimeOf[t]]
       THEN /\ pc' = [pc EXCEPT ![t] = "waiting"]
            /\ request' = [request EXCEPT ![t] = req]
            /\ result' = [result EXCEPT ![t] = "none"]
       ELSE /\ result' = [result EXCEPT ![t] = "error"]
            /\ UNCHANGED <<pc, request>>
    /\ UNCHANGED <<database, storeUp, consolidationMutex, startCursor, snapshot>>

\* Mutant: no lock around load, model call and commit.
AcquireUnlocked(t) ==
    /\ pc[t] = "waiting"
    /\ pc' = [pc EXCEPT ![t] = "locked"]
    /\ UNCHANGED <<database, storeUp, consolidationMutex, locals, result>>

Acquire(t) ==
    /\ pc[t] = "waiting"
    /\ consolidationMutex[RuntimeOf[t]] = NoThread
    /\ consolidationMutex' = [consolidationMutex EXCEPT ![RuntimeOf[t]] = t]
    /\ pc' = [pc EXCEPT ![t] = "locked"]
    /\ UNCHANGED <<database, storeUp, locals, result>>

\* Mutant: the run starts one event early.
LoadCursorEarly(t) ==
    /\ pc[t] = "locked"
    /\ startCursor' = [startCursor EXCEPT ![t] =
                          IF request[t].forceReprocess THEN 0 ELSE cursors[Scope(t)] - 1]
    /\ pc' = [pc EXCEPT ![t] = "started"]
    /\ UNCHANGED <<database, storeUp, consolidationMutex, request, snapshot, result>>

\* forceReprocess starts from the empty cursor.
LoadCursor(t) ==
    /\ pc[t] = "locked"
    /\ startCursor' = [startCursor EXCEPT ![t] =
                          IF request[t].forceReprocess THEN 0 ELSE cursors[Scope(t)]]
    /\ pc' = [pc EXCEPT ![t] = "started"]
    /\ UNCHANGED <<database, storeUp, consolidationMutex, request, snapshot, result>>

LoadEvents(t) ==
    /\ pc[t] = "started"
    /\ snapshot' = [snapshot EXCEPT ![t] = Len(events)]
    /\ pc' = [pc EXCEPT ![t] = "loaded"]
    /\ UNCHANGED <<database, storeUp, consolidationMutex, request, startCursor, result>>

\* An empty batch whose cursor stays: a successful no-op.
ReturnNothingToDo(t) ==
    /\ pc[t] = "loaded"
    /\ Batch(t).events = {}
    /\ Batch(t).nextCursor = 0
    /\ Return(t, "ok")
    /\ UNCHANGED database

\* An empty batch after some events: only the cursor is written.
CommitCursor(t) ==
    /\ pc[t] = "loaded"
    /\ Batch(t).events = {}
    /\ Batch(t).nextCursor # 0
    /\ cursors' = [cursors EXCEPT ![Scope(t)] = Batch(t).nextCursor]
    /\ skipped' = [skipped EXCEPT ![Scope(t)] = @ \cup PassedOver(t, Batch(t).nextCursor)]
    /\ Return(t, "ok")
    /\ UNCHANGED <<events, summaries>>

\* The model call, under the mutex.  No model, a failed call and an empty
\* answer fall back to the rule-based processor, so the run always goes on
\* with an update (what it holds is the subject of LongTermStore).
Process(t) ==
    /\ pc[t] = "loaded"
    /\ Batch(t).events # {}
    /\ pc' = [pc EXCEPT ![t] = "processed"]
    /\ UNCHANGED <<database, storeUp, consolidationMutex, request, startCursor, snapshot, result>>

\* Mutant: the cursor is not part of the transaction.
CommitWithoutCursor(t) ==
    /\ pc[t] = "processed"
    /\ summaries' = Append(summaries, [agentId |-> request[t].agentId,
                                       sessionId |-> request[t].sessionId,
                                       events |-> Batch(t).events])
    /\ Return(t, "ok")
    /\ UNCHANGED <<events, cursors, skipped>>

\* The transaction that writes session summary, update and cursor.  The code
\* saves the cursor if there is one; after a batch with events there is.
Commit(t) ==
    /\ pc[t] = "processed"
    /\ summaries' = Append(summaries, [agentId |-> request[t].agentId,
                                       sessionId |-> request[t].sessionId,
                                       events |-> Batch(t).events])
    /\ cursors' = [cursors EXCEPT ![Scope(t)] = Batch(t).nextCursor]
    /\ skipped' = [skipped EXCEPT ![Scope(t)] = @ \cup PassedOver(t, Batch(t).nextCursor)]
    /\ Return(t, "ok")
    /\ UNCHANGED events

\* A store call fails: the two loads return the error, a transaction is
\* rolled back (sqlite errors and SQLITE_BUSY from another runtime).  Or the
\* model client throws: the exception unwinds Consolidate, lock_guard included.
Fail(t) ==
    /\ \/ pc[t] = "locked" /\ ~request[t].forceReprocess
       \/ pc[t] = "started"
       \/ pc[t] = "loaded" /\ (Batch(t).events # {} \/ Batch(t).nextCursor # 0)
       \/ pc[t] = "processed"
    /\ Return(t, "error")
    /\ UNCHANGED database

\* The process of r dies and comes back: what its threads held is gone, the
\* committed rows stay.
Crash(r) ==
    /\ storeUp' \in {f \in [Runtimes -> BOOLEAN] : \A q \in Runtimes \ {r} : f[q] = storeUp[q]}
    /\ consolidationMutex' = [consolidationMutex EXCEPT ![r] = NoThread]
    /\ pc' = [t \in Threads |-> IF RuntimeOf[t] = r THEN "idle" ELSE pc[t]]
    /\ request' = [t \in Threads |-> IF RuntimeOf[t] = r THEN AnyRequest ELSE request[t]]
    /\ startCursor' = [t \in Threads |-> IF RuntimeOf[t] = r THEN 0 ELSE startCursor[t]]
    /\ snapshot' = [t \in Threads |-> IF RuntimeOf[t] = r THEN 0 ELSE snapshot[t]]
    /\ result' = [t \in Threads |-> IF RuntimeOf[t] = r THEN "none" ELSE result[t]]
    /\ UNCHANGED database

-----------------------------------------------------------------------------
Proceed(t) ==
    \/ Acquire(t)
    \/ LoadCursor(t)
    \/ LoadEvents(t)
    \/ ReturnNothingToDo(t)
    \/ CommitCursor(t)
    \/ Process(t)
    \/ Commit(t)

Next ==
    \/ \E r \in Runtimes, event \in Events : AppendEvent(r, event)
    \/ \E t \in Threads, req \in Requests : Call(t, req)
    \/ \E t \in Threads : Proceed(t) \/ Fail(t)
    \/ \E r \in Runtimes : Crash(r)

Spec == Init /\ [][Next]_vars

\* Scheduled threads run, a host keeps asking, and a mutex that stays free is
\* taken.  Failing and crashing is never required.
FairSpec ==
    /\ Spec
    /\ \A t \in Threads :
          /\ WF_vars(Proceed(t))
          /\ WF_vars(\E req \in Requests : Call(t, req))

-----------------------------------------------------------------------------
(* Properties.                                                             *)

\* Every variable holds a value of its table, lock or local.
TypeOK ==
    /\ events \in Seq(Events)
    /\ cursors \in [Scopes -> Nat]
    /\ summaries \in Seq([agentId : Agents, sessionId : Sessions \cup {NoSession},
                          events : SUBSET Nat])
    /\ skipped \in [Scopes -> SUBSET Nat]
    /\ storeUp \in [Runtimes -> BOOLEAN]
    /\ consolidationMutex \in [Runtimes -> Threads \cup {NoThread}]
    /\ pc \in [Threads -> {"idle", "waiting", "locked", "started", "loaded", "processed"}]
    /\ request \in [Threads -> Requests]
    /\ startCursor \in [Threads -> Nat]
    /\ snapshot \in [Threads -> Nat]
    /\ result \in [Threads -> {"none", "ok", "error"}]

\* Event i is digested by one of the given session summaries of scope s.
DigestedBy(rows, s, i) ==
    \E k \in 1..Len(rows) :
        /\ <<rows[k].agentId, rows[k].sessionId>> = s
        /\ i \in rows[k].events

\* Everything scope s needs of the log up to event n is in one of the rows
\* or among the events passed over.
Done(log, rows, passed, s, n) ==
    \A i \in 1..Len(log) :
        i <= n /\ InScope(log[i], s[1], s[2]) /\ log[i].type = Message
            => DigestedBy(rows, s, i) \/ i \in passed

\* Incremental runs only look past the cursor, so an event at or below it
\* that is in no summary is lost for good.  Whatever interleaving of appends,
\* runs of several threads and runtimes, forced runs, failures and crashes:
\* a message at or below its scope's saved cursor was digested, or a committed
\* run was told to exclude its session.
NoEventLost == \A s \in Scopes : Done(events, summaries, skipped[s], s, cursors[s])

SoleRuntime == \A r1, r2 \in Runtimes : r1 = r2

\* A run commits on top of the cursor that is saved at that moment (a forced
\* run on top of nothing), although it loaded it before the model call:
\* consolidationMutex spans load, call and commit.  Within one runtime.
StartCursorFresh ==
    SoleRuntime =>
        \A t \in Threads :
            pc[t] \in {"started", "loaded", "processed"} =>
                startCursor[t] = IF request[t].forceReprocess THEN 0 ELSE cursors[Scope(t)]

\* No event is digested twice for the same scope when one runtime serves the
\* database and no caller forces: concurrent callers, a failed commit or a
\* crash before the answer and the retry after it do not repeat work.
ExactlyOnce ==
    SoleRuntime /\ (\A req \in Requests : ~req.forceReprocess) =>
        \A j, k \in 1..Len(summaries) :
            /\ j # k
            /\ summaries[j].agentId = summaries[k].agentId
            /\ summaries[j].sessionId = summaries[k].sessionId
            => summaries[j].events \cap summaries[k].events = {}

\* A saved cursor moves back only when a forced run commits (it restarts at
\* the first event and may stop short of the old cursor).
CursorRegressesOnlyByForce ==
    [][SoleRuntime =>
        \A s \in Scopes : cursors'[s] < cursors[s] =>
            \E t \in Threads : Scope(t) = s /\ request[t].forceReprocess
                               /\ pc[t] # "idle" /\ pc'[t] = "idle"]_vars

Atomic ==
    INSTANCE AtomicConsolidation
        WITH events <- events, cursors <- cursors, summaries <- summaries

\* Refinement: seen through the database, the runs of one runtime's threads
\* are atomic, although appends, other callers, failures and crashes fall
\* between the cursor load, the event load, the model call and the commit.
RunsAreAtomic == Atomic!Spec

\* Once a thread holds consolidationMutex it gives it back: every path out of
\* Consolidate, error paths included, releases it.
MutexReleased ==
    \A r \in Runtimes, t \in Threads :
        consolidationMutex[r] = t ~> consolidationMutex[r] # t

\* When failures stop and the store is up, a host that keeps consolidating in
\* bounded batches catches up with the log: every message that its requests
\* cover reaches a summary, whatever lies between the messages.
BacklogDrains ==
    ((<>[][~\E t \in Threads : Fail(t)]_vars) /\ (<>[][~\E r \in Runtimes : Crash(r)]_vars)
        /\ (<>[](\A r \in Runtimes : storeUp[r]))) =>
    \A i \in 1..MaxLog, req \in Requests :
        (/\ i <= Len(events)
         /\ i \in Eligible(events, req, LoadEventsAfterCursor(events, i, req, 0)))
        ~> DigestedBy(summaries, <<req.agentId, req.sessionId>>, i)
=============================================================================
