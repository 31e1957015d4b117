--------------------------- MODULE LongTermStore ---------------------------
(***************************************************************************)
(* The write side of MemorySqliteStore on one connection: autocommit event *)
(* inserts, and RunInTransaction as ConsolidationService uses it through   *)
(* MemoryUpdateWriter (session summary, entities, relations, cursor, or    *)
(* the cursor alone).  Topic and profile summaries are plain inserts of    *)
(* the same transaction and add nothing to what is said here.              *)
(*                                                                         *)
(* disk is what SQLite has committed, view what the connection sees; they  *)
(* differ only while a transaction is open.  The store's mutex is held for *)
(* the whole of RunInTransaction, so other writers wait until it returns   *)
(* or an exception leaves it.  A failed statement makes the work return an *)
(* error and everything is rolled back, so the statements of one Save call *)
(* are one step.                                                           *)
(***************************************************************************)
EXTENDS Integers, FiniteSets

CONSTANTS Agents,           \* agent ids that are not empty
          EmptyAgent,       \* "", which a request may give as its agent
          Ids,              \* entity ids that are not empty
          EmptyId,          \* "", which a model may give as an id
          Names,            \* (type, name) pairs of entities
          Unnamed,          \* a pair with an empty part
          Triples,          \* the relations (from, type, to) the processors produce
          Superseded,       \* values of entity.supersededEntityId
          NoId,             \* NULL in superseded_by
          NoRow, NoAgent,
          MaxEvents,        \* bound on events
          MaxRuns,          \* bound on transactions begun
          MaxItems          \* bound on the entities and relations of an update

AllAgents == Agents \cup {EmptyAgent}
AllIds == Ids \cup {EmptyId}

ASSUME NamesAssumption ==
    /\ Unnamed \notin Names
    /\ EmptyId \notin Ids /\ NoId \notin AllIds
    /\ EmptyAgent \notin Agents /\ NoAgent \notin AllAgents
ASSUME SupersededAssumption == Superseded \subseteq AllIds
ASSUME StoreBounds == MaxEvents \in Nat /\ MaxRuns \in Nat /\ MaxItems \in Nat

Supersedes == "supersedes"

EntityRow == [agentId : AllAgents, name : Names \cup {Unnamed},
              active : BOOLEAN, supersededBy : AllIds \cup {NoId}]
RelationKey == AllAgents \X Triples

\* An end that the model leaves out is the empty id.
ASSUME TriplesAssumption == \A r \in Triples : r.from \in AllIds /\ r.to \in AllIds
ASSUME NoRowAssumption == NoRow \notin EntityRow

\* The tables: how many rows memory_events has, the runs whose session summary
\* and whose cursor are in, the entity rows, and per relation how many rows
\* are active (inactive ones are never read again).
Tables == [events : Nat, summaries : SUBSET Nat, cursorSaves : SUBSET Nat,
           entities : [AllIds -> EntityRow \cup {NoRow}],
           relations : [RelationKey -> Nat]]

EmptyTables == [events |-> 0, summaries |-> {}, cursorSaves |-> {},
                entities |-> [i \in AllIds |-> NoRow],
                relations |-> [k \in RelationKey |-> 0]]

VARIABLES
    disk, view,
    inTransaction,   \* sqlite3 has a transaction open on the connection
    phase,           \* where the work of RunInTransaction is; "idle" outside
    runAgent,        \* the agent of the running consolidation
    leftOpen,        \* history: an exception left the open transaction behind
    acked,           \* history: events whose SaveEvent reported success, those
                     \* aside that came while leftOpen
    runs,            \* transactions begun so far
    items,           \* entities and relations the running work has saved
    emptyRuns        \* history: the runs with an empty batch

vars == <<disk, view, inTransaction, phase, runAgent, leftOpen, acked, runs, items,
          emptyRuns>>

Init ==
    /\ disk = EmptyTables
    /\ view = EmptyTables
    /\ inTransaction = FALSE
    /\ phase = "idle"
    /\ runAgent = NoAgent
    /\ leftOpen = FALSE
    /\ acked = 0
    /\ runs = 0
    /\ items = 0
    /\ emptyRuns = {}

-----------------------------------------------------------------------------
(* The statements, as functions on the tables.                             *)

\* Mutants: only a new id deduplicates; superseded_by is bound to the name.
DeduplicateOnInsertOnly(entities, e) ==
    [i \in AllIds |->
        IF /\ e.id # EmptyId /\ e.agentId # EmptyAgent /\ e.name # Unnamed
           /\ entities[e.id] = NoRow
           /\ entities[i] # NoRow
           /\ entities[i].agentId = e.agentId /\ entities[i].name = e.name
           /\ i # e.id /\ entities[i].active
        THEN [entities[i] EXCEPT !.active = FALSE, !.supersededBy = e.id]
        ELSE entities[i]]
DeduplicateWrongBind(entities, e) ==
    [i \in AllIds |->
        IF /\ e.id # EmptyId /\ e.agentId # EmptyAgent /\ e.name # Unnamed
           /\ entities[i] # NoRow
           /\ entities[i].agentId = e.agentId /\ entities[i].name = e.name
           /\ i # e.id /\ entities[i].active
        THEN [entities[i] EXCEPT !.active = FALSE, !.supersededBy = e.name]
        ELSE entities[i]]

\* Nothing to do without an id, an agent, a type or a name.
MarkDuplicateEntitiesObsolete(entities, e) ==
    [i \in AllIds |->
        IF /\ e.id # EmptyId /\ e.agentId # EmptyAgent /\ e.name # Unnamed
           /\ entities[i] # NoRow
           /\ entities[i].agentId = e.agentId /\ entities[i].name = e.name
           /\ i # e.id /\ entities[i].active
        THEN [entities[i] EXCEPT !.active = FALSE, !.supersededBy = e.id]
        ELSE entities[i]]

\* The WHERE clause names the id alone; by is bound as it is, empty or not.
MarkEntityObsolete(entities, id, by) ==
    [i \in AllIds |->
        IF i = id /\ entities[i] # NoRow
        THEN [entities[i] EXCEPT !.active = FALSE, !.supersededBy = by]
        ELSE entities[i]]

\* entity.supersededEntityId, unless it is empty.
MarkSuperseded(entities, e) ==
    IF e.supersededEntityId = EmptyId THEN entities
    ELSE MarkEntityObsolete(entities, e.supersededEntityId, e.id)

\* Mutant: DO UPDATE SET leaves superseded_by alone.
SaveEntityKeepsMark(entities, e) ==
    MarkSuperseded(
        [MarkDuplicateEntitiesObsolete(entities, e) EXCEPT ![e.id] =
            [agentId |-> e.agentId, name |-> e.name, active |-> TRUE,
             supersededBy |-> IF @ = NoRow THEN NoId ELSE @.supersededBy]],
        e)

\* Deduplicate, then upsert on the id (agent and all), then retire the entity
\* that this one says it replaces.  isActive and supersededByEntityId have their
\* defaults, which no processor of the library changes.
SaveEntity(entities, e) ==
    MarkSuperseded(
        [MarkDuplicateEntitiesObsolete(entities, e) EXCEPT ![e.id] =
            [agentId |-> e.agentId, name |-> e.name, active |-> TRUE, supersededBy |-> NoId]],
        e)

\* Mutant: the older rows stay active.
RetireNothing(relations, k) == relations

\* UPDATE ... SET active = 0 for the same relation of the same agent.
RetireRelation(relations, k) == [relations EXCEPT ![k] = 0]

\* The INSERT adds an active row.
InsertRelation(relations, k) == [relations EXCEPT ![k] = @ + 1]

\* Retire the relation's active rows, insert a new one; "supersedes" also
\* retires its target, in the name of a source that may be empty.
SaveRelation(tables, a, r) ==
    [tables EXCEPT
        !.relations = InsertRelation(RetireRelation(@, <<a, r>>), <<a, r>>),
        !.entities = IF r.type = Supersedes THEN MarkEntityObsolete(@, r.to, r.from) ELSE @]

-----------------------------------------------------------------------------
\* MemorySqliteStore::SaveEvent under the mutex.  Inside an open transaction
\* the insert succeeds but only the connection sees it.
SaveEvent ==
    /\ phase = "idle"
    /\ view.events < MaxEvents
    /\ view' = [view EXCEPT !.events = @ + 1]
    /\ disk' = IF inTransaction THEN disk ELSE [disk EXCEPT !.events = @ + 1]
    /\ acked' = IF leftOpen THEN acked ELSE acked + 1
    /\ UNCHANGED <<inTransaction, phase, runAgent, leftOpen, runs, items, emptyRuns>>

\* BEGIN IMMEDIATE fails when a transaction is already open; then (and when
\* another connection holds the write lock) RunInTransaction returns at once.
Begin(a) ==
    /\ phase = "idle"
    /\ ~inTransaction
    /\ runs < MaxRuns
    /\ inTransaction' = TRUE
    /\ phase' = "summary"
    /\ runAgent' = a
    /\ runs' = runs + 1
    /\ items' = 0
    /\ UNCHANGED <<disk, view, leftOpen, acked, emptyRuns>>

\* The same for a batch without events: the work saves the cursor only.
BeginCursorOnly(a) ==
    /\ phase = "idle"
    /\ ~inTransaction
    /\ runs < MaxRuns
    /\ inTransaction' = TRUE
    /\ phase' = "cursor"
    /\ runAgent' = a
    /\ runs' = runs + 1
    /\ items' = 0
    /\ emptyRuns' = emptyRuns \cup {runs'}
    /\ UNCHANGED <<disk, view, leftOpen, acked>>

\* Mutant: the summary is written outside the transaction.
WriteSummaryAutocommit ==
    /\ phase = "summary"
    /\ view' = [view EXCEPT !.summaries = @ \cup {runs}]
    /\ disk' = [disk EXCEPT !.summaries = @ \cup {runs}]
    /\ phase' = "entities"
    /\ UNCHANGED <<inTransaction, runAgent, leftOpen, acked, runs, items, emptyRuns>>

WriteSessionSummary ==
    /\ phase = "summary"
    /\ view' = [view EXCEPT !.summaries = @ \cup {runs}]
    /\ phase' = "entities"
    /\ UNCHANGED <<disk, inTransaction, runAgent, leftOpen, acked, runs, items, emptyRuns>>

\* One entity of the update, in the name of the run's agent.  It may say which
\* entity it replaces; the field is there for processors of the host, the
\* shipped ones leave it empty (Superseded is {EmptyId}).
WriteEntity(id, name, superseded) ==
    /\ phase = "entities"
    /\ items < MaxItems
    /\ items' = items + 1
    /\ view' = [view EXCEPT !.entities =
                   SaveEntity(@, [id |-> id, agentId |-> runAgent, name |-> name,
                                  supersededEntityId |-> superseded])]
    /\ UNCHANGED <<disk, inTransaction, phase, runAgent, leftOpen, acked, runs, emptyRuns>>

\* All relations come after all entities.
EntitiesWritten ==
    /\ phase = "entities"
    /\ phase' = "relations"
    /\ UNCHANGED <<disk, view, inTransaction, runAgent, leftOpen, acked, runs, items, emptyRuns>>

WriteRelation(r) ==
    /\ phase = "relations"
    /\ items < MaxItems
    /\ items' = items + 1
    /\ view' = SaveRelation(view, runAgent, r)
    /\ UNCHANGED <<disk, inTransaction, phase, runAgent, leftOpen, acked, runs, emptyRuns>>

WriteCursor ==
    /\ phase \in {"relations", "cursor"}
    /\ view' = [view EXCEPT !.cursorSaves = @ \cup {runs}]
    /\ phase' = "commit"
    /\ UNCHANGED <<disk, inTransaction, runAgent, leftOpen, acked, runs, items, emptyRuns>>

\* The work returned: its result decides between COMMIT and ROLLBACK.
Return(tables) ==
    /\ disk' = tables
    /\ view' = tables
    /\ inTransaction' = FALSE
    /\ phase' = "idle"
    /\ runAgent' = NoAgent
    /\ UNCHANGED <<leftOpen, acked, runs, items, emptyRuns>>

Commit == phase = "commit" /\ Return(view)

\* Mutants: an error path without ROLLBACK, and one that commits.
RollbackForgotten ==
    /\ phase # "idle"
    /\ phase' = "idle"
    /\ runAgent' = NoAgent
    /\ UNCHANGED <<disk, view, inTransaction, leftOpen, acked, runs, items, emptyRuns>>
RollbackCommits == phase # "idle" /\ Return(view)

\* A statement or the COMMIT failed.
Rollback == phase # "idle" /\ Return(disk)

\* An exception leaves the work (the JSON dump of source refs or metadata
\* throws on a string that is not UTF-8): RunInTransaction has no handler, so
\* the lock_guard unlocks and nobody rolls back.
Throw ==
    /\ phase \in {"summary", "entities", "relations"}
    /\ phase' = "idle"
    /\ runAgent' = NoAgent
    /\ leftOpen' = TRUE
    /\ UNCHANGED <<disk, view, inTransaction, acked, runs, items, emptyRuns>>

\* The connection goes away, by the destructor's ROLLBACK and close or with
\* the process, and a new one opens the file.
Reopen ==
    /\ view' = disk
    /\ inTransaction' = FALSE
    /\ phase' = "idle"
    /\ runAgent' = NoAgent
    /\ leftOpen' = FALSE
    /\ UNCHANGED <<disk, acked, runs, items, emptyRuns>>

Next ==
    \/ SaveEvent
    \/ \E a \in AllAgents : Begin(a) \/ BeginCursorOnly(a)
    \/ WriteSessionSummary
    \/ \E id \in AllIds, name \in Names \cup {Unnamed}, s \in Superseded :
          WriteEntity(id, name, s)
    \/ EntitiesWritten
    \/ \E r \in Triples : WriteRelation(r)
    \/ WriteCursor
    \/ Commit
    \/ Rollback
    \/ Throw
    \/ Reopen

Spec == Init /\ [][Next]_vars

-----------------------------------------------------------------------------
(* Properties.                                                             *)

\* Tables, transaction flag and counters hold values of their kind.
TypeOK ==
    /\ disk \in Tables /\ view \in Tables
    /\ inTransaction \in BOOLEAN /\ leftOpen \in BOOLEAN
    /\ phase \in {"idle", "summary", "entities", "relations", "cursor", "commit"}
    /\ runAgent \in AllAgents \cup {NoAgent}
    /\ acked \in Nat /\ runs \in Nat /\ items \in Nat /\ emptyRuns \subseteq Nat

OneActivePerName(entities) ==
    \A i, j \in Ids :
        /\ entities[i] # NoRow /\ entities[j] # NoRow
        /\ entities[i].active /\ entities[j].active
        /\ entities[i].agentId = entities[j].agentId /\ entities[i].agentId # EmptyAgent
        /\ entities[i].name = entities[j].name /\ entities[i].name # Unnamed
        => i = j

\* Deduplication: an agent never has two active entities of one type and name
\* under ids that are not empty, whatever ids a model makes up, reuses or
\* renames, whatever is superseded, and also between the statements of a
\* transaction.  (Saving "" under a name in use retires nobody: that row stays
\* active beside the other until the name is saved again under an id.)
UniqueActiveEntity == OneActivePerName(disk.entities) /\ OneActivePerName(view.entities)

\* Repeating a relation, in one update or in later ones, leaves one active
\* row, so context and search show it once.
UniqueActiveRelation ==
    \A k \in RelationKey : disk.relations[k] <= 1 /\ view.relations[k] <= 1

\* superseded_by is NULL in the active rows and in no other: re-saving an id
\* clears the mark of its retirement, every retirement sets one, be it by
\* deduplication, by supersededEntityId or by a relation, in any order.
MarkedWhenRetired ==
    \A i \in AllIds : view.entities[i] # NoRow =>
        (view.entities[i].active <=> view.entities[i].supersededBy = NoId)

\* A consolidation is committed as a whole: there is never a session summary
\* on disk whose run's cursor is not saved (its events would be digested
\* again), nor a cursor whose run's summary is missing (they would be lost),
\* whatever step fails, throws or dies.
SummaryAndCursorTogether ==
    disk.summaries \cup (emptyRuns \cap disk.cursorSaves) = disk.cursorSaves

\* An event that AppendEvent reported as saved survives failures, rollbacks
\* and crashes: no acknowledged insert lands in a transaction that is undone,
\* but for one that an exception left open (see FailedRunRolledBack), and
\* what was durable before the exception stays so.
AckedEventsDurable == acked = disk.events

\* "When the transaction fails, long-term memory and cursor roll back together"
\* (docs/consolidation_design.md:111), by whatever it fails: outside a run
\* nothing uncommitted is left on the connection.
FailedRunRolledBack == phase = "idle" => view = disk /\ ~inTransaction

Durable ==
    INSTANCE DurableStore
        WITH Runs <- 1..MaxRuns,
             NoKnowledge <- <<EmptyTables.entities, EmptyTables.relations>>,
             log <- disk.events,
             digests <- disk.summaries,
             cursors <- disk.cursorSaves,
             knowledge <- <<disk.entities, disk.relations>>

\* Refinement: statement by statement, with failures, exceptions, rollbacks and
\* lost connections in between, the file changes by single events and by whole
\* runs only, the entity and relation tables included.
OnlyWholeRunsCommit == Durable!Spec

\* An entity row belongs to its agent: only a run of that agent changes it
\* ("Stable entity id within an agent namespace").
EntitiesStayInNamespace ==
    [][\A i \in AllIds :
          disk.entities[i] # NoRow /\ disk'.entities[i] # disk.entities[i]
             => disk.entities[i].agentId = runAgent]_vars
=============================================================================
