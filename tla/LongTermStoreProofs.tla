------------------------ MODULE LongTermStoreProofs ------------------------
(***************************************************************************)
(* Proofs about LongTermStore, for every set of agents, ids, names and     *)
(* relations, every bound, and with or without exceptions.                 *)
(***************************************************************************)
EXTENDS LongTermStore, TLAPS

-----------------------------------------------------------------------------
(* The statements on the entity and relation tables.                       *)

EntityTable == [AllIds -> EntityRow \cup {NoRow}]

\* The rows of a table agree on what retirement leaves behind.
MarksAgree(entities) ==
    \A i \in AllIds : entities[i] # NoRow =>
        (entities[i].active <=> entities[i].supersededBy = NoId)

\* What every statement keeps of the entity table.
GoodEntities(entities) ==
    entities \in EntityTable /\ OneActivePerName(entities) /\ MarksAgree(entities)

\* Retiring an entity by id, whoever owns it, keeps the table good.
LEMMA MarkEntityObsoleteKeeps ==
    ASSUME NEW entities, GoodEntities(entities), NEW id, NEW by \in AllIds
    PROVE  GoodEntities(MarkEntityObsolete(entities, id, by))
<1> DEFINE new == MarkEntityObsolete(entities, id, by)
<1>0. by # NoId /\ NoRow \notin EntityRow
  BY NamesAssumption, NoRowAssumption
<1>1. \A i \in AllIds : new[i] = IF i = id /\ entities[i] # NoRow
                              THEN [entities[i] EXCEPT !.active = FALSE, !.supersededBy = by]
                              ELSE entities[i]
  BY DEF MarkEntityObsolete
<1>2. \A i \in AllIds : entities[i] # NoRow => entities[i] \in EntityRow
  BY DEF GoodEntities, EntityTable
<1>3. ASSUME NEW i \in AllIds, entities[i] # NoRow
      PROVE  LET row == [entities[i] EXCEPT !.active = FALSE, !.supersededBy = by]
             IN  /\ row \in EntityRow /\ row # NoRow
                 /\ row.agentId = entities[i].agentId /\ row.name = entities[i].name
                 /\ row.active = FALSE /\ row.supersededBy = by
  BY <1>0, <1>2, <1>3 DEF EntityRow
<1>4. new \in EntityTable
  <2>1. \A i \in AllIds : new[i] \in EntityRow \cup {NoRow}
    BY <1>1, <1>2, <1>3
  <2>2. new = [i \in AllIds |-> new[i]]
    BY DEF MarkEntityObsolete
  <2>3. QED
    BY <2>1, <2>2 DEF EntityTable
<1> HIDE DEF new
<1>5. \A i \in AllIds : new[i] # NoRow /\ new[i].active => new[i] = entities[i]
  BY <1>1, <1>3
<1>6. OneActivePerName(new)
  BY <1>5 DEF OneActivePerName, GoodEntities, AllIds
<1>7. MarksAgree(new)
  BY <1>0, <1>1, <1>3 DEF MarksAgree, GoodEntities
<1>8. QED
  BY <1>4, <1>6, <1>7 DEF GoodEntities, new

\* Deduplicating, inserting or updating, and retiring the replaced entity
\* together keep the table good: afterwards a row with an id is the only active one
\* of its agent and name, although the id may have belonged to another agent or
\* had another name; a row without one retires nobody and counts for nobody.
LEMMA SaveEntityKeeps ==
    ASSUME NEW entities, GoodEntities(entities), NEW id \in AllIds, NEW a \in AllAgents,
           NEW name \in Names \cup {Unnamed}, NEW superseded
    PROVE  GoodEntities(SaveEntity(entities, [id |-> id, agentId |-> a, name |-> name,
                                              supersededEntityId |-> superseded]))
<1> DEFINE e == [id |-> id, agentId |-> a, name |-> name, supersededEntityId |-> superseded]
           marked == MarkDuplicateEntitiesObsolete(entities, e)
           row == [agentId |-> a, name |-> name, active |-> TRUE, supersededBy |-> NoId]
           new == [marked EXCEPT ![id] = row]
           Old(i) == [entities[i] EXCEPT !.active = FALSE, !.supersededBy = id]
           Duplicate(i) == /\ id # EmptyId /\ a # EmptyAgent
                           /\ name # Unnamed /\ entities[i] # NoRow
                           /\ entities[i].agentId = a /\ entities[i].name = name
                           /\ i # id /\ entities[i].active
<1>0. id # NoId /\ NoRow \notin EntityRow
  BY NamesAssumption, NoRowAssumption
<1>1. \A i \in AllIds : marked[i] = IF Duplicate(i) THEN Old(i) ELSE entities[i]
  BY DEF MarkDuplicateEntitiesObsolete
<1>2. \A i \in AllIds : entities[i] # NoRow => entities[i] \in EntityRow
  BY DEF GoodEntities, EntityTable
<1>3. ASSUME NEW i \in AllIds, entities[i] # NoRow
      PROVE  /\ Old(i) \in EntityRow /\ Old(i) # NoRow
             /\ Old(i).active = FALSE /\ Old(i).supersededBy = id
  BY <1>0, <1>2, <1>3 DEF EntityRow
<1>4. marked = [i \in AllIds |-> marked[i]]
  BY DEF MarkDuplicateEntitiesObsolete
<1>5. row \in EntityRow /\ row # NoRow
  <2>1. row \in EntityRow
    BY DEF EntityRow
  <2>2. QED
    BY <1>0, <2>1
<1>6. \A i \in AllIds : new[i] = IF i = id THEN row ELSE marked[i]
  BY <1>4
<1>7. new = [i \in AllIds |-> new[i]]
  BY <1>4
<1>8. SaveEntity(entities, e) = IF superseded = EmptyId THEN new
                                ELSE MarkEntityObsolete(new, superseded, id)
  BY DEF SaveEntity, MarkSuperseded
<1> HIDE DEF marked, new, row, Old
<1>9. new \in EntityTable
  <2>1. \A i \in AllIds : new[i] \in EntityRow \cup {NoRow}
    BY <1>1, <1>2, <1>3, <1>5, <1>6
  <2>2. QED
    BY <1>7, <2>1 DEF EntityTable
<1>10. \A i \in AllIds : i # id /\ new[i] # NoRow /\ new[i].active =>
          /\ new[i] = entities[i]
          /\ \/ id = EmptyId \/ a = EmptyAgent \/ name = Unnamed
             \/ entities[i].agentId # a \/ entities[i].name # name
  BY <1>1, <1>3, <1>6
<1>11. new[id].agentId = a /\ new[id].name = name /\ new[id].active /\ new[id].supersededBy = NoId
  BY <1>6 DEF row
<1>12. OneActivePerName(new)
  <2> SUFFICES ASSUME NEW i \in Ids, NEW j \in Ids, i # j,
                      new[i] # NoRow, new[j] # NoRow, new[i].active, new[j].active,
                      new[i].agentId = new[j].agentId, new[i].agentId # EmptyAgent,
                      new[i].name = new[j].name, new[i].name # Unnamed
               PROVE  FALSE
    BY DEF OneActivePerName
  <2>0. i \in AllIds /\ j \in AllIds /\ i # EmptyId /\ j # EmptyId
    BY NamesAssumption DEF AllIds
  <2>1. CASE i = id
    BY <1>10, <1>11, <2>0, <2>1
  <2>2. CASE j = id
    BY <1>10, <1>11, <2>0, <2>2
  <2>3. CASE i # id /\ j # id
    BY <1>10, <2>0, <2>3 DEF GoodEntities, OneActivePerName
  <2>4. QED
    BY <2>1, <2>2, <2>3
<1>13. MarksAgree(new)
  <2> SUFFICES ASSUME NEW i \in AllIds, new[i] # NoRow
               PROVE  new[i].active <=> new[i].supersededBy = NoId
    BY DEF MarksAgree
  <2>1. CASE i = id
    BY <1>11, <2>1
  <2>2. CASE i # id /\ Duplicate(i)
    <3>1. new[i] = Old(i)
      BY <1>1, <1>6, <2>2
    <3>2. QED
      BY <1>0, <1>3, <2>2, <3>1
  <2>3. CASE i # id /\ ~Duplicate(i)
    <3>1. new[i] = entities[i]
      BY <1>1, <1>6, <2>3
    <3>2. QED
      BY <3>1 DEF GoodEntities, MarksAgree
  <2>4. QED
    BY <2>1, <2>2, <2>3
<1>14. GoodEntities(new)
  BY <1>9, <1>12, <1>13 DEF GoodEntities
<1>15. GoodEntities(MarkEntityObsolete(new, superseded, id))
  BY <1>14, MarkEntityObsoleteKeeps
<1>16. QED
  BY <1>8, <1>14, <1>15

-----------------------------------------------------------------------------
(* The tables as a whole.                                                  *)

\* What every state of the file and of the connection satisfies.
GoodTables(tables) ==
    /\ tables \in Tables
    /\ GoodEntities(tables.entities)
    /\ \A k \in RelationKey : tables.relations[k] <= 1

\* Two states of the tables in which the bookkeeping of the runs is the same.
SameBooks(old, new) ==
    /\ new.events = old.events
    /\ new.summaries = old.summaries /\ new.cursorSaves = old.cursorSaves

\* A new database is in order.
LEMMA EmptyTablesGood == GoodTables(EmptyTables)
<1>1. EmptyTables \in Tables
  BY DEF EmptyTables, Tables
<1>2. GoodEntities(EmptyTables.entities)
  BY DEF EmptyTables, GoodEntities, EntityTable, OneActivePerName, MarksAgree, AllIds
<1>3. \A k \in RelationKey : EmptyTables.relations[k] <= 1
  BY DEF EmptyTables
<1>4. QED
  BY <1>1, <1>2, <1>3 DEF GoodTables

\* Statements on the other tables leave entities and relations as they are.
LEMMA InsertsKeep ==
    ASSUME NEW tables, GoodTables(tables), NEW n \in Nat
    PROVE  /\ GoodTables([tables EXCEPT !.events = @ + 1])
           /\ GoodTables([tables EXCEPT !.summaries = @ \cup {n}])
           /\ GoodTables([tables EXCEPT !.cursorSaves = @ \cup {n}])
BY DEF GoodTables, Tables

\* SaveEntity on the connection.
LEMMA SaveEntityTables ==
    ASSUME NEW tables, GoodTables(tables), NEW id \in AllIds, NEW a \in AllAgents,
           NEW name \in Names \cup {Unnamed}, NEW superseded
    PROVE  LET new == [tables EXCEPT !.entities =
                         SaveEntity(@, [id |-> id, agentId |-> a, name |-> name,
                                        supersededEntityId |-> superseded])]
           IN  GoodTables(new) /\ SameBooks(tables, new)
<1> DEFINE entities == SaveEntity(tables.entities, [id |-> id, agentId |-> a, name |-> name,
                                                   supersededEntityId |-> superseded])
<1>1. GoodEntities(entities)
  BY SaveEntityKeeps DEF GoodTables
<1> HIDE DEF entities
<1>2. GoodTables([tables EXCEPT !.entities = entities])
      /\ SameBooks(tables, [tables EXCEPT !.entities = entities])
  BY <1>1 DEF GoodTables, Tables, GoodEntities, EntityTable, SameBooks
<1>3. QED
  BY <1>2 DEF entities

\* SaveRelation: one active row afterwards, whatever there was before.
LEMMA SaveRelationTables ==
    ASSUME NEW tables, GoodTables(tables), NEW a \in AllAgents, NEW r \in Triples
    PROVE  GoodTables(SaveRelation(tables, a, r)) /\ SameBooks(tables, SaveRelation(tables, a, r))
<1> DEFINE relations == InsertRelation(RetireRelation(tables.relations, <<a, r>>), <<a, r>>)
           entities == IF r.type = Supersedes THEN MarkEntityObsolete(tables.entities, r.to, r.from)
                       ELSE tables.entities
           new == [tables EXCEPT !.relations = relations, !.entities = entities]
<1>1. tables \in Tables /\ <<a, r>> \in RelationKey
  BY DEF GoodTables, RelationKey
<1>2. relations \in [RelationKey -> Nat] /\ \A k \in RelationKey : relations[k] <= 1
  <2>1. tables.relations \in [RelationKey -> Nat]
    BY <1>1 DEF Tables
  <2>2. \A k \in RelationKey : tables.relations[k] <= 1
    BY DEF GoodTables
  <2>3. QED
    BY <1>1, <2>1, <2>2 DEF RetireRelation, InsertRelation
<1>3. GoodEntities(entities)
  BY MarkEntityObsoleteKeeps, TriplesAssumption DEF GoodTables
<1>4. SaveRelation(tables, a, r) = new
  BY DEF SaveRelation
<1> HIDE DEF relations, entities
<1>5. GoodTables(new) /\ SameBooks(tables, new)
  BY <1>1, <1>2, <1>3 DEF GoodTables, Tables, GoodEntities, EntityTable, SameBooks
<1>6. QED
  BY <1>4, <1>5

-----------------------------------------------------------------------------
(* The inductive invariant: what the connection sees, compared with the    *)
(* file, at each place of the work.                                        *)

\* What the two parts of a run have put on the connection.
SummaryIn == view.summaries = disk.summaries \cup {runs}
NothingLearned ==
    /\ view.summaries = disk.summaries
    /\ view.entities = disk.entities /\ view.relations = disk.relations

RunOK ==
    /\ ~inTransaction => view = disk /\ phase = "idle"
    /\ phase # "idle" =>
          /\ runAgent \in AllAgents /\ runs \in 1..MaxRuns
          /\ view.events = disk.events /\ runs \notin disk.cursorSaves
    /\ phase \in {"summary", "cursor"} => view = disk
    /\ phase \in {"summary", "entities", "relations"} => runs \notin emptyRuns
    /\ phase = "cursor" => runs \in emptyRuns
    /\ phase \in {"entities", "relations"} => SummaryIn /\ view.cursorSaves = disk.cursorSaves
    /\ phase = "commit" =>
          /\ view.cursorSaves = disk.cursorSaves \cup {runs}
          /\ IF runs \in emptyRuns THEN NothingLearned ELSE SummaryIn

\* The runs in the file are runs that began, and each with events has both parts.
HistoryOK ==
    /\ disk.cursorSaves \subseteq 1..runs
    /\ emptyRuns \subseteq 1..runs
    /\ disk.summaries = disk.cursorSaves \ emptyRuns

StoreInv == TypeOK /\ GoodTables(disk) /\ GoodTables(view) /\ RunOK /\ HistoryOK

\* A new database satisfies the invariant.
LEMMA StoreInvInitially == Init => StoreInv
<1> SUFFICES ASSUME Init PROVE StoreInv
  OBVIOUS
<1>1. GoodTables(disk) /\ GoodTables(view)
  BY EmptyTablesGood DEF Init
<1>2. TypeOK
  BY <1>1 DEF Init, TypeOK, GoodTables
<1>3. RunOK
  BY DEF Init, RunOK
<1>4. HistoryOK
  BY DEF Init, HistoryOK, EmptyTables
<1>5. QED
  BY <1>1, <1>2, <1>3, <1>4 DEF StoreInv

\* Steps that leave the tables alone, or change the event table only.
LEMMA OutsideSteps ==
    ASSUME StoreInv,
           \/ SaveEvent \/ EntitiesWritten \/ Throw
           \/ \E a \in AllAgents : Begin(a) \/ BeginCursorOnly(a)
           \/ UNCHANGED vars
    PROVE  StoreInv'
<1>0. TypeOK /\ GoodTables(disk) /\ GoodTables(view) /\ RunOK /\ HistoryOK
  BY DEF StoreInv
<1>1. CASE SaveEvent
  <2>1. GoodTables(disk)' /\ GoodTables(view)'
    BY <1>0, <1>1, InsertsKeep DEF SaveEvent
  <2>2. TypeOK'
    BY <1>0, <1>1, <2>1 DEF SaveEvent, TypeOK, GoodTables
  <2>3. RunOK' /\ HistoryOK'
    BY <1>0, <1>1 DEF SaveEvent, TypeOK, Tables, RunOK, HistoryOK
  <2>4. QED
    BY <2>1, <2>2, <2>3 DEF StoreInv
<1>2. CASE EntitiesWritten
  BY <1>0, <1>2 DEF EntitiesWritten, StoreInv, TypeOK, RunOK, HistoryOK, SummaryIn, NothingLearned
<1>3. CASE Throw
  BY <1>0, <1>3 DEF Throw, StoreInv, TypeOK, RunOK, HistoryOK
<1>4. ASSUME NEW a \in AllAgents, Begin(a)
      PROVE  StoreInv'
  <2>1. runs \in Nat /\ runs' = runs + 1 /\ runs' \in 1..MaxRuns
    BY <1>0, <1>4, StoreBounds DEF Begin, TypeOK
  <2>2. HistoryOK' /\ runs' \notin disk.cursorSaves' /\ runs' \notin emptyRuns'
    BY <1>0, <1>4, <2>1 DEF Begin, HistoryOK
  <2>3. TypeOK' /\ GoodTables(disk)' /\ GoodTables(view)'
    BY <1>0, <1>4, <2>1 DEF Begin, TypeOK
  <2>4. RunOK'
    BY <1>0, <1>4, <2>1, <2>2 DEF Begin, RunOK
  <2>5. QED
    BY <2>2, <2>3, <2>4 DEF StoreInv
<1>5. ASSUME NEW a \in AllAgents, BeginCursorOnly(a)
      PROVE  StoreInv'
  <2>1. runs \in Nat /\ runs' = runs + 1 /\ runs' \in 1..MaxRuns
    BY <1>0, <1>5, StoreBounds DEF BeginCursorOnly, TypeOK
  <2>2. HistoryOK' /\ runs' \notin disk.cursorSaves' /\ runs' \in emptyRuns'
    BY <1>0, <1>5, <2>1 DEF BeginCursorOnly, HistoryOK
  <2>3. TypeOK' /\ GoodTables(disk)' /\ GoodTables(view)'
    BY <1>0, <1>5, <2>1 DEF BeginCursorOnly, TypeOK
  <2>4. RunOK'
    BY <1>0, <1>5, <2>1, <2>2 DEF BeginCursorOnly, RunOK
  <2>5. QED
    BY <2>2, <2>3, <2>4 DEF StoreInv
<1>6. CASE UNCHANGED vars
  BY <1>0, <1>6 DEF vars, StoreInv, TypeOK, RunOK, HistoryOK, SummaryIn, NothingLearned
<1>7. QED
  BY <1>1, <1>2, <1>3, <1>4, <1>5, <1>6

\* A statement of the work changes the connection's view and nothing else.
LEMMA WorkSteps ==
    ASSUME StoreInv,
           \/ WriteSessionSummary
           \/ \E id \in AllIds, name \in Names \cup {Unnamed}, s \in Superseded :
                 WriteEntity(id, name, s)
           \/ \E r \in Triples : WriteRelation(r)
           \/ WriteCursor
    PROVE  StoreInv'
<1>0. TypeOK /\ GoodTables(disk) /\ GoodTables(view) /\ RunOK /\ HistoryOK
  BY DEF StoreInv
<1>1. disk \in Tables /\ view \in Tables /\ runs \in Nat
  BY <1>0 DEF TypeOK
<1>2. CASE WriteSessionSummary
  <2>1. GoodTables(view)'
    BY <1>0, <1>1, <1>2, InsertsKeep DEF WriteSessionSummary
  <2>2. TypeOK'
    BY <1>0, <1>2, <2>1 DEF WriteSessionSummary, TypeOK, GoodTables
  <2>3. /\ view'.summaries = view.summaries \cup {runs}
        /\ view'.events = view.events /\ view'.cursorSaves = view.cursorSaves
    BY <1>1, <1>2 DEF WriteSessionSummary, Tables
  <2>4. RunOK' /\ HistoryOK'
    BY <1>0, <1>2, <2>3 DEF WriteSessionSummary, RunOK, HistoryOK, SummaryIn
  <2>5. QED
    BY <1>0, <1>2, <2>1, <2>2, <2>4 DEF StoreInv, WriteSessionSummary
<1>3. ASSUME NEW id \in AllIds, NEW name \in Names \cup {Unnamed}, NEW s \in Superseded,
             WriteEntity(id, name, s)
      PROVE  StoreInv'
  <2>1. runAgent \in AllAgents
    BY <1>0, <1>3 DEF WriteEntity, RunOK
  <2>2. GoodTables(view)' /\ SameBooks(view, view')
    BY <1>0, <1>3, <2>1, SaveEntityTables DEF WriteEntity
  <2>3. TypeOK'
    BY <1>0, <1>3, <2>2 DEF WriteEntity, TypeOK, GoodTables
  <2>4. RunOK' /\ HistoryOK'
    BY <1>0, <1>3, <2>2 DEF WriteEntity, RunOK, HistoryOK, SummaryIn, SameBooks
  <2>5. QED
    BY <1>0, <1>3, <2>2, <2>3, <2>4 DEF StoreInv, WriteEntity
<1>4. ASSUME NEW r \in Triples, WriteRelation(r)
      PROVE  StoreInv'
  <2>1. runAgent \in AllAgents
    BY <1>0, <1>4 DEF WriteRelation, RunOK
  <2>2. GoodTables(view)' /\ SameBooks(view, view')
    BY <1>0, <1>4, <2>1, SaveRelationTables DEF WriteRelation
  <2>3. TypeOK'
    BY <1>0, <1>4, <2>2 DEF WriteRelation, TypeOK, GoodTables
  <2>4. RunOK' /\ HistoryOK'
    BY <1>0, <1>4, <2>2 DEF WriteRelation, RunOK, HistoryOK, SummaryIn, SameBooks
  <2>5. QED
    BY <1>0, <1>4, <2>2, <2>3, <2>4 DEF StoreInv, WriteRelation
<1>5. CASE WriteCursor
  <2>1. GoodTables(view)'
    BY <1>0, <1>1, <1>5, InsertsKeep DEF WriteCursor
  <2>2. TypeOK'
    BY <1>0, <1>5, <2>1 DEF WriteCursor, TypeOK, GoodTables
  <2>3. /\ view'.cursorSaves = view.cursorSaves \cup {runs}
        /\ view'.events = view.events /\ view'.summaries = view.summaries
        /\ view'.entities = view.entities /\ view'.relations = view.relations
    BY <1>1, <1>5 DEF WriteCursor, Tables
  <2>4. RunOK' /\ HistoryOK'
    BY <1>0, <1>5, <2>3 DEF WriteCursor, RunOK, HistoryOK, SummaryIn, NothingLearned
  <2>5. QED
    BY <1>0, <1>5, <2>1, <2>2, <2>4 DEF StoreInv, WriteCursor
<1>6. QED
  BY <1>2, <1>3, <1>4, <1>5

\* Committing, rolling back and losing the connection.
LEMMA EndSteps ==
    ASSUME StoreInv, Commit \/ Rollback \/ Reopen
    PROVE  StoreInv'
<1>0. TypeOK /\ GoodTables(disk) /\ GoodTables(view) /\ RunOK /\ HistoryOK
  BY DEF StoreInv
<1>1. CASE Commit
  <2>1. /\ disk' = view /\ view' = view /\ ~inTransaction' /\ phase' = "idle"
        /\ UNCHANGED <<leftOpen, acked, runs, items, emptyRuns>>
        /\ runAgent' = NoAgent /\ inTransaction' = FALSE
    BY <1>1 DEF Commit, Return
  <2>2. runs \in 1..runs
    BY <1>0, <1>1 DEF Commit, RunOK
  <2>3. HistoryOK'
    BY <1>0, <1>1, <2>1, <2>2 DEF Commit, RunOK, HistoryOK, SummaryIn, NothingLearned
  <2>4. TypeOK' /\ RunOK' /\ GoodTables(disk)' /\ GoodTables(view)'
    BY <1>0, <2>1 DEF TypeOK, RunOK
  <2>5. QED
    BY <2>3, <2>4 DEF StoreInv
<1>2. CASE Rollback \/ Reopen
  BY <1>0, <1>2 DEF Rollback, Reopen, Return, StoreInv, TypeOK, RunOK, HistoryOK
<1>3. QED
  BY <1>1, <1>2

\* Every action keeps the invariant.
LEMMA StoreInvInductive ==
    ASSUME StoreInv, [Next]_vars
    PROVE  StoreInv'
BY OutsideSteps, WorkSteps, EndSteps DEF Next

\* The invariant holds throughout.
LEMMA StoreInvAlways == Spec => []StoreInv
<1>1. StoreInv /\ [Next]_vars => StoreInv'
  BY StoreInvInductive
<1>2. QED
  BY <1>1, StoreInvInitially, PTL DEF Spec

-----------------------------------------------------------------------------
(* Results.                                                                *)

\* Type correctness of the store: rows, counters and the place of the work,
\* through all statements, rollbacks, exceptions and lost connections.
THEOREM TypeCorrect == Spec => []TypeOK
<1>1. StoreInv => TypeOK
  BY DEF StoreInv
<1>2. QED
  BY <1>1, StoreInvAlways, PTL

\* MarkDuplicateEntitiesObsolete and the upsert of SaveEntityUnlocked leave an
\* agent at most one active entity of a type and name under ids that are not
\* empty, in the file and on the connection, whatever ids a model reuses and
\* whatever it saves without an id.
THEOREM EntitiesUnique == Spec => []UniqueActiveEntity
<1>1. StoreInv => UniqueActiveEntity
  BY DEF StoreInv, GoodTables, GoodEntities, UniqueActiveEntity
<1>2. QED
  BY <1>1, StoreInvAlways, PTL

\* SaveRelationUnlocked leaves one active row per relation of an agent.
THEOREM RelationsUnique == Spec => []UniqueActiveRelation
<1>1. StoreInv => UniqueActiveRelation
  BY DEF StoreInv, GoodTables, UniqueActiveRelation
<1>2. QED
  BY <1>1, StoreInvAlways, PTL

\* superseded_by is NULL in exactly the active rows, in every order of upserts
\* and retirements and also where the mark is an empty id, since each statement
\* that changes one of the two columns also writes the other.
THEOREM RetiredAreMarked == Spec => []MarkedWhenRetired
<1>1. StoreInv => MarkedWhenRetired
  BY DEF StoreInv, GoodTables, GoodEntities, MarksAgree, MarkedWhenRetired
<1>2. QED
  BY <1>1, StoreInvAlways, PTL

\* RunInTransaction commits summary and cursor of a run together or not at all,
\* also when the work throws and leaves its transaction open.
THEOREM SummaryWithCursor == Spec => []SummaryAndCursorTogether
<1>1. StoreInv => SummaryAndCursorTogether
  BY DEF StoreInv, HistoryOK, SummaryAndCursorTogether
<1>2. QED
  BY <1>1, StoreInvAlways, PTL

\* A transaction is open outside RunInTransaction exactly when an exception left
\* it there; so what SaveEvent acknowledges otherwise is in the file.
ClosedInv == (leftOpen <=> phase = "idle" /\ inTransaction) /\ acked = disk.events

\* Every action keeps it.
LEMMA ClosedInductive ==
    ASSUME StoreInv, ClosedInv, [Next]_vars
    PROVE  ClosedInv'
<1>0. TypeOK /\ RunOK
  BY DEF StoreInv
<1>1. CASE SaveEvent
  BY <1>0, <1>1 DEF SaveEvent, ClosedInv, TypeOK, Tables
<1>2. CASE Commit
  BY <1>0, <1>2 DEF Commit, Return, ClosedInv, RunOK
<1>3. CASE Rollback \/ Reopen
  BY <1>3 DEF Rollback, Reopen, Return, ClosedInv
<1>4. ASSUME NEW a \in AllAgents, Begin(a) \/ BeginCursorOnly(a)
      PROVE  ClosedInv'
  BY <1>4 DEF Begin, BeginCursorOnly, ClosedInv
<1>5. CASE WriteSessionSummary \/ EntitiesWritten \/ WriteCursor \/ UNCHANGED vars
  BY <1>5 DEF WriteSessionSummary, EntitiesWritten, WriteCursor, vars, ClosedInv
<1>6. ASSUME NEW id \in AllIds, NEW name \in Names \cup {Unnamed}, NEW s \in Superseded,
             WriteEntity(id, name, s)
      PROVE  ClosedInv'
  BY <1>6 DEF WriteEntity, ClosedInv
<1>7. ASSUME NEW r \in Triples, WriteRelation(r)
      PROVE  ClosedInv'
  BY <1>7 DEF WriteRelation, ClosedInv
<1>8. CASE Throw
  BY <1>0, <1>8 DEF Throw, ClosedInv, RunOK
<1>9. QED
  BY <1>1, <1>2, <1>3, <1>4, <1>5, <1>6, <1>7, <1>8 DEF Next

\* It holds throughout.
LEMMA ClosedAlways == Spec => []ClosedInv
<1>1. Init => ClosedInv
  BY DEF Init, EmptyTables, ClosedInv
<1>2. StoreInv /\ ClosedInv /\ [Next]_vars => ClosedInv'
  BY ClosedInductive
<1>3. QED
  BY <1>1, <1>2, StoreInvAlways, PTL DEF Spec

\* An event that SaveEvent acknowledged is in the file for good, whatever is
\* rolled back, throws or is lost; only those appended into a transaction that
\* an exception left open are not covered.
THEOREM EventsDurable == Spec => []AckedEventsDurable
<1>1. ClosedInv => AckedEventsDurable
  BY DEF ClosedInv, AckedEventsDurable
<1>2. QED
  BY <1>1, ClosedAlways, PTL

-----------------------------------------------------------------------------
(* The refinement.                                                         *)

\* A new database is one of DurableStore.
LEMMA DurableInit == Init => Durable!Init
BY DEF Init, Durable!Init, EmptyTables

\* A step of the store is a step of DurableStore or leaves the file alone.
LEMMA DurableStep ==
    ASSUME StoreInv, [Next]_vars
    PROVE  [Durable!Next]_(Durable!vars)
<1>0. TypeOK /\ RunOK /\ HistoryOK
  BY DEF StoreInv
<1>1. CASE UNCHANGED disk
  BY <1>1 DEF Durable!vars
<1>2. CASE SaveEvent
  <2>1. CASE inTransaction
    BY <1>1, <1>2, <2>1 DEF SaveEvent
  <2>2. CASE ~inTransaction
    <3>1. Durable!AppendEvent
      BY <1>0, <1>2, <2>2 DEF SaveEvent, TypeOK, Tables, Durable!AppendEvent
    <3>2. QED
      BY <3>1 DEF Durable!Next
  <2>3. QED
    BY <2>1, <2>2
<1>3. CASE Commit
  <2>1. disk' = view /\ phase = "commit" /\ runs \in 1..MaxRuns /\ view.events = disk.events
        /\ view.cursorSaves = disk.cursorSaves \cup {runs}
    BY <1>0, <1>3 DEF Commit, Return, RunOK
  <2>2. Durable!IsNext(runs)
    BY <1>0, <2>1 DEF HistoryOK, RunOK, Durable!IsNext
  <2>3. CASE runs \in emptyRuns
    <3>1. Durable!SkipEvents(runs)
      BY <1>0, <2>1, <2>2, <2>3 DEF RunOK, NothingLearned, Durable!SkipEvents
    <3>2. QED
      BY <2>1, <3>1 DEF Durable!Next
  <2>4. CASE runs \notin emptyRuns
    <3>1. Durable!Consolidate(runs)
      BY <1>0, <2>1, <2>2, <2>4 DEF RunOK, SummaryIn, Durable!Consolidate
    <3>2. QED
      BY <2>1, <3>1 DEF Durable!Next
  <2>5. QED
    BY <2>3, <2>4
<1>4. CASE Next /\ ~SaveEvent /\ ~Commit
  <2>1. UNCHANGED disk
    BY <1>4 DEF Next, Begin, BeginCursorOnly, WriteSessionSummary, WriteEntity, EntitiesWritten,
                WriteRelation, WriteCursor, Rollback, Return, Throw, Reopen
  <2>2. QED
    BY <1>1, <2>1
<1>5. QED
  BY <1>1, <1>2, <1>3, <1>4 DEF vars

\* The store refines DurableStore: the file changes by single events and by
\* whole runs only, in the order in which the runs began, also when the work
\* throws (its open transaction is never committed).
THEOREM StoreRefinesDurable == Spec => OnlyWholeRunsCommit
<1>1. StoreInv /\ [Next]_vars => [Durable!Next]_(Durable!vars)
  BY DurableStep
<1>2. QED
  BY <1>1, DurableInit, StoreInvAlways, PTL DEF Spec, OnlyWholeRunsCommit, Durable!Spec
=============================================================================
