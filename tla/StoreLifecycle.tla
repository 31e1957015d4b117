--------------------------- MODULE StoreLifecycle ---------------------------
(***************************************************************************)
(* How a runtime gets its store: CreateRuntimeStore and                    *)
(* MemorySqliteStore::Initialize, run by several processes on one database *)
(* file, which may hold the schema of an earlier version.                  *)
(*                                                                         *)
(* Initialize is a list of statements, each a transaction of its own, in   *)
(* three parts: a && chain that the first failure ends, then the columns   *)
(* of AddColumnIfMissingUnlocked and the full-text tables with their       *)
(* triggers, which are tried whatever happened before.  A schema object is *)
(* the statement that creates it; of the columns only those an earlier     *)
(* schema may lack are told apart.  Locks that outlast the busy timeout    *)
(* and I/O errors are faults, at most MaxFaults of them.                   *)
(***************************************************************************)
EXTENDS Integers, Sequences, SequencesExt

CONSTANTS Procs,          \* processes that create a runtime on the file
          OldSchemas,     \* what the file may hold at first
          MaxFaults       \* bound on faults and crashes

Column(t, c) == [table |-> t, name |-> c]

\* AddColumnIfMissingUnlocked, in the order of the calls.
Upgrades == <<
    Column("memory_entities", "agent_id"),
    Column("memory_entities", "active"),
    Column("memory_entities", "superseded_by"),
    Column("memory_entities", "source_refs_json"),
    Column("memory_relations", "agent_id"),
    Column("memory_relations", "active"),
    Column("memory_relations", "source_refs_json"),
    Column("memory_relations", "metadata_json") >>

Statement(kind, t, names) == [kind |-> kind, table |-> t, names |-> names]

Tables == <<"memory_events", "memory_payloads", "memory_summaries", "memory_entities",
            "memory_relations", "memory_consolidation_cursors">>

Pragmas == <<Statement("pragma", "", {"journal_mode"}),
             Statement("pragma", "", {"synchronous"}),
             Statement("pragma", "", {"cache_size"})>>

CreateTables == [k \in 1..Len(Tables) |-> Statement("table", Tables[k], {})]

\* An index with those of its columns that an ALTER may have to add.
CreateIndexes == <<
    Statement("index", "memory_events", {}),
    Statement("index", "memory_payloads", {}),
    Statement("index", "memory_summaries", {}),
    Statement("index", "memory_entities", {"agent_id", "active"}),
    Statement("index", "memory_relations", {"agent_id", "active"}),
    Statement("index", "memory_relations", {"active"}) >>

Chain == Pragmas \o CreateTables \o CreateIndexes

AddColumns == [k \in 1..Len(Upgrades) |->
                  Statement("alter", Upgrades[k].table, {Upgrades[k].name})]

\* The external-content FTS5 table of one table and its three triggers.
FullText(t) == <<Statement("fts", t, {}), Statement("trigger", t, {"ai"}),
                 Statement("trigger", t, {"ad"}), Statement("trigger", t, {"au"})>>

FullTexts == FullText("memory_summaries") \o FullText("memory_entities")
                \o FullText("memory_relations")

Statements == Chain \o AddColumns \o FullTexts

\* What the statements leave behind: everything but settings and columns.
SchemaObjects == {s \in ToSet(Statements) : s.kind \notin {"pragma", "alter"}}

ASSUME OldSchemasAssumption ==
    OldSchemas \subseteq [tables : SUBSET ToSet(Tables), missing : SUBSET ToSet(Upgrades)]
ASSUME MaxFaultsAssumption == MaxFaults \in Nat

VARIABLES
    objects,        \* the schema objects in the file
    columns,        \* those of Upgrades that are in it
    store,          \* per process: the store under construction, or what became of it
    undisturbed,    \* history: a start without a fault has come to its end
    faults

vars == <<objects, columns, store, undisturbed, faults>>

\* pos: the statement to run; alter: ColumnExistsUnlocked has said no; ok: the
\* local of Initialize; faulted, late: this start met a fault, began undisturbed.
NoStore == [state |-> "none", pos |-> 0, alter |-> FALSE, ok |-> TRUE,
            faulted |-> FALSE, late |-> FALSE]

Init ==
    /\ \E old \in OldSchemas :
          /\ objects = {s \in SchemaObjects : s.kind = "table" /\ s.table \in old.tables}
          /\ columns = {c \in ToSet(Upgrades) \ old.missing : c.table \in old.tables}
    /\ store = [p \in Procs |-> NoStore]
    /\ undisturbed = FALSE
    /\ faults = 0

-----------------------------------------------------------------------------
HasTable(t) == Statement("table", t, {}) \in objects

\* SQLite's side: what makes a statement fail apart from a fault.
Accepted(s) ==
    CASE s.kind = "index" -> \A n \in s.names : Column(s.table, n) \in columns
      [] s.kind = "alter" -> HasTable(s.table)
                                /\ \A n \in s.names : Column(s.table, n) \notin columns
      [] s.kind = "trigger" -> HasTable(s.table)
      [] OTHER -> TRUE

\* ... and what an accepted one does.  IF NOT EXISTS: a table that is there
\* keeps the columns it has.
Execute(s) ==
    /\ objects' = objects \cup ({s} \cap SchemaObjects)
    /\ columns' = columns \cup
          {c \in ToSet(Upgrades) :
              /\ c.table = s.table
              /\ \/ s.kind = "table" /\ ~HasTable(s.table)
                 \/ s.kind = "alter" /\ c.name \in s.names}

\* Mutant: Initialize returns at the first failure of the chain.
AfterReturnsEarly(p, success) ==
    LET failedInChain == ~success /\ store[p].pos <= Len(Chain)
    IN  [store[p] EXCEPT !.ok = @ /\ success,
                         !.alter = FALSE,
                         !.pos = IF failedInChain THEN Len(Statements) + 1 ELSE @ + 1]

\* Mutant: a failed full-text statement skips a whole group of four.
AfterSkipsGroup(p, success) ==
    LET failedInChain == ~success /\ store[p].pos <= Len(Chain)
        skipped == IF success \/ Statements[store[p].pos].kind = "alter" THEN 1 ELSE 4
    IN  [store[p] EXCEPT !.ok = @ /\ success,
                         !.alter = FALSE,
                         !.pos = IF failedInChain THEN Len(Chain) + 1 ELSE @ + skipped]

\* Mutant: "ok = ..." without "&& ok" in the second and third part.
AfterForgets(p, success) ==
    LET failedInChain == ~success /\ store[p].pos <= Len(Chain)
    IN  [store[p] EXCEPT !.ok = success,
                         !.alter = FALSE,
                         !.pos = IF failedInChain THEN Len(Chain) + 1 ELSE @ + 1]

\* ok after one more statement, and where Initialize goes on: a failure inside
\* the chain skips the rest of it.
After(p, success) ==
    LET failedInChain == ~success /\ store[p].pos <= Len(Chain)
    IN  [store[p] EXCEPT !.ok = @ /\ success,
                         !.alter = FALSE,
                         !.pos = IF failedInChain THEN Len(Chain) + 1 ELSE @ + 1]

Current(p) == Statements[store[p].pos]

Running(p) == store[p].state = "initializing" /\ store[p].pos <= Len(Statements)

\* The directory is there, a new MemorySqliteStore opens the file.
Open(p) ==
    /\ store[p].state = "none"
    /\ store' = [store EXCEPT ![p] = [NoStore EXCEPT !.state = "initializing", !.pos = 1,
                                                     !.late = undisturbed]]
    /\ UNCHANGED <<objects, columns, undisturbed, faults>>

\* create_directories or sqlite3_open fails: the runtime has no store.
OpenFails(p) ==
    /\ store[p].state = "none"
    /\ faults < MaxFaults
    /\ faults' = faults + 1
    /\ store' = [store EXCEPT ![p] = [NoStore EXCEPT !.state = "failed", !.faulted = TRUE]]
    /\ UNCHANGED <<objects, columns, undisturbed>>

\* ColumnExistsUnlocked, the first half of AddColumnIfMissingUnlocked.
CheckColumn(p) ==
    /\ Running(p) /\ Current(p).kind = "alter" /\ ~store[p].alter
    /\ store' = [store EXCEPT ![p] =
                    IF \A n \in Current(p).names : Column(Current(p).table, n) \in columns
                    THEN After(p, TRUE)
                    ELSE [@ EXCEPT !.alter = TRUE]]
    /\ UNCHANGED <<objects, columns, undisturbed, faults>>

\* PRAGMA table_info cannot be prepared: the column counts as missing.
CheckColumnFaults(p) ==
    /\ Running(p) /\ Current(p).kind = "alter" /\ ~store[p].alter
    /\ faults < MaxFaults
    /\ faults' = faults + 1
    /\ store' = [store EXCEPT ![p].alter = TRUE, ![p].faulted = TRUE]
    /\ UNCHANGED <<objects, columns, undisturbed>>

\* ExecuteUnlocked of the statement at hand.
ExecuteUnlocked(p) ==
    /\ Running(p)
    /\ Current(p).kind = "alter" => store[p].alter
    /\ store' = [store EXCEPT ![p] = After(p, Accepted(Current(p)))]
    /\ IF Accepted(Current(p)) THEN Execute(Current(p)) ELSE UNCHANGED <<objects, columns>>
    /\ UNCHANGED <<undisturbed, faults>>

\* Busy for more than five seconds, or an I/O error.
ExecuteFaults(p) ==
    /\ Running(p)
    /\ Current(p).kind = "alter" => store[p].alter
    /\ faults < MaxFaults
    /\ faults' = faults + 1
    /\ store' = [store EXCEPT ![p] = [After(p, FALSE) EXCEPT !.faulted = TRUE]]
    /\ UNCHANGED <<objects, columns, undisturbed>>

\* Initialize returns; CreateRuntimeStore drops a store that failed, and the
\* runtime goes on without one.
CreateRuntimeStore(p) ==
    /\ store[p].state = "initializing" /\ store[p].pos = Len(Statements) + 1
    /\ store' = [store EXCEPT ![p].state = IF store[p].ok THEN "ready" ELSE "failed"]
    /\ undisturbed' = (undisturbed \/ ~store[p].faulted)
    /\ UNCHANGED <<objects, columns, faults>>

\* The runtime is destroyed, with or without a store; the process may create
\* another one.
Close(p) ==
    /\ store[p].state \in {"ready", "failed"}
    /\ store' = [store EXCEPT ![p] = NoStore]
    /\ UNCHANGED <<objects, columns, undisturbed, faults>>

\* The process ends in the middle of Initialize; what it committed stays.
Crash(p) ==
    /\ store[p].state = "initializing"
    /\ faults < MaxFaults
    /\ faults' = faults + 1
    /\ store' = [store EXCEPT ![p] = NoStore]
    /\ UNCHANGED <<objects, columns, undisturbed>>

Next ==
    \E p \in Procs :
        \/ Open(p)
        \/ OpenFails(p)
        \/ CheckColumn(p)
        \/ CheckColumnFaults(p)
        \/ ExecuteUnlocked(p)
        \/ ExecuteFaults(p)
        \/ CreateRuntimeStore(p)
        \/ Close(p)
        \/ Crash(p)

Spec == Init /\ [][Next]_vars

-----------------------------------------------------------------------------
(* Properties.                                                             *)

\* The schema is made of known objects and columns, every store is in a state
\* of CreateRuntimeStore and Initialize.
TypeOK ==
    /\ objects \subseteq SchemaObjects
    /\ columns \subseteq ToSet(Upgrades)
    /\ store \in [Procs -> [state : {"none", "initializing", "ready", "failed"},
                            pos : 0..(Len(Statements) + 1), alter : BOOLEAN, ok : BOOLEAN,
                            faulted : BOOLEAN, late : BOOLEAN]]
    /\ undisturbed \in BOOLEAN
    /\ faults \in 0..MaxFaults

\* A runtime that got a store finds every table, column, index, full-text
\* table and trigger its queries rely on, whatever the file held before and
\* whatever other processes did, failed to do or left half done meanwhile.
ReadyMeansComplete ==
    (\E p \in Procs : store[p].state = "ready") =>
        objects = SchemaObjects /\ columns = ToSet(Upgrades)

\* One start upgrades: once a start of any process has come to its end without
\* a fault, successful or not, no later start fails without a fault.  (The
\* start that upgrades may fail, as the indexes come before their columns, and
\* so may one that races it, as ALTER meets a column it had found missing.)
OneStartUpgrades ==
    \A p \in Procs : store[p].state = "failed" /\ store[p].late => store[p].faulted
=============================================================================
