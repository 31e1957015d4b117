# TLA+ specifications of agent-memory-cpp

agent-memory-cpp keeps the memory of LLM agents: it appends events to a SQLite
log, offloads large tool outputs to files, consolidates the log into summaries,
entities and relations (with a language model or with rules), and builds prompt
contexts from all of it; memory-server offers this over HTTP and MCP.  These
modules model its write paths, its read paths, the server process and the JSON
documents it exchanges.  TLC checks them on small instances, and TLAPS proves
all their safety properties and refinements for all instances.

## 1. Inventory

Paths are relative to `src/` unless they start with `include/`, `docs/` or `tests/`.

| Component | State | Operations | What makes it correct |
|---|---|---|---|
| Runtime facade, `core/builtin_memory_runtime.cpp` | services, `consolidationMutex` | AppendEvent, WritePayload, BuildContext, SearchMemory, Consolidate | callers of any thread; one consolidation at a time per runtime; the mutex is always released |
| Consolidation, `consolidation/consolidation_service.cpp`, `consolidation_batch_builder.cpp` | cursors per (agent, session) in the database | load cursor, load events, build batch, process, commit | no event is lost, none is digested twice, a run looks atomic |
| Update writer and store transactions, `consolidation/memory_update_writer.cpp`, `storage/sqlite_store.cpp` | tables, one connection, its open transaction | RunInTransaction, SaveEvent, SaveEntity, SaveRelation, SaveConsolidationCursor | summary and cursor together; one active entity per name; acknowledged events stay |
| Processors, `consolidation/llm_processor.cpp`, `rule_based_processor.cpp` | none | Process | an update of the model or of the rules, and it says which |
| Model clients, `model/provider/*`, `utils/curl_client.cpp` | curl pool | GenerateMemoryUpdate, DoRequest with retries | bounded requests, the last answer counts, the call ends |
| Payload offload, `core/payload_service.cpp` | files, rows, detached sweepers | WritePayload, sweep | acknowledged payloads stay readable, nothing is left behind silently |
| Context builder, `core/context_builder.cpp`, `payload_query.cpp` | none | BuildContext: four store reads | read your writes; references resolve |
| Search, `storage/sqlite_store.cpp` | FTS indexes | SearchLongTermMemory, LoadLongTermMemory | the best hits of all types within the limit |
| Schema life cycle, `sqlite_store.cpp` Initialize, `core/runtime_store_initializer.cpp` | schema of the file | Initialize, CreateRuntimeStore, close | a store that is handed out has its whole schema |
| HTTP transport, `transport/http/` | token, limits | authorize, parse, call the runtime, encode | a success that is answered was done, a refusal was not |
| MCP transport, `transport/mcp/memory_mcp_protocol.cpp` | tool and method tables, fixed | JSON-RPC dispatch, tool calls | the same, over JSON-RPC |
| Server process, `server/` | options, signal flag, stop thread, worker pool | read options, set up, listen, stop, return | a signal ends a running server; nothing uses what Run destroys; strict means strict |
| Model configuration, `model/model_client_factory.cpp` | none | two validations, choice of the client | a section that cannot be used is refused, or replaced by rules with a warning |
| JSON codec, `serialization/` | none | ToJson, FromJson, Decode with diagnostics | round trips; a field is taken as it is or replaced by the default; diagnostics without false alarms |

Interactions: the transports call the runtime; the runtime calls the services;
the services share one `MemorySqliteStore`, whose recursive mutex makes each
store call one step.  Consolidate holds `consolidationMutex` over several store
calls and the model call between them.  BuildContext and WritePayload take no
such lock.  Several processes may open the same database file and the same
payload directory; SQLite's write lock is then the only thing between them.

What is hard to test: a model call of seconds between loading a cursor and
saving it; failures and process deaths between any two steps; two runtimes on
one database; sweepers that look at a directory while files are renamed;
transactions left by an exception; rows that appear and are retired between the
reads of one context; starts on a file of an earlier version; a signal at any
moment of a start; clients that give up and send again while the pool's workers
wait for a consolidation; documents of other versions.  PROJECT.json
lists the hazards at their lines.

## 2. Modules

| Module | Models | Composition |
|---|---|---|
| `ConsolidationBatch` | `LoadEventsAfterCursor`, `ConsolidationBatchBuilder::Build` as operators | |
| `Consolidation` | AppendEvent and Consolidate by threads of several runtimes | extends ConsolidationBatch |
| `AtomicConsolidation` | what Consolidate promises: one atomic step per run | instantiated by Consolidation |
| `DurableStore` | what the database file promises: single events and whole runs | instantiated by LongTermStore |
| `LongTermStore` | the statements inside the transaction, commit, rollback, exception, re-opening | takes apart the step Commit of Consolidation |
| `ModelCall` | request, retries, response handling, fallback | takes apart the step Process of Consolidation |
| `PayloadService` | WritePayload file operation by file operation, rows, sweepers | |
| `SearchRanking` | search and snapshot statements, scores, merge | |
| `ReadPath` | BuildContext and SearchMemory while others write | extends SearchRanking |
| `StoreLifecycle` | Initialize statement by statement, CreateRuntimeStore | produces the `storeUp` of the other modules |
| `JsonHelpers` | `json_helpers.h`: reading fields of JSON values, with widths of integers | |
| `JsonCodec` | the structures, their documents, the diagnostics; a document altered on its way | extends JsonHelpers |
| `ServerConfig` | command line, configuration file, model configuration as operators | extends JsonHelpers |
| `MemoryServer` | the process: main thread, stop thread, workers, handlers, clients | extends ServerConfig; calls the runtime in one step |
| `ConsolidationProofs`, `PayloadServiceProofs`, `LongTermStoreProofs`, `ModelCallProofs`, `ReadPathProofs`, `StoreLifecycleProofs`, `MemoryServerProofs`, `JsonCodecProofs` | theorems | extend the modules they are about |
| `MC*` | instances for TLC | |

**Consolidation.**  `events`, `cursors` and `summaries` are the tables
`memory_events`, `memory_consolidation_cursors` and the session rows of
`memory_summaries`; a summary is the set of events it digests.  `pc` follows
Consolidate: `Call` (arguments and store check), `Acquire` (lock), `LoadCursor`,
`LoadEvents`, `Process` (model call), `Commit` or, for an empty batch,
`CommitCursor`.  `Fail` is the error return of each of these, `Crash` the death
of a process.  The events a run has loaded are represented by the length of the
log when its SELECT ran; `BuildIgnoresLaterEvents` justifies this.

**LongTermStore.**  `disk` is what is committed, `view` what the connection
sees.  `Throw` is an exception of the work of RunInTransaction, which has no
handler; `leftOpen` records that one left the transaction open, until the
connection is replaced.  `Reopen` is the destructor and the next Initialize, or a crash.
Topic and profile summaries are inserts of the same transaction and are folded
into it.

**ModelCall.**  `Perform(r)` is one `curl_easy_perform` with any outcome; a body
is told apart by what the client and the processor make of it.

**PayloadService.**  A temporary file is written (`OpenTemp`, `WriteTemp`),
renamed, and its row saved; a failing row removes the file again.  A file ages
(`Age`) past the 24 h after which sweepers remove it.  A sweeper lists the
directory, then checks and removes names one by one, without a lock.  With
`MayCollide` random names may repeat.

**ReadPath, SearchRanking.**  Rows carry how they answer the query (`rank`,
`like`); what SQL leaves open (ties) is left open in the model, so a query has
a set of possible answers.  Writers append, save, re-save and retire between
any two reads.

**StoreLifecycle.**  The statements of Initialize in their order and their three
parts: a `&&` chain that the first failure ends, the columns, and the full-text
tables with their triggers, which are tried in any case.  Of the columns only
the eight that Initialize may have to add are told apart.

**DurableStore.**  `LongTermStore` maps `disk` to it: `log` is the number of
events, `digests` and `cursors` the runs whose summary and cursor are in the
file, `knowledge` the entities and relations.  Every statement of a transaction
must then be a stutter, and COMMIT the one step of its run.

**JsonHelpers, JsonCodec.**  A JSON value is a pair of its kind and its content.
A structure is a table of members and their types; `ToJson` and `FromJson` are
one writer and one reader per type, applied to these tables, and `SchemaRules`
is the table of the diagnostics, with the gaps and the wrong type that the code
has.  One table serves writer and reader, so that both name the same keys is taken
from their source and not checked.  `Write` sends a structure, `Omit`, `Replace` and `ReplaceAll` are what
another version may send instead, `DecodeWithDiagnostics` reads it.

**ServerConfig, MemoryServer.**  `main` follows Run: `ReadOptions` (help, file,
arguments, validation), `CreateServerSetup`, `StartStopThread`,
`RegisterRoutes`, `Bind` and `ListenInternal` (inside listen), `ShutDown` (its
return) and `Return`.  `Signal`, `Poll` and `Stop` are the signal handler and the
stop thread.  A worker takes a connection (`Take`), which decides by `Route`
whether the runtime is called, calls it (`CallRuntime`, or `Lock` and
`Consolidate`), and replies.  A call may do the operation, fail without it, or
throw; `Encode` may throw after it.  `applied` counts how often the operation
of a client's request was done, `lost` how often the client got no answer or a
broken one.  Done means executed: whether the file has it then is the subject of
LongTermStore, and after the exception of `store_throw` it may not.  `Accept`, `Take`,
`Reply` and `ShutDown` are the accept loop and the thread pool of the vendored
cpp-httplib; errors of accept that end its loop, and further requests on a
kept-alive connection, are left out.

## 3. Runs

| Run | Shows |
|---|---|
| `consolidation_forced` | Two threads, forced (truncated, unlimited) and incremental requests of an agent and of a session, exclusions, failures, crashes.  Nothing at or below a cursor is lost (`NoEventLost`), a run commits on the cursor it started from (`StartCursorFresh`), cursors move back only by force, and the runs implement atomic ones (`RunsAreAtomic`). |
| `consolidation_host` | A host that consolidates event by event.  No event is digested twice (`ExactlyOnce`), the mutex is given back (`MutexReleased`), and after failures stop every covered message reaches a summary (`BacklogDrains`), also behind runs of skipped events. |
| `store_tables` | Two agents and the empty one, two ids and the empty one, two names and none, supersedes cycles and relations without an end, exceptions.  One active entity per agent and name among those with an id (`UniqueActiveEntity`), one active row per relation, `active` and `superseded_by` agree in every row (`MarkedWhenRetired`).  Acknowledged events survive (`AckedEventsDurable`), and the file changes only by single events and whole runs (`OnlyWholeRunsCommit`, the refinement of DurableStore). |
| `store_namespace` (violated) | One agent's run overwrites and retires another agent's entity with the same id. |
| `store_throw` (violated) | An exception leaves the transaction open. |
| `payload_one` | Two writers, sweepers, colliding names, every file operation failing, crashes: acknowledged payloads are readable, rows describe complete files (`PayloadsReadable`), no file is left without a row silently, and left-over temporary files are removed in the end. |
| `read_paths` | What the caller wrote before is in the context, a message comes with the payload it refers to, and limits per statement, scoring and merge return the best hits of all types, from one source. |
| `model_retries` | Status ranges at their edges, cut bodies, retries: bounded requests (`AskedOnceAnswered`), the model's update is used if and only if the last transfer brought one in a 2xx answer, and nothing but a null content or a prompt that cannot be sent throws (`UpdateFromLastAnswer`), the call ends.  No caller in the repository sets `maxRetries` above 0; hosts may. |
| `lifecycle_upgrade` | Two processes start on one of four files (new, two kinds of old, nearly current) with two faults or crashes: a handed-out store has its whole schema, and after one undisturbed start, even a failing one, no later start fails by itself. |
| `server_process` | From the command line to the return.  A model section that says enabled and strict never ends in rules, and the two readers of the command line agree on the file (`ConfigurationHonoured`); what clients are told is true and an operation is repeated at most once per lost answer (`AnswersAreTrue`); Run returns only when nothing uses the runtime any more (`NothingRunsAfterReturn`); a signal ends a running server (`StopEndsServer`); every accepted connection is dealt with (`AcceptedIsHandled`). |
| `codec_documents` | Each structure, with any member at an edge, one field left out or replaced by any kind of value: what is read has its types, the other members survive (`UnalteredMembersSurvive`), a plain member is the value of its field or its default and never a third value (`TakenOrDefault`), complete documents are accepted and what the diagnostics name was dropped (`NoFalseAlarm`). |
| `codec_warnings` (violated) | A field of the wrong type is dropped without a warning where `SchemaRules` leaves its member out. |

Every property of a passing run is paired with a mutant, an altered definition
that TLC shows to violate it; the mutants stand beside the definitions they alter.

### Bounds

* Consolidation: three log rows let a batch end before, at and after a skipped
  row and leave one beyond it; two threads make every race there is between two
  runs; two (three for the host) session summaries allow a repeated digest.
  Failures and crashes are not bounded.
* LongTermStore: two ids and two names make renames onto each other, reuse and
  cycles, with the empty id beside them; two entities or relations per update
  (`MaxItems`) and two transactions let each meet what another left; two events
  fall before, between and after them.  The entities that a new one replaces
  (`Superseded`) are all ids.  Agents and names are alike (symmetry).
* PayloadService: two refs, temporary names and writers make a collision of each
  kind.  One content is enough for the run, as the proofs cover any number.
* ReadPath: three rows over three types and a limit of one or two, so each
  statement and the merge cut; two events and payloads with limits below, at
  and above.
* ModelCall: the edges of the status ranges, -1, 0 and 2 retries.
* StoreLifecycle: two processes, two faults; processes alike (symmetry).
* JsonCodec: int has 16 bits (`IntLimit` is 2^15) and long long 24, so that
  numbers beyond each are among the twelve values of a field; one field is altered
  at a time, as fields are read independently of each other.
* MemoryServer: int has 20 bits (a port fits, 2^20 + 80 does not).  A complete
  configuration file with any one member left out, added or replaced, and command
  lines of up to four words.  Two workers and two clients, one of which sends
  twice: enough for one consolidation to wait behind another, a late answer to
  meet a repetition, and a stop to find jobs running, queued and not accepted.
  The limits are only replaced by refused values, and a file without a token is
  only started on a taken address: the server with a file and the one without
  differ in both.  Which idle worker takes a connection is fixed.
  The requests of both transports include refused, dropped and executed ones.

### Fairness

* Consolidation: a thread in Consolidate goes on (WF of `Proceed`), and the host
  calls again (WF of `Call`).  Failing and crashing are never required;
  `BacklogDrains` assumes that they stop, `MutexReleased` does not.
* PayloadService: writers and sweepers are scheduled and files age; the host
  goes on offloading, and listing the directory and removing a file do not fail
  every time (SF).  Without a later offload nothing is swept: WritePayload is
  the only place that starts a sweeper.
* ModelCall: WF of the call's next step.  `ValidateCommon` refuses a timeout
  that is not positive, so every transfer ends.
* MemoryServer: every thread that can take a step does (WF of the main thread,
  of accepting, of the stop thread and of each worker, and of its lock: a
  mutex that is free).  A model call ends because of `CallEnds`.  Clients and signals owe
  nothing: nobody has to send, wait or stop the server.

## 4. Proofs

`ConsolidationProofs`, for any agents, sessions, requests, runtimes, threads and
bounds, from `RequestsAssumption`, `ThreadsAssumption` and `BoundsAssumption`:

* `TypeCorrect`: `Spec => []TypeOK`.
* `NothingLost`: `NoEventLost`, also with several runtimes on one database.  It
  is not inductive: a run that commits must know that everything up to the
  cursor it *started* from is done, although another runtime may have moved the
  saved cursor meanwhile.  `NoLossInv` adds `StartIsDone` (that fact) and
  `WithinLog` (cursors point into the log).  `CommitExtendsDone` is the heart:
  a batch covers its scope from its start to its next cursor
  (`BuildCoversUpToCursor`).
* `CursorStaysFresh`: with one runtime, by `MutexHeld` (who is between lock and
  commit holds the mutex).
* `CursorsRegressOnlyByForce`: an action property, from freshness.
* `DigestedExactlyOnce`: with one runtime and no forced request, by
  `RowsBelowCursor` (all digested events are at or below the cursor).
* `ConsolidateIsAtomic`: with one runtime every step of Consolidation is a step
  or a stutter of AtomicConsolidation; `BuildIgnoresLaterEvents` shows that the
  batch at commit is the one of an atomic run.

`PayloadServiceProofs`, for any writers, runtimes, names and contents:

* `PayloadTypeCorrect`, by `TypeInv`, which adds that a working writer has names
  and a large content.
* `NoOrphanIsSilent`.
* `OffloadedStaysReadable`: `PayloadsReadable` (acknowledged payloads, rows and
  files all read complete), if there is one runtime or names are distinct (`NamesSafe`).  `OffloadInv`
  says that a name belongs to one writer at a time, that a writer's file is its
  own until the row is saved, and that rows have files and acknowledged
  payloads have rows.

Two runtimes on one database or directory are covered by the proofs alone; TLC
checks one runtime.

`LongTermStoreProofs`, for any agents, ids, names and relations and any number of
events, items and runs, from the assumptions of `LongTermStore` (the marks for "no
id", "no name", "no row" and the empty strings are none of the other values; the
ends of a relation are ids or empty):

* `TypeCorrect`, `EntitiesUnique`, `RelationsUnique`, `RetiredAreMarked`,
  `SummaryWithCursor`, from one invariant.  The properties speak of `disk` and
  `view`, but a commit copies the view, so `StoreInv` requires good tables of
  both; and what a commit copies depends on how far the run has come, so
  `RunOK` says, per phase, which of summary and cursor the view already has,
  and `HistoryOK` that the disk holds only whole runs.  `SaveEntityKeeps` is the
  heart: deduplication, upsert and retirement together leave one active row per
  name, although the id may have belonged to another agent or name.  The empty id
  and the empty agent are among the values, and excepted in the property: the
  code deduplicates nothing for them.
* `EventsDurable`, by `ClosedInv`: a transaction is open
  outside RunInTransaction exactly when an exception left it there.  Events that
  are acknowledged into such a transaction are not counted in `acked`; that this
  exception is needed is what `store_throw` shows.
* `StoreRefinesDurable`: every step is a step or a stutter of DurableStore, also
  with exceptions, as an open transaction is never committed.

`ModelCallProofs`, for any retry setting, status codes and bodies: `TypeCorrect`,
`AskedOnce`, `UpdateIsLastAnswer`.  `CallInv` relates `attempt` to the number of
requests sent, says that none of those before was final while the loop runs, and
that the response at hand is the last one; `UpdateIsLastAnswer` is an equivalence
for calls that return, and says of those that throw why they did.

`ReadPathProofs`, for any sessions, tables, limits and budgets, from the shape of
requests and searches:

* `TypeCorrect` and `PayloadsListed`, from `ReadInv`.  Rows are only appended or
  re-marked, so what is not recent stays so; `MessagesOK` says that once the messages are
  read, all acknowledged ones that are still recent are in the package.
* `OwnWritesRead`, an action property: what a caller wrote before is in the
  package at the return.
* `BestHitsReturned`, an action property: SearchLongTermMemory cuts every
  statement at the limit, merges, sorts and cuts again, and this is the best of
  all matching rows.  `CutPartIsFull` says that a row which a statement cut off
  is beaten by as many rows as the limit allows, all of them in the merge;
  `MergedTop` and `SortedTop` carry that through merge and sort.  Ties stay open.

`StoreLifecycleProofs`, for any number of processes and faults and any earlier
schema that `OldSchemasAssumption` admits: `TypeCorrect`, `ReadyStoreIsComplete`,
`UpgradeIsFinal`.  `LifecycleInv` says of every start under way that, while `ok`,
it has established all statements it has passed; that, without a fault, it has
established the tables and columns it has passed although an index failed
(a failure inside the chain then skips indexes only, `StatementDone`); and
that, begun after an undisturbed start, it has not failed.  The file only grows
(`Grown`), so what one process established stays for the others.  `Positions` and
`KindsByPosition` are the list of statements, one by one.

`MemoryServerProofs`, for any command line, configuration and disk, any workers,
clients and requests, from `WorkersAssumption`, `SendsAssumption`,
`RequestsAssumption` (initialize and tools/list change nothing),
`StartsAssumption` (arguments are words; what the parser calls an integer is one),
`WidthAssumption` (int is narrower than long long) and `PortsAssumption` (a port
fits in an int):

* `QuietAfterReturn`: `QuietInv` adds that nothing is queued or running unless
  the server serves, and when the stop thread exists.
* `ClientsToldTruth`: `ServerInv`.  `PlacesOK` says that a connection is in one
  place (not accepted, queued once, or with one worker), `CountsOK` that the
  operations done, the requests not yet done and a denied one are together at
  most the requests sent, and that each request sent was lost or is the current
  one; so no operation is done more often than answers were lost, plus one.
  `TruthOK` says that a success on its way to a client is true.
* `ConfigurationKept`: `ConfigurationHonoured` for every command line and every
  file, if no file has the name of an option (`NoFileLikeOption`).  The
  hypothesis is needed: the argument loop skips the values of options and
  FindConfigPath does not, so on a command line that the loop accepts the two part
  where the value of an option is the word `--config` and the next word, an
  option, is taken for the file (section 5).  The words are read by recursive functions; what
  they return is shown by a minimal counterexample (`Least`: a set of numbers has
  a least one) instead of an induction rule.  `FileOptions` says what a file that loads sets,
  the model among it, and `ConfigInv` adds to the property what the
  options are between ReadOptions and CreateServerSetup (`OptionsOK`,
  `ModelOfFile`).
* `TypesKept`: `TypeOK`, from `ServerInv`, `OptionsOK` and `ControlOK`.  LoadInt
  narrows and ParsePort tests, so the integer options are ints whatever the file
  and the words say.

`JsonCodecProofs`, for any strings, any set of JSON values, nested to any depth
and with arrays and objects of any size, and any widths of the integers, from
`StringsAssumption`, `SchemasAssumption`, `ValuesAssumption` (a value is built as
the parser builds them, from strings and values of the same sets),
`WidthAssumption` and `DefaultsAssumption` (the greatest default fits in an int):

* `MembersSurvive`, `TypesRead`, `ValuesTaken`, `AlarmsAreReal`: the four invariants
  of the run.  They speak of what is read, and need to know what the document holds
  then: `CodecInv` says that it holds what was written but for the altered
  fields, that those hold values of the environment, and that a document which
  is no object has all its fields altered.  `DocumentsKept` is its invariance.
* `MemberKept` is the heart of the first: every reader inverts its writer, type
  by type; a list of strings or structures loses no item as `Kept`, when all items qualify,
  is the identity (`KeptAll`), and the empty object that stands for no error reads
  as the structure with its defaults (`EmptyIsNull`).  The specification sends the
  sampled structures of `Structures`; the lemma holds for every content of a member.
* `MemberRead` is that of the second: `Kept` returns items of the array it was
  given, in any case (`KeptItems`; its proof counts positions and takes the least
  one with the right count), and JsonInt returns an int or the default.
* `MatchingRead` (what a value of the JSON type of its member is read as) and
  `OthersDropped` (a value of any other type is read as if it were missing) are
  that of the third and of the fourth, which also needs `WrittenMatches` (the
  writers write the types that the rules ask for) and `Rules` and `Tables` for the
  two lists of members.

The inductive invariants were first checked by TLC on the instances of the runs.

`JsonHelpers` defines its own `++` and `Kept` where the standard modules have
`@@` and `SelectSeq`, of which the provers know nothing.  Both are defined by what
they return.

Only model-checked, as they need fairness and ENABLED: the liveness properties
`MutexReleased`, `BacklogDrains`, `TempsSwept`, `CallEnds`, `StopEndsServer` and
`AcceptedIsHandled`.  Every invariant and every action property of the passing
runs is proved; those with a hypothesis (one runtime, no forced request, distinct
names, no file named like an option) say so above.

## 5. Where documents and code differ

Shown by a run:

* `store_namespace`: `include/agent_memory/long_term_memory.h` calls an entity id
  "stable ... within an agent namespace"; the table's key is the id alone, and
  the rule-based processor gives every agent the same ids.
* `store_throw`: `docs/consolidation_design.md` says that a failed transaction
  rolls back; after an exception it stays open until the connection closes,
  later runs fail and acknowledged events may be dropped with it.
* `codec_warnings`: `docs/serialization_design.md` promises a warning for a field
  of the wrong type.  Members without a rule (`excludedSessionIds`, `agentId` and
  `sessionId` of a payload reference, `succeeded` and `error` of a payload result)
  are dropped without one, and so is a string for the `error` of a consolidation
  result, whose rule asks for a string.

Seen while modelling, and kept in the models as the code has them:

* `include/agent_memory/long_term_memory.h` and `docs/consolidation_design.md` say
  that `maxEvents <= 0` means no truncation; an incremental request with it does
  nothing and succeeds (`docs/interfaces.md` describes that for 0).
* `include/agent_memory/long_term_memory.h` has the "replacement entity id when
  this entity has been superseded"; a model that leaves `fromEntityId` out of a
  `supersedes` relation retires an entity with an empty one.
* `docs/interfaces.md` and `docs/core_runtime_design.md` give `model.enabled` the
  default false; `LoadModelOptions` takes true.
* The rule for the `error` of a consolidation result asks for a string, so the
  library warns of the error objects that it writes itself.
* `docs/serialization_design.md` promises a warning for a `schemaVersion` above
  the current one.  `JsonInt` replaces what no int has by the default, which is the
  current version.
* Without a session id, excluded events are filtered in SQL and trailing ones do
  not advance the cursor; `long_term_memory.h` says that they do.
* `message_limit` counts events of all types, so tool events push messages out.
* Entities and relations hit by a search are dropped from a context when they
  are not among the newest rows, as the snapshot is cut by recency.
* BuildContext without a store returns an empty package and success.
* An answer with `"content": null` makes the OpenAI client throw through
  Consolidate, where `docs/interfaces.md` describes the fallback.
* An event without a `type`, or with an unknown one, is read as SESSION_STARTED;
  `include/agent_memory/event.h` has MESSAGE_APPENDED as its default.
* Array items of the wrong type are dropped without a warning.
* `JsonInt` wraps unsigned integers of 2^63 and more: 2^64 - 1 is read as -1.
* An entity whose id is empty, which a model may answer with, or of an empty agent
  is saved without deduplication (`MarkDuplicateEntitiesObsoleteUnlocked` returns
  at once) and stays active beside another one of the same name.
* `LoadInt` narrows before the range is tested: a port of 2^32 + 80 is 80.
* A signal after the handlers are installed and before listen sets its flag is
  used up by a `stop()` without effect, and so are all later ones.
* A `server.mcp.path` that is no regular expression makes `RegisterRoutes` throw
  while the stop thread is joinable: the process aborts, without the message
  that `main` has for exceptions.
* A JSON-RPC batch, or any message without an id, is answered with 202 and
  dropped.  A `method` that is no string is a parse error without an id.
* `FindConfigPath` also looks at words that are values of other options:
  `--host --config --config f` reads a file called `--config`.
* The reply to a payload write holds the file's URI; with a data path that is
  not UTF-8 the write is done and answered with 500.

## 6. Not modelled

Rendering, text formats and the keyword lists of the rules: pure functions of
texts.  `MetadataInt`, which parses numbers in strings; the texts of the MCP tool
list; the wording of errors and what `debugErrors` adds to it.  Power loss (WAL
with `synchronous=NORMAL`, files without fsync): crashes here are process
crashes.  The directory confinement of ReadPayload, and contents of 2 GiB and
more, whose size is negative in the threshold test and which stay inline.  The
one mutex of the curl share handle, whose use depends on libcurl.  The index of rows that an
earlier version wrote: Initialize creates FTS tables empty and never rebuilds
them.  SQLite and libcurl appear through what the sources rely on, as do
cpp-httplib and nlohmann/json outside the parts named in section 2.

## 7. Plan

Done: all modules of section 2, the runs of section 3 and the proofs of section 4.
What could come next:

1. The rules of `rule_based_processor.cpp` as an operator on the kinds of words
   that they look for, once the texts are abstracted by the keywords they hold.
2. Initialize on a file whose rows an earlier version wrote, with the index that
   is never rebuilt, as part of StoreLifecycle and ReadPath together.
