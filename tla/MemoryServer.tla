---------------------------- MODULE MemoryServer ----------------------------
(***************************************************************************)
(* The process memory-server: server_main.cpp and the HTTP and MCP         *)
(* transports, with clients that give up waiting and send again.           *)
(*                                                                         *)
(* Threads: the main thread (Run), the stop thread, and the workers of     *)
(* cpp-httplib's thread pool, which run the handlers.  Of cpp-httplib the  *)
(* model has what the code relies on: listen binds, sets is_running_,      *)
(* accepts and queues connections, and when the socket is closed drains    *)
(* the queue and joins the workers; stop does nothing before is_running_   *)
(* is set.  The runtime below the handlers does an operation in one step   *)
(* (PayloadService, LongTermStore and ReadPath have its steps), except     *)
(* that consolidations wait for consolidationMutex and keep it during the  *)
(* model call.                                                             *)
(***************************************************************************)
EXTENDS ServerConfig

CONSTANTS
    Starts,            \* command lines with the files and the disk they meet
    InvalidPatterns,   \* MCP paths that are no regular expression
    Workers,
    Clients,
    RequestsOf,        \* [Clients -> sets of requests]
    MaxSends           \* bound: times a client sends its request, [Clients -> Nat]

ASSUME WorkersAssumption == "none" \notin Workers
ASSUME SendsAssumption == MaxSends \in [Clients -> Nat]

\* A start has args; files, JSON documents by name (a file that is no JSON is
\* Null); writable, whether the data directory can be prepared; opens, whether
\* the store in it does; utf8, whether its path is UTF-8; free, whether the
\* address is.  The arguments are words, and what the parser calls an integer is
\* one.
ParsedIntegers(j) == IsObject(j) => \A k \in DOMAIN j[2] : IsInteger(j[2][k]) => j[2][k][2] \in Int
ASSUME StartsAssumption ==
    \A s \in Starts :
        /\ s.args \in Seq(STRING)
        /\ \A n \in DOMAIN s.files :
              /\ ParsedIntegers(JsonFieldValue(s.files[n], "memory"))
              /\ ParsedIntegers(JsonFieldValue(JsonFieldValue(s.files[n], "server"), "http"))

VARIABLES
    main,              \* where Run is
    ending,            \* how the process ended; "" before
    start, options,    \* the inputs and the ServerOptions, until Run has used them
    modelClient,       \* what CreateServerSetup made of the model section, as long
    http,              \* members of MemoryHttpServer and of its runtime
    gStopRequested, stopThread, isRunning, socketOpen,
    backlog, jobs,     \* connections not yet accepted, and the queue of the pool
    worker,
    mutexHolder,       \* of consolidationMutex; "none"
    client

inputs == <<start, options, modelClient>>
mainVars == <<main, ending, inputs, http>>
stopVars == <<gStopRequested, stopThread, isRunning, socketOpen>>
workVars == <<backlog, jobs, worker, mutexHolder>>
vars == <<mainVars, stopVars, workVars, client>>

None == << >>
Idle == [at |-> "idle", job |-> None, reply |-> "none"]

Init ==
    /\ main = "started" /\ ending = ""
    /\ start \in Starts
    /\ options = None /\ modelClient = "none" /\ http = None
    /\ gStopRequested = FALSE /\ stopThread = "off"
    /\ isRunning = FALSE /\ socketOpen = FALSE
    /\ backlog = {} /\ jobs = << >>
    /\ worker = [w \in Workers |-> Idle]
    /\ mutexHolder = "none"
    /\ client = [c \in Clients |-> [request |-> None, at |-> "ready", sends |-> 0, lost |-> 0,
                                    applied |-> 0, answer |-> "none"]]

-----------------------------------------------------------------------------
(* The main thread.                                                        *)

ForgetInputs == start' = None /\ options' = None /\ modelClient' = "none"

End(how) ==
    /\ main' = "ended" /\ ending' = how
    /\ ForgetInputs /\ http' = None

ConfigPath == FindConfigPath(start.args).path
FileLoads == ConfigPath[1] \in DOMAIN start.files /\ ServerOptionsLoad(start.files[ConfigPath[1]])
\* An empty path is no path.
UsesFile == ConfigPath \notin {None, <<"">>}

\* Up to ValidateServerOptions: help, the file, the arguments.
ReadOptions ==
    /\ main = "started"
    /\ LET given == ReadArguments(start.args)
           loaded == IF UsesFile THEN LoadServerOptions(start.files[ConfigPath[1]]) ELSE DefaultOptions
       IN  IF HasHelpOption(start.args) THEN End("code 0")
           ELSE IF \/ ~FindConfigPath(start.args).ok
                   \/ UsesFile /\ ~FileLoads
                   \/ ~given.ok
                   \/ ~ValidateServerOptions(given.set ++ loaded)
           THEN End("code 1")
           ELSE /\ main' = "options" /\ options' = given.set ++ loaded
                /\ UNCHANGED <<ending, start, modelClient, http>>
    /\ UNCHANGED <<stopVars, workVars, client>>

\* CreateServerSetup: the directory, the model, the runtime and its statistics.
\* MemoryHttpServer, constructed later, gets what is known here.
CreateServerSetup ==
    /\ main = "options"
    /\ IF ~start.writable \/ StrictModelFails(options) \/ ~start.opens THEN End("code 1")
       ELSE /\ main' = "configured"
            /\ http' = [apiToken |-> options.apiToken # "", maxPayloadBytes |-> options.maxPayloadBytes,
                        maxMcpMessageBytes |-> options.maxMessageBytes, utf8 |-> start.utf8]
            /\ modelClient' = ModelClient(options)
            /\ UNCHANGED <<ending, start, options>>
    /\ UNCHANGED <<stopVars, workVars, client>>

\* The flag is reset before the handlers are installed; then the stop thread.
StartStopThread ==
    /\ main = "configured"
    /\ main' = "stoppable"
    /\ gStopRequested' = FALSE /\ stopThread' = "polling"
    /\ UNCHANGED <<ending, inputs, http, isRunning, socketOpen, workVars, client>>

\* RegisterRoutes throws for a path that is no pattern; the destructor of the
\* stop thread, not joined, then ends the process.
RegisterRoutes ==
    /\ main = "stoppable"
    /\ IF options.path \in InvalidPatterns THEN End("abort")
       ELSE main' = "routed" /\ UNCHANGED <<ending, inputs, http>>
    /\ UNCHANGED <<stopVars, workVars, client>>

\* listen: binding.  The inputs are not looked at again.
Bind ==
    /\ main = "routed"
    /\ ForgetInputs
    /\ IF start.free THEN main' = "bound" /\ socketOpen' = TRUE /\ UNCHANGED gStopRequested
       ELSE main' = "failed" /\ gStopRequested' = TRUE /\ UNCHANGED socketOpen
    /\ UNCHANGED <<ending, http, stopThread, isRunning, workVars, client>>

\* listen_internal sets is_running_.
ListenInternal ==
    /\ main = "bound"
    /\ main' = "serving" /\ isRunning' = TRUE
    /\ UNCHANGED <<ending, inputs, http, gStopRequested, stopThread, socketOpen, workVars, client>>

\* Errors of accept that end the loop are left out: the socket is closed then as
\* by stop(), and listen returns false.
Accept(job) ==
    /\ main = "serving" /\ socketOpen
    /\ job \in backlog
    /\ backlog' = backlog \ {job}
    /\ jobs' = Append(jobs, job)
    /\ UNCHANGED <<mainVars, stopVars, worker, mutexHolder, client>>

\* Mutant: without waiting for the workers.
ShutDownAtOnce ==
    /\ main = "serving" /\ ~socketOpen
    /\ main' = "stopped" /\ isRunning' = FALSE /\ gStopRequested' = TRUE
    /\ UNCHANGED <<ending, inputs, http, stopThread, socketOpen, workVars, client>>

\* task_queue->shutdown returns when the queue is empty and the workers are
\* joined; then is_running_ is reset and Run sets the flag.
ShutDown ==
    /\ main = "serving" /\ ~socketOpen
    /\ jobs = << >> /\ \A w \in Workers : worker[w] = Idle
    /\ main' = "stopped" /\ isRunning' = FALSE /\ gStopRequested' = TRUE
    /\ UNCHANGED <<ending, inputs, http, stopThread, socketOpen, workVars, client>>

\* Run joins the stop thread and returns; server and runtime are destroyed.
Return ==
    /\ main \in {"stopped", "failed"}
    /\ stopThread = "ended"
    /\ End(IF main = "stopped" THEN "code 0" ELSE "code 1")
    /\ UNCHANGED <<stopVars, workVars, client>>

-----------------------------------------------------------------------------
(* Signals and the stop thread.                                            *)

\* SIGINT or SIGTERM: RequestStop once it is installed, before that the end.
Signal ==
    /\ main # "ended"
    /\ ~gStopRequested
    /\ IF stopThread = "off"
       THEN End("signal") /\ UNCHANGED <<stopVars, workVars, client>>
       ELSE gStopRequested' = TRUE
            /\ UNCHANGED <<mainVars, stopThread, isRunning, socketOpen, workVars, client>>

\* Mutant: if instead of while.
PollOnce ==
    /\ stopThread = "polling" /\ main # "ended"
    /\ stopThread' = IF gStopRequested THEN "stopping" ELSE "ended"
    /\ UNCHANGED <<mainVars, gStopRequested, isRunning, socketOpen, workVars, client>>

Poll ==
    /\ stopThread = "polling" /\ main # "ended"
    /\ gStopRequested
    /\ stopThread' = "stopping"
    /\ UNCHANGED <<mainVars, gStopRequested, isRunning, socketOpen, workVars, client>>

\* server.stop(): connections the kernel has queued are reset with the socket.
Stop ==
    /\ stopThread = "stopping" /\ main # "ended"
    /\ stopThread' = "ended"
    /\ IF isRunning
       THEN /\ socketOpen' = FALSE /\ backlog' = {}
            /\ client' = [c \in Clients |->
                             IF \E job \in backlog : job.client = c /\ job.number = client[c].sends
                                                     /\ client[c].at = "waiting"
                             THEN [client[c] EXCEPT !.at = "ready", !.lost = @ + 1]
                             ELSE client[c]]
       ELSE UNCHANGED <<socketOpen, backlog, client>>
    /\ UNCHANGED <<mainVars, gStopRequested, isRunning, jobs, worker, mutexHolder>>

-----------------------------------------------------------------------------
(* The handlers.                                                           *)

\* A request has via, "http" or "mcp"; op, the operation of the runtime; token,
\* whether it carries the right one; size, of its body; and form, what the body
\* (for reading a payload the path) looks like.
Effects == {"append", "payload", "consolidate"}

\* The messages that are no tool calls ask for no operation.
ASSUME RequestsAssumption ==
    \A c \in Clients : \A r \in RequestsOf[c] :
        r # None /\ (r.form \in {"initialize", "tools/list"} => r.op \notin Effects)

\* RegisterAuth and the limits and tests of HandleJsonPost and of the payload
\* path.
HttpRefuses(r) ==
    \/ http.apiToken /\ ~r.token /\ r.op # "health"
    \/ r.op = "nothing there"
    \/ r.op \in Effects \cup {"search", "context"} /\ (r.size > http.maxPayloadBytes \/ r.form = "no json")
    \/ r.op = "read" /\ r.form \in {"empty path", "dots", "control character"}

\* The JSON-RPC errors: a message that is not JSON or whose method is no
\* string, an unknown method, an initialize without the version, params that
\* are no object.  0 is none.
JsonRpcError(form) ==
    CASE form \in {"no json", "method no string"} -> -32700
      [] form = "unknown method" -> -32601
      [] form = "wrong version" -> -32602
      [] form = "params no object" -> -32603
      [] OTHER -> 0

McpRefuses(r) ==
    \/ http.apiToken /\ ~r.token
    \/ r.size > http.maxMcpMessageBytes
    \/ JsonRpcError(r.form) # 0

\* A message without id, a batch among them, is answered with 202 and dropped.
\* An unknown tool is an error in the result.
McpAnswersAlone(r) ==
    CASE r.form = "no id" -> "accepted"
      [] r.form = "unknown tool" -> "error"
      [] r.form \in {"initialize", "tools/list"} -> "ok"
      [] OTHER -> "none"

\* The answer when the runtime is not called; "none" when it is.
Route(r) ==
    IF r.via = "http"
    THEN IF HttpRefuses(r) THEN "refused" ELSE IF r.op = "health" THEN "ok" ELSE "none"
    ELSE IF McpRefuses(r) THEN "refused" ELSE McpAnswersAlone(r)

\* Encoding the answer: the reply to a payload write holds the URI, and dump
\* throws for one that is not UTF-8.  "broken" is a 500, over MCP a failed tool.
Encode(r, reply) == IF r.op = "payload" /\ reply = "ok" /\ ~http.utf8 THEN "broken" ELSE reply

\* Mutant: the envelope does not look at the result.
EnvelopeAlwaysOk(succeeded) == "ok"

\* result ? SuccessEnvelope : ErrorEnvelope.
Envelope(succeeded) == IF succeeded THEN "ok" ELSE "error"

RequestOf(job) == client[job.client].request

ReplyWith(w, reply) == worker' = [worker EXCEPT ![w].at = "replying", ![w].reply = reply]

\* A worker takes a connection and routes its request.  With the server stopped
\* it may find that the request has not come yet, and closes the connection.
\* Which of several idle workers it is makes no difference.  A connection has one
\* request; further ones of a kept-alive connection are further connections.
Take(w) ==
    /\ main # "ended"
    /\ worker[w] = Idle /\ w = CHOOSE v \in Workers : worker[v] = Idle
    /\ jobs # << >>
    /\ jobs' = Tail(jobs)
    /\ LET r == RequestOf(Head(jobs))
           Goes(at, reply) == worker' = [worker EXCEPT ![w] = [at |-> at, job |-> Head(jobs), reply |-> reply]]
       IN  \/ ~socketOpen /\ Goes("replying", "closed")
           \/ Route(r) # "none" /\ Goes("replying", Route(r))
           \/ Route(r) = "none" /\ Goes(IF r.op = "consolidate" THEN "locking" ELSE "calling", "none")
    /\ UNCHANGED <<mainVars, stopVars, backlog, mutexHolder, client>>

\* What the runtime may do: the operation, an error without it, an exception.
Perform(w, succeeded) ==
    LET job == worker[w].job
    IN  /\ ReplyWith(w, Encode(RequestOf(job), Envelope(succeeded)))
        /\ client' = [client EXCEPT ![job.client].applied =
                         IF succeeded /\ RequestOf(job).op \in Effects THEN @ + 1 ELSE @]

\* An exception, caught in HandleJsonPost or CallTool, before the operation was
\* done.  The transaction that it may leave open is a matter of LongTermStore:
\* an operation that is done here has been executed, which is not yet durable.
Throw(w) == ReplyWith(w, "broken") /\ UNCHANGED client

CallRuntime(w) ==
    /\ worker[w].at = "calling"
    /\ \/ \E succeeded \in BOOLEAN : Perform(w, succeeded)
       \/ Throw(w)
    /\ UNCHANGED <<mainVars, stopVars, backlog, jobs, mutexHolder>>

Lock(w) ==
    /\ worker[w].at = "locking"
    /\ mutexHolder = "none"
    /\ mutexHolder' = w
    /\ worker' = [worker EXCEPT ![w].at = "consolidating"]
    /\ UNCHANGED <<mainVars, stopVars, backlog, jobs, client>>

\* Mutant: the lock is not given back by an exception.
ConsolidateThrowsLocked(w) ==
    /\ worker[w].at = "consolidating"
    /\ \/ mutexHolder' = "none" /\ \E succeeded \in BOOLEAN : Perform(w, succeeded)
       \/ UNCHANGED mutexHolder /\ Throw(w)
    /\ UNCHANGED <<mainVars, stopVars, backlog, jobs>>

Consolidate(w) ==
    /\ worker[w].at = "consolidating"
    /\ mutexHolder' = "none"
    /\ \/ \E succeeded \in BOOLEAN : Perform(w, succeeded)
       \/ Throw(w)
    /\ UNCHANGED <<mainVars, stopVars, backlog, jobs>>

\* The answer reaches a client that still waits for it.
Reply(w) ==
    /\ worker[w].at = "replying"
    /\ worker' = [worker EXCEPT ![w] = Idle]
    /\ LET c == worker[w].job.client
           reply == worker[w].reply
       IN  client' = IF client[c].at # "waiting" \/ client[c].sends # worker[w].job.number THEN client
                     ELSE IF reply \in {"broken", "closed"}
                     THEN [client EXCEPT ![c].at = "ready", ![c].lost = @ + 1]
                     ELSE [client EXCEPT ![c].at = "done", ![c].answer = reply]
    /\ UNCHANGED <<mainVars, stopVars, backlog, jobs, mutexHolder>>

-----------------------------------------------------------------------------
(* The clients.                                                            *)

\* The first time, or again after no answer or a broken one.
Send(c) ==
    /\ socketOpen
    /\ client[c].at = "ready" /\ client[c].sends < MaxSends[c]
    /\ \E r \in RequestsOf[c] :
           /\ client[c].request \in {None, r}
           /\ client' = [client EXCEPT ![c].request = r, ![c].at = "waiting", ![c].sends = @ + 1]
    /\ backlog' = backlog \cup {[client |-> c, number |-> client[c].sends + 1]}
    /\ UNCHANGED <<mainVars, stopVars, jobs, worker, mutexHolder>>

\* A timeout.  (When the process is gone it makes no difference any more.)
GiveUpWaiting(c) ==
    /\ main # "ended"
    /\ client[c].at = "waiting"
    /\ client' = [client EXCEPT ![c].at = "ready", ![c].lost = @ + 1]
    /\ UNCHANGED <<mainVars, stopVars, workVars>>

-----------------------------------------------------------------------------
MainStep ==
    \/ ReadOptions \/ CreateServerSetup \/ StartStopThread \/ RegisterRoutes
    \/ Bind \/ ListenInternal \/ ShutDown \/ Return
WorkerStep(w) == Take(w) \/ CallRuntime(w) \/ Consolidate(w) \/ Reply(w)

Next ==
    \/ MainStep
    \/ \E job \in backlog : Accept(job)
    \/ Signal \/ Poll \/ Stop
    \/ \E w \in Workers : WorkerStep(w) \/ Lock(w)
    \/ \E c \in Clients : Send(c) \/ GiveUpWaiting(c)

\* Threads that can go on do (a model call ends: ModelCall!CallEnds); signals
\* and clients owe nothing.
Fairness ==
    /\ WF_vars(MainStep)
    /\ WF_vars(\E job \in backlog : Accept(job))
    /\ WF_vars(Poll \/ Stop)
    /\ \A w \in Workers : WF_vars(WorkerStep(w)) /\ WF_vars(Lock(w))

Spec == Init /\ [][Next]_vars /\ Fairness

-----------------------------------------------------------------------------
(* Properties.                                                             *)

IntOptions == {"offloadThreshold", "tokenBudget", "port", "readTimeoutSeconds", "writeTimeoutSeconds", "threadCount"}

TypeOK ==
    /\ options # None => \A k \in IntOptions : options[k] \in MinInt..MaxInt
    /\ stopThread \in {"off", "polling", "stopping", "ended"}
    /\ mutexHolder \in Workers \cup {"none"}
    /\ \A c \in Clients : client[c].sends \in 0..MaxSends[c] /\ client[c].lost <= client[c].sends
    /\ \A w \in Workers : worker[w].at = "idle" <=> worker[w].job = None

\* A server whose configuration file enables a model and says strict has a
\* client for it; rules never take its place silently, whichever of the two
\* validations (types, values) rejects the section.
StrictHasModel ==
    main = "configured" /\ UsesFile =>
        LET model == LoadSubObject(start.files[ConfigPath[1]], "model")
        IN  JsonBool(model, "strict", FALSE) /\ JsonBool(model, "enabled", FALSE) => modelClient # "none"

\* FindConfigPath, which reads the file, and the loop, which skips its name,
\* agree on which word that is: the file read is the value of the last --config
\* that stands where the loop expects an option.
ConfigFileAgreed ==
    main \in {"options", "configured"} =>
        LET args == start.args
            Named == {i \in DOMAIN args : i % 2 = 1 /\ args[i] = "--config"}
        IN  ConfigPath = IF Named = {} THEN None
                         ELSE <<args[(CHOOSE i \in Named : \A j \in Named : j <= i) + 1]>>

\* The server runs with the configuration it was given: the file that was named,
\* and the model that this file insists on.
ConfigurationHonoured == StrictHasModel /\ ConfigFileAgreed

\* What clients are told is true, and what they send is done as often as they
\* may expect: an operation with a success answered has been done, one that
\* was refused or failed has not, and it is done again only for answers that
\* were lost or broken (there is no idempotency key, so for each of those).
\* Done means executed by the runtime; when the file has it is the subject of
\* LongTermStore!AckedEventsDurable, which an exception can break.
AnswersAreTrue ==
    \A c \in Clients :
        /\ client[c].answer = "ok" /\ client[c].request.op \in Effects => client[c].applied >= 1
        /\ client[c].applied <= client[c].lost + (IF client[c].answer = "ok" \/ client[c].at = "waiting"
                                                  THEN 1 ELSE 0)

\* When Run returns, and with it the server, the routes and the runtime are
\* destroyed, no handler is running or queued and the stop thread is joined.
NothingRunsAfterReturn ==
    main = "ended" /\ ending \in {"code 0", "code 1"} =>
        /\ jobs = << >> /\ \A w \in Workers : worker[w] = Idle
        /\ stopThread \in {"off", "ended"}

\* Once the server runs, a signal ends it, whatever its workers do: the stop
\* thread closes the socket, the workers finish, the threads are joined.  (A
\* signal between the handlers' installation and is_running_ is used up by a
\* stop() without effect, and so are all later ones.)
StopEndsServer ==
    []((isRunning /\ ~gStopRequested) => [](gStopRequested => <>(main = "ended")))

\* A connection that was accepted is dealt with, also while others hold
\* consolidationMutex in a model call or throw, and also when the server stops.
AcceptedIsHandled ==
    \A c \in Clients : \A n \in 1..MaxSends[c] :
        LET Open == \/ \E i \in DOMAIN jobs : jobs[i] = [client |-> c, number |-> n]
                    \/ \E w \in Workers : worker[w].job = [client |-> c, number |-> n]
        IN  Open ~> ~Open
=============================================================================
