---------------------------- MODULE ServerConfig ----------------------------
(***************************************************************************)
(* What memory-server makes of its command line and of its configuration   *)
(* file: server_cli.cpp, server_options.cpp, the argument loop of          *)
(* server_main.cpp, the model configuration of model_client_factory.cpp    *)
(* and the model part of server_common.cpp.  All of it is decided before   *)
(* the server listens.  ServerOptions is one function from the names of    *)
(* its members, those of HttpServerOptions and McpServerOptions included.  *)
(***************************************************************************)
EXTENDS JsonHelpers

CONSTANTS
    AbsolutePaths,     \* the strings in use that begin with a slash
    Numerals           \* the integers that std::from_chars makes of whole strings

MaxPort == 65535
Ports == 1..MaxPort

ASSUME PortsAssumption == MaxPort <= MaxInt

-----------------------------------------------------------------------------
(* The configuration file.                                                 *)

DefaultOptions ==
    [dataPath |-> "./data", enablePayloadOffload |-> TRUE, offloadThreshold |-> 8000,
     tokenBudget |-> 4096, modelConfig |-> EmptyObject, strictModelConfig |-> FALSE,
     debugErrors |-> FALSE, apiToken |-> "",
     host |-> "127.0.0.1", port |-> 8090, maxPayloadBytes |-> 1048576,
     readTimeoutSeconds |-> 0, writeTimeoutSeconds |-> 0, threadCount |-> 0,
     mode |-> "http", path |-> "/mcp", maxMessageBytes |-> 1048576]

MemoryFields ==
    [dataPath |-> "string", enablePayloadOffload |-> "bool", offloadThreshold |-> "int", tokenBudget |-> "int"]
HttpFields ==
    [host |-> "string", port |-> "int", maxPayloadBytes |-> "size", readTimeoutSeconds |-> "int",
     writeTimeoutSeconds |-> "int", threadCount |-> "int"]
AuthFields == [apiToken |-> "string"]
McpFields == [mode |-> "string", path |-> "string", maxMessageBytes |-> "size"]

\* LoadModelOptions reads two members itself; ValidateJsonConfig has the others.
ModelStrings ==
    {"formatType", "baseUrl", "apiKey", "organization", "anthropicVersion", "anthropic-version", "modelName"}
ModelIntegers == {"timeoutSeconds", "maxTokens", "max_tokens"}
ModelObjects == {"headers", "extraParams"}
ModelKeys == {"enabled", "strict", "temperature"} \cup ModelStrings \cup ModelIntegers \cup ModelObjects

\* The kinds LoadString, LoadBool, LoadInt and LoadSize do not throw for.
IsLoadable(v, type) ==
    CASE type = "string" -> Kind(v) = "string"
      [] type = "bool" -> Kind(v) = "bool"
      [] type = "int" -> IsInteger(v)
      [] type = "size" -> Kind(v) = "uint"

\* Mutant: the integer as it is in the file.
LoadWide(v, type) == v[2]

\* LoadInt narrows whatever integer there is to int.
Load(v, type) == IF type = "int" THEN Narrow(v[2], IntLimit) ELSE v[2]

LoadSubObject(j, key) == IF Contains(j, key) THEN j[2][key] ELSE EmptyObject

SectionLoads(section, fields) ==
    /\ IsObject(section)
    /\ \A k \in DOMAIN section[2] : k \in DOMAIN fields /\ IsLoadable(section[2][k], fields[k])

\* The members in the section, narrowed, take the place of those of o.
LoadSection(o, section, fields) ==
    [k \in DOMAIN DefaultOptions |->
        IF k \in DOMAIN section[2] THEN Load(section[2][k], fields[k]) ELSE o[k]]

\* LoadModelOptions: its sections but for the two flags are looked at later.
ModelSectionLoads(model) ==
    /\ IsObject(model)
    /\ DOMAIN model[2] \subseteq ModelKeys
    /\ \A k \in {"enabled", "strict"} : ~HasInvalid(model, k, {"bool"})

LoadModelOptions(o, model) ==
    [o EXCEPT !.strictModelConfig = JsonBool(model, "strict", FALSE),
              !.modelConfig = IF JsonBool(model, "enabled", TRUE) THEN model ELSE EmptyObject]

\* LoadServerOptions(j) returns and does not throw.
ServerOptionsLoad(j) ==
    /\ IsObject(j)
    /\ DOMAIN j[2] \subseteq {"memory", "model", "server"}
    /\ SectionLoads(LoadSubObject(j, "memory"), MemoryFields)
    /\ ModelSectionLoads(LoadSubObject(j, "model"))
    /\ LET server == LoadSubObject(j, "server")
       IN  /\ IsObject(server)
           /\ DOMAIN server[2] \subseteq {"debugErrors", "auth", "http", "mcp"}
           /\ ~HasInvalid(server, "debugErrors", {"bool"})
           /\ SectionLoads(LoadSubObject(server, "auth"), AuthFields)
           /\ SectionLoads(LoadSubObject(server, "http"), HttpFields)
           /\ SectionLoads(LoadSubObject(server, "mcp"), McpFields)

LoadServerOptions(j) ==
    LET server == LoadSubObject(j, "server")
        withMemory == LoadSection(DefaultOptions, LoadSubObject(j, "memory"), MemoryFields)
        withModel == LoadModelOptions(withMemory, LoadSubObject(j, "model"))
        withDebug == [withModel EXCEPT !.debugErrors = JsonBool(server, "debugErrors", FALSE)]
        withAuth == LoadSection(withDebug, LoadSubObject(server, "auth"), AuthFields)
        withHttp == LoadSection(withAuth, LoadSubObject(server, "http"), HttpFields)
    IN  LoadSection(withHttp, LoadSubObject(server, "mcp"), McpFields)

ValidateServerOptions(o) ==
    /\ o.dataPath # ""
    /\ o.offloadThreshold >= 0
    /\ o.tokenBudget > 0
    /\ o.mode = "http"
    /\ o.path \in AbsolutePaths
    /\ o.maxMessageBytes # 0
    /\ o.host # ""
    /\ o.port \in Ports
    /\ o.maxPayloadBytes # 0
    /\ \A k \in {"readTimeoutSeconds", "writeTimeoutSeconds", "threadCount"} : o[k] >= 0

-----------------------------------------------------------------------------
(* The command line, a sequence of words.                                  *)

HasHelpOption(args) == \E i \in DOMAIN args : args[i] = "--help"

RequireCliValue(i, args) == i < Len(args)

ParsePort(value) == value \in DOMAIN Numerals /\ Numerals[value] \in Ports

\* Mutant: the first --config counts.
FindConfigPathFirst(args) ==
    LET Scan[i \in 1..Len(args) + 2] ==
            IF i > Len(args) THEN [ok |-> TRUE, path |-> << >>]
            ELSE IF args[i] # "--config" THEN Scan[i + 1]
            ELSE IF ~RequireCliValue(i, args) THEN [ok |-> FALSE, path |-> << >>]
            ELSE [Scan[i + 2] EXCEPT !.path = <<args[i + 1]>>]
    IN  Scan[1]

\* The last --config counts.  A word that is the value of another option is
\* looked at like any other.
FindConfigPath(args) ==
    LET Scan[i \in 1..Len(args) + 2] ==
            IF i > Len(args) THEN [ok |-> TRUE, path |-> << >>]
            ELSE IF args[i] # "--config" THEN Scan[i + 1]
            ELSE IF ~RequireCliValue(i, args) THEN [ok |-> FALSE, path |-> << >>]
            ELSE [Scan[i + 2] EXCEPT !.path = IF @ = << >> THEN <<args[i + 1]>> ELSE @]
    IN  Scan[1]

\* The loop of Run: what the options override, and whether it gets to the end.
\* An override given later wins.
ReadArguments(args) ==
    LET Value(i) == args[i + 1]
        Overrides(i) ==
            CASE args[i] = "--host" -> [host |-> Value(i)]
              [] args[i] = "--port" -> [port |-> Numerals[Value(i)]]
              [] args[i] = "--data" -> [dataPath |-> Value(i)]
              [] args[i] = "--config" -> NoMembers
        Accepts(i) ==
            /\ args[i] \in {"--config", "--host", "--port", "--data"}
            /\ RequireCliValue(i, args)
            /\ args[i] = "--port" => ParsePort(Value(i))
        Read[i \in 1..Len(args) + 2] ==
            IF i > Len(args) THEN [ok |-> TRUE, set |-> NoMembers]
            ELSE IF ~Accepts(i) THEN [ok |-> FALSE, set |-> NoMembers]
            ELSE [Read[i + 2] EXCEPT !.set = @ ++ Overrides(i)]
    IN  Read[1]

-----------------------------------------------------------------------------
(* The model.                                                              *)

ValidateJsonConfig(j) ==
    /\ \A k \in ModelStrings : ~HasInvalid(j, k, {"string"})
    /\ \A k \in ModelIntegers : ~HasInvalid(j, k, IntegerKinds)
    /\ ~HasInvalid(j, "temperature", NumberKinds)
    /\ \A k \in ModelObjects : ~HasInvalid(j, k, {"object"})

\* The members that decide whether there is a client; the temperature in tenths.
LoadMemoryModelConfigFromJson(j) ==
    [formatType |-> JsonString(j, "formatType", "openai"),
     baseUrl |-> JsonString(j, "baseUrl", ""),
     modelName |-> JsonString(j, "modelName", ""),
     timeoutSeconds |-> JsonInt(j, "timeoutSeconds", 60),
     temperature |-> JsonDouble(j, "temperature", 0),
     maxTokens |-> JsonInt(j, "maxTokens", JsonInt(j, "max_tokens", 0)),
     headers |-> JsonStringMap(j, "headers")]

ValidateCommon(config) ==
    /\ config.baseUrl # ""
    /\ config.modelName # ""
    /\ config.timeoutSeconds > 0
    /\ config.maxTokens >= 0
    /\ config.temperature \in 0..20

\* "none" is the null pointer that comes with an error.
LoadModelClientFromConfig(config) ==
    IF config.formatType \in {"openai", "anthropic"} /\ ValidateCommon(config)
    THEN config.formatType ELSE "none"

LoadModelClientFromJson(j) ==
    IF ValidateJsonConfig(j) THEN LoadModelClientFromConfig(LoadMemoryModelConfigFromJson(j)) ELSE "none"

\* CreateServerSetup throws for a model it cannot use if the file says strict,
\* and otherwise goes on with rules (and with config.model.enabled false).
StrictModelFails(o) ==
    o.modelConfig # EmptyObject /\ o.strictModelConfig /\ LoadModelClientFromJson(o.modelConfig) = "none"

ModelClient(o) == IF o.modelConfig = EmptyObject THEN "none" ELSE LoadModelClientFromJson(o.modelConfig)
=============================================================================
