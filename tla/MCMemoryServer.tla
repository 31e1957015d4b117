--------------------------- MODULE MCMemoryServer ---------------------------
(***************************************************************************)
(* Starts: a complete configuration file with any one member left out,     *)
(* replaced or added, on a good disk; command lines of up to four words    *)
(* with that file; and disks and addresses that fail.  int has 20 bits and *)
(* long long 24, so that a port fits and 2^20 + 80 does not.               *)
(***************************************************************************)
EXTENDS MemoryServer, TLC

CONSTANTS w1, w2, c1, c2

MCNumerals == [n \in {"0", "80", "65536"} |-> CASE n = "0" -> 0 [] n = "80" -> 80 [] OTHER -> 65536]

ModelSection ==
    [enabled |-> Bool(TRUE), strict |-> Bool(TRUE), formatType |-> Str("anthropic"), baseUrl |-> Str("s"), modelName |-> Str("s"),
     timeoutSeconds |-> Number(30), temperature |-> Tenths(5)]
ServerSection ==
    [auth |-> Object([apiToken |-> Str("s")]),
     http |-> Object([port |-> Number(80), maxPayloadBytes |-> Number(4)]),
     mcp |-> Object([path |-> Str("/s"), maxMessageBytes |-> Number(8)])]
Document ==
    [memory |-> Object([dataPath |-> Str("s"), tokenBudget |-> Number(9)]),
     model |-> Object(ModelSection), server |-> Object(ServerSection)]

OtherDocument == Object([server |-> Object(ServerSection)])

MCValues ==
    {Null, Bool(FALSE), Str(""), Str("openai"), Str("/("), EmptyObject, Tenths(25),
     Number(-1), Number(0), Number(4), Number(2 ^ 20 + 80)}

\* The limits are only replaced by what is refused: two servers that differ in
\* their limits, one with this file and one without a file, are enough.
Limits == {"maxPayloadBytes", "maxMessageBytes"}
ValuesFor(k) == IF k \in Limits THEN {Null, Number(-1), Number(0)} ELSE MCValues

\* f with one member replaced, added or left out.
Changes(f, keys) ==
    UNION {{(k :> v) @@ f : v \in ValuesFor(k)} : k \in keys} \cup {[j \in DOMAIN f \ {k} |-> f[j]] : k \in DOMAIN f \ Limits}
Inside(f, section, fields) ==
    {(section :> Object(g)) @@ f : g \in Changes(f[section][2], fields \cup {"unknown"})}

ServerSections ==
    {g \in Changes(ServerSection, {"debugErrors", "auth", "http", "mcp", "unknown"}) :
       \A k \in {"http", "mcp"} : k \in DOMAIN g /\ g[k] # EmptyObject}
    \cup Inside(ServerSection, "auth", {"apiToken"})
    \cup Inside(ServerSection, "http", DOMAIN HttpFields)
    \cup Inside(ServerSection, "mcp", DOMAIN McpFields)
Documents ==
    {Null, Object(Document)}
    \cup {Object(f) : f \in {g \in Changes(Document, {"memory", "model", "server", "unknown"}) :
                                "server" \in DOMAIN g /\ g["server"] # EmptyObject}}
    \cup {Object(f) : f \in Inside(Document, "memory", DOMAIN MemoryFields)}
    \cup {Object(f) : f \in Inside(Document, "model", ModelKeys)}
    \cup {Object("server" :> Object(g) @@ Document) : g \in ServerSections}
    \* a model that is not strict and cannot be used
    \cup {Object("model" :> Object("strict" :> Bool(FALSE) @@ "formatType" :> Str("s") @@ ModelSection) @@ Document)}

\* Without a file the data is below the working directory, whose path is not UTF-8.
Start(args, document) ==
    [args |-> args, files |-> [n \in {"f", "g"} |-> IF n = "f" THEN document ELSE OtherDocument],
     writable |-> TRUE, opens |-> TRUE, free |-> TRUE, utf8 |-> \E i \in DOMAIN args : args[i] = "--config"]
Usual == Start(<<"--config", "f">>, Object(Document))

Words == {"--config", "--host", "--port", "--data", "--help", "f", "g", "80", "0"}
CommandLines == UNION {[1..n -> Words] : n \in 0..3} \cup [1..4 -> Words \ {"--help", "--port", "80", "0"}]

\* A file that sets no token is read and validated, but the address is taken: the
\* server without a file serves without one.
HasToken(d) == JsonString(JsonFieldValue(JsonFieldValue(d, "server"), "auth"), "apiToken", "") # ""

MCStarts ==
    {[Start(<<"--config", "f">>, d) EXCEPT !.free = HasToken(d)] : d \in Documents}
    \cup {Start(args, Object(Document)) : args \in CommandLines}
    \cup {[Usual EXCEPT ![k] = FALSE] : k \in {"writable", "opens", "free"}}

MCMaxSends == [c \in Clients |-> IF c = c1 THEN 2 ELSE 1]

Request(via, op, token, size, form) == [via |-> via, op |-> op, token |-> token, size |-> size, form |-> form]
MCRequests ==
    [c \in Clients |->
        IF c = c1
        THEN {Request("http", "payload", TRUE, 1, "json"), Request("http", "consolidate", TRUE, 5, "json"),
              Request("mcp", "append", TRUE, 5, "call"), Request("mcp", "append", TRUE, 1, "no id")}
        ELSE {Request("mcp", "consolidate", TRUE, 1, "call"), Request("http", "read", FALSE, 0, "dots")}]
=============================================================================
