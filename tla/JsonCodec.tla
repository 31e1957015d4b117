------------------------------ MODULE JsonCodec ------------------------------
(***************************************************************************)
(* json_memory_codec.cpp: the JSON form of the public structures, as one   *)
(* party (a client, a server of another version) writes it and another     *)
(* reads it.  The *ToJson and *FromJson functions are tables of members    *)
(* and their types; a member and its key have the same name.  Members a    *)
(* structure has only inside the process (storeCursor, agentId of          *)
(* entities and relations, the supersede marks) are in none of them.       *)
(*                                                                         *)
(* Between writing and reading, one field may be left out or hold another  *)
(* JSON value, as documents of other versions and clients do.              *)
(***************************************************************************)
EXTENDS JsonHelpers

CONSTANTS Strings,        \* contents of strings; "" and one other
          Values,         \* the JSON values a field may hold instead of its own
          Schemas         \* the structures that are sent

SchemaNames ==
    {"message", "payloadRef", "entity", "relation", "stats", "event", "contextRequest",
     "contextPackage", "payloadWriteRequest", "payloadWriteResult", "consolidationRequest",
     "consolidationResult", "searchRequest", "searchResponse"}

ASSUME StringsAssumption == "" \in Strings /\ Strings # {""}
ASSUME SchemasAssumption == Schemas \subseteq SchemaNames
ASSUME ValuesAssumption == \A v \in Values : IsJson(v, Strings, Values)
\* int has room for the greatest default.
ASSUME DefaultsAssumption == 4096 <= MaxInt

kSchemaVersion == 1

\* enum class MemoryEventType, by number.
EventTypes == 0..7
SessionStarted == 0

Typed(type, keys) == [k \in keys |-> type]

-----------------------------------------------------------------------------
(* Members by type.  The structures without structures inside:             *)

MessageFields == Typed("string", {"role", "content", "toolCallId", "toolName", "payloadRef"})
PayloadRefFields ==
    Typed("string", {"agentId", "sessionId", "uri", "contentType", "summary", "toolName", "createdAt"})
    ++ Typed("int", {"originalChars"}) ++ Typed("object", {"metadata"})
EntityFields ==
    Typed("string", {"id", "entityType", "name", "summary", "createdAt", "updatedAt"})
    ++ Typed("float", {"confidence"}) ++ Typed("strings", {"sourceRefs"}) ++ Typed("object", {"metadata"})
RelationFields ==
    Typed("string", {"id", "fromEntityId", "relationType", "toEntityId", "createdAt", "updatedAt"})
    ++ Typed("float", {"confidence"}) ++ Typed("strings", {"sourceRefs"}) ++ Typed("object", {"metadata"})
HitFields ==
    Typed("string", {"id", "type", "content"}) ++ Typed("float", {"score"})
    ++ Typed("strings", {"sourceRefs"}) ++ Typed("object", {"metadata"})
ErrorFields == Typed("string", {"code", "message", "details"}) ++ Typed("bool", {"retryable"})

StatsFields ==
    Typed("int", {"events", "payloads", "summaries", "entities", "relations"}) ++ Typed("object", {"metadata"})
EventFields ==
    Typed("string", {"agentId", "sessionId", "role", "content", "toolCallId", "toolName",
                     "payloadRef", "timestamp"})
    ++ Typed("eventType", {"type"}) ++ Typed("object", {"metadata"})
ContextRequestFields ==
    Typed("string", {"agentId", "sessionId", "query"}) ++ Typed("int", {"tokenBudget"})
    ++ Typed("strings", {"includeSections"}) ++ Typed("object", {"metadata"})
PayloadWriteRequestFields ==
    Typed("string", {"agentId", "sessionId", "content", "contentType", "toolCallId", "toolName"})
    ++ Typed("object", {"metadata"})
SearchRequestFields ==
    Typed("string", {"agentId", "sessionId", "query"}) ++ Typed("int", {"limit"})
    ++ Typed("strings", {"includeSections"}) ++ Typed("object", {"metadata"})
ConsolidationRequestFields ==
    Typed("string", {"agentId", "sessionId"}) ++ Typed("int", {"maxEvents"})
    ++ Typed("bool", {"forceReprocess"}) ++ Typed("strings", {"excludedSessionIds"})
    ++ Typed("object", {"metadata"})

(* and the ones that hold others.                                          *)
ConsolidationResultFields ==
    Typed("bool", {"succeeded", "fallbackUsed"})
    ++ Typed("int", {"processedEvents", "savedSummaries", "savedEntities", "savedRelations"})
    ++ Typed("string", {"nextCursor", "sessionId"}) ++ Typed("error", {"error"})
PayloadWriteResultFields ==
    Typed("bool", {"succeeded", "offloaded"}) ++ Typed("string", {"replacementContent"})
    ++ Typed("payload", {"payload"}) ++ Typed("error", {"error"})
ContextPackageFields ==
    Typed("string", {"memoryText"}) ++ Typed("strings", {"citations"}) ++ Typed("object", {"metadata"})
    ++ Typed("messages", {"messages"}) ++ Typed("entities", {"entities"})
    ++ Typed("relations", {"relations"}) ++ Typed("payloads", {"payloadRefs"})
SearchResponseFields == Typed("hits", {"results"})

Fields(schema) ==
    CASE schema = "message" -> MessageFields
      [] schema = "payloadRef" -> PayloadRefFields
      [] schema = "entity" -> EntityFields
      [] schema = "relation" -> RelationFields
      [] schema = "stats" -> StatsFields
      [] schema = "event" -> EventFields
      [] schema = "contextRequest" -> ContextRequestFields
      [] schema = "contextPackage" -> ContextPackageFields
      [] schema = "payloadWriteRequest" -> PayloadWriteRequestFields
      [] schema = "payloadWriteResult" -> PayloadWriteResultFields
      [] schema = "consolidationRequest" -> ConsolidationRequestFields
      [] schema = "consolidationResult" -> ConsolidationResultFields
      [] schema = "searchRequest" -> SearchRequestFields
      [] schema = "searchResponse" -> SearchResponseFields

\* What is inside the nested types.
ItemFields(type) ==
    CASE type = "messages" -> MessageFields
      [] type = "entities" -> EntityFields
      [] type = "relations" -> RelationFields
      [] type \in {"payload", "payloads"} -> PayloadRefFields
      [] type = "hits" -> HitFields
      [] type = "error" -> ErrorFields

Lists == {"messages", "entities", "relations", "payloads", "hits"}

\* Sent without WithSchema, alone or inside another structure.
Unversioned == {"message", "payloadRef", "entity", "relation"}

-----------------------------------------------------------------------------
(* Writing.                                                                *)

WriteScalar(type, v) ==
    CASE type = "string" -> Str(v)
      [] type \in {"int", "eventType"} -> Number(v)
      [] type = "float" -> Tenths(v)
      [] type = "bool" -> Bool(v)
      [] type = "strings" -> Array([i \in DOMAIN v |-> Str(v[i])])
      [] type = "object" -> JsonObject(v)

WriteItem(fields, v) == Object([k \in DOMAIN fields |-> WriteScalar(fields[k], v[k])])

\* No error, told by its empty code, is an empty object.
ErrorToJson(error) == IF error.code = "" THEN EmptyObject ELSE WriteItem(ErrorFields, error)

WriteField(type, v) ==
    CASE type = "error" -> ErrorToJson(v)
      [] type = "payload" -> WriteItem(PayloadRefFields, v)
      [] type \in Lists -> Array([i \in DOMAIN v |-> WriteItem(ItemFields(type), v[i])])
      [] OTHER -> WriteScalar(type, v)

\* A search response also says ok.
ToJson(schema, v) ==
    Object([k \in DOMAIN Fields(schema) |-> WriteField(Fields(schema)[k], v[k])]
           ++ (IF schema \in Unversioned THEN NoMembers ELSE [schemaVersion |-> Number(kSchemaVersion)])
           ++ (IF schema = "searchResponse" THEN [ok |-> Bool(TRUE)] ELSE NoMembers))

-----------------------------------------------------------------------------
(* Reading.                                                                *)

\* The defaults that *FromJson gives; 0 for the other integers.
IntDefault(key) ==
    CASE key = "tokenBudget" -> 4096
      [] key = "maxEvents" -> 100
      [] key = "limit" -> 10
      [] OTHER -> 0

\* Mutant: the cast to the enumeration without the switch.
EventTypeUnchecked(j) == JsonInt(j, "type", SessionStarted)

\* An integer that is no event type is SESSION_STARTED.
EventTypeFromJson(j) ==
    LET type == JsonInt(j, "type", SessionStarted)
    IN  IF type \in EventTypes THEN type ELSE SessionStarted

\* Mutant: the name of the tool from the id of its call.
ReadScalarWrongKey(type, j, key) ==
    CASE type = "string" -> JsonString(j, IF key = "toolName" THEN "toolCallId" ELSE key, "")
      [] type = "int" -> JsonInt(j, key, IntDefault(key))
      [] type = "eventType" -> EventTypeFromJson(j)
      [] type = "float" -> JsonDouble(j, key, 0)
      [] type = "bool" -> JsonBool(j, key, FALSE)
      [] type = "strings" -> StringVectorFromJson(JsonFieldValue(j, key))
      [] type = "object" -> JsonObject(JsonFieldValue(j, key))

ReadScalar(type, j, key) ==
    CASE type = "string" -> JsonString(j, key, "")
      [] type = "int" -> JsonInt(j, key, IntDefault(key))
      [] type = "eventType" -> EventTypeFromJson(j)
      [] type = "float" -> JsonDouble(j, key, 0)
      [] type = "bool" -> JsonBool(j, key, FALSE)
      [] type = "strings" -> StringVectorFromJson(JsonFieldValue(j, key))
      [] type = "object" -> JsonObject(JsonFieldValue(j, key))

\* Reading a null gives the structure with its defaults.
ReadItem(fields, j) == [k \in DOMAIN fields |-> ReadScalar(fields[k], j, k)]

\* A list keeps its objects and drops its other items.
ReadField(type, j, key) ==
    LET v == JsonFieldValue(j, key)
    IN  CASE type \in {"error", "payload"} ->
                ReadItem(ItemFields(type), IF IsObject(v) THEN v ELSE Null)
          [] type \in Lists ->
                LET items == IF Kind(v) = "array" THEN Kept(v[2], {i \in DOMAIN v[2] : IsObject(v[2][i])}) ELSE << >>
                IN  [i \in DOMAIN items |-> ReadItem(ItemFields(type), items[i])]
          [] OTHER -> ReadScalar(type, j, key)

FromJson(schema, j) == [k \in DOMAIN Fields(schema) |-> ReadField(Fields(schema)[k], j, k)]

-----------------------------------------------------------------------------
(* Diagnostics.                                                            *)

\* Mutant: an integer is no number to the rules, but is one to JsonDouble.
MatchesTypeFloatOnly(v, type) ==
    CASE type = "String" -> Kind(v) = "string"
      [] type = "Integer" -> IsInteger(v)
      [] type = "Float" -> Kind(v) = "float"
      [] type = "Boolean" -> Kind(v) = "bool"
      [] type = "Array" -> Kind(v) = "array"
      [] type = "Object" -> IsObject(v)

MatchesType(v, type) ==
    CASE type = "String" -> Kind(v) = "string"
      [] type = "Integer" -> IsInteger(v)
      [] type = "Float" -> IsNumber(v)
      [] type = "Boolean" -> Kind(v) = "bool"
      [] type = "Array" -> Kind(v) = "array"
      [] type = "Object" -> IsObject(v)

\* The JSON type that goes with the type of a member.
RuleType(type) ==
    CASE type = "string" -> "String"
      [] type \in {"int", "eventType"} -> "Integer"
      [] type = "float" -> "Float"
      [] type = "bool" -> "Boolean"
      [] type \in Lists \cup {"strings"} -> "Array"
      [] type \in {"object", "error", "payload"} -> "Object"

\* Members without a rule.
NoRule(schema) ==
    CASE schema = "payloadRef" -> {"agentId", "sessionId"}
      [] schema = "payloadWriteResult" -> {"succeeded", "error"}
      [] schema = "consolidationRequest" -> {"excludedSessionIds"}
      [] OTHER -> {}

\* The other members have one, and it has their type, but for the error of a
\* consolidation, which is declared a string.
SchemaRules(schema) ==
    [k \in DOMAIN Fields(schema) \ NoRule(schema) |->
        IF schema = "consolidationResult" /\ k = "error" THEN "String" ELSE RuleType(Fields(schema)[k])]
    ++ (IF schema = "searchResponse" THEN [ok |-> "Boolean"] ELSE NoMembers)

\* Warnings and errors by the key they are about; "$" is the document.
JsonDecodeDiagnosticsFor(schema, j) ==
    IF ~IsObject(j) THEN [warnings |-> {}, errors |-> {"$"}]
    ELSE [warnings |->
             (IF HasInvalid(j, "schemaVersion", IntegerKinds)
                 \/ JsonInt(j, "schemaVersion", kSchemaVersion) > kSchemaVersion
              THEN {"schemaVersion"} ELSE {})
             \cup {k \in DOMAIN SchemaRules(schema) :
                      Contains(j, k) /\ ~MatchesType(j[2][k], SchemaRules(schema)[k])},
          errors |-> IF schema = "searchResponse" /\ Kind(JsonFieldValue(j, "results")) # "array"
                     THEN {"results"} ELSE {}]

-----------------------------------------------------------------------------
(* One structure on its way.                                               *)

VARIABLES
    stage,       \* "new", "written", "altered", "read"
    schema,
    sent,        \* the structure that was written
    wire,        \* its JSON document
    altered,     \* the keys that hold something else than was written
    received,    \* the structure that was read
    issues       \* the diagnostics of the reader

vars == <<stage, schema, sent, wire, altered, received, issues>>

\* Contents of a member that a round trip could lose, the usual one first:
\* empty and not, the ends of the range, a list of two.
SomeString == CHOOSE s \in Strings : s # ""
Samples(type) ==
    CASE type = "string" -> <<SomeString, "">>
      [] type = "int" -> <<7, 0, MinInt, MaxInt>>
      [] type = "eventType" -> <<2, 0, 1, 3, 4, 5, 6, 7>>
      [] type = "float" -> <<8, 0>>
      [] type = "bool" -> <<TRUE, FALSE>>
      [] type = "strings" -> <<<<SomeString>>, << >>, <<"", SomeString>>>>
      [] type = "object" -> <<Object([k |-> Str(SomeString)]), EmptyObject>>

Filled(fields) == [k \in DOMAIN fields |-> Samples(fields[k])[1]]
Variants(fields) ==
    {Filled(fields)} \cup
    UNION {{[Filled(fields) EXCEPT ![k] = Samples(fields[k])[i]] : i \in DOMAIN Samples(fields[k])}
              : k \in DOMAIN fields}

\* An error without a code is no error and has no other member.
NestedSamples(type) ==
    CASE type = "error" -> {v \in Variants(ErrorFields) : v.code # ""} \cup {ReadItem(ErrorFields, Null)}
      [] type = "payload" -> Variants(PayloadRefFields)
      [] OTHER -> {<< >>, <<Filled(ItemFields(type)), ReadItem(ItemFields(type), Null)>>}
                  \cup {<<v>> : v \in Variants(ItemFields(type))}

Nested == Lists \cup {"error", "payload"}
FilledMember(type) ==
    IF type \in Lists THEN <<Filled(ItemFields(type))>>
    ELSE IF type \in Nested THEN Filled(ItemFields(type)) ELSE Samples(type)[1]

\* Structures with all members set but for one that has any of its samples.
Structures(s) ==
    LET fields == Fields(s)
        filled == [k \in DOMAIN fields |-> FilledMember(fields[k])]
        Others(k) == IF fields[k] \in Nested THEN NestedSamples(fields[k])
                     ELSE {Samples(fields[k])[i] : i \in DOMAIN Samples(fields[k])}
    IN  UNION {{[filled EXCEPT ![k] = v] : v \in Others(k)} : k \in DOMAIN fields}

Init ==
    /\ stage = "new"
    /\ schema \in Schemas
    /\ sent = << >> /\ wire = Null /\ received = << >>
    /\ altered = {}
    /\ issues = [warnings |-> {}, errors |-> {}]

Write(v) ==
    /\ stage = "new"
    /\ sent' = v
    /\ wire' = ToJson(schema, v)
    /\ stage' = "written"
    /\ UNCHANGED <<schema, altered, received, issues>>

\* A field that the writer leaves out.
Omit(key) ==
    /\ stage = "written"
    /\ wire' = Object([k \in DOMAIN wire[2] \ {key} |-> wire[2][k]])
    /\ altered' = {key}
    /\ stage' = "altered"
    /\ UNCHANGED <<schema, sent, received, issues>>

\* A field that the writer fills with another value.
Replace(key, value) ==
    /\ stage = "written"
    /\ value # wire[2][key]
    /\ wire' = Object([wire[2] EXCEPT ![key] = value])
    /\ altered' = {key}
    /\ stage' = "altered"
    /\ UNCHANGED <<schema, sent, received, issues>>

\* A document that is no object.
ReplaceAll(value) ==
    /\ stage = "written"
    /\ ~IsObject(value)
    /\ wire' = value
    /\ altered' = DOMAIN wire[2]
    /\ stage' = "altered"
    /\ UNCHANGED <<schema, sent, received, issues>>

\* The Decode* functions: the diagnostics, then the structure whatever they say.
DecodeWithDiagnostics ==
    /\ stage \in {"written", "altered"}
    /\ issues' = JsonDecodeDiagnosticsFor(schema, wire)
    /\ received' = FromJson(schema, wire)
    /\ stage' = "read"
    /\ UNCHANGED <<schema, sent, wire, altered>>

Next ==
    \/ stage = "new" /\ \E v \in Structures(schema) : Write(v)
    \/ stage = "written" /\ \E key \in DOMAIN wire[2] : Omit(key) \/ \E value \in Values : Replace(key, value)
    \/ \E value \in Values : ReplaceAll(value)
    \/ DecodeWithDiagnostics

Spec == Init /\ [][Next]_vars

-----------------------------------------------------------------------------
(* Properties.                                                             *)

Members == DOMAIN Fields(schema)

IsScalar(type, v) ==
    CASE type = "string" -> v \in Strings
      [] type = "int" -> v \in MinInt..MaxInt
      [] type = "eventType" -> v \in EventTypes
      [] type = "float" -> v \in Int
      [] type = "bool" -> v \in BOOLEAN
      [] type = "strings" -> \A i \in DOMAIN v : v[i] \in Strings
      [] type = "object" -> IsObject(v)

\* Whatever JSON value a field holds, what is read is a structure of its type:
\* no integer leaves the range of int, every event has one of the eight types
\* and a metadata member is an object.
TypeOK ==
    stage = "read" =>
        \A k \in Members :
            LET type == Fields(schema)[k]
                IsItem(v) == \A f \in DOMAIN ItemFields(type) : IsScalar(ItemFields(type)[f], v[f])
            IN  IF type \in Lists THEN \A i \in DOMAIN received[k] : IsItem(received[k][i])
                ELSE IF type \in Nested THEN IsItem(received[k])
                ELSE IsScalar(type, received[k])

\* What one party writes the other reads back, member by member, also when
\* another field of the document is missing or has a value of another type:
\* *FromJson is the inverse of *ToJson and no member is read from the field of
\* another.
UnalteredMembersSurvive ==
    stage = "read" => \A k \in Members \ altered : received[k] = sent[k]

\* The members that hold one plain value; the others hold items or members of
\* their own, which may be lost one by one.
Simple == {"string", "int", "eventType", "float", "bool", "object"}

\* What a member is when its field is missing.
Default(k) == ReadField(Fields(schema)[k], Null, k)

\* Whatever value a field holds, its member is that value (an integer where a
\* fraction is expected counts as one) or its default, never a third value: a
\* budget or a limit beyond int is not cut to another number, and an unknown
\* event type does not become a neighbouring one.  This is about integers that
\* a long long has: JsonInt wraps the others (2^64 - 1 is read as -1).
TakenOrDefault ==
    (stage = "read" /\ IsObject(wire)) =>
        \A k \in Members \cap DOMAIN wire[2] :
            LET type == Fields(schema)[k]
                v == wire[2][k]
            IN  (type \in Simple /\ (IsInteger(v) => v[2] < LongLimit)) =>
                    \/ WriteField(type, received[k]) = v
                    \/ type = "float" /\ IsInteger(v) /\ received[k] = 10 * v[2]
                    \/ received[k] = Default(k)

\* The rule of this field asks for a string, where an object is written and
\* read: a warning about it says nothing (WrongTypesWarned is about the rules).
WrongRule(k) == schema = "consolidationResult" /\ k = "error"

\* A document as written gives neither warnings nor errors, and neither does one
\* with a field less, except for the results of a search, which are required.
CompleteDocumentsAccepted ==
    (stage = "read" /\ IsObject(wire) /\ \A k \in altered : ~Contains(wire, k)) =>
        /\ \A k \in issues.warnings : WrongRule(k)
        /\ issues.errors = (IF schema = "searchResponse" THEN altered \cap {"results"} ELSE {})

\* When a warning or an error names a member, the decoder has dropped the value
\* of its field and gone on with the default.
NamedIsDropped ==
    (stage = "read" /\ IsObject(wire)) =>
        \A k \in Members \cap (issues.warnings \cup issues.errors) : WrongRule(k) \/ received[k] = Default(k)

\* The diagnostics raise no false alarm, although the types they ask for are
\* a second table beside what the decoder accepts: complete documents pass
\* without a word, and a value that is complained about is one that was dropped.
NoFalseAlarm == CompleteDocumentsAccepted /\ NamedIsDropped

\* docs/serialization_design.md: a field that is there with another type is
\* recorded as a warning.  The tables of SchemaRules leave out five members and
\* give one the wrong type.
WrongTypesWarned ==
    (stage = "read" /\ IsObject(wire)) =>
        \A k \in Members \cap DOMAIN wire[2] :
            ~MatchesType(wire[2][k], RuleType(Fields(schema)[k])) => k \in issues.warnings
=============================================================================
