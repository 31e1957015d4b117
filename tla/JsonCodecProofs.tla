--------------------------- MODULE JsonCodecProofs ---------------------------
(***************************************************************************)
(* Proofs about JsonCodec: what is written is read back, whatever is read  *)
(* has its type and is the value of the field or the default, and the      *)
(* diagnostics complain of nothing else than dropped values, for every set *)
(* of strings and of JSON values and for every width of the integers.      *)
(*                                                                         *)
(* The tables of members are the data of the codec and are fixed, so their *)
(* lemmas go through them; everything after them is by the type of a       *)
(* member.  The document on its way is described by CodecInv.              *)
(***************************************************************************)
EXTENDS JsonCodec, FiniteSetTheorems, WellFoundedInduction, TLAPS

-----------------------------------------------------------------------------
(* Keeping items of a sequence, in their order.                            *)

\* A set of numbers that is not empty has a least one.
LEMMA Least ==
    ASSUME NEW S \in SUBSET Nat, S # {}
    PROVE  \E m \in S : \A k \in S : m <= k
<1> DEFINE R == OpToRel(<, Nat)
<1>1. IsWellFoundedOn(R, Nat)
  BY NatLessThanWellFounded
<1>2. PICK x \in S : \A y \in S : <<y, x>> \notin R
  <2> HIDE DEF R
  <2>1. QED
    BY <1>1, WFMin, Zenon
<1>3. \A y \in S : y < x => <<y, x>> \in R
  BY DEF OpToRel
<1>4. x \in Nat /\ \A y \in S : y \in Nat
  OBVIOUS
<1>5. \A y \in S : ~(y < x)
  BY <1>2, <1>3
<1>6. \A y \in S : x <= y
  BY <1>4, <1>5
<1>7. QED
  BY <1>6

\* How many of the positions in P are not beyond n.
Count(P, n) == Cardinality({j \in P : j <= n})

\* Every number up to the size of P is the number of some position in P.
LEMMA Positions ==
    ASSUME NEW n \in Nat, NEW P \in SUBSET (1..n)
    PROVE  /\ Cardinality(P) \in Nat
           /\ \A k \in 1..Cardinality(P) : \E i \in P : Count(P, i) = k
<1>0. \A j \in P : j \in Int /\ 1 <= j /\ j <= n
  OBVIOUS
<1>1. IsFiniteSet(1..n)
  BY FS_Interval
<1>2. IsFiniteSet(P) /\ Cardinality(P) \in Nat
  BY <1>1, FS_Subset, FS_CardinalityType
<1>3. \A m \in 0..n : IsFiniteSet({j \in P : j <= m}) /\ Count(P, m) \in Nat
  BY <1>2, FS_Subset, FS_CardinalityType DEF Count
<1>4. Count(P, 0) = 0
  <2>1. {j \in P : j <= 0} = {}
    <3>1. \A j \in P : ~(j <= 0)
      BY <1>0
    <3>2. QED
      BY <3>1
  <2>2. QED
    BY <2>1, FS_EmptySet DEF Count
<1>5. Count(P, n) = Cardinality(P)
  <2>1. {j \in P : j <= n} = P
    BY <1>0
  <2>2. QED
    BY <2>1 DEF Count
<1>6. ASSUME NEW k \in 1..Cardinality(P)
      PROVE  \E i \in P : Count(P, i) = k
  <2> DEFINE S == {m \in 0..n : Count(P, m) >= k}
  <2>1. n \in S /\ S \in SUBSET Nat
    BY <1>2, <1>5
  <2>2. PICK m \in S : \A l \in S : m <= l
    BY <2>1, Least
  <2>3. m \in 0..n /\ Count(P, m) >= k
    BY <2>2
  <2>4. m # 0
    BY <1>4, <2>3
  <2>5. m - 1 \in 0..n /\ ~(Count(P, m - 1) >= k)
    BY <2>2, <2>3, <2>4
  <2>6. CASE m \in P
    <3>1. {j \in P : j <= m} = {j \in P : j <= m - 1} \cup {m}
      <4>1. \A j \in P : j <= m <=> (j <= m - 1 \/ j = m)
        BY <1>0, <2>3
      <4>2. QED
        BY <4>1, <2>6
    <3>2. m \notin {j \in P : j <= m - 1}
      BY <2>3
    <3>3. Count(P, m) = Count(P, m - 1) + 1
      BY <3>1, <3>2, <1>3, <2>5, FS_AddElement DEF Count
    <3>4. Count(P, m) = k
      <4>1. Count(P, m - 1) \in Nat /\ k \in Nat /\ Count(P, m) >= k /\ ~(Count(P, m - 1) >= k)
        <5>1. k \in Nat
          BY <1>2
        <5>2. Count(P, m - 1) \in Nat
          BY <1>3, <2>5
        <5>3. QED
          BY <5>1, <5>2, <2>3, <2>5
      <4>2. QED
        BY <3>3, <4>1
    <3>5. QED
      BY <2>6, <3>4
  <2>7. CASE m \notin P
    <3>1. {j \in P : j <= m} = {j \in P : j <= m - 1}
      <4>1. \A j \in P : j <= m <=> j <= m - 1
        BY <1>0, <2>7, <2>3
      <4>2. QED
        BY <4>1
    <3>2. QED
      BY <3>1, <2>3, <2>5 DEF Count
  <2>8. QED
    BY <2>6, <2>7
<1>7. QED
  BY <1>2, <1>6

\* What Kept returns: a sequence of items at these positions.
LEMMA KeptItems ==
    ASSUME NEW S, NEW s \in Seq(S), NEW P, P \subseteq DOMAIN s
    PROVE  /\ Cardinality(P) \in Nat /\ DOMAIN Kept(s, P) = 1..Cardinality(P)
           /\ \A k \in 1..Cardinality(P) : \E i \in P : Kept(s, P)[k] = s[i]
<1> DEFINE n == Len(s)
<1>0. n \in Nat /\ P \in SUBSET (1..n)
  OBVIOUS
<1> HIDE DEF n
<1>1. Cardinality(P) \in Nat
  BY <1>0, Positions
<1>2. ASSUME NEW k \in 1..Cardinality(P)
      PROVE  \E i \in P : Kept(s, P)[k] = s[i]
  <2>1. \E i \in P : Cardinality({j \in P : j <= i}) = k
    BY <1>0, Positions DEF Count
  <2> DEFINE c == CHOOSE i \in P : Cardinality({j \in P : j <= i}) = k
  <2>2. c \in P
    BY <2>1
  <2>3. Kept(s, P)[k] = s[c]
    BY DEF Kept
  <2>4. QED
    BY <2>2, <2>3
<1>3. DOMAIN Kept(s, P) = 1..Cardinality(P)
  BY DEF Kept
<1>4. QED
  BY <1>1, <1>2, <1>3

\* Nothing is lost when all positions are kept.
LEMMA KeptAll ==
    ASSUME NEW n \in Nat, NEW s, DOMAIN s = 1..n, s = [i \in 1..n |-> s[i]]
    PROVE  Kept(s, 1..n) = s
<1>1. Cardinality(1..n) = n
  BY FS_Interval
<1>2. ASSUME NEW i \in 1..n
      PROVE  Cardinality({j \in 1..n : j <= i}) = i
  <2>1. {j \in 1..n : j <= i} = 1..i
    OBVIOUS
  <2>2. Cardinality(1..i) = i
    BY FS_Interval
  <2>3. QED
    BY <2>1, <2>2
<1>3. ASSUME NEW k \in 1..n
      PROVE  (CHOOSE i \in 1..n : Cardinality({j \in 1..n : j <= i}) = k) = k
  BY <1>2
<1>4. Kept(s, 1..n) = [k \in 1..n |-> s[k]]
  BY <1>1, <1>3 DEF Kept
<1>5. QED
  BY <1>4

-----------------------------------------------------------------------------
(* The tables of members.                                                  *)

\* The types of members that hold no structure; no structure inside another
\* has an event type.
ScalarTypes == {"string", "int", "eventType", "float", "bool", "strings", "object"}
ItemTypes == ScalarTypes \ {"eventType"}

\* What the tables of members have in common.
Plain(fields) == \A k \in DOMAIN fields : fields[k] \in ItemTypes
Tabled(fields) ==
    \A k \in DOMAIN fields :
        /\ fields[k] \in ScalarTypes \cup Nested
        /\ fields[k] = "eventType" => k = "type"
        /\ k \notin {"schemaVersion", "ok"}

\* The structures inside others hold no structures themselves.
LEMMA PlainTables ==
    /\ Plain(MessageFields) /\ Plain(PayloadRefFields) /\ Plain(EntityFields)
    /\ Plain(RelationFields) /\ Plain(HitFields) /\ Plain(ErrorFields)
<1> USE DEF Plain, ItemTypes, ScalarTypes, Typed, ++
<1>1. Plain(MessageFields)
  BY DEF MessageFields
<1>2. Plain(PayloadRefFields)
  BY DEF PayloadRefFields
<1>3. Plain(EntityFields)
  BY DEF EntityFields
<1>4. Plain(RelationFields)
  BY DEF RelationFields
<1>5. Plain(HitFields)
  BY DEF HitFields
<1>6. Plain(ErrorFields)
  BY DEF ErrorFields
<1> HIDE DEF Plain
<1>7. QED
  BY <1>1, <1>2, <1>3, <1>4, <1>5, <1>6

\* Whatever is nested is one of them.
LEMMA ItemTables == \A type \in Nested : Plain(ItemFields(type))
BY PlainTables DEF Nested, Lists, ItemFields

\* The members of every structure have one of the types, only the type of an
\* event is an event type, and no member has the key of the version or of ok.
LEMMA Tables == \A s \in SchemaNames : Tabled(Fields(s))
<1> USE DEF Tabled, ScalarTypes, Nested, Lists, Typed, ++
<1>1. Tabled(MessageFields) /\ Fields("message") = MessageFields
  BY DEF MessageFields, Fields
<1>2. Tabled(PayloadRefFields) /\ Fields("payloadRef") = PayloadRefFields
  BY DEF PayloadRefFields, Fields
<1>3. Tabled(EntityFields) /\ Fields("entity") = EntityFields
  BY DEF EntityFields, Fields
<1>4. Tabled(RelationFields) /\ Fields("relation") = RelationFields
  BY DEF RelationFields, Fields
<1>5. Tabled(StatsFields) /\ Fields("stats") = StatsFields
  BY DEF StatsFields, Fields
<1>6. Tabled(EventFields) /\ Fields("event") = EventFields
  BY DEF EventFields, Fields
<1>7. Tabled(ContextRequestFields) /\ Fields("contextRequest") = ContextRequestFields
  BY DEF ContextRequestFields, Fields
<1>8. Tabled(ContextPackageFields) /\ Fields("contextPackage") = ContextPackageFields
  <2>1. Fields("contextPackage") = ContextPackageFields
    BY DEF Fields
  <2>2. \A f, g : Tabled(f) /\ Tabled(g) => Tabled(f ++ g)
    OBVIOUS
  <2>3. /\ Tabled(Typed("string", {"memoryText"})) /\ Tabled(Typed("strings", {"citations"}))
        /\ Tabled(Typed("object", {"metadata"})) /\ Tabled(Typed("messages", {"messages"}))
        /\ Tabled(Typed("entities", {"entities"})) /\ Tabled(Typed("relations", {"relations"}))
        /\ Tabled(Typed("payloads", {"payloadRefs"}))
    OBVIOUS
  <2> HIDE DEF Tabled, ++, Typed
  <2>4. Tabled(ContextPackageFields)
    BY <2>2, <2>3 DEF ContextPackageFields
  <2>5. QED
    BY <2>1, <2>4
<1>9. Tabled(PayloadWriteRequestFields) /\ Fields("payloadWriteRequest") = PayloadWriteRequestFields
  BY DEF PayloadWriteRequestFields, Fields
<1>10. Tabled(PayloadWriteResultFields) /\ Fields("payloadWriteResult") = PayloadWriteResultFields
  BY DEF PayloadWriteResultFields, Fields
<1>11. Tabled(ConsolidationRequestFields) /\ Fields("consolidationRequest") = ConsolidationRequestFields
  BY DEF ConsolidationRequestFields, Fields
<1>12. Tabled(ConsolidationResultFields) /\ Fields("consolidationResult") = ConsolidationResultFields
  BY DEF ConsolidationResultFields, Fields
<1>13. Tabled(SearchRequestFields) /\ Fields("searchRequest") = SearchRequestFields
  BY DEF SearchRequestFields, Fields
<1>14. Tabled(SearchResponseFields) /\ Fields("searchResponse") = SearchResponseFields
  BY DEF SearchResponseFields, Fields
<1> HIDE DEF Tabled
<1>15. QED
  BY <1>1, <1>2, <1>3, <1>4, <1>5, <1>6, <1>7, <1>8, <1>9, <1>10, <1>11, <1>12, <1>13, <1>14
     DEF SchemaNames

\* The results of a search response are a list of hits.
LEMMA ResultsMember ==
    Fields("searchResponse")["results"] = "hits" /\ "results" \in DOMAIN Fields("searchResponse")
BY DEF Fields, SearchResponseFields, Typed, ++

\* The code of an error is a string.
LEMMA CodeMember == "code" \in DOMAIN ErrorFields /\ ErrorFields["code"] = "string"
BY DEF ErrorFields, Typed, ++

-----------------------------------------------------------------------------
(* Reading: whatever a field holds, the result has its type.               *)

\* A scalar as programs hold it.
Scalar(type, x) == IsScalar(type, x) /\ (type = "strings" => x \in Seq(Strings))

\* What a scalar is, type by type.
LEMMA ScalarMeans ==
    ASSUME NEW x
    PROVE  /\ Scalar("string", x) <=> x \in Strings
           /\ Scalar("int", x) <=> x \in MinInt..MaxInt
           /\ Scalar("eventType", x) <=> x \in EventTypes
           /\ Scalar("float", x) <=> x \in Int
           /\ Scalar("bool", x) <=> x \in BOOLEAN
           /\ Scalar("strings", x) <=> x \in Seq(Strings)
           /\ Scalar("object", x) <=> IsObject(x)
<1>1. x \in Seq(Strings) => \A i \in DOMAIN x : x[i] \in Strings
  OBVIOUS
<1>2. QED
  BY <1>1 DEF Scalar, IsScalar

\* A value as the parser gives it.
Parsed(v) == IsJson(v, Strings, Values)

\* What the kind of a value says of its content.
LEMMA Contents ==
    ASSUME NEW v, Parsed(v)
    PROVE  /\ Kind(v) = "string" => v = Str(v[2]) /\ v[2] \in Strings
           /\ Kind(v) = "bool" => v = Bool(v[2]) /\ v[2] \in BOOLEAN
           /\ Kind(v) = "int" => v = <<"int", v[2]>> /\ v[2] \in -LongLimit..-1
           /\ Kind(v) = "uint" => v = <<"uint", v[2]>> /\ v[2] \in 0..MaxUnsigned
           /\ Kind(v) = "float" => v = Tenths(v[2]) /\ v[2] \in Int
           /\ Kind(v) = "array" => v[2] \in Seq(Values)
           /\ Kind(v) = "object" => v = Object(v[2]) /\ \A k \in DOMAIN v[2] : v[2][k] \in Values
<1>1. \A x : /\ Kind(Null) = "null" /\ Kind(Str(x)) = "string" /\ Kind(Bool(x)) = "bool"
             /\ Kind(<<"int", x>>) = "int" /\ Kind(<<"uint", x>>) = "uint" /\ Kind(Tenths(x)) = "float"
             /\ Kind(Array(x)) = "array" /\ Kind(Object(x)) = "object"
  BY DEF Kind, Null, Str, Bool, Tenths, Array, Object
<1>2. \/ v = Null
      \/ v = Str(v[2]) /\ v[2] \in Strings
      \/ v = Bool(v[2]) /\ v[2] \in BOOLEAN
      \/ v = <<"int", v[2]>> /\ v[2] \in -LongLimit..-1
      \/ v = <<"uint", v[2]>> /\ v[2] \in 0..MaxUnsigned
      \/ v = Tenths(v[2]) /\ v[2] \in Int
      \/ v = Array(v[2]) /\ v[2] \in Seq(Values)
      \/ v = Object(v[2]) /\ \A k \in DOMAIN v[2] : v[2][k] \in Values
  BY DEF Parsed, IsJson
<1>3. CASE v = Null
  BY <1>1, <1>3
<1>4. CASE v = Str(v[2]) /\ v[2] \in Strings
  <2>1. Kind(v) = "string"
    BY <1>1, <1>4
  <2>2. QED
    BY <1>4, <2>1
<1>5. CASE v = Bool(v[2]) /\ v[2] \in BOOLEAN
  <2>1. Kind(v) = "bool"
    BY <1>1, <1>5
  <2>2. QED
    BY <1>5, <2>1
<1>6. CASE v = <<"int", v[2]>> /\ v[2] \in -LongLimit..-1
  <2>1. Kind(v) = "int"
    BY <1>1, <1>6
  <2>2. QED
    BY <1>6, <2>1
<1>7. CASE v = <<"uint", v[2]>> /\ v[2] \in 0..MaxUnsigned
  <2>1. Kind(v) = "uint"
    BY <1>1, <1>7
  <2>2. QED
    BY <1>7, <2>1
<1>8. CASE v = Tenths(v[2]) /\ v[2] \in Int
  <2>1. Kind(v) = "float"
    BY <1>1, <1>8
  <2>2. QED
    BY <1>8, <2>1
<1>9. CASE v = Array(v[2]) /\ v[2] \in Seq(Values)
  <2>1. Kind(v) = "array"
    BY <1>1, <1>9
  <2>2. QED
    BY <1>9, <2>1
<1>10. CASE v = Object(v[2]) /\ \A k \in DOMAIN v[2] : v[2][k] \in Values
  <2>1. Kind(v) = "object"
    BY <1>1, <1>10
  <2>2. QED
    BY <1>10, <2>1
<1>11. QED
  BY <1>2, <1>3, <1>4, <1>5, <1>6, <1>7, <1>8, <1>9, <1>10

\* The members of a value are values, or read as null.
LEMMA MembersParsed ==
    ASSUME NEW j, Parsed(j), NEW key
    PROVE  Parsed(JsonFieldValue(j, key))
<1>1. Parsed(Null)
  BY DEF Parsed, IsJson
<1>2. CASE IsObject(j) /\ Contains(j, key)
  <2>1. j[2][key] \in Values
    BY <1>2, Contents DEF IsObject, Contains
  <2>2. Parsed(j[2][key])
    BY <2>1, ValuesAssumption DEF Parsed
  <2>3. QED
    BY <1>2, <2>2 DEF JsonFieldValue
<1>3. CASE ~(IsObject(j) /\ Contains(j, key))
  BY <1>1, <1>3 DEF JsonFieldValue
<1>4. QED
  BY <1>2, <1>3

\* The defaults that *FromJson gives are in the range of int.
LEMMA DefaultsFit == \A key : IntDefault(key) \in MinInt..MaxInt
<1>1. IntLimit \in Nat /\ 4096 <= MaxInt /\ MaxInt = IntLimit - 1 /\ MinInt = -IntLimit
  BY WidthAssumption, DefaultsAssumption DEF MaxInt, MinInt
<1>2. \A n \in {4096, 100, 10, 0} : n \in MinInt..MaxInt
  BY <1>1
<1>3. \A key : IntDefault(key) \in {4096, 100, 10, 0}
  BY DEF IntDefault
<1>4. QED
  BY <1>2, <1>3

\* JsonInt returns an int, whatever integer the field holds.
LEMMA IntRead ==
    ASSUME NEW j, NEW key, NEW fallback \in MinInt..MaxInt, Parsed(JsonFieldValue(j, key))
    PROVE  JsonInt(j, key, fallback) \in MinInt..MaxInt
<1> DEFINE v == JsonFieldValue(j, key)
           n == Narrow(v[2], LongLimit)
<1>1. Kind(v) = "uint" => v[2] \in Nat
  <2>1. Kind(v) = "uint" => v[2] \in 0..MaxUnsigned
    BY Contents
  <2>2. QED
    BY <2>1
<1>2. JsonInt(j, key, fallback) =
        IF IsInteger(v)
        THEN IF n \in MinInt..MaxInt THEN n ELSE IF Kind(v) = "uint" /\ v[2] <= MaxInt THEN v[2] ELSE fallback
        ELSE fallback
  BY DEF JsonInt
<1> HIDE DEF n, v
<1>3. \A x \in Nat : x <= MaxInt => x \in MinInt..MaxInt
  BY WidthAssumption DEF MaxInt, MinInt
<1>4. QED
  BY <1>1, <1>2, <1>3

\* StringVectorFromJson returns strings, whatever the items of the array are.
LEMMA StringsRead ==
    ASSUME NEW v, Parsed(v)
    PROVE  StringVectorFromJson(v) \in Seq(Strings)
<1>1. CASE Kind(v) # "array"
  BY <1>1 DEF StringVectorFromJson
<1>2. CASE Kind(v) = "array"
  <2> DEFINE s == v[2]
             P == {i \in DOMAIN s : Kind(s[i]) = "string"}
             kept == Kept(s, P)
             n == Cardinality(P)
  <2>1. s \in Seq(Values)
    BY <1>2, Contents
  <2>2. Len(s) \in Nat /\ DOMAIN s = 1..Len(s) /\ \A i \in DOMAIN s : s[i] \in Values
    BY <2>1
  <2>3. P \in SUBSET (1..Len(s))
    BY <2>2
  <2>4. \A i \in P : s[i][2] \in Strings
    BY <2>2, Contents, ValuesAssumption DEF Parsed
  <2> HIDE DEF P
  <2>5. /\ n \in Nat /\ DOMAIN kept = 1..n
        /\ \A k \in 1..n : \E i \in P : kept[k] = s[i]
    <3> HIDE DEF s
    <3>1. P \subseteq DOMAIN s
      BY DEF P
    <3>2. QED
      BY <2>1, <3>1, KeptItems
  <2>6. \A k \in 1..n : kept[k][2] \in Strings
    BY <2>4, <2>5
  <2> HIDE DEF kept, n
  <2>7. [k \in 1..n |-> kept[k][2]] \in Seq(Strings)
    BY <2>5, <2>6
  <2>8. StringVectorFromJson(v) = [k \in DOMAIN kept |-> kept[k][2]]
    BY <1>2 DEF StringVectorFromJson, kept, P
  <2>9. QED
    BY <2>5, <2>7, <2>8
<1>3. QED
  BY <1>1, <1>2

\* Whatever a field holds, what is read has the type of the member.
LEMMA ReadTyped ==
    ASSUME NEW type \in ScalarTypes, NEW j, NEW key, Parsed(JsonFieldValue(j, key)),
           type = "eventType" => key = "type"
    PROVE  Scalar(type, ReadScalar(type, j, key))
<1> DEFINE v == JsonFieldValue(j, key)
<1>1. CASE type = "string"
  <2>1. JsonString(j, key, "") \in Strings
    BY Contents, StringsAssumption DEF JsonString
  <2>2. QED
    BY <1>1, <2>1, ScalarMeans DEF ReadScalar
<1>2. CASE type = "int"
  <2>1. JsonInt(j, key, IntDefault(key)) \in MinInt..MaxInt
    BY DefaultsFit, IntRead
  <2>2. QED
    BY <1>2, <2>1, ScalarMeans DEF ReadScalar
<1>3. CASE type = "eventType"
  <2>1. EventTypeFromJson(j) \in EventTypes
    BY DEF EventTypeFromJson, EventTypes, SessionStarted
  <2>2. QED
    BY <1>3, <2>1, ScalarMeans DEF ReadScalar
<1>4. CASE type = "float"
  <2>1. IsInteger(v) => v[2] \in Int
    <3>1. Kind(v) = "int" => v[2] \in -LongLimit..-1
      BY Contents
    <3>2. Kind(v) = "uint" => v[2] \in 0..MaxUnsigned
      BY Contents
    <3>3. QED
      BY <3>1, <3>2 DEF IsInteger, IntegerKinds
  <2>2. JsonDouble(j, key, 0) \in Int
    <3>1. Kind(v) = "float" => v[2] \in Int
      BY Contents
    <3>2. JsonDouble(j, key, 0) = IF Kind(v) = "float" THEN v[2] ELSE IF IsInteger(v) THEN 10 * v[2] ELSE 0
      BY DEF JsonDouble
    <3> HIDE DEF v
    <3>3. QED
      BY <2>1, <3>1, <3>2
  <2>3. QED
    BY <1>4, <2>2, ScalarMeans DEF ReadScalar
<1>5. CASE type = "bool"
  <2>1. JsonBool(j, key, FALSE) \in BOOLEAN
    BY Contents DEF JsonBool
  <2>2. QED
    BY <1>5, <2>1, ScalarMeans DEF ReadScalar
<1>6. CASE type = "strings"
  <2>1. StringVectorFromJson(v) \in Seq(Strings)
    BY StringsRead
  <2>2. QED
    BY <1>6, <2>1, ScalarMeans DEF ReadScalar
<1>7. CASE type = "object"
  <2>1. IsObject(JsonObject(v))
    BY DEF JsonObject, IsObject, Kind, EmptyObject, Object
  <2>2. QED
    BY <1>7, <2>1, ScalarMeans DEF ReadScalar
<1>8. QED
  BY <1>1, <1>2, <1>3, <1>4, <1>5, <1>6, <1>7 DEF ScalarTypes

-----------------------------------------------------------------------------
(* Reading what was written.                                               *)

\* An int that is written is read as it is.
LEMMA IntKept ==
    ASSUME NEW j, NEW key, NEW fallback, NEW n \in MinInt..MaxInt, JsonFieldValue(j, key) = Number(n)
    PROVE  JsonInt(j, key, fallback) = n
<1> DEFINE v == Number(n)
<1>1. IsInteger(v) /\ v[2] = n
  BY DEF Number, IsInteger, Kind, IntegerKinds
<1>2. Narrow(n, LongLimit) = n
  BY WidthAssumption DEF Narrow, MinInt, MaxInt
<1>3. QED
  BY <1>1, <1>2 DEF JsonInt

\* Strings that are written are all read.
LEMMA StringsKept ==
    ASSUME NEW x \in Seq(Strings)
    PROVE  StringVectorFromJson(Array([i \in DOMAIN x |-> Str(x[i])])) = x
<1> DEFINE n == Len(x)
           s == [i \in 1..n |-> Str(x[i])]
           P == {i \in DOMAIN s : Kind(s[i]) = "string"}
<1>1. n \in Nat /\ DOMAIN x = 1..n /\ x = [i \in 1..n |-> x[i]]
  OBVIOUS
<1>2. Kind(Array(s)) = "array" /\ Array(s)[2] = s /\ Array([i \in DOMAIN x |-> Str(x[i])]) = Array(s)
  BY <1>1 DEF Kind, Array
<1> HIDE DEF n
<1>3. DOMAIN s = 1..n /\ s = [i \in 1..n |-> s[i]]
  OBVIOUS
<1>4. \A i \in 1..n : Kind(s[i]) = "string" /\ s[i][2] = x[i]
  BY DEF Kind, Str
<1> HIDE DEF s
<1>5. P = 1..n
  BY <1>3, <1>4
<1>6. Kept(s, P) = s
  BY <1>1, <1>3, <1>5, KeptAll
<1>7. StringVectorFromJson(Array(s)) = [i \in DOMAIN s |-> s[i][2]]
  BY <1>2, <1>6 DEF StringVectorFromJson
<1>8. [i \in DOMAIN s |-> s[i][2]] = [i \in 1..n |-> x[i]]
  BY <1>3, <1>4
<1>9. QED
  BY <1>1, <1>2, <1>7, <1>8

\* *FromJson reads what *ToJson has written, scalar by scalar.
LEMMA ScalarKept ==
    ASSUME NEW type \in ScalarTypes, NEW j, NEW key, NEW x, Scalar(type, x),
           type = "eventType" => key = "type", JsonFieldValue(j, key) = WriteScalar(type, x)
    PROVE  ReadScalar(type, j, key) = x
<1>1. CASE type = "string"
  <2>1. WriteScalar(type, x) = Str(x) /\ ReadScalar(type, j, key) = JsonString(j, key, "")
    BY <1>1 DEF WriteScalar, ReadScalar
  <2>2. Kind(Str(x)) = "string" /\ Str(x)[2] = x
    BY DEF Kind, Str
  <2>3. QED
    BY <2>1, <2>2 DEF JsonString
<1>2. CASE type = "int"
  <2>1. WriteScalar(type, x) = Number(x) /\ ReadScalar(type, j, key) = JsonInt(j, key, IntDefault(key))
    BY <1>2 DEF WriteScalar, ReadScalar
  <2>2. x \in MinInt..MaxInt
    BY <1>2, ScalarMeans
  <2>3. QED
    BY <2>1, <2>2, IntKept
<1>3. CASE type = "eventType"
  <2>1. WriteScalar(type, x) = Number(x) /\ ReadScalar(type, j, key) = EventTypeFromJson(j) /\ key = "type"
    BY <1>3 DEF WriteScalar, ReadScalar
  <2>2. x \in EventTypes
    BY <1>3, ScalarMeans
  <2>3. x \in MinInt..MaxInt
    BY <2>2, WidthAssumption, DefaultsAssumption DEF EventTypes, MinInt, MaxInt
  <2>4. JsonInt(j, "type", SessionStarted) = x
    BY <2>1, <2>3, IntKept
  <2>5. QED
    BY <2>1, <2>2, <2>4 DEF EventTypeFromJson
<1>4. CASE type = "float"
  <2>1. WriteScalar(type, x) = Tenths(x) /\ ReadScalar(type, j, key) = JsonDouble(j, key, 0)
    BY <1>4 DEF WriteScalar, ReadScalar
  <2>2. Kind(Tenths(x)) = "float" /\ Tenths(x)[2] = x
    BY DEF Kind, Tenths
  <2>3. QED
    BY <2>1, <2>2 DEF JsonDouble
<1>5. CASE type = "bool"
  <2>1. WriteScalar(type, x) = Bool(x) /\ ReadScalar(type, j, key) = JsonBool(j, key, FALSE)
    BY <1>5 DEF WriteScalar, ReadScalar
  <2>2. Kind(Bool(x)) = "bool" /\ Bool(x)[2] = x
    BY DEF Kind, Bool
  <2>3. QED
    BY <2>1, <2>2 DEF JsonBool
<1>6. CASE type = "strings"
  <2>1. /\ WriteScalar(type, x) = Array([i \in DOMAIN x |-> Str(x[i])])
        /\ ReadScalar(type, j, key) = StringVectorFromJson(JsonFieldValue(j, key))
    BY <1>6 DEF WriteScalar, ReadScalar
  <2>2. x \in Seq(Strings)
    BY <1>6, ScalarMeans
  <2>3. QED
    BY <2>1, <2>2, StringsKept
<1>7. CASE type = "object"
  <2>1. WriteScalar(type, x) = JsonObject(x) /\ ReadScalar(type, j, key) = JsonObject(JsonFieldValue(j, key))
    BY <1>7 DEF WriteScalar, ReadScalar
  <2>2. IsObject(x)
    BY <1>7, ScalarMeans
  <2>3. QED
    BY <2>1, <2>2 DEF JsonObject
<1>8. QED
  BY <1>1, <1>2, <1>3, <1>4, <1>5, <1>6, <1>7 DEF ScalarTypes

\* A structure without structures inside.
Item(fields, x) ==
    /\ x = [k \in DOMAIN fields |-> x[k]]
    /\ \A k \in DOMAIN fields : Scalar(fields[k], x[k])

\* An item that is written is read as it is.
LEMMA ItemKept ==
    ASSUME NEW fields, Plain(fields), NEW x, Item(fields, x)
    PROVE  ReadItem(fields, WriteItem(fields, x)) = x /\ IsObject(WriteItem(fields, x))
<1> DEFINE j == WriteItem(fields, x)
<1>1. IsObject(j) /\ j[2] = [k \in DOMAIN fields |-> WriteScalar(fields[k], x[k])]
  BY DEF WriteItem, Object, IsObject, Kind
<1> HIDE DEF j
<1>2. ASSUME NEW k \in DOMAIN fields
      PROVE  ReadScalar(fields[k], j, k) = x[k]
  <2>1. JsonFieldValue(j, k) = WriteScalar(fields[k], x[k])
    BY <1>1 DEF JsonFieldValue, Contains
  <2>2. fields[k] \in ScalarTypes /\ fields[k] # "eventType" /\ Scalar(fields[k], x[k])
    BY DEF Plain, ItemTypes, Item
  <2>3. QED
    BY <2>1, <2>2, ScalarKept
<1>3. ReadItem(fields, j) = [k \in DOMAIN fields |-> x[k]]
  BY <1>2 DEF ReadItem
<1>4. QED
  BY <1>1, <1>3 DEF Item, j

\* Whatever document an item is read from, it is one.
LEMMA ItemRead ==
    ASSUME NEW fields, Plain(fields), NEW j, Parsed(j)
    PROVE  Item(fields, ReadItem(fields, j))
<1> DEFINE x == ReadItem(fields, j)
<1>1. x = [k \in DOMAIN fields |-> ReadScalar(fields[k], j, k)]
  BY DEF ReadItem
<1>2. ASSUME NEW k \in DOMAIN fields
      PROVE  Scalar(fields[k], ReadScalar(fields[k], j, k))
  BY MembersParsed, ReadTyped DEF Plain, ItemTypes
<1> HIDE DEF x
<1>3. x = [k \in DOMAIN fields |-> x[k]] /\ \A k \in DOMAIN fields : Scalar(fields[k], x[k])
  BY <1>1, <1>2
<1>4. Item(fields, x)
  BY <1>3 DEF Item
<1>5. QED
  BY <1>4 DEF x

\* A list of them.
IsList(x) == Len(x) \in Nat /\ DOMAIN x = 1..Len(x) /\ x = [i \in 1..Len(x) |-> x[i]]
List(fields, x) == IsList(x) /\ \A i \in DOMAIN x : Item(fields, x[i])

\* A list that is written is read as it is: no item is dropped.
LEMMA ListKept ==
    ASSUME NEW type \in Lists, NEW x, List(ItemFields(type), x), NEW j, NEW key,
           JsonFieldValue(j, key) = Array([i \in DOMAIN x |-> WriteItem(ItemFields(type), x[i])])
    PROVE  ReadField(type, j, key) = x
<1> DEFINE n == Len(x)
           F == ItemFields(type)
           s == [i \in 1..n |-> WriteItem(F, x[i])]
           P == {i \in DOMAIN s : IsObject(s[i])}
<1>1. n \in Nat /\ DOMAIN x = 1..n /\ x = [i \in 1..n |-> x[i]] /\ \A i \in 1..n : Item(F, x[i])
  BY DEF List, IsList
<1>2. Kind(Array(s)) = "array" /\ Array(s)[2] = s /\ JsonFieldValue(j, key) = Array(s)
  BY <1>1 DEF Kind, Array
<1>3. Plain(F)
  BY ItemTables DEF Nested
<1> HIDE DEF n, F
<1>4. DOMAIN s = 1..n /\ s = [i \in 1..n |-> s[i]]
  OBVIOUS
<1>5. \A i \in 1..n : IsObject(s[i]) /\ ReadItem(F, s[i]) = x[i]
  BY <1>1, <1>3, ItemKept
<1> HIDE DEF s
<1>6. P = 1..n
  BY <1>4, <1>5
<1>7. Kept(s, P) = s
  BY <1>1, <1>4, <1>6, KeptAll
<1>8. ReadField(type, j, key) = [i \in DOMAIN s |-> ReadItem(F, s[i])]
  <2>1. type \notin {"error", "payload"}
    BY DEF Lists
  <2>2. QED
    BY <1>2, <1>7, <2>1 DEF ReadField, F
<1>9. [i \in DOMAIN s |-> ReadItem(F, s[i])] = [i \in 1..n |-> x[i]]
  BY <1>4, <1>5
<1>10. QED
  BY <1>1, <1>8, <1>9

\* Whatever a field holds, a list that is read from it has items of its type.
LEMMA ListRead ==
    ASSUME NEW type \in Lists, NEW j, NEW key, Parsed(JsonFieldValue(j, key))
    PROVE  \A i \in DOMAIN ReadField(type, j, key) : Item(ItemFields(type), ReadField(type, j, key)[i])
<1> DEFINE v == JsonFieldValue(j, key)
           F == ItemFields(type)
           s == v[2]
           P == {i \in DOMAIN s : IsObject(s[i])}
           items == IF Kind(v) = "array" THEN Kept(s, P) ELSE << >>
<1>1. ReadField(type, j, key) = [i \in DOMAIN items |-> ReadItem(F, items[i])]
  <2>1. type \notin {"error", "payload"}
    BY DEF Lists
  <2>2. QED
    BY <2>1 DEF ReadField
<1>2. Plain(F)
  BY ItemTables DEF Nested
<1>3. \A i \in DOMAIN items : Parsed(items[i])
  <2>1. CASE Kind(v) = "array"
    <3>1. s \in Seq(Values)
      BY <2>1, Contents
    <3>2. \A i \in DOMAIN s : Parsed(s[i])
      <4>1. \A i \in DOMAIN s : s[i] \in Values
        BY <3>1
      <4>2. QED
        BY <4>1, ValuesAssumption DEF Parsed
    <3>3. P \subseteq DOMAIN s
      OBVIOUS
    <3> HIDE DEF s, P
    <3>4. /\ DOMAIN Kept(s, P) = 1..Cardinality(P)
          /\ \A k \in 1..Cardinality(P) : \E i \in P : Kept(s, P)[k] = s[i]
      BY <3>1, <3>3, KeptItems
    <3>5. QED
      BY <2>1, <3>2, <3>3, <3>4
  <2>2. CASE Kind(v) # "array"
    BY <2>2
  <2>3. QED
    BY <2>1, <2>2
<1> HIDE DEF items, F
<1>4. \A i \in DOMAIN items : Item(F, ReadItem(F, items[i]))
  BY <1>2, <1>3, ItemRead
<1>5. QED
  BY <1>1, <1>4 DEF F

-----------------------------------------------------------------------------
(* Members.                                                                *)

\* A member of a structure; an error without a code has no other member.
Member(type, x) ==
    IF type \in Lists THEN List(ItemFields(type), x)
    ELSE IF type = "error" THEN Item(ErrorFields, x) /\ (x.code = "" => x = ReadItem(ErrorFields, Null))
    ELSE IF type = "payload" THEN Item(PayloadRefFields, x)
    ELSE Scalar(type, x)

\* An empty object reads as null does: every member has its default.
LEMMA EmptyIsNull ==
    ASSUME NEW fields, Plain(fields)
    PROVE  ReadItem(fields, EmptyObject) = ReadItem(fields, Null)
<1>1. \A k : JsonFieldValue(EmptyObject, k) = Null /\ JsonFieldValue(Null, k) = Null
  <2>1. DOMAIN EmptyObject[2] = {}
    BY DEF EmptyObject, Object, NoMembers
  <2>2. ~IsObject(Null)
    BY DEF IsObject, Kind, Null
  <2>3. QED
    BY <2>1, <2>2 DEF JsonFieldValue, Contains
<1>2. ASSUME NEW k \in DOMAIN fields
      PROVE  ReadScalar(fields[k], EmptyObject, k) = ReadScalar(fields[k], Null, k)
  <2>1. fields[k] \in {"string", "int", "float", "bool", "strings", "object"}
    BY DEF Plain, ItemTypes, ScalarTypes
  <2>2. QED
    BY <1>1, <2>1 DEF ReadScalar, JsonString, JsonInt, JsonDouble, JsonBool
<1>3. QED
  BY <1>2 DEF ReadItem

\* *FromJson reads what *ToJson has written, member by member.
LEMMA MemberKept ==
    ASSUME NEW type \in ScalarTypes \cup Nested, NEW x, Member(type, x), NEW j, NEW key,
           type = "eventType" => key = "type", JsonFieldValue(j, key) = WriteField(type, x)
    PROVE  ReadField(type, j, key) = x
<1>1. CASE type \in Lists
  <2>1. type # "error" /\ type # "payload" /\ List(ItemFields(type), x)
    BY <1>1 DEF Lists, Member
  <2>2. WriteField(type, x) = Array([i \in DOMAIN x |-> WriteItem(ItemFields(type), x[i])])
    BY <1>1, <2>1 DEF WriteField
  <2>3. QED
    BY <1>1, <2>1, <2>2, ListKept
<1>2. CASE type = "error"
  <2>0. type \notin Lists
    BY <1>2 DEF Lists
  <2>1. Item(ErrorFields, x) /\ (x.code = "" => x = ReadItem(ErrorFields, Null))
    BY <1>2, <2>0 DEF Member
  <2>2. WriteField(type, x) = ErrorToJson(x) /\ ItemFields(type) = ErrorFields
    BY <1>2, <2>0 DEF WriteField, ItemFields
  <2>3. IsObject(ErrorToJson(x)) /\ ReadItem(ErrorFields, ErrorToJson(x)) = x
    <3>1. CASE x.code = ""
      <4>1. ErrorToJson(x) = EmptyObject
        BY <3>1 DEF ErrorToJson
      <4>2. IsObject(EmptyObject)
        BY DEF IsObject, Kind, EmptyObject, Object
      <4>3. QED
        BY <2>1, <3>1, <4>1, <4>2, EmptyIsNull, PlainTables
    <3>2. CASE x.code # ""
      <4>1. ErrorToJson(x) = WriteItem(ErrorFields, x)
        BY <3>2 DEF ErrorToJson
      <4>2. QED
        BY <2>1, <4>1, ItemKept, PlainTables
    <3>3. QED
      BY <3>1, <3>2
  <2>4. QED
    BY <1>2, <2>0, <2>2, <2>3 DEF ReadField
<1>3. CASE type = "payload"
  <2>0. type \notin Lists
    BY <1>3 DEF Lists
  <2>1. Item(PayloadRefFields, x)
    BY <1>3, <2>0 DEF Member
  <2>2. WriteField(type, x) = WriteItem(PayloadRefFields, x) /\ ItemFields(type) = PayloadRefFields
    BY <1>3, <2>0 DEF WriteField, ItemFields
  <2>3. IsObject(WriteItem(PayloadRefFields, x)) /\ ReadItem(PayloadRefFields, WriteItem(PayloadRefFields, x)) = x
    BY <2>1, ItemKept, PlainTables
  <2>4. QED
    BY <1>3, <2>0, <2>2, <2>3 DEF ReadField
<1>4. CASE type \notin Nested
  <2>1. type \in ScalarTypes /\ type \notin Lists /\ type # "error" /\ type # "payload"
    BY <1>4 DEF Nested
  <2>2. Scalar(type, x) /\ WriteField(type, x) = WriteScalar(type, x)
        /\ ReadField(type, j, key) = ReadScalar(type, j, key)
    BY <2>1 DEF Member, WriteField, ReadField
  <2>3. QED
    BY <2>1, <2>2, ScalarKept
<1>5. QED
  BY <1>1, <1>2, <1>3, <1>4 DEF Nested

\* A member as it is read.
ReadMember(type, x) ==
    IF type \in Lists THEN \A i \in DOMAIN x : Item(ItemFields(type), x[i])
    ELSE IF type \in Nested THEN Item(ItemFields(type), x)
    ELSE Scalar(type, x)

\* Whatever a field holds, what is read is a member of its type.
LEMMA MemberRead ==
    ASSUME NEW type \in ScalarTypes \cup Nested, NEW j, NEW key, Parsed(JsonFieldValue(j, key)),
           type = "eventType" => key = "type"
    PROVE  ReadMember(type, ReadField(type, j, key))
<1>1. CASE type \in Lists
  BY <1>1, ListRead DEF ReadMember
<1>2. CASE type \in {"error", "payload"}
  <2>0. type \notin Lists
    BY <1>2 DEF Lists
  <2> DEFINE v == JsonFieldValue(j, key)
             w == IF IsObject(v) THEN v ELSE Null
  <2>1. ReadField(type, j, key) = ReadItem(ItemFields(type), w)
    BY <1>2, <2>0 DEF ReadField
  <2>2. Parsed(w)
    BY DEF Parsed, IsJson
  <2>3. Plain(ItemFields(type))
    BY <1>2, ItemTables DEF Nested
  <2> HIDE DEF w
  <2>4. QED
    BY <1>2, <2>0, <2>1, <2>2, <2>3, ItemRead DEF ReadMember, Nested
<1>3. CASE type \notin Nested
  <2>1. type \in ScalarTypes /\ type \notin Lists /\ type # "error" /\ type # "payload"
    BY <1>3 DEF Nested
  <2>2. ReadField(type, j, key) = ReadScalar(type, j, key)
    BY <2>1 DEF ReadField
  <2>3. QED
    BY <1>3, <2>1, <2>2, ReadTyped DEF ReadMember
<1>4. QED
  BY <1>1, <1>2, <1>3 DEF Nested

\* A member that is sent is one that can be read.
LEMMA MemberIsRead ==
    ASSUME NEW type, NEW x, Member(type, x)
    PROVE  ReadMember(type, x)
<1>1. CASE type \in Lists
  BY <1>1 DEF Member, ReadMember, List
<1>2. CASE type \in {"error", "payload"}
  <2>1. type \notin Lists
    BY <1>2 DEF Lists
  <2>2. QED
    BY <1>2, <2>1 DEF Member, ReadMember, ItemFields, Nested
<1>3. CASE type \notin Nested
  BY <1>3 DEF Member, ReadMember, Nested
<1>4. QED
  BY <1>1, <1>2, <1>3 DEF Nested

-----------------------------------------------------------------------------
(* The structures that are sent.                                           *)

\* There are the empty string and another one.
LEMMA SomeStringFacts == SomeString \in Strings /\ SomeString # "" /\ "" \in Strings
<1>1. \E s \in Strings : s # ""
  BY StringsAssumption
<1>2. QED
  BY <1>1, StringsAssumption DEF SomeString

\* Short tuples are lists.
LEMMA SmallLists ==
    /\ IsList(<< >>) /\ DOMAIN << >> = {}
    /\ \A a : IsList(<<a>>) /\ DOMAIN <<a>> = {1} /\ <<a>>[1] = a
    /\ \A a, b : IsList(<<a, b>>) /\ DOMAIN <<a, b>> = {1, 2} /\ <<a, b>>[1] = a /\ <<a, b>>[2] = b
<1>1. IsList(<< >>) /\ DOMAIN << >> = {}
  BY DEF IsList
<1>2. ASSUME NEW a
      PROVE  IsList(<<a>>) /\ DOMAIN <<a>> = {1} /\ <<a>>[1] = a
  BY DEF IsList
<1>3. ASSUME NEW a, NEW b
      PROVE  IsList(<<a, b>>) /\ DOMAIN <<a, b>> = {1, 2} /\ <<a, b>>[1] = a /\ <<a, b>>[2] = b
  BY DEF IsList
<1>4. QED
  BY <1>1, <1>2, <1>3

\* Tuples of strings.
LEMMA SmallTuples ==
    ASSUME NEW a \in Strings, NEW b \in Strings
    PROVE  << >> \in Seq(Strings) /\ <<a>> \in Seq(Strings) /\ <<a, b>> \in Seq(Strings)
OBVIOUS

\* Their items.
LEMMA Tuples ==
    /\ \A s, a, b : s = <<a, b>> => DOMAIN s = {1, 2} /\ s[1] = a /\ s[2] = b
    /\ \A s, a, b, c : s = <<a, b, c>> => DOMAIN s = {1, 2, 3} /\ s[1] = a /\ s[2] = b /\ s[3] = c
OBVIOUS

\* The samples of a type have it.
LEMMA SamplesTyped ==
    ASSUME NEW type \in ScalarTypes
    PROVE  /\ 1 \in DOMAIN Samples(type)
           /\ \A i \in DOMAIN Samples(type) : Scalar(type, Samples(type)[i])
<1>1. CASE type = "string"
  <2>1. Samples(type) = <<SomeString, "">>
    BY <1>1 DEF Samples
  <2>2. DOMAIN Samples(type) = {1, 2} /\ Samples(type)[1] = SomeString /\ Samples(type)[2] = ""
    BY <2>1, Tuples, Zenon
  <2>3. \A i \in {1, 2} : Samples(type)[i] \in Strings
    BY <2>2, SomeStringFacts
  <2>4. QED
    BY <1>1, <2>2, <2>3, ScalarMeans
<1>2. CASE type = "int"
  <2>1. Samples(type) = <<7, 0, MinInt, MaxInt>>
    BY <1>2 DEF Samples
  <2>2. DOMAIN Samples(type) = {1, 2, 3, 4}
    BY <2>1
  <2>3. 7 \in MinInt..MaxInt /\ 0 \in MinInt..MaxInt /\ MinInt \in MinInt..MaxInt /\ MaxInt \in MinInt..MaxInt
    BY WidthAssumption, DefaultsAssumption DEF MinInt, MaxInt
  <2>4. \A i \in {1, 2, 3, 4} : Samples(type)[i] \in MinInt..MaxInt
    BY <2>1, <2>3
  <2>5. QED
    BY <1>2, <2>2, <2>4, ScalarMeans
<1>3. CASE type = "eventType"
  <2>1. Samples(type) = <<2, 0, 1, 3, 4, 5, 6, 7>>
    BY <1>3 DEF Samples
  <2>2. DOMAIN Samples(type) = {1, 2, 3, 4, 5, 6, 7, 8}
    BY <2>1
  <2>3. \A n \in {0, 1, 2, 3, 4, 5, 6, 7} : n \in EventTypes
    BY DEF EventTypes
  <2>4. \A i \in {1, 2, 3, 4, 5, 6, 7, 8} : Samples(type)[i] \in {0, 1, 2, 3, 4, 5, 6, 7}
    BY <2>1
  <2>5. QED
    BY <1>3, <2>2, <2>3, <2>4, ScalarMeans
<1>4. CASE type = "float"
  <2>1. Samples(type) = <<8, 0>>
    BY <1>4 DEF Samples
  <2>2. DOMAIN Samples(type) = {1, 2}
    BY <2>1
  <2>3. \A i \in {1, 2} : Samples(type)[i] \in Int
    BY <2>1
  <2>4. QED
    BY <1>4, <2>2, <2>3, ScalarMeans
<1>5. CASE type = "bool"
  <2>1. Samples(type) = <<TRUE, FALSE>>
    BY <1>5 DEF Samples
  <2>2. DOMAIN Samples(type) = {1, 2} /\ Samples(type)[1] = TRUE /\ Samples(type)[2] = FALSE
    BY <2>1, Tuples, Zenon
  <2>3. Samples(type)[1] \in BOOLEAN /\ Samples(type)[2] \in BOOLEAN
    BY <2>2, Zenon
  <2>4. QED
    BY <1>5, <2>2, <2>3, ScalarMeans
<1>6. CASE type = "strings"
  <2> DEFINE a == <<SomeString>>
             b == << >>
             c == <<"", SomeString>>
  <2>1. Samples(type) = <<a, b, c>>
    BY <1>6 DEF Samples
  <2>2. a \in Seq(Strings) /\ b \in Seq(Strings) /\ c \in Seq(Strings)
    BY SomeStringFacts, SmallTuples, Zenon
  <2> HIDE DEF a, b, c
  <2>3. DOMAIN Samples(type) = {1, 2, 3} /\ Samples(type)[1] = a /\ Samples(type)[2] = b /\ Samples(type)[3] = c
    BY <2>1, Tuples, Zenon
  <2>4. QED
    BY <1>6, <2>2, <2>3, ScalarMeans
<1>7. CASE type = "object"
  <2>1. Samples(type) = <<Object([k |-> Str(SomeString)]), EmptyObject>>
    BY <1>7 DEF Samples
  <2>2. DOMAIN Samples(type) = {1, 2}
    BY <2>1
  <2>3. \A f : IsObject(Object(f))
    BY DEF IsObject, Kind, Object
  <2>4. IsObject(EmptyObject)
    BY <2>3 DEF EmptyObject
  <2>5. \A i \in {1, 2} : IsObject(Samples(type)[i])
    BY <2>1, <2>3, <2>4
  <2>6. QED
    BY <1>7, <2>2, <2>5, ScalarMeans
<1>8. QED
  BY <1>1, <1>2, <1>3, <1>4, <1>5, <1>6, <1>7 DEF ScalarTypes

\* Items with all members set have the types of their members.
LEMMA FilledTyped ==
    ASSUME NEW fields, Plain(fields)
    PROVE  /\ Item(fields, Filled(fields))
           /\ \A v \in Variants(fields) : Item(fields, v)
<1> DEFINE x == Filled(fields)
<1>0. \A k \in DOMAIN fields : fields[k] \in ScalarTypes
  BY DEF Plain, ItemTypes
<1>1. x = [k \in DOMAIN fields |-> Samples(fields[k])[1]]
  BY DEF Filled
<1> HIDE DEF x
<1>2. \A k \in DOMAIN fields : Scalar(fields[k], Samples(fields[k])[1])
  BY <1>0, SamplesTyped
<1>3. x = [k \in DOMAIN fields |-> x[k]] /\ \A k \in DOMAIN fields : Scalar(fields[k], x[k])
  BY <1>1, <1>2
<1>4. Item(fields, x)
  BY <1>3 DEF Item
<1>5. ASSUME NEW k \in DOMAIN fields, NEW y, Scalar(fields[k], y)
      PROVE  Item(fields, [x EXCEPT ![k] = y])
  <2> DEFINE z == [x EXCEPT ![k] = y]
  <2>1. DOMAIN x = DOMAIN fields
    BY <1>1
  <2>2. z = [m \in DOMAIN fields |-> z[m]] /\ \A m \in DOMAIN fields : z[m] = IF m = k THEN y ELSE x[m]
    BY <2>1
  <2> HIDE DEF z
  <2>3. \A m \in DOMAIN fields : Scalar(fields[m], z[m])
    BY <1>3, <1>5, <2>2
  <2>4. Item(fields, z)
    BY <2>2, <2>3 DEF Item
  <2>5. QED
    BY <2>4 DEF z
<1>6. ASSUME NEW v \in Variants(fields)
      PROVE  Item(fields, v)
  <2>1. \/ v = x
        \/ \E k \in DOMAIN fields : \E i \in DOMAIN Samples(fields[k]) : v = [x EXCEPT ![k] = Samples(fields[k])[i]]
    BY DEF Variants, x
  <2>2. CASE v = x
    BY <2>2, <1>4
  <2>3. ASSUME NEW k \in DOMAIN fields, NEW i \in DOMAIN Samples(fields[k]), v = [x EXCEPT ![k] = Samples(fields[k])[i]]
        PROVE  Item(fields, v)
    <3>1. Scalar(fields[k], Samples(fields[k])[i])
      BY <1>0, SamplesTyped
    <3>2. QED
      BY <2>3, <3>1, <1>5
  <2>4. QED
    BY <2>1, <2>2, <2>3
<1>7. QED
  BY <1>4, <1>6 DEF x

\* So have the nested members.
LEMMA NestedTyped ==
    ASSUME NEW type \in Nested
    PROVE  /\ Member(type, FilledMember(type))
           /\ \A x \in NestedSamples(type) : Member(type, x)
<1> DEFINE F == ItemFields(type)
<1>1. Parsed(Null)
  BY DEF Parsed, IsJson
<1>2. Plain(F)
  BY ItemTables
<1> HIDE DEF F
<1>3. Item(F, Filled(F)) /\ Item(F, ReadItem(F, Null)) /\ \A v \in Variants(F) : Item(F, v)
  BY <1>1, <1>2, FilledTyped, ItemRead
<1>4. CASE type \in Lists
  <2>0. type # "error" /\ type # "payload"
    BY <1>4 DEF Lists
  <2>1. FilledMember(type) = <<Filled(F)>>
    BY <1>4 DEF FilledMember, F
  <2>2. NestedSamples(type) = {<< >>, <<Filled(F), ReadItem(F, Null)>>} \cup {<<v>> : v \in Variants(F)}
    BY <2>0 DEF NestedSamples, F
  <2>3. List(F, << >>)
    BY SmallLists DEF List
  <2>4. ASSUME NEW a, Item(F, a) PROVE List(F, <<a>>)
    BY <2>4, SmallLists DEF List
  <2>5. ASSUME NEW a, NEW b, Item(F, a), Item(F, b) PROVE List(F, <<a, b>>)
    BY <2>5, SmallLists DEF List
  <2>6. List(F, FilledMember(type))
    BY <2>1, <2>4, <1>3
  <2>7. \A x \in NestedSamples(type) : List(F, x)
    BY <2>2, <2>3, <2>4, <2>5, <1>3
  <2>8. QED
    BY <1>4, <2>6, <2>7 DEF Member, F
<1>5. CASE type = "error"
  <2>0. type \notin Lists
    BY <1>5 DEF Lists
  <2>1. F = ErrorFields
    BY <1>5 DEF F, ItemFields
  <2>2. FilledMember(type) = Filled(F)
    BY <2>0 DEF FilledMember, F
  <2>3. NestedSamples(type) = {v \in Variants(F) : v.code # ""} \cup {ReadItem(F, Null)}
    BY <1>5, <2>1 DEF NestedSamples
  <2>4. Filled(F).code # ""
    <3>1. Filled(F)["code"] = Samples(ErrorFields["code"])[1]
      BY <2>1, CodeMember DEF Filled
    <3>2. Samples("string")[1] = SomeString
      BY DEF Samples
    <3>3. QED
      BY <3>1, <3>2, CodeMember, SomeStringFacts
  <2>5. Item(ErrorFields, Filled(F)) /\ \A x \in NestedSamples(type) :
            Item(ErrorFields, x) /\ (x.code = "" => x = ReadItem(ErrorFields, Null))
    BY <1>3, <2>1, <2>3
  <2>6. QED
    BY <1>5, <2>0, <2>2, <2>4, <2>5 DEF Member
<1>6. CASE type = "payload"
  <2>0. type \notin Lists
    BY <1>6 DEF Lists
  <2>1. F = PayloadRefFields
    BY <1>6 DEF F, ItemFields
  <2>2. FilledMember(type) = Filled(F)
    BY <2>0 DEF FilledMember, F
  <2>3. NestedSamples(type) = Variants(F)
    BY <1>6, <2>1 DEF NestedSamples
  <2>4. QED
    BY <1>3, <1>6, <2>0, <2>1, <2>2, <2>3 DEF Member
<1>7. QED
  BY <1>4, <1>5, <1>6 DEF Nested

\* The structures that are sent have the types of their members.
LEMMA StructuresTyped ==
    ASSUME NEW s \in SchemaNames, NEW x \in Structures(s)
    PROVE  \A k \in DOMAIN Fields(s) : Member(Fields(s)[k], x[k])
<1> DEFINE F == Fields(s)
           filled == [k \in DOMAIN F |-> FilledMember(F[k])]
           Others(k) == IF F[k] \in Nested THEN NestedSamples(F[k]) ELSE {Samples(F[k])[i] : i \in DOMAIN Samples(F[k])}
<1>1. \A k \in DOMAIN F : F[k] \in ScalarTypes \cup Nested
  BY Tables DEF Tabled
<1>2. \E k \in DOMAIN F : \E v \in Others(k) : x = [filled EXCEPT ![k] = v]
  BY DEF Structures
<1> HIDE DEF F
<1>3. ASSUME NEW k \in DOMAIN F
      PROVE  Member(F[k], FilledMember(F[k])) /\ \A v \in Others(k) : Member(F[k], v)
  <2>1. CASE F[k] \in Nested
    BY <2>1, NestedTyped
  <2>2. CASE F[k] \notin Nested
    <3>1. F[k] \in ScalarTypes /\ F[k] \notin Lists /\ F[k] # "error" /\ F[k] # "payload"
      BY <1>1, <2>2 DEF Nested
    <3>2. FilledMember(F[k]) = Samples(F[k])[1]
      BY <2>2, <3>1 DEF FilledMember
    <3>3. \A y : Member(F[k], y) <=> Scalar(F[k], y)
      BY <3>1 DEF Member
    <3>4. QED
      BY <2>2, <3>1, <3>2, <3>3, SamplesTyped
  <2>3. QED
    BY <2>1, <2>2
<1>4. PICK k \in DOMAIN F : \E v \in Others(k) : x = [filled EXCEPT ![k] = v]
  BY <1>2
<1>5. PICK v \in Others(k) : x = [filled EXCEPT ![k] = v]
  BY <1>4
<1> HIDE DEF Others
<1>6. \A m \in DOMAIN F : x[m] = IF m = k THEN v ELSE FilledMember(F[m])
  BY <1>5
<1>7. \A m \in DOMAIN F : Member(F[m], x[m])
  BY <1>3, <1>6
<1>8. QED
  BY <1>7 DEF F

-----------------------------------------------------------------------------
(* The document on its way.                                                *)

\* The members of the object that *ToJson writes.
DocOf(s, x) == ToJson(s, x)[2]

\* The members are written under their keys, and two keys are no members.
LEMMA Written ==
    ASSUME NEW s \in SchemaNames, NEW x
    PROVE  /\ IsObject(ToJson(s, x)) /\ ToJson(s, x) = Object(DocOf(s, x))
           /\ DOMAIN Fields(s) \subseteq DOMAIN DocOf(s, x)
           /\ DOMAIN DocOf(s, x) \subseteq DOMAIN Fields(s) \cup {"schemaVersion", "ok"}
           /\ \A k \in DOMAIN Fields(s) : DocOf(s, x)[k] = WriteField(Fields(s)[k], x[k])
           /\ "schemaVersion" \in DOMAIN DocOf(s, x) => DocOf(s, x)["schemaVersion"] = Number(1)
           /\ "ok" \in DOMAIN DocOf(s, x) => DocOf(s, x)["ok"] = Bool(TRUE)
<1> DEFINE doc == DocOf(s, x)
           a == [k \in DOMAIN Fields(s) |-> WriteField(Fields(s)[k], x[k])]
           b == IF s \in Unversioned THEN NoMembers ELSE [schemaVersion |-> Number(kSchemaVersion)]
           t == Bool(TRUE)
           c == IF s = "searchResponse" THEN [ok |-> t] ELSE NoMembers
<1>0. \A f : IsObject(Object(f)) /\ Object(f)[2] = f
  BY DEF IsObject, Kind, Object
<1>1. ToJson(s, x) = Object(a ++ b ++ c)
  BY DEF ToJson
<1>2. doc = a ++ b ++ c /\ IsObject(ToJson(s, x)) /\ ToJson(s, x) = Object(doc)
  BY <1>0, <1>1 DEF DocOf
<1> HIDE DEF doc
<1>3. DOMAIN a = DOMAIN Fields(s) /\ \A k \in DOMAIN Fields(s) : a[k] = WriteField(Fields(s)[k], x[k])
  OBVIOUS
<1>4. DOMAIN b \subseteq {"schemaVersion"} /\ \A k \in DOMAIN b : b[k] = Number(1)
  BY DEF NoMembers, kSchemaVersion
<1> HIDE DEF t
<1>5. DOMAIN c \subseteq {"ok"} /\ \A k \in DOMAIN c : c[k] = t
  BY DEF NoMembers
<1>6. "schemaVersion" \notin DOMAIN a /\ "ok" \notin DOMAIN a
  BY <1>3, Tables DEF Tabled
<1> HIDE DEF a, b, c
<1>7. DOMAIN doc = DOMAIN a \cup DOMAIN b \cup DOMAIN c
  BY <1>2 DEF ++
<1>8. \A k \in DOMAIN doc : doc[k] = IF k \in DOMAIN a THEN a[k] ELSE IF k \in DOMAIN b THEN b[k] ELSE c[k]
  BY <1>2, <1>7 DEF ++
<1>9. "schemaVersion" \in DOMAIN doc => doc["schemaVersion"] = Number(1)
  BY <1>4, <1>5, <1>6, <1>7, <1>8
<1>10. "ok" \in DOMAIN doc => doc["ok"] = Bool(TRUE)
  <2>1. "ok" \in DOMAIN doc => doc["ok"] = t
    BY <1>4, <1>5, <1>6, <1>7, <1>8
  <2>2. QED
    BY <2>1 DEF t
<1>11. \A k \in DOMAIN Fields(s) : k \in DOMAIN doc /\ doc[k] = WriteField(Fields(s)[k], x[k])
  BY <1>3, <1>7, <1>8
<1>12. DOMAIN doc \subseteq DOMAIN Fields(s) \cup {"schemaVersion", "ok"}
  BY <1>3, <1>4, <1>5, <1>7
<1>13. QED
  BY <1>2, <1>9, <1>10, <1>11, <1>12 DEF doc

\* That of the structure on its way.
Doc == DocOf(schema, sent)

\* The document is what was written but for the altered fields, and those hold
\* values of the environment.
WireInv ==
    IF IsObject(wire)
    THEN /\ DOMAIN wire[2] \subseteq DOMAIN Doc
         /\ \A k \in DOMAIN Doc \ altered : k \in DOMAIN wire[2] /\ wire[2][k] = Doc[k]
         /\ \A k \in altered \cap DOMAIN wire[2] : wire[2][k] \in Values
    ELSE altered = DOMAIN Doc

\* The inductive invariant: so it is until it is read, and what is read is what
\* the decoder makes of it.
CodecInv ==
    /\ schema \in Schemas
    /\ stage \in {"new", "written", "altered", "read"}
    /\ stage = "new" => altered = {}
    /\ stage # "new" => sent \in Structures(schema) /\ WireInv
    /\ stage = "written" => altered = {} /\ wire = Object(Doc)
    /\ stage = "read" => /\ received = FromJson(schema, wire)
                         /\ issues = JsonDecodeDiagnosticsFor(schema, wire)

\* It holds before anything is written.
LEMMA CodecInvInit == Init => CodecInv
BY DEF Init, CodecInv

\* Writing, altering and decoding preserve it.
LEMMA CodecInvNext == CodecInv /\ [Next]_vars => CodecInv'
<1> SUFFICES ASSUME CodecInv, [Next]_vars PROVE CodecInv'
  OBVIOUS
<1>0. \A f : IsObject(Object(f)) /\ Object(f)[2] = f
  BY DEF IsObject, Kind, Object
<1>1. ASSUME NEW v \in Structures(schema), Write(v)
      PROVE  CodecInv'
  <2>1. stage = "new" /\ stage' = "written" /\ sent' = v /\ schema' = schema /\ altered' = {}
        /\ wire' = ToJson(schema, v)
    BY <1>1 DEF Write, CodecInv
  <2>2. Doc' = DocOf(schema, v)
    BY <2>1 DEF Doc
  <2>3. IsObject(wire') /\ wire' = Object(Doc')
    <3>1. schema \in SchemaNames
      BY SchemasAssumption DEF CodecInv
    <3>2. IsObject(ToJson(schema, v)) /\ ToJson(schema, v) = Object(DocOf(schema, v))
      BY <3>1, Written
    <3>3. QED
      BY <2>1, <2>2, <3>2
  <2>4. wire'[2] = Doc'
    BY <1>0, <2>3
  <2>5. WireInv'
    BY <2>1, <2>3, <2>4 DEF WireInv
  <2>6. QED
    BY <2>1, <2>3, <2>5 DEF CodecInv
<1>2. ASSUME stage = "written", NEW key \in DOMAIN wire[2], NEW d, wire' = Object(d), altered' = {key},
             stage' = "altered", UNCHANGED <<schema, sent, received, issues>>,
             DOMAIN d \subseteq DOMAIN wire[2],
             \A k \in DOMAIN wire[2] \ {key} : k \in DOMAIN d /\ d[k] = wire[2][k],
             key \in DOMAIN d => d[key] \in Values
      PROVE  CodecInv'
  <2>1. wire[2] = Doc /\ Doc' = Doc /\ IsObject(wire') /\ wire'[2] = d
    BY <1>0, <1>2 DEF CodecInv, Doc
  <2>2. WireInv'
    BY <1>2, <2>1 DEF WireInv
  <2>3. QED
    BY <1>2, <2>2 DEF CodecInv
<1>3. ASSUME NEW key \in DOMAIN wire[2], Omit(key)
      PROVE  CodecInv'
  <2> DEFINE d == [k \in DOMAIN wire[2] \ {key} |-> wire[2][k]]
  <2>1. /\ stage = "written" /\ wire' = Object(d) /\ altered' = {key} /\ stage' = "altered"
        /\ UNCHANGED <<schema, sent, received, issues>>
    BY <1>3 DEF Omit
  <2>2. DOMAIN d \subseteq DOMAIN wire[2] /\ key \notin DOMAIN d
    OBVIOUS
  <2>3. \A k \in DOMAIN wire[2] \ {key} : k \in DOMAIN d /\ d[k] = wire[2][k]
    OBVIOUS
  <2> HIDE DEF d
  <2>4. QED
    BY <1>2, <2>1, <2>2, <2>3
<1>4. ASSUME NEW key \in DOMAIN wire[2], NEW value \in Values, Replace(key, value)
      PROVE  CodecInv'
  <2> DEFINE d == [wire[2] EXCEPT ![key] = value]
  <2>1. /\ stage = "written" /\ wire' = Object(d) /\ altered' = {key} /\ stage' = "altered"
        /\ UNCHANGED <<schema, sent, received, issues>>
    BY <1>4 DEF Replace
  <2>2. DOMAIN d = DOMAIN wire[2] /\ d[key] \in Values
    OBVIOUS
  <2>3. \A k \in DOMAIN wire[2] \ {key} : k \in DOMAIN d /\ d[k] = wire[2][k]
    OBVIOUS
  <2> HIDE DEF d
  <2>4. QED
    BY <1>2, <2>1, <2>2, <2>3
<1>5. ASSUME NEW value \in Values, ReplaceAll(value)
      PROVE  CodecInv'
  <2>1. /\ stage = "written" /\ ~IsObject(wire') /\ altered' = DOMAIN wire[2] /\ stage' = "altered"
        /\ schema' = schema /\ sent' = sent
    BY <1>5 DEF ReplaceAll
  <2>2. wire[2] = Doc /\ Doc' = Doc
    BY <1>0, <2>1 DEF CodecInv, Doc
  <2>3. WireInv'
    BY <2>1, <2>2 DEF WireInv
  <2>4. QED
    BY <2>1, <2>3 DEF CodecInv
<1>6. CASE DecodeWithDiagnostics
  <2>1. /\ stage \in {"written", "altered"} /\ stage' = "read" /\ UNCHANGED <<schema, sent, wire, altered>>
        /\ received' = FromJson(schema, wire) /\ issues' = JsonDecodeDiagnosticsFor(schema, wire)
    BY <1>6 DEF DecodeWithDiagnostics
  <2>2. WireInv /\ sent \in Structures(schema)
    BY <2>1 DEF CodecInv
  <2>3. WireInv'
    BY <2>1, <2>2 DEF WireInv, Doc
  <2>4. QED
    BY <2>1, <2>2, <2>3 DEF CodecInv
<1>7. CASE UNCHANGED vars
  <2>1. UNCHANGED <<stage, schema, sent, wire, altered, received, issues>>
    BY <1>7 DEF vars
  <2>2. QED
    BY <2>1 DEF CodecInv, WireInv, Doc
<1>8. QED
  BY <1>1, <1>3, <1>4, <1>5, <1>6, <1>7 DEF Next

\* CodecInv is inductive: in every reachable state the document is the one
\* *ToJson wrote but for the altered fields.
THEOREM DocumentsKept == Spec => []CodecInv
<1>1. QED
  BY CodecInvInit, CodecInvNext, PTL DEF Spec

-----------------------------------------------------------------------------
(* Members survive and have their types.                                   *)

\* What the decoder finds under the key of a member: what was written, when the
\* field is not altered, and some value or nothing in any case.
LEMMA FieldFound ==
    ASSUME CodecInv, stage = "read", NEW k \in Members
    PROVE  /\ schema \in SchemaNames
           /\ received[k] = ReadField(Fields(schema)[k], wire, k)
           /\ Fields(schema)[k] \in ScalarTypes \cup Nested
           /\ Fields(schema)[k] = "eventType" => k = "type"
           /\ Member(Fields(schema)[k], sent[k])
           /\ k \notin altered => JsonFieldValue(wire, k) = WriteField(Fields(schema)[k], sent[k])
           /\ k \in altered => Parsed(JsonFieldValue(wire, k))
<1>1. schema \in SchemaNames /\ sent \in Structures(schema) /\ WireInv
  BY SchemasAssumption DEF CodecInv
<1>2. received[k] = ReadField(Fields(schema)[k], wire, k)
  BY DEF CodecInv, FromJson, Members
<1>3. Tabled(Fields(schema))
  BY <1>1, Tables
<1>4. Fields(schema)[k] \in ScalarTypes \cup Nested /\ (Fields(schema)[k] = "eventType" => k = "type")
  BY <1>3 DEF Tabled, Members
<1>5. Member(Fields(schema)[k], sent[k])
  BY <1>1, StructuresTyped DEF Members
<1>6. k \in DOMAIN Doc /\ Doc[k] = WriteField(Fields(schema)[k], sent[k])
  BY <1>1, Written DEF Doc, Members
<1>7. ASSUME k \notin altered
      PROVE  JsonFieldValue(wire, k) = WriteField(Fields(schema)[k], sent[k])
  <2>1. IsObject(wire) /\ k \in DOMAIN wire[2] /\ wire[2][k] = Doc[k]
    BY <1>1, <1>6, <1>7 DEF WireInv
  <2>2. QED
    BY <1>6, <2>1 DEF JsonFieldValue, Contains
<1>8. ASSUME k \in altered
      PROVE  Parsed(JsonFieldValue(wire, k))
  <2>1. Parsed(Null)
    BY DEF Parsed, IsJson
  <2>2. CASE IsObject(wire) /\ k \in DOMAIN wire[2]
    <3>1. wire[2][k] \in Values
      BY <1>1, <1>8, <2>2 DEF WireInv
    <3>2. Parsed(wire[2][k])
      BY <3>1, ValuesAssumption DEF Parsed
    <3>3. QED
      BY <2>2, <3>2 DEF JsonFieldValue, Contains
  <2>3. CASE ~(IsObject(wire) /\ k \in DOMAIN wire[2])
    BY <2>1, <2>3 DEF JsonFieldValue, Contains
  <2>4. QED
    BY <2>2, <2>3
<1>9. QED
  BY <1>1, <1>2, <1>4, <1>5, <1>7, <1>8

\* The decoder reads an unaltered field as it was sent.
LEMMA UnalteredRead ==
    ASSUME CodecInv, stage = "read", NEW k \in Members, k \notin altered
    PROVE  received[k] = sent[k]
<1>1. JsonFieldValue(wire, k) = WriteField(Fields(schema)[k], sent[k])
  BY FieldFound
<1>2. Fields(schema)[k] \in ScalarTypes \cup Nested /\ (Fields(schema)[k] = "eventType" => k = "type")
  BY FieldFound
<1>3. Member(Fields(schema)[k], sent[k]) /\ received[k] = ReadField(Fields(schema)[k], wire, k)
  BY FieldFound
<1>4. QED
  BY <1>1, <1>2, <1>3, MemberKept

\* What one party writes the other reads back, whatever another field holds:
\* the invariant that the codec run checks, for every set of values.
THEOREM MembersSurvive == Spec => []UnalteredMembersSurvive
<1>1. CodecInv => UnalteredMembersSurvive
  BY UnalteredRead DEF UnalteredMembersSurvive
<1>2. QED
  BY <1>1, DocumentsKept, PTL

\* Whatever JSON value a field holds, what is read is a structure of its type.
THEOREM TypesRead == Spec => []TypeOK
<1>1. ASSUME CodecInv, stage = "read", NEW k \in Members
      PROVE  ReadMember(Fields(schema)[k], received[k])
  <2>1. Fields(schema)[k] \in ScalarTypes \cup Nested /\ (Fields(schema)[k] = "eventType" => k = "type")
    BY <1>1, FieldFound
  <2>2. CASE k \notin altered
    <3>1. received[k] = sent[k] /\ Member(Fields(schema)[k], sent[k])
      BY <1>1, <2>2, UnalteredRead, FieldFound
    <3>2. QED
      BY <3>1, MemberIsRead
  <2>3. CASE k \in altered
    <3>1. Parsed(JsonFieldValue(wire, k)) /\ received[k] = ReadField(Fields(schema)[k], wire, k)
      BY <1>1, <2>3, FieldFound
    <3>2. QED
      BY <2>1, <3>1, MemberRead
  <2>4. QED
    BY <2>2, <2>3
<1>2. \A fields, x : Item(fields, x) => \A f \in DOMAIN fields : IsScalar(fields[f], x[f])
  BY DEF Item, Scalar
<1>3. \A type, x : Scalar(type, x) => IsScalar(type, x)
  BY DEF Scalar
<1>4. CodecInv => TypeOK
  BY <1>1, <1>2, <1>3 DEF TypeOK, ReadMember
<1>5. QED
  BY <1>4, DocumentsKept, PTL

-----------------------------------------------------------------------------
(* Diagnostics.                                                            *)

\* The JSON type of each type of member.
LEMMA RuleTypes ==
    /\ RuleType("string") = "String" /\ RuleType("int") = "Integer" /\ RuleType("eventType") = "Integer"
    /\ RuleType("float") = "Float" /\ RuleType("bool") = "Boolean" /\ RuleType("object") = "Object"
    /\ RuleType("error") = "Object" /\ RuleType("payload") = "Object"
    /\ \A type \in Lists \cup {"strings"} : RuleType(type) = "Array"
BY DEF RuleType, Lists

\* A document as written has the JSON types that the rules ask for.
LEMMA WrittenMatches ==
    ASSUME NEW type \in ScalarTypes \cup Nested, NEW x
    PROVE  MatchesType(WriteField(type, x), RuleType(type))
<1>0. \A f : IsObject(Object(f))
  BY DEF IsObject, Kind, Object
<1>00. IsObject(EmptyObject)
  BY <1>0 DEF EmptyObject
<1>1. CASE type \in Lists
  <2>1. type \notin {"error", "payload", "string", "int", "eventType", "float", "bool"}
    BY <1>1 DEF Lists
  <2>2. RuleType(type) = "Array" /\ WriteField(type, x) = Array([i \in DOMAIN x |-> WriteItem(ItemFields(type), x[i])])
    BY <1>1, <2>1, RuleTypes DEF WriteField
  <2>3. \A f : Kind(Array(f)) = "array"
    BY DEF Kind, Array
  <2>4. QED
    BY <2>2, <2>3 DEF MatchesType
<1>2. CASE type \in {"error", "payload"}
  <2>1. type \notin Lists
    BY <1>2 DEF Lists
  <2>2. RuleType(type) = "Object"
    BY <1>2, RuleTypes
  <2>3. \A fields : IsObject(WriteItem(fields, x))
    BY <1>0 DEF WriteItem
  <2>4. IsObject(WriteField(type, x))
    BY <1>2, <1>00, <2>1, <2>3 DEF WriteField, ErrorToJson
  <2>5. QED
    BY <2>2, <2>4 DEF MatchesType
<1>3. CASE type \in ScalarTypes
  <2>1. type \notin Lists /\ type \notin {"error", "payload"}
    BY <1>3 DEF ScalarTypes, Lists
  <2>2. WriteField(type, x) = WriteScalar(type, x)
    BY <2>1 DEF WriteField
  <2>3. \A y : /\ Kind(Str(y)) = "string" /\ Kind(Bool(y)) = "bool" /\ Kind(Tenths(y)) = "float"
               /\ Kind(Array(y)) = "array" /\ IsInteger(Number(y)) /\ IsObject(JsonObject(y))
    BY <1>00 DEF Kind, Str, Bool, Tenths, Array, Number, IsInteger, IntegerKinds, JsonObject
  <2>4. CASE type = "string"
    BY <2>2, <2>3, <2>4, RuleTypes DEF MatchesType, WriteScalar
  <2>5. CASE type \in {"int", "eventType"}
    BY <2>2, <2>3, <2>5, RuleTypes DEF MatchesType, WriteScalar
  <2>6. CASE type = "float"
    BY <2>2, <2>3, <2>6, RuleTypes DEF MatchesType, WriteScalar, IsNumber, NumberKinds
  <2>7. CASE type = "bool"
    BY <2>2, <2>3, <2>7, RuleTypes DEF MatchesType, WriteScalar
  <2>8. CASE type = "strings"
    BY <2>2, <2>3, <2>8, RuleTypes DEF MatchesType, WriteScalar
  <2>9. CASE type = "object"
    <3>1. RuleType(type) = "Object" /\ WriteScalar(type, x) = JsonObject(x)
      BY <2>9, RuleTypes DEF WriteScalar
    <3>2. QED
      BY <2>2, <2>3, <3>1 DEF MatchesType
  <2>10. QED
    BY <1>3, <2>4, <2>5, <2>6, <2>7, <2>8, <2>9 DEF ScalarTypes
<1>4. QED
  BY <1>1, <1>2, <1>3 DEF Nested

\* An integer in the range of long long is read as it is or as the default.
LEMMA IntegersRead ==
    ASSUME NEW j, NEW key, NEW fallback, NEW v, JsonFieldValue(j, key) = v, Parsed(v), IsInteger(v)
    PROVE  \/ Number(JsonInt(j, key, fallback)) = v
           \/ JsonInt(j, key, fallback) = fallback
           \/ v[2] >= LongLimit
<1>1. \/ v = <<"int", v[2]>> /\ v[2] \in -LongLimit..-1
      \/ v = <<"uint", v[2]>> /\ v[2] \in 0..MaxUnsigned
  BY Contents DEF IsInteger, IntegerKinds
<1>2. LongLimit \in Nat
  BY WidthAssumption
<1> DEFINE n == v[2]
<1>3. n \in Int /\ -LongLimit <= n
  BY <1>1, <1>2
<1>4. Number(n) = v
  <2>1. CASE v = <<"int", v[2]>> /\ v[2] \in -LongLimit..-1
    <3>1. n < 0
      BY <1>2, <2>1
    <3>2. QED
      BY <2>1, <3>1 DEF Number
  <2>2. CASE v = <<"uint", v[2]>> /\ v[2] \in 0..MaxUnsigned
    <3>1. ~(n < 0)
      BY <1>2, <2>2
    <3>2. QED
      BY <2>2, <3>1 DEF Number
  <2>3. QED
    BY <1>1, <2>1, <2>2
<1> HIDE DEF n
<1>5. n < LongLimit => Narrow(n, LongLimit) = n
  BY <1>2, <1>3 DEF Narrow
<1>6. JsonInt(j, key, fallback) =
        IF Narrow(n, LongLimit) \in MinInt..MaxInt THEN Narrow(n, LongLimit)
        ELSE IF Kind(v) = "uint" /\ n <= MaxInt THEN n ELSE fallback
  BY DEF JsonInt, n
<1>7. n < LongLimit => JsonInt(j, key, fallback) \in {n, fallback}
  BY <1>5, <1>6
<1>8. n < LongLimit \/ n >= LongLimit
  BY <1>2, <1>3
<1>9. QED
  BY <1>4, <1>7, <1>8 DEF n

\* What the decoder does with a value that has the type the rule asks for.
LEMMA MatchingRead ==
    ASSUME NEW type \in ScalarTypes \cup Nested, NEW j, NEW key, NEW v, JsonFieldValue(j, key) = v,
           Parsed(v), type = "eventType" => key = "type", MatchesType(v, RuleType(type)),
           NEW r, r = ReadField(type, j, key)
    PROVE  \/ WriteField(type, r) = v
           \/ IsInteger(v) /\ type = "int" /\ (r = IntDefault(key) \/ v[2] >= LongLimit)
           \/ IsInteger(v) /\ type = "eventType" /\ (r = SessionStarted \/ v[2] >= LongLimit)
           \/ IsInteger(v) /\ type = "float" /\ r = 10 * v[2]
           \/ type \in Lists \cup {"strings"}
           \/ type \in Nested
<1>1. CASE type \in Lists \cup {"strings"}
  <2>1. type \notin {"string", "int", "eventType", "float", "bool"}
    BY <1>1 DEF Lists
  <2>2. RuleType(type) = "Array"
    BY <1>1, RuleTypes
  <2>3. Kind(v) = "array"
    BY <2>2 DEF MatchesType
  <2>4. QED
    BY <1>1, <2>3
<1>2. CASE type \in {"error", "payload"}
  <2>1. type \notin Lists \cup {"strings"}
    BY <1>2 DEF Lists
  <2>2. RuleType(type) = "Object"
    BY <1>2, RuleTypes
  <2>3. IsObject(v)
    BY <2>2 DEF MatchesType
  <2>4. QED
    BY <1>2, <2>3 DEF Nested
<1>3. CASE type \in ScalarTypes \ {"strings"}
  <2>1. type \notin Lists /\ type \notin {"error", "payload"}
    BY <1>3 DEF ScalarTypes, Lists
  <2>2. WriteField(type, r) = WriteScalar(type, r) /\ r = ReadScalar(type, j, key)
    BY <2>1 DEF WriteField, ReadField
  <2>4. CASE type = "string"
    <3>1. Kind(v) = "string"
      BY <2>4, RuleTypes DEF MatchesType
    <3>2. v = Str(v[2]) /\ r = v[2]
      BY <2>2, <2>4, <3>1, Contents DEF ReadScalar, JsonString
    <3>3. QED
      BY <2>2, <2>4, <3>2 DEF WriteScalar
  <2>5. CASE type = "int"
    <3>1. IsInteger(v)
      BY <2>5, RuleTypes DEF MatchesType
    <3>2. r = JsonInt(j, key, IntDefault(key)) /\ WriteScalar(type, r) = Number(r)
      BY <2>2, <2>5 DEF ReadScalar, WriteScalar
    <3>3. QED
      BY <2>2, <2>5, <3>1, <3>2, IntegersRead
  <2>6. CASE type = "eventType"
    <3>1. IsInteger(v)
      BY <2>6, RuleTypes DEF MatchesType
    <3> DEFINE n == JsonInt(j, key, SessionStarted)
    <3>2. r = IF n \in EventTypes THEN n ELSE SessionStarted
      BY <2>2, <2>6 DEF ReadScalar, EventTypeFromJson
    <3>3. WriteScalar(type, r) = Number(r)
      BY <2>6 DEF WriteScalar
    <3>4. Number(n) = v \/ n = SessionStarted \/ v[2] >= LongLimit
      BY <3>1, IntegersRead
    <3> HIDE DEF n
    <3>5. QED
      BY <2>2, <2>6, <3>1, <3>2, <3>3, <3>4
  <2>7. CASE type = "float"
    <3>1. Kind(v) = "float" \/ IsInteger(v)
      BY <2>7, RuleTypes DEF MatchesType, IsNumber, NumberKinds, IsInteger
    <3>2. r = JsonDouble(j, key, 0) /\ WriteScalar(type, r) = Tenths(r)
      BY <2>2, <2>7 DEF ReadScalar, WriteScalar
    <3>3. CASE Kind(v) = "float"
      <4>1. v = Tenths(v[2]) /\ r = v[2]
        BY <3>2, <3>3, Contents DEF JsonDouble
      <4>2. QED
        BY <2>2, <3>2, <4>1
    <3>4. CASE Kind(v) # "float" /\ IsInteger(v)
      <4>1. r = 10 * v[2]
        BY <3>2, <3>4 DEF JsonDouble
      <4>2. QED
        BY <2>7, <3>4, <4>1
    <3>5. QED
      BY <3>1, <3>3, <3>4
  <2>8. CASE type = "bool"
    <3>1. Kind(v) = "bool"
      BY <2>8, RuleTypes DEF MatchesType
    <3>2. v = Bool(v[2]) /\ r = v[2]
      BY <2>2, <2>8, <3>1, Contents DEF ReadScalar, JsonBool
    <3>3. QED
      BY <2>2, <2>8, <3>2 DEF WriteScalar
  <2>9. CASE type = "object"
    <3>1. RuleType(type) = "Object" /\ WriteScalar(type, r) = JsonObject(r) /\ r = JsonObject(v)
      BY <2>2, <2>9, RuleTypes DEF WriteScalar, ReadScalar
    <3>2. IsObject(v)
      BY <3>1 DEF MatchesType
    <3>3. QED
      BY <2>2, <3>1, <3>2 DEF JsonObject
  <2>10. QED
    BY <1>3, <2>4, <2>5, <2>6, <2>7, <2>8, <2>9 DEF ScalarTypes
<1>4. QED
  BY <1>1, <1>2, <1>3 DEF Nested

\* The keys that have a rule, and which.
LEMMA Rules ==
    ASSUME NEW s \in SchemaNames
    PROVE  /\ \A k \in DOMAIN Fields(s) \ NoRule(s) :
                 /\ k \in DOMAIN SchemaRules(s)
                 /\ SchemaRules(s)[k] = IF s = "consolidationResult" /\ k = "error" THEN "String"
                                        ELSE RuleType(Fields(s)[k])
           /\ \A k \in DOMAIN SchemaRules(s) : k \in DOMAIN Fields(s) \ NoRule(s) \/ k = "ok"
           /\ "ok" \in DOMAIN SchemaRules(s) => SchemaRules(s)["ok"] = "Boolean"
<1> DEFINE a == [k \in DOMAIN Fields(s) \ NoRule(s) |->
                    IF s = "consolidationResult" /\ k = "error" THEN "String" ELSE RuleType(Fields(s)[k])]
           b == IF s = "searchResponse" THEN [ok |-> "Boolean"] ELSE NoMembers
<1>1. SchemaRules(s) = a ++ b
  BY DEF SchemaRules
<1>2. DOMAIN b \subseteq {"ok"} /\ \A k \in DOMAIN b : b[k] = "Boolean"
  BY DEF NoMembers
<1>3. "ok" \notin DOMAIN Fields(s)
  BY Tables DEF Tabled
<1>4. DOMAIN a = DOMAIN Fields(s) \ NoRule(s) /\ \A k \in DOMAIN a :
        a[k] = IF s = "consolidationResult" /\ k = "error" THEN "String" ELSE RuleType(Fields(s)[k])
  OBVIOUS
<1> HIDE DEF a, b
<1>5. DOMAIN SchemaRules(s) = DOMAIN a \cup DOMAIN b
      /\ \A k \in DOMAIN SchemaRules(s) : SchemaRules(s)[k] = IF k \in DOMAIN a THEN a[k] ELSE b[k]
  BY <1>1 DEF ++
<1>6. QED
  BY <1>2, <1>3, <1>4, <1>5

\* What the decoder does with a value of another type: the same as with none.
LEMMA OthersDropped ==
    ASSUME NEW type \in ScalarTypes \cup Nested, NEW j, NEW key,
           type = "eventType" => key = "type",
           ~MatchesType(JsonFieldValue(j, key), RuleType(type))
    PROVE  ReadField(type, j, key) = ReadField(type, Null, key)
<1> DEFINE v == JsonFieldValue(j, key)
<1>1. JsonFieldValue(Null, key) = Null
  BY DEF JsonFieldValue, IsObject, Kind, Null
<1>2. /\ Kind(Null) \notin {"string", "bool", "float", "array"} /\ ~IsInteger(Null) /\ ~IsObject(Null)
  BY DEF IsInteger, IntegerKinds, IsObject, Kind, Null
<1>3. CASE type \in Lists
  <2>1. type \notin {"error", "payload"}
    BY <1>3 DEF Lists
  <2>2. RuleType(type) = "Array"
    BY <1>3, RuleTypes
  <2>3. Kind(v) # "array"
    BY <2>2 DEF MatchesType
  <2>4. QED
    BY <1>1, <1>2, <1>3, <2>1, <2>3 DEF ReadField
<1>4. CASE type \in {"error", "payload"}
  <2>1. RuleType(type) = "Object"
    BY <1>4, RuleTypes
  <2>2. ~IsObject(v)
    BY <2>1 DEF MatchesType
  <2>3. type \notin Lists
    BY <1>4 DEF Lists
  <2>4. QED
    BY <1>1, <1>2, <1>4, <2>2, <2>3 DEF ReadField
<1>5. CASE type \in ScalarTypes
  <2>1. type \notin Lists /\ type \notin {"error", "payload"}
    BY <1>5 DEF ScalarTypes, Lists
  <2>2. /\ ReadField(type, j, key) = ReadScalar(type, j, key)
        /\ ReadField(type, Null, key) = ReadScalar(type, Null, key)
    BY <2>1 DEF ReadField
  <2>3. CASE type = "string"
    <3>1. Kind(v) # "string"
      BY <2>3, RuleTypes DEF MatchesType
    <3>2. QED
      BY <1>1, <1>2, <2>2, <2>3, <3>1 DEF ReadScalar, JsonString
  <2>4. CASE type = "int"
    <3>1. ~IsInteger(v)
      BY <2>4, RuleTypes DEF MatchesType
    <3>2. QED
      BY <1>1, <1>2, <2>2, <2>4, <3>1 DEF ReadScalar, JsonInt
  <2>5. CASE type = "eventType"
    <3>1. ~IsInteger(v) /\ key = "type"
      BY <2>5, RuleTypes DEF MatchesType
    <3>2. JsonInt(j, "type", SessionStarted) = JsonInt(Null, "type", SessionStarted)
      BY <1>1, <1>2, <3>1 DEF JsonInt
    <3>3. QED
      BY <2>2, <2>5, <3>2 DEF ReadScalar, EventTypeFromJson
  <2>6. CASE type = "float"
    <3>1. Kind(v) # "float" /\ ~IsInteger(v)
      BY <2>6, RuleTypes DEF MatchesType, IsNumber, NumberKinds, IsInteger
    <3>2. QED
      BY <1>1, <1>2, <2>2, <2>6, <3>1 DEF ReadScalar, JsonDouble
  <2>7. CASE type = "bool"
    <3>1. Kind(v) # "bool"
      BY <2>7, RuleTypes DEF MatchesType
    <3>2. QED
      BY <1>1, <1>2, <2>2, <2>7, <3>1 DEF ReadScalar, JsonBool
  <2>8. CASE type = "strings"
    <3>1. RuleType(type) = "Array"
      BY <2>8, RuleTypes
    <3>2. Kind(v) # "array"
      BY <3>1 DEF MatchesType
    <3>3. QED
      BY <1>1, <1>2, <2>2, <2>8, <3>2 DEF ReadScalar, StringVectorFromJson
  <2>9. CASE type = "object"
    <3>1. RuleType(type) = "Object"
      BY <2>9, RuleTypes
    <3>2. ~IsObject(v)
      BY <3>1 DEF MatchesType
    <3>3. QED
      BY <1>1, <1>2, <2>2, <2>9, <3>2 DEF ReadScalar, JsonObject
  <2>10. QED
    BY <1>5, <2>3, <2>4, <2>5, <2>6, <2>7, <2>8, <2>9 DEF ScalarTypes
<1>6. QED
  BY <1>3, <1>4, <1>5 DEF Nested

\* The defaults of the integers, as *FromJson gives them.
LEMMA IntDefaults ==
    /\ \A k : ReadField("int", Null, k) = IntDefault(k)
    /\ ReadField("eventType", Null, "type") = SessionStarted
<1>1. \A k : JsonFieldValue(Null, k) = Null
  BY DEF JsonFieldValue, IsObject, Kind, Null
<1>2. ~IsInteger(Null)
  BY DEF IsInteger, IntegerKinds, Kind, Null
<1>3. \A k, x : JsonInt(Null, k, x) = x
  BY <1>1, <1>2 DEF JsonInt
<1>4. EventTypeFromJson(Null) = SessionStarted
  BY <1>3 DEF EventTypeFromJson
<1>5. /\ \A k : ReadField("int", Null, k) = ReadScalar("int", Null, k)
      /\ ReadField("eventType", Null, "type") = ReadScalar("eventType", Null, "type")
  BY DEF ReadField, Lists
<1>6. QED
  BY <1>3, <1>4, <1>5 DEF ReadScalar

\* A member is the value of its field or the default.
LEMMA Taken == CodecInv => TakenOrDefault
<1> SUFFICES ASSUME CodecInv, stage = "read", IsObject(wire), NEW k \in Members \cap DOMAIN wire[2],
                    Fields(schema)[k] \in Simple, IsInteger(wire[2][k]) => wire[2][k][2] < LongLimit
             PROVE  \/ WriteField(Fields(schema)[k], received[k]) = wire[2][k]
                    \/ Fields(schema)[k] = "float" /\ IsInteger(wire[2][k]) /\ received[k] = 10 * wire[2][k][2]
                    \/ received[k] = Default(k)
  BY DEF TakenOrDefault
<1> DEFINE type == Fields(schema)[k]
           v == wire[2][k]
<1>1. received[k] = ReadField(type, wire, k) /\ type \in ScalarTypes \cup Nested
  BY FieldFound
<1>2. JsonFieldValue(wire, k) = v /\ (type = "eventType" => k = "type")
  BY FieldFound DEF JsonFieldValue, Contains
<1>3. CASE k \notin altered
  <2>1. received[k] = sent[k] /\ JsonFieldValue(wire, k) = WriteField(type, sent[k])
    BY <1>3, UnalteredRead, FieldFound
  <2>2. QED
    BY <1>2, <2>1
<1>4. CASE k \in altered /\ ~MatchesType(v, RuleType(type))
  <2>1. ReadField(type, wire, k) = ReadField(type, Null, k)
    BY <1>1, <1>2, <1>4, OthersDropped
  <2>2. QED
    BY <1>1, <2>1 DEF Default
<1>5. CASE k \in altered /\ MatchesType(v, RuleType(type))
  <2>1. Parsed(v)
    BY <1>2, <1>5, FieldFound
  <2>2. type \notin Lists \cup {"strings"} /\ type \notin Nested
    BY DEF Simple, Lists, Nested
  <2>3. IsInteger(v) => ~(v[2] >= LongLimit)
    <3>1. IsInteger(v) => v[2] \in Int
      <4>1. Kind(v) = "int" => v[2] \in -LongLimit..-1
        BY <2>1, Contents
      <4>2. Kind(v) = "uint" => v[2] \in 0..MaxUnsigned
        BY <2>1, Contents
      <4>3. QED
        BY <4>1, <4>2 DEF IsInteger, IntegerKinds
    <3>2. QED
      BY <3>1, WidthAssumption
  <2>4. Default(k) = ReadField(type, Null, k)
    BY DEF Default
  <2> HIDE DEF type, v
  <2>5. \/ WriteField(type, received[k]) = v
        \/ IsInteger(v) /\ type = "int" /\ (received[k] = IntDefault(k) \/ v[2] >= LongLimit)
        \/ IsInteger(v) /\ type = "eventType" /\ (received[k] = SessionStarted \/ v[2] >= LongLimit)
        \/ IsInteger(v) /\ type = "float" /\ received[k] = 10 * v[2]
        \/ type \in Lists \cup {"strings"}
        \/ type \in Nested
    BY <1>1, <1>2, <1>5, <2>1, MatchingRead
  <2>6. \/ WriteField(type, received[k]) = v
        \/ type = "float" /\ IsInteger(v) /\ received[k] = 10 * v[2]
        \/ received[k] = Default(k)
    BY <1>2, <2>2, <2>3, <2>4, <2>5, IntDefaults
  <2>7. QED
    BY <2>6 DEF type, v
<1>6. QED
  BY <1>3, <1>4, <1>5

\* No member ever has a third value, whatever its field holds.
THEOREM ValuesTaken == Spec => []TakenOrDefault
<1>1. CodecInv => TakenOrDefault
  BY Taken
<1>2. QED
  BY <1>1, DocumentsKept, PTL

\* A member that the diagnostics name has its default.
LEMMA Dropped == CodecInv => NamedIsDropped
<1> SUFFICES ASSUME CodecInv, stage = "read", IsObject(wire),
                    NEW k \in Members \cap (issues.warnings \cup issues.errors), ~WrongRule(k)
             PROVE  received[k] = Default(k)
  BY DEF NamedIsDropped
<1> DEFINE type == Fields(schema)[k]
           version == HasInvalid(wire, "schemaVersion", IntegerKinds)
                      \/ JsonInt(wire, "schemaVersion", kSchemaVersion) > kSchemaVersion
           odd == {i \in DOMAIN SchemaRules(schema) :
                      Contains(wire, i) /\ ~MatchesType(wire[2][i], SchemaRules(schema)[i])}
           lacking == schema = "searchResponse" /\ Kind(JsonFieldValue(wire, "results")) # "array"
<1>1. /\ schema \in SchemaNames /\ received[k] = ReadField(type, wire, k)
      /\ type \in ScalarTypes \cup Nested /\ (type = "eventType" => k = "type")
  BY FieldFound
<1>2. /\ issues.warnings = (IF version THEN {"schemaVersion"} ELSE {}) \cup odd
      /\ issues.errors = IF lacking THEN {"results"} ELSE {}
  BY DEF CodecInv, JsonDecodeDiagnosticsFor
<1>3. k \notin {"schemaVersion", "ok"}
  BY <1>1, Tables DEF Tabled, Members
<1>4. ~MatchesType(JsonFieldValue(wire, k), RuleType(type))
  <2>1. CASE k \in odd
    <3>1. SchemaRules(schema)[k] = RuleType(type)
      BY <1>1, <1>3, <2>1, Rules DEF WrongRule
    <3>2. JsonFieldValue(wire, k) = wire[2][k]
      BY <2>1 DEF JsonFieldValue
    <3>3. QED
      BY <2>1, <3>1, <3>2
  <2>2. CASE k = "results" /\ lacking
    <3>1. type = "hits" /\ "hits" \in Lists
      BY <2>2, ResultsMember DEF Lists
    <3>2. RuleType(type) = "Array"
      BY <3>1, RuleTypes
    <3>3. QED
      BY <2>2, <3>2 DEF MatchesType
  <2> HIDE DEF version, odd, lacking
  <2>3. QED
    BY <1>2, <1>3, <2>1, <2>2
<1>5. QED
  BY <1>1, <1>4, OthersDropped DEF Default

\* A document without altered values gives no warning and no error of its own.
LEMMA Accepted == CodecInv => CompleteDocumentsAccepted
<1> SUFFICES ASSUME CodecInv, stage = "read", IsObject(wire), \A k \in altered : ~Contains(wire, k)
             PROVE  /\ \A k \in issues.warnings : WrongRule(k)
                    /\ issues.errors = (IF schema = "searchResponse" THEN altered \cap {"results"} ELSE {})
  BY DEF CompleteDocumentsAccepted
<1>1. schema \in SchemaNames /\ WireInv
  BY SchemasAssumption DEF CodecInv
<1>2. /\ DOMAIN wire[2] \subseteq DOMAIN Doc
      /\ \A k \in DOMAIN wire[2] : k \notin altered /\ wire[2][k] = Doc[k]
      /\ \A k \in DOMAIN Doc : k \in DOMAIN wire[2] <=> k \notin altered
  BY <1>1 DEF WireInv, Contains
<1>3. /\ DOMAIN Fields(schema) \subseteq DOMAIN Doc
      /\ \A k \in DOMAIN Fields(schema) : Doc[k] = WriteField(Fields(schema)[k], sent[k])
      /\ "schemaVersion" \in DOMAIN Doc => Doc["schemaVersion"] = Number(1)
      /\ "ok" \in DOMAIN Doc => Doc["ok"] = Bool(TRUE)
  BY <1>1, Written DEF Doc
<1> DEFINE version == HasInvalid(wire, "schemaVersion", IntegerKinds)
                      \/ JsonInt(wire, "schemaVersion", kSchemaVersion) > kSchemaVersion
           odd == {k \in DOMAIN SchemaRules(schema) :
                      Contains(wire, k) /\ ~MatchesType(wire[2][k], SchemaRules(schema)[k])}
           lacking == schema = "searchResponse" /\ Kind(JsonFieldValue(wire, "results")) # "array"
<1>4. /\ issues.warnings = (IF version THEN {"schemaVersion"} ELSE {}) \cup odd
      /\ issues.errors = IF lacking THEN {"results"} ELSE {}
  BY DEF CodecInv, JsonDecodeDiagnosticsFor
<1>5. ~version
  <2>1. CASE "schemaVersion" \in DOMAIN wire[2]
    <3>1. wire[2]["schemaVersion"] = Number(1) /\ JsonFieldValue(wire, "schemaVersion") = Number(1)
      BY <1>2, <1>3, <2>1 DEF JsonFieldValue, Contains
    <3>2. Kind(Number(1)) \in IntegerKinds
      BY DEF Kind, Number, IntegerKinds
    <3>3. 1 \in MinInt..MaxInt
      BY WidthAssumption, DefaultsAssumption DEF MinInt, MaxInt
    <3>4. JsonInt(wire, "schemaVersion", kSchemaVersion) = 1
      BY <3>1, <3>3, IntKept
    <3>5. QED
      BY <3>1, <3>2, <3>4 DEF HasInvalid, kSchemaVersion
  <2>2. CASE "schemaVersion" \notin DOMAIN wire[2]
    <3>1. JsonFieldValue(wire, "schemaVersion") = Null /\ ~IsInteger(Null)
      BY <2>2 DEF JsonFieldValue, Contains, IsInteger, Kind, Null, IntegerKinds
    <3>2. JsonInt(wire, "schemaVersion", kSchemaVersion) = kSchemaVersion
      BY <3>1 DEF JsonInt
    <3>3. QED
      BY <2>2, <3>2 DEF HasInvalid, Contains, kSchemaVersion
  <2>3. QED
    BY <2>1, <2>2
<1>6. ASSUME NEW k \in odd
      PROVE  schema = "consolidationResult" /\ k = "error"
  <2>1. k \in DOMAIN SchemaRules(schema) /\ k \in DOMAIN wire[2] /\ ~MatchesType(wire[2][k], SchemaRules(schema)[k])
    BY DEF Contains
  <2>2. CASE k = "ok"
    <3>1. SchemaRules(schema)[k] = "Boolean" /\ wire[2][k] = Bool(TRUE)
      BY <1>1, <1>2, <1>3, <2>1, <2>2, Rules
    <3>2. Kind(Bool(TRUE)) = "bool"
      BY DEF Kind, Bool
    <3>3. QED
      BY <2>1, <3>1, <3>2 DEF MatchesType
  <2>3. CASE k \in DOMAIN Fields(schema) \ NoRule(schema)
    <3>1. wire[2][k] = WriteField(Fields(schema)[k], sent[k])
      BY <1>2, <1>3, <2>1, <2>3
    <3>2. Fields(schema)[k] \in ScalarTypes \cup Nested
      BY <1>1, <2>3, Tables DEF Tabled
    <3>3. MatchesType(wire[2][k], RuleType(Fields(schema)[k]))
      BY <3>1, <3>2, WrittenMatches
    <3>4. QED
      BY <1>1, <2>1, <2>3, <3>3, Rules
  <2>4. QED
    BY <1>1, <2>1, <2>2, <2>3, Rules
<1>7. schema = "searchResponse" => (lacking <=> "results" \in altered)
  <2> SUFFICES ASSUME schema = "searchResponse" PROVE lacking <=> "results" \in altered
    OBVIOUS
  <2>1. "results" \in DOMAIN Doc /\ Doc["results"] = WriteField("hits", sent["results"])
    BY <1>3, ResultsMember
  <2>2. CASE "results" \in altered
    <3>1. JsonFieldValue(wire, "results") = Null
      BY <1>2, <2>1, <2>2 DEF JsonFieldValue, Contains
    <3>2. Kind(Null) # "array"
      BY DEF Kind, Null
    <3>3. QED
      BY <2>2, <3>1, <3>2
  <2>3. CASE "results" \notin altered
    <3>1. JsonFieldValue(wire, "results") = WriteField("hits", sent["results"])
      BY <1>2, <2>1, <2>3 DEF JsonFieldValue, Contains
    <3>2. "hits" \in ScalarTypes \cup Nested /\ "hits" \in Lists
      BY DEF Nested, Lists
    <3>3. Kind(WriteField("hits", sent["results"])) = "array"
      BY <3>2, WrittenMatches, RuleTypes DEF MatchesType
    <3>4. QED
      BY <2>3, <3>1, <3>3
  <2>4. QED
    BY <2>2, <2>3
<1> HIDE DEF version, odd
<1>8. \A k \in issues.warnings : WrongRule(k)
  BY <1>4, <1>5, <1>6 DEF WrongRule
<1>9. issues.errors = (IF schema = "searchResponse" THEN altered \cap {"results"} ELSE {})
  <2>1. CASE schema = "searchResponse"
    BY <1>4, <1>7, <2>1
  <2>2. CASE schema # "searchResponse"
    BY <1>4, <2>2
  <2>3. QED
    BY <2>1, <2>2
<1>10. QED
  BY <1>8, <1>9

\* The diagnostics raise no false alarm, whatever values the fields hold.
THEOREM AlarmsAreReal == Spec => []NoFalseAlarm
<1>1. CodecInv => NoFalseAlarm
  BY Accepted, Dropped DEF NoFalseAlarm
<1>2. QED
  BY <1>1, DocumentsKept, PTL
=============================================================================
