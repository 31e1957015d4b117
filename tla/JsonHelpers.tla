----------------------------- MODULE JsonHelpers -----------------------------
(***************************************************************************)
(* json_helpers.h: how fields of a parsed JSON value are read.  A value is *)
(* a pair of its kind and its content.  As nlohmann::json does, integers   *)
(* that are not negative are of kind "uint", negative ones of kind "int";  *)
(* an object's content is a function from its keys.  Floating-point        *)
(* numbers are counted in tenths.                                          *)
(*                                                                         *)
(* The first numbers beyond int and long long are parameters, so that a    *)
(* small instance has numbers beyond both.                                 *)
(***************************************************************************)
EXTENDS Integers, Sequences, FiniteSets

CONSTANTS IntLimit,     \* the first integer that no int has: 2^31
          LongLimit     \* the first integer that no long long has: 2^63

ASSUME WidthAssumption == IntLimit \in Nat \ {0} /\ LongLimit \in Nat /\ IntLimit < LongLimit

MinInt == -IntLimit
MaxInt == IntLimit - 1
MaxUnsigned == 2 * LongLimit - 1

\* What remains of n in the signed integer type with that limit.
Narrow(n, limit) == ((n + limit) % (2 * limit)) - limit

\* The members of f, and those of g that f does not have.
f ++ g == [k \in DOMAIN f \cup DOMAIN g |-> IF k \in DOMAIN f THEN f[k] ELSE g[k]]

\* The items of s at the positions in P, in their order.
Kept(s, P) == [k \in 1..Cardinality(P) |-> s[CHOOSE i \in P : Cardinality({j \in P : j <= i}) = k]]

Null == <<"null">>
Str(s) == <<"string", s>>
Bool(b) == <<"bool", b>>
Number(n) == IF n < 0 THEN <<"int", n>> ELSE <<"uint", n>>
Tenths(n) == <<"float", n>>
Array(s) == <<"array", s>>
Object(f) == <<"object", f>>
NoMembers == [k \in {} |-> Null]
EmptyObject == Object(NoMembers)

\* What a parsed document can be, with these strings and with items and members
\* from these values.
IsJson(j, strings, values) ==
    \/ j = Null
    \/ j = Str(j[2]) /\ j[2] \in strings
    \/ j = Bool(j[2]) /\ j[2] \in BOOLEAN
    \/ j = <<"int", j[2]>> /\ j[2] \in -LongLimit..-1
    \/ j = <<"uint", j[2]>> /\ j[2] \in 0..MaxUnsigned
    \/ j = Tenths(j[2]) /\ j[2] \in Int
    \/ j = Array(j[2]) /\ j[2] \in Seq(values)
    \/ j = Object(j[2]) /\ \A k \in DOMAIN j[2] : j[2][k] \in values

Kind(j) == j[1]
IsObject(j) == Kind(j) = "object"
IntegerKinds == {"int", "uint"}
NumberKinds == IntegerKinds \cup {"float"}
IsInteger(j) == Kind(j) \in IntegerKinds
IsNumber(j) == Kind(j) \in NumberKinds
Contains(j, key) == key \in DOMAIN j[2]

\* A missing key and a value that is no object read as null.
JsonFieldValue(j, key) == IF IsObject(j) THEN IF Contains(j, key) THEN j[2][key] ELSE Null ELSE Null

JsonString(j, key, fallback) ==
    LET v == JsonFieldValue(j, key) IN IF Kind(v) = "string" THEN v[2] ELSE fallback

JsonBool(j, key, fallback) ==
    LET v == JsonFieldValue(j, key) IN IF Kind(v) = "bool" THEN v[2] ELSE fallback

\* Mutant: the value is cut to an int, as static_cast<int> would.
JsonIntCut(j, key, fallback) ==
    LET v == JsonFieldValue(j, key) IN IF IsInteger(v) THEN Narrow(v[2], IntLimit) ELSE fallback

\* Any integer is read as long long first; one that is in the range of int
\* then is kept, also when the conversion to long long has wrapped it.
JsonInt(j, key, fallback) ==
    LET v == JsonFieldValue(j, key)
    IN  IF IsInteger(v)
        THEN IF Narrow(v[2], LongLimit) \in MinInt..MaxInt THEN Narrow(v[2], LongLimit)
             ELSE IF Kind(v) = "uint" /\ v[2] <= MaxInt THEN v[2] ELSE fallback
        ELSE fallback

\* JsonFloat and JsonDouble, in tenths.
JsonDouble(j, key, fallback) ==
    LET v == JsonFieldValue(j, key)
    IN  IF Kind(v) = "float" THEN v[2] ELSE IF IsInteger(v) THEN 10 * v[2] ELSE fallback

JsonObject(v) == IF IsObject(v) THEN v ELSE EmptyObject

\* Items that are no strings are dropped.
StringVectorFromJson(v) ==
    IF Kind(v) = "array"
    THEN LET strings == Kept(v[2], {i \in DOMAIN v[2] : Kind(v[2][i]) = "string"})
         IN  [i \in DOMAIN strings |-> strings[i][2]]
    ELSE << >>

\* Members that are no strings are dropped.
JsonStringMap(j, key) ==
    LET v == JsonObject(JsonFieldValue(j, key))[2]
    IN  [k \in {k \in DOMAIN v : Kind(v[k]) = "string"} |-> v[k][2]]

\* HasInvalidString, HasInvalidInteger, HasInvalidNumber, HasInvalidObject.
HasInvalid(j, key, kinds) == IsObject(j) /\ Contains(j, key) /\ Kind(j[2][key]) \notin kinds
=============================================================================
