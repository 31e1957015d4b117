--------------------------- MODULE ReadPathProofs ---------------------------
(***************************************************************************)
(* Proofs about ReadPath and the ranking of SearchRanking, for tables of   *)
(* every size, every limit and every request.                              *)
(***************************************************************************)
EXTENDS ReadPath, FiniteSetTheorems, TLAPS

-----------------------------------------------------------------------------
(* Ranking.                                                                *)

\* T holds n members of S, or all, and no member left out scores more.
Top(n, S, T, score) ==
    /\ T \subseteq S
    /\ Cardinality(T) = Min({n, Cardinality(S)})
    /\ \A i \in T, j \in S \ T : score[i] >= score[j]

\* The smaller and the larger of two numbers.
LEMMA MinMaxOfTwo ==
    ASSUME NEW a \in Int, NEW b \in Int
    PROVE  /\ Min({a, b}) = (IF a <= b THEN a ELSE b)
           /\ Max({a, b}) = (IF a >= b THEN a ELSE b)
<1>1. \E x \in {a, b} : \A y \in {a, b} : x =< y
  OBVIOUS
<1>2. Min({a, b}) \in {a, b} /\ \A y \in {a, b} : Min({a, b}) =< y
  BY <1>1 DEF Min
<1>3. \E x \in {a, b} : \A y \in {a, b} : x >= y
  OBVIOUS
<1>4. Max({a, b}) \in {a, b} /\ \A y \in {a, b} : Max({a, b}) >= y
  BY <1>3 DEF Max
<1>5. QED
  BY <1>2, <1>4

\* Cutting every part at n before the parts are merged leaves at least the n
\* that the merged whole would be cut to.
LEMMA EnoughFound ==
    ASSUME NEW n \in Nat \ {0}, NEW S, IsFiniteSet(S), NEW found \in SUBSET S,
           \/ found = S
           \/ \E T \in SUBSET found : Cardinality(T) = n
    PROVE  Min({n, Cardinality(found)}) = Min({n, Cardinality(S)})
<1>1. Cardinality(S) \in Nat /\ IsFiniteSet(found) /\ Cardinality(found) \in Nat
      /\ Cardinality(found) <= Cardinality(S)
  BY FS_Subset, FS_CardinalityType
<1>2. CASE found = S
  BY <1>2
<1>3. ASSUME NEW T \in SUBSET found, Cardinality(T) = n
      PROVE  Min({n, Cardinality(found)}) = Min({n, Cardinality(S)})
  <2>1. n <= Cardinality(found)
    BY <1>1, <1>3, FS_Subset
  <2>2. QED
    BY <1>1, <2>1, MinMaxOfTwo
<1>4. QED
  BY <1>2, <1>3

\* A part that lost a member to the cut is full.
LEMMA CutPartIsFull ==
    ASSUME NEW n \in Nat \ {0}, NEW S, IsFiniteSet(S), NEW T, NEW score, Top(n, S, T, score), T # S
    PROVE  Cardinality(T) = n
<1>1. Cardinality(S) \in Nat /\ IsFiniteSet(T) /\ Cardinality(T) \in Nat /\ Cardinality(T) # Cardinality(S)
  BY FS_Subset, FS_CardinalityType DEF Top
<1>2. QED
  BY <1>1, MinMaxOfTwo DEF Top

\* The merge: three parts are cut at n by an order that agrees with the score,
\* then merged, sorted by score and cut at n again.  What is left is the best
\* of everything.
LEMMA MergedTop ==
    ASSUME NEW n \in Nat \ {0}, NEW A, NEW B, NEW C, IsFiniteSet(A \cup B \cup C),
           NEW score \in [A \cup B \cup C -> Int], NEW a, NEW b, NEW c,
           Top(n, A, a, score), Top(n, B, b, score), Top(n, C, c, score),
           NEW best, Top(n, a \cup b \cup c, best, score)
    PROVE  Top(n, A \cup B \cup C, best, score)
<1> DEFINE S == A \cup B \cup C
           found == a \cup b \cup c
<1>1. IsFiniteSet(A) /\ IsFiniteSet(B) /\ IsFiniteSet(C)
  BY FS_Subset
<1>2. found \in SUBSET S /\ best \subseteq found
  BY DEF Top
<1>3. IsFiniteSet(found) /\ IsFiniteSet(best) /\ Cardinality(found) \in Nat /\ Cardinality(best) \in Nat
      /\ Cardinality(best) <= n
  <2>1. IsFiniteSet(found) /\ IsFiniteSet(best)
    BY <1>2, FS_Subset
  <2>2. Cardinality(found) \in Nat /\ Cardinality(best) \in Nat
    BY <2>1, FS_CardinalityType
  <2>3. Cardinality(best) <= n
    <3>1. Cardinality(best) = Min({n, Cardinality(found)})
      BY DEF Top
    <3>2. \A m \in Nat : Min({n, m}) = (IF n <= m THEN n ELSE m)
      BY MinMaxOfTwo
    <3>3. Min({n, Cardinality(found)}) <= n
      <4> HIDE DEF found
      <4>1. QED
        BY <2>2, <3>2
    <3>4. QED
      BY <3>1, <3>3
  <2>4. QED
    BY <2>1, <2>2, <2>3
<1>4. (a # A => Cardinality(a) = n) /\ (b # B => Cardinality(b) = n) /\ (c # C => Cardinality(c) = n)
  BY <1>1, CutPartIsFull
<1>5. Cardinality(best) = Min({n, Cardinality(S)})
  <2>1. found = S \/ \E T \in SUBSET found : Cardinality(T) = n
    BY <1>4
  <2>2. QED
    BY <1>2, <2>1, EnoughFound DEF Top
<1>6. ASSUME NEW i \in best, NEW j \in S \ best
      PROVE  score[i] >= score[j]
  <2>1. score[i] \in Int /\ score[j] \in Int
    BY <1>2, <1>6
  <2>2. CASE j \in found
    BY <1>6, <2>2 DEF Top
  <2>3. ASSUME NEW M, NEW T, IsFiniteSet(M), M \subseteq S, Top(n, M, T, score), j \in M, j \notin T,
               T \subseteq found
        PROVE  score[i] >= score[j]
    <3>1. Cardinality(T) = n
      BY <2>3, CutPartIsFull
    <3>2. CASE i \in T
      BY <2>3, <3>2 DEF Top
    <3>3. CASE i \notin T
      <4>1. PICK k \in T : k \notin best
        <5>1. SUFFICES ASSUME T \subseteq best \ {i} PROVE FALSE
          BY <3>3
        <5>2. Cardinality(best \ {i}) = Cardinality(best) - 1 /\ IsFiniteSet(best \ {i})
          BY <1>3, <1>6, FS_RemoveElement
        <5>3. Cardinality(T) <= Cardinality(best \ {i})
          BY <5>1, <5>2, FS_Subset
        <5>4. QED
          BY <1>3, <3>1, <5>2, <5>3
      <4>2. score[k] >= score[j] /\ score[i] >= score[k] /\ score[k] \in Int
        BY <1>2, <1>6, <2>3, <4>1 DEF Top
      <4>3. QED
        BY <2>1, <4>2
    <3>4. QED
      BY <3>2, <3>3
  <2>4. QED
    BY <1>1, <1>6, <2>2, <2>3
<1>7. QED
  BY <1>2, <1>5, <1>6 DEF Top

\* Rows of the long-term tables.
MemoryRow == [type : RecordTypes, sessionId : Sessions \cup {NoSession}, rank : 0..3, like : BOOLEAN,
              active : BOOLEAN, updatedAt : Nat]

Scores(rows, source) == [i \in DOMAIN rows |-> Score(rows[i], source)]

\* Of two rows of a type the one with the better raw rank scores at least as
\* much, rounding included.
LEMMA ScoreFollowsRank ==
    ASSUME NEW r \in MemoryRow, NEW s \in MemoryRow
    PROVE  /\ Score(r, "fts_bm25") \in Int /\ Score(r, "like_fallback") \in Int
           /\ r.type = s.type => Score(r, "like_fallback") = Score(s, "like_fallback")
           /\ r.type = s.type /\ r.rank >= s.rank => Score(r, "fts_bm25") >= Score(s, "fts_bm25")
<1>1. \A q \in MemoryRow :
         /\ q.rank \in {0, 1, 2, 3}
         /\ q.type \in {"summary", "entity", "relation"}
         /\ TypeWeight[q.type] \in {100, 95, 90}
         /\ FallbackScore[q.type] \in {12 * 30, 12 * 25, 12 * 20}
  BY DEF MemoryRow, RecordTypes, TypeWeight, FallbackScore
<1>2. \A w \in {100, 95, 90} :
         /\ (12 * w * 0) \div (0 + 1) = 0 /\ (12 * w * 1) \div (1 + 1) = 6 * w
         /\ (12 * w * 2) \div (2 + 1) = 8 * w /\ (12 * w * 3) \div (3 + 1) = 9 * w
  OBVIOUS
<1>3. \A q \in MemoryRow :
         /\ q.rank = 0 => FtsScore(q) = 0
         /\ q.rank = 1 => FtsScore(q) = 6 * TypeWeight[q.type]
         /\ q.rank = 2 => FtsScore(q) = 8 * TypeWeight[q.type]
         /\ q.rank = 3 => FtsScore(q) = 9 * TypeWeight[q.type]
  BY <1>1, <1>2 DEF FtsScore
<1>4. \A w \in {100, 95, 90} : {0, 6 * w, 8 * w, 9 * w} \subseteq Int /\ 0 <= 6 * w /\ 6 * w <= 8 * w /\ 8 * w <= 9 * w
  OBVIOUS
<1>5. FtsScore(r) \in Int /\ (r.type = s.type /\ r.rank >= s.rank => FtsScore(r) >= FtsScore(s))
  BY <1>1, <1>3, <1>4
<1>6. QED
  BY <1>1, <1>5 DEF Score

\* What one FTS statement returns is the best of its matches.
LEMMA FtsPartTop ==
    ASSUME NEW rows \in Seq(MemoryRow), NEW sessionId, NEW n, NEW type,
           NEW T \in FtsQuery(rows, sessionId, n, type)
    PROVE  Top(n, FtsMatches(rows, sessionId, type), T, Scores(rows, "fts_bm25"))
<1>1. \A i \in FtsMatches(rows, sessionId, type) :
         i \in DOMAIN rows /\ rows[i] \in MemoryRow /\ rows[i].type = type
  BY DEF FtsMatches, Visible
<1>2. /\ T \subseteq FtsMatches(rows, sessionId, type)
      /\ Cardinality(T) = Min({n, Cardinality(FtsMatches(rows, sessionId, type))})
      /\ \A i \in T, j \in FtsMatches(rows, sessionId, type) \ T : ~(rows[j].rank > rows[i].rank)
  BY DEF FtsQuery, First, kSubset
<1>3. \A i \in T, j \in FtsMatches(rows, sessionId, type) \ T : rows[i].rank >= rows[j].rank
  BY <1>1, <1>2 DEF MemoryRow
<1>4. QED
  BY <1>1, <1>2, <1>3, ScoreFollowsRank DEF Top, Scores

\* What one LIKE statement returns is as good as any of its matches.
LEMMA LikePartTop ==
    ASSUME NEW rows \in Seq(MemoryRow), NEW sessionId, NEW n, NEW type,
           NEW T \in LikeQuery(rows, sessionId, n, type)
    PROVE  Top(n, LikeMatches(rows, sessionId, type), T, Scores(rows, "like_fallback"))
<1>1. \A i \in LikeMatches(rows, sessionId, type) :
         i \in DOMAIN rows /\ rows[i] \in MemoryRow /\ rows[i].type = type
  BY DEF LikeMatches, Visible
<1>2. /\ T \subseteq LikeMatches(rows, sessionId, type)
      /\ Cardinality(T) = Min({n, Cardinality(LikeMatches(rows, sessionId, type))})
  BY DEF LikeQuery, First, kSubset
<1>3. \A i, j \in LikeMatches(rows, sessionId, type) :
         Score(rows[i], "like_fallback") >= Score(rows[j], "like_fallback")
  BY <1>1, ScoreFollowsRank
<1>4. QED
  BY <1>1, <1>2, <1>3 DEF Top, Scores

\* SortAndLimitSearchResults keeps the best.
LEMMA SortedTop ==
    ASSUME NEW rows \in Seq(MemoryRow), NEW n, NEW source \in {"fts_bm25", "like_fallback"},
           NEW found \in SUBSET DOMAIN rows, NEW T \in SortAndLimit(rows, n, source, found)
    PROVE  Top(n, found, T, Scores(rows, source))
<1>1. \A i \in found : Score(rows[i], source) \in Int /\ Scores(rows, source)[i] = Score(rows[i], source)
  <2>1. \A i \in found : rows[i] \in MemoryRow
    OBVIOUS
  <2>2. QED
    BY <2>1, ScoreFollowsRank DEF Scores
<1>2. /\ T \subseteq found /\ Cardinality(T) = Min({n, Cardinality(found)})
      /\ \A i \in T, j \in found \ T : ~(Score(rows[j], source) > Score(rows[i], source))
  BY DEF SortAndLimit, First, kSubset
<1>3. \A i \in T, j \in found \ T : Scores(rows, source)[i] >= Scores(rows, source)[j]
  BY <1>1, <1>2
<1>4. QED
  BY <1>2, <1>3 DEF Top

\* The merged answer of three statements of one kind is the best of what they
\* match together.
LEMMA MergedBest ==
    ASSUME NEW rows \in Seq(MemoryRow), NEW n \in Nat \ {0},
           NEW source \in {"fts_bm25", "like_fallback"},
           NEW A, NEW B, NEW C, A \cup B \cup C \subseteq DOMAIN rows, NEW a, NEW b, NEW c,
           Top(n, A, a, Scores(rows, source)), Top(n, B, b, Scores(rows, source)),
           Top(n, C, c, Scores(rows, source)),
           NEW best \in SortAndLimit(rows, n, source, a \cup b \cup c)
    PROVE  BestOf(rows, n, A \cup B \cup C, source, best)
<1> DEFINE S == A \cup B \cup C
           score == [i \in S |-> Score(rows[i], source)]
<1>1. IsFiniteSet(S)
  <2>1. DOMAIN rows = 1..Len(rows) /\ Len(rows) \in Nat
    OBVIOUS
  <2>2. IsFiniteSet(DOMAIN rows)
    BY <2>1, FS_Interval
  <2>3. QED
    BY <2>2, FS_Subset
<1>2. a \subseteq A /\ b \subseteq B /\ c \subseteq C
  BY DEF Top
<1>3. Top(n, a \cup b \cup c, best, Scores(rows, source))
  BY <1>2, SortedTop
<1>4. best \subseteq S
  BY <1>2, <1>3 DEF Top
<1>5. \A i \in S : score[i] = Scores(rows, source)[i] /\ score[i] \in Int
  <2>1. \A i \in S : rows[i] \in MemoryRow /\ i \in DOMAIN rows
    OBVIOUS
  <2>2. QED
    BY <2>1, ScoreFollowsRank DEF Scores
<1>6. score \in [S -> Int]
  BY <1>5
<1>7. Top(n, A, a, score) /\ Top(n, B, b, score) /\ Top(n, C, c, score) /\ Top(n, a \cup b \cup c, best, score)
  <2> HIDE DEF score
  <2>1. QED
    BY <1>2, <1>3, <1>5 DEF Top
<1>8. Top(n, S, best, score)
  <2> HIDE DEF score
  <2>1. QED
    BY <1>1, <1>6, <1>7, MergedTop
<1>9. QED
  BY <1>8 DEF Top, BestOf

\* The limit a search works with.
Wanted(limit) == IF limit > 0 THEN limit ELSE 10

\* All the rows of the three tables that FTS5, or LIKE, matches.
AllMatches(Matches(_, _, _), rows, sessionId) ==
    UNION {Matches(rows, sessionId, type) : type \in RecordTypes}

\* A search returns the best of all FTS matches or the best of all LIKE matches.
LEMMA SearchIsBest ==
    ASSUME NEW rows \in Seq(MemoryRow), NEW sessionId, NEW limit \in Int, NEW ftsFailed \in BOOLEAN,
           NEW best \in SearchLongTermMemory(rows, sessionId, limit, ftsFailed)
    PROVE  \/ BestOf(rows, Wanted(limit), AllMatches(FtsMatches, rows, sessionId), "fts_bm25", best)
           \/ BestOf(rows, Wanted(limit), AllMatches(LikeMatches, rows, sessionId), "like_fallback", best)
<1> DEFINE n == Wanted(limit)
<1>1. n \in Nat \ {0}
  BY DEF Wanted
<1> HIDE DEF n
<1>2. \A type : FtsMatches(rows, sessionId, type) \subseteq DOMAIN rows
                 /\ LikeMatches(rows, sessionId, type) \subseteq DOMAIN rows
  BY DEF FtsMatches, LikeMatches, Visible
<1>3. /\ AllMatches(FtsMatches, rows, sessionId) =
            FtsMatches(rows, sessionId, "summary") \cup FtsMatches(rows, sessionId, "entity")
               \cup FtsMatches(rows, sessionId, "relation")
      /\ AllMatches(LikeMatches, rows, sessionId) =
            LikeMatches(rows, sessionId, "summary") \cup LikeMatches(rows, sessionId, "entity")
               \cup LikeMatches(rows, sessionId, "relation")
  BY DEF AllMatches, RecordTypes
<1>4. \/ \E a \in FtsQuery(rows, sessionId, n, "summary"), b \in FtsQuery(rows, sessionId, n, "entity"),
           c \in FtsQuery(rows, sessionId, n, "relation") :
              best \in SortAndLimit(rows, n, "fts_bm25", a \cup b \cup c)
      \/ \E a \in LikeQuery(rows, sessionId, n, "summary"), b \in LikeQuery(rows, sessionId, n, "entity"),
           c \in LikeQuery(rows, sessionId, n, "relation") :
              best \in SortAndLimit(rows, n, "like_fallback", a \cup b \cup c)
  <2> DEFINE fts == Collect(LAMBDA type : FtsQuery(rows, sessionId, n, type))
             like == Collect(LAMBDA type : LikeQuery(rows, sessionId, n, type))
  <2>1. PICK found \in IF ftsFailed THEN {{}} ELSE fts :
           best \in IF found # {} THEN SortAndLimit(rows, n, "fts_bm25", found)
                   ELSE UNION {SortAndLimit(rows, n, "like_fallback", other) : other \in like}
    <3> HIDE DEF fts, like
    <3>1. SearchLongTermMemory(rows, sessionId, limit, ftsFailed) =
             UNION {IF found # {} THEN SortAndLimit(rows, n, "fts_bm25", found)
                    ELSE UNION {SortAndLimit(rows, n, "like_fallback", other) : other \in like} :
                    found \in IF ftsFailed THEN {{}} ELSE fts}
      BY DEF SearchLongTermMemory, n, Wanted, fts, like
    <3>2. QED
      BY <3>1
  <2>2. CASE found # {}
    <3>1. found \in fts /\ best \in SortAndLimit(rows, n, "fts_bm25", found)
      BY <2>1, <2>2
    <3>2. PICK a \in FtsQuery(rows, sessionId, n, "summary"), b \in FtsQuery(rows, sessionId, n, "entity"),
               c \in FtsQuery(rows, sessionId, n, "relation") : found = a \cup b \cup c
      BY <3>1 DEF Collect
    <3>3. QED
      BY <3>1, <3>2
  <2>3. CASE found = {}
    <3>1. PICK other \in like : best \in SortAndLimit(rows, n, "like_fallback", other)
      BY <2>1, <2>3
    <3>2. PICK a \in LikeQuery(rows, sessionId, n, "summary"), b \in LikeQuery(rows, sessionId, n, "entity"),
               c \in LikeQuery(rows, sessionId, n, "relation") : other = a \cup b \cup c
      BY <3>1 DEF Collect
    <3>3. QED
      BY <3>1, <3>2
  <2>4. QED
    BY <2>2, <2>3
<1>5. ASSUME NEW a \in FtsQuery(rows, sessionId, n, "summary"), NEW b \in FtsQuery(rows, sessionId, n, "entity"),
             NEW c \in FtsQuery(rows, sessionId, n, "relation"),
             best \in SortAndLimit(rows, n, "fts_bm25", a \cup b \cup c)
      PROVE  BestOf(rows, n, AllMatches(FtsMatches, rows, sessionId), "fts_bm25", best)
  <2>1. /\ Top(n, FtsMatches(rows, sessionId, "summary"), a, Scores(rows, "fts_bm25"))
        /\ Top(n, FtsMatches(rows, sessionId, "entity"), b, Scores(rows, "fts_bm25"))
        /\ Top(n, FtsMatches(rows, sessionId, "relation"), c, Scores(rows, "fts_bm25"))
    BY FtsPartTop
  <2>2. QED
    BY <1>1, <1>2, <1>3, <1>5, <2>1, MergedBest
<1>6. ASSUME NEW a \in LikeQuery(rows, sessionId, n, "summary"), NEW b \in LikeQuery(rows, sessionId, n, "entity"),
             NEW c \in LikeQuery(rows, sessionId, n, "relation"),
             best \in SortAndLimit(rows, n, "like_fallback", a \cup b \cup c)
      PROVE  BestOf(rows, n, AllMatches(LikeMatches, rows, sessionId), "like_fallback", best)
  <2>1. /\ Top(n, LikeMatches(rows, sessionId, "summary"), a, Scores(rows, "like_fallback"))
        /\ Top(n, LikeMatches(rows, sessionId, "entity"), b, Scores(rows, "like_fallback"))
        /\ Top(n, LikeMatches(rows, sessionId, "relation"), c, Scores(rows, "like_fallback"))
    BY LikePartTop
  <2>2. QED
    BY <1>1, <1>2, <1>3, <1>6, <2>1, MergedBest
<1>7. QED
  BY <1>4, <1>5, <1>6 DEF n

-----------------------------------------------------------------------------
(* The invariant.                                                          *)

EventRow == [sessionId : Sessions, type : {Message, "TOOL_CALL_FINISHED"}, payloadRef : 0..MaxPayloads]
PayloadRow == [sessionId : Sessions, matches : BOOLEAN]

\* The tables; an event refers to a payload that is in its table, and no row is
\* from the future.
TablesOK ==
    /\ events \in Seq(EventRow) /\ payloads \in Seq(PayloadRow) /\ memory \in Seq(MemoryRow)
    /\ now \in Nat /\ storeUp \in BOOLEAN
    /\ \A i \in 1..Len(memory) : memory[i].updatedAt <= now
    /\ \A i \in 1..Len(events) : events[i].payloadRef <= Len(payloads)

Packages == [messages : SUBSET (1..Len(events)), text : SUBSET (1..Len(memory)),
             structured : SUBSET (1..Len(memory)), payloadRefs : SUBSET (1..Len(payloads))]

ContextRequests == [sessionId : Sessions \cup {NoSession}, query : BOOLEAN, includeSections : SUBSET Sections,
                    tokenBudget : Int, messageLimit : Int, payloadLimit : Int, longTermLimit : Int]

Building == pc \in {"messages", "search", "snapshot", "payloads"}

\* The call: it names rows that exist; while a package is built, and as long as
\* it is the last answer, the request is one of a caller and the lengths at the
\* start are not above those of now.
CallOK ==
    /\ pc \in {"idle", "messages", "search", "snapshot", "payloads", "answer"}
    /\ result \in {"none", "ok", "error"}
    /\ hits \subseteq 1..Len(memory)
    /\ package \in Packages
    /\ request \in ContextRequests
    /\ pc # "idle" => result = "none"
    /\ Building \/ result = "ok" =>
          request \in Requests /\ began \in [events : 0..Len(events), payloads : 0..Len(payloads)]
    /\ package.messages # {} => storeUp

\* Once the messages are read, the acknowledged ones that are still recent are
\* in the package.
MessagesOK ==
    /\ pc \in {"search", "snapshot", "payloads"} /\ storeUp /\ ShouldInclude(request, "messages")
    => \A i \in 1..began.events :
          StillRecent(events, request.sessionId, request.messageLimit, i) /\ events[i].type = Message
          => i \in package.messages

ReadInv == TablesOK /\ CallOK /\ MessagesOK /\ ReferencedPayloadListed

-----------------------------------------------------------------------------
(* Recent rows.                                                            *)

Grows(old, new) ==
    /\ Len(old) \in Nat /\ Len(new) \in Nat /\ Len(old) <= Len(new)
    /\ \A i \in 1..Len(old) : new[i] = old[i]

\* Appending keeps the rows that are there.
LEMMA AppendGrows ==
    ASSUME NEW S, NEW rows \in Seq(S), NEW e \in S
    PROVE  /\ Append(rows, e) \in Seq(S) /\ Grows(rows, Append(rows, e)) /\ Grows(rows, rows)
           /\ Len(Append(rows, e)) = Len(rows) + 1 /\ Append(rows, e)[Len(rows) + 1] = e
           /\ DOMAIN rows = 1..Len(rows)
BY DEF Grows

\* As its table grows a row may stop being recent, and never becomes it again.
LEMMA RecentShrinks ==
    ASSUME NEW old, NEW new, Grows(old, new), NEW sessionId, NEW n \in Int, NEW i \in 1..Len(old),
           StillRecent(new, sessionId, n, i)
    PROVE  StillRecent(old, sessionId, n, i)
<1> DEFINE A == {j \in i..Len(old) : InSession(old[j], sessionId)}
           B == {j \in i..Len(new) : InSession(new[j], sessionId)}
<1>1. A \subseteq B
  BY DEF Grows
<1>2. IsFiniteSet(B)
  <2>1. IsFiniteSet(i..Len(new))
    BY FS_Interval DEF Grows
  <2>2. QED
    BY <2>1, FS_Subset
<1>3. Cardinality(A) \in Nat /\ Cardinality(B) \in Nat /\ Cardinality(A) <= Cardinality(B)
  BY <1>1, <1>2, FS_Subset, FS_CardinalityType
<1>4. InSession(old[i], sessionId) /\ Cardinality(B) <= n
  BY DEF StillRecent, Grows
<1>5. QED
  BY <1>3, <1>4 DEF StillRecent

\* ORDER BY id DESC LIMIT n finds the rows that are recent.
LEMMA RecentIsLoaded ==
    ASSUME NEW rows, Len(rows) \in Nat, DOMAIN rows = 1..Len(rows), NEW sessionId, NEW n \in Int,
           NEW i \in 1..Len(rows), StillRecent(rows, sessionId, n, i)
    PROVE  /\ n > 0
           /\ InSession(rows[i], sessionId)
           /\ Cardinality({j \in {k \in DOMAIN rows : InSession(rows[k], sessionId)} : j > i}) < n
<1> DEFINE A == {j \in {k \in DOMAIN rows : InSession(rows[k], sessionId)} : j > i}
           B == {j \in i..Len(rows) : InSession(rows[j], sessionId)}
<1>1. B = A \cup {i} /\ i \notin A
  BY DEF StillRecent
<1>2. IsFiniteSet(A)
  <2>1. IsFiniteSet(1..Len(rows)) /\ A \subseteq 1..Len(rows)
    BY FS_Interval
  <2>2. QED
    BY <2>1, FS_Subset
<1>3. Cardinality(B) = Cardinality(A) + 1 /\ Cardinality(A) \in Nat
  BY <1>1, <1>2, FS_AddElement, FS_CardinalityType
<1>4. Cardinality(B) <= n /\ InSession(rows[i], sessionId)
  BY DEF StillRecent
<1>5. QED
  BY <1>3, <1>4

-----------------------------------------------------------------------------
(* Every step keeps the invariant.                                         *)

\* A step of a writer leaves the call alone.
LEMMA WriterKeepsCall ==
    ASSUME ReadInv, TablesOK', UNCHANGED <<storeUp, pc, request, hits, package, result, began>>,
           Grows(events, events'), Grows(payloads, payloads'), Len(memory) <= Len(memory')
    PROVE  ReadInv'
<1>0. TablesOK /\ CallOK /\ MessagesOK /\ ReferencedPayloadListed
  BY DEF ReadInv
<1>1. /\ Len(events) \in Nat /\ Len(events') \in Nat /\ Len(payloads) \in Nat /\ Len(payloads') \in Nat
      /\ Len(memory) \in Nat /\ Len(memory') \in Nat
      /\ Len(events) <= Len(events') /\ Len(payloads) <= Len(payloads')
  BY <1>0 DEF Grows, TablesOK
<1>2. CallOK'
  <2>1. 1..Len(events) \subseteq 1..Len(events') /\ 1..Len(payloads) \subseteq 1..Len(payloads')
        /\ 1..Len(memory) \subseteq 1..Len(memory')
        /\ 0..Len(events) \subseteq 0..Len(events') /\ 0..Len(payloads) \subseteq 0..Len(payloads')
    BY <1>1
  <2>2. package' \in Packages'
    BY <1>0, <2>1 DEF CallOK, Packages
  <2>3. QED
    BY <1>0, <2>1, <2>2 DEF CallOK, Building
<1>3. Building \/ result = "ok" =>
         /\ request.messageLimit \in Int /\ request.payloadLimit \in Int
         /\ began.events \in Nat /\ began.events <= Len(events)
  BY <1>0, <1>1 DEF CallOK, ContextRequests
<1>4. MessagesOK'
  <2>1. SUFFICES ASSUME pc \in {"search", "snapshot", "payloads"}, storeUp, ShouldInclude(request, "messages"),
                        NEW i \in 1..began.events,
                        StillRecent(events', request.sessionId, request.messageLimit, i),
                        events'[i].type = Message
                 PROVE  i \in package.messages
    BY DEF MessagesOK, ShouldInclude, StillRecent, InSession
  <2>2. i \in 1..Len(events) /\ request.messageLimit \in Int
    BY <1>1, <1>3, <2>1 DEF Building
  <2>3. StillRecent(events, request.sessionId, request.messageLimit, i) /\ events[i].type = Message
    BY <2>1, <2>2, RecentShrinks DEF Grows
  <2>4. QED
    BY <1>0, <2>1, <2>3 DEF MessagesOK
<1>5. ReferencedPayloadListed'
  <2>1. SUFFICES ASSUME result = "ok", pc = "idle", request.includeSections = {}, ~request.query,
                        NEW i \in package.messages, events'[i].payloadRef # 0,
                        StillRecent(payloads', request.sessionId, request.payloadLimit, events'[i].payloadRef)
                 PROVE  events'[i].payloadRef \in package.payloadRefs
    BY DEF ReferencedPayloadListed, StillRecent, InSession
  <2>2. i \in 1..Len(events)
    BY <1>0, <2>1 DEF CallOK, Packages
  <2>3. events'[i] = events[i] /\ events[i] \in EventRow
    BY <1>0, <2>2 DEF Grows, TablesOK
  <2>4. events[i].payloadRef \in 1..Len(payloads)
    BY <1>0, <1>1, <2>1, <2>2, <2>3 DEF TablesOK, EventRow
  <2>5. StillRecent(payloads, request.sessionId, request.payloadLimit, events[i].payloadRef)
    BY <1>3, <2>1, <2>3, <2>4, RecentShrinks
  <2>6. QED
    BY <1>0, <2>1, <2>3, <2>5 DEF ReferencedPayloadListed
<1>6. QED
  BY <1>2, <1>4, <1>5 DEF ReadInv

\* What a writer commits.
LEMMA WriteSteps ==
    ASSUME ReadInv, Write
    PROVE  ReadInv'
<1>0. TablesOK
  BY DEF ReadInv
<1>1. /\ Grows(events, events) /\ Grows(payloads, payloads)
      /\ Len(events) \in Nat /\ Len(payloads) \in Nat /\ Len(memory) \in Nat
      /\ DOMAIN memory = 1..Len(memory)
  BY <1>0 DEF TablesOK, Grows
<1>2. ASSUME NEW s \in Sessions, NEW type \in {Message, "TOOL_CALL_FINISHED"}, NEW p \in 0..MaxPayloads,
             AppendEvent(s, type, p)
      PROVE  ReadInv'
  <2> DEFINE e == [sessionId |-> s, type |-> type, payloadRef |-> p]
  <2>1. e \in EventRow /\ p <= Len(payloads) /\ e.payloadRef = p
    BY <1>1, <1>2 DEF EventRow, AppendEvent
  <2>2. events' = Append(events, e) /\ UNCHANGED <<payloads, memory, now, storeUp, pc, request, hits, package, result, began>>
    BY <1>2 DEF AppendEvent
  <2> HIDE DEF e
  <2>3. /\ Grows(events, events') /\ events' \in Seq(EventRow) /\ Len(events') = Len(events) + 1
        /\ events'[Len(events) + 1] = e
    BY <1>0, <2>1, <2>2, AppendGrows DEF TablesOK
  <2>4. \A i \in 1..Len(events') : events'[i].payloadRef <= Len(payloads)
    <3>1. \A i \in 1..Len(events') : i \in 1..Len(events) \/ i = Len(events) + 1
      BY <1>1, <2>3
    <3>2. QED
      BY <1>0, <2>1, <2>3, <3>1 DEF TablesOK, Grows
  <2>5. TablesOK'
    BY <1>0, <2>2, <2>3, <2>4 DEF TablesOK
  <2>6. QED
    BY <1>1, <2>2, <2>3, <2>5, WriterKeepsCall
<1>3. ASSUME NEW s \in Sessions, NEW matches \in BOOLEAN, SavePayload(s, matches)
      PROVE  ReadInv'
  <2> DEFINE e == [sessionId |-> s, matches |-> matches]
  <2>1. e \in PayloadRow
    BY DEF PayloadRow
  <2>2. payloads' = Append(payloads, e) /\ UNCHANGED <<events, memory, now, storeUp, pc, request, hits, package, result, began>>
    BY <1>3 DEF SavePayload
  <2> HIDE DEF e
  <2>3. Grows(payloads, payloads') /\ payloads' \in Seq(PayloadRow) /\ Len(payloads') = Len(payloads) + 1
    BY <1>0, <2>1, <2>2, AppendGrows DEF TablesOK
  <2>4. \A i \in 1..Len(events) : events[i].payloadRef <= Len(payloads')
    <3>1. \A i \in 1..Len(events) : events[i].payloadRef \in Int
      <4>1. \A i \in 1..Len(events) : events[i] \in EventRow
        BY <1>0 DEF TablesOK
      <4>2. QED
        BY <4>1 DEF EventRow
    <3>2. QED
      BY <1>0, <1>1, <2>3, <3>1 DEF TablesOK
  <2>5. TablesOK'
    BY <1>0, <2>2, <2>3, <2>4 DEF TablesOK
  <2>6. QED
    BY <1>1, <2>2, <2>3, <2>5, WriterKeepsCall
<1>4. \A record \in Records : Row(record) \in MemoryRow /\ Row(record).updatedAt = now
  BY <1>0, RecordsAssumption DEF Row, MemoryRow, TablesOK
<1>5. ASSUME memory' \in Seq(MemoryRow), \A i \in 1..Len(memory') : memory'[i].updatedAt <= now,
             Len(memory) <= Len(memory'),
             UNCHANGED <<events, payloads, now, storeUp, pc, request, hits, package, result, began>>
      PROVE  ReadInv'
  <2>1. TablesOK'
    BY <1>0, <1>5 DEF TablesOK
  <2>2. QED
    BY <1>1, <1>5, <2>1, WriterKeepsCall
<1>6. ASSUME NEW record \in Records, SaveRecord(record)
      PROVE  ReadInv'
  <2> DEFINE e == Row(record)
  <2> HIDE DEF e
  <2>1. e \in MemoryRow /\ e.updatedAt = now
    BY <1>4 DEF e
  <2>2. memory' = Append(memory, e) /\ UNCHANGED <<events, payloads, now, storeUp, pc, request, hits, package, result, began>>
    BY <1>6 DEF SaveRecord, e
  <2>3. memory' \in Seq(MemoryRow) /\ Len(memory') = Len(memory) + 1 /\ memory'[Len(memory) + 1] = e
        /\ \A i \in 1..Len(memory) : memory'[i] = memory[i]
    BY <1>0, <2>1, <2>2, AppendGrows DEF TablesOK, Grows
  <2>4. \A i \in 1..Len(memory') : memory'[i].updatedAt <= now
    <3>1. \A i \in 1..Len(memory') : i \in 1..Len(memory) \/ i = Len(memory) + 1
      BY <1>1, <2>3
    <3>2. now <= now
      BY <1>0 DEF TablesOK
    <3>3. QED
      BY <1>0, <2>1, <2>3, <3>1, <3>2 DEF TablesOK
  <2>5. QED
    BY <1>1, <1>5, <2>2, <2>3, <2>4
<1>7. ASSUME NEW i \in DOMAIN memory, NEW e \in MemoryRow, e.updatedAt = now,
             memory' = [memory EXCEPT ![i] = e],
             UNCHANGED <<events, payloads, now, storeUp, pc, request, hits, package, result, began>>
      PROVE  ReadInv'
  <2>1. memory' \in Seq(MemoryRow) /\ Len(memory') = Len(memory)
        /\ \A k \in 1..Len(memory) : memory'[k] = e \/ memory'[k] = memory[k]
    BY <1>0, <1>7 DEF TablesOK
  <2>2. now <= now
    BY <1>0 DEF TablesOK
  <2>3. \A k \in 1..Len(memory') : memory'[k].updatedAt <= now
    BY <1>0, <1>7, <2>1, <2>2 DEF TablesOK
  <2>4. QED
    BY <1>1, <1>5, <1>7, <2>1, <2>3
<1>8. ASSUME NEW i \in DOMAIN memory, NEW record \in Records, ResaveEntity(i, record)
      PROVE  ReadInv'
  BY <1>4, <1>7, <1>8 DEF ResaveEntity
<1>9. ASSUME NEW i \in DOMAIN memory, Retire(i)
      PROVE  ReadInv'
  <2> DEFINE e == [memory[i] EXCEPT !.active = FALSE, !.updatedAt = now]
  <2>1. memory[i] \in MemoryRow /\ now \in Nat
    BY <1>0, <1>1 DEF TablesOK
  <2>2. e \in MemoryRow /\ e.updatedAt = now
    <3>1. PICK q \in MemoryRow : q = [memory[i] EXCEPT !.active = FALSE]
      BY <2>1 DEF MemoryRow
    <3>2. [q EXCEPT !.updatedAt = now] \in MemoryRow /\ [q EXCEPT !.updatedAt = now].updatedAt = now
      BY <2>1, <3>1 DEF MemoryRow
    <3>3. QED
      BY <3>1, <3>2
  <2>3. memory' = [memory EXCEPT ![i] = e]
        /\ UNCHANGED <<events, payloads, now, storeUp, pc, request, hits, package, result, began>>
    BY <1>9 DEF Retire
  <2> HIDE DEF e
  <2>4. QED
    BY <1>7, <2>2, <2>3
<1>10. CASE Tick
  <2>1. now' \in Nat /\ \A i \in 1..Len(memory) : memory[i].updatedAt <= now'
    <3>1. \A i \in 1..Len(memory) : memory[i].updatedAt \in Nat /\ memory[i].updatedAt <= now
      <4>1. \A i \in 1..Len(memory) : memory[i] \in MemoryRow
        BY <1>0 DEF TablesOK
      <4>2. QED
        BY <1>0, <4>1 DEF MemoryRow, TablesOK
    <3>2. QED
      BY <1>0, <1>10, <3>1 DEF Tick, TablesOK
  <2>2. TablesOK'
    BY <1>0, <1>10, <2>1 DEF Tick, TablesOK
  <2>3. QED
    BY <1>1, <1>10, <2>2, WriterKeepsCall DEF Tick
<1>11. QED
  BY <1>2, <1>3, <1>6, <1>8, <1>9, <1>10 DEF Write

\* The request before the first call is one, too.
LEMMA AnyRequestIsOne == Requests \subseteq ContextRequests /\ AnyRequest \in ContextRequests
BY RequestsAssumption DEF AnyRequest, ContextRequests

\* The limit of a request is a number, and what a search or a snapshot returns
\* are rows.
LEMMA LimitIsInt ==
    ASSUME NEW req \in Requests
    PROVE  LongTermMemoryLimit(req) \in Int
<1> DEFINE budget == IF req.tokenBudget > 0 THEN req.tokenBudget ELSE ConfigBudget
<1>1. budget \in Int /\ req.longTermLimit \in Int
  BY AnyRequestIsOne, BudgetAssumption DEF ContextRequests
<1> HIDE DEF budget
<1>2. budget \div 200 \in Int
  BY <1>1
<1>3. ASSUME NEW b \in Int
      PROVE  Min({50, b}) \in Int /\ Max({1, b}) \in Int
  <2>1. 50 \in Int /\ 1 \in Int
    OBVIOUS
  <2>2. Min({50, b}) = (IF 50 <= b THEN 50 ELSE b) /\ Max({1, b}) = (IF 1 >= b THEN 1 ELSE b)
    BY ONLY <2>1, b \in Int, MinMaxOfTwo
  <2>3. QED
    BY <2>2
<1>4. Max({1, Min({50, budget \div 200})}) \in Int
  BY <1>2, <1>3
<1>5. LongTermMemoryLimit(req) = IF req.longTermLimit >= 0 THEN req.longTermLimit
                                 ELSE IF budget <= 0 THEN 20 ELSE Max({1, Min({50, budget \div 200})})
  BY DEF LongTermMemoryLimit, budget
<1>6. QED
  BY <1>1, <1>4, <1>5

\* See LimitIsInt.
LEMMA FoundAreRows ==
    ASSUME NEW rows \in Seq(MemoryRow), NEW sessionId, NEW limit \in Int
    PROVE  /\ \A ftsFailed \in BOOLEAN : \A best \in SearchLongTermMemory(rows, sessionId, limit, ftsFailed) :
                 best \subseteq 1..Len(rows)
           /\ \A found \in LoadLongTermMemory(rows, sessionId, limit) : found \subseteq 1..Len(rows)
<1>1. DOMAIN rows = 1..Len(rows)
  OBVIOUS
<1>2. AllMatches(FtsMatches, rows, sessionId) \subseteq DOMAIN rows
      /\ AllMatches(LikeMatches, rows, sessionId) \subseteq DOMAIN rows
  BY DEF AllMatches, FtsMatches, LikeMatches, Visible
<1>3. ASSUME NEW ftsFailed \in BOOLEAN, NEW best \in SearchLongTermMemory(rows, sessionId, limit, ftsFailed)
      PROVE  best \subseteq 1..Len(rows)
  BY <1>1, <1>2, SearchIsBest DEF BestOf
<1>4. ASSUME NEW found \in LoadLongTermMemory(rows, sessionId, limit)
      PROVE  found \subseteq 1..Len(rows)
  <2>1. \A type : Visible(rows, sessionId, type) \subseteq DOMAIN rows
    BY DEF Visible
  <2>2. found \subseteq DOMAIN rows
    BY <2>1 DEF LoadLongTermMemory, Collect, First, kSubset
  <2>3. QED
    BY <1>1, <2>2
<1>5. QED
  BY <1>3, <1>4

\* What LoadMessagesForContext and LoadPayloadsForContext return.
LEMMA MessagesLoaded ==
    ASSUME TablesOK, NEW req \in Requests
    PROVE  /\ LoadMessagesForContext(req) \subseteq 1..Len(events)
           /\ LoadMessagesForContext(req) # {} => storeUp
           /\ storeUp /\ ShouldInclude(req, "messages") =>
                 \A i \in 1..Len(events) :
                     StillRecent(events, req.sessionId, req.messageLimit, i) /\ events[i].type = Message
                     => i \in LoadMessagesForContext(req)
<1>1. Len(events) \in Nat /\ DOMAIN events = 1..Len(events)
  BY DEF TablesOK
<1>2. req.messageLimit \in Int
  BY AnyRequestIsOne DEF ContextRequests
<1>3. LoadMessagesForContext(req) \subseteq 1..Len(events) /\ (LoadMessagesForContext(req) # {} => storeUp)
  BY <1>1 DEF LoadMessagesForContext, LoadRecentEvents
<1>4. ASSUME storeUp, ShouldInclude(req, "messages"), NEW i \in 1..Len(events),
             StillRecent(events, req.sessionId, req.messageLimit, i), events[i].type = Message
      PROVE  i \in LoadMessagesForContext(req)
  <2>1. /\ req.messageLimit > 0 /\ InSession(events[i], req.sessionId)
        /\ Cardinality({j \in {k \in DOMAIN events : InSession(events[k], req.sessionId)} : j > i})
              < req.messageLimit
    BY <1>1, <1>2, <1>4, RecentIsLoaded
  <2>2. i \in LoadRecentEvents(req, req.messageLimit)
    BY <1>1, <2>1 DEF LoadRecentEvents
  <2>3. QED
    BY <1>4, <2>1, <2>2 DEF LoadMessagesForContext
<1>5. QED
  BY <1>3, <1>4

\* See MessagesLoaded.
LEMMA PayloadsLoaded ==
    ASSUME TablesOK, NEW req \in Requests
    PROVE  /\ LoadPayloadsForContext(req) \subseteq 1..Len(payloads)
           /\ storeUp /\ ShouldInclude(req, "payloads") /\ ~req.query =>
                 \A p \in 1..Len(payloads) :
                     StillRecent(payloads, req.sessionId, req.payloadLimit, p)
                     => p \in LoadPayloadsForContext(req)
<1>1. Len(payloads) \in Nat /\ DOMAIN payloads = 1..Len(payloads)
  BY DEF TablesOK
<1>2. req.payloadLimit \in Int
  BY AnyRequestIsOne DEF ContextRequests
<1>3. LoadPayloadsForContext(req) \subseteq 1..Len(payloads)
  BY <1>1 DEF LoadPayloadsForContext, LoadRecentPayloads
<1>4. ASSUME storeUp, ShouldInclude(req, "payloads"), ~req.query, NEW p \in 1..Len(payloads),
             StillRecent(payloads, req.sessionId, req.payloadLimit, p)
      PROVE  p \in LoadPayloadsForContext(req)
  <2>1. /\ req.payloadLimit > 0 /\ InSession(payloads[p], req.sessionId)
        /\ Cardinality({j \in {k \in DOMAIN payloads : InSession(payloads[k], req.sessionId)} : j > p})
              < req.payloadLimit
    BY <1>1, <1>2, <1>4, RecentIsLoaded
  <2>2. p \in LoadRecentPayloads(req, req.payloadLimit)
    BY <1>1, <2>1 DEF LoadRecentPayloads
  <2>3. QED
    BY <1>4, <2>1, <2>2 DEF LoadPayloadsForContext, MatchesPayloadQuery
<1>5. QED
  BY <1>3, <1>4

\* Packages with one part replaced.
LEMMA PackageParts ==
    ASSUME NEW k \in Packages
    PROVE  /\ EmptyPackage \in Packages /\ EmptyPackage.messages = {}
           /\ \A S \in SUBSET (1..Len(events)) :
                 [k EXCEPT !.messages = S] \in Packages /\ [k EXCEPT !.messages = S].messages = S
           /\ \A S \in SUBSET (1..Len(memory)) :
                 /\ [k EXCEPT !.text = S] \in Packages /\ [k EXCEPT !.text = S].messages = k.messages
                 /\ [k EXCEPT !.structured = S] \in Packages
                 /\ [k EXCEPT !.structured = S].messages = k.messages
           /\ \A S \in SUBSET (1..Len(payloads)) :
                 /\ [k EXCEPT !.payloadRefs = S] \in Packages
                 /\ [k EXCEPT !.payloadRefs = S].messages = k.messages
                 /\ [k EXCEPT !.payloadRefs = S].payloadRefs = S
BY DEF Packages, EmptyPackage

\* The call begins, reads its messages and searches.
LEMMA FirstReadSteps ==
    ASSUME ReadInv,
           \/ \E req \in Requests : BuildContext(req)
           \/ LoadMessages
           \/ \E ftsFailed \in BOOLEAN : Search(ftsFailed)
    PROVE  ReadInv'
<1>0. TablesOK /\ CallOK /\ MessagesOK
  BY DEF ReadInv
<1>1. Len(events) \in Nat /\ Len(payloads) \in Nat /\ Len(memory) \in Nat
  BY <1>0 DEF TablesOK
<1>2. UNCHANGED <<events, payloads, memory, now, storeUp>>
  BY DEF BuildContext, LoadMessages, Search, database
<1>3. TablesOK' /\ Packages' = Packages
  BY <1>0, <1>2 DEF TablesOK, Packages
<1>4. package \in Packages
  BY <1>0 DEF CallOK
<1>5. ASSUME NEW req \in Requests, BuildContext(req)
      PROVE  ReadInv'
  <2>1. began' \in [events : 0..Len(events), payloads : 0..Len(payloads)]
    BY <1>1, <1>5 DEF BuildContext
  <2>2. package' \in Packages /\ package'.messages = {}
    BY <1>4, <1>5, PackageParts DEF BuildContext
  <2>3. CallOK'
    BY <1>2, <1>3, <1>5, <2>1, <2>2, AnyRequestIsOne DEF BuildContext, CallOK, Building
  <2>4. MessagesOK' /\ ReferencedPayloadListed'
    BY <1>5 DEF BuildContext, MessagesOK, ReferencedPayloadListed
  <2>5. QED
    BY <1>3, <2>3, <2>4 DEF ReadInv
<1>6. CASE LoadMessages
  <2>1. /\ request \in Requests /\ result = "none" /\ began.events \in 0..Len(events)
        /\ began \in [events : 0..Len(events), payloads : 0..Len(payloads)]
    BY <1>0, <1>6 DEF LoadMessages, CallOK, Building
  <2> DEFINE S == LoadMessagesForContext(request)
  <2>2. /\ S \subseteq 1..Len(events) /\ (S # {} => storeUp)
        /\ storeUp /\ ShouldInclude(request, "messages") =>
              \A i \in 1..Len(events) :
                  StillRecent(events, request.sessionId, request.messageLimit, i) /\ events[i].type = Message
                  => i \in S
    BY <1>0, <2>1, MessagesLoaded
  <2>3. package' = [package EXCEPT !.messages = S] /\ pc' \in {"search", "snapshot", "payloads"}
        /\ UNCHANGED <<request, hits, result, began>>
    BY <1>6 DEF LoadMessages
  <2> HIDE DEF S
  <2>4. package' \in Packages /\ package'.messages = S
    BY <1>4, <2>2, <2>3, PackageParts
  <2>5. CallOK'
    BY <1>0, <1>2, <1>3, <2>1, <2>2, <2>3, <2>4 DEF CallOK, Building
  <2>6. \A i \in 1..began.events : i \in 1..Len(events)
    BY <1>1, <2>1
  <2>7. MessagesOK'
    BY <1>2, <2>2, <2>3, <2>4, <2>6 DEF MessagesOK, ShouldInclude, StillRecent, InSession
  <2>8. ReferencedPayloadListed'
    BY <2>3 DEF ReferencedPayloadListed
  <2>9. QED
    BY <1>3, <2>5, <2>7, <2>8 DEF ReadInv
<1>7. ASSUME NEW ftsFailed \in BOOLEAN, Search(ftsFailed)
      PROVE  ReadInv'
  <2>1. request \in Requests /\ result = "none"
        /\ began \in [events : 0..Len(events), payloads : 0..Len(payloads)]
    BY <1>0, <1>7 DEF Search, CallOK, Building
  <2>2. hits' \subseteq 1..Len(memory)
    BY <1>0, <1>7, <2>1, LimitIsInt, FoundAreRows DEF Search, TablesOK
  <2>3. package' \in Packages /\ package'.messages = package.messages
    BY <1>4, <1>7, <2>2, PackageParts DEF Search
  <2>4. CallOK'
    BY <1>0, <1>2, <1>3, <1>7, <2>1, <2>2, <2>3 DEF Search, CallOK, Building
  <2>5. MessagesOK' /\ ReferencedPayloadListed'
    BY <1>0, <1>2, <1>7, <2>3 DEF Search, MessagesOK, ReferencedPayloadListed, ShouldInclude, StillRecent, InSession
  <2>6. QED
    BY <1>3, <2>4, <2>5 DEF ReadInv
<1>8. QED
  BY <1>5, <1>6, <1>7

\* It loads the snapshot and the payloads and returns, or fails.
LEMMA LastReadSteps ==
    ASSUME ReadInv, LoadSnapshot \/ LoadPayloads \/ Fail
    PROVE  ReadInv'
<1>0. TablesOK /\ CallOK /\ MessagesOK
  BY DEF ReadInv
<1>1. Len(events) \in Nat /\ Len(payloads) \in Nat /\ Len(memory) \in Nat
  BY <1>0 DEF TablesOK
<1>2. UNCHANGED <<events, payloads, memory, now, storeUp, request, hits, began>>
  BY DEF LoadSnapshot, LoadPayloads, Fail, Return, database
<1>3. TablesOK' /\ Packages' = Packages
  BY <1>0, <1>2 DEF TablesOK, Packages
<1>4. /\ package \in Packages /\ request \in Requests
      /\ began \in [events : 0..Len(events), payloads : 0..Len(payloads)]
      /\ hits \subseteq 1..Len(memory) /\ (package.messages # {} => storeUp)
      /\ request \in ContextRequests
  BY <1>0 DEF CallOK, Building, LoadSnapshot, LoadPayloads, Fail
<1>5. CASE LoadSnapshot
  <2>1. PICK rows \in LoadLongTermMemory(memory, request.sessionId, LongTermMemoryLimit(request)) :
           package' = IF request.query
                      THEN [package EXCEPT !.structured = Structured(rows) \cap hits]
                      ELSE [package EXCEPT !.text = rows, !.structured = Structured(rows)]
    BY <1>5 DEF LoadSnapshot
  <2>2. rows \subseteq 1..Len(memory) /\ Structured(rows) \subseteq 1..Len(memory)
        /\ Structured(rows) \cap hits \subseteq 1..Len(memory)
    BY <1>0, <1>4, LimitIsInt, FoundAreRows DEF Structured, TablesOK
  <2>3. package' \in Packages /\ package'.messages = package.messages
    <3>1. CASE request.query
      BY <1>4, <2>1, <2>2, <3>1, PackageParts
    <3>2. CASE ~request.query
      <4> DEFINE k == [package EXCEPT !.text = rows]
      <4>1. k \in Packages /\ k.messages = package.messages
        BY <1>4, <2>2, PackageParts
      <4>2. package' = [k EXCEPT !.structured = Structured(rows)]
        BY <1>4, <2>1, <3>2 DEF Packages
      <4> HIDE DEF k
      <4>3. QED
        BY <2>2, <4>1, <4>2, PackageParts
    <3>3. QED
      BY <3>1, <3>2
  <2>4. pc = "snapshot" /\ pc' = "payloads" /\ result' = result /\ result = "none"
    BY <1>0, <1>5 DEF LoadSnapshot, CallOK
  <2>5. CallOK'
    BY <1>0, <1>2, <1>3, <1>4, <2>3, <2>4 DEF CallOK, Building
  <2>6. MessagesOK' /\ ReferencedPayloadListed'
    BY <1>0, <1>2, <2>3, <2>4 DEF MessagesOK, ReferencedPayloadListed, ShouldInclude, StillRecent, InSession
  <2>7. QED
    BY <1>3, <2>5, <2>6 DEF ReadInv
<1>6. CASE LoadPayloads
  <2> DEFINE S == LoadPayloadsForContext(request)
  <2>1. /\ S \subseteq 1..Len(payloads)
        /\ storeUp /\ ShouldInclude(request, "payloads") /\ ~request.query =>
              \A p \in 1..Len(payloads) :
                  StillRecent(payloads, request.sessionId, request.payloadLimit, p) => p \in S
    BY <1>0, <1>4, PayloadsLoaded
  <2>2. package' = [package EXCEPT !.payloadRefs = S] /\ pc' = "idle" /\ result' = "ok"
    BY <1>6 DEF LoadPayloads, Return
  <2> HIDE DEF S
  <2>3. package' \in Packages /\ package'.messages = package.messages /\ package'.payloadRefs = S
    BY <1>4, <2>1, <2>2, PackageParts
  <2>4. CallOK'
    BY <1>2, <1>3, <1>4, <2>2, <2>3 DEF CallOK, Building
  <2>5. MessagesOK'
    BY <2>2 DEF MessagesOK
  <2>6. ReferencedPayloadListed'
    <3>1. SUFFICES ASSUME request.includeSections = {}, ~request.query,
                          NEW i \in package.messages, events[i].payloadRef # 0,
                          StillRecent(payloads, request.sessionId, request.payloadLimit, events[i].payloadRef)
                   PROVE  events[i].payloadRef \in S
      BY <1>2, <2>3 DEF ReferencedPayloadListed, StillRecent, InSession
    <3>2. i \in 1..Len(events) /\ storeUp /\ ShouldInclude(request, "payloads")
      BY <1>4, <3>1 DEF Packages, ShouldInclude
    <3>3. events[i] \in EventRow /\ events[i].payloadRef <= Len(payloads)
      BY <1>0, <3>2 DEF TablesOK
    <3>4. events[i].payloadRef \in 1..Len(payloads)
      BY <1>1, <3>1, <3>3 DEF EventRow
    <3>5. QED
      BY <2>1, <3>1, <3>2, <3>4
  <2>7. QED
    BY <1>3, <2>4, <2>5, <2>6 DEF ReadInv
<1>7. CASE Fail
  <2>1. package' = EmptyPackage /\ pc' = "idle" /\ result' = "error"
    BY <1>7 DEF Fail, Return
  <2>2. package' \in Packages /\ package'.messages = {}
    BY <1>4, <2>1, PackageParts
  <2>3. CallOK'
    BY <1>2, <1>3, <1>4, <2>1, <2>2 DEF CallOK, Building
  <2>4. MessagesOK' /\ ReferencedPayloadListed'
    BY <2>1 DEF MessagesOK, ReferencedPayloadListed
  <2>5. QED
    BY <1>3, <2>3, <2>4 DEF ReadInv
<1>8. QED
  BY <1>5, <1>6, <1>7

\* SearchMemory and its answer.
LEMMA SearchMemorySteps ==
    ASSUME ReadInv,
           \/ \E q \in Searches, ftsFailed \in BOOLEAN : SearchMemory(q[1], q[2], ftsFailed)
           \/ Answer
    PROVE  ReadInv'
<1>0. TablesOK /\ CallOK
  BY DEF ReadInv
<1>1. UNCHANGED <<events, payloads, memory, now, storeUp>>
  BY DEF SearchMemory, Answer, database
<1>2. TablesOK' /\ Packages' = Packages
  BY <1>0, <1>1 DEF TablesOK, Packages
<1>3. package \in Packages /\ hits \subseteq 1..Len(memory)
  BY <1>0 DEF CallOK
<1>4. ASSUME NEW q \in Searches, NEW ftsFailed \in BOOLEAN, SearchMemory(q[1], q[2], ftsFailed)
      PROVE  ReadInv'
  <2>1. q[2] \in Int
    BY SearchesAssumption
  <2>2. hits' \subseteq 1..Len(memory) /\ result' \in {"none", "error"} /\ pc' \in {"idle", "answer"}
        /\ (pc' # "idle" => result' = "none")
    <3>1. CASE storeUp
      BY <1>0, <1>4, <2>1, <3>1, FoundAreRows DEF SearchMemory, TablesOK
    <3>2. CASE ~storeUp
      BY <1>3, <1>4, <3>2 DEF SearchMemory
    <3>3. QED
      BY <3>1, <3>2
  <2>3. package' \in Packages /\ package'.messages = {}
    BY <1>3, <1>4, PackageParts DEF SearchMemory
  <2>4. request' \in ContextRequests
    <3>1. request \in ContextRequests /\ q[1] \in Sessions \cup {NoSession}
      BY <1>0, SearchesAssumption DEF CallOK
    <3>2. PICK r \in ContextRequests : r = [request EXCEPT !.sessionId = q[1]]
      BY <3>1 DEF ContextRequests
    <3>3. [r EXCEPT !.longTermLimit = q[2]] \in ContextRequests
      BY <2>1, <3>2 DEF ContextRequests
    <3>4. request' = [r EXCEPT !.longTermLimit = q[2]] \/ request' = request
      BY <1>4, <3>2 DEF SearchMemory
    <3>5. QED
      BY <3>1, <3>3, <3>4
  <2>5. CallOK'
    BY <1>1, <1>2, <2>2, <2>3, <2>4 DEF CallOK, Building
  <2>6. MessagesOK' /\ ReferencedPayloadListed'
    BY <2>2 DEF MessagesOK, ReferencedPayloadListed
  <2>7. QED
    BY <1>2, <2>5, <2>6 DEF ReadInv
<1>5. CASE Answer
  <2>1. pc' = "idle" /\ result' = "none" /\ hits' = {} /\ package' = package /\ request' \in ContextRequests
    BY <1>5, AnyRequestIsOne DEF Answer
  <2>2. CallOK'
    BY <1>0, <1>1, <1>2, <1>3, <2>1 DEF CallOK, Building
  <2>3. MessagesOK' /\ ReferencedPayloadListed'
    BY <2>1 DEF MessagesOK, ReferencedPayloadListed
  <2>4. QED
    BY <1>2, <2>2, <2>3 DEF ReadInv
<1>6. QED
  BY <1>4, <1>5

\* Empty tables and no call satisfy the invariant.
LEMMA ReadInvInitially == Init => ReadInv
<1> SUFFICES ASSUME Init PROVE ReadInv
  OBVIOUS
<1>1. /\ events \in Seq(EventRow) /\ payloads \in Seq(PayloadRow) /\ memory \in Seq(MemoryRow)
      /\ Len(events) = 0 /\ Len(memory) = 0
  BY DEF Init
<1>2. TablesOK
  BY <1>1 DEF Init, TablesOK
<1>3. package \in Packages /\ package.messages = {}
  BY DEF Init, EmptyPackage, Packages
<1>4. CallOK
  BY <1>3, AnyRequestIsOne DEF Init, CallOK, Building
<1>5. QED
  BY <1>2, <1>4 DEF Init, ReadInv, MessagesOK, ReferencedPayloadListed

\* Every step keeps the invariant.
LEMMA ReadInvInductive ==
    ASSUME ReadInv, [Next]_vars
    PROVE  ReadInv'
<1>1. CASE Write
  BY <1>1, WriteSteps
<1>2. CASE Read
  BY <1>2, FirstReadSteps, LastReadSteps, SearchMemorySteps DEF Read
<1>3. CASE UNCHANGED vars
  BY <1>3 DEF vars, database, ReadInv, TablesOK, CallOK, Building, Packages, MessagesOK,
              ReferencedPayloadListed, StillRecent, InSession, ShouldInclude
<1>4. QED
  BY <1>1, <1>2, <1>3 DEF Next

\* See ReadInv.
LEMMA ReadInvHolds == Spec => []ReadInv
<1>1. QED
  BY ReadInvInitially, ReadInvInductive, PTL DEF Spec

-----------------------------------------------------------------------------
(* The theorems.                                                           *)

\* Rows, hits and packages are of their kind and name rows that exist, however
\* the tables grow while a context is built.
THEOREM TypeCorrect == Spec => []TypeOK
<1>1. ASSUME ReadInv
      PROVE  TypeOK
  <2>0. TablesOK /\ CallOK
    BY <1>1 DEF ReadInv
  <2>1. DOMAIN events = 1..Len(events) /\ DOMAIN payloads = 1..Len(payloads) /\ DOMAIN memory = 1..Len(memory)
    BY <2>0 DEF TablesOK
  <2>2. \A i \in DOMAIN memory : memory[i].updatedAt \in 0..now /\ memory[i].active \in BOOLEAN
    <3>1. \A i \in DOMAIN memory : memory[i] \in MemoryRow /\ memory[i].updatedAt <= now
      BY <2>0, <2>1 DEF TablesOK
    <3>2. QED
      BY <2>0, <3>1 DEF MemoryRow, TablesOK
  <2>3. /\ package.messages \subseteq DOMAIN events /\ package.payloadRefs \subseteq DOMAIN payloads
        /\ package.text \cup package.structured \subseteq DOMAIN memory
    BY <2>0, <2>1 DEF CallOK, Packages
  <2>4. QED
    BY <2>0, <2>1, <2>2, <2>3 DEF TypeOK, TablesOK, CallOK, EventRow, PayloadRow
<1>2. QED
  BY <1>1, ReadInvHolds, PTL

\* A message in a package comes with the payload it refers to, while that is
\* recent: BuildContext reads messages before payloads, and AppendEvent refers
\* only to payloads that are stored.
THEOREM PayloadsListed == Spec => []ReferencedPayloadListed
<1>1. ReadInv => ReferencedPayloadListed
  BY DEF ReadInv
<1>2. QED
  BY <1>1, ReadInvHolds, PTL

\* What was acknowledged before BuildContext began and is still recent when it
\* returns is in its package, whatever is written between its reads.
THEOREM OwnWritesRead == Spec => ReadYourWrites
<1> DEFINE A == pc = "payloads" /\ result' = "ok" /\ storeUp =>
                  /\ ShouldInclude(request, "messages") =>
                        \A i \in 1..began.events :
                            /\ StillRecent(events, request.sessionId, request.messageLimit, i)
                            /\ events[i].type = Message
                            => i \in package'.messages
                  /\ ShouldInclude(request, "payloads") /\ ~request.query =>
                        \A p \in 1..began.payloads :
                            StillRecent(payloads, request.sessionId, request.payloadLimit, p)
                            => p \in package'.payloadRefs
<1>1. ReadInv /\ [Next]_vars => [A]_vars
  <2>1. SUFFICES ASSUME ReadInv, Next, pc = "payloads", result' = "ok", storeUp
                 PROVE  A
    BY DEF vars
  <2>2. TablesOK /\ CallOK /\ MessagesOK
    BY <2>1 DEF ReadInv
  <2>3. LoadPayloads
    <3>1. result = "none"
      BY <2>1, <2>2 DEF CallOK
    <3>2. result' # result /\ result' # "error" /\ result' # "none"
      BY <2>1, <3>1
    <3>3. QED
      BY <2>1, <3>2 DEF Next, Write, Read, AppendEvent, SavePayload, SaveRecord, ResaveEntity, Retire, Tick,
                        BuildContext, LoadMessages, Search, LoadSnapshot, Fail, Return, SearchMemory, Answer
  <2>4. /\ package \in Packages /\ request \in Requests
        /\ began \in [events : 0..Len(events), payloads : 0..Len(payloads)]
    BY <2>1, <2>2 DEF CallOK, Building
  <2>5. \A p \in 1..began.payloads : p \in 1..Len(payloads)
    <3>1. Len(payloads) \in Nat /\ began.payloads \in 0..Len(payloads)
      BY <2>2, <2>4 DEF TablesOK
    <3>2. QED
      BY <3>1
  <2>6. LoadPayloadsForContext(request) \subseteq 1..Len(payloads)
    BY <2>2, <2>4, PayloadsLoaded
  <2>7. package'.messages = package.messages /\ package'.payloadRefs = LoadPayloadsForContext(request)
    BY <2>3, <2>4, <2>6, PackageParts DEF LoadPayloads, Return
  <2>8. ShouldInclude(request, "messages") =>
          \A i \in 1..began.events :
              StillRecent(events, request.sessionId, request.messageLimit, i) /\ events[i].type = Message
              => i \in package'.messages
    BY <2>1, <2>2, <2>7 DEF MessagesOK
  <2>9. ShouldInclude(request, "payloads") /\ ~request.query =>
          \A p \in 1..began.payloads :
              StillRecent(payloads, request.sessionId, request.payloadLimit, p) => p \in package'.payloadRefs
    BY <2>1, <2>2, <2>4, <2>5, <2>7, PayloadsLoaded
  <2>10. QED
    BY <2>8, <2>9
<1>2. QED
  BY <1>1, ReadInvHolds, PTL DEF Spec, ReadYourWrites

\* Every search, of SearchMemory or of BuildContext, returns the best of all the
\* rows of the three tables that FTS5 matches, or of all that LIKE matches,
\* although SearchLongTermMemory cuts every statement at the limit before it
\* merges them and FTS5 may fail between two statements.
THEOREM BestHitsReturned == Spec => SearchReturnsBest
<1> DEFINE limit == IF pc = "search" THEN LongTermMemoryLimit(request) ELSE request'.longTermLimit
           wanted == IF limit > 0 THEN limit ELSE 10
           A == (pc = "search" /\ pc' = "snapshot") \/ (pc = "idle" /\ pc' = "answer") =>
                   \/ BestOf(memory, wanted, Candidates(FtsMatches), "fts_bm25", hits')
                   \/ BestOf(memory, wanted, Candidates(LikeMatches), "like_fallback", hits')
<1>1. ReadInv /\ [Next]_vars => [A]_vars
  <2>1. SUFFICES ASSUME ReadInv, Next,
                        (pc = "search" /\ pc' = "snapshot") \/ (pc = "idle" /\ pc' = "answer")
                 PROVE  \/ BestOf(memory, wanted, Candidates(FtsMatches), "fts_bm25", hits')
                        \/ BestOf(memory, wanted, Candidates(LikeMatches), "like_fallback", hits')
    BY DEF vars
  <2>2. memory \in Seq(MemoryRow) /\ CallOK
    BY <2>1 DEF ReadInv, TablesOK
  <2>3. /\ Candidates(FtsMatches) = AllMatches(FtsMatches, memory, request'.sessionId)
        /\ Candidates(LikeMatches) = AllMatches(LikeMatches, memory, request'.sessionId)
        /\ wanted = Wanted(limit)
    BY DEF Candidates, AllMatches, Wanted
  <2>4. ASSUME pc = "search", pc' = "snapshot"
        PROVE  limit \in Int /\ \E ftsFailed \in BOOLEAN :
                  hits' \in SearchLongTermMemory(memory, request'.sessionId, limit, ftsFailed)
    <3>1. PICK ftsFailed \in BOOLEAN : Search(ftsFailed)
      BY <2>1, <2>4 DEF Next, Write, Read, AppendEvent, SavePayload, SaveRecord, ResaveEntity, Retire, Tick,
                        BuildContext, LoadMessages, LoadSnapshot, LoadPayloads, Fail, Return, SearchMemory, Answer
    <3>2. request \in Requests /\ request' = request /\ limit = LongTermMemoryLimit(request)
      BY <2>2, <2>4, <3>1 DEF CallOK, Building, Search
    <3>3. hits' \in SearchLongTermMemory(memory, request.sessionId, LongTermMemoryLimit(request), ftsFailed)
      BY <3>1 DEF Search
    <3>4. QED
      BY <3>2, <3>3, LimitIsInt
  <2>5. ASSUME pc = "idle", pc' = "answer"
        PROVE  limit \in Int /\ \E ftsFailed \in BOOLEAN :
                  hits' \in SearchLongTermMemory(memory, request'.sessionId, limit, ftsFailed)
    <3>1. PICK q \in Searches, ftsFailed \in BOOLEAN : SearchMemory(q[1], q[2], ftsFailed)
      BY <2>1, <2>5 DEF Next, Write, Read, AppendEvent, SavePayload, SaveRecord, ResaveEntity, Retire, Tick,
                        BuildContext, LoadMessages, Search, LoadSnapshot, LoadPayloads, Fail, Return, Answer
    <3>2. request' = [request EXCEPT !.sessionId = q[1], !.longTermLimit = q[2]]
          /\ hits' \in SearchLongTermMemory(memory, q[1], q[2], ftsFailed)
      BY <2>5, <3>1 DEF SearchMemory
    <3>3. request'.sessionId = q[1] /\ request'.longTermLimit = q[2]
      BY <2>2, <3>2 DEF CallOK, ContextRequests
    <3>4. QED
      BY <2>5, <3>2, <3>3, SearchesAssumption
  <2> HIDE DEF limit, wanted
  <2>6. QED
    BY <2>1, <2>2, <2>3, <2>4, <2>5, SearchIsBest
<1>2. QED
  BY <1>1, ReadInvHolds, PTL DEF Spec, SearchReturnsBest
=============================================================================
