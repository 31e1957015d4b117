--------------------------- MODULE SearchRanking ---------------------------
(***************************************************************************)
(* SearchLongTermMemory and LoadLongTermMemory of the SQLite store, as     *)
(* operators on the rows of one agent (no query returns rows of another).  *)
(*                                                                         *)
(* A row of memory_summaries, memory_entities or memory_relations is a     *)
(* record with its session, its active flag, its updated_at and how it     *)
(* answers the query: rank is the raw bm25 rank, 0 when FTS5 does not      *)
(* match it, and like says whether LIKE does.  All rows are in one         *)
(* sequence; the position of a row stands for its id.                      *)
(*                                                                         *)
(* What SQL and std::sort leave open (entities with the same updated_at;   *)
(* equal scores are ordered by id string) is left open here too, so a      *)
(* query has a set of possible answers.                                    *)
(***************************************************************************)
EXTENDS Integers, Sequences, FiniteSets, FiniteSetsExt

CONSTANT NoSession    \* the empty session id

RecordTypes == {"summary", "entity", "relation"}

\* WHERE: summaries are filtered by session, entities and relations by active.
Visible(memory, sessionId, type) ==
    {i \in DOMAIN memory :
        /\ memory[i].type = type
        /\ memory[i].active
        /\ type = "summary" => sessionId = NoSession \/ memory[i].sessionId = sessionId}

\* ORDER BY updated_at DESC, id DESC; entities have no second key.
Newer(memory, i, j) ==
    \/ memory[i].updatedAt > memory[j].updatedAt
    \/ memory[i].updatedAt = memory[j].updatedAt /\ memory[i].type # "entity" /\ i > j

\* ORDER BY ... LIMIT n: the possible sets of the first n members.
First(n, S, Before(_, _)) ==
    {T \in kSubset(Min({n, Cardinality(S)}), S) : \A i \in T, j \in S \ T : ~Before(j, i)}

-----------------------------------------------------------------------------
(* Scores, in units of 1/1200 (exact for raw ranks up to 3).               *)

TypeWeight == [summary |-> 100, entity |-> 95, relation |-> 90]
FallbackScore == [summary |-> 12 * 30, entity |-> 12 * 25, relation |-> 12 * 20]

\* rank / (rank + 1), weighted.
FtsScore(record) == (12 * TypeWeight[record.type] * record.rank) \div (record.rank + 1)

Score(record, source) ==
    IF source = "fts_bm25" THEN FtsScore(record) ELSE FallbackScore[record.type]

-----------------------------------------------------------------------------
FtsMatches(memory, sessionId, type) ==
    {i \in Visible(memory, sessionId, type) : memory[i].rank > 0}

LikeMatches(memory, sessionId, type) ==
    {i \in Visible(memory, sessionId, type) : memory[i].like}

\* Mutant: the FTS statements order by recency.
FtsQueryByRecency(memory, sessionId, limit, type) ==
    First(limit, FtsMatches(memory, sessionId, type), LAMBDA i, j : Newer(memory, i, j))

\* One of the three FTS statements: best rank first, then the newest.
FtsQuery(memory, sessionId, limit, type) ==
    First(limit, FtsMatches(memory, sessionId, type),
          LAMBDA i, j : \/ memory[i].rank > memory[j].rank
                        \/ memory[i].rank = memory[j].rank /\ Newer(memory, i, j))

\* One of the three LIKE statements: the newest first.
LikeQuery(memory, sessionId, limit, type) ==
    First(limit, LikeMatches(memory, sessionId, type), LAMBDA i, j : Newer(memory, i, j))

\* The results of the statements of one kind, in one vector.
Collect(Query(_)) ==
    {s \cup e \cup r : s \in Query("summary"), e \in Query("entity"), r \in Query("relation")}

\* SortAndLimitSearchResults.
SortAndLimit(memory, limit, source, found) ==
    First(limit, found, LAMBDA i, j : Score(memory[i], source) > Score(memory[j], source))

\* The possible hit sets.  An error while one of the FTS statements runs (or a
\* query with nothing left after escaping) discards the hits of all of them;
\* LIKE is asked when there are no FTS hits.
SearchLongTermMemory(memory, sessionId, wanted, ftsFailed) ==
    LET limit == IF wanted > 0 THEN wanted ELSE 10
        fts == IF ftsFailed THEN {{}}
               ELSE Collect(LAMBDA type : FtsQuery(memory, sessionId, limit, type))
        like == Collect(LAMBDA type : LikeQuery(memory, sessionId, limit, type))
    IN  UNION {IF found # {}
               THEN SortAndLimit(memory, limit, "fts_bm25", found)
               ELSE UNION {SortAndLimit(memory, limit, "like_fallback", other) : other \in like} :
               found \in fts}

\* LoadLongTermMemory: the newest rows of each table.
LoadLongTermMemory(memory, sessionId, limit) ==
    Collect(LAMBDA type : First(IF limit > 0 THEN limit ELSE 100,
                                Visible(memory, sessionId, type),
                                LAMBDA i, j : Newer(memory, i, j)))

-----------------------------------------------------------------------------
\* Reference: hits are the best of all the candidates of one source, whatever
\* their type.
BestOf(memory, limit, candidates, source, hits) ==
    /\ hits \subseteq candidates
    /\ Cardinality(hits) = Min({limit, Cardinality(candidates)})
    /\ \A i \in hits, j \in candidates \ hits : Score(memory[i], source) >= Score(memory[j], source)
=============================================================================
