------------------------ MODULE ConsolidationProofs ------------------------
(***************************************************************************)
(* Proofs about Consolidation, for every set of agents, sessions, threads, *)
(* runtimes and requests and every bound.                                  *)
(***************************************************************************)
EXTENDS Consolidation, FiniteSetTheorems, TLAPS

-----------------------------------------------------------------------------
(* The batch builder, for every log and request.                           *)

\* A bounded non-empty set of naturals has the maximum that Max chooses: the
\* cursor Build returns is an id the loop reached, or 0.
LEMMA MaxIsLargest ==
    ASSUME NEW S \in SUBSET Nat, S # {}, NEW n \in Nat, \A x \in S : x <= n
    PROVE  Max(S) \in S /\ \A x \in S : x <= Max(S)
<1> DEFINE D == {d \in Nat : \E x \in S : d = n - x}
<1>0. \A x \in S : n - x \in D
  BY SMT
<1>1. D \subseteq Nat /\ D # {}
  BY <1>0
<1>2. PICK d \in D : \A e \in D : ~(<<e, d>> \in OpToRel(<, Nat))
  BY <1>1, NatLessThanWellFounded, WFMin, Zenon
<1>3. \A e \in D : ~(e < d)
  <2>1. ASSUME NEW e \in D, e < d PROVE <<e, d>> \in OpToRel(<, Nat)
    <3>1. <<e, d>> \in Nat \X Nat /\ <<e, d>>[1] < <<e, d>>[2]
      BY <1>1, <2>1
    <3> QED BY <3>1, Zenon DEF OpToRel
  <2> QED BY <1>2, <2>1
<1>4. PICK m \in S : d = n - m
  BY <1>2
<1>5. \A x \in S : m >= x
  <2> SUFFICES ASSUME NEW x \in S PROVE m >= x
    OBVIOUS
  <2>1. ~(n - x < n - m)
    BY <1>0, <1>3, <1>4
  <2> QED BY <2>1
<1>6. Max(S) \in S /\ \A x \in S : Max(S) >= x
  BY <1>4, <1>5, Zenon DEF Max
<1> QED
  BY <1>6, SMT

\* The loop stops once: when it reaches an event it has reached every earlier
\* event the store returned.
LEMMA ReachedIsPrefix ==
    ASSUME NEW log, NEW req, NEW n \in Nat, NEW ids \in SUBSET (1..n),
           req.maxEvents \in Int,
           NEW i \in ids, NEW k \in Reached(log, req, ids), i <= k
    PROVE  i \in Reached(log, req, ids)
<1> DEFINE E == Eligible(log, req, ids)
           L == Limit(req, ids)
           Before(x) == {j \in E : j < x}
<1>1. IsFiniteSet(ids) /\ Cardinality(ids) \in Nat
  <2>1. IsFiniteSet(1..n)
    BY FS_Interval, SMT
  <2>2. IsFiniteSet(ids)
    BY <2>1, FS_Subset
  <2> QED BY <2>2, FS_CardinalityType
<1>2. L \in Int
  BY <1>1 DEF Limit
<1>3. E \subseteq ids /\ ids \subseteq Int
  BY SMT DEF Eligible
<1>4. k \in ids
  BY DEF Reached
<1>5. IsFiniteSet(Before(k))
  <2>1. Before(k) \in SUBSET ids
    BY <1>3
  <2> QED BY <2>1, <1>1, FS_Subset
<1>6. Before(i) \in SUBSET Before(k)
  <2>1. ASSUME NEW j \in E, j < i PROVE j < k
    <3>1. j \in Int /\ i \in Int /\ k \in Int
      BY <1>3, <1>4, Zenon
    <3> HIDE DEF E
    <3> QED BY <2>1, <3>1, SMT
  <2> QED BY <2>1, Zenon
<1>7. /\ Cardinality(Before(i)) <= Cardinality(Before(k))
      /\ Cardinality(Before(i)) \in Nat /\ Cardinality(Before(k)) \in Nat
  BY <1>5, <1>6, FS_Subset, FS_CardinalityType
<1>8. L <= 0 \/ Cardinality(Before(k)) < L
  BY DEF Reached
<1>9. L <= 0 \/ Cardinality(Before(i)) < L
  BY <1>2, <1>7, <1>8, SMT
<1> QED
  BY <1>9 DEF Reached

\* What a commit may rely on, for every request: the new cursor lies in the
\* loaded range, the batch is in range, and no eligible event at or below the
\* new cursor is left out of the batch.
LEMMA BuildCoversUpToCursor ==
    ASSUME NEW log, NEW req, NEW n \in Nat, NEW ids \in SUBSET (1..n),
           req.maxEvents \in Int
    PROVE  LET b == Build(log, req, ids)
           IN  /\ b.nextCursor \in 0..n
               /\ b.nextCursor # 0 => b.nextCursor \in ids
               /\ b.events \subseteq Eligible(log, req, ids)
               /\ \A i \in b.events : i <= b.nextCursor
               /\ \A i \in Eligible(log, req, ids) : i <= b.nextCursor => i \in b.events
<1> DEFINE R == Reached(log, req, ids)
           E == Eligible(log, req, ids)
<1>1. R \subseteq ids /\ E \subseteq ids
  BY DEF Reached, Eligible
<1>e. Eligible(log, req, ids) = E /\ Reached(log, req, ids) = R
  OBVIOUS
<1> HIDE DEF R, E
<1>2. CASE ~req.forceReprocess /\ req.maxEvents <= 0
  <2>1. Build(log, req, ids) = [events |-> {}, nextCursor |-> 0]
    BY <1>2 DEF Build
  <2>2. \A i \in E : ~(i <= 0)
    BY <1>1, SMT
  <2> QED
    BY <1>e, <2>1, <2>2, SMT
<1>3. CASE ~(~req.forceReprocess /\ req.maxEvents <= 0)
  <2>1. Build(log, req, ids) = [events |-> E \cap R, nextCursor |-> Max(R \cup {0})]
    BY <1>3, <1>e DEF Build
  <2>2. /\ Max(R \cup {0}) \in R \cup {0}
        /\ \A x \in R \cup {0} : x <= Max(R \cup {0})
    <3>1. \A x \in R \cup {0} : x \in Nat /\ x <= n
      BY <1>1, SMT
    <3> QED BY <3>1, MaxIsLargest, Zenon
  <2>3. ASSUME NEW i \in E, i <= Max(R \cup {0})
        PROVE  i \in R
    <3>1. Max(R \cup {0}) \in R
      BY <1>1, <2>2, <2>3, SMT
    <3>2. i \in ids
      BY <1>1
    <3> QED BY <1>e, <3>1, <3>2, <2>3, ReachedIsPrefix
  <2>4. \A i \in E \cap R : i <= Max(R \cup {0})
    BY <2>2
  <2> DEFINE m == Max(R \cup {0})
  <2>5. m \in 0..n /\ (m # 0 => m \in ids)
    <3>1. m \in R \cup {0}
      BY <2>2
    <3> HIDE DEF m
    <3> QED BY <1>1, <3>1, SMT
  <2> HIDE DEF m
  <2>6. \A i \in E : i <= m => i \in E \cap R
    BY <2>3 DEF m
  <2>7. Build(log, req, ids).events = E \cap R /\ Build(log, req, ids).nextCursor = m
    BY <2>1 DEF m
  <2>8. \A i \in E \cap R : i <= m
    BY <2>4 DEF m
  <2> QED
    BY <1>e, <2>5, <2>6, <2>7, <2>8, Zenon
<1> QED
  BY <1>2, <1>3

\* Rows appended after the SELECT change nothing for the batch built from it.
LEMMA BuildIgnoresLaterEvents ==
    ASSUME NEW log, NEW later, NEW req, NEW n \in Nat, NEW cursor,
           \A i \in 1..n : later[i] = log[i]
    PROVE  Build(later, req, LoadEventsAfterCursor(later, n, req, cursor))
             = Build(log, req, LoadEventsAfterCursor(log, n, req, cursor))
<1>1. LoadEventsAfterCursor(later, n, req, cursor) = LoadEventsAfterCursor(log, n, req, cursor)
  BY DEF LoadEventsAfterCursor
<1> DEFINE ids == LoadEventsAfterCursor(log, n, req, cursor)
<1>2. ids \subseteq 1..n
  BY DEF LoadEventsAfterCursor
<1> HIDE DEF ids
<1>3. Eligible(later, req, ids) = Eligible(log, req, ids)
  BY <1>2 DEF Eligible
<1>4. Reached(later, req, ids) = Reached(log, req, ids)
  BY <1>3 DEF Reached
<1>5. Build(later, req, ids) = Build(log, req, ids)
  BY <1>3, <1>4 DEF Build
<1> QED
  BY <1>1, <1>5 DEF ids

-----------------------------------------------------------------------------
(* Type correctness.                                                       *)

USE RequestsAssumption, ThreadsAssumption

\* The initial value of request is one of the requests.
LEMMA AnyRequestType == AnyRequest \in Requests
  BY DEF AnyRequest

\* The fields of every request have the types RequestsAssumption gives them.
LEMMA RequestFields ==
    ASSUME NEW req \in Requests
    PROVE  /\ req.agentId \in Agents
           /\ req.sessionId \in Sessions \cup {NoSession}
           /\ req.maxEvents \in Int
           /\ req.forceReprocess \in BOOLEAN
           /\ <<req.agentId, req.sessionId>> \in Scopes
  BY SMT DEF RequestType, Scopes

\* What the batch of a running thread may be, from BuildCoversUpToCursor.
LEMMA BatchFacts ==
    ASSUME TypeOK, NEW t \in Threads
    PROVE  /\ Batch(t).nextCursor \in 0..snapshot[t]
           /\ Batch(t).nextCursor # 0 => Batch(t).nextCursor > startCursor[t]
           /\ Batch(t).events \subseteq Nat
           /\ \A i \in Batch(t).events : i > startCursor[t] /\ i <= Batch(t).nextCursor
           /\ \A i \in Eligible(events, request[t], Loaded(t)) :
                 i <= Batch(t).nextCursor => i \in Batch(t).events
<1> DEFINE n == snapshot[t]
           ids == Loaded(t)
           req == request[t]
<1>1. n \in Nat /\ startCursor[t] \in Nat /\ req \in Requests
  BY DEF TypeOK
<1>2. \A i \in ids : i \in 1..n /\ i > startCursor[t]
  BY DEF Loaded, LoadEventsAfterCursor
<1>3. req.maxEvents \in Int
  BY <1>1, RequestFields
<1>4. ids \in SUBSET (1..n)
  BY <1>2
<1>5. Eligible(events, req, ids) \subseteq ids
  BY DEF Eligible
<1>6. LET b == Build(events, req, ids)
      IN  /\ b.nextCursor \in 0..n
          /\ b.nextCursor # 0 => b.nextCursor \in ids
          /\ b.events \subseteq Eligible(events, req, ids)
          /\ \A i \in b.events : i <= b.nextCursor
          /\ \A i \in Eligible(events, req, ids) : i <= b.nextCursor => i \in b.events
  <2> HIDE DEF n, ids, req
  <2> QED BY <1>1, <1>3, <1>4, BuildCoversUpToCursor
<1>7. Batch(t) = Build(events, req, ids)
  BY DEF Batch
<1> DEFINE B == Batch(t)
<1>8. /\ B.nextCursor \in 0..n
      /\ B.nextCursor # 0 => B.nextCursor \in ids
      /\ B.events \subseteq ids
      /\ \A i \in B.events : i <= B.nextCursor
      /\ \A i \in Eligible(events, req, ids) : i <= B.nextCursor => i \in B.events
  BY <1>5, <1>6, <1>7
<1>9. \A i \in ids : i \in Nat /\ i > startCursor[t]
  BY <1>1, <1>2, SMT
<1> HIDE DEF B, n, ids, req
<1>10. /\ B.nextCursor \in 0..n
       /\ B.nextCursor # 0 => B.nextCursor > startCursor[t]
       /\ B.events \subseteq Nat
       /\ \A i \in B.events : i > startCursor[t] /\ i <= B.nextCursor
       /\ \A i \in Eligible(events, req, ids) : i <= B.nextCursor => i \in B.events
  BY <1>8, <1>9, Zenon
<1> QED
  BY <1>10 DEF B, n, ids, req

\* Unlocking and returning keeps the types, whatever the outcome.
LEMMA ReturnType ==
    ASSUME TypeOK, NEW t \in Threads, NEW outcome \in {"ok", "error"}, Return(t, outcome)
    PROVE  /\ storeUp' \in [Runtimes -> BOOLEAN]
           /\ consolidationMutex' \in [Runtimes -> Threads \cup {NoThread}]
           /\ pc' \in [Threads -> {"idle", "waiting", "locked", "started", "loaded", "processed"}]
           /\ request' \in [Threads -> Requests]
           /\ startCursor' \in [Threads -> Nat]
           /\ snapshot' \in [Threads -> Nat]
           /\ result' \in [Threads -> {"none", "ok", "error"}]
  BY AnyRequestType DEF TypeOK, Return

\* The cursor and the history after a commit of t, whether or not the batch
\* is empty.
LEMMA CommitType ==
    ASSUME TypeOK, NEW t \in Threads,
           cursors' = [cursors EXCEPT ![Scope(t)] = Batch(t).nextCursor],
           skipped' = [skipped EXCEPT ![Scope(t)] = @ \cup PassedOver(t, Batch(t).nextCursor)]
    PROVE  /\ Batch(t).nextCursor \in Nat
           /\ cursors' \in [Scopes -> Nat]
           /\ skipped' \in [Scopes -> SUBSET Nat]
<1>1. Batch(t).nextCursor \in Nat
  <2>1. snapshot[t] \in Nat /\ Batch(t).nextCursor \in 0..snapshot[t]
    BY BatchFacts DEF TypeOK
  <2> QED BY <2>1, SMT
<1>2. PassedOver(t, Batch(t).nextCursor) \subseteq Nat
  BY <1>1 DEF PassedOver
<1>3. cursors' \in [Scopes -> Nat]
  BY <1>1 DEF TypeOK
<1>4. skipped' \in [Scopes -> SUBSET Nat]
  BY <1>2 DEF TypeOK
<1> QED BY <1>1, <1>3, <1>4

\* Every action keeps the types.
LEMMA TypeStep == TypeOK /\ [Next]_vars => TypeOK'
<1> SUFFICES ASSUME TypeOK, [Next]_vars PROVE TypeOK'
  OBVIOUS
<1>1. CASE UNCHANGED vars
  BY <1>1 DEF TypeOK, vars, database, locals
<1>2. ASSUME NEW r \in Runtimes, NEW event \in Events, AppendEvent(r, event) PROVE TypeOK'
  BY <1>2 DEF TypeOK, AppendEvent, locals
<1>3. ASSUME NEW t \in Threads, NEW req \in Requests, Call(t, req) PROVE TypeOK'
  <2>1. /\ \/ /\ pc' = [pc EXCEPT ![t] = "waiting"]
              /\ request' = [request EXCEPT ![t] = req]
              /\ result' = [result EXCEPT ![t] = "none"]
           \/ /\ result' = [result EXCEPT ![t] = "error"]
              /\ UNCHANGED <<pc, request>>
        /\ UNCHANGED <<database, storeUp, consolidationMutex, startCursor, snapshot>>
    BY <1>3, Zenon DEF Call
  <2>2. /\ pc' \in [Threads -> {"idle", "waiting", "locked", "started", "loaded", "processed"}]
        /\ result' \in [Threads -> {"none", "ok", "error"}]
    BY <2>1 DEF TypeOK
  <2>3. request' \in [Threads -> Requests]
    BY <2>1 DEF TypeOK
  <2> QED BY <2>1, <2>2, <2>3 DEF TypeOK, database
<1>4. ASSUME NEW t \in Threads, Acquire(t) PROVE TypeOK'
  BY <1>4 DEF TypeOK, Acquire, database, locals
<1>5. ASSUME NEW t \in Threads, LoadCursor(t) PROVE TypeOK'
  <2>1. Scope(t) \in Scopes
    BY RequestFields DEF TypeOK, Scope
  <2> QED BY <1>5, <2>1 DEF TypeOK, LoadCursor, database
<1>6. ASSUME NEW t \in Threads, LoadEvents(t) PROVE TypeOK'
  BY <1>6 DEF TypeOK, LoadEvents, database
<1>7. ASSUME NEW t \in Threads, ReturnNothingToDo(t) PROVE TypeOK'
  <2>1. Return(t, "ok") /\ UNCHANGED database
    BY <1>7 DEF ReturnNothingToDo
  <2> QED BY <2>1, ReturnType DEF TypeOK, database
<1>8. ASSUME NEW t \in Threads, CommitCursor(t) PROVE TypeOK'
  <2>1. /\ cursors' = [cursors EXCEPT ![Scope(t)] = Batch(t).nextCursor]
        /\ skipped' = [skipped EXCEPT ![Scope(t)] = @ \cup PassedOver(t, Batch(t).nextCursor)]
        /\ Return(t, "ok")
        /\ UNCHANGED <<events, summaries>>
    BY <1>8 DEF CommitCursor
  <2> QED BY <2>1, ReturnType, CommitType DEF TypeOK
<1>9. ASSUME NEW t \in Threads, Process(t) PROVE TypeOK'
  BY <1>9 DEF TypeOK, Process, database
<1>10. ASSUME NEW t \in Threads, Commit(t) PROVE TypeOK'
  <2> DEFINE row == [agentId |-> request[t].agentId, sessionId |-> request[t].sessionId,
                     events |-> Batch(t).events]
  <2>1. /\ summaries' = Append(summaries, row)
        /\ cursors' = [cursors EXCEPT ![Scope(t)] = Batch(t).nextCursor]
        /\ skipped' = [skipped EXCEPT ![Scope(t)] = @ \cup PassedOver(t, Batch(t).nextCursor)]
        /\ Return(t, "ok")
        /\ UNCHANGED events
    BY <1>10 DEF Commit
  <2>2. request[t] \in Requests
    BY DEF TypeOK
  <2>3. row \in [agentId : Agents, sessionId : Sessions \cup {NoSession}, events : SUBSET Nat]
    BY <2>2, RequestFields, BatchFacts
  <2>4. summaries' \in Seq([agentId : Agents, sessionId : Sessions \cup {NoSession},
                            events : SUBSET Nat])
    BY <2>1, <2>3 DEF TypeOK
  <2> QED BY <2>1, <2>4, ReturnType, CommitType DEF TypeOK
<1>11. ASSUME NEW t \in Threads, Fail(t) PROVE TypeOK'
  <2>1. Return(t, "error") /\ UNCHANGED database
    BY <1>11 DEF Fail
  <2> QED BY <2>1, ReturnType DEF TypeOK, database
<1>12. ASSUME NEW r \in Runtimes, Crash(r) PROVE TypeOK'
  BY <1>12, AnyRequestType DEF TypeOK, Crash, database
<1> QED
  BY <1>1, <1>2, <1>3, <1>4, <1>5, <1>6, <1>7, <1>8, <1>9, <1>10, <1>11, <1>12
     DEF Next, Proceed

\* Every table, lock and local of the consolidation keeps its type, in every
\* run of any number of runtimes and threads.
THEOREM TypeCorrect == Spec => []TypeOK
<1>1. Init => TypeOK
  BY AnyRequestType DEF Init, TypeOK
<1> QED
  BY <1>1, TypeStep, PTL DEF Spec

-----------------------------------------------------------------------------
(* NoEventLost.  By itself it is not inductive: a commit of t extends what *)
(* was done up to the cursor t loaded, which another run may have replaced *)
(* since.  The invariant therefore also says that everything up to a       *)
(* running thread's own start cursor is done; that stays true because      *)
(* summaries are only added and the log only grows.                        *)

Running(t) == pc[t] \in {"started", "loaded", "processed"}

WithinLog ==
    /\ \A s \in Scopes : cursors[s] <= Len(events)
    /\ \A t \in Threads : startCursor[t] <= Len(events) /\ snapshot[t] <= Len(events)

StartIsDone ==
    \A t \in Threads : Running(t) =>
        Done(events, summaries, skipped[Scope(t)], Scope(t), startCursor[t])

NoLossInv == TypeOK /\ WithinLog /\ NoEventLost /\ StartIsDone

\* A new summary digests what it says and keeps what the others digest.
LEMMA DigestedAppend ==
    ASSUME NEW Rows, NEW rows \in Seq(Rows), NEW row \in Rows, NEW s, NEW i,
           \/ DigestedBy(rows, s, i)
           \/ <<row.agentId, row.sessionId>> = s /\ i \in row.events
    PROVE  DigestedBy(Append(rows, row), s, i)
<1>1. CASE DigestedBy(rows, s, i)
  <2>1. PICK k \in 1..Len(rows) : <<rows[k].agentId, rows[k].sessionId>> = s /\ i \in rows[k].events
    BY <1>1 DEF DigestedBy
  <2>2. k \in 1..Len(Append(rows, row)) /\ Append(rows, row)[k] = rows[k]
    OBVIOUS
  <2> QED BY <2>1, <2>2 DEF DigestedBy
<1>2. CASE <<row.agentId, row.sessionId>> = s /\ i \in row.events
  <2>1. /\ Len(rows) + 1 \in 1..Len(Append(rows, row))
        /\ Append(rows, row)[Len(rows) + 1] = row
    OBVIOUS
  <2> QED BY <1>2, <2>1 DEF DigestedBy
<1> QED BY <1>1, <1>2

\* What is done stays done when summaries and passed-over events are added.
LEMMA DoneIsStable ==
    ASSUME NEW log, NEW rows, NEW moreRows, NEW passed, NEW morePassed, NEW s, NEW n,
           Done(log, rows, passed, s, n),
           \A i : DigestedBy(rows, s, i) => DigestedBy(moreRows, s, i),
           passed \subseteq morePassed
    PROVE  Done(log, moreRows, morePassed, s, n)
  BY DEF Done

\* An appended event gets an id above every cursor, so nothing is undone.
LEMMA DoneUnderAppend ==
    ASSUME NEW log \in Seq(Events), NEW event \in Events, NEW rows, NEW passed,
           NEW s, NEW n \in Nat, n <= Len(log), Done(log, rows, passed, s, n)
    PROVE  Done(Append(log, event), rows, passed, s, n)
<1> SUFFICES ASSUME NEW i \in 1..Len(Append(log, event)), i <= n,
                    InScope(Append(log, event)[i], s[1], s[2]),
                    Append(log, event)[i].type = Message
             PROVE  DigestedBy(rows, s, i) \/ i \in passed
  BY DEF Done
<1>1. i \in 1..Len(log) /\ Append(log, event)[i] = log[i]
  OBVIOUS
<1> QED BY <1>1 DEF Done

\* The heart of the argument.  When everything up to the start cursor of t is
\* done, then after t commits everything up to its new cursor is: an event in
\* between is in the batch unless its session is excluded.
LEMMA CommitExtendsDone ==
    ASSUME TypeOK, WithinLog, NEW t \in Threads,
           Done(events, summaries, skipped[Scope(t)], Scope(t), startCursor[t]),
           NEW rows,
           \A i : DigestedBy(summaries, Scope(t), i) => DigestedBy(rows, Scope(t), i),
           \A i \in Batch(t).events : DigestedBy(rows, Scope(t), i)
    PROVE  Done(events, rows,
                skipped[Scope(t)] \cup PassedOver(t, Batch(t).nextCursor),
                Scope(t), Batch(t).nextCursor)
<1> DEFINE next == Batch(t).nextCursor
           start == startCursor[t]
           req == request[t]
<1>1. /\ next \in 0..snapshot[t] /\ start \in Nat /\ snapshot[t] \in Nat
      /\ \A i \in Eligible(events, req, Loaded(t)) : i <= next => i \in Batch(t).events
  BY BatchFacts DEF TypeOK
<1>2. next \in Nat
  BY <1>1, SMT
<1> SUFFICES ASSUME NEW i \in 1..Len(events), i <= next,
                    InScope(events[i], Scope(t)[1], Scope(t)[2]), events[i].type = Message
             PROVE  DigestedBy(rows, Scope(t), i) \/ i \in skipped[Scope(t)] \cup PassedOver(t, next)
  BY DEF Done
<1>3. CASE i <= start
  BY <1>3 DEF Done
<1>4. InScope(events[i], req.agentId, req.sessionId)
  BY DEF Scope
<1>5. CASE ~(i <= start) /\ events[i].sessionId \in req.excludedSessionIds
  <2>1. i \in 1..next /\ i > start
    BY <1>1, <1>2, <1>5
  <2> QED BY <1>4, <1>5, <2>1 DEF PassedOver
<1>6. CASE ~(i <= start) /\ events[i].sessionId \notin req.excludedSessionIds
  <2>1. i \in 1..snapshot[t] /\ i > start
    BY <1>1, <1>2, <1>6
  <2>2. i \in Loaded(t)
    BY <1>4, <1>6, <2>1 DEF Loaded, LoadEventsAfterCursor
  <2>3. i \in Eligible(events, req, Loaded(t))
    BY <1>4, <1>6, <2>2 DEF Eligible, InScope
  <2>4. i \in Batch(t).events
    BY <1>1, <2>3
  <2> QED BY <2>4
<1> QED BY <1>3, <1>5, <1>6

\* Cursors and snapshots never run ahead of the log: ids are handed out by
\* AppendEvent only.
LEMMA WithinLogStep == TypeOK /\ WithinLog /\ [Next]_vars => WithinLog'
<1> SUFFICES ASSUME TypeOK, WithinLog, [Next]_vars PROVE WithinLog'
  OBVIOUS
<1> USE DEF TypeOK, WithinLog
<1>1. CASE UNCHANGED vars
  BY <1>1 DEF vars, database, locals
<1>2. ASSUME NEW r \in Runtimes, NEW event \in Events, AppendEvent(r, event) PROVE WithinLog'
  BY <1>2 DEF AppendEvent, locals
<1>3. ASSUME NEW t \in Threads, NEW req \in Requests, Call(t, req) PROVE WithinLog'
  <2>1. UNCHANGED <<events, cursors, startCursor, snapshot>>
    BY <1>3 DEF Call, database
  <2> QED BY <2>1
<1>4. ASSUME NEW t \in Threads, Acquire(t) \/ Process(t) PROVE WithinLog'
  BY <1>4 DEF Acquire, Process, database, locals
<1>5. ASSUME NEW t \in Threads, LoadCursor(t) PROVE WithinLog'
  <2>1. Scope(t) \in Scopes
    BY RequestFields DEF Scope
  <2> QED BY <1>5, <2>1 DEF LoadCursor, database
<1>6. ASSUME NEW t \in Threads, LoadEvents(t) PROVE WithinLog'
  BY <1>6 DEF LoadEvents, database
<1>7. ASSUME NEW t \in Threads, ReturnNothingToDo(t) \/ Fail(t) PROVE WithinLog'
  <2>1. /\ startCursor' = [startCursor EXCEPT ![t] = 0]
        /\ snapshot' = [snapshot EXCEPT ![t] = 0]
        /\ events' = events /\ cursors' = cursors
    BY <1>7, Zenon DEF ReturnNothingToDo, Fail, Return, database
  <2> QED BY <2>1
<1>8. ASSUME NEW t \in Threads, CommitCursor(t) \/ Commit(t) PROVE WithinLog'
  <2>1. /\ cursors' = [cursors EXCEPT ![Scope(t)] = Batch(t).nextCursor]
        /\ startCursor' = [startCursor EXCEPT ![t] = 0]
        /\ snapshot' = [snapshot EXCEPT ![t] = 0]
        /\ events' = events
    BY <1>8 DEF CommitCursor, Commit, Return
  <2>2. Batch(t).nextCursor <= Len(events)
    <3>1. Batch(t).nextCursor \in 0..snapshot[t]
      BY BatchFacts
    <3> QED BY <3>1
  <2> QED BY <2>1, <2>2
<1>9. ASSUME NEW r \in Runtimes, Crash(r) PROVE WithinLog'
  BY <1>9 DEF Crash, database
<1> QED
  BY <1>1, <1>2, <1>3, <1>4, <1>5, <1>6, <1>7, <1>8, <1>9 DEF Next, Proceed

\* A step that leaves the database alone and starts no thread.
LEMMA NoLossQuiet ==
    ASSUME NoEventLost, StartIsDone, UNCHANGED database,
           \A u \in Threads : Running(u)' =>
               /\ Running(u)
               /\ request'[u] = request[u]
               /\ startCursor'[u] = startCursor[u]
    PROVE  NoEventLost' /\ StartIsDone'
<1>1. /\ events' = events /\ cursors' = cursors
      /\ summaries' = summaries /\ skipped' = skipped
  BY DEF database
<1>2. NoEventLost'
  BY <1>1 DEF NoEventLost
<1>3. ASSUME NEW u \in Threads, Running(u)'
      PROVE  Done(events, summaries, skipped[Scope(u)], Scope(u), startCursor[u])'
  <2>1. Running(u) /\ request'[u] = request[u] /\ startCursor'[u] = startCursor[u]
    BY <1>3
  <2>2. Scope(u)' = Scope(u)
    BY <2>1 DEF Scope
  <2>3. Done(events, summaries, skipped[Scope(u)], Scope(u), startCursor[u])
    BY <2>1 DEF StartIsDone
  <2> QED BY <1>1, <2>1, <2>2, <2>3
<1> QED BY <1>2, <1>3 DEF StartIsDone

\* A commit of t, with an empty batch or not.
LEMMA NoLossCommit ==
    ASSUME NoLossInv, NEW t \in Threads, Running(t), Return(t, "ok"),
           cursors' = [cursors EXCEPT ![Scope(t)] = Batch(t).nextCursor],
           skipped' = [skipped EXCEPT ![Scope(t)] = @ \cup PassedOver(t, Batch(t).nextCursor)],
           events' = events,
           \A s, i : DigestedBy(summaries, s, i) => DigestedBy(summaries', s, i),
           \A i \in Batch(t).events : DigestedBy(summaries', Scope(t), i)
    PROVE  NoEventLost' /\ StartIsDone'
<1> USE DEF NoLossInv
<1>1. Scope(t) \in Scopes
  BY RequestFields DEF TypeOK, Scope
<1>2. \A s \in Scopes : skipped[s] \subseteq skipped'[s]
  BY <1>1 DEF TypeOK
<1>3. ASSUME NEW s \in Scopes, NEW n, Done(events, summaries, skipped[s], s, n)
      PROVE  Done(events', summaries', skipped'[s], s, n)
  BY <1>2, <1>3, DoneIsStable
<1>4. Done(events, summaries', skipped[Scope(t)] \cup PassedOver(t, Batch(t).nextCursor),
           Scope(t), Batch(t).nextCursor)
  <2>1. Done(events, summaries, skipped[Scope(t)], Scope(t), startCursor[t])
    BY DEF StartIsDone
  <2> QED BY <2>1, CommitExtendsDone
<1>5. ASSUME NEW s \in Scopes PROVE Done(events', summaries', skipped'[s], s, cursors'[s])
  <2>1. CASE s = Scope(t)
    <3>1. /\ skipped'[s] = skipped[Scope(t)] \cup PassedOver(t, Batch(t).nextCursor)
          /\ cursors'[s] = Batch(t).nextCursor
      BY <1>1, <2>1 DEF TypeOK
    <3> QED BY <1>4, <2>1, <3>1
  <2>2. CASE s # Scope(t)
    <3>1. cursors'[s] = cursors[s]
      BY <2>2 DEF TypeOK
    <3>2. Done(events, summaries, skipped[s], s, cursors[s])
      BY DEF NoEventLost
    <3> QED BY <1>3, <3>1, <3>2
  <2> QED BY <2>1, <2>2
<1>6. ASSUME NEW u \in Threads, Running(u)'
      PROVE  Done(events, summaries, skipped[Scope(u)], Scope(u), startCursor[u])'
  <2>1. u # t
    BY <1>6 DEF Return, Running, TypeOK
  <2>2. Running(u) /\ request'[u] = request[u] /\ startCursor'[u] = startCursor[u]
    BY <1>6, <2>1 DEF Return, Running, TypeOK
  <2>3. Scope(u)' = Scope(u) /\ Scope(u) \in Scopes
    BY <2>2, RequestFields DEF Scope, TypeOK
  <2>4. Done(events, summaries, skipped[Scope(u)], Scope(u), startCursor[u])
    BY <2>2 DEF StartIsDone
  <2> QED BY <1>3, <2>2, <2>3, <2>4
<1> QED
  BY <1>5, <1>6 DEF NoEventLost, StartIsDone

\* Every action preserves the invariant behind NoEventLost.
LEMMA NoLossStep == NoLossInv /\ [Next]_vars => NoLossInv'
<1> SUFFICES ASSUME NoLossInv, [Next]_vars PROVE NoEventLost' /\ StartIsDone'
  BY TypeStep, WithinLogStep DEF NoLossInv
<1> USE DEF NoLossInv
<1>1. CASE UNCHANGED vars
  <2>1. UNCHANGED database /\ UNCHANGED <<pc, request, startCursor>>
    BY <1>1 DEF vars, locals
  <2> QED BY <2>1, NoLossQuiet DEF Running
<1>2. ASSUME NEW r \in Runtimes, NEW event \in Events, AppendEvent(r, event)
      PROVE  NoEventLost' /\ StartIsDone'
  <2>1. /\ events' = Append(events, event)
        /\ UNCHANGED <<cursors, summaries, skipped, pc, request, startCursor>>
    BY <1>2 DEF AppendEvent, locals
  <2>2. ASSUME NEW s \in Scopes
        PROVE  Done(events', summaries', skipped'[s], s, cursors'[s])
    <3>1. cursors[s] \in Nat /\ cursors[s] <= Len(events) /\ events \in Seq(Events)
      BY DEF TypeOK, WithinLog
    <3>2. Done(events, summaries, skipped[s], s, cursors[s])
      BY DEF NoEventLost
    <3> QED BY <2>1, <3>1, <3>2, DoneUnderAppend
  <2>3. ASSUME NEW u \in Threads, Running(u)'
        PROVE  Done(events, summaries, skipped[Scope(u)], Scope(u), startCursor[u])'
    <3>1. startCursor[u] \in Nat /\ startCursor[u] <= Len(events) /\ events \in Seq(Events)
      BY DEF TypeOK, WithinLog
    <3>2. Running(u) /\ Scope(u)' = Scope(u)
      BY <2>1, <2>3 DEF Running, Scope
    <3>3. Done(events, summaries, skipped[Scope(u)], Scope(u), startCursor[u])
      BY <3>2 DEF StartIsDone
    <3> QED BY <2>1, <3>1, <3>2, <3>3, DoneUnderAppend
  <2> QED BY <2>2, <2>3 DEF NoEventLost, StartIsDone
<1>3. ASSUME NEW t \in Threads, NEW req \in Requests, Call(t, req)
      PROVE  NoEventLost' /\ StartIsDone'
  <2>1. /\ UNCHANGED <<database, startCursor>>
        /\ \/ pc' = [pc EXCEPT ![t] = "waiting"] /\ request' = [request EXCEPT ![t] = req]
           \/ UNCHANGED <<pc, request>>
    BY <1>3, Zenon DEF Call
  <2>2. ASSUME NEW u \in Threads, Running(u)'
        PROVE  Running(u) /\ request'[u] = request[u] /\ startCursor'[u] = startCursor[u]
    BY <2>1, <2>2 DEF Running, TypeOK
  <2> QED BY <2>1, <2>2, NoLossQuiet
<1>4. ASSUME NEW t \in Threads, Acquire(t) \/ LoadEvents(t) \/ Process(t)
      PROVE  NoEventLost' /\ StartIsDone'
  <2>1. /\ UNCHANGED <<database, request, startCursor>>
        /\ \/ pc' = [pc EXCEPT ![t] = "locked"]
           \/ Running(t) /\ \E p \in {"loaded", "processed"} : pc' = [pc EXCEPT ![t] = p]
    BY <1>4 DEF Acquire, LoadEvents, Process, Running, locals
  <2>2. ASSUME NEW u \in Threads, Running(u)'
        PROVE  Running(u) /\ request'[u] = request[u] /\ startCursor'[u] = startCursor[u]
    BY <2>1, <2>2 DEF Running, TypeOK
  <2> QED BY <2>1, <2>2, NoLossQuiet
<1>5. ASSUME NEW t \in Threads, LoadCursor(t)
      PROVE  NoEventLost' /\ StartIsDone'
  <2>1. /\ UNCHANGED <<events, cursors, summaries, skipped, request>>
        /\ startCursor' = [startCursor EXCEPT ![t] =
                              IF request[t].forceReprocess THEN 0 ELSE cursors[Scope(t)]]
        /\ pc' = [pc EXCEPT ![t] = "started"]
    BY <1>5 DEF LoadCursor, database
  <2>2. NoEventLost'
    BY <2>1 DEF NoEventLost
  <2>3. ASSUME NEW u \in Threads, Running(u)'
        PROVE  Done(events, summaries, skipped[Scope(u)], Scope(u), startCursor[u])'
    <3>1. Scope(u)' = Scope(u) /\ Scope(u) \in Scopes
      BY <2>1, RequestFields DEF Scope, TypeOK
    <3>2. CASE u # t
      <4>1. Running(u) /\ startCursor'[u] = startCursor[u]
        BY <2>1, <2>3, <3>2 DEF Running, TypeOK
      <4>2. Done(events, summaries, skipped[Scope(u)], Scope(u), startCursor[u])
        BY <4>1 DEF StartIsDone
      <4> QED BY <2>1, <3>1, <4>1, <4>2
    <3>3. CASE u = t /\ request[t].forceReprocess
      <4>1. startCursor'[u] = 0
        BY <2>1, <3>3 DEF TypeOK
      <4>2. Done(events, summaries, skipped[Scope(u)], Scope(u), 0)
        BY DEF Done
      <4> QED BY <2>1, <3>1, <4>1, <4>2
    <3>4. CASE u = t /\ ~request[t].forceReprocess
      <4>1. startCursor'[u] = cursors[Scope(u)]
        BY <2>1, <3>4 DEF TypeOK
      <4>2. Done(events, summaries, skipped[Scope(u)], Scope(u), cursors[Scope(u)])
        BY <3>1 DEF NoEventLost
      <4> QED BY <2>1, <3>1, <4>1, <4>2
    <3> QED BY <3>2, <3>3, <3>4
  <2> QED BY <2>2, <2>3 DEF StartIsDone
<1>6. ASSUME NEW t \in Threads, ReturnNothingToDo(t) \/ Fail(t)
      PROVE  NoEventLost' /\ StartIsDone'
  <2>1. /\ UNCHANGED database
        /\ pc' = [pc EXCEPT ![t] = "idle"]
        /\ request' = [request EXCEPT ![t] = AnyRequest]
        /\ startCursor' = [startCursor EXCEPT ![t] = 0]
    BY <1>6, Zenon DEF ReturnNothingToDo, Fail, Return
  <2>2. ASSUME NEW u \in Threads, Running(u)'
        PROVE  Running(u) /\ request'[u] = request[u] /\ startCursor'[u] = startCursor[u]
    BY <2>1, <2>2 DEF Running, TypeOK
  <2> QED BY <2>1, <2>2, NoLossQuiet
<1>7. ASSUME NEW t \in Threads, CommitCursor(t)
      PROVE  NoEventLost' /\ StartIsDone'
  <2>1. /\ Running(t) /\ Batch(t).events = {}
        /\ cursors' = [cursors EXCEPT ![Scope(t)] = Batch(t).nextCursor]
        /\ skipped' = [skipped EXCEPT ![Scope(t)] = @ \cup PassedOver(t, Batch(t).nextCursor)]
        /\ Return(t, "ok")
        /\ events' = events /\ summaries' = summaries
    BY <1>7 DEF CommitCursor, Running
  <2> QED BY <2>1, NoLossCommit
<1>8. ASSUME NEW t \in Threads, Commit(t)
      PROVE  NoEventLost' /\ StartIsDone'
  <2> DEFINE row == [agentId |-> request[t].agentId, sessionId |-> request[t].sessionId,
                     events |-> Batch(t).events]
             Rows == [agentId : Agents, sessionId : Sessions \cup {NoSession}, events : SUBSET Nat]
  <2>1. /\ Running(t)
        /\ summaries' = Append(summaries, row)
        /\ cursors' = [cursors EXCEPT ![Scope(t)] = Batch(t).nextCursor]
        /\ skipped' = [skipped EXCEPT ![Scope(t)] = @ \cup PassedOver(t, Batch(t).nextCursor)]
        /\ Return(t, "ok")
        /\ events' = events
    BY <1>8 DEF Commit, Running
  <2>2. request[t] \in Requests /\ summaries \in Seq(Rows)
    BY DEF TypeOK
  <2>3. row \in Rows /\ <<row.agentId, row.sessionId>> = Scope(t) /\ row.events = Batch(t).events
    BY <2>2, RequestFields, BatchFacts DEF Scope
  <2> HIDE DEF row, Rows
  <2>4. \A s, i : DigestedBy(summaries, s, i) => DigestedBy(summaries', s, i)
    BY <2>1, <2>2, <2>3, DigestedAppend
  <2>5. \A i \in Batch(t).events : DigestedBy(summaries', Scope(t), i)
    BY <2>1, <2>2, <2>3, DigestedAppend
  <2> QED BY <2>1, <2>4, <2>5, NoLossCommit
<1>9. ASSUME NEW r \in Runtimes, Crash(r)
      PROVE  NoEventLost' /\ StartIsDone'
  <2>1. ASSUME NEW u \in Threads, Running(u)'
        PROVE  Running(u) /\ request'[u] = request[u] /\ startCursor'[u] = startCursor[u]
    BY <1>9, <2>1 DEF Crash, Running
  <2> QED BY <1>9, <2>1, NoLossQuiet DEF Crash
<1> QED
  BY <1>1, <1>2, <1>3, <1>4, <1>5, <1>6, <1>7, <1>8, <1>9 DEF Next, Proceed

\* No message at or below a saved cursor is missing from long-term memory
\* unless its session was excluded, for any number of runtimes on one
\* database, any mix of incremental and forced requests, and any failures.
THEOREM NothingLost == Spec => []NoEventLost
<1>1. Init => NoLossInv
  <2> SUFFICES ASSUME Init PROVE NoLossInv
    OBVIOUS
  <2>1. TypeOK
    BY AnyRequestType DEF Init, TypeOK
  <2>2. WithinLog /\ NoEventLost /\ StartIsDone
    BY DEF Init, WithinLog, NoEventLost, StartIsDone, Running, Done
  <2> QED BY <2>1, <2>2 DEF NoLossInv
<1>2. NoLossInv => NoEventLost
  BY DEF NoLossInv
<1> QED
  BY <1>1, <1>2, NoLossStep, PTL DEF Spec

-----------------------------------------------------------------------------
(* One runtime: the mutex makes the loaded cursor current at the commit.   *)

Holding(t) == pc[t] = "locked" \/ Running(t)

MutexHeld == \A t \in Threads : Holding(t) => consolidationMutex[RuntimeOf[t]] = t

FreshInv == TypeOK /\ MutexHeld /\ StartCursorFresh

\* Two threads of one runtime are never both inside the critical section.
LEMMA OneHolder ==
    ASSUME FreshInv, SoleRuntime, NEW t \in Threads, NEW u \in Threads, Holding(t), Holding(u)
    PROVE  t = u
<1>1. RuntimeOf[t] = RuntimeOf[u]
  BY DEF SoleRuntime
<1> QED BY <1>1 DEF FreshInv, MutexHeld

\* consolidationMutex has the owner that is inside Consolidate, and no other.
LEMMA MutexStep == TypeOK /\ MutexHeld /\ [Next]_vars => MutexHeld'
<1> SUFFICES ASSUME TypeOK, MutexHeld, [Next]_vars PROVE MutexHeld'
  OBVIOUS
<1> USE DEF TypeOK, MutexHeld, Holding, Running
<1>1. CASE UNCHANGED vars
  BY <1>1 DEF vars
<1>2. ASSUME NEW r \in Runtimes, NEW event \in Events, AppendEvent(r, event) PROVE MutexHeld'
  BY <1>2 DEF AppendEvent
<1>3. ASSUME NEW t \in Threads, NEW req \in Requests, Call(t, req) PROVE MutexHeld'
  <2>1. /\ UNCHANGED consolidationMutex
        /\ pc' = [pc EXCEPT ![t] = "waiting"] \/ UNCHANGED pc
    BY <1>3, Zenon DEF Call
  <2> QED BY <2>1
<1>4. ASSUME NEW t \in Threads, Acquire(t) PROVE MutexHeld'
  BY <1>4 DEF Acquire
<1>5. ASSUME NEW t \in Threads, LoadCursor(t) \/ LoadEvents(t) \/ Process(t) PROVE MutexHeld'
  BY <1>5 DEF LoadCursor, LoadEvents, Process
<1>6. ASSUME NEW t \in Threads,
             ReturnNothingToDo(t) \/ CommitCursor(t) \/ Commit(t) \/ Fail(t)
      PROVE  MutexHeld'
  <2>1. /\ Holding(t)
        /\ consolidationMutex' = [consolidationMutex EXCEPT ![RuntimeOf[t]] = NoThread]
        /\ pc' = [pc EXCEPT ![t] = "idle"]
    BY <1>6, Zenon DEF ReturnNothingToDo, CommitCursor, Commit, Fail, Return
  <2>2. ASSUME NEW u \in Threads, Holding(u)'
        PROVE  consolidationMutex'[RuntimeOf[u]] = u
    <3>1. u # t /\ Holding(u)
      BY <2>1, <2>2
    <3>2. RuntimeOf[u] # RuntimeOf[t]
      BY <2>1, <3>1
    <3> QED BY <2>1, <3>1, <3>2
  <2> QED BY <2>2
<1>7. ASSUME NEW r \in Runtimes, Crash(r) PROVE MutexHeld'
  BY <1>7 DEF Crash
<1> QED
  BY <1>1, <1>2, <1>3, <1>4, <1>5, <1>6, <1>7 DEF Next, Proceed

\* Only the holder of the mutex moves a cursor of its scope (one runtime).
LEMMA FreshStep == FreshInv /\ [Next]_vars => FreshInv'
<1> SUFFICES ASSUME FreshInv, [Next]_vars, SoleRuntime,
                    NEW u \in Threads, Running(u)'
             PROVE  startCursor'[u] = IF request'[u].forceReprocess THEN 0 ELSE cursors'[Scope(u)']
  BY TypeStep, MutexStep DEF FreshInv, StartCursorFresh, Running
\* A step that keeps the cursors and what u works with.
<1> DEFINE Same == /\ Running(u) /\ request'[u] = request[u]
                   /\ startCursor'[u] = startCursor[u] /\ cursors' = cursors
           Fresh == startCursor'[u] = IF request'[u].forceReprocess THEN 0 ELSE cursors'[Scope(u)']
<1>q. ASSUME Same PROVE Fresh
  BY <1>q DEF FreshInv, StartCursorFresh, Running, Scope
<1> USE DEF FreshInv, TypeOK
<1>1. CASE UNCHANGED vars
  BY <1>1, <1>q DEF vars, database, locals, Running
<1>2. ASSUME NEW r \in Runtimes, NEW event \in Events, AppendEvent(r, event) PROVE Same
  BY <1>2 DEF AppendEvent, locals, Running
<1>3. ASSUME NEW t \in Threads, NEW req \in Requests, Call(t, req) PROVE Same
  <2>1. /\ UNCHANGED <<cursors, startCursor>>
        /\ \/ pc' = [pc EXCEPT ![t] = "waiting"] /\ request' = [request EXCEPT ![t] = req]
           \/ UNCHANGED <<pc, request>>
    BY <1>3, Zenon DEF Call, database
  <2> QED BY <2>1 DEF Running
<1>4. ASSUME NEW t \in Threads, Acquire(t) \/ LoadEvents(t) \/ Process(t) PROVE Same
  BY <1>4 DEF Acquire, LoadEvents, Process, Running, database, locals
<1>5. ASSUME NEW t \in Threads, LoadCursor(t) PROVE Fresh
  <2>1. /\ UNCHANGED <<cursors, request>>
        /\ startCursor' = [startCursor EXCEPT ![t] =
                              IF request[t].forceReprocess THEN 0 ELSE cursors[Scope(t)]]
        /\ pc' = [pc EXCEPT ![t] = "started"]
        /\ Holding(t)
    BY <1>5 DEF LoadCursor, database, Holding
  <2>2. CASE u = t
    BY <2>1, <2>2 DEF Scope
  <2>3. CASE u # t
    BY <2>1, <2>3, <1>q DEF Running
  <2> QED BY <2>2, <2>3
<1>6. ASSUME NEW t \in Threads,
             ReturnNothingToDo(t) \/ CommitCursor(t) \/ Commit(t) \/ Fail(t)
      PROVE  Same
  <2>1. /\ Holding(t)
        /\ pc' = [pc EXCEPT ![t] = "idle"]
        /\ request' = [request EXCEPT ![t] = AnyRequest]
        /\ startCursor' = [startCursor EXCEPT ![t] = 0]
    BY <1>6, Zenon DEF ReturnNothingToDo, CommitCursor, Commit, Fail, Return, Holding, Running
  <2>2. u # t /\ Running(u) /\ request'[u] = request[u]
    BY <2>1 DEF Running
  <2>3. Holding(u)
    BY <2>2 DEF Holding
  <2> QED BY <2>1, <2>2, <2>3, OneHolder
<1>7. ASSUME NEW r \in Runtimes, Crash(r) PROVE Same
  BY <1>7 DEF Crash, Running, database
<1> HIDE DEF Same
<1> QED
  BY <1>1, <1>2, <1>3, <1>4, <1>5, <1>6, <1>7, <1>q DEF Next, Proceed

\* The freshness invariant holds in every reachable state.
LEMMA FreshAlways == Spec => []FreshInv
<1>1. Init => FreshInv
  <2> SUFFICES ASSUME Init PROVE FreshInv
    OBVIOUS
  <2>1. TypeOK
    BY AnyRequestType DEF Init, TypeOK
  <2>2. MutexHeld /\ StartCursorFresh
    BY DEF Init, MutexHeld, StartCursorFresh, Holding, Running
  <2> QED BY <2>1, <2>2 DEF FreshInv
<1> QED
  BY <1>1, FreshStep, PTL DEF Spec

\* With one runtime, no commit is based on a cursor that another run has
\* replaced since it was loaded, however long the model call takes.
THEOREM CursorStaysFresh == Spec => []StartCursorFresh
<1>1. FreshInv => StartCursorFresh
  BY DEF FreshInv
<1> QED
  BY <1>1, FreshAlways, PTL

-----------------------------------------------------------------------------
(* What a run found when it loaded its events is what it commits.          *)

ProcessedNotEmpty == \A t \in Threads : pc[t] = "processed" => Batch(t).events # {}

\* Nothing another actor does changes the batch of a thread in mid-run.
LEMMA BatchUnchanged ==
    ASSUME TypeOK, WithinLog, NEW t \in Threads,
           request'[t] = request[t], startCursor'[t] = startCursor[t], snapshot'[t] = snapshot[t],
           events' = events \/ \E event \in Events : events' = Append(events, event)
    PROVE  Batch(t)' = Batch(t)
<1>1. \A i \in 1..snapshot[t] : events'[i] = events[i]
  BY DEF TypeOK, WithinLog
<1>2. snapshot[t] \in Nat
  BY DEF TypeOK
<1>3. Build(events', request[t], LoadEventsAfterCursor(events', snapshot[t], request[t], startCursor[t]))
        = Build(events, request[t], LoadEventsAfterCursor(events, snapshot[t], request[t], startCursor[t]))
  BY <1>1, <1>2, BuildIgnoresLaterEvents
<1> QED
  BY <1>3 DEF Batch, Loaded

RunInv == FreshInv /\ WithinLog /\ ProcessedNotEmpty

\* A run in its transaction still has the batch it built, and it is not empty.
LEMMA RunStep == RunInv /\ [Next]_vars => RunInv'
<1> SUFFICES ASSUME RunInv, [Next]_vars, NEW u \in Threads, pc'[u] = "processed"
             PROVE  Batch(u)'.events # {}
  BY FreshStep, WithinLogStep DEF RunInv, FreshInv, ProcessedNotEmpty
<1> USE DEF RunInv, FreshInv, TypeOK
<1> DEFINE Same == /\ Batch(u).events # {}
                   /\ request'[u] = request[u] /\ startCursor'[u] = startCursor[u]
                   /\ snapshot'[u] = snapshot[u]
                   /\ events' = events \/ \E event \in Events : events' = Append(events, event)
<1>q. ASSUME Same PROVE Batch(u)'.events # {}
  BY <1>q, BatchUnchanged
<1>1. CASE UNCHANGED vars
  <2>1. Same
    BY <1>1 DEF vars, database, locals, ProcessedNotEmpty
  <2> QED BY <2>1, <1>q
<1>2. ASSUME NEW r \in Runtimes, NEW event \in Events, AppendEvent(r, event) PROVE Same
  BY <1>2 DEF AppendEvent, locals, ProcessedNotEmpty
<1>3. ASSUME NEW t \in Threads, NEW req \in Requests, Call(t, req) PROVE Same
  <2>1. /\ UNCHANGED <<events, startCursor, snapshot>>
        /\ \/ pc' = [pc EXCEPT ![t] = "waiting"] /\ request' = [request EXCEPT ![t] = req]
           \/ UNCHANGED <<pc, request>>
    BY <1>3, Zenon DEF Call, database
  <2> QED BY <2>1 DEF ProcessedNotEmpty
<1>4. ASSUME NEW t \in Threads, Acquire(t) \/ LoadCursor(t) \/ LoadEvents(t) PROVE Same
  BY <1>4 DEF Acquire, LoadCursor, LoadEvents, database, locals, ProcessedNotEmpty
<1>5. ASSUME NEW t \in Threads, Process(t) PROVE Same
  BY <1>5 DEF Process, database, ProcessedNotEmpty
<1>6. ASSUME NEW t \in Threads,
             ReturnNothingToDo(t) \/ CommitCursor(t) \/ Commit(t) \/ Fail(t)
      PROVE  Same
  <2>1. /\ events' = events
        /\ pc' = [pc EXCEPT ![t] = "idle"]
        /\ request' = [request EXCEPT ![t] = AnyRequest]
        /\ startCursor' = [startCursor EXCEPT ![t] = 0]
        /\ snapshot' = [snapshot EXCEPT ![t] = 0]
    BY <1>6, Zenon DEF ReturnNothingToDo, CommitCursor, Commit, Fail, Return, database
  <2> QED BY <2>1 DEF ProcessedNotEmpty
<1>7. ASSUME NEW r \in Runtimes, Crash(r) PROVE Same
  BY <1>7 DEF Crash, database, ProcessedNotEmpty
<1> HIDE DEF Same
<1> QED
  BY <1>1, <1>2, <1>3, <1>4, <1>5, <1>6, <1>7, <1>q DEF Next, Proceed

\* RunInv holds in every reachable state.
LEMMA RunAlways == Spec => []RunInv
<1>1. Init => RunInv
  <2> SUFFICES ASSUME Init PROVE RunInv
    OBVIOUS
  <2>1. TypeOK
    BY AnyRequestType DEF Init, TypeOK
  <2>2. MutexHeld /\ StartCursorFresh /\ WithinLog /\ ProcessedNotEmpty
    BY DEF Init, MutexHeld, StartCursorFresh, Holding, Running, WithinLog, ProcessedNotEmpty
  <2> QED BY <2>1, <2>2 DEF FreshInv, RunInv
<1> QED
  BY <1>1, RunStep, PTL DEF Spec

\* What every commit does, with an empty batch or not: it was due, and it
\* moves the cursor past the one the run started from.
LEMMA CommitFacts ==
    ASSUME RunInv, NEW t \in Threads, CommitCursor(t) \/ Commit(t)
    PROVE  /\ Running(t)
           /\ Batch(t).nextCursor \in Nat /\ Batch(t).nextCursor > startCursor[t]
           /\ cursors' = [cursors EXCEPT ![Scope(t)] = Batch(t).nextCursor]
           /\ pc' = [pc EXCEPT ![t] = "idle"]
           /\ events' = events
<1> USE DEF RunInv, FreshInv, TypeOK
<1>1. /\ Running(t)
      /\ cursors' = [cursors EXCEPT ![Scope(t)] = Batch(t).nextCursor]
      /\ pc' = [pc EXCEPT ![t] = "idle"]
      /\ events' = events
      /\ Batch(t).nextCursor # 0 \/ Batch(t).events # {}
  <2>1. CASE CommitCursor(t)
    BY <2>1 DEF CommitCursor, Return, Running
  <2>2. CASE Commit(t)
    BY <2>2 DEF Commit, Return, Running, ProcessedNotEmpty
  <2> QED BY <2>1, <2>2
<1> DEFINE next == Batch(t).nextCursor
<1>2. /\ next \in 0..snapshot[t] /\ snapshot[t] \in Nat /\ startCursor[t] \in Nat
      /\ next # 0 => next > startCursor[t]
      /\ \A i \in Batch(t).events : i \in Nat /\ i > startCursor[t] /\ i <= next
  BY BatchFacts
<1>3. next \in Nat /\ next > startCursor[t]
  <2> HIDE DEF next
  <2>1. CASE next # 0
    BY <1>2, <2>1
  <2>2. CASE Batch(t).events # {}
    BY <1>2, <2>2
  <2> QED BY <1>1, <2>1, <2>2 DEF next
<1> QED
  BY <1>1, <1>3

\* With one runtime, a cursor moves back only when a forced run commits.
THEOREM CursorsRegressOnlyByForce == Spec => CursorRegressesOnlyByForce
<1> DEFINE A == SoleRuntime =>
                  \A s \in Scopes : cursors'[s] < cursors[s] =>
                      \E t \in Threads : Scope(t) = s /\ request[t].forceReprocess
                                         /\ pc[t] # "idle" /\ pc'[t] = "idle"
<1>1. RunInv /\ [Next]_vars => [A]_vars
  <2> SUFFICES ASSUME RunInv, Next, SoleRuntime, NEW s \in Scopes, cursors'[s] < cursors[s]
               PROVE  \E t \in Threads : Scope(t) = s /\ request[t].forceReprocess
                                         /\ pc[t] # "idle" /\ pc'[t] = "idle"
    BY DEF vars
  <2> USE DEF RunInv, FreshInv, TypeOK
  <2>1. cursors' # cursors
    OBVIOUS
  <2>2. PICK t \in Threads : CommitCursor(t) \/ Commit(t)
    BY <2>1, Zenon DEF Next, Proceed, AppendEvent, Call, Acquire, LoadCursor, LoadEvents,
       ReturnNothingToDo, Process, Fail, Crash, database
  <2>3. /\ Running(t)
        /\ Batch(t).nextCursor \in Nat /\ Batch(t).nextCursor > startCursor[t]
        /\ cursors' = [cursors EXCEPT ![Scope(t)] = Batch(t).nextCursor]
        /\ pc' = [pc EXCEPT ![t] = "idle"]
    BY <2>2, CommitFacts
  <2>4. s = Scope(t) /\ Batch(t).nextCursor < cursors[s]
    BY <2>3
  <2>5. request[t].forceReprocess
    <3>1. SUFFICES ASSUME ~request[t].forceReprocess PROVE FALSE
      OBVIOUS
    <3>2. startCursor[t] = cursors[s]
      BY <2>3, <2>4, <3>1 DEF StartCursorFresh, Running
    <3> QED BY <2>3, <2>4, <3>2
  <2> QED BY <2>3, <2>4, <2>5 DEF Running
<1> QED
  BY <1>1, RunAlways, PTL DEF Spec, CursorRegressesOnlyByForce

-----------------------------------------------------------------------------
(* ExactlyOnce.  Batches of a scope are disjoint because each lies above   *)
(* the cursor its run started from and every earlier one at or below it.   *)

Incremental == SoleRuntime /\ \A req \in Requests : ~req.forceReprocess

RowScope(k) == <<summaries[k].agentId, summaries[k].sessionId>>

RowsBelowCursor ==
    Incremental => \A k \in 1..Len(summaries) :
                      \A i \in summaries[k].events : i <= cursors[RowScope(k)]

OnceInv == RunInv /\ RowsBelowCursor /\ ExactlyOnce

\* Every action preserves the invariant behind ExactlyOnce.
LEMMA OnceStep == OnceInv /\ [Next]_vars => OnceInv'
<1> SUFFICES ASSUME OnceInv, [Next]_vars, Incremental PROVE RowsBelowCursor' /\ ExactlyOnce'
  BY RunStep DEF OnceInv, RowsBelowCursor, ExactlyOnce, Incremental
<1> USE DEF OnceInv, RunInv, FreshInv, TypeOK
<1>1. CASE UNCHANGED <<cursors, summaries>>
  BY <1>1 DEF RowsBelowCursor, ExactlyOnce, RowScope
<1>2. ASSUME NEW t \in Threads, CommitCursor(t) \/ Commit(t)
      PROVE  RowsBelowCursor' /\ ExactlyOnce'
  <2> DEFINE next == Batch(t).nextCursor
             row == [agentId |-> request[t].agentId, sessionId |-> request[t].sessionId,
                     events |-> Batch(t).events]
  <2>1. /\ Running(t) /\ next \in Nat /\ next > startCursor[t]
        /\ cursors' = [cursors EXCEPT ![Scope(t)] = next]
    BY <1>2, CommitFacts
  <2>2. request[t] \in Requests /\ Scope(t) \in Scopes /\ ~request[t].forceReprocess
    BY RequestFields DEF Incremental, Scope
  <2>3. startCursor[t] = cursors[Scope(t)]
    BY <2>1, <2>2 DEF StartCursorFresh, Incremental, Running
  <2>4. \A s \in Scopes : cursors[s] \in Nat /\ cursors'[s] \in Nat /\ cursors[s] <= cursors'[s]
    BY <2>1, <2>2, <2>3
  <2>5. \A k \in 1..Len(summaries) : /\ RowScope(k) \in Scopes
                                     /\ summaries[k].events \subseteq Nat
    <3> DEFINE Rows == [agentId : Agents, sessionId : Sessions \cup {NoSession}, events : SUBSET Nat]
    <3>1. summaries \in Seq(Rows)
      OBVIOUS
    <3>2. \A k \in 1..Len(summaries) : summaries[k] \in Rows
      <4> HIDE DEF Rows
      <4> QED BY <3>1
    <3> QED BY <3>2 DEF RowScope, Scopes
  <2>6. ASSUME NEW k \in 1..Len(summaries), NEW i \in summaries[k].events
        PROVE  i <= cursors[RowScope(k)] /\ i <= cursors'[RowScope(k)]
    <3>1. i \in Nat /\ i <= cursors[RowScope(k)]
      BY <2>5 DEF RowsBelowCursor
    <3> QED BY <2>4, <2>5, <3>1
  <2>7. CASE summaries' = summaries
    BY <2>6, <2>7 DEF RowsBelowCursor, ExactlyOnce, RowScope
  <2>8. CASE summaries' = Append(summaries, row)
    <3> DEFINE m == Len(summaries) + 1
    <3>1. /\ Len(summaries') = m /\ summaries'[m] = row
          /\ \A k \in 1..Len(summaries) : summaries'[k] = summaries[k]
      BY <2>8
    <3>2. \A i \in row.events : i \in Nat /\ i > cursors[Scope(t)] /\ i <= next
      BY <2>3, BatchFacts
    <3>3. <<row.agentId, row.sessionId>> = Scope(t) /\ cursors'[Scope(t)] = next
      BY <2>1, <2>2 DEF Scope
    <3> HIDE DEF row, next
    <3>4. ASSUME NEW k \in 1..Len(summaries'), NEW i \in summaries'[k].events
          PROVE  i <= cursors'[<<summaries'[k].agentId, summaries'[k].sessionId>>]
      <4>1. CASE k = m
        BY <3>1, <3>2, <3>3, <3>4, <4>1
      <4>2. CASE k \in 1..Len(summaries)
        BY <2>6, <3>1, <3>4, <4>2 DEF RowScope
      <4> QED BY <3>1, <4>1, <4>2
    <3>5. ASSUME NEW k \in 1..Len(summaries),
                 summaries[k].agentId = row.agentId, summaries[k].sessionId = row.sessionId
          PROVE  summaries[k].events \cap row.events = {}
      <4>1. RowScope(k) = Scope(t)
        BY <3>3, <3>5 DEF RowScope
      <4>2. ASSUME NEW i \in summaries[k].events, i \in row.events PROVE FALSE
        BY <2>2, <2>4, <2>6, <3>2, <4>1, <4>2
      <4> QED BY <4>2
    <3>6. ExactlyOnce'
      <4> SUFFICES ASSUME NEW j \in 1..Len(summaries'), NEW k \in 1..Len(summaries'), j # k,
                          summaries'[j].agentId = summaries'[k].agentId,
                          summaries'[j].sessionId = summaries'[k].sessionId
                   PROVE  summaries'[j].events \cap summaries'[k].events = {}
        BY DEF ExactlyOnce
      <4>1. CASE j \in 1..Len(summaries) /\ k \in 1..Len(summaries)
        BY <3>1, <4>1 DEF ExactlyOnce, Incremental
      <4>2. CASE j = m /\ k \in 1..Len(summaries)
        BY <3>1, <3>5, <4>2
      <4>3. CASE k = m /\ j \in 1..Len(summaries)
        BY <3>1, <3>5, <4>3
      <4> QED BY <3>1, <4>1, <4>2, <4>3
    <3> QED BY <3>4, <3>6 DEF RowsBelowCursor, RowScope
  <2> QED BY <1>2, <2>7, <2>8 DEF CommitCursor, Commit
<1>3. UNCHANGED <<cursors, summaries>> \/ \E t \in Threads : CommitCursor(t) \/ Commit(t)
  BY Zenon DEF Next, Proceed, AppendEvent, Call, Acquire, LoadCursor, LoadEvents,
     ReturnNothingToDo, Process, Fail, Crash, database, vars
<1> QED
  BY <1>1, <1>2, <1>3

\* One runtime and no forced request: no event enters two summaries of a
\* scope, through any interleaving of callers, failures and crashes.
THEOREM DigestedExactlyOnce == Spec => []ExactlyOnce
<1>1. Init => OnceInv
  <2> SUFFICES ASSUME Init PROVE OnceInv
    OBVIOUS
  <2>1. TypeOK
    BY AnyRequestType DEF Init, TypeOK
  <2>2. MutexHeld /\ StartCursorFresh /\ WithinLog /\ ProcessedNotEmpty
    BY DEF Init, MutexHeld, StartCursorFresh, Holding, Running, WithinLog, ProcessedNotEmpty
  <2>3. RowsBelowCursor /\ ExactlyOnce
    BY DEF Init, RowsBelowCursor, ExactlyOnce
  <2> QED BY <2>1, <2>2, <2>3 DEF FreshInv, RunInv, OnceInv
<1>2. OnceInv => ExactlyOnce
  BY DEF OnceInv
<1> QED
  BY <1>1, <1>2, OnceStep, PTL DEF Spec

-----------------------------------------------------------------------------
(* Refinement: with one runtime the runs are atomic.                       *)

\* Every step is a step of AtomicConsolidation or leaves its variables alone.
LEMMA AtomicStep ==
    ASSUME SoleRuntime, RunInv, [Next]_vars
    PROVE  [Atomic!Next]_<<events, cursors, summaries>>
<1> USE DEF RunInv, FreshInv, TypeOK
<1>1. CASE UNCHANGED <<events, cursors, summaries>>
  BY <1>1
<1>2. ASSUME NEW r \in Runtimes, NEW event \in Events, AppendEvent(r, event) PROVE Atomic!Next
  <2>1. Atomic!AppendEvent(event)
    BY <1>2 DEF AppendEvent, Atomic!AppendEvent
  <2> QED BY <2>1 DEF Atomic!Next, Events
<1>3. ASSUME NEW t \in Threads, CommitCursor(t) \/ Commit(t) PROVE Atomic!Next
  <2> DEFINE req == request[t]
             n == snapshot[t]
  <2>1. req \in Requests /\ n \in 0..Len(events)
    BY DEF WithinLog
  <2>2. startCursor[t] = IF req.forceReprocess THEN 0 ELSE cursors[<<req.agentId, req.sessionId>>]
    BY <1>3, CommitFacts DEF StartCursorFresh, Running, Scope
  <2>3. Atomic!AtomicBatch(req, n) = Batch(t)
    BY <2>2, Zenon DEF Atomic!AtomicBatch, Batch, Loaded
  <2>4. Batch(t).nextCursor # 0
    <3>1. startCursor[t] \in Nat /\ Batch(t).nextCursor \in Nat /\ Batch(t).nextCursor > startCursor[t]
      BY <1>3, CommitFacts
    <3> QED BY <3>1
  <2>5. Atomic!Consolidate(req, n)
    <3>1. CASE CommitCursor(t)
      BY <2>3, <2>4, <3>1 DEF CommitCursor, Atomic!Consolidate, Scope
    <3>2. CASE Commit(t)
      <4>1. Batch(t).events # {}
        BY <3>2 DEF Commit, ProcessedNotEmpty
      <4> QED BY <2>3, <2>4, <3>2, <4>1 DEF Commit, Atomic!Consolidate, Scope
    <3> QED BY <1>3, <3>1, <3>2
  <2> QED BY <2>1, <2>5 DEF Atomic!Next
<1>4. \/ UNCHANGED <<events, cursors, summaries>>
      \/ \E r \in Runtimes, event \in Events : AppendEvent(r, event)
      \/ \E t \in Threads : CommitCursor(t) \/ Commit(t)
  BY Zenon DEF Next, Proceed, Call, Acquire, LoadCursor, LoadEvents,
     ReturnNothingToDo, Process, Fail, Crash, database, vars
<1> QED
  BY <1>1, <1>2, <1>3, <1>4

\* With one runtime, Consolidate implements the atomic consolidation of
\* AtomicConsolidation under the identity mapping of the tables.
THEOREM ConsolidateIsAtomic ==
    ASSUME SoleRuntime
    PROVE  Spec => RunsAreAtomic
<1>1. Init => Atomic!Init
  BY DEF Init, Atomic!Init, Scopes
<1>2. RunInv /\ [Next]_vars => [Atomic!Next]_<<events, cursors, summaries>>
  BY AtomicStep
<1> QED
  BY <1>1, <1>2, RunAlways, PTL DEF Spec, RunsAreAtomic, Atomic!Spec
=============================================================================
