-------------------------- MODULE ModelCallProofs --------------------------
(***************************************************************************)
(* Proofs about ModelCall, for every retry setting, every set of status    *)
(* codes and bodies, and with or without exceptions.                       *)
(***************************************************************************)
EXTENDS ModelCall, TLAPS

\* Nothing the provider has said so far was an answer.
NoneFinal == \A k \in 1..Len(posts) : ~Final(posts[k])

\* The last transfer was a 2xx answer.
LastSucceeded == Len(posts) > 0 /\ Succeeded(posts[Len(posts)])

\* Where the loop of DoRequest is, compared with what it has sent.
LoopOK ==
    /\ pc \in {"post", "sleeping"} => maxRetries >= 0 /\ NoneFinal
    /\ pc = "post" => attempt <= maxRetries /\ Len(posts) = attempt
    /\ pc = "sleeping" => attempt < maxRetries /\ Len(posts) = attempt + 1

\* The response the client parses is the one of the last transfer, or the empty
\* one after transfers that were no answer; until the parsing no update exists,
\* and the rules are asked only when there is none.
ResponseOK ==
    /\ pc = "answered" => \/ response = NoResponse /\ ~LastSucceeded
                          \/ Len(posts) > 0 /\ response = posts[Len(posts)]
    /\ pc = "fallback" => ~LastBrought("update") /\ ~LastBrought("null_text")
    /\ pc \in {"post", "sleeping", "answered", "fallback"} =>
          update = "none" /\ fallbackUsed = FALSE

CallInv == TypeOK /\ LoopOK /\ ResponseOK /\ AskedOnceAnswered /\ UpdateFromLastAnswer

-----------------------------------------------------------------------------
\* What appending to a sequence does to its length and elements.
LEMMA AppendFacts ==
    ASSUME NEW S, NEW s \in Seq(S), NEW e \in S
    PROVE  /\ Append(s, e) \in Seq(S) /\ Len(Append(s, e)) = Len(s) + 1
           /\ Append(s, e)[Len(s) + 1] = e
           /\ \A k \in 1..Len(s) : Append(s, e)[k] = s[k]
           /\ Len(s) \in Nat
OBVIOUS

\* A 2xx answer is final: the loop never goes on after one.
LEMMA SuccessIsFinal ==
    ASSUME NEW r \in Responses, Succeeded(r)
    PROVE  Final(r)
<1>1. CASE r \in [ok : {TRUE}, status : Statuses, body : Bodies]
  <2>1. r.ok = TRUE /\ r.status \in 100..599
    BY <1>1, StatusAssumption
  <2>2. QED
    BY <2>1 DEF Succeeded, Final
<1>2. CASE r \in [ok : {FALSE}, status : {0}, body : Bodies]
  <2>1. r.status = 0
    BY <1>2
  <2>2. QED
    BY <2>1 DEF Succeeded
<1>3. QED
  BY <1>1, <1>2 DEF Responses

\* Before the first call everything is in order.
LEMMA CallInvInitially == Init => CallInv
<1> SUFFICES ASSUME Init PROVE CallInv
  OBVIOUS
<1>1. maxRetries \in Int /\ posts \in Seq(Responses) /\ Len(posts) = 0
  BY RetriesAssumption DEF Init
<1>2. TypeOK
  BY <1>1 DEF Init, TypeOK
<1>3. AskedOnceAnswered
  BY <1>1 DEF AskedOnceAnswered
<1>4. QED
  BY <1>2, <1>3 DEF Init, CallInv, LoopOK, ResponseOK, UpdateFromLastAnswer

\* The three ways a call begins.
LEMMA BeginSteps ==
    ASSUME CallInv,
           \/ ProcessWithoutModel \/ BuildRequestBodyThrows
           \/ \E retries \in MaxRetriesValues : GenerateMemoryUpdate(retries)
    PROVE  CallInv'
<1>0. TypeOK
  BY DEF CallInv
<1>1. posts' = << >> /\ update' = "none" /\ fallbackUsed' = FALSE /\ maxRetries' \in MaxRetriesValues
  BY <1>0 DEF ProcessWithoutModel, BuildRequestBodyThrows, GenerateMemoryUpdate, TypeOK
<1>2. maxRetries' \in Int /\ posts' \in Seq(Responses) /\ Len(posts') = 0
  <2>1. << >> \in Seq(Responses) /\ Len(<< >>) = 0
    OBVIOUS
  <2>2. QED
    BY <1>1, <2>1, RetriesAssumption
<1>3. AskedOnceAnswered'
  <2>1. \A m \in Int : 0 <= 1 + (IF m < 0 THEN 0 ELSE m)
    OBVIOUS
  <2>2. \A k \in 1..Len(posts') : FALSE
    BY <1>2
  <2>3. QED
    BY <1>2, <2>1, <2>2 DEF AskedOnceAnswered
<1>B. ~LastSucceeded' /\ ~LastBrought("update")' /\ ~LastBrought("null_text")'
  BY <1>2 DEF LastSucceeded, LastBrought
<1>4. CASE ProcessWithoutModel \/ BuildRequestBodyThrows
  <2>1. TypeOK'
    BY <1>0, <1>1, <1>2, <1>4 DEF ProcessWithoutModel, BuildRequestBodyThrows, TypeOK
  <2>2. LoopOK' /\ ResponseOK' /\ UpdateFromLastAnswer'
    BY <1>1, <1>B, <1>4 DEF ProcessWithoutModel, BuildRequestBodyThrows, LoopOK, ResponseOK,
                            UpdateFromLastAnswer
  <2>3. QED
    BY <1>3, <2>1, <2>2 DEF CallInv
<1>5. ASSUME NEW retries \in MaxRetriesValues, GenerateMemoryUpdate(retries)
      PROVE  CallInv'
  <2>1. TypeOK'
    BY <1>0, <1>1, <1>2, <1>5 DEF GenerateMemoryUpdate, TypeOK
  <2>2. LoopOK'
    BY <1>2, <1>5 DEF GenerateMemoryUpdate, LoopOK, NoneFinal
  <2>3. ResponseOK' /\ UpdateFromLastAnswer'
    BY <1>1, <1>B, <1>5 DEF GenerateMemoryUpdate, ResponseOK, UpdateFromLastAnswer
  <2>4. QED
    BY <1>3, <2>1, <2>2, <2>3 DEF CallInv
<1>6. QED
  BY <1>4, <1>5

\* The retry loop.
LEMMA LoopSteps ==
    ASSUME CallInv, InitFails \/ Sleep \/ \E r \in Responses : Perform(r)
    PROVE  CallInv'
<1>0. TypeOK /\ LoopOK /\ ResponseOK /\ AskedOnceAnswered /\ UpdateFromLastAnswer /\ maxRetries \in Int
  BY RetriesAssumption DEF CallInv, TypeOK
<1>1. CASE InitFails
  <2>1. NoneFinal /\ posts \in Seq(Responses)
    BY <1>0, <1>1 DEF InitFails, LoopOK, TypeOK
  <2>2. ~LastSucceeded
    BY <2>1, SuccessIsFinal DEF NoneFinal, LastSucceeded
  <2>3. LastSucceeded' <=> LastSucceeded
    BY <1>1 DEF InitFails, LastSucceeded
  <2>4. TypeOK' /\ LoopOK' /\ AskedOnceAnswered' /\ UpdateFromLastAnswer'
    BY <1>0, <1>1 DEF InitFails, TypeOK, LoopOK, AskedOnceAnswered, UpdateFromLastAnswer
  <2>5. ResponseOK'
    BY <1>0, <1>1, <2>2, <2>3 DEF InitFails, ResponseOK
  <2>6. QED
    BY <2>4, <2>5 DEF CallInv
<1>2. CASE Sleep
  BY <1>0, <1>2 DEF Sleep, CallInv, TypeOK, LoopOK, NoneFinal, ResponseOK, AskedOnceAnswered,
                    UpdateFromLastAnswer
<1>3. ASSUME NEW r \in Responses, Perform(r)
      PROVE  CallInv'
  <2>1. /\ posts' \in Seq(Responses) /\ Len(posts') = Len(posts) + 1
        /\ posts'[Len(posts) + 1] = r /\ \A k \in 1..Len(posts) : posts'[k] = posts[k]
        /\ Len(posts) \in Nat
    BY <1>0, <1>3, AppendFacts DEF Perform, TypeOK
  <2>2. TypeOK' /\ ResponseOK' /\ UpdateFromLastAnswer'
    BY <1>0, <1>3, <2>1 DEF Perform, TypeOK, ResponseOK, UpdateFromLastAnswer
  <2>3. maxRetries >= 0 /\ attempt \in Nat /\ attempt <= maxRetries /\ Len(posts) = attempt /\ NoneFinal
    BY <1>0, <1>3 DEF Perform, LoopOK, TypeOK
  <2>4. AskedOnceAnswered'
    BY <1>0, <1>3, <2>1, <2>3 DEF Perform, AskedOnceAnswered, NoneFinal
  <2>5. pc' = "sleeping" => NoneFinal'
    BY <1>3, <2>1, <2>3 DEF Perform, NoneFinal
  <2>6. LoopOK'
    BY <1>0, <1>3, <2>1, <2>3, <2>5 DEF Perform, LoopOK
  <2>7. QED
    BY <2>2, <2>4, <2>6 DEF CallInv
<1>4. QED
  BY <1>1, <1>2, <1>3

\* Parsing the answer and the rules.
LEMMA AnswerSteps ==
    ASSUME CallInv,
           \/ ParseResponse \/ ParseResponseThrows \/ Leave \/ UNCHANGED vars
           \/ \E found \in BOOLEAN : Fallback(found)
    PROVE  CallInv'
<1> USE DEF CallInv, TypeOK, LoopOK, NoneFinal, ResponseOK, AskedOnceAnswered, UpdateFromLastAnswer
<1>0. UNCHANGED posts
  BY DEF ParseResponse, ParseResponseThrows, Leave, vars, Fallback
<1>1. LastBrought("update")' <=> LastBrought("update")
  BY <1>0 DEF LastBrought
<1>2. LastBrought("null_text")' <=> LastBrought("null_text")
  BY <1>0 DEF LastBrought
<1>3. ASSUME pc = "answered", NEW body
      PROVE  LastBrought(body) <=> Succeeded(response) /\ response.body = body
  <2>1. ~Succeeded(NoResponse)
    BY DEF Succeeded, NoResponse
  <2>2. QED
    BY <1>3, <2>1 DEF LastSucceeded, LastBrought
<1>4. CASE ParseResponse
  <2>1. pc = "answered"
    BY <1>4 DEF ParseResponse
  <2>2. LastBrought("update") <=> Succeeded(response) /\ response.body = "update"
    BY <1>3, <2>1
  <2>3. LastBrought("null_text") <=> Succeeded(response) /\ response.body = "null_text"
    BY <1>3, <2>1
  <2>4. QED
    BY <1>1, <1>2, <1>4, <2>2, <2>3 DEF ParseResponse
<1>5. CASE ParseResponseThrows
  <2>1. LastBrought("null_text")
    BY <1>3, <1>5 DEF ParseResponseThrows
  <2>2. QED
    BY <1>2, <1>5, <2>1 DEF ParseResponseThrows
<1>6. CASE Leave
  BY <1>6 DEF Leave
<1>7. CASE UNCHANGED vars
  <2>1. LastSucceeded' <=> LastSucceeded
    BY <1>0 DEF LastSucceeded
  <2>2. QED
    BY <1>1, <1>2, <1>7, <2>1 DEF vars
<1>8. ASSUME NEW found \in BOOLEAN, Fallback(found)
      PROVE  CallInv'
  BY <1>1, <1>2, <1>8 DEF Fallback
<1>9. QED
  BY <1>4, <1>5, <1>6, <1>7, <1>8

\* The invariant holds throughout.
LEMMA CallInvAlways == Spec => []CallInv
<1>1. CallInv /\ [Next]_vars => CallInv'
  BY BeginSteps, LoopSteps, AnswerSteps DEF Next, Step
<1>2. QED
  BY <1>1, CallInvInitially, PTL DEF Spec

-----------------------------------------------------------------------------
\* Type correctness of DoRequest's locals and of the processor's result.
THEOREM TypeCorrect == Spec => []TypeOK
<1>1. CallInv => TypeOK
  BY DEF CallInv
<1>2. QED
  BY <1>1, CallInvAlways, PTL

\* The loop of DoRequest sends at most 1 + maxRetries requests, for every
\* maxRetries, and stops at the first answer that is no 429, 5xx or curl error.
THEOREM AskedOnce == Spec => []AskedOnceAnswered
<1>1. CallInv => AskedOnceAnswered
  BY DEF CallInv
<1>2. QED
  BY <1>1, CallInvAlways, PTL

\* The update that LlmLongTermMemoryProcessor returns is the model's if and only
\* if the last transfer of the call brought one, the rules' (and reported so) in
\* every other case; an exception comes from a null content or an unsent prompt.
THEOREM UpdateIsLastAnswer == Spec => []UpdateFromLastAnswer
<1>1. CallInv => UpdateFromLastAnswer
  BY DEF CallInv
<1>2. QED
  BY <1>1, CallInvAlways, PTL
=============================================================================
