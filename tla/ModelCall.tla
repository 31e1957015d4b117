----------------------------- MODULE ModelCall -----------------------------
(***************************************************************************)
(* How a consolidation run gets its long-term memory update: the shipped   *)
(* OpenAI and Anthropic clients over CurlClient::DoRequest and its retry   *)
(* loop, LlmLongTermMemoryProcessor, and the rule-based fallback.  This is *)
(* the step Process of module Consolidation, taken apart; the run holds    *)
(* consolidationMutex throughout.                                          *)
(*                                                                         *)
(* A transfer ends with a curl error (the timeout included) or a status,   *)
(* and a body, which may be cut short by the error.  A body is told apart  *)
(* by what the client and the processor make of it.                        *)
(***************************************************************************)
EXTENDS Integers, Sequences

CONSTANTS MaxRetriesValues,    \* options.maxRetries (DefaultPostJson leaves it 0)
          Statuses,            \* status codes of the provider
          Bodies,              \* what a response body holds
          MayThrow             \* a conversion may end by an exception

\* What the body is for ParseResponseBody and ParseResponse: an update with at
\* least one item, text without one (no JSON, or JSON with nothing usable), no
\* text at all ("error" field, no choices, no content), or a message whose
\* content is null.
AllBodies == {"update", "empty", "no_text", "null_text"}

ASSUME BodiesAssumption == Bodies \subseteq AllBodies /\ "no_text" \in Bodies
ASSUME StatusAssumption == Statuses \subseteq 100..599
ASSUME RetriesAssumption == MaxRetriesValues \subseteq Int
ASSUME MayThrowAssumption == MayThrow \in BOOLEAN

NoResponse == [ok |-> FALSE, status |-> 0, body |-> "no_text"]
Responses == [ok : {TRUE}, status : Statuses, body : Bodies]
                \cup [ok : {FALSE}, status : {0}, body : Bodies]

VARIABLES
    pc,
    maxRetries,
    attempt,        \* the loop counter of DoRequest
    response,       \* its CurlResponse
    posts,          \* history: how the transfers of this call ended
    update,         \* where the update comes from: "none", "model" or "rules"
    fallbackUsed

vars == <<pc, maxRetries, attempt, response, posts, update, fallbackUsed>>

Init ==
    /\ pc = "idle"
    /\ maxRetries \in MaxRetriesValues
    /\ attempt = 0
    /\ response = NoResponse
    /\ posts = << >>
    /\ update = "none"
    /\ fallbackUsed = FALSE

-----------------------------------------------------------------------------
\* ConsolidationService without a model: straight to the rules.
ProcessWithoutModel ==
    /\ pc = "idle"
    /\ pc' = "fallback"
    /\ posts' = << >>
    /\ update' = "none"
    /\ fallbackUsed' = FALSE
    /\ UNCHANGED <<maxRetries, attempt, response>>

\* GenerateMemoryUpdate enters DoRequest.  With maxRetries < 0 the loop body
\* never runs and the empty response is the answer.
GenerateMemoryUpdate(retries) ==
    /\ pc = "idle"
    /\ maxRetries' = retries
    /\ attempt' = 0
    /\ response' = NoResponse
    /\ posts' = << >>
    /\ update' = "none"
    /\ fallbackUsed' = FALSE
    /\ pc' = IF retries >= 0 THEN "post" ELSE "answered"

\* The prompt holds an event that is not UTF-8: body.dump() throws.
BuildRequestBodyThrows ==
    /\ MayThrow
    /\ pc = "idle"
    /\ pc' = "thrown"
    /\ posts' = << >>
    /\ update' = "none"
    /\ fallbackUsed' = FALSE
    /\ UNCHANGED <<maxRetries, attempt, response>>

\* curl_easy_init fails: no retry.
InitFails ==
    /\ pc = "post"
    /\ response' = NoResponse
    /\ pc' = "answered"
    /\ UNCHANGED <<maxRetries, attempt, posts, update, fallbackUsed>>

\* The provider has answered and asking again would not help.
Final(r) == r.ok /\ r.status >= 200 /\ r.status < 500 /\ r.status # 429

\* Mutant: client errors are retried.
PerformRetriesClientErrors(r) ==
    /\ pc = "post"
    /\ response' = r
    /\ posts' = Append(posts, r)
    /\ pc' = IF (r.ok /\ r.status \in 200..399) \/ attempt >= maxRetries THEN "answered" ELSE "sleeping"
    /\ UNCHANGED <<maxRetries, attempt, update, fallbackUsed>>

\* Mutant: the status of an earlier attempt stays when a transfer fails.
PerformKeepsStatus(r) ==
    /\ pc = "post"
    /\ response' = IF r.ok THEN r ELSE [r EXCEPT !.status = response.status]
    /\ posts' = Append(posts, r)
    /\ pc' = IF Final(r) \/ attempt >= maxRetries THEN "answered" ELSE "sleeping"
    /\ UNCHANGED <<maxRetries, attempt, update, fallbackUsed>>

\* One attempt, with a fresh response.
Perform(r) ==
    /\ pc = "post"
    /\ response' = r
    /\ posts' = Append(posts, r)
    /\ pc' = IF Final(r) \/ attempt >= maxRetries THEN "answered" ELSE "sleeping"
    /\ UNCHANGED <<maxRetries, attempt, update, fallbackUsed>>

\* Mutant: a wake-up starts the backoff over.
SleepStartsOver ==
    /\ pc = "sleeping"
    /\ UNCHANGED vars

\* 100 ms, 200 ms, ... between two attempts.
Sleep ==
    /\ pc = "sleeping"
    /\ attempt' = attempt + 1
    /\ pc' = "post"
    /\ UNCHANGED <<maxRetries, response, posts, update, fallbackUsed>>

Succeeded(r) == r.status >= 200 /\ r.status < 300

\* Mutant: only 200 itself counts as success.
ParseResponseOf200 ==
    /\ pc = "answered"
    /\ ~(Succeeded(response) /\ response.body = "null_text")
    /\ IF response.status = 200 /\ response.body = "update"
       THEN update' = "model" /\ pc' = "done"
       ELSE update' = update /\ pc' = "fallback"
    /\ UNCHANGED <<maxRetries, attempt, response, posts, fallbackUsed>>

\* The client takes the text of a 2xx answer, the processor parses it; any
\* other answer, no text and text without an item leave the update empty.
ParseResponse ==
    /\ pc = "answered"
    /\ ~(Succeeded(response) /\ response.body = "null_text")
    /\ IF Succeeded(response) /\ response.body = "update"
       THEN update' = "model" /\ pc' = "done"
       ELSE update' = update /\ pc' = "fallback"
    /\ UNCHANGED <<maxRetries, attempt, response, posts, fallbackUsed>>

\* "content": null, which value("content", std::string()) does not convert: the
\* exception passes the processor and ConsolidationService.
ParseResponseThrows ==
    /\ pc = "answered"
    /\ Succeeded(response) /\ response.body = "null_text"
    /\ pc' = "thrown"
    /\ UNCHANGED <<maxRetries, attempt, response, posts, update, fallbackUsed>>

\* RuleBasedLongTermMemoryProcessor; no topic and no preference is no update.
Fallback(found) ==
    /\ pc = "fallback"
    /\ fallbackUsed' = TRUE
    /\ update' = IF found THEN "rules" ELSE "none"
    /\ pc' = "done"
    /\ UNCHANGED <<maxRetries, attempt, response, posts>>

\* The run goes on to its transaction, or its caller gets the exception.
Leave ==
    /\ pc \in {"done", "thrown"}
    /\ pc' = "idle"
    /\ UNCHANGED <<maxRetries, attempt, response, posts, update, fallbackUsed>>

Step ==
    \/ InitFails
    \/ \E r \in Responses : Perform(r)
    \/ Sleep
    \/ ParseResponse
    \/ ParseResponseThrows
    \/ \E found \in BOOLEAN : Fallback(found)
    \/ Leave

Next ==
    \/ ProcessWithoutModel
    \/ \E retries \in MaxRetriesValues : GenerateMemoryUpdate(retries)
    \/ BuildRequestBodyThrows
    \/ Step

Spec == Init /\ [][Next]_vars

\* Transfers end (CURLOPT_TIMEOUT is set and positive, ValidateCommon refuses
\* anything else), sleeps end, the thread is scheduled.
FairSpec == Spec /\ WF_vars(Step)

-----------------------------------------------------------------------------
(* Properties.                                                             *)

\* Control state, counters and responses hold values of their kind.
TypeOK ==
    /\ pc \in {"idle", "post", "sleeping", "answered", "fallback", "done", "thrown"}
    /\ maxRetries \in MaxRetriesValues
    /\ attempt \in Nat
    /\ response \in Responses \cup {NoResponse}
    /\ posts \in Seq(Responses)
    /\ update \in {"none", "model", "rules"}
    /\ fallbackUsed \in BOOLEAN

\* A provider that has given its answer is not asked again (a generation is
\* paid for), and no call makes more than 1 + maxRetries requests.
AskedOnceAnswered ==
    /\ Len(posts) <= 1 + (IF maxRetries < 0 THEN 0 ELSE maxRetries)
    /\ \A k \in 1..Len(posts) : k < Len(posts) => ~Final(posts[k])

\* The last transfer of this call was a 2xx answer with such a body.
LastBrought(body) ==
    /\ Len(posts) > 0
    /\ Succeeded(posts[Len(posts)])
    /\ posts[Len(posts)].body = body

\* The model's update is used exactly when the last transfer of this call
\* brought one in a 2xx answer: no good answer is dropped, none of an earlier
\* attempt or of an error page is taken.  The rules are used, and reported, in
\* exactly the other cases.  An exception carries no update, and only a prompt
\* that was never sent or a null content raises one.
UpdateFromLastAnswer ==
    /\ pc = "done" =>
          /\ (update = "model") <=> LastBrought("update")
          /\ fallbackUsed <=> ~LastBrought("update")
          /\ ~LastBrought("null_text")
    /\ pc = "thrown" =>
          /\ update = "none" /\ ~fallbackUsed
          /\ posts = << >> \/ LastBrought("null_text")

\* consolidationMutex is not held for ever by a provider that keeps failing:
\* whatever it answers, the call ends.
CallEnds == (pc # "idle") ~> (pc = "idle")
=============================================================================
