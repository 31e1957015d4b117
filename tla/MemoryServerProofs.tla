------------------------- MODULE MemoryServerProofs -------------------------
(***************************************************************************)
(* Proofs about MemoryServer, for every command line, configuration and    *)
(* disk, every number of workers and clients, and every set of requests.   *)
(***************************************************************************)
EXTENDS MemoryServer, FiniteSetTheorems, WellFoundedInduction, TLAPS

-----------------------------------------------------------------------------
(* The threads when Run returns.                                           *)

AllQuiet == jobs = << >> /\ \A w \in Workers : worker[w] = Idle

QuietInv ==
    /\ main \in {"started", "options", "configured"} => stopThread = "off"
    /\ stopThread = "off" => main \in {"started", "options", "configured", "ended"}
    /\ main # "serving" => AllQuiet
    /\ NothingRunsAfterReturn

\* What the steps of the main thread may do.
LEMMA MainSteps ==
    ASSUME QuietInv, MainStep
    PROVE  QuietInv'
<1> USE DEF QuietInv, NothingRunsAfterReturn, AllQuiet, workVars, stopVars
<1>1. CASE ReadOptions
  BY <1>1 DEF ReadOptions, End
<1>2. CASE CreateServerSetup
  BY <1>2 DEF CreateServerSetup, End
<1>3. CASE StartStopThread
  BY <1>3 DEF StartStopThread
<1>4. CASE RegisterRoutes
  BY <1>4 DEF RegisterRoutes, End
<1>5. CASE Bind
  BY <1>5 DEF Bind
<1>6. CASE ListenInternal
  BY <1>6 DEF ListenInternal
<1>7. CASE ShutDown
  BY <1>7 DEF ShutDown
<1>8. CASE Return
  BY <1>8 DEF Return, End
<1>9. QED
  BY <1>1, <1>2, <1>3, <1>4, <1>5, <1>6, <1>7, <1>8 DEF MainStep

\* Signals, the stop thread, workers and clients.
LEMMA OtherSteps ==
    ASSUME QuietInv, [Next]_vars, ~MainStep
    PROVE  QuietInv'
<1> USE DEF QuietInv, NothingRunsAfterReturn, AllQuiet, mainVars
<1>1. CASE UNCHANGED vars
  BY <1>1 DEF vars, stopVars, workVars
<1>2. ASSUME NEW job \in backlog, Accept(job)
      PROVE  QuietInv'
  BY <1>2 DEF Accept, stopVars
<1>3. CASE Signal
  BY <1>3 DEF Signal, End, stopVars, workVars
<1>4. CASE Poll
  BY <1>4 DEF Poll, workVars
<1>5. CASE Stop
  BY <1>5 DEF Stop
<1>6. ASSUME NEW w \in Workers, WorkerStep(w) \/ Lock(w)
      PROVE  QuietInv'
  <2>1. worker[w] # Idle \/ jobs # << >>
    <3>1. CASE Take(w)
      BY <3>1 DEF Take
    <3>2. CASE ~Take(w)
      <4>1. worker[w].at \in {"calling", "locking", "consolidating", "replying"}
        BY <1>6, <3>2 DEF WorkerStep, Lock, CallRuntime, Consolidate, Reply
      <4>2. Idle.at = "idle"
        BY DEF Idle
      <4>3. QED
        BY <4>1, <4>2
    <3>3. QED
      BY <3>1, <3>2
  <2>2. main = "serving"
    BY <2>1
  <2>3. UNCHANGED <<main, ending, stopThread>>
    BY <1>6 DEF WorkerStep, Lock, Take, CallRuntime, Consolidate, Reply, stopVars
  <2>4. QED
    BY <2>2, <2>3
<1>7. ASSUME NEW c \in Clients, Send(c) \/ GiveUpWaiting(c)
      PROVE  QuietInv'
  BY <1>7 DEF Send, GiveUpWaiting, stopVars, workVars
<1>8. QED
  BY <1>1, <1>2, <1>3, <1>4, <1>5, <1>6, <1>7 DEF Next

\* When Run returns and takes the server, its routes and the runtime with it, no
\* handler is running or queued and the stop thread is joined, whatever happened
\* during start-up, service and shutdown.
THEOREM QuietAfterReturn == Spec => []NothingRunsAfterReturn
<1>1. Init => QuietInv
  BY DEF Init, QuietInv, NothingRunsAfterReturn, AllQuiet
<1>2. QuietInv /\ [Next]_vars => QuietInv'
  BY MainSteps, OtherSteps
<1>3. QuietInv => NothingRunsAfterReturn
  BY DEF QuietInv
<1>4. QED
  BY <1>1, <1>2, <1>3, PTL DEF Spec

-----------------------------------------------------------------------------
(* What clients are told.                                                  *)

Job(c, n) == [client |-> c, number |-> n]
AllJobs == [client : Clients, number : Nat \ {0}]
Replies == {"none", "ok", "error", "refused", "accepted", "broken", "closed"}
AllRequests == UNION {RequestsOf[c] : c \in Clients}
WorkerStates == [at : {"idle", "calling", "locking", "consolidating", "replying"},
                 job : AllJobs \cup {None}, reply : Replies]
ClientStates == [request : AllRequests \cup {None}, at : {"ready", "waiting", "done"},
                 sends : Nat, lost : Nat, applied : Nat, answer : Replies]

Busy(w) == worker[w].at # "idle"

TypesOK ==
    /\ backlog \subseteq AllJobs /\ jobs \in Seq(AllJobs)
    /\ worker \in [Workers -> WorkerStates]
    /\ \A w \in Workers : Busy(w) => worker[w].job \in AllJobs
    /\ client \in [Clients -> ClientStates]

Queued(j) == \E i \in 1..Len(jobs) : jobs[i] = j

\* A connection is in one place: not yet accepted, queued once, or with one
\* worker.  Its number is that of a request its client has sent.
Sent(j) == j.number <= client[j.client].sends
PlacesOK ==
    /\ \A j \in backlog : Sent(j)
    /\ \A i \in 1..Len(jobs) : Sent(jobs[i]) /\ jobs[i] \notin backlog
    /\ \A i, k \in 1..Len(jobs) : jobs[i] = jobs[k] => i = k
    /\ \A w \in Workers : Busy(w) =>
          /\ Sent(worker[w].job) /\ worker[w].job \notin backlog
          /\ \A i \in 1..Len(jobs) : jobs[i] # worker[w].job
          /\ \A v \in Workers : Busy(v) /\ worker[v].job = worker[w].job => v = w

\* The requests of a client that have not been done and have not been answered
\* with a success or broken off.
Unfinished(x) ==
    \/ x.at \in {"calling", "locking", "consolidating"}
    \/ x.at = "replying" /\ x.reply \notin {"ok", "broken"}
Waits(j) ==
    \/ j \in backlog \/ Queued(j)
    \/ \E w \in Workers : Unfinished(worker[w]) /\ worker[w].job = j
Undone(c) == {n \in 1..client[c].sends : Waits(Job(c, n))}

\* A client that was told "no" knows of one request that was not done.
Denied(x) == IF x.at = "done" /\ x.answer # "ok" THEN 1 ELSE 0

\* Every request sent is lost, waited for or answered; and the ones done, the
\* ones undone and the denied one are together at most those sent.
Paired(x) == x.sends = x.lost + (IF x.at = "ready" THEN 0 ELSE 1)
Balanced(c) == client[c].applied + Cardinality(Undone(c)) + Denied(client[c]) <= client[c].sends
CountsOK == \A c \in Clients : Paired(client[c]) /\ Balanced(c)

\* A client sends one request, and a success on its way to it is true.
TruthOK ==
    /\ \A c \in Clients :
          /\ client[c].answer = "ok" => client[c].at = "done"
          /\ client[c].sends > 0 => client[c].request # None
          /\ client[c].request # None => client[c].request \in RequestsOf[c]
          /\ client[c].answer = "ok" /\ client[c].request.op \in Effects => client[c].applied >= 1
    /\ \A w \in Workers :
          worker[w].at = "replying" /\ worker[w].reply = "ok"
          /\ RequestOf(worker[w].job).op \in Effects => client[worker[w].job.client].applied >= 1

ServerInv == TypesOK /\ PlacesOK /\ CountsOK /\ TruthOK

\* The places of a job are all the counting depends on.
LEMMA UndoneFinite ==
    ASSUME TypesOK, NEW c \in Clients
    PROVE  /\ IsFiniteSet(Undone(c)) /\ Cardinality(Undone(c)) \in Nat
           /\ \A S \in SUBSET Undone(c) :
                 IsFiniteSet(S) /\ Cardinality(S) \in Nat /\ Cardinality(S) <= Cardinality(Undone(c))
           /\ \A n \in Undone(c) : Cardinality(Undone(c) \ {n}) = Cardinality(Undone(c)) - 1
           /\ \A n : n \notin Undone(c) => Cardinality(Undone(c) \cup {n}) = Cardinality(Undone(c)) + 1
                                         /\ IsFiniteSet(Undone(c) \cup {n})
<1>1. client[c].sends \in Nat
  BY DEF TypesOK, ClientStates
<1>2. IsFiniteSet(1..client[c].sends)
  BY <1>1, FS_Interval
<1>3. Undone(c) \subseteq 1..client[c].sends
  BY DEF Undone
<1>4. IsFiniteSet(Undone(c))
  BY <1>2, <1>3, FS_Subset
<1>5. Cardinality(Undone(c)) \in Nat
  BY <1>4, FS_CardinalityType
<1>6. \A S \in SUBSET Undone(c) :
         IsFiniteSet(S) /\ Cardinality(S) \in Nat /\ Cardinality(S) <= Cardinality(Undone(c))
  BY <1>4, FS_Subset, FS_CardinalityType
<1>7. \A n \in Undone(c) : Cardinality(Undone(c) \ {n}) = Cardinality(Undone(c)) - 1
  BY <1>4, FS_RemoveElement
<1>8. \A n : n \notin Undone(c) => Cardinality(Undone(c) \cup {n}) = Cardinality(Undone(c)) + 1
                                  /\ IsFiniteSet(Undone(c) \cup {n})
  BY <1>4, FS_AddElement
<1>9. QED
  BY <1>4, <1>5, <1>6, <1>7, <1>8

\* What appending to the queue and taking from it do.
LEMMA QueueFacts ==
    ASSUME NEW S, NEW s \in Seq(S)
    PROVE  /\ Len(s) \in Nat
           /\ \A i \in 1..Len(s) : s[i] \in S
           /\ \A e \in S : /\ Append(s, e) \in Seq(S) /\ Len(Append(s, e)) = Len(s) + 1
                          /\ Append(s, e)[Len(s) + 1] = e
                          /\ \A i \in 1..Len(s) : Append(s, e)[i] = s[i]
           /\ s # << >> => /\ Len(s) > 0 /\ Head(s) = s[1] /\ Head(s) \in S
                          /\ Tail(s) \in Seq(S) /\ Len(Tail(s)) = Len(s) - 1
                          /\ \A i \in 1..(Len(s) - 1) : Tail(s)[i] = s[i + 1]
OBVIOUS

\* A connection is its client and number.
LEMMA JobFacts ==
    /\ \A j \in AllJobs : /\ j.client \in Clients /\ j.number \in Nat \ {0}
                          /\ j = Job(j.client, j.number)
    /\ \A c, n : Job(c, n).client = c /\ Job(c, n).number = n
    /\ \A c \in Clients, n \in Nat \ {0} : Job(c, n) \in AllJobs
BY DEF AllJobs, Job

\* A step that gives no worker a new connection keeps every connection in its
\* one place.
NoNewConnection ==
    /\ backlog' \subseteq backlog /\ jobs' = jobs
    /\ \A w \in Workers : Busy(w)' => Busy(w) /\ worker'[w].job = worker[w].job
    /\ \A c \in Clients : client'[c].sends = client[c].sends

\* See NoNewConnection.
LEMMA PlacesKept ==
    ASSUME TypesOK, PlacesOK, NoNewConnection
    PROVE  PlacesOK'
<1>1. \A j \in AllJobs : Sent(j) => j.number <= client'[j.client].sends
  BY JobFacts DEF Sent, NoNewConnection
<1>2. jobs' = jobs /\ backlog' \subseteq backlog /\ (\A i \in 1..Len(jobs) : jobs[i] \in AllJobs)
      /\ backlog \subseteq AllJobs
  BY QueueFacts DEF NoNewConnection, TypesOK
<1>3. \A w \in Workers : Busy(w)' => Busy(w) /\ worker'[w].job = worker[w].job /\ worker[w].job \in AllJobs
  BY DEF NoNewConnection, TypesOK
<1>4. /\ \A j \in backlog' : j.number <= client'[j.client].sends
      /\ \A i \in 1..Len(jobs') : jobs'[i].number <= client'[jobs'[i].client].sends /\ jobs'[i] \notin backlog'
      /\ \A i, k \in 1..Len(jobs') : jobs'[i] = jobs'[k] => i = k
  BY <1>1, <1>2 DEF PlacesOK
<1>5. \A w \in Workers : Busy(w)' =>
          /\ worker'[w].job.number <= client'[worker'[w].job.client].sends
          /\ worker'[w].job \notin backlog'
          /\ \A i \in 1..Len(jobs') : jobs'[i] # worker'[w].job
          /\ \A v \in Workers : Busy(v)' /\ worker'[v].job = worker'[w].job => v = w
  BY <1>1, <1>2, <1>3 DEF PlacesOK
<1>6. QED
  BY <1>4, <1>5 DEF PlacesOK, Sent

\* Such a step leaves no request undone that was done, if no worker's answer
\* turns from a success or a broken one into another.
LEMMA UndoneShrinks ==
    ASSUME TypesOK, NoNewConnection, NEW c \in Clients,
           \A w \in Workers : Unfinished(worker[w])' => Unfinished(worker[w])
    PROVE  Undone(c)' \subseteq Undone(c)
<1>1. jobs' = jobs /\ backlog' \subseteq backlog /\ client'[c].sends = client[c].sends
  BY DEF NoNewConnection
<1>2. \A w \in Workers : Unfinished(worker[w])' => Busy(w)'
  BY DEF Unfinished, Busy
<1>3. \A j : Waits(j)' => Waits(j)
  BY <1>1, <1>2 DEF Waits, Queued, NoNewConnection
<1>4. QED
  BY <1>1, <1>3 DEF Undone

\* A worker that ends an undone request takes it off the list.
LEMMA UndoneRemoved ==
    ASSUME TypesOK, PlacesOK, NoNewConnection, NEW w \in Workers,
           Unfinished(worker[w]), ~Unfinished(worker[w])',
           \A v \in Workers \ {w} : worker'[v] = worker[v],
           NEW c, NEW n, worker[w].job = Job(c, n)
    PROVE  c \in Clients /\ n \in Undone(c) /\ Undone(c)' \subseteq Undone(c) \ {n}
<1>1. Busy(w) /\ Job(c, n) \in AllJobs
  BY DEF Unfinished, Busy, TypesOK
<1>2. c \in Clients /\ n \in Nat \ {0} /\ Job(c, n).client = c /\ Job(c, n).number = n
  BY <1>1, JobFacts
<1>3. client[c].sends \in Nat /\ n <= client[c].sends
  BY <1>1, <1>2 DEF PlacesOK, Sent, TypesOK, ClientStates
<1>4. Waits(Job(c, n))
  BY DEF Waits
<1>5. n \in Undone(c)
  BY <1>2, <1>3, <1>4 DEF Undone
<1>6. ~Waits(Job(c, n))'
  <2>1. Job(c, n) \notin backlog' /\ ~Queued(Job(c, n))'
    BY <1>1 DEF PlacesOK, NoNewConnection, Queued
  <2>2. \A v \in Workers \ {w} : Unfinished(worker[v])' => Unfinished(worker[v]) /\ Busy(v)
    BY DEF Unfinished, Busy
  <2>3. \A v \in Workers \ {w} : Unfinished(worker[v])' => worker'[v].job # Job(c, n)
    BY <1>1, <2>2 DEF PlacesOK
  <2>4. QED
    BY <2>1, <2>3 DEF Waits
<1>7. n \notin Undone(c)'
  BY <1>2, <1>6 DEF Undone
<1>8. Undone(c)' \subseteq Undone(c)
  <2>1. \A v \in Workers : Unfinished(worker[v])' => Unfinished(worker[v])
    BY DEF Unfinished
  <2>2. QED
    BY <1>2, <2>1, UndoneShrinks
<1>9. QED
  BY <1>2, <1>5, <1>7, <1>8

\* The two cases of the counting: a client for which nothing more is done, and
\* one for which an undone request is done or denied.
LEMMA BalanceKept ==
    ASSUME TypesOK, TypesOK', NEW c \in Clients, Balanced(c), client'[c].sends = client[c].sends,
           \/ /\ Undone(c)' \subseteq Undone(c)
              /\ client'[c].applied + Denied(client[c])' <= client[c].applied + Denied(client[c])
           \/ \E n \in Undone(c) :
                 /\ Undone(c)' \subseteq Undone(c) \ {n}
                 /\ client'[c].applied + Denied(client[c])' <= client[c].applied + Denied(client[c]) + 1
    PROVE  Balanced(c)'
<1>1. /\ client[c].applied \in Nat /\ client'[c].applied \in Nat /\ client[c].sends \in Nat
      /\ Denied(client[c]) \in Nat /\ Denied(client[c])' \in Nat
  BY DEF TypesOK, ClientStates, Denied
<1> DEFINE U == Undone(c)
           V == Undone(c)'
<1>2. IsFiniteSet(U) /\ Cardinality(U) \in Nat
      /\ \A S \in SUBSET U : Cardinality(S) \in Nat /\ Cardinality(S) <= Cardinality(U)
  BY UndoneFinite
<1>3. \A n \in U : Cardinality(U \ {n}) = Cardinality(U) - 1 /\ IsFiniteSet(U \ {n})
  BY <1>2, FS_RemoveElement, FS_Subset
<1>4. Cardinality(U) + client[c].applied + Denied(client[c]) <= client[c].sends
  BY <1>1, <1>2 DEF Balanced
<1>5. Cardinality(V) \in Nat /\ Cardinality(V) + client'[c].applied + Denied(client[c])' <= client[c].sends
  <2>1. CASE /\ V \subseteq U
             /\ client'[c].applied + Denied(client[c])' <= client[c].applied + Denied(client[c])
    <3>1. Cardinality(V) \in Nat /\ Cardinality(V) <= Cardinality(U)
      BY <1>2, <2>1
    <3>2. QED
      BY <1>1, <1>2, <1>4, <2>1, <3>1
  <2>2. ASSUME NEW n \in U, V \subseteq U \ {n},
               client'[c].applied + Denied(client[c])' <= client[c].applied + Denied(client[c]) + 1
        PROVE  Cardinality(V) \in Nat /\ Cardinality(V) + client'[c].applied + Denied(client[c])' <= client[c].sends
    <3>1. Cardinality(V) \in Nat /\ Cardinality(V) <= Cardinality(U \ {n})
      BY <1>3, <2>2, FS_Subset, FS_CardinalityType
    <3>2. Cardinality(V) <= Cardinality(U) - 1
      BY <1>3, <3>1
    <3>3. QED
      BY <1>1, <1>2, <1>4, <2>2, <3>1, <3>2
  <2>3. QED
    BY <2>1, <2>2
<1> HIDE DEF U
<1>6. QED
  BY <1>1, <1>5 DEF Balanced

-----------------------------------------------------------------------------
(* The steps of the workers.                                               *)

\* Waiting for consolidationMutex changes nothing for the client.
LEMMA LockStep ==
    ASSUME ServerInv, NEW w \in Workers, Lock(w)
    PROVE  ServerInv'
<1>0. TypesOK /\ PlacesOK /\ CountsOK /\ TruthOK
  BY DEF ServerInv
<1>1. /\ worker[w].at = "locking" /\ worker[w] \in WorkerStates
      /\ worker' = [worker EXCEPT ![w].at = "consolidating"]
      /\ UNCHANGED <<backlog, jobs, client>>
  BY <1>0 DEF Lock, TypesOK
<1>2. /\ worker' \in [Workers -> WorkerStates]
      /\ worker'[w].at = "consolidating" /\ worker'[w].job = worker[w].job
      /\ \A v \in Workers \ {w} : worker'[v] = worker[v]
  BY <1>0, <1>1 DEF TypesOK, WorkerStates
<1>3. TypesOK'
  BY <1>0, <1>1, <1>2 DEF TypesOK, Busy
<1>4. NoNewConnection
  BY <1>0, <1>1, <1>2 DEF NoNewConnection, Busy
<1>5. PlacesOK'
  BY <1>0, <1>4, PlacesKept
<1>6. \A v \in Workers : Unfinished(worker[v])' => Unfinished(worker[v])
  BY <1>1, <1>2 DEF Unfinished
<1>7. CountsOK'
  <2> SUFFICES ASSUME NEW c \in Clients
               PROVE  Paired(client[c])' /\ Balanced(c)'
    BY DEF CountsOK
  <2>1. Undone(c)' \subseteq Undone(c)
    BY <1>0, <1>4, <1>6, UndoneShrinks
  <2>2. client'[c] = client[c] /\ client[c] \in ClientStates /\ Balanced(c) /\ Paired(client[c])
    BY <1>0, <1>1 DEF TypesOK, CountsOK
  <2>3. client'[c].applied + Denied(client[c])' <= client[c].applied + Denied(client[c])
    BY <2>2 DEF ClientStates, Denied
  <2>4. Balanced(c)'
    BY <1>0, <1>3, <2>1, <2>2, <2>3, BalanceKept
  <2>5. QED
    BY <2>2, <2>4 DEF Paired
<1>8. TruthOK'
  BY <1>0, <1>1, <1>2 DEF TruthOK, RequestOf
<1>9. QED
  BY <1>3, <1>5, <1>7, <1>8 DEF ServerInv

\* What a call of the runtime leaves behind: an error and nothing done, or a
\* success or a broken answer and at most one operation done, exactly one for a
\* success.
RuntimeEffect(w) ==
    LET c == worker[w].job.client
    IN  /\ UNCHANGED <<backlog, jobs>>
        /\ \E reply \in {"ok", "error", "broken"} :
              worker' = [worker EXCEPT ![w].at = "replying", ![w].reply = reply]
        /\ \/ client' = client /\ worker'[w].reply # "ok"
           \/ client' = client /\ RequestOf(worker[w].job).op \notin Effects
           \/ client' = [client EXCEPT ![c].applied = @ + 1] /\ worker'[w].reply # "error"

\* Perform and Throw do that.
LEMMA RuntimeSteps ==
    ASSUME TypesOK, NEW w \in Workers, CallRuntime(w) \/ Consolidate(w)
    PROVE  RuntimeEffect(w) /\ worker[w].at \in {"calling", "consolidating"}
<1>1. /\ UNCHANGED <<backlog, jobs>> /\ worker[w].at \in {"calling", "consolidating"}
      /\ (\E succeeded \in BOOLEAN : Perform(w, succeeded)) \/ Throw(w)
  BY DEF CallRuntime, Consolidate
<1>2. worker \in [Workers -> WorkerStates] /\ client \in [Clients -> ClientStates]
  BY DEF TypesOK
<1>3. worker[w].job \in AllJobs /\ worker[w].job.client \in Clients
  BY <1>1, JobFacts DEF TypesOK, Busy
<1>4. ASSUME NEW reply, worker' = [worker EXCEPT ![w].at = "replying", ![w].reply = reply]
      PROVE  worker'[w].reply = reply
  BY <1>2, <1>4 DEF WorkerStates
<1>5. CASE Throw(w)
  BY <1>1, <1>4, <1>5 DEF Throw, ReplyWith, RuntimeEffect
<1>6. ASSUME NEW succeeded \in BOOLEAN, Perform(w, succeeded)
      PROVE  RuntimeEffect(w)
  <2> DEFINE reply == Encode(RequestOf(worker[w].job), Envelope(succeeded))
             c == worker[w].job.client
  <2>1. reply \in {"ok", "error", "broken"} /\ (reply = "error" <=> ~succeeded)
    BY DEF Encode, Envelope
  <2>2. worker' = [worker EXCEPT ![w].at = "replying", ![w].reply = reply] /\ worker'[w].reply = reply
    BY <1>4, <1>6 DEF Perform, ReplyWith
  <2> HIDE DEF reply
  <2>3. CASE succeeded /\ RequestOf(worker[w].job).op \in Effects
    <3>1. client' = [client EXCEPT ![c].applied = @ + 1]
      BY <1>6, <2>3 DEF Perform
    <3>2. QED
      BY <1>1, <2>1, <2>2, <2>3, <3>1 DEF RuntimeEffect
  <2>4. CASE ~(succeeded /\ RequestOf(worker[w].job).op \in Effects)
    <3>1. client' = [client EXCEPT ![c].applied = @]
      BY <1>6, <2>4 DEF Perform
    <3>2. client' = client
      BY <1>2, <1>3, <3>1 DEF ClientStates
    <3>3. QED
      BY <1>1, <2>1, <2>2, <2>4, <3>2 DEF RuntimeEffect
  <2>5. QED
    BY <2>3, <2>4
<1>7. QED
  BY <1>1, <1>5, <1>6

\* An operation is done for a request that was undone until then.
LEMMA RuntimeKeeps ==
    ASSUME ServerInv, NEW w \in Workers, CallRuntime(w) \/ Consolidate(w)
    PROVE  ServerInv'
<1>0. TypesOK /\ PlacesOK /\ CountsOK /\ TruthOK
  BY DEF ServerInv
<1>1. RuntimeEffect(w) /\ worker[w].at \in {"calling", "consolidating"}
  BY <1>0, RuntimeSteps
<1>2. PICK reply \in {"ok", "error", "broken"} :
         worker' = [worker EXCEPT ![w].at = "replying", ![w].reply = reply]
  BY <1>1 DEF RuntimeEffect
<1>3. /\ worker' \in [Workers -> WorkerStates]
      /\ worker'[w].at = "replying" /\ worker'[w].job = worker[w].job /\ worker'[w].reply = reply
      /\ \A v \in Workers \ {w} : worker'[v] = worker[v]
  BY <1>0, <1>2 DEF TypesOK, WorkerStates, Replies
<1>4. PICK c \in Clients, n \in Nat \ {0} : worker[w].job = Job(c, n)
  BY <1>0, <1>1, JobFacts DEF TypesOK, Busy
<1>5. worker[w].job.client = c
  BY <1>4, JobFacts
<1>6. /\ backlog' = backlog /\ jobs' = jobs
      /\ \/ client' = client /\ reply # "ok"
         \/ client' = client /\ RequestOf(worker[w].job).op \notin Effects
         \/ client' = [client EXCEPT ![c].applied = @ + 1] /\ reply # "error"
  BY <1>1, <1>3, <1>5 DEF RuntimeEffect
<1>7. /\ client' \in [Clients -> ClientStates]
      /\ \A d \in Clients \ {c} : client'[d] = client[d]
      /\ \A d \in Clients : /\ client'[d].sends = client[d].sends /\ client'[d].lost = client[d].lost
                           /\ client'[d].at = client[d].at /\ client'[d].answer = client[d].answer
                           /\ client'[d].request = client[d].request
                           /\ client[d].applied \in Nat /\ client'[d].applied \in Nat
                           /\ client'[d].applied >= client[d].applied
      /\ client'[c].applied <= client[c].applied + 1
      /\ reply = "error" => client'[c].applied = client[c].applied
      /\ reply = "ok" /\ RequestOf(worker[w].job).op \in Effects => client'[c].applied >= 1
  <2>1. client \in [Clients -> ClientStates]
    BY <1>0 DEF TypesOK
  <2>2. CASE client' = client
    BY <1>6, <2>1, <2>2 DEF ClientStates
  <2>3. CASE client' = [client EXCEPT ![c].applied = @ + 1] /\ reply # "error"
    BY <2>1, <2>3 DEF ClientStates
  <2>4. QED
    BY <1>6, <2>2, <2>3
<1>8. TypesOK'
  BY <1>0, <1>1, <1>3, <1>6, <1>7 DEF TypesOK, Busy
<1>9. NoNewConnection
  BY <1>1, <1>3, <1>6, <1>7 DEF NoNewConnection, Busy
<1>10. PlacesOK'
  BY <1>0, <1>9, PlacesKept
<1>11. \A v \in Workers : Unfinished(worker[v])' => Unfinished(worker[v])
  BY <1>1, <1>3 DEF Unfinished
<1>12. CountsOK'
  <2> SUFFICES ASSUME NEW d \in Clients
               PROVE  Paired(client[d])' /\ Balanced(d)'
    BY DEF CountsOK
  <2>1. Balanced(d) /\ Paired(client[d])
    BY <1>0 DEF CountsOK
  <2>2. Denied(client[d])' = Denied(client[d]) /\ Denied(client[d]) \in Nat
    BY <1>7 DEF Denied
  <2>3. Undone(d)' \subseteq Undone(d)
    BY <1>0, <1>9, <1>11, UndoneShrinks
  <2>4. CASE d # c \/ reply = "error"
    <3>1. client'[d].applied = client[d].applied
      BY <1>7, <2>4
    <3>2. client'[d].applied + Denied(client[d])' <= client[d].applied + Denied(client[d])
      BY <1>7, <2>2, <3>1
    <3>3. QED
      BY <1>0, <1>7, <1>8, <2>1, <2>3, <3>2, BalanceKept DEF Paired
  <2>5. CASE d = c /\ reply # "error"
    <3>1. Unfinished(worker[w]) /\ ~Unfinished(worker[w])'
      BY <1>1, <1>3, <2>5 DEF Unfinished
    <3>2. n \in Undone(c) /\ Undone(c)' \subseteq Undone(c) \ {n}
      BY <1>0, <1>3, <1>4, <1>9, <3>1, UndoneRemoved
    <3>3. client'[c].applied + Denied(client[c])' <= client[c].applied + Denied(client[c]) + 1
      BY <1>7, <2>2, <2>5
    <3>4. Balanced(c)'
      BY <1>0, <1>7, <1>8, <2>1, <2>5, <3>2, <3>3, BalanceKept
    <3>5. QED
      BY <1>7, <2>1, <2>5, <3>4 DEF Paired
  <2>6. QED
    BY <2>4, <2>5
<1>13. TruthOK'
  <2>1. \A d \in Clients :
          /\ client'[d].answer = "ok" => client'[d].at = "done"
          /\ client'[d].sends > 0 => client'[d].request # None
          /\ client'[d].request # None => client'[d].request \in RequestsOf[d]
          /\ client'[d].answer = "ok" /\ client'[d].request.op \in Effects => client'[d].applied >= 1
    BY <1>0, <1>7 DEF TruthOK
  <2>2. ASSUME NEW v \in Workers, worker'[v].at = "replying", worker'[v].reply = "ok",
               client'[worker'[v].job.client].request.op \in Effects
        PROVE  client'[worker'[v].job.client].applied >= 1
    <3>1. CASE v = w
      BY <1>3, <1>5, <1>7, <2>2, <3>1 DEF RequestOf
    <3>2. CASE v # w
      <4>1. worker'[v] = worker[v] /\ worker[v].job.client \in Clients
        BY <1>0, <1>3, <2>2, <3>2, JobFacts DEF TypesOK, Busy
      <4>2. client[worker[v].job.client].applied >= 1
        BY <1>0, <1>7, <2>2, <4>1 DEF TruthOK, RequestOf
      <4>3. QED
        BY <1>7, <4>1, <4>2
    <3>3. QED
      BY <3>1, <3>2
  <2>3. QED
    BY <2>1, <2>2 DEF TruthOK, RequestOf
<1>14. QED
  BY <1>8, <1>10, <1>12, <1>13 DEF ServerInv

\* A handler that answers by itself has a reply; a success is for a request
\* without an effect.
LEMMA RouteFacts ==
    ASSUME NEW c \in Clients, NEW r \in RequestsOf[c]
    PROVE  Route(r) \in Replies /\ (Route(r) = "ok" => r.op \notin Effects)
<1>1. McpAnswersAlone(r) \in {"accepted", "error", "ok", "none"}
      /\ (McpAnswersAlone(r) = "ok" => r.form \in {"initialize", "tools/list"})
  BY DEF McpAnswersAlone
<1>2. "health" \notin Effects
  BY DEF Effects
<1>3. QED
  BY <1>1, <1>2, RequestsAssumption DEF Route, Replies

\* Taking a connection from the queue.
LEMMA TakeStep ==
    ASSUME ServerInv, NEW w \in Workers, Take(w)
    PROVE  ServerInv'
<1>0. TypesOK /\ PlacesOK /\ CountsOK /\ TruthOK
  BY DEF ServerInv
<1> DEFINE j == jobs[1]
<1>1. /\ worker[w] = Idle /\ jobs # << >> /\ jobs' = Tail(jobs)
      /\ UNCHANGED <<backlog, client>>
  BY DEF Take
<1>2. /\ jobs \in Seq(AllJobs) /\ Len(jobs) \in Nat /\ Len(jobs) > 0 /\ Head(jobs) = j /\ j \in AllJobs
      /\ jobs' \in Seq(AllJobs) /\ Len(jobs') = Len(jobs) - 1
      /\ \A i \in 1..Len(jobs') : jobs'[i] = jobs[i + 1] /\ i + 1 \in 1..Len(jobs)
  BY <1>0, <1>1, QueueFacts DEF TypesOK
<1>3. PICK c \in Clients : c = j.client /\ client[c].sends > 0
  <2>1. j.client \in Clients /\ j.number \in Nat \ {0}
    BY <1>2, JobFacts
  <2>2. j.number <= client[j.client].sends
    BY <1>0, <1>2 DEF PlacesOK, Sent
  <2>3. client[j.client].sends \in Nat
    BY <1>0, <2>1 DEF TypesOK, ClientStates
  <2>4. QED
    BY <2>1, <2>2, <2>3
<1>4. RequestOf(j) \in RequestsOf[c]
  BY <1>0, <1>3 DEF TruthOK, RequestOf
<1>5. PICK at \in {"calling", "locking", "replying"}, reply \in Replies :
         /\ worker' = [worker EXCEPT ![w] = [at |-> at, job |-> j, reply |-> reply]]
         /\ at = "replying" /\ reply = "ok" => RequestOf(j).op \notin Effects
  <2>1. Route(RequestOf(j)) \in Replies /\ (Route(RequestOf(j)) = "ok" => RequestOf(j).op \notin Effects)
    BY <1>3, <1>4, RouteFacts
  <2>2. "closed" \in Replies /\ "none" \in Replies
    BY DEF Replies
  <2>3. \/ worker' = [worker EXCEPT ![w] = [at |-> "replying", job |-> j, reply |-> "closed"]]
        \/ worker' = [worker EXCEPT ![w] = [at |-> "replying", job |-> j, reply |-> Route(RequestOf(j))]]
        \/ worker' = [worker EXCEPT ![w] = [at |-> "calling", job |-> j, reply |-> "none"]]
        \/ worker' = [worker EXCEPT ![w] = [at |-> "locking", job |-> j, reply |-> "none"]]
    BY <1>2 DEF Take
  <2>4. QED
    BY <2>1, <2>2, <2>3
<1>6. /\ worker' \in [Workers -> WorkerStates]
      /\ worker'[w].at = at /\ worker'[w].job = j /\ worker'[w].reply = reply
      /\ \A v \in Workers \ {w} : worker'[v] = worker[v]
  BY <1>0, <1>2, <1>5 DEF TypesOK, WorkerStates
<1> HIDE DEF j
<1>7. TypesOK'
  BY <1>0, <1>1, <1>2, <1>6 DEF TypesOK, Busy
<1>8. ~Busy(w) /\ j = jobs[1] /\ 1 \in 1..Len(jobs)
  BY <1>1, <1>2 DEF Busy, Idle, j
<1>9. PlacesOK'
  <2>1. /\ \A k \in backlog' : k.number <= client'[k.client].sends
        /\ \A i \in 1..Len(jobs') : jobs'[i].number <= client'[jobs'[i].client].sends /\ jobs'[i] \notin backlog'
    BY <1>0, <1>1, <1>2 DEF PlacesOK, Sent
  <2>2. \A i, k \in 1..Len(jobs') : jobs'[i] = jobs'[k] => i = k
    BY <1>0, <1>2 DEF PlacesOK
  <2>3. /\ j.number <= client'[j.client].sends /\ j \notin backlog'
        /\ \A i \in 1..Len(jobs') : jobs'[i] # j
        /\ \A v \in Workers : Busy(v) => worker[v].job # j
    BY <1>0, <1>1, <1>2, <1>8 DEF PlacesOK, Sent
  <2>4. ASSUME NEW v \in Workers, Busy(v)'
        PROVE  /\ worker'[v].job.number <= client'[worker'[v].job.client].sends
               /\ worker'[v].job \notin backlog'
               /\ \A i \in 1..Len(jobs') : jobs'[i] # worker'[v].job
               /\ \A u \in Workers : Busy(u)' /\ worker'[u].job = worker'[v].job => u = v
    <3>1. \A u \in Workers \ {w} : Busy(u)' => Busy(u)
      BY <1>6 DEF Busy
    <3>2. CASE v = w
      BY <1>6, <2>3, <3>1, <3>2
    <3>3. CASE v # w
      BY <1>0, <1>1, <1>2, <1>6, <2>3, <2>4, <3>1, <3>3 DEF PlacesOK, Sent
    <3>4. QED
      BY <3>2, <3>3
  <2>5. QED
    BY <2>1, <2>2, <2>4 DEF PlacesOK, Sent
<1>10. CountsOK'
  <2> SUFFICES ASSUME NEW d \in Clients
               PROVE  Paired(client[d])' /\ Balanced(d)'
    BY DEF CountsOK
  <2>1. \A k : Waits(k)' => Waits(k)
    <3>1. \A k : Queued(k)' => Queued(k)
      BY <1>2 DEF Queued
    <3>2. Queued(j)
      BY <1>8 DEF Queued
    <3>3. \A v \in Workers \ {w} : Unfinished(worker[v])' => Unfinished(worker[v])
      BY <1>6 DEF Unfinished
    <3>4. QED
      BY <1>1, <1>6, <3>1, <3>2, <3>3 DEF Waits
  <2>2. client'[d] = client[d] /\ client[d] \in ClientStates /\ Balanced(d) /\ Paired(client[d])
    BY <1>0, <1>1 DEF TypesOK, CountsOK
  <2>3. Undone(d)' \subseteq Undone(d)
    BY <2>1, <2>2 DEF Undone
  <2>4. client'[d].applied + Denied(client[d])' <= client[d].applied + Denied(client[d])
    BY <2>2 DEF ClientStates, Denied
  <2>5. Balanced(d)'
    BY <1>0, <1>7, <2>2, <2>3, <2>4, BalanceKept
  <2>6. QED
    BY <2>2, <2>5 DEF Paired
<1>11. TruthOK'
  <2>1. \A v \in Workers : worker'[v].at = "replying" /\ worker'[v].reply = "ok"
                          /\ client'[worker'[v].job.client].request.op \in Effects
                          => client'[worker'[v].job.client].applied >= 1
    BY <1>0, <1>1, <1>5, <1>6 DEF TruthOK, RequestOf
  <2>2. QED
    BY <1>0, <1>1, <2>1 DEF TruthOK, RequestOf
<1>12. QED
  BY <1>7, <1>9, <1>10, <1>11 DEF ServerInv

\* A success on its way stays true while requests stay and operations are not
\* undone.
LEMMA SuccessStaysTrue ==
    ASSUME TypesOK, TruthOK,
           \A c \in Clients : client'[c].sends = client[c].sends /\ client'[c].request = client[c].request
                            /\ client'[c].applied = client[c].applied,
           \A w \in Workers : Busy(w)' => worker'[w] = worker[w]
    PROVE  \A w \in Workers :
              worker'[w].at = "replying" /\ worker'[w].reply = "ok"
              /\ client'[worker'[w].job.client].request.op \in Effects
              => client'[worker'[w].job.client].applied >= 1
<1> SUFFICES ASSUME NEW w \in Workers, worker'[w].at = "replying", worker'[w].reply = "ok",
                    client'[worker'[w].job.client].request.op \in Effects
             PROVE  client'[worker'[w].job.client].applied >= 1
  OBVIOUS
<1>1. worker'[w] = worker[w]
  BY DEF Busy
<1>2. worker[w].job.client \in Clients
  BY <1>1, JobFacts DEF TypesOK, Busy
<1>3. QED
  BY <1>1, <1>2 DEF TruthOK, RequestOf

\* Answering: the client may still wait, or have given up.
LEMMA ReplyStep ==
    ASSUME ServerInv, NEW w \in Workers, Reply(w)
    PROVE  ServerInv'
<1>0. TypesOK /\ PlacesOK /\ CountsOK /\ TruthOK
  BY DEF ServerInv
<1>1. /\ worker[w].at = "replying" /\ worker' = [worker EXCEPT ![w] = Idle]
      /\ UNCHANGED <<backlog, jobs>>
  BY DEF Reply
<1>2. Idle \in WorkerStates /\ Idle.at = "idle"
  BY DEF Idle, WorkerStates, Replies
<1>3. /\ worker' \in [Workers -> WorkerStates]
      /\ worker'[w].at = "idle" /\ \A v \in Workers \ {w} : worker'[v] = worker[v]
  BY <1>0, <1>1, <1>2 DEF TypesOK
<1>4. PICK c \in Clients, n \in Nat \ {0} : worker[w].job = Job(c, n)
  BY <1>0, <1>1, JobFacts DEF TypesOK, Busy
<1>5. worker[w].job.client = c /\ worker[w].job.number = n
  BY <1>4, JobFacts
<1> DEFINE reply == worker[w].reply
<1>6. reply \in Replies
  BY <1>0 DEF TypesOK, WorkerStates
<1>7. \/ client' = client
      \/ /\ client[c].at = "waiting" /\ reply \in {"broken", "closed"}
         /\ client' = [client EXCEPT ![c].at = "ready", ![c].lost = @ + 1]
      \/ /\ client[c].at = "waiting" /\ reply \notin {"broken", "closed"}
         /\ client' = [client EXCEPT ![c].at = "done", ![c].answer = reply]
  BY <1>5 DEF Reply
<1>8. /\ client' \in [Clients -> ClientStates]
      /\ \A d \in Clients \ {c} : client'[d] = client[d]
      /\ \A d \in Clients : /\ client'[d].sends = client[d].sends /\ client'[d].request = client[d].request
                           /\ client'[d].applied = client[d].applied
      /\ \/ client'[c] = client[c]
         \/ /\ client[c].at = "waiting" /\ client'[c].at = "ready" /\ client'[c].lost = client[c].lost + 1
            /\ client'[c].answer = client[c].answer
         \/ /\ client[c].at = "waiting" /\ client'[c].at = "done" /\ client'[c].lost = client[c].lost
            /\ client'[c].answer = reply /\ reply # "broken"
  <2>1. client \in [Clients -> ClientStates]
    BY <1>0 DEF TypesOK
  <2>2. QED
    BY <1>6, <1>7, <2>1 DEF ClientStates
<1> HIDE DEF reply
<1>9. TypesOK'
  BY <1>0, <1>1, <1>3, <1>8 DEF TypesOK, Busy
<1>10. NoNewConnection
  BY <1>1, <1>3, <1>8 DEF NoNewConnection, Busy
<1>11. PlacesOK'
  BY <1>0, <1>10, PlacesKept
<1>12. \A v \in Workers : Unfinished(worker[v])' => Unfinished(worker[v])
  BY <1>3 DEF Unfinished
<1>13. CountsOK'
  <2> SUFFICES ASSUME NEW d \in Clients
               PROVE  Paired(client[d])' /\ Balanced(d)'
    BY DEF CountsOK
  <2>1. Balanced(d) /\ Paired(client[d]) /\ client[d] \in ClientStates
    BY <1>0 DEF CountsOK, TypesOK
  <2>2. Paired(client[d])'
    BY <1>8, <2>1 DEF Paired, ClientStates
  <2>3. Undone(d)' \subseteq Undone(d)
    BY <1>0, <1>10, <1>12, UndoneShrinks
  <2>4. CASE Denied(client[d])' <= Denied(client[d])
    <3>1. client'[d].applied + Denied(client[d])' <= client[d].applied + Denied(client[d])
      BY <1>8, <2>1, <2>4 DEF Denied, ClientStates
    <3>2. QED
      BY <1>0, <1>8, <1>9, <2>1, <2>2, <2>3, <3>1, BalanceKept
  <2>5. CASE ~(Denied(client[d])' <= Denied(client[d]))
    <3>1. d = c /\ reply \notin {"ok", "broken"} /\ Denied(client[c]) = 0 /\ Denied(client[c])' = 1
      BY <1>8, <2>5 DEF Denied
    <3>2. Unfinished(worker[w]) /\ ~Unfinished(worker[w])'
      BY <1>1, <1>3, <3>1 DEF Unfinished, reply
    <3>3. n \in Undone(c) /\ Undone(c)' \subseteq Undone(c) \ {n}
      BY <1>0, <1>3, <1>4, <1>10, <3>2, UndoneRemoved
    <3>4. client'[c].applied + Denied(client[c])' <= client[c].applied + Denied(client[c]) + 1
      BY <1>8, <2>1, <3>1 DEF ClientStates
    <3>5. Balanced(c)'
      BY <1>0, <1>8, <1>9, <2>1, <3>1, <3>3, <3>4, BalanceKept
    <3>6. QED
      BY <2>2, <3>1, <3>5
  <2>6. QED
    BY <2>4, <2>5
<1>14. TruthOK'
  <2>1. \A v \in Workers : Busy(v)' => worker'[v] = worker[v]
    BY <1>3 DEF Busy
  <2>2. reply = "ok" /\ client[c].request.op \in Effects => client[c].applied >= 1
    BY <1>0, <1>1, <1>5 DEF TruthOK, RequestOf, reply
  <2>3. \A d \in Clients :
          /\ client'[d].answer = "ok" => client'[d].at = "done"
          /\ client'[d].sends > 0 => client'[d].request # None
          /\ client'[d].request # None => client'[d].request \in RequestsOf[d]
          /\ client'[d].answer = "ok" /\ client'[d].request.op \in Effects => client'[d].applied >= 1
    BY <1>0, <1>8, <2>2 DEF TruthOK
  <2>4. QED
    BY <1>0, <1>8, <2>1, <2>3, SuccessStaysTrue DEF TruthOK, RequestOf
<1>15. QED
  BY <1>9, <1>11, <1>13, <1>14 DEF ServerInv

-----------------------------------------------------------------------------
(* The steps of the others.                                                *)

\* A client that gives up, or whose connection is reset with the socket, has
\* lost an answer.
LEMMA LosingSteps ==
    ASSUME ServerInv, Stop \/ \E c \in Clients : GiveUpWaiting(c)
    PROVE  ServerInv'
<1>0. TypesOK /\ PlacesOK /\ CountsOK /\ TruthOK /\ client \in [Clients -> ClientStates]
  BY DEF ServerInv, TypesOK
<1> DEFINE Lost(x) == [x EXCEPT !.at = "ready", !.lost = @ + 1]
<1>1. /\ jobs' = jobs /\ worker' = worker /\ backlog' \subseteq backlog
      /\ client' = [d \in Clients |-> client'[d]]
      /\ \A d \in Clients : client'[d] = client[d] \/ (client[d].at = "waiting" /\ client'[d] = Lost(client[d]))
  <2>1. CASE Stop
    <3>1. CASE isRunning
      <4>1. \A d \in Clients : client'[d] = client[d] \/ (client[d].at = "waiting" /\ client'[d] = Lost(client[d]))
        BY <2>1, <3>1 DEF Stop
      <4>2. QED
        BY <2>1, <3>1, <4>1 DEF Stop
    <3>2. CASE ~isRunning
      BY <1>0, <2>1, <3>2 DEF Stop
    <3>3. QED
      BY <3>1, <3>2
  <2>2. CASE \E c \in Clients : GiveUpWaiting(c)
    BY <1>0, <2>2 DEF GiveUpWaiting, workVars
  <2>3. QED
    BY <2>1, <2>2
<1>2. \A d \in Clients :
         /\ client'[d] \in ClientStates
         /\ client'[d].sends = client[d].sends /\ client'[d].request = client[d].request
         /\ client'[d].applied = client[d].applied /\ client'[d].answer = client[d].answer
         /\ \/ client'[d].at = client[d].at /\ client'[d].lost = client[d].lost
            \/ /\ client[d].at = "waiting" /\ client'[d].at = "ready"
               /\ client'[d].lost = client[d].lost + 1
  <2>1. ASSUME NEW x \in ClientStates
        PROVE  /\ Lost(x) \in ClientStates
               /\ Lost(x).sends = x.sends /\ Lost(x).request = x.request
               /\ Lost(x).applied = x.applied /\ Lost(x).answer = x.answer
               /\ Lost(x).at = "ready" /\ Lost(x).lost = x.lost + 1
    <3>1. Lost(x) \in ClientStates
      <4> DEFINE y == [x EXCEPT !.at = "ready"]
      <4>1. y \in ClientStates /\ y.lost = x.lost
        BY DEF ClientStates
      <4>2. Lost(x) = [y EXCEPT !.lost = @ + 1]
        BY DEF ClientStates
      <4> HIDE DEF y
      <4>3. QED
        BY <4>1, <4>2 DEF ClientStates
    <3>2. Lost(x).sends = x.sends /\ Lost(x).request = x.request
          /\ Lost(x).applied = x.applied /\ Lost(x).answer = x.answer
      BY DEF ClientStates
    <3>3. Lost(x).at = "ready" /\ Lost(x).lost = x.lost + 1
      BY DEF ClientStates
    <3>4. QED
      BY <3>1, <3>2, <3>3
  <2> HIDE DEF Lost
  <2>2. QED
    BY <1>0, <1>1, <2>1
<1>3. TypesOK'
  BY <1>0, <1>1, <1>2 DEF TypesOK, Busy
<1>4. NoNewConnection
  BY <1>1, <1>2 DEF NoNewConnection, Busy
<1>5. PlacesOK'
  BY <1>0, <1>4, PlacesKept
<1>6. \A v \in Workers : Unfinished(worker[v])' => Unfinished(worker[v])
  BY <1>1 DEF Unfinished
<1>7. CountsOK'
  <2> SUFFICES ASSUME NEW d \in Clients
               PROVE  Paired(client[d])' /\ Balanced(d)'
    BY DEF CountsOK
  <2>1. Balanced(d) /\ Paired(client[d]) /\ client[d] \in ClientStates
    BY <1>0 DEF CountsOK
  <2>2. Paired(client[d])'
    BY <1>2, <2>1 DEF Paired, ClientStates
  <2>3. Undone(d)' \subseteq Undone(d)
    BY <1>0, <1>4, <1>6, UndoneShrinks
  <2>4. client'[d].applied + Denied(client[d])' <= client[d].applied + Denied(client[d])
    BY <1>2, <2>1 DEF Denied, ClientStates
  <2>5. QED
    BY <1>0, <1>2, <1>3, <2>1, <2>2, <2>3, <2>4, BalanceKept
<1>8. TruthOK'
  <2>1. \A v \in Workers : Busy(v)' => worker'[v] = worker[v]
    BY <1>1
  <2>2. \A d \in Clients :
          /\ client'[d].answer = "ok" => client'[d].at = "done"
          /\ client'[d].sends > 0 => client'[d].request # None
          /\ client'[d].request # None => client'[d].request \in RequestsOf[d]
          /\ client'[d].answer = "ok" /\ client'[d].request.op \in Effects => client'[d].applied >= 1
    BY <1>0, <1>2 DEF TruthOK
  <2>3. QED
    BY <1>0, <1>2, <2>1, <2>2, SuccessStaysTrue DEF TruthOK, RequestOf
<1>9. QED
  BY <1>3, <1>5, <1>7, <1>8 DEF ServerInv

\* A connection is accepted: it moves to the end of the queue.
LEMMA AcceptStep ==
    ASSUME ServerInv, NEW job \in backlog, Accept(job)
    PROVE  ServerInv'
<1>0. TypesOK /\ PlacesOK /\ CountsOK /\ TruthOK
  BY DEF ServerInv
<1>1. /\ backlog' = backlog \ {job} /\ jobs' = Append(jobs, job) /\ UNCHANGED <<worker, client>>
      /\ job \in AllJobs
  BY <1>0 DEF Accept, TypesOK
<1>2. /\ jobs \in Seq(AllJobs) /\ Len(jobs) \in Nat
      /\ jobs' \in Seq(AllJobs) /\ Len(jobs') = Len(jobs) + 1 /\ jobs'[Len(jobs) + 1] = job
      /\ \A i \in 1..Len(jobs) : jobs'[i] = jobs[i]
  BY <1>0, <1>1, QueueFacts DEF TypesOK
<1>3. TypesOK'
  BY <1>0, <1>1, <1>2 DEF TypesOK, Busy
<1>4. PlacesOK'
  <2>1. \A i \in 1..Len(jobs') : 
          (i \in 1..Len(jobs) /\ jobs'[i] = jobs[i]) \/ (i = Len(jobs) + 1 /\ jobs'[i] = job)
    BY <1>2
  <2>2. /\ \A k \in backlog' : k.number <= client'[k.client].sends
        /\ \A i \in 1..Len(jobs') : jobs'[i].number <= client'[jobs'[i].client].sends /\ jobs'[i] \notin backlog'
    BY <1>0, <1>1, <2>1 DEF PlacesOK, Sent
  <2>3. \A i, k \in 1..Len(jobs') : jobs'[i] = jobs'[k] => i = k
    BY <1>0, <2>1 DEF PlacesOK
  <2>4. \A v \in Workers : Busy(v)' =>
          /\ worker'[v].job.number <= client'[worker'[v].job.client].sends
          /\ worker'[v].job \notin backlog'
          /\ \A i \in 1..Len(jobs') : jobs'[i] # worker'[v].job
          /\ \A u \in Workers : Busy(u)' /\ worker'[u].job = worker'[v].job => u = v
    BY <1>0, <1>1, <2>1 DEF PlacesOK, Sent, Busy
  <2>5. QED
    BY <2>2, <2>3, <2>4 DEF PlacesOK, Sent
<1>5. CountsOK'
  <2> SUFFICES ASSUME NEW d \in Clients
               PROVE  Paired(client[d])' /\ Balanced(d)'
    BY DEF CountsOK
  <2>1. \A k : Waits(k)' => Waits(k)
    <3>1. \A k : Queued(k)' => Queued(k) \/ k = job
      BY <1>2 DEF Queued
    <3>2. QED
      BY <1>1, <3>1 DEF Waits, Unfinished
  <2>2. client'[d] = client[d] /\ client[d] \in ClientStates /\ Balanced(d) /\ Paired(client[d])
    BY <1>0, <1>1 DEF TypesOK, CountsOK
  <2>3. Undone(d)' \subseteq Undone(d)
    BY <2>1, <2>2 DEF Undone
  <2>4. client'[d].applied + Denied(client[d])' <= client[d].applied + Denied(client[d])
    BY <2>2 DEF ClientStates, Denied
  <2>5. Balanced(d)'
    BY <1>0, <1>3, <2>2, <2>3, <2>4, BalanceKept
  <2>6. QED
    BY <2>2, <2>5 DEF Paired
<1>6. TruthOK'
  BY <1>0, <1>1 DEF TruthOK, RequestOf
<1>7. QED
  BY <1>3, <1>4, <1>5, <1>6 DEF ServerInv

\* A client sends its request, for the first time or again: one more undone.
LEMMA SendStep ==
    ASSUME ServerInv, NEW c \in Clients, Send(c)
    PROVE  ServerInv'
<1>0. /\ TypesOK /\ PlacesOK /\ CountsOK /\ TruthOK
      /\ client \in [Clients -> ClientStates] /\ client[c] \in ClientStates
  BY DEF ServerInv, TypesOK
<1> DEFINE n == client[c].sends + 1
<1>1. PICK r \in RequestsOf[c] :
         /\ client[c].at = "ready" /\ client[c].request \in {None, r}
         /\ client' = [client EXCEPT ![c].request = r, ![c].at = "waiting", ![c].sends = @ + 1]
  BY DEF Send
<1>2. backlog' = backlog \cup {Job(c, n)} /\ UNCHANGED <<jobs, worker>>
  BY DEF Send, Job
<1>3. r \in AllRequests
  BY DEF AllRequests
<1>4. /\ client' \in [Clients -> ClientStates]
      /\ \A d \in Clients \ {c} : client'[d] = client[d]
      /\ client'[c].request = r /\ client'[c].at = "waiting" /\ client'[c].sends = n
      /\ client'[c].lost = client[c].lost /\ client'[c].applied = client[c].applied
      /\ client'[c].answer = client[c].answer
  BY <1>0, <1>1, <1>3 DEF ClientStates
<1>5. /\ client[c].sends \in Nat /\ n \in Nat \ {0} /\ n > client[c].sends
      /\ client[c].lost \in Nat /\ client[c].applied \in Nat
  BY <1>0 DEF ClientStates
<1> HIDE DEF n
<1>6. Job(c, n) \in AllJobs /\ Job(c, n).client = c /\ Job(c, n).number = n
  BY <1>5, JobFacts
<1>7. TypesOK'
  BY <1>0, <1>2, <1>4, <1>6 DEF TypesOK, Busy
<1>8. ~Sent(Job(c, n))
  BY <1>5, <1>6 DEF Sent
<1>9. \A j \in AllJobs : Sent(j) => j.number <= client'[j.client].sends
  BY <1>0, <1>4, <1>5, JobFacts DEF Sent, ClientStates
<1>10. /\ \A i \in 1..Len(jobs) : jobs[i] \in AllJobs
       /\ \A w \in Workers : Busy(w) => worker[w].job \in AllJobs
       /\ backlog \subseteq AllJobs
  BY <1>0, QueueFacts DEF TypesOK
<1>11. PlacesOK'
  <2>1. /\ \A j \in backlog' : j.number <= client'[j.client].sends
        /\ \A i \in 1..Len(jobs') : jobs'[i].number <= client'[jobs'[i].client].sends /\ jobs'[i] \notin backlog'
        /\ \A i, k \in 1..Len(jobs') : jobs'[i] = jobs'[k] => i = k
    BY <1>0, <1>2, <1>4, <1>5, <1>6, <1>8, <1>9, <1>10 DEF PlacesOK
  <2>2. \A v \in Workers : Busy(v)' =>
          /\ worker'[v].job.number <= client'[worker'[v].job.client].sends
          /\ worker'[v].job \notin backlog'
          /\ \A i \in 1..Len(jobs') : jobs'[i] # worker'[v].job
          /\ \A u \in Workers : Busy(u)' /\ worker'[u].job = worker'[v].job => u = v
    BY <1>0, <1>2, <1>8, <1>9, <1>10 DEF PlacesOK, Busy
  <2>3. QED
    BY <2>1, <2>2 DEF PlacesOK, Sent
<1>12. \A j : Waits(j)' => Waits(j) \/ j = Job(c, n)
  BY <1>2 DEF Waits, Queued, Unfinished
<1>13. Balanced(c)' /\ Paired(client[c])'
  <2>1. Balanced(c) /\ Paired(client[c])
    BY <1>0 DEF CountsOK
  <2>2. Undone(c)' \subseteq Undone(c) \cup {n}
    <3>1. \A m \in 1..n : m = n \/ m \in 1..client[c].sends
      BY <1>5 DEF n
    <3>2. \A m : Job(c, m) = Job(c, n) => m = n
      BY JobFacts
    <3>3. QED
      BY <1>4, <1>12, <3>1, <3>2 DEF Undone
  <2>3. n \notin Undone(c)
    BY <1>5 DEF Undone
  <2> DEFINE U == Undone(c)
             V == Undone(c)'
  <2>4. /\ Cardinality(U) \in Nat /\ IsFiniteSet(U \cup {n})
        /\ Cardinality(U \cup {n}) = Cardinality(U) + 1
    BY <1>0, <2>3, UndoneFinite
  <2>5. Cardinality(V) \in Nat /\ Cardinality(V) <= Cardinality(U) + 1
    <3>1. IsFiniteSet(V) /\ Cardinality(V) <= Cardinality(U \cup {n})
      BY <2>2, <2>4, FS_Subset
    <3>2. QED
      BY <2>4, <3>1, FS_CardinalityType
  <2>6. Denied(client[c]) = 0 /\ Denied(client[c])' = 0
    BY <1>1, <1>4 DEF Denied
  <2>7. client[c].applied + Cardinality(U) <= client[c].sends
    BY <1>5, <2>1, <2>4, <2>6 DEF Balanced
  <2>8. client[c].applied + Cardinality(V) <= n
    BY <1>5, <2>4, <2>5, <2>7 DEF n
  <2>9. Balanced(c)'
    BY <1>4, <1>5, <2>5, <2>6, <2>8 DEF Balanced
  <2>10. Paired(client[c])'
    BY <1>1, <1>4, <1>5, <2>1 DEF Paired, n
  <2>11. QED
    BY <2>9, <2>10
<1>14. ASSUME NEW d \in Clients, d # c
       PROVE  Balanced(d)' /\ Paired(client[d])'
  <2>1. client'[d] = client[d] /\ client[d] \in ClientStates /\ Balanced(d) /\ Paired(client[d])
    BY <1>0, <1>4, <1>14 DEF CountsOK
  <2>2. \A m : Job(d, m) # Job(c, n)
    BY <1>14, JobFacts
  <2>3. Undone(d)' \subseteq Undone(d)
    BY <1>12, <2>1, <2>2 DEF Undone
  <2>4. client'[d].applied + Denied(client[d])' <= client[d].applied + Denied(client[d])
    BY <2>1 DEF ClientStates, Denied
  <2>5. Balanced(d)'
    BY <1>0, <1>7, <2>1, <2>3, <2>4, BalanceKept
  <2>6. QED
    BY <2>1, <2>5 DEF Paired
<1>15. CountsOK'
  BY <1>13, <1>14 DEF CountsOK
<1>16. TruthOK'
  <2>1. client[c].sends > 0 => client'[c].request = client[c].request
    BY <1>0, <1>1, <1>4 DEF TruthOK
  <2>2. client[c].answer # "ok" /\ r # None
    BY <1>0, <1>1, RequestsAssumption DEF TruthOK
  <2>3. \A d \in Clients :
          /\ client'[d].answer = "ok" => client'[d].at = "done"
          /\ client'[d].sends > 0 => client'[d].request # None
          /\ client'[d].request # None => client'[d].request \in RequestsOf[d]
          /\ client'[d].answer = "ok" /\ client'[d].request.op \in Effects => client'[d].applied >= 1
    BY <1>0, <1>4, <2>2 DEF TruthOK
  <2>4. ASSUME NEW v \in Workers, worker'[v].at = "replying", worker'[v].reply = "ok",
               client'[worker'[v].job.client].request.op \in Effects
        PROVE  client'[worker'[v].job.client].applied >= 1
    <3>1. worker'[v] = worker[v] /\ Busy(v) /\ worker[v].job \in AllJobs
      BY <1>0, <1>2, <2>4 DEF TypesOK, Busy
    <3>2. worker[v].job.client \in Clients /\ client[worker[v].job.client].sends > 0
      <4>1. worker[v].job.client \in Clients /\ worker[v].job.number \in Nat \ {0}
        BY <3>1, JobFacts
      <4>2. worker[v].job.number <= client[worker[v].job.client].sends
        BY <1>0, <3>1 DEF PlacesOK, Sent
      <4>3. client[worker[v].job.client].sends \in Nat
        BY <1>0, <4>1 DEF ClientStates
      <4>4. QED
        BY <4>1, <4>2, <4>3
    <3>3. client'[worker[v].job.client].request = client[worker[v].job.client].request
          /\ client'[worker[v].job.client].applied = client[worker[v].job.client].applied
      BY <1>4, <2>1, <3>2
    <3>4. QED
      BY <1>0, <2>4, <3>1, <3>3 DEF TruthOK, RequestOf
  <2>5. QED
    BY <2>3, <2>4 DEF TruthOK, RequestOf
<1>17. QED
  BY <1>7, <1>11, <1>15, <1>16 DEF ServerInv

\* Steps that touch neither connections nor clients.
LEMMA OutsideSteps ==
    ASSUME ServerInv, UNCHANGED <<workVars, client>>
    PROVE  ServerInv'
<1> USE DEF ServerInv, workVars
<1>1. TypesOK'
  BY DEF TypesOK, Busy
<1>2. PlacesOK'
  BY DEF PlacesOK, Sent, Busy
<1>3. \A c \in Clients : Undone(c)' = Undone(c)
  BY DEF Undone, Waits, Queued
<1>4. CountsOK'
  BY <1>3 DEF CountsOK, Balanced, Paired, Denied
<1>5. TruthOK'
  BY DEF TruthOK, RequestOf
<1>6. QED
  BY <1>1, <1>2, <1>4, <1>5

\* Every step keeps the invariant.
LEMMA ServerInvInductive ==
    ASSUME ServerInv, [Next]_vars
    PROVE  ServerInv'
<1>1. CASE MainStep \/ Signal \/ Poll \/ UNCHANGED vars
  <2>1. UNCHANGED <<workVars, client>>
    BY <1>1 DEF MainStep, ReadOptions, CreateServerSetup, StartStopThread, RegisterRoutes, Bind,
                ListenInternal, ShutDown, Return, Signal, Poll, vars
  <2>2. QED
    BY <2>1, OutsideSteps
<1>2. CASE Stop \/ \E c \in Clients : GiveUpWaiting(c)
  BY <1>2, LosingSteps
<1>3. CASE \E job \in backlog : Accept(job)
  BY <1>3, AcceptStep
<1>4. CASE \E c \in Clients : Send(c)
  BY <1>4, SendStep
<1>5. CASE \E w \in Workers : WorkerStep(w) \/ Lock(w)
  BY <1>5, TakeStep, RuntimeKeeps, ReplyStep, LockStep DEF WorkerStep
<1>6. QED
  BY <1>1, <1>2, <1>3, <1>4, <1>5 DEF Next

\* Nobody has sent anything at first.
LEMMA ServerInvInitially == Init => ServerInv
<1> SUFFICES ASSUME Init PROVE ServerInv
  OBVIOUS
<1>1. /\ backlog = {} /\ jobs = << >> /\ worker = [w \in Workers |-> Idle]
      /\ client = [c \in Clients |-> [request |-> None, at |-> "ready", sends |-> 0, lost |-> 0,
                                      applied |-> 0, answer |-> "none"]]
  BY DEF Init
<1>2. Idle \in WorkerStates /\ Idle.at = "idle"
  BY DEF Idle, WorkerStates, Replies
<1>3. jobs \in Seq(AllJobs) /\ Len(jobs) = 0
  BY <1>1
<1>4. /\ client \in [Clients -> ClientStates]
      /\ \A c \in Clients : /\ client[c].request = None /\ client[c].at = "ready" /\ client[c].sends = 0
                           /\ client[c].lost = 0 /\ client[c].applied = 0 /\ client[c].answer = "none"
  BY <1>1 DEF ClientStates, Replies
<1>5. \A w \in Workers : worker[w] = Idle /\ ~Busy(w)
  BY <1>1, <1>2 DEF Busy
<1>6. TypesOK
  BY <1>1, <1>2, <1>3, <1>4, <1>5 DEF TypesOK
<1>7. PlacesOK
  BY <1>1, <1>3, <1>5 DEF PlacesOK
<1>8. CountsOK
  <2> SUFFICES ASSUME NEW c \in Clients
               PROVE  Paired(client[c]) /\ Balanced(c)
    BY DEF CountsOK
  <2>1. Undone(c) = {}
    BY <1>4 DEF Undone
  <2>2. Cardinality(Undone(c)) = 0
    BY <2>1, FS_EmptySet
  <2>3. QED
    BY <1>4, <2>2 DEF Paired, Balanced, Denied
<1>9. TruthOK
  BY <1>2, <1>4, <1>5 DEF TruthOK
<1>10. QED
  BY <1>6, <1>7, <1>8, <1>9 DEF ServerInv

\* Clients are told the truth by the HTTP and MCP handlers, for any number of
\* clients, workers and repetitions: a success means the operation was done, and
\* it is done at most once more than answers were lost or broken.
THEOREM ClientsToldTruth == Spec => []AnswersAreTrue
<1>1. ServerInv => AnswersAreTrue
  <2> SUFFICES ASSUME ServerInv, NEW c \in Clients
               PROVE  /\ client[c].answer = "ok" /\ client[c].request.op \in Effects => client[c].applied >= 1
                      /\ client[c].applied <= client[c].lost
                            + (IF client[c].answer = "ok" \/ client[c].at = "waiting" THEN 1 ELSE 0)
    BY DEF AnswersAreTrue
  <2>1. TypesOK /\ Paired(client[c]) /\ Balanced(c) /\ client[c] \in ClientStates
    BY DEF ServerInv, CountsOK, TypesOK
  <2>2. Cardinality(Undone(c)) \in Nat
    BY <2>1, UndoneFinite
  <2>3. /\ client[c].applied \in Nat /\ client[c].lost \in Nat /\ client[c].sends \in Nat
        /\ client[c].at \in {"ready", "waiting", "done"} /\ Denied(client[c]) \in Nat
    BY <2>1 DEF ClientStates, Denied
  <2>4. client[c].applied + Denied(client[c]) <= client[c].lost + (IF client[c].at = "ready" THEN 0 ELSE 1)
    BY <2>1, <2>2, <2>3 DEF Balanced, Paired
  <2>5. client[c].applied <= client[c].lost
            + (IF client[c].answer = "ok" \/ client[c].at = "waiting" THEN 1 ELSE 0)
    BY <2>3, <2>4 DEF Denied
  <2>6. QED
    BY <2>5 DEF ServerInv, TruthOK
<1>2. ServerInv /\ [Next]_vars => ServerInv'
  BY ServerInvInductive
<1>3. QED
  BY <1>1, <1>2, ServerInvInitially, PTL DEF Spec

-----------------------------------------------------------------------------
(* The command line and the configuration file.  The loops of              *)
(* FindConfigPath and Run are recursive functions; what they compute is    *)
(* shown by induction, that is, by looking at the last position for which  *)
(* the claim would fail.                                                   *)

\* Every set of numbers that is not empty has a least element: what the proofs by
\* induction in this module rest on.
LEMMA Least ==
    ASSUME NEW S \in SUBSET Nat, S # {}
    PROVE  \E m \in S : \A k \in S : m <= k
<1> DEFINE R == OpToRel(<, Nat)
<1>1. IsWellFoundedOn(R, Nat)
  BY NatLessThanWellFounded
<1>2. PICK x \in S : \A y \in S : <<y, x>> \notin R
  <2> HIDE DEF R
  <2>1. QED
    BY <1>1, WFMin, Zenon
<1>3. \A y \in S : y < x => <<y, x>> \in R
  BY DEF OpToRel
<1>4. x \in Nat /\ \A y \in S : y \in Nat
  OBVIOUS
<1>5. \A y \in S : ~(y < x)
  BY <1>2, <1>3
<1>6. \A y \in S : x <= y
  BY <1>4, <1>5
<1>7. QED
  BY <1>6

\* One round of the loop in FindConfigPath.
ScanStep(args, f, i) ==
    IF i > Len(args) THEN [ok |-> TRUE, path |-> << >>]
    ELSE IF args[i] # "--config" THEN f[i + 1]
    ELSE IF ~RequireCliValue(i, args) THEN [ok |-> FALSE, path |-> << >>]
    ELSE [f[i + 2] EXCEPT !.path = IF @ = << >> THEN <<args[i + 1]>> ELSE @]

\* The recursion is well founded: a function that satisfies it exists.
LEMMA ScanExists ==
    ASSUME NEW args, Len(args) \in Nat
    PROVE  \E f : f = [i \in 1..Len(args) + 2 |-> ScanStep(args, f, i)]
<1> DEFINE N == Len(args)
           D == 1..N + 2
           Good(n) == \E f : f = [i \in D |-> f[i]] /\ \A i \in D : i >= N + 1 - n => f[i] = ScanStep(args, f, i)
           Bad == {n \in 0..N : ~Good(n)}
<1>1. Good(0)
  <2> DEFINE f == [i \in D |-> [ok |-> TRUE, path |-> << >>]]
  <2>1. f = [i \in D |-> f[i]] /\ \A i \in D : i >= N + 1 => f[i] = ScanStep(args, f, i)
    BY DEF ScanStep
  <2> HIDE DEF f
  <2>2. QED
    BY <2>1
<1>2. ASSUME NEW n \in 0..N - 1, Good(n)
      PROVE  Good(n + 1)
  <2>1. PICK f : f = [i \in D |-> f[i]] /\ \A i \in D : i >= N + 1 - n => f[i] = ScanStep(args, f, i)
    BY <1>2
  <2> DEFINE m == N - n
             g == [i \in D |-> IF i = m THEN ScanStep(args, f, m) ELSE f[i]]
  <2>2. m \in D /\ g = [i \in D |-> g[i]]
    OBVIOUS
  <2>3. \A i \in D : i > m => g[i] = f[i]
    OBVIOUS
  <2>4. g[m] = ScanStep(args, f, m)
    BY <2>2
  <2> HIDE DEF g
  <2>5. \A i \in D : i >= m => ScanStep(args, g, i) = ScanStep(args, f, i)
    <3> SUFFICES ASSUME NEW i \in D, i >= m
                 PROVE  ScanStep(args, g, i) = ScanStep(args, f, i)
      OBVIOUS
    <3>1. CASE i > N
      BY <3>1 DEF ScanStep
    <3>2. CASE i <= N
      <4>1. g[i + 1] = f[i + 1] /\ g[i + 2] = f[i + 2]
        BY <2>3, <3>2
      <4>2. QED
        BY <3>2, <4>1 DEF ScanStep
    <3>3. QED
      BY <3>1, <3>2
  <2>6. \A i \in D : i >= N + 1 - (n + 1) => g[i] = ScanStep(args, g, i)
    <3> SUFFICES ASSUME NEW i \in D, i >= m
                 PROVE  g[i] = ScanStep(args, g, i)
      OBVIOUS
    <3>1. CASE i = m
      BY <3>1, <2>4, <2>5
    <3>2. CASE i # m
      <4>1. i > m /\ i >= N + 1 - n
        BY <3>2
      <4>2. g[i] = f[i] /\ f[i] = ScanStep(args, f, i)
        BY <4>1, <2>1, <2>3
      <4>3. QED
        BY <4>2, <2>5
    <3>3. QED
      BY <3>1, <3>2
  <2>7. QED
    BY <2>2, <2>6
<1>3. Good(N)
  <2> SUFFICES ASSUME ~Good(N) PROVE FALSE
    OBVIOUS
  <2> HIDE DEF Good
  <2>1. Bad \in SUBSET Nat /\ N \in Bad
    OBVIOUS
  <2>2. PICK n \in Bad : \A k \in Bad : n <= k
    BY <2>1, Least
  <2>3. n # 0
    BY <1>1
  <2>4. n - 1 \in 0..N - 1 /\ n - 1 \notin Bad
    BY <2>2, <2>3
  <2>5. Good(n - 1)
    BY <2>4
  <2>6. Good((n - 1) + 1)
    BY <2>4, <2>5, <1>2
  <2>7. (n - 1) + 1 = n
    BY <2>2
  <2>8. QED
    BY <2>6, <2>7, <2>2
<1>4. PICK f : f = [i \in D |-> f[i]] /\ \A i \in D : i >= N + 1 - N => f[i] = ScanStep(args, f, i)
  BY <1>3
<1>5. f = [i \in D |-> ScanStep(args, f, i)]
  BY <1>4
<1>6. QED
  BY <1>5

\* What FindConfigPath finds: the word after a --config after which there is no
\* other, if it ends well.
LEMMA ConfigPathFound ==
    ASSUME NEW args, Len(args) \in Nat, FindConfigPath(args).ok
    PROVE  \/ FindConfigPath(args).path = << >> /\ \A j \in 1..Len(args) : args[j] # "--config"
           \/ \E m \in 1..Len(args) - 1 :
                 /\ args[m] = "--config" /\ FindConfigPath(args).path = <<args[m + 1]>>
                 /\ \A j \in m + 2..Len(args) : args[j] # "--config"
<1> DEFINE N == Len(args)
           D == 1..N + 2
           Scan == CHOOSE f : f = [i \in D |-> ScanStep(args, f, i)]
           Found(i) ==
              /\ Scan[i] = [ok |-> Scan[i].ok, path |-> Scan[i].path]
              /\ Scan[i].ok =>
                 \/ Scan[i].path = << >> /\ \A j \in i..N : args[j] # "--config"
                 \/ \E m \in i..N - 1 : /\ args[m] = "--config" /\ Scan[i].path = <<args[m + 1]>>
                                        /\ \A j \in m + 2..N : args[j] # "--config"
           Bad == {n \in 0..N + 1 : ~Found(N + 2 - n)}
<1>1. FindConfigPath(args) = Scan[1]
  BY DEF FindConfigPath, ScanStep
<1>2. Scan = [i \in D |-> ScanStep(args, Scan, i)]
  BY ScanExists
<1>3. \A i \in D : Scan[i] = ScanStep(args, Scan, i)
  BY <1>2
<1> HIDE DEF Scan
<1>4. ASSUME NEW i \in D, \A j \in D : j > i => Found(j)
      PROVE  Found(i)
  <2>1. Scan[i] = ScanStep(args, Scan, i)
    BY <1>3
  <2>2. CASE i > N
    BY <2>1, <2>2 DEF ScanStep
  <2>3. CASE i <= N /\ args[i] # "--config"
    <3>1. Scan[i] = Scan[i + 1] /\ i + 1 \in D /\ i + 1 > i
      BY <2>1, <2>3 DEF ScanStep
    <3>2. Found(i + 1)
      BY <3>1, <1>4
    <3>3. \A j \in i..N : j = i \/ j \in i + 1..N
      OBVIOUS
    <3>4. i + 1..N - 1 \subseteq i..N - 1
      OBVIOUS
    <3>5. CASE ~Scan[i].ok
      BY <3>1, <3>2, <3>5
    <3>6. CASE Scan[i + 1].path = << >> /\ \A j \in i + 1..N : args[j] # "--config"
      BY <3>1, <3>2, <3>3, <3>6, <2>3
    <3>7. ASSUME NEW m \in i + 1..N - 1, args[m] = "--config", Scan[i + 1].path = <<args[m + 1]>>,
                 \A j \in m + 2..N : args[j] # "--config"
          PROVE  Found(i)
      BY <3>1, <3>2, <3>4, <3>7
    <3>8. QED
      BY <3>1, <3>2, <3>5, <3>6, <3>7
  <2>4. CASE i <= N /\ args[i] = "--config" /\ ~(i < N)
    <3>1. Scan[i] = [ok |-> FALSE, path |-> << >>]
      BY <2>1, <2>4 DEF ScanStep, RequireCliValue
    <3>2. QED
      BY <3>1
  <2>5. CASE i < N /\ args[i] = "--config"
    <3>1. i + 2 \in D /\ i + 2 > i
      BY <2>5
    <3>2. Found(i + 2)
      BY <3>1, <1>4
    <3>3. Scan[i] = [Scan[i + 2] EXCEPT !.path = IF @ = << >> THEN <<args[i + 1]>> ELSE @]
      BY <2>1, <2>5 DEF ScanStep, RequireCliValue
    <3>4. /\ Scan[i].ok = Scan[i + 2].ok
          /\ Scan[i].path = IF Scan[i + 2].path = << >> THEN <<args[i + 1]>> ELSE Scan[i + 2].path
          /\ Scan[i] = [ok |-> Scan[i].ok, path |-> Scan[i].path]
      BY <3>2, <3>3
    <3>5. <<args[i + 1]>> # << >>
      OBVIOUS
    <3>6. ASSUME Scan[i].ok, Scan[i + 2].path = << >>
          PROVE  Found(i)
      <4>1. \A j \in i + 2..N : args[j] # "--config"
        <5>1. ASSUME NEW m \in i + 2..N - 1, Scan[i + 2].path = <<args[m + 1]>>
              PROVE  FALSE
          <6>1. <<args[m + 1]>> # << >>
            OBVIOUS
          <6>2. QED
            BY <5>1, <3>6, <6>1
        <5>2. QED
          BY <5>1, <3>2, <3>4, <3>6
      <4>2. i \in i..N - 1 /\ Scan[i].path = <<args[i + 1]>>
        BY <2>5, <3>4, <3>6
      <4>3. QED
        BY <4>1, <4>2, <3>4, <2>5
    <3>7. ASSUME Scan[i].ok, Scan[i + 2].path # << >>
          PROVE  Found(i)
      BY <3>1, <3>2, <3>4, <3>7
    <3>8. QED
      BY <3>4, <3>6, <3>7
  <2>6. QED
    BY <2>2, <2>3, <2>4, <2>5
<1>5. Found(1)
  <2> HIDE DEF Found
  <2> SUFFICES ASSUME ~Found(1) PROVE FALSE
    OBVIOUS
  <2>1. Bad \in SUBSET Nat
    OBVIOUS
  <2>2. N + 1 \in Bad
    <3>1. N + 2 - (N + 1) = 1
      OBVIOUS
    <3>2. QED
      BY <3>1
  <2>3. PICK n \in Bad : \A k \in Bad : n <= k
    BY <2>1, <2>2, Least
  <2>4. N + 2 - n \in D
    OBVIOUS
  <2>5. ASSUME NEW j \in D, j > N + 2 - n
        PROVE  Found(j)
    <3>1. N + 2 - j \in 0..N + 1 /\ N + 2 - j < n /\ N + 2 - (N + 2 - j) = j
      BY <2>5
    <3>2. N + 2 - j \notin Bad
      BY <3>1, <2>3
    <3>3. QED
      BY <3>1, <3>2
  <2>6. Found(N + 2 - n)
    BY <2>4, <2>5, <1>4
  <2>7. QED
    BY <2>3, <2>6
<1>6. QED
  BY <1>1, <1>5

OptionWords == {"--config", "--host", "--port", "--data"}

\* One round of the loop in Run.
Accepted(args, i) ==
    /\ args[i] \in OptionWords
    /\ RequireCliValue(i, args)
    /\ args[i] = "--port" => ParsePort(args[i + 1])

Override(args, i) ==
    CASE args[i] = "--host" -> [host |-> args[i + 1]]
      [] args[i] = "--port" -> [port |-> Numerals[args[i + 1]]]
      [] args[i] = "--data" -> [dataPath |-> args[i + 1]]
      [] args[i] = "--config" -> NoMembers

ReadStep(args, f, i) ==
    IF i > Len(args) THEN [ok |-> TRUE, set |-> NoMembers]
    ELSE IF ~Accepted(args, i) THEN [ok |-> FALSE, set |-> NoMembers]
    ELSE [f[i + 2] EXCEPT !.set = @ ++ Override(args, i)]

\* The recursion of ReadArguments is well founded, too.
LEMMA ReadExists ==
    ASSUME NEW args, Len(args) \in Nat
    PROVE  \E f : f = [i \in 1..Len(args) + 2 |-> ReadStep(args, f, i)]
<1> DEFINE N == Len(args)
           D == 1..N + 2
           Good(n) == \E f : f = [i \in D |-> f[i]] /\ \A i \in D : i >= N + 1 - n => f[i] = ReadStep(args, f, i)
           Bad == {n \in 0..N : ~Good(n)}
<1>1. Good(0)
  <2> DEFINE f == [i \in D |-> [ok |-> TRUE, set |-> NoMembers]]
  <2>1. f = [i \in D |-> f[i]] /\ \A i \in D : i >= N + 1 => f[i] = ReadStep(args, f, i)
    BY DEF ReadStep
  <2> HIDE DEF f
  <2>2. QED
    BY <2>1
<1>2. ASSUME NEW n \in 0..N - 1, Good(n)
      PROVE  Good(n + 1)
  <2>1. PICK f : f = [i \in D |-> f[i]] /\ \A i \in D : i >= N + 1 - n => f[i] = ReadStep(args, f, i)
    BY <1>2
  <2> DEFINE m == N - n
             g == [i \in D |-> IF i = m THEN ReadStep(args, f, m) ELSE f[i]]
  <2>2. m \in D /\ g = [i \in D |-> g[i]]
    OBVIOUS
  <2>3. \A i \in D : i > m => g[i] = f[i]
    OBVIOUS
  <2>4. g[m] = ReadStep(args, f, m)
    BY <2>2
  <2> HIDE DEF g
  <2>5. \A i \in D : i >= m => ReadStep(args, g, i) = ReadStep(args, f, i)
    <3> SUFFICES ASSUME NEW i \in D, i >= m
                 PROVE  ReadStep(args, g, i) = ReadStep(args, f, i)
      OBVIOUS
    <3>1. CASE i > N
      BY <3>1 DEF ReadStep
    <3>2. CASE i <= N
      <4>1. g[i + 2] = f[i + 2]
        BY <2>3, <3>2
      <4>2. QED
        BY <3>2, <4>1 DEF ReadStep
    <3>3. QED
      BY <3>1, <3>2
  <2>6. \A i \in D : i >= N + 1 - (n + 1) => g[i] = ReadStep(args, g, i)
    <3> SUFFICES ASSUME NEW i \in D, i >= m
                 PROVE  g[i] = ReadStep(args, g, i)
      OBVIOUS
    <3>1. CASE i = m
      BY <3>1, <2>4, <2>5
    <3>2. CASE i # m
      <4>1. i > m /\ i >= N + 1 - n
        BY <3>2
      <4>2. g[i] = f[i] /\ f[i] = ReadStep(args, f, i)
        BY <4>1, <2>1, <2>3
      <4>3. QED
        BY <4>2, <2>5
    <3>3. QED
      BY <3>1, <3>2
  <2>7. QED
    BY <2>2, <2>6
<1>3. Good(N)
  <2> SUFFICES ASSUME ~Good(N) PROVE FALSE
    OBVIOUS
  <2> HIDE DEF Good
  <2>1. Bad \in SUBSET Nat /\ N \in Bad
    OBVIOUS
  <2>2. PICK n \in Bad : \A k \in Bad : n <= k
    BY <2>1, Least
  <2>3. n # 0
    BY <1>1
  <2>4. n - 1 \in 0..N - 1 /\ n - 1 \notin Bad
    BY <2>2, <2>3
  <2>5. Good(n - 1)
    BY <2>4
  <2>6. Good((n - 1) + 1)
    BY <2>4, <2>5, <1>2
  <2>7. (n - 1) + 1 = n
    BY <2>2
  <2>8. QED
    BY <2>6, <2>7, <2>2
<1>4. PICK f : f = [i \in D |-> f[i]] /\ \A i \in D : i >= N + 1 - N => f[i] = ReadStep(args, f, i)
  BY <1>3
<1>5. f = [i \in D |-> ReadStep(args, f, i)]
  BY <1>4
<1>6. QED
  BY <1>5

Overridable == {"host", "port", "dataPath"}

\* What the loop of Run sets: members of ServerOptions that no part of the model
\* configuration is among, and a port that is one.
IsOverride(set) ==
    /\ DOMAIN set \subseteq Overridable
    /\ "port" \in DOMAIN set => set["port"] \in Ports

\* The overrides of single options, and of several.
LEMMA NoOverride == IsOverride(NoMembers)
<1>1. DOMAIN NoMembers = {}
  BY DEF NoMembers
<1>2. QED
  BY <1>1 DEF IsOverride

LEMMA OverrideFacts ==
    ASSUME NEW args, NEW i, Accepted(args, i)
    PROVE  IsOverride(Override(args, i))
<1>1. CASE args[i] = "--host"
  <2>1. Override(args, i) = [host |-> args[i + 1]]
    BY <1>1 DEF Override
  <2>2. QED
    BY <2>1 DEF IsOverride, Overridable
<1>2. CASE args[i] = "--port"
  <2>1. Override(args, i) = [port |-> Numerals[args[i + 1]]]
    BY <1>2 DEF Override
  <2>2. QED
    <3>1. Numerals[args[i + 1]] \in Ports
      BY <1>2 DEF Accepted, ParsePort
    <3>2. DOMAIN Override(args, i) = {"port"} /\ Override(args, i)["port"] = Numerals[args[i + 1]]
      BY <2>1
    <3>3. QED
      BY <3>1, <3>2 DEF IsOverride, Overridable
<1>3. CASE args[i] = "--data"
  <2>1. Override(args, i) = [dataPath |-> args[i + 1]]
    BY <1>3 DEF Override
  <2>2. QED
    BY <2>1 DEF IsOverride, Overridable
<1>4. CASE args[i] = "--config"
  <2>1. Override(args, i) = NoMembers
    BY <1>4 DEF Override
  <2>2. QED
    BY <2>1, NoOverride
<1>5. QED
  BY <1>1, <1>2, <1>3, <1>4 DEF Accepted, OptionWords

LEMMA OverrideUnion ==
    ASSUME NEW f, NEW g, IsOverride(f), IsOverride(g)
    PROVE  IsOverride(f ++ g)
<1>1. DOMAIN (f ++ g) = DOMAIN f \cup DOMAIN g
  BY DEF ++
<1>2. ASSUME "port" \in DOMAIN (f ++ g)
      PROVE  (f ++ g)["port"] \in Ports
  BY <1>2 DEF IsOverride, ++
<1>3. QED
  BY <1>1, <1>2 DEF IsOverride

\* What the loop has read when it gets to the end: an option with its value at
\* every odd position.
LEMMA ArgumentsRead ==
    ASSUME NEW args, Len(args) \in Nat
    PROVE  /\ IsOverride(ReadArguments(args).set)
           /\ ReadArguments(args).ok => \A j \in 1..Len(args) : j % 2 = 1 => args[j] \in OptionWords
<1> DEFINE N == Len(args)
           D == 1..N + 2
           Read == CHOOSE f : f = [i \in D |-> ReadStep(args, f, i)]
           Known(i) ==
              /\ Read[i] = [ok |-> Read[i].ok, set |-> Read[i].set]
              /\ IsOverride(Read[i].set)
              /\ Read[i].ok => \A j \in i..N : j % 2 = i % 2 => args[j] \in OptionWords
           Bad == {n \in 0..N + 1 : ~Known(N + 2 - n)}
<1>1. ReadArguments(args) = Read[1]
  BY DEF ReadArguments, ReadStep, Accepted, OptionWords, Override
<1>2. Read = [i \in D |-> ReadStep(args, Read, i)]
  BY ReadExists
<1>3. \A i \in D : Read[i] = ReadStep(args, Read, i)
  BY <1>2
<1> HIDE DEF Read
<1>4. ASSUME NEW i \in D, \A j \in D : j > i => Known(j)
      PROVE  Known(i)
  <2>0. IsOverride(NoMembers)
    BY NoOverride
  <2>1. Read[i] = ReadStep(args, Read, i)
    BY <1>3
  <2>2. CASE i > N
    <3>1. Read[i] = [ok |-> TRUE, set |-> NoMembers]
      BY <2>1, <2>2 DEF ReadStep
    <3>2. QED
      BY <3>1, <2>2, <2>0
  <2>3. CASE i <= N /\ ~Accepted(args, i)
    <3>1. Read[i] = [ok |-> FALSE, set |-> NoMembers]
      BY <2>1, <2>3 DEF ReadStep
    <3>2. QED
      BY <3>1, <2>0
  <2>4. CASE i <= N /\ Accepted(args, i)
    <3>1. i + 2 \in D /\ i + 2 > i /\ (i + 2) % 2 = i % 2
      BY <2>4
    <3>2. Known(i + 2)
      BY <3>1, <1>4
    <3>3. Read[i] = [Read[i + 2] EXCEPT !.set = @ ++ Override(args, i)]
      BY <2>1, <2>4 DEF ReadStep
    <3>4. /\ Read[i].ok = Read[i + 2].ok
          /\ Read[i].set = Read[i + 2].set ++ Override(args, i)
          /\ Read[i] = [ok |-> Read[i].ok, set |-> Read[i].set]
      BY <3>2, <3>3
    <3>5. IsOverride(Read[i].set)
      BY <2>4, <3>2, <3>4, OverrideFacts, OverrideUnion
    <3>6. ASSUME NEW j \in i..N, j % 2 = i % 2, Read[i].ok
          PROVE  args[j] \in OptionWords
      <4>1. CASE j = i
        BY <4>1, <2>4 DEF Accepted
      <4>2. CASE j # i
        <5>1. j # i + 1
          BY <3>6
        <5>2. j \in i + 2..N
          BY <4>2, <5>1
        <5>3. QED
          BY <3>1, <3>2, <3>4, <3>6, <5>2
      <4>3. QED
        BY <4>1, <4>2
    <3>7. QED
      BY <3>4, <3>5, <3>6
  <2>5. QED
    BY <2>2, <2>3, <2>4
<1>5. Known(1)
  <2> HIDE DEF Known
  <2> SUFFICES ASSUME ~Known(1) PROVE FALSE
    OBVIOUS
  <2>1. Bad \in SUBSET Nat
    OBVIOUS
  <2>2. N + 1 \in Bad
    <3>1. N + 2 - (N + 1) = 1
      OBVIOUS
    <3>2. QED
      BY <3>1
  <2>3. PICK n \in Bad : \A k \in Bad : n <= k
    BY <2>1, <2>2, Least
  <2>4. N + 2 - n \in D
    OBVIOUS
  <2>5. ASSUME NEW j \in D, j > N + 2 - n
        PROVE  Known(j)
    <3>1. N + 2 - j \in 0..N + 1 /\ N + 2 - j < n /\ N + 2 - (N + 2 - j) = j
      BY <2>5
    <3>2. N + 2 - j \notin Bad
      BY <3>1, <2>3
    <3>3. QED
      BY <3>1, <3>2
  <2>6. Known(N + 2 - n)
    BY <2>4, <2>5, <1>4
  <2>7. QED
    BY <2>3, <2>6
<1>6. 1 % 2 = 1
  OBVIOUS
<1>7. QED
  BY <1>1, <1>5, <1>6

IsInt(n) == n \in MinInt..MaxInt

\* int has room for the ports, and so for the defaults.
LEMMA UpToMaxPort == MaxPort \in Nat /\ \A n \in Nat : n <= MaxPort => IsInt(n)
<1>1. MaxPort \in Nat
  BY DEF MaxPort
<1>2. QED
  BY <1>1, PortsAssumption, WidthAssumption DEF IsInt, MinInt, MaxInt

\* The ports are in the range of int.
LEMMA PortsFit == \A n \in Ports : IsInt(n)
BY UpToMaxPort DEF Ports

\* LoadInt never leaves the range of int.
LEMMA NarrowFits ==
    ASSUME NEW n \in Int
    PROVE  IsInt(Narrow(n, IntLimit))
BY WidthAssumption DEF IsInt, Narrow, MinInt, MaxInt

\* The defaults are in the range of int.
LEMMA DefaultsFit == \A k \in IntOptions : k \in DOMAIN DefaultOptions /\ IsInt(DefaultOptions[k])
<1>1. /\ DefaultOptions["offloadThreshold"] = 8000 /\ DefaultOptions["tokenBudget"] = 4096
      /\ DefaultOptions["port"] = 8090 /\ DefaultOptions["readTimeoutSeconds"] = 0
      /\ DefaultOptions["writeTimeoutSeconds"] = 0 /\ DefaultOptions["threadCount"] = 0
  BY DEF DefaultOptions
<1>2. \A n \in {8000, 4096, 8090, 0} : IsInt(n)
  <2>1. \A n \in {8000, 4096, 8090, 0} : n \in Nat /\ n <= MaxPort
    BY DEF MaxPort
  <2>2. QED
    BY <2>1, UpToMaxPort
<1>3. IntOptions \subseteq DOMAIN DefaultOptions
  BY DEF IntOptions, DefaultOptions
<1>4. QED
  BY <1>1, <1>2, <1>3 DEF IntOptions

\* A section that loads keeps integers in the range of int.
LEMMA SectionFacts ==
    ASSUME NEW o, NEW section, NEW fields, SectionLoads(section, fields), ParsedIntegers(section),
           NEW k \in IntOptions, k \in DOMAIN fields => fields[k] = "int", IsInt(o[k])
    PROVE  IsInt(LoadSection(o, section, fields)[k])
<1>1. k \in DOMAIN DefaultOptions
  BY DefaultsFit
<1>2. CASE k \in DOMAIN section[2]
  <2>1. IsInteger(section[2][k]) /\ fields[k] = "int"
    BY <1>2 DEF SectionLoads, IsLoadable
  <2>2. section[2][k][2] \in Int
    BY <1>2, <2>1 DEF ParsedIntegers, SectionLoads
  <2>3. LoadSection(o, section, fields)[k] = Narrow(section[2][k][2], IntLimit)
    BY <1>1, <1>2, <2>1 DEF LoadSection, Load
  <2>4. QED
    BY <2>2, <2>3, NarrowFits
<1>3. CASE k \notin DOMAIN section[2]
  BY <1>1, <1>3 DEF LoadSection
<1>4. QED
  BY <1>2, <1>3

\* A section leaves the other members alone.
LEMMA SectionLeaves ==
    ASSUME NEW o, NEW section, NEW fields, SectionLoads(section, fields),
           NEW k \in DOMAIN DefaultOptions, k \notin DOMAIN fields
    PROVE  LoadSection(o, section, fields)[k] = o[k]
BY DEF LoadSection, SectionLoads

ModelMembers == {"strictModelConfig", "modelConfig"}

\* The integers, the flags and the model are members of sections of their own.
LEMMA FieldNames ==
    /\ IntOptions \cap DOMAIN AuthFields = {} /\ IntOptions \cap DOMAIN McpFields = {}
    /\ \A k \in IntOptions \cap DOMAIN MemoryFields : MemoryFields[k] = "int"
    /\ \A k \in IntOptions \cap DOMAIN HttpFields : HttpFields[k] = "int"
    /\ \A k \in IntOptions : k \notin ModelMembers /\ k # "debugErrors"
    /\ \A k \in ModelMembers : /\ k \in DOMAIN DefaultOptions /\ k # "debugErrors"
                               /\ k \notin DOMAIN AuthFields /\ k \notin DOMAIN McpFields
                               /\ k \notin DOMAIN HttpFields /\ k \notin DOMAIN MemoryFields
    /\ "debugErrors" \in DOMAIN DefaultOptions
<1>1. IntOptions \cap DOMAIN AuthFields = {} /\ IntOptions \cap DOMAIN McpFields = {}
  BY DEF IntOptions, AuthFields, McpFields
<1>2. \A k \in IntOptions \cap DOMAIN MemoryFields : MemoryFields[k] = "int"
  BY DEF IntOptions, MemoryFields
<1>3. \A k \in IntOptions \cap DOMAIN HttpFields : HttpFields[k] = "int"
  BY DEF IntOptions, HttpFields
<1>4. \A k \in IntOptions : k \notin ModelMembers /\ k # "debugErrors"
  BY DEF IntOptions, ModelMembers
<1>5. \A k \in ModelMembers : /\ k \in DOMAIN DefaultOptions /\ k # "debugErrors"
                               /\ k \notin DOMAIN AuthFields /\ k \notin DOMAIN McpFields
                               /\ k \notin DOMAIN HttpFields /\ k \notin DOMAIN MemoryFields
  BY DEF ModelMembers, AuthFields, McpFields, HttpFields, MemoryFields, DefaultOptions
<1>6. "debugErrors" \in DOMAIN DefaultOptions
  BY DEF DefaultOptions
<1>7. QED
  BY <1>1, <1>2, <1>3, <1>4, <1>5, <1>6

\* What a configuration file that loads sets: integers that fit, and the model
\* as the file has it.
LEMMA FileOptions ==
    ASSUME NEW j, ServerOptionsLoad(j), ParsedIntegers(JsonFieldValue(j, "memory")),
           ParsedIntegers(JsonFieldValue(JsonFieldValue(j, "server"), "http"))
    PROVE  LET o == LoadServerOptions(j)
               model == LoadSubObject(j, "model")
           IN  /\ \A k \in IntOptions : IsInt(o[k])
               /\ o["strictModelConfig"] = JsonBool(model, "strict", FALSE)
               /\ o["modelConfig"] = IF JsonBool(model, "enabled", TRUE) THEN model ELSE EmptyObject
<1> DEFINE server == LoadSubObject(j, "server")
           memory == LoadSubObject(j, "memory")
           model == LoadSubObject(j, "model")
           auth == LoadSubObject(server, "auth")
           hserver == LoadSubObject(server, "http")
           mcp == LoadSubObject(server, "mcp")
           o1 == LoadSection(DefaultOptions, memory, MemoryFields)
           o2 == LoadModelOptions(o1, model)
           o3 == [o2 EXCEPT !.debugErrors = JsonBool(server, "debugErrors", FALSE)]
           o4 == LoadSection(o3, auth, AuthFields)
           o5 == LoadSection(o4, hserver, HttpFields)
           o6 == LoadSection(o5, mcp, McpFields)
           strict == JsonBool(model, "strict", FALSE)
           config == IF JsonBool(model, "enabled", TRUE) THEN model ELSE EmptyObject
<1>1. LoadServerOptions(j) = o6
  BY DEF LoadServerOptions
<1>2. /\ SectionLoads(memory, MemoryFields) /\ SectionLoads(auth, AuthFields)
      /\ SectionLoads(hserver, HttpFields) /\ SectionLoads(mcp, McpFields)
      /\ IsObject(j) /\ IsObject(server)
  BY DEF ServerOptionsLoad
<1>3. ParsedIntegers(EmptyObject)
  <2>1. DOMAIN EmptyObject[2] = {}
    BY DEF EmptyObject, Object, NoMembers
  <2>2. QED
    BY <2>1 DEF ParsedIntegers
<1>4. ParsedIntegers(memory)
  BY <1>2, <1>3 DEF LoadSubObject, JsonFieldValue
<1>5. ParsedIntegers(hserver)
  <2>1. CASE Contains(j, "server")
    <3>1. JsonFieldValue(j, "server") = server
      BY <1>2, <2>1 DEF LoadSubObject, JsonFieldValue
    <3>2. QED
      BY <3>1, <1>2, <1>3 DEF LoadSubObject, JsonFieldValue
  <2>2. CASE ~Contains(j, "server")
    <3>1. server = EmptyObject
      BY <2>2 DEF LoadSubObject
    <3>2. ~Contains(server, "http")
      <4>1. DOMAIN EmptyObject[2] = {}
        BY DEF EmptyObject, Object, NoMembers
      <4>2. QED
        BY <3>1, <4>1 DEF Contains
    <3>3. hserver = EmptyObject
      BY <3>2 DEF LoadSubObject
    <3>4. QED
      BY <3>3, <1>3
  <2>3. QED
    BY <2>1, <2>2
<1>6. DOMAIN o1 = DOMAIN DefaultOptions
  BY DEF LoadSection
<1>7. /\ DOMAIN o2 = DOMAIN DefaultOptions
      /\ o2["strictModelConfig"] = strict /\ o2["modelConfig"] = config
      /\ \A k \in IntOptions : o2[k] = o1[k]
  <2> HIDE DEF o1, strict, config
  <2>1. o2 = [o1 EXCEPT !.strictModelConfig = strict, !.modelConfig = config]
    BY DEF LoadModelOptions, strict, config
  <2>2. \A k \in DOMAIN o1 : k \notin ModelMembers => o2[k] = o1[k]
    BY <2>1 DEF ModelMembers
  <2>3. QED
    BY <1>6, <2>1, <2>2, FieldNames, DefaultsFit DEF ModelMembers
<1> HIDE DEF o1, o2
<1>8. /\ o3["strictModelConfig"] = strict /\ o3["modelConfig"] = config
      /\ \A k \in IntOptions : o3[k] = o2[k]
  BY <1>7, FieldNames, DefaultsFit DEF ModelMembers
<1> HIDE DEF strict, config, o3, o4, o5, o6
<1>9. o6["strictModelConfig"] = strict /\ o6["modelConfig"] = config
  <2>1. \A k \in ModelMembers : o4[k] = o3[k] /\ o5[k] = o4[k] /\ o6[k] = o5[k]
    BY <1>2, FieldNames, SectionLeaves DEF o4, o5, o6
  <2>2. QED
    BY <1>8, <2>1 DEF ModelMembers
<1>10. ASSUME NEW k \in IntOptions
       PROVE  IsInt(o6[k])
  <2>1. k \in DOMAIN DefaultOptions /\ IsInt(DefaultOptions[k])
    BY DefaultsFit
  <2>2. IsInt(o1[k])
    BY <1>2, <1>4, <2>1, FieldNames, SectionFacts DEF o1
  <2>3. o4[k] = o3[k] /\ o6[k] = o5[k]
    BY <1>2, <2>1, FieldNames, SectionLeaves DEF o4, o6
  <2>4. IsInt(o4[k])
    BY <2>2, <2>3, <1>7, <1>8
  <2>5. IsInt(o5[k])
    BY <1>2, <1>5, <2>4, FieldNames, SectionFacts DEF o5
  <2>6. QED
    BY <2>3, <2>5
<1>11. QED
  BY <1>1, <1>9, <1>10 DEF strict, config

\* No file has the name of an option.
NoFileLikeOption == \A s \in Starts : DOMAIN s.files \cap OptionWords = {}

Beginning == {"started", "options", "configured"}

\* What is known of the options while they are kept.
OptionsOK ==
    /\ main \in Beginning => start \in Starts
    /\ options # None => \A k \in IntOptions : IsInt(options[k])

\* The options that are kept for CreateServerSetup have the model of the file.
ModelOfFile ==
    main = "options" /\ UsesFile =>
        LET model == LoadSubObject(start.files[ConfigPath[1]], "model")
        IN  /\ options["strictModelConfig"] = JsonBool(model, "strict", FALSE)
            /\ options["modelConfig"] = IF JsonBool(model, "enabled", TRUE) THEN model ELSE EmptyObject

\* What ReadOptions does when it does not end the process.
LEMMA OptionsRead ==
    ASSUME OptionsOK, ReadOptions, main' # "ended"
    PROVE  /\ main' = "options" /\ start' = start /\ start \in Starts
           /\ FindConfigPath(start.args).ok /\ ReadArguments(start.args).ok
           /\ UsesFile => FileLoads
           /\ options' = ReadArguments(start.args).set
                         ++ (IF UsesFile THEN LoadServerOptions(start.files[ConfigPath[1]]) ELSE DefaultOptions)
BY DEF OptionsOK, ReadOptions, End, Beginning

\* The options are within int, and the model is that of the file.
LEMMA ReadOptionsKeeps ==
    ASSUME OptionsOK, ReadOptions
    PROVE  OptionsOK' /\ ModelOfFile'
<1>1. CASE main' = "ended"
  <2>1. options' = None
    BY <1>1 DEF ReadOptions, End, ForgetInputs
  <2>2. QED
    BY <1>1, <2>1 DEF OptionsOK, ModelOfFile, Beginning
<1>2. CASE main' # "ended"
  <2> DEFINE args == start.args
             set == ReadArguments(args).set
             loaded == IF UsesFile THEN LoadServerOptions(start.files[ConfigPath[1]]) ELSE DefaultOptions
  <2>1. /\ main' = "options" /\ start' = start /\ start \in Starts
        /\ UsesFile => FileLoads
        /\ options' = set ++ loaded
    BY <1>2, OptionsRead
  <2>2. args \in Seq(STRING)
    BY <2>1, StartsAssumption
  <2>3. Len(args) \in Nat
    BY <2>2
  <2>4. IsOverride(set)
    BY <2>3, ArgumentsRead
  <2>5. DOMAIN DefaultOptions \subseteq DOMAIN loaded
    BY DEF LoadServerOptions, LoadSection
  <2>6. \A k \in IntOptions : IsInt(loaded[k])
    <3>1. CASE UsesFile
      BY <3>1, <2>1, StartsAssumption, FileOptions DEF FileLoads
    <3>2. CASE ~UsesFile
      BY <3>2, DefaultsFit
    <3>3. QED
      BY <3>1, <3>2
  <2>7. UsesFile =>
           LET model == LoadSubObject(start.files[ConfigPath[1]], "model")
           IN  /\ loaded["strictModelConfig"] = JsonBool(model, "strict", FALSE)
               /\ loaded["modelConfig"] = IF JsonBool(model, "enabled", TRUE) THEN model ELSE EmptyObject
    BY <2>1, StartsAssumption, FileOptions DEF FileLoads
  <2> HIDE DEF set, loaded
  <2>8. \A k \in IntOptions : IsInt(options'[k])
    <3> SUFFICES ASSUME NEW k \in IntOptions PROVE IsInt(options'[k])
      OBVIOUS
    <3>1. k \in DOMAIN loaded
      BY <2>5, DefaultsFit
    <3>2. options'[k] = IF k \in DOMAIN set THEN set[k] ELSE loaded[k]
      BY <2>1, <3>1 DEF ++
    <3>3. k \in DOMAIN set => k = "port"
      BY <2>4 DEF IsOverride, Overridable, IntOptions
    <3>4. "port" \in DOMAIN set => IsInt(set["port"])
      BY <2>4, PortsFit DEF IsOverride
    <3>5. QED
      BY <2>6, <3>2, <3>3, <3>4
  <2>9. \A k \in ModelMembers : options'[k] = loaded[k]
    <3> SUFFICES ASSUME NEW k \in ModelMembers PROVE options'[k] = loaded[k]
      OBVIOUS
    <3>1. k \in DOMAIN loaded
      BY <2>5, FieldNames
    <3>2. options'[k] = IF k \in DOMAIN set THEN set[k] ELSE loaded[k]
      BY <2>1, <3>1 DEF ++
    <3>3. k \notin DOMAIN set
      BY <2>4 DEF IsOverride, Overridable, ModelMembers
    <3>4. QED
      BY <3>2, <3>3
  <2>10. OptionsOK'
    BY <2>1, <2>8 DEF OptionsOK
  <2>11. UsesFile' = UsesFile /\ ConfigPath' = ConfigPath
    BY <2>1 DEF UsesFile, ConfigPath
  <2>12. ModelOfFile'
    BY <2>1, <2>7, <2>9, <2>11 DEF ModelOfFile, ModelMembers
  <2>13. QED
    BY <2>10, <2>12
<1>3. QED
  BY <1>1, <1>2

\* The two readings of the command line agree.
LEMMA ReadOptionsAgrees ==
    ASSUME NoFileLikeOption, OptionsOK, ReadOptions
    PROVE  ConfigFileAgreed'
<1>1. CASE main' = "ended"
  BY <1>1 DEF ConfigFileAgreed
<1>2. CASE main' # "ended"
  <2> DEFINE args == start.args
             N == Len(args)
             Named == {i \in DOMAIN args : i % 2 = 1 /\ args[i] = "--config"}
             Last == CHOOSE i \in Named : \A j \in Named : j <= i
             path == FindConfigPath(args).path
  <2>1. /\ main' = "options" /\ start' = start /\ start \in Starts
        /\ FindConfigPath(args).ok /\ ReadArguments(args).ok
        /\ UsesFile => FileLoads
    BY <1>2, OptionsRead
  <2>2. args \in Seq(STRING)
    BY <2>1, StartsAssumption
  <2>3. N \in Nat /\ DOMAIN args = 1..N
    BY <2>2
  <2>4. \A j \in 1..N : j % 2 = 1 => args[j] \in OptionWords
    BY <2>1, <2>3, ArgumentsRead
  <2>5. path = IF Named = {} THEN None ELSE <<args[Last + 1]>>
    <3>1. CASE path = << >> /\ \A j \in 1..N : args[j] # "--config"
      BY <3>1, <2>3 DEF None
    <3>2. ASSUME NEW m \in 1..N - 1, args[m] = "--config", path = <<args[m + 1]>>,
                 \A j \in m + 2..N : args[j] # "--config"
          PROVE  path = IF Named = {} THEN None ELSE <<args[Last + 1]>>
      <4>1. CASE m % 2 = 1
        <5>1. m \in Named
          BY <3>2, <4>1, <2>3
        <5>2. \A j \in Named : j <= m
          <6> SUFFICES ASSUME NEW j \in Named, j > m PROVE FALSE
            BY <2>3
          <6>1. j \in 1..N /\ j # m + 1
            BY <2>3, <4>1
          <6>2. j \in m + 2..N
            BY <6>1
          <6>3. QED
            BY <6>2, <3>2
        <5>3. Last \in Named /\ \A j \in Named : j <= Last
          BY <5>1, <5>2
        <5>4. Last = m
          <6>1. m <= Last /\ Last <= m /\ Last \in Int
            BY <5>1, <5>2, <5>3, <2>3
          <6>2. QED
            BY <6>1
        <5>5. QED
          BY <5>1, <5>4, <3>2
      <4>2. CASE m % 2 # 1
        <5>1. (m + 1) % 2 = 1 /\ m + 1 \in 1..N
          BY <4>2, <2>3
        <5>2. args[m + 1] \in OptionWords
          BY <5>1, <2>4
        <5>3. path[1] = args[m + 1] /\ path # None /\ path # <<"">>
          <6>1. args[m + 1] # ""
            BY <5>2 DEF OptionWords
          <6>2. <<args[m + 1]>> # << >> /\ <<args[m + 1]>> # <<"">> /\ <<args[m + 1]>>[1] = args[m + 1]
            BY <6>1
          <6>3. QED
            BY <6>2, <3>2 DEF None
        <5>4. UsesFile /\ ConfigPath = path
          BY <5>3 DEF UsesFile, ConfigPath
        <5>5. args[m + 1] \in DOMAIN start.files
          BY <5>3, <5>4, <2>1 DEF FileLoads
        <5>6. QED
          BY <5>2, <5>5, <2>1 DEF NoFileLikeOption
      <4>3. QED
        BY <4>1, <4>2
    <3>3. QED
      BY <3>1, <3>2, <2>1, <2>3, ConfigPathFound
  <2>6. QED
    BY <2>5, <2>1 DEF ConfigFileAgreed, ConfigPath
<1>3. QED
  BY <1>1, <1>2

\* CreateServerSetup goes on without a model only if the file does not insist.
LEMMA SetupKeeps ==
    ASSUME OptionsOK, ModelOfFile, CreateServerSetup
    PROVE  OptionsOK' /\ ModelOfFile' /\ StrictHasModel'
<1>1. CASE main' = "ended"
  <2>1. options' = None
    BY <1>1 DEF CreateServerSetup, End, ForgetInputs
  <2>2. QED
    BY <1>1, <2>1 DEF OptionsOK, ModelOfFile, Beginning, StrictHasModel
<1>2. CASE main' # "ended"
  <2>1. /\ main = "options" /\ main' = "configured" /\ UNCHANGED <<start, options>>
        /\ ~StrictModelFails(options) /\ modelClient' = ModelClient(options)
    BY <1>2 DEF CreateServerSetup, End
  <2>2. OptionsOK' /\ ModelOfFile'
    BY <2>1 DEF OptionsOK, ModelOfFile, Beginning
  <2>3. ASSUME UsesFile
        PROVE  LET model == LoadSubObject(start.files[ConfigPath[1]], "model")
               IN  JsonBool(model, "strict", FALSE) /\ JsonBool(model, "enabled", FALSE) => modelClient' # "none"
    <3> DEFINE model == LoadSubObject(start.files[ConfigPath[1]], "model")
    <3> SUFFICES ASSUME JsonBool(model, "strict", FALSE), JsonBool(model, "enabled", FALSE)
                 PROVE  modelClient' # "none"
      OBVIOUS
    <3>0. JsonBool(model, "enabled", TRUE)
      BY DEF JsonBool
    <3>1. options.strictModelConfig /\ options.modelConfig = model
      BY <2>1, <2>3, <3>0 DEF ModelOfFile
    <3>2. model # EmptyObject
      <4>1. "strict" \notin DOMAIN EmptyObject[2]
        BY DEF EmptyObject, Object, NoMembers
      <4>2. Kind(Null) # "bool"
        BY DEF Kind, Null
      <4>3. JsonBool(EmptyObject, "strict", FALSE) = FALSE
        BY <4>1, <4>2 DEF JsonBool, JsonFieldValue, Contains
      <4>4. QED
        BY <4>3
    <3>3. QED
      BY <2>1, <3>1, <3>2 DEF StrictModelFails, ModelClient
  <2>4. UsesFile' = UsesFile /\ ConfigPath' = ConfigPath
    BY <2>1 DEF UsesFile, ConfigPath
  <2>5. StrictHasModel'
    BY <2>1, <2>3, <2>4 DEF StrictHasModel
  <2>6. QED
    BY <2>2, <2>5
<1>3. QED
  BY <1>1, <1>2

\* The other steps leave the inputs as they are or forget them.
LEMMA InputsLeft ==
    ASSUME [Next]_vars, ~ReadOptions, ~CreateServerSetup
    PROVE  \/ main' = main /\ UNCHANGED inputs
           \/ main' \notin Beginning /\ (options' = options \/ options' = None)
<1>1. CASE MainStep
  BY <1>1 DEF MainStep, StartStopThread, RegisterRoutes, Bind, ListenInternal, ShutDown, Return, End,
              ForgetInputs, Beginning, inputs
<1>2. CASE Signal
  BY <1>2 DEF Signal, End, ForgetInputs, Beginning, mainVars
<1>3. CASE Poll \/ Stop \/ \E job \in backlog : Accept(job)
  BY <1>3 DEF Poll, Stop, Accept, mainVars
<1>4. CASE \E w \in Workers : WorkerStep(w) \/ Lock(w)
  BY <1>4 DEF WorkerStep, Lock, Take, CallRuntime, Consolidate, Reply, mainVars
<1>5. CASE \E c \in Clients : Send(c) \/ GiveUpWaiting(c)
  BY <1>5 DEF Send, GiveUpWaiting, mainVars
<1>6. CASE UNCHANGED vars
  BY <1>6 DEF vars, mainVars
<1>7. QED
  BY <1>1, <1>2, <1>3, <1>4, <1>5, <1>6 DEF Next

\* The invariant of the start-up; ConfigFileAgreed needs a hypothesis and is kept
\* apart.
ConfigInv == OptionsOK /\ ModelOfFile /\ StrictHasModel

\* Every step keeps it.
LEMMA ConfigInvInductive ==
    ASSUME ConfigInv, [Next]_vars
    PROVE  ConfigInv'
<1>1. CASE ReadOptions
  <2>1. main' # "configured"
    BY <1>1 DEF ReadOptions, End
  <2>2. QED
    BY <1>1, <2>1, ReadOptionsKeeps DEF ConfigInv, StrictHasModel
<1>2. CASE CreateServerSetup
  BY <1>2, SetupKeeps DEF ConfigInv
<1>3. CASE ~ReadOptions /\ ~CreateServerSetup
  <2>1. CASE main' = main /\ UNCHANGED inputs
    BY <2>1 DEF ConfigInv, OptionsOK, ModelOfFile, StrictHasModel, UsesFile, ConfigPath, inputs
  <2>2. CASE main' \notin Beginning /\ (options' = options \/ options' = None)
    BY <2>2 DEF ConfigInv, OptionsOK, ModelOfFile, StrictHasModel, Beginning
  <2>3. QED
    BY <1>3, <2>1, <2>2, InputsLeft
<1>4. QED
  BY <1>1, <1>2, <1>3

\* Nothing changes the path that was agreed on.
LEMMA AgreedInductive ==
    ASSUME NoFileLikeOption, ConfigInv, ConfigFileAgreed, [Next]_vars
    PROVE  ConfigFileAgreed'
<1>1. CASE ReadOptions
  BY <1>1, ReadOptionsAgrees DEF ConfigInv
<1>2. CASE CreateServerSetup
  <2>1. main = "options" /\ (main' = "ended" \/ UNCHANGED start)
    BY <1>2 DEF CreateServerSetup, End
  <2>2. QED
    BY <2>1 DEF ConfigFileAgreed, ConfigPath
<1>3. CASE ~ReadOptions /\ ~CreateServerSetup
  <2>1. CASE main' = main /\ UNCHANGED inputs
    BY <2>1 DEF ConfigFileAgreed, ConfigPath, inputs
  <2>2. CASE main' \notin Beginning
    BY <2>2 DEF ConfigFileAgreed, Beginning
  <2>3. QED
    BY <1>3, <2>1, <2>2, InputsLeft
<1>4. QED
  BY <1>1, <1>2, <1>3

\* Before the options are read nothing is claimed.
LEMMA ConfigInvInitially == Init => ConfigInv /\ ConfigFileAgreed
BY DEF Init, ConfigInv, OptionsOK, ModelOfFile, StrictHasModel, ConfigFileAgreed

\* The server runs with the configuration it was given, for every command line
\* and every file: FindConfigPath and the loop of Run agree on the file, and rules
\* never take the place of a model that this file insists on.  A file with the
\* name of an option is excluded: with --host --config --port 80 and a file
\* "--port", FindConfigPath would read that file and the loop would not name it.
THEOREM ConfigurationKept ==
    ASSUME NoFileLikeOption
    PROVE  Spec => []ConfigurationHonoured
<1>1. ConfigInv /\ ConfigFileAgreed /\ [Next]_vars => (ConfigInv /\ ConfigFileAgreed)'
  BY ConfigInvInductive, AgreedInductive
<1>2. ConfigInv /\ ConfigFileAgreed => ConfigurationHonoured
  BY DEF ConfigInv, ConfigurationHonoured
<1>3. QED
  BY <1>1, <1>2, ConfigInvInitially, PTL DEF Spec

-----------------------------------------------------------------------------
(* Types.                                                                  *)

\* What TypeOK says beyond the invariants above.
ControlOK ==
    /\ stopThread \in {"off", "polling", "stopping", "ended"}
    /\ mutexHolder \in Workers \cup {"none"}
    /\ \A c \in Clients : client[c].sends <= MaxSends[c]
    /\ \A w \in Workers : worker[w].at = "idle" => worker[w].job = None

\* Every step keeps it.
LEMMA ControlKept ==
    ASSUME ServerInv, ControlOK, [Next]_vars
    PROVE  ControlOK'
<1> USE DEF ControlOK
<1>0. /\ worker \in [Workers -> WorkerStates] /\ client \in [Clients -> ClientStates]
      /\ \A w \in Workers : worker[w].at = "idle" => worker[w].job = None
      /\ \A c \in Clients : client[c].sends \in Nat /\ client[c].sends <= MaxSends[c] /\ MaxSends[c] \in Nat
  BY SendsAssumption DEF ServerInv, TypesOK, ClientStates
<1>1. CASE MainStep \/ Signal \/ Poll \/ UNCHANGED vars
  <2>1. UNCHANGED <<workVars, client>>
    BY <1>1 DEF MainStep, ReadOptions, CreateServerSetup, StartStopThread, RegisterRoutes, Bind,
                ListenInternal, ShutDown, Return, Signal, Poll, vars
  <2>2. stopThread' \in {"off", "polling", "stopping", "ended"}
    BY <1>1 DEF MainStep, ReadOptions, CreateServerSetup, StartStopThread, RegisterRoutes, Bind,
                ListenInternal, ShutDown, Return, Signal, Poll, vars, stopVars
  <2>3. QED
    BY <2>1, <2>2 DEF workVars
<1>2. CASE Stop
  <2>1. UNCHANGED <<worker, mutexHolder>> /\ stopThread' = "ended"
    BY <1>2 DEF Stop
  <2>2. ASSUME NEW c \in Clients
        PROVE  client'[c].sends = client[c].sends
    BY <1>0, <1>2 DEF Stop, ClientStates
  <2>3. QED
    BY <2>1, <2>2
<1>3. CASE \E job \in backlog : Accept(job)
  BY <1>3 DEF Accept, stopVars
<1>4. ASSUME NEW c \in Clients, Send(c) \/ GiveUpWaiting(c)
      PROVE  ControlOK'
  <2>1. UNCHANGED <<stopThread, worker, mutexHolder>>
    BY <1>4 DEF Send, GiveUpWaiting, stopVars, workVars
  <2>2. ASSUME NEW d \in Clients
        PROVE  client'[d].sends <= MaxSends[d]
    <3>1. CASE Send(c)
      <4>1. client[c].sends < MaxSends[c]
        BY <3>1 DEF Send
      <4>2. client'[d].sends = IF d = c THEN client[d].sends + 1 ELSE client[d].sends
        BY <1>0, <3>1 DEF Send, ClientStates
      <4>3. QED
        BY <1>0, <4>1, <4>2
    <3>2. CASE GiveUpWaiting(c)
      <4>1. client'[d].sends = client[d].sends
        BY <1>0, <3>2 DEF GiveUpWaiting, ClientStates
      <4>2. QED
        BY <1>0, <4>1
    <3>3. QED
      BY <1>4, <3>1, <3>2
  <2>3. QED
    BY <2>1, <2>2
<1>5. ASSUME NEW w \in Workers, WorkerStep(w) \/ Lock(w)
      PROVE  ControlOK'
  <2>1. UNCHANGED stopThread /\ mutexHolder' \in Workers \cup {"none"}
    BY <1>5 DEF WorkerStep, Lock, Take, CallRuntime, Consolidate, Reply, stopVars
  <2>2. ASSUME NEW v \in Workers, worker'[v].at = "idle"
        PROVE  worker'[v].job = None
    <3>1. CASE Take(w)
      <4>1. \E at \in {"replying", "locking", "calling"} : \E reply :
               worker' = [worker EXCEPT ![w] = [at |-> at, job |-> Head(jobs), reply |-> reply]]
        BY <3>1 DEF Take
      <4>2. QED
        BY <1>0, <2>2, <4>1
    <3>2. CASE CallRuntime(w) \/ Consolidate(w)
      <4>1. \E reply : worker' = [worker EXCEPT ![w].at = "replying", ![w].reply = reply]
        BY <3>2 DEF CallRuntime, Consolidate, Perform, Throw, ReplyWith
      <4>2. QED
        BY <1>0, <2>2, <4>1 DEF WorkerStates
    <3>3. CASE Lock(w)
      BY <1>0, <2>2, <3>3 DEF Lock, WorkerStates
    <3>4. CASE Reply(w)
      <4>1. worker' = [worker EXCEPT ![w] = Idle] /\ Idle.job = None
        BY <3>4 DEF Reply, Idle
      <4>2. QED
        BY <1>0, <2>2, <4>1
    <3>5. QED
      BY <1>5, <3>1, <3>2, <3>3, <3>4 DEF WorkerStep
  <2>3. ASSUME NEW c \in Clients
        PROVE  client'[c].sends = client[c].sends
    <3>1. CASE CallRuntime(w) \/ Consolidate(w)
      <4> DEFINE d == worker[w].job.client
      <4>1. client' = client \/ \E n : client' = [client EXCEPT ![d].applied = n]
        BY <3>1 DEF CallRuntime, Consolidate, Perform, Throw
      <4> HIDE DEF d
      <4>2. ASSUME NEW n, client' = [client EXCEPT ![d].applied = n]
            PROVE  client'[c].sends = client[c].sends
        BY <1>0, <4>2 DEF ClientStates
      <4>3. QED
        BY <4>1, <4>2
    <3>2. CASE Reply(w)
      <4> DEFINE d == worker[w].job.client
      <4>1. \/ client' = client
            \/ client' = [client EXCEPT ![d].at = "ready", ![d].lost = @ + 1]
            \/ client' = [client EXCEPT ![d].at = "done", ![d].answer = worker[w].reply]
        BY <3>2 DEF Reply
      <4> HIDE DEF d
      <4>2. QED
        BY <1>0, <4>1 DEF ClientStates
    <3>3. CASE Take(w) \/ Lock(w)
      BY <3>3 DEF Take, Lock
    <3>4. QED
      BY <1>5, <3>1, <3>2, <3>3 DEF WorkerStep
  <2>4. QED
    BY <1>0, <2>1, <2>2, <2>3
<1>6. QED
  BY <1>1, <1>2, <1>3, <1>4, <1>5 DEF Next

\* The types, for every instance: the integers that LoadInt narrows and ParsePort
\* accepts stay in the range of int, a client loses no more answers than it asked
\* for, and a worker is idle exactly when it has no connection.
THEOREM TypesKept == Spec => []TypeOK
<1>1. Init => ControlOK
  <2> SUFFICES ASSUME Init PROVE ControlOK
    OBVIOUS
  <2>1. Idle.job = None
    BY DEF Idle
  <2>2. QED
    <3>1. \A c \in Clients : client[c].sends = 0 /\ MaxSends[c] \in Nat
      BY SendsAssumption DEF Init
    <3>2. \A w \in Workers : worker[w] = Idle
      BY DEF Init
    <3>3. mutexHolder = "none" /\ stopThread = "off"
      BY DEF Init
    <3>4. QED
      BY <2>1, <3>1, <3>2, <3>3 DEF ControlOK
<1>2. ServerInv /\ ConfigInv /\ ControlOK => TypeOK
  <2> SUFFICES ASSUME ServerInv, ConfigInv, ControlOK PROVE TypeOK
    OBVIOUS
  <2>1. options # None => \A k \in IntOptions : options[k] \in MinInt..MaxInt
    BY DEF ConfigInv, OptionsOK, IsInt
  <2>2. ASSUME NEW c \in Clients
        PROVE  client[c].sends \in 0..MaxSends[c] /\ client[c].lost <= client[c].sends
    <3>1. client[c].sends \in Nat /\ client[c].lost \in Nat /\ Paired(client[c]) /\ MaxSends[c] \in Nat
      BY SendsAssumption DEF ServerInv, TypesOK, ClientStates, CountsOK
    <3>2. QED
      BY <3>1 DEF Paired, ControlOK
  <2>3. ASSUME NEW w \in Workers, worker[w].at # "idle"
        PROVE  worker[w].job # None
    <3>1. worker[w].job \in AllJobs
      BY <2>3 DEF ServerInv, TypesOK, Busy
    <3>2. DOMAIN worker[w].job = {"client", "number"}
      BY <3>1 DEF AllJobs
    <3>3. DOMAIN None = {}
      BY DEF None
    <3>4. QED
      BY <3>2, <3>3
  <2>4. QED
    BY <2>1, <2>2, <2>3 DEF ControlOK, TypeOK
<1>3. QED
  BY <1>1, <1>2, ServerInvInitially, ServerInvInductive, ConfigInvInitially, ConfigInvInductive, ControlKept,
     PTL DEF Spec
=============================================================================
