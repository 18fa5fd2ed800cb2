----------------------- MODULE WebhookDispatchProofs -----------------------
(***************************************************************************)
(* Proofs about WebhookDispatch for any subscriptions, replicas, batches,  *)
(* attempts and replay requests, and any losses and deletions.             *)
(***************************************************************************)
EXTENDS WebhookDispatch, FiniteSetTheorems, TLAPS

\* The rows: which are used, what tests are, and which still have attempts.
RowsInv ==
    \A d \in Deliveries :
        /\ d > created <=> status[d] = "absent"
        /\ status[d] = "absent" =>
             /\ d \notin tests /\ to[d] = NoSubscription
             /\ attempts[d] = 0 /\ sends[d] = 0 /\ verdict[d] = "none"
        /\ status[d] \in {"pending", "in_flight"} => d \notin tests /\ attempts[d] < MaxAttempts

\* A row in hand: nobody settles it, it was not posted in vain, and what the
\* worker remembers of it is what came of its last attempt.
HandsInv ==
    \A w \in Workers :
        /\ stage[w] # "posting" => outcome[w] = NoOutcome
        /\ stage[w] = "idle" => batch[w] = {}
        /\ \A d \in Deliveries : outcome[w][d] # "none" => d \in batch[w] /\ outcome[w][d] = verdict[d]
        /\ \A d \in batch[w] :
             /\ status[d] \in {"in_flight", "gone"} /\ d \notin tests /\ attempts[d] < MaxAttempts
             /\ outcome[w][d] = "none" => verdict[d] \in {"none", "retryable"} /\ sends[d] <= attempts[d]

\* A request at work is about a letter.
RequestsInv == \A r \in Requests : request[r] = "idle" <=> letter[r] = NoLetter

IInv ==
    /\ TypeOK /\ RowsInv /\ HandsInv /\ RequestsInv
    /\ OneWorkerEach /\ InFlightExplained /\ StatusTellsVerdict /\ SendsCounted /\ DeadLettersExact

\* The replays: a request that passed is the only one for its letter, and once
\* a letter is replayed no request for it can pass any more.
OneStoreForAll == \A r1, r2 \in Requests : StoreOf[r1] = StoreOf[r2]
ReplayInv ==
    /\ \A r \in Requests :
         /\ request[r] # "idle" => status[letter[r]] \in {"failed", "gone"}
         /\ request[r] = "passed" => Key(r) \in seen /\ replays[letter[r]] = 0
         /\ request[r] = "read" /\ replays[letter[r]] > 0 => Key(r) \in seen
    /\ \A r1, r2 \in Requests :
         r1 # r2 /\ request[r1] = "passed" /\ request[r2] = "passed" => letter[r1] # letter[r2]
    /\ \A d \in Deliveries :
         /\ replays[d] > 0 => status[d] \in {"failed", "gone"}
         /\ replays[d] > 0 /\ letters[d] > 0 => d \in resolved
    /\ ReplayedOnce

-----------------------------------------------------------------------------
(* Types *)

LEMMA OutcomesOfAnswers == ASSUME NEW answer \in Answers  PROVE OutcomeOf(answer) \in Outcomes
BY DEF OutcomeOf, Outcomes

\* What an insertion does to the rows, if the number of addresses is a number.
LEMMA InsertsTypes ==
  ASSUME TypeOK, NEW addresses \in SUBSET Subscriptions, Inserts(addresses)
  PROVE  /\ created' \in created..MaxDeliveries
         /\ to' \in [Deliveries -> Subscriptions \union {NoSubscription}]
         /\ status' \in [Deliveries -> Statuses]
         /\ due' \subseteq Deliveries
         /\ \A d \in Deliveries :
              IF d > created /\ d <= created'
              THEN status'[d] = "pending" /\ to'[d] \in addresses
              ELSE status'[d] = status[d] /\ to'[d] = to[d]
<1> DEFINE n == Cardinality(addresses)
           new == (created + 1)..(created + n)
<1>1. n \in Nat
  <2>1. IsFiniteSet(addresses)
    BY FS_Subset, SubscriptionAssumption
  <2>2. QED  BY <2>1, FS_CardinalityType
<1>2. /\ new \subseteq Deliveries
      /\ created' = created + n
      /\ \E address \in [new -> addresses] :
           to' = [d \in Deliveries |-> IF d \in new THEN address[d] ELSE to[d]]
      /\ status' = [d \in Deliveries |-> IF d \in new THEN "pending" ELSE status[d]]
      /\ due' = due \union new
  BY DEF Inserts
<1> HIDE DEF n
<1>3. created \in Nat /\ MaxDeliveries \in Nat /\ created <= MaxDeliveries
  BY BoundAssumption DEF TypeOK
<1>4. created' \in created..MaxDeliveries
  <2>1. CASE n = 0
    BY <1>2, <1>3, <2>1
  <2>2. CASE n # 0
    <3>1. created + n \in new
      BY <1>1, <1>3, <2>2
    <3>2. created + n \in 1..MaxDeliveries
      BY <1>2, <3>1 DEF Deliveries
    <3>3. QED  BY <1>1, <1>2, <1>3, <3>2
  <2>3. QED  BY <2>1, <2>2
<1>5. \A d \in Deliveries : d \in new <=> d > created /\ d <= created'
  BY <1>1, <1>2, <1>3, BoundAssumption DEF Deliveries
<1>6. PICK address \in [new -> addresses] :
        to' = [d \in Deliveries |-> IF d \in new THEN address[d] ELSE to[d]]
  BY <1>2
<1>7. to' \in [Deliveries -> Subscriptions \union {NoSubscription}]
  BY <1>6 DEF TypeOK
<1>8. status' \in [Deliveries -> Statuses]
  BY <1>2 DEF TypeOK, Statuses
<1>9. due' \subseteq Deliveries
  BY <1>2 DEF TypeOK
<1>10. ASSUME NEW d \in Deliveries
       PROVE  IF d > created /\ d <= created'
              THEN status'[d] = "pending" /\ to'[d] \in addresses
              ELSE status'[d] = status[d] /\ to'[d] = to[d]
  <2>1. CASE d \in new
    <3>1. status'[d] = "pending" /\ to'[d] = address[d] /\ address[d] \in addresses
      BY <1>2, <1>6, <2>1
    <3>2. QED  BY <1>5, <2>1, <3>1
  <2>2. CASE d \notin new
    BY <1>2, <1>5, <1>6, <2>2
  <2>3. QED  BY <2>1, <2>2
<1>11. QED  BY <1>4, <1>7, <1>8, <1>9, <1>10

LEMMA InitInv == Init => IInv
<1> SUFFICES ASSUME Init PROVE IInv
  OBVIOUS
<1>1. TypeOK /\ RequestsInv
  BY BoundAssumption, WorkerAssumption DEF Init, TypeOK, NoOutcome, NoLetter, Statuses, RequestsInv
<1>2. RowsInv
  BY BoundAssumption DEF Init, RowsInv, NoOutcome, Deliveries
<1>3. HandsInv /\ OneWorkerEach /\ InFlightExplained
  BY DEF Init, HandsInv, OneWorkerEach, InFlightExplained, NoOutcome
<1>4. StatusTellsVerdict /\ SendsCounted /\ DeadLettersExact
  BY WorkerAssumption DEF Init, StatusTellsVerdict, SendsCounted, DeadLettersExact
<1>5. QED  BY <1>1, <1>2, <1>3, <1>4 DEF IInv

-----------------------------------------------------------------------------
(* New rows *)

\* The rest of the invariant after an insertion that leaves the old rows alone.
LEMMA InsertsInv ==
  ASSUME IInv, NEW addresses \in SUBSET Subscriptions, Inserts(addresses),
         UNCHANGED <<subscribed, tests, attempts, letters, workerVars, clientVars, lost>>
  PROVE  /\ RowsInv' /\ HandsInv' /\ OneWorkerEach' /\ InFlightExplained'
         /\ StatusTellsVerdict' /\ SendsCounted' /\ DeadLettersExact'
<1> USE DEF IInv, workerVars, clientVars
<1>1. /\ created' \in created..MaxDeliveries
      /\ \A d \in Deliveries :
           IF d > created /\ d <= created'
           THEN status'[d] = "pending" /\ to'[d] \in addresses
           ELSE status'[d] = status[d] /\ to'[d] = to[d]
  BY InsertsTypes
<1>2. created \in Nat /\ created' \in Nat /\ created' >= created /\ Deliveries \subseteq Nat
  BY <1>1, BoundAssumption DEF TypeOK, Deliveries
<1>3. \A d \in Deliveries :
        \/ status[d] = "absent" /\ status'[d] = "pending" /\ d > created /\ d <= created'
        \/ status'[d] = status[d] /\ to'[d] = to[d] /\ (d > created' <=> d > created)
  BY <1>1, <1>2 DEF RowsInv
<1>4. RowsInv'
  BY <1>2, <1>3, WorkerAssumption DEF RowsInv
<1>5. \A w \in Workers, d \in Deliveries : d \in batch[w] => status'[d] = status[d]
  BY <1>3 DEF HandsInv
<1>6. HandsInv'
  BY <1>5 DEF HandsInv, TypeOK, NoOutcome
<1>7. OneWorkerEach'
  BY DEF OneWorkerEach
<1>8. InFlightExplained'
  BY <1>3, <1>5 DEF InFlightExplained
<1>9. StatusTellsVerdict'
  BY <1>3, WorkerAssumption DEF StatusTellsVerdict, RowsInv
<1>10. SendsCounted'
  BY <1>3, WorkerAssumption DEF SendsCounted, RowsInv
<1>11. DeadLettersExact'
  BY <1>3 DEF DeadLettersExact, RowsInv
<1>12. QED  BY <1>4, <1>6, <1>7, <1>8, <1>9, <1>10, <1>11

LEMMA EnqueuesInv == IInv /\ Enqueues => IInv'
<1> SUFFICES ASSUME IInv, Enqueues PROVE IInv'
  OBVIOUS
<1>1. PICK addresses \in SUBSET subscribed : Inserts(addresses)
  BY DEF Enqueues
<1>2. addresses \in SUBSET Subscriptions
  BY <1>1 DEF IInv, TypeOK
<1>3. UNCHANGED <<subscribed, tests, attempts, letterVars, workerVars, requestVars, clientVars, lost>>
  BY DEF Enqueues
<1>4. TypeOK'
  <2>1. TypeOK
    BY DEF IInv
  <2>2. /\ created' \in 0..MaxDeliveries
        /\ to' \in [Deliveries -> Subscriptions \union {NoSubscription}]
        /\ status' \in [Deliveries -> Statuses]
        /\ due' \subseteq Deliveries
    BY <1>1, <1>2, <2>1, InsertsTypes, BoundAssumption DEF TypeOK
  <2>3. QED  BY <1>3, <2>1, <2>2 DEF TypeOK, letterVars, workerVars, requestVars, clientVars
<1>5. RequestsInv'
  BY <1>3 DEF IInv, RequestsInv, requestVars
<1>6. QED  BY <1>1, <1>2, <1>3, <1>4, <1>5, InsertsInv DEF IInv, letterVars

LEMMA TestsInv == ASSUME NEW s \in Subscriptions PROVE IInv /\ Tests(s) => IInv'
<1> SUFFICES ASSUME IInv, Tests(s) PROVE IInv'
  OBVIOUS
<1> USE DEF IInv
<1> DEFINE n == created'
<1>1. /\ n = created + 1 /\ n \in Deliveries /\ n \in Nat /\ created \in Nat
      /\ Deliveries \subseteq Nat
  BY BoundAssumption DEF Tests, TypeOK, Deliveries
<1>2. PICK o \in Outcomes :
        /\ verdict' = [verdict EXCEPT ![n] = o]
        /\ status' = [status EXCEPT ![n] = IF o = "success" THEN "delivered" ELSE "failed"]
        /\ (sends' = [sends EXCEPT ![n] = 1] \/ UNCHANGED sends)
  <2>1. PICK answer \in Answers :
          /\ verdict' = [verdict EXCEPT ![n] = OutcomeOf(answer)]
          /\ status' = [status EXCEPT ![n] =
                          IF OutcomeOf(answer) = "success" THEN "delivered" ELSE "failed"]
          /\ sends' = IF answer = "refused" THEN sends ELSE [sends EXCEPT ![n] = 1]
    BY DEF Tests
  <2>2. OutcomeOf(answer) \in Outcomes
    BY OutcomesOfAnswers
  <2>3. QED  BY <2>1, <2>2
<1>3. /\ tests' = tests \union {n}
      /\ to' = [to EXCEPT ![n] = s]
      /\ attempts' = [attempts EXCEPT ![n] = 1]
      /\ due' = due \union {n}
      /\ UNCHANGED <<subscribed, letters, resolved, replays, stage, batch, outcome,
                     request, letter, seen, lost>>
  BY DEF Tests, letterVars, workerVars, requestVars
<1> HIDE DEF n
<1>4. TypeOK'
  <2>1. created' \in 0..MaxDeliveries
    BY <1>1, BoundAssumption DEF n, Deliveries
  <2>2. attempts' \in [Deliveries -> 0..MaxAttempts]
    BY <1>1, <1>3, WorkerAssumption DEF TypeOK
  <2>3. sends' \in [Deliveries -> Nat]
    BY <1>1, <1>2 DEF TypeOK
  <2>4. /\ status' \in [Deliveries -> Statuses]
        /\ verdict' \in [Deliveries -> Outcomes \union {"none"}]
        /\ to' \in [Deliveries -> Subscriptions \union {NoSubscription}]
    BY <1>1, <1>2, <1>3 DEF TypeOK, Statuses
  <2>5. QED  BY <1>1, <1>3, <2>1, <2>2, <2>3, <2>4 DEF TypeOK
<1>5. /\ status[n] = "absent" /\ n \notin tests /\ sends[n] = 0 /\ letters[n] = 0
      /\ \A w \in Workers : n \notin batch[w]
  BY <1>1 DEF RowsInv, HandsInv, DeadLettersExact
<1>6. /\ status'[n] \in {"delivered", "failed"} /\ n \in tests'
      /\ attempts'[n] = 1 /\ sends'[n] \in {0, 1}
  BY <1>1, <1>2, <1>3, <1>5 DEF TypeOK
<1>7. \A d \in Deliveries : d # n =>
        /\ status'[d] = status[d] /\ to'[d] = to[d] /\ attempts'[d] = attempts[d]
        /\ sends'[d] = sends[d] /\ verdict'[d] = verdict[d]
        /\ (d \in tests' <=> d \in tests)
        /\ (d > created' <=> d > created)
  <2>1. \A d \in Deliveries : d # n => (d > created' <=> d > created)
    BY <1>1 DEF n
  <2>2. QED  BY <1>2, <1>3, <2>1 DEF TypeOK
<1>8. n <= created'
  BY <1>1 DEF n
<1>9. RowsInv'
  <2>1. SUFFICES ASSUME NEW d \in Deliveries
                 PROVE  /\ d > created' <=> status'[d] = "absent"
                        /\ status'[d] = "absent" =>
                             /\ d \notin tests' /\ to'[d] = NoSubscription
                             /\ attempts'[d] = 0 /\ sends'[d] = 0 /\ verdict'[d] = "none"
                        /\ status'[d] \in {"pending", "in_flight"} =>
                             d \notin tests' /\ attempts'[d] < MaxAttempts
    BY DEF RowsInv
  <2>2. CASE d = n
    <3>1. ~(d > created')
      BY <1>1, <1>8, <2>2 DEF n
    <3>2. QED  BY <1>6, <2>2, <3>1
  <2>3. CASE d # n
    BY <1>7, <2>3 DEF RowsInv
  <2>4. QED  BY <2>2, <2>3
<1>10. HandsInv'
  BY <1>3, <1>5, <1>7 DEF HandsInv, TypeOK
<1>11. OneWorkerEach' /\ InFlightExplained'
  BY <1>3, <1>5, <1>6, <1>7 DEF OneWorkerEach, InFlightExplained
<1>12. StatusTellsVerdict'
  BY <1>6, <1>7 DEF StatusTellsVerdict
<1>13. SendsCounted'
  BY <1>6, <1>7, WorkerAssumption DEF SendsCounted
<1>14. DeadLettersExact'
  BY <1>3, <1>5, <1>6, <1>7 DEF DeadLettersExact
<1>15. RequestsInv'
  BY <1>3 DEF RequestsInv
<1>16. QED  BY <1>4, <1>9, <1>10, <1>11, <1>12, <1>13, <1>14, <1>15

LEMMA ReplaysInv == ASSUME NEW r \in Requests PROVE IInv /\ Replays(r) => IInv'
<1> SUFFICES ASSUME IInv, Replays(r) PROVE IInv'
  OBVIOUS
<1> USE DEF IInv
<1> DEFINE d == letter[r]
<1>1. /\ Inserts({to[d]}) /\ {to[d]} \in SUBSET Subscriptions
      /\ resolved' = resolved \union {d}
      /\ replays' = [replays EXCEPT ![d] = @ + 1]
      /\ request' = [request EXCEPT ![r] = "idle"]
      /\ letter' = [letter EXCEPT ![r] = NoLetter]
      /\ UNCHANGED <<subscribed, tests, attempts, letters, workerVars, seen, clientVars, lost>>
  BY DEF Replays, TypeOK
<1>2. d \in Deliveries
  BY DEF TypeOK, Replays, RequestsInv
<1>3. TypeOK'
  <2>1. /\ created' \in 0..MaxDeliveries
        /\ to' \in [Deliveries -> Subscriptions \union {NoSubscription}]
        /\ status' \in [Deliveries -> Statuses]
        /\ due' \subseteq Deliveries
    BY <1>1, InsertsTypes, BoundAssumption DEF TypeOK
  <2>2. replays' \in [Deliveries -> Nat]
    BY <1>1, <1>2 DEF TypeOK
  <2>3. request' \in [Requests -> {"idle", "read", "passed"}]
        /\ letter' \in [Requests -> Deliveries \union {NoLetter}]
    BY <1>1 DEF TypeOK
  <2>4. resolved' \subseteq Deliveries
    BY <1>1, <1>2 DEF TypeOK
  <2>5. QED  BY <1>1, <2>1, <2>2, <2>3, <2>4 DEF TypeOK, workerVars, clientVars
<1>4. RequestsInv'
  BY <1>1 DEF RequestsInv, TypeOK
<1>5. QED  BY <1>1, <1>3, <1>4, InsertsInv

-----------------------------------------------------------------------------
(* Steps that leave the rows and the workers alone *)

LEMMA LimiterInv ==
  ASSUME IInv, UNCHANGED <<rowVars, subscribed, letterVars, workerVars, clientVars, lost>>,
         request' \in [Requests -> {"idle", "read", "passed"}],
         letter' \in [Requests -> Deliveries \union {NoLetter}],
         seen' \subseteq Stores \X Deliveries, RequestsInv'
  PROVE  IInv'
<1> USE DEF IInv, rowVars, letterVars, workerVars, clientVars
<1>1. TypeOK'
  BY DEF TypeOK
<1>2. RowsInv' /\ HandsInv'
  BY DEF RowsInv, HandsInv
<1>3. OneWorkerEach' /\ InFlightExplained' /\ StatusTellsVerdict'
  BY DEF OneWorkerEach, InFlightExplained, StatusTellsVerdict
<1>4. SendsCounted' /\ DeadLettersExact'
  BY DEF SendsCounted, DeadLettersExact
<1>5. QED  BY <1>1, <1>2, <1>3, <1>4

LEMMA RequestStepsInv ==
  ASSUME NEW r \in Requests
  PROVE  /\ \A d \in Deliveries : IInv /\ ReadsLetter(r, d) => IInv'
         /\ IInv /\ PassesLimiter(r) => IInv'
         /\ IInv /\ GivesUp(r) => IInv'
         /\ \A key \in Stores \X Deliveries : IInv /\ WindowEnds(key) => IInv'
<1>1. ASSUME NEW d \in Deliveries, IInv, ReadsLetter(r, d) PROVE IInv'
  <2>1. /\ request' \in [Requests -> {"idle", "read", "passed"}]
        /\ letter' \in [Requests -> Deliveries \union {NoLetter}]
        /\ seen' \subseteq Stores \X Deliveries
        /\ RequestsInv'
    BY <1>1 DEF IInv, TypeOK, ReadsLetter, RequestsInv, Deliveries, NoLetter
  <2>2. UNCHANGED <<rowVars, subscribed, letterVars, workerVars, clientVars, lost>>
    BY <1>1 DEF ReadsLetter
  <2>3. QED  BY <1>1, <2>1, <2>2, LimiterInv
<1>2. ASSUME IInv, PassesLimiter(r) PROVE IInv'
  <2>1. letter[r] \in Deliveries /\ StoreOf[r] \in Stores
    BY <1>2, StoreAssumption DEF IInv, TypeOK, PassesLimiter, RequestsInv
  <2>2. /\ request' \in [Requests -> {"idle", "read", "passed"}]
        /\ letter' \in [Requests -> Deliveries \union {NoLetter}]
        /\ seen' \subseteq Stores \X Deliveries
        /\ RequestsInv'
    BY <1>2, <2>1 DEF IInv, TypeOK, PassesLimiter, Key, RequestsInv
  <2>3. UNCHANGED <<rowVars, subscribed, letterVars, workerVars, clientVars, lost>>
    BY <1>2 DEF PassesLimiter
  <2>4. QED  BY <1>2, <2>2, <2>3, LimiterInv
<1>3. ASSUME IInv, GivesUp(r) PROVE IInv'
  <2>1. /\ request' \in [Requests -> {"idle", "read", "passed"}]
        /\ letter' \in [Requests -> Deliveries \union {NoLetter}]
        /\ seen' \subseteq Stores \X Deliveries
        /\ RequestsInv'
    BY <1>3 DEF IInv, TypeOK, GivesUp, RequestsInv
  <2>2. UNCHANGED <<rowVars, subscribed, letterVars, workerVars, clientVars, lost>>
    BY <1>3 DEF GivesUp
  <2>3. QED  BY <1>3, <2>1, <2>2, LimiterInv
<1>4. ASSUME NEW key \in Stores \X Deliveries, IInv, WindowEnds(key) PROVE IInv'
  <2>1. /\ request' \in [Requests -> {"idle", "read", "passed"}]
        /\ letter' \in [Requests -> Deliveries \union {NoLetter}]
        /\ seen' \subseteq Stores \X Deliveries
        /\ RequestsInv'
    BY <1>4 DEF IInv, TypeOK, WindowEnds, RequestsInv
  <2>2. UNCHANGED <<rowVars, subscribed, letterVars, workerVars, clientVars, lost>>
    BY <1>4 DEF WindowEnds
  <2>3. QED  BY <1>4, <2>1, <2>2, LimiterInv
<1>5. QED  BY <1>1, <1>2, <1>3, <1>4

-----------------------------------------------------------------------------
(* Rows that go and rows that come due *)

LEMMA DeletesInv == ASSUME NEW s \in Subscriptions PROVE IInv /\ DeletesSubscription(s) => IInv'
<1> SUFFICES ASSUME IInv, DeletesSubscription(s) PROVE IInv'
  OBVIOUS
<1> USE DEF IInv
<1>1. /\ UNCHANGED <<created, to, tests, attempts, due, workerVars, requestVars, clientVars, lost, replays>>
      /\ subscribed' = subscribed \ {s}
      /\ status' = [d \in Deliveries |-> IF to[d] = s THEN "gone" ELSE status[d]]
      /\ letters' = [d \in Deliveries |-> IF to[d] = s THEN 0 ELSE letters[d]]
      /\ resolved' \subseteq resolved
  BY DEF DeletesSubscription
<1> USE DEF workerVars, requestVars, clientVars
<1>2. TypeOK'
  BY <1>1 DEF TypeOK, Statuses
<1>3. \A d \in Deliveries :
        IF to[d] = s THEN status'[d] = "gone" /\ letters'[d] = 0
        ELSE status'[d] = status[d] /\ letters'[d] = letters[d]
  BY <1>1
<1>4. \A d \in Deliveries : to[d] = s => status[d] # "absent"
  BY SubscriptionAssumption DEF RowsInv
<1>5. RowsInv'
  BY <1>1, <1>3, <1>4 DEF RowsInv
<1>6. HandsInv'
  <2>1. \A w \in Workers : \A d \in batch[w] : status'[d] \in {"in_flight", "gone"}
    BY <1>3 DEF HandsInv, TypeOK
  <2>2. QED  BY <1>1, <2>1 DEF HandsInv
<1>7. OneWorkerEach' /\ InFlightExplained'
  BY <1>1, <1>3 DEF OneWorkerEach, InFlightExplained
<1>8. StatusTellsVerdict'
  BY <1>1, <1>3 DEF StatusTellsVerdict
<1>9. SendsCounted'
  BY <1>1, <1>3 DEF SendsCounted, TypeOK
<1>10. DeadLettersExact'
  BY <1>1, <1>3 DEF DeadLettersExact
<1>11. RequestsInv'
  BY <1>1 DEF RequestsInv
<1>12. QED  BY <1>2, <1>5, <1>6, <1>7, <1>8, <1>9, <1>10, <1>11

LEMMA ComesDueInv == ASSUME NEW d \in Deliveries PROVE IInv /\ ComesDue(d) => IInv'
<1> SUFFICES ASSUME IInv, ComesDue(d) PROVE IInv'
  OBVIOUS
<1> USE DEF IInv, letterVars, workerVars, requestVars, clientVars
<1>1. /\ due' = due \union {d}
      /\ UNCHANGED <<created, to, tests, status, attempts, subscribed, letterVars, workerVars,
                     requestVars, clientVars, lost>>
  BY DEF ComesDue
<1>2. TypeOK'
  BY <1>1 DEF TypeOK
<1>3. RowsInv' /\ HandsInv'
  BY <1>1 DEF RowsInv, HandsInv
<1>4. OneWorkerEach' /\ InFlightExplained' /\ StatusTellsVerdict'
  BY <1>1 DEF OneWorkerEach, InFlightExplained, StatusTellsVerdict
<1>5. SendsCounted' /\ DeadLettersExact'
  BY <1>1 DEF SendsCounted, DeadLettersExact
<1>6. RequestsInv'
  BY <1>1 DEF RequestsInv
<1>7. QED  BY <1>2, <1>3, <1>4, <1>5, <1>6

-----------------------------------------------------------------------------
(* The workers *)

LEMMA PicksInv == ASSUME NEW w \in Workers PROVE IInv /\ Picks(w) => IInv'
<1> SUFFICES ASSUME IInv, Picks(w) PROVE IInv'
  OBVIOUS
<1> USE DEF IInv
<1>1. PICK rows \in SUBSET Pickable :
        /\ batch' = [batch EXCEPT ![w] = rows]
        /\ status' = [d \in Deliveries |-> IF d \in rows THEN "in_flight" ELSE status[d]]
  BY DEF Picks
<1>2. /\ stage[w] = "idle"
      /\ stage' = [stage EXCEPT ![w] = "picked"]
      /\ UNCHANGED <<created, to, tests, attempts, due, subscribed, letters, resolved, replays,
                     outcome, request, letter, seen, sends, verdict, lost>>
  BY DEF Picks, letterVars, requestVars, clientVars
<1>3. /\ rows \subseteq Deliveries
      /\ \A d \in rows : status[d] = "pending"
      /\ \A d \in Deliveries : status'[d] = IF d \in rows THEN "in_flight" ELSE status[d]
  BY <1>1 DEF Pickable, TypeOK
<1>4. TypeOK'
  BY <1>1, <1>2, <1>3 DEF TypeOK, Statuses
<1>5. \A w2 \in Workers : rows \intersect batch[w2] = {}
  BY <1>3 DEF HandsInv
<1>6. \A w2 \in Workers : w2 # w => batch'[w2] = batch[w2] /\ stage'[w2] = stage[w2]
  BY <1>1, <1>2 DEF TypeOK
<1>7. batch'[w] = rows /\ stage'[w] = "picked"
  BY <1>1, <1>2 DEF TypeOK
<1>8. RowsInv'
  BY <1>2, <1>3 DEF RowsInv
<1>9. HandsInv'
  <2>1. outcome[w] = NoOutcome
    BY <1>2 DEF HandsInv
  <2>2. \A d \in rows :
          /\ d \notin tests /\ attempts[d] < MaxAttempts
          /\ verdict[d] \in {"none", "retryable"} /\ sends[d] <= attempts[d]
    <3>1. \A d \in rows : d \notin tests /\ attempts[d] < MaxAttempts
      BY <1>3 DEF RowsInv
    <3>2. QED  BY <1>3, <3>1 DEF StatusTellsVerdict, SendsCounted, TypeOK
  <2>3. \A d \in Deliveries : d \notin rows => status'[d] = status[d]
    BY <1>3
  <2>4. ASSUME NEW w2 \in Workers
        PROVE  /\ stage'[w2] # "posting" => outcome'[w2] = NoOutcome
               /\ stage'[w2] = "idle" => batch'[w2] = {}
               /\ \A d \in Deliveries :
                    outcome'[w2][d] # "none" => d \in batch'[w2] /\ outcome'[w2][d] = verdict'[d]
               /\ \A d \in batch'[w2] :
                    /\ status'[d] \in {"in_flight", "gone"} /\ d \notin tests' /\ attempts'[d] < MaxAttempts
                    /\ outcome'[w2][d] = "none" =>
                         verdict'[d] \in {"none", "retryable"} /\ sends'[d] <= attempts'[d]
    <3>1. CASE w2 = w
      BY <1>2, <1>3, <1>7, <2>1, <2>2, <3>1 DEF NoOutcome
    <3>2. CASE w2 # w
      <4>1. \A d \in batch[w2] : status'[d] = status[d]
        BY <1>5, <2>3 DEF TypeOK
      <4>2. QED  BY <1>2, <1>6, <3>2, <4>1 DEF HandsInv
    <3>3. QED  BY <3>1, <3>2
  <2>5. QED  BY <2>4 DEF HandsInv
<1>10. OneWorkerEach'
  BY <1>5, <1>6, <1>7 DEF OneWorkerEach
<1>11. InFlightExplained'
  <2>1. SUFFICES ASSUME NEW d \in Deliveries
                 PROVE  /\ status'[d] = "in_flight" => d \in lost' \/ \E w2 \in Workers : d \in batch'[w2]
                        /\ (\E w2 \in Workers : d \in batch'[w2]) => status'[d] \in {"in_flight", "gone"}
    BY DEF InFlightExplained
  <2>2. CASE d \in rows
    BY <1>3, <1>7, <2>2
  <2>3. CASE d \notin rows
    <3>1. batch[w] = {}
      BY <1>2 DEF HandsInv
    <3>2. status'[d] = status[d]
      BY <1>3, <2>3
    <3>3. QED  BY <1>2, <1>6, <2>3, <3>1, <3>2, <1>7 DEF InFlightExplained, HandsInv
  <2>4. QED  BY <2>2, <2>3
<1>12. StatusTellsVerdict'
  BY <1>2, <1>3 DEF StatusTellsVerdict
<1>13. SendsCounted'
  BY <1>2, <1>3 DEF SendsCounted, TypeOK
<1>14. DeadLettersExact'
  BY <1>2, <1>3 DEF DeadLettersExact
<1>15. RequestsInv'
  BY <1>2 DEF RequestsInv
<1>16. QED  BY <1>4, <1>8, <1>9, <1>10, <1>11, <1>12, <1>13, <1>14, <1>15

\* A step that only takes rows out of the hands of w: each that is in flight is lost.
LEMMA LetsGoInv ==
  ASSUME IInv, NEW w \in Workers, TypeOK',
         UNCHANGED <<rowVars, subscribed, letters, requestVars, clientVars>>,
         \A w2 \in Workers : w2 # w =>
           batch'[w2] = batch[w2] /\ stage'[w2] = stage[w2] /\ outcome'[w2] = outcome[w2],
         batch'[w] \subseteq batch[w],
         \A d \in Deliveries : d \in batch'[w] => outcome'[w][d] = outcome[w][d],
         \A d \in Deliveries : d \notin batch'[w] => outcome'[w][d] = "none",
         stage'[w] # "posting" => outcome'[w] = NoOutcome,
         stage'[w] = "idle" => batch'[w] = {},
         lost \subseteq lost',
         \A d \in batch[w] : status[d] = "in_flight" => d \in batch'[w] \/ d \in lost'
  PROVE  IInv'
<1> USE DEF IInv, rowVars, requestVars, clientVars
<1>1. RowsInv'
  BY DEF RowsInv
<1>2. HandsInv'
  <2>1. \A w2 \in Workers : batch'[w2] \subseteq Deliveries
    BY DEF TypeOK
  <2>2. ASSUME NEW w2 \in Workers
        PROVE  /\ stage'[w2] # "posting" => outcome'[w2] = NoOutcome
               /\ stage'[w2] = "idle" => batch'[w2] = {}
               /\ \A d \in Deliveries :
                    outcome'[w2][d] # "none" => d \in batch'[w2] /\ outcome'[w2][d] = verdict'[d]
               /\ \A d \in batch'[w2] :
                    /\ status'[d] \in {"in_flight", "gone"} /\ d \notin tests' /\ attempts'[d] < MaxAttempts
                    /\ outcome'[w2][d] = "none" =>
                         verdict'[d] \in {"none", "retryable"} /\ sends'[d] <= attempts'[d]
    <3>1. CASE w2 = w
      BY <2>1, <3>1 DEF HandsInv
    <3>2. CASE w2 # w
      BY <3>2 DEF HandsInv
    <3>3. QED  BY <3>1, <3>2
  <2>3. QED  BY <2>2 DEF HandsInv
<1>3. OneWorkerEach'
  BY DEF OneWorkerEach
<1>4. InFlightExplained'
  <2>1. SUFFICES ASSUME NEW d \in Deliveries
                 PROVE  /\ status[d] = "in_flight" => d \in lost' \/ \E w2 \in Workers : d \in batch'[w2]
                        /\ (\E w2 \in Workers : d \in batch'[w2]) => status[d] \in {"in_flight", "gone"}
    BY DEF InFlightExplained
  <2>2. \A w2 \in Workers : d \in batch'[w2] => d \in batch[w2]
    OBVIOUS
  <2>3. ASSUME status[d] = "in_flight" PROVE d \in lost' \/ \E w2 \in Workers : d \in batch'[w2]
    <3>1. CASE d \in lost
      BY <3>1
    <3>2. CASE d \in batch[w]
      BY <2>3, <3>2
    <3>3. CASE d \notin lost /\ d \notin batch[w]
      <4>1. PICK w2 \in Workers : d \in batch[w2]
        BY <2>3, <3>3 DEF InFlightExplained
      <4>2. QED  BY <3>3, <4>1
    <3>4. QED  BY <3>1, <3>2, <3>3
  <2>4. QED  BY <2>2, <2>3 DEF InFlightExplained
<1>5. StatusTellsVerdict' /\ RequestsInv'
  BY DEF StatusTellsVerdict, RequestsInv
<1>6. SendsCounted' /\ DeadLettersExact'
  BY DEF SendsCounted, DeadLettersExact
<1>7. QED  BY <1>1, <1>2, <1>3, <1>4, <1>5, <1>6

LEMMA ReloadsInv == ASSUME NEW w \in Workers PROVE IInv /\ Reloads(w) => IInv'
<1> SUFFICES ASSUME IInv, Reloads(w) PROVE IInv'
  OBVIOUS
<1> DEFINE found == {d \in batch[w] : status[d] # "gone"}
<1>1. /\ stage[w] = "picked" /\ outcome[w] = NoOutcome
      /\ batch' = [batch EXCEPT ![w] = found]
      /\ stage' = [stage EXCEPT ![w] = IF found = {} THEN "idle" ELSE "posting"]
      /\ UNCHANGED <<rowVars, subscribed, letterVars, outcome, requestVars, clientVars, lost>>
  BY DEF Reloads, IInv, HandsInv
<1>2. TypeOK'
  BY <1>1 DEF IInv, TypeOK, rowVars, letterVars, requestVars, clientVars
<1>3. batch'[w] = found /\ stage'[w] = IF found = {} THEN "idle" ELSE "posting"
  BY <1>1 DEF IInv, TypeOK
<1>4. \A w2 \in Workers : w2 # w =>
        batch'[w2] = batch[w2] /\ stage'[w2] = stage[w2] /\ outcome'[w2] = outcome[w2]
  BY <1>1 DEF IInv, TypeOK
<1>5. \A d \in Deliveries : outcome'[w][d] = "none" /\ outcome'[w][d] = outcome[w][d]
  BY <1>1 DEF NoOutcome
<1>6. \A d \in batch[w] : status[d] = "in_flight" => d \in batch'[w]
  BY <1>3
<1>7. QED  BY <1>1, <1>2, <1>3, <1>4, <1>5, <1>6, LetsGoInv DEF letterVars

LEMMA LosesBatchInv == ASSUME NEW w \in Workers PROVE IInv /\ LosesBatch(w) => IInv'
<1> SUFFICES ASSUME IInv, LosesBatch(w) PROVE IInv'
  OBVIOUS
<1>1. /\ stage' = [stage EXCEPT ![w] = "idle"]
      /\ batch' = [batch EXCEPT ![w] = {}]
      /\ outcome' = [outcome EXCEPT ![w] = NoOutcome]
      /\ lost' = lost \union batch[w]
      /\ UNCHANGED <<rowVars, subscribed, letterVars, requestVars, clientVars>>
  BY DEF LosesBatch
<1>2. TypeOK'
  BY <1>1 DEF IInv, TypeOK, rowVars, letterVars, requestVars, clientVars, NoOutcome
<1>3. batch'[w] = {} /\ stage'[w] = "idle" /\ outcome'[w] = NoOutcome
  BY <1>1 DEF IInv, TypeOK
<1>4. \A w2 \in Workers : w2 # w =>
        batch'[w2] = batch[w2] /\ stage'[w2] = stage[w2] /\ outcome'[w2] = outcome[w2]
  BY <1>1 DEF IInv, TypeOK
<1>5. \A d \in Deliveries : outcome'[w][d] = "none"
  BY <1>3 DEF NoOutcome
<1>6. QED  BY <1>1, <1>2, <1>3, <1>4, <1>5, LetsGoInv DEF letterVars

\* What Drops does to the three variables of the workers.
LEMMA DropsEffect ==
  ASSUME TypeOK, HandsInv, NEW w \in Workers, NEW d \in batch[w], Drops(w, d)
  PROVE  /\ batch' \in [Workers -> SUBSET Deliveries]
         /\ stage' \in [Workers -> {"idle", "picked", "posting"}]
         /\ outcome' \in [Workers -> [Deliveries -> Outcomes \union {"none"}]]
         /\ \A w2 \in Workers : w2 # w =>
              batch'[w2] = batch[w2] /\ stage'[w2] = stage[w2] /\ outcome'[w2] = outcome[w2]
         /\ batch'[w] = batch[w] \ {d}
         /\ \A d2 \in Deliveries : outcome'[w][d2] = IF d2 = d THEN "none" ELSE outcome[w][d2]
         /\ stage'[w] \in {"idle", "posting"}
         /\ stage'[w] = "idle" <=> batch'[w] = {}
         /\ stage'[w] # "posting" => outcome'[w] = NoOutcome
<1>1. /\ batch' = [batch EXCEPT ![w] = batch[w] \ {d}]
      /\ outcome' = [outcome EXCEPT ![w][d] = "none"]
      /\ stage' = [stage EXCEPT ![w] = IF batch[w] \ {d} = {} THEN "idle" ELSE "posting"]
  BY DEF Drops, Remaining
<1>2. d \in Deliveries
  BY DEF TypeOK
<1>3. /\ batch' \in [Workers -> SUBSET Deliveries]
      /\ stage' \in [Workers -> {"idle", "picked", "posting"}]
  BY <1>1 DEF TypeOK
<1>4. outcome' \in [Workers -> [Deliveries -> Outcomes \union {"none"}]]
  BY <1>1, <1>2 DEF TypeOK
<1>5. \A w2 \in Workers : w2 # w =>
        batch'[w2] = batch[w2] /\ stage'[w2] = stage[w2] /\ outcome'[w2] = outcome[w2]
  BY <1>1 DEF TypeOK
<1>6. batch'[w] = batch[w] \ {d} /\ stage'[w] = IF batch[w] \ {d} = {} THEN "idle" ELSE "posting"
  BY <1>1 DEF TypeOK
<1>7. \A d2 \in Deliveries : outcome'[w][d2] = IF d2 = d THEN "none" ELSE outcome[w][d2]
  BY <1>1, <1>2 DEF TypeOK
<1>8. ASSUME stage'[w] # "posting" PROVE outcome'[w] = NoOutcome
  <2>1. batch[w] \ {d} = {}
    BY <1>6, <1>8
  <2>2. \A d2 \in Deliveries : outcome'[w][d2] = "none"
    BY <1>7, <2>1 DEF HandsInv
  <2>3. QED  BY <1>4, <2>2 DEF NoOutcome
<1>9. QED  BY <1>3, <1>4, <1>5, <1>6, <1>7, <1>8

LEMMA PersistFailsInv ==
  ASSUME NEW w \in Workers, NEW d \in Deliveries PROVE IInv /\ PersistFails(w, d) => IInv'
<1> SUFFICES ASSUME IInv, PersistFails(w, d) PROVE IInv'
  OBVIOUS
<1>1. /\ d \in batch[w] /\ Drops(w, d)
      /\ lost' = lost \union {d}
      /\ UNCHANGED <<rowVars, subscribed, letterVars, requestVars, clientVars>>
  BY DEF PersistFails, StatusUnsaved, rowVars
<1> DEFINE Effect ==
      /\ batch' \in [Workers -> SUBSET Deliveries]
      /\ stage' \in [Workers -> {"idle", "picked", "posting"}]
      /\ outcome' \in [Workers -> [Deliveries -> Outcomes \union {"none"}]]
      /\ \A w2 \in Workers : w2 # w =>
           batch'[w2] = batch[w2] /\ stage'[w2] = stage[w2] /\ outcome'[w2] = outcome[w2]
      /\ batch'[w] = batch[w] \ {d}
      /\ \A d2 \in Deliveries : outcome'[w][d2] = IF d2 = d THEN "none" ELSE outcome[w][d2]
      /\ stage'[w] = "idle" <=> batch'[w] = {}
      /\ stage'[w] # "posting" => outcome'[w] = NoOutcome
<1>2. Effect
  BY <1>1, DropsEffect DEF IInv
<1>3. TypeOK'
  BY <1>1, <1>2 DEF IInv, TypeOK, rowVars, letterVars, requestVars, clientVars
<1>4. \A d2 \in Deliveries : d2 \notin batch'[w] => outcome'[w][d2] = "none"
  BY <1>2 DEF IInv, HandsInv
<1>5. /\ \A d2 \in Deliveries : d2 \in batch'[w] => outcome'[w][d2] = outcome[w][d2]
      /\ batch'[w] \subseteq batch[w]
      /\ lost \subseteq lost'
      /\ \A d2 \in batch[w] : d2 \in batch'[w] \/ d2 \in lost'
  BY <1>1, <1>2
<1>6. QED  BY <1>1, <1>2, <1>3, <1>4, <1>5, LetsGoInv DEF letterVars

LEMMA PostsInv ==
  ASSUME NEW w \in Workers, NEW d \in Deliveries PROVE IInv /\ Posts(w, d) => IInv'
<1> SUFFICES ASSUME IInv, Posts(w, d) PROVE IInv'
  OBVIOUS
<1> USE DEF IInv
<1>1. PICK o \in Outcomes :
        /\ outcome' = [outcome EXCEPT ![w][d] = o]
        /\ verdict' = [verdict EXCEPT ![d] = o]
        /\ sends' = [sends EXCEPT ![d] = @ + 1] \/ UNCHANGED sends
  <2>1. PICK answer \in Answers :
          /\ outcome' = [outcome EXCEPT ![w][d] = OutcomeOf(answer)]
          /\ verdict' = [verdict EXCEPT ![d] = OutcomeOf(answer)]
          /\ sends' = IF answer = "refused" THEN sends ELSE [sends EXCEPT ![d] = @ + 1]
    BY DEF Posts
  <2>2. OutcomeOf(answer) \in Outcomes
    BY OutcomesOfAnswers
  <2>3. QED  BY <2>1, <2>2
<1>2. /\ stage[w] = "posting" /\ d \in batch[w] /\ outcome[w][d] = "none"
      /\ UNCHANGED <<created, to, tests, status, attempts, due, subscribed, letters, resolved,
                     replays, stage, batch, request, letter, seen, lost>>
  BY DEF Posts, Unanswered, rowVars, letterVars, requestVars
<1>3. TypeOK'
  <2>1. outcome' \in [Workers -> [Deliveries -> Outcomes \union {"none"}]]
    BY <1>1 DEF TypeOK
  <2>2. sends' \in [Deliveries -> Nat]
    BY <1>1 DEF TypeOK
  <2>3. verdict' \in [Deliveries -> Outcomes \union {"none"}]
    BY <1>1 DEF TypeOK
  <2>4. QED  BY <1>2, <2>1, <2>2, <2>3 DEF TypeOK
<1>4. /\ status[d] \in {"in_flight", "gone"} /\ d \notin tests /\ attempts[d] < MaxAttempts
      /\ sends[d] <= attempts[d] /\ attempts[d] \in Nat /\ sends[d] \in Nat
      /\ \A w2 \in Workers : w2 # w => d \notin batch[w2]
  BY <1>2 DEF HandsInv, TypeOK, OneWorkerEach
<1>5. /\ outcome'[w][d] = o /\ verdict'[d] = o /\ o # "none"
      /\ sends'[d] <= attempts[d] + 1 /\ sends'[d] \in Nat
      /\ \A d2 \in Deliveries : d2 # d =>
           verdict'[d2] = verdict[d2] /\ sends'[d2] = sends[d2] /\ outcome'[w][d2] = outcome[w][d2]
      /\ \A w2 \in Workers : w2 # w => outcome'[w2] = outcome[w2]
  BY <1>1, <1>4 DEF TypeOK, Outcomes
<1>6. RowsInv'
  BY <1>2, <1>4, <1>5 DEF RowsInv
<1>7. HandsInv'
  <2>1. \A w2 \in Workers : batch[w2] \subseteq Deliveries
    BY DEF TypeOK
  <2>2. ASSUME NEW w2 \in Workers
        PROVE  /\ stage'[w2] # "posting" => outcome'[w2] = NoOutcome
               /\ stage'[w2] = "idle" => batch'[w2] = {}
               /\ \A d2 \in Deliveries :
                    outcome'[w2][d2] # "none" => d2 \in batch'[w2] /\ outcome'[w2][d2] = verdict'[d2]
               /\ \A d2 \in batch'[w2] :
                    /\ status'[d2] \in {"in_flight", "gone"} /\ d2 \notin tests' /\ attempts'[d2] < MaxAttempts
                    /\ outcome'[w2][d2] = "none" =>
                         verdict'[d2] \in {"none", "retryable"} /\ sends'[d2] <= attempts'[d2]
    <3>1. CASE w2 = w
      BY <1>2, <1>5, <2>1, <3>1 DEF HandsInv
    <3>2. CASE w2 # w
      BY <1>2, <1>4, <1>5, <2>1, <3>2 DEF HandsInv
    <3>3. QED  BY <3>1, <3>2
  <2>3. QED  BY <2>2 DEF HandsInv
<1>8. OneWorkerEach' /\ InFlightExplained' /\ RequestsInv' /\ DeadLettersExact'
  BY <1>2 DEF OneWorkerEach, InFlightExplained, RequestsInv, DeadLettersExact
<1>9. StatusTellsVerdict'
  BY <1>2, <1>4, <1>5 DEF StatusTellsVerdict
<1>10. SendsCounted'
  <2>1. SUFFICES ASSUME NEW d2 \in Deliveries
                 PROVE  /\ sends'[d2] <= attempts[d2]
                                           + (IF status[d2] \in {"in_flight", "gone"} THEN 1 ELSE 0)
                        /\ sends'[d2] <= MaxAttempts
    BY <1>2 DEF SendsCounted
  <2>2. CASE d2 = d
    BY <1>4, <1>5, <2>2, WorkerAssumption
  <2>3. CASE d2 # d
    BY <1>5, <2>3 DEF SendsCounted
  <2>4. QED  BY <2>2, <2>3
<1>11. QED  BY <1>3, <1>6, <1>7, <1>8, <1>9, <1>10

LEMMA PersistsInv ==
  ASSUME NEW w \in Workers, NEW d \in Deliveries PROVE IInv /\ Persists(w, d) => IInv'
<1> SUFFICES ASSUME IInv, Persists(w, d) PROVE IInv'
  OBVIOUS
<1> DEFINE o == outcome[w][d]
<1>1. /\ stage[w] = "posting" /\ d \in batch[w] /\ o # "none" /\ Drops(w, d)
      /\ UNCHANGED <<subscribed, requestVars, clientVars, lost>>
  BY DEF Persists, Gathered
<1> DEFINE Effect ==
      /\ batch' \in [Workers -> SUBSET Deliveries]
      /\ stage' \in [Workers -> {"idle", "picked", "posting"}]
      /\ outcome' \in [Workers -> [Deliveries -> Outcomes \union {"none"}]]
      /\ \A w2 \in Workers : w2 # w =>
           batch'[w2] = batch[w2] /\ stage'[w2] = stage[w2] /\ outcome'[w2] = outcome[w2]
      /\ batch'[w] = batch[w] \ {d}
      /\ \A d2 \in Deliveries : outcome'[w][d2] = IF d2 = d THEN "none" ELSE outcome[w][d2]
      /\ stage'[w] = "idle" <=> batch'[w] = {}
      /\ stage'[w] # "posting" => outcome'[w] = NoOutcome
<1>2. Effect
  BY <1>1, DropsEffect DEF IInv
<1>3. /\ status[d] \in {"in_flight", "gone"} /\ d \notin tests /\ attempts[d] < MaxAttempts
      /\ o = verdict[d] /\ o \in Outcomes /\ attempts[d] \in Nat
      /\ \A w2 \in Workers : w2 # w => d \notin batch[w2]
  BY <1>1 DEF IInv, HandsInv, TypeOK, OneWorkerEach
<1>4. \A d2 \in Deliveries : d2 \notin batch'[w] => outcome'[w][d2] = "none"
  BY <1>2 DEF IInv, HandsInv
<1>5. CASE status[d] = "gone"
  <2>1. UNCHANGED <<rowVars, letterVars>>
    BY <1>5 DEF Persists
  <2>2. TypeOK'
    BY <1>1, <1>2, <2>1 DEF IInv, TypeOK, rowVars, letterVars, requestVars, clientVars
  <2>3. /\ batch'[w] \subseteq batch[w] /\ lost \subseteq lost'
        /\ \A d2 \in Deliveries : d2 \in batch'[w] => outcome'[w][d2] = outcome[w][d2]
        /\ \A d2 \in batch[w] : status[d2] = "in_flight" => d2 \in batch'[w] \/ d2 \in lost'
    BY <1>1, <1>2, <1>5
  <2>4. QED  BY <1>1, <1>2, <1>4, <2>1, <2>2, <2>3, LetsGoInv DEF letterVars
<1>6. CASE status[d] # "gone"
  <2> DEFINE final == IF o = "success" THEN "delivered" ELSE IF Fails(o, d) THEN "failed" ELSE "pending"
  <2>1. /\ attempts' = [attempts EXCEPT ![d] = @ + 1]
        /\ status' = [status EXCEPT ![d] = final]
        /\ letters' = IF Fails(o, d) THEN [letters EXCEPT ![d] = @ + 1] ELSE letters
        /\ due' \subseteq due
        /\ UNCHANGED <<created, to, tests, resolved, replays>>
    BY <1>6 DEF Persists, Saves, LeavesLetter
  <2>2. final \in {"delivered", "failed", "pending"}
    OBVIOUS
  <2>3. /\ status[d] = "in_flight" /\ status'[d] = final /\ attempts'[d] = attempts[d] + 1
        /\ letters[d] = 0 /\ letters'[d] = IF Fails(o, d) THEN 1 ELSE 0
        /\ \A d2 \in Deliveries : d2 # d =>
             status'[d2] = status[d2] /\ attempts'[d2] = attempts[d2] /\ letters'[d2] = letters[d2]
    BY <1>3, <1>6, <2>1 DEF IInv, TypeOK, DeadLettersExact
  <2>4. /\ final = "delivered" <=> o = "success"
        /\ final = "failed" <=> Fails(o, d)
        /\ final = "failed" => o = "terminal" \/ (o = "retryable" /\ attempts[d] + 1 = MaxAttempts)
        /\ final = "pending" => o = "retryable" /\ attempts[d] + 1 < MaxAttempts
    BY <1>3, WorkerAssumption DEF Fails, LastAttempt, Outcomes
  <2> HIDE DEF final
  <2>5. TypeOK'
    <3>1. status' \in [Deliveries -> Statuses]
      BY <2>1, <2>2 DEF IInv, TypeOK, Statuses
    <3>2. attempts' \in [Deliveries -> 0..MaxAttempts]
      BY <1>3, <2>1, WorkerAssumption DEF IInv, TypeOK
    <3>3. letters' \in [Deliveries -> Nat]
      BY <2>1 DEF IInv, TypeOK
    <3>4. QED  BY <1>1, <1>2, <2>1, <3>1, <3>2, <3>3 DEF IInv, TypeOK, requestVars, clientVars
  <2>6. RowsInv'
    BY <1>1, <1>3, <2>1, <2>2, <2>3, <2>4 DEF IInv, RowsInv, clientVars
  <2>7. HandsInv'
    <3>1. \A w2 \in Workers : batch[w2] \subseteq Deliveries
      BY DEF IInv, TypeOK
    <3>2. ASSUME NEW w2 \in Workers
          PROVE  /\ stage'[w2] # "posting" => outcome'[w2] = NoOutcome
                 /\ stage'[w2] = "idle" => batch'[w2] = {}
                 /\ \A d2 \in Deliveries :
                      outcome'[w2][d2] # "none" => d2 \in batch'[w2] /\ outcome'[w2][d2] = verdict'[d2]
                 /\ \A d2 \in batch'[w2] :
                      /\ status'[d2] \in {"in_flight", "gone"} /\ d2 \notin tests' /\ attempts'[d2] < MaxAttempts
                      /\ outcome'[w2][d2] = "none" =>
                           verdict'[d2] \in {"none", "retryable"} /\ sends'[d2] <= attempts'[d2]
      <4>1. CASE w2 = w
        <5>1. stage'[w2] # "posting" => outcome'[w2] = NoOutcome
          BY <1>2, <4>1
        <5>2. stage'[w2] = "idle" => batch'[w2] = {}
          BY <1>2, <4>1
        <5>3. \A d2 \in batch'[w2] : d2 # d /\ d2 \in batch[w] /\ d2 \in Deliveries
          BY <1>2, <3>1, <4>1
        <5>4. \A d2 \in Deliveries :
                outcome'[w2][d2] # "none" => d2 \in batch'[w2] /\ outcome'[w2][d2] = verdict'[d2]
          BY <1>1, <1>2, <1>4, <4>1 DEF IInv, HandsInv, clientVars
        <5>5. \A d2 \in batch'[w2] :
                /\ status'[d2] = status[d2] /\ tests' = tests /\ attempts'[d2] = attempts[d2]
                /\ outcome'[w2][d2] = outcome[w][d2] /\ verdict'[d2] = verdict[d2] /\ sends'[d2] = sends[d2]
          BY <1>1, <1>2, <2>1, <2>3, <4>1, <5>3 DEF clientVars
        <5>6. \A d2 \in batch[w] :
                /\ status[d2] \in {"in_flight", "gone"} /\ d2 \notin tests /\ attempts[d2] < MaxAttempts
                /\ outcome[w][d2] = "none" =>
                     verdict[d2] \in {"none", "retryable"} /\ sends[d2] <= attempts[d2]
          BY DEF IInv, HandsInv
        <5>7. QED  BY <5>1, <5>2, <5>3, <5>4, <5>5, <5>6
      <4>2. CASE w2 # w
        BY <1>1, <1>2, <1>3, <2>1, <2>3, <3>1, <4>2 DEF IInv, HandsInv, clientVars
      <4>3. QED  BY <4>1, <4>2
    <3>3. QED  BY <3>2 DEF HandsInv
  <2>8. OneWorkerEach' /\ RequestsInv'
    BY <1>1, <1>2 DEF IInv, OneWorkerEach, RequestsInv, requestVars
  <2>9. InFlightExplained'
    <3>1. SUFFICES ASSUME NEW d2 \in Deliveries
                   PROVE  /\ status'[d2] = "in_flight" =>
                               d2 \in lost \/ \E w2 \in Workers : d2 \in batch'[w2]
                          /\ (\E w2 \in Workers : d2 \in batch'[w2]) => status'[d2] \in {"in_flight", "gone"}
      BY <1>1 DEF InFlightExplained
    <3>2. CASE d2 = d
      BY <1>2, <1>3, <2>2, <2>3, <3>2
    <3>3. CASE d2 # d
      <4>1. \A w2 \in Workers : d2 \in batch'[w2] <=> d2 \in batch[w2]
        BY <1>2, <3>3
      <4>2. QED  BY <2>3, <3>3, <4>1 DEF IInv, InFlightExplained
    <3>4. QED  BY <3>2, <3>3
  <2>10. StatusTellsVerdict'
    BY <1>1, <1>3, <2>1, <2>3, <2>4 DEF IInv, StatusTellsVerdict, clientVars
  <2>11. SendsCounted'
    <3>1. sends[d] <= attempts[d] + 1 /\ sends[d] <= MaxAttempts /\ sends[d] \in Nat
      BY <1>3, <2>3 DEF IInv, SendsCounted, TypeOK
    <3>2. \A d2 \in Deliveries : d2 # d =>
            /\ sends[d2] <= attempts[d2] + (IF status[d2] \in {"in_flight", "gone"} THEN 1 ELSE 0)
            /\ sends[d2] <= MaxAttempts
      BY DEF IInv, SendsCounted
    <3>3. QED  BY <1>1, <1>3, <2>2, <2>3, <3>1, <3>2 DEF SendsCounted, clientVars
  <2>12. DeadLettersExact'
    BY <1>3, <2>1, <2>3, <2>4 DEF IInv, DeadLettersExact
  <2>13. QED  BY <2>5, <2>6, <2>7, <2>8, <2>9, <2>10, <2>11, <2>12 DEF IInv
<1>7. QED  BY <1>5, <1>6

-----------------------------------------------------------------------------
(* Every step *)

LEMMA StutterInv == IInv /\ UNCHANGED vars => IInv'
<1> SUFFICES ASSUME IInv, UNCHANGED vars PROVE IInv'
  OBVIOUS
<1>1. UNCHANGED <<rowVars, subscribed, letterVars, workerVars, clientVars, lost>>
      /\ UNCHANGED <<request, letter, seen>>
  BY DEF vars, requestVars
<1>2. RequestsInv' /\ TypeOK
  BY <1>1 DEF IInv, RequestsInv
<1>3. QED  BY <1>1, <1>2, LimiterInv DEF TypeOK

LEMMA NextInv == IInv /\ [Next]_vars => IInv'
<1> SUFFICES ASSUME IInv, [Next]_vars PROVE IInv'
  OBVIOUS
<1>1. CASE Enqueues
  BY <1>1, EnqueuesInv
<1>2. ASSUME NEW s \in Subscriptions, Tests(s) \/ DeletesSubscription(s) PROVE IInv'
  BY <1>2, TestsInv, DeletesInv
<1>3. ASSUME NEW d \in Deliveries, ComesDue(d) PROVE IInv'
  BY <1>3, ComesDueInv
<1>4. ASSUME NEW w \in Workers, Works(w) \/ LosesBatch(w) PROVE IInv'
  <2>1. CASE Picks(w) \/ Reloads(w) \/ LosesBatch(w)
    BY <2>1, PicksInv, ReloadsInv, LosesBatchInv
  <2>2. ASSUME NEW d \in Deliveries, Posts(w, d) \/ Persists(w, d) PROVE IInv'
    BY <2>2, PostsInv, PersistsInv
  <2>3. QED  BY <1>4, <2>1, <2>2 DEF Works
<1>5. ASSUME NEW w \in Workers, NEW d \in Deliveries, PersistFails(w, d) PROVE IInv'
  BY <1>5, PersistFailsInv
<1>6. ASSUME NEW r \in Requests, NEW d \in Deliveries, ReadsLetter(r, d) PROVE IInv'
  BY <1>6, RequestStepsInv
<1>7. ASSUME NEW r \in Requests, PassesLimiter(r) \/ GivesUp(r) \/ Replays(r) PROVE IInv'
  BY <1>7, RequestStepsInv, ReplaysInv
<1>8. ASSUME NEW key \in Stores \X Deliveries, WindowEnds(key) PROVE IInv'
  <2>1. /\ UNCHANGED <<rowVars, subscribed, letterVars, workerVars, clientVars, lost>>
        /\ UNCHANGED <<request, letter>> /\ seen' \subseteq seen
    BY <1>8 DEF WindowEnds
  <2>2. RequestsInv' /\ TypeOK
    BY <2>1 DEF IInv, RequestsInv
  <2>3. QED  BY <2>1, <2>2, LimiterInv DEF TypeOK
<1>9. CASE UNCHANGED vars
  BY <1>9, StutterInv
<1>10. QED  BY <1>1, <1>2, <1>3, <1>4, <1>5, <1>6, <1>7, <1>8, <1>9 DEF Next

LEMMA Invariant == Spec => []IInv
<1>1. QED  BY InitInv, NextInv, PTL DEF Spec

\* No variable leaves its type; in particular, no row has more attempts than
\* max_attempts (_persist_outcome counts before it compares).
THEOREM TypeCorrect == Spec => []TypeOK
<1>1. IInv => TypeOK
  BY DEF IInv
<1>2. QED  BY <1>1, Invariant, PTL

\* However many replicas tick, no row is ever in the batches of two of them.
THEOREM OneWorkerHolds == Spec => []OneWorkerEach
<1>1. IInv => OneWorkerEach
  BY DEF IInv
<1>2. QED  BY <1>1, Invariant, PTL

\* A row in flight is in the hands of a worker, or of one that lost it: this is
\* the only way for a row to stay in flight.
THEOREM InFlightHolds == Spec => []InFlightExplained
<1>1. IInv => InFlightExplained
  BY DEF IInv
<1>2. QED  BY <1>1, Invariant, PTL

\* A client sees one request for each saved attempt of a delivery and at most
\* one more, and never more than max_attempts.
THEOREM SendsHold == Spec => []SendsCounted
<1>1. IInv => SendsCounted
  BY DEF IInv
<1>2. QED  BY <1>1, Invariant, PTL

\* The status of a row agrees with what the client answered last.
THEOREM StatusHolds == Spec => []StatusTellsVerdict
<1>1. IInv => StatusTellsVerdict
  BY DEF IInv
<1>2. QED  BY <1>1, Invariant, PTL

\* Each failed delivery leaves exactly one dead letter.
THEOREM DeadLettersHold == Spec => []DeadLettersExact
<1>1. IInv => DeadLettersExact
  BY DEF IInv
<1>2. QED  BY <1>1, Invariant, PTL

\* Picking, posting, saving and losing by any number of replicas: one worker
\* for a delivery in flight, and the requests that its client saw are counted.
THEOREM InFlightIsExact == Spec => []InFlightExact
<1>1. QED  BY TypeCorrect, OneWorkerHolds, InFlightHolds, SendsHold, PTL DEF InFlightExact

\* _persist_outcome: the status agrees with what came of the attempts, and exactly the
\* failed deliveries have a dead letter.
THEOREM OutcomesAreExact == Spec => []OutcomesExact
<1>1. QED  BY StatusHolds, DeadLettersHold, PTL DEF OutcomesExact

\* After an attempt that the service takes for a success or a terminal failure
\* nothing is sent for the delivery again.
THEOREM NothingSentAfterVerdict == Spec => NothingAfterVerdict
<1> DEFINE Quiet == \A d \in Deliveries : sends'[d] > sends[d] => verdict[d] \in {"none", "retryable"}
<1>1. ASSUME IInv, [Next]_vars PROVE [Quiet]_vars
  <2>1. SUFFICES ASSUME Next PROVE Quiet
    BY <1>1
  <2>2. CASE UNCHANGED sends
    BY <1>1, <2>2 DEF IInv, TypeOK
  <2>3. ASSUME NEW s \in Subscriptions, Tests(s) PROVE Quiet
    <3>1. created' = created + 1 /\ created' \in Deliveries /\ created \in Nat
      BY <1>1, <2>3, BoundAssumption DEF Tests, IInv, TypeOK, Deliveries
    <3>2. verdict[created'] = "none"
      BY <1>1, <3>1 DEF IInv, RowsInv
    <3>3. \A d \in Deliveries : d # created' => sends'[d] = sends[d]
      BY <1>1, <2>3 DEF Tests, IInv, TypeOK
    <3>4. QED  BY <1>1, <3>2, <3>3 DEF IInv, TypeOK
  <2>4. ASSUME NEW w \in Workers, NEW d \in Deliveries, Posts(w, d) PROVE Quiet
    <3>1. verdict[d] \in {"none", "retryable"}
      BY <1>1, <2>4 DEF Posts, Unanswered, IInv, HandsInv
    <3>2. \A d2 \in Deliveries : d2 # d => sends'[d2] = sends[d2]
      BY <1>1, <2>4 DEF Posts, IInv, TypeOK
    <3>3. QED  BY <1>1, <3>1, <3>2 DEF IInv, TypeOK
  <2>5. \/ UNCHANGED sends
        \/ \E s \in Subscriptions : Tests(s)
        \/ \E w \in Workers, d \in Deliveries : Posts(w, d)
    BY <2>1 DEF Next, Works, Enqueues, DeletesSubscription, ComesDue, Picks, Reloads, Persists,
                LosesBatch, PersistFails, ReadsLetter, PassesLimiter, GivesUp, Replays, WindowEnds,
                clientVars
  <2>6. QED  BY <2>2, <2>3, <2>4, <2>5
<1>2. QED  BY <1>1, Invariant, PTL DEF Spec, NothingAfterVerdict

-----------------------------------------------------------------------------
(* Replays *)

\* A step that leaves the requests, the limiter and the replays alone, and the
\* rows that left a letter where they are.
LEMMA ReplaysKept ==
  ASSUME IInv, ReplayInv,
         UNCHANGED <<request, letter, seen, replays>>,
         \A d \in Deliveries : status[d] \in {"failed", "gone"} => status'[d] \in {"failed", "gone"},
         resolved' \subseteq resolved,
         \A d \in Deliveries :
           replays[d] > 0 /\ letters'[d] > 0 => letters[d] > 0 /\ (d \in resolved => d \in resolved')
  PROVE  ReplayInv'
<1> USE DEF IInv
<1>1. \A r \in Requests : request[r] # "idle" => letter[r] \in Deliveries
  BY DEF TypeOK, RequestsInv
<1>2. \A r \in Requests : Key(r)' = Key(r)
  BY DEF Key
<1>3. \A r \in Requests :
        /\ request'[r] # "idle" => status'[letter'[r]] \in {"failed", "gone"}
        /\ request'[r] = "passed" => Key(r)' \in seen' /\ replays'[letter'[r]] = 0
        /\ request'[r] = "read" /\ replays'[letter'[r]] > 0 => Key(r)' \in seen'
  BY <1>1, <1>2 DEF ReplayInv
<1>4. \A r1, r2 \in Requests :
        r1 # r2 /\ request'[r1] = "passed" /\ request'[r2] = "passed" => letter'[r1] # letter'[r2]
  BY DEF ReplayInv
<1>5. \A d \in Deliveries :
        /\ replays'[d] > 0 => status'[d] \in {"failed", "gone"}
        /\ replays'[d] > 0 /\ letters'[d] > 0 => d \in resolved'
  BY DEF ReplayInv
<1>6. ReplayedOnce'
  BY DEF ReplayInv, ReplayedOnce
<1>7. QED  BY <1>3, <1>4, <1>5, <1>6 DEF ReplayInv

LEMMA ReadsLetterReplay ==
  ASSUME IInv, ReplayInv, NEW r \in Requests, NEW d \in Deliveries, ReadsLetter(r, d)
  PROVE  ReplayInv'
<1> USE DEF IInv
<1>1. /\ request' = [request EXCEPT ![r] = "read"] /\ letter' = [letter EXCEPT ![r] = d]
      /\ request[r] = "idle" /\ letters[d] > 0 /\ d \notin resolved
      /\ UNCHANGED <<status, letters, resolved, replays, seen>>
  BY DEF ReadsLetter, rowVars, letterVars
<1>2. /\ request'[r] = "read" /\ letter'[r] = d
      /\ \A r2 \in Requests : r2 # r => request'[r2] = request[r2] /\ letter'[r2] = letter[r2]
  BY <1>1 DEF TypeOK
<1>3. status[d] = "failed"
  BY <1>1 DEF DeadLettersExact
<1>4. ~(replays[d] > 0)
  BY <1>1 DEF ReplayInv
<1>5. \A r2 \in Requests : r2 # r => Key(r2)' = Key(r2)
  BY <1>2 DEF Key
<1>6. \A r2 \in Requests :
        /\ request'[r2] # "idle" => status'[letter'[r2]] \in {"failed", "gone"}
        /\ request'[r2] = "passed" => Key(r2)' \in seen' /\ replays'[letter'[r2]] = 0
        /\ request'[r2] = "read" /\ replays'[letter'[r2]] > 0 => Key(r2)' \in seen'
  BY <1>1, <1>2, <1>3, <1>4, <1>5 DEF ReplayInv
<1>7. \A r1, r2 \in Requests :
        r1 # r2 /\ request'[r1] = "passed" /\ request'[r2] = "passed" => letter'[r1] # letter'[r2]
  BY <1>2 DEF ReplayInv
<1>8. QED  BY <1>1, <1>6, <1>7 DEF ReplayInv, ReplayedOnce

LEMMA PassesLimiterReplay ==
  ASSUME OneStoreForAll, IInv, ReplayInv, NEW r \in Requests, PassesLimiter(r)
  PROVE  ReplayInv'
<1> USE DEF IInv
<1>1. /\ request' = [request EXCEPT ![r] = "passed"] /\ seen' = seen \union {Key(r)}
      /\ request[r] = "read" /\ Key(r) \notin seen
      /\ UNCHANGED <<status, letters, resolved, replays, letter>>
  BY DEF PassesLimiter, LimiterAllows, rowVars, letterVars
<1>2. /\ request'[r] = "passed"
      /\ \A r2 \in Requests : r2 # r => request'[r2] = request[r2]
  BY <1>1 DEF TypeOK
<1>3. \A r2 \in Requests : Key(r2)' = Key(r2)
  BY <1>1 DEF Key
<1>4. letter[r] \in Deliveries /\ replays[letter[r]] = 0
  BY <1>1 DEF ReplayInv, TypeOK, RequestsInv
<1>5. \A r2 \in Requests : request[r2] = "passed" => letter[r2] # letter[r]
  <2>1. ASSUME NEW r2 \in Requests, request[r2] = "passed", letter[r2] = letter[r] PROVE FALSE
    <3>1. Key(r2) = Key(r)
      BY <2>1 DEF Key, OneStoreForAll
    <3>2. QED  BY <1>1, <2>1, <3>1 DEF ReplayInv
  <2>2. QED  BY <2>1
<1>6. \A r2 \in Requests :
        /\ request'[r2] # "idle" => status'[letter'[r2]] \in {"failed", "gone"}
        /\ request'[r2] = "passed" => Key(r2)' \in seen' /\ replays'[letter'[r2]] = 0
        /\ request'[r2] = "read" /\ replays'[letter'[r2]] > 0 => Key(r2)' \in seen'
  BY <1>1, <1>2, <1>3, <1>4 DEF ReplayInv
<1>7. \A r1, r2 \in Requests :
        r1 # r2 /\ request'[r1] = "passed" /\ request'[r2] = "passed" => letter'[r1] # letter'[r2]
  BY <1>1, <1>2, <1>5 DEF ReplayInv
<1>8. QED  BY <1>1, <1>6, <1>7 DEF ReplayInv, ReplayedOnce

LEMMA GivesUpReplay ==
  ASSUME IInv, ReplayInv, NEW r \in Requests, GivesUp(r)
  PROVE  ReplayInv'
<1> USE DEF IInv
<1>1. /\ request' = [request EXCEPT ![r] = "idle"] /\ letter' = [letter EXCEPT ![r] = NoLetter]
      /\ UNCHANGED <<status, letters, resolved, replays, seen>>
  BY DEF GivesUp, rowVars, letterVars
<1>2. /\ request'[r] = "idle"
      /\ \A r2 \in Requests : r2 # r => request'[r2] = request[r2] /\ letter'[r2] = letter[r2]
  BY <1>1 DEF TypeOK
<1>3. \A r2 \in Requests : r2 # r => Key(r2)' = Key(r2)
  BY <1>2 DEF Key
<1>4. \A r2 \in Requests :
        /\ request'[r2] # "idle" => status'[letter'[r2]] \in {"failed", "gone"}
        /\ request'[r2] = "passed" => Key(r2)' \in seen' /\ replays'[letter'[r2]] = 0
        /\ request'[r2] = "read" /\ replays'[letter'[r2]] > 0 => Key(r2)' \in seen'
  BY <1>1, <1>2, <1>3 DEF ReplayInv
<1>5. \A r1, r2 \in Requests :
        r1 # r2 /\ request'[r1] = "passed" /\ request'[r2] = "passed" => letter'[r1] # letter'[r2]
  BY <1>2 DEF ReplayInv
<1>6. QED  BY <1>1, <1>4, <1>5 DEF ReplayInv, ReplayedOnce

LEMMA ReplaysReplay ==
  ASSUME IInv, ReplayInv, NEW r \in Requests, Replays(r), OneStoreForAll
  PROVE  ReplayInv'
<1> USE DEF IInv
<1> DEFINE d == letter[r]
<1>1. /\ Inserts({to[d]}) /\ {to[d]} \in SUBSET Subscriptions
      /\ resolved' = resolved \union {d}
      /\ replays' = [replays EXCEPT ![d] = @ + 1]
      /\ request' = [request EXCEPT ![r] = "idle"]
      /\ letter' = [letter EXCEPT ![r] = NoLetter]
      /\ request[r] = "passed"
      /\ UNCHANGED <<letters, seen>>
  BY DEF Replays, TypeOK
<1>2. d \in Deliveries /\ replays[d] = 0 /\ status[d] \in {"failed", "gone"} /\ Key(r) \in seen
  BY <1>1 DEF TypeOK, ReplayInv, RequestsInv
<1>3. \A d2 \in Deliveries : status[d2] \in {"failed", "gone"} => status'[d2] = status[d2]
  BY <1>1, InsertsTypes DEF RowsInv
<1>4. /\ request'[r] = "idle"
      /\ \A r2 \in Requests : r2 # r => request'[r2] = request[r2] /\ letter'[r2] = letter[r2]
  BY <1>1 DEF TypeOK
<1>5. replays'[d] = 1 /\ \A d2 \in Deliveries : d2 # d => replays'[d2] = replays[d2]
  BY <1>1, <1>2 DEF TypeOK
<1>6. \A r2 \in Requests : r2 # r => Key(r2)' = Key(r2)
  BY <1>4 DEF Key
<1>7. \A r2 \in Requests : request[r2] # "idle" => letter[r2] \in Deliveries
  BY DEF TypeOK, RequestsInv
<1>8. ASSUME NEW r2 \in Requests
      PROVE  /\ request'[r2] # "idle" => status'[letter'[r2]] \in {"failed", "gone"}
             /\ request'[r2] = "passed" => Key(r2)' \in seen' /\ replays'[letter'[r2]] = 0
             /\ request'[r2] = "read" /\ replays'[letter'[r2]] > 0 => Key(r2)' \in seen'
  <2>1. CASE r2 = r
    BY <1>4, <2>1
  <2>2. CASE r2 # r /\ letter[r2] = d
    <3>1. Key(r2) = Key(r)
      BY <2>2 DEF Key, OneStoreForAll
    <3>2. request[r2] # "passed"
      BY <1>1, <2>2 DEF ReplayInv
    <3>3. QED  BY <1>1, <1>2, <1>3, <1>4, <1>6, <2>2, <3>1, <3>2
  <2>3. CASE r2 # r /\ letter[r2] # d
    BY <1>1, <1>3, <1>4, <1>5, <1>6, <1>7, <2>3 DEF ReplayInv
  <2>4. QED  BY <2>1, <2>2, <2>3
<1>9. \A r1, r2 \in Requests :
        r1 # r2 /\ request'[r1] = "passed" /\ request'[r2] = "passed" => letter'[r1] # letter'[r2]
  BY <1>4 DEF ReplayInv
<1>10. \A d2 \in Deliveries :
         /\ replays'[d2] > 0 => status'[d2] \in {"failed", "gone"}
         /\ replays'[d2] > 0 /\ letters'[d2] > 0 => d2 \in resolved'
         /\ replays'[d2] <= 1 /\ (d2 \in resolved' => replays'[d2] = 1)
  BY <1>1, <1>2, <1>3, <1>5 DEF ReplayInv, ReplayedOnce
<1>11. QED  BY <1>8, <1>9, <1>10 DEF ReplayInv, ReplayedOnce

LEMMA WindowEndsReplay ==
  ASSUME IInv, ReplayInv, NEW key \in Stores \X Deliveries, WindowEnds(key)
  PROVE  ReplayInv'
<1>1. /\ UNCHANGED <<status, letters, resolved, replays, request, letter>>
      /\ seen' = seen \ {key}
      /\ \A r \in Requests : letter[r] # key[2]
  BY DEF WindowEnds, rowVars, letterVars
<1>2. \A r \in Requests : Key(r) # key /\ Key(r)' = Key(r)
  BY <1>1 DEF Key
<1>3. QED  BY <1>1, <1>2 DEF ReplayInv, ReplayedOnce

LEMMA NextReplay ==
  ASSUME OneStoreForAll
  PROVE  IInv /\ IInv' /\ ReplayInv /\ [Next]_vars => ReplayInv'
<1> SUFFICES ASSUME IInv, IInv', ReplayInv, [Next]_vars PROVE ReplayInv'
  OBVIOUS
<1> USE DEF IInv
<1>1. \A d \in Deliveries : replays[d] > 0 => status[d] \in {"failed", "gone"}
  BY DEF ReplayInv
<1>2. CASE Enqueues
  <2>1. PICK addresses \in SUBSET Subscriptions : Inserts(addresses)
    BY <1>2 DEF Enqueues, TypeOK
  <2>2. \A d \in Deliveries : status[d] \in {"failed", "gone"} => status'[d] = status[d]
    BY <2>1, InsertsTypes DEF RowsInv
  <2>3. QED  BY <1>2, <2>2, ReplaysKept DEF Enqueues, letterVars, requestVars
<1>3. ASSUME NEW s \in Subscriptions, Tests(s) PROVE ReplayInv'
  <2>1. created' = created + 1 /\ created' \in Deliveries /\ created \in Nat
    BY <1>3, BoundAssumption DEF Tests, TypeOK, Deliveries
  <2>2. status[created'] = "absent"
    BY <2>1 DEF RowsInv
  <2>3. \A d \in Deliveries : d # created' => status'[d] = status[d]
    BY <1>3 DEF Tests, TypeOK
  <2>4. \A d \in Deliveries : status[d] \in {"failed", "gone"} => status'[d] = status[d]
    BY <2>2, <2>3
  <2>5. QED  BY <1>3, <2>4, ReplaysKept DEF Tests, letterVars, requestVars
<1>4. ASSUME NEW s \in Subscriptions, DeletesSubscription(s) PROVE ReplayInv'
  <2>1. /\ \A d \in Deliveries :
             IF to[d] = s THEN status'[d] = "gone" /\ letters'[d] = 0
             ELSE status'[d] = status[d] /\ letters'[d] = letters[d]
        /\ resolved' \subseteq resolved
        /\ \A d \in Deliveries : d \in resolved /\ to[d] # s => d \in resolved'
        /\ UNCHANGED <<request, letter, seen, replays>>
    BY <1>4 DEF DeletesSubscription, requestVars
  <2>2. QED  BY <2>1, ReplaysKept
<1>5. ASSUME NEW d \in Deliveries, ComesDue(d) PROVE ReplayInv'
  BY <1>5, ReplaysKept DEF ComesDue, letterVars, requestVars
<1>6. ASSUME NEW w \in Workers, Picks(w) PROVE ReplayInv'
  <2>1. \A d \in Deliveries : status[d] \in {"failed", "gone"} => status'[d] = status[d]
    BY <1>6 DEF Picks, Pickable
  <2>2. QED  BY <1>6, <2>1, ReplaysKept DEF Picks, letterVars, requestVars
<1>7. ASSUME NEW w \in Workers, NEW d \in Deliveries, Persists(w, d) PROVE ReplayInv'
  <2>1. /\ status[d] \in {"in_flight", "gone"} /\ UNCHANGED <<resolved, replays, request, letter, seen>>
    BY <1>7 DEF Persists, HandsInv, letterVars, requestVars
  <2>2. CASE status[d] = "gone"
    BY <1>7, <2>1, <2>2, ReplaysKept DEF Persists, rowVars, letterVars
  <2>3. CASE status[d] # "gone"
    <3>1. Saves(d, outcome[w][d])
      BY <1>7, <2>3 DEF Persists
    <3>2. \A d2 \in Deliveries : d2 # d => status'[d2] = status[d2] /\ letters'[d2] = letters[d2]
      BY <3>1 DEF Saves, TypeOK
    <3>3. ~(replays[d] > 0)
      BY <1>1, <2>1, <2>3
    <3>4. \A d2 \in Deliveries : status[d2] \in {"failed", "gone"} => status'[d2] = status[d2]
      BY <2>1, <2>3, <3>2
    <3>5. \A d2 \in Deliveries : replays[d2] > 0 /\ letters'[d2] > 0 => letters[d2] > 0
      BY <3>2, <3>3
    <3>6. QED  BY <2>1, <3>4, <3>5, ReplaysKept
  <2>4. QED  BY <2>2, <2>3
<1>8. ASSUME UNCHANGED <<status, letterVars, requestVars>> PROVE ReplayInv'
  BY <1>8, ReplaysKept DEF letterVars, requestVars
<1>9. ASSUME NEW w \in Workers, Reloads(w) \/ LosesBatch(w) PROVE ReplayInv'
  BY <1>8, <1>9 DEF Reloads, LosesBatch, rowVars
<1>10. ASSUME NEW w \in Workers, NEW d \in Deliveries, Posts(w, d) \/ PersistFails(w, d) PROVE ReplayInv'
  BY <1>8, <1>10 DEF Posts, PersistFails, StatusUnsaved, rowVars
<1>11. ASSUME NEW r \in Requests, NEW d \in Deliveries, ReadsLetter(r, d) PROVE ReplayInv'
  BY <1>11, ReadsLetterReplay
<1>12. ASSUME NEW r \in Requests, PassesLimiter(r) \/ GivesUp(r) \/ Replays(r) PROVE ReplayInv'
  BY <1>12, PassesLimiterReplay, GivesUpReplay, ReplaysReplay
<1>13. ASSUME NEW key \in Stores \X Deliveries, WindowEnds(key) PROVE ReplayInv'
  BY <1>13, WindowEndsReplay
<1>14. CASE UNCHANGED vars
  BY <1>8, <1>14 DEF vars, rowVars
<1>15. QED
  BY <1>2, <1>3, <1>4, <1>5, <1>6, <1>7, <1>9, <1>10, <1>11, <1>12, <1>13, <1>14 DEF Next, Works

\* When all requests ask one memory (Redis, or a single replica), no dead letter
\* is replayed twice, however the check of resolved_at, the limiter and the
\* commits of any number of requests interleave.
THEOREM ReplayedOnceHolds == OneStoreForAll => (Spec => []ReplayedOnce)
<1>1. SUFFICES ASSUME OneStoreForAll PROVE Spec => []ReplayedOnce
  OBVIOUS
<1>2. Init => ReplayInv
  BY DEF Init, ReplayInv, ReplayedOnce
<1>3. IInv /\ IInv' /\ ReplayInv /\ [Next]_vars => ReplayInv'
  BY <1>1, NextReplay
<1>4. ReplayInv => ReplayedOnce
  BY DEF ReplayInv
<1>5. QED  BY <1>2, <1>3, <1>4, Invariant, PTL DEF Spec
=============================================================================
