-------------------------- MODULE WebhookDispatch --------------------------
(***************************************************************************)
(* The outgoing webhooks (services/webhook_dispatch_service.py): the table *)
(* webhook_deliveries as a queue, the periodic workers of the replicas     *)
(* that pick due rows, post them and save what came of it, the dead        *)
(* letters, and the endpoint that replays a dead letter                    *)
(* (api/v1/webhook_subscriptions.py) behind its limiter                    *)
(* (services/webhooks/replay_limiter.py).                                  *)
(*                                                                         *)
(* One action is one transaction of the database, one request to a client  *)
(* and its answer, or one check of a replay request.  Rows are numbered in *)
(* the order of their creation.  Time is abstracted to `due`: the rows     *)
(* whose next_attempt_at has passed.                                       *)
(***************************************************************************)
EXTENDS Integers, FiniteSets

CONSTANTS
    Subscriptions,
    NoSubscription,
    MaxDeliveries,  \* bound of the model: rows ever created
    MaxEnqueued,    \* bound of the model: events and tests come while there are fewer rows
    Workers,        \* the replicas: each runs one tick at a time
    MaxParallel,    \* _MAX_PARALLEL_DELIVERIES_PER_TICK
    MaxAttempts,    \* DEFAULT_MAX_ATTEMPTS
    Requests,       \* requests to replay, at work at the same time
    Stores,         \* the memories of the limiter: one Redis, or one per replica
    StoreOf         \* the memory that each request asks

ASSUME SubscriptionAssumption == IsFiniteSet(Subscriptions) /\ NoSubscription \notin Subscriptions
ASSUME BoundAssumption == MaxDeliveries \in Nat /\ MaxEnqueued \in Nat
ASSUME WorkerAssumption == MaxParallel \in Nat \ {0} /\ MaxAttempts \in Nat \ {0}
ASSUME StoreAssumption == StoreOf \in [Requests -> Stores]

Deliveries == 1..MaxDeliveries
NoLetter == 0       \* what a request that is idle is about

VARIABLES
    \* The database.
    created,        \* how many rows were ever inserted
    subscribed,     \* the subscriptions that are not deleted
    to,             \* subscription_id of each row
    tests,          \* the rows of the test button
    status,
    attempts,       \* attempt_count
    due,
    letters,        \* how many dead letters each row left
    resolved,       \* the dead letters with a resolved_at
    \* The workers.
    stage, batch, outcome,
    \* The replay requests and the limiter.
    request, letter, seen,
    \* What the properties need to remember.
    sends,          \* requests sent to the client for each row
    verdict,        \* what the service took the last attempt of each row for
    lost,           \* rows whose worker died or could not save
    replays         \* rows created from the dead letter of each row

rowVars == <<created, to, tests, status, attempts, due>>
letterVars == <<letters, resolved, replays>>
workerVars == <<stage, batch, outcome>>
requestVars == <<request, letter, seen>>
clientVars == <<sends, verdict>>
vars == <<rowVars, subscribed, letterVars, workerVars, requestVars, clientVars, lost>>

-----------------------------------------------------------------------------
\* What comes of an attempt.  "redirect" is one of _REDIRECT_STATUSES (301, 302,
\* 303, 307, 308); "other" any other status below 200 or in the 3xx and 5xx;
\* "late" an answer, even a 2xx, that is not complete when the time is over;
\* "broken" a network error or an unexpected exception; "refused" an address
\* that may not be posted to.
Answers == {"2xx", "4xx", "redirect", "other", "late", "broken", "refused"}
Outcomes == {"success", "terminal", "retryable"}
OutcomeOf(answer) ==
    CASE answer = "2xx" -> "success"
      [] answer \in {"4xx", "redirect", "refused"} -> "terminal"
      [] OTHER -> "retryable"

\* "gone": deleted together with its subscription.
Statuses == {"absent", "pending", "in_flight", "delivered", "failed", "gone"}
Settled == {"delivered", "failed", "gone"}

TypeOK ==
    /\ created \in 0..MaxDeliveries
    /\ subscribed \subseteq Subscriptions
    /\ to \in [Deliveries -> Subscriptions \union {NoSubscription}]
    /\ tests \subseteq Deliveries
    /\ status \in [Deliveries -> Statuses]
    /\ attempts \in [Deliveries -> 0..MaxAttempts]
    /\ due \subseteq Deliveries
    /\ letters \in [Deliveries -> Nat]
    /\ resolved \subseteq Deliveries
    /\ stage \in [Workers -> {"idle", "picked", "posting"}]
    /\ batch \in [Workers -> SUBSET Deliveries]
    /\ outcome \in [Workers -> [Deliveries -> Outcomes \union {"none"}]]
    /\ request \in [Requests -> {"idle", "read", "passed"}]
    /\ letter \in [Requests -> Deliveries \union {NoLetter}]
    /\ seen \subseteq Stores \X Deliveries
    /\ sends \in [Deliveries -> Nat]
    /\ verdict \in [Deliveries -> Outcomes \union {"none"}]
    /\ lost \subseteq Deliveries
    /\ replays \in [Deliveries -> Nat]

NoOutcome == [d \in Deliveries |-> "none"]

Init ==
    /\ created = 0
    /\ subscribed = Subscriptions
    /\ to = [d \in Deliveries |-> NoSubscription]
    /\ tests = {} /\ due = {} /\ resolved = {} /\ lost = {} /\ seen = {}
    /\ status = [d \in Deliveries |-> "absent"]
    /\ attempts = [d \in Deliveries |-> 0]
    /\ letters = [d \in Deliveries |-> 0]
    /\ replays = [d \in Deliveries |-> 0]
    /\ sends = [d \in Deliveries |-> 0]
    /\ verdict = NoOutcome
    /\ stage = [w \in Workers |-> "idle"]
    /\ batch = [w \in Workers |-> {}]
    /\ outcome = [w \in Workers |-> NoOutcome]
    /\ request = [r \in Requests |-> "idle"]
    /\ letter = [r \in Requests |-> NoLetter]

-----------------------------------------------------------------------------
(* Rows come *)

\* Rows for the workers, in one transaction, each with an address of its own.
Inserts(addresses) ==
    LET new == (created + 1)..(created + Cardinality(addresses)) IN
    /\ new \subseteq Deliveries
    /\ created' = created + Cardinality(addresses)
    /\ \E address \in [new -> addresses] :
         /\ \A d1, d2 \in new : address[d1] = address[d2] => d1 = d2
         /\ to' = [d \in Deliveries |-> IF d \in new THEN address[d] ELSE to[d]]
    /\ status' = [d \in Deliveries |-> IF d \in new THEN "pending" ELSE status[d]]
    /\ due' = due \union new

\* enqueue_for_event: one row for each subscription that is active and wants
\* the event, which may be others the next time.
Enqueues ==
    /\ \E addresses \in SUBSET subscribed : addresses # {} /\ Inserts(addresses)
    /\ created' <= MaxEnqueued
    /\ UNCHANGED <<subscribed, tests, attempts, letterVars, workerVars, requestVars, clientVars, lost>>

\* deliver_test: nobody sees the row before its only attempt is over, and a
\* failure leaves no dead letter.
Tests(s) ==
    /\ s \in subscribed
    /\ created < MaxEnqueued /\ created < MaxDeliveries
    /\ created' = created + 1
    /\ tests' = tests \union {created'}
    /\ to' = [to EXCEPT ![created'] = s]
    /\ attempts' = [attempts EXCEPT ![created'] = 1]
    /\ due' = due \union {created'}
    /\ \E answer \in Answers :
         /\ verdict' = [verdict EXCEPT ![created'] = OutcomeOf(answer)]
         /\ status' = [status EXCEPT ![created'] =
                          IF OutcomeOf(answer) = "success" THEN "delivered" ELSE "failed"]
         /\ sends' = IF answer = "refused" THEN sends ELSE [sends EXCEPT ![created'] = 1]
    /\ UNCHANGED <<subscribed, letterVars, workerVars, requestVars, lost>>

\* The foreign keys cascade: the rows and the dead letters go with it.
DeletesSubscription(s) ==
    LET rows == {d \in Deliveries : to[d] = s} IN
    /\ s \in subscribed
    /\ subscribed' = subscribed \ {s}
    /\ status' = [d \in Deliveries |-> IF d \in rows THEN "gone" ELSE status[d]]
    /\ letters' = [d \in Deliveries |-> IF d \in rows THEN 0 ELSE letters[d]]
    /\ resolved' = resolved \ rows
    /\ UNCHANGED <<created, to, tests, attempts, due, workerVars, requestVars, clientVars, lost, replays>>

ComesDue(d) ==
    /\ status[d] = "pending" /\ d \notin due
    /\ due' = due \union {d}
    /\ UNCHANGED <<created, to, tests, status, attempts, subscribed, letterVars, workerVars,
                   requestVars, clientVars, lost>>

-----------------------------------------------------------------------------
(* The workers *)

Pickable_AlsoInFlight == {d \in due : status[d] \in {"pending", "in_flight"}}   \* mutant
Pickable_NeverAgain == {d \in due : status[d] = "pending" /\ attempts[d] = 0}    \* mutant
Pickable == {d \in due : status[d] = "pending"}

\* Steps 1 and 2 of dispatch_due: one transaction picks up to MaxParallel rows
\* and marks them.  They are the oldest of the due ones; here, any.
Picks(w) ==
    /\ stage[w] = "idle"
    /\ \E rows \in SUBSET Pickable :
         /\ rows # {}
         /\ \/ rows = Pickable /\ Cardinality(rows) <= MaxParallel
            \/ Cardinality(rows) = MaxParallel
         /\ batch' = [batch EXCEPT ![w] = rows]
         /\ status' = [d \in Deliveries |-> IF d \in rows THEN "in_flight" ELSE status[d]]
    /\ stage' = [stage EXCEPT ![w] = "picked"]
    /\ UNCHANGED <<created, to, tests, attempts, due, subscribed, letterVars, outcome,
                   requestVars, clientVars, lost>>

\* Reads the rows again with their subscriptions, in a transaction of its own.
Reloads(w) ==
    LET found == {d \in batch[w] : status[d] # "gone"} IN
    /\ stage[w] = "picked"
    /\ batch' = [batch EXCEPT ![w] = found]
    /\ stage' = [stage EXCEPT ![w] = IF found = {} THEN "idle" ELSE "posting"]
    /\ UNCHANGED <<rowVars, subscribed, letterVars, outcome, requestVars, clientVars, lost>>

Unanswered(w) == {d \in batch[w] : outcome[w][d] = "none"}

\* _post_one for one row of the batch; the others are posted meanwhile.
Posts(w, d) ==
    /\ stage[w] = "posting"
    /\ d \in Unanswered(w)
    /\ \E answer \in Answers :
         /\ outcome' = [outcome EXCEPT ![w][d] = OutcomeOf(answer)]
         /\ verdict' = [verdict EXCEPT ![d] = OutcomeOf(answer)]
         /\ sends' = IF answer = "refused" THEN sends ELSE [sends EXCEPT ![d] = @ + 1]
    /\ UNCHANGED <<rowVars, subscribed, letterVars, stage, batch, requestVars, lost>>

LastAttempt(d) == attempts[d] + 1 >= MaxAttempts

Fails_NotIfTerminal(o, d) == o = "retryable" /\ LastAttempt(d)      \* mutant
Fails(o, d) == o = "terminal" \/ (o = "retryable" /\ LastAttempt(d))

LeavesLetter(o, d) == Fails(o, d)

\* What _persist_outcome writes to a row that is still there.
Saves(d, o) ==
    /\ attempts' = [attempts EXCEPT ![d] = @ + 1]
    /\ status' = [status EXCEPT ![d] = IF o = "success" THEN "delivered"
                                       ELSE IF Fails(o, d) THEN "failed" ELSE "pending"]
    /\ letters' = IF LeavesLetter(o, d) THEN [letters EXCEPT ![d] = @ + 1] ELSE letters
    /\ due' = IF o # "success" /\ ~Fails(o, d) THEN due \ {d} ELSE due

Remaining(w, d) == batch[w] \ {d}
\* The worker is through with d, and with its batch if d was the last of it.
Drops(w, d) ==
    /\ batch' = [batch EXCEPT ![w] = Remaining(w, d)]
    /\ outcome' = [outcome EXCEPT ![w][d] = "none"]
    /\ stage' = [stage EXCEPT ![w] = IF Remaining(w, d) = {} THEN "idle" ELSE "posting"]

\* Step 4: the gather is over, every outcome of the batch is known.
Gathered(w) == \A d \in batch[w] : outcome[w][d] # "none"

Persists(w, d) ==
    /\ stage[w] = "posting" /\ Gathered(w)
    /\ d \in batch[w]
    /\ Drops(w, d)
    /\ IF status[d] = "gone" THEN UNCHANGED <<rowVars, letterVars>>
       ELSE Saves(d, outcome[w][d]) /\ UNCHANGED <<created, to, tests, resolved, replays>>
    /\ UNCHANGED <<subscribed, requestVars, clientVars, lost>>

StatusUnsaved_Pending(d) == [status EXCEPT ![d] = "pending"]    \* mutant: put back
StatusUnsaved(d) == status
\* The transaction of an outcome fails: it is logged, and the row stays as it is.
PersistFails(w, d) ==
    /\ stage[w] = "posting" /\ Gathered(w)
    /\ d \in batch[w]
    /\ Drops(w, d)
    /\ status' = StatusUnsaved(d)
    /\ lost' = lost \union {d}
    /\ UNCHANGED <<created, to, tests, attempts, due, subscribed, letterVars, requestVars, clientVars>>

\* The replica dies, or the second transaction of dispatch_due raises.
LosesBatch(w) ==
    /\ stage[w] # "idle"
    /\ stage' = [stage EXCEPT ![w] = "idle"]
    /\ batch' = [batch EXCEPT ![w] = {}]
    /\ outcome' = [outcome EXCEPT ![w] = NoOutcome]
    /\ lost' = lost \union batch[w]
    /\ UNCHANGED <<rowVars, subscribed, letterVars, requestVars, clientVars>>

-----------------------------------------------------------------------------
(* Replays *)

\* The endpoint reads the dead letter: a resolved one is refused with 409.
ReadsLetter(r, d) ==
    /\ request[r] = "idle"
    /\ letters[d] > 0 /\ d \notin resolved
    /\ request' = [request EXCEPT ![r] = "read"]
    /\ letter' = [letter EXCEPT ![r] = d]
    /\ UNCHANGED <<rowVars, subscribed, letterVars, workerVars, seen, clientVars, lost>>

Key(r) == <<StoreOf[r], letter[r]>>
LimiterAllows_Always(r) == TRUE     \* mutant
LimiterAllows(r) == Key(r) \notin seen

PassesLimiter(r) ==
    /\ request[r] = "read"
    /\ LimiterAllows(r)
    /\ seen' = seen \union {Key(r)}
    /\ request' = [request EXCEPT ![r] = "passed"]
    /\ UNCHANGED <<rowVars, subscribed, letterVars, workerVars, letter, clientVars, lost>>

\* The limiter refuses (for a letter seen within the minute, or for five
\* replays of the subscription within the hour, which leaves the letter seen),
\* the client leaves, or the transaction fails (the subscription is gone).
GivesUp(r) ==
    /\ request[r] # "idle"
    /\ request' = [request EXCEPT ![r] = "idle"]
    /\ letter' = [letter EXCEPT ![r] = NoLetter]
    /\ UNCHANGED <<rowVars, subscribed, letterVars, workerVars, seen, clientVars, lost>>

\* replay_dead_letter and the commit.
Replays(r) ==
    LET d == letter[r] IN
    /\ request[r] = "passed"
    /\ to[d] \in subscribed
    /\ Inserts({to[d]})
    /\ resolved' = resolved \union {d}
    /\ replays' = [replays EXCEPT ![d] = @ + 1]
    /\ request' = [request EXCEPT ![r] = "idle"]
    /\ letter' = [letter EXCEPT ![r] = NoLetter]
    /\ UNCHANGED <<subscribed, tests, attempts, letters, workerVars, seen, clientVars, lost>>

\* The minute of the limiter is over.  No request takes that long.
WindowEnds(key) ==
    /\ key \in seen
    /\ \A r \in Requests : letter[r] # key[2]
    /\ seen' = seen \ {key}
    /\ UNCHANGED <<rowVars, subscribed, letterVars, workerVars, request, letter, clientVars, lost>>

-----------------------------------------------------------------------------
Works(w) ==
    \/ Picks(w)
    \/ Reloads(w)
    \/ \E d \in Deliveries : Posts(w, d) \/ Persists(w, d)

Next ==
    \/ Enqueues
    \/ \E s \in Subscriptions : Tests(s) \/ DeletesSubscription(s)
    \/ \E d \in Deliveries : ComesDue(d)
    \/ \E w \in Workers : Works(w) \/ LosesBatch(w)
    \/ \E w \in Workers, d \in Deliveries : PersistFails(w, d)
    \/ \E r \in Requests, d \in Deliveries : ReadsLetter(r, d)
    \/ \E r \in Requests : PassesLimiter(r) \/ GivesUp(r) \/ Replays(r)
    \/ \E key \in Stores \X Deliveries : WindowEnds(key)

\* The scheduler of every replica ticks, a replica that died comes back, and a
\* post ends: by its answer or after the timeout of the HTTP client.
Fairness ==
    /\ \A d \in Deliveries : WF_vars(ComesDue(d))
    /\ \A w \in Workers : WF_vars(Works(w))

Spec == Init /\ [][Next]_vars /\ Fairness

-----------------------------------------------------------------------------
(* Safety *)

\* No row is in the hands of two workers, so no client gets one delivery from
\* two replicas at once, whatever is picked, saved, lost and deleted meanwhile.
OneWorkerEach ==
    \A w1, w2 \in Workers : w1 # w2 => batch[w1] \intersect batch[w2] = {}

\* A row says in_flight only while a worker has it or after one lost it: a
\* worker that finishes a row always takes it out of flight, and one that is
\* in somebody's hands is pending to nobody else.
InFlightExplained ==
    \A d \in Deliveries :
        /\ status[d] = "in_flight" => d \in lost \/ \E w \in Workers : d \in batch[w]
        /\ (\E w \in Workers : d \in batch[w]) => status[d] \in {"in_flight", "gone"}

\* The requests that are sent to a client for one delivery are counted: one for each
\* attempt that was saved and at most one more, of the attempt in flight (or
\* lost in flight).  So they never exceed MaxAttempts.
SendsCounted ==
    \A d \in Deliveries :
        /\ sends[d] <= attempts[d] + (IF status[d] \in {"in_flight", "gone"} THEN 1 ELSE 0)
        /\ sends[d] <= MaxAttempts

\* A delivery in flight has one worker, and one request more than was saved.
InFlightExact == TypeOK /\ OneWorkerEach /\ InFlightExplained /\ SendsCounted

\* The status agrees with what came of the attempts: delivered after a complete
\* 2xx and nothing else, failed after a terminal outcome or when the attempts are
\* used up, pending while there are attempts left and nothing settles the matter.
StatusTellsVerdict ==
    \A d \in Deliveries \ tests :
        /\ status[d] = "delivered" => verdict[d] = "success"
        /\ status[d] = "failed" =>
             verdict[d] = "terminal" \/ (verdict[d] = "retryable" /\ attempts[d] = MaxAttempts)
        /\ status[d] = "pending" =>
             verdict[d] \in {"none", "retryable"} /\ attempts[d] < MaxAttempts

\* Exactly the failed deliveries (but those of the test button) have a dead
\* letter, and each has one.
DeadLettersExact ==
    \A d \in Deliveries :
        letters[d] = IF status[d] = "failed" /\ d \notin tests THEN 1 ELSE 0

\* Status, dead letter and outcomes of a delivery tell the same story.
OutcomesExact == StatusTellsVerdict /\ DeadLettersExact

\* One dead letter is replayed at most once: the check of resolved_at and the
\* commit are apart, and it is the limiter that keeps two requests from
\* passing between them.  It takes one memory for all requests (StoreOf) and
\* requests shorter than its window.
ReplayedOnce ==
    \A d \in Deliveries : replays[d] <= 1 /\ (d \in resolved => replays[d] = 1)

\* Once the service has taken an attempt for a success or for a terminal failure
\* (a complete 2xx or 4xx, one of the five redirects, a refused address), it never
\* sends the delivery again, not even when that outcome could not be saved.  It
\* says nothing of a client whose answer came late or was another 3xx: such a
\* client may have taken the delivery and gets it again.
NothingAfterVerdict ==
    [][\A d \in Deliveries : sends'[d] > sends[d] => verdict[d] \in {"none", "retryable"}]_vars

-----------------------------------------------------------------------------
(* Liveness *)

\* Every delivery is settled in the end unless a worker loses it.  Nothing
\* takes a lost one out of flight: the row says in_flight for ever.  (A row
\* that is there stays, and a settled one is never pending again, so what holds
\* again and again holds from some time on.)
Settles ==
    \A d \in Deliveries : []<>(status[d] \in Settled \union {"absent"} \/ d \in lost)
=============================================================================
