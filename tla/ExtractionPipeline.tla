------------------------- MODULE ExtractionPipeline -------------------------
(***************************************************************************)
(* extract_sql_partitioned_to_duckdb of app/services/extraction_service.py *)
(* composed with its BoundedChunkQueue: one producer thread per partition  *)
(* of the key range, one consumer thread that writes the table, and the    *)
(* calling thread (Main) that collects the producers' futures, sends the   *)
(* closing EOFs, waits 30 s for the consumer and cleans up.                *)
(*                                                                         *)
(* The key takes every value from lo to hi, one row each.  The n-th batch  *)
(* of partition p holds the next BatchRows rows of its range: which rows   *)
(* they are does not matter, only that batch <<p, n>> is written once and  *)
(* in order.  An extraction has at most N partitions; it has one when the  *)
(* key cannot be divided.                                                  *)
(***************************************************************************)
EXTENDS PartitionRanges, Sequences, FiniteSets

CONSTANTS
    N,              \* max_workers: the most partitions an extraction may have
    BatchRows,      \* rows of a batch (chunk_size)
    Unlimited,      \* no max_rows
    Setups,         \* how the extraction may be called
    MaxSize,
    MaxPuts,        \* bound of the model: more than the threads ever put
    MaxFaults,      \* bound of the model: errors of the source, errors of a disk and
                    \* requests to cancel, all counted, in one behaviour
    Queue, Exec, Consumer, Main

Parts == 1..N

ASSUME PartsAssumption == N \in Nat \ {0}
ASSUME RowsAssumption == BatchRows \in Nat \ {0}
ASSUME SizeAssumption == MaxSize \in Nat \ {0} /\ MaxFaults \in Nat
ASSUME UnlimitedAssumption == Unlimited \notin Nat
\* parts is len(partitions), and cut the ends of their ranges: cut[0] and
\* cut[parts] are the MIN and MAX of the key.
\* cancel is "never" if nobody cancels the execution, "wired" if somebody may
\* and the caller passed its cancel_event, "unwired" if somebody may and the
\* caller passed none, as the sql_database processor, the only caller, does.
ASSUME SetupsAssumption ==
    \A s \in Setups :
        /\ s.parts \in Parts /\ s.cut \in Cuts(s.parts)
        /\ s.spill \in BOOLEAN
        /\ s.maxRows \in Nat \union {Unlimited}
        /\ s.cancel \in {"never", "wired", "unwired"}

VARIABLES
    setup,          \* the arguments of this extraction
    inmem, spill, spilled, closed, disk, doomed, thread, accepted, got, intact,
    payload,        \* what the tickets not handled yet carry: ticket number -> content
    pc,             \* where each producer is
    fetched,        \* batches each producer has fetched
    failure,        \* what each producer's future raises, or "none"
    late,           \* history: batches a producer fetched after the request to cancel
    consumer,       \* "get", "handle", "done" or "dead"
    eofs,           \* eofs_received
    table,          \* the batches in the JSONL, each with its number of rows
    written,        \* counters["written"]
    open,           \* the streamer is open
    cancelEvent, maxReached,
    requested,      \* "no", "yes" once the user cancelled the execution, "swept"
                    \* once the runner, at its end, has listed the spill files
    main,           \* where Main is
    collected,      \* futures Main has collected, then EOFs it has sent
    errors,         \* producer_errors
    expired,        \* history: consumer_done.wait(30) expired
    faults,         \* how many of those have happened
    outcome         \* "none", "returned", "raised" or "cancelled"

queueVars == <<inmem, spill, spilled, closed, disk, doomed, thread, accepted, got, intact>>
producerVars == <<pc, fetched, failure, late>>
consumerVars == <<consumer, eofs, table, written, maxReached>>
mainVars == <<main, collected, errors, expired, outcome, open>>
vars == <<setup, queueVars, payload, producerVars, consumerVars, mainVars, cancelEvent, requested, faults>>

Threads == Parts \union {Consumer, Main}

Q == INSTANCE ChunkQueue WITH
        Queues <- {Queue}, Execs <- {Exec}, ExecOf <- [q \in {Queue} |-> Exec],
        spillOn <- [q \in {Queue} |-> setup.spill]

MaxRows == setup.maxRows
Active == 1..setup.parts        \* the partitions of this extraction
Keys == setup.cut[0]..setup.cut[setup.parts]
KeysOf(p) == {v \in Keys : p \in Active /\ InRange(setup.cut, setup.parts, p, v)}
Batches(p) == (Cardinality(KeysOf(p)) + BatchRows - 1) \div BatchRows
RowsOf(p, n) ==
    IF n < Batches(p) THEN BatchRows ELSE Cardinality(KeysOf(p)) - BatchRows * (n - 1)

Eof == <<0, 0>>

TypeOK ==
    /\ setup \in Setups
    /\ Q!QueueTypeOK
    /\ \A n \in DOMAIN payload : payload[n] \in (Parts \X Nat) \union {Eof}
    /\ pc \in [Parts -> {"check", "fetch", "put", "eof", "done"}]
    /\ fetched \in [Parts -> Nat] /\ late \in [Parts -> Nat]
    /\ failure \in [Parts -> {"none", "source", "disk"}]
    /\ consumer \in {"get", "handle", "done", "dead"}
    /\ eofs \in 0..N
    /\ table \in Seq([part : Parts, n : Nat, rows : 1..BatchRows]) /\ written \in Nat
    /\ main \in {"collect", "eofs", "join", "unlink", "over"}
    /\ collected \in 0..(N - 1)
    /\ errors \subseteq {"source", "disk"}
    /\ outcome \in {"none", "returned", "raised", "cancelled"}
    /\ requested \in {"no", "yes", "swept"}
    /\ {cancelEvent, maxReached, expired, open} \subseteq BOOLEAN
    /\ faults \in 0..MaxFaults

Init ==
    /\ setup \in Setups
    /\ Q!QueueInit
    /\ payload = << >>
    /\ pc = [p \in Parts |-> IF p \in Active THEN "check" ELSE "done"]
    /\ fetched = [p \in Parts |-> 0]
    /\ failure = [p \in Parts |-> "none"]
    /\ late = [p \in Parts |-> 0]
    /\ consumer = "get" /\ eofs = 0 /\ table = <<>> /\ written = 0 /\ maxReached = FALSE
    /\ cancelEvent = FALSE /\ requested = "no"
    /\ main = "collect" /\ collected = 0 /\ errors = {} /\ expired = FALSE
    /\ outcome = "none" /\ open = TRUE
    /\ faults = 0

-----------------------------------------------------------------------------
(* The queue as its callers see it *)

Accepts(t, x) ==
    /\ \/ Q!PutInRam(t, Queue)
       \/ Q!PutOnDisk(t, Queue)
       \/ Q!PutResumes(t, Queue)
    /\ payload' = [n \in DOMAIN payload \union {accepted'[Queue]} |->
                     IF n = accepted'[Queue] THEN x ELSE payload[n]]

Blocks(t, timed) ==
    /\ Q!PutSleeps(t, Queue, timed) \/ Q!PutSleepsAgain(t, Queue)
    /\ UNCHANGED payload

Fault == faults < MaxFaults /\ faults' = faults + 1
DiskError(t) == Fault /\ Q!PutDiskError(t, Queue) /\ UNCHANGED payload
TimesOut(t) == Q!PutTimesOut(t, Queue) /\ UNCHANGED payload

-----------------------------------------------------------------------------
(* A producer: _producer_partition *)

Moves(p, to) == pc' = [pc EXCEPT ![p] = to]
Fails(p, why) == failure' = [failure EXCEPT ![p] = why]

Checks_Never(p) ==      \* mutant: the flag is not looked at
    /\ pc[p] = "check"
    /\ Moves(p, "fetch") /\ UNCHANGED failure
    /\ UNCHANGED <<queueVars, payload, fetched, late, consumerVars, mainVars, cancelEvent, requested, faults>>

\* The flag is looked at before each batch; before the first one the producer
\* has connected and executed the query, which may raise.
Checks(p) ==
    /\ pc[p] = "check"
    /\ \/ Moves(p, IF cancelEvent THEN "eof" ELSE "fetch") /\ UNCHANGED <<failure, faults>>
       \/ fetched[p] = 0 /\ Fault /\ Moves(p, "eof") /\ Fails(p, "source")
    /\ UNCHANGED <<queueVars, payload, fetched, late, consumerVars, mainVars, cancelEvent, requested>>

\* fetchmany: a batch, the end of the partition, or an error of the driver.
Fetches(p) ==
    /\ pc[p] = "fetch"
    /\ \/ /\ fetched[p] < Batches(p)
          /\ fetched' = [fetched EXCEPT ![p] = @ + 1]
          /\ late' = [late EXCEPT ![p] = IF requested # "no" THEN @ + 1 ELSE @]
          /\ Moves(p, "put")
          /\ UNCHANGED <<failure, faults>>
       \/ /\ fetched[p] = Batches(p)
          /\ Moves(p, "eof")
          /\ UNCHANGED <<fetched, late, failure, faults>>
       \/ /\ Fault
          /\ Moves(p, "eof")
          /\ Fails(p, "source")
          /\ UNCHANGED <<fetched, late>>
    /\ UNCHANGED <<queueVars, payload, consumerVars, mainVars, cancelEvent, requested>>

\* put_sync(batch, timeout=1.0), retried until it is taken or cancelled.
Puts(p) ==
    /\ pc[p] = "put"
    /\ \/ Accepts(p, <<p, fetched[p]>>) /\ Moves(p, "check") /\ UNCHANGED <<failure, faults>>
       \/ Blocks(p, TRUE) /\ UNCHANGED <<pc, failure, faults>>
       \/ TimesOut(p) /\ Moves(p, IF cancelEvent THEN "eof" ELSE "put") /\ UNCHANGED <<failure, faults>>
       \/ DiskError(p) /\ Moves(p, "eof") /\ Fails(p, "disk")
    /\ UNCHANGED <<fetched, late, consumerVars, mainVars, cancelEvent, requested>>

\* The finally: put_eof_sync without a timeout.
EndsStream(p) ==
    /\ pc[p] = "eof"
    /\ \/ Accepts(p, Eof) /\ Moves(p, "done") /\ UNCHANGED <<failure, faults>>
       \/ Blocks(p, FALSE) /\ UNCHANGED <<pc, failure, faults>>
       \/ DiskError(p) /\ Moves(p, "done") /\ Fails(p, "disk")
    /\ UNCHANGED <<fetched, late, consumerVars, mainVars, cancelEvent, requested>>

ProducerStep(p) == Checks(p) \/ Fetches(p) \/ Puts(p) \/ EndsStream(p)

-----------------------------------------------------------------------------
(* The consumer: _consumer *)

\* get_sync without a timeout; an exception of the read ends the thread.
Receives ==
    /\ consumer = "get"
    /\ \/ Q!Get(Consumer, Queue) /\ consumer' = "handle"
       \/ Q!GetReadError(Consumer, Queue) /\ consumer' = "dead"
       \/ (Q!GetSleeps(Consumer, Queue, FALSE) \/ Q!GetSleepsAgain(Consumer, Queue))
            /\ UNCHANGED consumer
    /\ UNCHANGED <<payload, producerVars, eofs, table, written, maxReached, mainVars, cancelEvent, requested, faults>>

Ticket == got[Queue][Len(got[Queue])][2]
Item == payload[Ticket]
Handled == payload' = [n \in DOMAIN payload \ {Ticket} |-> payload[n]]
Remaining == IF MaxRows = Unlimited THEN BatchRows     \* enough for any batch
             ELSE IF MaxRows > written THEN MaxRows - written ELSE 0

EnoughEofs == eofs + 1 = setup.parts

CountsEof ==
    /\ consumer = "handle" /\ Item = Eof
    /\ eofs' = eofs + 1
    /\ consumer' = IF EnoughEofs THEN "done" ELSE "get"
    /\ Handled
    /\ UNCHANGED <<queueVars, producerVars, table, written, maxReached, mainVars, cancelEvent, requested, faults>>

\* After a cancellation the queue is drained without writing.
Drains ==
    /\ consumer = "handle" /\ Item # Eof /\ cancelEvent
    /\ consumer' = "get"
    /\ Handled
    /\ UNCHANGED <<queueVars, producerVars, eofs, table, written, maxReached, mainVars, cancelEvent, requested, faults>>

ReachesLimit ==
    /\ consumer = "handle" /\ Item # Eof /\ ~cancelEvent
    /\ Remaining = 0
    /\ maxReached' = TRUE /\ cancelEvent' = TRUE
    /\ consumer' = "get"
    /\ Handled
    /\ UNCHANGED <<queueVars, producerVars, eofs, table, written, mainVars, requested, faults>>

\* item[:remaining], then write_batch; it raises when the disk is full or
\* when Main has already closed the streamer.
RowsToWrite == LET rows == RowsOf(Item[1], Item[2]) IN
               IF Remaining < rows THEN Remaining ELSE rows

Writes ==
    /\ consumer = "handle" /\ Item # Eof /\ ~cancelEvent
    /\ Remaining > 0
    /\ \/ /\ open
          /\ table' = Append(table, [part |-> Item[1], n |-> Item[2], rows |-> RowsToWrite])
          /\ written' = written + RowsToWrite
          /\ consumer' = "get"
          /\ UNCHANGED faults
       \/ /\ IF open THEN Fault ELSE UNCHANGED faults
          /\ consumer' = "dead"
          /\ UNCHANGED <<table, written>>
    /\ Handled
    /\ UNCHANGED <<queueVars, producerVars, eofs, maxReached, mainVars, cancelEvent, requested>>

ConsumerStep == Receives \/ CountsEof \/ Drains \/ ReachesLimit \/ Writes

-----------------------------------------------------------------------------
(* Main *)

\* fut.result() of each future, in the order of the partitions.
CollectedOne == collected' = IF collected + 1 = setup.parts THEN 0 ELSE collected + 1
NextPhase(next) == main' = IF collected + 1 = setup.parts THEN next ELSE main

Collects ==
    /\ main = "collect"
    /\ pc[collected + 1] = "done"
    /\ CollectedOne /\ NextPhase("eofs")
    /\ LET why == failure[collected + 1] IN
         IF why = "none" THEN UNCHANGED <<errors, cancelEvent>>
         ELSE errors' = errors \union {why} /\ cancelEvent' = TRUE
    /\ UNCHANGED <<queueVars, payload, producerVars, consumerVars, expired, outcome, open, requested, faults>>

\* The finally: one more EOF per partition, without a timeout, although the
\* consumer takes none of them once it has had its parts.  An OSError here
\* leaves the finally, and nothing after it runs.
SendsEof ==
    /\ main = "eofs"
    /\ \/ Accepts(Main, Eof) /\ CollectedOne /\ NextPhase("join") /\ UNCHANGED <<outcome, open, faults>>
       \/ Blocks(Main, FALSE) /\ UNCHANGED <<main, collected, outcome, open, faults>>
       \/ DiskError(Main) /\ main' = "over" /\ outcome' = "raised" /\ open' = FALSE
            /\ UNCHANGED collected
    /\ UNCHANGED <<producerVars, consumerVars, errors, expired, cancelEvent, requested>>

WaitEnds_WhenDone == consumer = "done"      \* mutant: the wait has no timeout
WaitEnds == TRUE
WaitExpired == consumer # "done"

\* consumer_done.wait(timeout=30.0), then cleanup(): nobody looks at which of
\* the two ended the wait.
Joins ==
    /\ main = "join"
    /\ WaitEnds
    /\ expired' = WaitExpired
    /\ Q!Cleanup(Queue)
    /\ main' = "unlink"
    /\ UNCHANGED <<payload, producerVars, consumerVars, collected, errors, outcome, open,
                   cancelEvent, requested, faults>>

Unlinks ==
    /\ main = "unlink"
    /\ \E f \in doomed : Q!UnlinkDoomed(f)
    /\ UNCHANGED <<payload, producerVars, consumerVars, mainVars, cancelEvent, requested, faults>>

\* The outcome; leaving the with block closes the streamer and builds the table.
Verdict ==
    IF errors # {} THEN "raised"
    ELSE IF cancelEvent /\ ~maxReached THEN "cancelled" ELSE "returned"

Concludes ==
    /\ main = "unlink" /\ doomed = {}
    /\ main' = "over"
    /\ outcome' = Verdict
    /\ open' = FALSE
    /\ UNCHANGED <<queueVars, payload, producerVars, consumerVars, collected, errors, expired,
                   cancelEvent, requested, faults>>

MainStep == Collects \/ SendsEof \/ Joins \/ Unlinks \/ Concludes

-----------------------------------------------------------------------------
(* The execution around the extraction: it may be cancelled at any time; the *)
(* thread goes on, and the runner sweeps the spill files of the execution.   *)

CancelsExecution ==
    /\ setup.cancel # "never"
    /\ requested = "no" /\ outcome = "none"
    /\ Fault
    /\ requested' = "yes"
    /\ cancelEvent' = (cancelEvent \/ setup.cancel = "wired")
    /\ UNCHANGED <<queueVars, payload, producerVars, consumerVars, mainVars>>

RunnerSweeps ==
    /\ \/ requested = "yes" /\ Q!Sweep(Exec) /\ requested' = "swept"
       \/ requested = "swept" /\ (\E f \in doomed : Q!UnlinkDoomed(f)) /\ UNCHANGED requested
    /\ UNCHANGED <<payload, producerVars, consumerVars, mainVars, cancelEvent, faults>>

Next ==
    /\ \/ \E p \in Parts : ProducerStep(p)
       \/ ConsumerStep
       \/ MainStep
       \/ CancelsExecution
       \/ RunnerSweeps
    /\ UNCHANGED setup

\* The threads are scheduled by the operating system and their timeouts
\* expire; no fairness for the user, the faults or the sweep.
Fairness ==
    /\ \A p \in Parts : WF_vars(ProducerStep(p) /\ UNCHANGED setup)
    /\ WF_vars(ConsumerStep /\ UNCHANGED setup)
    /\ WF_vars(MainStep /\ UNCHANGED setup)

Spec == Init /\ [][Next]_vars /\ Fairness

-----------------------------------------------------------------------------
(* Safety *)

Rows == UNION {{i} \X (1..table[i].rows) : i \in DOMAIN table}     \* of the JSONL

Behind(i) == {table[j].n : j \in {k \in 1..(i - 1) : table[k].part = table[i].part}}

\* The rows of a partition reach the table once each and in the order of the
\* cursor: behind the n-th batch are those with lower numbers, and no other --
\* whatever the threads do, however many go through the disk, and even if the
\* runner sweeps the files of a cancelled execution under them.
InPartitionOrder == \A i \in DOMAIN table : Behind(i) = 1..(table[i].n - 1)

\* max_rows is a ceiling, and an extraction that stopped because of it
\* returns exactly that many rows.
LimitRespected ==
    MaxRows # Unlimited =>
        /\ Cardinality(Rows) <= MaxRows
        /\ maxReached => Cardinality(Rows) = MaxRows

\* What a complete result is: a row for every key of the interval, or as many
\* as were asked for.
Complete == Cardinality(Rows) \in {Cardinality(Keys), MaxRows}

\* An extraction that returns without having hit max_rows returns every row of
\* the interval, whatever its ranges -- provided the consumer thread survived
\* and finished within the 30 seconds that Main grants it.
CompleteUnlessConsumerLost ==
    (outcome = "returned" /\ ~maxReached /\ ~expired) => Complete

\* A producer that failed never ends in a result: the caller sees an error.
ErrorsSurface ==
    (\E p \in Parts : failure[p] # "none") => outcome \in {"none", "raised"}

\* What the table holds is what the sources gave, and what the caller is told is
\* what happened to the producers and to the table.
OutcomeTruthful ==
    TypeOK /\ InPartitionOrder /\ LimitRespected /\ ErrorsSurface /\ CompleteUnlessConsumerLost

\* Cooperative cancellation: when the caller passed its cancel_event, a producer
\* reads at most the batch it had already decided to read after the execution
\* is cancelled ("Producers fecham seus cursores no proximo chunk").
CancelStopsProducers == setup.cancel = "wired" => \A p \in Parts : late[p] <= 1

-----------------------------------------------------------------------------
(* Liveness *)

\* Whatever the producers meet, the extraction ends.  Without spilling it may
\* not, for two reasons: a consumer that died leaves a queue that nobody reads
\* to the producers and to the closing EOFs, and more partitions than the queue
\* has slots leave no room for those EOFs (ClosingNeverBlocks).
Ends == <>(outcome # "none" \/ (~setup.spill /\ (consumer = "dead" \/ setup.parts > MaxSize)))

\* "put_eof_sync usa o spill quando a queue esta cheia, entao nunca bloqueia
\* indefinidamente aqui": Main always gets past the closing EOFs.
ClosingNeverBlocks == (main = "eofs") ~> (main # "eofs")
=============================================================================
