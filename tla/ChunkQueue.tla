----------------------------- MODULE ChunkQueue -----------------------------
(***************************************************************************)
(* The BoundedChunkQueue of app/services/streaming/bounded_chunk_queue.py: *)
(* at most MaxSize chunks in RAM; with spilling on, a put that finds the   *)
(* RAM full writes its chunk to a file and queues a pointer to it, and a   *)
(* get refills the RAM from the oldest pointer; with spilling off, a put   *)
(* that finds the RAM full waits.  Several queues share one spill          *)
(* directory, and the name of a file is made of the EXECUTION the queue    *)
(* works for and of a counter of the queue.                                *)
(*                                                                         *)
(* Every method runs under the queue's lock, which only the wait_for of    *)
(* put_sync and get_sync releases: one action is one critical section.     *)
(* A chunk is its ticket, <<q, n>> for the n-th chunk that queue q         *)
(* accepted, so what a reader receives tells which chunk it was.           *)
(***************************************************************************)
EXTENDS Naturals, Sequences, FiniteSets

CONSTANTS
    Queues,     \* the queues alive at the same time
    Threads,    \* the threads that call them
    Execs,      \* execution ids
    ExecOf,     \* the execution_id each queue was built with
    MaxSize,    \* settings.STREAMING_MAX_IN_MEMORY_CHUNKS
    MaxPuts     \* bound of the model: a queue that accepted this many chunks
                \* starts no further put

ASSUME MaxSizeAssumption == MaxSize \in Nat \ {0}
ASSUME ThreadsAssumption == IsFiniteSet(Threads)
ASSUME ExecOfAssumption == ExecOf \in [Queues -> Execs]

VARIABLES
    spillOn,    \* STREAMING_SPILL_WHEN_EXCEEDED when the queue was built
    inmem,      \* _inmem: the chunks in RAM, oldest first
    spill,      \* _spill: the file numbers of the spilled chunks, oldest first
    spilled,    \* _spilled_total: chunks ever spilled; numbers the next file
    closed,     \* _closed
    disk,       \* the files of the spill directory: file -> what it holds
    doomed,     \* files a cleanup has listed and not unlinked yet
    thread,     \* what each thread is doing in the queue
    accepted,   \* history: how many chunks each queue accepted
    got,        \* history: the chunks each queue delivered
    intact      \* history: FALSE once the queue lost a chunk, because a read of
                \* a file failed or a cleanup discarded a pointer

queueVars == <<spillOn, inmem, spill, spilled, closed, disk, doomed, thread, accepted, got, intact>>

-----------------------------------------------------------------------------
Tickets == Queues \X Nat
Files == Execs \X Nat
Torn == <<"torn">>      \* what a write that failed half-way leaves in a file

NotInside == [op |-> "idle"]
Waiting(op, q, timed) == [op |-> op, queue |-> q, timed |-> timed, woken |-> FALSE]
Waits == [op : {"put", "get"}, queue : Queues, timed : BOOLEAN, woken : BOOLEAN]

QueueTypeOK ==
    /\ spillOn \in [Queues -> BOOLEAN]
    /\ inmem \in [Queues -> Seq(Tickets)]
    /\ spill \in [Queues -> Seq(Nat)]
    /\ spilled \in [Queues -> Nat]
    /\ closed \in [Queues -> BOOLEAN]
    /\ DOMAIN disk \subseteq Files
    /\ \A f \in DOMAIN disk : disk[f] \in Tickets \union {Torn}
    /\ doomed \subseteq Files
    /\ thread \in [Threads -> Waits \union {NotInside}]
    /\ accepted \in [Queues -> Nat]
    /\ got \in [Queues -> Seq(Tickets)]
    /\ intact \in [Queues -> BOOLEAN]

QueueInit ==
    /\ spillOn \in [Queues -> BOOLEAN]
    /\ inmem = [q \in Queues |-> <<>>]
    /\ spill = [q \in Queues |-> <<>>]
    /\ spilled = [q \in Queues |-> 0]
    /\ closed = [q \in Queues |-> FALSE]
    /\ disk = << >>
    /\ doomed = {}
    /\ thread = [t \in Threads |-> NotInside]
    /\ accepted = [q \in Queues |-> 0]
    /\ got = [q \in Queues |-> <<>>]
    /\ intact = [q \in Queues |-> TRUE]

-----------------------------------------------------------------------------
(* The two condition variables of a queue: not_full for the threads that   *)
(* wait in put_sync, not_empty for those in get_sync.                      *)

Sleepers(op, q) ==
    {t \in Threads : thread[t] \in Waits /\ thread[t].op = op
                       /\ thread[t].queue = q /\ ~thread[t].woken}
Woken(op, q) ==
    {t \in Threads : thread[t] \in Waits /\ thread[t].op = op
                       /\ thread[t].queue = q /\ thread[t].woken}

Notify_Nobody(op, q, th) == thread' = th    \* mutant: the notify is missing

\* notify(): one sleeper, if there is one, is woken; th is the state of the
\* threads after the caller's own step.
Notify(op, q, th) ==
    \/ /\ Sleepers(op, q) = {}
       /\ thread' = th
    \/ \E s \in Sleepers(op, q) : thread' = [th EXCEPT ![s].woken = TRUE]

HasRoom(q) == Len(inmem[q]) < MaxSize
HasChunk(q) == inmem[q] # <<>> \/ spill[q] # <<>>
NextTicket(q) == <<q, accepted[q] + 1>>
File(q, idx) == <<ExecOf[q], idx>>

Write(f, content) ==
    disk' = [g \in DOMAIN disk \union {f} |-> IF g = f THEN content ELSE disk[g]]
Unlink(fs) == disk' = [g \in DOMAIN disk \ fs |-> disk[g]]

-----------------------------------------------------------------------------
(* put_sync *)

AppendToRam(t, q) ==
    /\ inmem' = [inmem EXCEPT ![q] = Append(@, NextTicket(q))]
    /\ accepted' = [accepted EXCEPT ![q] = @ + 1]
    /\ Notify("get", q, [thread EXCEPT ![t] = NotInside])
    /\ UNCHANGED <<spill, spilled, closed, disk, doomed, got, intact>>

MayPut(t, q) == thread[t] = NotInside /\ ~closed[q] /\ accepted[q] < MaxPuts

PutInRam(t, q) ==
    /\ MayPut(t, q)
    /\ HasRoom(q)
    /\ AppendToRam(t, q)

\* _spill_chunk_locked: the file is written, then the pointer is queued.
PutOnDisk(t, q) ==
    /\ MayPut(t, q)
    /\ ~HasRoom(q)
    /\ spillOn[q]
    /\ Write(File(q, spilled[q]), NextTicket(q))
    /\ spill' = [spill EXCEPT ![q] = Append(@, spilled[q])]
    /\ spilled' = [spilled EXCEPT ![q] = @ + 1]
    /\ accepted' = [accepted EXCEPT ![q] = @ + 1]
    /\ Notify("get", q, thread)
    /\ UNCHANGED <<inmem, closed, doomed, got, intact>>

\* The OSError of a full disk: the chunk is refused by the exception, and the
\* file may be left truncated under the name the next attempt will use.
PutDiskError(t, q) ==
    /\ MayPut(t, q)
    /\ ~HasRoom(q)
    /\ spillOn[q]
    /\ Write(File(q, spilled[q]), Torn)
    /\ UNCHANGED <<inmem, spill, spilled, closed, doomed, thread, accepted, got, intact>>

PutSleeps(t, q, timed) ==
    /\ MayPut(t, q)
    /\ ~HasRoom(q)
    /\ ~spillOn[q]
    /\ thread' = [thread EXCEPT ![t] = Waiting("put", q, timed)]
    /\ UNCHANGED <<inmem, spill, spilled, closed, disk, doomed, accepted, got, intact>>

\* A thread inside wait_for looks at its predicate again when it is woken and
\* when its timeout expires.
Looks(t, op, q) ==
    /\ thread[t] \in Waits
    /\ thread[t].op = op /\ thread[t].queue = q
    /\ thread[t].woken \/ thread[t].timed

Returns(t) ==
    /\ thread' = [thread EXCEPT ![t] = NotInside]
    /\ UNCHANGED <<inmem, spill, spilled, closed, disk, doomed, accepted, got, intact>>

SleepsAgain(t) ==
    /\ thread[t].woken
    /\ thread' = [thread EXCEPT ![t].woken = FALSE]
    /\ UNCHANGED <<inmem, spill, spilled, closed, disk, doomed, accepted, got, intact>>

PutResumes(t, q) ==
    /\ Looks(t, "put", q)
    /\ ~closed[q]
    /\ HasRoom(q)
    /\ AppendToRam(t, q)

PutFindsClosed(t, q) == Looks(t, "put", q) /\ closed[q] /\ Returns(t)

PutSleepsAgain(t, q) == Looks(t, "put", q) /\ ~closed[q] /\ ~HasRoom(q) /\ SleepsAgain(t)

PutTimesOut(t, q) ==
    /\ Looks(t, "put", q)
    /\ thread[t].timed
    /\ ~closed[q] /\ ~HasRoom(q)
    /\ Returns(t)

-----------------------------------------------------------------------------
(* get_sync *)

\* How many spill files the get loads: one to return when the RAM is empty,
\* then as many as fit.
Lesser(a, b) == IF a < b THEN a ELSE b
Loads_NoRefill(q) == IF inmem[q] = <<>> THEN 1 ELSE 0     \* mutant: the refill is missing
Loads(q) ==
    LET first == IF inmem[q] = <<>> THEN 1 ELSE 0
        left  == Len(inmem[q]) + first - 1
    IN first + Lesser(Len(spill[q]) - first, MaxSize - left)

SpillFile(q, i) == File(q, spill[q][i])
Readable(q, i) == SpillFile(q, i) \in DOMAIN disk /\ disk[SpillFile(q, i)] # Torn

\* The chunks at hand once k files are loaded, and those left in RAM after the
\* first of them is taken.
AtHand(q, k) ==
    [i \in 1..(Len(inmem[q]) + k) |->
        IF i <= Len(inmem[q]) THEN inmem[q][i] ELSE disk[SpillFile(q, i - Len(inmem[q]))]]
LeftInRam(q, k) == [i \in 1..(Len(inmem[q]) + k - 1) |-> AtHand(q, k)[i + 1]]

DropPointers_OneMore(q, k) ==    \* mutant: one pointer too many
    /\ spill' = [spill EXCEPT ![q] = SubSeq(@, k + 2, Len(@))]
    /\ Unlink({SpillFile(q, i) : i \in 1..k})
DropPointers_KeepFiles(q, k) ==  \* mutant: the unlink is missing
    /\ spill' = [spill EXCEPT ![q] = SubSeq(@, k + 1, Len(@))]
    /\ UNCHANGED disk

\* k pointers leave the list and their files are unlinked (the finally of
\* _load_spill_locked unlinks the file of a failed read too).
DropPointers(q, k) ==
    /\ spill' = [spill EXCEPT ![q] = SubSeq(@, k + 1, Len(@))]
    /\ Unlink({SpillFile(q, i) : i \in 1..k})

Takes(t, q) ==
    /\ HasChunk(q)
    /\ \A i \in 1..Loads(q) : Readable(q, i)
    /\ got' = [got EXCEPT ![q] = Append(@, AtHand(q, Loads(q))[1])]
    /\ inmem' = [inmem EXCEPT ![q] = LeftInRam(q, Loads(q))]
    /\ DropPointers(q, Loads(q))
    /\ Notify("put", q, [thread EXCEPT ![t] = NotInside])
    /\ UNCHANGED <<spilled, closed, doomed, accepted, intact>>

\* The i-th load raises: the chunk already popped for the caller is lost, the
\* chunks loaded before stay in RAM, nobody is notified.
ReadFails(t, q) ==
    /\ HasChunk(q)
    /\ \E k \in 1..Loads(q) :
        /\ ~Readable(q, k)
        /\ \A i \in 1..(k - 1) : Readable(q, i)
        /\ inmem' = [inmem EXCEPT ![q] = LeftInRam(q, k - 1)]
        /\ DropPointers(q, k)
    /\ intact' = [intact EXCEPT ![q] = FALSE]
    /\ thread' = [thread EXCEPT ![t] = NotInside]
    /\ UNCHANGED <<spilled, closed, doomed, accepted, got>>

MayGet(t, q) == thread[t] = NotInside \/ Looks(t, "get", q)

Get(t, q) == MayGet(t, q) /\ Takes(t, q)

GetReadError(t, q) == MayGet(t, q) /\ ReadFails(t, q)

\* "fechada e drenada": the caller reads this exception as the end of stream.
GetDrained(t, q) == MayGet(t, q) /\ closed[q] /\ ~HasChunk(q) /\ Returns(t)

GetSleeps(t, q, timed) ==
    /\ thread[t] = NotInside
    /\ ~HasChunk(q) /\ ~closed[q]
    /\ thread' = [thread EXCEPT ![t] = Waiting("get", q, timed)]
    /\ UNCHANGED <<inmem, spill, spilled, closed, disk, doomed, accepted, got, intact>>

GetSleepsAgain(t, q) ==
    Looks(t, "get", q) /\ ~HasChunk(q) /\ ~closed[q] /\ SleepsAgain(t)

GetTimesOut(t, q) ==
    /\ Looks(t, "get", q)
    /\ thread[t].timed
    /\ ~HasChunk(q) /\ ~closed[q]
    /\ Returns(t)

-----------------------------------------------------------------------------
(* close, cleanup and the sweep of the runner *)


Close(q) ==
    /\ closed' = [closed EXCEPT ![q] = TRUE]
    /\ thread' = [t \in Threads |->
                    IF t \in Sleepers("put", q) \union Sleepers("get", q)
                    THEN [thread[t] EXCEPT !.woken = TRUE] ELSE thread[t]]
    /\ UNCHANGED <<inmem, spill, spilled, disk, doomed, accepted, got, intact>>

\* cleanup() forgets the pointers under the lock and unlinks after it.
Cleanup(q) ==
    /\ doomed' = doomed \union {SpillFile(q, i) : i \in 1..Len(spill[q])}
    /\ intact' = [intact EXCEPT ![q] = @ /\ spill[q] = <<>>]
    /\ spill' = [spill EXCEPT ![q] = <<>>]
    /\ UNCHANGED <<inmem, spilled, closed, disk, thread, accepted, got>>

\* cleanup_execution_spill, called by the runner when the execution ends, even
\* while threads of the execution still run: every file with its id is listed...
Sweep(e) ==
    /\ doomed' = doomed \union {f \in DOMAIN disk : f[1] = e}
    /\ UNCHANGED <<inmem, spill, spilled, closed, disk, thread, accepted, got, intact>>

\* ... and the listed files go one by one.
UnlinkDoomed(f) ==
    /\ f \in doomed
    /\ doomed' = doomed \ {f}
    /\ Unlink({f})
    /\ UNCHANGED <<inmem, spill, spilled, closed, thread, accepted, got, intact>>

-----------------------------------------------------------------------------
PutStep(t, q) ==
    \/ PutInRam(t, q)
    \/ PutOnDisk(t, q)
    \/ PutDiskError(t, q)
    \/ \E timed \in BOOLEAN : PutSleeps(t, q, timed)
    \/ PutResumes(t, q)
    \/ PutFindsClosed(t, q)
    \/ PutSleepsAgain(t, q)
    \/ PutTimesOut(t, q)

GetStep(t, q) ==
    \/ Get(t, q)
    \/ GetReadError(t, q)
    \/ GetDrained(t, q)
    \/ \E timed \in BOOLEAN : GetSleeps(t, q, timed)
    \/ GetSleepsAgain(t, q)
    \/ GetTimesOut(t, q)

QueueNext ==
    /\ \/ \E t \in Threads, q \in Queues : PutStep(t, q) \/ GetStep(t, q)
       \/ \E q \in Queues : Close(q) \/ Cleanup(q)
       \/ \E e \in Execs : Sweep(e)
       \/ \E f \in doomed : UnlinkDoomed(f)
    /\ UNCHANGED spillOn

QueueSpec == QueueInit /\ [][QueueNext]_queueVars

-----------------------------------------------------------------------------
(* Safety *)

\* The RAM of a queue never holds more than MaxSize chunks, whatever mix of
\* puts, refills, failed reads and cleanups happens (get_sync: "mantendo
\* invariante: len(self._inmem) <= maxsize").
RamBound == \A q \in Queues : Len(inmem[q]) <= MaxSize

\* The n-th chunk a queue delivers is the n-th chunk it accepted, as long as
\* no read has failed and no cleanup has discarded a chunk: spilling and
\* refilling never reorder, skip, repeat or swap chunks.
Fifo ==
    \A q \in Queues : intact[q] => \A i \in 1..Len(got[q]) : got[q][i] = <<q, i>>

\* A reader that is told "closed and drained" has received everything that was
\* accepted: what the queue holds is exactly what it still owes.
NothingLost ==
    \A q \in Queues :
        intact[q] => accepted[q] = Len(got[q]) + Len(inmem[q]) + Len(spill[q])

\* A chunk goes to disk only while the RAM is full: this is what makes
\* appending to the RAM, ahead of the spilled chunks, safe.
SpillOnlyBehindFullRam ==
    \A q \in Queues : (intact[q] /\ spill[q] # <<>>) => Len(inmem[q]) = MaxSize

\* The RAM is bounded and is used first: never more than MaxSize chunks in it,
\* and nothing on disk while it has room; and every part of a queue has its type.
RamDiscipline == QueueTypeOK /\ RamBound /\ SpillOnlyBehindFullRam

\* Whatever a queue delivers, it had accepted itself.
OwnChunksOnly ==
    \A q \in Queues : \A i \in 1..Len(got[q]) : got[q][i][1] = q

\* Every file of the spill directory is still reachable: a queue points to it,
\* a cleanup has listed it, or it is what a failed write left.
NoOrphanFile ==
    \A f \in DOMAIN disk :
        \/ disk[f] = Torn
        \/ f \in doomed
        \/ \E q \in Queues : \E i \in 1..Len(spill[q]) : f = SpillFile(q, i)

\* No lost wakeup: while a getter sleeps, every chunk at hand has a woken
\* getter on its way; while a putter sleeps, so has every free slot; nobody
\* sleeps on a closed queue.
NoLostWakeup ==
    \A q \in Queues :
        /\ Sleepers("get", q) # {} =>
             Len(inmem[q]) + Len(spill[q]) <= Cardinality(Woken("get", q))
        /\ Sleepers("put", q) # {} =>
             MaxSize - Len(inmem[q]) <= Cardinality(Woken("put", q))
        /\ closed[q] => Sleepers("put", q) \union Sleepers("get", q) = {}

-----------------------------------------------------------------------------
(* The promise *)

Channel == INSTANCE FifoChannel WITH
    count <- accepted, out <- got, shut <- closed, broken <- [q \in Queues |-> ~intact[q]]

\* RAM, spill files, refills, sleeping threads and sweeps behave together like
\* one channel that is first in, first out: a get delivers the chunk that has
\* been inside longest, nothing enters a closed queue (a put that slept while
\* it was closed included), and only a chunk that is inside can be lost.
ImplementsChannel == Channel!Spec
=============================================================================
