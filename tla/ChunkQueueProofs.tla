-------------------------- MODULE ChunkQueueProofs --------------------------
(***************************************************************************)
(* Proofs about the parts of a partitioned extraction: its queue, for any  *)
(* number of queues and threads, any MaxSize and any number of puts; and,  *)
(* at the end, its ranges, which cover the interval without overlap for    *)
(* every interval of integers and every number of ranges ("as faixas       *)
(* cobrem MIN..MAX sem sobreposicao").                                     *)
(***************************************************************************)
EXTENDS ChunkQueue, PartitionRanges, SequenceTheorems, FiniteSetTheorems, TLAPS

-----------------------------------------------------------------------------
(* What the sequence operators of the model return.                        *)

\* A get that finds a chunk loads no more files than there are pointers, has a
\* chunk to return, and leaves at most MaxSize chunks in RAM.
LEMMA LoadsBounds ==
  ASSUME QueueTypeOK, RamBound, NEW q \in Queues, HasChunk(q)
  PROVE  /\ Loads(q) \in 0..Len(spill[q])
         /\ Len(inmem[q]) + Loads(q) \in 1..(MaxSize + 1)
<1>1. inmem[q] \in Seq(Tickets) /\ spill[q] \in Seq(Nat)
  BY DEF QueueTypeOK
<1>2. Len(inmem[q]) \in Nat /\ Len(spill[q]) \in Nat /\ Len(inmem[q]) <= MaxSize
  BY <1>1, LenProperties DEF RamBound
<1>3. inmem[q] # <<>> => Len(inmem[q]) >= 1
  BY <1>1, <1>2, EmptySeq
<1>4. inmem[q] = <<>> => Len(inmem[q]) = 0 /\ Len(spill[q]) >= 1
  BY <1>1, <1>2, EmptySeq DEF HasChunk
<1> DEFINE a == Len(inmem[q])
           b == Len(spill[q])
           n == Loads(q)
<1>5. CASE inmem[q] = <<>>
  <2>1. n = 1 + Lesser(b - 1, MaxSize - (a + 1 - 1))
    BY <1>5 DEF Loads
  <2>2. a = 0 /\ b \in Nat \ {0}
    BY <1>2, <1>4, <1>5
  <2> HIDE DEF a, b, n
  <2>3. n = 1 + (IF b - 1 < MaxSize THEN b - 1 ELSE MaxSize)
    BY <2>1, <2>2, MaxSizeAssumption DEF Lesser
  <2>4. n \in 0..b /\ a + n \in 1..(MaxSize + 1)
    BY <2>2, <2>3, MaxSizeAssumption
  <2>5. QED  BY <2>4 DEF a, b, n
<1>6. CASE inmem[q] # <<>>
  <2>1. n = 0 + Lesser(b - 0, MaxSize - (a + 0 - 1))
    BY <1>6 DEF Loads
  <2>2. a \in 1..MaxSize /\ b \in Nat
    BY <1>2, <1>3, <1>6, MaxSizeAssumption
  <2> HIDE DEF a, b, n
  <2>3. n = IF b < MaxSize - a + 1 THEN b ELSE MaxSize - a + 1
    BY <2>1, <2>2, MaxSizeAssumption DEF Lesser
  <2>4. n \in 0..b /\ a + n \in 1..(MaxSize + 1)
    BY <2>2, <2>3, MaxSizeAssumption
  <2>5. QED  BY <2>4 DEF a, b, n
<1>7. QED  BY <1>5, <1>6

\* When the first k files can be read, the chunks at hand are tickets, and so
\* are those left in RAM.
LEMMA LeftInRamIsSeq ==
  ASSUME QueueTypeOK, NEW q \in Queues, NEW k \in 0..Len(spill[q]),
         \A i \in 1..k : Readable(q, i),
         NEW n \in Nat, n = Len(inmem[q]) + k, n >= 1
  PROVE  /\ \A i \in 1..n : AtHand(q, k)[i] \in Tickets
         /\ LeftInRam(q, k) \in Seq(Tickets)
         /\ Len(LeftInRam(q, k)) = n - 1
         /\ \A i \in 1..(n - 1) : LeftInRam(q, k)[i] = AtHand(q, k)[i + 1]
<1>1. inmem[q] \in Seq(Tickets) /\ Len(inmem[q]) \in Nat /\ Len(spill[q]) \in Nat
  BY LenProperties DEF QueueTypeOK
<1>2. ASSUME NEW i \in 1..n  PROVE AtHand(q, k)[i] \in Tickets
  <2>1. CASE i <= Len(inmem[q])
    BY <1>1, <2>1, ElementOfSeq DEF AtHand
  <2>2. CASE ~(i <= Len(inmem[q]))
    <3>1. i - Len(inmem[q]) \in 1..k
      BY <1>1, <2>2
    <3>2. disk[SpillFile(q, i - Len(inmem[q]))] \in Tickets
      BY <3>1 DEF Readable, QueueTypeOK
    <3>3. QED  BY <1>1, <2>2, <3>2 DEF AtHand
  <2>3. QED  BY <2>1, <2>2
<1>3. \A i \in 1..(n - 1) : AtHand(q, k)[i + 1] \in Tickets
  BY <1>2
<1>4. LeftInRam(q, k) = [i \in 1..(n - 1) |-> AtHand(q, k)[i + 1]]
  BY DEF LeftInRam
<1>5. LeftInRam(q, k) \in [1..(n - 1) -> Tickets]
  BY <1>3, <1>4
<1>6. n - 1 \in Nat
  OBVIOUS
<1>7. LeftInRam(q, k) \in Seq(Tickets)
  BY <1>5, <1>6, SeqDef
<1>8. DOMAIN LeftInRam(q, k) = 1..(n - 1)
  BY <1>4
<1>9. Len(LeftInRam(q, k)) = n - 1
  BY <1>6, <1>7, <1>8, LenProperties
<1>10. QED  BY <1>2, <1>4, <1>7, <1>9

\* Dropping k pointers shifts the list.
LEMMA DropPointersEffect ==
  ASSUME QueueTypeOK, NEW q \in Queues, NEW k \in 0..Len(spill[q]), DropPointers(q, k)
  PROVE  /\ spill' \in [Queues -> Seq(Nat)]
         /\ \A r \in Queues \ {q} : spill'[r] = spill[r]
         /\ Len(spill'[q]) = Len(spill[q]) - k
         /\ \A i \in 1..(Len(spill[q]) - k) : spill'[q][i] = spill[q][i + k]
         /\ DOMAIN disk' = DOMAIN disk \ {SpillFile(q, i) : i \in 1..k}
         /\ \A f \in DOMAIN disk' : disk'[f] = disk[f]
<1> DEFINE s == spill[q]
           d == SubSeq(s, k + 1, Len(s))
<1>1. s \in Seq(Nat) /\ Len(s) \in Nat /\ k \in Nat
  BY LenProperties DEF QueueTypeOK
<1>2. \A i \in (k + 1)..Len(s) : s[i] \in Nat
  BY <1>1, ElementOfSeq
<1>3. /\ d \in Seq(Nat)
      /\ Len(d) = IF k + 1 <= Len(s) THEN Len(s) - (k + 1) + 1 ELSE 0
      /\ \A i \in 1..(Len(s) - (k + 1) + 1) : d[i] = s[(k + 1) + i - 1]
  <2> HIDE DEF s
  <2>1. k + 1 \in Int /\ Len(s) \in Int
    BY <1>1
  <2>2. QED  BY <1>2, <2>1, SubSeqProperties
<1>4. spill' = [spill EXCEPT ![q] = d]
  BY DEF DropPointers
<1>5. Len(d) = Len(s) - k
  <2> HIDE DEF s
  <2>1. k <= Len(s)
    BY DEF s
  <2>2. QED  BY <1>1, <1>3, <2>1
<1>6. \A i \in 1..(Len(s) - k) : d[i] = s[i + k]
  <2> HIDE DEF s, d
  <2>1. QED  BY <1>1, <1>3
<1>7. spill \in [Queues -> Seq(Nat)]
  BY DEF QueueTypeOK
<1>8. /\ DOMAIN disk' = DOMAIN disk \ {SpillFile(q, i) : i \in 1..k}
      /\ \A f \in DOMAIN disk' : disk'[f] = disk[f]
  BY DEF DropPointers, Unlink
<1>9. spill'[q] = d /\ spill' \in [Queues -> Seq(Nat)]
  <2> HIDE DEF d
  <2>1. QED  BY <1>3, <1>4, <1>7
<1>10. \A r \in Queues \ {q} : spill'[r] = spill[r]
  BY <1>4, <1>7
<1>11. QED
  <2> HIDE DEF d
  <2>1. QED  BY <1>5, <1>6, <1>8, <1>9, <1>10 DEF s

-----------------------------------------------------------------------------
(* Type correctness and the bound on the RAM, by induction together: the   *)
(* bound is what makes the number of files a get loads well defined.       *)

ThreadStates == Waits \union {NotInside}

LEMMA WokenIsThreadState ==
  ASSUME NEW w \in ThreadStates
  PROVE  [w EXCEPT !.woken = TRUE] \in ThreadStates
<1>1. CASE w \in Waits
  BY <1>1 DEF ThreadStates, Waits
<1>2. CASE w = NotInside
  BY <1>2 DEF ThreadStates, NotInside
<1>3. QED  BY <1>1, <1>2 DEF ThreadStates

LEMMA NotifyKeepsThreads ==
  ASSUME NEW op, NEW q, NEW th \in [Threads -> ThreadStates], Notify(op, q, th)
  PROVE  thread' \in [Threads -> ThreadStates]
<1>1. CASE thread' = th
  BY <1>1
<1>2. CASE \E s \in Sleepers(op, q) : thread' = [th EXCEPT ![s].woken = TRUE]
  <2>1. PICK s \in Threads : thread' = [th EXCEPT ![s] = [th[s] EXCEPT !.woken = TRUE]]
    BY <1>2 DEF Sleepers
  <2>2. QED  BY <2>1, WokenIsThreadState
<1>3. QED  BY <1>1, <1>2 DEF Notify

\* The state of the threads after the caller's own step.
LEMMA IdleAgain ==
  ASSUME QueueTypeOK, NEW t \in Threads
  PROVE  [thread EXCEPT ![t] = NotInside] \in [Threads -> ThreadStates]
BY DEF QueueTypeOK, ThreadStates

LEMMA SleepIsThreadState ==
  ASSUME NEW op \in {"put", "get"}, NEW q \in Queues, NEW timed \in BOOLEAN
  PROVE  Waiting(op, q, timed) \in ThreadStates
BY DEF Waiting, ThreadStates, Waits

TypeInv == QueueTypeOK /\ RamBound

\* Appending a ticket to the RAM of a queue that has room.
LEMMA AppendToRamKeepsTypes ==
  ASSUME TypeInv, NEW t \in Threads, NEW q \in Queues, HasRoom(q), AppendToRam(t, q),
         UNCHANGED spillOn
  PROVE  TypeInv'
<1>1. inmem \in [Queues -> Seq(Tickets)] /\ accepted \in [Queues -> Nat]
  BY DEF TypeInv, QueueTypeOK
<1>2. NextTicket(q) \in Tickets
  BY <1>1 DEF NextTicket, Tickets
<1>3. /\ Append(inmem[q], NextTicket(q)) \in Seq(Tickets)
      /\ Len(Append(inmem[q], NextTicket(q))) = Len(inmem[q]) + 1
  BY <1>1, <1>2, AppendProperties
<1>4. inmem' = [inmem EXCEPT ![q] = Append(inmem[q], NextTicket(q))]
  BY DEF AppendToRam
<1>5. inmem' \in [Queues -> Seq(Tickets)]
  BY <1>1, <1>3, <1>4
<1>6. RamBound'
  <2>1. Len(inmem'[q]) <= MaxSize
    <3>1. Len(inmem[q]) \in Nat
      BY <1>1, LenProperties
    <3>2. QED  BY <1>1, <1>3, <1>4, <3>1, MaxSizeAssumption DEF HasRoom
  <2>2. \A r \in Queues \ {q} : inmem'[r] = inmem[r]
    BY <1>1, <1>4
  <2>3. QED  BY <2>1, <2>2 DEF RamBound, TypeInv
<1>7. accepted' \in [Queues -> Nat]
  BY <1>1 DEF AppendToRam
<1>8. thread' \in [Threads -> ThreadStates]
  BY IdleAgain, NotifyKeepsThreads DEF AppendToRam, TypeInv
<1>9. QED
  BY <1>5, <1>6, <1>7, <1>8 DEF TypeInv, QueueTypeOK, AppendToRam, ThreadStates

\* A step that touches only the threads.
LEMMA ThreadOnlyKeepsTypes ==
  ASSUME TypeInv, thread' \in [Threads -> ThreadStates],
         UNCHANGED <<inmem, spill, spilled, closed, disk, doomed, accepted, got, intact>>,
         UNCHANGED spillOn
  PROVE  TypeInv'
BY DEF TypeInv, QueueTypeOK, RamBound, ThreadStates

LEMMA ReturnsKeepsTypes ==
  ASSUME TypeInv, NEW t \in Threads, Returns(t),
         UNCHANGED spillOn
  PROVE  TypeInv'
BY IdleAgain, ThreadOnlyKeepsTypes DEF Returns, TypeInv

LEMMA SleepsAgainKeepsTypes ==
  ASSUME TypeInv, NEW t \in Threads, thread[t] \in Waits, SleepsAgain(t),
         UNCHANGED spillOn
  PROVE  TypeInv'
<1>1. [thread[t] EXCEPT !.woken = FALSE] \in ThreadStates
  BY DEF Waits, ThreadStates
<1>2. thread' \in [Threads -> ThreadStates]
  BY <1>1 DEF SleepsAgain, TypeInv, QueueTypeOK, ThreadStates
<1>3. QED  BY <1>2, ThreadOnlyKeepsTypes DEF SleepsAgain

\* Writing and unlinking files.
LEMMA WriteKeepsDisk ==
  ASSUME QueueTypeOK, NEW f \in Files, NEW c \in Tickets \union {Torn}, Write(f, c)
  PROVE  /\ DOMAIN disk' \subseteq Files
         /\ \A g \in DOMAIN disk' : disk'[g] \in Tickets \union {Torn}
BY DEF QueueTypeOK, Write

LEMMA FileIsFile ==
  ASSUME NEW q \in Queues, NEW i \in Nat
  PROVE  File(q, i) \in Files
BY ExecOfAssumption DEF File, Files

\* A get that loads k readable files, whatever it returns.
LEMMA RefillKeepsTypes ==
  ASSUME TypeInv, NEW q \in Queues, NEW k \in 0..Len(spill[q]),
         NEW d \in 0..Len(spill[q]),
         \A i \in 1..k : Readable(q, i),
         Len(inmem[q]) + k \in 1..(MaxSize + 1),
         inmem' = [inmem EXCEPT ![q] = LeftInRam(q, k)],
         DropPointers(q, d)
  PROVE  /\ inmem' \in [Queues -> Seq(Tickets)]
         /\ \A r \in Queues : Len(inmem'[r]) <= MaxSize
         /\ spill' \in [Queues -> Seq(Nat)]
         /\ DOMAIN disk' \subseteq Files
         /\ \A f \in DOMAIN disk' : disk'[f] \in Tickets \union {Torn}
<1>1. inmem \in [Queues -> Seq(Tickets)] /\ QueueTypeOK
  BY DEF TypeInv, QueueTypeOK
<1> DEFINE n == Len(inmem[q]) + k
<1>2. n \in Nat /\ n >= 1 /\ n - 1 <= MaxSize
  <2>1. n \in 1..(MaxSize + 1)
    OBVIOUS
  <2> HIDE DEF n
  <2>2. QED  BY <2>1, MaxSizeAssumption
<1>3. LeftInRam(q, k) \in Seq(Tickets) /\ Len(LeftInRam(q, k)) = n - 1
  BY <1>1, <1>2, LeftInRamIsSeq
<1>4. inmem' \in [Queues -> Seq(Tickets)]
  BY <1>1, <1>3
<1>5. \A r \in Queues : Len(inmem'[r]) <= MaxSize
  <2>1. inmem'[q] = LeftInRam(q, k) /\ \A r \in Queues \ {q} : inmem'[r] = inmem[r]
    BY <1>1
  <2> HIDE DEF n
  <2>2. QED  BY <1>2, <1>3, <2>1 DEF TypeInv, RamBound
<1>6. /\ spill' \in [Queues -> Seq(Nat)]
      /\ DOMAIN disk' = DOMAIN disk \ {SpillFile(q, i) : i \in 1..d}
      /\ \A f \in DOMAIN disk' : disk'[f] = disk[f]
  BY <1>1, DropPointersEffect
<1>7. /\ DOMAIN disk' \subseteq Files
      /\ \A f \in DOMAIN disk' : disk'[f] \in Tickets \union {Torn}
  BY <1>1, <1>6 DEF QueueTypeOK
<1>8. QED  BY <1>4, <1>5, <1>6, <1>7

LEMMA TakesKeepsTypes ==
  ASSUME TypeInv, NEW t \in Threads, NEW q \in Queues, Takes(t, q),
         UNCHANGED spillOn
  PROVE  TypeInv'
<1> DEFINE k == Loads(q)
<1>1. k \in 0..Len(spill[q]) /\ Len(inmem[q]) + k \in 1..(MaxSize + 1)
  BY LoadsBounds DEF Takes, TypeInv
<1>2. /\ inmem' \in [Queues -> Seq(Tickets)]
      /\ \A r \in Queues : Len(inmem'[r]) <= MaxSize
      /\ spill' \in [Queues -> Seq(Nat)]
      /\ DOMAIN disk' \subseteq Files
      /\ \A f \in DOMAIN disk' : disk'[f] \in Tickets \union {Torn}
  BY <1>1, RefillKeepsTypes DEF Takes
<1>3. AtHand(q, k)[1] \in Tickets
  <2> DEFINE n == Len(inmem[q]) + k
  <2>1. n \in Nat /\ n >= 1
    BY <1>1, MaxSizeAssumption
  <2>2. \A i \in 1..n : AtHand(q, k)[i] \in Tickets
    BY <1>1, <2>1, LeftInRamIsSeq DEF Takes, TypeInv
  <2>3. 1 \in 1..n
    <3> HIDE DEF n
    <3>1. QED  BY <2>1
  <2>4. QED  BY <2>2, <2>3
<1>4. got' \in [Queues -> Seq(Tickets)]
  <2>1. got \in [Queues -> Seq(Tickets)]
    BY DEF TypeInv, QueueTypeOK
  <2>2. Append(got[q], AtHand(q, k)[1]) \in Seq(Tickets)
    BY <1>3, <2>1, AppendProperties
  <2>3. QED  BY <2>1, <2>2 DEF Takes
<1>5. thread' \in [Threads -> ThreadStates]
  BY IdleAgain, NotifyKeepsThreads DEF Takes, TypeInv
<1>6. QED
  BY <1>2, <1>4, <1>5 DEF TypeInv, QueueTypeOK, RamBound, Takes, ThreadStates

LEMMA ReadFailsKeepsTypes ==
  ASSUME TypeInv, NEW t \in Threads, NEW q \in Queues, ReadFails(t, q),
         UNCHANGED spillOn
  PROVE  TypeInv'
<1>1. Loads(q) \in 0..Len(spill[q]) /\ Len(inmem[q]) + Loads(q) \in 1..(MaxSize + 1)
  BY LoadsBounds DEF ReadFails, TypeInv
<1>2. PICK k \in 1..Loads(q) :
          /\ \A i \in 1..(k - 1) : Readable(q, i)
          /\ inmem' = [inmem EXCEPT ![q] = LeftInRam(q, k - 1)]
          /\ DropPointers(q, k)
  BY DEF ReadFails
<1>3. inmem \in [Queues -> Seq(Tickets)] /\ Len(inmem[q]) \in Nat /\ Len(spill[q]) \in Nat
  BY LenProperties DEF TypeInv, QueueTypeOK
<1>4. /\ k \in 0..Len(spill[q]) /\ k - 1 \in 0..Len(spill[q])
      /\ Len(inmem[q]) + (k - 1) \in 0..MaxSize
  BY <1>1, <1>2, <1>3, MaxSizeAssumption
<1>5. /\ inmem' \in [Queues -> Seq(Tickets)]
      /\ \A r \in Queues : Len(inmem'[r]) <= MaxSize
      /\ spill' \in [Queues -> Seq(Nat)]
      /\ DOMAIN disk' \subseteq Files
      /\ \A f \in DOMAIN disk' : disk'[f] \in Tickets \union {Torn}
  <2>1. CASE Len(inmem[q]) + (k - 1) \in 1..MaxSize
    <3>1. Len(inmem[q]) + (k - 1) \in 1..(MaxSize + 1)
      BY <2>1, MaxSizeAssumption
    <3>2. QED  BY <1>2, <1>4, <3>1, RefillKeepsTypes
  <2>2. CASE Len(inmem[q]) + (k - 1) = 0
    <3>1. LeftInRam(q, k - 1) = [i \in 1..(0 - 1) |-> AtHand(q, k - 1)[i + 1]]
      BY <2>2 DEF LeftInRam
    <3>2. LeftInRam(q, k - 1) = << >>
      BY <3>1
    <3>3. LeftInRam(q, k - 1) \in Seq(Tickets) /\ Len(LeftInRam(q, k - 1)) = 0
      BY <3>2, EmptySeq
    <3>4. inmem' \in [Queues -> Seq(Tickets)]
      BY <1>2, <1>3, <3>3
    <3>5. \A r \in Queues : Len(inmem'[r]) <= MaxSize
      BY <1>2, <1>3, <3>3, MaxSizeAssumption DEF TypeInv, RamBound
    <3>6. /\ spill' \in [Queues -> Seq(Nat)]
          /\ DOMAIN disk' = DOMAIN disk \ {SpillFile(q, i) : i \in 1..k}
          /\ \A f \in DOMAIN disk' : disk'[f] = disk[f]
      BY <1>2, <1>4, DropPointersEffect DEF TypeInv
    <3>7. /\ DOMAIN disk' \subseteq Files
          /\ \A f \in DOMAIN disk' : disk'[f] \in Tickets \union {Torn}
      BY <3>6 DEF TypeInv, QueueTypeOK
    <3>8. QED  BY <3>4, <3>5, <3>6, <3>7
  <2>3. QED  BY <1>4, <2>1, <2>2, MaxSizeAssumption
<1>6. thread' \in [Threads -> ThreadStates]
  BY IdleAgain DEF ReadFails, TypeInv
<1>7. intact' \in [Queues -> BOOLEAN]
  BY DEF ReadFails, TypeInv, QueueTypeOK
<1>8. QED
  BY <1>5, <1>6, <1>7 DEF TypeInv, QueueTypeOK, RamBound, ReadFails, ThreadStates

LEMMA PutStepKeepsTypes ==
  ASSUME TypeInv, NEW t \in Threads, NEW q \in Queues, PutStep(t, q),
         UNCHANGED spillOn
  PROVE  TypeInv'
<1>1. CASE PutInRam(t, q)
  BY <1>1, AppendToRamKeepsTypes DEF PutInRam
<1>2. CASE PutOnDisk(t, q)
  <2>1. spilled \in [Queues -> Nat] /\ spill \in [Queues -> Seq(Nat)] /\ accepted \in [Queues -> Nat]
    BY DEF TypeInv, QueueTypeOK
  <2>2. NextTicket(q) \in Tickets /\ File(q, spilled[q]) \in Files
    BY <2>1, FileIsFile DEF NextTicket, Tickets
  <2>3. /\ DOMAIN disk' \subseteq Files
        /\ \A g \in DOMAIN disk' : disk'[g] \in Tickets \union {Torn}
    BY <1>2, <2>2, WriteKeepsDisk DEF PutOnDisk, TypeInv
  <2>4. Append(spill[q], spilled[q]) \in Seq(Nat)
    BY <2>1, AppendProperties
  <2>5. spill' \in [Queues -> Seq(Nat)]
    BY <1>2, <2>1, <2>4 DEF PutOnDisk
  <2>6. thread' \in [Threads -> ThreadStates]
    BY <1>2, NotifyKeepsThreads DEF PutOnDisk, TypeInv, QueueTypeOK, ThreadStates
  <2>7. spilled' \in [Queues -> Nat] /\ accepted' \in [Queues -> Nat]
    BY <1>2, <2>1 DEF PutOnDisk
  <2>8. QED
    BY <1>2, <2>3, <2>5, <2>6, <2>7 DEF PutOnDisk, TypeInv, QueueTypeOK, RamBound, ThreadStates
<1>3. CASE PutDiskError(t, q)
  <2>1. File(q, spilled[q]) \in Files
    BY FileIsFile DEF TypeInv, QueueTypeOK
  <2>2. /\ DOMAIN disk' \subseteq Files
        /\ \A g \in DOMAIN disk' : disk'[g] \in Tickets \union {Torn}
    BY <1>3, <2>1, WriteKeepsDisk DEF PutDiskError, TypeInv
  <2>3. QED  BY <1>3, <2>2 DEF PutDiskError, TypeInv, QueueTypeOK, RamBound
<1>4. ASSUME NEW timed \in BOOLEAN, PutSleeps(t, q, timed)  PROVE TypeInv'
  <2>1. thread' \in [Threads -> ThreadStates]
    BY <1>4, SleepIsThreadState DEF PutSleeps, TypeInv, QueueTypeOK, ThreadStates
  <2>2. QED  BY <1>4, <2>1, ThreadOnlyKeepsTypes DEF PutSleeps
<1>5. CASE PutResumes(t, q)
  BY <1>5, AppendToRamKeepsTypes DEF PutResumes
<1>6. CASE PutFindsClosed(t, q)
  BY <1>6, ReturnsKeepsTypes DEF PutFindsClosed
<1>7. CASE PutSleepsAgain(t, q)
  BY <1>7, SleepsAgainKeepsTypes DEF PutSleepsAgain, Looks
<1>8. CASE PutTimesOut(t, q)
  BY <1>8, ReturnsKeepsTypes DEF PutTimesOut
<1>9. QED
  BY <1>1, <1>2, <1>3, <1>4, <1>5, <1>6, <1>7, <1>8 DEF PutStep

LEMMA GetStepKeepsTypes ==
  ASSUME TypeInv, NEW t \in Threads, NEW q \in Queues, GetStep(t, q),
         UNCHANGED spillOn
  PROVE  TypeInv'
<1>1. CASE Get(t, q)
  BY <1>1, TakesKeepsTypes DEF Get
<1>2. CASE GetReadError(t, q)
  BY <1>2, ReadFailsKeepsTypes DEF GetReadError
<1>3. CASE GetDrained(t, q)
  BY <1>3, ReturnsKeepsTypes DEF GetDrained
<1>4. ASSUME NEW timed \in BOOLEAN, GetSleeps(t, q, timed)  PROVE TypeInv'
  <2>1. thread' \in [Threads -> ThreadStates]
    BY <1>4, SleepIsThreadState DEF GetSleeps, TypeInv, QueueTypeOK, ThreadStates
  <2>2. QED  BY <1>4, <2>1, ThreadOnlyKeepsTypes DEF GetSleeps
<1>5. CASE GetSleepsAgain(t, q)
  BY <1>5, SleepsAgainKeepsTypes DEF GetSleepsAgain, Looks
<1>6. CASE GetTimesOut(t, q)
  BY <1>6, ReturnsKeepsTypes DEF GetTimesOut
<1>7. QED  BY <1>1, <1>2, <1>3, <1>4, <1>5, <1>6 DEF GetStep

LEMMA HousekeepingKeepsTypes ==
  ASSUME TypeInv,
         \/ \E q \in Queues : Close(q) \/ Cleanup(q)
         \/ \E e \in Execs : Sweep(e)
         \/ \E f \in doomed : UnlinkDoomed(f),
         UNCHANGED spillOn
  PROVE  TypeInv'
<1>1. ASSUME NEW q \in Queues, Close(q)  PROVE TypeInv'
  <2>1. \A t \in Threads : [thread[t] EXCEPT !.woken = TRUE] \in ThreadStates
    BY WokenIsThreadState DEF TypeInv, QueueTypeOK, ThreadStates
  <2>2. thread' \in [Threads -> ThreadStates]
    BY <1>1, <2>1 DEF Close, TypeInv, QueueTypeOK, ThreadStates
  <2>3. closed' \in [Queues -> BOOLEAN]
    BY <1>1 DEF Close, TypeInv, QueueTypeOK
  <2>4. QED  BY <1>1, <2>2, <2>3 DEF Close, TypeInv, QueueTypeOK, RamBound, ThreadStates
<1>2. ASSUME NEW q \in Queues, Cleanup(q)  PROVE TypeInv'
  <2>1. spill \in [Queues -> Seq(Nat)]
    BY DEF TypeInv, QueueTypeOK
  <2>2. \A i \in 1..Len(spill[q]) : SpillFile(q, i) \in Files
    BY <2>1, ElementOfSeq, FileIsFile DEF SpillFile
  <2>3. doomed' \subseteq Files
    BY <1>2, <2>2 DEF Cleanup, TypeInv, QueueTypeOK
  <2>4. spill' \in [Queues -> Seq(Nat)]
    BY <1>2, <2>1, EmptySeq DEF Cleanup
  <2>5. intact' \in [Queues -> BOOLEAN]
    BY <1>2 DEF Cleanup, TypeInv, QueueTypeOK
  <2>6. QED  BY <1>2, <2>3, <2>4, <2>5 DEF Cleanup, TypeInv, QueueTypeOK, RamBound
<1>3. ASSUME NEW e \in Execs, Sweep(e)  PROVE TypeInv'
  BY <1>3 DEF Sweep, TypeInv, QueueTypeOK, RamBound
<1>4. ASSUME NEW f \in doomed, UnlinkDoomed(f)  PROVE TypeInv'
  BY <1>4 DEF UnlinkDoomed, Unlink, TypeInv, QueueTypeOK, RamBound
<1>5. QED  BY <1>1, <1>2, <1>3, <1>4

LEMMA StartIsTyped == QueueInit => TypeInv
BY EmptySeq, MaxSizeAssumption
DEF QueueInit, TypeInv, QueueTypeOK, RamBound, NotInside, Waits, Files

LEMMA StepKeepsTypes == TypeInv /\ [QueueNext]_queueVars => TypeInv'
<1> SUFFICES ASSUME TypeInv, [QueueNext]_queueVars  PROVE TypeInv'
  OBVIOUS
<1>1. CASE /\ \E t \in Threads, q \in Queues : PutStep(t, q) \/ GetStep(t, q)
           /\ UNCHANGED spillOn
  BY <1>1, PutStepKeepsTypes, GetStepKeepsTypes
<1>2. CASE /\ \/ \E q \in Queues : Close(q) \/ Cleanup(q)
              \/ \E e \in Execs : Sweep(e)
              \/ \E f \in doomed : UnlinkDoomed(f)
           /\ UNCHANGED spillOn
  BY <1>2, HousekeepingKeepsTypes
<1>3. CASE UNCHANGED queueVars
  BY <1>3 DEF queueVars, TypeInv, QueueTypeOK, RamBound
<1>4. QED  BY <1>1, <1>2, <1>3 DEF QueueNext

THEOREM TypeInvInductive == QueueSpec => []TypeInv
BY StartIsTyped, StepKeepsTypes, PTL DEF QueueSpec

\* Every state of the queue is well typed.
THEOREM TypeCorrect == QueueSpec => []QueueTypeOK
BY TypeInvInductive, PTL DEF TypeInv

\* No interleaving of puts, gets, failed reads and cleanups brings more than
\* MaxSize chunks into the RAM of a queue.
THEOREM RamBounded == QueueSpec => []RamBound
BY TypeInvInductive, PTL DEF TypeInv

-----------------------------------------------------------------------------
(* First in, first out.  The file names carry the execution and a number   *)
(* only, so the proof needs the queues alive together to belong to         *)
(* different executions; the run ChunkQueue_shared shows what happens when *)
(* two queues of one execution run together.                               *)

DistinctExecs == \A q, r \in Queues : ExecOf[q] = ExecOf[r] => q = r

\* While queue q is intact: the chunks delivered, in RAM and on disk carry
\* consecutive tickets, in this order; the pointers are the last files
\* written; and there are pointers only behind a full RAM.
Ordered(q) ==
    /\ accepted[q] = Len(got[q]) + Len(inmem[q]) + Len(spill[q])
    /\ \A i \in 1..Len(got[q]) : got[q][i] = <<q, i>>
    /\ \A i \in 1..Len(inmem[q]) : inmem[q][i] = <<q, Len(got[q]) + i>>
    /\ spill[q] # <<>> => Len(inmem[q]) = MaxSize
    /\ Len(spill[q]) <= spilled[q]
    /\ \A i \in 1..Len(spill[q]) : spill[q][i] = spilled[q] - Len(spill[q]) + i - 1
    /\ \A i \in 1..Len(spill[q]) :
         Readable(q, i) => disk[SpillFile(q, i)] = <<q, Len(got[q]) + Len(inmem[q]) + i>>

OrderInv == \A q \in Queues : intact[q] => Ordered(q)

\* Files of different queues, or with different numbers, are different files.
LEMMA FilesDiffer ==
  ASSUME DistinctExecs, NEW q \in Queues, NEW r \in Queues, NEW i, NEW j,
         q # r \/ i # j
  PROVE  File(q, i) # File(r, j)
BY DEF DistinctExecs, File

\* A step that leaves alone what queue q holds, has delivered and has on disk
\* (files may disappear) keeps q ordered.
LEMMA UntouchedStaysOrdered ==
  ASSUME NEW q \in Queues, Ordered(q),
         inmem'[q] = inmem[q], spill'[q] = spill[q], spilled'[q] = spilled[q],
         accepted'[q] = accepted[q], got'[q] = got[q],
         \A i \in 1..Len(spill[q]) :
            Readable(q, i)' => Readable(q, i) /\ disk'[SpillFile(q, i)] = disk[SpillFile(q, i)]
  PROVE  Ordered(q)'
BY DEF Ordered, SpillFile, File

LEMMA AppendToRamKeepsOrder ==
  ASSUME TypeInv, NEW t \in Threads, NEW q \in Queues,
         HasRoom(q), AppendToRam(t, q), Ordered(q)
  PROVE  Ordered(q)'
<1> DEFINE m == inmem[q]
           g == Len(got[q])
           x == NextTicket(q)
<1>1. inmem \in [Queues -> Seq(Tickets)] /\ accepted \in [Queues -> Nat]
      /\ got \in [Queues -> Seq(Tickets)] /\ spill \in [Queues -> Seq(Nat)]
  BY DEF TypeInv, QueueTypeOK
<1>2. m \in Seq(Tickets) /\ Len(m) \in Nat /\ g \in Nat /\ Len(spill[q]) \in Nat
  BY <1>1, LenProperties
<1>3. x \in Tickets /\ x = <<q, accepted[q] + 1>>
  BY <1>1 DEF NextTicket, Tickets
<1>4. /\ Len(Append(m, x)) = Len(m) + 1
      /\ \A i \in 1..Len(m) : Append(m, x)[i] = m[i]
      /\ Append(m, x)[Len(m) + 1] = x
  BY <1>2, <1>3, AppendProperties
<1>5. inmem'[q] = Append(m, x) /\ accepted'[q] = accepted[q] + 1
  BY <1>1 DEF AppendToRam
<1>6. got' = got /\ spill' = spill /\ spilled' = spilled /\ disk' = disk
  BY DEF AppendToRam
<1>7. spill[q] = <<>>
  BY <1>2, MaxSizeAssumption DEF HasRoom, Ordered
<1>8. Len(spill[q]) = 0
  BY <1>7, EmptySeq
<1>9. accepted[q] = g + Len(m)
  BY <1>2, <1>8 DEF Ordered
<1>10. Len(inmem'[q]) = Len(m) + 1
  BY <1>4, <1>5
<1>11. \A i \in 1..Len(inmem'[q]) : inmem'[q][i] = <<q, g + i>>
  <2> SUFFICES ASSUME NEW i \in 1..(Len(m) + 1)  PROVE Append(m, x)[i] = <<q, g + i>>
    BY <1>5, <1>10
  <2>1. CASE i \in 1..Len(m)
    <3>1. m[i] = <<q, g + i>>
      BY <2>1 DEF Ordered
    <3>2. QED  BY <1>4, <2>1, <3>1
  <2>2. CASE i = Len(m) + 1
    <3>1. accepted[q] + 1 = g + i
      <4> HIDE DEF g, m
      <4>1. QED  BY <1>2, <1>9, <2>2
    <3>2. QED  BY <1>3, <1>4, <2>2, <3>1
  <2>3. QED  BY <1>2, <2>1, <2>2
<1>12. accepted'[q] = g + Len(inmem'[q]) + Len(spill[q])
  <2> HIDE DEF g
  <2>1. QED  BY <1>2, <1>5, <1>8, <1>9, <1>10
<1>13. \A i \in 1..Len(spill[q]) : FALSE
  BY <1>8
<1>14. QED
  BY <1>6, <1>7, <1>11, <1>12, <1>13 DEF Ordered

LEMMA PutOnDiskKeepsOrder ==
  ASSUME TypeInv, DistinctExecs, NEW t \in Threads, NEW q \in Queues,
         PutOnDisk(t, q), Ordered(q)
  PROVE  Ordered(q)'
<1> DEFINE sp == spill[q]
           L == Len(sp)
           M == Len(inmem[q])
           G == Len(got[q])
           n == spilled[q]
<1>1. /\ spill \in [Queues -> Seq(Nat)] /\ spilled \in [Queues -> Nat]
      /\ accepted \in [Queues -> Nat] /\ inmem \in [Queues -> Seq(Tickets)]
      /\ got \in [Queues -> Seq(Tickets)]
  BY DEF TypeInv, QueueTypeOK
<1>2. sp \in Seq(Nat) /\ L \in Nat /\ n \in Nat /\ M \in Nat /\ G \in Nat
  BY <1>1, LenProperties
<1>3. /\ Append(sp, n) # <<>>
      /\ Len(Append(sp, n)) = L + 1
      /\ \A i \in 1..L : Append(sp, n)[i] = sp[i]
      /\ Append(sp, n)[L + 1] = n
  <2> HIDE DEF sp, n
  <2>1. QED  BY <1>2, AppendProperties
<1>4. /\ spill'[q] = Append(sp, n) /\ spilled'[q] = n + 1
      /\ accepted'[q] = accepted[q] + 1 /\ inmem' = inmem /\ got' = got
  BY <1>1 DEF PutOnDisk
<1>5. /\ accepted[q] = G + M + L /\ L <= n
      /\ \A i \in 1..L : sp[i] = n - L + i - 1
      /\ \A i \in 1..L : Readable(q, i) => disk[SpillFile(q, i)] = <<q, G + M + i>>
  BY DEF Ordered
<1>6. M = MaxSize
  BY <1>2, MaxSizeAssumption DEF PutOnDisk, HasRoom, TypeInv, RamBound
<1>7. /\ \A f \in DOMAIN disk : f # File(q, n) => f \in DOMAIN disk' /\ disk'[f] = disk[f]
      /\ DOMAIN disk' = DOMAIN disk \union {File(q, n)}
      /\ disk'[File(q, n)] = <<q, accepted[q] + 1>>
  BY DEF PutOnDisk, Write, NextTicket
<1>8. \A i \in 1..(L + 1) : spill'[q][i] = (n + 1) - (L + 1) + i - 1
  <2> SUFFICES ASSUME NEW i \in 1..(L + 1)
               PROVE  Append(sp, n)[i] = (n + 1) - (L + 1) + i - 1
    BY <1>4
  <2>1. CASE i \in 1..L
    <3>1. Append(sp, n)[i] = n - L + i - 1
      BY <1>3, <1>5, <2>1
    <3>2. n - L + i - 1 = (n + 1) - (L + 1) + i - 1
      <4> HIDE DEF L, n
      <4>1. QED  BY <1>2
    <3>3. QED  BY <3>1, <3>2
  <2>2. CASE i = L + 1
    <3>1. n = (n + 1) - (L + 1) + i - 1
      <4> HIDE DEF L, n
      <4>1. QED  BY <1>2, <2>2
    <3>2. QED  BY <1>3, <2>2, <3>1
  <2>3. i \in 1..L \/ i = L + 1
    <3> HIDE DEF L
    <3>1. QED  BY <1>2
  <2>4. QED  BY <2>1, <2>2, <2>3
<1>9. \A i \in 1..(L + 1) : Readable(q, i)' => disk'[SpillFile(q, i)'] = <<q, G + M + i>>
  <2> SUFFICES ASSUME NEW i \in 1..(L + 1), Readable(q, i)'
               PROVE  disk'[SpillFile(q, i)'] = <<q, G + M + i>>
    OBVIOUS
  <2>1. CASE i \in 1..L
    <3>1. SpillFile(q, i)' = SpillFile(q, i) /\ SpillFile(q, i) = File(q, sp[i])
      BY <1>3, <1>4, <2>1 DEF SpillFile, File
    <3>2. sp[i] # n
      <4>1. sp[i] = n - L + i - 1
        BY <1>5, <2>1
      <4>2. n - L + i - 1 # n
        <5> HIDE DEF L, n
        <5>1. QED  BY <1>2, <2>1
      <4>3. QED  BY <4>1, <4>2
    <3>3. SpillFile(q, i) # File(q, n)
      BY <3>1, <3>2 DEF File
    <3>4. Readable(q, i) /\ disk'[SpillFile(q, i)] = disk[SpillFile(q, i)]
      BY <1>7, <3>1, <3>3 DEF Readable
    <3>5. QED  BY <1>5, <2>1, <3>1, <3>4
  <2>2. CASE i = L + 1
    <3>1. SpillFile(q, i)' = File(q, n)
      BY <1>3, <1>4, <2>2 DEF SpillFile, File
    <3>2. accepted[q] + 1 = G + M + i
      <4> HIDE DEF L, M, G
      <4>1. QED  BY <1>2, <1>5, <2>2
    <3>3. QED  BY <1>7, <3>1, <3>2
  <2>3. i \in 1..L \/ i = L + 1
    <3> HIDE DEF L
    <3>1. QED  BY <1>2
  <2>4. QED  BY <2>1, <2>2, <2>3
<1>10. accepted'[q] = G + M + (L + 1)
  <2> HIDE DEF G, M, L
  <2>1. QED  BY <1>2, <1>4, <1>5
<1>11. L + 1 <= n + 1
  <2> HIDE DEF L, n
  <2>1. QED  BY <1>2, <1>5
<1>12. Len(spill'[q]) = L + 1 /\ inmem'[q] = inmem[q] /\ got'[q] = got[q]
  BY <1>3, <1>4
<1>13. /\ \A i \in 1..Len(got[q]) : got[q][i] = <<q, i>>
       /\ \A i \in 1..Len(inmem[q]) : inmem[q][i] = <<q, Len(got[q]) + i>>
  BY DEF Ordered
<1> HIDE DEF n
<1>14. QED
  BY <1>4, <1>6, <1>8, <1>9, <1>10, <1>11, <1>12, <1>13 DEF Ordered

LEMMA TakesKeepsOrder ==
  ASSUME TypeInv, NEW t \in Threads, NEW q \in Queues, Takes(t, q), Ordered(q)
  PROVE  Ordered(q)'
<1> DEFINE k == Loads(q)
           L == Len(spill[q])
           M == Len(inmem[q])
           G == Len(got[q])
           n == M + k
           c == AtHand(q, k)
<1>1. /\ spill \in [Queues -> Seq(Nat)] /\ spilled \in [Queues -> Nat]
      /\ inmem \in [Queues -> Seq(Tickets)] /\ got \in [Queues -> Seq(Tickets)]
  BY DEF TypeInv, QueueTypeOK
<1>2. L \in Nat /\ M \in Nat /\ G \in Nat /\ M <= MaxSize /\ spilled[q] \in Nat
  BY <1>1, LenProperties DEF TypeInv, RamBound
<1>3. k \in 0..L /\ n \in 1..(MaxSize + 1)
  BY LoadsBounds DEF Takes, TypeInv
<1>4. n \in Nat /\ n >= 1 /\ k \in Nat /\ k <= L
  <2> HIDE DEF L, M, k
  <2>1. QED  BY <1>2, <1>3, MaxSizeAssumption
<1>5. /\ \A i \in 1..n : c[i] \in Tickets
      /\ LeftInRam(q, k) \in Seq(Tickets)
      /\ Len(LeftInRam(q, k)) = n - 1
      /\ \A i \in 1..(n - 1) : LeftInRam(q, k)[i] = c[i + 1]
  BY <1>3, <1>4, LeftInRamIsSeq DEF Takes, TypeInv
<1>6. /\ accepted[q] = G + M + L /\ L <= spilled[q]
      /\ \A i \in 1..G : got[q][i] = <<q, i>>
      /\ \A i \in 1..M : inmem[q][i] = <<q, G + i>>
      /\ spill[q] # <<>> => M = MaxSize
      /\ \A i \in 1..L : spill[q][i] = spilled[q] - L + i - 1
      /\ \A i \in 1..L : Readable(q, i) => disk[SpillFile(q, i)] = <<q, G + M + i>>
  BY DEF Ordered
<1>7. \A i \in 1..n : c[i] = <<q, G + i>>
  <2> SUFFICES ASSUME NEW i \in 1..n  PROVE c[i] = <<q, G + i>>
    OBVIOUS
  <2>1. CASE i <= M
    <3>1. i \in 1..M
      <4> HIDE DEF M, n
      <4>1. QED  BY <1>2, <1>4, <2>1
    <3>2. c[i] = inmem[q][i]
      BY <2>1 DEF AtHand
    <3>3. QED  BY <1>6, <3>1, <3>2
  <2>2. CASE ~(i <= M)
    <3>1. i - M \in 1..k /\ i - M \in 1..L /\ G + M + (i - M) = G + i
      <4> HIDE DEF M, L, G, k
      <4>1. QED  BY <1>2, <1>4, <2>2
    <3>2. c[i] = disk[SpillFile(q, i - M)]
      BY <2>2 DEF AtHand
    <3>3. Readable(q, i - M)
      BY <3>1 DEF Takes
    <3>4. QED  BY <1>6, <3>1, <3>2, <3>3
  <2>3. QED  BY <2>1, <2>2
<1>8. c[1] = <<q, G + 1>> /\ c[1] \in Tickets
  <2>1. 1 \in 1..n
    <3> HIDE DEF n
    <3>1. QED  BY <1>4
  <2>2. QED  BY <1>5, <1>7, <2>1
<1>9. /\ got'[q] = Append(got[q], c[1])
      /\ inmem'[q] = LeftInRam(q, k)
      /\ accepted' = accepted /\ spilled' = spilled
  BY <1>1 DEF Takes
<1>10. /\ Len(got'[q]) = G + 1
       /\ \A i \in 1..G : got'[q][i] = got[q][i]
       /\ got'[q][G + 1] = c[1]
  BY <1>1, <1>8, <1>9, AppendProperties
<1>11. \A i \in 1..(G + 1) : got'[q][i] = <<q, i>>
  <2> SUFFICES ASSUME NEW i \in 1..(G + 1)  PROVE got'[q][i] = <<q, i>>
    OBVIOUS
  <2>1. i \in 1..G \/ i = G + 1
    <3> HIDE DEF G
    <3>1. QED  BY <1>2
  <2>2. QED  BY <1>6, <1>8, <1>10, <2>1
<1>12. Len(inmem'[q]) = n - 1
  BY <1>5, <1>9
<1>13. \A i \in 1..(n - 1) : inmem'[q][i] = <<q, (G + 1) + i>>
  <2> SUFFICES ASSUME NEW i \in 1..(n - 1)  PROVE inmem'[q][i] = <<q, (G + 1) + i>>
    OBVIOUS
  <2>1. i + 1 \in 1..n /\ G + (i + 1) = (G + 1) + i
    <3> HIDE DEF G, n
    <3>1. QED  BY <1>2, <1>4
  <2>2. QED  BY <1>5, <1>7, <1>9, <2>1
<1>14. /\ Len(spill'[q]) = L - k
       /\ \A i \in 1..(L - k) : spill'[q][i] = spill[q][i + k]
       /\ \A f \in DOMAIN disk' : f \in DOMAIN disk /\ disk'[f] = disk[f]
       /\ spill'[q] \in Seq(Nat)
  BY <1>3, DropPointersEffect DEF Takes, TypeInv
<1>15. L - k # 0 => n - 1 = MaxSize
  <2> SUFFICES ASSUME L - k # 0  PROVE n - 1 = MaxSize
    OBVIOUS
  <2>1. L >= 1
    <3> HIDE DEF L, k
    <3>1. QED  BY <1>2, <1>4
  <2>2. spill[q] # <<>>
    BY <2>1, EmptySeq
  <2>3. M = MaxSize
    BY <1>6, <2>2
  <2>4. inmem[q] # <<>>
    BY <2>3, EmptySeq, MaxSizeAssumption
  <2>5. k = 0 + Lesser(L - 0, MaxSize - (M + 0 - 1))
    BY <2>4 DEF Loads
  <2>6. k = 1
    <3> HIDE DEF L, M, k
    <3>1. QED  BY <1>2, <2>1, <2>3, <2>5, MaxSizeAssumption DEF Lesser
  <2>7. QED
    <3> HIDE DEF M, k
    <3>1. QED  BY <2>3, <2>6, MaxSizeAssumption
<1>16. spill'[q] # <<>> => n - 1 = MaxSize
  <2>1. spill'[q] # <<>> => L - k # 0
    BY <1>14, EmptySeq
  <2>2. QED  BY <1>15, <2>1
<1>17. \A i \in 1..(L - k) : spill'[q][i] = spilled[q] - (L - k) + i - 1
  <2> SUFFICES ASSUME NEW i \in 1..(L - k)
               PROVE  spill[q][i + k] = spilled[q] - (L - k) + i - 1
    BY <1>14
  <2>1. /\ i + k \in 1..L
        /\ spilled[q] - L + (i + k) - 1 = spilled[q] - (L - k) + i - 1
    <3> HIDE DEF L, k
    <3>1. QED  BY <1>2, <1>4
  <2>2. QED  BY <1>6, <2>1
<1>18. \A i \in 1..(L - k) :
          Readable(q, i)' => disk'[SpillFile(q, i)'] = <<q, (G + 1) + (n - 1) + i>>
  <2> SUFFICES ASSUME NEW i \in 1..(L - k), Readable(q, i)'
               PROVE  disk'[SpillFile(q, i)'] = <<q, (G + 1) + (n - 1) + i>>
    OBVIOUS
  <2>1. i + k \in 1..L /\ G + M + (i + k) = (G + 1) + (n - 1) + i
    <3> HIDE DEF L, k, G, M
    <3>1. QED  BY <1>2, <1>4
  <2>2. SpillFile(q, i)' = SpillFile(q, i + k)
    BY <1>14 DEF SpillFile, File
  <2>3. Readable(q, i + k) /\ disk'[SpillFile(q, i)'] = disk[SpillFile(q, i + k)]
    BY <1>14, <2>2 DEF Readable
  <2>4. QED  BY <1>6, <2>1, <2>3
<1>19. /\ accepted'[q] = (G + 1) + (n - 1) + (L - k)
       /\ L - k <= spilled[q]
  <2>1. accepted'[q] = G + M + L
    BY <1>6, <1>9
  <2> HIDE DEF L, k, G, M
  <2>2. QED  BY <1>2, <1>4, <1>6, <2>1
<1> HIDE DEF L, k, G, M, n, c
<1>20. QED
  BY <1>9, <1>10, <1>11, <1>12, <1>13, <1>14, <1>16, <1>17, <1>18, <1>19 DEF Ordered

\* A queue r that is not the one a step works on keeps its files: other queues
\* write under other names, and reads and cleanups only remove files.
LEMMA WriteSparesOtherQueues ==
  ASSUME DistinctExecs, NEW q \in Queues, NEW r \in Queues, q # r,
         NEW n, NEW c, Write(File(q, n), c), spill'[r] = spill[r],
         NEW i \in 1..Len(spill[r]), Readable(r, i)'
  PROVE  Readable(r, i) /\ disk'[SpillFile(r, i)] = disk[SpillFile(r, i)]
<1>1. SpillFile(r, i) # File(q, n)
  BY FilesDiffer DEF SpillFile
<1>2. SpillFile(r, i)' = SpillFile(r, i)
  BY DEF SpillFile, File
<1>3. QED  BY <1>1, <1>2 DEF Readable, Write

LEMMA UnlinkSparesTheRest ==
  ASSUME NEW fs, Unlink(fs), NEW r \in Queues, spill'[r] = spill[r],
         NEW i \in 1..Len(spill[r]), Readable(r, i)'
  PROVE  Readable(r, i) /\ disk'[SpillFile(r, i)] = disk[SpillFile(r, i)]
BY DEF Unlink, Readable, SpillFile, File

\* What a put does to the queue r it is not called on, and a failed write to
\* any queue: the new or truncated file is not one the queue points to.
LEMMA PutStepKeepsOrder ==
  ASSUME TypeInv, DistinctExecs, OrderInv, NEW t \in Threads, NEW q \in Queues,
         PutStep(t, q)
  PROVE  OrderInv'
<1> SUFFICES ASSUME NEW r \in Queues, intact'[r]  PROVE Ordered(r)'
  BY DEF OrderInv
<1>1. CASE PutInRam(t, q) \/ PutResumes(t, q)
  <2>1. HasRoom(q) /\ AppendToRam(t, q)
    BY <1>1 DEF PutInRam, PutResumes
  <2>2. Ordered(r)
    BY <2>1 DEF OrderInv, AppendToRam
  <2>3. CASE r = q
    BY <2>1, <2>2, <2>3, AppendToRamKeepsOrder
  <2>4. CASE r # q
    BY <2>1, <2>2, <2>4, UntouchedStaysOrdered
    DEF AppendToRam, Readable, SpillFile, File, TypeInv, QueueTypeOK
  <2>5. QED  BY <2>3, <2>4
<1>2. CASE PutOnDisk(t, q)
  <2>1. Ordered(r)
    BY <1>2 DEF OrderInv, PutOnDisk
  <2>2. CASE r = q
    BY <1>2, <2>1, <2>2, PutOnDiskKeepsOrder
  <2>3. CASE r # q
    <3>1. /\ inmem'[r] = inmem[r] /\ spill'[r] = spill[r] /\ spilled'[r] = spilled[r]
          /\ accepted'[r] = accepted[r] /\ got'[r] = got[r]
      BY <1>2, <2>3 DEF PutOnDisk, TypeInv, QueueTypeOK
    <3>2. \A i \in 1..Len(spill[r]) :
             Readable(r, i)' => Readable(r, i) /\ disk'[SpillFile(r, i)] = disk[SpillFile(r, i)]
      BY <1>2, <2>3, <3>1, WriteSparesOtherQueues DEF PutOnDisk
    <3>3. QED  BY <2>1, <3>1, <3>2, UntouchedStaysOrdered
  <2>4. QED  BY <2>2, <2>3
<1>3. CASE PutDiskError(t, q)
  <2>1. Ordered(r)
    BY <1>3 DEF OrderInv, PutDiskError
  <2>2. \A i \in 1..Len(spill[r]) :
           Readable(r, i)' => Readable(r, i) /\ disk'[SpillFile(r, i)] = disk[SpillFile(r, i)]
    <3>1. SUFFICES ASSUME NEW i \in 1..Len(spill[r]), Readable(r, i)'
                   PROVE  Readable(r, i) /\ disk'[SpillFile(r, i)] = disk[SpillFile(r, i)]
      OBVIOUS
    <3>2. CASE r = q
      <4>1. spill[r][i] # spilled[q]
        <5> DEFINE L == Len(spill[r])
                   n == spilled[q]
        <5>1. L \in Nat /\ n \in Nat /\ spill[r][i] = n - L + i - 1
          BY <2>1, <3>2, LenProperties DEF Ordered, TypeInv, QueueTypeOK
        <5> HIDE DEF L, n
        <5>2. i \in 1..L
          BY DEF L
        <5>3. n - L + i - 1 # n
          BY <5>1, <5>2
        <5>4. QED  BY <5>1, <5>3 DEF n
      <4>2. SpillFile(r, i) # File(q, spilled[q])
        BY <4>1 DEF SpillFile, File
      <4>3. QED
        BY <1>3, <3>1, <4>2 DEF PutDiskError, Write, Readable, SpillFile, File
    <3>3. CASE r # q
      BY <1>3, <3>1, <3>3, WriteSparesOtherQueues DEF PutDiskError
    <3>4. QED  BY <3>2, <3>3
  <2>3. QED  BY <1>3, <2>1, <2>2, UntouchedStaysOrdered DEF PutDiskError
<1>4. CASE \/ \E timed \in BOOLEAN : PutSleeps(t, q, timed)
           \/ PutFindsClosed(t, q) \/ PutSleepsAgain(t, q) \/ PutTimesOut(t, q)
  <2>1. UNCHANGED <<inmem, spill, spilled, disk, accepted, got, intact>>
    BY <1>4 DEF PutSleeps, PutFindsClosed, PutSleepsAgain, PutTimesOut, Returns, SleepsAgain
  <2>2. Ordered(r)
    BY <2>1 DEF OrderInv
  <2>3. QED
    BY <2>1, <2>2, UntouchedStaysOrdered DEF Readable, SpillFile, File
<1>5. QED  BY <1>1, <1>2, <1>3, <1>4 DEF PutStep

LEMMA GetStepKeepsOrder ==
  ASSUME TypeInv, OrderInv, NEW t \in Threads, NEW q \in Queues, GetStep(t, q)
  PROVE  OrderInv'
<1> SUFFICES ASSUME NEW r \in Queues, intact'[r]  PROVE Ordered(r)'
  BY DEF OrderInv
<1>1. CASE Get(t, q)
  <2>1. Takes(t, q)
    BY <1>1 DEF Get
  <2>2. Ordered(r)
    BY <2>1 DEF OrderInv, Takes
  <2>3. CASE r = q
    BY <2>1, <2>2, <2>3, TakesKeepsOrder
  <2>4. CASE r # q
    <3>1. /\ inmem'[r] = inmem[r] /\ spill'[r] = spill[r] /\ spilled'[r] = spilled[r]
          /\ accepted'[r] = accepted[r] /\ got'[r] = got[r]
      BY <2>1, <2>4 DEF Takes, DropPointers, TypeInv, QueueTypeOK
    <3>2. Unlink({SpillFile(q, i) : i \in 1..Loads(q)})
      BY <2>1 DEF Takes, DropPointers
    <3>3. QED  BY <2>2, <3>1, <3>2, UnlinkSparesTheRest, UntouchedStaysOrdered
  <2>5. QED  BY <2>3, <2>4
<1>2. CASE GetReadError(t, q)
  <2>1. ReadFails(t, q)
    BY <1>2 DEF GetReadError
  <2>2. r # q /\ intact[r]
    BY <2>1 DEF ReadFails, TypeInv, QueueTypeOK
  <2>3. PICK k \in 1..Loads(q) :
            /\ inmem' = [inmem EXCEPT ![q] = LeftInRam(q, k - 1)]
            /\ DropPointers(q, k)
    BY <2>1 DEF ReadFails
  <2>4. /\ inmem'[r] = inmem[r] /\ spill'[r] = spill[r] /\ spilled'[r] = spilled[r]
        /\ accepted'[r] = accepted[r] /\ got'[r] = got[r]
    BY <2>1, <2>2, <2>3 DEF ReadFails, DropPointers, TypeInv, QueueTypeOK
  <2>5. Unlink({SpillFile(q, i) : i \in 1..k})
    BY <2>3 DEF DropPointers
  <2>6. Ordered(r)
    BY <2>2 DEF OrderInv
  <2>7. QED  BY <2>4, <2>5, <2>6, UnlinkSparesTheRest, UntouchedStaysOrdered
<1>3. CASE \/ \E timed \in BOOLEAN : GetSleeps(t, q, timed)
           \/ GetDrained(t, q) \/ GetSleepsAgain(t, q) \/ GetTimesOut(t, q)
  <2>1. UNCHANGED <<inmem, spill, spilled, disk, accepted, got, intact>>
    BY <1>3 DEF GetSleeps, GetDrained, GetSleepsAgain, GetTimesOut, Returns, SleepsAgain
  <2>2. Ordered(r)
    BY <2>1 DEF OrderInv
  <2>3. QED
    BY <2>1, <2>2, UntouchedStaysOrdered DEF Readable, SpillFile, File
<1>4. QED  BY <1>1, <1>2, <1>3 DEF GetStep

LEMMA HousekeepingKeepsOrder ==
  ASSUME TypeInv, OrderInv,
         \/ \E q \in Queues : Close(q) \/ Cleanup(q)
         \/ \E e \in Execs : Sweep(e)
         \/ \E f \in doomed : UnlinkDoomed(f)
  PROVE  OrderInv'
<1> SUFFICES ASSUME NEW r \in Queues, intact'[r]  PROVE Ordered(r)'
  BY DEF OrderInv
<1>1. CASE (\E q \in Queues : Close(q)) \/ (\E e \in Execs : Sweep(e))
  <2>1. UNCHANGED <<inmem, spill, spilled, disk, accepted, got, intact>>
    BY <1>1 DEF Close, Sweep
  <2>2. Ordered(r)
    BY <2>1 DEF OrderInv
  <2>3. QED
    BY <2>1, <2>2, UntouchedStaysOrdered DEF Readable, SpillFile, File
<1>2. ASSUME NEW q \in Queues, Cleanup(q)  PROVE Ordered(r)'
  <2>1. intact[r] /\ (r = q => spill[r] = <<>>)
    BY <1>2 DEF Cleanup, TypeInv, QueueTypeOK
  <2>2. Ordered(r)
    BY <2>1 DEF OrderInv
  <2>3. spill'[r] = spill[r]
    BY <1>2, <2>1 DEF Cleanup, TypeInv, QueueTypeOK
  <2>4. QED
    BY <1>2, <2>2, <2>3, UntouchedStaysOrdered DEF Cleanup, Readable, SpillFile, File
<1>3. ASSUME NEW f \in doomed, UnlinkDoomed(f)  PROVE Ordered(r)'
  <2>1. Ordered(r)
    BY <1>3 DEF UnlinkDoomed, OrderInv
  <2>2. QED
    BY <1>3, <2>1, UnlinkSparesTheRest, UntouchedStaysOrdered DEF UnlinkDoomed
<1>4. QED  BY <1>1, <1>2, <1>3

LEMMA StartIsOrdered == QueueInit => OrderInv
BY EmptySeq, MaxSizeAssumption DEF QueueInit, OrderInv, Ordered

LEMMA StepKeepsOrder ==
  ASSUME DistinctExecs
  PROVE  TypeInv /\ OrderInv /\ [QueueNext]_queueVars => OrderInv'
<1> SUFFICES ASSUME TypeInv, OrderInv, [QueueNext]_queueVars  PROVE OrderInv'
  OBVIOUS
<1>1. CASE \E t \in Threads, q \in Queues : PutStep(t, q) \/ GetStep(t, q)
  BY <1>1, PutStepKeepsOrder, GetStepKeepsOrder
<1>2. CASE \/ \E q \in Queues : Close(q) \/ Cleanup(q)
           \/ \E e \in Execs : Sweep(e)
           \/ \E f \in doomed : UnlinkDoomed(f)
  BY <1>2, HousekeepingKeepsOrder
<1>3. CASE UNCHANGED queueVars
  BY <1>3 DEF queueVars, OrderInv, Ordered, Readable, SpillFile, File
<1>4. QED  BY <1>1, <1>2, <1>3 DEF QueueNext

THEOREM OrderInvInductive ==
  ASSUME DistinctExecs
  PROVE  QueueSpec => [](TypeInv /\ OrderInv)
BY StartIsOrdered, StepKeepsOrder, TypeInvInductive, PTL DEF QueueSpec

\* With one queue per execution, an intact queue delivers exactly the chunks it
\* accepted, in the order it accepted them, however many go through the disk.
THEOREM FifoDelivery ==
  ASSUME DistinctExecs
  PROVE  QueueSpec => []Fifo
<1>1. OrderInv => Fifo
  BY DEF OrderInv, Ordered, Fifo
<1>2. QED  BY <1>1, OrderInvInductive, PTL

\* ... and never loses one: a queue found closed and drained has delivered
\* everything.
THEOREM NoChunkLost ==
  ASSUME DistinctExecs
  PROVE  QueueSpec => []NothingLost
<1>1. OrderInv => NothingLost
  BY DEF OrderInv, Ordered, NothingLost
<1>2. QED  BY <1>1, OrderInvInductive, PTL

\* ... and spills only behind a full RAM.
THEOREM SpillBehindFullRam ==
  ASSUME DistinctExecs
  PROVE  QueueSpec => []SpillOnlyBehindFullRam
<1>1. OrderInv => SpillOnlyBehindFullRam
  BY DEF OrderInv, Ordered, SpillOnlyBehindFullRam
<1>2. QED  BY <1>1, OrderInvInductive, PTL

\* The RAM is bounded and used before the disk.
THEOREM RamDisciplined ==
  ASSUME DistinctExecs
  PROVE  QueueSpec => []RamDiscipline
BY TypeCorrect, RamBounded, SpillBehindFullRam, PTL DEF RamDiscipline

-----------------------------------------------------------------------------
(* The queue implements the channel.  Sleeping, spilling, refilling, and    *)
(* the housekeeping of files are steps the channel does not see.            *)

CVars == <<accepted, got, closed, [q \in Queues |-> ~intact[q]]>>

\* An intact queue with a chunk to deliver holds one in the channel's eyes too.
LEMMA SomeInside ==
  ASSUME TypeInv, OrderInv, NEW q \in Queues, intact[q],
         inmem[q] # <<>> \/ spill[q] # <<>>
  PROVE  Channel!HoldsSome(q)
<1> DEFINE L == Len(spill[q])
           M == Len(inmem[q])
           G == Len(got[q])
<1>1. L \in Nat /\ M \in Nat /\ G \in Nat
  BY LenProperties DEF TypeInv, QueueTypeOK
<1>2. M # 0 \/ L # 0
  BY EmptySeq DEF TypeInv, QueueTypeOK
<1>3. accepted[q] = G + M + L
  BY DEF OrderInv, Ordered
<1>4. G < accepted[q]
  <2> HIDE DEF L, M, G
  <2>1. QED  BY <1>1, <1>2, <1>3
<1>5. QED  BY <1>4 DEF Channel!HoldsSome

LEMMA PutIsPut ==
  ASSUME NEW q \in Queues, ~closed[q], accepted' = [accepted EXCEPT ![q] = @ + 1],
         UNCHANGED <<got, closed, intact>>
  PROVE  Channel!Put(q)
BY DEF Channel!Put

\* The chunk taken from an intact queue is the one the channel gives.
LEMMA TakesIsGet ==
  ASSUME TypeInv, OrderInv, NEW t \in Threads, NEW q \in Queues, Takes(t, q)
  PROVE  Channel!Get(q) \/ Channel!GetFromBroken(q)
<1> DEFINE x == AtHand(q, Loads(q))[1]
           G == Len(got[q])
<1>1. got \in [Queues -> Seq(Tickets)] /\ inmem \in [Queues -> Seq(Tickets)]
      /\ Len(inmem[q]) \in Nat /\ G \in Nat
  BY LenProperties DEF TypeInv, QueueTypeOK
<1>2. x \in Tickets
  <2> DEFINE n == Len(inmem[q]) + Loads(q)
  <2>1. Loads(q) \in 0..Len(spill[q]) /\ n \in 1..(MaxSize + 1)
    BY LoadsBounds DEF Takes, TypeInv
  <2>2. n \in Nat /\ n >= 1
    BY <2>1, MaxSizeAssumption
  <2>3. \A i \in 1..n : AtHand(q, Loads(q))[i] \in Tickets
    BY <2>1, <2>2, LeftInRamIsSeq DEF Takes, TypeInv
  <2>4. 1 \in 1..n
    <3> HIDE DEF n
    <3>1. QED  BY <2>2
  <2>5. QED  BY <2>3, <2>4
<1>3. got' = [got EXCEPT ![q] = Append(got[q], x)] /\ got'[q] = Append(got[q], x)
  BY <1>1 DEF Takes
<1>4. Len(got'[q]) = G + 1 /\ got'[q][G + 1] = x
  BY <1>1, <1>2, <1>3, AppendProperties
<1>5. UNCHANGED <<accepted, closed, intact>>
  BY DEF Takes
<1>6. CASE intact[q]
  <2>1. Ordered(q)'
    BY <1>6, TakesKeepsOrder DEF OrderInv
  <2>2. \A i \in 1..Len(got'[q]) : got'[q][i] = <<q, i>>
    BY <2>1 DEF Ordered
  <2>3. G + 1 \in 1..Len(got'[q])
    <3> HIDE DEF G
    <3>1. QED  BY <1>1, <1>4
  <2>4. x = <<q, G + 1>>
    BY <1>4, <2>2, <2>3
  <2>5. Channel!HoldsSome(q)
    BY <1>6, SomeInside DEF Takes, HasChunk
  <2>6. QED  BY <1>3, <1>5, <1>6, <2>4, <2>5 DEF Channel!Get
<1>7. CASE ~intact[q]
  BY <1>3, <1>4, <1>5, <1>7 DEF Channel!GetFromBroken
<1>8. QED  BY <1>6, <1>7 DEF TypeInv, QueueTypeOK

\* A step that loses chunks of queue q: the channel breaks, or was broken.
LEMMA LossIsLose ==
  ASSUME TypeInv, OrderInv, NEW q \in Queues, NEW kept \in BOOLEAN,
         intact' = [intact EXCEPT ![q] = @ /\ kept],
         ~kept => inmem[q] # <<>> \/ spill[q] # <<>>,
         UNCHANGED <<accepted, got, closed>>
  PROVE  Channel!Lose(q) \/ UNCHANGED CVars
<1>1. intact \in [Queues -> BOOLEAN]
  BY DEF TypeInv, QueueTypeOK
<1>2. CASE intact[q] /\ ~kept
  <2>1. Channel!HoldsSome(q)
    BY <1>2, SomeInside
  <2>2. [r \in Queues |-> ~intact'[r]] = [[r \in Queues |-> ~intact[r]] EXCEPT ![q] = TRUE]
    BY <1>1, <1>2
  <2>3. QED  BY <2>1, <2>2 DEF Channel!Lose
<1>3. CASE ~(intact[q] /\ ~kept)
  <2>1. intact' = intact
    BY <1>1, <1>3
  <2>2. QED  BY <2>1 DEF CVars
<1>4. QED  BY <1>2, <1>3

LEMMA StepOfChannel ==
  ASSUME TypeInv, OrderInv, [QueueNext]_queueVars
  PROVE  [Channel!Next]_(CVars)
<1>1. ASSUME NEW t \in Threads, NEW q \in Queues, PutStep(t, q)
      PROVE  Channel!Next \/ UNCHANGED CVars
  <2>1. CASE PutInRam(t, q) \/ PutOnDisk(t, q) \/ PutResumes(t, q)
    <3>1. ~closed[q] /\ accepted' = [accepted EXCEPT ![q] = @ + 1]
          /\ UNCHANGED <<got, closed, intact>>
      BY <2>1 DEF PutInRam, PutOnDisk, PutResumes, MayPut, AppendToRam
    <3>2. QED  BY <3>1, PutIsPut DEF Channel!Next
  <2>2. CASE \/ PutDiskError(t, q) \/ \E timed \in BOOLEAN : PutSleeps(t, q, timed)
             \/ PutFindsClosed(t, q) \/ PutSleepsAgain(t, q) \/ PutTimesOut(t, q)
    BY <2>2 DEF PutDiskError, PutSleeps, PutFindsClosed, PutSleepsAgain, PutTimesOut,
                Returns, SleepsAgain, CVars
  <2>3. QED  BY <1>1, <2>1, <2>2 DEF PutStep
<1>2. ASSUME NEW t \in Threads, NEW q \in Queues, GetStep(t, q)
      PROVE  Channel!Next \/ UNCHANGED CVars
  <2>1. CASE Get(t, q)
    BY <2>1, TakesIsGet DEF Get, Channel!Next
  <2>2. CASE GetReadError(t, q)
    <3>1. intact' = [intact EXCEPT ![q] = @ /\ FALSE]
          /\ UNCHANGED <<accepted, got, closed>> /\ HasChunk(q)
      BY <2>2 DEF GetReadError, ReadFails, TypeInv, QueueTypeOK
    <3>2. QED  BY <3>1, LossIsLose DEF HasChunk, Channel!Next
  <2>3. CASE \/ \E timed \in BOOLEAN : GetSleeps(t, q, timed)
             \/ GetDrained(t, q) \/ GetSleepsAgain(t, q) \/ GetTimesOut(t, q)
    BY <2>3 DEF GetSleeps, GetDrained, GetSleepsAgain, GetTimesOut, Returns, SleepsAgain, CVars
  <2>4. QED  BY <1>2, <2>1, <2>2, <2>3 DEF GetStep
<1>3. ASSUME NEW q \in Queues, Close(q)  PROVE Channel!Next
  BY <1>3 DEF Close, Channel!Next, Channel!Shut
<1>4. ASSUME NEW q \in Queues, Cleanup(q)  PROVE Channel!Next \/ UNCHANGED CVars
  <2> DEFINE kept == spill[q] = <<>>
  <2>1. intact' = [intact EXCEPT ![q] = @ /\ kept] /\ UNCHANGED <<accepted, got, closed>>
    BY <1>4 DEF Cleanup
  <2>2. kept \in BOOLEAN /\ (~kept => spill[q] # <<>>)
    OBVIOUS
  <2> HIDE DEF kept
  <2>3. QED  BY <2>1, <2>2, LossIsLose DEF Channel!Next
<1>5. CASE (\E e \in Execs : Sweep(e)) \/ (\E f \in doomed : UnlinkDoomed(f)) \/ UNCHANGED queueVars
  BY <1>5 DEF Sweep, UnlinkDoomed, queueVars, CVars
<1>6. QED  BY <1>1, <1>2, <1>3, <1>4, <1>5 DEF QueueNext

\* However many chunks go through the disk, whoever sleeps, times out, fails to
\* read or sweeps files: what the callers of a queue see is a channel that is
\* first in, first out, closed to puts once closed.
THEOREM QueueIsChannel ==
  ASSUME DistinctExecs
  PROVE  QueueSpec => ImplementsChannel
<1>1. QueueInit => Channel!Init
  BY DEF QueueInit, Channel!Init
<1>2. TypeInv /\ OrderInv /\ [QueueNext]_queueVars => [Channel!Next]_(Channel!vars)
  BY StepOfChannel DEF CVars, Channel!vars
<1>3. QED
  BY <1>1, <1>2, OrderInvInductive, PTL DEF QueueSpec, ImplementsChannel, Channel!Spec

-----------------------------------------------------------------------------
(* The files.  Queues of one execution may write over and unlink each       *)
(* other's files; none of it leaves a file that nobody will ever unlink.    *)

PointedTo(f) == \E q \in Queues : \E i \in 1..Len(spill[q]) : f = SpillFile(q, i)

\* A step that queues no pointer and drops none, and writes no file.
LEMMA SamePointers ==
  ASSUME NoOrphanFile, UNCHANGED spill,
         \A f \in DOMAIN disk' : /\ f \in DOMAIN disk /\ disk'[f] = disk[f]
                                 /\ f \in doomed => f \in doomed'
  PROVE  NoOrphanFile'
BY DEF NoOrphanFile, SpillFile, File

\* A file whose pointer is dropped is unlinked in the same step.
LEMMA DroppedFilesAreUnlinked ==
  ASSUME QueueTypeOK, NoOrphanFile, NEW q \in Queues, NEW k \in 0..Len(spill[q]),
         DropPointers(q, k), UNCHANGED doomed
  PROVE  NoOrphanFile'
<1>1. /\ \A r \in Queues \ {q} : spill'[r] = spill[r]
      /\ Len(spill'[q]) = Len(spill[q]) - k
      /\ \A i \in 1..(Len(spill[q]) - k) : spill'[q][i] = spill[q][i + k]
      /\ DOMAIN disk' = DOMAIN disk \ {SpillFile(q, i) : i \in 1..k}
      /\ \A f \in DOMAIN disk' : disk'[f] = disk[f]
  BY DropPointersEffect
<1> DEFINE L == Len(spill[q])
<1>2. L \in Nat
  BY LenProperties DEF QueueTypeOK
<1>3. SUFFICES ASSUME NEW f \in DOMAIN disk', PointedTo(f)
               PROVE  PointedTo(f)'
  BY <1>1 DEF NoOrphanFile, PointedTo
<1>4. PICK r \in Queues : \E i \in 1..Len(spill[r]) : f = SpillFile(r, i)
  BY <1>3 DEF PointedTo
<1>5. PICK i \in 1..Len(spill[r]) : f = SpillFile(r, i)
  BY <1>4
<1>6. CASE r # q
  <2>1. i \in 1..Len(spill'[r]) /\ f = SpillFile(r, i)'
    BY <1>1, <1>5, <1>6 DEF SpillFile, File
  <2>2. QED  BY <2>1 DEF PointedTo
<1>7. CASE r = q
  <2>1. i \notin 1..k
    BY <1>1, <1>5, <1>7
  <2>2. i \in 1..L
    BY <1>5, <1>7
  <2> HIDE DEF L
  <2>3. i - k \in 1..(L - k) /\ (i - k) + k = i
    BY <1>2, <2>1, <2>2
  <2>4. spill'[q][i - k] = spill[q][i]
    BY <1>1, <2>3 DEF L
  <2>5. i - k \in 1..Len(spill'[q]) /\ f = SpillFile(q, i - k)'
    BY <1>1, <1>5, <1>7, <2>3, <2>4 DEF SpillFile, File, L
  <2>6. QED  BY <2>5 DEF PointedTo
<1>8. QED  BY <1>6, <1>7

\* The file a put writes is the one its new pointer names.
LEMMA WrittenFileIsPointedTo ==
  ASSUME QueueTypeOK, NoOrphanFile, NEW t \in Threads, NEW q \in Queues, PutOnDisk(t, q)
  PROVE  NoOrphanFile'
<1> DEFINE s == spill[q]
           L == Len(s)
           n == spilled[q]
<1>1. s \in Seq(Nat) /\ L \in Nat /\ n \in Nat
  BY LenProperties DEF QueueTypeOK
<1>2. /\ Len(Append(s, n)) = L + 1
      /\ \A i \in 1..L : Append(s, n)[i] = s[i]
      /\ Append(s, n)[L + 1] = n
  <2> HIDE DEF s, n
  <2>1. QED  BY <1>1, AppendProperties
<1>3. spill'[q] = Append(s, n) /\ \A r \in Queues \ {q} : spill'[r] = spill[r]
  BY DEF PutOnDisk, QueueTypeOK
<1>4. /\ DOMAIN disk' = DOMAIN disk \union {File(q, n)}
      /\ \A f \in DOMAIN disk : f # File(q, n) => disk'[f] = disk[f]
      /\ doomed' = doomed
  BY DEF PutOnDisk, Write
<1>5. ASSUME NEW f, f = File(q, n)  PROVE PointedTo(f)'
  <2>1. PICK i \in Nat : i = L + 1
    BY <1>1
  <2>2. i \in 1..Len(spill'[q]) /\ spill'[q][i] = n
    <3> HIDE DEF s, n
    <3>1. QED  BY <1>1, <1>2, <1>3, <2>1
  <2>3. f = SpillFile(q, i)'
    BY <1>5, <2>2 DEF SpillFile, File
  <2>4. QED  BY <2>2, <2>3 DEF PointedTo
<1>6. ASSUME NEW f, PointedTo(f)  PROVE PointedTo(f)'
  <2>1. PICK r \in Queues : \E i \in 1..Len(spill[r]) : f = SpillFile(r, i)
    BY <1>6 DEF PointedTo
  <2>2. PICK i \in 1..Len(spill[r]) : f = SpillFile(r, i)
    BY <2>1
  <2>3. CASE r # q
    <3>1. i \in 1..Len(spill'[r]) /\ f = SpillFile(r, i)'
      BY <1>3, <2>2, <2>3 DEF SpillFile, File
    <3>2. QED  BY <3>1 DEF PointedTo
  <2>4. CASE r = q
    <3>1. i \in 1..Len(spill'[q]) /\ f = SpillFile(q, i)'
      BY <1>1, <1>2, <1>3, <2>2, <2>4 DEF SpillFile, File
    <3>2. QED  BY <3>1 DEF PointedTo
  <2>5. QED  BY <2>3, <2>4
<1>7. QED  BY <1>4, <1>5, <1>6 DEF NoOrphanFile, PointedTo

LEMMA StepLeavesNoOrphan == TypeInv /\ NoOrphanFile /\ [QueueNext]_queueVars => NoOrphanFile'
<1> SUFFICES ASSUME TypeInv, NoOrphanFile, [QueueNext]_queueVars  PROVE NoOrphanFile'
  OBVIOUS
<1> USE DEF TypeInv
<1>1. ASSUME NEW t \in Threads, NEW q \in Queues, PutStep(t, q)  PROVE NoOrphanFile'
  <2>1. CASE PutOnDisk(t, q)
    BY <2>1, WrittenFileIsPointedTo
  <2>2. CASE PutDiskError(t, q)
    BY <2>2 DEF PutDiskError, Write, NoOrphanFile, SpillFile, File
  <2>3. CASE UNCHANGED <<spill, disk, doomed>>
    BY <2>3, SamePointers
  <2>4. QED
    BY <1>1, <2>1, <2>2, <2>3
       DEF PutStep, PutInRam, PutResumes, AppendToRam, PutSleeps, PutFindsClosed, Returns,
           PutSleepsAgain, SleepsAgain, PutTimesOut
<1>2. ASSUME NEW t \in Threads, NEW q \in Queues, GetStep(t, q)  PROVE NoOrphanFile'
  <2>1. CASE Get(t, q)
    <3>1. Loads(q) \in 0..Len(spill[q])
      BY <2>1, LoadsBounds DEF Get, Takes
    <3>2. QED  BY <2>1, <3>1, DroppedFilesAreUnlinked DEF Get, Takes
  <2>2. CASE GetReadError(t, q)
    <3>1. Loads(q) \in 0..Len(spill[q]) /\ Len(spill[q]) \in Nat
      BY <2>2, LoadsBounds, LenProperties DEF GetReadError, ReadFails, QueueTypeOK
    <3>2. PICK k \in 1..Loads(q) : DropPointers(q, k)
      BY <2>2 DEF GetReadError, ReadFails
    <3>3. k \in 0..Len(spill[q])
      BY <3>1, <3>2
    <3>4. QED  BY <2>2, <3>2, <3>3, DroppedFilesAreUnlinked DEF GetReadError, ReadFails
  <2>3. CASE UNCHANGED <<spill, disk, doomed>>
    BY <2>3, SamePointers
  <2>4. QED
    BY <1>2, <2>1, <2>2, <2>3
       DEF GetStep, GetDrained, Returns, GetSleeps, GetSleepsAgain, SleepsAgain, GetTimesOut
<1>3. ASSUME NEW q \in Queues, Cleanup(q)  PROVE NoOrphanFile'
  <2>1. \A r \in Queues \ {q} : spill'[r] = spill[r]
    BY <1>3 DEF Cleanup, QueueTypeOK
  <2>2. disk' = disk /\ doomed' = doomed \union {SpillFile(q, i) : i \in 1..Len(spill[q])}
    BY <1>3 DEF Cleanup
  <2>3. QED  BY <2>1, <2>2 DEF NoOrphanFile, SpillFile, File
<1>4. ASSUME NEW q \in Queues, Close(q)  PROVE NoOrphanFile'
  BY <1>4, SamePointers DEF Close
<1>5. ASSUME NEW e \in Execs, Sweep(e)  PROVE NoOrphanFile'
  BY <1>5, SamePointers DEF Sweep
<1>6. ASSUME NEW f \in doomed, UnlinkDoomed(f)  PROVE NoOrphanFile'
  BY <1>6, SamePointers DEF UnlinkDoomed, Unlink
<1>7. CASE UNCHANGED queueVars
  BY <1>7, SamePointers DEF queueVars
<1>8. QED  BY <1>1, <1>2, <1>3, <1>4, <1>5, <1>6, <1>7 DEF QueueNext

\* _load_spill_locked, cleanup and cleanup_execution_spill: whatever fails and
\* whoever shares the directory, a file that was written in full is pointed to
\* by a queue or is in the hands of a cleanup.
THEOREM NoFileOrphaned == QueueSpec => []NoOrphanFile
<1>1. QueueInit => NoOrphanFile
  BY DEF QueueInit, NoOrphanFile
<1>2. QED  BY <1>1, StepLeavesNoOrphan, TypeInvInductive, PTL DEF QueueSpec

-----------------------------------------------------------------------------
(* The wakeups.  notify() wakes one thread for each chunk and each slot;    *)
(* what has to be counted is that no woken thread is needed twice.          *)

Ops == {"get", "put"}

\* A queue that spills lets nobody wait in put, and one that does not has no
\* pointers: this is why a failed read, which frees a slot of the RAM and
\* notifies nobody, leaves no putter asleep.
WaitersByKind ==
    /\ \A t \in Threads :
          thread[t] \in Waits /\ thread[t].op = "put" => ~spillOn[thread[t].queue]
    /\ \A q \in Queues : ~spillOn[q] => spill[q] = <<>>

WakeInv == NoLostWakeup /\ WaitersByKind

\* The number of woken threads, when none but t goes and perhaps s comes.
LEMMA WokenFinite ==
  ASSUME NEW op, NEW q
  PROVE  /\ IsFiniteSet(Woken(op, q)) /\ Cardinality(Woken(op, q)) \in Nat
         /\ IsFiniteSet(Woken(op, q)') /\ Cardinality(Woken(op, q)') \in Nat
<1>1. Woken(op, q) \subseteq Threads /\ Woken(op, q)' \subseteq Threads
  BY DEF Woken
<1>2. IsFiniteSet(Woken(op, q)) /\ IsFiniteSet(Woken(op, q)')
  BY <1>1, ThreadsAssumption, FS_Subset
<1>3. QED  BY <1>2, FS_CardinalityType

LEMMA OneWokenGoes ==
  ASSUME NEW op, NEW q, NEW t, Woken(op, q) \ {t} \subseteq Woken(op, q)'
  PROVE  /\ Cardinality(Woken(op, q)) <= Cardinality(Woken(op, q)') + 1
         /\ t \notin Woken(op, q) => Cardinality(Woken(op, q)) <= Cardinality(Woken(op, q)')
<1> DEFINE S == Woken(op, q)
           T == Woken(op, q)'
<1>1. IsFiniteSet(S) /\ IsFiniteSet(T) /\ Cardinality(S) \in Nat /\ Cardinality(T) \in Nat
  BY WokenFinite
<1>2. S \ {t} \subseteq T
  OBVIOUS
<1> HIDE DEF S, T
<1>3. IsFiniteSet(T \union {t}) /\ Cardinality(T \union {t}) <= Cardinality(T) + 1
  BY <1>1, FS_AddElement
<1>4. S \subseteq T \union {t}
  BY <1>2
<1>5. Cardinality(S) <= Cardinality(T \union {t}) /\ Cardinality(T \union {t}) \in Nat
  BY <1>3, <1>4, FS_Subset, FS_CardinalityType
<1>6. Cardinality(S) <= Cardinality(T) + 1
  BY <1>1, <1>3, <1>5
<1>7. t \notin S => S \subseteq T
  BY <1>2
<1>8. t \notin S => Cardinality(S) <= Cardinality(T)
  BY <1>1, <1>7, FS_Subset
<1>9. QED  BY <1>6, <1>8 DEF S, T

LEMMA OneWokenComes ==
  ASSUME NEW op, NEW q, NEW s, s \notin Woken(op, q), s \in Woken(op, q)',
         Woken(op, q) \subseteq Woken(op, q)'
  PROVE  Cardinality(Woken(op, q)) + 1 <= Cardinality(Woken(op, q)')
<1> DEFINE S == Woken(op, q)
           T == Woken(op, q)'
<1>1. IsFiniteSet(S) /\ IsFiniteSet(T) /\ Cardinality(S) \in Nat /\ Cardinality(T) \in Nat
  BY WokenFinite
<1>2. S \union {s} \subseteq T /\ s \notin S
  OBVIOUS
<1> HIDE DEF S, T
<1>3. Cardinality(S \union {s}) = Cardinality(S) + 1
  BY <1>1, <1>2, FS_AddElement
<1>4. Cardinality(S \union {s}) <= Cardinality(T)
  BY <1>1, <1>2, FS_Subset
<1>5. QED  BY <1>3, <1>4 DEF S, T

\* The caller leaves the queue, and wakes nobody.
LEMMA CallerLeaves ==
  ASSUME QueueTypeOK, NEW t \in Threads, thread' = [thread EXCEPT ![t] = NotInside], NEW op, NEW q
  PROVE  /\ Sleepers(op, q)' \subseteq Sleepers(op, q)
         /\ Woken(op, q) \ {t} \subseteq Woken(op, q)'
<1>1. NotInside \notin Waits
  BY DEF NotInside, Waits
<1>2. thread'[t] = NotInside /\ \A u \in Threads \ {t} : thread'[u] = thread[u]
  BY DEF QueueTypeOK
<1>3. QED  BY <1>1, <1>2 DEF Sleepers, Woken

\* The caller leaves the queue, having notified a condition it does not wait for.
LEMMA CallerNotifies ==
  ASSUME QueueTypeOK, NEW t \in Threads, NEW op \in Ops, NEW q \in Queues,
         Notify(op, q, [thread EXCEPT ![t] = NotInside]),
         t \notin Sleepers(op, q), t \notin Woken(op, q)
  PROVE  /\ \A o, r : /\ Sleepers(o, r)' \subseteq Sleepers(o, r)
                      /\ Woken(o, r) \ {t} \subseteq Woken(o, r)'
         /\ Sleepers(op, q)' # {} =>
              Cardinality(Woken(op, q)) + 1 <= Cardinality(Woken(op, q)')
<1> DEFINE th == [thread EXCEPT ![t] = NotInside]
<1>1. CASE Sleepers(op, q) = {} /\ thread' = th
  <2>1. \A o, r : /\ Sleepers(o, r)' \subseteq Sleepers(o, r)
                  /\ Woken(o, r) \ {t} \subseteq Woken(o, r)'
    BY <1>1, CallerLeaves
  <2>2. QED  BY <1>1, <2>1
<1>2. ASSUME NEW s \in Sleepers(op, q), thread' = [th EXCEPT ![s].woken = TRUE]
      PROVE  /\ \A o, r : /\ Sleepers(o, r)' \subseteq Sleepers(o, r)
                          /\ Woken(o, r) \ {t} \subseteq Woken(o, r)'
             /\ Cardinality(Woken(op, q)) + 1 <= Cardinality(Woken(op, q)')
  <2>1. s \in Threads /\ s # t /\ thread[s] \in Waits
        /\ thread[s].op = op /\ thread[s].queue = q /\ thread[s].woken = FALSE
    BY <1>2 DEF Sleepers, Waits
  <2>2. NotInside \notin Waits
    BY DEF NotInside, Waits
  <2>3. th[s] = thread[s] /\ th[t] = NotInside /\ \A u \in Threads \ {t} : th[u] = thread[u]
    BY <2>1 DEF QueueTypeOK
  <2>4. /\ thread'[s] = [thread[s] EXCEPT !.woken = TRUE]
        /\ thread'[t] = NotInside
        /\ \A u \in Threads \ {s, t} : thread'[u] = thread[u]
    BY <1>2, <2>1, <2>3 DEF QueueTypeOK
  <2>5. /\ thread'[s] \in Waits /\ thread'[s].op = op /\ thread'[s].queue = q
        /\ thread'[s].woken = TRUE
    BY <2>1, <2>4 DEF Waits
  <2>6. ASSUME NEW o, NEW r
        PROVE  Sleepers(o, r)' \subseteq Sleepers(o, r) /\ Woken(o, r) \ {t} \subseteq Woken(o, r)'
    BY <2>1, <2>2, <2>4, <2>5 DEF Sleepers, Woken
  <2>7. s \notin Woken(op, q) /\ s \in Woken(op, q)'
    BY <2>1, <2>5 DEF Woken
  <2>8. Woken(op, q) \subseteq Woken(op, q)'
    BY <2>6
  <2>9. QED  BY <2>6, <2>7, <2>8, OneWokenComes
<1>3. QED  BY <1>1, <1>2 DEF Notify

\* What a thread that calls a method of a queue is not: a thread that waits in
\* another method, or in another queue.
LEMMA WhereCallerWaits ==
  ASSUME NEW t \in Threads, NEW op \in Ops, NEW q \in Queues,
         thread[t] = NotInside \/ Looks(t, op, q),
         NEW o \in Ops, NEW r \in Queues, o # op \/ r # q
  PROVE  t \notin Sleepers(o, r) /\ t \notin Woken(o, r)
BY DEF NotInside, Looks, Sleepers, Woken, Waits, Ops

\* The books of one queue after a call: when there are still sleepers, what came
\* in has woken somebody, and whoever was woken and went took something.
LEMMA BooksBalance ==
  ASSUME TypeInv, TypeInv', WakeInv, UNCHANGED <<closed, spillOn>>, NEW q \in Queues,
         \A r \in Queues \ {q} :
            /\ inmem'[r] = inmem[r] /\ spill'[r] = spill[r]
            /\ \A o \in Ops : /\ Sleepers(o, r)' \subseteq Sleepers(o, r)
                              /\ Cardinality(Woken(o, r)) <= Cardinality(Woken(o, r)'),
         \A o \in Ops : Sleepers(o, q)' \subseteq Sleepers(o, q),
         Sleepers("get", q)' # {} =>
            Len(inmem'[q]) + Len(spill'[q]) + Cardinality(Woken("get", q))
              <= Len(inmem[q]) + Len(spill[q]) + Cardinality(Woken("get", q)'),
         Sleepers("put", q)' # {} =>
            Len(inmem[q]) + Cardinality(Woken("put", q))
              <= Len(inmem'[q]) + Cardinality(Woken("put", q)')
  PROVE  NoLostWakeup'
<1>1. \A r \in Queues : /\ Len(inmem[r]) \in Nat /\ Len(spill[r]) \in Nat
                        /\ Len(inmem'[r]) \in Nat /\ Len(spill'[r]) \in Nat
  BY LenProperties DEF TypeInv, QueueTypeOK
<1>2. \A o, r : Cardinality(Woken(o, r)) \in Nat /\ Cardinality(Woken(o, r)') \in Nat
  BY WokenFinite
<1>4. ASSUME NEW r \in Queues, r # q
      PROVE  /\ Sleepers("get", r)' # {} =>
                  Len(inmem'[r]) + Len(spill'[r]) <= Cardinality(Woken("get", r)')
             /\ Sleepers("put", r)' # {} =>
                  MaxSize - Len(inmem'[r]) <= Cardinality(Woken("put", r)')
  <2>1. /\ Sleepers("get", r) # {} =>
             Len(inmem[r]) + Len(spill[r]) <= Cardinality(Woken("get", r))
        /\ Sleepers("put", r) # {} =>
             MaxSize - Len(inmem[r]) <= Cardinality(Woken("put", r))
    BY DEF WakeInv, NoLostWakeup
  <2>2. /\ Sleepers("get", r)' # {} => Sleepers("get", r) # {}
        /\ Sleepers("put", r)' # {} => Sleepers("put", r) # {}
        /\ Cardinality(Woken("get", r)) <= Cardinality(Woken("get", r)')
        /\ Cardinality(Woken("put", r)) <= Cardinality(Woken("put", r)')
    BY <1>4 DEF Ops
  <2>3. inmem'[r] = inmem[r] /\ spill'[r] = spill[r]
    BY <1>4
  <2> DEFINE m == Len(inmem[r])
             sp == Len(spill[r])
             g == Cardinality(Woken("get", r))
             w == Cardinality(Woken("put", r))
             mm == Len(inmem'[r])
             ssp == Len(spill'[r])
             gg == Cardinality(Woken("get", r)')
             ww == Cardinality(Woken("put", r)')
  <2>4. /\ m \in Nat /\ sp \in Nat /\ g \in Nat /\ w \in Nat
        /\ mm \in Nat /\ ssp \in Nat /\ gg \in Nat /\ ww \in Nat
    BY <1>1, <1>2
  <2>5. mm = m /\ ssp = sp /\ g <= gg /\ w <= ww
    BY <2>2, <2>3
  <2>6. /\ Sleepers("get", r) # {} => m + sp <= g
        /\ Sleepers("put", r) # {} => MaxSize - m <= w
    BY <2>1
  <2> HIDE DEF m, sp, g, w, mm, ssp, gg, ww
  <2>7. /\ Sleepers("get", r)' # {} => mm + ssp <= gg
        /\ Sleepers("put", r)' # {} => MaxSize - mm <= ww
    BY <2>2, <2>4, <2>5, <2>6, MaxSizeAssumption
  <2>8. QED  BY <2>7 DEF mm, ssp, gg, ww
<1>5. /\ Sleepers("get", q)' # {} =>
           Len(inmem'[q]) + Len(spill'[q]) <= Cardinality(Woken("get", q)')
      /\ Sleepers("put", q)' # {} =>
           MaxSize - Len(inmem'[q]) <= Cardinality(Woken("put", q)')
  <2>1. /\ Sleepers("get", q) # {} =>
             Len(inmem[q]) + Len(spill[q]) <= Cardinality(Woken("get", q))
        /\ Sleepers("put", q) # {} =>
             MaxSize - Len(inmem[q]) <= Cardinality(Woken("put", q))
    BY DEF WakeInv, NoLostWakeup
  <2>2. /\ Sleepers("get", q)' # {} => Sleepers("get", q) # {}
        /\ Sleepers("put", q)' # {} => Sleepers("put", q) # {}
    BY DEF Ops
  <2> DEFINE m == Len(inmem[q])
             sp == Len(spill[q])
             g == Cardinality(Woken("get", q))
             w == Cardinality(Woken("put", q))
             mm == Len(inmem'[q])
             ssp == Len(spill'[q])
             gg == Cardinality(Woken("get", q)')
             ww == Cardinality(Woken("put", q)')
  <2>3. /\ m \in Nat /\ sp \in Nat /\ g \in Nat /\ w \in Nat
        /\ mm \in Nat /\ ssp \in Nat /\ gg \in Nat /\ ww \in Nat
    BY <1>1, <1>2
  <2>4. /\ Sleepers("get", q)' # {} => mm + ssp + g <= m + sp + gg
        /\ Sleepers("put", q)' # {} => m + w <= mm + ww
    OBVIOUS
  <2>5. /\ Sleepers("get", q) # {} => m + sp <= g
        /\ Sleepers("put", q) # {} => MaxSize - m <= w
    BY <2>1
  <2> HIDE DEF m, sp, g, w, mm, ssp, gg, ww
  <2>6. /\ Sleepers("get", q)' # {} => mm + ssp <= gg
        /\ Sleepers("put", q)' # {} => MaxSize - mm <= ww
    BY <2>2, <2>3, <2>4, <2>5, MaxSizeAssumption
  <2>7. QED  BY <2>6 DEF mm, ssp, gg, ww
<1>6. \A r \in Queues : closed'[r] => Sleepers("put", r)' \union Sleepers("get", r)' = {}
  BY DEF WakeInv, NoLostWakeup, Ops
<1>7. ASSUME NEW r \in Queues
      PROVE  /\ Sleepers("get", r)' # {} =>
                  Len(inmem'[r]) + Len(spill'[r]) <= Cardinality(Woken("get", r)')
             /\ Sleepers("put", r)' # {} =>
                  MaxSize - Len(inmem'[r]) <= Cardinality(Woken("put", r)')
  BY <1>4, <1>5
<1>8. QED  BY <1>6, <1>7 DEF NoLostWakeup

\* A chunk comes in: PutInRam, PutResumes and PutOnDisk.
LEMMA PutWakes ==
  ASSUME TypeInv, TypeInv', WakeInv, UNCHANGED <<closed, spillOn>>,
         NEW t \in Threads, NEW q \in Queues,
         thread[t] = NotInside \/ Looks(t, "put", q),
         Notify("get", q, [thread EXCEPT ![t] = NotInside]),
         \A r \in Queues \ {q} : inmem'[r] = inmem[r] /\ spill'[r] = spill[r],
         \/ Len(inmem'[q]) = Len(inmem[q]) + 1 /\ spill'[q] = spill[q]
         \/ /\ inmem'[q] = inmem[q] /\ Len(spill'[q]) = Len(spill[q]) + 1
            /\ spillOn[q]
  PROVE  NoLostWakeup'
<1>1. "get" \in Ops /\ "put" \in Ops
  BY DEF Ops
<1>2. t \notin Sleepers("get", q) /\ t \notin Woken("get", q)
  BY <1>1, WhereCallerWaits
<1>3. /\ \A o, r : /\ Sleepers(o, r)' \subseteq Sleepers(o, r)
                   /\ Woken(o, r) \ {t} \subseteq Woken(o, r)'
      /\ Sleepers("get", q)' # {} =>
           Cardinality(Woken("get", q)) + 1 <= Cardinality(Woken("get", q)')
  BY <1>1, <1>2, CallerNotifies DEF TypeInv
<1>4. Cardinality(Woken("put", q)) <= Cardinality(Woken("put", q)') + 1
  BY <1>3, OneWokenGoes
<1>5. ASSUME NEW r \in Queues \ {q}, NEW o \in Ops
      PROVE  Cardinality(Woken(o, r)) <= Cardinality(Woken(o, r)')
  BY <1>1, <1>3, WhereCallerWaits, OneWokenGoes
<1>6. \A r \in Queues : /\ Len(inmem[r]) \in Nat /\ Len(spill[r]) \in Nat
                        /\ Len(inmem'[r]) \in Nat /\ Len(spill'[r]) \in Nat
  BY LenProperties DEF TypeInv, QueueTypeOK
<1>7. \A o, r : Cardinality(Woken(o, r)) \in Nat /\ Cardinality(Woken(o, r)') \in Nat
  BY WokenFinite
<1>8. Sleepers("get", q)' # {} =>
        Len(inmem'[q]) + Len(spill'[q]) + Cardinality(Woken("get", q))
          <= Len(inmem[q]) + Len(spill[q]) + Cardinality(Woken("get", q)')
  <2> DEFINE m == Len(inmem[q])
             sp == Len(spill[q])
             g == Cardinality(Woken("get", q))
             mm == Len(inmem'[q])
             ssp == Len(spill'[q])
             gg == Cardinality(Woken("get", q)')
  <2>1. /\ m \in Nat /\ sp \in Nat /\ g \in Nat
        /\ mm \in Nat /\ ssp \in Nat /\ gg \in Nat
    BY <1>6, <1>7
  <2>2. \/ mm = m + 1 /\ ssp = sp
        \/ mm = m /\ ssp = sp + 1
    OBVIOUS
  <2>3. Sleepers("get", q)' # {} => g + 1 <= gg
    BY <1>3
  <2> HIDE DEF m, sp, g, mm, ssp, gg
  <2>4. Sleepers("get", q)' # {} => mm + ssp + g <= m + sp + gg
    BY <2>1, <2>2, <2>3
  <2>5. QED  BY <2>4 DEF m, sp, g, mm, ssp, gg
<1>9. Sleepers("put", q)' # {} =>
        Len(inmem[q]) + Cardinality(Woken("put", q))
          <= Len(inmem'[q]) + Cardinality(Woken("put", q)')
  <2>1. CASE Len(inmem'[q]) = Len(inmem[q]) + 1
    BY <1>4, <1>6, <1>7, <2>1
  <2>2. CASE spillOn[q]
    <3>1. Sleepers("put", q) = {}
      BY <2>2 DEF WakeInv, WaitersByKind, Sleepers
    <3>2. QED  BY <1>3, <3>1
  <2>3. QED  BY <2>1, <2>2
<1>10. QED  BY <1>3, <1>5, <1>8, <1>9, BooksBalance

\* A chunk goes out, and the RAM is refilled: never fewer chunks in RAM than
\* before but for the one that was taken.
LEMMA TakesWakes ==
  ASSUME TypeInv, TypeInv', WakeInv, UNCHANGED spillOn,
         NEW t \in Threads, NEW q \in Queues, MayGet(t, q), Takes(t, q)
  PROVE  NoLostWakeup'
<1> DEFINE k == Loads(q)
           m == Len(inmem[q])
           sp == Len(spill[q])
           mm == Len(inmem'[q])
           ssp == Len(spill'[q])
           g == Cardinality(Woken("get", q))
           w == Cardinality(Woken("put", q))
           gg == Cardinality(Woken("get", q)')
           ww == Cardinality(Woken("put", q)')
<1>1. "get" \in Ops /\ "put" \in Ops
  BY DEF Ops
<1>2. t \notin Sleepers("put", q) /\ t \notin Woken("put", q)
  BY <1>1, WhereCallerWaits DEF MayGet
<1>3. /\ \A o, r : /\ Sleepers(o, r)' \subseteq Sleepers(o, r)
                   /\ Woken(o, r) \ {t} \subseteq Woken(o, r)'
      /\ Sleepers("put", q)' # {} => w + 1 <= ww
  BY <1>1, <1>2, CallerNotifies DEF Takes, TypeInv
<1>4. g <= gg + 1
  BY <1>3, OneWokenGoes
<1>5. ASSUME NEW r \in Queues \ {q}, NEW o \in Ops
      PROVE  Cardinality(Woken(o, r)) <= Cardinality(Woken(o, r)')
  BY <1>1, <1>3, WhereCallerWaits, OneWokenGoes DEF MayGet
<1>6. m \in Nat /\ sp \in Nat /\ mm \in Nat /\ ssp \in Nat
  BY LenProperties DEF TypeInv, QueueTypeOK
<1>7. g \in Nat /\ w \in Nat /\ gg \in Nat /\ ww \in Nat
  BY WokenFinite
<1>8. k \in 0..sp /\ m + k \in 1..(MaxSize + 1)
  BY LoadsBounds DEF Takes, TypeInv
<1>9. \A r \in Queues \ {q} : inmem'[r] = inmem[r] /\ spill'[r] = spill[r]
  BY DEF Takes, DropPointers, TypeInv, QueueTypeOK
<1>10. ssp = sp - k
  BY <1>8, DropPointersEffect DEF Takes, TypeInv
<1>11. PICK n \in Nat : n = m + k /\ n >= 1
  BY <1>8, MaxSizeAssumption
<1>12. mm = n - 1
  <2>1. inmem'[q] = LeftInRam(q, k)
    BY DEF Takes, TypeInv, QueueTypeOK
  <2>2. Len(LeftInRam(q, k)) = n - 1
    BY <1>8, <1>11, LeftInRamIsSeq DEF Takes, TypeInv
  <2>3. QED  BY <2>1, <2>2
<1>13. /\ Sleepers("get", q)' # {} => mm + ssp + g <= m + sp + gg
       /\ Sleepers("put", q)' # {} => m + w <= mm + ww
  <2>1. k \in Nat
    BY <1>6, <1>8
  <2> HIDE DEF k, m, sp, mm, ssp, g, w, gg, ww
  <2>2. QED  BY <1>3, <1>4, <1>6, <1>7, <1>10, <1>11, <1>12, <2>1
<1>14. UNCHANGED closed
  BY DEF Takes
<1>15. QED  BY <1>3, <1>5, <1>9, <1>13, <1>14, BooksBalance

\* A failed read frees a slot and wakes nobody; nobody waits for it.
LEMMA ReadFailsWakes ==
  ASSUME TypeInv, TypeInv', WakeInv, UNCHANGED spillOn,
         NEW t \in Threads, NEW q \in Queues, MayGet(t, q), ReadFails(t, q)
  PROVE  NoLostWakeup'
<1> DEFINE m == Len(inmem[q])
           sp == Len(spill[q])
           mm == Len(inmem'[q])
           ssp == Len(spill'[q])
           g == Cardinality(Woken("get", q))
           gg == Cardinality(Woken("get", q)')
<1>1. "get" \in Ops /\ "put" \in Ops
  BY DEF Ops
<1>2. \A o, r : /\ Sleepers(o, r)' \subseteq Sleepers(o, r)
                /\ Woken(o, r) \ {t} \subseteq Woken(o, r)'
  BY CallerLeaves DEF ReadFails, TypeInv
<1>3. g <= gg + 1
  BY <1>2, OneWokenGoes
<1>4. ASSUME NEW r \in Queues \ {q}, NEW o \in Ops
      PROVE  Cardinality(Woken(o, r)) <= Cardinality(Woken(o, r)')
  BY <1>1, <1>2, WhereCallerWaits, OneWokenGoes DEF MayGet
<1>5. m \in Nat /\ sp \in Nat /\ mm \in Nat /\ ssp \in Nat
  BY LenProperties DEF TypeInv, QueueTypeOK
<1>6. g \in Nat /\ gg \in Nat
  BY WokenFinite
<1>7. Loads(q) \in 0..sp
  BY LoadsBounds DEF ReadFails, TypeInv
<1>8. PICK k \in 1..Loads(q) : /\ \A i \in 1..(k - 1) : Readable(q, i)
                               /\ inmem' = [inmem EXCEPT ![q] = LeftInRam(q, k - 1)]
                               /\ DropPointers(q, k)
  BY DEF ReadFails
<1>9. k \in 1..sp /\ k - 1 \in 0..sp
  BY <1>5, <1>7, <1>8
<1>10. \A r \in Queues \ {q} : inmem'[r] = inmem[r] /\ spill'[r] = spill[r]
  BY <1>8 DEF DropPointers, TypeInv, QueueTypeOK
<1>11. ssp = sp - k
  <2>1. k \in 0..Len(spill[q])
    BY <1>5, <1>9
  <2>2. QED  BY <1>8, <2>1, DropPointersEffect DEF TypeInv
<1>12. inmem'[q] = LeftInRam(q, k - 1)
  BY <1>8 DEF TypeInv, QueueTypeOK
<1>13. mm + ssp + 1 <= m + sp
  <2>1. PICK n \in Nat : n = m + (k - 1)
    <3> HIDE DEF m, sp
    <3>1. m + (k - 1) \in Nat
      BY <1>5, <1>9
    <3>2. QED  BY <3>1
  <2>2. CASE n = 0
    <3>1. m + (k - 1) - 1 < 0
      BY <1>5, <1>9, <2>1, <2>2
    <3>2. LeftInRam(q, k - 1) = [i \in 1..(0 - 1) |-> AtHand(q, k - 1)[i + 1]]
      BY <2>1, <2>2 DEF LeftInRam
    <3>3. LeftInRam(q, k - 1) = << >>
      BY <3>2
    <3>4. mm = 0
      BY <1>12, <3>3, EmptySeq
    <3> HIDE DEF m, sp, mm, ssp
    <3>5. QED  BY <1>5, <1>9, <1>11, <3>4
  <2>3. CASE n >= 1
    <3>1. Len(LeftInRam(q, k - 1)) = n - 1
      BY <1>8, <1>9, <2>1, <2>3, LeftInRamIsSeq DEF TypeInv
    <3>2. mm = n - 1
      BY <1>12, <3>1
    <3> HIDE DEF m, sp, mm, ssp
    <3>3. QED  BY <1>5, <1>9, <1>11, <2>1, <3>2
  <2> HIDE DEF m, sp, mm, ssp
  <2>4. QED  BY <2>1, <2>2, <2>3
<1>14. Sleepers("get", q)' # {} => mm + ssp + g <= m + sp + gg
  <2> HIDE DEF m, sp, mm, ssp, g, gg
  <2>1. QED  BY <1>3, <1>5, <1>6, <1>13
<1>15. spillOn[q]
  <2>1. spill[q] # <<>>
    <3>1. sp # 0
      BY <1>5, <1>9
    <3>2. QED  BY <3>1, EmptySeq
  <2>2. QED  BY <2>1 DEF WakeInv, WaitersByKind
<1>16. Sleepers("put", q)' = {}
  <2>1. Sleepers("put", q) = {}
    BY <1>15 DEF WakeInv, WaitersByKind, Sleepers
  <2>2. QED  BY <1>2, <2>1
<1>17. UNCHANGED closed
  BY DEF ReadFails
<1>18. QED  BY <1>2, <1>4, <1>10, <1>14, <1>15, <1>16, <1>17, BooksBalance

\* A thread goes to sleep, or returns, because there is nothing for it to do.
LEMMA NothingToDo ==
  ASSUME TypeInv, WakeInv, UNCHANGED <<inmem, spill, closed, spillOn>>,
         NEW t \in Threads, NEW op \in Ops, NEW q \in Queues,
         \A u \in Threads \ {t} : thread'[u] = thread[u],
         thread[t] = NotInside \/ Looks(t, op, q),
         \/ thread'[t] = NotInside
         \/ /\ thread'[t] \in Waits /\ thread'[t].op = op /\ thread'[t].queue = q
            /\ ~thread'[t].woken /\ ~closed[q],
         op = "get" => ~HasChunk(q) \/ closed[q],
         op = "put" => ~HasRoom(q) \/ closed[q]
  PROVE  NoLostWakeup'
<1>1. NotInside \notin Waits
  BY DEF NotInside, Waits
<1>2. ASSUME NEW o \in Ops, NEW r \in Queues, o # op \/ r # q
      PROVE  /\ Sleepers(o, r)' \subseteq Sleepers(o, r)
             /\ Cardinality(Woken(o, r)) <= Cardinality(Woken(o, r)')
  <2>1. t \notin Sleepers(o, r) /\ t \notin Woken(o, r)
    BY <1>2, WhereCallerWaits
  <2>2. /\ Sleepers(o, r)' \subseteq Sleepers(o, r)
        /\ Woken(o, r) \ {t} \subseteq Woken(o, r)'
    BY <1>1, <1>2 DEF Sleepers, Woken
  <2>3. QED  BY <2>1, <2>2, OneWokenGoes
<1>3. closed[q] => Sleepers(op, q)' \subseteq Sleepers(op, q)
  BY <1>1 DEF Sleepers
<1>4. \A r \in Queues : Len(inmem[r]) \in Nat /\ Len(spill[r]) \in Nat
  BY LenProperties DEF TypeInv, QueueTypeOK
<1>5. \A o, r : Cardinality(Woken(o, r)) \in Nat /\ Cardinality(Woken(o, r)') \in Nat
  BY WokenFinite
<1>6. \A r \in Queues : closed[r] => Sleepers("put", r) = {} /\ Sleepers("get", r) = {}
  BY DEF WakeInv, NoLostWakeup
<1>7. ASSUME NEW r \in Queues
      PROVE  closed'[r] => Sleepers("put", r)' \union Sleepers("get", r)' = {}
  <2>1. ASSUME closed[r], NEW o \in Ops  PROVE Sleepers(o, r)' = {}
    <3>1. Sleepers(o, r)' \subseteq Sleepers(o, r)
      BY <1>2, <1>3, <2>1
    <3>2. QED  BY <1>6, <2>1, <3>1 DEF Ops
  <2>2. QED  BY <2>1 DEF Ops
<1>8. ASSUME NEW r \in Queues, Sleepers("get", r)' # {}
      PROVE  Len(inmem[r]) + Len(spill[r]) <= Cardinality(Woken("get", r)')
  <2>1. CASE op = "get" /\ r = q
    <3>1. ~closed[q]
      BY <1>7, <1>8, <2>1
    <3>2. inmem[q] = <<>> /\ spill[q] = <<>>
      BY <2>1, <3>1 DEF HasChunk
    <3>3. Len(inmem[q]) = 0 /\ Len(spill[q]) = 0
      BY <3>2, EmptySeq
    <3>4. Cardinality(Woken("get", q)') \in Nat
      BY <1>5
    <3>5. QED  BY <2>1, <3>3, <3>4
  <2>2. CASE op # "get" \/ r # q
    <3>1. Sleepers("get", r) # {} /\ Cardinality(Woken("get", r)) <= Cardinality(Woken("get", r)')
      BY <1>2, <1>8, <2>2 DEF Ops
    <3>2. Len(inmem[r]) + Len(spill[r]) <= Cardinality(Woken("get", r))
      BY <3>1 DEF WakeInv, NoLostWakeup
    <3> DEFINE m == Len(inmem[r])
               sp == Len(spill[r])
               c == Cardinality(Woken("get", r))
               d == Cardinality(Woken("get", r)')
    <3>3. m \in Nat /\ sp \in Nat /\ c \in Nat /\ d \in Nat
      BY <1>4, <1>5
    <3>4. m + sp <= c /\ c <= d
      BY <3>1, <3>2
    <3> HIDE DEF m, sp, c, d
    <3>5. m + sp <= d
      BY <3>3, <3>4
    <3>6. QED  BY <3>5 DEF m, sp, d
  <2>3. QED  BY <2>1, <2>2
<1>9. ASSUME NEW r \in Queues, Sleepers("put", r)' # {}
       PROVE  MaxSize - Len(inmem[r]) <= Cardinality(Woken("put", r)')
  <2> DEFINE m == Len(inmem[r])
             c == Cardinality(Woken("put", r))
             d == Cardinality(Woken("put", r)')
  <2>1. m \in Nat /\ c \in Nat /\ d \in Nat
    BY <1>4, <1>5
  <2>2. CASE op = "put" /\ r = q
    <3>1. ~closed[q]
      BY <1>7, <1>9, <2>2
    <3>2. ~(m < MaxSize)
      BY <2>2, <3>1 DEF HasRoom
    <3> HIDE DEF m, c, d
    <3>3. MaxSize - m <= d
      BY <2>1, <3>2, MaxSizeAssumption
    <3>4. QED  BY <3>3 DEF m, d
  <2>3. CASE op # "put" \/ r # q
    <3>1. Sleepers("put", r) # {} /\ c <= d
      BY <1>2, <1>9, <2>3 DEF Ops
    <3>2. MaxSize - m <= c
      BY <3>1 DEF WakeInv, NoLostWakeup
    <3> HIDE DEF m, c, d
    <3>3. MaxSize - m <= d
      BY <2>1, <3>1, <3>2, MaxSizeAssumption
    <3>4. QED  BY <3>3 DEF m, d
  <2>4. QED  BY <2>2, <2>3
<1>10. QED  BY <1>7, <1>8, <1>9 DEF NoLostWakeup

LEMMA PutStepWakes ==
  ASSUME TypeInv, TypeInv', WakeInv, UNCHANGED spillOn,
         NEW t \in Threads, NEW q \in Queues, PutStep(t, q)
  PROVE  NoLostWakeup'
<1>1. CASE (PutInRam(t, q) \/ PutResumes(t, q))
  <2>1. AppendToRam(t, q) /\ (thread[t] = NotInside \/ Looks(t, "put", q))
    BY <1>1 DEF PutInRam, PutResumes, MayPut
  <2>2. Notify("get", q, [thread EXCEPT ![t] = NotInside]) /\ UNCHANGED <<closed, spill>>
    BY <2>1 DEF AppendToRam
  <2>3. /\ \A r \in Queues \ {q} : inmem'[r] = inmem[r]
        /\ inmem'[q] = Append(inmem[q], NextTicket(q))
    BY <2>1 DEF AppendToRam, TypeInv, QueueTypeOK
  <2>4. Len(inmem'[q]) = Len(inmem[q]) + 1
    <3>1. inmem[q] \in Seq(Tickets) /\ NextTicket(q) \in Tickets
      BY DEF TypeInv, QueueTypeOK, NextTicket, Tickets
    <3>2. QED  BY <2>3, <3>1, AppendProperties
  <2>5. QED  BY <2>1, <2>2, <2>3, <2>4, PutWakes
<1>2. CASE PutOnDisk(t, q)
  <2>1. thread[t] = NotInside /\ Notify("get", q, thread) /\ UNCHANGED <<closed, inmem>> /\ spillOn[q]
    BY <1>2 DEF PutOnDisk, MayPut
  <2>2. [thread EXCEPT ![t] = NotInside] = thread
    BY <2>1 DEF TypeInv, QueueTypeOK
  <2>3. /\ \A r \in Queues \ {q} : spill'[r] = spill[r]
        /\ spill'[q] = Append(spill[q], spilled[q])
    BY <1>2 DEF PutOnDisk, TypeInv, QueueTypeOK
  <2>4. Len(spill'[q]) = Len(spill[q]) + 1
    <3>1. spill[q] \in Seq(Nat) /\ spilled[q] \in Nat
      BY DEF TypeInv, QueueTypeOK
    <3>2. QED  BY <2>3, <3>1, AppendProperties
  <2>5. QED  BY <2>1, <2>2, <2>3, <2>4, PutWakes
<1>3. CASE PutDiskError(t, q)
  BY <1>3 DEF PutDiskError, WakeInv, NoLostWakeup, Sleepers, Woken
<1>4. ASSUME NEW timed \in BOOLEAN, PutSleeps(t, q, timed)  PROVE NoLostWakeup'
  <2>1. thread'[t] = Waiting("put", q, timed) /\ \A u \in Threads \ {t} : thread'[u] = thread[u]
    BY <1>4 DEF PutSleeps, TypeInv, QueueTypeOK
  <2>2. /\ thread'[t] \in Waits /\ thread'[t].op = "put" /\ thread'[t].queue = q
        /\ ~thread'[t].woken
    BY <2>1 DEF Waiting, Waits
  <2>3. thread[t] = NotInside /\ ~closed[q] /\ ~HasRoom(q)
    BY <1>4 DEF PutSleeps, MayPut
  <2>4. QED  BY <1>4, <2>1, <2>2, <2>3, NothingToDo DEF PutSleeps, Ops
<1>5. CASE (PutFindsClosed(t, q) \/ PutTimesOut(t, q))
  <2>1. thread'[t] = NotInside /\ \A u \in Threads \ {t} : thread'[u] = thread[u]
    BY <1>5 DEF PutFindsClosed, PutTimesOut, Returns, TypeInv, QueueTypeOK
  <2>2. Looks(t, "put", q) /\ (~HasRoom(q) \/ closed[q])
    BY <1>5 DEF PutFindsClosed, PutTimesOut
  <2>3. QED
    BY <1>5, <2>1, <2>2, NothingToDo DEF PutFindsClosed, PutTimesOut, Returns, Ops
<1>6. CASE PutSleepsAgain(t, q)
  <2>1. Looks(t, "put", q) /\ ~closed[q] /\ ~HasRoom(q)
    BY <1>6 DEF PutSleepsAgain
  <2>2. /\ thread'[t] = [thread[t] EXCEPT !.woken = FALSE]
        /\ \A u \in Threads \ {t} : thread'[u] = thread[u]
    BY <1>6 DEF PutSleepsAgain, SleepsAgain, TypeInv, QueueTypeOK
  <2>3. /\ thread'[t] \in Waits /\ thread'[t].op = "put" /\ thread'[t].queue = q
        /\ ~thread'[t].woken
    BY <2>1, <2>2 DEF Looks, Waits
  <2>4. QED
    BY <1>6, <2>1, <2>2, <2>3, NothingToDo DEF PutSleepsAgain, SleepsAgain, Ops
<1>7. QED
  BY <1>1, <1>2, <1>3, <1>4, <1>5, <1>6 DEF PutStep

LEMMA GetStepWakes ==
  ASSUME TypeInv, TypeInv', WakeInv, UNCHANGED spillOn,
         NEW t \in Threads, NEW q \in Queues, GetStep(t, q)
  PROVE  NoLostWakeup'
<1>1. CASE Get(t, q)
  BY <1>1, TakesWakes DEF Get
<1>2. CASE GetReadError(t, q)
  BY <1>2, ReadFailsWakes DEF GetReadError
<1>3. CASE (GetDrained(t, q) \/ GetTimesOut(t, q))
  <2>1. thread'[t] = NotInside /\ \A u \in Threads \ {t} : thread'[u] = thread[u]
    BY <1>3 DEF GetDrained, GetTimesOut, Returns, TypeInv, QueueTypeOK
  <2>2. (thread[t] = NotInside \/ Looks(t, "get", q)) /\ ~HasChunk(q)
    BY <1>3 DEF GetDrained, GetTimesOut, MayGet
  <2>3. QED
    BY <1>3, <2>1, <2>2, NothingToDo DEF GetDrained, GetTimesOut, Returns, Ops
<1>4. ASSUME NEW timed \in BOOLEAN, GetSleeps(t, q, timed)  PROVE NoLostWakeup'
  <2>1. thread'[t] = Waiting("get", q, timed) /\ \A u \in Threads \ {t} : thread'[u] = thread[u]
    BY <1>4 DEF GetSleeps, TypeInv, QueueTypeOK
  <2>2. /\ thread'[t] \in Waits /\ thread'[t].op = "get" /\ thread'[t].queue = q
        /\ ~thread'[t].woken
    BY <2>1 DEF Waiting, Waits
  <2>3. thread[t] = NotInside /\ ~closed[q] /\ ~HasChunk(q)
    BY <1>4 DEF GetSleeps
  <2>4. QED  BY <1>4, <2>1, <2>2, <2>3, NothingToDo DEF GetSleeps, Ops
<1>5. CASE GetSleepsAgain(t, q)
  <2>1. Looks(t, "get", q) /\ ~closed[q] /\ ~HasChunk(q)
    BY <1>5 DEF GetSleepsAgain
  <2>2. /\ thread'[t] = [thread[t] EXCEPT !.woken = FALSE]
        /\ \A u \in Threads \ {t} : thread'[u] = thread[u]
    BY <1>5 DEF GetSleepsAgain, SleepsAgain, TypeInv, QueueTypeOK
  <2>3. /\ thread'[t] \in Waits /\ thread'[t].op = "get" /\ thread'[t].queue = q
        /\ ~thread'[t].woken
    BY <2>1, <2>2 DEF Looks, Waits
  <2>4. QED
    BY <1>5, <2>1, <2>2, <2>3, NothingToDo DEF GetSleepsAgain, SleepsAgain, Ops
<1>6. QED  BY <1>1, <1>2, <1>3, <1>4, <1>5 DEF GetStep

\* close() wakes everybody who sleeps on its queue.
LEMMA CloseWakes ==
  ASSUME TypeInv, WakeInv, UNCHANGED spillOn, NEW q \in Queues, Close(q)
  PROVE  NoLostWakeup'
<1>1. \A t \in Threads :
        thread'[t] = IF t \in Sleepers("put", q) \union Sleepers("get", q)
                     THEN [thread[t] EXCEPT !.woken = TRUE] ELSE thread[t]
  BY DEF Close
<1>2. Sleepers("put", q)' = {} /\ Sleepers("get", q)' = {}
  <2>1. ASSUME NEW o \in Ops, NEW t \in Threads, t \in Sleepers(o, q)'  PROVE FALSE
    <3>1. CASE t \in Sleepers("put", q) \union Sleepers("get", q)
      <4>1. thread[t] \in Waits /\ thread'[t] = [thread[t] EXCEPT !.woken = TRUE]
        BY <1>1, <3>1 DEF Sleepers
      <4>2. thread'[t].woken = TRUE
        BY <4>1 DEF Waits
      <4>3. QED  BY <2>1, <4>2 DEF Sleepers
    <3>2. CASE t \notin Sleepers("put", q) \union Sleepers("get", q)
      BY <1>1, <2>1, <3>2 DEF Sleepers, Ops
    <3>3. QED  BY <3>1, <3>2
  <2>2. QED  BY <2>1 DEF Sleepers, Ops
<1>3. ASSUME NEW r \in Queues, r # q, NEW o \in Ops
      PROVE  Sleepers(o, r)' = Sleepers(o, r) /\ Woken(o, r)' = Woken(o, r)
  <2>1. ASSUME NEW t \in Threads
        PROVE  /\ t \in Sleepers(o, r)' <=> t \in Sleepers(o, r)
               /\ t \in Woken(o, r)' <=> t \in Woken(o, r)
    <3>1. CASE t \in Sleepers("put", q) \union Sleepers("get", q)
      <4>1. /\ thread[t] \in Waits /\ thread[t].queue = q
            /\ thread'[t] = [thread[t] EXCEPT !.woken = TRUE]
        BY <1>1, <3>1 DEF Sleepers
      <4>2. thread'[t].queue = q
        BY <4>1 DEF Waits
      <4>3. QED  BY <1>3, <4>1, <4>2 DEF Sleepers, Woken
    <3>2. CASE t \notin Sleepers("put", q) \union Sleepers("get", q)
      BY <1>1, <3>2 DEF Sleepers, Woken
    <3>3. QED  BY <3>1, <3>2
  <2>2. QED  BY <2>1 DEF Sleepers, Woken
<1>4. UNCHANGED <<inmem, spill>> /\ \A r \in Queues \ {q} : closed'[r] = closed[r]
  BY DEF Close, TypeInv, QueueTypeOK
<1>5. QED  BY <1>2, <1>3, <1>4 DEF WakeInv, NoLostWakeup, Ops

\* cleanup() takes chunks away and wakes nobody: there is less to wake for.
LEMMA CleanupWakes ==
  ASSUME TypeInv, WakeInv, UNCHANGED spillOn, NEW q \in Queues, Cleanup(q)
  PROVE  NoLostWakeup'
<1>1. \A o, r : Sleepers(o, r)' = Sleepers(o, r) /\ Woken(o, r)' = Woken(o, r)
  BY DEF Cleanup, Sleepers, Woken
<1>2. UNCHANGED <<inmem, closed>> /\ spill'[q] = <<>> /\ \A r \in Queues \ {q} : spill'[r] = spill[r]
  BY DEF Cleanup, TypeInv, QueueTypeOK
<1>3. Sleepers("get", q) # {} =>
        Len(inmem[q]) + Len(spill'[q]) <= Cardinality(Woken("get", q))
  <2> DEFINE m == Len(inmem[q])
             sp == Len(spill[q])
             ssp == Len(spill'[q])
             g == Cardinality(Woken("get", q))
  <2>1. m \in Nat /\ sp \in Nat /\ g \in Nat
    BY LenProperties, WokenFinite DEF TypeInv, QueueTypeOK
  <2>2. ssp = 0
    BY <1>2, EmptySeq
  <2>3. Sleepers("get", q) # {} => m + sp <= g
    BY DEF WakeInv, NoLostWakeup
  <2> HIDE DEF m, sp, ssp, g
  <2>4. Sleepers("get", q) # {} => m + ssp <= g
    BY <2>1, <2>2, <2>3
  <2>5. QED  BY <2>4 DEF m, ssp, g
<1>4. QED  BY <1>1, <1>2, <1>3 DEF WakeInv, NoLostWakeup

\* Nobody changes the method or the queue it waits in: it only wakes up, or leaves.
SameWaits ==
    \A u \in Threads : thread'[u] \in Waits =>
        thread[u] \in Waits /\ thread[u].op = thread'[u].op /\ thread[u].queue = thread'[u].queue

LEMMA NotifyKeepsWaits ==
  ASSUME QueueTypeOK, NEW t \in Threads, NEW op, NEW q, Notify(op, q, [thread EXCEPT ![t] = NotInside])
  PROVE  SameWaits
<1>1. NotInside \notin Waits
  BY DEF NotInside, Waits
<1>2. CASE thread' = [thread EXCEPT ![t] = NotInside]
  BY <1>1, <1>2 DEF QueueTypeOK, SameWaits
<1>3. ASSUME NEW s \in Sleepers(op, q),
             thread' = [[thread EXCEPT ![t] = NotInside] EXCEPT ![s].woken = TRUE],
             NEW u \in Threads, thread'[u] \in Waits
      PROVE  thread[u] \in Waits /\ thread[u].op = thread'[u].op /\ thread[u].queue = thread'[u].queue
  <2>1. s \in Threads /\ thread[s] \in Waits
    BY DEF Sleepers
  <2>2. CASE u = s /\ s # t
    <3>1. thread'[u] = [thread[u] EXCEPT !.woken = TRUE]
      BY <1>3, <2>1, <2>2 DEF QueueTypeOK
    <3>2. QED  BY <2>1, <2>2, <3>1 DEF Waits
  <2>3. CASE u = t /\ s # t
    BY <1>1, <1>3, <2>1, <2>3 DEF QueueTypeOK
  <2>4. CASE u = t /\ s = t
    <3>1. thread'[u] = [NotInside EXCEPT !.woken = TRUE]
      BY <1>3, <2>1, <2>4 DEF QueueTypeOK
    <3>2. DOMAIN thread'[u] = {"op"}
      BY <3>1 DEF NotInside
    <3>3. DOMAIN thread'[u] = {"op", "queue", "timed", "woken"}
      BY <1>3 DEF Waits
    <3>4. QED  BY <3>2, <3>3
  <2>5. CASE u # s /\ u # t
    BY <1>3, <2>1, <2>5 DEF QueueTypeOK
  <2>6. QED  BY <2>2, <2>3, <2>4, <2>5
<1>4. QED  BY <1>2, <1>3 DEF Notify, SameWaits

LEMMA LookAgainKeepsWaits ==
  ASSUME QueueTypeOK, NEW t \in Threads, \/ Returns(t)
                                         \/ thread[t] \in Waits /\ SleepsAgain(t)
  PROVE  SameWaits
<1>1. NotInside \notin Waits
  BY DEF NotInside, Waits
<1>2. CASE Returns(t)
  BY <1>1, <1>2 DEF Returns, QueueTypeOK, SameWaits
<1>3. CASE thread[t] \in Waits /\ SleepsAgain(t)
  <2>1. /\ thread'[t] = [thread[t] EXCEPT !.woken = FALSE]
        /\ \A u \in Threads \ {t} : thread'[u] = thread[u]
    BY <1>3 DEF SleepsAgain, QueueTypeOK
  <2>2. thread'[t].op = thread[t].op /\ thread'[t].queue = thread[t].queue
    BY <1>3, <2>1 DEF Waits
  <2>3. QED  BY <1>3, <2>1, <2>2 DEF SameWaits
<1>4. QED  BY <1>2, <1>3

LEMMA CloseKeepsWaits ==
  ASSUME QueueTypeOK, NEW q \in Queues, Close(q)
  PROVE  SameWaits
<1> SUFFICES ASSUME NEW u \in Threads, thread'[u] \in Waits
             PROVE  thread[u] \in Waits /\ thread[u].op = thread'[u].op
                                        /\ thread[u].queue = thread'[u].queue
  BY DEF SameWaits
<1>1. thread'[u] = IF u \in Sleepers("put", q) \union Sleepers("get", q)
                   THEN [thread[u] EXCEPT !.woken = TRUE] ELSE thread[u]
  BY DEF Close
<1>2. CASE u \in Sleepers("put", q) \union Sleepers("get", q)
  <2>1. thread[u] \in Waits /\ thread'[u] = [thread[u] EXCEPT !.woken = TRUE]
    BY <1>1, <1>2 DEF Sleepers
  <2>2. QED  BY <2>1 DEF Waits
<1>3. CASE u \notin Sleepers("put", q) \union Sleepers("get", q)
  BY <1>1, <1>3
<1>4. QED  BY <1>2, <1>3

\* Pointers leave a list that has some, never the list of a queue without spilling.
LEMMA DropKeepsEmpty ==
  ASSUME TypeInv, WaitersByKind, NEW q \in Queues, NEW k \in 0..Len(spill[q]), DropPointers(q, k)
  PROVE  \A r \in Queues : ~spillOn[r] => spill'[r] = <<>>
<1>1. /\ \A r \in Queues \ {q} : spill'[r] = spill[r]
      /\ Len(spill'[q]) = Len(spill[q]) - k
      /\ spill' \in [Queues -> Seq(Nat)]
  BY DropPointersEffect DEF TypeInv
<1>2. ASSUME ~spillOn[q]  PROVE spill'[q] = <<>>
  <2>1. Len(spill[q]) = 0
    BY <1>2, EmptySeq DEF WaitersByKind
  <2>2. k = 0
    BY <2>1
  <2>3. Len(spill'[q]) = 0
    BY <1>1, <2>1, <2>2
  <2>4. QED  BY <1>1, <2>3, EmptySeq
<1>3. QED  BY <1>1, <1>2 DEF WaitersByKind

\* Who waits in put, and which queues have pointers, follows the setting the
\* queue was built with.
LEMMA StepKeepsKinds == TypeInv /\ WaitersByKind /\ [QueueNext]_queueVars => WaitersByKind'
<1> SUFFICES ASSUME TypeInv, WaitersByKind, [QueueNext]_queueVars  PROVE WaitersByKind'
  OBVIOUS
<1>1. ASSUME SameWaits, UNCHANGED <<spill, spillOn>>  PROVE WaitersByKind'
  BY <1>1 DEF SameWaits, WaitersByKind
<1>2. ASSUME NEW t \in Threads, NEW q \in Queues, PutStep(t, q), UNCHANGED spillOn
      PROVE  WaitersByKind'
  <2>1. CASE (PutInRam(t, q) \/ PutResumes(t, q))
    BY <1>1, <1>2, <2>1, NotifyKeepsWaits DEF PutInRam, PutResumes, AppendToRam, TypeInv
  <2>2. CASE PutOnDisk(t, q)
    <3>1. [thread EXCEPT ![t] = NotInside] = thread
      BY <2>2 DEF PutOnDisk, MayPut, TypeInv, QueueTypeOK
    <3>2. SameWaits
      BY <2>2, <3>1, NotifyKeepsWaits DEF PutOnDisk, TypeInv
    <3>3. spillOn[q] /\ \A r \in Queues \ {q} : spill'[r] = spill[r]
      BY <2>2 DEF PutOnDisk, TypeInv, QueueTypeOK
    <3>4. QED  BY <1>2, <3>2, <3>3 DEF SameWaits, WaitersByKind
  <2>3. CASE PutDiskError(t, q)
    BY <1>1, <1>2, <2>3 DEF PutDiskError, SameWaits
  <2>4. ASSUME NEW timed \in BOOLEAN, PutSleeps(t, q, timed)  PROVE WaitersByKind'
    <3>1. /\ thread'[t] = Waiting("put", q, timed)
          /\ \A u \in Threads \ {t} : thread'[u] = thread[u]
          /\ ~spillOn[q] /\ UNCHANGED spill
      BY <2>4 DEF PutSleeps, TypeInv, QueueTypeOK
    <3>2. thread'[t].queue = q
      BY <3>1 DEF Waiting
    <3>3. QED  BY <1>2, <3>1, <3>2 DEF WaitersByKind
  <2>5. CASE (PutFindsClosed(t, q) \/ PutTimesOut(t, q))
    BY <1>1, <1>2, <2>5, LookAgainKeepsWaits DEF PutFindsClosed, PutTimesOut, Returns, TypeInv
  <2>6. CASE PutSleepsAgain(t, q)
    BY <1>1, <1>2, <2>6, LookAgainKeepsWaits DEF PutSleepsAgain, Looks, SleepsAgain, TypeInv
  <2>7. QED  BY <1>2, <2>1, <2>2, <2>3, <2>4, <2>5, <2>6 DEF PutStep
<1>3. ASSUME NEW t \in Threads, NEW q \in Queues, GetStep(t, q), UNCHANGED spillOn
      PROVE  WaitersByKind'
  <2>1. CASE Get(t, q)
    <3>1. SameWaits
      BY <2>1, NotifyKeepsWaits DEF Get, Takes, TypeInv
    <3>2. Loads(q) \in 0..Len(spill[q]) /\ DropPointers(q, Loads(q))
      BY <2>1, LoadsBounds DEF Get, Takes, TypeInv
    <3>3. \A r \in Queues : ~spillOn[r] => spill'[r] = <<>>
      BY <3>2, DropKeepsEmpty
    <3>4. QED  BY <1>3, <3>1, <3>3 DEF SameWaits, WaitersByKind
  <2>2. CASE GetReadError(t, q)
    <3>1. SameWaits
      BY <2>2 DEF GetReadError, ReadFails, TypeInv, QueueTypeOK, SameWaits, NotInside, Waits
    <3>2. Loads(q) \in 0..Len(spill[q]) /\ Len(spill[q]) \in Nat
      BY <2>2, LoadsBounds, LenProperties DEF GetReadError, ReadFails, TypeInv, QueueTypeOK
    <3>3. PICK k \in 1..Loads(q) : DropPointers(q, k)
      BY <2>2 DEF GetReadError, ReadFails
    <3>4. k \in 0..Len(spill[q])
      BY <3>2, <3>3
    <3>5. \A r \in Queues : ~spillOn[r] => spill'[r] = <<>>
      BY <3>3, <3>4, DropKeepsEmpty
    <3>6. QED  BY <1>3, <3>1, <3>5 DEF SameWaits, WaitersByKind
  <2>3. CASE (GetDrained(t, q) \/ GetTimesOut(t, q))
    BY <1>1, <1>3, <2>3, LookAgainKeepsWaits DEF GetDrained, GetTimesOut, Returns, TypeInv
  <2>4. ASSUME NEW timed \in BOOLEAN, GetSleeps(t, q, timed)  PROVE WaitersByKind'
    <3>1. /\ thread'[t] = Waiting("get", q, timed)
          /\ \A u \in Threads \ {t} : thread'[u] = thread[u]
          /\ UNCHANGED spill
      BY <2>4 DEF GetSleeps, TypeInv, QueueTypeOK
    <3>2. thread'[t].op = "get"
      BY <3>1 DEF Waiting
    <3>3. QED  BY <1>3, <3>1, <3>2 DEF WaitersByKind
  <2>5. CASE GetSleepsAgain(t, q)
    BY <1>1, <1>3, <2>5, LookAgainKeepsWaits DEF GetSleepsAgain, Looks, SleepsAgain, TypeInv
  <2>6. QED  BY <1>3, <2>1, <2>2, <2>3, <2>4, <2>5 DEF GetStep
<1>4. ASSUME NEW q \in Queues, Close(q), UNCHANGED spillOn  PROVE WaitersByKind'
  BY <1>1, <1>4, CloseKeepsWaits DEF Close, TypeInv
<1>5. ASSUME NEW q \in Queues, Cleanup(q), UNCHANGED spillOn  PROVE WaitersByKind'
  BY <1>5 DEF Cleanup, WaitersByKind, TypeInv, QueueTypeOK
<1>6. CASE /\ (\E e \in Execs : Sweep(e)) \/ (\E f \in doomed : UnlinkDoomed(f))
           /\ UNCHANGED spillOn
  BY <1>1, <1>6 DEF Sweep, UnlinkDoomed, SameWaits
<1>7. CASE UNCHANGED queueVars
  BY <1>7 DEF queueVars, WaitersByKind
<1>8. QED  BY <1>2, <1>3, <1>4, <1>5, <1>6, <1>7 DEF QueueNext

\* notify(), wait_for and close(): a chunk or a slot never lies about while a
\* thread sleeps for it, with any number of threads, puts and gets that time
\* out, failed reads and cleanups.
THEOREM NoWakeupLost == QueueSpec => []NoLostWakeup
<1>1. QueueInit => WakeInv
  <2> SUFFICES ASSUME QueueInit  PROVE WakeInv
    OBVIOUS
  <2>1. \A o \in Ops : \A q : Sleepers(o, q) = {}
    BY DEF QueueInit, Sleepers, NotInside, Waits
  <2>2. QED  BY <2>1 DEF QueueInit, WakeInv, NoLostWakeup, WaitersByKind, NotInside, Waits, Ops
<1>2. TypeInv /\ TypeInv' /\ WakeInv /\ [QueueNext]_queueVars => WakeInv'
  <2> SUFFICES ASSUME TypeInv, TypeInv', WakeInv, [QueueNext]_queueVars  PROVE WakeInv'
    OBVIOUS
  <2>1. WaitersByKind'
    BY StepKeepsKinds DEF WakeInv
  <2>2. CASE /\ \E t \in Threads, q \in Queues : PutStep(t, q) \/ GetStep(t, q)
             /\ UNCHANGED spillOn
    BY <2>1, <2>2, PutStepWakes, GetStepWakes DEF WakeInv
  <2>3. CASE (\E q \in Queues : Close(q) \/ Cleanup(q)) /\ UNCHANGED spillOn
    BY <2>1, <2>3, CloseWakes, CleanupWakes DEF WakeInv
  <2>4. CASE /\ (\E e \in Execs : Sweep(e)) \/ (\E f \in doomed : UnlinkDoomed(f))
             /\ UNCHANGED spillOn
    <3>1. UNCHANGED <<inmem, spill, closed, thread>>
      BY <2>4 DEF Sweep, UnlinkDoomed
    <3>2. \A o, r : Sleepers(o, r)' = Sleepers(o, r) /\ Woken(o, r)' = Woken(o, r)
      BY <3>1 DEF Sleepers, Woken
    <3>3. QED  BY <2>1, <3>1, <3>2 DEF WakeInv, NoLostWakeup
  <2>5. CASE UNCHANGED queueVars
    BY <2>1, <2>5 DEF queueVars, WakeInv, NoLostWakeup, Sleepers, Woken
  <2>6. QED  BY <2>2, <2>3, <2>4, <2>5 DEF QueueNext
<1>3. WakeInv => NoLostWakeup
  BY DEF WakeInv
<1>4. QED  BY <1>1, <1>2, <1>3, TypeInvInductive, PTL DEF QueueSpec

-----------------------------------------------------------------------------
(* Division, with the divisions named so that the solver meets no more      *)
(* than one product of unknowns at a time.                                  *)

LEMMA DivOf ==
  ASSUME NEW a \in Int, NEW n \in Nat \ {0}
  PROVE  a \div n \in Int /\ n * (a \div n) <= a /\ a < n * (a \div n) + n
OBVIOUS

LEMMA ProductOrder ==
  ASSUME NEW x \in Int, NEW y \in Int, NEW n \in Nat \ {0}, n * x < n * y + n
  PROVE  x <= y
<1>1. SUFFICES ASSUME x >= y + 1  PROVE FALSE
  OBVIOUS
<1>2. n * (x - (y + 1)) >= 0
  BY <1>1
<1>3. n * (x - (y + 1)) = n * x - (n * y + n)
  OBVIOUS
<1>4. n * x \in Int /\ n * y \in Int
  OBVIOUS
<1>5. QED  BY <1>2, <1>3, <1>4

LEMMA DivMonotone ==
  ASSUME NEW a \in Int, NEW b \in Int, NEW n \in Nat \ {0}, a <= b
  PROVE  a \div n <= b \div n
<1> DEFINE x == a \div n
           y == b \div n
<1>1. x \in Int /\ y \in Int /\ n * x <= a /\ b < n * y + n
  BY DivOf
<1> HIDE DEF x, y
<1>2. n * x \in Int /\ n * y \in Int
  BY <1>1
<1>3. n * x < n * y + n
  BY <1>1, <1>2
<1>4. x <= y
  BY <1>1, <1>3, ProductOrder
<1>5. QED  BY <1>4 DEF x, y

\* A quotient is on the same side of zero as its dividend.
LEMMA DivSign ==
  ASSUME NEW a \in Nat, NEW n \in Nat \ {0}
  PROVE  a \div n \in Nat
OBVIOUS

LEMMA TruncMonotone ==
  ASSUME NEW a \in Int, NEW b \in Int, NEW n \in Nat \ {0}, a <= b
  PROVE  Trunc(a, n) \in Int /\ Trunc(b, n) \in Int /\ Trunc(a, n) <= Trunc(b, n)
<1>1. CASE a >= 0
  <2>1. Trunc(a, n) = a \div n /\ Trunc(b, n) = b \div n
    BY <1>1 DEF Trunc
  <2>2. QED  BY <2>1, DivMonotone, DivOf
<1>2. CASE a < 0 /\ b >= 0
  <2>1. Trunc(a, n) = -((-a) \div n) /\ Trunc(b, n) = b \div n
    BY <1>2 DEF Trunc
  <2>2. (-a) \div n \in Nat /\ b \div n \in Nat
    BY <1>2, DivSign
  <2>3. QED  BY <2>1, <2>2
<1>3. CASE b < 0
  <2>1. Trunc(a, n) = -((-a) \div n) /\ Trunc(b, n) = -((-b) \div n)
    BY <1>3 DEF Trunc
  <2>2. (-b) \div n <= (-a) \div n
    BY DivMonotone
  <2>3. (-a) \div n \in Int /\ (-b) \div n \in Int
    BY DivOf
  <2>4. QED  BY <2>1, <2>2, <2>3
<1>4. QED  BY <1>1, <1>2, <1>3

LEMMA TruncOfMultiple ==
  ASSUME NEW x \in Int, NEW n \in Nat \ {0}
  PROVE  Trunc(x * n, n) = x
<1>1. CASE x >= 0
  <2>1. x * n >= 0 /\ x * n \in Int
    BY <1>1
  <2>2. (x * n) \div n = x
    BY <1>1
  <2>3. QED  BY <2>1, <2>2 DEF Trunc
<1>2. CASE x < 0
  <2>1. x * n < 0 /\ x * n \in Int /\ -(x * n) = (-x) * n
    BY <1>2
  <2>2. ((-x) * n) \div n = -x
    BY <1>2
  <2>3. QED  BY <1>2, <2>1, <2>2 DEF Trunc
<1>3. QED  BY <1>1, <1>2

-----------------------------------------------------------------------------
(* The ends that an integer key gets are such as Cuts describes. *)

LEMMA CutIsTrunc ==
  ASSUME NEW lo \in Int, NEW hi \in Int, lo <= hi, NEW n \in Nat \ {0}, NEW i \in 0..n
  PROVE  /\ lo * n + (hi - lo) * i \in Int
         /\ ExactCuts(lo, hi, n)[i] = Trunc(lo * n + (hi - lo) * i, n)
<1>1. lo * n + (hi - lo) * i \in Int
  OBVIOUS
<1>2. CASE i = 0
  <2>1. lo * n + (hi - lo) * i = lo * n
    BY <1>2
  <2>2. QED  BY <1>1, <1>2, <2>1, TruncOfMultiple DEF ExactCuts
<1>3. CASE i = n
  <2>1. lo * n + (hi - lo) * n = hi * n
    OBVIOUS
  <2>2. i # 0
    BY <1>3
  <2>3. QED  BY <1>1, <1>3, <2>1, <2>2, TruncOfMultiple DEF ExactCuts
<1>4. CASE i # 0 /\ i # n
  BY <1>1, <1>4 DEF ExactCuts
<1>5. QED  BY <1>2, <1>3, <1>4

LEMMA ExactCutsMonotone ==
  ASSUME NEW lo \in Int, NEW hi \in Int, lo <= hi, NEW n \in Nat \ {0},
         NEW i \in 0..n, NEW j \in 0..n, i <= j
  PROVE  /\ ExactCuts(lo, hi, n)[i] \in Int /\ ExactCuts(lo, hi, n)[j] \in Int
         /\ ExactCuts(lo, hi, n)[i] <= ExactCuts(lo, hi, n)[j]
<1> DEFINE a == lo * n + (hi - lo) * i
           b == lo * n + (hi - lo) * j
<1>1. a \in Int /\ b \in Int
  BY CutIsTrunc
<1>2. (hi - lo) * (j - i) >= 0 /\ (hi - lo) * (j - i) = b - a
  OBVIOUS
<1>3. ExactCuts(lo, hi, n)[i] = Trunc(a, n) /\ ExactCuts(lo, hi, n)[j] = Trunc(b, n)
  BY CutIsTrunc
<1> HIDE DEF a, b
<1>4. a <= b
  BY <1>1, <1>2
<1>5. QED  BY <1>1, <1>3, <1>4, TruncMonotone

\* With an exact step the ends lie in the interval and only grow, however the
\* width divides, on either side of zero.
THEOREM ExactCutsAreCuts ==
  ASSUME NEW lo \in Int, NEW hi \in Int, lo < hi, NEW n \in Nat \ {0}
  PROVE  /\ ExactCuts(lo, hi, n) \in Cuts(n)
         /\ ExactCuts(lo, hi, n)[0] = lo /\ ExactCuts(lo, hi, n)[n] = hi
<1> DEFINE c == ExactCuts(lo, hi, n)
<1>1. c[0] = lo /\ c[n] = hi
  BY DEF ExactCuts
<1>2. \A i, j \in 0..n : i <= j => c[i] \in Int /\ c[j] \in Int /\ c[i] <= c[j]
  BY ExactCutsMonotone
<1>3. DOMAIN c = 0..n /\ c = [i \in 0..n |-> c[i]]
  BY DEF ExactCuts
<1> HIDE DEF c
<1>4. c \in [0..n -> Int]
  BY <1>2, <1>3
<1>5. c \in Cuts(n)
  BY <1>1, <1>2, <1>4 DEF Cuts
<1>6. QED  BY <1>1, <1>5 DEF c

-----------------------------------------------------------------------------
\* A set of numbers below a bound is not closed under adding one (a finite
\* set has no injection into itself without 0).
LEMMA NotClosedUnderSuccessor ==
  ASSUME NEW n \in Nat, NEW L \in SUBSET (0..n), 0 \in L
  PROVE  \E k \in L : k + 1 \notin L
<1>1. SUFFICES ASSUME \A k \in L : k + 1 \in L  PROVE FALSE
  OBVIOUS
<1> DEFINE M == L \ {0}
           f == [k \in L |-> k + 1]
<1>2. IsFiniteSet(0..n)
  BY FS_Interval
<1>3. IsFiniteSet(L) /\ IsFiniteSet(M) /\ Cardinality(M) = Cardinality(L) - 1
  BY <1>2, FS_Subset, FS_RemoveElement
<1>4. Cardinality(L) \in Nat
  BY <1>3, FS_CardinalityType
<1>5. f \in Injection(L, M)
  <2>1. \A k \in L : k \in Int /\ k + 1 \in M
    BY <1>1
  <2>2. f \in [L -> M]
    BY <2>1
  <2>3. \A a, b \in L : f[a] = f[b] => a = b
    BY <2>1
  <2>4. QED  BY <2>2, <2>3 DEF Injection, IsInjective
<1>6. Cardinality(L) <= Cardinality(M)
  BY <1>3, <1>5, FS_Injection
<1>7. QED  BY <1>3, <1>4, <1>6

\* No value of the interval is in two ranges, and none is in no range: the
\* partitioned extraction reads each key once, however the width divides and
\* wherever the rounding puts the ends between lo and hi ("as faixas cobrem
\* MIN..MAX sem sobreposicao").
THEOREM EachKeyInOneRange ==
  ASSUME NEW n \in Nat \ {0}, NEW cut \in Cuts(n), NEW v \in cut[0]..cut[n]
  PROVE  /\ \E i \in 1..n : InRange(cut, n, i, v)
         /\ \A i, j \in 1..n : InRange(cut, n, i, v) /\ InRange(cut, n, j, v) => i = j
<1>1. \A i \in 0..n : cut[i] \in Int
  BY DEF Cuts
<1>2. \A i, j \in 1..(n - 1) : i <= j => cut[i] <= cut[j]
  BY DEF Cuts
<1>3. v \in Int /\ cut[0] <= v /\ v <= cut[n]
  BY <1>1
<1>4. \E i \in 1..n : InRange(cut, n, i, v)
  <2>1. SUFFICES ASSUME \A i \in 1..n : cut[i - 1] <= v => ~(v < cut[i] \/ (i = n /\ v = cut[n]))
                 PROVE  FALSE
    BY DEF InRange
  <2> DEFINE L == {i \in 0..n : i < n /\ cut[i] <= v}
  <2>2. L \in SUBSET (0..n) /\ 0 \in L
    BY <1>3
  <2>3. PICK k \in L : k + 1 \notin L
    BY <2>2, NotClosedUnderSuccessor
  <2>4. k + 1 \in 1..n /\ (k + 1) - 1 = k /\ cut[k] <= v /\ k < n
    BY <2>3
  <2>5. ~(v < cut[k + 1]) /\ ~(k + 1 = n /\ v = cut[n])
    BY <2>1, <2>4
  <2>6. k + 1 = n
    BY <1>1, <1>3, <2>3, <2>4, <2>5
  <2>7. QED  BY <1>1, <1>3, <2>5, <2>6
<1>5. ASSUME NEW i \in 1..n, NEW j \in 1..n, i < j, InRange(cut, n, i, v), InRange(cut, n, j, v)
      PROVE  FALSE
  <2>1. v < cut[i] /\ cut[j - 1] <= v
    BY <1>5 DEF InRange
  <2>2. cut[i] <= cut[j - 1]
    BY <1>2, <1>5
  <2>3. cut[i] \in Int /\ cut[j - 1] \in Int
    BY <1>1
  <2>4. QED  BY <1>3, <2>1, <2>2, <2>3
<1>6. \A i, j \in 1..n : InRange(cut, n, i, v) /\ InRange(cut, n, j, v) => i = j
  BY <1>5
<1>7. QED  BY <1>4, <1>6
=============================================================================
