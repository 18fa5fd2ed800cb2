-------------------------- MODULE ExtractionProofs --------------------------
(***************************************************************************)
(* CancelStopsProducers and OutcomeTruthful of the partitioned extraction, *)
(* for any interval, partitions, batches, sizes of the queue and faults.   *)
(***************************************************************************)
EXTENDS ExtractionPipeline, FunctionTheorems, FiniteSetTheorems, SequenceTheorems, TLAPS

\* What is proved of the queue.
QP == INSTANCE ChunkQueueProofs WITH
        Queues <- {Queue}, Execs <- {Exec}, ExecOf <- [q \in {Queue} |-> Exec],
        spillOn <- [q \in {Queue} |-> setup.spill]

LEMMA ThreadsAreFinite == IsFiniteSet(Threads)
<1>1. IsFiniteSet(Parts)
  BY PartsAssumption, FS_Interval DEF Parts
<1>2. IsFiniteSet({Consumer}) /\ {Consumer, Main} = {Consumer} \union {Main}
  BY FS_Singleton
<1>3. IsFiniteSet({Consumer, Main})
  BY <1>2, FS_AddElement
<1> QED  BY <1>1, <1>3, FS_Union DEF Threads

\* What is assumed of the queue there.
LEMMA QueueFits ==
    /\ QP!IsFiniteSet(Threads)
    /\ MaxSize \in Nat \ {0}
    /\ [q \in {Queue} |-> Exec] \in [{Queue} -> {Exec}]
BY ThreadsAreFinite, SizeAssumption DEF QP!IsFiniteSet, IsFiniteSet

-----------------------------------------------------------------------------
(* The batches of a partition *)

\* A row of a partition by its batch and its place in it.
LEMMA BatchSizes ==
    ASSUME NEW c \in Nat, NEW r \in Nat \ {0}
    PROVE  LET b == (c + r - 1) \div r
           IN  /\ b \in Nat
               /\ c <= r * b
               /\ b > 0 => r * (b - 1) < c
<1> DEFINE b == (c + r - 1) \div r
<1>1. b \in Int /\ r * b <= c + r - 1 /\ c + r - 1 < r * b + r
  BY QP!DivOf, QueueFits
<1>2. r * b \in Int /\ r * (b - 1) = r * b - r
  BY <1>1
<1>3. b >= 0
  <2>1. SUFFICES ASSUME b <= -1  PROVE FALSE
    BY <1>1
  <2>2. r * (b + 1) <= 0
    BY <1>1, <2>1
  <2>3. r * (b + 1) = r * b + r
    BY <1>1
  <2> HIDE DEF b
  <2> QED  BY <1>1, <1>2, <2>2, <2>3
<1> HIDE DEF b
<1>4. c <= r * b
  BY <1>1, <1>2
<1>5. r * (b - 1) < c
  BY <1>1, <1>2
<1> QED  BY <1>1, <1>3, <1>4, <1>5 DEF b

Size(p) == Cardinality(KeysOf(p))
First(p) == IF p \notin Active \/ setup.cut[p - 1] < setup.cut[0] THEN setup.cut[0]
            ELSE setup.cut[p - 1]

Typical == setup.parts \in Parts /\ setup.cut \in Cuts(setup.parts)

LEMMA SetupIsTypical == ASSUME setup \in Setups PROVE Typical
BY SetupsAssumption DEF Typical

LEMMA SameRanges ==
    \A cut, n, i, v : QP!Cuts(n) = Cuts(n) /\ QP!InRange(cut, n, i, v) = InRange(cut, n, i, v)
BY DEF QP!Cuts, Cuts, QP!InRange, InRange

LEMMA CutsTyped ==
    ASSUME Typical
    PROVE  /\ setup.parts \in Nat \ {0} /\ setup.parts <= N /\ N \in Nat \ {0}
           /\ \A i \in 0..setup.parts : setup.cut[i] \in Int
           /\ setup.cut[0] <= setup.cut[setup.parts]
           /\ Active \subseteq Parts
BY PartsAssumption DEF Typical, Cuts, Parts, Active

\* The keys of a partition are an interval.
LEMMA KeysOfIsInterval ==
    ASSUME Typical, NEW p \in Parts
    PROVE  /\ First(p) \in Int /\ Size(p) \in Nat
           /\ KeysOf(p) = First(p)..(First(p) + Size(p) - 1)
           /\ p \notin Active => Size(p) = 0
<1> DEFINE c(i) == setup.cut[i]
           n == setup.parts
           lo == c(0)
           hi == c(n)
           first == First(p)
           last == IF p \notin Active THEN lo - 1
                   ELSE IF p = n \/ c(p) > hi THEN hi ELSE c(p) - 1
<1>1. n \in Nat \ {0} /\ lo \in Int /\ hi \in Int /\ lo <= hi
  BY CutsTyped
<1>2. p \in Active => p \in 1..n /\ p - 1 \in 0..n /\ p \in 0..n
  BY <1>1 DEF Active
<1>3. p \in Active => c(p - 1) \in Int /\ c(p) \in Int
  BY <1>2, CutsTyped
<1>4. first \in Int /\ last \in Int
  BY <1>1, <1>3 DEF First
<1>5. KeysOf(p) = first..last
  <2> DEFINE a == c(p - 1)
             b == c(p)
  <2>1. KeysOf(p) = {v \in lo..hi : p \in Active /\ a <= v /\ (v < b \/ (p = n /\ v = hi))}
    BY DEF KeysOf, Keys, InRange
  <2>2. /\ first = IF p \notin Active \/ a < lo THEN lo ELSE a
        /\ p \in Active => a \in Int /\ b \in Int
        /\ p = n => b = hi
    BY <1>3 DEF First
  <2> HIDE DEF a, b, lo, hi, first
  <2>3. CASE p \notin Active
    <3>1. last = lo - 1
      BY <2>3 DEF b
    <3> QED  BY <1>1, <2>1, <2>2, <2>3, <3>1
  <2>4. CASE p \in Active /\ p = n
    <3>1. last = hi
      BY <2>4
    <3> QED  BY <1>1, <2>1, <2>2, <2>4, <3>1
  <2>5. CASE p \in Active /\ p # n
    <3>1. last = IF b > hi THEN hi ELSE b - 1
      BY <2>5 DEF b
    <3> QED  BY <1>1, <2>1, <2>2, <2>5, <3>1
  <2> QED  BY <2>3, <2>4, <2>5
<1> HIDE DEF first, last
<1>6. CASE last < first
  <2>1. KeysOf(p) = {}
    BY <1>4, <1>5, <1>6
  <2>2. Size(p) = 0
    BY <2>1, FS_EmptySet DEF Size
  <2> QED  BY <1>4, <2>1, <2>2 DEF first
<1>7. CASE first <= last
  <2>1. Size(p) = last - first + 1
    BY <1>4, <1>5, <1>7, FS_Interval DEF Size
  <2>2. p \in Active
    BY <1>1, <1>7 DEF first, last, First
  <2> QED  BY <1>4, <1>5, <1>7, <2>1, <2>2 DEF first
<1> QED  BY <1>4, <1>6, <1>7

LEMMA KeysAreFinite ==
    ASSUME Typical
    PROVE  IsFiniteSet(Keys)
BY CutsTyped, FS_Interval DEF Keys

\* A batch has rows, and not more than BatchRows.
LEMMA BatchesHaveRows ==
    ASSUME Typical, NEW p \in Parts
    PROVE  /\ Batches(p) \in Nat
           /\ \A n \in 1..Batches(p) : RowsOf(p, n) \in 1..BatchRows
           /\ p \notin Active => Batches(p) = 0
<1> DEFINE b == Batches(p)
           r == BatchRows
<1>1. Size(p) \in Nat /\ r \in Nat \ {0}
  BY KeysOfIsInterval, RowsAssumption
<1>2. b = (Size(p) + r - 1) \div r
  BY DEF Batches, Size
<1>3. b \in Nat /\ Size(p) <= r * b /\ (b > 0 => r * (b - 1) < Size(p))
  BY <1>1, <1>2, BatchSizes
<1>4. \A n \in 1..b : RowsOf(p, n) = IF n < b THEN r ELSE Size(p) - r * (n - 1)
  BY DEF RowsOf, Size
<1>5. r * b \in Int /\ r * (b - 1) = r * b - r
  BY <1>1, <1>3
<1> HIDE DEF b, r
<1>6. ASSUME NEW n \in 1..b  PROVE RowsOf(p, n) \in 1..r
  <2>1. CASE n < b
    BY <1>1, <1>4, <2>1
  <2>2. CASE n = b
    <3>1. RowsOf(p, n) = Size(p) - r * (b - 1)
      BY <1>4, <2>2
    <3>2. b > 0
      BY <2>2
    <3> QED  BY <1>1, <1>3, <1>5, <3>1, <3>2
  <2> QED  BY <1>3, <2>1, <2>2
<1>7. p \notin Active => b = 0
  <2>1. SUFFICES ASSUME p \notin Active, b # 0  PROVE FALSE
    OBVIOUS
  <2>2. Size(p) = 0
    BY <2>1, KeysOfIsInterval
  <2>3. r * (b - 1) < 0 /\ b - 1 >= 0
    BY <1>1, <1>3, <2>1, <2>2
  <2>4. r * (b - 1) >= 0
    BY <1>1, <1>3, <2>3
  <2> QED  BY <1>1, <1>3, <1>5, <2>3, <2>4
<1> QED  BY <1>3, <1>6, <1>7 DEF b, r

\* The rows of a partition in the order of the cursor, batch by batch.
Place(n, k) == BatchRows * (n - 1) + k

LEMMA PlacesFillPartition ==
    ASSUME Typical, NEW p \in Parts
    PROVE  /\ \A n \in 1..Batches(p) : \A k \in 1..RowsOf(p, n) : Place(n, k) \in 1..Size(p)
           /\ \A n, m \in 1..Batches(p) : \A k \in 1..RowsOf(p, n), l \in 1..RowsOf(p, m) :
                Place(n, k) = Place(m, l) => n = m /\ k = l
           /\ \A x \in 1..Size(p) : \E n \in 1..Batches(p) : \E k \in 1..RowsOf(p, n) :
                x = Place(n, k)
<1> DEFINE b == Batches(p)
           r == BatchRows
           z == Size(p)
<1>1. z \in Nat /\ r \in Nat \ {0}
  BY KeysOfIsInterval, RowsAssumption
<1>2. /\ b \in Nat /\ z <= r * b /\ (b > 0 => r * (b - 1) < z)
      /\ \A n \in 1..b : RowsOf(p, n) \in 1..r
      /\ \A n \in 1..b : RowsOf(p, n) = IF n < b THEN r ELSE z - r * (n - 1)
  BY <1>1, BatchSizes, BatchesHaveRows DEF Batches, RowsOf, Size
<1>3. \A n, k \in Int : Place(n, k) = r * (n - 1) + k /\ r * (n - 1) \in Int
                          /\ r * (n - 1) = r * n - r /\ r * n \in Int
  BY <1>1 DEF Place
<1> HIDE DEF b, r, z
<1>4. ASSUME NEW n \in 1..b, NEW k \in 1..RowsOf(p, n)  PROVE Place(n, k) \in 1..z
  <2>1. n \in Int /\ k \in Int /\ RowsOf(p, n) \in 1..r
    BY <1>2
  <2>2. Place(n, k) = r * (n - 1) + k /\ r * (n - 1) \in Int
    BY <1>3, <2>1
  <2>3. r * (n - 1) >= 0
    BY <1>1
  <2>4. CASE n < b
    <3>1. r * (b - n - 1) >= 0
      BY <1>1, <1>2, <2>4
    <3>2. r * (b - n - 1) = r * (b - 1) - r * n
      BY <1>1, <1>2
    <3>3. r * (b - 1) \in Int /\ r * n \in Int /\ r * n = r * (n - 1) + r
      BY <1>1, <1>2
    <3> QED  BY <1>1, <1>2, <2>1, <2>2, <2>3, <2>4, <3>1, <3>2, <3>3
  <2>5. CASE n = b
    BY <1>1, <1>2, <2>1, <2>2, <2>3, <2>5
  <2> QED  BY <1>2, <2>4, <2>5
<1>5. ASSUME NEW n \in 1..b, NEW m \in 1..b, NEW k \in 1..RowsOf(p, n), NEW l \in 1..RowsOf(p, m),
             Place(n, k) = Place(m, l)
      PROVE  n = m /\ k = l
  <2>1. k \in 1..r /\ l \in 1..r
    BY <1>1, <1>2
  <2>2. /\ Place(n, k) = r * n - r + k /\ Place(m, l) = r * m - r + l
        /\ r * n \in Int /\ r * m \in Int
    <3>1. n \in Int /\ m \in Int /\ k \in Int /\ l \in Int
      BY <2>1
    <3> QED  BY <1>3, <3>1
  <2> DEFINE x == r * n
             y == r * m
  <2>6. x \in Int /\ y \in Int /\ x - r + k = y - r + l
    BY <1>5, <2>2
  <2> HIDE DEF x, y
  <2>7. x < y + r /\ y < x + r
    BY <1>1, <2>1, <2>6
  <2>3. r * n < r * m + r /\ r * m < r * n + r
    BY <2>7 DEF x, y
  <2>4. n <= m /\ m <= n
    BY <1>1, <2>3, QP!ProductOrder, QueueFits
  <2>5. n = m
    BY <2>4
  <2>8. k = l
    BY <1>1, <2>1, <2>5, <2>6 DEF x, y
  <2> QED  BY <2>5, <2>8
<1>6. ASSUME NEW x \in 1..z
      PROVE  \E n \in 1..b : \E k \in 1..RowsOf(p, n) : x = Place(n, k)
  <2> DEFINE d == (x - 1) \div r
             k == x - r * d
  <2>1. d \in Int /\ r * d <= x - 1 /\ x - 1 < r * d + r
    BY <1>1, QP!DivOf, QueueFits
  <2>2. d >= 0
    BY <1>1, QP!DivSign, QueueFits
  <2> HIDE DEF d
  <2>3. r * d \in Int /\ r * b \in Int /\ r * (b - 1) = r * b - r
    BY <1>1, <1>2, <2>1
  <2>4. d + 1 <= b
    <3>1. r * (d + 1) < r * b + r
      <4>1. r * (d + 1) = r * d + r
        BY <1>1, <2>1
      <4> QED  BY <1>1, <1>2, <2>1, <2>3, <4>1
    <3> QED  BY <1>1, <1>2, <2>1, <3>1, QP!ProductOrder, QueueFits
  <2>5. d + 1 \in 1..b
    BY <1>2, <2>1, <2>2, <2>4
  <2>6. RowsOf(p, d + 1) = IF d + 1 < b THEN r ELSE z - r * d
    BY <1>2, <2>1, <2>5
  <2>7. k \in 1..RowsOf(p, d + 1)
    BY <1>1, <2>1, <2>3, <2>6
  <2>8. x = Place(d + 1, k)
    <3>1. Place(d + 1, k) = r * d + k
      BY <1>3, <2>1, <2>3
    <3> QED  BY <2>3, <3>1
  <2> QED  BY <2>5, <2>7, <2>8
<1> QED  BY <1>4, <1>5, <1>6 DEF b, z

LEMMA OneRange ==
    ASSUME Typical, NEW v \in Keys
    PROVE  /\ \E i \in Active : InRange(setup.cut, setup.parts, i, v)
           /\ \A i, j \in Active :
                InRange(setup.cut, setup.parts, i, v) /\ InRange(setup.cut, setup.parts, j, v) => i = j
<1>1. setup.parts \in Nat \ {0} /\ setup.cut \in QP!Cuts(setup.parts) /\ v \in setup.cut[0]..setup.cut[setup.parts]
  BY CutsTyped, SameRanges DEF Typical, Keys
<1> QED  BY <1>1, QP!EachKeyInOneRange, QueueFits, SameRanges DEF Active

LEMMA FiniteBack ==
    ASSUME NEW S, NEW T, IsFiniteSet(T), ExistsBijection(S, T)
    PROVE  Cardinality(S) = Cardinality(T)
<1>1. ExistsBijection(T, S)
  BY Fun_ExistsBijSymmetric
<1> QED  BY <1>1, FS_Bijection

\* The table has a row for each key, if every batch is in it once and whole.
LEMMA RowsAreKeys ==
    ASSUME Typical, InPartitionOrder, table \in Seq([part : Parts, n : Nat, rows : Nat]),
           \A i \in DOMAIN table : /\ table[i].n \in 1..Batches(table[i].part)
                                   /\ table[i].rows = RowsOf(table[i].part, table[i].n),
           \A p \in Parts : \A n \in 1..Batches(p) :
             \E i \in DOMAIN table : table[i].part = p /\ table[i].n = n
    PROVE  Cardinality(Rows) = Cardinality(Keys)
<1>2. \A i \in DOMAIN table : table[i].part \in Parts /\ table[i].n \in Nat
  <2> DEFINE R == [part : Parts, n : Nat, rows : Nat]
  <2>1. \A i \in DOMAIN table : table[i] \in R
    <3> HIDE DEF R
    <3>1. table \in Seq(R) /\ DOMAIN table = 1..Len(table)
      BY DEF R
    <3> QED  BY <3>1, ElementOfSeq
  <2> QED  BY <2>1
<1> DEFINE key(i, k) == First(table[i].part) + Place(table[i].n, k) - 1
           f == [r \in Rows |-> key(r[1], r[2])]
<1>1. \A r : r \in Rows <=> \E i \in DOMAIN table : \E k \in 1..table[i].rows : r = <<i, k>>
  BY DEF Rows
<1>3. ASSUME NEW i \in DOMAIN table, NEW k \in 1..table[i].rows
      PROVE  /\ <<i, k>> \in Rows /\ f[<<i, k>>] = key(i, k)
             /\ key(i, k) \in KeysOf(table[i].part)
             /\ Place(table[i].n, k) \in Int /\ First(table[i].part) \in Int
  <2> DEFINE p == table[i].part
             n == table[i].n
  <2>1. <<i, k>> \in Rows
    BY <1>1
  <2>2. p \in Parts /\ n \in 1..Batches(p) /\ table[i].rows = RowsOf(p, n)
    BY <1>2
  <2>3. Place(n, k) \in 1..Size(p)
    <3>1. k \in 1..RowsOf(p, n)
      BY <2>2
    <3> HIDE DEF p, n
    <3> QED  BY <2>2, <3>1, PlacesFillPartition
  <2>4. First(p) \in Int /\ Size(p) \in Nat /\ KeysOf(p) = First(p)..(First(p) + Size(p) - 1)
    <3> HIDE DEF p, n
    <3> QED  BY <2>2, KeysOfIsInterval
  <2>5. First(p) + Place(n, k) - 1 \in KeysOf(p)
    <3> HIDE DEF p, n
    <3> QED  BY <2>3, <2>4
  <2>6. f[<<i, k>>] = key(i, k)
    BY <2>1
  <2> QED  BY <2>1, <2>3, <2>4, <2>5, <2>6
<1>4. \A p \in Parts : KeysOf(p) \subseteq Keys
  BY DEF KeysOf
<1>5. f \in [Rows -> Keys]
  <2>1. ASSUME NEW r \in Rows  PROVE f[r] \in Keys
    <3>1. PICK i \in DOMAIN table : \E k \in 1..table[i].rows : r = <<i, k>>
      BY <1>1
    <3>2. PICK k \in 1..table[i].rows : r = <<i, k>>
      BY <3>1
    <3>3. f[<<i, k>>] = key(i, k) /\ key(i, k) \in KeysOf(table[i].part) /\ table[i].part \in Parts
      BY <1>2, <1>3
    <3> HIDE DEF f, key
    <3> QED  BY <1>4, <3>2, <3>3
  <2> QED  BY <2>1
<1>6. \A i, j \in DOMAIN table :
        table[i].part = table[j].part /\ table[i].n = table[j].n => i = j
  <2>1. \A i, j \in DOMAIN table :
          table[i].part = table[j].part /\ table[i].n = table[j].n => ~(i < j)
    <3> SUFFICES ASSUME NEW i \in DOMAIN table, NEW j \in DOMAIN table, i < j,
                        table[i].part = table[j].part, table[i].n = table[j].n
                 PROVE  FALSE
      OBVIOUS
    <3>1. i \in 1..(j - 1)
      OBVIOUS
    <3>2. table[i].n \in Behind(j)
      BY <3>1 DEF Behind
    <3>3. table[i].n \in 1..(table[j].n - 1)
      BY <3>2 DEF InPartitionOrder
    <3> QED  BY <1>2, <3>3
  <2>2. \A i \in DOMAIN table : i \in Nat
    OBVIOUS
  <2> QED  BY <2>1, <2>2
<1>7. ASSUME NEW i \in DOMAIN table, NEW k \in 1..table[i].rows,
             NEW j \in DOMAIN table, NEW l \in 1..table[j].rows, key(i, k) = key(j, l)
      PROVE  <<i, k>> = <<j, l>>
  <2> DEFINE p == table[i].part
  <2>1. key(i, k) \in KeysOf(p) /\ key(i, k) \in KeysOf(table[j].part)
    BY <1>3, <1>7
  <2>2. p = table[j].part
    <3> DEFINE v == key(i, k)
               q == table[j].part
    <3>1. v \in Keys /\ v \in KeysOf(p) /\ v \in KeysOf(q)
      BY <1>2, <1>4, <2>1
    <3> HIDE DEF key, p, v, q
    <3>2. /\ p \in Active /\ InRange(setup.cut, setup.parts, p, v)
          /\ q \in Active /\ InRange(setup.cut, setup.parts, q, v)
      BY <3>1 DEF KeysOf
    <3> QED  BY <3>1, <3>2, OneRange DEF q
  <2>3. Place(table[i].n, k) = Place(table[j].n, l)
    <3>1. /\ Place(table[i].n, k) \in Int /\ Place(table[j].n, l) \in Int
          /\ First(p) \in Int /\ First(table[j].part) = First(p)
      BY <1>3, <2>2
    <3>2. First(p) + Place(table[i].n, k) - 1 = First(p) + Place(table[j].n, l) - 1
      BY <1>7, <2>2
    <3> QED  BY <3>1, <3>2
  <2>4. table[i].n = table[j].n /\ k = l
    <3> DEFINE n == table[i].n
               m == table[j].n
    <3>1. p \in Parts /\ n \in 1..Batches(p) /\ m \in 1..Batches(p)
      BY <1>2, <2>2
    <3>2. k \in 1..RowsOf(p, n) /\ l \in 1..RowsOf(p, m)
      BY <2>2
    <3> HIDE DEF p, n, m
    <3>3. Place(n, k) = Place(m, l)
      BY <2>3 DEF n, m
    <3>4. n = m /\ k = l
      BY <3>1, <3>2, <3>3, PlacesFillPartition
    <3> QED  BY <3>4 DEF n, m
  <2> QED  BY <1>6, <2>2, <2>4
<1>8. ASSUME NEW v \in Keys
      PROVE  \E r \in Rows : f[r] = v
  <2>1. PICK p \in Parts : v \in KeysOf(p)
    BY OneRange, CutsTyped DEF KeysOf
  <2> DEFINE x == v - First(p) + 1
  <2>2. x \in 1..Size(p) /\ v = First(p) + x - 1 /\ First(p) \in Int
    BY <2>1, KeysOfIsInterval
  <2>3. PICK n \in 1..Batches(p) : \E k \in 1..RowsOf(p, n) : x = Place(n, k)
    BY <2>2, PlacesFillPartition
  <2>6. PICK k \in 1..RowsOf(p, n) : x = Place(n, k)
    BY <2>3
  <2>4. PICK i \in DOMAIN table : table[i].part = p /\ table[i].n = n
    OBVIOUS
  <2>5. k \in 1..table[i].rows
    <3>1. table[i].rows = RowsOf(p, n)
      BY <2>4
    <3> QED  BY <3>1
  <2>7. key(i, k) = v
    BY <2>2, <2>4, <2>6
  <2>8. <<i, k>> \in Rows /\ f[<<i, k>>] = key(i, k)
    BY <1>3, <2>5
  <2> HIDE DEF key, f
  <2> QED  BY <2>7, <2>8
<1>9. IsFiniteSet(Keys)
  BY KeysAreFinite
<1> HIDE DEF key
<1>10. ASSUME NEW r \in Rows, NEW q \in Rows, f[r] = f[q]  PROVE r = q
  <2>1. PICK i \in DOMAIN table : \E k \in 1..table[i].rows : r = <<i, k>>
    BY <1>1
  <2>2. PICK k \in 1..table[i].rows : r = <<i, k>>
    BY <2>1
  <2>3. PICK j \in DOMAIN table : \E l \in 1..table[j].rows : q = <<j, l>>
    BY <1>1
  <2>4. PICK l \in 1..table[j].rows : q = <<j, l>>
    BY <2>3
  <2>5. f[<<i, k>>] = key(i, k) /\ f[<<j, l>>] = key(j, l)
    BY <1>3
  <2> HIDE DEF f
  <2> QED  BY <1>7, <1>10, <2>2, <2>4, <2>5
<1> HIDE DEF f
<1>11. f \in Bijection(Rows, Keys)
  BY <1>5, <1>8, <1>10 DEF Bijection, Injection, Surjection, IsInjective
<1>12. ExistsBijection(Rows, Keys)
  BY <1>11 DEF ExistsBijection
<1> QED  BY <1>9, <1>12, FiniteBack

-----------------------------------------------------------------------------
(* The queue under the extraction *)

LEMMA SameQueue ==
    /\ QP!QueueTypeOK = Q!QueueTypeOK /\ QP!QueueInit = Q!QueueInit /\ QP!queueVars = Q!queueVars /\ QP!QueueNext = Q!QueueNext
BY DEF QP!QueueTypeOK, Q!QueueTypeOK, QP!QueueInit, Q!QueueInit, QP!queueVars, Q!queueVars, QP!Tickets, Q!Tickets,
   QP!Files, Q!Files,
   QP!Waits, Q!Waits, QP!NotInside, Q!NotInside, QP!Waiting, Q!Waiting, QP!Sleepers, Q!Sleepers,
   QP!Notify, Q!Notify, QP!HasRoom, Q!HasRoom, QP!HasChunk, Q!HasChunk, QP!NextTicket,
   Q!NextTicket, QP!File, Q!File, QP!Write, Q!Write, QP!Unlink, Q!Unlink, QP!AppendToRam,
   Q!AppendToRam, QP!MayPut, Q!MayPut, QP!PutInRam, Q!PutInRam, QP!PutOnDisk,
   Q!PutOnDisk, QP!PutDiskError, Q!PutDiskError, QP!PutSleeps, Q!PutSleeps, QP!Looks,
   Q!Looks, QP!Returns, Q!Returns, QP!SleepsAgain, Q!SleepsAgain, QP!PutResumes,
   Q!PutResumes, QP!PutFindsClosed, Q!PutFindsClosed, QP!PutSleepsAgain,
   Q!PutSleepsAgain, QP!PutTimesOut, Q!PutTimesOut, QP!Lesser, Q!Lesser, QP!Loads,
   Q!Loads, QP!SpillFile, Q!SpillFile, QP!Readable, Q!Readable, QP!AtHand, Q!AtHand,
   QP!LeftInRam, Q!LeftInRam, QP!DropPointers, Q!DropPointers, QP!Takes, Q!Takes,
   QP!ReadFails, Q!ReadFails, QP!MayGet, Q!MayGet, QP!Get, Q!Get, QP!GetReadError,
   Q!GetReadError, QP!GetDrained, Q!GetDrained, QP!GetSleeps, Q!GetSleeps,
   QP!GetSleepsAgain, Q!GetSleepsAgain, QP!GetTimesOut, Q!GetTimesOut, QP!Close, Q!Close,
   QP!Cleanup, Q!Cleanup, QP!Sweep, Q!Sweep, QP!UnlinkDoomed, Q!UnlinkDoomed, QP!PutStep,
   Q!PutStep, QP!GetStep, Q!GetStep, QP!QueueNext, Q!QueueNext, QP!Torn, Q!Torn

LEMMA OneExec == QP!DistinctExecs
BY DEF QP!DistinctExecs

\* Each step of the program is a step of the queue, or leaves it alone.
LEMMA StepOfQueue == Next => [Q!QueueNext]_(Q!queueVars)
<1> SUFFICES ASSUME Next  PROVE Q!QueueNext \/ UNCHANGED Q!queueVars
  OBVIOUS
<1>1. setup' = setup /\ [q \in {Queue} |-> setup.spill]' = [q \in {Queue} |-> setup.spill]
  BY DEF Next
<1>2. UNCHANGED queueVars => UNCHANGED Q!queueVars
  BY <1>1 DEF queueVars, Q!queueVars
<1>3. \A t \in Threads : (Q!PutStep(t, Queue) \/ Q!GetStep(t, Queue)) => Q!QueueNext
  BY <1>1 DEF Q!QueueNext
<1>4. ASSUME NEW t \in Threads, NEW x, NEW timed \in BOOLEAN,
             Accepts(t, x) \/ Blocks(t, timed) \/ DiskError(t) \/ TimesOut(t)
      PROVE  Q!QueueNext
  BY <1>3, <1>4 DEF Accepts, Blocks, DiskError, TimesOut, Q!PutStep
<1>5. Parts \subseteq Threads /\ Consumer \in Threads /\ Main \in Threads
  BY DEF Threads
<1>6. ASSUME NEW p \in Parts, ProducerStep(p)  PROVE Q!QueueNext \/ UNCHANGED Q!queueVars
  <2>1. CASE Checks(p) \/ Fetches(p)
    BY <1>2, <2>1 DEF Checks, Fetches
  <2>2. CASE Puts(p)
    BY <1>4, <1>5, <2>2 DEF Puts
  <2>3. CASE EndsStream(p)
    BY <1>4, <1>5, <2>3 DEF EndsStream
  <2> QED  BY <1>6, <2>1, <2>2, <2>3 DEF ProducerStep
<1>7. CASE Receives
  BY <1>3, <1>5, <1>7 DEF Receives, Q!GetStep
<1>8. CASE CountsEof \/ Drains \/ ReachesLimit \/ Writes \/ Collects \/ Concludes \/ CancelsExecution
  BY <1>2, <1>8 DEF CountsEof, Drains, ReachesLimit, Writes, Collects, Concludes, CancelsExecution
<1>9. CASE SendsEof
  BY <1>4, <1>5, <1>9 DEF SendsEof
<1>10. CASE Joins \/ Unlinks \/ RunnerSweeps
  BY <1>1, <1>10 DEF Joins, Unlinks, RunnerSweeps, Q!QueueNext
<1> QED  BY <1>6, <1>7, <1>8, <1>9, <1>10 DEF Next, ConsumerStep, MainStep

QueueInv == QP!TypeInv /\ QP!OrderInv

LEMMA QueueStarts == Init => QueueInv
BY QP!StartIsTyped, QP!StartIsOrdered, QueueFits, SameQueue DEF Init, QueueInv

LEMMA QueueStep == QueueInv /\ [Next]_vars => QueueInv'
<1> SUFFICES ASSUME QueueInv, [Next]_vars  PROVE QueueInv'
  OBVIOUS
<1>1. [QP!QueueNext]_(QP!queueVars)
  <2>1. UNCHANGED vars => UNCHANGED Q!queueVars
    BY DEF vars, queueVars, Q!queueVars
  <2>2. [Q!QueueNext]_(Q!queueVars)
    BY <2>1, StepOfQueue
  <2>3. QP!queueVars' = Q!queueVars'
    BY DEF QP!queueVars, Q!queueVars
  <2> QED  BY <2>2, <2>3, SameQueue
<1>2. QP!TypeInv'
  BY <1>1, QP!StepKeepsTypes, QueueFits DEF QueueInv
<1>3. QP!OrderInv'
  BY <1>1, QP!StepKeepsOrder, OneExec, QueueFits DEF QueueInv
<1> QED  BY <1>2, <1>3 DEF QueueInv

LEMMA QueueTypes ==
    ASSUME QueueInv
    PROVE  /\ Q!QueueTypeOK
           /\ inmem \in [{Queue} -> Seq({Queue} \X Nat)] /\ got \in [{Queue} -> Seq({Queue} \X Nat)]
           /\ spill \in [{Queue} -> Seq(Nat)] /\ accepted \in [{Queue} -> Nat]
           /\ intact \in [{Queue} -> BOOLEAN]
           /\ Len(inmem[Queue]) <= MaxSize
BY SameQueue DEF QueueInv, QP!TypeInv, QP!RamBound, Q!QueueTypeOK, Q!Tickets

LEMMA QueueTypesThere == ASSUME QueueInv' PROVE Q!QueueTypeOK'
<1>1. QP!QueueTypeOK' = Q!QueueTypeOK'
  BY DEF QP!QueueTypeOK, Q!QueueTypeOK, QP!Tickets, Q!Tickets, QP!Files, Q!Files, QP!Waits, Q!Waits,
     QP!NotInside, Q!NotInside, QP!Torn, Q!Torn
<1> QED  BY <1>1 DEF QueueInv, QP!TypeInv

\* What the extraction sees of the queue: how many tickets it gave out and how
\* many it has delivered.
Given == accepted[Queue]
Taken == Len(got[Queue])

Offers(x) ==
    /\ Given' = Given + 1 /\ Taken' = Taken
    /\ payload' = [n \in DOMAIN payload \union {Given + 1} |-> IF n = Given + 1 THEN x ELSE payload[n]]
Rests == Given' = Given /\ Taken' = Taken /\ payload' = payload

LEMMA CountsTyped == ASSUME QueueInv PROVE Given \in Nat /\ Taken \in Nat
BY QueueTypes, LenProperties DEF Given, Taken

LEMMA PutsOfQueue ==
    ASSUME QueueInv, NEW t, NEW x, NEW timed
    PROVE  /\ Accepts(t, x) => Offers(x) /\ got' = got /\ intact' = intact
           /\ Blocks(t, timed) \/ DiskError(t) \/ TimesOut(t) =>
                Rests /\ UNCHANGED <<got, inmem, spill, accepted, intact>>
<1> USE QueueTypes
<1>1. ASSUME Accepts(t, x)  PROVE Offers(x) /\ got' = got /\ intact' = intact
  <2>1. accepted' = [accepted EXCEPT ![Queue] = @ + 1] /\ got' = got /\ intact' = intact
    BY <1>1 DEF Accepts, Q!PutInRam, Q!PutOnDisk, Q!PutResumes, Q!AppendToRam
  <2>2. accepted'[Queue] = Given + 1
    BY <2>1 DEF Given
  <2> QED  BY <1>1, <2>1, <2>2 DEF Accepts, Offers, Given, Taken
<1>2. ASSUME Blocks(t, timed) \/ DiskError(t) \/ TimesOut(t)
      PROVE  Rests /\ UNCHANGED <<got, inmem, spill, accepted, intact>>
  BY <1>2 DEF Blocks, DiskError, TimesOut, Q!PutSleeps, Q!PutSleepsAgain, Q!SleepsAgain,
     Q!PutDiskError, Q!PutTimesOut, Q!Returns, Rests, Given, Taken
<1> QED  BY <1>1, <1>2

LEMMA GetOfQueue ==
    ASSUME QueueInv, Q!Get(Consumer, Queue)
    PROVE  Given' = Given /\ Taken' = Taken + 1 /\ intact' = intact
<1> USE QueueTypes
<1> DEFINE x == Q!AtHand(Queue, Q!Loads(Queue))[1]
<1>1. got' = [got EXCEPT ![Queue] = Append(@, x)] /\ accepted' = accepted /\ intact' = intact
  BY DEF Q!Get, Q!Takes
<1> HIDE DEF x
<1>2. got'[Queue] = Append(got[Queue], x)
  BY <1>1
<1>3. Len(Append(got[Queue], x)) = Len(got[Queue]) + 1
  OBVIOUS
<1> QED  BY <1>1, <1>2, <1>3 DEF Given, Taken

-----------------------------------------------------------------------------
(* Where everybody is *)

\* Main goes on once every producer is done, and it has heard of every failure.
Phases ==
    /\ \A p \in Parts : (p <= collected \/ main # "collect") =>
         pc[p] = "done" /\ failure[p] \in errors \union {"none"}
    /\ \A p \in Parts \ Active : pc[p] = "done" /\ failure[p] = "none"
    /\ collected < setup.parts
    /\ main = "over" <=> outcome # "none"
    /\ outcome \in {"returned", "cancelled"} => errors = {}
    /\ outcome = "returned" /\ ~maxReached => ~cancelEvent
    /\ main = "unlink" \/ outcome \in {"returned", "cancelled"} => expired \/ consumer = "done"

\* While the consumer lives, what it gets is in order; only the closing cleanup
\* takes chunks away from it.
Line ==
    consumer # "dead" =>
      /\ \A i \in 1..Taken : got[Queue][i] = <<Queue, i>>
      /\ \A i \in 1..Len(inmem[Queue]) : inmem[Queue][i] = <<Queue, Taken + i>>
      /\ ~intact[Queue] => spill[Queue] = <<>> /\ main \in {"unlink", "over"}
      /\ Taken + Len(inmem[Queue]) <= Given

IsBatch(x) == x[1] \in Parts /\ x[2] \in 1..Batches(x[1]) /\ x = <<x[1], x[2]>>

\* The tickets that are given out and not handled yet, and what they carry.
Carried ==
    /\ \A n \in DOMAIN payload : payload[n] = Eof \/ IsBatch(payload[n])
    /\ \A p \in Parts : fetched[p] <= Batches(p) /\ (pc[p] = "put" => fetched[p] >= 1)
    /\ consumer # "dead" =>
         DOMAIN payload = ((Taken + 1)..Given) \union (IF consumer = "handle" THEN {Taken} ELSE {})
    /\ consumer = "handle" => Taken >= 1

\* The consumer has not seen all EOFs as long as it works.
Hears ==
    /\ consumer \in {"get", "handle"} => eofs < setup.parts
    /\ consumer = "done" => eofs = setup.parts

Inv == TypeOK /\ QueueInv /\ Phases /\ Line /\ Carried /\ Hears

LEMMA Starts == Init => Inv
<1> SUFFICES ASSUME Init  PROVE Inv
  OBVIOUS
<1>1. QueueInv
  BY QueueStarts
<1>2. TypeOK
  <2>1. Q!QueueTypeOK
    BY <1>1, QueueTypes
  <2>2. /\ table \in Seq([part : Parts, n : Nat, rows : 1..BatchRows]) /\ eofs \in 0..N
        /\ collected \in 0..(N - 1) /\ faults \in 0..MaxFaults
    BY EmptySeq, PartsAssumption, SizeAssumption DEF Init
  <2>3. /\ pc \in [Parts -> {"check", "fetch", "put", "eof", "done"}]
        /\ fetched \in [Parts -> Nat] /\ late \in [Parts -> Nat]
        /\ failure \in [Parts -> {"none", "source", "disk"}]
    BY DEF Init
  <2>4. DOMAIN payload = {}
    BY DEF Init
  <2>5. /\ {cancelEvent, maxReached, expired, open} \subseteq BOOLEAN
        /\ consumer = "get" /\ main = "collect" /\ outcome = "none" /\ requested = "no"
        /\ errors = {} /\ written = 0 /\ setup \in Setups
    BY DEF Init
  <2> QED  BY <2>1, <2>2, <2>3, <2>4, <2>5 DEF TypeOK
<1>3. Phases /\ Hears
  <2>1. Typical
    BY SetupIsTypical DEF Init
  <2> QED  BY <2>1, CutsTyped DEF Init, Phases, Hears, Parts
<1>4. Given = 0 /\ Taken = 0 /\ inmem[Queue] = <<>> /\ intact[Queue]
  BY DEF Init, Q!QueueInit, Given, Taken
<1>5. Line
  BY <1>4 DEF Line
<1>6. Carried
  <2>1. Typical
    BY SetupIsTypical DEF Init
  <2>2. \A p \in Parts : Batches(p) \in Nat
    BY <2>1, BatchesHaveRows
  <2>3. DOMAIN payload = {}
    BY DEF Init
  <2> QED  BY <1>4, <2>2, <2>3 DEF Init, Carried
<1> QED  BY <1>1, <1>2, <1>3, <1>5, <1>6 DEF Inv

LEMMA StepCases ==
    ASSUME [Next]_vars
    PROVE  /\ setup' = setup
           /\ \/ \E p \in Parts : Checks(p) \/ Fetches(p) \/ Puts(p) \/ EndsStream(p)
              \/ Receives \/ CountsEof \/ Drains \/ ReachesLimit \/ Writes
              \/ Collects \/ SendsEof \/ Joins \/ Unlinks \/ Concludes
              \/ CancelsExecution \/ RunnerSweeps
              \/ UNCHANGED vars
BY DEF Next, ProducerStep, ConsumerStep, MainStep, vars

\* The chunk that the consumer has in its hands.
LEMMA AtConsumer ==
    ASSUME Inv, consumer = "handle"
    PROVE  Ticket = Taken /\ Taken \in DOMAIN payload /\ Taken \in Nat
           /\ Item = payload[Taken] /\ (Item = Eof \/ IsBatch(Item))
<1>1. got[Queue][Taken] = <<Queue, Taken>> /\ Taken \in Nat /\ Taken >= 1
  BY CountsTyped DEF Inv, Line, Carried
<1>2. Ticket = Taken
  BY <1>1 DEF Ticket, Taken
<1> QED  BY <1>1, <1>2 DEF Inv, Carried, Item

LEMMA BatchTyped ==
    ASSUME setup \in Setups, NEW x, IsBatch(x)
    PROVE  /\ x \in Parts \X Nat /\ RowsOf(x[1], x[2]) \in 1..BatchRows
           /\ x # Eof
<1>1. Batches(x[1]) \in Nat /\ RowsOf(x[1], x[2]) \in 1..BatchRows /\ x[2] \in Nat
  BY SetupIsTypical, BatchesHaveRows DEF IsBatch
<1>2. x = <<x[1], x[2]>> /\ x[1] \in Parts /\ x[1] # 0
  BY PartsAssumption DEF IsBatch, Parts
<1> QED  BY <1>1, <1>2 DEF Eof

LEMMA ToWrite ==
    ASSUME TypeOK, NEW x, IsBatch(x), x = Item, Remaining > 0
    PROVE  /\ RowsToWrite \in 1..BatchRows
           /\ \/ RowsToWrite = RowsOf(x[1], x[2])
              \/ MaxRows # Unlimited /\ written + RowsToWrite = MaxRows
           /\ MaxRows # Unlimited => written + RowsToWrite <= MaxRows
<1>1. setup \in Setups /\ written \in Nat /\ MaxRows \in Nat \union {Unlimited}
  BY SetupsAssumption DEF TypeOK, MaxRows
<1>2. RowsOf(x[1], x[2]) \in 1..BatchRows
  BY <1>1, BatchTyped
<1>3. BatchRows \in Nat \ {0} /\ Unlimited \notin Nat
  BY RowsAssumption, UnlimitedAssumption
<1> DEFINE n == RowsOf(x[1], x[2])
<1>4. RowsToWrite = IF Remaining < n THEN Remaining ELSE n
  BY DEF RowsToWrite
<1> HIDE DEF n
<1>5. n \in 1..BatchRows /\ n = RowsOf(x[1], x[2])
  BY <1>2 DEF n
<1>6. CASE MaxRows = Unlimited
  <2>1. Remaining = BatchRows
    BY <1>6 DEF Remaining
  <2>2. RowsToWrite = n
    BY <1>3, <1>4, <1>5, <2>1
  <2>3. RowsToWrite \in 1..BatchRows
    BY <1>5, <2>2
  <2>4. RowsToWrite = RowsOf(x[1], x[2])
    BY <1>5, <2>2
  <2> QED  BY <1>6, <2>3, <2>4
<1>7. CASE MaxRows # Unlimited
  <2>1. Remaining = MaxRows - written /\ MaxRows \in Nat /\ MaxRows > written
    BY <1>1, <1>7 DEF Remaining
  <2>2. RowsToWrite \in 1..BatchRows /\ (RowsToWrite = n \/ written + RowsToWrite = MaxRows)
        /\ written + RowsToWrite <= MaxRows
    BY <1>1, <1>3, <1>4, <1>5, <2>1
  <2>3. RowsToWrite = n => RowsToWrite = RowsOf(x[1], x[2])
    BY <1>5
  <2> QED  BY <1>7, <2>2, <2>3
<1> QED  BY <1>6, <1>7

LEMMA TypesStay == Inv /\ QueueInv' /\ [Next]_vars => TypeOK'
<1> SUFFICES ASSUME Inv, QueueInv', [Next]_vars  PROVE TypeOK'
  OBVIOUS
<1> DEFINE Places == {"check", "fetch", "put", "eof", "done"}
           Whys == {"none", "source", "disk"}
           Batch == [part : Parts, n : Nat, rows : 1..BatchRows]
<1>1. TypeOK /\ QueueInv /\ setup' = setup
  BY StepCases DEF Inv
<1>2. Q!QueueTypeOK'
  BY QueueTypesThere
<1>3. /\ setup \in Setups
      /\ pc \in [Parts -> Places] /\ fetched \in [Parts -> Nat] /\ late \in [Parts -> Nat]
      /\ failure \in [Parts -> Whys]
      /\ consumer \in {"get", "handle", "done", "dead"}
      /\ eofs \in 0..N /\ table \in Seq(Batch) /\ written \in Nat
      /\ main \in {"collect", "eofs", "join", "unlink", "over"}
      /\ collected \in 0..(N - 1) /\ errors \subseteq {"source", "disk"}
      /\ outcome \in {"none", "returned", "raised", "cancelled"}
      /\ requested \in {"no", "yes", "swept"}
      /\ {cancelEvent, maxReached, expired, open} \subseteq BOOLEAN
      /\ faults \in 0..MaxFaults
  BY <1>1 DEF TypeOK
<1>4. \A n \in DOMAIN payload' : payload'[n] \in (Parts \X Nat) \union {Eof}
  <2>1. \A n \in DOMAIN payload : payload[n] \in (Parts \X Nat) \union {Eof}
    BY <1>1 DEF TypeOK
  <2>2. ASSUME NEW x \in (Parts \X Nat) \union {Eof}, Offers(x)
        PROVE  \A n \in DOMAIN payload' : payload'[n] \in (Parts \X Nat) \union {Eof}
    BY <2>1, <2>2 DEF Offers
  <2>3. ASSUME Handled
        PROVE  \A n \in DOMAIN payload' : payload'[n] \in (Parts \X Nat) \union {Eof}
    BY <2>1, <2>3 DEF Handled
  <2>4. \A p \in Parts : <<p, fetched[p]>> \in Parts \X Nat
    BY <1>3
  <2>5. CASE payload' = payload
    BY <2>1, <2>5
  <2>6. ASSUME NEW p \in Parts, Puts(p) \/ EndsStream(p)
        PROVE  payload' = payload \/ \E x \in (Parts \X Nat) \union {Eof} : Offers(x)
    BY <1>1, <2>4, <2>6, PutsOfQueue DEF Puts, EndsStream, Rests
  <2>7. ASSUME SendsEof
        PROVE  payload' = payload \/ \E x \in (Parts \X Nat) \union {Eof} : Offers(x)
    BY <1>1, <2>7, PutsOfQueue DEF SendsEof, Rests
  <2>8. payload' = payload \/ Handled \/ \E x \in (Parts \X Nat) \union {Eof} : Offers(x)
    BY <2>6, <2>7, StepCases DEF Checks, Fetches, Receives, CountsEof, Drains, ReachesLimit, Writes,
       Collects, Joins, Unlinks, Concludes, CancelsExecution, RunnerSweeps, vars
  <2> QED  BY <2>2, <2>3, <2>5, <2>8
<1>5. /\ pc' \in [Parts -> Places] /\ fetched' \in [Parts -> Nat] /\ late' \in [Parts -> Nat]
      /\ failure' \in [Parts -> Whys]
  <2>1. ASSUME NEW p \in Parts, Checks(p) \/ Fetches(p) \/ Puts(p) \/ EndsStream(p)
        PROVE  /\ pc' = pc \/ \E to \in Places : Moves(p, to)
               /\ failure' = failure \/ \E why \in Whys : Fails(p, why)
               /\ fetched' = fetched \/ fetched' = [fetched EXCEPT ![p] = @ + 1]
               /\ late' = late \/ late' = [late EXCEPT ![p] = @ + 1]
    BY <1>3, <2>1 DEF Checks, Fetches, Puts, EndsStream
  <2>2. CASE UNCHANGED producerVars
    BY <1>3, <2>2 DEF producerVars
  <2>3. UNCHANGED producerVars \/ \E p \in Parts : Checks(p) \/ Fetches(p) \/ Puts(p) \/ EndsStream(p)
    BY StepCases DEF Receives, CountsEof, Drains, ReachesLimit, Writes,
       Collects, SendsEof, Joins, Unlinks, Concludes, CancelsExecution, RunnerSweeps, vars
  <2>4. ASSUME NEW p \in Parts, Checks(p) \/ Fetches(p) \/ Puts(p) \/ EndsStream(p)
        PROVE  /\ pc' \in [Parts -> Places] /\ failure' \in [Parts -> Whys]
               /\ fetched' \in [Parts -> Nat] /\ late' \in [Parts -> Nat]
    <3>1. pc' \in [Parts -> Places]
      BY <1>3, <2>1, <2>4 DEF Moves
    <3>2. failure' \in [Parts -> Whys]
      BY <1>3, <2>1, <2>4 DEF Fails
    <3>3. fetched' \in [Parts -> Nat]
      <4>1. fetched \in [Parts -> Nat] /\ (fetched' = fetched \/ fetched' = [fetched EXCEPT ![p] = fetched[p] + 1])
        BY <1>3, <2>1, <2>4
      <4> QED  BY <4>1
    <3>4. late' \in [Parts -> Nat]
      <4>1. late \in [Parts -> Nat] /\ (late' = late \/ late' = [late EXCEPT ![p] = late[p] + 1])
        BY <1>3, <2>1, <2>4
      <4> QED  BY <4>1
    <3> QED  BY <3>1, <3>2, <3>3, <3>4
  <2> QED  BY <2>2, <2>3, <2>4
<1>6. /\ consumer' \in {"get", "handle", "done", "dead"}
      /\ eofs' \in 0..N /\ table' \in Seq(Batch) /\ written' \in Nat /\ maxReached' \in BOOLEAN
  <2>1. CASE UNCHANGED consumerVars
    BY <1>3, <2>1 DEF consumerVars
  <2>4. CASE Receives \/ Drains \/ ReachesLimit
    BY <1>3, <2>4 DEF Receives, Drains, ReachesLimit
  <2>5. CASE CountsEof
    <3>1. eofs < setup.parts /\ setup.parts \in Nat /\ setup.parts <= N
      BY <1>3, <2>5, SetupIsTypical, CutsTyped DEF CountsEof, Inv, Hears
    <3>2. eofs + 1 \in 0..N
      BY <1>3, <3>1, PartsAssumption
    <3> QED  BY <1>3, <2>5, <3>2 DEF CountsEof
  <2>2. CASE Receives \/ CountsEof \/ Drains \/ ReachesLimit
    BY <2>2, <2>4, <2>5
  <2>3. CASE Writes
    <3>1. IsBatch(Item)
      BY <2>3, AtConsumer DEF Writes
    <3>2. RowsToWrite \in 1..BatchRows /\ BatchRows \in Nat
      BY <1>1, <2>3, <3>1, ToWrite, RowsAssumption DEF Writes
    <3>3. [part |-> Item[1], n |-> Item[2], rows |-> RowsToWrite] \in Batch
      BY <1>3, <3>1, <3>2, BatchTyped DEF IsBatch
    <3> HIDE DEF Batch
    <3>4. table' \in Seq(Batch)
      <4>1. table' = table \/ table' = Append(table, [part |-> Item[1], n |-> Item[2], rows |-> RowsToWrite])
        BY <2>3 DEF Writes
      <4> DEFINE b == [part |-> Item[1], n |-> Item[2], rows |-> RowsToWrite]
      <4>2. b \in Batch /\ table \in Seq(Batch) /\ (table' = table \/ table' = Append(table, b))
        BY <1>3, <3>3, <4>1
      <4> HIDE DEF b
      <4> QED  BY <4>2, AppendProperties
    <3>5. written' \in Nat
      <4>1. written' = written \/ written' = written + RowsToWrite
        BY <2>3 DEF Writes
      <4> QED  BY <1>3, <3>2, <4>1
    <3> QED  BY <1>3, <2>3, <3>4, <3>5 DEF Writes
  <2> QED
    BY <2>1, <2>2, <2>3, StepCases DEF Checks, Fetches, Puts, EndsStream,
       Collects, SendsEof, Joins, Unlinks, Concludes, CancelsExecution, RunnerSweeps, vars
<1>7. /\ main' \in {"collect", "eofs", "join", "unlink", "over"}
      /\ collected' \in 0..(N - 1) /\ errors' \subseteq {"source", "disk"}
      /\ outcome' \in {"none", "returned", "raised", "cancelled"}
      /\ {expired, open}' \subseteq BOOLEAN
  <2>1. CASE UNCHANGED mainVars
    BY <1>3, <2>1 DEF mainVars
  <2>2. CollectedOne => collected' \in 0..(N - 1)
    <3>1. collected < setup.parts /\ setup.parts \in Nat /\ setup.parts <= N
      BY <1>3, SetupIsTypical, CutsTyped DEF Inv, Phases
    <3> QED  BY <1>3, <3>1, PartsAssumption DEF CollectedOne
  <2>3. CASE Collects
    <3>1. failure[collected + 1] \in Whys
      BY <1>3, PartsAssumption DEF Parts
    <3> QED  BY <1>3, <2>2, <2>3, <3>1 DEF Collects, NextPhase
  <2>4. CASE SendsEof \/ Joins \/ Concludes
    BY <1>3, <2>2, <2>4 DEF SendsEof, Joins, Concludes, NextPhase, Verdict, WaitExpired
  <2> QED
    BY <2>1, <2>3, <2>4, StepCases DEF Checks, Fetches, Puts, EndsStream, Receives, CountsEof, Drains,
       ReachesLimit, Writes, Unlinks, CancelsExecution, RunnerSweeps, vars
<1>8. requested' \in {"no", "yes", "swept"} /\ cancelEvent' \in BOOLEAN /\ faults' \in 0..MaxFaults
  <2>1. Fault => faults' \in 0..MaxFaults
    <3>1. faults \in 0..MaxFaults /\ MaxFaults \in Nat
      BY <1>3, SizeAssumption
    <3> QED  BY <3>1 DEF Fault
  <2>2. /\ cancelEvent' \in {cancelEvent, TRUE, cancelEvent \/ setup.cancel = "wired"}
        /\ requested' \in {requested, "yes", "swept"}
        /\ faults' = faults \/ Fault
    BY StepCases DEF Checks, Fetches, Puts, EndsStream, DiskError, Receives, CountsEof, Drains,
       ReachesLimit, Writes, Collects, SendsEof, Joins, Unlinks, Concludes, CancelsExecution, RunnerSweeps, vars
  <2> QED  BY <1>3, <2>1, <2>2
<1> QED  BY <1>1, <1>2, <1>3, <1>4, <1>5, <1>6, <1>7, <1>8 DEF TypeOK

LEMMA PhasesStay == Inv /\ [Next]_vars => Phases'
<1> SUFFICES ASSUME Inv, [Next]_vars  PROVE Phases'
  OBVIOUS
<1>1. Phases
  BY DEF Inv
<1>2. /\ pc \in [Parts -> {"check", "fetch", "put", "eof", "done"}]
      /\ failure \in [Parts -> {"none", "source", "disk"}]
      /\ collected \in 0..(N - 1) /\ N \in Nat \ {0}
      /\ main \in {"collect", "eofs", "join", "unlink", "over"}
      /\ outcome \in {"none", "returned", "raised", "cancelled"}
      /\ consumer \in {"get", "handle", "done", "dead"}
      /\ cancelEvent \in BOOLEAN /\ maxReached \in BOOLEAN
      /\ setup' = setup /\ setup.parts \in Nat \ {0} /\ setup.parts <= N
  BY PartsAssumption, StepCases, SetupIsTypical, CutsTyped DEF Inv, TypeOK
<1>3. ASSUME NEW p \in Parts, Checks(p) \/ Fetches(p) \/ Puts(p) \/ EndsStream(p)
      PROVE  Phases'
  <2>1. UNCHANGED <<consumerVars, mainVars, cancelEvent>>
    BY <1>3 DEF Checks, Fetches, Puts, EndsStream
  <2>2. /\ pc[p] # "done"
        /\ \A q \in Parts \ {p} : pc'[q] = pc[q] /\ failure'[q] = failure[q]
    BY <1>2, <1>3 DEF Checks, Fetches, Puts, EndsStream, Moves, Fails
  <2> QED  BY <1>1, <1>2, <2>1, <2>2 DEF Phases, Active, consumerVars, mainVars
<1>4. CASE Receives \/ CountsEof \/ Drains \/ ReachesLimit \/ Writes
  <2>1. UNCHANGED <<producerVars, mainVars>>
    BY <1>4 DEF Receives, CountsEof, Drains, ReachesLimit, Writes
  <2>2. consumer # "done"
    BY <1>4 DEF Receives, CountsEof, Drains, ReachesLimit, Writes
  <2>3. UNCHANGED <<maxReached, cancelEvent>> \/ maxReached' = TRUE
    <3>1. CASE ReachesLimit
      BY <3>1 DEF ReachesLimit
    <3>2. CASE Receives \/ CountsEof \/ Drains \/ Writes
      BY <3>2 DEF Receives, CountsEof, Drains, Writes
    <3> QED  BY <1>4, <3>1, <3>2
  <2> QED  BY <1>1, <1>2, <2>1, <2>2, <2>3 DEF Phases, Active, producerVars, mainVars
<1>5. CASE Collects
  <2>1. collected + 1 \in Parts /\ pc[collected + 1] = "done"
    BY <1>2, <1>5 DEF Collects, Parts
  <2>2. /\ UNCHANGED <<producerVars, consumerVars, outcome, expired>>
        /\ main = "collect" /\ main' \in {"collect", "eofs"}
        /\ failure[collected + 1] \in errors' \union {"none"} /\ errors \subseteq errors'
        /\ main' = "collect" => collected' = collected + 1
        /\ main' = "eofs" => collected + 1 = setup.parts
        /\ collected' < setup.parts
    BY <1>1, <1>2, <1>5 DEF Phases, Collects, NextPhase, CollectedOne
  <2>3. \A p \in Parts : p \in Nat
    BY DEF Parts
  <2>4. \A p \in Active : (p <= collected' \/ main' # "collect") => p <= collected \/ p = collected + 1
    BY <1>2, <2>2, <2>3 DEF Parts, Active
  <2> QED  BY <1>1, <1>2, <2>1, <2>2, <2>4 DEF Phases, Active, producerVars, consumerVars
<1>6. CASE SendsEof
  <2>1. UNCHANGED <<producerVars, consumerVars, errors, expired, cancelEvent>> /\ main = "eofs"
    BY <1>6 DEF SendsEof
  <2>2. /\ \/ main' \in {"eofs", "join"} /\ outcome' = outcome
           \/ main' = "over" /\ outcome' = "raised"
        /\ collected' < setup.parts
    <3>1. collected < setup.parts
      BY <1>1 DEF Phases
    <3>2. \/ collected' = collected
          \/ collected' = IF collected + 1 = setup.parts THEN 0 ELSE collected + 1
      BY <1>6 DEF SendsEof, CollectedOne
    <3>4. collected' < setup.parts
      BY <1>2, <3>1, <3>2
    <3>3. \/ main' \in {"eofs", "join"} /\ outcome' = outcome
          \/ main' = "over" /\ outcome' = "raised"
      BY <1>6 DEF SendsEof, NextPhase
    <3> QED  BY <1>2, <3>3, <3>4
  <2> QED  BY <1>1, <1>2, <2>1, <2>2 DEF Phases, Active, producerVars, consumerVars
<1>7. CASE Joins
  <2>1. UNCHANGED <<producerVars, consumerVars, errors, outcome, cancelEvent, collected>>
        /\ main = "join" /\ main' = "unlink" /\ expired' = (consumer # "done")
    BY <1>7 DEF Joins, WaitExpired
  <2> QED  BY <1>1, <1>2, <2>1 DEF Phases, Active, producerVars, consumerVars
<1>8. CASE Concludes
  <2>1. UNCHANGED <<producerVars, consumerVars, errors, expired, cancelEvent, collected>>
        /\ main = "unlink" /\ main' = "over" /\ outcome' = Verdict
    BY <1>8 DEF Concludes
  <2> QED  BY <1>1, <1>2, <2>1 DEF Phases, Active, producerVars, consumerVars, Verdict
<1>9. CASE Unlinks \/ RunnerSweeps \/ UNCHANGED vars
  <2>1. UNCHANGED <<producerVars, consumerVars, mainVars, cancelEvent>>
    BY <1>9 DEF Unlinks, RunnerSweeps, vars
  <2> QED  BY <1>1, <1>2, <2>1 DEF Phases, Active, producerVars, consumerVars, mainVars
<1>10. CASE CancelsExecution
  <2>1. UNCHANGED <<producerVars, consumerVars, mainVars>> /\ outcome = "none"
    BY <1>10 DEF CancelsExecution
  <2> QED  BY <1>1, <1>2, <2>1 DEF Phases, Active, producerVars, consumerVars, mainVars
<1> QED  BY <1>3, <1>4, <1>5, <1>6, <1>7, <1>8, <1>9, <1>10, StepCases

\* The consumer's get when the queue has lost its pointers: it takes from the RAM.
LEMMA GetFromRam ==
    ASSUME QueueInv, Q!Get(Consumer, Queue), spill[Queue] = <<>>
    PROVE  /\ inmem[Queue] # <<>> /\ spill'[Queue] = <<>>
           /\ got'[Queue] = Append(got[Queue], inmem[Queue][1])
           /\ Len(inmem'[Queue]) = Len(inmem[Queue]) - 1
           /\ \A i \in 1..Len(inmem'[Queue]) : inmem'[Queue][i] = inmem[Queue][i + 1]
<1> DEFINE m == inmem[Queue]
<1>1. /\ inmem \in [{Queue} -> Seq({Queue} \X Nat)] /\ got \in [{Queue} -> Seq({Queue} \X Nat)]
      /\ spill \in [{Queue} -> Seq(Nat)] /\ Len(m) <= MaxSize
  BY QueueTypes
<1>2. m # <<>>
  BY DEF Q!Get, Q!Takes, Q!HasChunk
<1>3. Len(m) \in Nat /\ Len(m) >= 1 /\ MaxSize \in Nat
  BY <1>1, <1>2, EmptySeq, LenProperties, SizeAssumption
<1>4. Q!Loads(Queue) = 0
  <2>1. Len(spill[Queue]) = 0
    OBVIOUS
  <2> QED  BY <1>1, <1>2, <1>3, <2>1 DEF Q!Loads, Q!Lesser
<1>5. /\ inmem' = [inmem EXCEPT ![Queue] = Q!LeftInRam(Queue, 0)]
      /\ got' = [got EXCEPT ![Queue] = Append(@, Q!AtHand(Queue, 0)[1])]
      /\ spill' = [spill EXCEPT ![Queue] = SubSeq(@, 1, Len(@))]
  BY <1>4 DEF Q!Get, Q!Takes, Q!DropPointers
<1>6. inmem'[Queue] = Q!LeftInRam(Queue, 0) /\ got'[Queue] = Append(got[Queue], Q!AtHand(Queue, 0)[1])
  BY <1>1, <1>5
<1>7. spill'[Queue] = <<>>
  BY <1>1, <1>5
<1>8. Q!AtHand(Queue, 0) = [i \in 1..Len(m) |-> m[i]]
  BY <1>3 DEF Q!AtHand
<1>9. Q!LeftInRam(Queue, 0) = [i \in 1..(Len(m) - 1) |-> m[i + 1]]
  BY <1>3, <1>8 DEF Q!LeftInRam
<1>10. Len(inmem'[Queue]) = Len(m) - 1
  BY <1>3, <1>6, <1>9
<1>11. \A i \in 1..(Len(m) - 1) : inmem'[Queue][i] = m[i + 1]
  BY <1>6, <1>9
<1>12. Q!AtHand(Queue, 0)[1] = m[1]
  BY <1>3, <1>8
<1> QED  BY <1>2, <1>6, <1>7, <1>10, <1>11, <1>12

LEMMA LineStays == Inv /\ QueueInv' /\ [Next]_vars => Line'
<1> SUFFICES ASSUME Inv, QueueInv', [Next]_vars, consumer' # "dead"  PROVE Line'
  BY DEF Line
<1>1. QueueInv /\ Line /\ Phases
  BY DEF Inv
<1>2. consumer # "dead"
  BY StepCases DEF Checks, Fetches, Puts, EndsStream, Receives, CountsEof, Drains, ReachesLimit, Writes,
     Collects, SendsEof, Joins, Unlinks, Concludes, CancelsExecution, RunnerSweeps, vars,
     consumerVars
<1>3. CASE intact'[Queue]
  <2>1. QP!Ordered(Queue)'
    BY <1>3 DEF QueueInv, QP!OrderInv
  <2>2. Len(spill[Queue])' \in Nat /\ Taken' \in Nat /\ Len(inmem[Queue])' \in Nat
    BY QueueTypesThere, LenProperties DEF Q!QueueTypeOK, Taken
  <2>3. /\ Given' = Taken' + Len(inmem[Queue])' + Len(spill[Queue])'
        /\ \A i \in 1..Taken' : got'[Queue][i] = <<Queue, i>>
        /\ \A i \in 1..Len(inmem'[Queue]) : inmem'[Queue][i] = <<Queue, Taken' + i>>
    BY <2>1 DEF QP!Ordered, Taken, Given
  <2>4. Taken' + Len(inmem'[Queue]) <= Given'
    BY <2>2, <2>3
  <2> QED  BY <1>3, <2>3, <2>4 DEF Line
<1>4. CASE ~intact'[Queue] /\ UNCHANGED <<got, inmem, spill, accepted, intact>>
           /\ (main \in {"unlink", "over"} => main' \in {"unlink", "over"})
  BY <1>1, <1>2, <1>4 DEF Line, Taken, Given
<1>5. ASSUME NEW t \in Threads, NEW x, Accepts(t, x), main \notin {"unlink", "over"}  PROVE Line'
  <2>1. intact' = intact
    BY <1>1, <1>5, PutsOfQueue
  <2> QED  BY <1>1, <1>2, <1>3, <1>5, <2>1 DEF Line, QueueInv, QP!TypeInv, QP!QueueTypeOK
<1>6. \A p \in Parts : pc[p] # "done" => main \notin {"unlink", "over"}
  BY <1>1 DEF Phases
<1>7. Parts \subseteq Threads /\ Consumer \in Threads /\ Main \in Threads
  BY DEF Threads
<1>8. CASE ~intact'[Queue]
  <2>1. ASSUME NEW p \in Parts, Checks(p) \/ Fetches(p) \/ Puts(p) \/ EndsStream(p)  PROVE Line'
    <3>1. CASE \E x : Accepts(p, x)
      BY <1>5, <1>6, <1>7, <2>1, <3>1 DEF Checks, Fetches, Puts, EndsStream
    <3>2. CASE ~\E x : Accepts(p, x)
      <4>1. UNCHANGED <<got, inmem, spill, accepted, intact>>
        BY <1>1, <2>1, <3>2, PutsOfQueue DEF Checks, Fetches, Puts, EndsStream, queueVars
      <4> QED  BY <1>4, <1>8, <2>1, <4>1 DEF Checks, Fetches, Puts, EndsStream, mainVars
    <3> QED  BY <3>1, <3>2
  <2>2. CASE Receives
    <3>1. CASE Q!Get(Consumer, Queue)
      <4>1. ~intact[Queue] /\ spill[Queue] = <<>> /\ main \in {"unlink", "over"} /\ main' = main
        BY <1>1, <1>2, <1>8, <2>2, <3>1, GetOfQueue DEF Line, Receives, mainVars
      <4> DEFINE m == inmem[Queue]
                 g == got[Queue]
      <4>2. /\ m # <<>> /\ spill'[Queue] = <<>>
            /\ got'[Queue] = Append(g, m[1]) /\ Len(inmem'[Queue]) = Len(m) - 1
            /\ \A i \in 1..Len(inmem'[Queue]) : inmem'[Queue][i] = m[i + 1]
        BY <1>1, <3>1, <4>1, GetFromRam
      <4>3. g \in Seq({Queue} \X Nat) /\ m \in Seq({Queue} \X Nat)
        BY <1>1, QueueTypes
      <4>4. Len(m) \in Nat /\ Len(m) >= 1 /\ Taken \in Nat /\ Given \in Nat
        BY <1>1, <4>2, <4>3, EmptySeq, LenProperties, CountsTyped
      <4>5. /\ \A i \in 1..Taken : g[i] = <<Queue, i>>
            /\ \A i \in 1..Len(m) : m[i] = <<Queue, Taken + i>>
            /\ Taken + Len(m) <= Given
        BY <1>1, <1>2 DEF Line
      <4>6. m[1] = <<Queue, Taken + 1>> /\ m[1] \in {Queue} \X Nat
        <5>1. 1 \in 1..Len(m) /\ Taken + 1 \in Nat
          BY <4>4
        <5>2. m[1] = <<Queue, Taken + 1>>
          BY <4>5, <5>1
        <5> QED  BY <5>1, <5>2
      <4>7. /\ Len(Append(g, m[1])) = Taken + 1
            /\ \A i \in 1..Taken : Append(g, m[1])[i] = g[i]
            /\ Append(g, m[1])[Taken + 1] = m[1]
        BY <4>3, <4>6, AppendProperties DEF Taken
      <4>8. Taken' = Taken + 1 /\ Given' = Given
        BY <1>1, <3>1, GetOfQueue
      <4> HIDE DEF m, g
      <4>9. \A i \in 1..(Taken + 1) : got'[Queue][i] = <<Queue, i>>
        <5> SUFFICES ASSUME NEW i \in 1..(Taken + 1)  PROVE got'[Queue][i] = <<Queue, i>>
          OBVIOUS
        <5>1. CASE i = Taken + 1
          BY <4>2, <4>6, <4>7, <5>1
        <5>2. CASE i # Taken + 1
          <6>1. i \in 1..Taken
            BY <4>4, <5>2
          <6> QED  BY <4>2, <4>5, <4>7, <6>1
        <5> QED  BY <5>1, <5>2
      <4>10. \A i \in 1..(Len(m) - 1) : inmem'[Queue][i] = <<Queue, (Taken + 1) + i>>
        <5> SUFFICES ASSUME NEW i \in 1..(Len(m) - 1)  PROVE inmem'[Queue][i] = <<Queue, (Taken + 1) + i>>
          OBVIOUS
        <5>1. inmem'[Queue][i] = m[i + 1] /\ i + 1 \in 1..Len(m)
          BY <4>2, <4>4
        <5>2. m[i + 1] = <<Queue, Taken + (i + 1)>>
          BY <4>5, <5>1
        <5>3. Taken + (i + 1) = (Taken + 1) + i
          BY <4>4
        <5> QED  BY <5>1, <5>2, <5>3
      <4>11. (Taken + 1) + (Len(m) - 1) <= Given
        BY <4>4, <4>5
      <4> QED  BY <4>1, <4>2, <4>8, <4>9, <4>10, <4>11 DEF Line
    <3>2. CASE ~Q!Get(Consumer, Queue)
      <4>1. UNCHANGED <<got, inmem, spill, accepted, intact>>
        BY <2>2, <3>2 DEF Receives, Q!GetSleeps, Q!GetSleepsAgain, Q!SleepsAgain
      <4> QED  BY <1>4, <1>8, <2>2, <4>1 DEF Receives, mainVars
    <3> QED  BY <3>1, <3>2
  <2>3. CASE CountsEof \/ Drains \/ ReachesLimit \/ Writes \/ Collects \/ Concludes \/ CancelsExecution
              \/ Unlinks \/ RunnerSweeps \/ UNCHANGED vars
    <3>1. UNCHANGED <<got, inmem, spill, accepted, intact>>
      BY <2>3 DEF CountsEof, Drains, ReachesLimit, Writes, Collects, Concludes, CancelsExecution, Unlinks,
         RunnerSweeps, vars, queueVars, Q!UnlinkDoomed, Q!Sweep
    <3>2. main \in {"unlink", "over"} => main' \in {"unlink", "over"}
      BY <2>3 DEF CountsEof, Drains, ReachesLimit, Writes, Collects, Concludes, CancelsExecution, Unlinks,
         RunnerSweeps, vars, mainVars
    <3> QED  BY <1>4, <1>8, <3>1, <3>2
  <2>4. CASE SendsEof
    <3>1. CASE \E x : Accepts(Main, x)
      BY <1>5, <1>7, <2>4, <3>1 DEF SendsEof
    <3>2. CASE ~\E x : Accepts(Main, x)
      <4>1. UNCHANGED <<got, inmem, spill, accepted, intact>>
        BY <1>1, <2>4, <3>2, PutsOfQueue DEF SendsEof
      <4> QED  BY <1>4, <1>8, <2>4, <4>1 DEF SendsEof
    <3> QED  BY <3>1, <3>2
  <2>5. CASE Joins
    <3>1. main' = "unlink" /\ UNCHANGED <<got, inmem, accepted>> /\ spill' = [spill EXCEPT ![Queue] = <<>>]
      BY <2>5 DEF Joins, Q!Cleanup
    <3>2. spill'[Queue] = <<>>
      BY <1>1, <3>1, QueueTypes
    <3> QED  BY <1>1, <1>2, <3>1, <3>2 DEF Line, Taken, Given
  <2> QED  BY <2>1, <2>2, <2>3, <2>4, <2>5, StepCases
<1> QED  BY <1>3, <1>8

\* What a step does to the tickets: one more is given out and carries a batch or an
\* EOF; one is delivered; one is handled; or none of these.
Hands == /\ consumer = "get" /\ consumer' = "handle"
         /\ Given' = Given /\ Taken' = Taken + 1 /\ payload' = payload
Finishes == /\ consumer = "handle" /\ consumer' # "handle"
            /\ Given' = Given /\ Taken' = Taken /\ Handled
Sleeps == Rests /\ (consumer' = consumer \/ (consumer = "get" /\ consumer' = "dead"))

LEMMA TicketSteps ==
    ASSUME Inv, [Next]_vars
    PROVE  \/ \E x : Offers(x) /\ consumer' = consumer /\ (x = Eof \/ \E p \in Parts : pc[p] = "put" /\ x = <<p, fetched[p]>>)
           \/ Hands \/ Finishes \/ Sleeps
<1>1. QueueInv
  BY DEF Inv
<1>2. UNCHANGED <<got, accepted, payload>> => Rests
  BY DEF Rests, Given, Taken
<1>3. ASSUME NEW p \in Parts, Checks(p) \/ Fetches(p)  PROVE Sleeps
  BY <1>2, <1>3 DEF Checks, Fetches, Sleeps, queueVars, consumerVars
<1>4. ASSUME NEW p \in Parts, Puts(p)
      PROVE  Sleeps \/ (pc[p] = "put" /\ Offers(<<p, fetched[p]>>) /\ consumer' = consumer)
  BY <1>1, <1>4, PutsOfQueue DEF Puts, Sleeps, consumerVars
<1>5. ASSUME NEW p \in Parts, EndsStream(p)
      PROVE  Sleeps \/ (Offers(Eof) /\ consumer' = consumer)
  BY <1>1, <1>5, PutsOfQueue DEF EndsStream, Sleeps, consumerVars
<1>6. CASE SendsEof
  BY <1>1, <1>6, PutsOfQueue DEF SendsEof, Sleeps, consumerVars
<1>7. CASE Receives
  <2>1. CASE Q!Get(Consumer, Queue) /\ consumer' = "handle"
    BY <1>1, <1>7, <2>1, GetOfQueue DEF Receives, Hands
  <2>2. CASE ~(Q!Get(Consumer, Queue) /\ consumer' = "handle")
    BY <1>2, <1>7, <2>2 DEF Receives, Sleeps, Q!GetReadError, Q!ReadFails, Q!GetSleeps, Q!GetSleepsAgain, Q!SleepsAgain
  <2> QED  BY <2>1, <2>2
<1>8. CASE CountsEof \/ Drains \/ ReachesLimit \/ Writes
  BY <1>8 DEF CountsEof, Drains, ReachesLimit, Writes, Finishes, queueVars, Given, Taken
<1>9. CASE Collects \/ Joins \/ Unlinks \/ Concludes \/ CancelsExecution \/ RunnerSweeps \/ UNCHANGED vars
  <2>1. UNCHANGED <<got, accepted, payload, consumerVars>>
    BY <1>9 DEF Collects, Joins, Unlinks, Concludes, CancelsExecution, RunnerSweeps, vars, queueVars,
       Q!Cleanup, Q!UnlinkDoomed, Q!Sweep
  <2> QED  BY <1>2, <2>1 DEF Sleeps, consumerVars
<1> QED  BY <1>3, <1>4, <1>5, <1>6, <1>7, <1>8, <1>9, StepCases

LEMMA CarriedStays == Inv /\ QueueInv' /\ Line' /\ [Next]_vars => Carried'
<1> SUFFICES ASSUME Inv, QueueInv', Line', [Next]_vars  PROVE Carried'
  OBVIOUS
<1>1. Carried /\ Line /\ setup' = setup /\ Given \in Nat /\ Taken \in Nat
  BY StepCases, CountsTyped DEF Inv
<1>2. \A p : Batches(p)' = Batches(p)
  BY <1>1 DEF Batches, KeysOf, Keys, Active
<1>3. \A x : IsBatch(x)' <=> IsBatch(x)
  BY <1>2 DEF IsBatch
<1>4. \A p \in Parts : Batches(p) \in Nat /\ fetched[p] \in Nat
  BY SetupIsTypical, BatchesHaveRows DEF Inv, TypeOK
<1>5. \A p \in Parts : fetched'[p] <= Batches(p) /\ (pc'[p] = "put" => fetched'[p] >= 1)
  <2>1. fetched \in [Parts -> Nat] /\ pc \in [Parts -> {"check", "fetch", "put", "eof", "done"}]
    BY DEF Inv, TypeOK
  <2>2. ASSUME NEW p \in Parts, Checks(p) \/ Fetches(p) \/ Puts(p) \/ EndsStream(p)
        PROVE  \A q \in Parts : fetched'[q] <= Batches(q) /\ (pc'[q] = "put" => fetched'[q] >= 1)
    <3>1. CASE fetched' = fetched
      <4>1. CASE Fetches(p)
        <5>1. fetched'[p] = fetched[p] /\ fetched[p] + 1 # fetched[p]
          BY <1>4, <3>1
        <5>2. fetched' # [fetched EXCEPT ![p] = @ + 1]
          BY <2>1, <5>1
        <5>3. pc' = [pc EXCEPT ![p] = "eof"]
          BY <4>1, <5>2 DEF Fetches, Moves
        <5>4. \A q \in Parts : pc'[q] = "put" => pc[q] = "put"
          BY <2>1, <5>3
        <5> QED  BY <1>1, <3>1, <5>4 DEF Carried
      <4>2. CASE Checks(p) \/ Puts(p) \/ EndsStream(p)
        <5>1. \E to \in {"check", "fetch", "eof", "done", pc[p]} : pc' = [pc EXCEPT ![p] = to]
          BY <2>1, <4>2 DEF Checks, Puts, EndsStream, Moves
        <5>2. \A q \in Parts : pc'[q] = "put" => pc[q] = "put"
          BY <2>1, <5>1
        <5> QED  BY <1>1, <3>1, <5>2 DEF Carried
      <4> QED  BY <2>2, <4>1, <4>2
    <3>2. CASE fetched' # fetched
      <4>1. Fetches(p) /\ fetched[p] < Batches(p) /\ fetched' = [fetched EXCEPT ![p] = @ + 1]
            /\ pc' = [pc EXCEPT ![p] = "put"]
        BY <2>2, <3>2 DEF Checks, Fetches, Puts, EndsStream, Moves
      <4>2. fetched'[p] = fetched[p] + 1 /\ \A q \in Parts \ {p} : fetched'[q] = fetched[q] /\ pc'[q] = pc[q]
        BY <2>1, <4>1
      <4>3. fetched'[p] <= Batches(p) /\ fetched'[p] >= 1
        BY <1>4, <4>1, <4>2
      <4> QED  BY <1>1, <4>2, <4>3 DEF Carried
    <3> QED  BY <3>1, <3>2
  <2>3. UNCHANGED producerVars \/ \E p \in Parts : Checks(p) \/ Fetches(p) \/ Puts(p) \/ EndsStream(p)
    BY StepCases DEF Receives, CountsEof, Drains, ReachesLimit, Writes,
       Collects, SendsEof, Joins, Unlinks, Concludes, CancelsExecution, RunnerSweeps, vars
  <2> QED  BY <1>1, <2>2, <2>3 DEF Carried, producerVars
<1>6. ASSUME NEW x, Offers(x), consumer' = consumer,
             x = Eof \/ \E p \in Parts : pc[p] = "put" /\ x = <<p, fetched[p]>>
      PROVE  Carried'
  <2>1. x = Eof \/ IsBatch(x)
    BY <1>1, <1>4, <1>6 DEF Carried, IsBatch
  <2>2. \A n \in DOMAIN payload' : payload'[n] = Eof \/ IsBatch(payload'[n])
    BY <1>1, <1>6, <2>1 DEF Carried, Offers
  <2>3. DOMAIN payload' = DOMAIN payload \union {Given + 1} /\ Given' = Given + 1 /\ Taken' = Taken
    BY <1>6 DEF Offers
  <2>4. consumer # "dead" => Taken <= Given
    BY <1>1, <2>3 DEF Line, Inv
  <2>5. consumer # "dead" =>
          DOMAIN payload' = ((Taken + 1)..(Given + 1)) \union (IF consumer = "handle" THEN {Taken} ELSE {})
    <3>1. Taken <= Given => (Taken + 1)..(Given + 1) = ((Taken + 1)..Given) \union {Given + 1}
      BY <1>1
    <3> QED  BY <1>1, <2>3, <2>4, <3>1 DEF Carried
  <2> QED  BY <1>1, <1>3, <1>2, <1>5, <1>6, <2>2, <2>3, <2>5 DEF Carried
<1>7. CASE Hands
  <2>1. Taken + 1 <= Given
    <3> DEFINE l == Len(inmem'[Queue])
    <3>1. Taken' + l <= Given' /\ Taken' = Taken + 1 /\ Given' = Given
      BY <1>7 DEF Line, Hands
    <3>2. l \in Nat
      BY QueueTypesThere, LenProperties DEF Q!QueueTypeOK
    <3>3. Taken \in Nat /\ Given \in Nat
      BY <1>1
    <3>4. (Taken + 1) + l <= Given
      BY <3>1
    <3> HIDE DEF l
    <3> QED  BY <3>2, <3>3, <3>4
  <2>2. (Taken + 1)..Given = ((Taken + 1 + 1)..Given) \union {Taken + 1}
    BY <1>1, <2>1
  <2> QED  BY <1>1, <1>2, <1>3, <1>5, <1>7, <2>2 DEF Carried, Hands
<1>8. CASE Finishes
  <2>1. Ticket = Taken
    BY <1>8, AtConsumer DEF Finishes
  <2>2. DOMAIN payload' = DOMAIN payload \ {Taken} /\ \A n \in DOMAIN payload' : payload'[n] = payload[n]
    BY <1>8, <2>1 DEF Finishes, Handled
  <2>3. DOMAIN payload = ((Taken + 1)..Given) \union {Taken}
    BY <1>1, <1>8 DEF Carried, Finishes
  <2>4. DOMAIN payload' = (Taken + 1)..Given
    BY <1>1, <2>2, <2>3
  <2> QED  BY <1>1, <1>2, <1>3, <1>5, <1>8, <2>2, <2>4 DEF Carried, Finishes
<1>9. CASE Sleeps
  BY <1>1, <1>2, <1>3, <1>5, <1>9 DEF Carried, Sleeps, Rests
<1> QED  BY <1>6, <1>7, <1>8, <1>9, TicketSteps

LEMMA HearsStays == Inv /\ [Next]_vars => Hears'
<1> SUFFICES ASSUME Inv, [Next]_vars  PROVE Hears'
  OBVIOUS
<1>1. Hears /\ eofs \in Nat /\ setup.parts \in Nat \ {0} /\ setup' = setup
  BY PartsAssumption, StepCases, SetupIsTypical, CutsTyped DEF Inv, TypeOK
<1>2. CASE CountsEof
  BY <1>1, <1>2 DEF CountsEof, EnoughEofs, Hears
<1>3. CASE ~CountsEof
  <2>1. eofs' = eofs /\ (consumer' = "done" => consumer = "done")
        /\ (consumer' \in {"get", "handle"} => consumer \in {"get", "handle"})
    BY <1>3, StepCases DEF Checks, Fetches, Puts, EndsStream, Receives, Drains, ReachesLimit, Writes,
       Collects, SendsEof, Joins, Unlinks, Concludes, CancelsExecution, RunnerSweeps, vars, consumerVars
  <2> QED  BY <1>1, <2>1 DEF Hears
<1> QED  BY <1>2, <1>3

LEMMA InvStays == Inv /\ [Next]_vars => Inv'
BY QueueStep, TypesStay, PhasesStay, LineStays, CarriedStays, HearsStays DEF Inv
-----------------------------------------------------------------------------
(* What becomes of the batches *)

\* After the request to cancel, a producer fetches at most the batch it was about
\* to fetch.
Late ==
    /\ requested = "no" => \A p \in Parts : late[p] = 0
    /\ setup.cancel = "wired" /\ requested # "no" =>
         /\ cancelEvent
         /\ \A p \in Parts : late[p] <= 1 /\ (late[p] = 1 => pc[p] # "fetch")

\* No batch comes behind the last EOF that the consumer waits for: while producers work there are no more EOFs
\* than producers that are done, and in front of a batch there are less than N.
Eofs == {n \in DOMAIN payload : payload[n] = Eof}
EofsBefore(m) == {n \in Eofs : n < m}
DoneParts == {p \in Active : pc[p] = "done"}

Counted ==
    consumer # "dead" =>
      /\ main = "collect" => eofs + Cardinality(Eofs) <= Cardinality(DoneParts)
      /\ \A m \in DOMAIN payload : IsBatch(payload[m]) => eofs + Cardinality(EofsBefore(m)) < setup.parts

\* What the rows of the table amount to.
Amounts ==
    /\ IsFiniteSet(Rows) /\ written = Cardinality(Rows)
    /\ MaxRows # Unlimited => written <= MaxRows
    /\ maxReached => cancelEvent /\ MaxRows # Unlimited /\ written = MaxRows
    /\ \A i \in DOMAIN table :
         /\ table[i].part \in Parts /\ table[i].n \in 1..Batches(table[i].part)
         /\ \/ table[i].rows = RowsOf(table[i].part, table[i].n)
            \/ MaxRows # Unlimited /\ written = MaxRows

\* The batches of a partition that are in the table or in front of ticket m.
IsTabled(p, k) == \E i \in DOMAIN table : table[i].part = p /\ table[i].n = k
IsQueued(p, k, m) == \E j \in DOMAIN payload : j < m /\ payload[j] = <<p, k>>
Sent(p, m) == {k \in 1..Batches(p) : IsTabled(p, k) \/ IsQueued(p, k, m)}

\* As long as nothing is cancelled and the consumer lives, no batch is skipped.
InSequence ==
    /\ InPartitionOrder
    /\ \A p \in Parts : pc[p] \in {"check", "fetch", "put"} => failure[p] = "none"
    /\ ~cancelEvent /\ consumer # "dead" =>
         /\ \A m \in DOMAIN payload :
              IsBatch(payload[m]) => Sent(payload[m][1], m) = 1..(payload[m][2] - 1)
         /\ \A p \in Parts : failure[p] = "none" =>
              /\ Sent(p, Given + 1) = 1..(IF pc[p] = "put" THEN fetched[p] - 1 ELSE fetched[p])
              /\ pc[p] \in {"eof", "done"} => fetched[p] = Batches(p)

\* What a step means for producer p, apart from what it offers.
Goes(p, to) ==
    \/ /\ UNCHANGED <<fetched, failure>>
       /\ \/ to = pc[p]
          \/ pc[p] = "check" /\ to = "fetch"
          \/ to = "eof" /\ cancelEvent
          \/ to = "eof" /\ pc[p] = "fetch" /\ fetched[p] = Batches(p)
    \/ /\ fetched' = fetched /\ \E why \in {"source", "disk"} : Fails(p, why)
       /\ to \in {"eof", "done"}
    \/ /\ pc[p] = "fetch" /\ to = "put" /\ fetched[p] < Batches(p)
       /\ fetched' = [fetched EXCEPT ![p] = @ + 1] /\ failure' = failure

Elsewhere == UNCHANGED <<consumerVars, mainVars, cancelEvent>>

LEMMA ProducerSteps ==
    ASSUME Inv, NEW p \in Parts, Checks(p) \/ Fetches(p) \/ Puts(p) \/ EndsStream(p)
    PROVE  /\ Elsewhere /\ pc[p] # "done"
           /\ \/ Rests /\ \E to \in {"check", "fetch", "put", "eof", "done"} : Moves(p, to) /\ Goes(p, to)
              \/ pc[p] = "put" /\ Offers(<<p, fetched[p]>>) /\ Moves(p, "check") /\ UNCHANGED <<fetched, failure>>
              \/ pc[p] = "eof" /\ Offers(Eof) /\ Moves(p, "done") /\ UNCHANGED <<fetched, failure>>
<1>1. QueueInv /\ pc \in [Parts -> {"check", "fetch", "put", "eof", "done"}]
  BY DEF Inv, TypeOK
<1>2. UNCHANGED <<queueVars, payload>> => Rests
  BY DEF Rests, Given, Taken, queueVars
<1>3. Elsewhere /\ pc[p] # "done"
  BY DEF Elsewhere, Checks, Fetches, Puts, EndsStream
<1>4. pc' = pc => Moves(p, pc[p])
  BY <1>1 DEF Moves
<1>5. CASE Checks(p)
  <2>1. Rests /\ UNCHANGED fetched
    BY <1>2, <1>5 DEF Checks
  <2>2. \/ Moves(p, "eof") /\ cancelEvent /\ failure' = failure
        \/ Moves(p, "fetch") /\ pc[p] = "check" /\ failure' = failure
        \/ Moves(p, "eof") /\ Fails(p, "source")
    BY <1>5 DEF Checks
  <2> QED  BY <1>3, <2>1, <2>2 DEF Goes
<1>6. CASE Fetches(p)
  BY <1>2, <1>3, <1>6 DEF Fetches, Goes
<1>7. CASE Puts(p)
  <2>1. fetched' = fetched /\ pc[p] = "put"
    BY <1>7 DEF Puts
  <2>2. CASE Accepts(p, <<p, fetched[p]>>) /\ Moves(p, "check") /\ UNCHANGED failure
    BY <1>1, <1>3, <2>1, <2>2, PutsOfQueue
  <2>3. CASE Blocks(p, TRUE) /\ UNCHANGED <<pc, failure>>
    <3>1. Rests
      BY <1>1, <2>3, PutsOfQueue
    <3> QED  BY <1>1, <1>3, <1>4, <2>1, <2>3, <3>1 DEF Goes
  <2>4. CASE TimesOut(p) /\ Moves(p, IF cancelEvent THEN "eof" ELSE "put") /\ UNCHANGED failure
    <3>1. Rests
      BY <1>1, <2>4, PutsOfQueue
    <3> QED  BY <1>3, <2>1, <2>4, <3>1 DEF Goes
  <2>5. CASE DiskError(p) /\ Moves(p, "eof") /\ Fails(p, "disk")
    <3>1. Rests
      BY <1>1, <2>5, PutsOfQueue
    <3> QED  BY <1>3, <2>1, <2>5, <3>1 DEF Goes
  <2> QED  BY <1>7, <2>2, <2>3, <2>4, <2>5 DEF Puts
<1>8. CASE EndsStream(p)
  <2>1. fetched' = fetched /\ pc[p] = "eof"
    BY <1>8 DEF EndsStream
  <2>2. CASE Accepts(p, Eof) /\ Moves(p, "done") /\ UNCHANGED failure
    BY <1>1, <1>3, <2>1, <2>2, PutsOfQueue
  <2>3. CASE Blocks(p, FALSE) /\ UNCHANGED <<pc, failure>>
    <3>1. Rests
      BY <1>1, <2>3, PutsOfQueue
    <3> QED  BY <1>1, <1>3, <1>4, <2>1, <2>3, <3>1 DEF Goes
  <2>4. CASE DiskError(p) /\ Moves(p, "done") /\ Fails(p, "disk")
    <3>1. Rests
      BY <1>1, <2>4, PutsOfQueue
    <3> QED  BY <1>3, <2>1, <2>4, <3>1 DEF Goes
  <2> QED  BY <1>8, <2>2, <2>3, <2>4 DEF EndsStream
<1> QED  BY <1>5, <1>6, <1>7, <1>8

\* The other steps, as far as the batches are concerned.
Calm == Rests /\ UNCHANGED <<producerVars, eofs, table, written, maxReached>>
          /\ (consumer' = consumer \/ consumer' = "dead")
          /\ (main' = "collect" => main = "collect") /\ (cancelEvent' \/ cancelEvent' = cancelEvent)

LEMMA OtherSteps ==
    ASSUME Inv, [Next]_vars
    PROVE  \/ \E p \in Parts : Checks(p) \/ Fetches(p) \/ Puts(p) \/ EndsStream(p)
           \/ main = "eofs" /\ main' # "collect" /\ Offers(Eof) /\ UNCHANGED <<producerVars, consumerVars, cancelEvent>>
           \/ Hands /\ UNCHANGED <<producerVars, eofs, table, written, maxReached, mainVars, cancelEvent>>
           \/ CountsEof \/ Drains \/ ReachesLimit \/ Writes
           \/ Calm
<1>1. QueueInv
  BY DEF Inv
<1>2. UNCHANGED <<got, accepted, payload>> => Rests
  BY DEF Rests, Given, Taken
<1>3. CASE SendsEof
  <2>1. main = "eofs" /\ UNCHANGED <<producerVars, consumerVars, cancelEvent>>
    BY <1>3 DEF SendsEof
  <2>2. main' # "collect"
    BY <1>3 DEF SendsEof, NextPhase
  <2>3. Offers(Eof) \/ Rests
    BY <1>1, <1>3, PutsOfQueue DEF SendsEof
  <2> QED  BY <2>1, <2>2, <2>3 DEF Calm, consumerVars
<1>4. CASE Receives
  <2>1. UNCHANGED <<payload, producerVars, eofs, table, written, maxReached, mainVars, cancelEvent>> /\ consumer = "get"
    BY <1>4 DEF Receives
  <2>2. CASE Q!Get(Consumer, Queue) /\ consumer' = "handle"
    BY <1>1, <2>1, <2>2, GetOfQueue DEF Hands
  <2>3. CASE ~(Q!Get(Consumer, Queue) /\ consumer' = "handle")
    <3>1. UNCHANGED <<got, accepted>> /\ (consumer' = consumer \/ consumer' = "dead")
      BY <1>4, <2>3 DEF Receives, Q!GetReadError, Q!ReadFails, Q!GetSleeps, Q!GetSleepsAgain, Q!SleepsAgain
    <3> QED  BY <1>2, <2>1, <3>1 DEF Calm, mainVars
  <2> QED  BY <2>2, <2>3
<1>5. CASE Collects \/ Joins \/ Unlinks \/ Concludes \/ CancelsExecution \/ RunnerSweeps \/ UNCHANGED vars
  <2>1. UNCHANGED <<got, accepted, payload, consumerVars, producerVars>>
    BY <1>5 DEF Collects, Joins, Unlinks, Concludes, CancelsExecution, RunnerSweeps, vars, queueVars,
       Q!Cleanup, Q!UnlinkDoomed, Q!Sweep
  <2>2. (main' = "collect" => main = "collect") /\ (cancelEvent' \/ cancelEvent' = cancelEvent)
    <3>1. cancelEvent \in BOOLEAN
      BY DEF Inv, TypeOK
    <3>2. CASE Collects
      BY <3>2 DEF Collects, NextPhase
    <3>3. CASE Joins \/ Concludes
      BY <3>3 DEF Joins, Concludes
    <3>4. CASE CancelsExecution
      <4>1. main' = main /\ (cancelEvent' = (cancelEvent \/ setup.cancel = "wired"))
        BY <3>4 DEF CancelsExecution, mainVars
      <4> QED  BY <3>1, <4>1
    <3>5. CASE Unlinks \/ RunnerSweeps \/ UNCHANGED vars
      BY <3>5 DEF Unlinks, RunnerSweeps, vars, mainVars
    <3> QED  BY <1>5, <3>2, <3>3, <3>4, <3>5
  <2> QED  BY <1>2, <2>1, <2>2 DEF Calm, consumerVars
<1> QED  BY <1>3, <1>4, <1>5, StepCases

LEMMA LateStays == Inv /\ Late /\ [Next]_vars => Late'
<1> SUFFICES ASSUME Inv, Late, [Next]_vars  PROVE Late'
  OBVIOUS
<1>1. /\ late \in [Parts -> Nat] /\ setup' = setup
      /\ pc \in [Parts -> {"check", "fetch", "put", "eof", "done"}]
      /\ requested \in {"no", "yes", "swept"} /\ cancelEvent \in BOOLEAN
  BY StepCases DEF Inv, TypeOK
<1>2. ASSUME NEW p \in Parts, Checks(p) \/ Fetches(p) \/ Puts(p) \/ EndsStream(p)
      PROVE  Late'
  <2>1. requested' = requested /\ cancelEvent' = cancelEvent
    BY <1>2 DEF Checks, Fetches, Puts, EndsStream
  <2>2. CASE late' = late
    <3>1. requested # "no" /\ setup.cancel = "wired" => \A q \in Parts : pc'[q] = "fetch" => pc[q] = "fetch"
      BY <1>1, <1>2, <2>2 DEF Late, Checks, Fetches, Puts, EndsStream, Moves
    <3> QED  BY <1>1, <2>1, <2>2, <3>1 DEF Late
  <2>3. CASE late' # late
    <3>1. pc[p] = "fetch" /\ requested # "no" /\ late' = [late EXCEPT ![p] = @ + 1] /\ Moves(p, "put")
      BY <1>1, <1>2, <2>3 DEF Checks, Fetches, Puts, EndsStream
    <3>2. setup.cancel = "wired" => late[p] = 0
      BY <1>1, <3>1 DEF Late
    <3> QED  BY <1>1, <2>1, <3>1, <3>2 DEF Late, Moves
  <2> QED  BY <2>2, <2>3
<1>3. CASE CancelsExecution
  <2>1. requested = "no" /\ requested' = "yes" /\ late' = late
    BY <1>3 DEF CancelsExecution, producerVars
  <2>2. setup.cancel = "wired" => cancelEvent'
    <3>1. cancelEvent' = (cancelEvent \/ setup.cancel = "wired")
      BY <1>3 DEF CancelsExecution
    <3> QED  BY <3>1
  <2>3. \A p \in Parts : late'[p] = 0
    BY <2>1 DEF Late
  <2> QED  BY <1>1, <2>1, <2>2, <2>3 DEF Late
<1>4. CASE ~CancelsExecution /\ UNCHANGED producerVars
  <2>1. (requested' = requested \/ (requested # "no" /\ requested' = "swept"))
        /\ (cancelEvent' = cancelEvent \/ cancelEvent' = TRUE)
    <3>1. CASE \E p \in Parts : Checks(p) \/ Fetches(p) \/ Puts(p) \/ EndsStream(p)
      BY <3>1 DEF Checks, Fetches, Puts, EndsStream
    <3>2. CASE Receives \/ CountsEof \/ Drains \/ ReachesLimit \/ Writes
      BY <3>2 DEF Receives, CountsEof, Drains, ReachesLimit, Writes
    <3>3. CASE Collects \/ SendsEof \/ Joins \/ Unlinks \/ Concludes
      BY <3>3 DEF Collects, SendsEof, Joins, Unlinks, Concludes
    <3>4. CASE RunnerSweeps \/ UNCHANGED vars
      BY <3>4 DEF RunnerSweeps, vars
    <3> QED  BY <1>4, <3>1, <3>2, <3>3, <3>4, StepCases
  <2> QED  BY <1>1, <1>4, <2>1 DEF Late, producerVars
<1>5. UNCHANGED producerVars \/ \E p \in Parts : Checks(p) \/ Fetches(p) \/ Puts(p) \/ EndsStream(p)
  BY StepCases DEF Receives, CountsEof, Drains, ReachesLimit, Writes,
     Collects, SendsEof, Joins, Unlinks, Concludes, CancelsExecution, RunnerSweeps, vars
<1> QED  BY <1>2, <1>3, <1>4, <1>5

LEMMA SameBatches ==
    ASSUME setup' = setup
    PROVE  /\ \A p : Batches(p)' = Batches(p)
           /\ \A p, n : RowsOf(p, n)' = RowsOf(p, n)
           /\ \A x : IsBatch(x)' <=> IsBatch(x)
<1>1. \A p : KeysOf(p)' = KeysOf(p)
  BY DEF KeysOf, Keys, Active
<1>2. \A p : Batches(p)' = Batches(p)
  BY <1>1 DEF Batches
<1>3. \A p, n : RowsOf(p, n)' = RowsOf(p, n)
  BY <1>1, <1>2 DEF RowsOf
<1>4. \A x : IsBatch(x)' <=> IsBatch(x)
  BY <1>2 DEF IsBatch
<1> QED  BY <1>2, <1>3, <1>4

\* Where the tickets of the pending chunks lie.
LEMMA TicketsLie ==
    ASSUME Inv, consumer # "dead"
    PROVE  /\ Given \in Nat /\ Taken \in Nat /\ Taken <= Given
           /\ \A m \in DOMAIN payload : m \in Nat /\ Taken <= m /\ m <= Given
           /\ \A m \in DOMAIN payload : payload[m] = Eof \/ IsBatch(payload[m])
           /\ \A m \in DOMAIN payload : payload[m] = Eof => ~IsBatch(payload[m])
           /\ IsFiniteSet(DOMAIN payload)
<1>1. Given \in Nat /\ Taken \in Nat /\ Len(inmem[Queue]) \in Nat
  BY CountsTyped, QueueTypes, LenProperties DEF Inv
<1>2. Taken <= Given
  BY <1>1 DEF Inv, Line
<1>3. DOMAIN payload = ((Taken + 1)..Given) \union (IF consumer = "handle" THEN {Taken} ELSE {})
  BY DEF Inv, Carried
<1>4. \A m \in DOMAIN payload : m \in Nat /\ Taken <= m /\ m <= Given
  BY <1>1, <1>2, <1>3
<1>5. IsFiniteSet(DOMAIN payload)
  <2>1. IsFiniteSet((Taken + 1)..Given)
    BY <1>1, FS_Interval
  <2>2. IsFiniteSet(((Taken + 1)..Given) \union {Taken})
    BY <2>1, FS_AddElement
  <2>3. DOMAIN payload = (Taken + 1)..Given \/ DOMAIN payload = ((Taken + 1)..Given) \union {Taken}
    BY <1>3
  <2> QED  BY <2>1, <2>2, <2>3
<1>6. \A m \in DOMAIN payload : payload[m] = Eof => ~IsBatch(payload[m])
  BY BatchTyped DEF Inv, TypeOK
<1> QED  BY <1>1, <1>2, <1>4, <1>5, <1>6 DEF Inv, Carried

LEMMA CountsFinite ==
    ASSUME Inv, consumer # "dead"
    PROVE  /\ IsFiniteSet(Eofs) /\ Cardinality(Eofs) \in Nat
           /\ \A m : IsFiniteSet(EofsBefore(m)) /\ Cardinality(EofsBefore(m)) \in Nat
                       /\ Cardinality(EofsBefore(m)) <= Cardinality(Eofs)
           /\ IsFiniteSet(DoneParts) /\ Cardinality(DoneParts) \in Nat
           /\ \A p \in Parts : pc[p] # "done" => Cardinality(DoneParts) < setup.parts
<1>1. IsFiniteSet(Eofs)
  <2>1. Eofs \in SUBSET DOMAIN payload
    BY DEF Eofs
  <2> QED  BY <2>1, TicketsLie, FS_Subset
<1>2. ASSUME NEW m  PROVE IsFiniteSet(EofsBefore(m)) /\ Cardinality(EofsBefore(m)) <= Cardinality(Eofs)
  <2>1. EofsBefore(m) \in SUBSET Eofs
    BY DEF EofsBefore
  <2> QED  BY <1>1, <2>1, FS_Subset
<1>3. IsFiniteSet(Active) /\ Cardinality(Active) = setup.parts /\ setup.parts \in Nat
  <2> DEFINE n == setup.parts
  <2>1. n \in Nat \ {0} /\ Active = 1..n
    BY SetupIsTypical, CutsTyped DEF Inv, TypeOK, Active
  <2> HIDE DEF n
  <2>2. IsFiniteSet(1..n) /\ Cardinality(1..n) = n
    BY <2>1, FS_Interval
  <2>3. Active = 1..n /\ n = setup.parts
    BY <2>1 DEF n
  <2> QED  BY <2>1, <2>2, <2>3
<1>4. DoneParts \in SUBSET Active
  BY DEF DoneParts
<1>5. /\ IsFiniteSet(DoneParts) /\ Cardinality(DoneParts) <= setup.parts
      /\ Cardinality(DoneParts) = setup.parts => DoneParts = Active
  BY <1>3, <1>4, FS_Subset
<1>6. /\ Cardinality(Eofs) \in Nat /\ \A m : Cardinality(EofsBefore(m)) \in Nat
      /\ Cardinality(DoneParts) \in Nat
  BY <1>1, <1>2, <1>5, FS_CardinalityType
<1>7. ASSUME NEW p \in Parts, pc[p] # "done"  PROVE Cardinality(DoneParts) < setup.parts
  <2>1. p \notin DoneParts /\ p \in Active
    BY <1>7 DEF DoneParts, Inv, Phases
  <2> QED  BY <1>3, <1>5, <1>6, <2>1
<1> QED  BY <1>1, <1>2, <1>5, <1>6, <1>7

\* The pending EOFs after a step that only gives out a ticket, and after one that
\* only handles one.
LEMMA OfferedEofs ==
    ASSUME Inv, consumer # "dead", NEW x, Offers(x)
    PROVE  /\ \A m \in DOMAIN payload : m \in DOMAIN payload' /\ payload'[m] = payload[m]
           /\ DOMAIN payload' = DOMAIN payload \union {Given + 1} /\ payload'[Given + 1] = x
           /\ \A m \in DOMAIN payload' : m <= Given + 1 /\ m \in Nat
           /\ Eofs' = IF x = Eof THEN Eofs \union {Given + 1} ELSE Eofs
           /\ \A m \in Nat : m <= Given + 1 => EofsBefore(m)' = EofsBefore(m)
           /\ EofsBefore(Given + 1) = Eofs
           /\ Given + 1 \notin Eofs
<1>1. /\ Given \in Nat /\ Taken <= Given /\ Taken \in Nat
      /\ \A m \in DOMAIN payload : m \in Nat /\ m <= Given
  BY TicketsLie
<1>2. /\ DOMAIN payload' = DOMAIN payload \union {Given + 1}
      /\ \A m \in DOMAIN payload' : payload'[m] = IF m = Given + 1 THEN x ELSE payload[m]
  BY DEF Offers
<1>3. Given + 1 \notin DOMAIN payload /\ \A m \in DOMAIN payload : m # Given + 1
  BY <1>1
<1>4. Eofs' = IF x = Eof THEN Eofs \union {Given + 1} ELSE Eofs
  BY <1>2, <1>3 DEF Eofs
<1>5. ASSUME NEW m \in Nat, m <= Given + 1  PROVE EofsBefore(m)' = EofsBefore(m)
  <2>1. ~(Given + 1 < m)
    BY <1>1, <1>5
  <2> QED  BY <1>4, <2>1 DEF EofsBefore
<1>6. EofsBefore(Given + 1) = Eofs
  BY <1>1 DEF EofsBefore, Eofs
<1>7. Given + 1 \notin Eofs
  BY <1>3 DEF Eofs
<1>8. \A m \in DOMAIN payload' : m <= Given + 1 /\ m \in Nat
  BY <1>1, <1>2
<1> QED  BY <1>2, <1>3, <1>4, <1>5, <1>6, <1>7, <1>8

LEMMA HandledEofs ==
    ASSUME Inv, consumer = "handle", Handled
    PROVE  /\ DOMAIN payload' = DOMAIN payload \ {Taken} /\ Taken \in DOMAIN payload /\ Item = payload[Taken]
           /\ \A m \in DOMAIN payload' : payload'[m] = payload[m] /\ m \in Nat /\ Taken < m
           /\ Eofs' = Eofs \ {Taken} /\ (Taken \in Eofs <=> Item = Eof)
           /\ \A m \in DOMAIN payload' : /\ EofsBefore(m)' = EofsBefore(m) \ {Taken}
                                         /\ Taken \in EofsBefore(m) <=> Item = Eof
<1>1. Ticket = Taken /\ Item = payload[Taken] /\ Taken \in DOMAIN payload /\ Taken \in Nat
  BY AtConsumer
<1>2. DOMAIN payload' = DOMAIN payload \ {Taken} /\ \A m \in DOMAIN payload' : payload'[m] = payload[m]
  BY <1>1 DEF Handled
<1>3. \A m \in DOMAIN payload' : m \in Nat /\ Taken < m
  BY <1>1, <1>2, TicketsLie
<1>4. Eofs' = Eofs \ {Taken} /\ (Taken \in Eofs <=> Item = Eof)
  BY <1>1, <1>2 DEF Eofs
<1>5. \A m \in DOMAIN payload' : /\ EofsBefore(m)' = EofsBefore(m) \ {Taken}
                                 /\ Taken \in EofsBefore(m) <=> Item = Eof
  BY <1>3, <1>4 DEF EofsBefore
<1> QED  BY <1>1, <1>2, <1>3, <1>4, <1>5

LEMMA CountedStays == Inv /\ Counted /\ [Next]_vars => Counted'
<1> SUFFICES ASSUME Inv, Counted, [Next]_vars, consumer' # "dead"  PROVE Counted'
  BY DEF Counted
<1>1. consumer # "dead"
  BY StepCases DEF Checks, Fetches, Puts, EndsStream, Receives, CountsEof, Drains, ReachesLimit, Writes,
     Collects, SendsEof, Joins, Unlinks, Concludes, CancelsExecution, RunnerSweeps, vars,
     consumerVars
<1>2. /\ main = "collect" => eofs + Cardinality(Eofs) <= Cardinality(DoneParts)
      /\ \A m \in DOMAIN payload : IsBatch(payload[m]) => eofs + Cardinality(EofsBefore(m)) < setup.parts
  BY <1>1 DEF Counted
<1>3. /\ setup' = setup /\ eofs \in Nat /\ setup.parts \in Nat
      /\ \A x : IsBatch(x)' <=> IsBatch(x)
      /\ pc \in [Parts -> {"check", "fetch", "put", "eof", "done"}]
  BY StepCases, SameBatches, SetupIsTypical, CutsTyped DEF Inv, TypeOK
<1>4. /\ IsFiniteSet(Eofs) /\ Cardinality(Eofs) \in Nat
      /\ \A m : IsFiniteSet(EofsBefore(m)) /\ Cardinality(EofsBefore(m)) \in Nat
                  /\ Cardinality(EofsBefore(m)) <= Cardinality(Eofs)
      /\ IsFiniteSet(DoneParts) /\ Cardinality(DoneParts) \in Nat
      /\ \A p \in Parts : pc[p] # "done" => Cardinality(DoneParts) < setup.parts
  BY <1>1, CountsFinite
<1>5. \A p \in Parts : pc[p] # "done" => main = "collect"
  BY DEF Inv, Phases
<1>6. ASSUME NEW p \in Parts, Moves(p, "eof") \/ Moves(p, "check") \/ Moves(p, "put") \/ Moves(p, "fetch") \/ Moves(p, "done"),
             pc[p] # "done"
      PROVE  /\ IsFiniteSet(DoneParts') /\ Cardinality(DoneParts') \in Nat
             /\ Cardinality(DoneParts) <= Cardinality(DoneParts')
             /\ Moves(p, "done") => Cardinality(DoneParts') = Cardinality(DoneParts) + 1
  <2>1. DoneParts' = DoneParts \union {p} \/ (DoneParts' = DoneParts /\ ~Moves(p, "done"))
    <3>1. p \in Active /\ Active' = Active /\ Active \subseteq Parts
      BY <1>3, <1>6, SetupIsTypical, CutsTyped DEF Inv, TypeOK, Phases, Active
    <3> QED  BY <1>3, <1>6, <3>1 DEF DoneParts, Moves
  <2>2. p \notin DoneParts
    BY <1>6 DEF DoneParts
  <2>3. /\ IsFiniteSet(DoneParts \union {p})
        /\ Cardinality(DoneParts \union {p}) = Cardinality(DoneParts) + 1
    BY <1>4, <2>2, FS_AddElement
  <2>4. CASE DoneParts' = DoneParts \union {p}
    <3>1. Cardinality(DoneParts') = Cardinality(DoneParts) + 1 /\ IsFiniteSet(DoneParts')
      BY <2>3, <2>4
    <3> QED  BY <1>4, <3>1
  <2>5. CASE DoneParts' = DoneParts /\ ~Moves(p, "done")
    <3>1. Cardinality(DoneParts') = Cardinality(DoneParts) /\ IsFiniteSet(DoneParts')
      BY <1>4, <2>5
    <3> QED  BY <1>4, <2>5, <3>1
  <2> QED  BY <2>1, <2>4, <2>5
<1>7. ASSUME payload' = payload, eofs' = eofs, main' = "collect" => main = "collect",
             Cardinality(DoneParts') \in Nat, Cardinality(DoneParts) <= Cardinality(DoneParts')
      PROVE  Counted'
  <2>1. Eofs' = Eofs /\ \A m : EofsBefore(m)' = EofsBefore(m)
    BY <1>7 DEF Eofs, EofsBefore
  <2>2. main' = "collect" => eofs' + Cardinality(Eofs') <= Cardinality(DoneParts')
    BY <1>2, <1>3, <1>4, <1>7, <2>1
  <2>3. \A m \in DOMAIN payload' : IsBatch(payload'[m]) => eofs' + Cardinality(EofsBefore(m)') < setup.parts
    BY <1>2, <1>3, <1>7, <2>1
  <2> QED  BY <1>3, <2>2, <2>3 DEF Counted
<1>8. ASSUME NEW p \in Parts, Checks(p) \/ Fetches(p) \/ Puts(p) \/ EndsStream(p)
      PROVE  Counted'
  <2>1. eofs' = eofs /\ main' = main /\ pc[p] # "done" /\ main = "collect"
    BY <1>5, <1>8, ProducerSteps DEF Elsewhere, consumerVars, mainVars
  <2>2. CASE Rests /\ \E to \in {"check", "fetch", "put", "eof", "done"} : Moves(p, to)
    BY <1>6, <1>7, <2>1, <2>2 DEF Rests
  <2>3. CASE pc[p] = "put" /\ Offers(<<p, fetched[p]>>) /\ Moves(p, "check")
    <3> DEFINE x == <<p, fetched[p]>>
    <3>1. IsBatch(x)
      BY <1>3, <2>3 DEF Inv, Carried, IsBatch, TypeOK
    <3>2. x # Eof
      BY <3>1, BatchTyped DEF Inv, TypeOK
    <3> HIDE DEF x
    <3>3. /\ DOMAIN payload' = DOMAIN payload \union {Given + 1}
          /\ \A m \in DOMAIN payload : payload'[m] = payload[m]
          /\ \A m \in DOMAIN payload' : m <= Given + 1 /\ m \in Nat
          /\ Eofs' = Eofs /\ \A m \in Nat : m <= Given + 1 => EofsBefore(m)' = EofsBefore(m)
          /\ EofsBefore(Given + 1) = Eofs
      <4>1. Offers(x)
        BY <2>3 DEF x
      <4> QED  BY <1>1, <3>2, <4>1, OfferedEofs
    <3>4. eofs + Cardinality(Eofs) < setup.parts
      BY <1>2, <1>3, <1>4, <2>1
    <3>5. eofs' + Cardinality(Eofs') <= Cardinality(DoneParts')
      BY <1>2, <1>3, <1>4, <1>6, <2>1, <2>3, <3>3
    <3>6. ASSUME NEW m \in DOMAIN payload', IsBatch(payload'[m])
          PROVE  eofs' + Cardinality(EofsBefore(m)') < setup.parts
      <4>1. EofsBefore(m)' = EofsBefore(m)
        BY <3>3
      <4>2. CASE m = Given + 1
        <5>1. EofsBefore(m) = Eofs
          BY <3>3, <4>2
        <5> QED  BY <2>1, <3>4, <4>1, <5>1
      <4>3. CASE m # Given + 1
        <5>1. m \in DOMAIN payload /\ payload'[m] = payload[m]
          BY <3>3, <4>3
        <5>2. IsBatch(payload[m])
          BY <1>3, <3>6, <5>1
        <5> QED  BY <1>2, <2>1, <4>1, <5>1, <5>2
      <4> QED  BY <4>2, <4>3
    <3> QED  BY <1>3, <3>5, <3>6 DEF Counted
  <2>4. CASE pc[p] = "eof" /\ Offers(Eof) /\ Moves(p, "done")
    <3>1. /\ DOMAIN payload' = DOMAIN payload \union {Given + 1} /\ payload'[Given + 1] = Eof
          /\ \A m \in DOMAIN payload : payload'[m] = payload[m]
          /\ \A m \in DOMAIN payload' : m <= Given + 1 /\ m \in Nat
          /\ Eofs' = Eofs \union {Given + 1} /\ \A m \in Nat : m <= Given + 1 => EofsBefore(m)' = EofsBefore(m)
          /\ Given + 1 \notin Eofs
      BY <1>1, <2>4, OfferedEofs
    <3>2. Cardinality(Eofs') = Cardinality(Eofs) + 1
      BY <1>4, <3>1, FS_AddElement
    <3>3. eofs' + Cardinality(Eofs') <= Cardinality(DoneParts')
      BY <1>2, <1>3, <1>4, <1>6, <2>1, <2>4, <3>2
    <3>4. ~IsBatch(Eof)
      BY BatchTyped DEF Inv, TypeOK
    <3>5. ASSUME NEW m \in DOMAIN payload', IsBatch(payload'[m])
          PROVE  eofs' + Cardinality(EofsBefore(m)') < setup.parts
      <4>1. m # Given + 1
        BY <1>3, <3>1, <3>4, <3>5
      <4>2. m \in DOMAIN payload /\ payload'[m] = payload[m] /\ EofsBefore(m)' = EofsBefore(m)
        BY <3>1, <4>1
      <4>3. IsBatch(payload[m])
        BY <1>3, <3>5, <4>2
      <4> QED  BY <1>2, <2>1, <4>2, <4>3
    <3> QED  BY <1>3, <3>3, <3>5 DEF Counted
  <2> QED  BY <1>8, <2>2, <2>3, <2>4, ProducerSteps
<1>9. CASE main = "eofs" /\ main' # "collect" /\ Offers(Eof) /\ UNCHANGED <<producerVars, consumerVars, cancelEvent>>
  <2>1. /\ DOMAIN payload' = DOMAIN payload \union {Given + 1} /\ payload'[Given + 1] = Eof
        /\ \A m \in DOMAIN payload : payload'[m] = payload[m]
        /\ \A m \in DOMAIN payload' : m <= Given + 1 /\ m \in Nat
        /\ \A m \in Nat : m <= Given + 1 => EofsBefore(m)' = EofsBefore(m)
    BY <1>1, <1>9, OfferedEofs
  <2>2. ~IsBatch(Eof) /\ eofs' = eofs
    BY <1>9, BatchTyped DEF Inv, TypeOK, consumerVars
  <2>3. ASSUME NEW m \in DOMAIN payload', IsBatch(payload'[m])
        PROVE  eofs' + Cardinality(EofsBefore(m)') < setup.parts
    <3>1. m # Given + 1
      BY <1>3, <2>1, <2>2, <2>3
    <3>2. m \in DOMAIN payload /\ payload'[m] = payload[m] /\ EofsBefore(m)' = EofsBefore(m)
      BY <2>1, <3>1
    <3>3. IsBatch(payload[m])
      BY <1>3, <2>3, <3>2
    <3> QED  BY <1>2, <2>2, <3>2, <3>3
  <2> QED  BY <1>3, <1>9, <2>3 DEF Counted
<1>10. CASE CountsEof
  <2>1. consumer = "handle" /\ Handled /\ Item = Eof /\ eofs' = eofs + 1 /\ main' = main /\ DoneParts' = DoneParts
    BY <1>3, <1>10 DEF CountsEof, DoneParts, Active, producerVars, mainVars
  <2>2. /\ DOMAIN payload' = DOMAIN payload \ {Taken}
        /\ \A m \in DOMAIN payload' : payload'[m] = payload[m]
        /\ Eofs' = Eofs \ {Taken} /\ Taken \in Eofs
        /\ \A m \in DOMAIN payload' : EofsBefore(m)' = EofsBefore(m) \ {Taken} /\ Taken \in EofsBefore(m)
    BY <2>1, HandledEofs
  <2>3. Cardinality(Eofs') = Cardinality(Eofs) - 1
    BY <1>4, <2>2, FS_RemoveElement
  <2>4. main' = "collect" => eofs' + Cardinality(Eofs') <= Cardinality(DoneParts')
    BY <1>2, <1>3, <1>4, <2>1, <2>3
  <2>5. ASSUME NEW m \in DOMAIN payload', IsBatch(payload'[m])
        PROVE  eofs' + Cardinality(EofsBefore(m)') < setup.parts
    <3>1. Cardinality(EofsBefore(m)') = Cardinality(EofsBefore(m)) - 1
      BY <1>4, <2>2, FS_RemoveElement
    <3>2. eofs + Cardinality(EofsBefore(m)) < setup.parts
      BY <1>2, <1>3, <2>2, <2>5
    <3> QED  BY <1>3, <1>4, <2>1, <3>1, <3>2
  <2> QED  BY <1>3, <2>4, <2>5 DEF Counted
<1>11. CASE Drains \/ ReachesLimit \/ Writes
  <2>1. consumer = "handle" /\ Handled /\ Item # Eof /\ eofs' = eofs /\ main' = main /\ DoneParts' = DoneParts
    BY <1>3, <1>11 DEF Drains, ReachesLimit, Writes, DoneParts, Active, producerVars, mainVars
  <2>2. /\ DOMAIN payload' = DOMAIN payload \ {Taken}
        /\ \A m \in DOMAIN payload' : payload'[m] = payload[m]
        /\ Eofs' = Eofs
        /\ \A m \in DOMAIN payload' : EofsBefore(m)' = EofsBefore(m)
    BY <2>1, HandledEofs
  <2>3. \A m \in DOMAIN payload' : IsBatch(payload'[m]) => eofs' + Cardinality(EofsBefore(m)') < setup.parts
    BY <1>2, <1>3, <2>1, <2>2
  <2>4. main' = "collect" => eofs' + Cardinality(Eofs') <= Cardinality(DoneParts')
    BY <1>2, <2>1, <2>2
  <2> QED  BY <1>3, <2>3, <2>4 DEF Counted
<1>12. CASE Calm \/ (Hands /\ UNCHANGED <<producerVars, eofs, table, written, maxReached, mainVars, cancelEvent>>)
  <2>1. payload' = payload /\ eofs' = eofs /\ DoneParts' = DoneParts /\ (main' = "collect" => main = "collect")
    BY <1>3, <1>12 DEF Calm, Hands, Rests, producerVars, mainVars, DoneParts, Active
  <2> QED  BY <1>4, <1>7, <2>1
<1> QED  BY <1>8, <1>9, <1>10, <1>11, <1>12, OtherSteps

\* Once the consumer has heard the EOFs it waits for, no batch is pending.
LEMMA NoBatchLeft ==
    ASSUME Inv, Counted, consumer = "done"
    PROVE  \A m \in DOMAIN payload : payload[m] = Eof
<1>1. eofs = setup.parts /\ setup.parts \in Nat
  BY SetupIsTypical, CutsTyped DEF Inv, TypeOK, Hears
<1>2. \A m : Cardinality(EofsBefore(m)) \in Nat
  BY CountsFinite
<1>3. \A m \in DOMAIN payload : ~IsBatch(payload[m])
  BY <1>1, <1>2 DEF Counted
<1> QED  BY <1>3 DEF Inv, Carried

Entry == [part : Parts, n : Nat, rows : 1..BatchRows]
NewEntry == [part |-> Item[1], n |-> Item[2], rows |-> RowsToWrite]

\* The table with one more entry.
LEMMA OneMoreEntry ==
    ASSUME NEW b \in Entry, table \in Seq(Entry), table' = Append(table, b), IsFiniteSet(Rows)
    PROVE  /\ DOMAIN table' = DOMAIN table \union {Len(table) + 1} /\ Len(table) \in Nat
           /\ DOMAIN table = 1..Len(table)
           /\ \A i \in DOMAIN table : table'[i] = table[i]
           /\ table'[Len(table) + 1] = b
           /\ IsFiniteSet(Rows') /\ Cardinality(Rows') = Cardinality(Rows) + b.rows
<1> DEFINE l == Len(table)
<1>1. l \in Nat /\ DOMAIN table = 1..l /\ b.rows \in Nat
  BY RowsAssumption DEF Entry
<1>2. /\ DOMAIN table' = 1..(l + 1) /\ \A i \in 1..l : table'[i] = table[i]
      /\ table'[l + 1] = b
  <2> HIDE DEF Entry
  <2> QED  BY AppendProperties
<1>3. DOMAIN table' = DOMAIN table \union {l + 1}
  BY <1>1, <1>2
<1> DEFINE New == {l + 1} \X (1..b.rows)
<1>4. \A r : r \in Rows <=> \E i \in DOMAIN table : \E k \in 1..table[i].rows : r = <<i, k>>
  BY DEF Rows
<1>5. \A r : r \in Rows' <=> \E i \in DOMAIN table' : \E k \in 1..table'[i].rows : r = <<i, k>>
  BY DEF Rows
<1>6. Rows' = Rows \union New
  <2>1. ASSUME NEW r \in Rows'  PROVE r \in Rows \union New
    <3>1. PICK i \in DOMAIN table' : \E k \in 1..table'[i].rows : r = <<i, k>>
      BY <1>5
    <3>2. CASE i = l + 1
      BY <1>2, <3>1, <3>2
    <3>3. CASE i # l + 1
      BY <1>1, <1>2, <1>3, <1>4, <3>1, <3>3
    <3> QED  BY <3>2, <3>3
  <2>2. ASSUME NEW r \in Rows  PROVE r \in Rows'
    BY <1>1, <1>2, <1>3, <1>4, <1>5
  <2>3. ASSUME NEW r \in New  PROVE r \in Rows'
    <3>1. \E k \in 1..b.rows : r = <<l + 1, k>>
      OBVIOUS
    <3>2. l + 1 \in DOMAIN table' /\ table'[l + 1].rows = b.rows
      BY <1>2, <1>3
    <3> QED  BY <1>5, <3>1, <3>2
  <2> QED  BY <2>1, <2>2, <2>3
<1>7. Rows \intersect New = {}
  <2>1. \A r \in New : r[1] = l + 1
    OBVIOUS
  <2>2. \A r \in Rows : r[1] \in 1..l
    BY <1>1, <1>4
  <2>3. l + 1 \notin 1..l
    BY <1>1
  <2> HIDE DEF New, l
  <2> QED  BY <2>1, <2>2, <2>3
<1>8. IsFiniteSet(New) /\ Cardinality(New) = b.rows
  <2> DEFINE r == b.rows
  <2>1. IsFiniteSet({l + 1}) /\ Cardinality({l + 1}) = 1
    BY FS_Singleton
  <2>2. IsFiniteSet(1..r) /\ Cardinality(1..r) = r /\ r \in Nat
    <3>1. r \in Nat
      BY <1>1
    <3> HIDE DEF r
    <3> QED  BY <3>1, FS_Interval
  <2> HIDE DEF r, l
  <2>3. IsFiniteSet({l + 1} \X (1..r)) /\ Cardinality({l + 1} \X (1..r)) = 1 * r
    BY <2>1, <2>2, FS_Product
  <2> QED  BY <2>2, <2>3 DEF r
<1> HIDE DEF New
<1>9. IsFiniteSet(Rows \union New) /\ Cardinality(Rows \union New) = Cardinality(Rows) + b.rows
  <2>1. IsFiniteSet(Rows \union New)
        /\ Cardinality(Rows \union New) = Cardinality(Rows) + Cardinality(New) - Cardinality(Rows \intersect New)
    BY <1>8, FS_Union
  <2>2. Cardinality(Rows \intersect New) = 0 /\ Cardinality(Rows) \in Nat
    BY <1>7, FS_EmptySet, FS_CardinalityType
  <2> QED  BY <1>1, <1>8, <2>1, <2>2
<1> QED  BY <1>1, <1>2, <1>3, <1>6, <1>9

\* What a write does.
LEMMA WriteSteps ==
    ASSUME Inv, IsFiniteSet(Rows), Writes
    PROVE  \/ UNCHANGED <<table, written, cancelEvent, maxReached>> /\ consumer' = "dead"
           \/ /\ table' = Append(table, NewEntry) /\ NewEntry \in Entry /\ written' = written + RowsToWrite
              /\ IsBatch(Item) /\ Remaining > 0 /\ consumer = "handle" /\ Handled
              /\ cancelEvent = FALSE /\ UNCHANGED <<cancelEvent, maxReached, producerVars, mainVars>>
              /\ UNCHANGED <<got, accepted>> /\ consumer' = "get"
<1>1. IsBatch(Item)
  BY AtConsumer DEF Writes
<1>2. Remaining > 0 /\ TypeOK
  BY DEF Writes, Inv
<1>3. RowsToWrite \in 1..BatchRows
  BY <1>1, <1>2, ToWrite
<1>4. Item \in Parts \X Nat
  BY <1>1, <1>2, BatchTyped DEF TypeOK
<1>5. NewEntry \in Entry
  BY <1>3, <1>4 DEF Entry, NewEntry
<1>6. \/ table' = table /\ written' = written /\ consumer' = "dead"
      \/ table' = Append(table, NewEntry) /\ written' = written + RowsToWrite /\ consumer' = "get"
  BY DEF Writes, NewEntry
<1>7. /\ UNCHANGED <<cancelEvent, maxReached, producerVars, mainVars, got, accepted>>
      /\ Handled /\ consumer = "handle"
  BY DEF Writes, queueVars
<1>8. cancelEvent = FALSE
  <2>1. ~cancelEvent /\ cancelEvent \in BOOLEAN
    BY <1>2 DEF Writes, TypeOK
  <2> QED  BY <2>1
<1> QED  BY <1>1, <1>2, <1>5, <1>6, <1>7, <1>8

LEMMA AmountsStay == Inv /\ Amounts /\ [Next]_vars => Amounts'
<1> SUFFICES ASSUME Inv, Amounts, [Next]_vars  PROVE Amounts'
  OBVIOUS
<1>1. /\ setup' = setup /\ MaxRows' = MaxRows /\ table \in Seq(Entry) /\ written \in Nat
      /\ cancelEvent \in BOOLEAN /\ maxReached \in BOOLEAN
      /\ \A p : Batches(p)' = Batches(p)
      /\ \A p, n : RowsOf(p, n)' = RowsOf(p, n)
      /\ MaxRows \in Nat \union {Unlimited}
  BY StepCases, SameBatches, SetupsAssumption DEF Inv, TypeOK, MaxRows, Entry
<1>2. IsFiniteSet(Rows) /\ written = Cardinality(Rows)
  BY DEF Amounts
<1>3. ASSUME UNCHANGED <<table, written>>, cancelEvent => cancelEvent', cancelEvent' \in BOOLEAN,
             maxReached' => maxReached \/ (cancelEvent' /\ MaxRows # Unlimited /\ written = MaxRows)
      PROVE  Amounts'
  <2>1. Rows' = Rows
    BY <1>3 DEF Rows
  <2>2. maxReached' => cancelEvent' /\ MaxRows # Unlimited /\ written = MaxRows
    BY <1>3 DEF Amounts
  <2>3. \A i \in DOMAIN table' :
          /\ table'[i].part \in Parts /\ table'[i].n \in 1..Batches(table'[i].part)
          /\ \/ table'[i].rows = RowsOf(table'[i].part, table'[i].n)
             \/ MaxRows # Unlimited /\ written' = MaxRows
    BY <1>3 DEF Amounts
  <2> QED  BY <1>1, <1>2, <1>3, <2>1, <2>2, <2>3 DEF Amounts
<1>4. CASE ReachesLimit
  <2>1. UNCHANGED <<table, written>> /\ cancelEvent' = TRUE /\ Remaining = 0
    BY <1>4 DEF ReachesLimit
  <2>2. MaxRows # Unlimited /\ written = MaxRows
    <3>1. MaxRows # Unlimited
      BY <2>1, RowsAssumption DEF Remaining
    <3>2. ~(MaxRows > written)
      BY <1>1, <2>1, <3>1 DEF Remaining
    <3>3. written <= MaxRows
      BY <3>1 DEF Amounts
    <3> QED  BY <1>1, <3>1, <3>2, <3>3
  <2> QED  BY <1>3, <2>1, <2>2
<1>5. CASE Writes
  <2>1. CASE UNCHANGED <<table, written, cancelEvent, maxReached>>
    BY <1>1, <1>3, <2>1
  <2>2. CASE /\ table' = Append(table, NewEntry) /\ NewEntry \in Entry /\ written' = written + RowsToWrite
             /\ IsBatch(Item) /\ Remaining > 0 /\ cancelEvent = FALSE
             /\ UNCHANGED <<cancelEvent, maxReached>>
    <3>1. /\ DOMAIN table' = DOMAIN table \union {Len(table) + 1}
          /\ \A i \in DOMAIN table : table'[i] = table[i]
          /\ table'[Len(table) + 1] = NewEntry
          /\ IsFiniteSet(Rows') /\ Cardinality(Rows') = Cardinality(Rows) + NewEntry.rows
      <4> DEFINE b == NewEntry
      <4>1. b \in Entry /\ table' = Append(table, b)
        BY <2>2
      <4> HIDE DEF b
      <4>2. /\ DOMAIN table' = DOMAIN table \union {Len(table) + 1}
            /\ \A i \in DOMAIN table : table'[i] = table[i]
            /\ table'[Len(table) + 1] = b
            /\ IsFiniteSet(Rows') /\ Cardinality(Rows') = Cardinality(Rows) + b.rows
        BY <1>1, <1>2, <4>1, OneMoreEntry
      <4> QED  BY <4>2 DEF b
    <3>2. NewEntry.rows = RowsToWrite /\ NewEntry.part = Item[1] /\ NewEntry.n = Item[2]
      BY DEF NewEntry
    <3>3. written' = Cardinality(Rows')
      BY <1>2, <2>2, <3>1, <3>2
    <3>4. /\ \/ RowsToWrite = RowsOf(Item[1], Item[2])
             \/ MaxRows # Unlimited /\ written + RowsToWrite = MaxRows
          /\ MaxRows # Unlimited => written + RowsToWrite <= MaxRows
      BY <2>2, ToWrite DEF Inv
    <3>5. maxReached' => FALSE
      BY <2>2 DEF Amounts
    <3>6. MaxRows = Unlimited \/ MaxRows # written
      <4>1. ASSUME MaxRows # Unlimited, MaxRows = written  PROVE FALSE
        BY <1>1, <2>2, <4>1 DEF Remaining
      <4> QED  BY <4>1
    <3>7. \A i \in DOMAIN table' :
            /\ table'[i].part \in Parts /\ table'[i].n \in 1..Batches(table'[i].part)
            /\ \/ table'[i].rows = RowsOf(table'[i].part, table'[i].n)
               \/ MaxRows # Unlimited /\ written' = MaxRows
      <4> SUFFICES ASSUME NEW i \in DOMAIN table'
                   PROVE  /\ table'[i].part \in Parts /\ table'[i].n \in 1..Batches(table'[i].part)
                          /\ \/ table'[i].rows = RowsOf(table'[i].part, table'[i].n)
                             \/ MaxRows # Unlimited /\ written' = MaxRows
        OBVIOUS
      <4>1. CASE i \in DOMAIN table
        BY <3>1, <3>6, <4>1 DEF Amounts
      <4>2. CASE i = Len(table) + 1
        BY <2>2, <3>1, <3>2, <3>4, <4>2 DEF IsBatch
      <4> QED  BY <3>1, <4>1, <4>2
    <3> QED  BY <1>1, <2>2, <3>1, <3>3, <3>4, <3>5, <3>7 DEF Amounts
  <2> QED  BY <1>2, <1>5, <2>1, <2>2, WriteSteps
<1>6. CASE ~ReachesLimit /\ ~Writes
  <2>1. UNCHANGED <<table, written, maxReached>> /\ (cancelEvent' = cancelEvent \/ cancelEvent' = TRUE)
    <3>1. CASE \E p \in Parts : Checks(p) \/ Fetches(p) \/ Puts(p) \/ EndsStream(p)
      BY <3>1 DEF Checks, Fetches, Puts, EndsStream, consumerVars
    <3>2. CASE Receives \/ CountsEof \/ Drains
      BY <3>2 DEF Receives, CountsEof, Drains
    <3>3. CASE Collects \/ SendsEof \/ Joins \/ Unlinks \/ Concludes
      BY <3>3 DEF Collects, SendsEof, Joins, Unlinks, Concludes, consumerVars
    <3>4. CASE RunnerSweeps \/ UNCHANGED vars
      BY <3>4 DEF RunnerSweeps, vars, consumerVars
    <3>5. CASE CancelsExecution
      <4>1. UNCHANGED consumerVars /\ (cancelEvent' = (cancelEvent \/ setup.cancel = "wired"))
        BY <3>5 DEF CancelsExecution
      <4> QED  BY <1>1, <4>1 DEF consumerVars
    <3> QED  BY <1>6, <3>1, <3>2, <3>3, <3>4, <3>5, StepCases
  <2> QED  BY <1>1, <1>3, <2>1
<1> QED  BY <1>4, <1>5, <1>6

\* The rows of the table stay in the order of the cursor.
LEMMA OrderStays == Inv /\ Amounts /\ InSequence /\ [Next]_vars => InPartitionOrder'
<1> SUFFICES ASSUME Inv, Amounts, InSequence, [Next]_vars  PROVE InPartitionOrder'
  OBVIOUS
<1>1. InPartitionOrder /\ table \in Seq(Entry)
  BY DEF InSequence, Inv, TypeOK, Entry
<1>2. CASE table' = table
  <2>1. \A i : Behind(i)' = Behind(i)
    BY <1>2 DEF Behind
  <2> QED  BY <1>1, <1>2, <2>1 DEF InPartitionOrder
<1>3. CASE Writes /\ table' # table
  <2>1. /\ table' = Append(table, NewEntry) /\ NewEntry \in Entry /\ IsBatch(Item)
        /\ consumer = "handle" /\ Handled /\ cancelEvent = FALSE /\ IsFiniteSet(Rows)
    BY <1>3, WriteSteps DEF Amounts
  <2> PICK l \in Nat : l = Len(table)
    BY <1>1, LenProperties
  <2> PICK p : p = Item[1]
    OBVIOUS
  <2> PICK k : k = Item[2]
    OBVIOUS
  <2>2. /\ DOMAIN table' = DOMAIN table \union {l + 1} /\ l \in Nat /\ DOMAIN table = 1..l
        /\ \A i \in DOMAIN table : table'[i] = table[i]
        /\ table'[l + 1] = NewEntry
    <3> DEFINE b == NewEntry
    <3>1. b \in Entry /\ table' = Append(table, b)
      BY <2>1
    <3> HIDE DEF b
    <3>2. /\ DOMAIN table' = DOMAIN table \union {Len(table) + 1} /\ Len(table) \in Nat
          /\ DOMAIN table = 1..Len(table)
          /\ \A i \in DOMAIN table : table'[i] = table[i]
          /\ table'[Len(table) + 1] = b
      BY <1>1, <2>1, <3>1, OneMoreEntry
    <3> QED  BY <3>2 DEF b
  <2>3. NewEntry.part = p /\ NewEntry.n = k
    BY DEF NewEntry
  <2>4. Taken \in DOMAIN payload /\ Item = payload[Taken] /\ \A j \in DOMAIN payload : ~(j < Taken)
    <3>1. Taken \in DOMAIN payload /\ Item = payload[Taken] /\ Taken \in Nat
      BY <2>1, AtConsumer
    <3>2. \A j \in DOMAIN payload : j \in Nat /\ Taken <= j
      BY <2>1, TicketsLie
    <3> QED  BY <3>1, <3>2
  <2>5. Sent(p, Taken) = 1..(k - 1)
    BY <2>1, <2>4 DEF InSequence
  <2>6. Sent(p, Taken) = {n \in 1..Batches(p) : IsTabled(p, n)}
    BY <2>4 DEF Sent, IsQueued
  <2>7. Behind(l + 1)' = {n \in 1..Batches(p) : IsTabled(p, n)}
    <3>1. Behind(l + 1)' = {table'[j].n : j \in {i \in 1..l : table'[i].part = p}}
      BY <2>2, <2>3 DEF Behind
    <3>2. \A n : n \in Behind(l + 1)' <=> \E j \in DOMAIN table : table[j].part = p /\ table[j].n = n
      BY <2>2, <3>1
    <3>3. \A j \in DOMAIN table : table[j].n \in 1..Batches(table[j].part)
      BY DEF Amounts
    <3> QED  BY <3>2, <3>3 DEF IsTabled
  <2>8. \A i \in DOMAIN table : Behind(i)' = Behind(i)
    <3> SUFFICES ASSUME NEW i \in DOMAIN table  PROVE Behind(i)' = Behind(i)
      OBVIOUS
    <3>1. \A j \in 1..(i - 1) : table'[j] = table[j]
      BY <2>2
    <3> QED  BY <2>2, <3>1 DEF Behind
  <2>9. \A i \in DOMAIN table' : Behind(i)' = 1..(table'[i].n - 1)
    <3> SUFFICES ASSUME NEW i \in DOMAIN table'  PROVE Behind(i)' = 1..(table'[i].n - 1)
      OBVIOUS
    <3>1. CASE i \in DOMAIN table
      BY <1>1, <2>2, <2>8, <3>1 DEF InPartitionOrder
    <3>2. CASE i = l + 1
      BY <2>2, <2>3, <2>5, <2>6, <2>7, <3>2
    <3> QED  BY <2>2, <3>1, <3>2
  <2> QED  BY <2>9 DEF InPartitionOrder
<1>4. table' = table \/ Writes
  BY StepCases DEF Checks, Fetches, Puts, EndsStream, Receives, CountsEof, Drains, ReachesLimit,
     Collects, SendsEof, Joins, Unlinks, Concludes, CancelsExecution, RunnerSweeps, vars, consumerVars
<1> QED  BY <1>2, <1>3, <1>4

\* What has been sent of a partition, after each kind of step.
Due(p) == IF pc[p] = "put" THEN fetched[p] - 1 ELSE fetched[p]

Flow == /\ \A m \in DOMAIN payload :
             IsBatch(payload[m]) => Sent(payload[m][1], m) = 1..(payload[m][2] - 1)
        /\ \A p \in Parts : failure[p] = "none" =>
             /\ Sent(p, Given + 1) = 1..Due(p)
             /\ pc[p] \in {"eof", "done"} => fetched[p] = Batches(p)

\* The same batches are sent, and only the producers went on.
LEMMA FlowGoesOn ==
    ASSUME Flow, setup' = setup, Given' = Given,
           \A m \in DOMAIN payload' : m \in DOMAIN payload /\ payload'[m] = payload[m],
           \A p \in Parts : \A m \in DOMAIN payload' \union {Given + 1} : Sent(p, m)' = Sent(p, m),
           \A p \in Parts : failure'[p] = "none" =>
              /\ failure[p] = "none"
              /\ Due(p)' = Due(p)
              /\ pc'[p] \in {"eof", "done"} => fetched'[p] = Batches(p)
    PROVE  Flow'
<1>1. /\ \A p : Batches(p)' = Batches(p)
      /\ \A x : IsBatch(x)' <=> IsBatch(x)
  BY SameBatches
<1>2. ASSUME NEW m \in DOMAIN payload', IsBatch(payload'[m]), NEW p, p = payload'[m][1]
      PROVE  Sent(p, m)' = 1..(payload'[m][2] - 1)
  <2>1. payload'[m] = payload[m] /\ m \in DOMAIN payload /\ p \in Parts
    BY <1>2 DEF IsBatch
  <2>2. Sent(p, m) = 1..(payload[m][2] - 1)
    BY <1>2, <2>1 DEF Flow
  <2> QED  BY <2>1, <2>2
<1> PICK g : g = Given + 1
  OBVIOUS
<1>3. ASSUME NEW p \in Parts, failure'[p] = "none"
      PROVE  /\ Sent(p, g)' = 1..Due(p)'
             /\ pc'[p] \in {"eof", "done"} => fetched'[p] = Batches(p)
  <2>1. Sent(p, g)' = Sent(p, g)
    OBVIOUS
  <2>2. Sent(p, g) = 1..Due(p)
    BY <1>3 DEF Flow
  <2> QED  BY <1>3, <2>1, <2>2
<1> QED  BY <1>1, <1>2, <1>3 DEF Flow

LEMMA SentTheSame ==
    ASSUME setup' = setup, table' = table, payload' = payload
    PROVE  \A p, m : Sent(p, m)' = Sent(p, m)
BY SameBatches DEF Sent, IsTabled, IsQueued

LEMMA OfferedSent ==
    ASSUME Inv, consumer # "dead", setup' = setup, table' = table, NEW x, Offers(x), NEW p
    PROVE  /\ \A m \in Nat : m <= Given + 1 => Sent(p, m)' = Sent(p, m)
           /\ \A m : m = Given + 2 =>
                Sent(p, m)' = Sent(p, Given + 1) \union {k \in 1..Batches(p) : x = <<p, k>>}
<1>1. /\ Given \in Nat
      /\ \A j \in DOMAIN payload : j \in Nat /\ j <= Given
      /\ Batches(p)' = Batches(p)
  BY TicketsLie, SameBatches
<1>2. /\ DOMAIN payload' = DOMAIN payload \union {Given + 1} /\ payload'[Given + 1] = x
      /\ \A j \in DOMAIN payload : payload'[j] = payload[j]
  BY OfferedEofs
<1>3. \A k : IsTabled(p, k)' <=> IsTabled(p, k)
  BY DEF IsTabled
<1>4. ASSUME NEW m \in Nat, m <= Given + 1  PROVE Sent(p, m)' = Sent(p, m)
  <2>1. ~(Given + 1 < m)
    BY <1>1, <1>4
  <2>2. \A k : IsQueued(p, k, m)' <=> IsQueued(p, k, m)
    BY <1>2, <2>1 DEF IsQueued
  <2> QED  BY <1>1, <1>3, <2>2 DEF Sent
<1>5. ASSUME NEW m, m = Given + 2
      PROVE  Sent(p, m)' = Sent(p, Given + 1) \union {k \in 1..Batches(p) : x = <<p, k>>}
  <2>1. \A j \in DOMAIN payload : j < m /\ j < Given + 1
    BY <1>1, <1>5
  <2>2. Given + 1 < m
    BY <1>1, <1>5
  <2>3. \A k : IsQueued(p, k, m)' <=> IsQueued(p, k, Given + 1) \/ x = <<p, k>>
    BY <1>2, <2>1, <2>2 DEF IsQueued
  <2> QED  BY <1>1, <1>3, <2>3 DEF Sent
<1> QED  BY <1>4, <1>5

\* One more ticket, with the next batch of a producer or with an EOF.
LEMMA OfferedFlow ==
    ASSUME Inv, Flow, consumer # "dead", setup' = setup, table' = table, NEW x, Offers(x),
           x # Eof => IsBatch(x) /\ failure[x[1]] = "none" /\ Due(x[1]) = x[2] - 1,
           \A p \in Parts : failure'[p] = "none" =>
              /\ failure[p] = "none"
              /\ Due(p)' = IF x # Eof /\ x[1] = p THEN x[2] ELSE Due(p)
              /\ pc'[p] \in {"eof", "done"} => fetched'[p] = Batches(p)
    PROVE  Flow'
<1>1. /\ \A p : Batches(p)' = Batches(p)
      /\ \A y : IsBatch(y)' <=> IsBatch(y)
  BY SameBatches
<1>2. /\ DOMAIN payload' = DOMAIN payload \union {Given + 1} /\ payload'[Given + 1] = x
      /\ \A j \in DOMAIN payload : payload'[j] = payload[j] /\ j \in Nat /\ j <= Given
      /\ Given' = Given + 1 /\ Given \in Nat
  BY OfferedEofs, TicketsLie DEF Offers
<1>3. IsBatch(x) => x # Eof
  BY BatchTyped DEF Inv, TypeOK
<1>4. \A p : \A m \in Nat : m <= Given + 1 => Sent(p, m)' = Sent(p, m)
  BY OfferedSent
<1>5. ASSUME NEW m \in DOMAIN payload', IsBatch(payload'[m]), NEW p, p = payload'[m][1]
      PROVE  Sent(p, m)' = 1..(payload'[m][2] - 1)
  <2>1. m \in Nat /\ m <= Given + 1
    BY <1>2
  <2>2. Sent(p, m)' = Sent(p, m)
    BY <1>4, <2>1
  <2>3. CASE m \in DOMAIN payload
    <3>1. payload'[m] = payload[m]
      BY <1>2, <2>3
    <3> QED  BY <1>5, <2>2, <2>3, <3>1 DEF Flow
  <2>4. CASE m = Given + 1
    <3>1. payload'[m] = x /\ p = x[1] /\ x # Eof /\ p \in Parts
      BY <1>2, <1>3, <1>5, <2>4 DEF IsBatch
    <3>2. Sent(p, Given + 1) = 1..Due(p)
      BY <3>1 DEF Flow
    <3> QED  BY <2>2, <2>4, <3>1, <3>2
  <2> QED  BY <1>2, <2>3, <2>4
<1> PICK g : g = Given + 2
  OBVIOUS
<1>6. ASSUME NEW p \in Parts, failure'[p] = "none"
      PROVE  /\ Sent(p, g)' = 1..Due(p)'
             /\ pc'[p] \in {"eof", "done"} => fetched'[p] = Batches(p)
  <2>1. Sent(p, g)' = Sent(p, Given + 1) \union {k \in 1..Batches(p) : x = <<p, k>>}
    BY OfferedSent
  <2>2. Sent(p, Given + 1) = 1..Due(p)
    BY <1>6 DEF Flow
  <2>3. CASE x # Eof /\ x[1] = p
    <3>1. x = <<p, x[2]>> /\ x[2] \in 1..Batches(p) /\ x[2] \in Nat
      <4>1. Batches(p) \in Nat
        BY SetupIsTypical, BatchesHaveRows DEF Inv, TypeOK
      <4> QED  BY <2>3, <4>1 DEF IsBatch
    <3>2. {k \in 1..Batches(p) : x = <<p, k>>} = {x[2]}
      BY <3>1
    <3>3. Due(p) = x[2] - 1 /\ Due(p)' = x[2]
      BY <1>6, <2>3
    <3>4. 1..(x[2] - 1) \union {x[2]} = 1..x[2]
      BY <3>1
    <3> QED  BY <1>6, <2>1, <2>2, <3>2, <3>3, <3>4
  <2>4. CASE ~(x # Eof /\ x[1] = p)
    <3>1. {k \in 1..Batches(p) : x = <<p, k>>} = {}
      <4>1. p # 0
        BY PartsAssumption DEF Parts
      <4>2. \A k : x = <<p, k>> => x[1] = p /\ x # <<0, 0>>
        BY <4>1
      <4> QED  BY <2>4, <4>2 DEF Eof
    <3>2. Due(p)' = Due(p)
      BY <1>6, <2>4
    <3> QED  BY <1>6, <2>1, <2>2, <3>1, <3>2
  <2> QED  BY <2>3, <2>4
<1>7. Given' + 1 = g
  BY <1>2
<1> QED  BY <1>1, <1>5, <1>6, <1>7 DEF Flow

\* A handled EOF changes nothing; a batch that is written is no longer in front of
\* the others and is in the table.
LEMMA HandledSent ==
    ASSUME Inv, Amounts, consumer = "handle", Handled, setup' = setup,
           \/ Item = Eof /\ table' = table
           \/ IsBatch(Item) /\ NewEntry \in Entry /\ table' = Append(table, NewEntry),
           NEW p \in Parts, NEW m \in Nat, Taken < m
    PROVE  Sent(p, m)' = Sent(p, m)
<1>1. /\ DOMAIN payload' = DOMAIN payload \ {Taken} /\ Taken \in DOMAIN payload /\ Item = payload[Taken]
      /\ \A j \in DOMAIN payload' : payload'[j] = payload[j]
      /\ Batches(p)' = Batches(p)
  BY HandledEofs, SameBatches
<1>2. \A k : IsQueued(p, k, m) <=> IsQueued(p, k, m)' \/ Item = <<p, k>>
  BY <1>1 DEF IsQueued
<1>3. CASE Item = Eof /\ table' = table
  <2>1. \A k : IsTabled(p, k)' <=> IsTabled(p, k)
    BY <1>3 DEF IsTabled
  <2>2. \A k : Item # <<p, k>>
    <3>1. p # 0
      BY PartsAssumption DEF Parts
    <3> QED  BY <1>3, <3>1 DEF Eof
  <2> QED  BY <1>1, <1>2, <2>1, <2>2 DEF Sent
<1>4. CASE IsBatch(Item) /\ NewEntry \in Entry /\ table' = Append(table, NewEntry)
  <2> PICK b : b = NewEntry
    OBVIOUS
  <2>1. table \in Seq(Entry) /\ IsFiniteSet(Rows)
    BY DEF Inv, TypeOK, Entry, Amounts
  <2>2. /\ DOMAIN table' = DOMAIN table \union {Len(table) + 1}
        /\ \A i \in DOMAIN table : table'[i] = table[i]
        /\ table'[Len(table) + 1] = b
    BY <1>4, <2>1, OneMoreEntry
  <2>3. b.part = Item[1] /\ b.n = Item[2] /\ Item = <<Item[1], Item[2]>>
    BY <1>4 DEF NewEntry, IsBatch
  <2>4. \A k : IsTabled(p, k)' <=> IsTabled(p, k) \/ Item = <<p, k>>
    BY <2>2, <2>3 DEF IsTabled
  <2> QED  BY <1>1, <1>2, <2>4 DEF Sent
<1> QED  BY <1>3, <1>4

LEMMA FlowStays ==
    ASSUME Inv, Amounts, InSequence, [Next]_vars, ~cancelEvent', consumer' # "dead"
    PROVE  Flow'
<1>1. /\ setup' = setup /\ cancelEvent \in BOOLEAN
      /\ pc \in [Parts -> {"check", "fetch", "put", "eof", "done"}]
      /\ failure \in [Parts -> {"none", "source", "disk"}] /\ fetched \in [Parts -> Nat]
  BY StepCases DEF Inv, TypeOK
<1>2. consumer # "dead"
  BY StepCases DEF Checks, Fetches, Puts, EndsStream, Receives, CountsEof, Drains, ReachesLimit, Writes,
     Collects, SendsEof, Joins, Unlinks, Concludes, CancelsExecution, RunnerSweeps, vars,
     consumerVars
<1>3. ASSUME ~cancelEvent  PROVE Flow
  BY <1>2, <1>3 DEF InSequence, Flow, Due
<1>4. UNCHANGED producerVars =>
        \A p \in Parts : /\ failure'[p] = failure[p] /\ Due(p)' = Due(p)
                         /\ pc'[p] = pc[p] /\ fetched'[p] = fetched[p]
  BY DEF producerVars, Due
<1>5. ASSUME NEW p \in Parts, Checks(p) \/ Fetches(p) \/ Puts(p) \/ EndsStream(p)
      PROVE  Flow'
  <2>1. Elsewhere /\ cancelEvent' = cancelEvent /\ table' = table
    BY <1>5, ProducerSteps DEF Elsewhere, consumerVars
  <2>2. ~cancelEvent /\ Flow
    BY <1>3, <2>1
  <2>3. CASE Rests /\ \E to \in {"check", "fetch", "put", "eof", "done"} : Moves(p, to) /\ Goes(p, to)
    <3>1. /\ payload' = payload /\ Given' = Given
          /\ \A q, m : Sent(q, m)' = Sent(q, m)
      BY <1>1, <2>1, <2>3, SentTheSame DEF Rests
    <3>2. PICK to \in {"check", "fetch", "put", "eof", "done"} : Moves(p, to) /\ Goes(p, to)
      BY <2>3
    <3>3. ASSUME NEW q \in Parts, q # p
          PROVE  pc'[q] = pc[q] /\ fetched'[q] = fetched[q] /\ failure'[q] = failure[q]
      BY <1>1, <3>2, <3>3 DEF Moves, Goes, Fails
    <3>4. pc'[p] = to
      BY <1>1, <3>2 DEF Moves
    <3>5. ASSUME failure'[p] = "none"
          PROVE  /\ failure[p] = "none" /\ Due(p)' = Due(p)
                 /\ pc'[p] \in {"eof", "done"} => fetched'[p] = Batches(p)
      <4>1. CASE UNCHANGED <<fetched, failure>>
                   /\ (to = pc[p] \/ (pc[p] = "check" /\ to = "fetch")
                         \/ (to = "eof" /\ pc[p] = "fetch" /\ fetched[p] = Batches(p)))
        BY <2>2, <3>4, <3>5, <4>1 DEF Flow, Due
      <4>2. CASE \E why \in {"source", "disk"} : Fails(p, why)
        BY <1>1, <3>5, <4>2 DEF Fails
      <4>3. CASE pc[p] = "fetch" /\ to = "put" /\ fetched' = [fetched EXCEPT ![p] = @ + 1] /\ failure' = failure
        BY <1>1, <3>4, <3>5, <4>3 DEF Due
      <4> QED  BY <2>2, <3>2, <4>1, <4>2, <4>3 DEF Goes
    <3>6. \A q \in Parts : failure'[q] = "none" =>
              /\ failure[q] = "none" /\ Due(q)' = Due(q)
              /\ pc'[q] \in {"eof", "done"} => fetched'[q] = Batches(q)
      <4> SUFFICES ASSUME NEW q \in Parts, failure'[q] = "none"
                   PROVE  /\ failure[q] = "none" /\ Due(q)' = Due(q)
                          /\ pc'[q] \in {"eof", "done"} => fetched'[q] = Batches(q)
        OBVIOUS
      <4>1. CASE q = p
        BY <3>5, <4>1
      <4>2. CASE q # p
        BY <2>2, <3>3, <4>2 DEF Flow, Due
      <4> QED  BY <4>1, <4>2
    <3> QED  BY <1>1, <2>2, <3>1, <3>6, FlowGoesOn
  <2>4. CASE pc[p] = "put" /\ Offers(<<p, fetched[p]>>) /\ Moves(p, "check") /\ UNCHANGED <<fetched, failure>>
    <3> PICK x : x = <<p, fetched[p]>>
      OBVIOUS
    <3>1. IsBatch(x) /\ x[1] = p /\ x[2] = fetched[p]
      BY <1>1, <2>4 DEF Inv, Carried, IsBatch
    <3>2. failure[p] = "none" /\ Due(p) = fetched[p] - 1 /\ Due(p)' = fetched[p]
      BY <1>1, <2>4 DEF InSequence, Due, Moves
    <3>3. \A q \in Parts : q # p => Due(q)' = Due(q) /\ pc'[q] = pc[q]
      BY <1>1, <2>4 DEF Due, Moves
    <3>4. pc'[p] = "check"
      BY <1>1, <2>4 DEF Moves
    <3>5. \A q \in Parts : failure'[q] = "none" =>
              /\ failure[q] = "none"
              /\ Due(q)' = IF x # Eof /\ x[1] = q THEN x[2] ELSE Due(q)
              /\ pc'[q] \in {"eof", "done"} => fetched'[q] = Batches(q)
      <4>1. x # Eof
        BY <3>1, BatchTyped DEF Inv, TypeOK
      <4> QED  BY <2>2, <2>4, <3>1, <3>2, <3>3, <3>4, <4>1 DEF Flow
    <3>6. Offers(x)
      BY <2>4
    <3> QED  BY <1>1, <1>2, <2>1, <2>2, <3>1, <3>2, <3>5, <3>6, OfferedFlow
  <2>5. CASE pc[p] = "eof" /\ Offers(Eof) /\ Moves(p, "done") /\ UNCHANGED <<fetched, failure>>
    <3>1. \A q \in Parts : Due(q)' = Due(q) /\ (pc'[q] = pc[q] \/ (q = p /\ pc[q] = "eof"))
      BY <1>1, <2>5 DEF Due, Moves
    <3>2. \A q \in Parts : failure'[q] = "none" =>
              /\ failure[q] = "none"
              /\ Due(q)' = IF Eof # Eof /\ Eof[1] = q THEN Eof[2] ELSE Due(q)
              /\ pc'[q] \in {"eof", "done"} => fetched'[q] = Batches(q)
      BY <2>2, <2>5, <3>1 DEF Flow
    <3> QED  BY <1>1, <1>2, <2>1, <2>2, <2>5, <3>2, OfferedFlow
  <2> QED  BY <1>5, <2>3, <2>4, <2>5, ProducerSteps
<1>6. CASE main = "eofs" /\ main' # "collect" /\ Offers(Eof) /\ UNCHANGED <<producerVars, consumerVars, cancelEvent>>
  <2>1. Flow /\ table' = table
    BY <1>3, <1>6 DEF consumerVars
  <2>2. \A q \in Parts : failure'[q] = "none" =>
            /\ failure[q] = "none"
            /\ Due(q)' = IF Eof # Eof /\ Eof[1] = q THEN Eof[2] ELSE Due(q)
            /\ pc'[q] \in {"eof", "done"} => fetched'[q] = Batches(q)
    BY <1>4, <1>6, <2>1 DEF Flow
  <2> QED  BY <1>1, <1>2, <1>6, <2>1, <2>2, OfferedFlow
<1>7. CASE Calm \/ (Hands /\ UNCHANGED <<producerVars, eofs, table, written, maxReached, mainVars, cancelEvent>>)
  <2>1. /\ payload' = payload /\ Given' = Given /\ table' = table /\ UNCHANGED producerVars
        /\ cancelEvent' = cancelEvent
    BY <1>7 DEF Calm, Hands, Rests
  <2>2. Flow /\ \A q, m : Sent(q, m)' = Sent(q, m)
    BY <1>1, <1>3, <2>1, SentTheSame
  <2>3. \A q \in Parts : failure'[q] = "none" =>
            /\ failure[q] = "none" /\ Due(q)' = Due(q)
            /\ pc'[q] \in {"eof", "done"} => fetched'[q] = Batches(q)
    BY <1>4, <2>1, <2>2 DEF Flow
  <2> QED  BY <1>1, <2>1, <2>2, <2>3, FlowGoesOn
<1>8. CASE CountsEof \/ Writes
  <2>1. /\ consumer = "handle" /\ Handled /\ UNCHANGED <<producerVars, cancelEvent>> /\ Given' = Given
        /\ \/ Item = Eof /\ table' = table
           \/ IsBatch(Item) /\ NewEntry \in Entry /\ table' = Append(table, NewEntry)
    <3>1. CASE CountsEof
      BY <3>1 DEF CountsEof, queueVars, Given
    <3>2. CASE Writes
      BY <3>2, WriteSteps DEF Amounts, Given
    <3> QED  BY <1>8, <3>1, <3>2
  <2>2. Flow
    BY <1>3, <2>1
  <2>3. /\ \A m \in DOMAIN payload' : m \in DOMAIN payload /\ payload'[m] = payload[m] /\ m \in Nat /\ Taken < m
        /\ Given + 1 \in Nat /\ Taken < Given + 1
    <3>1. Given \in Nat /\ Taken \in Nat /\ Taken <= Given
      BY <1>2, TicketsLie
    <3> QED  BY <2>1, <3>1, HandledEofs
  <2>4. \A q \in Parts : \A m \in DOMAIN payload' \union {Given + 1} : Sent(q, m)' = Sent(q, m)
    <3> SUFFICES ASSUME NEW q \in Parts, NEW m \in DOMAIN payload' \union {Given + 1}
                 PROVE  Sent(q, m)' = Sent(q, m)
      OBVIOUS
    <3>1. m \in Nat /\ Taken < m
      BY <2>3
    <3> QED  BY <1>1, <2>1, <3>1, HandledSent
  <2>5. \A q \in Parts : failure'[q] = "none" =>
            /\ failure[q] = "none" /\ Due(q)' = Due(q)
            /\ pc'[q] \in {"eof", "done"} => fetched'[q] = Batches(q)
    BY <1>4, <2>1, <2>2 DEF Flow
  <2> QED  BY <1>1, <2>1, <2>2, <2>3, <2>4, <2>5, FlowGoesOn
<1>9. CASE Drains \/ ReachesLimit
  BY <1>1, <1>9 DEF Drains, ReachesLimit
<1> QED  BY <1>5, <1>6, <1>7, <1>8, <1>9, OtherSteps

LEMMA SequenceStays == Inv /\ Amounts /\ InSequence /\ [Next]_vars => InSequence'
<1> SUFFICES ASSUME Inv, Amounts, InSequence, [Next]_vars  PROVE InSequence'
  OBVIOUS
<1>1. InPartitionOrder'
  BY OrderStays
<1>2. \A p \in Parts : pc'[p] \in {"check", "fetch", "put"} => failure'[p] = "none"
  <2>1. /\ pc \in [Parts -> {"check", "fetch", "put", "eof", "done"}]
        /\ failure \in [Parts -> {"none", "source", "disk"}]
        /\ \A p \in Parts : pc[p] \in {"check", "fetch", "put"} => failure[p] = "none"
    BY DEF Inv, TypeOK, InSequence
  <2>2. ASSUME NEW p \in Parts, Checks(p) \/ Fetches(p) \/ Puts(p) \/ EndsStream(p)
        PROVE  \A q \in Parts : pc'[q] \in {"check", "fetch", "put"} => failure'[q] = "none"
    <3>1. \/ failure' = failure /\ \E to \in {"check", "fetch", "put", "eof", "done"} :
                Moves(p, to) /\ (pc[p] = "eof" => to \notin {"check", "fetch", "put"})
          \/ \E to \in {"eof", "done"}, why \in {"source", "disk"} : Moves(p, to) /\ Fails(p, why)
      BY <2>1, <2>2 DEF Checks, Fetches, Puts, EndsStream, Moves
    <3>2. pc[p] # "done"
      BY <2>2, ProducerSteps
    <3> QED  BY <2>1, <3>1, <3>2 DEF Moves, Fails
  <2>3. UNCHANGED producerVars \/ \E p \in Parts : Checks(p) \/ Fetches(p) \/ Puts(p) \/ EndsStream(p)
    BY StepCases DEF Receives, CountsEof, Drains, ReachesLimit, Writes,
       Collects, SendsEof, Joins, Unlinks, Concludes, CancelsExecution, RunnerSweeps, vars
  <2> QED  BY <2>1, <2>2, <2>3 DEF producerVars
<1>3. ~cancelEvent' /\ consumer' # "dead" => Flow'
  BY FlowStays
<1> QED  BY <1>1, <1>2, <1>3 DEF InSequence, Flow, Due

-----------------------------------------------------------------------------
(* The theorems *)

ExtractionInv == Inv /\ Late /\ Counted /\ Amounts /\ InSequence

LEMMA ExtractionStarts == Init => ExtractionInv
<1> SUFFICES ASSUME Init  PROVE ExtractionInv
  OBVIOUS
<1>1. Inv
  BY Starts
<1>2. DOMAIN payload = {} /\ table = <<>> /\ written = 0 /\ maxReached = FALSE /\ requested = "no" /\ eofs = 0
      /\ consumer = "get"
      /\ pc = [p \in Parts |-> IF p \in Active THEN "check" ELSE "done"] /\ late = [p \in Parts |-> 0]
      /\ failure = [p \in Parts |-> "none"] /\ fetched = [p \in Parts |-> 0]
  BY DEF Init
<1>3. Late
  BY <1>2 DEF Late
<1>4. Counted
  <2>1. Eofs = {} /\ Cardinality(Eofs) = 0
    BY <1>2, FS_EmptySet DEF Eofs
  <2>2. Cardinality(DoneParts) \in Nat
    BY <1>1, <1>2, CountsFinite
  <2> QED  BY <1>2, <2>1, <2>2 DEF Counted
<1>5. Amounts
  <2>1. DOMAIN table = {}
    BY <1>2
  <2>2. Rows = {}
    BY <2>1 DEF Rows
  <2>3. MaxRows # Unlimited => MaxRows \in Nat
    BY <1>1, SetupsAssumption DEF Inv, TypeOK, MaxRows
  <2> QED  BY <1>2, <2>1, <2>2, <2>3, FS_EmptySet DEF Amounts
<1>6. InSequence
  <2>1. DOMAIN table = {}
    BY <1>2
  <2>2. \A p, m : Sent(p, m) = {}
    BY <1>2, <2>1 DEF Sent, IsTabled, IsQueued
  <2>3. \A p \in Parts \ Active : Batches(p) = 0
    BY <1>1, SetupIsTypical, BatchesHaveRows DEF Inv, TypeOK
  <2> QED  BY <1>2, <2>1, <2>2, <2>3 DEF InSequence, InPartitionOrder
<1> QED  BY <1>1, <1>3, <1>4, <1>5, <1>6 DEF ExtractionInv

\* The invariant of the whole extraction: what is in the queue, what its tickets
\* carry and how many EOFs are among them, what the table amounts to and what is
\* still to come of each partition.
THEOREM ExtractionIsInvariant == Spec => []ExtractionInv
<1>1. ExtractionInv /\ [Next]_vars => ExtractionInv'
  BY InvStays, LateStays, CountedStays, AmountsStay, SequenceStays DEF ExtractionInv
<1> QED  BY ExtractionStarts, <1>1, PTL DEF Spec

\* Cooperative cancellation: with the caller's cancel_event, no producer fetches
\* more than the batch it had decided to fetch when the execution was cancelled.
THEOREM CancellationStopsProducers == Spec => []CancelStopsProducers
<1>1. ExtractionInv => CancelStopsProducers
  BY DEF ExtractionInv, Late, CancelStopsProducers
<1> QED  BY <1>1, ExtractionIsInvariant, PTL

\* A table in which every batch of every partition was written, after a consumer
\* that heard all EOFs.
LEMMA EverythingTabled ==
    ASSUME ExtractionInv, outcome = "returned", ~maxReached, ~expired
    PROVE  \A p \in Parts : \A n \in 1..Batches(p) : IsTabled(p, n)
<1>1. Inv /\ Counted /\ InSequence /\ Phases
  BY DEF ExtractionInv, Inv
<1>2. consumer = "done" /\ ~cancelEvent /\ errors = {} /\ main = "over"
  BY <1>1 DEF Phases
<1>3. \A p \in Parts : pc[p] = "done" /\ failure[p] = "none"
  BY <1>1, <1>2 DEF Phases
<1>4. ASSUME NEW p \in Parts  PROVE Sent(p, Given + 1) = 1..Batches(p)
  <2>1. Sent(p, Given + 1) = 1..fetched[p] /\ fetched[p] = Batches(p)
    BY <1>1, <1>2, <1>3 DEF InSequence
  <2> QED  BY <2>1
<1>5. \A p \in Parts : \A n, m : ~IsQueued(p, n, m)
  <2>1. \A m \in DOMAIN payload : payload[m] = Eof
    BY <1>1, <1>2, NoBatchLeft
  <2>2. \A p \in Parts : \A n : <<p, n>> # Eof
    BY PartsAssumption DEF Parts, Eof
  <2> QED  BY <2>1, <2>2 DEF IsQueued
<1> QED  BY <1>4, <1>5 DEF Sent

LEMMA ReturnsComplete == ExtractionInv => CompleteUnlessConsumerLost
<1> SUFFICES ASSUME ExtractionInv, outcome = "returned", ~maxReached, ~expired  PROVE Complete
  BY DEF CompleteUnlessConsumerLost
<1>1. /\ Typical /\ InPartitionOrder /\ Amounts
      /\ table \in Seq([part : Parts, n : Nat, rows : 1..BatchRows])
  BY SetupIsTypical DEF ExtractionInv, Inv, TypeOK, InSequence
<1>2. CASE MaxRows # Unlimited /\ written = MaxRows
  BY <1>1, <1>2 DEF Amounts, Complete
<1>3. CASE ~(MaxRows # Unlimited /\ written = MaxRows)
  <2>1. \A i \in DOMAIN table : /\ table[i].n \in 1..Batches(table[i].part)
                                /\ table[i].rows = RowsOf(table[i].part, table[i].n)
    BY <1>1, <1>3 DEF Amounts
  <2>2. \A p \in Parts : \A n \in 1..Batches(p) :
          \E i \in DOMAIN table : table[i].part = p /\ table[i].n = n
    BY EverythingTabled DEF IsTabled
  <2>3. table \in Seq([part : Parts, n : Nat, rows : Nat])
    <3> DEFINE R == [part : Parts, n : Nat, rows : 1..BatchRows]
               S == [part : Parts, n : Nat, rows : Nat]
    <3>1. R \subseteq S
      BY RowsAssumption
    <3>2. table \in Seq(R)
      BY <1>1
    <3> HIDE DEF R, S
    <3>3. table \in Seq(S)
      BY <3>1, <3>2
    <3> QED  BY <3>3 DEF S
  <2>4. Cardinality(Rows) = Cardinality(Keys)
    BY <1>1, <2>1, <2>2, <2>3, RowsAreKeys
  <2> QED  BY <2>4 DEF Complete
<1> QED  BY <1>2, <1>3

\* The table holds what the sources gave, each batch once and in the order of the
\* cursor; max_rows is respected; a producer's error reaches the caller; and an
\* extraction that returns without having met the limit, its consumer having
\* finished in time, returns a row for every key or as many as were asked for --
\* however the threads are scheduled, whatever fails, with or without spilling.
THEOREM OutcomesAreTruthful == Spec => []OutcomeTruthful
<1>1. ASSUME ExtractionInv  PROVE OutcomeTruthful
  <2>1. TypeOK /\ InPartitionOrder
    BY <1>1 DEF ExtractionInv, Inv, InSequence
  <2>2. LimitRespected
    BY <1>1 DEF ExtractionInv, Amounts, LimitRespected
  <2>3. ErrorsSurface
    <3>1. Phases /\ outcome \in {"none", "returned", "raised", "cancelled"}
      BY <1>1 DEF ExtractionInv, Inv, TypeOK
    <3>2. ASSUME NEW p \in Parts, failure[p] # "none", outcome \in {"returned", "cancelled"}
          PROVE  FALSE
      <4>1. main = "over" /\ errors = {}
        BY <3>1, <3>2 DEF Phases
      <4>2. failure[p] \in errors \union {"none"}
        BY <3>1, <4>1 DEF Phases
      <4> QED  BY <3>2, <4>1, <4>2
    <3> QED  BY <3>1, <3>2 DEF ErrorsSurface
  <2>4. CompleteUnlessConsumerLost
    BY <1>1, ReturnsComplete
  <2> QED  BY <2>1, <2>2, <2>3, <2>4 DEF OutcomeTruthful
<1>2. ExtractionInv => OutcomeTruthful
  BY <1>1
<1> QED  BY <1>2, ExtractionIsInvariant, PTL
=============================================================================
