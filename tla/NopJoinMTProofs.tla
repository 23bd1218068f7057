---------------------------- MODULE NopJoinMTProofs ----------------------------
(***************************************************************************)
(* Proofs about the multi-threaded no-partitioning join, for every input   *)
(* and every number of threads and buckets: the latches keep the builders  *)
(* apart, the buckets are complete, and the result is exact; and about its *)
(* object: these invariants of one execute() hold in every call of every   *)
(* sequence of calls, and the vectors hold what the calls have produced.   *)
(***************************************************************************)
EXTENDS NopJoinMTObject, BasicLemmas

--------------------------------------------------------------------------------
(* Chunks. *)

\* The chunk of a thread lies in 1 .. n; it is empty when First = Last + 1.
LEMMA ChunkBounds ==
  ASSUME NEW n \in Nat, NEW t \in Slots
  PROVE  /\ First(n, t) \in Nat \ {0} /\ Last(n, t) \in Nat
         /\ First(n, t) <= Last(n, t) + 1
         /\ Last(n, t) <= n
<1> DEFINE q == n \div threads
<1>1. q \in Nat /\ threads * q <= n
  BY NopAssumption, Quotient
<1>2. t \in Nat /\ t + 1 \in Nat /\ t + 1 <= threads /\ threads \in Nat
  BY NopAssumption DEF Slots
<1>3. t * q \in Nat /\ (t + 1) * q = t * q + q
  BY <1>1, <1>2, Products
<1>4. (t + 1) * q \in Nat /\ (t + 1) * q <= threads * q
  BY <1>1, <1>2, Products
<1> HIDE DEF q
<1>5. QED BY <1>1, <1>2, <1>3, <1>4 DEF First, Last, q

\* Chunks of different threads do not overlap.
LEMMA ChunksDisjoint ==
  ASSUME NEW n \in Nat, NEW t \in Slots, NEW u \in Slots, t < u
  PROVE  Last(n, t) < First(n, u)
<1> DEFINE q == n \div threads
<1>1. q \in Nat
  BY NopAssumption, Quotient
<1>2. t \in Nat /\ u \in Nat /\ t + 1 <= u /\ t # threads - 1
  BY NopAssumption DEF Slots
<1>3. (t + 1) * q \in Nat /\ u * q \in Nat /\ (t + 1) * q <= u * q
  BY <1>1, <1>2, Products
<1> HIDE DEF q
<1>4. QED BY <1>2, <1>3 DEF First, Last, q

\* Every row is in the chunk of a thread.
LEMMA ChunksCover ==
  ASSUME NEW n \in Nat, NEW k \in 1 .. n
  PROVE  \E t \in Slots : First(n, t) <= k /\ k <= Last(n, t)
<1> DEFINE q == n \div threads
           top == threads - 1
<1>1. q \in Nat /\ top \in Slots /\ top \in Nat /\ threads = top + 1
  BY NopAssumption, Quotient DEF Slots
<1>2. top * q \in Nat
  BY <1>1
<1>3. CASE k > top * q
  <2>1. First(n, top) <= k /\ k <= Last(n, top)
    BY <1>1, <1>2, <1>3 DEF First, Last
  <2>2. QED BY <1>1, <2>1
<1>4. CASE k <= top * q
  <2>1. q \in Nat \ {0}
    BY <1>1, <1>4
  <2> DEFINE t == (k - 1) \div q
  <2>2. t \in Nat /\ t * q <= k - 1 /\ k - 1 < t * q + q
    BY <2>1, Quotient
  <2> HIDE DEF t
  <2>3. t * q \in Nat /\ (t + 1) * q = t * q + q
    BY <2>1, <2>2, Products
  <2>4. t < top
    <3>1. SUFFICES ASSUME top <= t
                   PROVE  FALSE
      BY <1>1, <2>2
    <3>2. top * q <= t * q
      BY <1>1, <2>1, <2>2, <3>1, Products
    <3>3. QED BY <1>2, <1>4, <2>2, <2>3, <3>2
  <2>5. t \in Slots /\ t # threads - 1
    BY <1>1, <2>2, <2>4 DEF Slots
  <2> HIDE DEF q
  <2>6. First(n, t) <= k /\ k <= Last(n, t)
    BY <1>1, <2>1, <2>2, <2>3, <2>5 DEF First, Last, q
  <2>7. QED BY <2>5, <2>6
<1>5. QED BY <1>1, <1>2, <1>3, <1>4

--------------------------------------------------------------------------------
(* Types, phases and positions. *)

\* The threads of a phase are those that were started; a phase is over when they
\* are done, and the next one has not begun before.
PhaseInv ==
  /\ mpc = "called" => started = 0 /\ \A t \in Slots : bpc[t] = "none" /\ ppc[t] = "none"
  /\ mpc = "build" => \A t \in Slots : /\ bpc[t] = "none" <=> started <= t
                                       /\ ppc[t] = "none"
  /\ mpc = "probe" => \A t \in Slots : /\ bpc[t] = "done"
                                       /\ ppc[t] = "none" <=> started <= t
  /\ mpc = "returned" => \/ left = <<>> \/ right = <<>>
                         \/ \A t \in Slots : bpc[t] = "done" /\ ppc[t] = "done"
  /\ mpc = "returned" => \A t \in Slots : bpc[t] \in {"none", "done"} /\ ppc[t] # "loop"

\* Every thread is within its chunk, or one past its end.
PosInv ==
  \A t \in Slots :
    /\ bpc[t] # "none" => /\ First(Len(left), t) <= bpos[t]
                          /\ bpos[t] <= Last(Len(left), t) + 1
    /\ Accessing(t) => bpos[t] <= Last(Len(left), t)
    /\ bpc[t] = "done" => bpos[t] = Last(Len(left), t) + 1
    /\ ppc[t] # "none" => /\ First(Len(right), t) <= ppos[t]
                          /\ ppos[t] <= Last(Len(right), t) + 1
    /\ ppc[t] = "done" => ppos[t] = Last(Len(right), t) + 1

\* A builder inside its critical section has locked the bucket.
LatchInv == \A t \in Slots : Accessing(t) => latch[Bucket(t)] = t

ControlInv == TypeOK /\ PhaseInv /\ PosInv /\ LatchInv

\* What the builders have put into a bucket, counted or not, is there: each row
\* once, in as many places as there are rows.
Nodes(n)  == IF n > 2 THEN n - 2 ELSE 0
Filled(b) == table[b].count + IF b \in Unsettled THEN 1 ELSE 0

Holds(bucket, n, rows) ==
  /\ {Place(bucket, i) : i \in 1 .. n} = rows
  /\ \A i, j \in 1 .. n : Place(bucket, i) = Place(bucket, j) => i = j
  /\ Len(bucket.next) = Nodes(n)

ContentInv == \A b \in Buckets : Holds(table[b], Filled(b), RowsOf(b))

\* The types of what execute() and the two loops are made of, and of the buckets.
BucketType == [count : Nat, t1 : Nat, t2 : Nat, next : Seq(Nat)]

LEMMA IndexType ==
  ASSUME NEW key \in Keys
  PROVE  Index(key) \in Buckets
<1>1. Hash[key] \in Nat /\ size \in Nat \ {0}
  BY NopAssumption
<1>2. QED BY <1>1 DEF Index, Buckets

\* A builder in its critical section is at a row of the left relation.
LEMMA RowInBounds ==
  ASSUME TypeOK, PosInv, NEW t \in Slots, bpc[t] # "none", bpos[t] <= Last(Len(left), t)
  PROVE  bpos[t] \in LeftRows /\ left[bpos[t]] \in Keys /\ Bucket(t) \in Buckets
<1>1. Len(left) \in Nat /\ left \in Seq(Keys) /\ bpos[t] \in Nat
  BY LenProperties DEF TypeOK
<1>2. bpos[t] \in 1 .. Len(left)
  <2>1. First(Len(left), t) <= bpos[t]
    BY DEF PosInv
  <2>2. First(Len(left), t) \in Nat \ {0} /\ Last(Len(left), t) \in Nat
        /\ Last(Len(left), t) <= Len(left)
    BY <1>1, ChunkBounds
  <2>3. QED BY <1>1, <2>1, <2>2
<1>3. left[bpos[t]] \in Keys
  BY <1>1, <1>2, ElementOfSeq
<1>4. QED BY <1>2, <1>3, IndexType DEF LeftRows, Bucket

\* Storing a row puts it behind the others and leaves those where they are.
LEMMA StoredPlaces ==
  ASSUME NEW bk \in BucketType, NEW k \in Nat, Len(bk.next) = Nodes(bk.count)
  PROVE  /\ Stored(bk, k) \in BucketType
         /\ Stored(bk, k).count = bk.count
         /\ Place(Stored(bk, k), bk.count + 1) = k
         /\ \A i \in 1 .. bk.count : Place(Stored(bk, k), i) = Place(bk, i)
         /\ Len(Stored(bk, k).next) = Nodes(bk.count + 1)
<1> DEFINE n == bk.count
<1>1. n \in Nat /\ bk.next \in Seq(Nat) /\ Len(bk.next) \in Nat
  BY LenProperties DEF BucketType
<1>2. CASE n = 0
  BY <1>1, <1>2 DEF Stored, Place, BucketType, Nodes
<1>3. CASE n = 1
  BY <1>1, <1>3 DEF Stored, Place, BucketType, Nodes
<1>4. CASE n > 1
  <2> DEFINE list == Append(bk.next, k)
  <2>1. Len(bk.next) = n - 2
    BY <1>1, <1>4 DEF Nodes
  <2>2. SubSeq(bk.next, 1, n - 2) = bk.next
    BY <1>1, <2>1, SubSeqFull
  <2>3. Stored(bk, k) = [bk EXCEPT !.next = list]
    <3>1. Stored(bk, k) = [bk EXCEPT !.next = Append(SubSeq(bk.next, 1, n - 2), k)]
      BY <1>1, <1>4 DEF Stored
    <3>2. QED BY <2>2, <3>1
  <2>4. /\ list \in Seq(Nat) /\ Len(list) = n - 1 /\ list[n - 1] = k
        /\ \A i \in 1 .. (n - 2) : list[i] = bk.next[i]
    BY <1>1, <1>4, <2>1, AppendProperties
  <2> HIDE DEF list
  <2>5. /\ Stored(bk, k) \in BucketType
        /\ Stored(bk, k).count = n /\ Stored(bk, k).next = list
        /\ Stored(bk, k).t1 = bk.t1 /\ Stored(bk, k).t2 = bk.t2
    BY <2>3, <2>4 DEF BucketType
  <2>6. Place(Stored(bk, k), n + 1) = k
    BY <1>1, <1>4, <2>4, <2>5 DEF Place
  <2>7. ASSUME NEW i \in 1 .. n
        PROVE  Place(Stored(bk, k), i) = Place(bk, i)
    <3>1. CASE i <= 2
      BY <1>1, <2>5, <3>1 DEF Place
    <3>2. CASE i > 2
      <4>1. i - 2 \in 1 .. (n - 2) /\ i # 1 /\ i # 2
        BY <1>1, <3>2
      <4>2. QED BY <2>4, <2>5, <4>1 DEF Place
    <3>3. QED BY <1>1, <3>1, <3>2
  <2>8. QED BY <1>1, <1>4, <2>4, <2>5, <2>6, <2>7 DEF Nodes
<1>5. QED BY <1>1, <1>2, <1>3, <1>4

\* The next value of a counter, and how much a probe finds, are numbers.
LEMMA CountType ==
  ASSUME NEW n \in Nat
  PROVE  (n + 1) % (2 ^ CountBits) \in Nat
<1>1. 2 ^ CountBits \in Nat \ {0}
  BY PowerOfTwo, NopAssumption
<1> DEFINE w == 2 ^ CountBits
<1> HIDE DEF w
<1>2. (n + 1) % w \in Nat
  BY <1>1 DEF w
<1>3. QED BY <1>2 DEF w

LEMMA FoundType ==
  ASSUME TypeOK, NEW m \in Pairs, NEW r \in RightRows
  PROVE  Found(m, r) \in Nat
<1>1. right[r] \in Keys
  BY ElementOfSeq DEF TypeOK, RightRows
<1>2. table[Index(right[r])].count \in Nat
  BY <1>1, IndexType DEF TypeOK
<1> DEFINE bk == table[Index(right[r])]
           S  == {i \in 1 .. bk.count : Place(bk, i) = m[1]}
<1>3. IsFiniteSet(1 .. bk.count)
  BY <1>2, FS_Interval
<1>4. IsFiniteSet(S)
  BY <1>3, FS_Subset
<1>5. Cardinality(S) \in Nat
  BY <1>4, FS_CardinalityType
<1>6. QED BY <1>5 DEF Found, Occurrences

LEMMA ControlInit == Init => ControlInv
<1> SUFFICES ASSUME Init
             PROVE  ControlInv
  OBVIOUS
<1>1. left \in Seq(Keys) /\ right \in Seq(Keys)
  BY NopAssumption DEF Init
<1>2. EmptyBucket \in BucketType
  BY EmptySeq DEF EmptyBucket, BucketType, NoRow
<1>3. result \in [Slots -> [Pairs -> Nat]]
  BY DEF Init
<1>4. TypeOK
  BY <1>1, <1>2, <1>3, NopAssumption DEF Init, TypeOK, BucketType, NoRow
<1>5. PhaseInv /\ PosInv /\ LatchInv
  BY DEF Init, PhaseInv, PosInv, LatchInv, Accessing
<1>6. QED BY <1>4, <1>5 DEF ControlInv

\* The steps of execute().
LEMMA MainControl ==
  ASSUME ControlInv, MainStep
  PROVE  ControlInv'
<1> USE DEF ControlInv, TypeOK, input, mainVars, buildVars, probeVars
<1>1. Len(left) \in Nat /\ Len(right) \in Nat
  BY LenProperties
<1>8. Pairs' = Pairs
  BY DEF MainStep, Call, StartBuilder, JoinBuilders, StartProber, JoinProbers, Pairs,
         LeftRows, RightRows
<1>2. CASE Call
  <2>1. TypeOK'
    BY <1>2, <1>8 DEF Call
  <2>2. PhaseInv'
    <3>1. started = 0 /\ \A t \in Slots : bpc[t] = "none" /\ ppc[t] = "none"
      BY <1>2 DEF Call, PhaseInv
    <3>2. \A t \in Slots : bpc[t] = "none" /\ ppc[t] = "none" /\ started <= t
      BY <3>1, NopAssumption DEF Slots
    <3>3. /\ UNCHANGED <<left, right, started, bpc, ppc>>
          /\ \/ mpc' = "build"
             \/ mpc' = "returned" /\ (left = <<>> \/ right = <<>>)
      BY <1>2 DEF Call
    <3>4. QED BY <3>2, <3>3 DEF PhaseInv, Accessing
  <2>3. PosInv' /\ LatchInv'
    BY <1>2 DEF Call, PosInv, LatchInv, Accessing, Bucket
  <2>4. QED BY <2>1, <2>2, <2>3
<1>3. CASE StartBuilder
  <2>1. started \in Slots /\ started + 1 \in 0 .. threads
    BY <1>3, NopAssumption DEF StartBuilder, Slots
  <2>2. First(Len(left), started) \in Nat /\ First(Len(left), started) <= Last(Len(left), started) + 1
    BY <1>1, <2>1, ChunkBounds
  <2>3. TypeOK'
    BY <1>3, <1>8, <2>1, <2>2 DEF StartBuilder
  <2>4. PhaseInv'
    BY <1>3, <2>1, NopAssumption DEF StartBuilder, PhaseInv, Slots, Accessing
  <2>5. PosInv'
    BY <1>3, <2>1, <2>2 DEF StartBuilder, PosInv, Accessing
  <2>6. LatchInv'
    BY <1>3, <2>1 DEF StartBuilder, LatchInv, Accessing, Bucket
  <2>7. QED BY <2>3, <2>4, <2>5, <2>6
<1>4. CASE JoinBuilders
  <2>1. TypeOK'
    BY <1>4, <1>8, NopAssumption DEF JoinBuilders
  <2>2. PhaseInv'
    BY <1>4, NopAssumption DEF JoinBuilders, PhaseInv, Accessing, Slots
  <2>3. PosInv' /\ LatchInv'
    BY <1>4 DEF JoinBuilders, PosInv, LatchInv, Accessing, Bucket
  <2>4. QED BY <2>1, <2>2, <2>3
<1>5. CASE StartProber
  <2>1. started \in Slots /\ started + 1 \in 0 .. threads
    BY <1>5, NopAssumption DEF StartProber, Slots
  <2>2. First(Len(right), started) \in Nat /\ First(Len(right), started) <= Last(Len(right), started) + 1
    BY <1>1, <2>1, ChunkBounds
  <2>3. TypeOK'
    BY <1>5, <1>8, <2>1, <2>2 DEF StartProber
  <2>4. PhaseInv'
    BY <1>5, <2>1, NopAssumption DEF StartProber, PhaseInv, Slots, Accessing
  <2>5. PosInv'
    BY <1>5, <2>1, <2>2 DEF StartProber, PosInv, Accessing
  <2>6. LatchInv'
    BY <1>5, <2>1 DEF StartProber, LatchInv, Accessing, Bucket
  <2>7. QED BY <2>3, <2>4, <2>5, <2>6
<1>6. CASE JoinProbers
  BY <1>6, <1>8 DEF JoinProbers, PhaseInv, PosInv, LatchInv, Accessing, Bucket
<1>7. QED BY <1>2, <1>3, <1>4, <1>5, <1>6 DEF MainStep

\* While a builder stores a row in a bucket, nobody else is between a store and the
\* counting there.
LEMMA SettledWhenStoring ==
  ASSUME LatchInv, NEW t \in Slots, bpc[t] = "store"
  PROVE  Bucket(t) \notin Unsettled
BY DEF LatchInv, Accessing, Unsettled

\* The steps of a builder.  LatchInv is what LatchStep is about: the latch of t's
\* bucket is t's, or nobody has it.
LEMMA BuilderControl ==
  ASSUME ControlInv, ContentInv, NEW t \in Slots, Builder(t)
  PROVE  ControlInv'
<1> USE DEF ControlInv, TypeOK, input, mainVars, buildVars, probeVars
<1>1. Len(left) \in Nat /\ Len(right) \in Nat
  BY LenProperties
<1>2. UNCHANGED <<left, right, mpc, started, ppc, ppos, result>> /\ Pairs' = Pairs
  BY DEF Builder, Lock, Store, Increment, Unlock, BuildEnd, Pairs, LeftRows, RightRows
<1>3. PICK next \in {"loop", "store", "count", "unlock", "done"} :
        /\ bpc[t] \in {"loop", "store", "count", "unlock"}
        /\ bpc' = [bpc EXCEPT ![t] = next]
  BY DEF Builder, Lock, Store, Increment, Unlock, BuildEnd, Building
<1>4. PhaseInv'
  <2>1. mpc = "build"
    BY <1>3 DEF PhaseInv
  <2>2. QED BY <1>2, <1>3, <2>1 DEF PhaseInv
<1>5. bpos[t] \in Nat /\ bpos[t] <= Last(Len(left), t) + 1 /\ Last(Len(left), t) \in Nat
  BY <1>1, <1>3, ChunkBounds DEF PosInv
<1>6. CASE Lock(t)
  <2>1. bpos[t] \in LeftRows /\ Bucket(t) \in Buckets
    BY <1>6, RowInBounds DEF Lock, Building
  <2>2. TypeOK'
    BY <1>2, <1>6, <2>1 DEF Lock
  <2>3. PosInv'
    BY <1>2, <1>6 DEF Lock, PosInv, Accessing, Building
  <2>4. LatchInv'
    <3>1. \A u \in Slots \ {t} : Accessing(u)' => Accessing(u) /\ Bucket(u)' = Bucket(u)
      BY <1>2, <1>6 DEF Lock, Accessing, Bucket
    <3>2. latch' = [latch EXCEPT ![Bucket(t)] = t] /\ latch[Bucket(t)] = NoThread
          /\ Bucket(t)' = Bucket(t)
      BY <1>2, <1>6 DEF Lock, Bucket
    <3>3. \A u \in Slots : u # NoThread
      BY NopAssumption DEF Slots, NoThread
    <3>4. QED BY <2>1, <3>1, <3>2, <3>3 DEF LatchInv
  <2>5. QED BY <1>4, <2>2, <2>3, <2>4
<1>7. CASE Store(t) \/ Increment(t)
  <2>1. bpos[t] \in LeftRows /\ Bucket(t) \in Buckets
    BY <1>7, RowInBounds DEF Store, Increment, PosInv, Accessing
  <2>2. ASSUME Store(t)
        PROVE  TypeOK'
    <3>1. table[Bucket(t)] \in BucketType /\ bpos[t] \in Nat
      BY <2>1 DEF BucketType
    <3>2. Len(table[Bucket(t)].next) = Nodes(table[Bucket(t)].count)
      BY <2>1, <2>2, <3>1, SettledWhenStoring DEF Store, ContentInv, Holds, Filled, BucketType
    <3>3. Stored(table[Bucket(t)], bpos[t]) \in BucketType
      BY <3>1, <3>2, StoredPlaces
    <3>4. QED BY <1>2, <2>1, <2>2, <3>3 DEF Store, BucketType
  <2>3. ASSUME Increment(t)
        PROVE  TypeOK'
    <3>1. (table[Bucket(t)].count + 1) % (2 ^ CountBits) \in Nat
      BY <2>1, CountType
    <3>2. QED BY <1>2, <2>1, <2>3, <3>1 DEF Increment
  <2>4. TypeOK'
    BY <1>7, <2>2, <2>3
  <2>5. PosInv'
    BY <1>2, <1>7 DEF Store, Increment, PosInv, Accessing
  <2>6. LatchInv'
    BY <1>2, <1>7 DEF Store, Increment, LatchInv, Accessing, Bucket
  <2>7. QED BY <1>4, <2>4, <2>5, <2>6
<1>8. CASE Unlock(t)
  <2>1. bpos[t] \in LeftRows /\ Bucket(t) \in Buckets /\ bpos[t] <= Last(Len(left), t)
    BY <1>8, RowInBounds DEF Unlock, PosInv, Accessing
  <2>2. TypeOK'
    <3>1. bpc' = [bpc EXCEPT ![t] = "loop"] /\ bpos' = [bpos EXCEPT ![t] = bpos[t] + 1]
          /\ latch' = [latch EXCEPT ![Bucket(t)] = NoThread] /\ UNCHANGED table
      BY <1>8 DEF Unlock
    <3>2. bpos' \in [Slots -> Nat]
      BY <1>5, <3>1
    <3>3. latch' \in [Buckets -> Slots \cup {NoThread}]
      BY <3>1
    <3>4. bpc' \in [Slots -> {"none", "loop", "store", "count", "unlock", "done"}]
      BY <3>1
    <3>5. QED BY <1>2, <3>1, <3>2, <3>3, <3>4
  <2>3. PosInv'
    <3>1. bpc' = [bpc EXCEPT ![t] = "loop"] /\ bpos' = [bpos EXCEPT ![t] = bpos[t] + 1]
      BY <1>8 DEF Unlock
    <3>2. First(Len(left), t) <= bpos[t] /\ First(Len(left), t) \in Nat
      BY <1>1, <1>3, ChunkBounds DEF PosInv
    <3>3. First(Len(left), t) <= bpos[t] + 1 /\ bpos[t] + 1 <= Last(Len(left), t) + 1
      BY <1>5, <2>1, <3>2
    <3>4. QED BY <1>2, <3>1, <3>3 DEF PosInv, Accessing
  <2>4. LatchInv'
    <3>1. \A u \in Slots \ {t} : Accessing(u)' => Accessing(u) /\ Bucket(u)' = Bucket(u)
      BY <1>2, <1>8 DEF Unlock, Accessing, Bucket
    <3>2. \A u \in Slots \ {t} : Accessing(u) => Bucket(u) # Bucket(t)
      BY <1>8 DEF LatchInv, Unlock, Accessing
    <3>3. latch' = [latch EXCEPT ![Bucket(t)] = NoThread] /\ ~Accessing(t)'
      BY <1>2, <1>8 DEF Unlock, Accessing
    <3>4. SUFFICES ASSUME NEW u \in Slots, Accessing(u)'
                   PROVE  latch'[Bucket(u)'] = u
      BY DEF LatchInv
    <3>5. u # t /\ latch[Bucket(u)] = u /\ Bucket(u)' = Bucket(u) /\ Bucket(u) # Bucket(t)
      BY <3>1, <3>2, <3>3, <3>4 DEF LatchInv
    <3>6. QED BY <2>1, <3>3, <3>5
  <2>5. QED BY <1>4, <2>2, <2>3, <2>4
<1>9. CASE BuildEnd(t)
  <2>1. TypeOK'
    BY <1>2, <1>9 DEF BuildEnd
  <2>2. bpos[t] = Last(Len(left), t) + 1
    BY <1>5, <1>9 DEF BuildEnd, Building
  <2>3. PosInv'
    BY <1>2, <1>9, <2>2 DEF BuildEnd, PosInv, Accessing
  <2>4. LatchInv'
    BY <1>2, <1>9 DEF BuildEnd, LatchInv, Accessing, Bucket
  <2>5. QED BY <1>4, <2>1, <2>3, <2>4
<1>10. QED BY <1>6, <1>7, <1>8, <1>9 DEF Builder

LEMMA ProberControl ==
  ASSUME ControlInv, NEW t \in Slots, Prober(t)
  PROVE  ControlInv'
<1> USE DEF ControlInv, TypeOK, input, mainVars, buildVars, probeVars
<1>1. Len(left) \in Nat /\ Len(right) \in Nat
  BY LenProperties
<1>2. /\ UNCHANGED <<left, right, mpc, started, bpc, bpos, latch, table>> /\ Pairs' = Pairs
      /\ ppc[t] = "loop"
  BY DEF Prober, Probe, ProbeEnd, Probing, Pairs, LeftRows, RightRows
<1>3. LatchInv'
  BY <1>2 DEF LatchInv, Accessing, Bucket
<1>4. ppos[t] \in Nat /\ ppos[t] <= Last(Len(right), t) + 1 /\ Last(Len(right), t) \in Nat
  BY <1>1, <1>2, ChunkBounds DEF PosInv
<1>5. mpc = "probe"
  BY <1>2 DEF PhaseInv
<1>6. CASE Probe(t)
  <2>0. ppos[t] \in RightRows
    <3>1. First(Len(right), t) <= ppos[t] /\ ppos[t] <= Last(Len(right), t)
      BY <1>2, <1>6 DEF PosInv, Probe, Probing
    <3>2. First(Len(right), t) \in Nat \ {0} /\ Last(Len(right), t) <= Len(right)
      BY <1>1, ChunkBounds
    <3>3. QED BY <1>1, <1>4, <3>1, <3>2 DEF RightRows
  <2>1. \A m \in Pairs : Found(m, ppos[t]) \in Nat
    BY <2>0, FoundType
  <2>2. [m \in Pairs |-> result[t][m] + Found(m, ppos[t])] \in [Pairs -> Nat]
    BY <2>1
  <2>3. /\ result' = [result EXCEPT ![t] = [m \in Pairs |-> result[t][m] + Found(m, ppos[t])]]
        /\ ppos' = [ppos EXCEPT ![t] = @ + 1] /\ ppc' = ppc
        /\ ppos[t] <= Last(Len(right), t)
    BY <1>6 DEF Probe, Probing
  <2>4. TypeOK'
    BY <1>2, <1>4, <2>2, <2>3
  <2>5. PhaseInv'
    BY <1>2, <2>3 DEF PhaseInv, Accessing
  <2>6. PosInv'
    <3>1. First(Len(right), t) <= ppos[t] /\ First(Len(right), t) \in Nat
      BY <1>1, <1>2, ChunkBounds DEF PosInv
    <3>2. First(Len(right), t) <= ppos[t] + 1 /\ ppos[t] + 1 <= Last(Len(right), t) + 1
      BY <1>4, <2>3, <3>1
    <3>3. QED BY <1>2, <2>3, <3>2 DEF PosInv, Accessing
  <2>7. QED BY <1>3, <2>4, <2>5, <2>6
<1>7. CASE ProbeEnd(t)
  <2>1. TypeOK'
    BY <1>2, <1>7 DEF ProbeEnd
  <2>2. ppos[t] = Last(Len(right), t) + 1
    BY <1>4, <1>7 DEF ProbeEnd, Probing
  <2>3. PosInv'
    BY <1>2, <1>7, <2>2 DEF ProbeEnd, PosInv, Accessing
  <2>4. PhaseInv'
    BY <1>2, <1>5, <1>7 DEF ProbeEnd, PhaseInv, Accessing
  <2>5. QED BY <1>3, <2>1, <2>3, <2>4
<1>8. QED BY <1>6, <1>7 DEF Prober

--------------------------------------------------------------------------------
(* The buckets. *)

\* A row belongs to the chunk of one thread only, and a thread inserts rows of its
\* chunk.
LEMMA OneChunk ==
  ASSUME NEW n \in Nat, NEW k \in Nat, NEW t \in Slots, NEW u \in Slots,
         First(n, t) <= k, k <= Last(n, t), First(n, u) <= k, k <= Last(n, u)
  PROVE  t = u
<1>1. /\ First(n, t) \in Nat /\ Last(n, t) \in Nat
      /\ First(n, u) \in Nat /\ Last(n, u) \in Nat
      /\ t \in Nat /\ u \in Nat
  BY ChunkBounds, NopAssumption DEF Slots
<1>2. ~ t < u
  BY <1>1, ChunksDisjoint
<1>3. ~ u < t
  BY <1>1, ChunksDisjoint
<1>4. QED BY <1>1, <1>2, <1>3

LEMMA InsertedInChunk ==
  ASSUME TypeOK, PosInv, NEW t \in Slots, NEW k \in InsertedBy(t)
  PROVE  /\ k \in LeftRows /\ k \in Nat
         /\ First(Len(left), t) <= k /\ k <= Last(Len(left), t)
<1>1. /\ k \in LeftRows /\ First(Len(left), t) <= k /\ bpc[t] # "none"
      /\ \/ k < bpos[t]
         \/ k = bpos[t] /\ Accessing(t)
  BY DEF InsertedBy, Accessing
<1>2. Len(left) \in Nat /\ bpos[t] \in Nat /\ k \in Nat
  BY <1>1, LenProperties DEF TypeOK, LeftRows
<1>3. Last(Len(left), t) \in Nat
  BY <1>2, ChunkBounds
<1>4. bpos[t] <= Last(Len(left), t) + 1 /\ (Accessing(t) => bpos[t] <= Last(Len(left), t))
  BY <1>1 DEF PosInv
<1>5. QED BY <1>1, <1>2, <1>3, <1>4

\* The counter never reaches its limit: a bucket does not hold more rows than there
\* are.
LEMMA CountFits ==
  ASSUME ControlInv, ContentInv, NEW b \in Buckets, b \in Unsettled,
         \E i \in Inputs : left = i.left
  PROVE  (table[b].count + 1) % (2 ^ CountBits) = table[b].count + 1
<1>1. table[b].count \in Nat /\ Filled(b) = table[b].count + 1 /\ Len(left) \in Nat
  BY LenProperties DEF ControlInv, TypeOK, Filled
<1>2. Filled(b) <= Len(left)
  <2> DEFINE f == [i \in 1 .. Filled(b) |-> Place(table[b], i)]
  <2>1. f \in [1 .. Filled(b) -> LeftRows]
    <3>1. RowsOf(b) \subseteq LeftRows
      BY DEF RowsOf, InsertedBy
    <3>2. \A i \in 1 .. Filled(b) : Place(table[b], i) \in RowsOf(b)
      BY DEF ContentInv, Holds
    <3>3. QED BY <3>1, <3>2
  <2>2. \A i, j \in 1 .. Filled(b) : f[i] = f[j] => i = j
    BY DEF ContentInv, Holds
  <2> HIDE DEF f
  <2>3. \A n \in Nat : IsFiniteSet(1 .. n) /\ Cardinality(1 .. n) = n
    <3>1. SUFFICES ASSUME NEW n \in Nat
                   PROVE  IsFiniteSet(1 .. n) /\ Cardinality(1 .. n) = n
      OBVIOUS
    <3>2. QED BY FS_Interval
  <2>4. Filled(b) \in Nat
    BY <1>1
  <2> DEFINE places == 1 .. Filled(b)
             rows   == LeftRows
  <2>5. /\ IsFiniteSet(places) /\ Cardinality(places) = Filled(b)
        /\ IsFiniteSet(rows) /\ Cardinality(rows) = Len(left)
        /\ f \in [places -> rows]
    BY <1>1, <2>1, <2>3, <2>4 DEF LeftRows
  <2> HIDE DEF places, rows
  <2>6. ~ Cardinality(rows) < Cardinality(places)
    <3>1. SUFFICES ASSUME Cardinality(rows) < Cardinality(places)
                   PROVE  FALSE
      OBVIOUS
    <3>2. \E i, j \in places : i # j /\ f[i] = f[j]
      BY <2>5, <3>1, FS_PigeonHole
    <3>3. QED BY <2>2, <3>2 DEF places
  <2>7. QED BY <1>1, <2>4, <2>5, <2>6
<1>3. Len(left) < 2 ^ CountBits /\ 2 ^ CountBits \in Nat \ {0}
  BY NopAssumption, PowerOfTwo
<1> DEFINE w == 2 ^ CountBits
<1> HIDE DEF w
<1>4. table[b].count + 1 < w /\ w \in Nat \ {0}
  BY <1>1, <1>2, <1>3 DEF w
<1>5. (table[b].count + 1) % w = table[b].count + 1
  BY <1>1, <1>4
<1>6. QED BY <1>5 DEF w

LEMMA ContentInit == Init => ContentInv
<1> SUFFICES ASSUME Init, NEW b \in Buckets
             PROVE  Holds(table[b], Filled(b), RowsOf(b))
  BY DEF ContentInv
<1>1. Unsettled = {} /\ RowsOf(b) = {}
  BY DEF Init, Unsettled, RowsOf, InsertedBy
<1>2. table[b].count = 0 /\ table[b].next = <<>>
  BY DEF Init, EmptyBucket
<1>3. Filled(b) = 0
  BY <1>1, <1>2 DEF Filled
<1>4. QED BY <1>1, <1>2, <1>3, EmptySeq DEF Nodes, Holds

\* What a step has to leave alone for the buckets to stay complete.
LEMMA ContentFrame ==
  ASSUME ContentInv, left' = left, table' = table, Unsettled' = Unsettled,
         \A t \in Slots : InsertedBy(t)' = InsertedBy(t)
  PROVE  ContentInv'
<1>1. \A b \in Buckets : RowsOf(b)' = RowsOf(b) /\ Filled(b)' = Filled(b)
  BY DEF RowsOf, Filled, Index
<1>2. QED BY <1>1 DEF ContentInv

LEMMA MainContent ==
  ASSUME ControlInv, ContentInv, MainStep
  PROVE  ContentInv'
<1> USE DEF input, mainVars, buildVars, probeVars
<1>1. CASE StartBuilder
  <2>1. started \in Slots /\ bpc[started] = "none"
    BY <1>1, NopAssumption DEF StartBuilder, Slots, ControlInv, TypeOK, PhaseInv
  <2>2. PICK s \in Slots : s = started
    BY <2>1
  <2>3. /\ bpc' = [bpc EXCEPT ![s] = "loop"]
        /\ bpos' = [bpos EXCEPT ![s] = First(Len(left), s)]
        /\ UNCHANGED <<left, table>>
    BY <1>1, <2>2 DEF StartBuilder
  <2>4. \A t \in Slots \ {s} : bpc'[t] = bpc[t] /\ bpos'[t] = bpos[t]
    BY <2>3 DEF ControlInv, TypeOK
  <2>5. bpc[s] = "none" /\ bpc'[s] = "loop" /\ bpos'[s] = First(Len(left), s)
    BY <2>1, <2>2, <2>3 DEF ControlInv, TypeOK
  <2>6. InsertedBy(s) = {} /\ InsertedBy(s)' = {}
    <3>1. First(Len(left), s) \in Nat
      BY ChunkBounds, LenProperties DEF ControlInv, TypeOK
    <3>2. InsertedBy(s) = {}
      BY <2>5 DEF InsertedBy
    <3>3. \A k \in LeftRows' : First(Len(left), s) <= k => ~ k < bpos'[s] /\ k \in Nat
      BY <2>5, <3>1 DEF LeftRows
    <3>4. InsertedBy(s)' = {}
      BY <2>3, <2>5, <3>3 DEF InsertedBy
    <3>5. QED BY <3>2, <3>4
  <2>7. \A t \in Slots \ {s} : InsertedBy(t)' = InsertedBy(t)
    BY <2>3, <2>4 DEF InsertedBy, LeftRows
  <2>8. \A t \in Slots : InsertedBy(t)' = InsertedBy(t)
    BY <2>6, <2>7
  <2>9. Unsettled' = Unsettled
    BY <2>3, <2>4, <2>5 DEF Unsettled, Bucket, Index
  <2>10. QED BY <2>3, <2>8, <2>9, ContentFrame
<1>2. CASE Call \/ JoinBuilders \/ StartProber \/ JoinProbers
  <2>1. UNCHANGED <<left, bpc, bpos, table>>
    BY <1>2 DEF Call, JoinBuilders, StartProber, JoinProbers
  <2>2. \A t \in Slots : InsertedBy(t)' = InsertedBy(t)
    BY <2>1 DEF InsertedBy, LeftRows
  <2>3. Unsettled' = Unsettled
    BY <2>1 DEF Unsettled, Bucket, Index
  <2>4. QED BY <2>1, <2>2, <2>3, ContentFrame
<1>3. QED BY <1>1, <1>2 DEF MainStep

\* Taking the latch, giving it back and leaving the loop move no rows.
LEMMA LoopContent ==
  ASSUME ControlInv, ContentInv, NEW t \in Slots, Lock(t) \/ Unlock(t) \/ BuildEnd(t)
  PROVE  ContentInv'
<1> USE DEF input, mainVars, probeVars, ControlInv, TypeOK
<1>1. /\ UNCHANGED <<left, table>>
      /\ \A u \in Slots \ {t} : bpc'[u] = bpc[u] /\ bpos'[u] = bpos[u]
  BY DEF Lock, Unlock, BuildEnd
<1>2. bpc[t] # "count" /\ bpc'[t] # "count" /\ bpc[t] # "none" /\ bpc'[t] # "none"
  BY DEF Lock, Unlock, BuildEnd, Building
<1>3. \A k \in LeftRows : \/ k < bpos[t]
                          \/ k = bpos[t] /\ bpc[t] \in {"count", "unlock"}
                          <=> \/ k < bpos'[t]
                              \/ k = bpos'[t] /\ bpc'[t] \in {"count", "unlock"}
  <2>1. bpos[t] \in Nat /\ \A k \in LeftRows : k \in Nat
    BY DEF LeftRows
  <2>2. CASE Lock(t) \/ BuildEnd(t)
    BY <2>1, <2>2 DEF Lock, BuildEnd, Building
  <2>3. CASE Unlock(t)
    <3>1. bpos'[t] = bpos[t] + 1 /\ bpc[t] = "unlock" /\ bpc'[t] = "loop"
      BY <2>3 DEF Unlock
    <3>2. \A k \in Nat : k < bpos[t] \/ k = bpos[t] <=> k < bpos[t] + 1
      BY <2>1
    <3>3. QED BY <2>1, <3>1, <3>2
  <2>4. QED BY <2>2, <2>3
<1>4. InsertedBy(t)' = InsertedBy(t)
  BY <1>1, <1>2, <1>3 DEF InsertedBy, LeftRows
<1>5. \A u \in Slots \ {t} : InsertedBy(u)' = InsertedBy(u)
  BY <1>1 DEF InsertedBy, LeftRows
<1>6. \A u \in Slots : InsertedBy(u)' = InsertedBy(u)
  BY <1>4, <1>5
<1>7. Unsettled' = Unsettled
  <2>1. \A u \in Slots : bpc'[u] = "count" <=> bpc[u] = "count"
    BY <1>1, <1>2
  <2>2. \A u \in Slots : bpc[u] = "count" => bpos'[u] = bpos[u]
    BY <1>1, <1>2
  <2>3. QED BY <1>1, <2>1, <2>2 DEF Unsettled, Bucket, Index
<1>8. QED BY <1>1, <1>6, <1>7, ContentFrame

\* A row stored in a bucket is one more row of it.
LEMMA StoredHolds ==
  ASSUME NEW bk \in BucketType, NEW rows, Holds(bk, bk.count, rows),
         NEW k \in Nat \ rows
  PROVE  Holds(Stored(bk, k), bk.count + 1, rows \cup {k})
<1> DEFINE n   == bk.count
           new == Stored(bk, k)
<1>1. n \in Nat
  BY DEF BucketType
<1>2. /\ {Place(bk, i) : i \in 1 .. n} = rows
      /\ \A i, j \in 1 .. n : Place(bk, i) = Place(bk, j) => i = j
      /\ Len(bk.next) = Nodes(n)
  BY DEF Holds
<1>3. /\ Place(new, n + 1) = k
      /\ \A i \in 1 .. n : Place(new, i) = Place(bk, i)
      /\ Len(new.next) = Nodes(n + 1)
  BY <1>2, StoredPlaces
<1> HIDE DEF new, n
<1>4. \A i \in 1 .. (n + 1) : i \in 1 .. n \/ i = n + 1
  BY <1>1
<1>5. \A i \in 1 .. n : i \in 1 .. (n + 1) /\ i # n + 1 /\ Place(bk, i) \in rows
  BY <1>1, <1>2
<1>6. n + 1 \in 1 .. (n + 1)
  BY <1>1
<1>7. {Place(new, i) : i \in 1 .. (n + 1)} = {Place(new, i) : i \in 1 .. n} \cup {k}
  BY <1>3, <1>4, <1>5, <1>6
<1>8. {Place(new, i) : i \in 1 .. n} = {Place(bk, i) : i \in 1 .. n}
  BY <1>3
<1>9. {Place(new, i) : i \in 1 .. (n + 1)} = rows \cup {k}
  BY <1>2, <1>7, <1>8
<1>10. \A i, j \in 1 .. (n + 1) : Place(new, i) = Place(new, j) => i = j
  BY <1>2, <1>3, <1>4, <1>5
<1>11. Holds(new, n + 1, rows \cup {k})
  BY <1>3, <1>9, <1>10 DEF Holds
<1>12. QED BY <1>11 DEF new, n

\* What a bucket holds does not depend on its counter.
LEMMA SamePlaces ==
  ASSUME NEW old, NEW new, NEW n, NEW rows, Holds(old, n, rows),
         new.t1 = old.t1, new.t2 = old.t2, new.next = old.next
  PROVE  Holds(new, n, rows)
<1>1. \A i : Place(new, i) = Place(old, i)
  BY DEF Place
<1>2. {Place(new, i) : i \in 1 .. n} = {Place(old, i) : i \in 1 .. n}
  BY <1>1
<1>3. QED BY <1>1, <1>2 DEF Holds

\* Storing a row adds it to its bucket, whose counter does not say so yet.
LEMMA StoreContent ==
  ASSUME ControlInv, ContentInv, NEW t \in Slots, Store(t)
  PROVE  ContentInv'
<1> USE DEF input, mainVars, probeVars
<1>1. PICK b \in Buckets, k \in LeftRows : b = Bucket(t) /\ k = bpos[t]
  BY RowInBounds DEF ControlInv, PosInv, Accessing, Store
<1>2. /\ bpc[t] = "store" /\ Accessing(t)
      /\ table' = [table EXCEPT ![b] = Stored(table[b], k)]
      /\ bpc' = [bpc EXCEPT ![t] = "count"]
      /\ UNCHANGED <<left, bpos>>
  BY <1>1 DEF Store, Accessing
<1>3. /\ k \in Nat /\ Index(left[k]) = b
      /\ First(Len(left), t) <= k /\ k <= Last(Len(left), t)
  BY <1>1, <1>2 DEF ControlInv, PosInv, TypeOK, Bucket
<1>4. /\ table[b] \in BucketType /\ table[b].count \in Nat
      /\ b \notin Unsettled /\ Filled(b) = table[b].count
  BY <1>1, <1>2, SettledWhenStoring DEF ControlInv, TypeOK, BucketType, Filled
<1>5. k \notin RowsOf(b)
  <2>1. k \notin InsertedBy(t)
    BY <1>1, <1>2, <1>3 DEF InsertedBy
  <2>2. ASSUME NEW u \in Slots, k \in InsertedBy(u)
        PROVE  u = t
    <3>1. First(Len(left), u) <= k /\ k <= Last(Len(left), u)
      BY <2>2, InsertedInChunk DEF ControlInv
    <3>2. Len(left) \in Nat
      BY LenProperties DEF ControlInv, TypeOK
    <3>3. QED BY <1>3, <3>1, <3>2, OneChunk
  <2>3. QED BY <2>1, <2>2 DEF RowsOf
<1>6. /\ InsertedBy(t)' = InsertedBy(t) \cup {k}
      /\ \A u \in Slots \ {t} : InsertedBy(u)' = InsertedBy(u)
  <2>1. bpc'[t] = "count" /\ \A u \in Slots \ {t} : bpc'[u] = bpc[u]
    BY <1>2 DEF ControlInv, TypeOK
  <2>2. InsertedBy(t)' = InsertedBy(t) \cup {k}
    BY <1>1, <1>2, <1>3, <2>1 DEF InsertedBy, LeftRows
  <2>3. QED BY <1>2, <2>1, <2>2 DEF InsertedBy, LeftRows
<1>7. RowsOf(b)' = RowsOf(b) \cup {k} /\ \A c \in Buckets \ {b} : RowsOf(c)' = RowsOf(c)
  <2> DEFINE rows == UNION {InsertedBy(u) : u \in Slots}
  <2>1. rows' = rows \cup {k}
    BY <1>6
  <2> HIDE DEF rows
  <2>2. \A c : RowsOf(c)' = {x \in rows' : Index(left[x]) = c}
    BY <1>2 DEF RowsOf, rows, Index
  <2>3. \A c : RowsOf(c) = {x \in rows : Index(left[x]) = c}
    BY DEF RowsOf, rows
  <2>4. QED BY <1>3, <2>1, <2>2, <2>3
<1>8. Unsettled' = Unsettled \cup {b}
  <2>1. \A u \in Slots : bpc'[u] = "count" <=> bpc[u] = "count" \/ u = t
    BY <1>2 DEF ControlInv, TypeOK
  <2>2. \A u \in Slots : Bucket(u)' = Bucket(u)
    BY <1>2 DEF Bucket, Index
  <2>3. QED BY <1>1, <2>1, <2>2 DEF Unsettled
<1>9. /\ table'[b] = Stored(table[b], k)
      /\ \A c \in Buckets \ {b} : table'[c] = table[c]
  BY <1>2 DEF ControlInv, TypeOK
<1>10. \A c \in Buckets \ {b} : Holds(table'[c], Filled(c)', RowsOf(c)')
  <2>1. \A c \in Buckets \ {b} : Filled(c)' = Filled(c)
    BY <1>8, <1>9 DEF Filled
  <2>2. QED BY <1>7, <1>9, <2>1 DEF ContentInv
<1>11. Holds(table'[b], Filled(b)', RowsOf(b)')
  <2>1. Holds(table[b], table[b].count, RowsOf(b))
    BY <1>4 DEF ContentInv
  <2>2. Holds(Stored(table[b], k), table[b].count + 1, RowsOf(b) \cup {k})
    BY <1>3, <1>4, <1>5, <2>1, StoredHolds
  <2>3. Stored(table[b], k).count = table[b].count
    BY <1>3, <1>4, <2>1, StoredPlaces DEF Holds
  <2>4. Filled(b)' = table[b].count + 1
    BY <1>8, <1>9, <2>3 DEF Filled
  <2>5. QED BY <1>7, <1>9, <2>2, <2>4
<1>12. QED BY <1>10, <1>11 DEF ContentInv

\* Counting a row says what is there already.
LEMMA IncrementContent ==
  ASSUME ControlInv, ContentInv, NEW t \in Slots, Increment(t),
         \E i \in Inputs : left = i.left
  PROVE  ContentInv'
<1> USE DEF input, mainVars, probeVars
<1>1. PICK b \in Buckets : b = Bucket(t)
  BY RowInBounds DEF ControlInv, PosInv, Accessing, Increment
<1>2. /\ bpc[t] = "count" /\ b \in Unsettled
      /\ table' = [table EXCEPT ![b].count = (@ + 1) % (2 ^ CountBits)]
      /\ bpc' = [bpc EXCEPT ![t] = "unlock"]
      /\ UNCHANGED <<left, bpos>>
  BY <1>1 DEF Increment, Unsettled
<1>3. table[b] \in BucketType /\ table[b].count \in Nat
  BY DEF ControlInv, TypeOK, BucketType
<1>4. table' = [table EXCEPT ![b].count = table[b].count + 1]
  BY <1>2, CountFits
<1>5. /\ table'[b].count = table[b].count + 1
      /\ table'[b].t1 = table[b].t1 /\ table'[b].t2 = table[b].t2
      /\ table'[b].next = table[b].next
      /\ \A c \in Buckets \ {b} : table'[c] = table[c]
  BY <1>3, <1>4 DEF ControlInv, TypeOK, BucketType
<1>6. bpc'[t] = "unlock" /\ \A u \in Slots \ {t} : bpc'[u] = bpc[u]
  BY <1>2 DEF ControlInv, TypeOK
<1>7. \A u \in Slots : InsertedBy(u)' = InsertedBy(u)
  <2>1. InsertedBy(t)' = InsertedBy(t)
    BY <1>2, <1>6 DEF InsertedBy, LeftRows
  <2>2. \A u \in Slots \ {t} : InsertedBy(u)' = InsertedBy(u)
    BY <1>2, <1>6 DEF InsertedBy, LeftRows
  <2>3. QED BY <2>1, <2>2
<1>8. \A c \in Buckets : RowsOf(c)' = RowsOf(c)
  BY <1>2, <1>7 DEF RowsOf, Index
<1>9. Unsettled' = Unsettled \ {b}
  <2>1. \A u \in Slots \ {t} : bpc[u] = "count" => Bucket(u) # b
    BY <1>1, <1>2 DEF ControlInv, LatchInv, Accessing
  <2>2. \A u \in Slots : Bucket(u)' = Bucket(u)
    BY <1>2 DEF Bucket, Index
  <2>3. QED BY <1>1, <1>2, <1>6, <2>1, <2>2 DEF Unsettled
<1>10. \A c \in Buckets : Filled(c)' = Filled(c)
  BY <1>2, <1>3, <1>5, <1>9 DEF Filled
<1>11. ASSUME NEW c \in Buckets
       PROVE  Holds(table'[c], Filled(c)', RowsOf(c)')
  <2>1. Holds(table[c], Filled(c), RowsOf(c))
    BY DEF ContentInv
  <2>2. /\ table'[c].t1 = table[c].t1 /\ table'[c].t2 = table[c].t2
        /\ table'[c].next = table[c].next
    BY <1>5
  <2>3. Holds(table'[c], Filled(c), RowsOf(c))
    BY <2>1, <2>2, SamePlaces
  <2>4. QED BY <1>8, <1>10, <2>3
<1>12. QED BY <1>11 DEF ContentInv

--------------------------------------------------------------------------------
(* The result. *)

\* The rows of the right relation thread t has probed the table with.
Probed(t, r) == ppc[t] # "none" /\ First(Len(right), t) <= r /\ r < ppos[t]

\* A pair with the same key is in the result of the thread that probed with its
\* right row, once; nothing else is in any result.
ResultInv ==
  \A t \in Slots, m \in Pairs :
    result[t][m] = IF m \in Matches /\ Probed(t, m[2]) THEN 1 ELSE 0

\* When the builders are done, all rows of the left relation are in the table.
LEMMA AllInserted ==
  ASSUME TypeOK, PosInv, \A t \in Slots : bpc[t] = "done", NEW k \in LeftRows
  PROVE  k \in RowsOf(Index(left[k]))
<1>1. Len(left) \in Nat /\ k \in 1 .. Len(left) /\ k \in Nat
  BY LenProperties DEF TypeOK, LeftRows
<1>2. PICK t \in Slots : First(Len(left), t) <= k /\ k <= Last(Len(left), t)
  BY <1>1, ChunksCover
<1>3. Last(Len(left), t) \in Nat /\ bpos[t] = Last(Len(left), t) + 1
  BY <1>1, ChunkBounds DEF PosInv
<1>4. k \in InsertedBy(t)
  BY <1>1, <1>2, <1>3 DEF InsertedBy
<1>5. QED BY <1>4 DEF RowsOf

\* A probe comes across each row of a bucket once.
LEMMA OneOccurrence ==
  ASSUME NEW bk, NEW rows, Holds(bk, bk.count, rows), NEW k \in rows
  PROVE  Occurrences(bk, k) = 1
<1>1. PICK i \in 1 .. bk.count : Place(bk, i) = k
  BY DEF Holds
<1>2. {j \in 1 .. bk.count : Place(bk, j) = k} = {i}
  BY <1>1 DEF Holds
<1>3. QED BY <1>2, FS_Singleton DEF Occurrences

\* Once the builders are done, probing finds a pair with the same key once.
LEMMA FoundOnce ==
  ASSUME ControlInv, ContentInv, \A t \in Slots : bpc[t] = "done",
         NEW m \in Pairs, NEW r \in RightRows
  PROVE  Found(m, r) = IF m \in Matches /\ m[2] = r THEN 1 ELSE 0
<1>1. CASE m \in Matches /\ m[2] = r
  <2>1. m[1] \in LeftRows /\ left[m[1]] = right[r]
    BY <1>1 DEF Matches, Pairs
  <2>2. m[1] \in RowsOf(Index(right[r]))
    BY <2>1, AllInserted DEF ControlInv
  <2>3. Index(right[r]) \in Buckets
    BY IndexType, ElementOfSeq DEF ControlInv, TypeOK, RightRows
  <2>4. Filled(Index(right[r])) = table[Index(right[r])].count
    BY <2>3 DEF ControlInv, TypeOK, Filled, Unsettled
  <2>5. Holds(table[Index(right[r])], table[Index(right[r])].count, RowsOf(Index(right[r])))
    BY <2>3, <2>4 DEF ContentInv
  <2>6. Occurrences(table[Index(right[r])], m[1]) = 1
    BY <2>2, <2>5, OneOccurrence
  <2>7. QED BY <1>1, <2>1, <2>6 DEF Found
<1>2. CASE ~ (m \in Matches /\ m[2] = r)
  BY <1>2 DEF Found, Matches
<1>3. QED BY <1>1, <1>2

LEMMA ResultInit == Init => ResultInv
BY DEF Init, ResultInv, Probed

\* What a step has to leave alone for the result to stay right.
LEMMA ResultFrame ==
  ASSUME ResultInv, UNCHANGED <<left, right, result>>,
         \A t \in Slots, r \in RightRows : Probed(t, r)' <=> Probed(t, r)
  PROVE  ResultInv'
<1>1. Pairs' = Pairs /\ Matches' = Matches /\ \A m \in Pairs : m[2] \in RightRows
  BY DEF Pairs, Matches, LeftRows, RightRows
<1>2. QED BY <1>1 DEF ResultInv

\* No step of execute() probes, and a prober it starts has not probed yet.
LEMMA MainProbes ==
  ASSUME ControlInv, MainStep
  PROVE  /\ UNCHANGED <<left, right, result>>
         /\ \A t \in Slots, r \in RightRows : Probed(t, r)' <=> Probed(t, r)
<1> USE DEF input, mainVars, buildVars, probeVars
<1>1. CASE StartProber
  <2>1. started \in Slots /\ ppc[started] = "none"
    BY <1>1, NopAssumption DEF StartProber, Slots, ControlInv, TypeOK, PhaseInv
  <2>2. PICK s \in Slots : s = started
    BY <2>1
  <2>3. /\ ppc' = [ppc EXCEPT ![s] = "loop"]
        /\ ppos' = [ppos EXCEPT ![s] = First(Len(right), s)]
        /\ UNCHANGED <<left, right, result>>
    BY <1>1, <2>2 DEF StartProber
  <2>4. \A t \in Slots \ {s} : ppc'[t] = ppc[t] /\ ppos'[t] = ppos[t]
    BY <2>3 DEF ControlInv, TypeOK
  <2>5. ppc[s] = "none" /\ ppos'[s] = First(Len(right), s)
    BY <2>1, <2>2, <2>3 DEF ControlInv, TypeOK
  <2>6. First(Len(right), s) \in Nat
    BY ChunkBounds, LenProperties DEF ControlInv, TypeOK
  <2>7. ASSUME NEW r \in RightRows
        PROVE  ~ Probed(s, r) /\ ~ Probed(s, r)'
    <3>1. ~ Probed(s, r)
      BY <2>5 DEF Probed
    <3>2. r \in Nat
      BY DEF RightRows
    <3>3. ~ (First(Len(right), s) <= r /\ r < First(Len(right), s))
      BY <2>6, <3>2
    <3>4. ~ Probed(s, r)'
      BY <2>3, <2>5, <3>3 DEF Probed
    <3>5. QED BY <3>1, <3>4
  <2>8. \A t \in Slots \ {s}, r \in RightRows : Probed(t, r)' <=> Probed(t, r)
    BY <2>3, <2>4 DEF Probed
  <2>9. \A t \in Slots, r \in RightRows : Probed(t, r)' <=> Probed(t, r)
    BY <2>7, <2>8
  <2>10. QED BY <2>3, <2>9
<1>2. CASE Call \/ StartBuilder \/ JoinBuilders \/ JoinProbers
  <2>1. UNCHANGED <<left, right, ppc, ppos, result>>
    BY <1>2 DEF Call, StartBuilder, JoinBuilders, JoinProbers
  <2>2. QED BY <2>1 DEF Probed
<1>3. QED BY <1>1, <1>2 DEF MainStep

\* A prober adds what it finds, and it comes to each row of its chunk once.
LEMMA ProbeAdds ==
  ASSUME ControlInv, ContentInv, NEW t \in Slots, Prober(t)
  PROVE  /\ UNCHANGED <<left, right, mpc>>
         /\ \A u \in Slots, m \in Pairs :
              /\ Probed(u, m[2]) => Probed(u, m[2])'
              /\ result'[u][m] = result[u][m] +
                   IF m \in Matches /\ Probed(u, m[2])' /\ ~ Probed(u, m[2]) THEN 1 ELSE 0
<1> USE DEF input, mainVars, buildVars, ControlInv, TypeOK
<1>1. CASE ProbeEnd(t)
  <2>1. UNCHANGED <<left, right, mpc, ppos, result>>
    BY <1>1 DEF ProbeEnd
  <2>2. \A u \in Slots : ppc'[u] = "none" <=> ppc[u] = "none"
    BY <1>1 DEF ProbeEnd
  <2>3. \A u \in Slots, m \in Pairs : Probed(u, m[2])' <=> Probed(u, m[2])
    BY <2>1, <2>2 DEF Probed
  <2>4. \A u \in Slots, m \in Pairs : result[u][m] \in Nat
    OBVIOUS
  <2>5. QED BY <2>1, <2>3, <2>4
<1>2. CASE Probe(t)
  <2>1. PICK k \in RightRows : k = ppos[t] /\ First(Len(right), t) <= k
    <3>1. Len(right) \in Nat
      BY LenProperties
    <3>2. First(Len(right), t) <= ppos[t] /\ ppos[t] <= Last(Len(right), t)
      BY <1>2 DEF PosInv, Probe, Probing
    <3>3. /\ First(Len(right), t) \in Nat \ {0}
          /\ Last(Len(right), t) \in Nat /\ Last(Len(right), t) <= Len(right)
      BY <3>1, ChunkBounds
    <3>4. ppos[t] \in RightRows
      BY <3>1, <3>2, <3>3 DEF RightRows
    <3>5. QED BY <3>2, <3>4
  <2>2. /\ ppc[t] = "loop" /\ UNCHANGED <<left, right, mpc, ppc>>
        /\ ppos' = [ppos EXCEPT ![t] = k + 1]
        /\ result' = [result EXCEPT ![t] = [m \in Pairs |-> result[t][m] + Found(m, k)]]
    BY <1>2, <2>1 DEF Probe, Probing
  <2>3. \A u \in Slots : bpc[u] = "done"
    BY <2>2 DEF PhaseInv
  <2>4. \A u \in Slots, m \in Pairs : result[u][m] \in Nat
    OBVIOUS
  <2>5. ASSUME NEW u \in Slots \ {t}, NEW m \in Pairs
        PROVE  (Probed(u, m[2])' <=> Probed(u, m[2])) /\ result'[u][m] = result[u][m]
    <3>1. result'[u] = result[u] /\ ppos'[u] = ppos[u]
      BY <2>2
    <3>2. QED BY <2>2, <3>1 DEF Probed
  <2>6. ASSUME NEW m \in Pairs
        PROVE  /\ Probed(t, m[2])' <=> Probed(t, m[2]) \/ m[2] = k
               /\ ~ (Probed(t, m[2]) /\ m[2] = k)
               /\ result'[t][m] = result[t][m] + IF m \in Matches /\ m[2] = k THEN 1 ELSE 0
    <3>1. result'[t][m] = result[t][m] + Found(m, k)
      BY <2>2
    <3>2. Found(m, k) = IF m \in Matches /\ m[2] = k THEN 1 ELSE 0
      BY <2>3, FoundOnce
    <3>3. m[2] \in Nat /\ k \in Nat /\ ppos[t] = k /\ ppos'[t] = k + 1
      BY <2>1, <2>2 DEF Pairs, RightRows
    <3>4. m[2] < k + 1 <=> m[2] < k \/ m[2] = k
      BY <3>3
    <3>5. Probed(t, m[2])' <=> Probed(t, m[2]) \/ m[2] = k
      BY <2>1, <2>2, <3>3, <3>4 DEF Probed
    <3>6. ~ (Probed(t, m[2]) /\ m[2] = k)
      BY <3>3 DEF Probed
    <3>7. QED BY <3>1, <3>2, <3>5, <3>6
  <2>7. QED BY <2>2, <2>4, <2>5, <2>6
<1>3. QED BY <1>1, <1>2 DEF Prober

LEMMA ProberResult ==
  ASSUME ControlInv, ContentInv, ResultInv, NEW t \in Slots, Prober(t)
  PROVE  ResultInv'
<1>1. Pairs' = Pairs /\ Matches' = Matches
  BY ProbeAdds DEF Pairs, Matches, LeftRows, RightRows
<1>2. QED BY <1>1, ProbeAdds DEF ResultInv

--------------------------------------------------------------------------------
(* The inductive invariant. *)

\* execute() does not change the relations it was called with.
InputInv == \E i \in Inputs : left = i.left /\ right = i.right

IInv == ControlInv /\ InputInv /\ ContentInv /\ ResultInv

LEMMA IInvInit == Init => IInv
BY ControlInit, ContentInit, ResultInit DEF IInv, InputInv, Init

LEMMA BuilderContent ==
  ASSUME ControlInv, InputInv, ContentInv, NEW t \in Slots, Builder(t)
  PROVE  ContentInv'
BY LoopContent, StoreContent, IncrementContent DEF Builder, InputInv

LEMMA IInvStutters ==
  ASSUME IInv, UNCHANGED vars
  PROVE  IInv'
<1> USE DEF IInv, input, mainVars, buildVars, probeVars
<1>1. UNCHANGED <<left, right, mpc, started, bpc, bpos, ppc, ppos, latch, table, result>>
  BY DEF vars
<1>2. ControlInv'
  BY <1>1 DEF ControlInv, TypeOK, PhaseInv, PosInv, LatchInv, Accessing, Bucket, Index,
              Pairs, LeftRows, RightRows
<1>3. InputInv' /\ ResultInv'
  BY <1>1, ResultFrame DEF InputInv, Probed
<1>4. ContentInv'
  <2>1. \A u \in Slots : InsertedBy(u)' = InsertedBy(u)
    BY <1>1 DEF InsertedBy, LeftRows
  <2>2. Unsettled' = Unsettled
    BY <1>1 DEF Unsettled, Bucket, Index
  <2>3. QED BY <1>1, <2>1, <2>2, ContentFrame
<1>5. QED BY <1>2, <1>3, <1>4

LEMMA IInvNext ==
  ASSUME IInv, Next
  PROVE  IInv'
<1> USE DEF IInv, input, mainVars, buildVars, probeVars
<1>1. CASE MainStep
  <2>1. left' = left /\ right' = right
    BY <1>1 DEF MainStep, Call, StartBuilder, JoinBuilders, StartProber, JoinProbers
  <2>2. InputInv'
    BY <2>1 DEF InputInv
  <2>3. ResultInv'
    BY <1>1, MainProbes, ResultFrame
  <2>4. QED BY <1>1, <2>2, <2>3, MainControl, MainContent
<1>2. ASSUME NEW t \in Slots, Builder(t)
      PROVE  IInv'
  <2>1. UNCHANGED <<left, right, ppc, ppos, result>>
    BY <1>2 DEF Builder, Lock, Store, Increment, Unlock, BuildEnd
  <2>2. InputInv'
    BY <2>1 DEF InputInv
  <2>3. ResultInv'
    BY <2>1, ResultFrame DEF Probed
  <2>4. QED BY <1>2, <2>2, <2>3, BuilderControl, BuilderContent
<1>3. ASSUME NEW t \in Slots, Prober(t)
      PROVE  IInv'
  <2>1. UNCHANGED <<left, right, bpc, bpos, table>>
    BY <1>3 DEF Prober, Probe, ProbeEnd
  <2>2. InputInv'
    BY <2>1 DEF InputInv
  <2>3. ContentInv'
    <3>1. \A u \in Slots : InsertedBy(u)' = InsertedBy(u)
      BY <2>1 DEF InsertedBy, LeftRows
    <3>2. Unsettled' = Unsettled
      BY <2>1 DEF Unsettled, Bucket, Index
    <3>3. QED BY <2>1, <3>1, <3>2, ContentFrame
  <2>4. QED BY <1>3, <2>2, <2>3, ProberControl, ProberResult
<1>4. CASE UNCHANGED vars
  BY <1>4, IInvStutters
<1>5. QED BY <1>1, <1>2, <1>3, <1>4 DEF Next, Terminated

LEMMA Invariance == Spec => []IInv
<1>1. Init => IInv
  BY IInvInit
<1>2. IInv /\ [Next]_vars => IInv'
  BY IInvNext, IInvStutters
<1>3. QED BY <1>1, <1>2, PTL DEF Spec

--------------------------------------------------------------------------------
(* What follows from it. *)

\* The relations, the threads' positions, the buckets and the results have their types
\* in every state: no position and no counter leaves the numbers, every latch is free
\* or held by a thread, and every bucket's list is a list of rows.
THEOREM TypeCorrect == Spec => []TypeOK
<1>1. IInv => TypeOK
  BY DEF IInv, ControlInv
<1>2. QED BY <1>1, Invariance, PTL

\* No two builders are inside the same bucket, and no prober runs while a builder does
\* (lines 41-43 and 66-88), for every number of threads, buckets and rows.
THEOREM BucketsAreRaceFree == Spec => []BucketRaceFree
<1>1. ASSUME IInv
      PROVE  BucketRaceFree
  <2>1. \A t, u \in Slots : Accessing(t) /\ Accessing(u) /\ Bucket(t) = Bucket(u) => t = u
    BY <1>1 DEF IInv, ControlInv, LatchInv
  <2>2. (\E t \in Slots : ppc[t] = "loop") => \A t \in Slots : bpc[t] = "done"
    BY <1>1 DEF IInv, ControlInv, TypeOK, PhaseInv
  <2>3. QED BY <2>1, <2>2 DEF BucketRaceFree
<1>2. QED BY <1>1, Invariance, PTL

\* Unless a builder is about to count what it has stored, a bucket holds exactly the
\* rows inserted so far that hash to it, each of them once (lines 70-88): no tuple is
\* overwritten and no walk along the overflow list meets its end too early.
THEOREM BucketsAreComplete == Spec => []BucketsComplete
<1>1. ASSUME IInv
      PROVE  BucketsComplete
  <2>1. SUFFICES ASSUME NEW b \in Buckets \ Unsettled
                 PROVE  Holds(table[b], table[b].count, RowsOf(b))
    BY DEF BucketsComplete, Holds, Nodes
  <2>2. Filled(b) = table[b].count
    BY <1>1 DEF IInv, ControlInv, TypeOK, Filled
  <2>3. QED BY <1>1, <2>2 DEF IInv, ContentInv
<1>2. QED BY <1>1, Invariance, PTL

\* A row of the right relation is in the chunk of some prober, and in that of no other.
LEMMA ProbedByOne ==
  ASSUME ControlInv, NEW r \in RightRows, NEW t \in Slots, NEW u \in Slots,
         Probed(t, r), First(Len(right), u) <= r, r <= Last(Len(right), u)
  PROVE  t = u
<1>1. Len(right) \in Nat /\ r \in Nat /\ ppos[t] \in Nat
  BY LenProperties DEF ControlInv, TypeOK, RightRows
<1>2. Last(Len(right), t) \in Nat
  BY <1>1, ChunkBounds
<1>3. First(Len(right), t) <= r /\ r <= Last(Len(right), t)
  BY <1>1, <1>2 DEF Probed, ControlInv, PosInv
<1>4. QED BY <1>1, <1>3, OneChunk

LEMMA ProbedByAll ==
  ASSUME ControlInv, \A t \in Slots : ppc[t] = "done", NEW r \in RightRows
  PROVE  \E t \in Slots : Probed(t, r) /\ \A u \in Slots \ {t} : ~ Probed(u, r)
<1>1. Len(right) \in Nat /\ r \in 1 .. Len(right) /\ r \in Nat
  BY LenProperties DEF ControlInv, TypeOK, RightRows
<1>2. PICK t \in Slots : First(Len(right), t) <= r /\ r <= Last(Len(right), t)
  BY <1>1, ChunksCover
<1>3. Last(Len(right), t) \in Nat /\ ppos[t] = Last(Len(right), t) + 1
  BY <1>1, ChunkBounds DEF ControlInv, PosInv
<1>4. Probed(t, r)
  BY <1>1, <1>2, <1>3 DEF Probed
<1>5. \A u \in Slots : Probed(u, r) => u = t
  BY <1>2, ProbedByOne
<1>6. QED BY <1>4, <1>5

\* A relation without rows has no pairs to offer.
LEMMA NoPairs ==
  ASSUME left = <<>> \/ right = <<>>
  PROVE  Pairs = {}
<1>1. LeftRows = {} \/ RightRows = {}
  BY EmptySeq DEF LeftRows, RightRows
<1>2. QED BY <1>1 DEF Pairs

\* When execute() returns, every pair of rows with the same key is in the results
\* exactly once and no other pair is (lines 22-58 and 92-117), whatever the relations,
\* the hash function, the table's size and the number of threads.
THEOREM ResultIsExact == Spec => []ResultExact
<1>1. ASSUME IInv
      PROVE  ResultExact
  <2>1. SUFFICES ASSUME mpc = "returned", Pairs # {}
                 PROVE  /\ \A m \in Matches : \E t \in Slots :
                             /\ result[t][m] = 1
                             /\ \A u \in Slots \ {t} : result[u][m] = 0
                        /\ \A m \in Pairs \ Matches, t \in Slots : result[t][m] = 0
    BY DEF ResultExact, Matches
  <2>2. \A t \in Slots : ppc[t] = "done"
    BY <1>1, <2>1, NoPairs DEF IInv, ControlInv, PhaseInv
  <2>3. \A m \in Pairs \ Matches, t \in Slots : result[t][m] = 0
    BY <1>1 DEF IInv, ResultInv
  <2>4. ASSUME NEW m \in Matches
        PROVE  \E t \in Slots : /\ result[t][m] = 1
                                /\ \A u \in Slots \ {t} : result[u][m] = 0
    <3>1. m \in Pairs /\ m[2] \in RightRows
      BY DEF Matches, Pairs
    <3>2. PICK t \in Slots : Probed(t, m[2]) /\ \A u \in Slots \ {t} : ~ Probed(u, m[2])
      BY <1>1, <2>2, <3>1, ProbedByAll DEF IInv
    <3>3. QED BY <1>1, <3>1, <3>2 DEF IInv, ResultInv
  <2>5. QED BY <2>3, <2>4
<1>2. QED BY <1>1, Invariance, PTL

--------------------------------------------------------------------------------
(* The abstract join. *)

\* The rows of the right relation that have partners, and those of them whose partners
\* are in a result.
ToJoin == RowsWith(Matches)
Joined == RowsWith(Matches) \ RowsWith({m \in Matches : \A t \in Slots : result[t][m] = 0})

LEMMA JoinedRows ==
  ASSUME ResultInv
  PROVE  Joined = {r \in ToJoin : \E t \in Slots : Probed(t, r)}
<1>1. \A m \in Matches : (\A t \in Slots : result[t][m] = 0)
                         <=> ~ \E t \in Slots : Probed(t, m[2])
  BY DEF ResultInv, Matches
<1>2. QED BY <1>1 DEF Joined, ToJoin, RowsWith

LEMMA ToJoinRows == ToJoin \subseteq RightRows
BY DEF ToJoin, RowsWith, Matches, Pairs

LEMMA InitRefines == Init => Promise!Init
<1> SUFFICES ASSUME Init
             PROVE  Promise!Init
  OBVIOUS
<1>1. Joined = {}
  <2>1. ResultInv
    BY ResultInit
  <2>2. \A t \in Slots : \A r : ~ Probed(t, r)
    BY DEF Init, Probed
  <2>3. QED BY <2>1, <2>2, JoinedRows
<1>2. ToJoin \subseteq UNION {DOMAIN i.right : i \in Inputs}
  <2>1. PICK i \in Inputs : right = i.right
    BY DEF Init
  <2>2. RightRows = DOMAIN i.right
    BY <2>1, NopAssumption, LenProperties DEF RightRows
  <2>3. QED BY <2>2, ToJoinRows
<1>3. QED BY <1>1, <1>2 DEF Init, Promise!Init, ToJoin, Joined

\* Probing with a row joins it, and it was not joined before.
LEMMA ProbeJoins ==
  ASSUME IInv, ResultInv', NEW t \in Slots, Probe(t)
  PROVE  \/ UNCHANGED <<ToJoin, Joined, mpc>>
         \/ \E p \in UNION {DOMAIN i.right : i \in Inputs} : Promise!Join(p)
<1> USE DEF IInv, ControlInv, TypeOK, input, mainVars, buildVars
<1>1. Len(right) \in Nat
  BY LenProperties
<1>2. First(Len(right), t) <= ppos[t] /\ ppos[t] <= Last(Len(right), t) /\ ppc[t] = "loop"
  BY DEF PosInv, Probe, Probing
<1>3. /\ First(Len(right), t) \in Nat \ {0}
      /\ Last(Len(right), t) \in Nat /\ Last(Len(right), t) <= Len(right)
  BY <1>1, ChunkBounds
<1>4. PICK k \in RightRows : k = ppos[t]
  BY <1>1, <1>2, <1>3 DEF RightRows
<1>5. /\ UNCHANGED <<left, right, mpc, ppc>> /\ mpc # "returned"
      /\ ppos' = [ppos EXCEPT ![t] = k + 1]
  BY <1>2, <1>4 DEF Probe, Probing, PhaseInv
<1>6. ToJoin' = ToJoin
  BY <1>5 DEF ToJoin, RowsWith, Matches, Pairs, LeftRows, RightRows
<1>7. \A u \in Slots : ~ Probed(u, k)
  <2>1. ~ Probed(t, k)
    BY <1>1, <1>4 DEF Probed, RightRows
  <2>2. QED BY <1>2, <1>4, <2>1, ProbedByOne
<1>8. \A u \in Slots, r \in RightRows : Probed(u, r)' <=> Probed(u, r) \/ (u = t /\ r = k)
  <2>1. \A u \in Slots \ {t} : ppos'[u] = ppos[u]
    BY <1>5
  <2>2. \A u \in Slots \ {t}, r \in RightRows : Probed(u, r)' <=> Probed(u, r)
    BY <1>5, <2>1 DEF Probed
  <2>3. ASSUME NEW r \in RightRows
        PROVE  Probed(t, r)' <=> Probed(t, r) \/ r = k
    <3>1. r \in Nat /\ k \in Nat /\ ppos[t] = k /\ ppos'[t] = k + 1
      BY <1>4, <1>5 DEF RightRows
    <3>2. r < k + 1 <=> r < k \/ r = k
      BY <3>1
    <3>3. QED BY <1>2, <1>4, <1>5, <3>1, <3>2 DEF Probed
  <2>4. QED BY <2>2, <2>3
<1>9. Joined = {r \in ToJoin : \E u \in Slots : Probed(u, r)}
  BY JoinedRows
<1>10. Joined' = {r \in ToJoin : \E u \in Slots : Probed(u, r)'}
  <2>1. Matches' \subseteq Pairs'
    BY DEF Matches
  <2>2. \A u \in Slots, m \in Pairs' :
          result'[u][m] = IF m \in Matches' /\ Probed(u, m[2])' THEN 1 ELSE 0
    BY DEF ResultInv
  <2>3. \A m \in Matches', u \in Slots : result'[u][m] = 0 <=> ~ Probed(u, m[2])'
    BY <2>1, <2>2
  <2>4. Joined' = RowsWith(Matches)' \ {m[2] : m \in {x \in Matches' :
                                           \A u \in Slots : result'[u][x] = 0}}
    BY DEF Joined, RowsWith
  <2>5. Joined' = {r \in ToJoin' : \E u \in Slots : Probed(u, r)'}
    BY <2>3, <2>4 DEF ToJoin, RowsWith
  <2>6. QED BY <1>6, <2>5
<1>11. CASE k \in ToJoin
  <2>1. Joined' = Joined \cup {k} /\ k \notin Joined
    BY <1>7, <1>8, <1>9, <1>10, <1>11, ToJoinRows
  <2>2. k \in UNION {DOMAIN i.right : i \in Inputs}
    <3>1. PICK i \in Inputs : right = i.right
      BY DEF InputInv
    <3>2. k \in DOMAIN i.right
      BY <3>1, LenProperties DEF RightRows
    <3>3. QED BY <3>2
  <2>3. Promise!Join(k)
    BY <1>5, <1>6, <1>11, <2>1 DEF Promise!Join, ToJoin, Joined
  <2>4. QED BY <2>2, <2>3
<1>12. CASE k \notin ToJoin
  <2>1. Joined' = Joined
    BY <1>8, <1>9, <1>10, <1>12, ToJoinRows
  <2>2. QED BY <1>5, <1>6, <2>1
<1>13. QED BY <1>11, <1>12

\* execute() returns when every row that has partners is joined.
LEMMA ReturnRefines ==
  ASSUME IInv, UNCHANGED <<left, right, result>>,
         mpc # "returned", mpc' = "returned",
         \/ left = <<>> \/ right = <<>>
         \/ \A t \in Slots : ppc[t] = "done"
  PROVE  Promise!Return
<1>1. ToJoin' = ToJoin /\ Joined' = Joined
  BY DEF ToJoin, Joined, RowsWith, Matches, Pairs, LeftRows, RightRows
<1>2. Joined = {r \in ToJoin : \E t \in Slots : Probed(t, r)}
  BY JoinedRows DEF IInv
<1>3. Joined = ToJoin
  <2>1. CASE left = <<>> \/ right = <<>>
    BY <1>2, <2>1, NoPairs DEF ToJoin, RowsWith, Matches
  <2>2. CASE \A t \in Slots : ppc[t] = "done"
    BY <1>2, <2>2, ProbedByAll, ToJoinRows DEF IInv
  <2>3. QED BY <2>1, <2>2
<1>4. QED BY <1>1, <1>3 DEF Promise!Return, ToJoin, Joined

LEMMA NextRefines ==
  ASSUME IInv, IInv', [Next]_vars
  PROVE  [Promise!Next]_(Promise!vars)
<1> USE DEF input, mainVars, buildVars, probeVars
<1>1. ASSUME UNCHANGED <<left, right, result>>,
             mpc' = mpc \/ (mpc # "returned" /\ mpc' # "returned")
      PROVE  UNCHANGED Promise!vars
  <2>1. ToJoin' = ToJoin /\ Joined' = Joined
    BY <1>1 DEF ToJoin, Joined, RowsWith, Matches, Pairs, LeftRows, RightRows
  <2>2. (mpc = "returned")' = (mpc = "returned")
    BY <1>1
  <2>3. QED BY <2>1, <2>2 DEF Promise!vars, ToJoin, Joined
<1>2. CASE Call
  <2>1. CASE left = <<>> \/ right = <<>>
    <3>1. Promise!Return
      BY <1>2, <2>1, ReturnRefines DEF Call
    <3>2. QED BY <3>1 DEF Promise!Next
  <2>2. CASE ~ (left = <<>> \/ right = <<>>)
    BY <1>1, <1>2, <2>2 DEF Call
  <2>3. QED BY <2>1, <2>2
<1>3. CASE StartBuilder \/ JoinBuilders \/ StartProber
  BY <1>1, <1>3 DEF StartBuilder, JoinBuilders, StartProber
<1>4. CASE JoinProbers
  <2>1. Promise!Return
    BY <1>4, ReturnRefines DEF JoinProbers
  <2>2. QED BY <2>1 DEF Promise!Next
<1>5. ASSUME NEW t \in Slots, Builder(t)
      PROVE  UNCHANGED Promise!vars
  BY <1>1, <1>5 DEF Builder, Lock, Store, Increment, Unlock, BuildEnd
<1>6. ASSUME NEW t \in Slots, Probe(t)
      PROVE  [Promise!Next]_(Promise!vars)
  <2>1. CASE UNCHANGED <<ToJoin, Joined, mpc>>
    BY <2>1 DEF Promise!vars, ToJoin, Joined
  <2>2. CASE \E p \in UNION {DOMAIN i.right : i \in Inputs} : Promise!Join(p)
    BY <2>2 DEF Promise!Next
  <2>3. QED BY <1>6, <2>1, <2>2, ProbeJoins DEF IInv
<1>7. ASSUME NEW t \in Slots, ProbeEnd(t)
      PROVE  UNCHANGED Promise!vars
  BY <1>1, <1>7 DEF ProbeEnd
<1>8. CASE UNCHANGED vars
  BY <1>1, <1>8 DEF vars
<1>9. QED
  BY <1>2, <1>3, <1>4, <1>5, <1>6, <1>7, <1>8
     DEF Next, MainStep, Builder, Prober, Terminated

\* The threads of the join implement the partitioned join: every row of the right
\* relation with partners is joined once, and execute() returns when all are.
THEOREM JoinImplementsPartitionedJoin == Spec => ImplementsPartitionedJoin
BY InitRefines, NextRefines, Invariance, PTL DEF Spec, ImplementsPartitionedJoin, Promise!Spec

--------------------------------------------------------------------------------
(* The calls of the object: the inductive invariant. *)

\* Row r of the right relation is in the chunk of thread t.
Mine(t, r) == r \in First(Len(right), t) .. Last(Len(right), t)

\* The vectors hold the matches of the calls that have returned, and those that the
\* current call has found so far.
CallsInv ==
  \A t \in Slots, m \in Pairs :
    result[t][m] =
      IF m \in Matches
      THEN (IF Mine(t, m[2]) THEN due ELSE 0)
           + (IF mpc # "returned" /\ Probed(t, m[2]) THEN 1 ELSE 0)
      ELSE 0

BuiltInv == due \in Nat /\ (due > 0 \/ mpc \in {"build", "probe"} => built)

RunInv    == ControlInv /\ InputInv /\ ContentInv
ObjectInv == RunInv /\ CallsInv /\ BuiltInv

\* A call of execute() that has not begun yet.
Fresh ==
  /\ TypeOK
  /\ mpc = "called" /\ started = 0
  /\ \A t \in Slots : bpc[t] = "none" /\ ppc[t] = "none"
  /\ \A b \in Buckets : table[b] = EmptyBucket

LEMMA FreshRun == Fresh => ControlInv /\ ContentInv
<1> SUFFICES ASSUME Fresh
             PROVE  ControlInv /\ ContentInv
  OBVIOUS
<1>1. PhaseInv /\ PosInv /\ LatchInv
  BY DEF Fresh, PhaseInv, PosInv, LatchInv, Accessing
<1>2. ASSUME NEW b \in Buckets
      PROVE  Holds(table[b], Filled(b), RowsOf(b))
  <2>1. Unsettled = {} /\ RowsOf(b) = {}
    BY DEF Fresh, Unsettled, RowsOf, InsertedBy
  <2>2. table[b].count = 0 /\ table[b].next = <<>>
    BY DEF Fresh, EmptyBucket
  <2>3. Filled(b) = 0
    BY <2>1, <2>2 DEF Filled
  <2>4. QED BY <2>1, <2>2, <2>3, EmptySeq DEF Nodes, Holds
<1>3. QED BY <1>1, <1>2 DEF Fresh, ControlInv, ContentInv

LEMMA ObjectInvInit == ObjectInit => ObjectInv
<1> SUFFICES ASSUME ObjectInit
             PROVE  ObjectInv
  OBVIOUS
<1>1. RunInv
  BY IInvInit DEF ObjectInit, IInv, RunInv
<1>2. /\ mpc = "called" /\ due = 0
      /\ \A t \in Slots, m \in Pairs : result[t][m] = 0 /\ ppc[t] = "none"
  BY DEF ObjectInit, Init
<1>3. QED BY <1>1, <1>2 DEF ObjectInv, CallsInv, BuiltInv, Probed

--------------------------------------------------------------------------------
(* The calls. *)

\* Taking the vectors out, or replacing them, does not disturb the table.
LEMMA ReplaceKeeps ==
  ASSUME ObjectInv, Replace, built' = built \/ built' = FALSE
  PROVE  ObjectInv'
<1> USE DEF input, mainVars, buildVars
<1>1. /\ UNCHANGED <<left, right, mpc, started, bpc, bpos, ppc, ppos, latch, table>>
      /\ result' = NoMatches /\ due' = 0 /\ mpc \in {"called", "returned"}
  BY DEF Replace, MayCall
<1>2. Pairs' = Pairs
  BY <1>1 DEF Pairs, LeftRows, RightRows
<1>3. ControlInv'
  <2>1. result' \in [Slots -> [Pairs' -> Nat]]
    BY <1>1, <1>2 DEF NoMatches
  <2>2. TypeOK'
    BY <1>1, <2>1 DEF ObjectInv, RunInv, ControlInv, TypeOK
  <2>3. QED BY <1>1, <2>2
            DEF ObjectInv, RunInv, ControlInv, PhaseInv, PosInv, LatchInv, Accessing, Bucket,
                Index
<1>4. ContentInv'
  <2>1. /\ Unsettled' = Unsettled
        /\ \A t \in Slots : InsertedBy(t)' = InsertedBy(t)
    BY <1>1 DEF Unsettled, Bucket, Index, InsertedBy, LeftRows
  <2>2. QED BY <1>1, <2>1, ContentFrame DEF ObjectInv, RunInv
<1>5. InputInv'
  BY <1>1 DEF ObjectInv, RunInv, InputInv
<1>6. CallsInv'
  <2>1. \A t \in Slots, m \in Pairs : result'[t][m] = 0
    BY <1>1 DEF NoMatches
  <2>2. mpc' = "called" => \A t \in Slots : ppc'[t] = "none"
    BY <1>1 DEF ObjectInv, RunInv, ControlInv, PhaseInv
  <2>3. QED BY <1>1, <1>2, <2>1, <2>2 DEF CallsInv, Probed
<1>7. BuiltInv'
  BY <1>1 DEF BuiltInv
<1>8. QED BY <1>3, <1>4, <1>5, <1>6, <1>7 DEF ObjectInv, RunInv

\* The next call of execute() finds the vectors as the last one has left them.
LEMMA AgainKeeps ==
  ASSUME ObjectInv, Again
  PROVE  ObjectInv'
<1>1. /\ UNCHANGED <<left, right, result, built, due>>
      /\ mpc = "returned" /\ mpc' = "called" /\ started' = 0
      /\ bpc' = [t \in Slots |-> "none"] /\ bpos' = [t \in Slots |-> NoRow]
      /\ ppc' = [t \in Slots |-> "none"] /\ ppos' = [t \in Slots |-> NoRow]
      /\ latch' = [b \in Buckets |-> NoThread]
      /\ table' = [b \in Buckets |-> EmptyBucket]
  BY DEF Again, input
<1>2. Pairs' = Pairs /\ Matches' = Matches
  BY <1>1 DEF Pairs, Matches, LeftRows, RightRows
<1>3. Fresh'
  <2>1. EmptyBucket \in BucketType
    BY EmptySeq DEF EmptyBucket, BucketType, NoRow
  <2>2. TypeOK'
    BY <1>1, <1>2, <2>1, NopAssumption
       DEF ObjectInv, RunInv, ControlInv, TypeOK, BucketType, NoRow
  <2>3. QED BY <1>1, <2>2 DEF Fresh
<1>4. ControlInv' /\ ContentInv'
  BY <1>3, FreshRun, PTL
<1>5. InputInv'
  BY <1>1 DEF ObjectInv, RunInv, InputInv
<1>6. CallsInv'
  <2>1. \A t \in Slots, m \in Pairs : ~ Probed(t, m[2])' /\ Mine(t, m[2])' = Mine(t, m[2])
    BY <1>1 DEF Probed, Mine
  <2>2. QED BY <1>1, <1>2, <2>1 DEF ObjectInv, CallsInv
<1>7. BuiltInv'
  BY <1>1 DEF ObjectInv, BuiltInv
<1>8. QED BY <1>4, <1>5, <1>6, <1>7 DEF ObjectInv, RunInv

--------------------------------------------------------------------------------
(* A run of execute(). *)

\* Once the probers are done, a row has been probed with by the thread whose chunk it
\* is in.
LEMMA AllProbed ==
  ASSUME ControlInv, \A t \in Slots : ppc[t] = "done", NEW t \in Slots, NEW r \in RightRows
  PROVE  Probed(t, r) <=> Mine(t, r)
<1>1. Len(right) \in Nat /\ r \in Nat
  BY LenProperties DEF ControlInv, TypeOK, RightRows
<1>2. /\ First(Len(right), t) \in Nat /\ Last(Len(right), t) \in Nat
      /\ ppos[t] = Last(Len(right), t) + 1
  BY <1>1, ChunkBounds DEF ControlInv, PosInv
<1>3. QED BY <1>1, <1>2 DEF Probed, Mine

LEMMA ExecuteKeeps ==
  ASSUME ObjectInv, Execute
  PROVE  ObjectInv'
<1>1. /\ MainStep /\ ControlInv /\ ContentInv /\ InputInv
      /\ UNCHANGED <<left, right, result>>
      /\ \A t \in Slots, r \in RightRows : Probed(t, r)' <=> Probed(t, r)
  BY MainProbes DEF Execute, ObjectInv, RunInv
<1>2. RunInv'
  BY <1>1, MainControl, MainContent DEF RunInv, InputInv
<1>3. /\ Pairs' = Pairs /\ Matches' = Matches
      /\ \A t \in Slots : \A r : Mine(t, r)' = Mine(t, r)
      /\ \A m \in Pairs : m[2] \in RightRows
  BY <1>1 DEF Pairs, Matches, LeftRows, RightRows, Mine
<1>4. mpc \in {"called", "build", "probe"}
  BY <1>1 DEF MainStep, Call, StartBuilder, JoinBuilders, StartProber, JoinProbers
<1>5. CallsInv'
  <2>1. CASE mpc' # "returned"
    <3>1. due' = due
      BY <2>1 DEF Execute
    <3>2. QED BY <1>1, <1>3, <1>4, <2>1, <3>1 DEF ObjectInv, CallsInv
  <2>2. CASE Call /\ mpc' = "returned"
    <3>1. Pairs = {}
      BY <2>2, NoPairs DEF Call
    <3>2. QED BY <1>3, <3>1 DEF CallsInv
  <2>3. CASE JoinProbers
    <3>1. \A t \in Slots : ppc[t] = "done"
      BY <2>3 DEF JoinProbers
    <3>2. \A t \in Slots, r \in RightRows : Probed(t, r) <=> Mine(t, r)
      BY <1>1, <3>1, AllProbed
    <3>3. mpc' = "returned" /\ mpc # "returned" /\ due' = due + 1 /\ due \in Nat
      BY <2>3 DEF JoinProbers, Execute, ObjectInv, BuiltInv
    <3>4. QED BY <1>1, <1>3, <3>2, <3>3 DEF ObjectInv, CallsInv
  <2>4. QED BY <1>1, <2>1, <2>2, <2>3
            DEF MainStep, StartBuilder, JoinBuilders, StartProber
<1>6. BuiltInv'
  <2>1. built' = (built \/ mpc = "called")
    BY DEF Execute
  <2>2. due' \in {due, due + 1} /\ due' \in Nat
    BY DEF Execute, ObjectInv, BuiltInv
  <2>3. built'
    BY <1>4, <2>1 DEF ObjectInv, BuiltInv
  <2>4. QED BY <2>2, <2>3 DEF BuiltInv
<1>7. QED BY <1>2, <1>5, <1>6 DEF ObjectInv

LEMMA ThreadsKeep ==
  ASSUME ObjectInv, NEW t \in Slots, Builder(t) \/ Prober(t), UNCHANGED objectVars
  PROVE  ObjectInv'
<1>1. ControlInv /\ InputInv /\ ContentInv /\ UNCHANGED <<built, due>>
  BY DEF ObjectInv, RunInv, objectVars
<1>2. CASE Builder(t)
  <2>1. UNCHANGED <<left, right, mpc, ppc, ppos, result>>
    BY <1>2 DEF Builder, Lock, Store, Increment, Unlock, BuildEnd, input, mainVars, probeVars
  <2>2. RunInv'
    BY <1>1, <1>2, <2>1, BuilderControl, BuilderContent DEF RunInv, InputInv
  <2>3. /\ Pairs' = Pairs /\ Matches' = Matches
        /\ \A u \in Slots : \A r : /\ Mine(u, r)' = Mine(u, r)
                                   /\ Probed(u, r)' <=> Probed(u, r)
    BY <2>1 DEF Pairs, Matches, LeftRows, RightRows, Mine, Probed
  <2>4. CallsInv' /\ BuiltInv'
    BY <1>1, <2>1, <2>3 DEF ObjectInv, CallsInv, BuiltInv
  <2>5. QED BY <2>2, <2>4 DEF ObjectInv
<1>3. CASE Prober(t)
  <2>1. /\ UNCHANGED <<left, right, mpc>>
        /\ \A u \in Slots, m \in Pairs :
             /\ Probed(u, m[2]) => Probed(u, m[2])'
             /\ result'[u][m] = result[u][m] +
                  IF m \in Matches /\ Probed(u, m[2])' /\ ~ Probed(u, m[2]) THEN 1 ELSE 0
    BY <1>1, <1>3, ProbeAdds
  <2>2. RunInv'
    <3>1. UNCHANGED <<left, bpc, bpos, table>>
      BY <1>3 DEF Prober, Probe, ProbeEnd, input, buildVars
    <3>2. /\ Unsettled' = Unsettled
          /\ \A u \in Slots : InsertedBy(u)' = InsertedBy(u)
      BY <3>1 DEF Unsettled, Bucket, Index, InsertedBy, LeftRows
    <3>3. ContentInv'
      BY <1>1, <3>1, <3>2, ContentFrame
    <3>4. QED BY <1>1, <1>3, <2>1, <3>3, ProberControl DEF RunInv, InputInv
  <2>3. /\ Pairs' = Pairs /\ Matches' = Matches
        /\ \A u \in Slots : \A r : Mine(u, r)' = Mine(u, r)
    BY <2>1 DEF Pairs, Matches, LeftRows, RightRows, Mine
  <2>4. mpc # "returned"
    BY <1>1, <1>3 DEF ControlInv, PhaseInv, Prober, Probe, Probing, ProbeEnd
  <2>5. CallsInv'
    BY <1>1, <2>1, <2>3, <2>4 DEF ObjectInv, CallsInv, BuiltInv
  <2>6. BuiltInv'
    BY <1>1, <2>1 DEF ObjectInv, BuiltInv
  <2>7. QED BY <2>2, <2>5, <2>6 DEF ObjectInv
<1>4. QED BY <1>2, <1>3

LEMMA ObjectStutters ==
  ASSUME ObjectInv, UNCHANGED allVars
  PROVE  ObjectInv'
<1>1. UNCHANGED vars /\ UNCHANGED <<built, due>>
  BY DEF allVars, objectVars
<1>2. UNCHANGED <<left, right, mpc, started, bpc, bpos, ppc, ppos, latch, table, result>>
  BY <1>1 DEF vars, input, mainVars, buildVars, probeVars
<1>3. ControlInv' /\ InputInv'
  BY <1>2 DEF ObjectInv, RunInv, InputInv, ControlInv, TypeOK, PhaseInv, PosInv, LatchInv,
              Accessing, Bucket, Index, Pairs, LeftRows, RightRows
<1>4. ContentInv'
  <2>1. /\ Unsettled' = Unsettled
        /\ \A u \in Slots : InsertedBy(u)' = InsertedBy(u)
    BY <1>2 DEF Unsettled, Bucket, Index, InsertedBy, LeftRows
  <2>2. QED BY <1>2, <2>1, ContentFrame DEF ObjectInv, RunInv
<1>5. CallsInv' /\ BuiltInv'
  BY <1>1, <1>2 DEF ObjectInv, CallsInv, BuiltInv, Pairs, Matches, LeftRows, RightRows, Mine,
                    Probed
<1>6. QED BY <1>3, <1>4, <1>5 DEF ObjectInv, RunInv

LEMMA ObjectInvariant == ObjectSpec => []ObjectInv
<1>1. ObjectInv /\ [ObjectNext]_allVars => ObjectInv'
  BY ExecuteKeeps, AgainKeeps, ReplaceKeeps, ThreadsKeep, ObjectStutters
     DEF ObjectNext, Set, Get, ObjectTerminated
<1>2. QED BY <1>1, ObjectInvInit, PTL DEF ObjectSpec

--------------------------------------------------------------------------------
(* The theorem. *)

\* Whatever calls of execute, get and set are made and in whatever order, the vectors
\* hold every match of every call of execute() that has returned since they were
\* replaced, each in the vector of the thread whose chunk it is from, and nothing else;
\* and get() is not refused when there is something to get.
THEOREM CallsAreExact == ObjectSpec => []CallsExact
<1>1. ObjectInv => CallsExact
  BY DEF ObjectInv, BuiltInv, CallsInv, CallsExact, Mine
<1>2. QED BY <1>1, ObjectInvariant, PTL

\* And in each of the calls, not only in the first, the latches keep the builders apart
\* and the buckets are complete.
THEOREM EveryCallIsSafe == ObjectSpec => [](BucketRaceFree /\ BucketsComplete)
<1>1. ASSUME ObjectInv
      PROVE  BucketRaceFree /\ BucketsComplete
  <2>1. BucketRaceFree
    BY <1>1 DEF ObjectInv, RunInv, ControlInv, TypeOK, PhaseInv, LatchInv, BucketRaceFree
  <2>2. \A b \in Buckets \ Unsettled : Filled(b) = table[b].count
    BY <1>1 DEF ObjectInv, RunInv, ControlInv, TypeOK, Filled
  <2>3. \A b \in Buckets \ Unsettled : Holds(table[b], table[b].count, RowsOf(b))
    BY <1>1, <2>2 DEF ObjectInv, RunInv, ContentInv
  <2>4. BucketsComplete
    BY <2>3 DEF BucketsComplete, Holds, Nodes
  <2>5. QED BY <2>1, <2>4
<1>2. QED BY <1>1, ObjectInvariant, PTL
================================================================================
