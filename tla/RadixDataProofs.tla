---------------------------- MODULE RadixDataProofs ----------------------------
(***************************************************************************)
(* Proofs about what the tasks of the multi-threaded radix join do to the  *)
(* tuples, for every relation, hash function, number of bits, passes and   *)
(* threads: every step preserves DataInv of RadixDataLemmas.tla, and so    *)
(* regions are exact, no two tasks share a place, and the result is exact. *)
(***************************************************************************)
EXTENDS RadixDataLemmas

\* The arrays keep their types.
LEMMA TypesKept ==
  ASSUME TypeInv, UNCHANGED <<args, mem>>
  PROVE  /\ ArgsInv'
         /\ mem' = [a \in Arrays |-> [s \in Sides |-> mem'[a][s]]]
         /\ \A a \in Arrays, s \in Sides : Typed(mem[a][s], s)'
         /\ Pairs' = Pairs
<1>1. ArgsInv' /\ Pairs' = Pairs
  BY Frame DEF TypeInv, Pairs
<1>2. mem = [a \in Arrays |-> [s \in Sides |-> mem[a][s]]]
  BY DEF TypeInv
<1>3. \A a \in Arrays, s \in Sides : Typed(mem[a][s], s)
  BY DEF TypeInv
<1>4. \A a \in Arrays, s \in Sides : Typed(mem'[a][s], s)
  BY <1>3
<1>5. \A a \in Arrays, s \in Sides : Typed(mem[a][s], s)'
  BY <1>4, Frame
<1>6. QED BY <1>1, <1>2, <1>5

\* The histograms, when nothing they are about changes.
LEMMA HistogramsKept ==
  ASSUME UNCHANGED <<args, hist, mpc>>, SetUp => UNCHANGED mem["input"], HistInv,
         mpc = "partition" =>
           \A t \in active' \cup finished' :
             (t \in active' => at'[t].pos = 1) =>
               t \in active \cup finished /\ (t \in active => at[t].pos = 1)
  PROVE  HistInv'
<1>1. ASSUME mpc = "partition"
      PROVE  \A k \in Slots : \A t \in active' \cup finished' :
               t = Chunk("partition", k)' /\ (t \in active' => at'[t].pos = 1) =>
                 hist'[k] = Histogram(t)'
  <2> SUFFICES ASSUME NEW k \in Slots, NEW t \in active' \cup finished',
                      t = Chunk("partition", k)', t \in active' => at'[t].pos = 1
               PROVE  hist'[k] = Histogram(t)'
    OBVIOUS
  <2>1. t \in active \cup finished /\ (t \in active => at[t].pos = 1)
    BY <1>1
  <2>2. t = Chunk("partition", k)
    BY ChunkFrame
  <2>3. hist[k] = Histogram(t)
    BY <1>1, <2>1, <2>2 DEF HistInv
  <2>4. t.from = "input" /\ SetUp
    BY <1>1, <2>2, ChunkForm DEF SetUp
  <2>5. UNCHANGED mem[t.from]
    BY <2>4
  <2>6. Histogram(t)' = Histogram(t)
    BY <2>5, HistogramFrame
  <2>7. QED BY <2>3, <2>6
<1>2. ASSUME mpc = "scatter"
      PROVE  HistKnown'
  <2>1. ASSUME NEW k \in Slots
        PROVE  \A t : t = Chunk("partition", k)' => hist'[k] = Histogram(t)'
    <3>1. hist[k] = Histogram(Chunk("partition", k))
      BY <1>2 DEF HistInv, HistKnown
    <3>2. ASSUME NEW t, t = Chunk("partition", k)
          PROVE  Histogram(t)' = Histogram(t)
      <4>1. UNCHANGED mem[t.from]
        BY <1>2, <3>2, ChunkForm DEF SetUp
      <4>2. QED BY <4>1, HistogramFrame
    <3>3. Chunk("partition", k)' = Chunk("partition", k)
      BY ChunkFrame
    <3>4. QED BY <3>1, <3>2, <3>3
  <2>2. QED BY <2>1 DEF HistKnown
<1>3. ASSUME mpc = "leaves"
      PROVE  \A s \in Sides, q \in Parts : /\ GlobalSum(s)'[q] = Offset(s, <<q>>)'
                                           /\ Before(threads, s)'[q] = Count(s, <<q>>)'
  <2> SUFFICES ASSUME NEW s \in Sides, NEW q \in Parts
               PROVE  /\ GlobalSum(s)'[q] = Offset(s, <<q>>)'
                      /\ Before(threads, s)'[q] = Count(s, <<q>>)'
    OBVIOUS
  <2>1. GlobalSum(s)[q] = Offset(s, <<q>>) /\ Before(threads, s)[q] = Count(s, <<q>>)
    BY <1>3 DEF HistInv
  <2>2. Offset(s, <<q>>)' = Offset(s, <<q>>) /\ Count(s, <<q>>)' = Count(s, <<q>>)
    BY Frame
  <2>3. GlobalSum(s)' = GlobalSum(s) /\ Before(threads, s)' = Before(threads, s)
    BY ChunkFrame
  <2>4. QED BY <2>1, <2>2, <2>3
<1>4. QED BY <1>1, <1>2, <1>3 DEF HistInv

\* Tasks move on in the pool, and none is added.
LEMMA FormKept ==
  ASSUME UNCHANGED <<args, hist, mpc, round>>, FormInv,
         Busy' \subseteq Busy, finished' \subseteq finished \cup Busy, finished \subseteq finished',
         TypeInv, PoolInv
  PROVE  FormInv'
<1>1. Known' \subseteq Known /\ Known' = Busy' \cup finished' /\ Known = Busy \cup finished
  BY DEF Known
<1>2. mpc = "partition" => Known' \subseteq Chunks("partition", round)'
  BY <1>1, ChunkFrame DEF FormInv
<1>3. ASSUME mpc = "scatter"
      PROVE  /\ Chunks("partition", threads)' \subseteq finished'
             /\ Busy' \subseteq Chunks("scatter", round)'
             /\ finished' \subseteq Chunks("partition", threads)' \cup Chunks("scatter", threads)'
  <2>1. round \in Nat /\ round <= threads /\ threads \in Nat
    BY <1>3, DataAssumption DEF FormInv, SetUp, TypeInv
  <2>2. Chunks("scatter", round) \subseteq Chunks("scatter", threads)
    BY <2>1 DEF Chunks
  <2>3. QED BY <1>1, <1>3, <2>2, ChunkFrame DEF FormInv
<1>4. ASSUME Later
      PROVE  \A t \in Known' : IF t.depth = 1 THEN t \in finished' /\ t.op # "join" ELSE DeepForm(t)'
  <2>1. \A t \in Known : IF t.depth = 1 THEN t \in finished /\ t.op # "join" ELSE DeepForm(t)
    BY <1>4 DEF FormInv
  <2>2. QED BY <1>1, <2>1, Frame
<1>5. (SetUp' <=> SetUp) /\ (Later' <=> Later)
  BY DEF SetUp, Later
<1>6. QED BY <1>2, <1>3, <1>4, <1>5 DEF FormInv

--------------------------------------------------------------------------------
(* A task starts. *)

\* Before its first step a scatter task has moved nothing.
LEMMA NothingMoved ==
  ASSUME NEW t, Sized(t), NEW m
  PROVE  MovedAt(t, m, 0)
<1>1. \A s \in Sides : Bound(t, s, 0) = t.base[s] /\ t.base[s] \in Nat
  <2>1. 0 \in Nat
    OBVIOUS
  <2>2. QED BY <2>1, BoundSteps DEF Sized
<1>2. \A s \in Sides : t.base[s] .. (Bound(t, s, 0) - 1) = {}
  BY <1>1
<1>3. QED BY <1>2 DEF MovedAt

\* Start preserves the invariant.
LEMMA StartStep ==
  ASSUME DataInv, Start
  PROVE  DataInv'
<1> USE DEF DataInv
<1>1. /\ UNCHANGED <<args, mem, hist, mpc, round>>
      /\ UNCHANGED <<result, built, calls, due>>
      /\ Pool!Start
  BY DEF Start, mainVars, objVars
<1>2. PICK t \in Pool!Queued :
           /\ t = Head(queue) /\ t \in Work /\ t \notin active /\ t \notin finished
           /\ (Pool!Queued)' = Pool!Queued \ {t} /\ active' = active \cup {t}
           /\ UNCHANGED finished /\ Busy' = Busy /\ Known' = Known
           /\ queue' \in Seq(Work)
           /\ \A i, j \in DOMAIN queue' : queue'[i] = queue'[j] => i = j
  BY <1>1, Starting
<1>3. /\ at' = [u \in active' |-> IF u \in active THEN at[u] ELSE [pos |-> 0, sum |-> t.sum]]
      /\ at'[t] = [pos |-> 0, sum |-> t.sum]
      /\ \A u \in active : u \in active' /\ at'[u] = at[u]
  <2>1. at' = [u \in active' |-> IF u \in active THEN at[u] ELSE [pos |-> 0, sum |-> u.sum]]
    BY DEF Start
  <2>2. at' = [u \in active' |-> IF u \in active THEN at[u] ELSE [pos |-> 0, sum |-> t.sum]]
    BY <1>2, <2>1
  <2>3. QED BY <1>2, <2>2
<1>4. t \in Busy /\ Busy \subseteq Known /\ \A u \in active : u \in Busy
  BY DEF Busy, Known
<1>5. Sized(t) /\ mpc # "idle" /\ Tuples(t) \in Nat
  <2>1. mpc # "idle"
    BY <1>2, EmptyQueue DEF PoolInv
  <2>2. 0 \in Nat
    OBVIOUS
  <2>3. QED BY <1>4, <2>1, <2>2, SizesOfTask, BoundSteps
<1>6. TypeInv'
  <2>1. t.sum \in [Sides -> [Parts -> Nat]]
    BY <1>2 DEF Work
  <2>2. at' \in [active' -> [pos : Nat, sum : [Sides -> [Parts -> Nat]]]]
    BY <1>3, <2>1 DEF TypeInv
  <2>3. active' \subseteq Work /\ finished' \subseteq Work /\ queue' \in Seq(Work)
    BY <1>2 DEF TypeInv
  <2>4. QED BY <1>1, <2>2, <2>3, TypesKept DEF TypeInv
<1>7. PoolInv'
  BY <1>1, <1>2, <1>5 DEF PoolInv
<1>8. FormInv'
  BY <1>1, <1>2, FormKept
<1>9. HistInv'
  <2>1. \A u \in active' \cup finished' :
          (u \in active' => at'[u].pos = 1) => u \in active \cup finished /\ (u \in active => at[u].pos = 1)
    BY <1>2, <1>3
  <2>2. QED BY <1>1, <2>1, HistogramsKept
<1>10. t.op = "scatter" => SumsAt(t, mem, t.sum, 0) /\ MovedAt(t, mem, 0)
  BY <1>5, NothingMoved DEF ScatterInv
<1>11. ASSUME t.op = "scatter" /\ t.depth # 1 /\ Tuples(t) = 0
       PROVE  Scattering(t, at'[t], mem) /\ OwnInv' /\ ContentInv'
  <2>1. Later /\ DeepForm(t)
    BY <1>4, <1>11, BusyTask, ChunkForm
  <2>2. ArraysOK(mem) /\ ArgsInv
    BY DEF TypeInv, ArraysOK
  <2>3. <<{t}, t.of>> \in Holdings
    <3>1. t.of \in Owned(t)
      BY <1>11 DEF Owned
    <3>2. QED BY <1>4, <3>1, HoldingIs
  <2>4. Settled(mem, t.of)
    BY <2>1, <2>3 DEF ContentInv
  <2>5. \A s \in Sides : Holds(mem[t.from][s], s, t.of)
    BY <2>1, <2>4 DEF Settled, DeepForm
  <2>6. SplitAt(t, t.sum) /\ \A q \in Parts : Settled(mem, Append(t.of, q))
    BY <1>10, <1>11, <2>1, <2>2, <2>5, PassEnd
  <2>7. Scattering(t, at'[t], mem)
    BY <1>3, <1>11, <2>6 DEF Scattering
  <2>8. Owned(t)' = Children(t, 0)
    <3>1. t \in active' /\ t \notin (Pool!Queued)' /\ ~ Reading(t)' /\ (at[t].pos)' - Tuples(t) = 0
      BY <1>2, <1>3, <1>11 DEF Reading
    <3>2. \A n : Children(t, n)' = Children(t, n)
      BY DEF Children, part_count
    <3>3. QED BY <1>11, <3>1, <3>2 DEF Owned
  <2>9. Children(t, 0) = {Append(t.of, q) : q \in Parts}
    BY <2>1, ChildrenType DEF DeepForm
  <2>10. \A z \in Holdings' : \/ z \in Holdings /\ z # <<{t}, t.of>>
                              \/ \E q \in Parts : z = <<{t}, Append(t.of, q)>>
    <3>1. ASSUME NEW u \in Known', u # t
          PROVE  u \in Known /\ Owned(u)' \subseteq Owned(u)
      <4>1. (u \in (Pool!Queued)' <=> u \in Pool!Queued) /\ (u \in active' <=> u \in active)
        BY <1>2, <3>1
      <4>2. u \in active => at'[u] = at[u]
        BY <1>3
      <4>3. QED BY <1>2, <4>1, <4>2, OwnedFrame
    <3>2. MainOwned' \subseteq MainOwned
      BY <1>1 DEF MainOwned, part_count
    <3>3. \A z \in Holdings' : \/ z \in Holdings /\ z[1] # {t}
                               \/ t \in Known' /\ \E p \in Owned(t)' : z = <<{t}, p>>
      BY <3>1, <3>2, HoldingsStep
    <3>4. \A z : z[1] # {t} => z # <<{t}, t.of>>
      OBVIOUS
    <3>5. QED BY <2>8, <2>9, <3>3, <3>4
  <2>11. OwnInv'
    <3>1. AllApart(Holdings) /\ \A z \in Holdings : z[2] \in Seq(Parts)
      BY <2>1, HoldingPaths DEF OwnInv
    <3> DEFINE H == Holdings
               K == Holdings'
               x == <<{t}, t.of>>
    <3>2. /\ x \in H /\ AllApart(H) /\ \A z \in H : z[2] \in Seq(Parts)
          /\ Divides(H, K, x, {t})
      BY <2>3, <2>10, <3>1 DEF Divides
    <3> HIDE DEF H, K, x
    <3>3. AllApart(K)
      BY <3>2, Divided
    <3>4. QED BY <3>3 DEF OwnInv, AllApart, K
  <2>12. ContentInv'
    <3>1. \A z \in Holdings' : Settled(mem', z[2])
      <4> SUFFICES ASSUME NEW z \in Holdings'
                   PROVE  Settled(mem, z[2])
        BY <1>1
      <4>1. CASE z \in Holdings
        BY <2>1, <4>1 DEF ContentInv
      <4>2. CASE \E q \in Parts : z = <<{t}, Append(t.of, q)>>
        BY <2>6, <4>2
      <4>3. QED BY <2>10, <4>1, <4>2
    <3>2. Later'
      BY <1>1, <2>1 DEF Later
    <3>3. QED BY <1>1, <3>1, <3>2, Frame DEF ContentInv
  <2>13. QED BY <2>7, <2>11, <2>12
<1>12. ASSUME ~ (t.op = "scatter" /\ t.depth # 1 /\ Tuples(t) = 0)
       PROVE  (t.op = "scatter" => Scattering(t, at'[t], mem)) /\ OwnInv' /\ ContentInv'
  <2>1. t.op = "scatter" => Scattering(t, at'[t], mem)
    <3> SUFFICES ASSUME t.op = "scatter"
                 PROVE  Scattering(t, at'[t], mem)
      OBVIOUS
    <3>1. at'[t].pos = 0 /\ at'[t].sum = t.sum
      BY <1>3
    <3>2. t.depth = 1 \/ 0 < Tuples(t)
      BY <1>5, <1>12
    <3>3. QED BY <1>10, <3>1, <3>2 DEF Scattering
  <2>2. Owned(t)' = Owned(t)
    <3>1. Owned(t) = IF t.depth = 1 THEN {} ELSE {t.of}
      BY DEF Owned
    <3>2. t \in active' /\ at'[t].pos = 0
      BY <1>2, <1>3
    <3>3. t.depth # 1 => Reading(t)'
      BY <1>5, <1>12, <3>2 DEF Reading
    <3>4. QED BY <3>1, <3>2, <3>3 DEF Owned
  <2>3. ASSUME NEW u
        PROVE  Owned(u)' = Owned(u)
    <3>1. CASE u # t
      <4>1. (u \in (Pool!Queued)' <=> u \in Pool!Queued) /\ (u \in active' <=> u \in active)
        BY <1>2, <3>1
      <4>2. u \in active => at'[u] = at[u]
        BY <1>3
      <4>3. QED BY <4>1, <4>2, OwnedFrame
    <3>2. QED BY <2>2, <3>1
  <2>4. MainOwned' = MainOwned
    BY <1>1 DEF MainOwned, part_count
  <2>5. Holdings' = Holdings
    BY <1>2, <2>3, <2>4 DEF Holdings
  <2>6. Later' <=> Later
    BY <1>1 DEF Later
  <2>7. QED BY <1>1, <2>1, <2>5, <2>6, OwnersKept
<1>13. ScatterInv'
  <2>1. \A u \in (Pool!Queued)' : u.op = "scatter" => SumsAt(u, mem', u.sum, 0)
    BY <1>1, <1>2 DEF ScatterInv
  <2>2. \A u \in active' : u.op = "scatter" => Scattering(u, at'[u], mem')
    <3> SUFFICES ASSUME NEW u \in active', u.op = "scatter"
                 PROVE  Scattering(u, at'[u], mem)
      BY <1>1
    <3>1. CASE u = t
      BY <1>11, <1>12, <3>1
    <3>2. CASE u \in active
      BY <1>3, <3>2 DEF ScatterInv
    <3>3. QED BY <1>2, <3>1, <3>2
  <2>3. mpc' = "scatter" => \A u \in finished' : u.op = "scatter" => MovedAt(u, mem', Tuples(u))
    BY <1>1, <1>2 DEF ScatterInv
  <2>4. QED BY <1>1, <2>1, <2>2, <2>3, Frame DEF ScatterInv
<1>14. ActiveInv'
  <2>1. \A u : Steps(u)' = Steps(u) /\ Steps(u) = Steps(u)
    BY DEF Steps, part_count
  <2>2. 0 <= Steps(t)
    BY <1>5, PartsType DEF Steps
  <2>3. t.op # "scatter" => t.sum = NoSums
    BY <1>4, BusyTask, ChunkForm DEF DeepForm
  <2>4. NoSums' = NoSums
    BY DEF NoSums
  <2> SUFFICES ASSUME NEW u \in active'
               PROVE  at'[u].pos <= Steps(u) /\ (u.op # "scatter" => at'[u].sum = NoSums)
    BY <2>1, <2>4 DEF ActiveInv
  <2>5. CASE u = t
    BY <1>3, <2>2, <2>3, <2>5
  <2>6. CASE u \in active
    BY <1>3, <2>6 DEF ActiveInv
  <2>7. QED BY <1>2, <2>5, <2>6
<1>15. ResultInv'
  <2>1. \A u : u \in Known' /\ Joined(u)' <=> u \in Known /\ Joined(u)
    BY <1>2, <1>3 DEF Joined
  <2>2. QED BY <1>1, <2>1, ResultKept DEF ResultInv
<1>16. LeafInv'
  <2>1. active \cup finished \subseteq active' \cup finished'
    BY <1>2
  <2>2. UNCHANGED <<passes, mpc>>
    BY <1>1 DEF args
  <2>3. ASSUME mpc = "finish", NEW p \in [1 .. passes -> Parts]
        PROVE  \E u \in active' \cup finished' : u.op = "join" /\ u.of = p
    BY <2>1, <2>3 DEF LeafInv
  <2>4. QED BY <2>2, <2>3 DEF LeafInv
<1>17. QED BY <1>6, <1>7, <1>8, <1>9, <1>11, <1>12, <1>13, <1>14, <1>15, <1>16

--------------------------------------------------------------------------------
(* The tasks of the first round, and the ends of all tasks. *)

\* A histogram has a number for each part.
LEMMA HistogramType ==
  ASSUME NEW t, \A s \in Sides : IsFiniteSet(Region(t, s))
  PROVE  Histogram(t) \in [Sides -> [Parts -> Nat]]
<1>1. ASSUME NEW s \in Sides, NEW p
      PROVE  Cardinality({i \in Region(t, s) : PartAt(t, s, i) = p}) \in Nat
  <2>1. {i \in Region(t, s) : PartAt(t, s, i) = p} \subseteq Region(t, s)
    OBVIOUS
  <2> DEFINE T == {i \in Region(t, s) : PartAt(t, s, i) = p}
             S == Region(t, s)
  <2>2. T \subseteq S /\ IsFiniteSet(S)
    BY <2>1
  <2> HIDE DEF T, S
  <2>3. Cardinality(T) \in Nat
    BY <2>2, SubsetSize
  <2>4. QED BY <2>3 DEF T
<1>2. QED BY <1>1 DEF Histogram

\* The data of a task are finite.
LEMMA RegionFinite ==
  ASSUME ArgsInv, NEW t, Sized(t)
  PROVE  \A s \in Sides : IsFiniteSet(Region(t, s))
<1> SUFFICES ASSUME NEW s \in Sides
             PROVE  IsFiniteSet(Region(t, s))
  OBVIOUS
<1>1. Region(t, s) \subseteq Place(s, Path(t)) /\ Path(t) \in Seq(Parts)
  BY DEF Sized
<1>2. IsFiniteSet(Place(s, Path(t)))
  BY <1>1, PartType
<1>3. QED BY <1>1, <1>2, FS_Subset

\* Join tasks that have begun stay known.
LEMMA LeavesKept ==
  ASSUME LeafInv, UNCHANGED <<args, mpc>>, active \cup finished \subseteq active' \cup finished'
  PROVE  LeafInv'
<1>1. UNCHANGED passes
  BY DEF args
<1>2. ASSUME mpc = "finish", NEW p \in [1 .. passes -> Parts]
      PROVE  \E u \in active' \cup finished' : u.op = "join" /\ u.of = p
  BY <1>2 DEF LeafInv
<1>3. QED BY <1>1, <1>2 DEF LeafInv

\* How many steps a task takes does not change.
LEMMA StepsFrame ==
  /\ \A t : Steps(t)' = Steps(t) /\ Tuples(t)' = Tuples(t)
  /\ NoSums' = NoSums
BY DEF Steps, part_count, NoSums, Tuples

\* A task has done a step, and its sums are what they were.
LEMMA StepAt ==
  ASSUME TypeInv, NEW t \in active, NEW n \in Nat, at' = [at EXCEPT ![t].pos = n]
  PROVE  /\ at'[t].pos = n /\ at'[t].sum = at[t].sum /\ \A u \in active : u # t => at'[u] = at[u]
         /\ at' \in [active -> [pos : Nat, sum : [Sides -> [Parts -> Nat]]]]
<1>1. at \in [active -> [pos : Nat, sum : [Sides -> [Parts -> Nat]]]]
  BY DEF TypeInv
<1>2. at[t] \in [pos : Nat, sum : [Sides -> [Parts -> Nat]]] /\ DOMAIN at = active
  BY <1>1
<1>3. at' = [at EXCEPT ![t] = [at[t] EXCEPT !.pos = n]]
  OBVIOUS
<1> DEFINE e == [at[t] EXCEPT !.pos = n]
<1>4. e \in [pos : Nat, sum : [Sides -> [Parts -> Nat]]] /\ e.pos = n /\ e.sum = at[t].sum
  <2> DEFINE T == [Sides -> [Parts -> Nat]]
  <2>1. at[t] \in [pos : Nat, sum : T]
    BY <1>2
  <2> HIDE DEF T
  <2>2. e \in [pos : Nat, sum : T] /\ e.pos = n /\ e.sum = at[t].sum
    BY <2>1
  <2>3. QED BY <2>2 DEF T
<1> HIDE DEF e
<1>5. at' = [at EXCEPT ![t] = e]
  BY <1>3 DEF e
<1>6. at'[t] = e /\ \A u \in active : u # t => at'[u] = at[u]
  BY <1>2, <1>5
<1>7. at' \in [active -> [pos : Nat, sum : [Sides -> [Parts -> Nat]]]]
  BY <1>1, <1>4, <1>5
<1>8. QED BY <1>4, <1>6, <1>7

\* Deliver preserves the invariant.
LEMMA DeliverStep ==
  ASSUME DataInv, NEW t \in active, Deliver(t)
  PROVE  DataInv'
<1> USE DEF DataInv
<1>1. /\ t.op = "partition" /\ t.depth = 1 /\ at[t].pos = 0
      /\ hist' = [hist EXCEPT ![t.of[1]] = Histogram(t)]
      /\ at' = [at EXCEPT ![t].pos = 1]
      /\ UNCHANGED <<queue, active, finished, args, mem, mpc, round>>
      /\ UNCHANGED <<result, built, calls, due>>
  BY DEF Deliver, poolVars, mainVars, objVars
<1>2. t \in Busy
  BY DEF Busy
<1>3. mpc = "partition" /\ \E k \in Slots : t = Chunk("partition", k)
  BY <1>1, <1>2, BusyTask, ChunkForm DEF DeepForm, Later
<1>4. PICK k \in Slots : t = Chunk("partition", k)
  BY <1>3
<1>5. t.of[1] = k
  BY <1>4, ChunkForm
<1>6. /\ (Pool!Queued)' = Pool!Queued /\ Busy' = Busy /\ Known' = Known
  BY <1>1, PoolFrame
<1>7. /\ at'[t].pos = 1 /\ at'[t].sum = at[t].sum /\ \A u \in active : u # t => at'[u] = at[u]
      /\ at' \in [active -> [pos : Nat, sum : [Sides -> [Parts -> Nat]]]]
  <2>1. 1 \in Nat
    OBVIOUS
  <2>2. QED BY <1>1, <2>1, StepAt
<1>8. TypeInv'
  <2>1. Histogram(t) \in [Sides -> [Parts -> Nat]]
    BY <1>2, SizesOfTask, RegionFinite, HistogramType DEF TypeInv
  <2>2. hist' \in [Slots -> [Sides -> [Parts -> Nat]]]
    BY <1>1, <1>4, <1>5, <2>1 DEF TypeInv
  <2>3. at' \in [active' -> [pos : Nat, sum : [Sides -> [Parts -> Nat]]]]
    BY <1>1, <1>7 DEF TypeInv
  <2>4. QED BY <1>1, <2>2, <2>3, TypesKept DEF TypeInv
<1>9. PoolInv'
  BY <1>1, <1>6 DEF PoolInv
<1>10. FormInv'
  <2>1. Known' \subseteq Chunks("partition", round)'
    BY <1>1, <1>3, <1>6, ChunkFrame DEF FormInv
  <2>2. mpc' = "partition" /\ round' <= threads
    BY <1>1, <1>3 DEF FormInv, SetUp
  <2>3. QED BY <2>1, <2>2 DEF FormInv, SetUp, Later
<1>11. HistInv'
  <2>1. ASSUME NEW j \in Slots, NEW u \in active' \cup finished',
               u = Chunk("partition", j)', u \in active' => at'[u].pos = 1
        PROVE  hist'[j] = Histogram(u)'
    <3>1. u = Chunk("partition", j)
      BY <1>1, <2>1, ChunkFrame
    <3>2. UNCHANGED mem[u.from]
      BY <1>1
    <3>3. Histogram(u)' = Histogram(u)
      BY <1>1, <3>2, HistogramFrame
    <3>4. CASE u = t
      <4>1. j = k
        BY <1>4, <3>1, <3>4, DistinctChunks
      <4>2. hist'[k] = Histogram(t)
        BY <1>1, <1>5 DEF TypeInv
      <4>3. QED BY <3>3, <3>4, <4>1, <4>2
    <3>5. CASE u # t
      <4>1. j # k
        BY <1>4, <3>1, <3>5
      <4>2. hist'[j] = hist[j]
        BY <1>1, <1>5, <4>1 DEF TypeInv
      <4>3. u \in active \cup finished /\ (u \in active => at[u].pos = 1)
        BY <1>1, <1>7, <2>1, <3>5
      <4>4. hist[j] = Histogram(u)
        BY <1>3, <3>1, <4>3 DEF HistInv
      <4>5. QED BY <3>3, <4>2, <4>4
    <3>6. QED BY <3>4, <3>5
  <2>2. mpc' = "partition"
    BY <1>1, <1>3
  <2>3. QED BY <2>1, <2>2 DEF HistInv
<1>12. ScatterInv'
  <2>1. \A u \in (Pool!Queued)' : u.op = "scatter" => SumsAt(u, mem', u.sum, 0)
    BY <1>1, <1>6 DEF ScatterInv
  <2>2. \A u \in active' : u.op = "scatter" => Scattering(u, at'[u], mem')
    BY <1>1, <1>7 DEF ScatterInv
  <2>3. mpc' # "scatter"
    BY <1>1, <1>3
  <2>4. QED BY <1>1, <2>1, <2>2, <2>3, Frame DEF ScatterInv
<1>13. ActiveInv'
  <2>1. Steps(t) = 1
    BY <1>1 DEF Steps
  <2>2. ASSUME NEW u \in active
        PROVE  at'[u].pos <= Steps(u) /\ (u.op # "scatter" => at'[u].sum = NoSums)
    BY <1>7, <2>1 DEF ActiveInv
  <2>3. QED BY <1>1, <2>2, StepsFrame DEF ActiveInv
<1>14. OwnInv' /\ ContentInv'
  <2>1. ~ Later /\ ~ Later'
    BY <1>1, <1>3 DEF Later
  <2>2. \A s \in Sides : Holds(mem'["input"][s], s, <<>>)
    BY <1>1, <2>1 DEF ContentInv
  <2>3. QED BY <1>1, <2>1, <2>2, Frame DEF OwnInv, ContentInv
<1>15. ResultInv'
  <2>1. \A u : u \in Known' /\ Joined(u)' <=> u \in Known /\ Joined(u)
    BY <1>1, <1>6, <1>7 DEF Joined
  <2>2. QED BY <1>1, <2>1, ResultKept DEF ResultInv
<1>16. LeafInv'
  BY <1>1, LeavesKept
<1>17. QED BY <1>8, <1>9, <1>10, <1>11, <1>12, <1>13, <1>14, <1>15, <1>16

\* Complete preserves the invariant.
LEMMA CompleteStep ==
  ASSUME DataInv, NEW t \in active, Complete(t)
  PROVE  DataInv'
<1> USE DEF DataInv
<1>1. /\ at[t].pos = Steps(t) /\ Pool!Complete(t)
      /\ at' = [u \in active' |-> at[u]]
      /\ UNCHANGED <<args, mem, mpc, round, hist, result, built, calls, due>>
  <2>1. active' \subseteq DOMAIN at
    BY DEF Complete, Pool!Complete, TypeInv
  <2>2. at' = [u \in active' |-> at[u]]
    BY DEF Complete, Restrict
  <2>3. QED BY <2>2 DEF Complete, mainVars, objVars
<1>2. /\ t \in active /\ active' = active \ {t} /\ finished' = finished \cup {t}
      /\ UNCHANGED queue /\ (Pool!Queued)' = Pool!Queued
      /\ Busy' = Busy \ {t} /\ Known' = Known
  BY <1>1, Completing
<1>3. t \in Busy /\ Sized(t) /\ Tuples(t) \in Nat
  <2>1. t \in Busy /\ 0 \in Nat
    BY DEF Busy
  <2>2. QED BY <2>1, SizesOfTask, BoundSteps
<1>4. \A u \in active' : u \in active /\ u # t /\ at'[u] = at[u]
  BY <1>1, <1>2
<1>5. TypeInv'
  <2>1. at' \in [active' -> [pos : Nat, sum : [Sides -> [Parts -> Nat]]]]
    BY <1>1, <1>2 DEF TypeInv
  <2>2. active' \subseteq Work /\ finished' \subseteq Work /\ queue' \in Seq(Work)
    BY <1>2 DEF TypeInv
  <2>3. QED BY <1>1, <2>1, <2>2, TypesKept DEF TypeInv
<1>6. PoolInv'
  <2>1. Pool!Queued \cap active = {} /\ Busy \cap finished = {}
    BY DEF PoolInv
  <2>2. (Pool!Queued)' \cap active' = {} /\ Busy' \cap finished' = {}
    BY <1>2, <2>1
  <2>3. mpc = "idle" => active' = {}
    BY <1>2 DEF PoolInv
  <2>4. QED BY <1>1, <1>2, <2>2, <2>3 DEF PoolInv
<1>7. FormInv'
  BY <1>1, <1>2, <1>3, FormKept
<1>8. HistInv'
  <2>1. ASSUME mpc = "partition", NEW u \in active' \cup finished', u \in active' => at'[u].pos = 1
        PROVE  u \in active \cup finished /\ (u \in active => at[u].pos = 1)
    <3>1. CASE u = t
      <4>1. t.op = "partition"
        BY <1>3, <2>1, BusyTask, ChunkForm DEF Later
      <4>2. at[t].pos = 1
        BY <1>1, <4>1 DEF Steps
      <4>3. QED BY <3>1, <4>2
    <3>2. CASE u # t
      BY <1>2, <1>4, <2>1, <3>2
    <3>3. QED BY <3>1, <3>2
  <2>2. QED BY <1>1, <2>1, HistogramsKept
<1>9. ScatterInv'
  <2>1. \A u \in (Pool!Queued)' : u.op = "scatter" => SumsAt(u, mem', u.sum, 0)
    BY <1>1, <1>2 DEF ScatterInv
  <2>2. \A u \in active' : u.op = "scatter" => Scattering(u, at'[u], mem')
    BY <1>1, <1>4 DEF ScatterInv
  <2>3. ASSUME mpc' = "scatter", t.op = "scatter"
        PROVE  MovedAt(t, mem', Tuples(t))
    <3>1. t.depth = 1
      BY <1>1, <1>3, <2>3, BusyTask, ChunkForm DEF Later
    <3>2. at[t].pos = Tuples(t)
      BY <1>1, <2>3, <3>1 DEF Steps
    <3>3. Scattering(t, at[t], mem)
      BY <2>3 DEF ScatterInv
    <3>4. QED BY <1>1, <3>1, <3>2, <3>3 DEF Scattering
  <2>4. mpc' = "scatter" => \A u \in finished' : u.op = "scatter" => MovedAt(u, mem', Tuples(u))
    BY <1>1, <1>2, <2>3 DEF ScatterInv
  <2>5. QED BY <1>1, <2>1, <2>2, <2>4, Frame DEF ScatterInv
<1>10. ActiveInv'
  <2>1. ASSUME NEW u \in active'
        PROVE  at'[u].pos <= Steps(u) /\ (u.op # "scatter" => at'[u].sum = NoSums)
    BY <1>4 DEF ActiveInv
  <2>2. QED BY <2>1, StepsFrame DEF ActiveInv
<1>11. OwnInv' /\ ContentInv'
  <2>1. ASSUME NEW u
        PROVE  Owned(u)' \subseteq Owned(u)
    <3>1. CASE u # t
      <4>1. (u \in (Pool!Queued)' <=> u \in Pool!Queued) /\ (u \in active' <=> u \in active)
        BY <1>2, <3>1
      <4>2. u \in active => at'[u] = at[u]
        BY <1>2, <1>4, <3>1
      <4>3. QED BY <4>1, <4>2, OwnedFrame
    <3>2. CASE u = t
      <4>1. t \notin active' /\ t \notin (Pool!Queued)'
        BY <1>2 DEF PoolInv
      <4>2. Owned(t)' = IF t.depth = 1 THEN {} ELSE IF t.op = "join" THEN {t.of} ELSE {}
        BY <4>1 DEF Owned
      <4>3. QED BY <3>2, <4>2 DEF Owned
    <3>3. QED BY <3>1, <3>2
  <2>2. MainOwned' = MainOwned
    BY <1>1 DEF MainOwned, part_count
  <2>3. Holdings' \subseteq Holdings
    BY <1>2, <2>1, <2>2 DEF Holdings
  <2>4. Later' <=> Later
    BY <1>1 DEF Later
  <2>5. QED BY <1>1, <2>3, <2>4, OwnersKept
<1>12. ResultInv'
  <2>1. t.op = "join" => at[t].pos = 1
    BY <1>1 DEF Steps
  <2>2. \A u : u \in Known' /\ Joined(u)' <=> u \in Known /\ Joined(u)
    BY <1>2, <1>4, <2>1 DEF Joined
  <2>3. QED BY <1>1, <2>2, ResultKept DEF ResultInv
<1>13. LeafInv'
  BY <1>1, <1>2, LeavesKept
<1>14. QED BY <1>5, <1>6, <1>7, <1>8, <1>9, <1>10, <1>11, <1>12, <1>13

--------------------------------------------------------------------------------
(* A running task schedules another one. *)

\* Whatever the task is, if it is a task for a path that t no longer answers for.
LEMMA SchedulingStep ==
  ASSUME DataInv, NEW t \in active, NEW n \in Work, Pool!Accept(n),
         NEW k \in Nat, at' = [at EXCEPT ![t].pos = k], k <= Steps(t),
         Later, DeepForm(t), DeepForm(n), t.op # "join",
         n.op = "scatter" => SumsAt(n, mem, n.sum, 0),
         t.op = "scatter" => SplitAt(t, at[t].sum) /\ Tuples(t) <= k,
         UNCHANGED <<args, mem, mpc, round, hist, result, built, calls, due>>,
         n.of \in Owned(t), n.of \notin Owned(t)', Owned(t)' \subseteq Owned(t)
  PROVE  DataInv'
<1> USE DEF DataInv
<1>1. /\ n \notin Known
      /\ (Pool!Queued)' = Pool!Queued \cup {n} /\ UNCHANGED <<active, finished>>
      /\ Busy' = Busy \cup {n} /\ Known' = Known \cup {n}
      /\ queue' \in Seq(Work)
      /\ \A i, j \in DOMAIN queue' : queue'[i] = queue'[j] => i = j
  BY Accepting
<1>2. /\ at'[t].pos = k /\ at'[t].sum = at[t].sum /\ \A u \in active : u # t => at'[u] = at[u]
      /\ at' \in [active -> [pos : Nat, sum : [Sides -> [Parts -> Nat]]]]
  BY StepAt
<1>3. t.depth # 1 /\ n.depth # 1
  <2>1. "l" \in Sides
    BY DEF Sides
  <2>2. QED BY <2>1, DeepData DEF TypeInv
<1>4. n # t /\ n \notin active /\ n \notin finished /\ t \in Known /\ n \notin Pool!Queued
  BY <1>1 DEF Known, Busy
<1>5. UNCHANGED <<rel, passes>> /\ Later'
  BY DEF args, Later
<1>6. TypeInv'
  BY <1>1, <1>2, TypesKept DEF TypeInv
<1>7. PoolInv'
  <2>1. (Pool!Queued)' \cap active' = {} /\ Busy' \cap finished' = {}
    BY <1>1, <1>4 DEF PoolInv
  <2>2. mpc' # "idle"
    BY <1>5 DEF Later
  <2>3. QED BY <1>1, <2>1, <2>2 DEF PoolInv
<1>8. FormInv'
  <2>1. \A u \in Known' : IF u.depth = 1 THEN u \in finished' /\ u.op # "join" ELSE DeepForm(u)'
    <3>1. \A u \in Known : IF u.depth = 1 THEN u \in finished /\ u.op # "join" ELSE DeepForm(u)
      BY DEF FormInv
    <3>2. QED BY <1>1, <1>3, <3>1, Frame
  <2>2. (mpc' = "leaves" => round' <= part_count') /\ (mpc' # "leaves" => round' = 0)
    BY <1>5 DEF FormInv, part_count, Later, SetUp
  <2>3. QED BY <1>5, <2>1, <2>2 DEF FormInv, SetUp, Later
<1>9. HistInv'
  <2>1. mpc # "partition"
    BY DEF Later
  <2>2. UNCHANGED mem["input"]
    OBVIOUS
  <2>3. QED BY <2>1, <2>2, HistogramsKept
<1>10. ScatterInv'
  <2>1. \A u \in (Pool!Queued)' : u.op = "scatter" => SumsAt(u, mem', u.sum, 0)
    BY <1>1 DEF ScatterInv
  <2>2. \A u \in active' : u.op = "scatter" => Scattering(u, at'[u], mem')
    <3> SUFFICES ASSUME NEW u \in active, u.op = "scatter"
                 PROVE  Scattering(u, at'[u], mem)
      BY <1>1
    <3>1. CASE u = t
      <4>1. t \in Busy /\ 0 \in Nat
        BY DEF Busy
      <4>2. Tuples(t) \in Nat
        BY <4>1, SizesOfTask, BoundSteps
      <4>3. ~ (k < Tuples(t))
        BY <3>1, <4>2
      <4>4. QED BY <1>2, <1>3, <3>1, <4>3 DEF Scattering
    <3>2. CASE u # t
      BY <1>2, <3>2 DEF ScatterInv
    <3>3. QED BY <3>1, <3>2
  <2>3. mpc' # "scatter"
    BY <1>5 DEF Later
  <2>4. QED BY <2>1, <2>2, <2>3, Frame DEF ScatterInv
<1>11. ActiveInv'
  <2>1. ASSUME NEW u \in active
        PROVE  at'[u].pos <= Steps(u) /\ (u.op # "scatter" => at'[u].sum = NoSums)
    BY <1>2 DEF ActiveInv
  <2>2. QED BY <1>1, <2>1, StepsFrame DEF ActiveInv
<1>12. OwnInv' /\ ContentInv'
  <2> DEFINE x == <<{t}, n.of>>
             y == <<{n}, n.of>>
  <2>1. x \in Holdings /\ y[2] = x[2]
    BY <1>4, HoldingIs
  <2>2. ASSUME NEW u \in Known', u # n
        PROVE  u \in Known /\ Owned(u)' \subseteq Owned(u)
    <3>1. u \in Known
      BY <1>1, <2>2
    <3>2. CASE u # t
      <4>1. (u \in (Pool!Queued)' <=> u \in Pool!Queued) /\ (u \in active' <=> u \in active)
        BY <1>1, <2>2
      <4>2. u \in active => at'[u] = at[u]
        BY <1>2, <3>2
      <4>3. QED BY <3>1, <4>1, <4>2, OwnedFrame
    <3>3. QED BY <3>1, <3>2
  <2>3. MainOwned' \subseteq MainOwned
    BY DEF MainOwned, part_count
  <2>4. Owned(n)' = {n.of}
    BY <1>1, <1>3 DEF Owned
  <2>5. \A z \in Holdings' : \/ z \in Holdings /\ z[1] # {n}
                             \/ n \in Known' /\ \E p \in Owned(n)' : z = <<{n}, p>>
    BY <2>2, <2>3, HoldingsStep
  <2>6. Holdings' \subseteq Holdings \cup {y}
    BY <2>4, <2>5
  <2>7. x \notin Holdings'
    <3>1. \A u, v : {u} = {v} => u = v
      OBVIOUS
    <3>2. \A a, b, c, d : <<a, b>> = <<c, d>> <=> a = c /\ b = d
      OBVIOUS
    <3>3. \A z \in Holdings' : \/ \E u \in Known' : \E p \in Owned(u)' : z = <<{u}, p>>
                               \/ \E p \in MainOwned' : z = <<{}, p>>
      BY DEF Holdings
    <3>4. {t} # {}
      OBVIOUS
    <3>5. ASSUME NEW u, NEW p \in Owned(u)', x = <<{u}, p>>
          PROVE  FALSE
      <4>1. {t} = {u} /\ n.of = p
        BY <3>2, <3>5
      <4>2. t = u
        BY <3>1, <4>1
      <4>3. QED BY <3>5, <4>1, <4>2
    <3>6. ASSUME NEW p, x = <<{}, p>>
          PROVE  FALSE
      BY <3>2, <3>4, <3>6
    <3> HIDE DEF x
    <3>7. QED BY <3>3, <3>5, <3>6
  <2> HIDE DEF x, y
  <2>8. QED BY <1>5, <2>1, <2>6, <2>7, OwnerChanged
<1>13. ResultInv'
  <2>1. ~ Joined(n)'
    BY <1>1, <1>4 DEF Joined
  <2>2. \A u : u # n => (Joined(u)' <=> Joined(u))
    BY <1>1, <1>2 DEF Joined
  <2>3. \A u : u \in Known' /\ Joined(u)' <=> u \in Known /\ Joined(u)
    BY <1>1, <2>1, <2>2
  <2>4. QED BY <2>3, ResultKept DEF ResultInv
<1>14. LeafInv'
  <2>1. active \cup finished \subseteq active' \cup finished'
    BY <1>1
  <2>2. QED BY <2>1, LeavesKept
<1>15. QED BY <1>6, <1>7, <1>8, <1>9, <1>10, <1>11, <1>12, <1>13, <1>14

\* The sums of the scatter task that a partition task schedules.
LEMMA ScatterTask ==
  ASSUME TypeInv, NEW t, t \in Work, DeepForm(t), t.op = "partition"
  PROVE  LET n == ScatterOf(t)
         IN  /\ n \in Work /\ DeepForm(n) /\ n.op = "scatter" /\ n.of = t.of
             /\ SumsAt(n, mem, n.sum, 0)
<1> DEFINE n == ScatterOf(t)
           p == t.of
<1>1. /\ ArgsInv /\ p \in Seq(Parts) /\ t.depth = Len(p) + 1 /\ t.from \in Arrays
      /\ \A s \in Sides : Typed(mem[t.from][s], s)
  BY OtherArray DEF TypeInv, DeepForm
<1>2. /\ n.op = "scatter" /\ n.sum = [s \in Sides |-> Prefix(Histogram(t)[s])]
      /\ n.depth = t.depth /\ n.of = t.of /\ n.from = t.from /\ n.base = t.base /\ n.size = t.size
      /\ n.to = t.to
  BY DEF ScatterOf, Work
<1>3. DeepForm(n)
  <2>1. t.op # "join"
    OBVIOUS
  <2> HIDE DEF n
  <2>2. QED BY <1>2, <2>1 DEF DeepForm
<1>4. ASSUME NEW s \in Sides
      PROVE  /\ Prefix(Histogram(t)[s]) \in [Parts -> Nat]
             /\ \A q \in Parts : Prefix(Histogram(t)[s])[q] =
                                   Cardinality(Lower(mem[t.from][s], s, p, q, t.base[s]))
  <2> DEFINE arr == mem[t.from][s]
             S == Place(s, p)
             c == [i \in S |-> Key(arr, s, p, i)]
             h == Histogram(t)[s]
  <2>1. Path(t) = p /\ Region(t, s) = S /\ t.base[s] = Offset(s, p) /\ t.depth = Len(Path(t)) + 1
    BY <1>1, DeepData
  <2>2. IsFiniteSet(S)
    BY <1>1, PartType
  <2>3. \A i \in S : c[i] \in Parts
    BY <1>1, KeyType
  <2>4. ASSUME NEW q \in Parts
        PROVE  h[q] = Cardinality(Equal(S, c, q))
    <3>1. h[q] = Cardinality({i \in Region(t, s) : Key(mem[t.from][s], s, Path(t), i) = q})
      BY <2>1, HistogramCounts
    <3>2. Equal(S, c, q) = {i \in Region(t, s) : Key(mem[t.from][s], s, Path(t), i) = q}
      BY <2>1 DEF Equal
    <3>3. QED BY <3>1, <3>2
  <2>5. Counts(h, S, c)
    BY <2>3, <2>4 DEF Counts
  <2>6. ASSUME NEW q \in Parts
        PROVE  Less(S, c, q) = Lower(arr, s, p, q, Offset(s, p))
    <3>1. ASSUME NEW j \in S
          PROVE  ~ (j < Offset(s, p))
      <4>1. Offset(s, p) \in Nat
        BY <1>1, PartType
      <4>2. QED BY <4>1 DEF Place
    <3>2. QED BY <3>1 DEF Less, Lower
  <2> HIDE DEF c, h, S, arr
  <2>7. Prefix(h) \in [Parts -> Nat] /\ \A q \in Parts : Prefix(h)[q] = Cardinality(Less(S, c, q))
    BY <2>2, <2>5, PrefixCounts
  <2>8. QED BY <2>1, <2>6, <2>7 DEF h, arr
<1>5. n \in Work
  <2> DEFINE sum == [s \in Sides |-> Prefix(Histogram(t)[s])]
  <2>1. sum \in [Sides -> [Parts -> Nat]]
    BY <1>4
  <2> HIDE DEF sum
  <2>2. n = [t EXCEPT !.op = "scatter", !.sum = sum]
    BY DEF ScatterOf, sum
  <2> HIDE DEF n
  <2>3. QED BY <2>1, <2>2 DEF Work
<1>6. SumsAt(n, mem, n.sum, 0)
  <2> HIDE DEF n, p
  <2> SUFFICES ASSUME NEW s \in Sides, NEW q \in Parts
               PROVE  n.sum[s][q] = Cardinality(Lower(mem[n.from][s], s, Path(n), q, Bound(n, s, 0)))
    BY DEF SumsAt
  <2>1. Path(n) = p /\ n.base[s] = t.base[s] /\ t.base[s] \in Nat /\ n.size[s] = t.size[s] /\ t.size["l"] \in Nat
    <3>1. "l" \in Sides
      BY DEF Sides
    <3>2. Path(n) = t.of
      BY <1>1, <1>2, <1>3, DeepData
    <3>3. QED BY <1>1, <1>2, <3>1, <3>2, DeepData DEF p
  <2>2. Bound(n, s, 0) = t.base[s]
    <3>1. n.size["l"] \in Nat
      BY <1>2, <2>1
    <3>2. QED BY <2>1, <3>1 DEF Bound
  <2>3. QED BY <1>2, <1>4, <2>1, <2>2
<1>7. QED BY <1>2, <1>3, <1>5, <1>6

\* Partition preserves the invariant.
LEMMA PartitionStep ==
  ASSUME DataInv, NEW t \in active, Partition(t)
  PROVE  DataInv'
<1> DEFINE n == ScatterOf(t)
<1>1. /\ t.op = "partition" /\ t.depth > 1 /\ at[t].pos = 0 /\ Pool!Accept(n)
      /\ at' = [at EXCEPT ![t].pos = 1]
      /\ UNCHANGED <<args, mem, mpc, round, hist, result, built, calls, due>>
  BY DEF Partition, mainVars, objVars
<1>2. TypeInv /\ PoolInv /\ FormInv /\ t \in Busy /\ t \in Work
  BY DEF DataInv, Busy, TypeInv
<1>3. t.depth # 1
  BY <1>1
<1>4. Later /\ DeepForm(t)
  BY <1>2, <1>3, BusyTask, ChunkForm
<1>5. /\ n \in Work /\ DeepForm(n) /\ n.op = "scatter" /\ n.of = t.of
      /\ SumsAt(n, mem, n.sum, 0)
  BY <1>1, <1>2, <1>4, ScatterTask
<1> HIDE DEF n
<1>6. 1 \in Nat /\ 1 <= Steps(t)
  BY <1>1 DEF Steps
<1>7. Owned(t) = {t.of}
  <2>1. Reading(t)
    BY <1>1 DEF Reading
  <2>2. QED BY <1>3, <2>1 DEF Owned
<1>8. Owned(t)' = {}
  <2>1. at'[t].pos = 1 /\ UNCHANGED <<active, finished>> /\ (Pool!Queued)' = Pool!Queued \cup {n} /\ n \notin Known
    BY <1>1, <1>2, <1>5, <1>6, StepAt, Accepting DEF DataInv
  <2>2. ~ Reading(t)'
    BY <1>1, <2>1 DEF Reading
  <2>3. t \notin (Pool!Queued)'
    BY <1>2, <2>1 DEF PoolInv, Known, Busy
  <2>4. QED BY <1>1, <2>2, <2>3 DEF Owned
<1>9. QED BY <1>1, <1>4, <1>5, <1>6, <1>7, <1>8, SchedulingStep

\* What a scatter task schedules: the advanced sums are the bounds of the parts.
LEMMA PartTask ==
  ASSUME TypeInv, NEW t, t \in Work, DeepForm(t), t.op = "scatter", SplitAt(t, at[t].sum),
         NEW j \in Parts
  PROVE  LET n == PartOf(t, j)
         IN  n \in Work /\ DeepForm(n) /\ n.op # "scatter" /\ n.of = Append(t.of, j)
<1> DEFINE n == PartOf(t, j)
           p == t.of
           start == [s \in Sides |-> IF j = 0 THEN 0 ELSE at[t].sum[s][j - 1]]
           size == [s \in Sides |-> at[t].sum[s][j] - start[s]]
           x == Append(p, j)
<1>1. /\ ArgsInv /\ p \in Seq(Parts) /\ t.depth = Len(p) + 1 /\ t.from = ArrayOf(p)
      /\ t.depth \in 2 .. (passes + 1) /\ t.depth # passes + 1
      /\ \A s \in Sides : /\ t.base[s] = Offset(s, p) /\ t.to[s] = Offset(s, p)
  BY DEF TypeInv, DeepForm
<1>2. x \in Seq(Parts) /\ Len(x) = Len(p) + 1 /\ Len(p) \in Nat /\ ArrayOf(x) = Other(ArrayOf(p))
  BY <1>1, Extended, PathType, ArrayOfChild
<1>3. n = [op |-> IF t.depth + 1 <= passes THEN "partition" ELSE "join",
           depth |-> t.depth + 1, of |-> x, from |-> Other(t.from),
           base |-> Add(t.to, start), size |-> size, to |-> Add(t.base, start),
           sum |-> NoSums]
  BY DEF PartOf, Subtask
<1>4. ASSUME NEW s \in Sides
      PROVE  /\ Add(t.to, start)[s] = Offset(s, x) /\ Add(t.base, start)[s] = Offset(s, x)
             /\ size[s] = Count(s, x)
  <2>1. Offset(s, p) \in Nat /\ Offset(s, x) \in Nat /\ Count(s, x) \in Nat
    BY <1>1, <1>2, PartType
  <2>2. at[t].sum[s][j] = Offset(s, x) + Count(s, x) - Offset(s, p)
    BY DEF SplitAt
  <2>3. start[s] = Offset(s, x) - Offset(s, p)
    <3>1. CASE j = 0
      <4>1. Offset(s, x) = Offset(s, p)
        BY <1>1, <3>1, NextPart
      <4>2. start[s] = 0
        BY <3>1
      <4>3. QED BY <2>1, <4>1, <4>2
    <3>2. CASE j # 0
      <4> DEFINE q == j - 1
      <4>1. q \in Parts /\ Offset(s, x) = Offset(s, Append(p, q)) + Count(s, Append(p, q))
        BY <1>1, <3>2, NextPart
      <4>2. start[s] = at[t].sum[s][q]
        BY <3>2
      <4> HIDE DEF q
      <4>3. at[t].sum[s][q] = Offset(s, Append(p, q)) + Count(s, Append(p, q)) - Offset(s, p)
        BY <4>1 DEF SplitAt
      <4>4. Offset(s, Append(p, q)) \in Nat /\ Count(s, Append(p, q)) \in Nat
        BY <1>1, <4>1, Extended, PartType
      <4> HIDE DEF start, p, x
      <4>5. QED BY <2>1, <4>1, <4>2, <4>3, <4>4
    <3>3. QED BY <3>1, <3>2
  <2>4. size[s] = at[t].sum[s][j] - start[s]
    OBVIOUS
  <2> HIDE DEF size
  <2>5. Add(t.to, start)[s] = t.to[s] + start[s] /\ Add(t.base, start)[s] = t.base[s] + start[s]
    BY DEF Add
  <2>6. t.to[s] = Offset(s, p) /\ t.base[s] = Offset(s, p)
    BY <1>1
  <2> HIDE DEF start, p, x
  <2>7. Offset(s, p) + start[s] = Offset(s, x)
    BY <2>1, <2>3
  <2>8. size[s] = Count(s, x)
    BY <2>1, <2>2, <2>3, <2>4
  <2>9. Add(t.to, start)[s] = Offset(s, x) /\ Add(t.base, start)[s] = Offset(s, x)
    BY <2>5, <2>6, <2>7
  <2>10. QED BY <2>8, <2>9
<1>5. passes \in Nat
  BY <1>1, RowsType
<1>6. n.op = "join" <=> n.depth = passes + 1
  <2>1. n.op = (IF t.depth + 1 <= passes THEN "partition" ELSE "join") /\ n.depth = t.depth + 1
    BY <1>3
  <2> HIDE DEF n
  <2>2. CASE t.depth + 1 <= passes
    BY <1>1, <1>5, <2>1, <2>2
  <2>3. CASE ~ (t.depth + 1 <= passes)
    BY <1>1, <1>5, <2>1, <2>3
  <2>4. QED BY <2>2, <2>3
<1>7. n.depth = Len(x) + 1 /\ n.depth \in 2 .. (passes + 1)
  <2>1. n.depth = t.depth + 1
    BY <1>3
  <2> HIDE DEF n, x, p
  <2>2. QED BY <1>1, <1>2, <1>5, <2>1
<1>8. /\ n.of = x /\ n.from = Other(t.from) /\ n.base = Add(t.to, start) /\ n.size = size
      /\ n.to = Add(t.base, start) /\ n.sum = NoSums /\ n.op # "scatter"
  BY <1>3
<1>9. DeepForm(n)
  <2> HIDE DEF n, x, p, start, size
  <2>1. \A s \in Sides : /\ n.base[s] = Offset(s, x) /\ n.to[s] = Offset(s, x)
                         /\ n.size[s] = Count(s, x)
    BY <1>4, <1>8
  <2>2. n.of = x /\ n.from = ArrayOf(x) /\ n.sum = NoSums
    BY <1>1, <1>2, <1>8
  <2>3. QED BY <1>2, <1>6, <1>7, <2>1, <2>2 DEF DeepForm
<1>10. n \in Work
  <2>1. Add(t.to, start) \in [Sides -> Nat] /\ Add(t.base, start) \in [Sides -> Nat] /\ size \in [Sides -> Nat]
    <3>1. \A s \in Sides : Offset(s, x) \in Nat /\ Count(s, x) \in Nat
      BY <1>1, <1>2, PartType
    <3>2. \A s \in Sides : Add(t.to, start)[s] \in Nat /\ Add(t.base, start)[s] \in Nat /\ size[s] \in Nat
      BY <1>4, <3>1
    <3>3. \A f : Add(f, start) = [s \in Sides |-> f[s] + start[s]]
      BY DEF Add
    <3>4. Add(t.to, start) \in [Sides -> Nat]
      <4>1. Add(t.to, start) = [s \in Sides |-> t.to[s] + start[s]]
        BY <3>3
      <4>2. QED BY <3>2, <4>1
    <3>5. Add(t.base, start) \in [Sides -> Nat]
      <4>1. Add(t.base, start) = [s \in Sides |-> t.base[s] + start[s]]
        BY <3>3
      <4>2. QED BY <3>2, <4>1
    <3>6. size \in [Sides -> Nat]
      BY <3>2
    <3>7. QED BY <3>4, <3>5, <3>6
  <2>2. Other(t.from) \in Arrays /\ t.depth + 1 \in Nat /\ x \in Seq(Nat)
    <3>1. Other(t.from) \in Arrays
      BY <1>1, OtherArray
    <3>2. t.depth + 1 \in Nat
      BY <1>1, <1>5
    <3>3. x \in Seq(Nat)
      <4> HIDE DEF x
      <4>1. x \in Seq(Parts) /\ Parts \subseteq Nat
        BY <1>2, PartsType
      <4> HIDE DEF p
      <4>2. QED BY <4>1, SeqMonotonic
    <3>4. QED BY <3>1, <3>2, <3>3
  <2>3. NoSums \in [Sides -> [Parts -> Nat]]
    BY DEF NoSums
  <2> DEFINE op == IF t.depth + 1 <= passes THEN "partition" ELSE "join"
             b == Add(t.to, start)
             c == Add(t.base, start)
             d == t.depth + 1
             f == Other(t.from)
             e == NoSums
  <2>4. op \in {"partition", "scatter", "join"} /\ d \in Nat /\ x \in Seq(Nat) /\ f \in Arrays
        /\ b \in [Sides -> Nat] /\ c \in [Sides -> Nat] /\ size \in [Sides -> Nat]
        /\ e \in [Sides -> [Parts -> Nat]]
    BY <2>1, <2>2, <2>3
  <2>5. n = [op |-> op, depth |-> d, of |-> x, from |-> f, base |-> b, size |-> size, to |-> c, sum |-> e]
    BY <1>3
  <2> HIDE DEF n, op, b, c, d, e, f, x, size
  <2>6. QED BY <2>4, <2>5 DEF Work
<1>11. QED BY <1>8, <1>9, <1>10

\* Spawn preserves the invariant.
LEMMA SpawnStep ==
  ASSUME DataInv, NEW t \in active, Spawn(t)
  PROVE  DataInv'
<1> DEFINE pos == at[t].pos
           j == (pos - Tuples(t) + 1) % part_count
           n == PartOf(t, j)
<1>1. /\ t.op = "scatter" /\ pos >= Tuples(t) /\ pos < Steps(t) /\ Pool!Accept(n)
      /\ at' = [at EXCEPT ![t].pos = pos + 1]
      /\ UNCHANGED <<args, mem, mpc, round, hist, result, built, calls, due>>
  BY DEF Spawn, mainVars, objVars
<1>2. TypeInv /\ PoolInv /\ FormInv /\ t \in Busy /\ t \in Work /\ pos \in Nat
  BY DEF DataInv, Busy, TypeInv
<1>3. Sized(t) /\ Tuples(t) \in Nat /\ pos + 1 \in Nat
  <2>1. 0 \in Nat
    OBVIOUS
  <2>2. Sized(t)
    BY <1>2, SizesOfTask
  <2>3. pos + 1 \in Nat
    BY <1>2
  <2>4. QED BY <2>1, <2>2, <2>3, BoundSteps
<1> HIDE DEF pos
<1>4. t.depth # 1 /\ Steps(t) = Tuples(t) + part_count
  <2>1. t.depth # 1
    BY <1>1, <1>2, <1>3 DEF Steps
  <2>2. QED BY <1>1, <2>1 DEF Steps
<1>5. Later /\ DeepForm(t)
  BY <1>2, <1>4, BusyTask, ChunkForm
<1>6. SplitAt(t, at[t].sum)
  <2>1. ~ (at[t].pos < Tuples(t))
    BY <1>1, <1>2, <1>3 DEF pos
  <2>2. QED BY <1>1, <1>4, <2>1 DEF DataInv, ScatterInv, Scattering
<1> DEFINE d == pos - Tuples(t)
<1>7. d \in Nat /\ d < part_count /\ (pos + 1) - Tuples(t) = d + 1 /\ j = (d + 1) % part_count
  BY <1>1, <1>2, <1>3, <1>4, PartsType
<1> HIDE DEF d
<1>8. /\ j \in Parts /\ Append(t.of, j) \in Children(t, d)
      /\ Children(t, d + 1) \subseteq Children(t, d) /\ Append(t.of, j) \notin Children(t, d + 1)
  BY <1>5, <1>7, ChildrenType DEF DeepForm
<1> HIDE DEF j
<1>9. n \in Work /\ DeepForm(n) /\ n.op # "scatter" /\ n.of = Append(t.of, j)
  BY <1>1, <1>2, <1>5, <1>6, <1>8, PartTask
<1> HIDE DEF n
<1>10. t \notin Pool!Queued
  BY <1>2 DEF PoolInv
<1>11. Owned(t) = Children(t, d)
  <2>1. ~ Reading(t) /\ at[t].pos - Tuples(t) = d
    BY <1>1, <1>2, <1>3 DEF Reading, pos, d
  <2>2. QED BY <1>1, <1>4, <1>10, <2>1 DEF Owned
<1>12. Owned(t)' = Children(t, d + 1)
  <2>1. at'[t].pos = pos + 1 /\ UNCHANGED <<active, finished>> /\ (Pool!Queued)' = Pool!Queued \cup {n} /\ n \notin Known
    BY <1>1, <1>2, <1>3, <1>9, StepAt, Accepting
  <2>2. ~ Reading(t)' /\ at'[t].pos - Tuples(t) = d + 1
    BY <1>1, <1>2, <1>3, <1>7, <2>1 DEF Reading, Tuples
  <2>3. t \in active' /\ t \notin (Pool!Queued)'
    BY <1>10, <2>1 DEF Known, Busy
  <2>4. \A m : Children(t, m)' = Children(t, m)
    BY DEF Children, part_count
  <2>5. QED BY <1>1, <1>4, <2>2, <2>3, <2>4, StepsFrame DEF Owned
<1>13. pos + 1 <= Steps(t) /\ Tuples(t) <= pos + 1 /\ t.op # "join"
  BY <1>1, <1>2, <1>3, <1>4, PartsType
<1>14. QED BY <1>1, <1>3, <1>5, <1>6, <1>8, <1>9, <1>11, <1>12, <1>13, SchedulingStep

--------------------------------------------------------------------------------
(* A join task. *)

\* Rows with the same key belong to the same part.
LEMMA SameMembers ==
  ASSUME ArgsInv, NEW m \in Pairs, SameKey(m), NEW p \in Seq(Parts)
  PROVE  m[1] \in Members("l", p) <=> m[2] \in Members("r", p)
<1>1. m[1] \in Rows("l") /\ m[2] \in Rows("r")
  BY DEF Pairs
<1>2. \A d : Digit("l", m[1], d) = Digit("r", m[2], d)
  BY SameDigits
<1>3. QED BY <1>1, <1>2 DEF Members, Digit

\* Join preserves the invariant.
LEMMA JoinStep ==
  ASSUME DataInv, NEW t \in active, Join(t)
  PROVE  DataInv'
<1> USE DEF DataInv
<1>1. /\ t.op = "join" /\ at[t].pos = 0
      /\ result' = [m \in Pairs |->
           result[m] + IF SameKey(m) THEN Held(t, "l", m[1]) * Held(t, "r", m[2]) ELSE 0]
      /\ at' = [at EXCEPT ![t].pos = 1]
      /\ UNCHANGED <<queue, active, finished, args, mem, mpc, round, hist, built, calls, due>>
      /\ UNCHANGED args
  BY DEF Join, poolVars, mainVars, objVars
<1>2. t \in Busy /\ t \in Known
  BY DEF Busy, Known
<1>3. Later /\ DeepForm(t)
  BY <1>1, <1>2, BusyTask, ChunkForm
<1>4. /\ (Pool!Queued)' = Pool!Queued /\ Busy' = Busy /\ Known' = Known
  BY <1>1, PoolFrame
<1>5. /\ at'[t].pos = 1 /\ at'[t].sum = at[t].sum /\ \A u \in active : u # t => at'[u] = at[u]
      /\ at' \in [active -> [pos : Nat, sum : [Sides -> [Parts -> Nat]]]]
  <2>1. 1 \in Nat
    OBVIOUS
  <2>2. QED BY <1>1, <2>1, StepAt
<1>6. ArgsInv /\ t.of \in Seq(Parts) /\ t.depth # 1
  <2>1. "l" \in Sides
    BY DEF Sides
  <2>2. QED BY <1>3, <2>1, DeepData DEF TypeInv
<1>7. \A u : Owned(u)' = Owned(u)
  <2>1. Owned(t) = {t.of} /\ Owned(t)' = {t.of}
    BY <1>1, <1>6 DEF Owned
  <2>2. ASSUME NEW u, u # t
        PROVE  Owned(u)' = Owned(u)
    <3>1. (u \in (Pool!Queued)' <=> u \in Pool!Queued) /\ (u \in active' <=> u \in active)
      BY <1>1, <1>4
    <3>2. u \in active => at'[u] = at[u]
      BY <1>5, <2>2
    <3>3. QED BY <3>1, <3>2, OwnedFrame
  <2>3. QED BY <2>1, <2>2
<1>8. OwnInv' /\ ContentInv'
  <2>1. MainOwned' = MainOwned
    BY <1>1 DEF MainOwned, part_count
  <2>2. Holdings' = Holdings
    BY <1>4, <1>7, <2>1 DEF Holdings
  <2>3. Later' <=> Later
    BY <1>1 DEF Later
  <2>4. QED BY <1>1, <2>2, <2>3, OwnersKept
<1>9. <<{t}, t.of>> \in Holdings
  <2>1. t.of \in Owned(t)
    BY <1>1, <1>6 DEF Owned
  <2>2. QED BY <1>2, <2>1, HoldingIs
<1>10. ASSUME NEW s \in Sides, NEW r
       PROVE  Held(t, s, r) = IF r \in Members(s, t.of) THEN 1 ELSE 0
  <2>1. Settled(mem, t.of)
    BY <1>3, <1>9 DEF ContentInv
  <2>2. Holds(mem[t.from][s], s, t.of)
    BY <1>3, <2>1 DEF Settled, DeepForm
  <2>3. Region(t, s) = Place(s, t.of)
    BY <1>3, <1>6, DeepData
  <2>4. Held(t, s, r) = Cardinality({i \in Place(s, t.of) : mem[t.from][s][i] = r})
    BY <2>3 DEF Held
  <2>5. QED BY <1>6, <2>2, <2>4, HeldOnce
<1>11. ASSUME NEW m \in Pairs
       PROVE  result'[m] = IF SameKey(m) /\ m[1] \in Members("l", t.of) THEN result[m] + 1 ELSE result[m]
  <2>1. result[m] \in Nat
    BY DEF TypeInv
  <2>2. result'[m] = result[m] + IF SameKey(m) THEN Held(t, "l", m[1]) * Held(t, "r", m[2]) ELSE 0
    BY <1>1
  <2>3. CASE ~ SameKey(m)
    BY <2>1, <2>2, <2>3
  <2>4. CASE SameKey(m)
    <3>1. m[1] \in Members("l", t.of) <=> m[2] \in Members("r", t.of)
      BY <1>6, <2>4, SameMembers
    <3>2. "l" \in Sides /\ "r" \in Sides
      BY DEF Sides
    <3>3. Held(t, "l", m[1]) = Held(t, "r", m[2]) /\ Held(t, "l", m[1]) = IF m[1] \in Members("l", t.of) THEN 1 ELSE 0
      BY <1>10, <3>1, <3>2
    <3>4. CASE m[1] \in Members("l", t.of)
      <4>1. Held(t, "l", m[1]) = 1 /\ Held(t, "r", m[2]) = 1
        BY <3>3, <3>4
      <4>2. QED BY <2>1, <2>2, <2>4, <3>4, <4>1
    <3>5. CASE m[1] \notin Members("l", t.of)
      <4>1. Held(t, "l", m[1]) = 0 /\ Held(t, "r", m[2]) = 0
        BY <3>3, <3>5
      <4>2. QED BY <2>1, <2>2, <2>4, <3>5, <4>1
    <3>6. QED BY <3>4, <3>5
  <2>5. QED BY <2>3, <2>4
<1>12. ASSUME NEW r, InJoined(r)
       PROVE  r \notin Members("l", t.of)
  <2>1. PICK u \in Known : Joined(u) /\ r \in Members("l", u.of)
    BY <1>12 DEF InJoined
  <2>2. u # t
    BY <1>1, <2>1 DEF Joined, PoolInv, Busy
  <2>3. u.op = "join" /\ u.depth # 1 /\ DeepForm(u)
    BY <1>3, <2>1 DEF Joined, FormInv
  <2>4. <<{u}, u.of>> \in Holdings
    <3>1. u.of \in Owned(u)
      BY <2>3 DEF Owned
    <3>2. QED BY <3>1, HoldingIs
  <2>5. <<{u}, u.of>> # <<{t}, t.of>>
    BY <2>2
  <2>6. Apart(u.of, t.of)
    <3> DEFINE x == <<{u}, u.of>>
               y == <<{t}, t.of>>
    <3>1. x \in Holdings /\ y \in Holdings /\ x # y /\ x[2] = u.of /\ y[2] = t.of
      BY <1>9, <2>4, <2>5
    <3> HIDE DEF x, y
    <3>2. Apart(x[2], y[2])
      BY <1>3, <3>1 DEF OwnInv, AllApart
    <3>3. QED BY <3>1, <3>2
  <2>7. Members("l", u.of) \cap Members("l", t.of) = {}
    <3>1. "l" \in Sides /\ u.of \in Seq(Parts)
      BY <2>3 DEF Sides, DeepForm
    <3>2. QED BY <1>6, <2>6, <3>1, ApartParts
  <2>8. QED BY <2>1, <2>7
<1>13. ASSUME NEW r
       PROVE  InJoined(r)' <=> InJoined(r) \/ r \in Members("l", t.of)
  <2>1. Joined(t)' /\ ~ Joined(t)
    BY <1>1, <1>5 DEF Joined, PoolInv, Busy
  <2>2. \A u : u # t => (Joined(u)' <=> Joined(u))
    BY <1>1, <1>5 DEF Joined
  <2>3. InJoined(r)' <=> \E u \in Known : Joined(u)' /\ r \in Members("l", u.of)
    BY <1>1, <1>4, Frame DEF InJoined
  <2>4. QED BY <1>2, <2>1, <2>2, <2>3 DEF InJoined
<1>14. Pairs' = Pairs /\ \A m : SameKey(m)' <=> SameKey(m)
  BY <1>1, Frame DEF Pairs, SameKey, args
<1>15. ResultInv'
  <2>1. mpc # "idle" /\ mpc' # "idle"
    BY <1>1, <1>3 DEF Later
  <2>2. due \in Nat
    BY DEF TypeInv
  <2>3. ASSUME NEW m \in Pairs
        PROVE  result'[m] = IF ~ SameKey(m) THEN 0 ELSE IF InJoined(m[1])' THEN due + 1 ELSE due
    <3>1. result[m] = IF ~ SameKey(m) THEN 0 ELSE IF InJoined(m[1]) THEN due + 1 ELSE due
      BY <2>1 DEF ResultInv
    <3>2. CASE ~ SameKey(m)
      BY <1>11, <3>1, <3>2
    <3>3. CASE SameKey(m) /\ m[1] \in Members("l", t.of)
      BY <1>11, <1>12, <1>13, <2>2, <3>1, <3>3
    <3>4. CASE SameKey(m) /\ m[1] \notin Members("l", t.of)
      BY <1>11, <1>13, <3>1, <3>4
    <3>5. QED BY <3>2, <3>3, <3>4
  <2>4. built' <=> mpc' \in {"wait", "finish"} \/ due' > 0
    BY <1>1 DEF ResultInv
  <2>5. due' = due
    BY <1>1
  <2>6. QED BY <1>14, <2>1, <2>3, <2>4, <2>5 DEF ResultInv
<1>16. TypeInv'
  <2>1. result' \in [Pairs -> Nat]
    <3>1. \A m \in Pairs : result[m] \in Nat
      BY DEF TypeInv
    <3>2. \A m \in Pairs : result'[m] \in Nat
      BY <1>11, <3>1
    <3>3. QED BY <1>1, <3>2
  <2>2. QED BY <1>1, <1>5, <2>1, TypesKept DEF TypeInv
<1>17. PoolInv'
  BY <1>1, <1>4 DEF PoolInv
<1>18. FormInv'
  BY <1>1, <1>4, FormKept
<1>19. HistInv'
  <2>1. mpc # "partition"
    BY <1>3 DEF Later
  <2>2. UNCHANGED mem["input"]
    BY <1>1
  <2>3. QED BY <1>1, <2>1, <2>2, HistogramsKept
<1>20. ScatterInv'
  <2>1. \A u \in (Pool!Queued)' : u.op = "scatter" => SumsAt(u, mem', u.sum, 0)
    BY <1>1, <1>4 DEF ScatterInv
  <2>2. \A u \in active' : u.op = "scatter" => Scattering(u, at'[u], mem')
    BY <1>1, <1>5 DEF ScatterInv
  <2>3. mpc' # "scatter"
    BY <1>1, <1>3 DEF Later
  <2>4. QED BY <1>1, <2>1, <2>2, <2>3, Frame DEF ScatterInv
<1>21. ActiveInv'
  <2>1. Steps(t) = 1
    BY <1>1 DEF Steps
  <2>2. ASSUME NEW u \in active
        PROVE  at'[u].pos <= Steps(u) /\ (u.op # "scatter" => at'[u].sum = NoSums)
    BY <1>5, <2>1 DEF ActiveInv
  <2>3. QED BY <1>1, <2>2, StepsFrame DEF ActiveInv
<1>22. LeafInv'
  BY <1>1, LeavesKept
<1>23. QED BY <1>8, <1>15, <1>16, <1>17, <1>18, <1>19, <1>20, <1>21, <1>22

--------------------------------------------------------------------------------
(* A scatter task moves a tuple. *)

\* The step in the terms of the invariant.  s is the side, i the place the tuple comes
\* from, q its part and w the place it goes to.
Moves(t, n, s, i, q, w) ==
  /\ s \in Sides /\ i = Bound(t, s, n) /\ i \in Region(t, s) /\ i \in Place(s, Path(t))
  /\ q \in Parts /\ w = Dest(mem[t.from][s], s, Path(t), i) /\ w \in Place(s, Path(t))
  /\ Written(mem, mem', Other(t.from), s, w, mem[t.from][s][i]) /\ ArraysOK(mem')
  /\ at'[t].pos = n + 1
  /\ SumsAt(t, mem', at'[t].sum, n + 1) /\ MovedAt(t, mem', n + 1)

\* What a step of Scatter is, in terms of destinations.
LEMMA ScatterForm ==
  ASSUME DataInv, NEW t \in active, Scatter(t)
  PROVE  /\ \E s, i, q, w : Moves(t, at[t].pos, s, i, q, w)
         /\ at' \in [active -> [pos : Nat, sum : [Sides -> [Parts -> Nat]]]]
         /\ \A u \in active : u # t => at'[u] = at[u]
         /\ SumsAt(t, mem', t.sum, 0)
<1> USE DEF DataInv
<1> DEFINE n == at[t].pos
           sum == at[t].sum
           s == SideAt(t, n)
           i == Bound(t, s, n)
           q == Key(mem[t.from][s], s, Path(t), i)
           w == Offset(s, Path(t)) + sum[s][q]
           v == mem[t.from][s][i]
           sum2 == [sum EXCEPT ![s][q] = @ + 1]
<1>1. /\ t \in Busy /\ n \in Nat /\ sum \in [Sides -> [Parts -> Nat]]
      /\ t.op = "scatter" /\ n < Tuples(t)
  BY DEF TypeInv, Busy, Scatter
<1>2. Sized(t) /\ \A x \in Sides : t.to[x] = Offset(x, Path(t))
  BY <1>1, SizesOfTask
<1>3. ArgsInv /\ ArraysOK(mem) /\ UNCHANGED args
  BY DEF TypeInv, ArraysOK, Scatter
<1>4. SumsAt(t, mem, t.sum, 0) /\ SumsAt(t, mem, sum, n) /\ MovedAt(t, mem, n)
  BY <1>1 DEF ScatterInv, Scattering
<1>5. /\ s \in Sides /\ i \in Region(t, s) /\ i \in Place(s, Path(t)) /\ NextSide(t) = s /\ NextPlace(t) = i
  <2>1. /\ s \in Sides /\ i \in Region(t, s)
        /\ i = t.base[s] + n - (IF s = "l" THEN 0 ELSE t.size["l"])
    BY <1>1, <1>2, BoundSteps
  <2>2. NextSide(t) = s
    BY DEF NextSide, SideAt
  <2>3. NextPlace(t) = i
    BY <2>1, <2>2 DEF NextPlace
  <2>4. i \in Place(s, Path(t))
    BY <1>2, <2>1 DEF Sized
  <2>5. QED BY <2>1, <2>2, <2>3, <2>4
<1>6. PartAt(t, NextSide(t), NextPlace(t)) = q
  <2>1. t.depth = Len(Path(t)) + 1
    BY <1>2 DEF Sized
  <2>2. QED BY <1>5, <2>1 DEF PartAt, Key, Digit
<1>7. /\ mem' = [mem EXCEPT ![Other(t.from)][s][w] = v]
      /\ at' = [at EXCEPT ![t].pos = @ + 1, ![t].sum[s][q] = @ + 1]
  <2>1. t.to[s] = Offset(s, Path(t))
    BY <1>2, <1>5
  <2> DEFINE ns == NextSide(t)
             np == NextPlace(t)
             pa == PartAt(t, ns, np)
  <2>2. ns = s /\ np = i /\ pa = q
    BY <1>5, <1>6
  <2>3. /\ mem' = [mem EXCEPT ![Other(t.from)][ns][t.to[ns] + at[t].sum[ns][pa]] = mem[t.from][ns][np]]
        /\ at' = [at EXCEPT ![t].pos = @ + 1, ![t].sum[ns][pa] = @ + 1]
    BY DEF Scatter
  <2> HIDE DEF ns, np, pa
  <2>4. QED BY <2>1, <2>2, <2>3
<1>8. t.from \in Arrays /\ Other(t.from) \in Arrays /\ Path(t) \in Seq(Parts)
  BY <1>2, OtherArray DEF Sized
<1>9. v \in Rows(s) \cup {NoRow}
  <2>1. Typed(mem[t.from][s], s)
    BY <1>3, <1>5, <1>8 DEF ArraysOK
  <2>2. i \in 0 .. (Len(rel[s]) - 1)
    BY <1>3, <1>5, <1>8, PartType
  <2>3. QED BY <2>1, <2>2 DEF Typed
<1> DEFINE b == Other(t.from)
<1>10. Written(mem, mem', b, s, w, v) /\ ArraysOK(mem')
  <2>1. b \in Arrays /\ mem' = [mem EXCEPT ![b][s][w] = v]
    BY <1>7, <1>8
  <2> HIDE DEF b, v, w, s
  <2>2. QED BY <1>3, <1>5, <1>9, <2>1, WrittenArrays
<1>11. q \in Parts
  <2>1. Typed(mem[t.from][s], s)
    BY <1>3, <1>5, <1>8 DEF ArraysOK
  <2>2. QED BY <1>3, <1>5, <1>8, <2>1, KeyType
<1>12. /\ at'[t].pos = n + 1 /\ at'[t].sum = sum2 /\ \A u \in active : u # t => at'[u] = at[u]
       /\ at' \in [active -> [pos : Nat, sum : [Sides -> [Parts -> Nat]]]]
  <2> DEFINE T == [Sides -> [Parts -> Nat]]
             e == [at[t] EXCEPT !.pos = n + 1, !.sum = sum2]
  <2>1. at \in [active -> [pos : Nat, sum : T]]
    BY DEF TypeInv
  <2>2. at' = [at EXCEPT ![t] = [at[t] EXCEPT !.pos = @ + 1, !.sum[s][q] = @ + 1]]
    BY <1>7
  <2>3. at[t] \in [pos : Nat, sum : T] /\ DOMAIN at = active
    BY <2>1
  <2> DEFINE g == [at[t] EXCEPT !.pos = @ + 1, !.sum[s][q] = @ + 1]
  <2>5. g = e
    OBVIOUS
  <2>6. sum2 \in T
    <3> HIDE DEF s, q, sum
    <3>1. sum[s] \in [Parts -> Nat] /\ sum[s][q] + 1 \in Nat
      BY <1>1, <1>5, <1>11
    <3>2. [sum[s] EXCEPT ![q] = @ + 1] \in [Parts -> Nat]
      BY <3>1, <1>11
    <3>3. sum2 = [sum EXCEPT ![s] = [sum[s] EXCEPT ![q] = @ + 1]]
      OBVIOUS
    <3>4. QED BY <1>1, <3>2, <3>3
  <2>7. e \in [pos : Nat, sum : T] /\ e.pos = n + 1 /\ e.sum = sum2
    <3>1. n + 1 \in Nat
      BY <1>1
    <3> HIDE DEF sum2, T, n
    <3>2. QED BY <2>3, <2>6, <3>1
  <2>8. at' = [at EXCEPT ![t] = e]
    BY <2>2, <2>5
  <2> HIDE DEF e, g, T, sum2, n
  <2>9. at'[t] = e /\ (\A u \in active : u # t => at'[u] = at[u]) /\ at' \in [active -> [pos : Nat, sum : T]]
    BY <2>1, <2>3, <2>7, <2>8
  <2>10. QED BY <2>7, <2>9 DEF T
<1>13. /\ w = Dest(mem[t.from][s], s, Path(t), i)
       /\ SumsAt(t, mem', sum2, n + 1) /\ MovedAt(t, mem', n + 1)
  <2> DEFINE m2 == mem'
             m == mem
  <2>1. /\ ArgsInv /\ Sized(t) /\ ArraysOK(m) /\ n \in Nat /\ n < Tuples(t)
        /\ sum \in [Sides -> [Parts -> Nat]] /\ SumsAt(t, m, sum, n) /\ MovedAt(t, m, n)
    BY <1>1, <1>2, <1>3, <1>4
  <2>2. /\ s = SideAt(t, n) /\ i = Bound(t, s, n) /\ q = Key(m[t.from][s], s, Path(t), i)
        /\ w = Offset(s, Path(t)) + sum[s][q] /\ sum2 = [sum EXCEPT ![s][q] = @ + 1]
    OBVIOUS
  <2>3. Written(m, m2, Other(t.from), s, w, m[t.from][s][i])
    BY <1>10
  <2>6. OneMove(t, n, s, i, q, w, m, m2, sum, sum2)
    BY <2>2, <2>3 DEF OneMove
  <2>4. w = Dest(m[t.from][s], s, Path(t), i) /\ SumsAt(t, m2, sum2, n + 1) /\ MovedAt(t, m2, n + 1)
    <3> HIDE DEF m2, m, n, sum, s, i, q, w, sum2, v, b
    <3>1. QED BY <2>1, <2>6, MovesOn
  <2>5. QED BY <2>4
<1>14. w \in Place(s, Path(t))
  <2>1. Typed(mem[t.from][s], s)
    BY <1>3, <1>5, <1>8 DEF ArraysOK
  <2>2. Dest(mem[t.from][s], s, Path(t), i) \in Place(s, Path(t))
    BY <1>3, <1>5, <1>8, <2>1, DestWithin
  <2>3. QED BY <1>13, <2>2
<1>15. SumsAt(t, mem', t.sum, 0)
  <2>1. t.from # Other(t.from)
    BY <1>8, OtherArray
  <2>2. ASSUME NEW x \in Sides
        PROVE  mem'[t.from][x] = mem[t.from][x]
    BY <1>8, <1>10, <2>1 DEF Written
  <2>3. QED BY <1>4, <2>2 DEF SumsAt
<1>16. Moves(t, n, s, i, q, w)
  <2> HIDE DEF n, sum, s, q, w, sum2
  <2>1. QED BY <1>5, <1>10, <1>11, <1>12, <1>13, <1>14 DEF Moves
<1>17. QED BY <1>12, <1>15, <1>16

\* A task gets the parts of its path for its path.
LEMMA OwnerDivided ==
  ASSUME AllApart(Holdings), \A z \in Holdings : z[2] \in Seq(Parts),
         NEW t, <<{t}, t.of>> \in Holdings,
         Known' = Known, MainOwned' = MainOwned, \A u : u # t => Owned(u)' = Owned(u),
         Owned(t)' = {Append(t.of, q) : q \in Parts}
  PROVE  /\ AllApart(Holdings)'
         /\ \A z \in Holdings' : \/ z \in Holdings /\ z # <<{t}, t.of>>
                                 \/ \E q \in Parts : z = <<{t}, Append(t.of, q)>>
<1>1. \A z \in Holdings' : \/ z \in Holdings /\ z # <<{t}, t.of>>
                           \/ \E q \in Parts : z = <<{t}, Append(t.of, q)>>
  <2>1. ASSUME NEW u \in Known', u # t
        PROVE  u \in Known /\ Owned(u)' \subseteq Owned(u)
    BY <2>1
  <2>2. MainOwned' \subseteq MainOwned
    OBVIOUS
  <2>3. \A z \in Holdings' : \/ z \in Holdings /\ z[1] # {t}
                             \/ t \in Known' /\ \E p \in Owned(t)' : z = <<{t}, p>>
    BY <2>1, <2>2, HoldingsStep
  <2>4. \A z : z[1] # {t} => z # <<{t}, t.of>>
    OBVIOUS
  <2>5. QED BY <2>3, <2>4
<1> DEFINE H == Holdings
           K == Holdings'
           x == <<{t}, t.of>>
<1>2. /\ x \in H /\ AllApart(H) /\ \A z \in H : z[2] \in Seq(Parts)
      /\ Divides(H, K, x, {t})
  BY <1>1 DEF Divides
<1>3. AllApart(K)
  <2> HIDE DEF H, K, x
  <2>1. QED BY <1>2, Divided
<1>4. AllApart(Holdings)'
  BY <1>3 DEF AllApart
<1>5. QED BY <1>1, <1>4

\* The sums depend on the array that the task reads.
LEMMA SumsFrame ==
  ASSUME NEW u, NEW m, NEW m2, \A x \in Sides : m2[u.from][x] = m[u.from][x]
  PROVE  \A sum, n : SumsAt(u, m, sum, n) => SumsAt(u, m2, sum, n)
BY DEF SumsAt

\* No place belongs to two chunks.
LEMMA ChunksApart ==
  ASSUME ArgsInv, NEW k \in Slots, NEW j \in Slots, k # j, NEW s \in Sides, NEW op,
         NEW i \in Region(Chunk(op, k), s)
  PROVE  i \notin Region(Chunk(op, j), s)
<1>1. threads \in Nat \ {0} /\ k \in Nat /\ j \in Nat /\ k < threads /\ j < threads
  BY DataAssumption DEF Slots
<1>2. /\ \A n \in 0 .. threads : Edge(s, n) \in Nat
      /\ \A a, b \in 0 .. threads : a <= b => Edge(s, a) <= Edge(s, b)
      /\ Region(Chunk(op, k), s) = Edge(s, k) .. (Edge(s, k + 1) - 1)
      /\ Region(Chunk(op, j), s) = Edge(s, j) .. (Edge(s, j + 1) - 1)
  BY ChunkEdges
<1>3. k \in 0 .. threads /\ j \in 0 .. threads /\ k + 1 \in 0 .. threads /\ j + 1 \in 0 .. threads
  BY <1>1
<1>4. CASE k < j
  <2>1. k + 1 <= j
    BY <1>1, <1>4
  <2>2. Edge(s, k + 1) <= Edge(s, j)
    BY <1>2, <1>3, <2>1
  <2>3. i < Edge(s, k + 1) /\ i \in Int /\ Edge(s, k + 1) \in Nat /\ Edge(s, j) \in Nat
    BY <1>2, <1>3
  <2>4. ~ (Edge(s, j) <= i)
    BY <2>2, <2>3
  <2>5. QED BY <1>2, <1>3, <2>4
<1>5. CASE j < k
  <2>1. j + 1 <= k
    BY <1>1, <1>5
  <2>2. Edge(s, j + 1) <= Edge(s, k)
    BY <1>2, <1>3, <2>1
  <2>3. Edge(s, k) <= i /\ i \in Int /\ Edge(s, j + 1) \in Nat /\ Edge(s, k) \in Nat
    BY <1>2, <1>3
  <2>4. ~ (i <= Edge(s, j + 1) - 1)
    BY <2>2, <2>3
  <2>5. QED BY <1>2, <1>3, <2>4
<1>6. QED BY <1>1, <1>4, <1>5

\* What has been moved lies in the region.
LEMMA BoundInRegion ==
  ASSUME NEW u, Sized(u), NEW n \in 0 .. Tuples(u), NEW s \in Sides
  PROVE  u.base[s] .. (Bound(u, s, n) - 1) \subseteq Region(u, s)
<1>1. Tuples(u) \in Nat
  <2>1. 0 \in Nat
    OBVIOUS
  <2>2. QED BY <2>1, BoundSteps
<1>2. n \in Nat /\ n <= Tuples(u)
  BY <1>1
<1>3. Bound(u, s, n) <= u.base[s] + u.size[s] /\ Bound(u, s, n) \in Nat
  BY <1>2, BoundSteps
<1>4. u.base[s] \in Nat /\ u.size[s] \in Nat
  BY DEF Sized
<1>5. QED BY <1>3, <1>4 DEF Region

\* A scatter task of the first round moves a tuple.
LEMMA FirstScatter ==
  ASSUME DataInv, NEW t \in active, t.op = "scatter", mpc = "scatter", UNCHANGED args,
         NEW n, n \in Nat, n < Tuples(t), NEW s, NEW i, NEW q, NEW w, Moves(t, n, s, i, q, w)
  PROVE  /\ UNCHANGED mem["input"] /\ t.depth = 1
         /\ \A x \in Sides : Holds(mem'["input"][x], x, <<>>)
         /\ \A u \in Pool!Queued : u.op = "scatter" => SumsAt(u, mem', u.sum, 0)
         /\ \A u \in active : u.op = "scatter" /\ u # t => Scattering(u, at[u], mem')
         /\ \A u \in finished : u.op = "scatter" => MovedAt(u, mem', Tuples(u))
<1> USE DEF DataInv
<1>1. /\ s \in Sides /\ i \in Region(t, s) /\ i \in Place(s, Path(t))
      /\ w = Dest(mem[t.from][s], s, Path(t), i)
      /\ Written(mem, mem', Other(t.from), s, w, mem[t.from][s][i]) /\ ArraysOK(mem')
  BY DEF Moves
<1>2. ArgsInv /\ ArraysOK(mem) /\ threads \in Nat /\ round \in Nat /\ round <= threads
  BY DataAssumption DEF TypeInv, ArraysOK, FormInv, SetUp
<1>3. PICK k \in Slots : t = Chunk("scatter", k)
  <2>1. t \in Busy
    BY DEF Busy
  <2>2. QED BY <2>1, BusyTask DEF Later
<1>4. t.from = "input" /\ Path(t) = <<>> /\ t.depth = 1 /\ Other(t.from) = "target"
  BY <1>3, ChunkForm, OtherArray
<1>5. \A x \in Sides : mem'["input"][x] = mem["input"][x]
  <2>1. "input" \in Arrays /\ "input" # "target"
    BY DEF Arrays
  <2>2. QED BY <1>1, <1>4, <2>1 DEF Written
<1>6. mem'["input"] = mem["input"]
  <2>1. "input" \in Arrays
    BY DEF Arrays
  <2>2. mem["input"] = [x \in Sides |-> mem["input"][x]] /\ mem'["input"] = [x \in Sides |-> mem'["input"][x]]
    BY <1>1, <1>2, <2>1 DEF ArraysOK
  <2>3. QED BY <1>5, <2>2
<1>7. \A x \in Sides : Holds(mem'["input"][x], x, <<>>)
  <2>1. ~ Later
    BY DEF Later
  <2>2. QED BY <1>6, <2>1 DEF ContentInv
<1>8. ASSUME NEW j \in Slots
      PROVE  /\ \A sum, o : SumsAt(Chunk("scatter", j), mem, sum, o) => SumsAt(Chunk("scatter", j), mem', sum, o)
             /\ \A o \in 0 .. Tuples(Chunk("scatter", j)) :
                  k # j /\ MovedAt(Chunk("scatter", j), mem, o) => MovedAt(Chunk("scatter", j), mem', o)
  <2> DEFINE u == Chunk("scatter", j)
  <2>1. u.from = "input" /\ Path(u) = <<>>
    BY ChunkForm
  <2>2. Sized(u)
    <3>1. \A x \in Sides : /\ Path(u) \in Seq(Parts) /\ u.depth = Len(Path(u)) + 1
                           /\ u.base[x] \in Nat /\ u.size[x] \in Nat
                           /\ Region(u, x) \subseteq Place(x, Path(u))
      BY <1>2, ChunkData
    <3>2. Sides # {}
      BY DEF Sides
    <3> HIDE DEF u
    <3>3. QED BY <2>1, <3>1, <3>2 DEF Sized, Arrays
  <2>3. ASSUME k # j
        PROVE  i \notin Region(u, s)
    BY <1>1, <1>2, <1>3, <2>3, ChunksApart
  <2> HIDE DEF u
  <2>4. \A sum, o : SumsAt(u, mem, sum, o) => SumsAt(u, mem', sum, o)
    BY <1>5, <2>1, SumsFrame
  <2>5. ASSUME NEW o \in 0 .. Tuples(u), k # j, MovedAt(u, mem, o)
        PROVE  MovedAt(u, mem', o)
    <3>1. i \notin u.base[s] .. (Bound(u, s, o) - 1)
      BY <1>1, <2>2, <2>3, <2>5, BoundInRegion
    <3> DEFINE v == mem[t.from][s][i]
               m2 == mem'
    <3>2. i \in Place(s, Path(u)) /\ w = Dest(mem[u.from][s], s, Path(u), i) /\ Written(mem, m2, Other(u.from), s, w, v)
      BY <1>1, <1>4, <2>1
    <3> HIDE DEF v, m2
    <3>3. MovedAt(u, m2, o)
      BY <1>1, <1>2, <2>2, <2>5, <3>1, <3>2, MovedFrame
    <3>4. QED BY <3>3 DEF m2
  <2>6. QED BY <2>4, <2>5 DEF u
<1>9. ASSUME NEW u \in Busy
      PROVE  \E j \in Slots : u = Chunk("scatter", j)
  BY BusyTask DEF Later
<1>10. ASSUME NEW u \in Pool!Queued, u.op = "scatter"
       PROVE  SumsAt(u, mem', u.sum, 0)
  <2>1. \E j \in Slots : u = Chunk("scatter", j)
    BY <1>9 DEF Busy
  <2>2. SumsAt(u, mem, u.sum, 0)
    BY <1>10 DEF ScatterInv
  <2>3. QED BY <1>8, <2>1, <2>2
<1>11. ASSUME NEW u \in active, u.op = "scatter", u # t
       PROVE  Scattering(u, at[u], mem')
  <2>1. PICK j \in Slots : u = Chunk("scatter", j)
    BY <1>9 DEF Busy
  <2>2. k # j /\ u.depth = 1
    BY <1>3, <1>11, <2>1, ChunkForm
  <2>3. SumsAt(u, mem, u.sum, 0) /\ SumsAt(u, mem, at[u].sum, at[u].pos) /\ MovedAt(u, mem, at[u].pos)
    BY <1>11, <2>2 DEF ScatterInv, Scattering
  <2>4. at[u].pos \in 0 .. Tuples(u)
    <3>1. at[u].pos \in Nat /\ at[u].pos <= Steps(u) /\ u \in Busy /\ 0 \in Nat
      BY DEF TypeInv, ActiveInv, Busy
    <3>2. Tuples(u) \in Nat
      BY <3>1, SizesOfTask, BoundSteps
    <3>3. Steps(u) = Tuples(u)
      BY <1>11, <2>2 DEF Steps
    <3>4. QED BY <3>1, <3>2, <3>3
  <2>5. SumsAt(u, mem', u.sum, 0) /\ SumsAt(u, mem', at[u].sum, at[u].pos) /\ MovedAt(u, mem', at[u].pos)
    BY <1>8, <2>1, <2>2, <2>3, <2>4
  <2>6. QED BY <2>2, <2>5 DEF Scattering
<1>12. ASSUME NEW u \in finished, u.op = "scatter"
       PROVE  MovedAt(u, mem', Tuples(u))
  <2>1. u \in Chunks("partition", threads) \cup Chunks("scatter", threads)
    BY DEF FormInv
  <2>2. PICK j \in 0 .. (threads - 1) : u = Chunk("scatter", j)
    BY <1>12, <2>1, ChunkForm DEF Chunks
  <2>3. j \in Slots
    BY DEF Slots
  <2>4. k # j
    BY <1>3, <2>2 DEF PoolInv, Busy
  <2>5. MovedAt(u, mem, Tuples(u))
    BY <1>12 DEF ScatterInv
  <2>6. Tuples(u) \in 0 .. Tuples(u)
    <3>1. "l" \in Sides /\ "r" \in Sides
      BY DEF Sides
    <3>2. u.size["l"] \in Nat /\ u.size["r"] \in Nat
      BY <1>2, <2>2, <2>3, <3>1, ChunkData
    <3>3. Tuples(u) \in Nat
      BY <3>2 DEF Tuples
    <3>4. QED BY <3>3
  <2>7. QED BY <1>8, <2>2, <2>3, <2>4, <2>5, <2>6
<1>13. QED BY <1>4, <1>6, <1>7, <1>10, <1>11, <1>12

\* A scatter task of a later round moves a tuple.
LEMMA DeepScatter ==
  ASSUME DataInv, NEW t \in active, t.op = "scatter", Later, UNCHANGED args,
         NEW n, n = at[t].pos, n < Tuples(t), NEW s, NEW i, NEW q, NEW w, Moves(t, n, s, i, q, w)
  PROVE  /\ DeepForm(t) /\ <<{t}, t.of>> \in Holdings
         /\ \A z \in Holdings : Settled(mem', z[2])
         /\ \A u \in Pool!Queued : u.op = "scatter" => SumsAt(u, mem', u.sum, 0)
         /\ \A u \in active : u.op = "scatter" /\ u # t => Scattering(u, at[u], mem')
         /\ n + 1 = Tuples(t) => /\ SplitAt(t, at'[t].sum)
                                 /\ \A k \in Parts : Settled(mem', Append(t.of, k))
<1> USE DEF DataInv
<1>1. /\ s \in Sides /\ i \in Region(t, s) /\ i \in Place(s, Path(t)) /\ w \in Place(s, Path(t))
      /\ Written(mem, mem', Other(t.from), s, w, mem[t.from][s][i]) /\ ArraysOK(mem')
  BY DEF Moves
<1>2. ArgsInv /\ ArraysOK(mem)
  BY DEF TypeInv, ArraysOK
<1>3. t \in Busy /\ t \in Known
  BY DEF Busy, Known
<1>4. DeepForm(t)
  BY <1>3, BusyTask DEF Later
<1>5. /\ t.of \in Seq(Parts) /\ t.depth # 1 /\ Path(t) = t.of /\ Len(t.of) < passes
      /\ t.from = ArrayOf(t.of) /\ t.from \in Arrays /\ Other(t.from) \in Arrays
  <2>1. "l" \in Sides
    BY DEF Sides
  <2>2. t.of \in Seq(Parts) /\ t.depth # 1 /\ Path(t) = t.of
    BY <1>2, <1>4, <2>1, DeepData
  <2>3. t.depth = Len(t.of) + 1 /\ t.depth \in 2 .. (passes + 1) /\ t.depth # passes + 1 /\ t.from = ArrayOf(t.of)
    BY <1>4 DEF DeepForm
  <2>4. passes \in Nat /\ Len(t.of) \in Nat
    BY <1>2, <2>2, RowsType, PathType
  <2>5. QED BY <2>2, <2>3, <2>4, OtherArray
<1>6. <<{t}, t.of>> \in Holdings
  <2>1. Reading(t)
    BY DEF Reading
  <2>2. t.of \in Owned(t)
    BY <1>5, <2>1 DEF Owned
  <2>3. QED BY <1>3, <2>2, HoldingIs
<1>7. ASSUME NEW z \in Holdings
      PROVE  z[2] \in Seq(Parts) /\ (z[2] = t.of \/ Apart(t.of, z[2])) /\ Settled(mem, z[2])
  <2>1. z[2] \in Seq(Parts)
    BY HoldingPaths
  <2>2. Settled(mem, z[2])
    BY DEF ContentInv
  <2>3. z # <<{t}, t.of>> => Apart(t.of, z[2])
    <3> DEFINE x == <<{t}, t.of>>
    <3>1. x \in Holdings /\ x[2] = t.of
      BY <1>6
    <3> HIDE DEF x
    <3>2. z # x => Apart(x[2], z[2])
      BY <3>1 DEF OwnInv, AllApart
    <3>3. QED BY <3>1, <3>2 DEF x
  <2>4. QED BY <2>1, <2>2, <2>3
<1> DEFINE m2 == mem'
           v == mem[t.from][s][i]
<1>8. /\ ArraysOK(m2) /\ Written(mem, m2, Other(ArrayOf(t.of)), s, w, v) /\ w \in Place(s, t.of)
      /\ Written(mem, m2, Other(t.from), s, w, v)
  BY <1>1, <1>5
<1>9. ASSUME NEW z \in Holdings
      PROVE  Settled(m2, z[2])
  <2> DEFINE p == z[2]
  <2>1. p \in Seq(Parts) /\ (p = t.of \/ Apart(t.of, p)) /\ Settled(mem, p)
    BY <1>7
  <2> HIDE DEF p, m2, v
  <2>2. Settled(m2, p)
    BY <1>1, <1>2, <1>5, <1>8, <2>1, SettledFrame
  <2>3. QED BY <2>2 DEF p
<1>10. ASSUME NEW u \in Busy, u # t, <<{u}, u.of>> \in Holdings
       PROVE  /\ \A sum, o : SumsAt(u, mem, sum, o) => SumsAt(u, m2, sum, o)
              /\ \A o \in 0 .. Tuples(u) : MovedAt(u, mem, o) => MovedAt(u, m2, o)
  <2>1. DeepForm(u) /\ Sized(u)
    BY SizesOfTask, BusyTask DEF Later
  <2>2. Path(u) = u.of /\ u.of \in Seq(Parts)
    <3>1. "l" \in Sides
      BY DEF Sides
    <3>2. QED BY <1>2, <2>1, <3>1, DeepData
  <2>3. Apart(t.of, u.of)
    <3> DEFINE x == <<{t}, t.of>>
               y == <<{u}, u.of>>
    <3>1. x \in Holdings /\ y \in Holdings /\ x[2] = t.of /\ y[2] = u.of /\ x # y
      <4>1. {u} # {t}
        BY <1>10
      <4>2. QED BY <1>6, <1>10, <4>1
    <3> HIDE DEF x, y
    <3>2. Apart(x[2], y[2])
      BY <3>1 DEF OwnInv, AllApart
    <3>3. QED BY <3>1, <3>2
  <2> DEFINE b == Other(t.from)
             p == u.of
             o == t.of
  <2>4. /\ b \in Arrays /\ o \in Seq(Parts) /\ w \in Place(s, o) /\ Written(mem, m2, b, s, w, v)
        /\ p \in Seq(Parts) /\ Apart(o, p)
    BY <1>5, <1>8, <2>2, <2>3
  <2> HIDE DEF b, p, o, m2, v
  <2>5. \A a \in Arrays, x \in Sides : \A j \in Place(x, p) : m2[a][x][j] = mem[a][x][j]
    BY <1>1, <1>2, <2>4, WriteApart
  <2>6. \A a \in Arrays, x \in Sides : \A j \in Place(x, Path(u)) : m2[a][x][j] = mem[a][x][j]
    BY <2>2, <2>5 DEF p
  <2>7. QED BY <1>2, <1>8, <2>1, <2>6, ScatterFrame
<1>11. ASSUME NEW u \in Pool!Queued, u.op = "scatter"
       PROVE  SumsAt(u, m2, u.sum, 0)
  <2>1. u \in Busy /\ u \in Known /\ u # t
    BY DEF Busy, Known, PoolInv
  <2>2. u.depth # 1
    <3>1. DeepForm(u) /\ "l" \in Sides
      BY <2>1, BusyTask DEF Later, Sides
    <3>2. QED BY <1>2, <3>1, DeepData
  <2>3. u.of \in Owned(u)
    BY <2>2 DEF Owned
  <2>4. <<{u}, u.of>> \in Holdings
    BY <2>1, <2>3, HoldingIs
  <2>5. SumsAt(u, mem, u.sum, 0)
    BY <1>11 DEF ScatterInv
  <2> HIDE DEF m2
  <2>6. QED BY <1>10, <2>1, <2>4, <2>5
<1>12. ASSUME NEW u \in active, u.op = "scatter", u # t
       PROVE  Scattering(u, at[u], m2)
  <2>1. u \in Busy /\ u \in Known /\ at[u].pos \in Nat
    BY DEF Busy, Known, TypeInv
  <2>2. u.depth # 1
    <3>1. DeepForm(u) /\ "l" \in Sides
      BY <2>1, BusyTask DEF Later, Sides
    <3>2. QED BY <1>2, <3>1, DeepData
  <2>3. Scattering(u, at[u], mem)
    BY <1>12 DEF ScatterInv
  <2>4. CASE at[u].pos < Tuples(u)
    <3>1. Reading(u)
      BY <1>12, <2>4 DEF Reading
    <3>2. u.of \in Owned(u)
      BY <2>2, <3>1 DEF Owned
    <3>3. <<{u}, u.of>> \in Holdings
      BY <2>1, <3>2, HoldingIs
    <3>4. Tuples(u) \in Nat
      <4>1. 0 \in Nat
        OBVIOUS
      <4>2. QED BY <2>1, <4>1, SizesOfTask, BoundSteps
    <3>5. at[u].pos \in 0 .. Tuples(u)
      BY <2>1, <2>4, <3>4
    <3>6. SumsAt(u, mem, u.sum, 0) /\ SumsAt(u, mem, at[u].sum, at[u].pos) /\ MovedAt(u, mem, at[u].pos)
      BY <2>3, <2>4 DEF Scattering
    <3> HIDE DEF m2
    <3>7. SumsAt(u, m2, u.sum, 0) /\ SumsAt(u, m2, at[u].sum, at[u].pos) /\ MovedAt(u, m2, at[u].pos)
      BY <1>10, <1>12, <2>1, <3>3, <3>5, <3>6
    <3>8. QED BY <2>4, <3>7 DEF Scattering
  <2>5. CASE ~ (at[u].pos < Tuples(u))
    BY <2>2, <2>3, <2>5 DEF Scattering
  <2>6. QED BY <2>4, <2>5
<1>13. ASSUME n + 1 = Tuples(t)
       PROVE  SplitAt(t, at'[t].sum) /\ \A k \in Parts : Settled(m2, Append(t.of, k))
  <2> DEFINE z == <<{t}, t.of>>
  <2>1. Settled(m2, t.of)
    <3>1. z \in Holdings /\ z[2] = t.of
      BY <1>6
    <3> HIDE DEF z, m2
    <3>2. Settled(m2, z[2])
      BY <1>9, <3>1
    <3>3. QED BY <3>1, <3>2
  <2> DEFINE sum == at'[t].sum
  <2>2. SumsAt(t, m2, sum, Tuples(t)) /\ MovedAt(t, m2, Tuples(t))
    BY <1>13 DEF Moves
  <2> HIDE DEF m2, sum
  <2>3. \A x \in Sides : Holds(m2[t.from][x], x, t.of)
    BY <1>5, <2>1 DEF Settled
  <2>4. SplitAt(t, sum) /\ \A k \in Parts : Settled(m2, Append(t.of, k))
    BY <1>2, <1>4, <1>8, <2>2, <2>3, PassEnd
  <2>5. QED BY <2>4 DEF sum
<1>14. QED BY <1>4, <1>6, <1>9, <1>11, <1>12, <1>13

\* Scatter preserves the invariant.
LEMMA ScatterStep ==
  ASSUME DataInv, NEW t \in active, Scatter(t)
  PROVE  DataInv'
<1> USE DEF DataInv
<1>1. /\ t.op = "scatter" /\ at[t].pos < Tuples(t)
      /\ UNCHANGED <<queue, active, finished, args, mpc, round, hist, result, built, calls, due>>
      /\ UNCHANGED args /\ t \in Busy /\ t \in Known
  BY DEF Scatter, poolVars, mainVars, objVars, Busy, Known
<1>2. /\ at' \in [active -> [pos : Nat, sum : [Sides -> [Parts -> Nat]]]]
      /\ \A u \in active : u # t => at'[u] = at[u]
      /\ SumsAt(t, mem', t.sum, 0)
  BY ScatterForm
<1> DEFINE n == at[t].pos
<1>3. PICK s, i, q, w : Moves(t, n, s, i, q, w)
  BY ScatterForm
<1>4. /\ n \in Nat /\ n < Tuples(t) /\ Tuples(t) \in Nat
      /\ ArraysOK(mem') /\ at'[t].pos = n + 1
      /\ SumsAt(t, mem', at'[t].sum, n + 1) /\ MovedAt(t, mem', n + 1)
  <2>1. n \in Nat /\ 0 \in Nat
    BY DEF TypeInv
  <2>2. Tuples(t) \in Nat
    BY <1>1, <2>1, SizesOfTask, BoundSteps
  <2>3. QED BY <1>1, <1>3, <2>1, <2>2 DEF Moves
<1>5. n = at[t].pos
  OBVIOUS
<1> HIDE DEF n
<1>6. /\ (Pool!Queued)' = Pool!Queued /\ Busy' = Busy /\ Known' = Known
  BY <1>1, PoolFrame
<1>7. mpc = "scatter" \/ Later
  BY <1>1, BusyTask, ChunkForm
<1>8. TypeInv'
  <2>1. mem' = [a \in Arrays |-> [x \in Sides |-> mem'[a][x]]] /\ \A a \in Arrays, x \in Sides : Typed(mem'[a][x], x)
    BY <1>4 DEF ArraysOK
  <2>2. (\A a \in Arrays, x \in Sides : Typed(mem[a][x], x))'
    BY <1>1, <2>1, Frame
  <2>3. ArgsInv' /\ Pairs' = Pairs
    BY <1>1, Frame DEF TypeInv, Pairs
  <2>4. QED BY <1>1, <1>2, <2>1, <2>2, <2>3 DEF TypeInv
<1>9. PoolInv'
  BY <1>1, <1>6 DEF PoolInv
<1>10. FormInv'
  BY <1>1, <1>6, FormKept
<1>11. HistInv'
  <2>1. mpc # "partition"
    BY <1>7 DEF Later
  <2>2. ASSUME SetUp
        PROVE  UNCHANGED mem["input"]
    <3>1. mpc = "scatter"
      BY <2>1, <2>2 DEF SetUp
    <3>2. QED BY <1>1, <1>3, <1>4, <3>1, FirstScatter
  <2>3. QED BY <1>1, <2>1, <2>2, HistogramsKept
<1>12. ScatterInv'
  <2>1. \A u \in Pool!Queued : u.op = "scatter" => SumsAt(u, mem', u.sum, 0)
    BY <1>1, <1>3, <1>4, <1>5, <1>7, FirstScatter, DeepScatter
  <2>2. \A u \in active : u.op = "scatter" /\ u # t => Scattering(u, at[u], mem')
    BY <1>1, <1>3, <1>4, <1>5, <1>7, FirstScatter, DeepScatter
  <2>3. Scattering(t, at'[t], mem')
    <3>1. CASE t.depth = 1 \/ n + 1 < Tuples(t)
      BY <1>2, <1>4, <3>1 DEF Scattering
    <3>2. CASE t.depth # 1 /\ ~ (n + 1 < Tuples(t))
      <4>1. n + 1 = Tuples(t)
        BY <1>4, <3>2
      <4>2. Later
        BY <1>1, <1>3, <1>4, <1>7, <3>2, FirstScatter
      <4>3. SplitAt(t, at'[t].sum)
        BY <1>1, <1>3, <1>4, <1>5, <4>1, <4>2, DeepScatter
      <4>4. ~ (at'[t].pos < Tuples(t))
        BY <1>4, <4>1
      <4>5. QED BY <3>2, <4>3, <4>4 DEF Scattering
    <3>3. QED BY <3>1, <3>2
  <2>4. mpc = "scatter" => \A u \in finished : u.op = "scatter" => MovedAt(u, mem', Tuples(u))
    BY <1>1, <1>3, <1>4, FirstScatter
  <2>5. \A u \in active : u.op = "scatter" => Scattering(u, at'[u], mem')
    BY <1>2, <2>2, <2>3
  <2>6. QED BY <1>1, <1>6, <2>1, <2>4, <2>5, Frame DEF ScatterInv
<1>13. ActiveInv'
  <2>1. n + 1 <= Steps(t)
    <3>1. Steps(t) = Tuples(t) \/ Steps(t) = Tuples(t) + part_count
      BY <1>1 DEF Steps
    <3>2. QED BY <1>4, <3>1, PartsType
  <2>2. ASSUME NEW u \in active
        PROVE  at'[u].pos <= Steps(u) /\ (u.op # "scatter" => at'[u].sum = NoSums)
    BY <1>1, <1>2, <1>4, <2>1 DEF ActiveInv
  <2>3. QED BY <1>1, <2>2, StepsFrame DEF ActiveInv
<1>14. MainOwned' = MainOwned /\ (Later' <=> Later) /\ \A u : u # t => Owned(u)' = Owned(u)
  <2>1. MainOwned' = MainOwned /\ (Later' <=> Later)
    BY <1>1 DEF MainOwned, part_count, Later
  <2>2. ASSUME NEW u, u # t
        PROVE  Owned(u)' = Owned(u)
    <3>1. (u \in (Pool!Queued)' <=> u \in Pool!Queued) /\ (u \in active' <=> u \in active)
      BY <1>1, <1>6
    <3>2. u \in active => at'[u] = at[u]
      BY <1>2, <2>2
    <3>3. QED BY <3>1, <3>2, OwnedFrame
  <2>3. QED BY <2>1, <2>2
<1>15. ASSUME mpc = "scatter"
       PROVE  OwnInv' /\ ContentInv'
  <2>1. ~ Later'
    BY <1>1, <1>15 DEF Later
  <2>2. \A x \in Sides : Holds(mem'["input"][x], x, <<>>)
    BY <1>1, <1>3, <1>4, <1>15, FirstScatter
  <2>3. QED BY <1>1, <2>1, <2>2, Frame DEF OwnInv, ContentInv
<1>16. ASSUME Later
       PROVE  OwnInv' /\ ContentInv'
  <2>1. /\ DeepForm(t) /\ <<{t}, t.of>> \in Holdings
        /\ \A z \in Holdings : Settled(mem', z[2])
        /\ n + 1 = Tuples(t) => \A k \in Parts : Settled(mem', Append(t.of, k))
    BY <1>1, <1>3, <1>4, <1>5, <1>16, DeepScatter
  <2>2. t.depth # 1 /\ t.of \in Seq(Parts) /\ t \notin Pool!Queued
    <3>1. "l" \in Sides
      BY DEF Sides
    <3>2. QED BY <2>1, <3>1, DeepData DEF TypeInv, PoolInv
  <2>3. CASE n + 1 < Tuples(t)
    <3>1. Owned(t) = {t.of}
      <4>1. Reading(t)
        BY <1>1 DEF Reading
      <4>2. QED BY <2>2, <4>1 DEF Owned
    <3>2. Owned(t)' = {t.of}
      <4>1. Reading(t)' /\ t \in active'
        BY <1>1, <1>4, <2>3, StepsFrame DEF Reading
      <4>2. QED BY <2>2, <4>1 DEF Owned
    <3>3. \A u : Owned(u)' = Owned(u)
      BY <1>14, <3>1, <3>2
    <3>4. Holdings' = Holdings
      BY <1>6, <1>14, <3>3 DEF Holdings
    <3>5. OwnInv'
      BY <1>14, <3>4 DEF OwnInv, AllApart
    <3>6. \A z \in Holdings' : Settled(mem', z[2])
      BY <2>1, <3>4
    <3>7. ContentInv'
      BY <1>1, <1>14, <1>16, <3>6, Frame DEF ContentInv
    <3>8. QED BY <3>5, <3>7
  <2>4. CASE ~ (n + 1 < Tuples(t))
    <3>1. n + 1 = Tuples(t)
      BY <1>4, <2>4
    <3>2. Owned(t)' = Children(t, 0)
      <4>1. ~ Reading(t)' /\ t \in active' /\ t \notin (Pool!Queued)' /\ (at'[t].pos - Tuples(t)) = 0
        BY <1>1, <1>4, <1>6, <2>2, <3>1, StepsFrame DEF Reading
      <4>2. \A k : Children(t, k)' = Children(t, k)
        BY DEF Children, part_count
      <4>3. QED BY <1>1, <2>2, <4>1, <4>2, StepsFrame DEF Owned
    <3>3. Owned(t)' = {Append(t.of, k) : k \in Parts}
      BY <2>2, <3>2, ChildrenType
    <3>4. AllApart(Holdings) /\ \A z \in Holdings : z[2] \in Seq(Parts)
      BY <1>16, HoldingPaths DEF OwnInv
    <3>5. /\ AllApart(Holdings)'
          /\ \A z \in Holdings' : \/ z \in Holdings /\ z # <<{t}, t.of>>
                                  \/ \E k \in Parts : z = <<{t}, Append(t.of, k)>>
      BY <1>6, <1>14, <2>1, <3>3, <3>4, OwnerDivided
    <3>6. OwnInv'
      BY <3>5 DEF OwnInv
    <3>7. ASSUME NEW z \in Holdings'
          PROVE  Settled(mem', z[2])
      <4>1. CASE z \in Holdings
        BY <2>1, <4>1
      <4>2. CASE \E k \in Parts : z = <<{t}, Append(t.of, k)>>
        BY <2>1, <3>1, <4>2
      <4>3. QED BY <3>5, <4>1, <4>2
    <3>8. ContentInv'
      BY <1>1, <1>14, <1>16, <3>7, Frame DEF ContentInv
    <3>9. QED BY <3>6, <3>8
  <2>5. QED BY <2>3, <2>4
<1>17. ResultInv'
  <2>1. \A u : u \in Known' /\ Joined(u)' <=> u \in Known /\ Joined(u)
    BY <1>1, <1>2, <1>6 DEF Joined
  <2>2. QED BY <1>1, <2>1, ResultKept DEF ResultInv
<1>18. LeafInv'
  BY <1>1, LeavesKept
<1>19. QED BY <1>7, <1>8, <1>9, <1>10, <1>11, <1>12, <1>13, <1>15, <1>16, <1>17, <1>18

--------------------------------------------------------------------------------
(* No call is running. *)

\* The types of what is empty.
LEMMA EmptyTypes ==
  /\ <<>> \in Seq(Work) /\ Range(<<>>) = {}
  /\ \A S : \A f : f = <<>> => f \in [{} -> S]
  /\ NoSums \in [Sides -> [Parts -> Nat]]
<1>1. Range(<<>>) = {}
  BY DEF Range
<1>2. NoSums \in [Sides -> [Parts -> Nat]]
  BY DEF NoSums
<1>3. \A S : \A f : f = <<>> => f \in [{} -> S]
  OBVIOUS
<1>4. QED BY <1>1, <1>2, <1>3

\* Without tasks, what is said of tasks holds.
LEMMA NoTasks ==
  ASSUME Pool!Queued = {}, active = {}, mpc # "scatter"
  PROVE  ScatterInv /\ ActiveInv
BY DEF ScatterInv, ActiveInv

\* The invariant holds initially.
LEMMA InitData ==
  ASSUME Init
  PROVE  DataInv
<1>1. /\ rel \in Inputs /\ passes \in Passes /\ at = <<>> /\ mpc = "idle" /\ round = 0
      /\ mem = [a \in Arrays |-> [s \in Sides |-> [i \in 0 .. (Len(rel[s]) - 1) |->
              IF a = "input" THEN i + 1 ELSE NoRow]]]
      /\ hist = [k \in Slots |-> NoSums] /\ result = [m \in Pairs |-> 0]
      /\ built = FALSE /\ calls = 0 /\ due = 0
      /\ queue = <<>> /\ active = {} /\ finished = {}
  BY DEF Init, Pool!Init
<1>2. ArgsInv
  BY <1>1 DEF ArgsInv
<1>3. Pool!Queued = {}
  BY <1>1, EmptyQueue
<1>4. ASSUME NEW s \in Sides
      PROVE  /\ Typed(mem["input"][s], s) /\ Typed(mem["target"][s], s)
             /\ Holds(mem["input"][s], s, <<>>)
  <2>1. Len(rel[s]) \in Nat
    BY <1>2, RowsType
  <2>2. /\ mem["input"][s] = [i \in 0 .. (Len(rel[s]) - 1) |-> i + 1]
        /\ mem["target"][s] = [i \in 0 .. (Len(rel[s]) - 1) |-> NoRow]
    BY <1>1 DEF Arrays
  <2>3. \A i \in 0 .. (Len(rel[s]) - 1) : i + 1 \in Rows(s)
    BY <2>1 DEF Rows
  <2>4. Typed(mem["input"][s], s) /\ Typed(mem["target"][s], s)
    BY <2>2, <2>3 DEF Typed
  <2>5. {mem["input"][s][i] : i \in 0 .. (Len(rel[s]) - 1)} = Rows(s)
    <3>1. ASSUME NEW r \in Rows(s)
          PROVE  \E i \in 0 .. (Len(rel[s]) - 1) : mem["input"][s][i] = r
      <4>1. r - 1 \in 0 .. (Len(rel[s]) - 1) /\ (r - 1) + 1 = r
        BY <2>1 DEF Rows
      <4>2. mem["input"][s][r - 1] = r
        BY <2>2, <4>1
      <4>3. QED BY <4>1, <4>2
    <3>2. ASSUME NEW i \in 0 .. (Len(rel[s]) - 1)
          PROVE  mem["input"][s][i] \in Rows(s)
      BY <2>2, <2>3
    <3>3. QED BY <3>1, <3>2
  <2>6. Members(s, <<>>) = Rows(s) /\ Place(s, <<>>) = 0 .. (Len(rel[s]) - 1)
    BY <1>2, WholePart
  <2>7. QED BY <2>4, <2>5, <2>6 DEF Holds
<1>5. TypeInv
  <2>1. mem = [a \in Arrays |-> [s \in Sides |-> mem[a][s]]]
    BY <1>1
  <2>2. \A a \in Arrays, s \in Sides : Typed(mem[a][s], s)
    BY <1>4 DEF Arrays
  <2>3. hist \in [Slots -> [Sides -> [Parts -> Nat]]] /\ result \in [Pairs -> Nat]
    BY <1>1, EmptyTypes
  <2>4. queue \in Seq(Work) /\ at \in [active -> [pos : Nat, sum : [Sides -> [Parts -> Nat]]]]
    BY <1>1, EmptyTypes
  <2>5. QED BY <1>1, <1>2, <2>1, <2>2, <2>3, <2>4 DEF TypeInv
<1>6. PoolInv
  BY <1>1, <1>3 DEF PoolInv, Busy
<1>7. FormInv /\ HistInv /\ OwnInv /\ LeafInv
  BY <1>1 DEF FormInv, HistInv, OwnInv, LeafInv, SetUp, Later
<1>8. ScatterInv /\ ActiveInv
  BY <1>1, <1>3, NoTasks
<1>9. ContentInv
  BY <1>1, <1>4 DEF ContentInv, Later
<1>10. ResultInv
  BY <1>1 DEF ResultInv
<1>11. QED BY <1>5, <1>6, <1>7, <1>8, <1>9, <1>10 DEF DataInv

\* Between calls the pool has nothing to do.
LEMMA Idle ==
  ASSUME DataInv, mpc = "idle"
  PROVE  queue = <<>> /\ active = {} /\ Pool!Queued = {} /\ Busy = {} /\ round = 0
<1>1. queue = <<>> /\ active = {}
  BY DEF DataInv, PoolInv
<1>2. Pool!Queued = {}
  BY <1>1, EmptyQueue
<1>3. QED BY <1>1, <1>2 DEF DataInv, FormInv, SetUp, Busy

\* Nothing but the result and the object's own state changes between calls.
LEMMA StaysIdle ==
  ASSUME DataInv, mpc = "idle", UNCHANGED <<poolVars, args, mem, at, mpc, round, hist>>,
         result' \in [Pairs -> Nat], built' \in BOOLEAN, calls' \in Nat, due' \in Nat,
         \A m \in Pairs : result'[m] = IF SameKey(m) THEN due' ELSE 0,
         built' <=> due' > 0
  PROVE  DataInv'
<1> USE DEF DataInv
<1>1. queue = <<>> /\ active = {} /\ Pool!Queued = {} /\ Busy = {} /\ round = 0
  BY Idle
<1>2. /\ UNCHANGED <<queue, active, finished>> /\ UNCHANGED <<rel, passes>>
      /\ (Pool!Queued)' = Pool!Queued /\ Busy' = Busy /\ Known' = Known
  BY PoolFrame DEF poolVars, args
<1>3. TypeInv'
  <2>1. Pairs' = Pairs
    BY TypesKept
  <2>2. QED BY <1>2, <2>1, TypesKept DEF TypeInv
<1>4. PoolInv'
  BY <1>2 DEF PoolInv
<1>5. FormInv' /\ HistInv' /\ OwnInv' /\ LeafInv'
  BY <1>1 DEF FormInv, HistInv, OwnInv, LeafInv, SetUp, Later
<1>6. ScatterInv' /\ ActiveInv'
  BY <1>1, <1>2 DEF ScatterInv, ActiveInv
<1>7. ContentInv'
  <2>1. \A s \in Sides : Holds(mem'["input"][s], s, <<>>)
    BY DEF ContentInv, Later
  <2>2. QED BY <2>1, Frame DEF ContentInv, Later
<1>8. ResultInv'
  <2>1. Pairs' = Pairs /\ \A m : SameKey(m)' = SameKey(m)
    BY <1>2, TypesKept DEF SameKey
  <2>2. QED BY <2>1 DEF ResultInv
<1>9. QED BY <1>3, <1>4, <1>5, <1>6, <1>7, <1>8

\* Set preserves the invariant.
LEMMA SetStep ==
  ASSUME DataInv, Set
  PROVE  DataInv'
<1>1. /\ mpc = "idle" /\ calls' = calls + 1 /\ result' = [m \in Pairs |-> 0]
      /\ built' = FALSE /\ due' = 0
      /\ UNCHANGED <<poolVars, args, mem, at, mpc, round, hist>>
  BY DEF Set, mainVars
<1>2. calls' \in Nat
  BY <1>1 DEF DataInv, TypeInv
<1>3. result' \in [Pairs -> Nat] /\ built' \in BOOLEAN /\ due' \in Nat /\ ~ (due' > 0)
  <2>1. result' \in [Pairs -> Nat]
    BY <1>1
  <2>2. built' \in BOOLEAN
    BY <1>1
  <2>3. due' \in Nat /\ ~ (due' > 0)
    BY <1>1
  <2>4. QED BY <2>1, <2>2, <2>3
<1>4. \A m \in Pairs : result'[m] = IF SameKey(m) THEN due' ELSE 0
  BY <1>1
<1>5. QED BY <1>1, <1>2, <1>3, <1>4, StaysIdle

\* A call with an empty relation returns at once, any other one begins with new
\* target arrays and a new pool.
LEMMA CallStep ==
  ASSUME DataInv, Call
  PROVE  DataInv'
<1>1. /\ mpc = "idle" /\ calls' = calls + 1 /\ UNCHANGED <<args, at, round, hist, result>>
  BY DEF Call
<1>2. /\ queue = <<>> /\ active = {} /\ Pool!Queued = {} /\ Busy = {} /\ round = 0
  BY <1>1, Idle
<1>3. TypeInv /\ calls' \in Nat /\ due \in Nat
  BY <1>1 DEF DataInv, TypeInv
<1>4. ASSUME \E s \in Sides : rel[s] = <<>>
      PROVE  DataInv'
  <2>1. built' = TRUE /\ due' = due + 1 /\ UNCHANGED <<poolVars, mem, mpc>>
    BY <1>4 DEF Call
  <2>2. Pairs = {}
    <3>1. PICK s \in Sides : rel[s] = <<>>
      BY <1>4
    <3>2. Rows(s) = {}
      BY <3>1 DEF Rows
    <3>3. QED BY <3>2 DEF Pairs, Sides
  <2>3. result' \in [Pairs -> Nat]
    BY <1>1, <1>3 DEF TypeInv
  <2>4. due' \in Nat /\ due' > 0
    BY <1>3, <2>1
  <2>5. QED BY <1>1, <1>3, <2>1, <2>2, <2>3, <2>4, StaysIdle
<1>5. ASSUME ~ \E s \in Sides : rel[s] = <<>>
      PROVE  DataInv'
  <2> USE DEF DataInv
  <2>1. /\ queue' = <<>> /\ active' = {} /\ finished' = {}
        /\ mem' = [mem EXCEPT !["target"] = [s \in Sides |-> [i \in DOMAIN @[s] |-> NoRow]]]
        /\ mpc' = "partition" /\ UNCHANGED <<built, due>>
    BY <1>5 DEF Call
  <2>2. (Pool!Queued)' = {} /\ Busy' = {} /\ Known' = {}
    <3>1. Range(queue') = {}
      BY <2>1, EmptyTypes
    <3>2. (Pool!Queued)' = {}
      BY <3>1 DEF Pool!Queued, Pool!Range, Range
    <3>3. QED BY <2>1, <3>2 DEF Busy, Known
  <2>3. /\ mem' = [a \in Arrays |-> [s \in Sides |-> mem'[a][s]]]
        /\ mem'["input"] = mem["input"]
        /\ \A s \in Sides : mem'["target"][s] = [i \in 0 .. (Len(rel[s]) - 1) |-> NoRow]
    <3>1. mem = [a \in Arrays |-> [s \in Sides |-> mem[a][s]]]
      BY <1>3 DEF TypeInv
    <3>2. "target" \in Arrays /\ "input" \in Arrays
      BY DEF Arrays
    <3>3. \A s \in Sides : DOMAIN mem["target"][s] = 0 .. (Len(rel[s]) - 1)
      BY <1>3, <3>2 DEF TypeInv, Typed
    <3>4. mem'["target"] = [s \in Sides |-> [i \in DOMAIN mem["target"][s] |-> NoRow]]
      BY <2>1, <3>1, <3>2
    <3>5. mem'["input"] = mem["input"] /\ DOMAIN mem' = Arrays
      BY <2>1, <3>1, <3>2
    <3>6. mem' = [a \in Arrays |-> mem'[a]]
      BY <2>1, <3>1
    <3>7. \A a \in Arrays : mem'[a] = [s \in Sides |-> mem'[a][s]]
      BY <3>1, <3>2, <3>4, <3>5 DEF Arrays
    <3>8. mem' = [a \in Arrays |-> [s \in Sides |-> mem'[a][s]]]
      BY <3>6, <3>7
    <3>9. QED BY <3>3, <3>4, <3>5, <3>8
  <2>4. TypeInv'
    <3>1. \A a \in Arrays, s \in Sides : Typed(mem'[a][s], s)
      <4>1. \A s \in Sides : Typed(mem'["input"][s], s)
        BY <1>3, <2>3 DEF TypeInv, Arrays
      <4>2. \A s \in Sides : Typed(mem'["target"][s], s)
        BY <2>3 DEF Typed
      <4>3. QED BY <4>1, <4>2 DEF Arrays
    <3>2. \A a \in Arrays, s \in Sides : Typed(mem[a][s], s)'
      BY <1>1, <3>1, Frame
    <3>3. Pairs' = Pairs /\ ArgsInv'
      BY <1>1, <1>3, Frame DEF Pairs, TypeInv
    <3>4. queue' \in Seq(Work) /\ active' \subseteq Work /\ finished' \subseteq Work
      BY <2>1, EmptyTypes
    <3>5. at' \in [active' -> [pos : Nat, sum : [Sides -> [Parts -> Nat]]]]
      BY <1>1, <1>2, <1>3, <2>1 DEF TypeInv
    <3>6. QED BY <1>1, <1>3, <2>1, <2>3, <3>2, <3>3, <3>4, <3>5 DEF TypeInv
  <2>5. PoolInv'
    BY <2>1, <2>2 DEF PoolInv
  <2>6. FormInv'
    <3>1. round' = 0 /\ 0 <= threads /\ 0 <= part_count
      BY <1>1, <1>2, DataAssumption, PartsType
    <3>2. QED BY <2>1, <2>2, <3>1 DEF FormInv, SetUp, Later
  <2>7. HistInv' /\ LeafInv' /\ OwnInv'
    BY <2>1 DEF HistInv, LeafInv, OwnInv, Later
  <2>8. ScatterInv' /\ ActiveInv'
    BY <2>1, <2>2 DEF ScatterInv, ActiveInv
  <2>9. ContentInv'
    <3>1. \A s \in Sides : Holds(mem'["input"][s], s, <<>>)
      BY <1>1, <2>3 DEF ContentInv, Later
    <3>2. QED BY <1>1, <2>1, <3>1, Frame DEF ContentInv, Later
  <2>10. ResultInv'
    <3>1. Pairs' = Pairs /\ \A m : SameKey(m)' = SameKey(m)
      BY <1>1, Frame DEF Pairs, SameKey, args
    <3>2. \A r : ~ InJoined(r)'
      BY <2>2 DEF InJoined
    <3>3. QED BY <1>1, <2>1, <3>1, <3>2 DEF ResultInv
  <2>11. QED BY <2>4, <2>5, <2>6, <2>7, <2>8, <2>9, <2>10
<1>6. QED BY <1>4, <1>5

--------------------------------------------------------------------------------
(* execute() enqueues a task. *)

\* Whatever the task is.
LEMMA EnqueueStep ==
  ASSUME DataInv, mpc # "idle", NEW n \in Work, Pool!Accept(n), round' = round + 1,
         n.op = "scatter" => SumsAt(n, mem, n.sum, 0),
         UNCHANGED <<args, mem, at, mpc, hist, result, built, calls, due>>,
         FormInv', OwnInv', ContentInv'
  PROVE  DataInv'
<1> USE DEF DataInv
<1>1. /\ n \notin Known
      /\ (Pool!Queued)' = Pool!Queued \cup {n} /\ UNCHANGED <<active, finished>>
      /\ Busy' = Busy \cup {n} /\ Known' = Known \cup {n}
      /\ queue' \in Seq(Work)
      /\ \A i, j \in DOMAIN queue' : queue'[i] = queue'[j] => i = j
  BY Accepting
<1>2. n \notin active /\ n \notin finished /\ n \notin Pool!Queued
  BY <1>1 DEF Known, Busy
<1>3. TypeInv'
  <2>1. round' \in Nat
    BY DEF TypeInv
  <2>2. QED BY <1>1, <2>1, TypesKept DEF TypeInv
<1>4. PoolInv'
  <2>1. (Pool!Queued)' \cap active' = {} /\ Busy' \cap finished' = {}
    BY <1>1, <1>2 DEF PoolInv
  <2>2. mpc' # "idle"
    OBVIOUS
  <2>3. QED BY <1>1, <2>1, <2>2 DEF PoolInv
<1>5. HistInv'
  BY <1>1, HistogramsKept
<1>6. ScatterInv'
  <2>1. \A u \in (Pool!Queued)' : u.op = "scatter" => SumsAt(u, mem', u.sum, 0)
    BY <1>1 DEF ScatterInv
  <2>2. \A u \in active' : u.op = "scatter" => Scattering(u, at'[u], mem')
    BY <1>1 DEF ScatterInv
  <2>3. mpc' = "scatter" => \A u \in finished' : u.op = "scatter" => MovedAt(u, mem', Tuples(u))
    BY <1>1 DEF ScatterInv
  <2>4. QED BY <2>1, <2>2, <2>3, Frame DEF ScatterInv
<1>7. ActiveInv'
  BY <1>1, StepsFrame DEF ActiveInv
<1>8. ResultInv'
  <2>1. ~ Joined(n)'
    BY <1>1, <1>2 DEF Joined
  <2>2. \A u : u # n => (Joined(u)' <=> Joined(u))
    BY <1>1 DEF Joined
  <2>3. \A u : u \in Known' /\ Joined(u)' <=> u \in Known /\ Joined(u)
    BY <1>1, <2>1, <2>2
  <2>4. QED BY <2>3, ResultKept DEF ResultInv
<1>9. LeafInv'
  <2>1. active \cup finished \subseteq active' \cup finished'
    BY <1>1
  <2>2. QED BY <2>1, LeavesKept
<1>10. QED BY <1>3, <1>4, <1>5, <1>6, <1>7, <1>8, <1>9

\* One chunk more.
LEMMA MoreChunks ==
  ASSUME NEW op, NEW n \in Nat
  PROVE  Chunks(op, n + 1) = Chunks(op, n) \cup {Chunk(op, n)}
<1>1. 0 .. ((n + 1) - 1) = (0 .. (n - 1)) \cup {n}
  OBVIOUS
<1>2. QED BY <1>1 DEF Chunks

\* The task for a chunk; a scatter task's sums are those of the chunks before it.
LEMMA ChunkTask ==
  ASSUME DataInv, SetUp, NEW k \in Slots
  PROVE  LET n == Chunk(mpc, k)
         IN  n \in Work /\ (n.op = "scatter" => SumsAt(n, mem, n.sum, 0))
<1> DEFINE n == Chunk(mpc, k)
<1>1. ArgsInv /\ mpc \in {"partition", "scatter"} /\ k \in Nat
  BY DataAssumption DEF DataInv, TypeInv, SetUp, Slots
<1>2. ASSUME mpc = "scatter", NEW s \in Sides, NEW q \in Parts
      PROVE  /\ LocalSum(k)[s][q] = Cardinality(Lower(mem["input"][s], s, <<>>, q, Edge(s, k)))
             /\ LocalSum(k)[s][q] \in Nat
  <2>1. HistKnown /\ Typed(mem["input"][s], s) /\ Holds(mem["input"][s], s, <<>>)
    BY <1>2 DEF DataInv, HistInv, TypeInv, Arrays, ContentInv, Later
  <2>2. LocalSum(k)[s][q] = Cardinality(Lower(mem["input"][s], s, <<>>, q, Edge(s, k)))
    BY <1>1, <2>1, GlobalCounts
  <2>3. <<>> \in Seq(Parts)
    OBVIOUS
  <2>4. QED BY <1>1, <2>2, <2>3, LowerType
<1>3. n.sum \in [Sides -> [Parts -> Nat]]
  <2>1. CASE mpc = "scatter"
    <3>1. n.sum = LocalSum(k)
      BY <2>1, ChunkForm
    <3>2. LocalSum(k) = [s \in Sides |-> [q \in Parts |-> LocalSum(k)[s][q]]]
      BY DEF LocalSum
    <3> HIDE DEF n
    <3>3. QED BY <1>2, <2>1, <3>1, <3>2
  <2>2. CASE mpc # "scatter"
    BY <2>2, ChunkForm, EmptyTypes
  <2>3. QED BY <2>1, <2>2
<1>4. n.base \in [Sides -> Nat] /\ n.size \in [Sides -> Nat] /\ n.to \in [Sides -> Nat]
  <2>1. \A s \in Sides : n.base[s] \in Nat /\ n.size[s] \in Nat
    BY <1>1, ChunkData
  <2>2. /\ n.base = [s \in Sides |-> k * (Len(rel[s]) \div threads)]
        /\ n.size = [s \in Sides |-> ChunkSize(s, k)] /\ n.to = [s \in Sides |-> 0]
    BY DEF Chunk
  <2>3. n.base = [s \in Sides |-> n.base[s]] /\ n.size = [s \in Sides |-> n.size[s]]
    BY <2>2
  <2> HIDE DEF n
  <2>4. QED BY <2>1, <2>2, <2>3
<1>5. n \in Work
  <2> DEFINE b == n.base
             z == n.size
             o == n.to
             m == n.sum
             l == <<k>>
  <2>1. n = [op |-> mpc, depth |-> 1, of |-> l, from |-> "input", base |-> b, size |-> z,
             to |-> o, sum |-> m]
    BY DEF Chunk
  <2>2. l \in Seq(Nat) /\ "input" \in Arrays
    BY <1>1 DEF Arrays
  <2>3. b \in [Sides -> Nat] /\ z \in [Sides -> Nat] /\ o \in [Sides -> Nat] /\ m \in [Sides -> [Parts -> Nat]]
    BY <1>3, <1>4
  <2> HIDE DEF n, b, z, o, m, l
  <2>4. QED BY <1>1, <2>1, <2>2, <2>3 DEF Work
<1>6. ASSUME n.op = "scatter"
      PROVE  SumsAt(n, mem, n.sum, 0)
  <2>1. mpc = "scatter" /\ Path(n) = <<>> /\ n.from = "input" /\ n.sum = LocalSum(k)
    BY <1>6, ChunkForm
  <2>2. ASSUME NEW s \in Sides
        PROVE  Bound(n, s, 0) = Edge(s, k)
    <3>1. n.base[s] = Edge(s, k) /\ Edge(s, k) \in Nat /\ n.size["l"] \in Nat
      <4>1. "l" \in Sides
        BY DEF Sides
      <4>2. n.base[s] = Edge(s, k)
        BY <1>1, ChunkEdges
      <4>3. n.base[s] \in Nat /\ n.size["l"] \in Nat
        BY <1>1, <4>1, ChunkData
      <4>4. QED BY <4>2, <4>3
    <3> HIDE DEF n
    <3>2. QED BY <3>1 DEF Bound
  <2> HIDE DEF n
  <2>3. QED BY <1>2, <2>1, <2>2 DEF SumsAt
<1>7. QED BY <1>5, <1>6

\* In the first two rounds, MainEnqueue preserves the invariant.
LEMMA EnqueueChunk ==
  ASSUME DataInv, MainEnqueue, SetUp
  PROVE  DataInv'
<1> DEFINE n == Chunk(mpc, round)
<1>1. /\ round < threads /\ Pool!Accept(n) /\ round' = round + 1
      /\ UNCHANGED <<args, mem, at, mpc, hist, result, built, calls, due>>
  BY DEF MainEnqueue, RoundSize, RoundTask, SetUp, objVars
<1>2. TypeInv /\ PoolInv /\ round \in Nat /\ threads \in Nat /\ round \in Slots
  <2>1. TypeInv /\ PoolInv /\ round \in Nat /\ threads \in Nat
    BY DataAssumption DEF DataInv, TypeInv
  <2>2. QED BY <1>1, <2>1 DEF Slots
<1>3. n \in Work /\ (n.op = "scatter" => SumsAt(n, mem, n.sum, 0))
  BY <1>2, ChunkTask
<1> HIDE DEF n
<1>4. /\ UNCHANGED <<active, finished>> /\ Busy' = Busy \cup {n} /\ Known' = Known \cup {n}
  BY <1>1, <1>2, <1>3, Accepting
<1>5. mpc # "idle" /\ ~ Later /\ ~ Later' /\ SetUp'
  BY <1>1 DEF SetUp, Later
<1>6. FormInv'
  <2>1. /\ UNCHANGED <<args, mpc, hist>>
        /\ Chunks(mpc, round + 1) = Chunks(mpc, round) \cup {n}
    BY <1>1, <1>2, MoreChunks DEF n
  <2>2. round' <= threads
    BY <1>1, <1>2
  <2>3. \A m : Chunks("partition", m)' = Chunks("partition", m) /\ Chunks("scatter", m)' = Chunks("scatter", m)
    BY <2>1, ChunkFrame
  <2>4. mpc' = "partition" => Known' \subseteq Chunks("partition", round)'
    <3> SUFFICES ASSUME mpc = "partition"
                 PROVE  Known' \subseteq Chunks("partition", round + 1)
      BY <1>1, <2>3
    <3>1. Known \subseteq Chunks("partition", round)
      BY DEF DataInv, FormInv
    <3>2. QED BY <1>4, <2>1, <3>1
  <2>5. mpc' = "scatter" =>
          /\ Chunks("partition", threads)' \subseteq finished'
          /\ Busy' \subseteq Chunks("scatter", round)'
          /\ finished' \subseteq Chunks("partition", threads)' \cup Chunks("scatter", threads)'
    <3> SUFFICES ASSUME mpc = "scatter"
                 PROVE  /\ Chunks("partition", threads) \subseteq finished
                        /\ Busy' \subseteq Chunks("scatter", round + 1)
                        /\ finished \subseteq Chunks("partition", threads) \cup Chunks("scatter", threads)
      BY <1>1, <1>4, <2>3
    <3>1. /\ Chunks("partition", threads) \subseteq finished /\ Busy \subseteq Chunks("scatter", round)
          /\ finished \subseteq Chunks("partition", threads) \cup Chunks("scatter", threads)
      BY DEF DataInv, FormInv
    <3>2. QED BY <1>4, <2>1, <3>1
  <2>6. QED BY <1>5, <2>1, <2>2, <2>4, <2>5 DEF FormInv, SetUp
<1>7. OwnInv' /\ ContentInv'
  <2>1. \A s \in Sides : Holds(mem'["input"][s], s, <<>>)
    BY <1>1, <1>5 DEF DataInv, ContentInv
  <2>2. \A s \in Sides : Holds(mem["input"][s], s, <<>>)'
    BY <1>1, <2>1, Frame
  <2>3. QED BY <1>5, <2>2 DEF OwnInv, ContentInv
<1>8. QED BY <1>1, <1>3, <1>5, <1>6, <1>7, EnqueueStep

\* The task for a part after the first pass.
LEMMA FirstPartTask ==
  ASSUME DataInv, mpc = "leaves", NEW p \in Parts
  PROVE  LET n == FirstPart(p)
         IN  n \in Work /\ DeepForm(n) /\ n.op # "scatter" /\ n.of = <<p>>
<1> DEFINE n == FirstPart(p)
           x == <<p>>
           start == [s \in Sides |-> GlobalSum(s)[p]]
           size == [s \in Sides |-> Before(threads, s)[p]]
           op == IF 2 <= passes THEN "partition" ELSE "join"
           e == NoSums
<1>1. n = [op |-> op, depth |-> 2, of |-> x, from |-> "target", base |-> start, size |-> size,
           to |-> start, sum |-> e]
  BY DEF FirstPart, Subtask
<1>2. ArgsInv /\ passes \in Nat \ {0} /\ p \in Nat
  BY RowsType, PartsType DEF DataInv, TypeInv
<1>3. x \in Seq(Parts) /\ x \in Seq(Nat) /\ Len(x) = 1 /\ ArrayOf(x) = "target" /\ "target" \in Arrays
  BY <1>2 DEF ArrayOf, Arrays
<1>4. \A s \in Sides : start[s] = Offset(s, x) /\ size[s] = Count(s, x)
  BY DEF DataInv, HistInv
<1>5. \A s \in Sides : Offset(s, x) \in Nat /\ Count(s, x) \in Nat
  BY <1>2, <1>3, PartType
<1>6. start \in [Sides -> Nat] /\ size \in [Sides -> Nat] /\ e \in [Sides -> [Parts -> Nat]]
  BY <1>4, <1>5, EmptyTypes
<1>7. op \in {"partition", "join"} /\ (op = "join" <=> 2 = passes + 1)
  BY <1>2
<1> HIDE DEF n, x, start, size, op, e
<1>8. n \in Work
  BY <1>1, <1>3, <1>6, <1>7 DEF Work
<1>9. n.op # "scatter" /\ n.of = x /\ n.sum = NoSums
  BY <1>1, <1>7 DEF e
<1>10. DeepForm(n)
  <2>1. \A s \in Sides : n.base[s] = Offset(s, x) /\ n.to[s] = Offset(s, x) /\ n.size[s] = Count(s, x)
    BY <1>1, <1>4
  <2>2. n.depth = 2 /\ n.depth = Len(n.of) + 1 /\ n.depth \in 2 .. (passes + 1)
    <3>1. n.depth = 2 /\ n.of = x
      BY <1>1
    <3>2. 2 \in 2 .. (passes + 1) /\ 2 = Len(x) + 1
      BY <1>2, <1>3
    <3>3. QED BY <3>1, <3>2
  <2>3. n.op = "join" <=> n.depth = passes + 1
    BY <1>1, <1>7
  <2>4. n.from = ArrayOf(n.of) /\ n.of \in Seq(Parts)
    BY <1>1, <1>3
  <2>5. QED BY <1>9, <2>1, <2>2, <2>3, <2>4 DEF DeepForm
<1>11. QED BY <1>8, <1>9, <1>10 DEF x, n

\* In the third round, it does as well.
LEMMA EnqueuePart ==
  ASSUME DataInv, MainEnqueue, mpc = "leaves"
  PROVE  DataInv'
<1> PICK n : n = FirstPart(round)
  OBVIOUS
<1> DEFINE x == <<{}, <<round>>>>
           y == <<{n}, <<round>>>>
<1>1. /\ round < part_count /\ Pool!Accept(n) /\ round' = round + 1
      /\ UNCHANGED <<args, mem, at, mpc, hist, result, built, calls, due>>
  BY DEF MainEnqueue, RoundSize, RoundTask, objVars
<1>2. TypeInv /\ PoolInv /\ FormInv /\ round \in Nat /\ round \in Parts
  <2>1. TypeInv /\ PoolInv /\ FormInv /\ round \in Nat
    BY DEF DataInv, TypeInv
  <2>2. QED BY <1>1, <2>1, PartsType DEF Parts
<1>3. n \in Work /\ DeepForm(n) /\ n.op # "scatter" /\ n.of = <<round>> /\ n.depth # 1
  <2>1. n \in Work /\ DeepForm(n) /\ n.op # "scatter" /\ n.of = <<round>>
    BY <1>2, FirstPartTask
  <2>2. "l" \in Sides
    BY DEF Sides
  <2>3. QED BY <1>2, <2>1, <2>2, DeepData DEF TypeInv
<1>4. /\ n \notin Known /\ (Pool!Queued)' = Pool!Queued \cup {n}
      /\ UNCHANGED <<active, finished>> /\ Busy' = Busy \cup {n} /\ Known' = Known \cup {n}
  BY <1>1, <1>2, <1>3, Accepting
<1>5. mpc # "idle" /\ Later /\ Later' /\ ~ SetUp'
  BY <1>1 DEF SetUp, Later
<1>6. FormInv'
  <2>1. \A u \in Known' : IF u.depth = 1 THEN u \in finished' /\ u.op # "join" ELSE DeepForm(u)'
    <3>1. \A u \in Known : IF u.depth = 1 THEN u \in finished /\ u.op # "join" ELSE DeepForm(u)
      BY <1>2, <1>5 DEF FormInv
    <3>2. QED BY <1>1, <1>3, <1>4, <3>1, Frame
  <2>2. round' <= part_count'
    BY <1>1, <1>2, PartsType DEF part_count
  <2>3. mpc' = "leaves"
    BY <1>1
  <2>4. QED BY <1>5, <2>1, <2>2, <2>3 DEF FormInv
<1>7. OwnInv' /\ ContentInv'
  <2>1. x \in Holdings /\ y[2] = x[2]
    <3>1. round \in round .. (part_count - 1)
      BY <1>1, <1>2, PartsType
    <3>2. <<round>> \in MainOwned
      BY <3>1 DEF MainOwned
    <3>3. QED BY <3>2, HoldingIs
  <2>2. ASSUME NEW u \in Known', u # n
        PROVE  u \in Known /\ Owned(u)' \subseteq Owned(u)
    <3>1. u \in Known
      BY <1>4, <2>2
    <3>2. (u \in (Pool!Queued)' <=> u \in Pool!Queued) /\ (u \in active' <=> u \in active)
      BY <1>4, <2>2
    <3>3. u \in active => at'[u] = at[u]
      BY <1>1
    <3>4. QED BY <3>1, <3>2, <3>3, OwnedFrame
  <2>3. MainOwned = {<<i>> : i \in round .. (part_count - 1)}
    BY DEF MainOwned
  <2>4. MainOwned' = {<<i>> : i \in (round + 1) .. (part_count - 1)}
    BY <1>1 DEF MainOwned, part_count
  <2>5. MainOwned' \subseteq MainOwned /\ <<round>> \notin MainOwned'
    <3>1. (round + 1) .. (part_count - 1) \subseteq round .. (part_count - 1)
      BY <1>2
    <3>2. \A i \in (round + 1) .. (part_count - 1) : i # round
      BY <1>2
    <3>3. \A i : <<i>> = <<round>> => i = round
      OBVIOUS
    <3>4. QED BY <2>3, <2>4, <3>1, <3>2, <3>3
  <2>6. Owned(n)' = {n.of}
    BY <1>3, <1>4 DEF Owned
  <2>7. \A z \in Holdings' : \/ z \in Holdings /\ z[1] # {n}
                             \/ n \in Known' /\ \E p \in Owned(n)' : z = <<{n}, p>>
    BY <2>2, <2>5, HoldingsStep
  <2>8. Holdings' \subseteq Holdings \cup {y}
    BY <1>3, <2>6, <2>7
  <2>9. x \notin Holdings'
    <3>1. \A a, b, c, d : <<a, b>> = <<c, d>> <=> a = c /\ b = d
      OBVIOUS
    <3>2. \A z \in Holdings' : \/ \E u \in Known' : \E p \in Owned(u)' : z = <<{u}, p>>
                               \/ \E p \in MainOwned' : z = <<{}, p>>
      BY DEF Holdings
    <3>3. ASSUME NEW u, NEW p, x = <<{u}, p>>
          PROVE  FALSE
      <4>1. {} = {u}
        BY <3>1, <3>3
      <4>2. QED BY <4>1
    <3>4. ASSUME NEW p \in MainOwned', x = <<{}, p>>
          PROVE  FALSE
      <4>1. p = <<round>>
        BY <3>1, <3>4
      <4>2. QED BY <2>5, <3>4, <4>1
    <3> HIDE DEF x
    <3>5. QED BY <3>2, <3>3, <3>4
  <2> HIDE DEF x, y
  <2>10. UNCHANGED <<args, mem>> /\ OwnInv /\ ContentInv
    BY <1>1 DEF DataInv
  <2>11. QED BY <1>5, <2>1, <2>8, <2>9, <2>10, OwnerChanged
<1>8. QED BY <1>1, <1>3, <1>5, <1>6, <1>7, EnqueueStep

\* MainEnqueue preserves the invariant.
LEMMA MainEnqueueStep ==
  ASSUME DataInv, MainEnqueue
  PROVE  DataInv'
<1>1. SetUp \/ mpc = "leaves"
  BY DEF MainEnqueue, SetUp
<1>2. QED BY <1>1, EnqueueChunk, EnqueuePart

--------------------------------------------------------------------------------
(* A round has ended. *)

\* All tasks of the round are finished, and nothing is running.
LEMMA RoundEnd ==
  ASSUME DataInv, MainBarrier
  PROVE  /\ SetUp /\ round' = 0 /\ mpc' = IF mpc = "partition" THEN "scatter" ELSE "leaves"
         /\ UNCHANGED <<queue, active, finished>>
         /\ UNCHANGED <<args, mem, at, hist, result, built, calls, due>>
         /\ Busy = {} /\ Pool!Queued = {} /\ active = {} /\ Known = finished
         /\ (Pool!Queued)' = {} /\ Busy' = {} /\ Known' = finished
         /\ \A k \in Slots : Chunk(mpc, k) \in finished
<1>1. /\ SetUp /\ round' = 0 /\ mpc' = IF mpc = "partition" THEN "scatter" ELSE "leaves"
      /\ UNCHANGED <<queue, active, finished>>
      /\ UNCHANGED <<args, mem, at, hist, result, built, calls, due>>
      /\ \A k \in Slots : Chunk(mpc, k) \in finished
  BY DEF MainBarrier, SetUp, poolVars, objVars
<1>2. TypeInv /\ PoolInv /\ FormInv
  BY DEF DataInv
<1>3. Busy = {}
  <2> SUFFICES ASSUME NEW t \in Busy
               PROVE  FALSE
    OBVIOUS
  <2>1. ~ Later
    BY <1>1 DEF SetUp, Later
  <2>2. t \in finished
    BY <1>1, <1>2, <2>1, BusyTask
  <2>3. QED BY <1>2, <2>2 DEF PoolInv
<1>4. Pool!Queued = {} /\ active = {} /\ Known = finished
  BY <1>3 DEF Busy, Known
<1>5. (Pool!Queued)' = {} /\ Busy' = {} /\ Known' = finished
  BY <1>1, <1>3, <1>4, PoolFrame
<1>6. QED BY <1>1, <1>3, <1>4, <1>5

\* The histograms are known, and nothing has been scattered.
LEMMA PartitionsEnd ==
  ASSUME DataInv, MainBarrier, mpc = "partition"
  PROVE  FormInv' /\ HistInv' /\ ScatterInv' /\ OwnInv' /\ ContentInv'
<1>1. /\ SetUp /\ round' = 0 /\ mpc' = "scatter"
      /\ UNCHANGED <<queue, active, finished>>
      /\ UNCHANGED <<args, mem, at, hist, result, built, calls, due>>
      /\ Busy = {} /\ active = {} /\ Known = finished
      /\ (Pool!Queued)' = {} /\ Busy' = {} /\ Known' = finished
      /\ \A k \in Slots : Chunk("partition", k) \in finished
  BY RoundEnd
<1>2. round = threads /\ finished \subseteq Chunks("partition", threads) /\ ~ Later /\ ~ Later'
  BY <1>1 DEF MainBarrier, DataInv, FormInv, Later
<1>3. Chunks("partition", threads) = {Chunk("partition", k) : k \in Slots}
  BY DEF Chunks, Slots
<1>4. FormInv'
  <2>1. Chunks("partition", threads) \subseteq finished /\ 0 <= threads
    BY <1>1, <1>3, DataAssumption
  <2>2. /\ Chunks("partition", threads)' \subseteq finished'
        /\ Busy' \subseteq Chunks("scatter", round)'
        /\ finished' \subseteq Chunks("partition", threads)' \cup Chunks("scatter", threads)'
    BY <1>1, <1>2, <2>1, ChunkFrame
  <2>3. QED BY <1>1, <1>2, <2>1, <2>2 DEF FormInv, SetUp
<1>5. HistInv'
  <2>1. ASSUME NEW k \in Slots
        PROVE  \A t : t = Chunk("partition", k)' => hist'[k] = Histogram(t)'
    <3>1. hist[k] = Histogram(Chunk("partition", k))
      BY <1>1 DEF DataInv, HistInv
    <3>2. ASSUME NEW t, t = Chunk("partition", k)
          PROVE  Histogram(t)' = Histogram(t)
      <4>1. UNCHANGED mem[t.from]
        BY <1>1
      <4>2. QED BY <1>1, <4>1, HistogramFrame
    <3>3. Chunk("partition", k)' = Chunk("partition", k)
      BY <1>1, ChunkFrame
    <3>4. QED BY <1>1, <3>1, <3>2, <3>3
  <2>2. HistKnown'
    BY <2>1 DEF HistKnown
  <2>3. QED BY <1>1, <2>2 DEF HistInv
<1>6. ScatterInv'
  <2>1. \A t \in finished : t.op # "scatter"
    BY <1>2, <1>3, ChunkForm
  <2>2. QED BY <1>1, <2>1 DEF ScatterInv
<1>7. OwnInv' /\ ContentInv'
  <2>1. \A s \in Sides : Holds(mem'["input"][s], s, <<>>)
    BY <1>1, <1>2 DEF DataInv, ContentInv
  <2>2. \A s \in Sides : Holds(mem["input"][s], s, <<>>)'
    BY <1>1, <2>1, Frame
  <2>3. QED BY <1>2, <2>2 DEF OwnInv, ContentInv
<1>8. QED BY <1>4, <1>5, <1>6, <1>7

\* Everything has been scattered once, and the parts of the first pass are in place.
LEMMA FirstPassEnds ==
  ASSUME DataInv, MainBarrier, mpc = "scatter"
  PROVE  FormInv' /\ HistInv' /\ ScatterInv' /\ OwnInv' /\ ContentInv'
<1>1. /\ SetUp /\ round' = 0 /\ mpc' = "leaves"
      /\ UNCHANGED <<queue, active, finished>>
      /\ UNCHANGED <<args, mem, at, hist, result, built, calls, due>>
      /\ Busy = {} /\ active = {} /\ Known = finished
      /\ (Pool!Queued)' = {} /\ Busy' = {} /\ Known' = finished
      /\ \A k \in Slots : Chunk("scatter", k) \in finished
  BY RoundEnd
<1>2. ~ Later /\ Later' /\ ~ SetUp'
  BY <1>1 DEF Later, SetUp
<1>3. ArgsInv /\ ArraysOK(mem) /\ HistKnown /\ \A s \in Sides : Holds(mem["input"][s], s, <<>>)
  BY <1>2 DEF DataInv, TypeInv, ArraysOK, HistInv, ContentInv
<1>4. \A t \in finished : t.depth = 1 /\ t.op # "join"
  <2>1. finished \subseteq Chunks("partition", threads) \cup Chunks("scatter", threads)
    BY DEF DataInv, FormInv
  <2>2. QED BY <2>1, ChunkForm DEF Chunks
<1>5. FormInv'
  <2>1. 0 <= part_count' /\ round' = 0
    BY <1>1, PartsType DEF part_count
  <2>2. QED BY <1>1, <1>2, <1>4, <2>1 DEF FormInv
<1>6. HistInv'
  <2> SUFFICES ASSUME NEW s \in Sides, NEW q \in Parts
               PROVE  /\ GlobalSum(s)'[q] = Offset(s, <<q>>)'
                      /\ Before(threads, s)'[q] = Count(s, <<q>>)'
    BY <1>1 DEF HistInv
  <2>1. Typed(mem["input"][s], s)
    BY DEF DataInv, TypeInv, Arrays
  <2>2. GlobalSum(s)[q] = Offset(s, <<q>>) /\ Before(threads, s)[q] = Count(s, <<q>>)
    BY <1>3, <2>1, GlobalCounts
  <2>3. Offset(s, <<q>>)' = Offset(s, <<q>>) /\ Count(s, <<q>>)' = Count(s, <<q>>)
    BY <1>1, Frame
  <2>4. GlobalSum(s)' = GlobalSum(s) /\ Before(threads, s)' = Before(threads, s)
    BY <1>1, ChunkFrame
  <2>5. QED BY <2>2, <2>3, <2>4
<1>7. ScatterInv'
  BY <1>1 DEF ScatterInv
<1>8. \A z \in Holdings' : \E p \in Parts : z = <<{}, <<p>>>>
  <2>1. \A z \in Holdings' : \/ \E u \in Known' : \E p \in Owned(u)' : z = <<{u}, p>>
                             \/ \E p \in MainOwned' : z = <<{}, p>>
    BY DEF Holdings
  <2>2. \A u \in Known' : Owned(u)' = {}
    BY <1>1, <1>4 DEF Owned
  <2>3. MainOwned' = {<<i>> : i \in Parts}
    BY <1>1 DEF MainOwned, part_count, Parts
  <2>4. QED BY <2>1, <2>2, <2>3
<1>9. OwnInv'
  <2>1. ASSUME NEW i \in Parts, NEW j \in Parts, i # j
        PROVE  Apart(<<i>>, <<j>>)
    <3>1. Append(<<>>, i) = <<i>> /\ Append(<<>>, j) = <<j>> /\ <<>> \in Seq(Parts)
      OBVIOUS
    <3>2. Apart(Append(<<>>, i), Append(<<>>, j))
      BY <2>1, <3>1, ApartSplit
    <3>3. QED BY <3>1, <3>2
  <2> DEFINE H == Holdings'
  <2>2. ASSUME NEW x \in H, NEW y \in H, x # y
        PROVE  Apart(x[2], y[2])
    <3>1. PICK i \in Parts : x = <<{}, <<i>>>>
      BY <1>8
    <3>2. PICK j \in Parts : y = <<{}, <<j>>>>
      BY <1>8
    <3>3. i # j /\ x[2] = <<i>> /\ y[2] = <<j>>
      BY <2>2, <3>1, <3>2
    <3>4. QED BY <2>1, <3>3
  <2> HIDE DEF H
  <2>3. AllApart(H)
    BY <2>2 DEF AllApart
  <2>4. QED BY <2>3 DEF OwnInv, AllApart, H
<1>10. ContentInv'
  <2>1. \A k \in Slots : MovedAt(Chunk("scatter", k), mem, Tuples(Chunk("scatter", k)))
    BY <1>1, ChunkForm DEF DataInv, ScatterInv
  <2>2. \A q \in Parts : Settled(mem, <<q>>)
    BY <1>3, <2>1, FirstPassEnd
  <2>3. \A z \in Holdings' : Settled(mem', z[2])
    <3> SUFFICES ASSUME NEW z \in Holdings'
                 PROVE  Settled(mem, z[2])
      BY <1>1
    <3>1. PICK p \in Parts : z = <<{}, <<p>>>>
      BY <1>8
    <3>2. z[2] = <<p>>
      BY <3>1
    <3>3. QED BY <2>2, <3>2
  <2>4. QED BY <1>1, <1>2, <2>3, Frame DEF ContentInv
<1>11. QED BY <1>5, <1>6, <1>7, <1>9, <1>10

\* MainBarrier preserves the invariant.
LEMMA MainBarrierStep ==
  ASSUME DataInv, MainBarrier
  PROVE  DataInv'
<1>1. /\ SetUp /\ round' = 0 /\ mpc' = IF mpc = "partition" THEN "scatter" ELSE "leaves"
      /\ UNCHANGED <<queue, active, finished>>
      /\ UNCHANGED <<args, mem, at, hist, result, built, calls, due>>
      /\ Busy = {} /\ Pool!Queued = {} /\ active = {} /\ Known = finished
      /\ (Pool!Queued)' = {} /\ Busy' = {} /\ Known' = finished
  BY RoundEnd
<1>2. mpc' \in {"scatter", "leaves"} /\ mpc \in {"partition", "scatter"}
  BY <1>1 DEF SetUp
<1>3. FormInv' /\ HistInv' /\ ScatterInv' /\ OwnInv' /\ ContentInv'
  BY <1>2, PartitionsEnd, FirstPassEnds
<1>4. TypeInv'
  BY <1>1, <1>2, TypesKept DEF DataInv, TypeInv
<1>5. PoolInv'
  BY <1>1, <1>2 DEF DataInv, PoolInv
<1>6. ActiveInv'
  BY <1>1 DEF ActiveInv
<1>7. ResultInv'
  <2>1. \A u : u \in Known' /\ Joined(u)' <=> u \in Known /\ Joined(u)
    BY <1>1 DEF Joined
  <2>2. built' <=> mpc' \in {"wait", "finish"} \/ due > 0
    BY <1>1, <1>2 DEF DataInv, ResultInv
  <2>3. QED BY <1>1, <1>2, <2>1, <2>2, ResultKept DEF DataInv
<1>8. LeafInv'
  BY <1>2 DEF LeafInv
<1>9. QED BY <1>3, <1>4, <1>5, <1>6, <1>7, <1>8 DEF DataInv

--------------------------------------------------------------------------------
(* All tasks are enqueued. *)

\* execute() moves on, once it has no part left to enqueue a task for.
LEMMA LaterStep ==
  ASSUME DataInv, Later, MainOwned = {}, mpc' \in {"wait", "finish"}, round' = 0,
         UNCHANGED <<queue, active, finished>>,
         UNCHANGED <<args, mem, at, hist, result, calls, due>>, built' = TRUE, LeafInv'
  PROVE  DataInv'
<1> USE DEF DataInv
<1>1. (Pool!Queued)' = Pool!Queued /\ Busy' = Busy /\ Known' = Known
  BY PoolFrame
<1>2. Later' /\ ~ SetUp' /\ mpc' # "idle" /\ mpc # "idle" /\ mpc' # "leaves" /\ mpc' # "scatter"
  BY DEF Later, SetUp
<1>3. TypeInv'
  BY TypesKept DEF TypeInv
<1>4. PoolInv'
  BY <1>1, <1>2 DEF PoolInv
<1>5. FormInv'
  <2>1. \A u \in Known' : IF u.depth = 1 THEN u \in finished' /\ u.op # "join" ELSE DeepForm(u)'
    BY <1>1, Frame DEF FormInv
  <2>2. QED BY <1>2, <2>1 DEF FormInv, SetUp
<1>6. HistInv'
  BY <1>2 DEF HistInv, SetUp
<1>7. ScatterInv'
  <2>1. \A u \in (Pool!Queued)' : u.op = "scatter" => SumsAt(u, mem', u.sum, 0)
    BY <1>1 DEF ScatterInv
  <2>2. \A u \in active' : u.op = "scatter" => Scattering(u, at'[u], mem')
    BY DEF ScatterInv
  <2>3. QED BY <1>2, <2>1, <2>2, Frame DEF ScatterInv
<1>8. ActiveInv'
  BY StepsFrame DEF ActiveInv
<1>9. OwnInv' /\ ContentInv'
  <2>1. ASSUME NEW u
        PROVE  Owned(u)' = Owned(u)
    BY <1>1, OwnedFrame
  <2>2. MainOwned' = {}
    BY <1>2 DEF MainOwned
  <2>3. Holdings' = Holdings
    BY <1>1, <2>1, <2>2 DEF Holdings
  <2>4. QED BY <1>2, <2>3, OwnersKept
<1>10. ResultInv'
  <2>1. \A u : u \in Known' /\ Joined(u)' <=> u \in Known /\ Joined(u)
    BY <1>1 DEF Joined
  <2>2. QED BY <1>2, <2>1, ResultKept
<1>11. QED BY <1>3, <1>4, <1>5, <1>6, <1>7, <1>8, <1>9, <1>10

\* MainAwait preserves the invariant.
LEMMA MainAwaitStep ==
  ASSUME DataInv, MainAwait
  PROVE  DataInv'
<1>1. /\ mpc = "leaves" /\ round = part_count /\ mpc' = "wait" /\ round' = 0 /\ built' = TRUE
      /\ UNCHANGED <<queue, active, finished>>
      /\ UNCHANGED <<args, mem, at, hist, result, calls, due>>
  BY DEF MainAwait, poolVars
<1>2. MainOwned = {}
  <2>1. round .. (part_count - 1) = {}
    BY <1>1, PartsType
  <2>2. QED BY <2>1 DEF MainOwned
<1>3. Later /\ LeafInv'
  BY <1>1 DEF Later, LeafInv
<1>4. QED BY <1>1, <1>2, <1>3, LaterStep

--------------------------------------------------------------------------------
(* All join tasks have begun. *)

JoinTasks == {t \in active \cup finished : t.op = "join"}

\* A join task's path has the length of a path to a leaf, and no two have the same.
LEMMA JoinPaths ==
  ASSUME DataInv, Later
  PROVE  /\ \A t \in JoinTasks : t.of \in [1 .. passes -> Parts]
         /\ \A t, u \in JoinTasks : t.of = u.of => t = u
<1>1. TypeInv /\ PoolInv /\ FormInv /\ OwnInv /\ ArgsInv
  BY DEF DataInv, TypeInv
<1>2. ASSUME NEW t \in JoinTasks
      PROVE  /\ t.of \in Seq(Parts) /\ t.of \in [1 .. passes -> Parts]
             /\ <<{t}, t.of>> \in Holdings
  <2>1. t \in Known /\ t.op = "join"
    BY DEF JoinTasks, Known, Busy
  <2>2. DeepForm(t)
    BY <1>1, <2>1 DEF FormInv
  <2>3. t.depth # 1 /\ t.depth = Len(t.of) + 1 /\ t.depth = passes + 1 /\ passes \in Nat
        /\ t.of \in Seq(Parts)
    <3>1. "l" \in Sides
      BY DEF Sides
    <3>2. QED BY <1>1, <2>1, <2>2, <3>1, DeepData, RowsType DEF DeepForm
  <2>4. Len(t.of) = passes
    BY <2>3, PathType
  <2>5. t.of \in [1 .. passes -> Parts]
    BY <2>3, <2>4
  <2>6. t.of \in Owned(t)
    BY <2>1, <2>3 DEF Owned
  <2>7. QED BY <2>1, <2>3, <2>5, <2>6, HoldingIs
<1>3. ASSUME NEW t \in JoinTasks, NEW u \in JoinTasks, t.of = u.of, t # u
      PROVE  FALSE
  <2> DEFINE x == <<{t}, t.of>>
             y == <<{u}, u.of>>
  <2>1. x \in Holdings /\ y \in Holdings
    BY <1>2
  <2>2. x # y /\ x[2] = t.of /\ y[2] = t.of
    <3>1. {t} # {u}
      BY <1>3
    <3>2. QED BY <1>3, <3>1
  <2> HIDE DEF x, y
  <2>3. Apart(t.of, t.of)
    BY <1>1, <2>1, <2>2 DEF OwnInv, AllApart
  <2>4. QED BY <1>2, <2>3, ApartIrreflexive
<1>4. QED BY <1>2, <1>3

\* If as many join tasks have begun as there are leaves, one has for every leaf.
LEMMA LeavesReached ==
  ASSUME DataInv, Later, JoinsBegun = 2 ^ (RadixBits * passes)
  PROVE  \A p \in [1 .. passes -> Parts] : \E t \in JoinTasks : t.of = p
<1> DEFINE S == [1 .. passes -> Parts]
           J == JoinTasks
           f == [t \in J |-> t.of]
           P == {f[t] : t \in J}
           g == [p \in P |-> CHOOSE t \in J : f[t] = p]
<1>1. passes \in Nat /\ RadixBits \in Nat /\ part_count \in Nat
  BY RowsType, PartsType DEF DataInv, TypeInv
<1>2. IsFiniteSet(S) /\ Cardinality(S) = 2 ^ (RadixBits * passes)
  <2>1. IsFiniteSet(0 .. (0 + part_count - 1)) /\ Cardinality(0 .. (0 + part_count - 1)) = part_count
    <3> DEFINE n == part_count
    <3>1. n \in Nat /\ 0 \in Int
      BY <1>1
    <3> HIDE DEF n
    <3>2. IsFiniteSet(0 .. (0 + n - 1)) /\ Cardinality(0 .. (0 + n - 1)) = n
      BY <3>1, IntervalSize
    <3>3. QED BY <3>2 DEF n
  <2>2. 0 .. (0 + part_count - 1) = Parts
    BY <1>1 DEF Parts
  <2>3. IsFiniteSet(Parts) /\ Cardinality(Parts) = 2 ^ RadixBits
    BY <2>1, <2>2 DEF part_count
  <2>4. QED BY <1>1, <2>3, CountSequences
<1>3. P \subseteq S /\ \A t, u \in J : f[t] = f[u] => t = u
  BY JoinPaths
<1>4. IsFiniteSet(P)
  BY <1>2, <1>3, SubsetSize
<1>5. J = {g[p] : p \in P}
  <2>1. \A p \in P : g[p] \in J /\ f[g[p]] = p
    OBVIOUS
  <2>2. \A t \in J : f[t] \in P
    OBVIOUS
  <2> HIDE DEF f, g, P, J
  <2>3. \A t \in J : g[f[t]] = t
    BY <1>3, <2>1, <2>2
  <2>4. QED BY <2>1, <2>2, <2>3
<1>6. IsFiniteSet(J)
  <2>0. \A p \in P : f[g[p]] = p
    OBVIOUS
  <2> HIDE DEF f, g, P, J
  <2>1. IsFiniteSet({g[p] : p \in P})
    BY <1>4, <2>0, ImageCardinality
  <2>2. QED BY <1>5, <2>1
<1>7. Cardinality(P) = Cardinality(J)
  <2> HIDE DEF f, J
  <2>1. QED BY <1>3, <1>6, ImageCardinality
<1>8. Cardinality(J) = Cardinality(S)
  BY <1>2 DEF JoinsBegun, JoinTasks
<1>9. P = S
  <2> HIDE DEF P, J, S
  <2>1. Cardinality(P) \in Nat /\ (P # S => Cardinality(P) < Cardinality(S)) /\ Cardinality(S) \in Nat
    BY <1>2, <1>3, SubsetSize
  <2>2. QED BY <1>7, <1>8, <2>1
<1>10. QED BY <1>9

\* MainFinish preserves the invariant.
LEMMA MainFinishStep ==
  ASSUME DataInv, MainFinish
  PROVE  DataInv'
<1>1. /\ mpc = "wait" /\ JoinsBegun = 2 ^ (RadixBits * passes) /\ mpc' = "finish"
      /\ UNCHANGED <<queue, active, finished>>
      /\ UNCHANGED <<args, mem, at, round, hist, result, built, calls, due>>
  BY DEF MainFinish, Pool!Close, objVars
<1>2. Later /\ MainOwned = {}
  BY <1>1 DEF Later, MainOwned
<1>3. round' = 0 /\ built' = TRUE
  <2>1. round = 0
    BY <1>1 DEF DataInv, FormInv, SetUp
  <2>2. built = TRUE
    BY <1>1 DEF DataInv, TypeInv, ResultInv
  <2>3. QED BY <1>1, <2>1, <2>2
<1>4. LeafInv'
  <2>1. \A p \in [1 .. passes -> Parts] : \E t \in JoinTasks : t.of = p
    BY <1>1, <1>2, LeavesReached
  <2>2. ASSUME NEW p \in [1 .. passes -> Parts]
        PROVE  \E t \in active \cup finished : t.op = "join" /\ t.of = p
    BY <2>1 DEF JoinTasks
  <2>3. passes' = passes /\ Parts' = Parts /\ active' = active /\ finished' = finished
    BY <1>1 DEF args, Parts, part_count
  <2>4. QED BY <2>2, <2>3 DEF LeafInv
<1>5. QED BY <1>1, <1>2, <1>3, <1>4, LaterStep

--------------------------------------------------------------------------------
(* execute() returns. *)

\* Every row belongs to a leaf.
LEMMA LeafOf ==
  ASSUME ArgsInv, NEW s \in Sides, NEW r \in Rows(s)
  PROVE  \E p \in [1 .. passes -> Parts] :
           p \in Seq(Parts) /\ Len(p) = passes /\ r \in Members(s, p)
<1> DEFINE p == [d \in 1 .. passes |-> Digit(s, r, d)]
<1>1. passes \in Nat
  BY RowsType
<1>2. \A d \in 1 .. passes : Digit(s, r, d) \in Parts
  <2> SUFFICES ASSUME NEW d \in 1 .. passes
               PROVE  Digit(s, r, d) \in Parts
    OBVIOUS
  <2>1. d \in Nat \ {0}
    BY <1>1
  <2>2. QED BY <2>1, DigitType
<1>3. p \in [1 .. passes -> Parts] /\ DOMAIN p = 1 .. passes
  BY <1>2
<1>4. p \in Seq(Parts) /\ Len(p) = passes
  BY <1>1, <1>3
<1>5. r \in Members(s, p)
  <2>1. \A d \in DOMAIN p : Value(HashOf(s, r), d) = p[d]
    BY DEF Digit
  <2> HIDE DEF p
  <2>2. QED BY <2>1 DEF Members
<1> HIDE DEF p
<1>6. QED BY <1>3, <1>4, <1>5

\* When execute returns, a join task has finished for every leaf, and the leaf's
\* tuples are in place.
LEMMA LeafDone ==
  ASSUME DataInv, mpc = "finish", active = {}, NEW p \in [1 .. passes -> Parts]
  PROVE  \E t \in finished : t \in Known /\ t.op = "join" /\ t.of = p /\ Settled(mem, p)
<1>1. PICK t \in active \cup finished : t.op = "join" /\ t.of = p
  BY DEF DataInv, LeafInv
<1>2. t \in finished /\ t \in Known
  BY <1>1 DEF Known
<1>3. TypeInv /\ PoolInv /\ FormInv /\ Later /\ ContentInv
  BY DEF DataInv, Later
<1>4. t.depth # 1
  BY <1>1, <1>2, <1>3 DEF FormInv
<1>5. <<{t}, p>> \in Holdings
  <2>1. p \in Owned(t)
    BY <1>1, <1>4 DEF Owned
  <2>2. QED BY <1>2, <2>1, HoldingIs
<1>6. Settled(mem, p)
  BY <1>3, <1>5 DEF ContentInv
<1>7. QED BY <1>1, <1>2, <1>6

\* The caller's arrays hold what they held, perhaps in another order.
LEMMA InputKept ==
  ASSUME DataInv, mpc = "finish", active = {}, NEW s \in Sides
  PROVE  Holds(mem["input"][s], s, <<>>)
<1>1. ArgsInv /\ passes \in Nat \ {0}
  BY RowsType DEF DataInv, TypeInv
<1>2. ASSUME NEW r \in Rows(s)
      PROVE  \E p \in Seq(Parts) : r \in Members(s, p) /\ Holds(mem["input"][s], s, p)
  <2>1. PICK p \in [1 .. passes -> Parts] :
               p \in Seq(Parts) /\ Len(p) = passes /\ r \in Members(s, p)
    BY <1>1, LeafOf
  <2>2. Settled(mem, p)
    BY LeafDone
  <2>3. CASE passes % 2 = 0
    <3>1. ArrayOf(p) = "input"
      BY <2>1, <2>3 DEF ArrayOf
    <3>2. QED BY <2>1, <2>2, <3>1 DEF Settled
  <2>4. CASE passes % 2 = 1
    <3>1. Holds(mem["input"][s], s, Parent(p))
      BY <2>1, <2>2, <2>4 DEF Settled
    <3>2. /\ Parent(p) \in Seq(Parts) /\ p[Len(p)] \in Parts
          /\ p = Append(Parent(p), p[Len(p)])
      <4>1. Len(p) > 0
        BY <1>1, <2>1
      <4>2. QED BY <2>1, <4>1, ParentForm
    <3>3. Members(s, p) \subseteq Members(s, Parent(p))
      <4> DEFINE q == Parent(p)
                 l == p[Len(p)]
      <4>1. q \in Seq(Parts) /\ l \in Parts /\ p = Append(q, l)
        BY <3>2
      <4> HIDE DEF q, l
      <4>2. Members(s, Append(q, l)) \subseteq Members(s, q)
        BY <1>1, <4>1, PlaceWithin
      <4>3. QED BY <4>1, <4>2 DEF q
    <3>4. QED BY <2>1, <3>1, <3>2, <3>3
  <2>5. passes % 2 \in {0, 1}
    BY <1>1
  <2>6. QED BY <2>3, <2>4, <2>5
<1>3. QED BY <1>1, <1>2, WholeFromParts

\* MainReturn preserves the invariant.
LEMMA MainReturnStep ==
  ASSUME DataInv, MainReturn
  PROVE  DataInv'
<1> USE DEF DataInv
<1>1. /\ mpc = "finish" /\ queue = <<>> /\ active = {} /\ mpc' = "idle" /\ due' = due + 1
      /\ UNCHANGED <<queue, active, finished>>
      /\ UNCHANGED <<args, mem, at, round, hist, result, built, calls>>
  BY DEF MainReturn, Pool!Drain
<1>2. /\ Pool!Queued = {} /\ (Pool!Queued)' = {} /\ Busy' = Busy /\ Known' = Known
  BY <1>1, EmptyQueue, PoolFrame
<1>3. ArgsInv /\ due \in Nat /\ ~ Later' /\ ~ SetUp' /\ round = 0
  BY <1>1 DEF TypeInv, Later, SetUp, FormInv
<1>4. TypeInv'
  <2>1. due' \in Nat
    BY <1>1, <1>3
  <2>2. QED BY <1>1, <2>1, TypesKept DEF TypeInv
<1>5. PoolInv'
  BY <1>1, <1>2 DEF PoolInv
<1>6. FormInv' /\ HistInv' /\ OwnInv' /\ LeafInv'
  BY <1>1, <1>3 DEF FormInv, HistInv, OwnInv, LeafInv, SetUp
<1>7. ScatterInv' /\ ActiveInv'
  BY <1>1, <1>2 DEF ScatterInv, ActiveInv
<1>8. ContentInv'
  <2>1. \A s \in Sides : Holds(mem'["input"][s], s, <<>>)
    BY <1>1, InputKept
  <2>2. QED BY <1>1, <1>3, <2>1, Frame DEF ContentInv
<1>9. ResultInv'
  <2>1. ASSUME NEW m \in Pairs
        PROVE  InJoined(m[1])
    <3>1. m[1] \in Rows("l") /\ "l" \in Sides
      BY DEF Pairs, Sides
    <3>2. PICK p \in [1 .. passes -> Parts] : m[1] \in Members("l", p)
      BY <1>3, <3>1, LeafOf
    <3>3. PICK t \in finished : t \in Known /\ t.op = "join" /\ t.of = p
      BY <1>1, LeafDone
    <3>4. QED BY <3>2, <3>3 DEF InJoined, Joined
  <2>2. Pairs' = Pairs /\ \A m : SameKey(m)' = SameKey(m)
    BY <1>1, Frame DEF Pairs, SameKey, args
  <2>3. \A m \in Pairs : result[m] = IF ~ SameKey(m) THEN 0 ELSE due + 1
    BY <1>1, <2>1 DEF ResultInv
  <2>4. built
    BY <1>1 DEF ResultInv
  <2>5. due' > 0
    BY <1>1, <1>3
  <2>6. QED BY <1>1, <2>2, <2>3, <2>4, <2>5 DEF ResultInv
<1>10. QED BY <1>4, <1>5, <1>6, <1>7, <1>8, <1>9

--------------------------------------------------------------------------------
(* The inductive invariant. *)

\* So does a step that changes nothing.
LEMMA StutterStep ==
  ASSUME DataInv, UNCHANGED vars
  PROVE  DataInv'
<1> USE DEF DataInv
<1>1. /\ UNCHANGED <<queue, active, finished>> /\ UNCHANGED <<passes, rel>>
      /\ UNCHANGED <<args, mem, at, mpc, round, hist, result, built, calls, due>>
  BY DEF vars, poolVars, args, mainVars, objVars
<1>2. (Pool!Queued)' = Pool!Queued /\ Busy' = Busy /\ Known' = Known
  BY <1>1, PoolFrame
<1>3. TypeInv'
  BY <1>1, TypesKept DEF TypeInv
<1>4. PoolInv'
  BY <1>1, <1>2 DEF PoolInv
<1>5. FormInv'
  BY <1>1, <1>2, FormKept
<1>6. HistInv'
  BY <1>1, HistogramsKept
<1>7. ScatterInv'
  <2>1. \A u \in (Pool!Queued)' : u.op = "scatter" => SumsAt(u, mem', u.sum, 0)
    BY <1>1, <1>2 DEF ScatterInv
  <2>2. \A u \in active' : u.op = "scatter" => Scattering(u, at'[u], mem')
    BY <1>1 DEF ScatterInv
  <2>3. mpc' = "scatter" => \A u \in finished' : u.op = "scatter" => MovedAt(u, mem', Tuples(u))
    BY <1>1 DEF ScatterInv
  <2>4. QED BY <1>1, <2>1, <2>2, <2>3, Frame DEF ScatterInv
<1>8. ActiveInv'
  BY <1>1, StepsFrame DEF ActiveInv
<1>9. OwnInv' /\ ContentInv'
  <2>1. ASSUME NEW u
        PROVE  Owned(u)' = Owned(u)
    BY <1>1, <1>2, OwnedFrame
  <2>2. MainOwned' = MainOwned
    BY <1>1 DEF MainOwned, part_count
  <2>3. Holdings' = Holdings
    BY <1>2, <2>1, <2>2 DEF Holdings
  <2>4. Later' <=> Later
    BY <1>1 DEF Later
  <2>5. QED BY <1>1, <2>3, <2>4, OwnersKept
<1>10. ResultInv'
  <2>1. \A u : u \in Known' /\ Joined(u)' <=> u \in Known /\ Joined(u)
    BY <1>1, <1>2 DEF Joined
  <2>2. QED BY <1>1, <2>1, ResultKept DEF ResultInv
<1>11. LeafInv'
  BY <1>1, LeavesKept
<1>12. QED BY <1>3, <1>4, <1>5, <1>6, <1>7, <1>8, <1>9, <1>10, <1>11

\* Every step preserves the invariant.
LEMMA DataStep ==
  ASSUME DataInv, [Next]_vars
  PROVE  DataInv'
<1>1. CASE MainStep
  BY <1>1, CallStep, MainEnqueueStep, MainBarrierStep, MainAwaitStep, MainFinishStep,
     MainReturnStep, SetStep DEF MainStep
<1>2. CASE Start
  BY <1>2, StartStep
<1>3. ASSUME NEW t \in active, TaskStep(t)
      PROVE  DataInv'
  BY <1>3, DeliverStep, PartitionStep, ScatterStep, SpawnStep, JoinStep, CompleteStep DEF TaskStep
<1>4. CASE UNCHANGED vars
  BY <1>4, StutterStep
<1>5. QED BY <1>1, <1>2, <1>3, <1>4 DEF Next, Terminated

\* The inductive invariant holds in every state.
THEOREM DataHolds == Spec => []DataInv
<1>1. Init => DataInv
  BY InitData
<1>2. DataInv /\ [Next]_vars => DataInv'
  BY DataStep
<1>3. QED BY <1>1, <1>2, PTL DEF Spec

--------------------------------------------------------------------------------
(* What follows from the inductive invariant. *)

\* The invariant implies that the result is exact between calls.
LEMMA ResultFollows ==
  ASSUME DataInv
  PROVE  ResultExact
BY DEF DataInv, ResultInv, ResultExact

\* No sum exceeds the size of its relation.
LEMMA SumsBounded ==
  ASSUME DataInv, NEW t \in active, NEW s \in Sides
  PROVE  at[t].sum[s] \in [Parts -> 0 .. Len(rel[s])]
<1>1. /\ TypeInv /\ PoolInv /\ FormInv /\ ArgsInv /\ t \in Busy
      /\ at[t].sum[s] \in [Parts -> Nat] /\ Len(rel[s]) \in Nat
  BY RowsType DEF DataInv, TypeInv, Busy
<1>2. ASSUME NEW q \in Parts
      PROVE  at[t].sum[s][q] <= Len(rel[s])
  <2>1. CASE t.op # "scatter"
    <3>1. at[t].sum[s][q] = 0
      BY <2>1 DEF DataInv, ActiveInv, NoSums
    <3>2. QED BY <1>1, <3>1
  <2>2. ASSUME t.op = "scatter", SumsAt(t, mem, at[t].sum, at[t].pos)
        PROVE  at[t].sum[s][q] <= Len(rel[s])
    <3> DEFINE b == Bound(t, s, at[t].pos)
               arr == mem[t.from][s]
               p == Path(t)
               c == Cardinality(Lower(arr, s, p, q, b))
    <3>1. p \in Seq(Parts)
      BY <1>1, SizesOfTask DEF Sized
    <3>2. at[t].sum[s][q] = c
      BY <2>2 DEF SumsAt
    <3> HIDE DEF b, arr, p
    <3>3. c \in Nat /\ c <= Count(s, p)
      BY <1>1, <3>1, LowerType
    <3>4. Offset(s, p) \in Nat /\ Count(s, p) \in Nat /\ Offset(s, p) + Count(s, p) <= Len(rel[s])
      BY <1>1, <3>1, PartType
    <3> HIDE DEF c
    <3>5. QED BY <1>1, <3>2, <3>3, <3>4
  <2>3. ASSUME t.op = "scatter", t.depth # 1, SplitAt(t, at[t].sum)
        PROVE  at[t].sum[s][q] <= Len(rel[s])
    <3> DEFINE p == t.of
               x == Append(p, q)
    <3>1. p \in Seq(Parts)
      BY <1>1, <2>3, BusyTask, ChunkForm DEF DeepForm
    <3>2. x \in Seq(Parts)
      BY <3>1, Extended
    <3>3. at[t].sum[s][q] = Offset(s, x) + Count(s, x) - Offset(s, p)
      BY <2>3 DEF SplitAt
    <3> HIDE DEF x, p
    <3>4. /\ Offset(s, p) \in Nat /\ Offset(s, x) \in Nat /\ Count(s, x) \in Nat
          /\ Offset(s, x) + Count(s, x) <= Len(rel[s])
      BY <1>1, <3>1, <3>2, PartType
    <3>5. QED BY <1>1, <3>3, <3>4
  <2>4. t.op = "scatter" => Scattering(t, at[t], mem)
    BY DEF DataInv, ScatterInv
  <2>5. QED BY <2>1, <2>2, <2>3, <2>4 DEF Scattering
<1>3. \A q \in Parts : at[t].sum[s][q] \in 0 .. Len(rel[s])
  BY <1>1, <1>2
<1> DEFINE f == at[t].sum[s]
<1>4. f \in [Parts -> Nat] /\ \A q \in Parts : f[q] \in 0 .. Len(rel[s])
  BY <1>1, <1>3
<1> HIDE DEF f
<1>5. f \in [Parts -> 0 .. Len(rel[s])]
  BY <1>4
<1>6. QED BY <1>5 DEF f

\* The invariant implies type correctness.
LEMMA TypeFollows ==
  ASSUME DataInv
  PROVE  TypeOK
<1>1. TypeInv /\ PoolInv /\ FormInv /\ ArgsInv
  BY DEF DataInv, TypeInv
<1>2. rel \in [Sides -> Seq(Keys)] /\ passes \in Nat
  BY <1>1, RowsType
<1>3. \A a \in Arrays, s \in Sides : mem[a][s] \in [0 .. (Len(rel[s]) - 1) -> Rows(s) \cup {NoRow}]
  BY <1>1 DEF TypeInv, Typed
<1>4. ASSUME NEW t \in active
      PROVE  /\ at[t].pos \in 0 .. Steps(t)
             /\ \A s \in Sides : at[t].sum[s] \in [Parts -> 0 .. Len(rel[s])]
  <2>1. at[t].pos \in Nat /\ at[t].pos <= Steps(t)
    BY <1>1 DEF DataInv, ActiveInv, TypeInv
  <2>2. Steps(t) \in Nat
    <3>1. t \in Busy /\ 0 \in Nat
      BY DEF Busy
    <3>2. Tuples(t) \in Nat
      BY <1>1, <3>1, SizesOfTask, BoundSteps
    <3>3. QED BY <3>2, PartsType DEF Steps
  <2>3. QED BY <2>1, <2>2, SumsBounded
<1>5. DOMAIN at = active
  BY <1>1 DEF TypeInv
<1>6. QED BY <1>1, <1>2, <1>3, <1>4, <1>5 DEF TypeOK, TypeInv

\* A task that needs its data answers for its own path.
LEMMA OwnPath ==
  ASSUME DataInv, NEW t \in Pool!Queued \cup Readers, t.depth # 1
  PROVE  /\ t \in Busy /\ Later /\ DeepForm(t) /\ t.of \in Seq(Parts)
         /\ <<{t}, t.of>> \in Holdings /\ Settled(mem, t.of)
<1>1. TypeInv /\ PoolInv /\ FormInv /\ t \in Busy /\ t \in Known
  BY DEF DataInv, Busy, Known, Readers
<1>2. Later /\ DeepForm(t)
  BY <1>1, BusyTask, ChunkForm
<1>3. t.of \in Owned(t)
  BY DEF Owned, Readers
<1>4. <<{t}, t.of>> \in Holdings
  BY <1>1, <1>3, HoldingIs
<1>5. Settled(mem, t.of)
  BY <1>2, <1>4 DEF DataInv, ContentInv
<1>6. QED BY <1>1, <1>2, <1>4, <1>5 DEF DeepForm

\* The invariant implies that regions are exact.
LEMMA RegionFollows ==
  ASSUME DataInv
  PROVE  RegionExact
<1> SUFFICES ASSUME NEW t \in Pool!Queued \cup Readers, t.depth > 1, NEW s \in Sides
             PROVE  /\ {mem[t.from][s][i] : i \in Region(t, s)} = Members(s, t.of)
                    /\ t.size[s] = Cardinality(Members(s, t.of))
  BY DEF RegionExact
<1>1. t.depth # 1 /\ ArgsInv
  BY DEF DataInv, TypeInv
<1>2. DeepForm(t) /\ Settled(mem, t.of)
  BY <1>1, OwnPath
<1>3. Region(t, s) = Place(s, t.of) /\ t.from = ArrayOf(t.of) /\ t.size[s] = Count(s, t.of)
  BY <1>1, <1>2, DeepData DEF DeepForm
<1>4. Holds(mem[t.from][s], s, t.of)
  BY <1>2, <1>3 DEF Settled
<1>5. QED BY <1>3, <1>4 DEF Holds, Count

\* The places that a scatter task writes for a part lie between what is lower than
\* the part's tuples of its data and what is not higher.
LEMMA HistogramIs ==
  ASSUME ArgsInv, NEW t, Sized(t), NEW s \in Sides, NEW q \in Parts, Typed(mem[t.from][s], s)
  PROVE  LET C(x) == Cardinality(Lower(mem[t.from][s], s, Path(t), q, x))
         IN  /\ C(t.base[s]) \in Nat /\ C(t.base[s] + t.size[s]) \in Nat
             /\ C(t.base[s] + t.size[s]) = C(t.base[s]) + Histogram(t)[s][q]
<1> DEFINE arr == mem[t.from][s]
           p == Path(t)
           b == t.base[s]
           e == t.base[s] + t.size[s]
           K == {i \in Region(t, s) : Key(arr, s, p, i) = q}
<1>1. /\ p \in Seq(Parts) /\ t.depth = Len(p) + 1 /\ b \in Nat /\ e \in Nat /\ b <= e
      /\ Region(t, s) = b .. (e - 1) /\ Region(t, s) \subseteq Place(s, p)
  BY DEF Sized, Region
<1>2. Histogram(t)[s][q] = Cardinality(K)
  BY <1>1, HistogramCounts
<1>3. Place(s, p) \subseteq Nat
  BY <1>1, PartType
<1> HIDE DEF arr, p, b, e
<1>4. /\ IsFiniteSet(Lower(arr, s, p, q, b)) /\ Cardinality(Lower(arr, s, p, q, b)) \in Nat
      /\ IsFiniteSet(Lower(arr, s, p, q, e)) /\ Cardinality(Lower(arr, s, p, q, e)) \in Nat
  BY <1>1, LowerType
<1>5. Lower(arr, s, p, q, e) = Lower(arr, s, p, q, b) \cup K
  <2>1. ASSUME NEW j \in Place(s, p)
        PROVE  j \in Lower(arr, s, p, q, e) <=> j \in Lower(arr, s, p, q, b) \/ j \in K
    <3>1. j \in Nat
      BY <1>3
    <3>2. CASE Key(arr, s, p, j) = q
      <4>1. j \in Lower(arr, s, p, q, e) <=> Key(arr, s, p, j) < q \/ j < e
        BY <3>2 DEF Lower
      <4>2. j \in Lower(arr, s, p, q, b) <=> Key(arr, s, p, j) < q \/ j < b
        BY <3>2 DEF Lower
      <4>3. j \in K <=> b <= j /\ j < e
        BY <1>1, <3>1, <3>2
      <4>4. QED BY <1>1, <3>1, <4>1, <4>2, <4>3
    <3>3. CASE Key(arr, s, p, j) # q
      BY <3>3 DEF Lower
    <3>4. QED BY <3>2, <3>3
  <2>2. K \subseteq Place(s, p)
    BY <1>1
  <2>3. Lower(arr, s, p, q, e) \subseteq Place(s, p) /\ Lower(arr, s, p, q, b) \subseteq Place(s, p)
    BY DEF Lower
  <2>4. QED BY <2>1, <2>2, <2>3
<1>6. Lower(arr, s, p, q, b) \cap K = {}
  <2> SUFFICES ASSUME NEW j \in K, j \in Lower(arr, s, p, q, b)
               PROVE  FALSE
    OBVIOUS
  <2>1. j \in Nat /\ b <= j /\ Key(arr, s, p, j) = q
    BY <1>1
  <2>2. Key(arr, s, p, j) < q \/ j < b
    BY DEF Lower
  <2>3. ~ (q < q) /\ ~ (j < b)
    BY <1>1, <2>1, PartsType
  <2>4. QED BY <2>1, <2>2, <2>3
<1>7. IsFiniteSet(K)
  <2>1. K \subseteq Lower(arr, s, p, q, e)
    BY <1>5
  <2>2. QED BY <1>4, <2>1, SubsetSize
<1> HIDE DEF K
<1>8. Cardinality(Lower(arr, s, p, q, e)) = Cardinality(Lower(arr, s, p, q, b)) + Cardinality(K)
  BY <1>4, <1>5, <1>6, <1>7, DisjointUnion
<1>9. QED BY <1>2, <1>4, <1>8 DEF arr, p, b, e

\* How many tuples of its part a task has behind it when it meets one of part q at x.
Behind(t, s, q, x) == Cardinality(Lower(mem[t.from][s], s, Path(t), q, x))

\* A place that a scatter task writes.
Writes(t, e, s, q, x) ==
  /\ e = <<Other(t.from), s, Offset(s, Path(t)) + x>>
  /\ Behind(t, s, q, t.base[s]) <= x /\ x < Behind(t, s, q, t.base[s] + t.size[s])

\* A place that a scatter task writes, in terms of what it has behind it.
LEMMA TargetIs ==
  ASSUME DataInv, NEW t \in Readers, NEW e \in Target(t)
  PROVE  t.op = "scatter" /\ \E s \in Sides, q \in Parts, x \in Nat : Writes(t, e, s, q, x)
<1>1. /\ TypeInv /\ PoolInv /\ FormInv /\ ArgsInv /\ t \in Busy /\ t \in active
      /\ t.op = "scatter"
  BY DEF DataInv, TypeInv, Busy, Readers, Target
<1>2. Sized(t) /\ \A s \in Sides : t.to[s] = Offset(s, Path(t))
  BY <1>1, SizesOfTask
<1>3. SumsAt(t, mem, t.sum, 0)
  <2>1. at[t].pos < Tuples(t)
    BY <1>1 DEF Readers, Reading
  <2>2. QED BY <1>1, <2>1 DEF DataInv, ScatterInv, Scattering
<1>4. PICK s \in Sides, q \in Parts : \E j \in 0 .. (Histogram(t)[s][q] - 1) :
             e = <<Other(t.from), s, t.to[s] + t.sum[s][q] + j>>
  BY <1>1 DEF Target
<1>5. PICK j \in 0 .. (Histogram(t)[s][q] - 1) : e = <<Other(t.from), s, t.to[s] + t.sum[s][q] + j>>
  BY <1>4
<1> DEFINE o == Offset(s, Path(t))
           b == Behind(t, s, q, t.base[s])
           f == Behind(t, s, q, t.base[s] + t.size[s])
           h == Histogram(t)[s][q]
           x == b + j
<1>6. b \in Nat /\ f \in Nat /\ f = b + h
  <2>1. t.from \in Arrays
    BY <1>2 DEF Sized
  <2>2. Typed(mem[t.from][s], s)
    BY <1>1, <2>1 DEF TypeInv
  <2>3. QED BY <1>1, <1>2, <2>2, HistogramIs DEF Behind
<1>7. t.sum[s][q] = b
  <2>1. Bound(t, s, 0) = t.base[s]
    <3>1. 0 \in Nat
      OBVIOUS
    <3>2. QED BY <1>2, <3>1, BoundSteps
  <2>2. QED BY <1>3, <2>1 DEF SumsAt, Behind
<1>8. o \in Nat
  BY <1>1, <1>2, PartType DEF Sized
<1>9. h \in Int /\ j \in 0 .. (h - 1)
  <2>1. j \in 0 .. (h - 1)
    BY <1>5
  <2>2. \A s1 \in Sides : IsFiniteSet(Region(t, s1))
    BY <1>1, <1>2, RegionFinite
  <2>3. Histogram(t) \in [Sides -> [Parts -> Nat]]
    BY <2>2, HistogramType
  <2>4. h \in Nat
    BY <2>3
  <2>5. QED BY <2>1, <2>4
<1>10. e = <<Other(t.from), s, o + b + j>>
  BY <1>2, <1>5, <1>7
<1> HIDE DEF o, b, f, h
<1>11. j \in Nat /\ o + b + j = o + x /\ x \in Nat /\ b <= x /\ x < f
  BY <1>6, <1>8, <1>9
<1>12. e = <<Other(t.from), s, o + x>>
  BY <1>10, <1>11
<1> HIDE DEF x
<1>13. Writes(t, e, s, q, x)
  BY <1>11, <1>12 DEF Writes, o, b, f
<1>14. QED BY <1>1, <1>11, <1>13

\* Below the first round, everything a task reads or writes is in the place of its part.
LEMMA PlacesOf ==
  ASSUME DataInv, NEW t \in Readers, t.depth # 1, NEW e \in Source(t) \cup Target(t)
  PROVE  \E a \in Arrays, s \in Sides : \E i \in Place(s, t.of) : e = <<a, s, i>>
<1>1. ArgsInv /\ DeepForm(t) /\ t.of \in Seq(Parts)
  BY OwnPath DEF DataInv, TypeInv
<1>2. \A s \in Sides : Region(t, s) = Place(s, t.of) /\ Path(t) = t.of
  BY <1>1, DeepData
<1>3. t.from \in Arrays /\ Other(t.from) \in Arrays
  BY <1>1, OtherArray DEF DeepForm
<1>4. CASE e \in Source(t)
  <2>1. PICK s \in Sides : \E i \in Region(t, s) : e = <<t.from, s, i>>
    BY <1>4 DEF Source
  <2>2. PICK i \in Region(t, s) : e = <<t.from, s, i>>
    BY <2>1
  <2>3. i \in Place(s, t.of)
    BY <1>2
  <2>4. QED BY <1>3, <2>2, <2>3
<1>5. CASE e \in Target(t)
  <2>1. PICK s \in Sides, q \in Parts, x \in Nat : Writes(t, e, s, q, x)
    BY <1>5, TargetIs
  <2> DEFINE f == Behind(t, s, q, t.base[s] + t.size[s])
             o == Offset(s, t.of)
  <2>2. e = <<Other(t.from), s, o + x>> /\ x < f
    BY <1>2, <2>1 DEF Writes
  <2>3. f \in Nat /\ f <= Count(s, t.of)
    BY <1>1, <1>2, LowerType DEF Behind
  <2>4. o \in Nat /\ Count(s, t.of) \in Nat
    BY <1>1, PartType
  <2> HIDE DEF f
  <2>5. o <= o + x /\ o + x <= o + Count(s, t.of) - 1 /\ o + x \in Int
    BY <2>2, <2>3, <2>4
  <2>6. o + x \in Place(s, t.of)
    BY <2>4, <2>5 DEF Place
  <2> HIDE DEF o
  <2>7. QED BY <1>3, <2>2, <2>6
<1>6. QED BY <1>4, <1>5

\* Below the first round, tasks that need their data have different parts.
LEMMA DeepExclusive ==
  ASSUME DataInv, NEW t \in Readers, NEW u \in Readers, t # u, t.depth # 1, u.depth # 1
  PROVE  Target(t) \cap (Source(u) \cup Target(u)) = {}
<1> SUFFICES ASSUME NEW e \in Target(t), e \in Source(u) \cup Target(u)
             PROVE  FALSE
  OBVIOUS
<1>1. /\ ArgsInv /\ Later /\ t.of \in Seq(Parts) /\ u.of \in Seq(Parts)
      /\ <<{t}, t.of>> \in Holdings /\ <<{u}, u.of>> \in Holdings
  BY OwnPath DEF DataInv, TypeInv
<1>2. Apart(t.of, u.of)
  <2> DEFINE x == <<{t}, t.of>>
             y == <<{u}, u.of>>
  <2>1. x \in Holdings /\ y \in Holdings /\ x[2] = t.of /\ y[2] = u.of
    BY <1>1
  <2>2. x # y
    <3>1. {t} # {u}
      OBVIOUS
    <3>2. QED BY <3>1
  <2> HIDE DEF x, y
  <2>3. QED BY <1>1, <2>1, <2>2 DEF DataInv, OwnInv, AllApart
<1>3. PICK a \in Arrays, s \in Sides : \E i \in Place(s, t.of) : e = <<a, s, i>>
  BY PlacesOf
<1>4. PICK b \in Arrays, z \in Sides : \E j \in Place(z, u.of) : e = <<b, z, j>>
  BY PlacesOf
<1>5. PICK i \in Place(s, t.of) : e = <<a, s, i>>
  BY <1>3
<1>6. PICK j \in Place(z, u.of) : e = <<b, z, j>>
  BY <1>4
<1>7. s = z /\ i = j
  BY <1>5, <1>6
<1>8. Place(s, t.of) \cap Place(s, u.of) = {}
  BY <1>1, <1>2, ApartParts
<1>9. QED BY <1>7, <1>8

\* In the first round, what two threads write for a part is apart, the more so what
\* they write for different ones.
LEMMA BehindGrows ==
  ASSUME DataInv, mpc = "scatter", NEW k \in Slots, NEW j \in Slots, k < j,
         NEW s \in Sides, NEW q \in Parts, NEW r \in Parts, NEW x \in Nat,
         Behind(Chunk("scatter", k), s, q, Edge(s, k)) <= x,
         x < Behind(Chunk("scatter", k), s, q, Edge(s, k + 1)),
         Behind(Chunk("scatter", j), s, r, Edge(s, j)) <= x,
         x < Behind(Chunk("scatter", j), s, r, Edge(s, j + 1))
  PROVE  FALSE
<1> DEFINE arr == mem["input"][s]
           p == <<>>
           C(y, z) == Cardinality(Lower(arr, s, p, y, z))
<1>1. ArgsInv /\ Typed(arr, s) /\ p \in Seq(Parts)
  BY DEF DataInv, TypeInv, Arrays
<1>2. \A i, y, z : Behind(Chunk("scatter", i), s, y, z) = C(y, z)
  BY ChunkForm DEF Behind
<1> HIDE DEF arr, p
<1>3. /\ Edge(s, k) \in Int /\ Edge(s, k + 1) \in Int /\ Edge(s, j) \in Int /\ Edge(s, j + 1) \in Int
      /\ Edge(s, k + 1) <= Edge(s, j)
  <2>1. k \in 0 .. threads /\ k + 1 \in 0 .. threads /\ j \in 0 .. threads /\ j + 1 \in 0 .. threads
        /\ k + 1 <= j
    BY DataAssumption DEF Slots
  <2>2. QED BY <1>1, <2>1, ChunkEdges
<1>4. \A y, z : C(y, z) \in Nat
  BY <1>1, LowerType
<1>5. q \in Nat /\ r \in Nat
  BY PartsType
<1>6. CASE q <= r
  <2>1. q < r \/ (q = r /\ Edge(s, k + 1) <= Edge(s, j))
    BY <1>3, <1>5, <1>6
  <2>2. C(q, Edge(s, k + 1)) <= C(r, Edge(s, j))
    BY <1>1, <1>3, <2>1, LowerGrows
  <2> HIDE DEF C
  <2>3. QED BY <1>2, <1>4, <2>2
<1>7. CASE r < q
  <2>1. C(r, Edge(s, j + 1)) <= C(q, Edge(s, k))
    BY <1>1, <1>3, <1>7, LowerGrows
  <2> HIDE DEF C
  <2>2. QED BY <1>2, <1>4, <2>1
<1>8. QED BY <1>5, <1>6, <1>7

\* In the first round, threads write different places for their chunks.
LEMMA FirstExclusive ==
  ASSUME DataInv, NEW t \in Readers, NEW u \in Readers, t # u, SetUp
  PROVE  Target(t) \cap (Source(u) \cup Target(u)) = {}
<1> SUFFICES ASSUME NEW e \in Target(t), e \in Source(u) \cup Target(u)
             PROVE  FALSE
  OBVIOUS
<1>1. TypeInv /\ PoolInv /\ FormInv /\ ArgsInv /\ t \in Busy /\ u \in Busy /\ ~ Later
  BY DEF DataInv, TypeInv, Busy, Readers, SetUp, Later
<1>2. t.op = "scatter"
  BY TargetIs
<1>3. mpc = "scatter" /\ \E k \in Slots : t = Chunk("scatter", k)
  BY <1>1, <1>2, BusyTask, ChunkForm
<1>4. PICK k \in Slots : t = Chunk("scatter", k)
  BY <1>3
<1>5. PICK j \in Slots : u = Chunk("scatter", j)
  BY <1>1, <1>3, BusyTask
<1>6. k # j /\ k \in Nat /\ j \in Nat
  BY <1>4, <1>5, DataAssumption DEF Slots
<1>7. \A i : /\ Chunk("scatter", i).from = "input" /\ Path(Chunk("scatter", i)) = <<>>
  BY ChunkForm
<1>8. PICK s \in Sides, q \in Parts, x \in Nat : Writes(t, e, s, q, x)
  BY TargetIs
<1>9. e \in Target(u)
  <2> SUFFICES ASSUME e \in Source(u)
               PROVE  FALSE
    OBVIOUS
  <2>1. PICK z \in Sides : \E i \in Region(u, z) : e = <<u.from, z, i>>
    BY DEF Source
  <2>2. e[1] = "input"
    BY <1>5, <1>7, <2>1
  <2>3. e[1] = Other(t.from)
    BY <1>8 DEF Writes
  <2>4. QED BY <1>4, <1>7, <2>2, <2>3, OtherArray
<1>10. PICK z \in Sides, r \in Parts, y \in Nat : Writes(u, e, z, r, y)
  BY <1>9, TargetIs
<1>11. s = z /\ x = y
  <2>1. Offset(s, <<>>) = 0
    BY <1>1, WholePart
  <2>2. e[2] = s /\ e[3] = 0 + x
    BY <1>4, <1>7, <1>8, <2>1 DEF Writes
  <2>3. Offset(z, <<>>) = 0
    BY <1>1, WholePart
  <2>4. e[2] = z /\ e[3] = 0 + y
    BY <1>5, <1>7, <1>10, <2>3 DEF Writes
  <2>5. QED BY <2>2, <2>4
<1>12. ASSUME NEW i \in Slots
       PROVE  LET w == Chunk("scatter", i)
              IN  w.base[s] = Edge(s, i) /\ w.base[s] + w.size[s] = Edge(s, i + 1)
  <2> DEFINE w == Chunk("scatter", i)
  <2>1. w.base[s] = Edge(s, i) /\ w.size[s] = Edge(s, i + 1) - Edge(s, i)
    BY <1>1, ChunkEdges
  <2>2. Edge(s, i) \in Nat /\ Edge(s, i + 1) \in Nat
    <3>1. i \in 0 .. threads /\ i + 1 \in 0 .. threads
      BY DataAssumption DEF Slots
    <3>2. QED BY <1>1, <3>1, ChunkEdges
  <2> HIDE DEF w
  <2>3. w.base[s] + w.size[s] = Edge(s, i + 1)
    BY <2>1, <2>2
  <2>4. QED BY <2>1, <2>3 DEF w
<1>13. /\ Behind(t, s, q, Edge(s, k)) <= x /\ x < Behind(t, s, q, Edge(s, k + 1))
  BY <1>4, <1>8, <1>12 DEF Writes
<1>14. /\ Behind(u, s, r, Edge(s, j)) <= x /\ x < Behind(u, s, r, Edge(s, j + 1))
  BY <1>5, <1>10, <1>11, <1>12 DEF Writes
<1>15. k < j \/ j < k
  BY <1>6
<1>16. CASE k < j
  BY <1>3, <1>4, <1>5, <1>13, <1>14, <1>16, BehindGrows
<1>17. CASE j < k
  BY <1>3, <1>4, <1>5, <1>13, <1>14, <1>17, BehindGrows
<1>18. QED BY <1>15, <1>16, <1>17

\* The invariant implies that no place is shared.
LEMMA SlotsFollow ==
  ASSUME DataInv
  PROVE  SlotsExclusive
<1> SUFFICES ASSUME NEW t \in Readers, NEW u \in Readers, t # u
             PROVE  Target(t) \cap (Source(u) \cup Target(u)) = {}
  BY DEF SlotsExclusive
<1>1. TypeInv /\ PoolInv /\ FormInv /\ t \in Busy /\ u \in Busy
  BY DEF DataInv, Busy, Readers
<1>2. CASE SetUp
  BY <1>2, FirstExclusive
<1>3. CASE ~ SetUp
  <2>1. DeepForm(t) /\ DeepForm(u)
    BY <1>1, <1>3, BusyTask DEF SetUp
  <2>2. "l" \in Sides /\ ArgsInv
    BY <1>1 DEF Sides, TypeInv
  <2>3. t.depth # 1 /\ u.depth # 1
    BY <2>1, <2>2, DeepData
  <2>4. QED BY <2>3, DeepExclusive
<1>4. QED BY <1>2, <1>3

\* Every variable of the model has its type; no sum and no step count runs past its bound.
THEOREM TypesHold == Spec => []TypeOK
BY DataHolds, TypeFollows, PTL

\* A task below the first round, queued or running, finds in its region exactly the
\* tuples of its part, each of them once, as long as it needs them: the bounds that a
\* scatter task takes from its advanced sums (radix_tasks.cpp:113-130) are right, and
\* nobody overwrites the region, for every relation, hash function, number of bits,
\* passes and threads.
THEOREM RegionsAreExact == Spec => []RegionExact
BY DataHolds, RegionFollows, PTL

\* No running task writes a place that another running task reads or writes: neither the
\* local sums of the first round (radix_join_mt.cpp:89-108) nor the regions of the later
\* ones ever overlap, so that the scattering needs no lock.
THEOREM SlotsAreExclusive == Spec => []SlotsExclusive
BY DataHolds, SlotsFollow, PTL

\* Between calls the result vectors hold every pair of rows with the same key once for
\* each execute() since the last set(), and nothing else, and get() is refused exactly if
\* there was none, although execute() may reorder the caller's arrays.
THEOREM ResultIsExact == Spec => []ResultExact
BY DataHolds, ResultFollows, PTL
================================================================================
