-------------------------------- MODULE RadixData --------------------------------
(***************************************************************************)
(* What the tasks of the multi-threaded radix join do to the tuples:       *)
(* histograms, prefix sums and scattering of                               *)
(* joins/src/algorithms/mt_radix/radix_tasks.cpp and radix_join_mt.cpp,    *)
(* and the calls execute and set of the radix_join_mt object.              *)
(*                                                                         *)
(* Tuples move between the caller's arrays, "input" here, and the arrays   *)
(* that execute allocates, "target".  Depth 1 scatters from input to       *)
(* target, depth 2 back, and so on.  Where a tuple goes follows from sums  *)
(* that the scattering itself advances, and the tasks of the next depth    *)
(* take the bounds of their region from the advanced sums.                 *)
(*                                                                         *)
(* The pool is the abstract one, WorkQueue.tla, which ThreadPool.tla is    *)
(* shown to implement.  How execute finds out that the last join task has  *)
(* begun, and how join tasks share the result vectors, is in               *)
(* RadixTasks.tla; here there is one bag of pairs.                         *)
(*                                                                         *)
(* A tuple is named by its row, counted from 1; "l" and "r" are the sides. *)
(***************************************************************************)
EXTENDS Integers, Sequences, FiniteSets, Functions

CONSTANTS
  Keys,          \* the join attribute's values
  Hash,          \* murmur3
  HashBits,      \* the width of a hash value, 64 in the code
  RadixBits,     \* bits per pass
  Passes,        \* the numbers of partitioning passes to look at
  threads,       \* the number of threads
  MaxCalls,      \* bound: how often execute and set are called
  Inputs         \* pairs of relations, each of them a sequence of keys

Sides == {"l", "r"}

\* RadixTasks.tla looks at a join without passes.  No shift is as wide as its operand.
ASSUME DataAssumption ==
  /\ HashBits \in Nat /\ RadixBits \in Nat /\ MaxCalls \in Nat
  /\ Hash \in [Keys -> 0 .. (2 ^ HashBits - 1)]
  /\ Passes \subseteq Nat \ {0}
  /\ \A d \in Passes : RadixBits * d < HashBits
  /\ threads \in Nat \ {0}
  /\ Inputs \subseteq [Sides -> Seq(Keys)]

Arrays     == {"input", "target"}
part_count == 2 ^ RadixBits
Parts      == 0 .. (part_count - 1)
Slots      == 0 .. (threads - 1)

\* The other one of the two arrays of a side.
Other(a) == IF a = "input" THEN "target" ELSE "input"

\* The tuple that new tuple[] puts everywhere.  Its key is 0, as is murmur3 of it.
NoRow == 0

NoSums == [s \in Sides |-> [p \in Parts |-> 0]]
Add(f, g) == [s \in Sides |-> f[s] + g[s]]

\* A task: op is what it does, of the chunk or the path of parts that leads to its
\* part.  Its data is size[s] tuples of array from, starting at base[s]; its target
\* starts at to[s] of the other array.  sum are the prefix sums of a scatter task.
Work ==
  [op : {"partition", "scatter", "join"}, depth : Nat, of : Seq(Nat), from : Arrays,
   base : [Sides -> Nat], size : [Sides -> Nat], to : [Sides -> Nat],
   sum : [Sides -> [Parts -> Nat]]]

--------------------------------------------------------------------------------

\* The pool's variables, see WorkQueue.tla.
VARIABLES queue, active, finished, denied, closed, drained

VARIABLES
  rel,      \* the relations the join was constructed with
  passes,   \* radix_join_mt::passes
  mem,      \* the arrays
  at,       \* for each active task the steps it has done and its sums
  mpc,      \* where execute() is, "idle" when it is not running
  round,    \* how many tasks of the current round it has enqueued
  hist,     \* the histograms that the futures of the first round deliver
  result,   \* how often the result vectors hold a pair of rows
  built,    \* radix_join_mt::built
  calls,    \* how many calls there were, and how many of them
  due       \* were calls of execute that returned after the last set

poolVars == <<queue, active, finished, denied, closed, drained>>
mainVars == <<mpc, round>>
args     == <<rel, passes>>
objVars  == <<built, calls, due>>
vars     == <<poolVars, args, mem, at, mainVars, hist, result, objVars>>

Pool == INSTANCE WorkQueue WITH Width <- threads

Rows(s) == 1 .. Len(rel[s])
Pairs   == Rows("l") \X Rows("r")

Init ==
  /\ Pool!Init
  /\ rel \in Inputs /\ passes \in Passes
  /\ mem = [a \in Arrays |-> [s \in Sides |-> [i \in 0 .. (Len(rel[s]) - 1) |->
              IF a = "input" THEN i + 1 ELSE NoRow]]]
  /\ at = <<>>
  /\ mpc = "idle"
  /\ round = 0
  /\ hist = [k \in Slots |-> NoSums]
  /\ result = [m \in Pairs |-> 0]
  /\ built = FALSE
  /\ calls = 0
  /\ due = 0

--------------------------------------------------------------------------------
(* Histograms and sums. *)

\* The bits of a hash value that count at depth d.
Value(hash, d) == (hash % 2 ^ (d * RadixBits)) \div 2 ^ ((d - 1) * RadixBits)

HashOf(s, row) == IF row = NoRow THEN 0 ELSE Hash[rel[s][row]]

Region(t, s) == t.base[s] .. (t.base[s] + t.size[s] - 1)

\* The part to which the tuple at place i of its data belongs, for task t.
PartAt(t, s, i) == Value(HashOf(s, mem[t.from][s][i]), t.depth)

Histogram(t) ==
  [s \in Sides |-> [p \in Parts |-> Cardinality({i \in Region(t, s) : PartAt(t, s, i) = p})]]

\* Mutant of Prefix: the sum includes the part itself.
PrefixInclusive(h) ==
  LET sum[p \in Parts] == IF p = 0 THEN h[0] ELSE sum[p - 1] + h[p] IN sum

\* How many tuples belong to the parts before p.
Prefix(h) ==
  LET sum[p \in Parts] == IF p = 0 THEN 0 ELSE sum[p - 1] + h[p - 1] IN sum

\* How many tuples of the parts are in the chunks before k; all chunks together make
\* the global histogram.
Before(k, s) ==
  LET sum[j \in 0 .. k] ==
        IF j = 0 THEN NoSums[s] ELSE [p \in Parts |-> sum[j - 1][p] + hist[j - 1][s][p]]
  IN  sum[k]

GlobalSum(s) == Prefix(Before(threads, s))

\* Mutant of LocalSum: the histograms of the threads before are not added.
LocalSumShared(k) == [s \in Sides |-> GlobalSum(s)]

\* Where thread k scatters the tuples of each part to.
LocalSum(k) == [s \in Sides |-> [p \in Parts |-> GlobalSum(s)[p] + Before(k, s)[p]]]

--------------------------------------------------------------------------------
(* The tasks. *)

\* Mutant of ChunkSize: the last chunk does not take what the division leaves.
ChunkSizeNoRest(s, k) == Len(rel[s]) \div threads

ChunkSize(s, k) ==
  LET range == Len(rel[s]) \div threads
  IN  IF k = threads - 1 THEN Len(rel[s]) - k * range ELSE range

Chunk(op, k) ==
  [op |-> op, depth |-> 1, of |-> <<k>>, from |-> "input",
   base |-> [s \in Sides |-> k * (Len(rel[s]) \div threads)],
   size |-> [s \in Sides |-> ChunkSize(s, k)],
   to   |-> [s \in Sides |-> 0],
   sum  |-> IF op = "scatter" THEN LocalSum(k) ELSE NoSums]

\* The task for a part after depth - 1 passes.
Subtask(depth, of, from, base, size, to) ==
  [op |-> IF depth <= passes THEN "partition" ELSE "join",
   depth |-> depth, of |-> of, from |-> from, base |-> base, size |-> size, to |-> to,
   sum |-> NoSums]

\* What execute schedules for part p after the first round.
FirstPart(p) ==
  LET start == [s \in Sides |-> GlobalSum(s)[p]]
  IN  Subtask(2, <<p>>, "target", start, [s \in Sides |-> Before(threads, s)[p]], start)

ScatterOf(t) == [t EXCEPT !.op = "scatter", !.sum = [s \in Sides |-> Prefix(Histogram(t)[s])]]

\* Mutant of PartOf: the fencepost's sizes are those of the second part.
PartOfShifted(t, p) ==
  LET sum   == at[t].sum
      start == [s \in Sides |-> IF p = 0 THEN 0 ELSE sum[s][p - 1]]
      end   == [s \in Sides |-> IF p = 0 THEN sum[s][1] ELSE sum[s][p]]
  IN  Subtask(t.depth + 1, Append(t.of, p), Other(t.from), Add(t.to, start),
              [s \in Sides |-> end[s] - start[s]], Add(t.base, start))

\* What scatter task t schedules for part p: the sum that was the start of a part
\* has become the start of the next one.  Source and target change their roles.
PartOf(t, p) ==
  LET sum   == at[t].sum
      start == [s \in Sides |-> IF p = 0 THEN 0 ELSE sum[s][p - 1]]
  IN  Subtask(t.depth + 1, Append(t.of, p), Other(t.from), Add(t.to, start),
              [s \in Sides |-> sum[s][p] - start[s]], Add(t.base, start))

Tuples(t) == t.size["l"] + t.size["r"]

\* How many steps a task takes: a scatter task moves a tuple at a time and then
\* schedules a task for each part, unless execute does that.
Steps(t) ==
  IF t.op # "scatter" THEN 1
  ELSE IF t.depth = 1 THEN Tuples(t)
  ELSE Tuples(t) + part_count

Start ==
  /\ Pool!Start
  /\ at' = [t \in active' |-> IF t \in active THEN at[t] ELSE [pos |-> 0, sum |-> t.sum]]
  /\ UNCHANGED <<args, mem, mainVars, hist, result, objVars>>

\* A partition task of the first round: its future delivers the histograms.
Deliver(t) ==
  /\ t.op = "partition" /\ t.depth = 1 /\ at[t].pos = 0
  /\ hist' = [hist EXCEPT ![t.of[1]] = Histogram(t)]
  /\ at' = [at EXCEPT ![t].pos = 1]
  /\ UNCHANGED <<poolVars, args, mem, mainVars, result, objVars>>

\* Any other partition task schedules the scatter task for its data.
Partition(t) ==
  /\ t.op = "partition" /\ t.depth > 1 /\ at[t].pos = 0
  /\ Pool!Accept(ScatterOf(t))
  /\ at' = [at EXCEPT ![t].pos = 1]
  /\ UNCHANGED <<args, mem, mainVars, hist, result, objVars>>

\* The side and the place of the next tuple a scatter task moves.
NextSide(t)  == IF at[t].pos < t.size["l"] THEN "l" ELSE "r"
NextPlace(t) == t.base[NextSide(t)] + at[t].pos - (IF NextSide(t) = "l" THEN 0 ELSE t.size["l"])

Scatter(t) ==
  LET s == NextSide(t)
      p == PartAt(t, s, NextPlace(t))
      write_to == t.to[s] + at[t].sum[s][p]
  IN  /\ t.op = "scatter" /\ at[t].pos < Tuples(t)
      /\ mem' = [mem EXCEPT ![Other(t.from)][s][write_to] = mem[t.from][s][NextPlace(t)]]
      /\ at' = [at EXCEPT ![t].pos = @ + 1, ![t].sum[s][p] = @ + 1]
      /\ UNCHANGED <<poolVars, args, mainVars, hist, result, objVars>>

\* The second part comes first, the first one last.
Spawn(t) ==
  /\ t.op = "scatter" /\ at[t].pos >= Tuples(t) /\ at[t].pos < Steps(t)
  /\ Pool!Accept(PartOf(t, (at[t].pos - Tuples(t) + 1) % part_count))
  /\ at' = [at EXCEPT ![t].pos = @ + 1]
  /\ UNCHANGED <<args, mem, mainVars, hist, result, objVars>>

\* The join of two regions, row by row.
Held(t, s, row) == Cardinality({i \in Region(t, s) : mem[t.from][s][i] = row})
SameKey(m)      == rel["l"][m[1]] = rel["r"][m[2]]

Join(t) ==
  /\ t.op = "join" /\ at[t].pos = 0
  /\ result' = [m \in Pairs |->
       result[m] + IF SameKey(m) THEN Held(t, "l", m[1]) * Held(t, "r", m[2]) ELSE 0]
  /\ at' = [at EXCEPT ![t].pos = 1]
  /\ UNCHANGED <<poolVars, args, mem, mainVars, hist, objVars>>

Complete(t) ==
  /\ at[t].pos = Steps(t)
  /\ Pool!Complete(t)
  /\ at' = Restrict(at, active')
  /\ UNCHANGED <<args, mem, mainVars, hist, result, objVars>>

--------------------------------------------------------------------------------
(* The calls of the object. *)

\* execute() is called.  An empty relation has no matches; otherwise there are a new
\* pool and new target arrays.
Call ==
  LET empty == \E s \in Sides : rel[s] = <<>>
  IN  /\ mpc = "idle" /\ calls < MaxCalls
      /\ calls' = calls + 1
      /\ IF empty
         THEN built' = TRUE /\ due' = due + 1 /\ UNCHANGED <<poolVars, mem, mpc>>
         ELSE /\ queue' = <<>> /\ active' = {} /\ finished' = {} /\ denied' = {}
              /\ closed' = FALSE /\ drained' = FALSE
              /\ mem' = [mem EXCEPT !["target"] =
                           [s \in Sides |-> [i \in DOMAIN @[s] |-> NoRow]]]
              /\ mpc' = "partition"
              /\ UNCHANGED <<built, due>>
      /\ UNCHANGED <<args, at, round, hist, result>>

RoundSize    == IF mpc = "leaves" THEN part_count ELSE threads
RoundTask(i) == IF mpc = "leaves" THEN FirstPart(i) ELSE Chunk(mpc, i)

MainEnqueue ==
  /\ mpc \in {"partition", "scatter", "leaves"}
  /\ round < RoundSize
  /\ Pool!Accept(RoundTask(round))
  /\ round' = round + 1
  /\ UNCHANGED <<args, mem, at, mpc, hist, result, objVars>>

\* Wait for the futures of the round.
MainBarrier ==
  /\ mpc \in {"partition", "scatter"}
  /\ round = threads
  /\ \A k \in Slots : Chunk(mpc, k) \in finished
  /\ mpc' = IF mpc = "partition" THEN "scatter" ELSE "leaves"
  /\ round' = 0
  /\ UNCHANGED <<poolVars, args, mem, at, hist, result, objVars>>

MainAwait ==
  /\ mpc = "leaves"
  /\ round = part_count
  /\ mpc' = "wait"
  /\ round' = 0
  /\ built' = TRUE
  /\ UNCHANGED <<poolVars, args, mem, at, hist, result, calls, due>>

\* All join tasks have begun, and counted themselves: finish the pool.
JoinsBegun == Cardinality({t \in active \cup finished : t.op = "join"})

MainFinish ==
  /\ mpc = "wait"
  /\ JoinsBegun = 2 ^ (RadixBits * passes)
  /\ Pool!Close
  /\ mpc' = "finish"
  /\ UNCHANGED <<args, mem, at, round, hist, result, objVars>>

MainReturn ==
  /\ mpc = "finish"
  /\ Pool!Drain
  /\ mpc' = "idle"
  /\ due' = due + 1
  /\ UNCHANGED <<args, mem, at, round, hist, result, built, calls>>

\* set() is called with empty vectors, one for each thread.
Set ==
  /\ mpc = "idle" /\ calls < MaxCalls
  /\ calls' = calls + 1
  /\ result' = [m \in Pairs |-> 0]
  /\ built' = FALSE
  /\ due' = 0
  /\ UNCHANGED <<poolVars, args, mem, at, mainVars, hist>>

--------------------------------------------------------------------------------

Terminated ==
  /\ mpc = "idle" /\ calls = MaxCalls
  /\ UNCHANGED vars

MainStep ==
  Call \/ MainEnqueue \/ MainBarrier \/ MainAwait \/ MainFinish \/ MainReturn \/ Set

TaskStep(t) ==
  Deliver(t) \/ Partition(t) \/ Scatter(t) \/ Spawn(t) \/ Join(t) \/ Complete(t)

Next ==
  \/ MainStep
  \/ Start
  \/ \E t \in active : TaskStep(t)
  \/ Terminated

Spec == Init /\ [][Next]_vars

--------------------------------------------------------------------------------

TypeOK ==
  /\ rel \in [Sides -> Seq(Keys)] /\ passes \in Nat
  /\ \A a \in Arrays, s \in Sides :
       mem[a][s] \in [0 .. (Len(rel[s]) - 1) -> Rows(s) \cup {NoRow}]
  /\ queue \in Seq(Work) /\ active \subseteq Work
  /\ DOMAIN at = active
  /\ \A t \in active : /\ at[t].pos \in 0 .. Steps(t)
                       /\ \A s \in Sides : at[t].sum[s] \in [Parts -> 0 .. Len(rel[s])]
  /\ mpc \in {"idle", "partition", "scatter", "leaves", "wait", "finish"}
  /\ round \in Nat
  /\ hist \in [Slots -> [Sides -> [Parts -> Nat]]]
  /\ result \in [Pairs -> Nat]
  /\ built \in BOOLEAN /\ calls \in Nat /\ due \in Nat

\* The tuples of a side that belong to the part named by a path.
Members(s, path) ==
  {r \in Rows(s) : \A d \in DOMAIN path : Value(HashOf(s, r), d) = path[d]}

\* A task that still needs its data, and the places it reads and writes in all.
Reading(t) == at[t].pos < IF t.op = "scatter" THEN Tuples(t) ELSE 1
Source(t)  == UNION {{<<t.from, s, i>> : i \in Region(t, s)} : s \in Sides}
Target(t)  ==
  IF t.op # "scatter" THEN {}
  ELSE UNION {{<<Other(t.from), s, t.to[s] + t.sum[s][p] + j>> :
                 j \in 0 .. (Histogram(t)[s][p] - 1)} : s \in Sides, p \in Parts}

Readers == {t \in active : Reading(t)}

\* As long as a task below the first round needs its data, queued or running, its
\* region holds exactly the tuples of its part, each of them once: bounds taken from
\* advanced sums fit (radix_tasks.cpp:113-130), and nobody scatters into the region
\* too early, although a task's source is the target of the tasks it schedules.
RegionExact ==
  \A t \in Pool!Queued \cup Readers : t.depth > 1 =>
    \A s \in Sides :
      /\ {mem[t.from][s][i] : i \in Region(t, s)} = Members(s, t.of)
      /\ t.size[s] = Cardinality(Members(s, t.of))

\* No task writes a place that another running task reads or writes: the local sums
\* of the first round (radix_join_mt.cpp:89-108) and the regions of the later ones keep
\* the writes apart that no lock protects.
SlotsExclusive ==
  \A t, u \in Readers : t # u => Target(t) \cap (Source(u) \cup Target(u)) = {}

\* Between calls, the result vectors hold every pair of rows with the same key as
\* often as execute() has returned since the last set(), and no other pair, although
\* execute() may have left the caller's arrays in another order than it found them;
\* and get() is refused exactly if that never happened.
ResultExact ==
  mpc = "idle" =>
    /\ \A m \in Pairs : result[m] = IF SameKey(m) THEN due ELSE 0
    /\ built <=> due > 0
================================================================================
