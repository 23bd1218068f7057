# TLA+ models of the hash joins

This directory holds TLA+ specifications of the C++ hash joins of this
repository, configurations that model-check them with TLC on small instances, and
proofs of their central properties that TLAPS checks for every value of the
constants.  Paths below are relative to `src/`; `mt_radix` stands for
`joins/src/algorithms/mt_radix`.

1. [The system](#1-the-system)
2. [Modules](#2-modules)
3. [From the code to the model](#3-from-the-code-to-the-model)
4. [Properties and runs](#4-properties-and-runs)
5. [Fairness](#5-fairness)
6. [Proofs](#6-proofs)
7. [What the models showed](#7-what-the-models-showed)
8. [What is not modelled](#8-what-is-not-modelled)
9. [Plan](#9-plan)

## 1. The system

The library joins two arrays of (key, row id) tuples and delivers the triples
(key, left row id, right row id) of all pairs with the same key.  There are four
joins and three generators of test data; benchmarks and tests drive them.

| Component | State | Operations | Hard behaviour | Correct when |
|---|---|---|---|---|
| Thread pool, `joins/lib/ThreadPool.h` | queue of tasks, `stop`, mutex, condition variable, worker threads | constructor and worker loop, `enqueue`, `finish` | notifications outside the mutex, tasks that enqueue tasks, `finish` while tasks are queued | every accepted task runs once, in order; no wakeup is lost; `finish` drains the queue and returns |
| Radix tasks and `radix_join_mt::execute`, `mt_radix` | `task_context`: `join_count`, `finished`, stack `free_index`, `results`; histograms and prefix sums; source and target arrays | partition, scatter and join tasks; the three rounds of `execute` and its wait | a tree of tasks that schedule tasks; a counter that ends it all; buffers shared by the threads; arrays that swap roles at every depth | every part is joined once and in full before `execute` returns; no two tasks touch the same tuples or the same buffer; `execute` returns |
| `nop_join_mt` | hash table with a latch per bucket, a result vector per thread | `build`, `probe`, `execute`, `get`, `set` | threads insert into one bucket chain; probing must not begin before building ended | the result is the set of matching pairs |
| `nop_join`, `hash_helpers.h` | hash table with two inline tuples and an overflow list per bucket | `execute`, `get`, `set` | chain lengths around the inline slots; table size 0 | the result is the set of matching pairs |
| `radix_join` | histograms, scattered copies | `partition`, `execute`, `get`, `set` | the bounds of the partitions come from prefix sums that scattering has advanced | the result is the set of matching pairs |
| Generators | vector of tuples, `built` | `build`, `get_count`, `get_vec_copy` | a second `build`; a `build` that fails; bounds at the ends of the integer range | the keys follow the parameters, row ids differ, and what can be copied has been built |
| Benchmarks, `benchmark/bm_joins_mt.cpp` | - | make relations with generators, hand copies to a join | a generator that is built twice, or not at all | - |
| Tests, build files, vendored libraries | - | - | - | - |

How they interact:

- `radix_join_mt::execute` owns a `ThreadPool` and a `task_context`.  It hands tasks
  to the pool with `enqueue`, waits for the futures of the first two rounds, and
  then sleeps on the condition variable `task_context::wait` until a join task has
  set `finished`.  It still holds `join_wait` when it calls `pool.finish()`.
- Tasks run in the pool's threads.  At depth 2 and below they call `enqueue`
  themselves: partition -> scatter -> one task for every part of the next depth, or
  a join task for every part when the last depth is reached.
- A join task runs a `nop_join` on its part.  It borrows an output buffer by popping
  an index from `free_index` (with `output_mutex` locked), has the `nop_join` move
  the vector out and back in (not locked), and pushes the index back (locked).
- `nop_join_mt` starts its own threads, and `radix_join` calls `nop_join` partition by
  partition; neither uses the pool.

The hazards, the places in this code where something can go wrong that a test
would hardly reach, are listed line by line in `PROJECT.json` with the properties
that would catch each of them, or with the reason why no property can.

## 2. Modules

| Module | What it is |
|---|---|
| `WorkQueue` | abstract: what a pool of threads promises.  First-in first-out, each item started once, at most `Width` at a time, refused after closing, drained before that is reported |
| `ThreadPool` | `joins/lib/ThreadPool.h` in full, one action per critical section and per notification outside of one; implements `WorkQueue` |
| `PartitionedJoin` | abstract: each part with matches is joined once, and the call returns only when all of them are joined |
| `RadixTasks` | the tasks of `mt_radix/radix_tasks.cpp` and `radix_join_mt::execute`, composed with an instance of `ThreadPool`; implements `PartitionedJoin` |
| `RadixData` | the same tasks and `execute` on real arrays: histograms, prefix sums, local sums, scattering tuple by tuple, the bounds of every part, and the calls of `execute` and `set` on one object; its pool is `WorkQueue`, which `ThreadPool` implements |
| `RadixFaults` | `RadixTasks` extended by failing allocations, in every kind of task and in `execute` |
| `HashTable` | the buckets of `hash_helpers.h`, with and without latch: what is stored where, and what the counter covers |
| `NopJoinMT` | `nop_join_mt.cpp` and the latched table of `hash_helpers.h`: the threads of both phases, the chunks, the steps of an insertion under the latch; implements `PartitionedJoin` |
| `NopJoinMTObject` | the object around `NopJoinMT`: calls of `execute`, `get` and `set` in any order, with `built` |
| `NopJoin` | `nop_join.cpp`'s build and probe phases as functions of the relations, in the order the code appends matches |
| `SequentialJoins` | the objects `nop_join` and `radix_join`: `partition`, the loop over the parts, `get`, `set`, failing allocations |
| `Generators` | the three generators: constructors, `build`, `get_count`, `get_vec_copy` |
| `JoinProgram` | composes the last two as benchmarks and tests do: generators make relations, a join object is made of their copies and used |
| `MCThreadPool`, `MCRadixTasks`, `MCRadixData`, `MCRadixFaults`, `MCNopJoinMT`, `MCNopJoinMTObject`, `MCJoinProgram` | inputs for TLC; the `.cfg` files give the constants |
| `BasicLemmas` | sequences after an append, a tail and a front; powers of two, products and quotients; least numbers and the induction they give; counting |
| `ThreadPoolProofs` | type correctness, all safety invariants and the refinement of `WorkQueue`, proved |
| `NopJoinMTProofs` | type correctness, all safety invariants and the refinement of `PartitionedJoin`, proved for one call, and that the calls of an object (`NopJoinMTObject`) give exact results |
| `RadixTasksProofs` | type correctness, the invariants of the output buffers and the correct use of the pool; then the tree of tasks: no task twice, no data race, the end of the join, its result, and the refinement of `PartitionedJoin`, proved |
| `RadixFaultsProofs` | what failures cost: the output buffers and the results of `RadixFaults`, proved on top of `RadixTasksProofs` |
| `RadixDataLemmas` | digits, parts and their places in the arrays, sorting by one digit, and the inductive invariant `DataInv` of `RadixData` |
| `RadixDataProofs` | every step of `RadixData` keeps `DataInv`; its type correctness and all its safety invariants, proved |
| `JoinProgramProofs` | `JoinProgram`: type correctness, the results of the single-threaded joins, the partitions of `radix_join` and the data of the generators, proved |

`RadixTasks` takes `ThreadPool` by `INSTANCE ... WITH Clients <- {main}, Owner <- main,
Tasks <- AllTasks`: a step that touches the pool is the conjunction of the pool's
action and what the caller does around it.  The pool's variables are variables of
`RadixTasks`, so its invariants can be stated, and are proved, inside the join.

The operators defined right before another one and called a mutant of it
(`TakeNoPop` before `Take`, ...) are what that definition would be with a plausible
mistake in the code.  No action uses them.  Each property of a passing run has one
that TLC finds violating it when it takes the place of the original
(`PROJECT.json`, "mutants"): this shows that the property can fail.

## 3. From the code to the model

`PROJECT.json`, "map", names the lines behind every definition.  The main decisions:

**Thread pool.**  A critical section never blocks while it holds `queue_mutex`
(`condition.wait` releases it), so each is one action, and the mutex needs no
variable.  What is outside is a step of its own: `notify_one` (line 106) after the
unlock, `notify_all` (117), and the evaluation of the predicate by a woken worker.
A worker is at `check` (about to evaluate the predicate under the mutex), `waiting`
(blocked), `running` or `exited`.  `notify_one` wakes any one of the blocked workers,
or nobody.  A blocked worker may wake spuriously.  `accepted`, `refused` and `done` are
history variables; `done` also stands for the futures that are ready.

**Tasks.**  A task is a record: what it does (`op`), its depth, and which part of the data it
works on (`of`): a thread's chunk of the input in the first round, and afterwards the path of
radix values that leads to the part.  Tuples, histograms and prefix sums are abstracted to this in
`RadixTasks`; `RadixData` has them.  `filled`, chosen in `Init`, is the set of leaves where both
relations have tuples; a join task of any other leaf returns early as the code does.  `Child(t,
i)` is the i-th task that task t schedules, in the order of the code: a scatter task begins with
the second part, and the first part comes last.

**execute.**  `mpc` is its place: the three rounds of enqueues (`partition`, `scatter`,
`leaves`) with a barrier after the first two, the wait for `finished` (`check`, `sleep`)
and `finish`.  While `mpc = "finish"` it holds `join_wait`, so `Signal` is disabled then.
The condition variable's `notify_one` (line 145) is a step after the unlock.  `LeafDepth`
follows the code for every number of passes: with one pass `execute` schedules join
tasks itself, otherwise it schedules depth 2, also when `passes` is 0.

**Join tasks.**  `Count` (atomic increment), `Signal` (locked), `NotifyMain`, `Grab`
(locked), `MoveOut` and `MoveIn` (the `nop_join` takes the vector, and it is assigned
back), `Release` (locked).  The output of a leaf is represented by the leaf itself.

**No-partitioning join.**  A tuple is named by its row, and the relations map rows,
counted from 1, to keys.  `First` and `Last` are the bounds that `execute` hands to thread
t; its loop variable is `bpos[t]` or `ppos[t]`.  An insertion is four steps: `Lock`, `Store`
(the `switch`, lines 68-86), `Increment` (87) and `Unlock`.  They are separate although the
latch is held, because the properties are about what happens when it does not help.
`Stored` has the three ways to store a row; the list of overflow nodes is a sequence,
and storing behind node number `count - 2` drops what was behind it, as the assignment
to a `unique_ptr` does.  The counter is `CountBits` wide.  `Probe` does the whole body of
the loop in one step: it reads what no builder writes any more and writes the thread's
own vector.  That this is so is `BucketRaceFree`.  `result` counts how often a vector
holds a pair of rows; the order of the triples in it is left out.  The single hash
function of the code is the constant `Hash`, an arbitrary one.  The number of buckets
is a constant too, any number but 0, instead of a multiple of the left relation's size.
`NopJoinMTObject` adds the flag `built` and the calls.  A call of `execute` starts with a new
table and appends to the vectors the object has; `Set` gives it empty ones, one for each
thread; `Get` is a caller that moves the triples out of the reference it gets.  `due` counts
the calls of `execute` that have returned since the vectors were replaced.

**The radix join's data.**  `RadixData` keeps the code's control of `RadixTasks` except for
the output buffers and the condition variable, and puts real data into it.  `mem` has two
arrays for each side, the caller's (`input`) and the one `execute` allocates (`target`), and a
tuple is named by its row.  A task is a record of what its arguments say: where its data
starts, how long it is, where its target starts, and the sums.  `Deliver` and `Partition` read
a whole region in one step, `Scatter` moves one tuple and advances one sum, so that the
scatter tasks of different threads and depths interleave tuple by tuple.  `PartOf` computes
the bounds of a part from the advanced sums, as lines 113-130 of `radix_tasks.cpp` do.
`LocalSum` is what `execute` hands to thread k (`radix_join_mt.cpp:89-108`).  A second call of
`execute` begins with the caller's arrays as the first one left them, in another order when
there are two passes.  The result is a bag of pairs of rows.

**Failing allocations.**  `RadixFaults` leaves `RadixTasks` as it is and adds what an exception
does.  In a task that `execute` waits for, `get()` throws it again in `execute`, and its local
variables are destroyed with threads running (`Unwind`): the destruction of the vector of threads
ends the program (`Aborted`), but the context and the pool's condition variable and mutex go
before it, so that by then what the threads do may be undefined (`undefined`, of either value).
The same happens when an allocation fails in `execute` itself, also between two `enqueue` and
after the last one of the first round.  In any other task the exception stays in a future nobody asks and
the rest of the task is not done (`Fail`).  A join task that fails takes its output buffer's
index and contents with it (`JoinThrows`); a later one may then pop an empty stack, which is
undefined behaviour: the model stops there (`undefined`) and says nothing of what follows.

**Single-threaded joins.**  A tuple is `<<key, rid>>`, a match `<<key, left rid, right rid>>`.
`NopJoin!Output` is what `execute()` appends, in the code's order: overflow nodes, second place,
first place.  The table has one and a half buckets per left tuple, whatever `table_size` is
(`nop_join.cpp:28`).  The steps of a `radix_join` are one for each side that is partitioned and
one for each part; nothing runs beside it, but `PartitionsExact` looks at the arrays in between.
`NopThrows` and `RadixThrows` are failing allocations.  That of a `nop_join` may happen before
any match was appended or after some; `RadixThrows` inside a part destroys the result vector,
which was moved into the `nop_join` of the part, while `built` stays TRUE.  After how many
matches a vector has to grow is left open.  `owed` is a history variable: the bag of matches
that all calls since the last `set` should have found; `whole` says that none of them failed.

**Generators.**  What the random engine yields for a seed is a stream of numbers chosen when the
object is made; every `build` reads it from its beginning, because the code constructs the engine
anew from the seed.  The sums of a Zipf distribution are given as whole numbers, they begin with 0
and never fall, and the last one may be below `One`, which stands for 1: in the code they are sums
of rounded floating-point numbers.  `Search` is the binary search; `ZipfKeys` carries `zipf_value`
from one tuple to the next.  `Count` wraps at `CountBits`.  `BuildThrows` is a `reserve` that
refuses the size or an allocation that fails; a vector that is full doubles, so only the first
tuple of a `build` can need memory.  A Zipf generator is `built` even then, because it sets the
flag first; `MayCopy` is the code's own test, and `Copyable` says that callers copy only after a
`build` that returned.

## 4. Properties and runs

| Run | Instance | States, about | Question |
|---|---|---|---|
| `pool` | 3 workers, 2 clients, 4 tasks, fair | 80 thousand | `NoLostWakeup`, `ExactlyOnce`, `NobodySleepsInFinish`, `FinishDrains`, `ImplementsWorkQueue`, `EveryTaskRuns`, `FinishReturns` |
| `radix_one_pass` | 2 threads, 4 parts, every set of filled parts, fair | 100 thousand | join tasks scheduled by `execute`, which compete for buffers: `BuffersExclusive`, `BufferAvailable`, `ImplementsPartitionedJoin`, `ExecuteReturns` |
| `radix_two_passes` | 2 threads, 2 x 1 bit, 3 inputs, fair | 150 thousand | tasks that schedule tasks: `NoTaskTwice`, `ResultsComplete`, `StopAfterLastEnqueue`, `DataRaceFree`, `ImplementsPartitionedJoin`, `ExecuteReturns` |
| `radix_zero_passes` | 2 threads, `passes` = 0, fair | 220 thousand | what still holds when the pool is stopped too early: `AcceptedJoined`, `DataRaceFree`, `ExecuteReturns` |
| `radix_notified_early` | 2 threads, one pass | stops at the violation | the comment at `radix_tasks.h:55-57`, which does not hold |
| `nop_mt_chains` | 2 threads, 6 rows in one of 2 buckets, empty relations, fair | 3 thousand | `BucketsComplete`, `ResultExact`, `ImplementsPartitionedJoin`, `ExecuteReturns` |
| `nop_mt_mixtures` | 3 threads, 2 buckets, all mixtures of 3 keys in 4 rows, up to 3 calls | 570 thousand | `BucketRaceFree`, `CallsExact` |
| `radix_data` | 3 threads, one and two passes of 1 bit, 10 inputs of up to 4 and 3 tuples, up to 3 calls | 280 thousand | `RegionExact`, `SlotsExclusive`, `ResultExact` |
| `radix_faults` | 2 threads, 2 x 1 bit, up to 2 failing tasks, fair | 300 thousand | `BuffersAccounted`, `LossesAccounted`, `FaultsDoNotBlock` |
| `join_program` | 6 kinds of generators, each built up to twice; 4 parts; 3 calls | 590 thousand | `DataFaithful`, `PartitionsExact`, `ResultExact` |
| `row_ids` | as `join_program` | stops at the violation | the class comments of the generators, which do not hold: `RowIdsUnique` |
| `keys_from_start` | as `join_program` | stops at the violation | the comment at `incremental_generator.h:22-23`, which does not hold: `KeysFromStart` |

The properties, in a sentence each:

- `NoLostWakeup`: while a worker sleeps, the workers and notifications on their way to
  the queue are at least as many as its tasks.
- `ExactlyOnce`: an accepted task is queued once, held by one worker, or done.
- `NobodySleepsInFinish`, `FinishDrains`: `finish` never joins a sleeping worker, and
  returns only when every accepted task has returned.
- `BuffersExclusive`: every output buffer is on the stack or held by exactly one join
  task.  `BufferAvailable`: the unchecked `back()` and `pop_back()` find an element.
- `NoTaskTwice`: the loops with their fencepost name each part once.
- `StopAfterLastEnqueue`: the pool is stopped only after all tasks were enqueued.  This
  relates the counter, `2 ^ (bits * passes)`, to the shape of the whole task tree.
- `DataRaceFree`: tasks that read or write tuples at the same time work on disjoint
  data.  It covers the barriers and the swap of source and target at each depth.
- `ResultsComplete`: when `execute` returns, each filled leaf is in one result vector.
- `AcceptedJoined`: when `execute` returns, the output of exactly the join tasks that the pool has
  accepted is in the result vectors, each in one, however early the pool was stopped.
- `BucketsComplete`: while no insertion is between its store and its count, a bucket
  holds exactly the rows inserted so far that hash to it, each once, and its list has
  the length the counter promises to those who walk along it without looking.
- `BucketRaceFree`: builders in one bucket exclude each other, and probers exclude
  builders, although they take no latch.
- `ResultExact` (`NopJoinMT`): when `execute` returns, each pair of rows with the same key is
  in the result vectors once, and no other pair is.  `CallsExact`: between calls it is there
  as often as `execute` has returned since the vectors were replaced, put there by the thread
  whose chunk it is from.
- `RegionExact`: as long as a task below the first round needs its data, its region holds
  exactly the tuples of its part, each once, although its source is the target of other
  tasks and its bounds come from sums that scattering has advanced.
- `SlotsExclusive`: no task writes a place that another running task reads or writes.  It
  says for single tuples what `DataRaceFree` says for whole parts, and covers the local
  sums of the first round, which `DataRaceFree` cannot see.
- `ResultExact` (`RadixData`): between calls each matching pair is in the result as often as
  `execute` has returned since the last `set`, also when a call began with arrays that an
  earlier one has reordered; `get` is refused exactly if that is never.
- `BuffersAccounted`: with failures, too, no buffer is on the stack twice or used twice, and
  exactly the failed join tasks cost a buffer each.
- `LossesAccounted`: if `execute` returns after failures, no part of the task tree was left
  out, and what the results lack is what was destroyed with a buffer, nothing more.
- `FaultsDoNotBlock`: failures keep `execute` waiting for ever only if a task that had still
  tasks to schedule has failed.
- `ResultExact` (`SequentialJoins`): between calls the result vector holds the matches of all
  calls, as a bag; after a failed call it may lack some, but has nothing else and nothing
  twice.
- `PartitionsExact`: after both sides were partitioned, each part is where its bounds say: its
  n-th place holds the n-th tuple of the relation with its bits.
- `DataFaithful`: a generator has the tuples of every `build` that returned and no others, and an
  incremental or uniform one is `built` only with them.  Incremental keys are consecutive, uniform
  ones within their bounds, a Zipf key is the smallest one whose sum reaches the random number, or
  the key before if none does; every `build` makes the same keys.  Within the first `build`,
  which is what callers copy, no row id occurs twice.
- `RowIdsUnique`, `KeysFromStart`: what the comments say of the generators beyond that, and
  the code does not do (section 7).
- `ImplementsWorkQueue`, `ImplementsPartitionedJoin`: the refinements.
- `EveryTaskRuns`, `FinishReturns`, `ExecuteReturns`: the liveness properties.

**Bounds and why they are enough.**  Three workers are the fewest with which a
notification can reach a worker other than the one that will take the task while a
third one sleeps.  A second client beside the owner gives an enqueue that races
`finish` from outside.  Two threads suffice for two tasks to race for anything, and for
the stack of buffers to be put back in another order and to be empty while both are in
use; for more threads there are `BuffersAreExclusive` and `BufferAlwaysAvailable`.  One
pass, two passes and zero passes are the three shapes of `execute`; a third pass only repeats what the second
one does, one level down.  Two radix values are enough to tell the fencepost from the
parts of the loop.  Six rows in one bucket fill both places and a list of four
nodes, so that the walk along the list has length 0, 1, 2 and 3; a chunk of one row and
one without rows occur with three threads and four rows, or one row on the right side.
In `radix_data` three threads and three or four tuples give chunks of one tuple, of none, and a
last one with a rest; keys cover every combination of two hash bits, two keys share them and
two share the whole hash value; two passes scatter into the caller's arrays, from which
the next call starts.  In `radix_faults` a second failure is what makes a join task find the
stack empty, with two threads.  In `join_program` a relation of five equal keys gives chains
along which the walk has links to follow, two keys share a bucket in a part's table, and two of the
ranges wrap.  `MaxCalls` (three: before, between and after), `MaxBuilds` and `MaxThrows` are
the bounds on calls and failures; without failures and calls no counter of the models is
unbounded: each task is enqueued once and the set of tasks is finite.

No run uses symmetry or a state constraint.  `CHECK_DEADLOCK` is on
everywhere: a state without a successor other than a returned `execute` (or `finish`) is
an error, so the runs also show that nobody blocks for ever.

## 5. Fairness

`FairSpec` has weak fairness on the steps of each thread: the operating system runs
every thread that can run, and the mutexes are not held across a blocking call except
for `join_wait`, which is in the guard of `Signal`.  That a task returns is fairness of
`Return` in `ThreadPool`; in `RadixTasks` it is fairness of the steps of its body, all of
which are loops over finite arrays.  No fairness is assumed for spurious wakeups, for
the choice of the worker that a notification wakes, or for calls to `enqueue` and
`finish` of a pool's user.  In `NopJoinMT` a thread is one process with weak fairness, and
weak fairness is enough for those who wait for a latch, fair or not, because a latch is
locked only finitely often: once for every row.

`FaultSpec` of `RadixFaults` has the same fairness for each thread, where a failure counts as a
step of the thread it happens in: a thread goes on or fails, but neither is promised.
`FaultsDoNotBlock` needs no failure to happen and holds whichever do.

## 6. Proofs

Assumptions: `PoolAssumption` (finitely many workers and at least one, the owner is a
client, no worker is a client, the placeholder `NoTask` is no task), `RadixAssumption`
(at least one thread, bits and passes are natural numbers) and the `DataAssumption` of
`RadixTasks` (inputs are sets of leaves), that of `RadixData` (see there), `NopAssumption` (at
least one thread and one bucket, and fewer rows than a bucket's counter can count).  Those of
`JoinProgram` are `HashAssumption` (a hash value is a natural number), `CallAssumption` (what is
passed to `set` is a vector of triples; bits and bounds are numbers), `GeneratorAssumption` (the
parameters of the constructors: an interval, or sums that begin with 0, never fall and stay
within `One`, though the last may be less) and `KeyAssumption` (the keys that generators make
are keys the joins can hash).  At least one thread is what the code needs anyway, it
divides by the number of threads.  Nothing bounds the threads, bits, passes or tasks.

**`ThreadPoolProofs`.**  Four invariants, each inductive relative to those before it:

- `TypeInv`: `TypeOK`, and a running worker holds a task (else `Return` would put the
  placeholder into `done`).
- `PhaseInv`: `stop` is set from the first step of `finish` on; a worker has left only if
  the pool is stopped and empty.  It gives `NobodySleepsInFinish`.
- `PlaceInv`: `ExactlyOnce`, and no task is both accepted and refused.  Together with
  `PhaseInv` it gives `FinishDrains`.
- `WakeupInv`: `NoLostWakeup`.  `Take` lowers both sides by one, `Enqueue` raises both by
  one, `NotifyOne` turns a notification into an awake worker; `Wait` happens only with an
  empty queue, and `Exit` only when nobody can sleep.

`PoolImplementsWorkQueue` shows that every step is a step or a stutter of `WorkQueue`
under the refinement mapping; the width is respected because running workers hold
different tasks.

**`RadixTasksProofs`.**  The inductive invariant `IInv` is `BuffersExclusive` and `BaseInv`, which
is `TypeOK`, the pool's `TypeInv` and `ControlInv`.  `ControlInv` ties each worker's place in a
task to the pool and to the task: it is idle exactly when the pool says it does not run; a worker
that spawns has children left to spawn, so that `Child` is a task; a worker in the body of a join
task holds a join task.  `BuffersExclusive` alone is not inductive: the types say that the places
of a task are the listed ones and that the stack is a sequence of indices.  That the pop in `Grab`
has something to pop is `BufferAvailable`, which follows from the invariant by the pigeonhole
principle: the buffers are as many as the workers, and a worker about to pop does not hold one.
`BaseInvNext` is stated for the steps that do not pop from an empty stack (`SoundNext`) and for
any set of buffers in use (`BuffersAre`), because `RadixFaults` loses buffers: the proofs about it
use the same lemma.

`UsesPool` shows that every behaviour of the radix join is a behaviour of the pool, so
what is proved of the pool, `ExactlyOnce`, `NoLostWakeup` and `FinishDrains`, holds
inside the join without a second proof (`PoolInvariants`).

**`NopJoinMTProofs`.**  First, that the chunks of the threads partition the rows
(`ChunksDisjoint`, `ChunksCover`), which is arithmetic with `div`.  `IInv` is then

- `ControlInv`: the types; `PhaseInv`, which ties the threads' places to that of
  `execute`; `PosInv`, which keeps every position inside its chunk; `LatchInv`, that a
  builder inside an insertion has the latch of its row's bucket.
- `ContentInv`: `BucketsComplete` for every bucket, with one place more than the counter
  says where a store is not yet counted.  `BucketsComplete` alone is not inductive,
  because it does not speak of those buckets.  `StoredHolds` is its core: a row stored
  behind the others leaves them where they are.  The counter does not wrap
  (`CountFits`) by the pigeonhole principle: different places hold different rows.
- `ResultInv`: a vector holds a matching pair once if its thread has probed with the
  right row, and nothing else.  A probe finds each row once because by then the
  buckets hold all rows (`AllInserted`), each in one place (`OneOccurrence`).

`TypeCorrect`, `BucketsAreRaceFree`, `BucketsAreComplete` and `ResultIsExact` follow, and so
does the refinement: a probe joins its row, which no other thread has in its chunk.
`ContentInv` and the typing need each other: that the list of a bucket has the right
type after a store depends on its length.

**`RadixTasksProofs`, the tree of tasks.**  The tasks form a tree, and everything about them that
must hold across threads rests on the order its edges give.  `Precedes(t, u)` says that `t`
prepares the data of `u`: it is at an earlier level, or at the same one and a partition task where
`u` is a scatter task, and `u`'s part lies in `t`'s.  `BeforeChild` shows that what comes before a
child is its parent and what comes before that.  `TreeInv` is then

- `OrderInv`: a task is announced, that is accepted or refused, only when every task before
  it is done with its data;
- `SpawnInv`: the children a spawning task has not scheduled yet are not announced.  A task
  has one parent (`Precedes` is what identifies it), so no other task can announce them;
- `RoundInv`: a round of `execute` has only tasks of that round, and the rounds before it
  are done.  This is what the barriers are for.

`NoTaskTwice` says that the next enqueue's task is not announced yet: `SpawnInv` for the
tasks, `RoundInv` for `execute`.  `DataRaceFree` follows from `OrderInv`: of two tasks that
touch the same part one precedes the other, so they do not run at the same time.

For the end of the join, `CountInv` says that `join_count` is the number of join tasks that
have counted themselves, and that when a worker has seen `join_exp` all join tasks have.
That step is counting: there are `part_count ^ (RadixPasses + 1)` leaves
(`CountSequences`), which is `join_exp`, and a subset of a finite set with as many
elements is the set itself.  So all join tasks are announced, hence by `OrderInv` all tasks
are, before `finished` is set, and `FinishInv` says that `execute` stops the pool only
after that: `StopAfterLastEnqueue`, and `NothingRefused`.

`ResultInv` says where the output of a leaf is: in one result vector or in one worker's
`nop_join` (`SeparateInv`), a vector that a worker has moved out is empty (`MovedInv`), and
the leaves whose output is somewhere are the filled ones whose join task has appended it
(`JoinedInv`).  That the two moves lose nothing needs `BuffersExclusive`.
At the end all accepted join tasks are done, and `JoinedInv` is `AcceptedJoined`, which holds
without any pass as well.  `ResultsComplete` adds that all were accepted, and
`RadixJoinImplementsPartitionedJoin` maps `MoveIn`, and
nothing else but the return of `execute`, to a step: the join of the task's leaf.

`StopsAfterLastEnqueue` and the three theorems that rest on it (`NothingRefused`,
`ResultIsComplete` and the refinement) assume `RadixPasses # 0`, and must: with 0 passes `join_exp` is 1, the join tasks are more than one, and the first of them ends the join.  The run
`radix_zero_passes` has such a configuration; section 7 says what happens in it.

**`RadixFaultsProofs`.**  Every step of `RadixFaults` is a step of `RadixTasks` that does not
pop from an empty stack, a failure, or the end (`FaultSteps`).  So the invariants above are
used again, and what is new is what a failure does to them.  `FaultInv` is

- `StackInv`, until a join task pops the empty stack: some set of buffers is exclusive in the
  sense of `BuffersExclusive`, and it is smaller than that of all buffers by the number of failed
  join tasks.  A failure in a join task takes the buffer of its worker out of the set.
  `BuffersAccounted` follows by counting;
- `RunInv`, as long as the program runs: the invariants of the task tree and of the counter,
  which do not mention buffers; `ResultInv` with `lost` as the leaves that are gone
  (`JoinedInv(gone)` is stated for any such set for this reason); and `FailInv`.

`FailInv` says what became of a failed task: it is out of its code, and either it was a
join task, and then its leaf is lost, or it had a child to schedule that nobody ever
announces, or it was of the first round.  A join task that fails has counted itself
already, so `CountInv` holds with failures as without, and if `execute` returns then all
tasks were enqueued, which by `FailInv` leaves no failed task with children:
`LossesAccounted`.  It assumes `RadixPasses # 0` like the theorem it follows.

**`NopJoinMTProofs`, the calls of an object.**  `ObjectInv` takes over the invariant of one call
(`ControlInv`, `ContentInv`), which holds in every call because a call begins as `Init`
does, except for the result vectors, which calls share.  In place of `ResultInv` stands
`CallsInv`: a vector has a matching pair of its thread's chunk once for every completed
call since `set`, `due` of them, and once more if the thread has probed with the pair's
right row in this call.  Together with `BuiltInv`, that nothing is due unless `built`, it
gives `CallsExact`.

**`RadixDataLemmas`, `RadixDataProofs`.**  The model computes as the code does: counts,
sums, bounds taken from advanced sums.  The proofs compare this with what the numbers
mean.  A path, one digit for each pass, names a part.  Its rows have a place in the
arrays, behind those of all parts before it in the order of the digits: `Offset` and
`Count` are cardinalities of sets of rows, without any recursion.  A pass moves the tuple at a place
of its part to `Dest`, behind the tuples of the part that have a smaller digit, or the
same one further left (`Lower`).  `DestInjective` and `PassSorts` say that this is a
permutation of the part which has the part's parts in their places.  That the code's recursive
sums are those cardinalities (`PrefixCounts` for `Prefix`, `BeforeCounts` for `Before`)
is an induction on a number, for which `UpTo` of `BasicLemmas` takes the least
counterexample.  `DataInv` is then

- `TypeInv`, `PoolInv`: the types, and no task is in the pool twice.
- `FormInv`: which tasks there can be in each phase of `execute`; the base, the size and the
  target of a task below the first round are the `Offset` and `Count` of its path.
- `HistInv`: the histograms of the chunks whose partition task has counted, and after the
  barrier the global sums, which are the places of the first parts.
- `ScatterInv`: a scatter task's sum for a digit is the number of tuples of `Lower` at the place
  where it is, and the tuples before that place have been moved to their `Dest`.  When all
  are moved the sums are the ends of the parts (`SplitAt`), which is what
  the bounds of the children are computed from.  Only then may the source be overwritten,
  so nothing is said of it any more.
- `OwnInv`: every path has one owner (`Holdings`), and the paths of two owners are apart.
  A task owns its path as long as it needs its data; a scatter task then owns those of its
  parts that it has not yet scheduled a task for; `execute` owns the first parts before it
  enqueues their tasks.  This is what no lock and no check in the code states, and
  neither `RegionExact` nor `SlotsExclusive` is inductive without it: a task's source is
  the target of the tasks it schedules, so a part must have been given up by its parent
  before one of its own parts is written.
- `ContentInv`: an owned part is in its place in the array its depth says (`Settled`).  If
  the number of passes is odd the joins read the target, and `Settled` also remembers that the
  input holds the rows of the parent.  That is why a second `execute`, which
  begins with the reordered input, is still exact.
- `ResultInv`: a matching pair has been counted once more in this call exactly if the
  join task of its leaf is over.
- `LeafInv`: when the wait for `join_exp` is over there is a join task for every
  leaf.  As in `RadixTasksProofs` this is counting, here over the paths of the join tasks, which
  `OwnInv` keeps different.

There is one lemma for each action.  `RegionsAreExact` is `ContentInv` for the tasks that own
their path; `SlotsAreExclusive` follows for later rounds because the parts of two owners do not
overlap, and for the first round because `Dest` is injective over all chunks; `ResultIsExact` is
`ResultInv` between calls.  All four assume what `DataAssumption` of `RadixData` does and no more:
at least one pass, as in `RadixTasksProofs`, and fewer bits in all passes than the hash value has.

**`JoinProgramProofs`.**  The single-threaded code has no interleavings; what is hard about it is
what its loops compute, which the model writes as folds over a relation.  The library's theorems
about folds take operators as parameters, so each fold is treated by hand: `Iterated` shows that the
function a fold chooses exists (built up number by number), and then the fold is a sequence of
states, `Successive`, about which ordinary induction by a least counterexample is possible.

- Building: after k tuples a bucket stores exactly the tuples among the first k that hash to it,
  each in one place (`InsertedStores`); a row id makes them different.  Probing visits every place
  below the counter once, in the order of the code, so a right tuple finds each match once
  (`HitsAre`), and `Output` lists every match of the relations once (`OutputExact`).
- Partitioning: tuple j of the relation goes to `Target(j)`, behind all tuples of smaller parts
  and behind those of its own part that came before.  `Target` is injective into the places of the
  array and so fills it, by counting.  During the scatter the histogram's entry of a part is where
  its next tuple goes; afterwards it is the end of the part, which is what the bounds of `execute`
  are computed from.  So a part's region holds its tuples in their old order (`PartitionedIs`).
- Generating: the binary search, for any sums that never fall, returns the least key whose sum
  reaches the number drawn, or keeps the previous tuple's key if no sum does (`SearchIs`); the
  proof is an induction on the length of the interval, over all intervals that the search can be
  in.  A second `build` repeats the first (`Repeats`).

The inductive invariant is then

- `GenInv`: the generator is what it was made with and its data is its tuples, once for each
  `build` that returned; the flag of an incremental or uniform one says that there was one.
  The tuples are numbered from 0 in each build (`DataRepeats`).  `DataFaithful` follows.  `RelInv`: so the relations have row ids that
  count from 0, without which a match could be in the result twice and `ResultExact` would not
  follow.
- `StageInv`, `ObjectInv`: the types and what is idle before the join is made.
- `SplitInv`: in a call, a side that is partitioned is the relation's `Partitioned`, and one
  that is not is empty.  `PartitionsExact` follows.
- `OwedInv`: a match is in the result, or still pending in this call, as often as `owed` says, or
  less if a call has failed (`Settled`).  `ResultExact` says this only between calls; in the
  middle of a call of the radix join the matches of the parts that are not joined yet are pending.
  Joining a part settles its matches and no others, because both relations are split by the same
  bits of the same hash value.  A failure clears what is pending and may clear the result.

There is one lemma for each action; `NextInv` puts them together.

**Only model-checked:** the liveness properties (`EveryTaskRuns`, `FinishReturns`,
`ExecuteReturns`, `FaultsDoNotBlock`): fairness and `ENABLED` are beyond the prover.  Every other
property of a passing run is a theorem.

## 7. What the models showed

- `radix_notified_early`: `task_context::finished` is set when the last join task has
  been counted, which a join task does before it joins (`mt_radix/radix_tasks.cpp:138`).
  The comment at `joins/include/algorithms/mt_radix/radix_tasks.h:55-57` says that the
  radix join gets notified once all last level join tasks are completed.  The result is
  complete all the same, because `pool.finish()` drains the queue and joins the threads
  before `execute` returns; `ResultsComplete` depends on exactly that (`FinishDrains`).
- `radix_zero_passes`: with `passes` = 0, which no code refuses, `join_exp` is 1 but join tasks are
  at depth 2.  The first of them stops the pool; later enqueues throw inside tasks, where nobody
  looks at the future.  `execute` returns with a part of the result, that of the join tasks
  which were enqueued in time (`AcceptedJoined`).  No document of the repository says that 0 is
  allowed, so this is recorded here and in the hazards, not as a finding.
- With `FaultsDoNotBlock` the escape `Pruned` is needed: a failing allocation in a spawned
  partition or scatter task leaves `join_exp` out of reach, and `execute` waits for ever.
  That is what the code does, and no property denies it; `LossesAccounted` says that it never
  returns without that task's subtree.
  A failing join task does not block, but its output and that of the join tasks that used
  its buffer before are gone without a word, and after as many failed join tasks as there
  are threads the next one pops an empty stack.
- A `radix_join` whose `execute` failed inside a part has lost the results of earlier parts
  and calls, and its `get` does not refuse to hand out the empty vector, because `built` is
  set at the beginning (`joins/src/algorithms/radix_join.cpp:46`).
- `keys_from_start`: `joins/include/generators/incremental_generator.h:22-23` says that the first
  tuple has value `start`; `build` counts from 0 (`incremental_generator.cpp:18-20`).  The benchmarks
  probe with keys from 1 to n what has the keys 0 to n - 1.
- `row_ids`: the generators' class comments (`uniform_generator.h:18`, `zipf_generator.h:18`,
  `incremental_generator.h:15`) promise row ids that are unique within the whole dataset.  After a
  second `build` of the same object, which the tests of the joins do, they are unique only among
  the first `get_count` tuples, which is what the callers use.
- A Zipf generator whose `build` has failed can be copied, without tuples, because it sets `built`
  before its first allocation (`zipf_generator.cpp:24-25`), where the uniform generator sets it
  after; the exception at line 80 is for generators that have not been built.
- `joins/include/algorithms/nop_join.h:51` says that the table has `table_size` times the left
  relation's size; `nop_join.cpp:28` uses 1.5 for every `table_size`.
- `nop_join_mt.h` declares `set_res`, which is defined nowhere.

## 8. What is not modelled

- Shifts by 64 bits or more in the radix tasks, by 32 or more in `radix_join`: excluded by
  assumptions (`DataAssumption`, `CallAssumption`).  They are undefined behaviour.
- `set` with fewer vectors than threads, whose effect is an access out of bounds.
- A `nop_join_mt` table of size 0, which a factor below 1 can give and which makes the
  code divide by 0; failing allocations and failing thread creation in `nop_join_mt`, which
  terminate the program; the stack depth of destroying a long overflow list.
- The value of the hash function: it stays an arbitrary function.  The random engines and
  floating-point arithmetic of the generators: streams and sums are any that can occur.
- Measuring time in the benchmarks, tests, build files and vendored libraries: no state of
  the program.

## 9. Plan

Done: the pool and the tasks (`ThreadPool`, `RadixTasks`), the multi-threaded join without
partitions and its calls (`NopJoinMT`, `NopJoinMTObject`), the data of the radix join
(`RadixData`), failures (`RadixFaults`), the single-threaded joins and the generators
(`NopJoin`, `SequentialJoins`, `Generators`, `JoinProgram`).

Proved: all safety invariants and refinements of `ThreadPool`, `RadixTasks`, `RadixFaults`,
`NopJoinMT`, `NopJoinMTObject`, `RadixData` and `JoinProgram`.  What the proofs leave to TLC is
liveness.  Worth adding next, where the code changes: that `NopJoinMT` and `NopJoin` append the
same matches, which now both theorems called `ResultIsExact` say separately.
