------------------------------ MODULE RadixTasks -------------------------------
(***************************************************************************)
(* The tasks of the multi-threaded radix join and their coordination:      *)
(* joins/src/algorithms/mt_radix/radix_tasks.cpp and the function          *)
(* radix_join_mt::execute that drives them.                                *)
(*                                                                         *)
(* execute() runs in the caller's thread, called main here.  It enqueues   *)
(* one partition task per thread, waits for their histograms, enqueues one *)
(* scatter task per thread, waits for them, and then enqueues either the   *)
(* join tasks (one pass) or partition tasks that spawn the rest of the     *)
(* work by themselves: partition -> scatter -> PartCount partitions of the *)
(* next depth -> ... -> join tasks.  Join tasks count themselves; the one  *)
(* that reaches join_exp sets finished and wakes main, which then finishes *)
(* the pool.  A join task borrows one of the output buffers from the stack *)
(* free_index while it runs.                                               *)
(*                                                                         *)
(* The data is abstracted to what this protocol can tell apart: a part of  *)
(* the data is named by the path of radix values that leads to it, and a   *)
(* leaf is filled when both relations have tuples in it.  Handling a leaf  *)
(* adds its path to the output buffer in place of the triples.             *)
(*                                                                         *)
(* The module composes with ThreadPool.tla: every step that touches the    *)
(* pool is a pool action conjoined with what the caller does around it.    *)
(***************************************************************************)
EXTENDS Naturals, Sequences, FiniteSets, Functions

CONSTANTS
  Workers,       \* the threads of the pool, thread_count of them
  main,          \* the thread that called execute
  RadixBits,     \* bits per pass
  RadixPasses,   \* number of partitioning passes
  Inputs,        \* the inputs: for each of them, the set of filled leaves
  NoTask         \* the local variable task of an idle worker

\* At least one thread: execute divides by their number.
ASSUME RadixAssumption ==
  /\ IsFiniteSet(Workers) /\ Workers # {}
  /\ main \notin Workers
  /\ RadixBits \in Nat
  /\ RadixPasses \in Nat

thread_count == Cardinality(Workers)
Indices      == 0 .. (thread_count - 1)
NoIndex      == thread_count

part_count == 2 ^ RadixBits
Parts      == 0 .. (part_count - 1)

\* Mutant of join_exp: the first pass is not counted.
join_exp_less == 2 ^ (RadixBits * (RadixPasses - 1))

\* The expected number of join tasks.
join_exp == 2 ^ (RadixBits * RadixPasses)

\* With one pass, execute schedules the join tasks itself.  Otherwise it
\* schedules depth 2 whatever the number of passes is, and scatter tasks compare
\* their depth with the number of passes only after that.
LeafDepth == IF RadixPasses = 1 THEN 1 ELSE IF RadixPasses < 2 THEN 2 ELSE RadixPasses

Paths(d) == [1 .. d -> Parts]
Leaves   == Paths(LeafDepth)

--------------------------------------------------------------------------------

\* A task is named by what it does and to which part of the data.  In the first
\* round (depth 1) the part is the thread's chunk of the input.
Chunk(op, k)    == [op |-> op, depth |-> 1, of |-> <<k>>]
Subtask(op, p)  == [op |-> op, depth |-> Len(p) + 1, of |-> p]
JoinTask(p)     == [op |-> "join", depth |-> LeafDepth + 1, of |-> p]

Ops        == {"partition", "scatter"}
ChunkTasks == {Chunk(op, k) : op \in Ops, k \in Indices}
SubTasks   == UNION {{Subtask(op, p) : op \in Ops, p \in Paths(d - 1)} :
                       d \in 2 .. LeafDepth}
JoinTasks  == {JoinTask(p) : p \in Leaves}
AllTasks   == ChunkTasks \cup SubTasks \cup JoinTasks

ASSUME DataAssumption ==
  /\ NoTask \notin AllTasks
  /\ Inputs \subseteq SUBSET Leaves

\* What a scatter task, and execute after the first round, schedules for part p.
NextLevel(p) == IF Len(p) < LeafDepth THEN Subtask("partition", p) ELSE JoinTask(p)

\* Mutant of ChildCount: the loop schedules the part of the fencepost, too.
ChildCountTwice(t) ==
  IF t.op = "join" \/ t.depth = 1 THEN 0
  ELSE IF t.op = "partition" THEN 1
  ELSE part_count + 1

\* How many tasks t schedules, and the i-th of them counted from 0.  A scatter
\* task starts with the second part; the first one is the fencepost at the end.
ChildCount(t) ==
  IF t.op = "join" \/ t.depth = 1 THEN 0
  ELSE IF t.op = "partition" THEN 1
  ELSE part_count

Child(t, i) ==
  IF t.op = "partition"
  THEN Subtask("scatter", t.of)
  ELSE NextLevel(Append(t.of, (i + 1) % part_count))

\* The tasks execute schedules in each of its three rounds.
Round(r) ==
  IF r = "leaves"
  THEN [i \in 1 .. part_count |-> NextLevel(<<i - 1>>)]
  ELSE [i \in 1 .. thread_count |-> Chunk(r, i - 1)]

Scheduled(r) == {Round(r)[i] : i \in DOMAIN Round(r)}

--------------------------------------------------------------------------------

\* The pool's variables, see ThreadPool.tla.
VARIABLES tasks, stop, wpc, task, notifying, fpc, accepted, refused, done

VARIABLES
  mpc,         \* where execute() is
  round,       \* how many tasks of the current round execute() has enqueued
  tpc,         \* where each worker is in its task
  kids,        \* how many tasks the current task of each worker has enqueued
  filled,      \* the input: the leaves where both relations have tuples
  join_count,  \* task_context::join_count
  finished,    \* task_context::finished
  free_index,  \* task_context::free_index, the stack of unused output buffers
  index,       \* the local variable index of join_task::execute
  results,     \* task_context::results: the leaves each output buffer has got
  output       \* the result vector of the nop_join a worker runs

poolVars  == <<tasks, stop, wpc, task, notifying, fpc, accepted, refused, done>>
mainVars  == <<mpc, round>>
taskVars  == <<tpc, kids, index, output>>
stateVars == <<join_count, finished, free_index, results>>
vars      == <<poolVars, mainVars, taskVars, stateVars, filled>>

Pool == INSTANCE ThreadPool WITH Clients <- {main}, Owner <- main, Tasks <- AllTasks

Init ==
  /\ Pool!Init
  /\ mpc = "partition"
  /\ round = 0
  /\ tpc = [w \in Workers |-> "idle"]
  /\ kids = [w \in Workers |-> 0]
  /\ index = [w \in Workers |-> NoIndex]
  /\ output = [w \in Workers |-> {}]
  /\ filled \in Inputs
  /\ join_count = 0
  /\ finished = FALSE
  /\ free_index = [i \in 1 .. thread_count |-> i - 1]
  /\ results = [i \in Indices |-> {}]

--------------------------------------------------------------------------------
(* execute(), in the thread main. *)

\* Enqueue the next task of the round.
MainEnqueue ==
  /\ mpc \in {"partition", "scatter", "leaves"}
  /\ round < Len(Round(mpc))
  /\ Pool!Enqueue(main, Round(mpc)[round + 1])
  /\ round' = round + 1
  /\ UNCHANGED <<mpc, taskVars, stateVars, filled>>

\* Every enqueue of the round has returned.
RoundOver ==
  /\ mpc \in {"partition", "scatter", "leaves"}
  /\ round = Len(Round(mpc))
  /\ main \notin notifying

\* Mutant of MainBarrier: the futures of the first round are not waited for.
MainNoBarrier ==
  /\ RoundOver
  /\ mpc \in {"partition", "scatter"}
  /\ mpc' = IF mpc = "partition" THEN "scatter" ELSE "leaves"
  /\ round' = 0
  /\ UNCHANGED <<poolVars, taskVars, stateVars, filled>>

\* Get the futures of all tasks of the round, which blocks until they returned.
MainBarrier ==
  /\ RoundOver
  /\ mpc \in {"partition", "scatter"}
  /\ Scheduled(mpc) \subseteq done
  /\ mpc' = IF mpc = "partition" THEN "scatter" ELSE "leaves"
  /\ round' = 0
  /\ UNCHANGED <<poolVars, taskVars, stateVars, filled>>

MainAwait ==
  /\ RoundOver
  /\ mpc = "leaves"
  /\ mpc' = "check"
  /\ round' = 0
  /\ UNCHANGED <<poolVars, taskVars, stateVars, filled>>

\* With join_wait locked: go on and keep the lock, or release it and sleep.
MainCheck ==
  /\ mpc = "check"
  /\ mpc' = IF finished THEN "finish" ELSE "sleep"
  /\ UNCHANGED <<round, poolVars, taskVars, stateVars, filled>>

MainSpuriousWake ==
  /\ mpc = "sleep"
  /\ mpc' = "check"
  /\ UNCHANGED <<round, poolVars, taskVars, stateVars, filled>>

MainFinish ==
  /\ mpc = "finish"
  /\ Pool!FinishStop \/ Pool!FinishNotifyAll
  /\ UNCHANGED <<mainVars, taskVars, stateVars, filled>>

\* Mutant of MainReturn: finish does not join the threads.
MainDetach ==
  /\ mpc = "finish"
  /\ fpc = "joining"
  /\ mpc' = "returned"
  /\ UNCHANGED <<round, poolVars, taskVars, stateVars, filled>>

\* pool.finish() returns; context, pool and the target arrays are destroyed.
MainReturn ==
  /\ mpc = "finish"
  /\ Pool!FinishJoin
  /\ mpc' = "returned"
  /\ UNCHANGED <<round, taskVars, stateVars, filled>>

--------------------------------------------------------------------------------
(* The loop of the workers and the calls of enqueue, see ThreadPool.tla. *)

WorkerTake(w) ==
  /\ Pool!Take(w)
  /\ tpc' = [tpc EXCEPT ![w] = IF Head(tasks).op = "join" THEN "count" ELSE "work"]
  /\ kids' = [kids EXCEPT ![w] = 0]
  /\ UNCHANGED <<mainVars, index, output, stateVars, filled>>

WorkerSleep(w) ==
  /\ Pool!Wait(w) \/ Pool!SpuriousWake(w)
  /\ UNCHANGED <<mainVars, taskVars, stateVars, filled>>

WorkerExit(w) ==
  /\ Pool!Exit(w)
  /\ UNCHANGED <<mainVars, taskVars, stateVars, filled>>

WorkerReturn(w) ==
  /\ tpc[w] = "end"
  /\ Pool!Return(w)
  /\ tpc' = [tpc EXCEPT ![w] = "idle"]
  /\ UNCHANGED <<mainVars, kids, index, output, stateVars, filled>>

NotifyOne(th) ==
  /\ Pool!NotifyOne(th)
  /\ UNCHANGED <<mainVars, taskVars, stateVars, filled>>

--------------------------------------------------------------------------------
(* partition_task::execute and scatter_task::execute. *)

\* Build the histograms, or move the tuples to their partitions.
Work(w) ==
  /\ tpc[w] = "work"
  /\ tpc' = [tpc EXCEPT ![w] = IF ChildCount(task[w]) = 0 THEN "end" ELSE "spawn"]
  /\ UNCHANGED <<poolVars, mainVars, kids, index, output, stateVars, filled>>

\* Schedule the next task for the data this task has prepared.
Spawn(w) ==
  /\ tpc[w] = "spawn"
  /\ Pool!Enqueue(w, Child(task[w], kids[w]))
  /\ kids' = [kids EXCEPT ![w] = @ + 1]
  /\ tpc' = [tpc EXCEPT ![w] = IF kids'[w] = ChildCount(task[w]) THEN "end" ELSE "spawn"]
  /\ UNCHANGED <<mainVars, index, output, stateVars, filled>>

\* enqueue throws: the exception leaves the task and stays in its future, which
\* nobody asks.
SpawnThrows(w) ==
  /\ tpc[w] = "spawn"
  /\ Pool!Refuse(w, Child(task[w], kids[w]))
  /\ tpc' = [tpc EXCEPT ![w] = "end"]
  /\ UNCHANGED <<mainVars, kids, index, output, stateVars, filled>>

--------------------------------------------------------------------------------
(* join_task::execute. *)

\* Where a join task goes on after it has counted itself.
JoinOrSkip(w) == IF task[w].of \in filled THEN "grab" ELSE "end"

\* Mutant of Count: post-increment, the value compared is the old one.
CountPost(w) ==
  /\ tpc[w] = "count"
  /\ join_count' = join_count + 1
  /\ tpc' = [tpc EXCEPT ![w] = IF join_count = join_exp THEN "signal" ELSE JoinOrSkip(w)]
  /\ UNCHANGED <<poolVars, mainVars, kids, index, output, finished, free_index,
                 results, filled>>

\* Increment the atomic counter; the value it got decides who signals.
Count(w) ==
  /\ tpc[w] = "count"
  /\ join_count' = join_count + 1
  /\ tpc' = [tpc EXCEPT ![w] = IF join_count' = join_exp THEN "signal" ELSE JoinOrSkip(w)]
  /\ UNCHANGED <<poolVars, mainVars, kids, index, output, finished, free_index,
                 results, filled>>

\* Set finished with join_wait locked, which main holds while it is in finish.
Signal(w) ==
  /\ tpc[w] = "signal"
  /\ mpc # "finish"
  /\ finished' = TRUE
  /\ tpc' = [tpc EXCEPT ![w] = "notify"]
  /\ UNCHANGED <<poolVars, mainVars, kids, index, output, join_count, free_index,
                 results, filled>>

\* Mutant of NotifyMain: nobody is notified.
NotifyMainForgotten(w) ==
  /\ tpc[w] = "notify"
  /\ tpc' = [tpc EXCEPT ![w] = JoinOrSkip(w)]
  /\ UNCHANGED <<poolVars, mainVars, kids, index, output, stateVars, filled>>

\* Wake main, if it sleeps by now, after join_wait is unlocked.
NotifyMain(w) ==
  /\ tpc[w] = "notify"
  /\ mpc' = IF mpc = "sleep" THEN "check" ELSE mpc
  /\ tpc' = [tpc EXCEPT ![w] = JoinOrSkip(w)]
  /\ UNCHANGED <<poolVars, round, kids, index, output, stateVars, filled>>

\* Mutant of Grab: the index is read but not popped.
GrabNoPop(w) ==
  /\ tpc[w] = "grab"
  /\ index' = [index EXCEPT ![w] = free_index[Len(free_index)]]
  /\ tpc' = [tpc EXCEPT ![w] = "moveout"]
  /\ UNCHANGED <<poolVars, mainVars, kids, output, stateVars, filled>>

\* Take an output buffer from the stack, with output_mutex locked.
Grab(w) ==
  /\ tpc[w] = "grab"
  /\ index' = [index EXCEPT ![w] = free_index[Len(free_index)]]
  /\ free_index' = SubSeq(free_index, 1, Len(free_index) - 1)
  /\ tpc' = [tpc EXCEPT ![w] = "moveout"]
  /\ UNCHANGED <<poolVars, mainVars, kids, output, join_count, finished, results, filled>>

\* The nop_join moves the contents out of the buffer, ...
MoveOut(w) ==
  /\ tpc[w] = "moveout"
  /\ output' = [output EXCEPT ![w] = results[index[w]]]
  /\ results' = [results EXCEPT ![index[w]] = {}]
  /\ tpc' = [tpc EXCEPT ![w] = "join"]
  /\ UNCHANGED <<poolVars, mainVars, kids, index, join_count, finished, free_index, filled>>

\* Mutant of MoveIn: what was in the buffer before is lost.
MoveInOver(w) ==
  /\ tpc[w] = "join"
  /\ results' = [results EXCEPT ![index[w]] = {task[w].of}]
  /\ output' = [output EXCEPT ![w] = {}]
  /\ tpc' = [tpc EXCEPT ![w] = "release"]
  /\ UNCHANGED <<poolVars, mainVars, kids, index, join_count, finished, free_index, filled>>

\* ... appends its output and has it moved back.
MoveIn(w) ==
  /\ tpc[w] = "join"
  /\ results' = [results EXCEPT ![index[w]] = output[w] \cup {task[w].of}]
  /\ output' = [output EXCEPT ![w] = {}]
  /\ tpc' = [tpc EXCEPT ![w] = "release"]
  /\ UNCHANGED <<poolVars, mainVars, kids, index, join_count, finished, free_index, filled>>

\* Mutants of Release: the index is cleared before it is put back, or it is not
\* put back at all.
ReleaseCleared(w) ==
  /\ tpc[w] = "release"
  /\ index' = [index EXCEPT ![w] = NoIndex]
  /\ free_index' = Append(free_index, index'[w])
  /\ tpc' = [tpc EXCEPT ![w] = "end"]
  /\ UNCHANGED <<poolVars, mainVars, kids, output, join_count, finished, results, filled>>

ReleaseForgotten(w) ==
  /\ tpc[w] = "release"
  /\ index' = [index EXCEPT ![w] = NoIndex]
  /\ tpc' = [tpc EXCEPT ![w] = "end"]
  /\ UNCHANGED <<poolVars, mainVars, kids, output, stateVars, filled>>

\* Put the output buffer back, with output_mutex locked.
Release(w) ==
  /\ tpc[w] = "release"
  /\ free_index' = Append(free_index, index[w])
  /\ index' = [index EXCEPT ![w] = NoIndex]
  /\ tpc' = [tpc EXCEPT ![w] = "end"]
  /\ UNCHANGED <<poolVars, mainVars, kids, output, join_count, finished, results, filled>>

--------------------------------------------------------------------------------

Terminated ==
  /\ mpc = "returned"
  /\ UNCHANGED vars

MainStep == MainEnqueue \/ MainBarrier \/ MainAwait \/ MainCheck \/ MainFinish \/ MainReturn

TaskStep(w) ==
  \/ Work(w) \/ Spawn(w) \/ SpawnThrows(w)
  \/ Count(w) \/ Signal(w) \/ NotifyMain(w)
  \/ Grab(w) \/ MoveOut(w) \/ MoveIn(w) \/ Release(w)
  \/ WorkerReturn(w)

Next ==
  \/ MainStep
  \/ MainSpuriousWake
  \/ \E w \in Workers : WorkerTake(w) \/ WorkerSleep(w) \/ WorkerExit(w) \/ TaskStep(w)
  \/ \E th \in Workers \cup {main} : NotifyOne(th)
  \/ Terminated

Spec == Init /\ [][Next]_vars

\* The operating system runs every thread that can run.  No wakeup comes for free.
Fairness ==
  /\ WF_vars(MainStep)
  /\ \A w \in Workers : WF_vars(WorkerTake(w)) /\ WF_vars(WorkerExit(w))
                         /\ WF_vars(TaskStep(w))
  /\ \A th \in Workers \cup {main} : WF_vars(NotifyOne(th))

FairSpec == Spec /\ Fairness

--------------------------------------------------------------------------------

TypeOK ==
  /\ Pool!TypeOK
  /\ mpc \in {"partition", "scatter", "leaves", "check", "sleep", "finish", "returned"}
  /\ round \in Nat
  /\ tpc \in [Workers -> {"idle", "work", "spawn", "count", "signal", "notify",
                          "grab", "moveout", "join", "release", "end"}]
  /\ kids \in [Workers -> 0 .. part_count]
  /\ filled \subseteq Leaves
  /\ join_count \in Nat
  /\ finished \in BOOLEAN
  /\ free_index \in Seq(Indices)
  /\ index \in [Workers -> Indices \cup {NoIndex}]
  /\ results \in [Indices -> SUBSET Leaves]
  /\ output \in [Workers -> SUBSET Leaves]

Unused  == Range(free_index)
Holders == {w \in Workers : tpc[w] \in {"moveout", "join", "release"}}

\* Every output buffer is on the stack of unused buffers or is held by exactly one
\* join task, so no two tasks append to the same vector (lines 151-168).
BuffersExclusive ==
  /\ \A i, j \in DOMAIN free_index : free_index[i] = free_index[j] => i = j
  /\ \A w \in Holders : index[w] \in Indices \ Unused
  /\ \A v, w \in Holders : index[v] = index[w] => v = w
  /\ Indices = Unused \cup {index[w] : w \in Holders}

\* A join task never finds the stack empty, which back() and pop_back() on lines
\* 154-155 do not test: there are as many buffers as threads.
BufferAvailable == \A w \in Workers : tpc[w] = "grab" => free_index # <<>>

\* When execute() returns, the output of every filled leaf is in one of the result
\* vectors, in one only, and nothing else is.
ResultsComplete ==
  mpc = "returned" =>
    /\ UNION {results[i] : i \in Indices} = filled
    /\ \A i, j \in Indices : i # j => results[i] \cap results[j] = {}

\* Stopping the pool loses no join task that was enqueued before, however early it comes:
\* when execute() returns, what it returns is the output of exactly these, each in one
\* vector.  Without any pass (radix_tasks.cpp:14) that is a part of the result.
AcceptedJoined ==
  mpc = "returned" =>
    /\ UNION {results[i] : i \in Indices} = {p \in filled : JoinTask(p) \in accepted}
    /\ \A i, j \in Indices : i # j => results[i] \cap results[j] = {}

\* The pool is stopped only after the last of all tasks was enqueued, so that no
\* task meets the exception of ThreadPool.h:102 and gets lost.
StopAfterLastEnqueue == stop => AllTasks \subseteq accepted

\* Whether two tasks touch a common part of the arrays.  The chunks of one round
\* are disjoint; a deeper task touches the part its path names, and all that lies
\* in it.
Within(p, q) == Len(p) >= Len(q) /\ SubSeq(p, 1, Len(q)) = q
Overlap(t, u) ==
  IF t.depth = 1 \/ u.depth = 1
  THEN t.depth # u.depth \/ t.op # u.op
  ELSE Within(t.of, u.of) \/ Within(u.of, t.of)

\* The tasks that are reading or writing tuples right now never overlap: barriers
\* separate the rounds of execute(), and partition and scatter tasks schedule the
\* tasks for their part only after their own last access to it.
DataRaceFree ==
  LET Touching == {w \in Workers : tpc[w] \in {"work", "join"}}
  IN  \A v, w \in Touching : v # w => ~Overlap(task[v], task[w])

\* A task that is about to be scheduled was never scheduled before: the loops over
\* the parts and the call after them, the fencepost, name each part once.
Offered(w) == Child(task[w], kids[w])
NoTaskTwice ==
  /\ \A w \in Workers : tpc[w] = "spawn" /\ w \notin notifying =>
       /\ Offered(w) \notin accepted \cup refused
       /\ \A v \in Workers \ {w} :
            tpc[v] = "spawn" /\ v \notin notifying => Offered(v) # Offered(w)
  /\ mpc \in {"partition", "scatter", "leaves"} /\ round < Len(Round(mpc)) =>
       Round(mpc)[round + 1] \notin accepted \cup refused

\* The radix join implements the partitioned join: the parts are the leaves, and a
\* leaf counts as joined when its output is in a result vector, or in the vector a
\* nop_join has moved it to.
Promise == INSTANCE PartitionedJoin WITH
  Parts <- Leaves,
  joined <- UNION ({results[i] : i \in Indices} \cup {output[w] : w \in Workers}),
  returned <- (mpc = "returned")

ImplementsPartitionedJoin == Promise!Spec

\* execute() returns: the final join task is found, its signal is not lost, and
\* main does not wait for a thread that waits for main's lock.
ExecuteReturns == Promise!Returns

\* What radix_tasks.h:55-57 says of the condition variable: the radix join gets
\* notified once all last level join tasks are completed.
FinishedAfterJoins == finished => JoinTasks \subseteq done
================================================================================
