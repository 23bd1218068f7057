------------------------------- MODULE RadixFaults -------------------------------
(***************************************************************************)
(* The multi-threaded radix join of RadixTasks.tla when memory runs out.   *)
(*                                                                         *)
(* Nothing in joins/src/algorithms/mt_radix/ catches an exception.  What a *)
(* failing allocation does depends on where it happens:                    *)
(*                                                                         *)
(*  - in execute() itself, or in a first-round task, whose future hands    *)
(*    the exception to execute(): the context, the pool's condition        *)
(*    variable and its mutex are destroyed with threads running and        *)
(*    perhaps waiting, which is undefined behaviour, and then the vector   *)
(*    of running threads, which ends the program;                          *)
(*  - in a task that tasks have scheduled: the exception stays in a future *)
(*    nobody asks, and the rest of the task is not done;                   *)
(*  - in a join task, that takes with it the output buffer's contents,     *)
(*    which the nop_join has moved out, and the buffer's index.  A later   *)
(*    join task may then find the stack of buffers empty, and pops it all  *)
(*    the same: undefined behaviour, after which nothing is said.          *)
(***************************************************************************)
EXTENDS RadixTasks

CONSTANT MaxThrows    \* bound: how many tasks throw

ASSUME MaxThrows \in Nat

VARIABLES
  failed,      \* the tasks an exception has left
  lost,        \* the leaves whose output was destroyed
  undefined    \* behaviour is: the empty stack was popped, or what threads use destroyed

faultVars == <<failed, lost, undefined>>
allVars   == <<vars, faultVars>>

FaultInit ==
  /\ Init
  /\ failed = {}
  /\ lost = {}
  /\ undefined = FALSE

\* An exception leaves execute(), which ends the program with std::terminate.
Aborted == mpc = "aborted"

Running == ~Aborted /\ ~undefined

ChunkFailed == \E t \in failed : t.depth = 1

--------------------------------------------------------------------------------
(* What goes wrong. *)

MayThrow == Cardinality(failed) < MaxThrows

Fail(w) ==
  /\ MayThrow
  /\ failed' = failed \cup {task[w]}
  /\ tpc' = [tpc EXCEPT ![w] = "end"]
  /\ UNCHANGED <<poolVars, mainVars, kids, join_count, finished, free_index, filled, undefined>>

\* The histograms of a partition task are not allocated.
PartitionThrows(w) ==
  /\ tpc[w] = "work" /\ task[w].op = "partition"
  /\ Fail(w)
  /\ UNCHANGED <<index, output, results, lost>>

\* enqueue fails before it has put the task into the queue.
SpawnFails(w) ==
  /\ tpc[w] = "spawn" /\ w \notin notifying
  /\ Fail(w)
  /\ UNCHANGED <<index, output, results, lost>>

\* The hash table or the result vector of the nop_join is not allocated.  What the
\* vector had from earlier join tasks is destroyed with it.
JoinThrows(w) ==
  /\ tpc[w] = "join"
  /\ Fail(w)
  /\ lost' = lost \cup output[w] \cup {task[w].of}
  /\ output' = [output EXCEPT ![w] = {}]
  /\ index' = [index EXCEPT ![w] = NoIndex]
  /\ UNCHANGED results

\* An exception leaves execute(), which destroys its local variables, the last one
\* first.  Destroying the vector of threads ends the program (line 49 of ThreadPool.h).
\* Before that the context and the condition variable (line 55) are gone: what the
\* threads do with them in the meantime can be harmless or not.
Unwind ==
  /\ mpc' = "aborted"
  /\ undefined' \in BOOLEAN
  /\ UNCHANGED <<round, poolVars, taskVars, stateVars, filled, failed, lost>>

\* An allocation fails in execute(): that of a histogram or of a sum, that in enqueue, or
\* that of the vector for the first round's results, after its last enqueue (line 47).
MainThrows ==
  /\ MayThrow
  /\ mpc \in {"partition", "scatter", "leaves"} /\ main \notin notifying
  /\ round < Len(Round(mpc)) \/ mpc = "partition"
  /\ Unwind

\* Mutant of MainRethrows: the first future is not asked.
MainRethrowsLate ==
  /\ RoundOver
  /\ \E k \in Indices \ {0} : /\ Chunk(mpc, k) \in failed \cap done
                              /\ \A j \in 0 .. (k - 1) : Chunk(mpc, j) \in done \ failed
  /\ Unwind

\* The futures are asked one after the other, up to the first with an exception.
MainRethrows ==
  /\ RoundOver
  /\ \E k \in Indices : /\ Chunk(mpc, k) \in failed \cap done
                        /\ \A j \in 0 .. (k - 1) : Chunk(mpc, j) \in done \ failed
  /\ Unwind

GrabEmpty(w) ==
  /\ tpc[w] = "grab" /\ free_index = <<>>
  /\ undefined' = TRUE
  /\ UNCHANGED <<vars, failed, lost>>

--------------------------------------------------------------------------------
(* The steps of RadixTasks.tla, where nothing has gone wrong for them. *)

MainGoesOn ==
  /\ Running
  /\ IF ChunkFailed THEN MainEnqueue ELSE MainStep
  /\ UNCHANGED faultVars

WorkerGoesOn(w) == Running /\ (WorkerTake(w) \/ WorkerExit(w)) /\ UNCHANGED faultVars

TaskGoesOn(w) ==
  /\ Running
  /\ tpc[w] = "grab" => free_index # <<>>
  /\ TaskStep(w)
  /\ UNCHANGED faultVars

Notify(th) == Running /\ NotifyOne(th) /\ UNCHANGED faultVars

\* The wakeups that come for free, and going to sleep.
Rest ==
  /\ Running
  /\ MainSpuriousWake \/ \E w \in Workers : WorkerSleep(w)
  /\ UNCHANGED faultVars

Ended ==
  /\ Aborted \/ undefined \/ mpc = "returned"
  /\ UNCHANGED allVars

MainFails == Running /\ (MainThrows \/ MainRethrows)

TaskFails(w) ==
  Running /\ (PartitionThrows(w) \/ SpawnFails(w) \/ JoinThrows(w) \/ GrabEmpty(w))

FaultNext ==
  \/ MainGoesOn
  \/ MainFails
  \/ \E w \in Workers : WorkerGoesOn(w) \/ TaskGoesOn(w) \/ TaskFails(w)
  \/ \E th \in Workers \cup {main} : Notify(th)
  \/ Rest
  \/ Ended

\* Every thread that can run does, into what goes wrong if need be.
FaultFairness ==
  /\ WF_allVars(MainGoesOn \/ MainFails)
  /\ \A w \in Workers : /\ WF_allVars(WorkerGoesOn(w))
                        /\ WF_allVars(TaskGoesOn(w) \/ TaskFails(w))
  /\ \A th \in Workers \cup {main} : WF_allVars(Notify(th))

FaultSpec == FaultInit /\ [][FaultNext]_allVars /\ FaultFairness

--------------------------------------------------------------------------------

FailedJoins == failed \cap JoinTasks

\* A part of the task tree that was never scheduled.
Pruned == \E t \in failed \ JoinTasks : t.depth > 1

\* Also after failures no buffer is on the stack twice, on the stack and in use, or
\* used by two join tasks; and each failed join task costs one buffer, no other
\* failure costs any (radix_tasks.cpp:153-168).
BuffersAccounted ==
  ~undefined =>
    /\ \A i, j \in DOMAIN free_index : free_index[i] = free_index[j] => i = j
    /\ \A w \in Holders : index[w] \notin Unused
    /\ \A v, w \in Holders : index[v] = index[w] => v = w
    /\ thread_count = Len(free_index) + Cardinality(Holders) + Cardinality(FailedJoins)

\* execute() does not return with a part of the tree unscheduled; and if it returns,
\* what is missing from the result vectors is what was destroyed, the leaves of failed
\* join tasks and those that shared their buffers, and nothing more.
LossesAccounted ==
  mpc = "returned" =>
    /\ ~Pruned
    /\ UNION {results[i] : i \in Indices} = filled \ lost
    /\ \A i, j \in Indices : i # j => results[i] \cap results[j] = {}
    /\ {t.of : t \in FailedJoins} \subseteq lost /\ lost \subseteq filled

\* A failure keeps execute() waiting for ever only if it is that of a task which had
\* still tasks to schedule: failed join tasks have counted themselves before
\* (radix_tasks.cpp:138), and failed first-round tasks reach execute() (line 50).
FaultsDoNotBlock == <>(mpc = "returned" \/ Aborted \/ undefined \/ Pruned)
================================================================================
