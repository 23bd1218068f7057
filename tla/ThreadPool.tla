------------------------------ MODULE ThreadPool -------------------------------
(***************************************************************************)
(* The thread pool of joins/lib/ThreadPool.h.                              *)
(*                                                                         *)
(* The pool has a FIFO of tasks, a flag stop, a mutex queue_mutex around   *)
(* both and one condition variable.  Each critical section is short and    *)
(* never blocks while it holds the mutex (condition.wait releases it), so  *)
(* each is one action here and the mutex itself is not a variable.  What   *)
(* is NOT inside a critical section is a step of its own: notify_one       *)
(* (line 106) and notify_all (117) come after the unlock, and a worker     *)
(* that was woken has to get the mutex back and evaluate the predicate     *)
(* again before it can take a task.                                        *)
(*                                                                         *)
(* What a task does is left to the environment: a running task may enqueue *)
(* further tasks and returns some day.  RadixTasks.tla gives the tasks of  *)
(* the multi-threaded radix join their bodies and composes them with this  *)
(* module.                                                                 *)
(***************************************************************************)
EXTENDS Naturals, Sequences, FiniteSets, Functions

CONSTANTS
  Workers,   \* the threads started by the constructor
  Clients,   \* the other threads that call enqueue
  Owner,     \* the client that owns the pool and calls finish
  Tasks,     \* the callables handed to enqueue, each of them handed over once
  NoTask     \* what the local variable task of an idle worker holds

\* A pool has at least one worker: its only user divides by the thread count
\* before it enqueues anything (radix_join_mt.cpp:38).
ASSUME PoolAssumption ==
  /\ IsFiniteSet(Workers) /\ Workers # {}
  /\ Workers \cap Clients = {}
  /\ Owner \in Clients
  /\ NoTask \notin Tasks

Threads == Workers \cup Clients

VARIABLES
  tasks,      \* the task queue
  stop,       \* finish was called, nothing is accepted any more
  wpc,        \* where each worker is in the loop of the constructor
  task,       \* the task each worker has moved out of the queue
  notifying,  \* the threads in enqueue, between the unlock and notify_one
  fpc,        \* where the owner is in finish
  accepted,   \* history: tasks that were put into the queue
  refused,    \* history: tasks whose enqueue threw
  done        \* history: tasks that returned, so their future is ready

poolVars == <<tasks, stop, wpc, task, notifying, fpc, accepted, refused, done>>

Queued  == Range(tasks)
At(pc)  == {w \in Workers : wpc[w] = pc}
Running == {task[w] : w \in At("running")}

--------------------------------------------------------------------------------

\* The constructor starts the workers: each is about to evaluate the predicate.
Init ==
  /\ tasks = <<>>
  /\ stop = FALSE
  /\ wpc = [w \in Workers |-> "check"]
  /\ task = [w \in Workers |-> NoTask]
  /\ notifying = {}
  /\ fpc = "idle"
  /\ accepted = {}
  /\ refused = {}
  /\ done = {}

\* Mutant of Take: the task is moved out of the queue, but not popped.
TakeNoPop(w) ==
  /\ wpc[w] = "check"
  /\ tasks # <<>>
  /\ task' = [task EXCEPT ![w] = Head(tasks)]
  /\ wpc' = [wpc EXCEPT ![w] = "running"]
  /\ UNCHANGED <<tasks, stop, notifying, fpc, accepted, refused, done>>

\* The predicate holds and the queue is not empty: take the oldest task.
Take(w) ==
  /\ wpc[w] = "check"
  /\ tasks # <<>>
  /\ task' = [task EXCEPT ![w] = Head(tasks)]
  /\ tasks' = Tail(tasks)
  /\ wpc' = [wpc EXCEPT ![w] = "running"]
  /\ UNCHANGED <<stop, notifying, fpc, accepted, refused, done>>

\* The predicate is false: release the mutex and block, in one atomic step.
Wait(w) ==
  /\ wpc[w] = "check"
  /\ tasks = <<>>
  /\ ~stop
  /\ wpc' = [wpc EXCEPT ![w] = "waiting"]
  /\ UNCHANGED <<tasks, stop, task, notifying, fpc, accepted, refused, done>>

\* Mutant of Exit: the worker leaves as soon as it sees stop.
ExitOnStop(w) ==
  /\ wpc[w] = "check"
  /\ stop
  /\ wpc' = [wpc EXCEPT ![w] = "exited"]
  /\ UNCHANGED <<tasks, stop, task, notifying, fpc, accepted, refused, done>>

\* The pool is stopped and drained: the thread function returns.
Exit(w) ==
  /\ wpc[w] = "check"
  /\ stop
  /\ tasks = <<>>
  /\ wpc' = [wpc EXCEPT ![w] = "exited"]
  /\ UNCHANGED <<tasks, stop, task, notifying, fpc, accepted, refused, done>>

\* A condition variable may wake a thread for no reason; the loop inside wait
\* evaluates the predicate again.
SpuriousWake(w) ==
  /\ wpc[w] = "waiting"
  /\ wpc' = [wpc EXCEPT ![w] = "check"]
  /\ UNCHANGED <<tasks, stop, task, notifying, fpc, accepted, refused, done>>

\* Mutant of Return: the local variable is cleared before the task runs.
ReturnNothing(w) ==
  /\ wpc[w] = "running"
  /\ w \notin notifying
  /\ task' = [task EXCEPT ![w] = NoTask]
  /\ done' = done \cup {task'[w]}
  /\ wpc' = [wpc EXCEPT ![w] = "check"]
  /\ UNCHANGED <<tasks, stop, notifying, fpc, accepted, refused>>

\* task() returns, the packaged_task makes its future ready, and the worker
\* starts the next iteration.
Return(w) ==
  /\ wpc[w] = "running"
  /\ w \notin notifying
  /\ done' = done \cup {task[w]}
  /\ task' = [task EXCEPT ![w] = NoTask]
  /\ wpc' = [wpc EXCEPT ![w] = "check"]
  /\ UNCHANGED <<tasks, stop, notifying, fpc, accepted, refused>>

--------------------------------------------------------------------------------

\* Thread th can call enqueue: a worker does so from inside a task, the owner
\* not while it is in finish.
MayEnqueue(th) ==
  /\ th \notin notifying
  /\ th \in Workers => wpc[th] = "running"
  /\ th = Owner => fpc \in {"idle", "returned"}

\* Mutant of Enqueue: stop is not looked at.
EnqueueAlways(th, t) ==
  /\ MayEnqueue(th)
  /\ t \notin accepted \cup refused
  /\ tasks' = Append(tasks, t)
  /\ accepted' = accepted \cup {t}
  /\ notifying' = notifying \cup {th}
  /\ UNCHANGED <<stop, wpc, task, fpc, refused, done>>

\* The critical section of enqueue, with the pool not stopped.
Enqueue(th, t) ==
  /\ MayEnqueue(th)
  /\ t \notin accepted \cup refused
  /\ ~stop
  /\ tasks' = Append(tasks, t)
  /\ accepted' = accepted \cup {t}
  /\ notifying' = notifying \cup {th}
  /\ UNCHANGED <<stop, wpc, task, fpc, refused, done>>

\* The critical section of enqueue, with the pool stopped: it throws.
Refuse(th, t) ==
  /\ MayEnqueue(th)
  /\ t \notin accepted \cup refused
  /\ stop
  /\ refused' = refused \cup {t}
  /\ UNCHANGED <<tasks, stop, wpc, task, notifying, fpc, accepted, done>>

\* Mutant of NotifyOne: the notification is forgotten.
NotifyNobody(th) ==
  /\ th \in notifying
  /\ notifying' = notifying \ {th}
  /\ UNCHANGED <<tasks, stop, wpc, task, fpc, accepted, refused, done>>

\* notify_one wakes one of the blocked workers, if there is one, and enqueue
\* returns.
NotifyOne(th) ==
  /\ th \in notifying
  /\ notifying' = notifying \ {th}
  /\ \/ /\ At("waiting") = {}
        /\ UNCHANGED wpc
     \/ \E w \in At("waiting") : wpc' = [wpc EXCEPT ![w] = "check"]
  /\ UNCHANGED <<tasks, stop, task, fpc, accepted, refused, done>>

--------------------------------------------------------------------------------

\* finish: set stop under the mutex, ...
FinishStop ==
  /\ fpc = "idle"
  /\ Owner \notin notifying
  /\ stop' = TRUE
  /\ fpc' = "stopping"
  /\ UNCHANGED <<tasks, wpc, task, notifying, accepted, refused, done>>

\* Mutant of FinishNotifyAll: notify_one in place of notify_all.
FinishNotifyOne ==
  /\ fpc = "stopping"
  /\ \/ At("waiting") = {} /\ UNCHANGED wpc
     \/ \E w \in At("waiting") : wpc' = [wpc EXCEPT ![w] = "check"]
  /\ fpc' = "joining"
  /\ UNCHANGED <<tasks, stop, task, notifying, accepted, refused, done>>

\* ... wake every blocked worker, ...
FinishNotifyAll ==
  /\ fpc = "stopping"
  /\ wpc' = [w \in Workers |-> IF wpc[w] = "waiting" THEN "check" ELSE wpc[w]]
  /\ fpc' = "joining"
  /\ UNCHANGED <<tasks, stop, task, notifying, accepted, refused, done>>

\* ... and join the worker threads one after the other.
FinishJoin ==
  /\ fpc = "joining"
  /\ \A w \in Workers : wpc[w] = "exited"
  /\ fpc' = "returned"
  /\ UNCHANGED <<tasks, stop, wpc, task, notifying, accepted, refused, done>>

\* A pool whose finish has returned has nothing left to do.
Terminated ==
  /\ fpc = "returned"
  /\ UNCHANGED poolVars

Next ==
  \/ \E w \in Workers :
       Take(w) \/ Wait(w) \/ Exit(w) \/ SpuriousWake(w) \/ Return(w)
  \/ \E th \in Threads, t \in Tasks : Enqueue(th, t) \/ Refuse(th, t)
  \/ \E th \in Threads : NotifyOne(th)
  \/ FinishStop \/ FinishNotifyAll \/ FinishJoin
  \/ Terminated

Spec == Init /\ [][Next]_poolVars

\* The operating system runs every thread that can run, and tasks terminate.
\* Nobody has to call enqueue or finish, and no spurious wakeup has to happen.
Fairness ==
  /\ \A w \in Workers : WF_poolVars(Take(w)) /\ WF_poolVars(Exit(w))
                         /\ WF_poolVars(Return(w))
  /\ \A th \in Threads : WF_poolVars(NotifyOne(th))
  /\ WF_poolVars(FinishNotifyAll)
  /\ WF_poolVars(FinishJoin)

FairSpec == Spec /\ Fairness

--------------------------------------------------------------------------------

TypeOK ==
  /\ tasks \in Seq(Tasks)
  /\ stop \in BOOLEAN
  /\ wpc \in [Workers -> {"check", "waiting", "running", "exited"}]
  /\ task \in [Workers -> Tasks \cup {NoTask}]
  /\ notifying \subseteq Threads
  /\ fpc \in {"idle", "stopping", "joining", "returned"}
  /\ accepted \subseteq Tasks
  /\ refused \subseteq Tasks
  /\ done \subseteq Tasks

\* No wakeup is lost although notify_one is called outside the mutex (line 106)
\* and wakes at most one worker: while a worker sleeps, there are at least as
\* many workers on their way to the queue and notifications on their way to a
\* worker as there are tasks in the queue.
NoLostWakeup ==
  At("waiting") # {} =>
    Len(tasks) <= Cardinality(At("check")) + Cardinality(notifying)

\* Every accepted task is in exactly one place: queued once, held by exactly one
\* worker, or done (lines 75-79 move it from the queue to a worker).
ExactlyOnce ==
  /\ accepted = Queued \cup Running \cup done
  /\ Queued \cap (Running \cup done) = {}
  /\ Running \cap done = {}
  /\ \A i, j \in DOMAIN tasks : tasks[i] = tasks[j] => i = j
  /\ \A v, w \in At("running") : task[v] = task[w] => v = w

\* Once finish has called notify_all no worker goes to sleep again, so that the
\* joins of line 119 cannot wait for a sleeping worker.
NobodySleepsInFinish == fpc \in {"joining", "returned"} => At("waiting") = {}

\* finish returns only when every task the pool ever accepted has returned:
\* setting stop does not cut off queued tasks (line 73).
FinishDrains == fpc = "returned" => done = accepted

\* The pool implements the work queue: each task is started once, in the order
\* of the calls to enqueue and on one of the workers, enqueue throws only when
\* the pool is stopped, and finish returns only when the queue is drained.
WQ == INSTANCE WorkQueue WITH
  Work <- Tasks, Width <- Cardinality(Workers),
  queue <- tasks, active <- Running, finished <- done, denied <- refused,
  closed <- stop, drained <- (fpc = "returned")

ImplementsWorkQueue == WQ!Spec

\* Every task that was put into the queue returns some day.
EveryTaskRuns == WQ!AcceptedWorkFinishes

\* A call of finish returns some day.
FinishReturns == WQ!ClosedQueueDrains
================================================================================
