--------------------------- MODULE ThreadPoolProofs ----------------------------
(***************************************************************************)
(* Proofs about the thread pool: for every number of workers, clients and  *)
(* tasks, the invariants that the runs of MCThreadPool check on small      *)
(* instances, and that the pool implements the work queue.                 *)
(***************************************************************************)
EXTENDS ThreadPool, BasicLemmas

--------------------------------------------------------------------------------
(* Type correctness. *)

\* A running worker holds a task, so that what it puts into done is one.
TypeInv ==
  /\ TypeOK
  /\ \A w \in Workers : wpc[w] = "running" => task[w] \in Tasks

LEMMA TypeInvInit == Init => TypeInv
BY PoolAssumption, EmptySeq DEF Init, TypeInv, TypeOK, Threads

LEMMA TypeInvNext == TypeInv /\ [Next]_poolVars => TypeInv'
<1> SUFFICES ASSUME TypeInv, [Next]_poolVars
             PROVE  TypeInv'
  OBVIOUS
<1> USE DEF TypeInv, TypeOK
<1>1. ASSUME NEW w \in Workers, Take(w)
      PROVE  TypeInv'
  <2>1. Head(tasks) \in Tasks /\ Tail(tasks) \in Seq(Tasks)
    BY <1>1, HeadTailProperties DEF Take
  <2>2. QED BY <1>1, <2>1 DEF Take
<1>2. ASSUME NEW w \in Workers, Wait(w) \/ Exit(w) \/ SpuriousWake(w)
      PROVE  TypeInv'
  BY <1>2 DEF Wait, Exit, SpuriousWake
<1>3. ASSUME NEW w \in Workers, Return(w)
      PROVE  TypeInv'
  BY <1>3 DEF Return
<1>4. ASSUME NEW th \in Threads, NEW t \in Tasks, Enqueue(th, t)
      PROVE  TypeInv'
  <2>1. Append(tasks, t) \in Seq(Tasks)
    BY AppendProperties
  <2>2. QED BY <1>4, <2>1 DEF Enqueue
<1>5. ASSUME NEW th \in Threads, NEW t \in Tasks, Refuse(th, t)
      PROVE  TypeInv'
  BY <1>5 DEF Refuse
<1>6. ASSUME NEW th \in Threads, NotifyOne(th)
      PROVE  TypeInv'
  <2>1. CASE UNCHANGED wpc
    BY <1>6, <2>1 DEF NotifyOne
  <2>2. CASE \E w \in At("waiting") : wpc' = [wpc EXCEPT ![w] = "check"]
    BY <1>6, <2>2 DEF NotifyOne, At
  <2>3. QED BY <1>6, <2>1, <2>2 DEF NotifyOne
<1>7. ASSUME FinishNotifyAll
      PROVE  TypeInv'
  BY <1>7 DEF FinishNotifyAll
<1>8. ASSUME FinishStop \/ FinishJoin
      PROVE  TypeInv'
  BY <1>8 DEF FinishStop, FinishJoin
<1>9. ASSUME UNCHANGED poolVars
      PROVE  TypeInv'
  BY <1>9 DEF poolVars
<1>10. QED
  BY <1>1, <1>2, <1>3, <1>4, <1>5, <1>6, <1>7, <1>8, <1>9 DEF Next, Terminated

\* Every variable of the pool has its type in every reachable state, whatever the
\* threads and the tasks are.
THEOREM TypeCorrect == Spec => []TypeOK
<1>1. TypeInv => TypeOK
  BY DEF TypeInv
<1>2. QED BY <1>1, TypeInvInit, TypeInvNext, PTL DEF Spec

LEMMA TypeInvariant == Spec => []TypeInv
BY TypeInvInit, TypeInvNext, PTL DEF Spec

--------------------------------------------------------------------------------
(* The phases of finish. *)

\* stop is set exactly when the owner has entered finish.  Workers leave only a
\* stopped and drained pool, which stays drained since nothing is accepted any
\* more, and the joins return only when all of them have left.
PhaseInv ==
  /\ fpc = "idle" <=> ~stop
  /\ NobodySleepsInFinish
  /\ \A w \in Workers : wpc[w] = "exited" => stop /\ tasks = <<>>
  /\ fpc = "returned" => \A w \in Workers : wpc[w] = "exited"

LEMMA PhaseInvInit == Init => PhaseInv
BY DEF Init, PhaseInv, NobodySleepsInFinish

LEMMA PhaseInvNext == TypeInv /\ PhaseInv /\ [Next]_poolVars => PhaseInv'
<1> SUFFICES ASSUME TypeInv, PhaseInv, [Next]_poolVars
             PROVE  PhaseInv'
  OBVIOUS
<1> USE DEF TypeInv, TypeOK, PhaseInv, NobodySleepsInFinish, At
<1>1. ASSUME NEW w \in Workers, Take(w) \/ Wait(w) \/ Exit(w)
      PROVE  PhaseInv'
  BY <1>1 DEF Take, Wait, Exit
<1>2. ASSUME NEW w \in Workers, SpuriousWake(w) \/ Return(w)
      PROVE  PhaseInv'
  BY <1>2 DEF SpuriousWake, Return
<1>3. ASSUME NEW th \in Threads, NEW t \in Tasks, Enqueue(th, t) \/ Refuse(th, t)
      PROVE  PhaseInv'
  BY <1>3 DEF Enqueue, Refuse
<1>4. ASSUME NEW th \in Threads, NotifyOne(th)
      PROVE  PhaseInv'
  <2>1. CASE UNCHANGED wpc
    BY <1>4, <2>1 DEF NotifyOne
  <2>2. CASE \E w \in At("waiting") : wpc' = [wpc EXCEPT ![w] = "check"]
    BY <1>4, <2>2 DEF NotifyOne
  <2>3. QED BY <1>4, <2>1, <2>2 DEF NotifyOne
<1>5. ASSUME FinishStop
      PROVE  PhaseInv'
  BY <1>5 DEF FinishStop
<1>6. ASSUME FinishNotifyAll
      PROVE  PhaseInv'
  BY <1>6 DEF FinishNotifyAll
<1>7. ASSUME FinishJoin
      PROVE  PhaseInv'
  BY <1>7 DEF FinishJoin
<1>8. ASSUME UNCHANGED poolVars
      PROVE  PhaseInv'
  BY <1>8 DEF poolVars
<1>9. QED
  BY <1>1, <1>2, <1>3, <1>4, <1>5, <1>6, <1>7, <1>8 DEF Next, Terminated

LEMMA PhaseInvariant == Spec => []PhaseInv
BY TypeInvariant, PhaseInvInit, PhaseInvNext, PTL DEF Spec

\* Once finish has called notify_all, no worker sleeps when the owner joins it.
THEOREM NobodySleeps == Spec => []NobodySleepsInFinish
<1>1. PhaseInv => NobodySleepsInFinish
  BY DEF PhaseInv
<1>2. QED BY <1>1, PhaseInvariant, PTL

--------------------------------------------------------------------------------
(* Where the tasks are. *)

PlaceInv ==
  /\ ExactlyOnce
  /\ accepted \cap refused = {}

LEMMA PlaceInvInit == Init => PlaceInv
<1>1. Range(<<>>) = {} /\ DOMAIN <<>> = {}
  BY DEF Range
<1>2. QED BY <1>1 DEF Init, PlaceInv, ExactlyOnce, Queued, Running, At

LEMMA PlaceInvNext == TypeInv /\ PlaceInv /\ [Next]_poolVars => PlaceInv'
<1> SUFFICES ASSUME TypeInv, PlaceInv, [Next]_poolVars
             PROVE  PlaceInv'
  OBVIOUS
<1> USE DEF TypeInv, TypeOK, PlaceInv, ExactlyOnce, At
<1>1. ASSUME NEW w \in Workers, Take(w)
      PROVE  PlaceInv'
  <2>1. /\ Queued = Queued' \cup {Head(tasks)} /\ Head(tasks) \notin Queued'
        /\ \A i, j \in DOMAIN tasks' : tasks'[i] = tasks'[j] => i = j
    BY <1>1, RangeOfTail DEF Take, Queued
  <2>2. /\ At("running")' = At("running") \cup {w} /\ w \notin At("running")
        /\ \A v \in At("running") : task'[v] = task[v]
        /\ task'[w] = Head(tasks)
    BY <1>1 DEF Take
  <2>3. Running' = Running \cup {Head(tasks)}
    BY <2>2 DEF Running
  <2>4. Head(tasks) \in Queued
    BY <2>1
  <2>5. /\ Head(tasks) \notin Running
        /\ \A v \in At("running") : task[v] # Head(tasks)
    BY <2>4 DEF Running
  <2>6. UNCHANGED <<accepted, refused, done>>
    BY <1>1 DEF Take
  <2>7. \A v, u \in At("running")' : task'[v] = task'[u] => v = u
    BY <2>2, <2>5
  <2>8. QED BY <2>1, <2>3, <2>4, <2>5, <2>6, <2>7
<1>2. ASSUME NEW w \in Workers, Wait(w) \/ Exit(w) \/ SpuriousWake(w)
      PROVE  PlaceInv'
  <2>1. At("running")' = At("running")
    BY <1>2 DEF Wait, Exit, SpuriousWake
  <2>2. UNCHANGED <<tasks, task, accepted, refused, done>>
    BY <1>2 DEF Wait, Exit, SpuriousWake
  <2>3. QED BY <2>1, <2>2 DEF Queued, Running
<1>3. ASSUME NEW w \in Workers, Return(w)
      PROVE  PlaceInv'
  <2>1. /\ At("running")' = At("running") \ {w} /\ w \in At("running")
        /\ \A v \in At("running")' : task'[v] = task[v]
        /\ UNCHANGED <<tasks, accepted, refused>>
        /\ done' = done \cup {task[w]}
    BY <1>3 DEF Return
  <2>2. Running' = Running \ {task[w]} /\ task[w] \in Running
    BY <2>1 DEF Running
  <2>3. Queued' = Queued
    BY <2>1 DEF Queued
  <2>4. QED BY <2>1, <2>2, <2>3
<1>4. ASSUME NEW th \in Threads, NEW t \in Tasks, Enqueue(th, t)
      PROVE  PlaceInv'
  <2>1. t \notin Queued
    BY <1>4 DEF Enqueue
  <2>2. /\ Queued' = Queued \cup {t}
        /\ \A i, j \in DOMAIN tasks' : tasks'[i] = tasks'[j] => i = j
    BY <1>4, <2>1, RangeOfAppend DEF Enqueue, Queued
  <2>3. Running' = Running /\ At("running")' = At("running")
    BY <1>4 DEF Enqueue, Running
  <2>4. QED BY <1>4, <2>1, <2>2, <2>3 DEF Enqueue
<1>5. ASSUME NEW th \in Threads, NEW t \in Tasks, Refuse(th, t)
      PROVE  PlaceInv'
  BY <1>5 DEF Refuse, Queued, Running
<1>6. ASSUME NEW th \in Threads, NotifyOne(th)
      PROVE  PlaceInv'
  <2>1. At("running")' = At("running")
    BY <1>6 DEF NotifyOne
  <2>2. UNCHANGED <<tasks, task, accepted, refused, done>>
    BY <1>6 DEF NotifyOne
  <2>3. QED BY <2>1, <2>2 DEF Queued, Running
<1>7. ASSUME FinishNotifyAll
      PROVE  PlaceInv'
  <2>1. At("running")' = At("running")
    BY <1>7 DEF FinishNotifyAll
  <2>2. UNCHANGED <<tasks, task, accepted, refused, done>>
    BY <1>7 DEF FinishNotifyAll
  <2>3. QED BY <2>1, <2>2 DEF Queued, Running
<1>8. ASSUME FinishStop \/ FinishJoin \/ UNCHANGED poolVars
      PROVE  PlaceInv'
  BY <1>8 DEF FinishStop, FinishJoin, poolVars, Queued, Running
<1>9. QED
  BY <1>1, <1>2, <1>3, <1>4, <1>5, <1>6, <1>7, <1>8 DEF Next, Terminated

LEMMA PlaceInvariant == Spec => []PlaceInv
BY TypeInvariant, PlaceInvInit, PlaceInvNext, PTL DEF Spec

\* Every accepted task is queued once, held by exactly one worker, or done: no task
\* is lost and none runs twice, whatever the interleaving.
THEOREM TasksExactlyOnce == Spec => []ExactlyOnce
<1>1. PlaceInv => ExactlyOnce
  BY DEF PlaceInv
<1>2. QED BY <1>1, PlaceInvariant, PTL

\* When finish returns, every task that was ever accepted has returned: the workers
\* have all left, so the queue is empty and nobody holds a task.
THEOREM FinishDrainsQueue == Spec => []FinishDrains
<1>1. TypeInv /\ PhaseInv /\ PlaceInv => FinishDrains
  <2> SUFFICES ASSUME TypeInv, PhaseInv, PlaceInv, fpc = "returned"
               PROVE  done = accepted
    BY DEF FinishDrains
  <2>1. \A w \in Workers : wpc[w] = "exited"
    BY DEF PhaseInv
  <2>2. tasks = <<>>
    BY <2>1, PoolAssumption DEF PhaseInv
  <2>3. Queued = {}
    BY <2>2 DEF Queued, Range
  <2>4. Running = {}
    BY <2>1 DEF Running, At
  <2>5. QED BY <2>3, <2>4 DEF PlaceInv, ExactlyOnce
<1>2. QED BY <1>1, TypeInvariant, PhaseInvariant, PlaceInvariant, PTL

--------------------------------------------------------------------------------
(* No lost wakeup. *)

\* Only a worker that finds the queue empty goes to sleep, and from then on each
\* enqueued task comes with a notification that makes a sleeping worker check the
\* queue again: the sum in NoLostWakeup never falls behind the queue.
WakeupInv ==
  /\ IsFiniteSet(notifying)
  /\ NoLostWakeup

LEMMA WakeupInvInit == Init => WakeupInv
BY FS_EmptySet DEF Init, WakeupInv, NoLostWakeup, At

LEMMA AtIsFinite ==
  ASSUME NEW pc
  PROVE  /\ IsFiniteSet(At(pc)) /\ Cardinality(At(pc)) \in Nat
         /\ IsFiniteSet(At(pc))' /\ Cardinality(At(pc))' \in Nat
<1>1. At(pc) \in SUBSET Workers /\ At(pc)' \in SUBSET Workers
  BY DEF At
<1>2. IsFiniteSet(At(pc)) /\ IsFiniteSet(At(pc)')
  BY <1>1, FS_Subset, PoolAssumption
<1>3. QED BY <1>2, FS_CardinalityType

LEMMA WakeupInvNext == TypeInv /\ WakeupInv /\ [Next]_poolVars => WakeupInv'
<1> SUFFICES ASSUME TypeInv, WakeupInv, [Next]_poolVars
             PROVE  WakeupInv'
  OBVIOUS
<1> DEFINE check == Cardinality(At("check"))
           coming == Cardinality(notifying)
<1>0. /\ IsFiniteSet(At("check")) /\ check \in Nat /\ check' \in Nat
      /\ coming \in Nat /\ Len(tasks) \in Nat
  BY AtIsFinite, FS_CardinalityType, LenProperties DEF WakeupInv, TypeInv, TypeOK
<1> USE DEF TypeInv, TypeOK, WakeupInv, NoLostWakeup
<1>1. ASSUME NEW w \in Workers, Take(w)
      PROVE  WakeupInv'
  <2>1. At("check")' = At("check") \ {w} /\ w \in At("check")
        /\ At("waiting")' = At("waiting")
    BY <1>1 DEF Take, At
  <2>2. check' = check - 1
    BY <2>1, <1>0, FS_RemoveElement
  <2>3. Len(tasks') = Len(tasks) - 1
    BY <1>1, HeadTailProperties DEF Take
  <2>4. UNCHANGED notifying
    BY <1>1 DEF Take
  <2>5. QED BY <1>0, <2>1, <2>2, <2>3, <2>4
<1>2. ASSUME NEW w \in Workers, Wait(w) \/ Exit(w)
      PROVE  WakeupInv'
  <2>1. Len(tasks') = 0 /\ UNCHANGED notifying
    BY <1>2, EmptySeq DEF Wait, Exit
  <2>2. QED BY <1>0, <2>1
<1>3. ASSUME NEW w \in Workers, SpuriousWake(w) \/ Return(w)
      PROVE  WakeupInv'
  <2>1. At("check")' = At("check") \cup {w}
        /\ At("waiting")' \subseteq At("waiting")
    BY <1>3 DEF SpuriousWake, Return, At
  <2>2. check' = IF w \in At("check") THEN check ELSE check + 1
    BY <2>1, <1>0, FS_AddElement
  <2>3. UNCHANGED <<tasks, notifying>>
    BY <1>3 DEF SpuriousWake, Return
  <2>4. QED BY <1>0, <2>1, <2>2, <2>3
<1>4. ASSUME NEW th \in Threads, NEW t \in Tasks, Enqueue(th, t)
      PROVE  WakeupInv'
  <2>1. IsFiniteSet(notifying') /\ coming' = coming + 1
    BY <1>4, FS_AddElement DEF Enqueue, MayEnqueue
  <2>2. Len(tasks') = Len(tasks) + 1
    BY <1>4, AppendProperties DEF Enqueue
  <2>3. At("check")' = At("check") /\ At("waiting")' = At("waiting")
    BY <1>4 DEF Enqueue, At
  <2>4. QED BY <1>0, <2>1, <2>2, <2>3
<1>5. ASSUME NEW th \in Threads, NotifyOne(th)
      PROVE  WakeupInv'
  <2>1. IsFiniteSet(notifying') /\ coming' = coming - 1 /\ UNCHANGED tasks
    BY <1>5, FS_RemoveElement DEF NotifyOne
  <2>2. CASE At("waiting") = {} /\ UNCHANGED wpc
    BY <2>1, <2>2 DEF At
  <2>3. CASE \E w \in At("waiting") : wpc' = [wpc EXCEPT ![w] = "check"]
    <3>1. PICK w \in At("waiting") : wpc' = [wpc EXCEPT ![w] = "check"]
      BY <2>3
    <3>2. At("check")' = At("check") \cup {w} /\ w \notin At("check")
      BY <3>1 DEF At
    <3>3. check' = check + 1
      BY <3>2, <1>0, FS_AddElement
    <3>4. At("waiting") # {}
      BY <3>1
    <3>5. QED BY <1>0, <2>1, <3>3, <3>4
  <2>4. QED BY <1>5, <2>2, <2>3 DEF NotifyOne
<1>6. ASSUME FinishNotifyAll
      PROVE  WakeupInv'
  BY <1>6 DEF FinishNotifyAll, At
<1>7. ASSUME \/ FinishStop \/ FinishJoin \/ UNCHANGED poolVars
             \/ \E th \in Threads, t \in Tasks : Refuse(th, t)
      PROVE  WakeupInv'
  <2>1. UNCHANGED <<tasks, notifying, wpc>>
    BY <1>7 DEF FinishStop, FinishJoin, poolVars, Refuse
  <2>2. QED BY <2>1 DEF At
<1>8. QED
  BY <1>1, <1>2, <1>3, <1>4, <1>5, <1>6, <1>7 DEF Next, Terminated

\* While a worker sleeps, every queued task has a worker or a notification coming for
\* it: notifying after the unlock, and waking one worker only, loses no wakeup.
THEOREM WakeupsSuffice == Spec => []NoLostWakeup
<1>1. WakeupInv => NoLostWakeup
  BY DEF WakeupInv
<1>2. QED BY <1>1, TypeInvariant, WakeupInvInit, WakeupInvNext, PTL DEF Spec

--------------------------------------------------------------------------------
(* The pool implements the work queue. *)

LEMMA InitRefines == Init => WQ!Init
<1> SUFFICES ASSUME Init
             PROVE  WQ!Init
  OBVIOUS
<1>1. Running = {}
  BY DEF Init, Running, At
<1>2. QED BY <1>1 DEF Init, WQ!Init

LEMMA SameCardinality ==
  ASSUME NEW S
  PROVE  WQ!Cardinality(S) = Cardinality(S)
BY DEF WQ!Cardinality, Cardinality, WQ!IsFiniteSet, IsFiniteSet

\* As long as one worker does not run a task, there are fewer tasks in progress than
\* workers.
LEMMA IdleWorkerIsRoom ==
  ASSUME TypeInv, NEW w \in Workers, wpc[w] # "running"
  PROVE  Cardinality(Running) < Cardinality(Workers)
<1> DEFINE R == At("running")
           f == [v \in R |-> task[v]]
<1>1. R \in SUBSET Workers /\ R # Workers
  BY DEF At
<1>2. /\ IsFiniteSet(R) /\ Cardinality(R) <= Cardinality(Workers)
      /\ Cardinality(R) # Cardinality(Workers)
  <2> HIDE DEF R
  <2>1. QED BY <1>1, FS_Subset, PoolAssumption
<1>3. f \in Surjection(R, Running)
  BY DEF Surjection, Running
<1>4. Cardinality(Running) <= Cardinality(R) /\ IsFiniteSet(Running)
  <2> HIDE DEF f, R
  <2>1. QED BY <1>2, <1>3, FS_Surjection
<1>5. /\ Cardinality(R) \in Nat /\ Cardinality(Workers) \in Nat
      /\ Cardinality(Running) \in Nat
  <2> HIDE DEF f, R
  <2>1. QED BY <1>2, <1>4, PoolAssumption, FS_CardinalityType
<1>6. QED BY <1>2, <1>4, <1>5

LEMMA NextRefines ==
  TypeInv /\ PhaseInv /\ PlaceInv /\ [Next]_poolVars => [WQ!Next]_WQ!vars
<1> SUFFICES ASSUME TypeInv, PhaseInv, PlaceInv, [Next]_poolVars
             PROVE  [WQ!Next]_WQ!vars
  OBVIOUS
<1>0. ASSUME UNCHANGED <<tasks, task, done, refused, stop>>,
             At("running")' = At("running"), (fpc = "returned")' = (fpc = "returned")
      PROVE  UNCHANGED WQ!vars
  BY <1>0 DEF WQ!vars, Running
<1>1. ASSUME NEW w \in Workers, Take(w)
      PROVE  WQ!Start
  <2>1. Cardinality(Running) < Cardinality(Workers)
    BY <1>1, IdleWorkerIsRoom DEF Take
  <2>2. /\ At("running")' = At("running") \cup {w} /\ w \notin At("running")
        /\ \A v \in At("running") : task'[v] = task[v]
        /\ task'[w] = Head(tasks)
    BY <1>1 DEF Take, At, TypeInv, TypeOK
  <2>3. Running' = Running \cup {Head(tasks)}
    BY <2>2 DEF Running
  <2>4. QED BY <1>1, <2>1, <2>3, SameCardinality DEF WQ!Start, Take
<1>2. ASSUME NEW w \in Workers, Wait(w) \/ Exit(w) \/ SpuriousWake(w)
      PROVE  UNCHANGED WQ!vars
  BY <1>0, <1>2 DEF Wait, Exit, SpuriousWake, At, TypeInv, TypeOK
<1>3. ASSUME NEW w \in Workers, Return(w)
      PROVE  \E t \in Tasks : WQ!Complete(t)
  <2>1. /\ At("running")' = At("running") \ {w} /\ w \in At("running")
        /\ \A v \in At("running")' : task'[v] = task[v]
    BY <1>3 DEF Return, At, TypeInv, TypeOK
  <2>2. Running' = Running \ {task[w]} /\ task[w] \in Running
    BY <2>1 DEF Running, PlaceInv, ExactlyOnce
  <2>3. task[w] \in Tasks
    BY <1>3 DEF Return, TypeInv
  <2>4. WQ!Complete(task[w])
    BY <1>3, <2>2 DEF Return, WQ!Complete
  <2>5. QED BY <2>3, <2>4
<1>4. ASSUME NEW th \in Threads, NEW t \in Tasks, Enqueue(th, t)
      PROVE  WQ!Accept(t)
  <2>1. WQ!Fresh(t)
    BY <1>4 DEF Enqueue, WQ!Fresh, WQ!Queued, WQ!Range, PlaceInv, ExactlyOnce,
                 Queued, Range
  <2>2. Running' = Running
    BY <1>4 DEF Enqueue, Running, At
  <2>3. QED BY <1>4, <2>1, <2>2 DEF Enqueue, WQ!Accept
<1>5. ASSUME NEW th \in Threads, NEW t \in Tasks, Refuse(th, t)
      PROVE  WQ!Deny(t)
  <2>1. WQ!Fresh(t)
    BY <1>5 DEF Refuse, WQ!Fresh, WQ!Queued, WQ!Range, PlaceInv, ExactlyOnce,
                 Queued, Range
  <2>2. Running' = Running
    BY <1>5 DEF Refuse, Running, At
  <2>3. QED BY <1>5, <2>1, <2>2 DEF Refuse, WQ!Deny
<1>6. ASSUME NEW th \in Threads, NotifyOne(th)
      PROVE  UNCHANGED WQ!vars
  BY <1>0, <1>6 DEF NotifyOne, At, TypeInv, TypeOK
<1>7. ASSUME FinishStop
      PROVE  WQ!Close
  BY <1>7 DEF FinishStop, WQ!Close, Running, At, PhaseInv
<1>8. ASSUME FinishNotifyAll
      PROVE  UNCHANGED WQ!vars
  BY <1>0, <1>8 DEF FinishNotifyAll, At, TypeInv, TypeOK
<1>9. ASSUME FinishJoin
      PROVE  WQ!Drain
  <2>1. tasks = <<>> /\ stop
    BY <1>9, PoolAssumption DEF FinishJoin, PhaseInv
  <2>2. Running = {} /\ Running' = {}
    BY <1>9 DEF FinishJoin, Running, At
  <2>3. QED BY <1>9, <2>1, <2>2 DEF FinishJoin, WQ!Drain
<1>10. ASSUME UNCHANGED poolVars
       PROVE  UNCHANGED WQ!vars
  BY <1>0, <1>10 DEF poolVars, At
<1>11. QED
  BY <1>1, <1>2, <1>3, <1>4, <1>5, <1>6, <1>7, <1>8, <1>9, <1>10
     DEF Next, Terminated, WQ!Next

\* The thread pool implements the work queue: every behaviour of its threads is, seen
\* through the queue, the running tasks and the flags, one of WorkQueue.
THEOREM PoolImplementsWorkQueue == Spec => ImplementsWorkQueue
BY InitRefines, NextRefines, TypeInvariant, PhaseInvariant, PlaceInvariant, PTL
   DEF Spec, ImplementsWorkQueue, WQ!Spec
================================================================================
