--------------------------- MODULE RadixFaultsProofs ----------------------------
(***************************************************************************)
(* Proofs about the radix join when memory runs out, for every number of   *)
(* threads, bits, passes and failures: what the join tasks that an         *)
(* exception leaves take with them is one output buffer each, and what     *)
(* was in it; all that the join guarantees about the order of its tasks    *)
(* survives the failures.                                                  *)
(***************************************************************************)
EXTENDS RadixFaults, RadixTasksProofs

--------------------------------------------------------------------------------
(* The invariants. *)

\* The buffers that are still in use are as many as the threads less the join tasks
\* that have failed.
StackInv ==
  /\ free_index \in Seq(Indices)
  /\ IsFiniteSet(FailedJoins)
  /\ \E avail \in SUBSET Indices :
       BuffersAre(avail) /\ thread_count = Cardinality(avail) + Cardinality(FailedJoins)

\* The tasks that are out of their code: returned, or about to.
Left == done \cup {task[w] : w \in {v \in Workers : tpc[v] = "end"}}

\* A failed task is out of its code; if it had children to schedule, one of them is
\* never scheduled; if it was a join task, its leaf is lost.
FailInv ==
  /\ failed \subseteq Left
  /\ \A t \in failed : t.depth > 1 =>
       IF t \in JoinTasks
       THEN t.of \in lost
       ELSE /\ t \in AllTasks
            /\ \E k \in 0 .. (ChildCount(t) - 1) : Child(t, k) \notin Announced

\* What holds while the program runs: all that holds without failures, but for the
\* buffers and the results.
RunInv ==
  /\ BaseInv
  /\ PP!PlaceInv
  /\ PP!PhaseInv
  /\ TreeInv
  /\ FinishInv
  /\ CountInv
  /\ FailInv
  /\ ResultInv(lost)

FaultInv ==
  /\ ~undefined => StackInv
  /\ Running => RunInv
  /\ undefined => mpc # "returned"

LEMMA StackStays ==
  ASSUME StackInv, UNCHANGED <<tpc, index, free_index, failed>>
  PROVE  StackInv'
<1>1. /\ Holders' = Holders /\ Unused' = Unused /\ FailedJoins' = FailedJoins
      /\ Indices' = Indices /\ thread_count' = thread_count
  BY DEF Holders, Unused, FailedJoins, JoinTasks, Indices, thread_count
<1>2. BuffersStay
  BY <1>1 DEF BuffersStay, BuffersAre
<1>3. QED BY <1>1, <1>2 DEF StackInv, BuffersStay

LEMMA FaultInvInit == FaultInit => FaultInv
<1> SUFFICES ASSUME FaultInit
             PROVE  FaultInv
  OBVIOUS
<1>1. Init /\ failed = {} /\ lost = {} /\ undefined = FALSE
  BY DEF FaultInit
<1>2. BaseInv /\ BuffersExclusive
  BY <1>1, IInvInit DEF IInv
<1>3. StackInv
  <2>1. FailedJoins = {}
    BY <1>1 DEF FailedJoins
  <2>2. IsFiniteSet(FailedJoins) /\ Cardinality(FailedJoins) = 0
    BY <2>1, FS_EmptySet
  <2>3. free_index \in Seq(Indices)
    BY <1>2 DEF BaseInv, TypeOK
  <2>4. BuffersAre(Indices)
    BY <1>2, AllAvailable
  <2>5. thread_count = Cardinality(Indices) + Cardinality(FailedJoins)
    BY <2>2, ThreadCount
  <2>6. QED BY <2>2, <2>3, <2>4, <2>5 DEF StackInv
<1>4. PP!PlaceInv /\ PP!PhaseInv
  BY <1>1, SameActions, PoolConstants, PP!PlaceInvInit, PP!PhaseInvInit DEF Init
<1>5. TreeInv /\ FinishInv /\ CountInv
  BY <1>1, TreeInvInit, CountInvInit
<1>6. FailInv
  BY <1>1 DEF FailInv
<1>7. ResultInv(lost)
  <2>1. ResultInv({})
    BY <1>1, ResultInvInit
  <2>2. QED BY <1>1, <2>1
<1>8. RunInv
  BY <1>2, <1>4, <1>5, <1>6, <1>7 DEF RunInv
<1>9. QED BY <1>1, <1>3, <1>8 DEF FaultInv

--------------------------------------------------------------------------------
(* The steps. *)

\* A step of RadixTasks.tla that meets no empty stack, or a failure, while the program
\* runs; nothing afterwards.
LEMMA FaultSteps ==
  ASSUME [FaultNext]_allVars
  PROVE  \/ UNCHANGED allVars
         \/ Running /\ SoundNext /\ UNCHANGED faultVars
         \/ Running /\ (MainThrows \/ MainRethrows)
         \/ \E w \in Workers :
              Running /\ (PartitionThrows(w) \/ SpawnFails(w) \/ JoinThrows(w) \/ GrabEmpty(w))
<1>1. CASE MainGoesOn
  BY <1>1 DEF MainGoesOn, SoundNext, MainStep
<1>2. CASE MainFails
  BY <1>2 DEF MainFails
<1>3. ASSUME NEW w \in Workers, WorkerGoesOn(w)
      PROVE  Running /\ SoundNext /\ UNCHANGED faultVars
  BY <1>3 DEF WorkerGoesOn, SoundNext
<1>4. ASSUME NEW w \in Workers, TaskGoesOn(w)
      PROVE  Running /\ SoundNext /\ UNCHANGED faultVars
  BY <1>4 DEF TaskGoesOn, SoundNext
<1>5. ASSUME NEW w \in Workers, TaskFails(w)
      PROVE  Running /\ (PartitionThrows(w) \/ SpawnFails(w) \/ JoinThrows(w) \/ GrabEmpty(w))
  BY <1>5 DEF TaskFails
<1>6. ASSUME NEW th \in Workers \cup {main}, Notify(th)
      PROVE  Running /\ SoundNext /\ UNCHANGED faultVars
  BY <1>6 DEF Notify, SoundNext
<1>7. CASE Rest
  BY <1>7 DEF Rest, SoundNext
<1>8. CASE Ended
  BY <1>8 DEF Ended
<1>9. QED BY <1>1, <1>2, <1>3, <1>4, <1>5, <1>6, <1>7, <1>8 DEF FaultNext

\* A task that is out of its code stays so.
LEMMA LeftGrows ==
  ASSUME BaseInv, [Next]_vars
  PROVE  Left \subseteq Left'
<1>1. done \subseteq done'
  BY WorkedGrows
<1>2. ASSUME NEW w \in Workers, tpc[w] = "end"
      PROVE  task[w] \in Left'
  <2>1. CASE UNCHANGED <<tpc, task, done>>
    BY <1>2, <2>1 DEF Left
  <2>2. ASSUME NEW v \in Workers \ {w}, WorkerTake(v) \/ TaskStep(v)
        PROVE  task[w] \in Left'
    BY <1>2, <2>2, TaskStepFrame DEF Left
  <2>3. CASE WorkerTake(w)
    BY <1>2, <2>3 DEF WorkerTake, Pool!Take, BaseInv, ControlInv
  <2>4. CASE TaskStep(w)
    <3>1. WorkerReturn(w)
      BY <1>2, <2>4 DEF TaskStep, Work, Spawn, SpawnThrows, Count, Signal, NotifyMain, Grab,
                        MoveOut, MoveIn, Release
    <3>2. QED BY <3>1 DEF WorkerReturn, Pool!Return, Left
  <2>5. QED BY <2>1, <2>2, <2>3, <2>4, StepsOfTasks
<1>3. QED BY <1>1, <1>2 DEF Left

\* A task that is out of its code schedules nothing any more.
LEMMA FailInvNext ==
  ASSUME RunInv, [Next]_vars, UNCHANGED <<failed, lost>>
  PROVE  FailInv'
<1> USE DEF RunInv
<1>1. failed' \subseteq Left'
  BY LeftGrows DEF FailInv
<1>2. ASSUME NEW t \in failed, t \in AllTasks, NEW k \in 0 .. (ChildCount(t) - 1),
             Child(t, k) \notin Announced
      PROVE  Child(t, k) \notin Announced'
  <2>1. ChildCount(t) # 0 /\ k \in Nat
    BY <1>2, ChildCountType, PartCount
  <2>2. ASSUME MainEnqueue
        PROVE  Child(t, k) # Round(mpc)[round + 1]
    <3>1. Len(Round(mpc)) \in Nat /\ round \in Nat
      BY PartCount, ThreadCount DEF Round, BaseInv, TypeOK
    <3>2. mpc \in {"partition", "scatter", "leaves"} /\ round + 1 \in 1 .. Len(Round(mpc))
      BY <2>2, <3>1 DEF MainEnqueue
    <3>3. QED BY <1>2, <2>1, <3>2, RoundNotChild
  <2>3. ASSUME NEW w \in Workers, Spawn(w) \/ SpawnThrows(w)
        PROVE  Child(t, k) # Child(task[w], kids[w])
    <3>1. tpc[w] = "spawn"
      BY <2>3 DEF Spawn, SpawnThrows
    <3>2. task[w] # t
      BY <1>2, <3>1, TasksHeld DEF FailInv, Left
    <3>3. QED BY <1>2, <3>1, <3>2, Spawning, ChildrenDistinct
  <2>4. QED BY <1>2, <2>2, <2>3, Announcing
<1>3. QED BY <1>1, <1>2 DEF FailInv

\* Nothing goes wrong in this step.
LEMMA SoundStep ==
  ASSUME FaultInv, Running, SoundNext, UNCHANGED faultVars
  PROVE  FaultInv'
<1>1. RunInv /\ StackInv /\ ~undefined /\ ~undefined' /\ UNCHANGED <<failed, lost>>
  BY DEF FaultInv, Running, faultVars
<1> USE DEF RunInv
<1>2. [Next]_vars
  BY DEF SoundNext, Next
<1>3. BaseInv' /\ BuffersStay
  BY <1>1, BaseInvNext
<1>4. [PP!Next]_(PP!poolVars) /\ PP!TypeInv
  BY <1>1, <1>2, PoolStep DEF BaseInv
<1>5. PP!PlaceInv' /\ PP!PhaseInv'
  BY <1>1, <1>4, PoolConstants, PP!PlaceInvNext, PP!PhaseInvNext
<1>6. TreeInv' /\ FinishInv' /\ CountInv' /\ FailInv'
  BY <1>1, <1>2, OrderInvNext, SpawnInvNext, RoundInvNext, FinishInvNext, CountInvNext,
     FailInvNext DEF TreeInv
<1>7. PICK gone : gone = lost
  OBVIOUS
<1>8. ResultInv(gone)'
  <2>1. HeldApart
    BY <1>1, BuffersApart DEF StackInv
  <2>2. ResultInv(gone)
    BY <1>1, <1>7
  <2>3. QED BY <1>1, <1>2, <2>1, <2>2, ResultInvNext
<1>9. lost' = gone
  BY <1>1, <1>7
<1>10. ResultInv(lost)'
  BY <1>8, <1>9
<1>11. StackInv'
  <2>1. free_index' \in Seq(Indices)
    BY <1>3 DEF BaseInv, TypeOK, Indices
  <2>2. FailedJoins' = FailedJoins
    BY <1>1 DEF FailedJoins, JoinTasks
  <2>3. QED BY <1>1, <1>3, <2>1, <2>2 DEF StackInv, BuffersStay
<1>12. QED BY <1>1, <1>3, <1>5, <1>6, <1>10, <1>11 DEF FaultInv

--------------------------------------------------------------------------------
(* The steps where something goes wrong. *)

\* An exception leaves the task of worker w, wherever it is in its code, and takes
\* away its buffer if it holds one.
Failure(w) ==
  /\ tpc[w] \in {"work", "spawn", "join"}
  /\ Fail(w)
  /\ UNCHANGED results
  /\ index' \in {index, [index EXCEPT ![w] = NoIndex]}
  /\ output' \in {output, [output EXCEPT ![w] = {}]}

LEMMA FailureEffect ==
  ASSUME BaseInv, NEW w \in Workers, Failure(w)
  PROVE  /\ tpc' = [tpc EXCEPT ![w] = "end"] /\ tpc'[w] = "end"
         /\ \A v \in Workers \ {w} : tpc'[v] = tpc[v]
         /\ UNCHANGED <<tasks, stop, wpc, task, notifying, fpc, accepted, refused, done>>
         /\ UNCHANGED <<mpc, round, kids, join_count, finished, free_index, filled, results>>
BY DEF Failure, Fail, poolVars, mainVars, BaseInv, TypeOK

LEMMA FailureKeepsBase ==
  ASSUME BaseInv, NEW w \in Workers, Failure(w)
  PROVE  BaseInv'
<1>1. /\ tpc' = [tpc EXCEPT ![w] = "end"]
      /\ \A v \in Workers \ {w} : tpc'[v] = tpc[v]
      /\ UNCHANGED <<tasks, stop, wpc, task, notifying, fpc, accepted, refused, done>>
      /\ UNCHANGED <<mpc, round, kids, join_count, finished, free_index, filled, results>>
      /\ tpc[w] \in {"work", "spawn", "join"} /\ tpc'[w] = "end"
  BY FailureEffect DEF Failure
<1>2. /\ OwnTypes
      /\ index' \in {index, [index EXCEPT ![w] = NoIndex]}
      /\ output' \in {output, [output EXCEPT ![w] = {}]}
  BY TypeParts DEF BaseInv, Failure
<1>3. OwnTypes'
  <2>1. index' \in [Workers -> Indices \cup {NoIndex}]
    BY <1>2 DEF OwnTypes
  <2>2. output' \in [Workers -> SUBSET Leaves]
    BY <1>2 DEF OwnTypes
  <2>3. tpc' \in [Workers -> {"idle", "work", "spawn", "count", "signal", "notify",
                             "grab", "moveout", "join", "release", "end"}]
    BY <1>1, <1>2 DEF OwnTypes
  <2>4. QED BY <1>1, <1>2, <2>1, <2>2, <2>3 DEF OwnTypes, Indices, Leaves, Paths
<1>4. ControlInv'
  <2>1. \A v \in Workers \ {w} : index'[v] = index[v]
    BY <1>2 DEF OwnTypes
  <2>2. QED BY <1>1, <2>1 DEF BaseInv, ControlInv, JoinPcs, Holders
<1>5. PP!TypeInv'
  <2>1. UNCHANGED PP!poolVars
    BY <1>1 DEF PP!poolVars
  <2>2. QED BY <2>1, PoolConstants, PP!TypeInvNext DEF BaseInv
<1>6. TypeOK'
  BY <1>3, <1>5, SameTypes DEF TypeOK, OwnTypes
<1>7. QED BY <1>4, <1>5, <1>6 DEF BaseInv

\* The failed task is done with its data, and it has scheduled nothing.
LEMMA FailureKeepsTree ==
  ASSUME RunInv, NEW w \in Workers, Failure(w)
  PROVE  /\ PP!PlaceInv' /\ PP!PhaseInv'
         /\ TreeInv' /\ FinishInv' /\ CountInv'
<1> USE DEF RunInv
<1>1. /\ tpc' = [tpc EXCEPT ![w] = "end"]
      /\ \A v \in Workers \ {w} : tpc'[v] = tpc[v]
      /\ UNCHANGED <<tasks, stop, wpc, task, notifying, fpc, accepted, refused, done>>
      /\ UNCHANGED <<mpc, round, kids, join_count, finished, free_index, filled, results>>
      /\ tpc[w] \in {"work", "spawn", "join"} /\ tpc'[w] = "end"
  BY FailureEffect DEF Failure
<1>2. PP!PlaceInv' /\ PP!PhaseInv'
  <2>1. UNCHANGED PP!poolVars
    BY <1>1 DEF PP!poolVars
  <2>2. QED BY <2>1, PoolConstants, PP!PlaceInvNext, PP!PhaseInvNext DEF BaseInv
<1>3. Announced' = Announced /\ Worked \subseteq Worked'
  BY <1>1 DEF Announced, Worked
<1>4. OrderInv'
  BY <1>3 DEF TreeInv, OrderInv, AllTasks, ChunkTasks, SubTasks, JoinTasks
<1>5. SpawnInv'
  BY <1>1, <1>3 DEF TreeInv, SpawnInv
<1>6. RoundInv'
  BY <1>1, <1>3 DEF TreeInv, RoundInv, ChunkTasks
<1>7. FinishInv'
  BY <1>1 DEF FinishInv
<1>8. CountInv'
  <2>1. tpc[w] = "join" \/ task[w] \notin JoinTasks
    <3>1. CASE tpc[w] = "work"
      BY <3>1 DEF CountInv
    <3>2. CASE tpc[w] = "spawn"
      BY <3>2, Spawning DEF ChildCount, JoinTasks, JoinTask
    <3>3. QED BY <1>1, <3>1, <3>2
  <2>2. Reached(CountedPcs)' = Reached(CountedPcs)
    BY <1>1, <2>1, ReachedMove DEF CountedPcs
  <2>3. Counted' = Counted
    BY <2>2 DEF Counted
  <2>4. \A v \in Workers : tpc'[v] = "work" => task'[v] \notin JoinTasks
    BY <1>1 DEF CountInv
  <2>5. Complete' => Complete
    BY <1>1 DEF Complete
  <2>6. QED BY <1>1, <2>3, <2>4, <2>5, CountKept
<1>9. QED BY <1>2, <1>4, <1>5, <1>6, <1>7, <1>8 DEF TreeInv

\* A partition or scatter task fails: a child is never scheduled.
LEMMA PrunedStep ==
  ASSUME FaultInv, Running, NEW w \in Workers, PartitionThrows(w) \/ SpawnFails(w)
  PROVE  FaultInv'
<1>1. RunInv /\ StackInv /\ ~undefined /\ HeldApart
  BY BuffersApart DEF FaultInv, Running, StackInv
<1> USE DEF RunInv
<1>2. /\ Failure(w) /\ tpc[w] \in {"work", "spawn"}
      /\ UNCHANGED <<index, output, lost, undefined>> /\ failed' = failed \cup {task[w]}
  BY DEF PartitionThrows, SpawnFails, Failure, Fail
<1>3. /\ tpc' = [tpc EXCEPT ![w] = "end"]
      /\ \A v \in Workers \ {w} : tpc'[v] = tpc[v]
      /\ UNCHANGED <<tasks, stop, wpc, task, notifying, fpc, accepted, refused, done>>
      /\ UNCHANGED <<mpc, round, kids, join_count, finished, free_index, filled, results>>
      /\ tpc'[w] = "end"
  BY <1>1, <1>2, FailureEffect
<1>4. /\ task[w] \notin JoinTasks /\ task[w] \in AllTasks /\ task[w] \notin done
      /\ \A v \in Workers \ {w} : tpc[v] # "idle" => task[v] # task[w]
  <2>1. CASE tpc[w] = "work"
    BY <1>1, <2>1, TasksHeld DEF CountInv
  <2>2. CASE tpc[w] = "spawn"
    BY <1>1, <2>2, Spawning, TasksHeld DEF ChildCount, JoinTasks, JoinTask
  <2>3. QED BY <1>2, <2>1, <2>2
<1>5. BaseInv'
  BY <1>1, <1>2, FailureKeepsBase
<1>6. PP!PlaceInv' /\ PP!PhaseInv' /\ TreeInv' /\ FinishInv' /\ CountInv'
  BY <1>1, <1>2, FailureKeepsTree
<1>7. FailInv'
  <2>1. Announced' = Announced /\ Left' = Left \cup {task[w]}
    BY <1>2, <1>3 DEF Announced, Left
  <2>2. task[w].depth > 1 =>
          \E k \in 0 .. (ChildCount(task[w]) - 1) : Child(task[w], k) \notin Announced
    <3>1. CASE PartitionThrows(w) /\ task[w].depth > 1
      <4>1. tpc[w] = "work" /\ task[w].op = "partition"
        BY <3>1 DEF PartitionThrows
      <4>2. ChildCount(task[w]) = 1
        BY <1>4, <3>1, <4>1, TaskForm DEF ChildCount
      <4>3. Precedes(task[w], Child(task[w], 0))
        BY <1>4, <4>2, BeforeChild
      <4>4. task[w] \notin Worked
        BY <1>4, <4>1 DEF Worked
      <4>5. Child(task[w], 0) \notin Announced
        BY <1>1, <1>4, <4>3, <4>4 DEF TreeInv, OrderInv
      <4>6. QED BY <4>2, <4>5
    <3>2. CASE SpawnFails(w)
      <4>1. tpc[w] = "spawn"
        BY <3>2 DEF SpawnFails
      <4>2. kids[w] \in 0 .. (ChildCount(task[w]) - 1) /\ kids[w] \in kids[w] .. (ChildCount(task[w]) - 1)
        BY <1>1, <4>1, Spawning
      <4>3. Child(task[w], kids[w]) \notin Announced
        BY <1>1, <4>1, <4>2 DEF TreeInv, SpawnInv
      <4>4. QED BY <4>2, <4>3
    <3>3. QED BY <3>1, <3>2
  <2>3. QED BY <1>1, <1>2, <1>4, <2>1, <2>2 DEF FailInv, JoinTasks, AllTasks
<1>8. PICK gone : gone = lost
  OBVIOUS
<1>9. ResultInv(gone)'
  <2>1. ResultInv(gone)
    BY <1>1, <1>8
  <2>2. QED BY <1>1, <1>2, <1>3, <1>4, <2>1, ResultMove
<1>10. ResultInv(lost)'
  <2>1. lost' = gone
    BY <1>2, <1>8
  <2>2. QED BY <1>9, <2>1
<1>11. StackInv'
  <2>1. BuffersStay
    BY <1>1, <1>2, <1>3, BuffersAlone DEF Holders
  <2>2. FailedJoins' = FailedJoins
    BY <1>2, <1>4 DEF FailedJoins, JoinTasks
  <2>3. free_index' \in Seq(Indices)
    BY <1>5 DEF BaseInv, TypeOK, Indices
  <2>4. QED BY <1>1, <2>1, <2>2, <2>3 DEF StackInv, BuffersStay
<1>12. QED BY <1>1, <1>2, <1>5, <1>6, <1>7, <1>10, <1>11 DEF FaultInv

\* A join task fails: its buffer and what was in it are gone.
LEMMA LossKeepsResults ==
  ASSUME RunInv, NEW w \in Workers, JoinThrows(w), NEW gone, gone = lost,
         NEW all, all = gone \cup output[w] \cup {task[w].of}
  PROVE  ResultInv(all)'
<1> USE DEF RunInv
<1> DEFINE leaf == task[w].of
<1>1. /\ tpc[w] = "join" /\ UNCHANGED <<task, done, results, filled>>
      /\ tpc' = [tpc EXCEPT ![w] = "end"]
      /\ output' = [output EXCEPT ![w] = {}]
      /\ index' = [index EXCEPT ![w] = NoIndex]
  BY DEF JoinThrows, Fail, poolVars
<1>2. /\ output'[w] = {} /\ tpc'[w] = "end"
      /\ \A v \in Workers \ {w} : /\ tpc'[v] = tpc[v] /\ output'[v] = output[v]
                                  /\ index'[v] = index[v]
  BY <1>1 DEF BaseInv, TypeOK
<1>3. ResultInv(gone)
  OBVIOUS
<1>4. task[w] \in JoinTasks /\ task[w] = JoinTask(leaf) /\ leaf \in filled
  BY <1>1, <1>3, JoinTaskOf DEF BaseInv, ControlInv, JoinPcs, ResultInv, PickedInv
<1>5. Handled' = Handled \cup {leaf} /\ leaf \notin Handled
  <2>1. /\ Reached(AppendedPcs)' = Reached(AppendedPcs) \cup {task[w]}
        /\ task[w] \notin Reached(AppendedPcs)
    BY <1>1, <1>4, ReachedMove DEF AppendedPcs
  <2>2. \A p : JoinTask(p) = JoinTask(leaf) => p = leaf
    BY JoinTaskOf
  <2> HIDE DEF leaf
  <2>3. Appended' = Appended \cup {JoinTask(leaf)} /\ JoinTask(leaf) \notin Appended
    BY <1>4, <2>1 DEF Appended
  <2>4. QED BY <1>1, <1>4, <2>2, <2>3 DEF Handled, JoinTask
<1>6. all = gone \cup output[w] \cup {leaf}
  OBVIOUS
<1> HIDE DEF leaf
<1>7. \A p : p \in Joined <=> (\E j \in Indices : p \in results[j]) \/ \E v \in Workers : p \in output[v]
  BY DEF Joined
<1>8. Joined' = Joined \ output[w]
  <2>1. ASSUME NEW p
        PROVE  p \in Joined' <=> p \in Joined /\ p \notin output[w]
    <3>1. p \in Joined' <=> (\E j \in Indices : p \in results[j]) \/ \E v \in Workers : p \in output'[v]
      BY <1>1 DEF Joined, Indices
    <3>2. /\ p \in output[w] => \A j \in Indices : p \notin results[j]
          /\ p \in output[w] => \A v \in Workers \ {w} : p \notin output[v]
      BY <1>3 DEF ResultInv, SeparateInv
    <3>3. QED BY <1>2, <1>7, <3>1, <3>2
  <2>2. QED BY <2>1
<1>9. JoinedInv(all)'
  <2>1. output[w] \subseteq Joined
    BY <1>7
  <2>2. gone \subseteq Handled /\ Joined = Handled \ gone
    BY <1>3 DEF ResultInv, JoinedInv
  <2>3. all \subseteq Handled' /\ Joined' = Handled' \ all
    BY <1>6, <1>5, <1>8, <2>1, <2>2
  <2>4. QED BY <2>3 DEF JoinedInv
<1>10. PickedInv'
  BY <1>1, <1>2, <1>3 DEF ResultInv, PickedInv
<1>11. MovedInv'
  BY <1>1, <1>2, <1>3 DEF ResultInv, MovedInv
<1>12. SeparateInv'
  BY <1>1, <1>2, <1>3 DEF ResultInv, SeparateInv, Indices
<1>13. QED BY <1>9, <1>10, <1>11, <1>12 DEF ResultInv

LEMMA LossStep ==
  ASSUME FaultInv, Running, NEW w \in Workers, JoinThrows(w)
  PROVE  FaultInv'
<1>1. RunInv /\ StackInv /\ ~undefined
  BY DEF FaultInv, Running
<1> USE DEF RunInv
<1>2. /\ Failure(w) /\ tpc[w] = "join"
      /\ undefined' = undefined /\ failed' = failed \cup {task[w]}
      /\ lost' = lost \cup output[w] \cup {task[w].of}
      /\ index' = [index EXCEPT ![w] = NoIndex]
  BY DEF JoinThrows, Failure, Fail
<1>3. /\ tpc' = [tpc EXCEPT ![w] = "end"]
      /\ \A v \in Workers \ {w} : tpc'[v] = tpc[v]
      /\ UNCHANGED <<tasks, stop, wpc, task, notifying, fpc, accepted, refused, done>>
      /\ UNCHANGED <<mpc, round, kids, join_count, finished, free_index, filled, results>>
      /\ tpc'[w] = "end"
  BY <1>1, <1>2, FailureEffect
<1>4. task[w] \in JoinTasks /\ task[w] \notin failed
  <2>1. task[w] \notin done /\ \A v \in Workers : tpc[v] # "idle" /\ task[v] = task[w] => v = w
    BY <1>1, <1>2, TasksHeld
  <2>2. task[w] \notin Left
    BY <1>2, <2>1 DEF Left
  <2>3. QED BY <1>1, <1>2, <2>2 DEF FailInv, BaseInv, ControlInv, JoinPcs
<1>5. BaseInv'
  BY <1>1, <1>2, FailureKeepsBase
<1>6. PP!PlaceInv' /\ PP!PhaseInv' /\ TreeInv' /\ FinishInv' /\ CountInv'
  BY <1>1, <1>2, FailureKeepsTree
<1>7. FailInv'
  <2>1. Announced' = Announced /\ Left' = Left \cup {task[w]}
    BY <1>2, <1>3 DEF Announced, Left
  <2>2. QED BY <1>1, <1>2, <1>4, <2>1 DEF FailInv, JoinTasks, AllTasks
<1>8. ResultInv(lost)'
  <2>1. PICK gone : gone = lost
    OBVIOUS
  <2>2. PICK more : more = gone \cup output[w] \cup {task[w].of}
    OBVIOUS
  <2>3. ResultInv(more)'
    BY <1>1, <2>1, <2>2, LossKeepsResults
  <2>4. lost' = more
    BY <1>2, <2>1, <2>2
  <2>5. QED BY <2>3, <2>4
<1>9. StackInv'
  <2>1. PICK avail \in SUBSET Indices :
          BuffersAre(avail) /\ thread_count = Cardinality(avail) + Cardinality(FailedJoins)
    BY <1>1 DEF StackInv
  <2>2. PICK rest \in SUBSET Indices : rest = avail \ {index[w]}
    OBVIOUS
  <2>3. w \in Holders /\ index[w] \in avail /\ index[w] \notin Unused
    BY <1>2, <2>1 DEF Holders, BuffersAre
  <2>4. /\ Holders' = Holders \ {w} /\ Unused' = Unused
        /\ \A v \in Holders' : index'[v] = index[v]
    BY <1>2, <1>3 DEF Holders, Unused, BaseInv, TypeOK
  <2>5. BuffersAre(rest)'
    <3>1. \A i, j \in DOMAIN free_index' : free_index'[i] = free_index'[j] => i = j
      BY <1>3, <2>1 DEF BuffersAre
    <3>2. \A v \in Holders' : index'[v] \in rest \ Unused'
      BY <2>1, <2>2, <2>3, <2>4 DEF BuffersAre
    <3>3. \A v, u \in Holders' : index'[v] = index'[u] => v = u
      BY <2>1, <2>4 DEF BuffersAre
    <3>4. rest = Unused' \cup {index'[v] : v \in Holders'}
      BY <2>1, <2>2, <2>3, <2>4 DEF BuffersAre
    <3>5. QED BY <3>1, <3>2, <3>3, <3>4 DEF BuffersAre
  <2>6. IsFiniteSet(avail) /\ Cardinality(avail) \in Nat
    BY ThreadCount, FS_Subset, FS_CardinalityType
  <2>7. Cardinality(rest) = Cardinality(avail) - 1
    BY <2>2, <2>3, <2>6, FS_RemoveElement
  <2>8. FailedJoins' = FailedJoins \cup {task[w]} /\ task[w] \notin FailedJoins
    BY <1>2, <1>4 DEF FailedJoins, JoinTasks
  <2>9. /\ IsFiniteSet(FailedJoins) /\ Cardinality(FailedJoins) \in Nat
        /\ IsFiniteSet(FailedJoins \cup {task[w]})
        /\ Cardinality(FailedJoins \cup {task[w]}) = Cardinality(FailedJoins) + 1
    BY <1>1, <2>8, FS_AddElement, FS_CardinalityType DEF StackInv
  <2>10. IsFiniteSet(FailedJoins)' /\ Cardinality(FailedJoins)' = Cardinality(FailedJoins) + 1
    BY <2>8, <2>9
  <2>11. free_index' \in Seq(Indices)
    BY <1>5 DEF BaseInv, TypeOK, Indices
  <2>12. thread_count = Cardinality(rest) + Cardinality(FailedJoins)'
    BY <2>1, <2>6, <2>7, <2>9, <2>10
  <2>13. QED
    <3>1. Indices' = Indices /\ thread_count' = thread_count
      BY DEF Indices, thread_count
    <3>2. QED BY <2>5, <2>10, <2>11, <2>12, <3>1 DEF StackInv
<1>10. QED BY <1>1, <1>2, <1>5, <1>6, <1>7, <1>8, <1>9 DEF FaultInv

\* execute() fails, or a join task pops the empty stack: that is the end.
LEMMA EndStep ==
  ASSUME FaultInv, Running,
         MainThrows \/ MainRethrows \/ \E w \in Workers : GrabEmpty(w)
  PROVE  FaultInv'
<1>1. RunInv /\ StackInv /\ ~undefined
  BY DEF FaultInv, Running
<1>2. CASE MainThrows \/ MainRethrows
  <2>1. mpc' = "aborted" /\ UNCHANGED <<tpc, index, free_index, failed>>
    BY <1>2 DEF MainThrows, MainRethrows, Unwind, taskVars, stateVars
  <2>2. StackInv'
    BY <1>1, <2>1, StackStays
  <2>3. QED BY <1>1, <2>1, <2>2 DEF FaultInv, Running, Aborted
<1>3. ASSUME NEW w \in Workers, GrabEmpty(w)
      PROVE  FaultInv'
  <2>1. tpc[w] = "grab" /\ undefined' = TRUE /\ mpc' = mpc
    BY <1>3 DEF GrabEmpty, vars, mainVars
  <2>2. mpc # "returned"
    BY <1>1, <2>1 DEF RunInv, BaseInv, ControlInv, FinishInv, PP!PhaseInv
  <2>3. QED BY <2>1, <2>2 DEF FaultInv, Running
<1>4. QED BY <1>2, <1>3

LEMMA FaultInvariant == FaultSpec => []FaultInv
<1>1. FaultInv /\ [FaultNext]_allVars => FaultInv'
  <2> SUFFICES ASSUME FaultInv, [FaultNext]_allVars
               PROVE  FaultInv'
    OBVIOUS
  <2>1. CASE UNCHANGED allVars
    <3>1. CASE Running
      BY <2>1, <3>1, SoundStep DEF allVars, SoundNext
    <3>2. CASE ~Running
      <4>1. UNCHANGED <<tpc, index, free_index, mpc, failed, undefined>>
        BY <2>1 DEF allVars, faultVars, vars, mainVars, taskVars, stateVars
      <4>2. StackInv => StackInv'
        BY <4>1, StackStays
      <4>3. ~Running'
        BY <3>2, <4>1 DEF Running, Aborted
      <4>4. QED BY <4>1, <4>2, <4>3 DEF FaultInv
    <3>3. QED BY <3>1, <3>2
  <2>2. CASE Running /\ SoundNext /\ UNCHANGED faultVars
    BY <2>2, SoundStep
  <2>3. QED BY <2>1, <2>2, FaultSteps, PrunedStep, LossStep, EndStep
<1>2. QED BY <1>1, FaultInvInit, PTL DEF FaultSpec

--------------------------------------------------------------------------------
(* The buffers. *)

LEMMA BuffersCount ==
  ASSUME free_index \in Seq(Indices), NEW avail, BuffersAre(avail)
  PROVE  Cardinality(avail) = Len(free_index) + Cardinality(Holders)
<1> DEFINE held == {index[w] : w \in Holders}
<1>1. free_index \in Seq(Indices) /\ Len(free_index) \in Nat
  OBVIOUS
<1>2. IsFiniteSet(1 .. Len(free_index)) /\ Cardinality(1 .. Len(free_index)) = Len(free_index)
  BY <1>1, FS_Interval
<1>3. IsFiniteSet(Unused) /\ Cardinality(Unused) = Len(free_index)
  <2>1. Unused = {free_index[i] : i \in 1 .. Len(free_index)}
    BY <1>1 DEF Unused, Range
  <2>2. \A i, j \in 1 .. Len(free_index) : free_index[i] = free_index[j] => i = j
    BY <1>1 DEF BuffersAre
  <2>3. QED BY <1>2, <2>1, <2>2, ImageCardinality
<1>4. IsFiniteSet(Holders)
  <2>1. Holders \subseteq Workers
    BY DEF Holders
  <2>2. QED BY <2>1, RadixAssumption, FS_Subset
<1>5. IsFiniteSet(held) /\ Cardinality(held) = Cardinality(Holders)
  BY <1>4, ImageCardinality DEF BuffersAre
<1>6. avail = Unused \cup held /\ Unused \cap held = {}
  BY DEF BuffersAre
<1> HIDE DEF held
<1>7. Cardinality(Unused \cup held)
        = Cardinality(Unused) + Cardinality(held) - Cardinality(Unused \cap held)
  BY <1>3, <1>5, FS_Union
<1>8. Cardinality(Unused \cap held) = 0 /\ Cardinality(Holders) \in Nat
  BY <1>4, <1>6, FS_EmptySet, FS_CardinalityType
<1>9. QED BY <1>1, <1>3, <1>5, <1>6, <1>7, <1>8

\* However many tasks fail, and whatever runs in between, until a join task pops the
\* empty stack no buffer is on the stack twice, on the stack and in use, or used by two
\* join tasks, and every failed join task has cost one buffer.
THEOREM BuffersStayAccounted == FaultSpec => []BuffersAccounted
<1>1. FaultInv => BuffersAccounted
  <2> SUFFICES ASSUME FaultInv, ~undefined
               PROVE  /\ \A i, j \in DOMAIN free_index : free_index[i] = free_index[j] => i = j
                      /\ \A w \in Holders : index[w] \notin Unused
                      /\ \A v, w \in Holders : index[v] = index[w] => v = w
                      /\ thread_count = Len(free_index) + Cardinality(Holders)
                                        + Cardinality(FailedJoins)
    BY DEF BuffersAccounted
  <2>1. PICK avail \in SUBSET Indices :
          BuffersAre(avail) /\ thread_count = Cardinality(avail) + Cardinality(FailedJoins)
    BY DEF FaultInv, StackInv
  <2>2. Cardinality(avail) = Len(free_index) + Cardinality(Holders)
    BY <2>1, BuffersCount DEF FaultInv, StackInv
  <2>3. QED BY <2>1, <2>2 DEF BuffersAre
<1>2. QED BY <1>1, FaultInvariant, PTL

--------------------------------------------------------------------------------
(* What execute() returns with. *)

\* If every task was enqueued, no task failed before it had scheduled its children.
LEMMA NothingPruned ==
  ASSUME FailInv, AllTasks \subseteq accepted
  PROVE  ~Pruned
<1> SUFFICES ASSUME NEW t \in failed \ JoinTasks, t.depth > 1
             PROVE  FALSE
  BY DEF Pruned
<1>1. t \in AllTasks /\ \E k \in 0 .. (ChildCount(t) - 1) : Child(t, k) \notin Announced
  BY DEF FailInv
<1>2. PICK k \in 0 .. (ChildCount(t) - 1) : Child(t, k) \notin Announced
  BY <1>1
<1>3. Child(t, k) \in AllTasks
  BY <1>1, <1>2, ChildForm
<1>4. QED BY <1>2, <1>3 DEF Announced

\* If execute() returns although tasks have failed, all of the task tree was scheduled;
\* the result vectors hold, once, the output of every filled leaf but the lost ones,
\* among them those of the failed join tasks; for every number of threads, bits,
\* failures, and passes but zero.
THEOREM LossesAreAccounted ==
  ASSUME RadixPasses # 0
  PROVE  FaultSpec => []LossesAccounted
<1>1. FaultInv => LossesAccounted
  <2> SUFFICES ASSUME FaultInv, mpc = "returned"
               PROVE  /\ ~Pruned
                      /\ UNION {results[i] : i \in Indices} = filled \ lost
                      /\ \A i, j \in Indices : i # j => results[i] \cap results[j] = {}
                      /\ {t.of : t \in FailedJoins} \subseteq lost /\ lost \subseteq filled
    BY DEF LossesAccounted
  <2>1. RunInv
    BY DEF FaultInv, Running, Aborted
  <2> USE DEF RunInv
  <2>2. stop /\ \A w \in Workers : wpc[w] = "exited"
    BY <2>1 DEF FinishInv, PP!PhaseInv
  <2>3. StopAfterLastEnqueue
    BY <2>1, StoppedLast
  <2>4. ~Pruned
    BY <2>1, <2>2, <2>3, NothingPruned DEF StopAfterLastEnqueue
  <2>5. PICK gone : gone = lost
    OBVIOUS
  <2>6. ResultInv(gone)
    BY <2>1, <2>5
  <2>7. Joined = filled \ gone /\ gone \subseteq filled /\ \A w \in Workers : output[w] = {}
    BY <2>1, <2>2, <2>3, <2>6, ExitedIsComplete
  <2>8. UNION {results[i] : i \in Indices} = Joined
    BY <2>7 DEF Joined
  <2>9. \A t \in FailedJoins : t.of \in lost
    <3>1. \A t \in JoinTasks : t.depth > 1
      BY RadixAssumption DEF JoinTasks, JoinTask, LeafDepth
    <3>2. QED BY <2>1, <3>1 DEF FailInv, FailedJoins
  <2>10. QED BY <2>4, <2>5, <2>6, <2>7, <2>8, <2>9 DEF ResultInv, SeparateInv
<1>2. QED BY <1>1, FaultInvariant, PTL

\* As long as the program runs, a failure lets no task be scheduled twice, and no two
\* running tasks access the same part of an array or histogram.
THEOREM FailuresKeepOrder == FaultSpec => [](Running => NoTaskTwice /\ DataRaceFree)
<1>1. FaultInv => (Running => NoTaskTwice /\ DataRaceFree)
  BY NothingTwice, NothingRaces DEF FaultInv, RunInv
<1>2. QED BY <1>1, FaultInvariant, PTL
================================================================================
