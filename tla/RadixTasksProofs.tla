--------------------------- MODULE RadixTasksProofs ----------------------------
(***************************************************************************)
(* Proofs about the tasks of the multi-threaded radix join, for every      *)
(* number of threads, bits and passes.  First: type correctness, that the  *)
(* join uses the thread pool as ThreadPool.tla demands and so inherits its *)
(* invariants, and that the output buffers are exclusive and suffice.      *)
(* Then the tree of tasks: a task touches its data only after every task   *)
(* that prepared them, so no two tasks race; every task is scheduled once; *)
(* and, when there is a pass at all, the pool is stopped after the last of *)
(* them, so that the result is complete and the radix join implements the  *)
(* partitioned join.                                                       *)
(***************************************************************************)
EXTENDS RadixTasks, BasicLemmas

--------------------------------------------------------------------------------
(* The constants. *)

LEMMA ThreadCount ==
  /\ thread_count \in Nat \ {0}
  /\ IsFiniteSet(Indices) /\ Cardinality(Indices) = thread_count
<1>1. thread_count \in Nat \ {0}
  BY RadixAssumption, FS_CardinalityType, FS_EmptySet DEF thread_count
<1>2. QED BY <1>1, FS_Interval DEF Indices

LEMMA PartCount ==
  /\ part_count \in Nat \ {0}
  /\ \A k \in Nat : k % part_count \in Parts
<1>1. part_count \in Nat \ {0}
  BY PowerOfTwo, RadixAssumption DEF part_count
<1>2. QED BY <1>1 DEF Parts

LEMMA LeafDepthType == LeafDepth \in Nat \ {0}
BY RadixAssumption DEF LeafDepth

--------------------------------------------------------------------------------
(* The tasks. *)

\* A path of length n is a sequence of radix values, and it can be extended.
LEMMA PathProperties ==
  ASSUME NEW n \in Nat, NEW p \in Paths(n), NEW k \in Parts
  PROVE  /\ p \in Seq(Parts) /\ Len(p) = n
         /\ Append(p, k) \in Paths(n + 1) /\ Len(Append(p, k)) = n + 1
<1>1. p \in Seq(Parts) /\ Len(p) = n
  BY DEF Paths
<1>2. Append(p, k) \in Seq(Parts) /\ Len(Append(p, k)) = n + 1
  BY <1>1, AppendProperties
<1>3. QED BY <1>1, <1>2, LenProperties DEF Paths

LEMMA FirstPath ==
  ASSUME NEW k \in Parts
  PROVE  <<k>> \in Paths(1) /\ Len(<<k>>) = 1
BY DEF Paths

\* Whatever is scheduled for a part is one of the tasks.
LEMMA NextLevelType ==
  ASSUME NEW n \in 1 .. LeafDepth, NEW p \in Paths(n), Len(p) = n
  PROVE  NextLevel(p) \in AllTasks
<1>1. CASE n < LeafDepth
  <2>1. n + 1 \in 2 .. LeafDepth /\ (n + 1) - 1 = n
    BY <1>1, LeafDepthType
  <2>2. Subtask("partition", p) \in {Subtask(op, q) : op \in Ops, q \in Paths((n + 1) - 1)}
    BY <2>1 DEF Ops
  <2>3. Subtask("partition", p) \in SubTasks
    BY <2>1, <2>2 DEF SubTasks
  <2>4. QED BY <1>1, <2>3 DEF NextLevel, AllTasks
<1>2. CASE n = LeafDepth
  BY <1>2, LeafDepthType DEF NextLevel, JoinTasks, Leaves, AllTasks
<1>3. QED BY <1>1, <1>2, LeafDepthType

LEMMA RoundType ==
  ASSUME NEW r \in {"partition", "scatter", "leaves"}, NEW i \in 1 .. Len(Round(r))
  PROVE  Round(r)[i] \in AllTasks
<1>1. CASE r = "leaves"
  <2>1. Len(Round(r)) = part_count
    BY <1>1, PartCount DEF Round
  <2>2. i - 1 \in Parts /\ Round(r)[i] = NextLevel(<<i - 1>>)
    BY <1>1, <2>1, PartCount DEF Round, Parts
  <2>3. 1 \in 1 .. LeafDepth
    BY LeafDepthType
  <2>4. QED BY <2>2, <2>3, FirstPath, NextLevelType
<1>2. CASE r # "leaves"
  <2>1. Len(Round(r)) = thread_count
    BY <1>2, ThreadCount DEF Round
  <2>2. i - 1 \in Indices /\ Round(r)[i] = Chunk(r, i - 1) /\ r \in Ops
    BY <1>2, <2>1, ThreadCount DEF Round, Indices, Ops
  <2>3. QED BY <2>2 DEF ChunkTasks, AllTasks
<1>3. QED BY <1>1, <1>2

\* A task that schedules others is a subtask, and they are tasks.
LEMMA ChildType ==
  ASSUME NEW t \in AllTasks, ChildCount(t) # 0, NEW k \in Nat
  PROVE  Child(t, k) \in AllTasks
<1>1. t \notin JoinTasks /\ t \notin ChunkTasks
  BY DEF ChildCount, JoinTasks, JoinTask, ChunkTasks, Chunk
<1>2. PICK d \in 2 .. LeafDepth : t \in {Subtask(op, p) : op \in Ops, p \in Paths(d - 1)}
  BY <1>1 DEF AllTasks, SubTasks
<1>3. PICK op \in Ops, p \in Paths(d - 1) : t = Subtask(op, p)
  BY <1>2
<1>4. d - 1 \in Nat /\ (d - 1) + 1 = d /\ t.op = op /\ t.of = p
  BY <1>3, LeafDepthType DEF Subtask
<1>5. CASE op = "partition"
  <2>1. Subtask("scatter", p) \in {Subtask(o, q) : o \in Ops, q \in Paths(d - 1)}
    BY DEF Ops
  <2>2. QED BY <1>4, <1>5, <2>1 DEF Child, SubTasks, AllTasks
<1>6. CASE op # "partition"
  <2>1. (k + 1) % part_count \in Parts
    BY PartCount
  <2>2. /\ Append(p, (k + 1) % part_count) \in Paths(d)
        /\ Len(Append(p, (k + 1) % part_count)) = d
    BY <1>4, <2>1, PathProperties
  <2>3. d \in 1 .. LeafDepth
    BY LeafDepthType
  <2>4. QED BY <1>4, <1>6, <2>2, <2>3, NextLevelType DEF Child
<1>7. QED BY <1>5, <1>6

LEMMA ChildCountType ==
  ASSUME NEW t
  PROVE  ChildCount(t) \in 0 .. part_count
BY PartCount DEF ChildCount

--------------------------------------------------------------------------------
(* The thread pool inside the radix join. *)

\* The theorems of ThreadPoolProofs, about this pool.
PP == INSTANCE ThreadPoolProofs WITH
  Clients <- {main}, Owner <- main, Tasks <- AllTasks

LEMMA PoolConstants == PP!PoolAssumption
BY RadixAssumption, DataAssumption DEF PP!PoolAssumption, PP!IsFiniteSet, IsFiniteSet

\* Both instances of ThreadPool have the same actions.
LEMMA SameActions ==
  /\ Pool!Init <=> PP!Init
  /\ \A w \in Workers :
       /\ Pool!Take(w) <=> PP!Take(w)
       /\ Pool!Wait(w) <=> PP!Wait(w)
       /\ Pool!Exit(w) <=> PP!Exit(w)
       /\ Pool!SpuriousWake(w) <=> PP!SpuriousWake(w)
       /\ Pool!Return(w) <=> PP!Return(w)
  /\ \A th \in Workers \cup {main}, t \in AllTasks :
       /\ Pool!Enqueue(th, t) <=> PP!Enqueue(th, t)
       /\ Pool!Refuse(th, t) <=> PP!Refuse(th, t)
  /\ \A th \in Workers \cup {main} : Pool!NotifyOne(th) <=> PP!NotifyOne(th)
  /\ Pool!FinishStop <=> PP!FinishStop
  /\ Pool!FinishNotifyAll <=> PP!FinishNotifyAll
  /\ Pool!FinishJoin <=> PP!FinishJoin
  /\ Pool!Terminated <=> PP!Terminated
<1>1. Pool!Init <=> PP!Init
  BY DEF Pool!Init, PP!Init
<1>2. ASSUME NEW w \in Workers
      PROVE  /\ Pool!Take(w) <=> PP!Take(w)
             /\ Pool!Wait(w) <=> PP!Wait(w)
             /\ Pool!Exit(w) <=> PP!Exit(w)
             /\ Pool!SpuriousWake(w) <=> PP!SpuriousWake(w)
             /\ Pool!Return(w) <=> PP!Return(w)
  BY DEF Pool!Take, PP!Take, Pool!Wait, PP!Wait, Pool!Exit, PP!Exit, Pool!SpuriousWake,
         PP!SpuriousWake, Pool!Return, PP!Return
<1>3. ASSUME NEW th \in Workers \cup {main}, NEW t \in AllTasks
      PROVE  /\ Pool!Enqueue(th, t) <=> PP!Enqueue(th, t)
             /\ Pool!Refuse(th, t) <=> PP!Refuse(th, t)
  BY DEF Pool!Enqueue, PP!Enqueue, Pool!Refuse, PP!Refuse, Pool!MayEnqueue, PP!MayEnqueue
<1>4. ASSUME NEW th \in Workers \cup {main}
      PROVE  Pool!NotifyOne(th) <=> PP!NotifyOne(th)
  BY DEF Pool!NotifyOne, PP!NotifyOne, Pool!At, PP!At
<1>5. /\ Pool!FinishStop <=> PP!FinishStop
      /\ Pool!FinishNotifyAll <=> PP!FinishNotifyAll
      /\ Pool!FinishJoin <=> PP!FinishJoin
      /\ Pool!Terminated <=> PP!Terminated
  BY DEF Pool!FinishStop, PP!FinishStop, Pool!FinishNotifyAll, PP!FinishNotifyAll,
         Pool!FinishJoin, PP!FinishJoin, Pool!Terminated, PP!Terminated, Pool!poolVars,
         PP!poolVars
<1>6. QED BY <1>1, <1>2, <1>3, <1>4, <1>5

LEMMA SameNext == [Pool!Next]_(Pool!poolVars) <=> [PP!Next]_(PP!poolVars)
BY SameActions DEF Pool!Next, PP!Next, Pool!Threads, PP!Threads, Pool!poolVars, PP!poolVars

LEMMA SameSpec == Pool!Spec <=> PP!Spec
BY SameActions, SameNext, PTL DEF Pool!Spec, PP!Spec

--------------------------------------------------------------------------------
(* The inductive invariant: types, where the workers are, the buffers. *)

JoinPcs == {"count", "signal", "notify", "grab", "moveout", "join", "release"}

\* A worker is in a task exactly while the pool has it running one; in the code of
\* a join task it runs a join task; while it schedules, not all is scheduled; and
\* while it holds a buffer, it knows which.
ControlInv ==
  \A w \in Workers :
    /\ wpc[w] = "running" <=> tpc[w] # "idle"
    /\ tpc[w] \in JoinPcs => task[w] \in JoinTasks
    /\ tpc[w] = "work" => kids[w] = 0
    /\ tpc[w] = "spawn" => kids[w] < ChildCount(task[w])
    /\ w \in Holders => index[w] \in Indices

BaseInv ==
  /\ TypeOK
  /\ PP!TypeInv
  /\ ControlInv

\* BuffersExclusive for the buffers that are still in use, which are not all of them
\* in RadixFaults.tla.
BuffersAre(avail) ==
  /\ \A i, j \in DOMAIN free_index : free_index[i] = free_index[j] => i = j
  /\ \A w \in Holders : index[w] \in avail \ Unused
  /\ \A v, w \in Holders : index[v] = index[w] => v = w
  /\ avail = Unused \cup {index[w] : w \in Holders}

BuffersStay == \A avail \in SUBSET Indices : BuffersAre(avail) => BuffersAre(avail)'

IInv ==
  /\ BaseInv
  /\ BuffersExclusive

\* The steps of the join that do not pop from an empty stack.
SoundNext ==
  \/ MainStep
  \/ MainSpuriousWake
  \/ \E w \in Workers :
       \/ WorkerTake(w) \/ WorkerSleep(w) \/ WorkerExit(w)
       \/ TaskStep(w) /\ (tpc[w] = "grab" => free_index # <<>>)
  \/ \E th \in Workers \cup {main} : NotifyOne(th)
  \/ UNCHANGED vars

\* The types of the variables that are not the pool's.
OwnTypes ==
  /\ mpc \in {"partition", "scatter", "leaves", "check", "sleep", "finish", "returned"}
  /\ round \in Nat
  /\ tpc \in [Workers -> {"idle", "work", "spawn", "count", "signal", "notify",
                          "grab", "moveout", "join", "release", "end"}]
  /\ kids \in [Workers -> 0 .. part_count]
  /\ filled \subseteq Leaves
  /\ join_count \in Nat
  /\ finished \in BOOLEAN
  /\ free_index \in Seq(Indices)
  /\ index \in [Workers -> Indices \cup {NoIndex}]
  /\ results \in [Indices -> SUBSET Leaves]
  /\ output \in [Workers -> SUBSET Leaves]

LEMMA TypeParts == TypeOK <=> Pool!TypeOK /\ OwnTypes
BY DEF TypeOK, OwnTypes

\* The pool's types are the same in both instances, in this state and the next.
LEMMA SameTypes ==
  /\ PP!TypeInv => Pool!TypeOK
  /\ PP!TypeInv' => Pool!TypeOK'
BY DEF PP!TypeInv, PP!TypeOK, Pool!TypeOK, Pool!Threads, PP!Threads

\* Every step of the join is a step of the pool, or leaves the pool alone.
LEMMA PoolStep ==
  ASSUME BaseInv, [Next]_vars
  PROVE  [PP!Next]_(PP!poolVars)
<1>1. ASSUME MainEnqueue
      PROVE  PP!Next
  <2>1. /\ mpc \in {"partition", "scatter", "leaves"}
        /\ round + 1 \in 1 .. Len(Round(mpc))
    <3>1. Len(Round(mpc)) \in Nat
      BY PartCount, ThreadCount DEF Round
    <3>2. QED BY <1>1, <3>1 DEF MainEnqueue, BaseInv, TypeOK
  <2>2. Round(mpc)[round + 1] \in AllTasks
    BY <2>1, RoundType
  <2>3. PP!Enqueue(main, Round(mpc)[round + 1])
    BY <1>1, <2>2, SameActions DEF MainEnqueue
  <2>4. QED BY <2>2, <2>3 DEF PP!Next, PP!Threads
<1>2. ASSUME MainBarrier \/ MainAwait \/ MainCheck \/ MainSpuriousWake
      PROVE  UNCHANGED PP!poolVars
  BY <1>2 DEF MainBarrier, MainAwait, MainCheck, MainSpuriousWake, poolVars, PP!poolVars
<1>3. ASSUME MainFinish \/ MainReturn
      PROVE  PP!Next
  BY <1>3, SameActions DEF MainFinish, MainReturn, PP!Next
<1>4. ASSUME NEW w \in Workers, WorkerTake(w) \/ WorkerSleep(w) \/ WorkerExit(w) \/ WorkerReturn(w)
      PROVE  PP!Next
  BY <1>4, SameActions
     DEF WorkerTake, WorkerSleep, WorkerExit, WorkerReturn, PP!Next
<1>5. ASSUME NEW w \in Workers, Spawn(w) \/ SpawnThrows(w)
      PROVE  PP!Next
  <2>1. tpc[w] = "spawn" /\ wpc[w] = "running"
    BY <1>5 DEF Spawn, SpawnThrows, BaseInv, ControlInv
  <2>2. task[w] \in AllTasks /\ ChildCount(task[w]) # 0 /\ kids[w] \in Nat
    <3>1. task[w] \in AllTasks
      BY <2>1 DEF BaseInv, PP!TypeInv
    <3>2. kids[w] \in Nat
      BY PartCount DEF BaseInv, TypeOK
    <3>3. kids[w] < ChildCount(task[w])
      BY <2>1 DEF BaseInv, ControlInv
    <3>4. QED BY <3>1, <3>2, <3>3
  <2>3. Child(task[w], kids[w]) \in AllTasks
    BY <2>2, ChildType
  <2>4. PP!Enqueue(w, Child(task[w], kids[w])) \/ PP!Refuse(w, Child(task[w], kids[w]))
    BY <1>5, <2>3, SameActions DEF Spawn, SpawnThrows
  <2>5. QED BY <2>3, <2>4 DEF PP!Next, PP!Threads
<1>6. ASSUME NEW w \in Workers,
             \/ Work(w) \/ Count(w) \/ Signal(w) \/ NotifyMain(w)
             \/ Grab(w) \/ MoveOut(w) \/ MoveIn(w) \/ Release(w)
      PROVE  UNCHANGED PP!poolVars
  BY <1>6 DEF Work, Count, Signal, NotifyMain, Grab, MoveOut, MoveIn, Release, poolVars,
              PP!poolVars
<1>7. ASSUME NEW th \in Workers \cup {main}, NotifyOne(th)
      PROVE  PP!Next
  BY <1>7, SameActions DEF NotifyOne, PP!Next, PP!Threads
<1>8. ASSUME UNCHANGED vars
      PROVE  UNCHANGED PP!poolVars
  BY <1>8 DEF vars, poolVars, PP!poolVars
<1>9. QED
  BY <1>1, <1>2, <1>3, <1>4, <1>5, <1>6, <1>7, <1>8
     DEF Next, MainStep, TaskStep, Terminated

\* A join task that asks for a buffer is not among those that hold one, so there are
\* fewer of these than buffers, and the stack is not empty.
LEMMA BufferLeft ==
  ASSUME OwnTypes, BuffersExclusive, NEW w \in Workers, tpc[w] = "grab"
  PROVE  free_index # <<>>
<1> SUFFICES ASSUME free_index = <<>>
             PROVE  FALSE
  OBVIOUS
<1> DEFINE f == [v \in Holders |-> index[v]]
<1>1. Unused = {}
  BY DEF Unused, Range
<1>2. f \in Surjection(Holders, Indices)
  BY <1>1 DEF Surjection, BuffersExclusive
<1>3. Holders \in SUBSET Workers /\ Holders # Workers
  BY DEF Holders
<1>4. /\ IsFiniteSet(Holders) /\ Cardinality(Holders) <= thread_count
      /\ Cardinality(Holders) # thread_count
  BY <1>3, FS_Subset, RadixAssumption DEF thread_count
<1>5. Cardinality(Indices) <= Cardinality(Holders)
  <2> HIDE DEF f
  <2>1. QED BY <1>2, <1>4, FS_Surjection
<1>6. QED BY <1>4, <1>5, ThreadCount, FS_CardinalityType

LEMMA TaskKinds ==
  /\ \A t \in AllTasks : t.op = "join" => t \in JoinTasks
  /\ \A t \in JoinTasks : t.of \in Leaves
<1>1. ASSUME NEW t \in AllTasks, t.op = "join"
      PROVE  t \in JoinTasks
  <2>1. t \notin ChunkTasks
    BY <1>1 DEF ChunkTasks, Chunk, Ops
  <2>2. t \notin SubTasks
    BY <1>1 DEF SubTasks, Subtask, Ops
  <2>3. QED BY <2>1, <2>2 DEF AllTasks
<1>2. ASSUME NEW t \in JoinTasks
      PROVE  t.of \in Leaves
  BY DEF JoinTasks, JoinTask
<1>3. QED BY <1>1, <1>2

LEMMA IInvInit == Init => IInv
<1> SUFFICES ASSUME Init
             PROVE  IInv
  OBVIOUS
<1>1. PP!TypeInv
  BY SameActions, PoolConstants, PP!TypeInvInit DEF Init
<1>2. /\ free_index \in Seq(Indices) /\ DOMAIN free_index = 1 .. thread_count
      /\ \A i \in 1 .. thread_count : free_index[i] = i - 1
  BY ThreadCount DEF Init, Indices
<1>3. OwnTypes
  <2>1. filled \subseteq Leaves
    BY DataAssumption DEF Init
  <2>2. kids \in [Workers -> 0 .. part_count]
    BY PartCount DEF Init
  <2>3. results \in [Indices -> SUBSET Leaves] /\ output \in [Workers -> SUBSET Leaves]
    BY DEF Init
  <2>4. index \in [Workers -> Indices \cup {NoIndex}]
    BY DEF Init
  <2>5. /\ mpc = "partition" /\ round = 0 /\ tpc = [w \in Workers |-> "idle"]
        /\ join_count = 0 /\ finished = FALSE
    BY DEF Init
  <2>6. QED BY <1>2, <2>1, <2>2, <2>3, <2>4, <2>5 DEF OwnTypes
<1>4. TypeOK
  BY <1>1, <1>3, SameTypes, TypeParts
<1>5. ControlInv
  BY DEF Init, ControlInv, JoinPcs, Pool!Init, Holders
<1>6. BuffersExclusive
  <2>1. Holders = {}
    BY DEF Init, Holders
  <2>2. Unused = Indices
    <3>1. \A k \in Indices : k + 1 \in 1 .. thread_count /\ free_index[k + 1] = k
      BY <1>2, ThreadCount DEF Indices
    <3>2. \A i \in 1 .. thread_count : free_index[i] \in Indices
      BY <1>2, ThreadCount DEF Indices
    <3>3. QED BY <1>2, <3>1, <3>2 DEF Unused, Range
  <2>3. \A i, j \in DOMAIN free_index : free_index[i] = free_index[j] => i = j
    BY <1>2, ThreadCount
  <2>4. QED BY <2>1, <2>2, <2>3 DEF BuffersExclusive
<1>7. QED BY <1>1, <1>4, <1>5, <1>6 DEF IInv, BaseInv

\* A step that leaves the tasks of the workers alone, as all steps of main do.
LEMMA TasksAlone ==
  ASSUME BaseInv, UNCHANGED <<taskVars, task, free_index>>,
         \A w \in Workers : wpc'[w] = "running" <=> wpc[w] = "running"
  PROVE  ControlInv' /\ BuffersStay
<1>1. UNCHANGED <<tpc, kids, index, output>>
  BY DEF taskVars
<1>2. Holders' = Holders /\ Unused' = Unused
  BY <1>1 DEF Holders, Unused
<1>3. ControlInv'
  BY <1>1, <1>2 DEF BaseInv, ControlInv
<1>4. BuffersStay
  BY <1>1, <1>2 DEF BuffersStay, BuffersAre
<1>5. QED BY <1>3, <1>4

\* A step of one worker that neither takes nor gives back a buffer.
LEMMA BuffersAlone ==
  ASSUME BaseInv, NEW w \in Workers, UNCHANGED <<free_index, index>>,
         \A v \in Workers \ {w} : tpc'[v] = tpc[v],
         w \in Holders <=> tpc'[w] \in {"moveout", "join", "release"}
  PROVE  BuffersStay
<1>1. Holders' = Holders /\ Unused' = Unused
  BY DEF Holders, Unused
<1>2. QED BY <1>1 DEF BuffersStay, BuffersAre

\* Steps of main, and those steps of the workers' loop that start no task.
LEMMA LoopStep ==
  ASSUME BaseInv,
         \/ MainStep \/ MainSpuriousWake \/ UNCHANGED vars
         \/ \E w \in Workers : WorkerSleep(w) \/ WorkerExit(w)
         \/ \E th \in Workers \cup {main} : NotifyOne(th)
  PROVE  OwnTypes' /\ ControlInv' /\ BuffersStay
<1> USE DEF mainVars, taskVars, stateVars, poolVars
<1>1. wpc \in [Workers -> {"check", "waiting", "running", "exited"}]
  BY DEF BaseInv, TypeOK, Pool!TypeOK
<1>2. ASSUME MainStep \/ MainSpuriousWake \/ UNCHANGED vars
      PROVE  /\ UNCHANGED <<taskVars, stateVars, filled, task>>
             /\ mpc' \in {"partition", "scatter", "leaves", "check", "sleep", "finish",
                          "returned"}
             /\ round' \in Nat
             /\ \A w \in Workers : wpc'[w] = "running" <=> wpc[w] = "running"
  <2> USE DEF BaseInv, TypeOK
  <2>1. CASE MainEnqueue
    BY <2>1 DEF MainEnqueue, Pool!Enqueue
  <2>2. CASE MainBarrier \/ MainAwait
    BY <2>2 DEF MainBarrier, MainAwait
  <2>3. CASE MainCheck \/ MainSpuriousWake \/ UNCHANGED vars
    BY <2>3 DEF MainCheck, MainSpuriousWake, vars
  <2>4. CASE MainFinish \/ MainReturn
    BY <1>1, <2>4
       DEF MainFinish, MainReturn, Pool!FinishStop, Pool!FinishNotifyAll, Pool!FinishJoin
  <2>5. QED BY <1>2, <2>1, <2>2, <2>3, <2>4 DEF MainStep
<1>3. ASSUME NEW w \in Workers, WorkerSleep(w) \/ WorkerExit(w)
      PROVE  /\ UNCHANGED <<mainVars, taskVars, stateVars, filled, task>>
             /\ \A v \in Workers : wpc'[v] = "running" <=> wpc[v] = "running"
  BY <1>1, <1>3 DEF WorkerSleep, WorkerExit, Pool!Wait, Pool!SpuriousWake, Pool!Exit
<1>4. ASSUME NEW th \in Workers \cup {main}, NotifyOne(th)
      PROVE  /\ UNCHANGED <<mainVars, taskVars, stateVars, filled, task>>
             /\ \A v \in Workers : wpc'[v] = "running" <=> wpc[v] = "running"
  BY <1>1, <1>4 DEF NotifyOne, Pool!NotifyOne, Pool!At
<1>5. /\ UNCHANGED <<taskVars, stateVars, filled, task>>
      /\ mpc' \in {"partition", "scatter", "leaves", "check", "sleep", "finish", "returned"}
      /\ round' \in Nat
      /\ \A w \in Workers : wpc'[w] = "running" <=> wpc[w] = "running"
  <2>1. mpc \in {"partition", "scatter", "leaves", "check", "sleep", "finish", "returned"}
        /\ round \in Nat
    BY DEF BaseInv, TypeOK
  <2>2. QED BY <1>2, <1>3, <1>4, <2>1
<1>6. OwnTypes
  BY TypeParts DEF BaseInv
<1>7. OwnTypes'
  BY <1>5, <1>6 DEF OwnTypes
<1>8. QED BY <1>5, <1>7, TasksAlone

\* A worker takes a task, and returns from it.
LEMMA TakeStep ==
  ASSUME BaseInv, NEW w \in Workers, WorkerTake(w)
  PROVE  OwnTypes' /\ ControlInv' /\ BuffersStay
<1> USE DEF mainVars, stateVars
<1>1. /\ tpc[w] = "idle" /\ Head(tasks) \in AllTasks
      /\ Head(tasks).op = "join" => Head(tasks) \in JoinTasks
  <2>1. wpc[w] = "check" /\ tasks # <<>> /\ tasks \in Seq(AllTasks)
    BY DEF WorkerTake, Pool!Take, BaseInv, TypeOK, Pool!TypeOK
  <2>2. Head(tasks) \in AllTasks
    BY <2>1, HeadTailProperties
  <2>3. tpc[w] = "idle"
    BY <2>1 DEF BaseInv, ControlInv
  <2>4. QED BY <2>2, <2>3, TaskKinds
<1>2. /\ tpc' = [tpc EXCEPT ![w] = IF Head(tasks).op = "join" THEN "count" ELSE "work"]
      /\ kids' = [kids EXCEPT ![w] = 0]
      /\ task' = [task EXCEPT ![w] = Head(tasks)]
      /\ wpc' = [wpc EXCEPT ![w] = "running"]
      /\ UNCHANGED <<mpc, round, index, output, join_count, finished, free_index, results,
                     filled>>
  BY DEF WorkerTake, Pool!Take
<1>3. /\ OwnTypes
      /\ wpc \in [Workers -> {"check", "waiting", "running", "exited"}]
      /\ task \in [Workers -> AllTasks \cup {NoTask}]
  BY TypeParts DEF BaseInv, TypeOK, Pool!TypeOK
<1>4. OwnTypes'
  <2>1. kids' \in [Workers -> 0 .. part_count]
    <3>1. 0 \in 0 .. part_count
      BY PartCount
    <3>2. QED BY <1>2, <1>3, <3>1 DEF OwnTypes
  <2>2. QED BY <1>2, <1>3, <2>1 DEF OwnTypes
<1>5. ControlInv'
  BY <1>1, <1>2, <1>3 DEF BaseInv, ControlInv, OwnTypes, JoinPcs, Holders
<1>6. BuffersStay
  BY <1>1, <1>2, <1>3, BuffersAlone DEF OwnTypes, Holders
<1>7. QED BY <1>4, <1>5, <1>6

LEMMA ReturnStep ==
  ASSUME BaseInv, NEW w \in Workers, WorkerReturn(w)
  PROVE  OwnTypes' /\ ControlInv' /\ BuffersStay
<1> USE DEF mainVars, stateVars
<1>1. /\ tpc[w] = "end"
      /\ tpc' = [tpc EXCEPT ![w] = "idle"]
      /\ task' = [task EXCEPT ![w] = NoTask]
      /\ wpc' = [wpc EXCEPT ![w] = "check"]
      /\ UNCHANGED <<mpc, round, kids, index, output, join_count, finished, free_index,
                     results, filled>>
  BY DEF WorkerReturn, Pool!Return
<1>2. /\ OwnTypes
      /\ wpc \in [Workers -> {"check", "waiting", "running", "exited"}]
      /\ task \in [Workers -> AllTasks \cup {NoTask}]
  BY TypeParts DEF BaseInv, TypeOK, Pool!TypeOK
<1>3. OwnTypes'
  BY <1>1, <1>2 DEF OwnTypes
<1>4. ControlInv'
  BY <1>1, <1>2 DEF BaseInv, ControlInv, OwnTypes, JoinPcs, Holders
<1>5. BuffersStay
  BY <1>1, <1>2, BuffersAlone DEF OwnTypes, Holders
<1>6. QED BY <1>3, <1>4, <1>5

\* The steps of partition and scatter tasks.
LEMMA WorkStep ==
  ASSUME BaseInv, NEW w \in Workers, Work(w)
  PROVE  OwnTypes' /\ ControlInv' /\ BuffersStay
<1> USE DEF mainVars, stateVars, poolVars
<1>1. /\ tpc[w] = "work"
      /\ tpc' = [tpc EXCEPT ![w] = IF ChildCount(task[w]) = 0 THEN "end" ELSE "spawn"]
      /\ UNCHANGED <<wpc, task, mpc, round, kids, index, output, join_count, finished,
                     free_index, results, filled>>
  BY DEF Work
<1>2. OwnTypes
  BY TypeParts DEF BaseInv
<1>3. OwnTypes'
  BY <1>1, <1>2 DEF OwnTypes
<1>4. ControlInv'
  <2>1. kids[w] = 0 /\ ChildCount(task[w]) \in Nat
    BY <1>1, ChildCountType, PartCount DEF BaseInv, ControlInv
  <2>2. QED BY <1>1, <1>2, <2>1 DEF BaseInv, ControlInv, OwnTypes, JoinPcs, Holders
<1>5. BuffersStay
  BY <1>1, <1>2, BuffersAlone DEF OwnTypes, Holders
<1>6. QED BY <1>3, <1>4, <1>5

LEMMA SpawnStep ==
  ASSUME BaseInv, NEW w \in Workers, Spawn(w) \/ SpawnThrows(w)
  PROVE  OwnTypes' /\ ControlInv' /\ BuffersStay
<1> USE DEF mainVars, stateVars
<1>1. /\ tpc[w] = "spawn"
      /\ \/ /\ kids' = [kids EXCEPT ![w] = kids[w] + 1]
            /\ tpc' = [tpc EXCEPT ![w] = IF kids'[w] = ChildCount(task[w])
                                        THEN "end" ELSE "spawn"]
         \/ kids' = kids /\ tpc' = [tpc EXCEPT ![w] = "end"]
      /\ UNCHANGED <<wpc, task, mpc, round, index, output, join_count, finished,
                     free_index, results, filled>>
  BY DEF Spawn, SpawnThrows, Pool!Enqueue, Pool!Refuse
<1>2. OwnTypes
  BY TypeParts DEF BaseInv
<1>3. /\ kids[w] \in Nat /\ kids[w] < ChildCount(task[w])
      /\ ChildCount(task[w]) \in 0 .. part_count /\ part_count \in Nat
  BY <1>1, <1>2, ChildCountType, PartCount DEF BaseInv, ControlInv, OwnTypes
<1>4. OwnTypes'
  <2>1. kids' \in [Workers -> 0 .. part_count]
    <3>1. kids[w] + 1 \in 0 .. part_count
      BY <1>3
    <3>2. QED BY <1>1, <1>2, <3>1 DEF OwnTypes
  <2>2. QED BY <1>1, <1>2, <2>1 DEF OwnTypes
<1>5. ControlInv'
  <2>1. kids'[w] = kids[w] + 1 /\ tpc'[w] = "spawn" => kids'[w] < ChildCount(task[w])
    BY <1>1, <1>2, <1>3 DEF OwnTypes
  <2>2. \A v \in Workers \ {w} : tpc'[v] = tpc[v] /\ kids'[v] = kids[v]
    BY <1>1, <1>2 DEF OwnTypes
  <2>3. tpc'[w] \in {"spawn", "end"} /\ (tpc'[w] = "spawn" => kids'[w] = kids[w] + 1)
    BY <1>1, <1>2 DEF OwnTypes
  <2>4. QED BY <1>1, <2>1, <2>2, <2>3 DEF BaseInv, ControlInv, JoinPcs, Holders
<1>6. BuffersStay
  <2>1. /\ \A v \in Workers \ {w} : tpc'[v] = tpc[v]
        /\ tpc'[w] \in {"spawn", "end"}
    BY <1>1, <1>2 DEF OwnTypes
  <2>2. QED BY <1>1, <2>1, BuffersAlone DEF Holders
<1>7. QED BY <1>4, <1>5, <1>6

\* The steps of join tasks.  All but Grab and Release leave the buffers where they
\* are.
LEMMA CountStep ==
  ASSUME BaseInv, NEW w \in Workers, Count(w) \/ Signal(w) \/ NotifyMain(w)
  PROVE  OwnTypes' /\ ControlInv' /\ BuffersStay
<1> USE DEF mainVars, stateVars, poolVars
<1>1. PICK next \in {"signal", "notify", "grab", "end"} :
        /\ tpc[w] \in {"count", "signal", "notify"}
        /\ tpc' = [tpc EXCEPT ![w] = next]
        /\ join_count' \in {join_count, join_count + 1} /\ finished' \in {finished, TRUE}
        /\ mpc' \in {mpc, "check"}
        /\ UNCHANGED <<wpc, task, round, kids, index, output, free_index, results, filled>>
  <2>1. JoinOrSkip(w) \in {"signal", "notify", "grab", "end"}
    BY DEF JoinOrSkip
  <2>2. CASE Count(w)
    BY <2>1, <2>2 DEF Count
  <2>3. CASE Signal(w)
    BY <2>3 DEF Signal
  <2>4. CASE NotifyMain(w)
    BY <2>1, <2>4 DEF NotifyMain
  <2>5. QED BY <2>2, <2>3, <2>4
<1>2. OwnTypes
  BY TypeParts DEF BaseInv
<1>3. OwnTypes'
  <2>1. join_count' \in Nat
    BY <1>1, <1>2, SMT DEF OwnTypes
  <2>2. finished' \in BOOLEAN
    <3>1. finished \in BOOLEAN /\ finished' \in {finished, TRUE}
      BY <1>1, <1>2 DEF OwnTypes
    <3>2. QED BY <3>1, Zenon
  <2>3. mpc' \in {"partition", "scatter", "leaves", "check", "sleep", "finish", "returned"}
    BY <1>1, <1>2 DEF OwnTypes
  <2>4. tpc' \in [Workers -> {"idle", "work", "spawn", "count", "signal", "notify",
                             "grab", "moveout", "join", "release", "end"}]
    BY <1>1, <1>2 DEF OwnTypes
  <2>5. QED BY <1>1, <1>2, <2>1, <2>2, <2>3, <2>4 DEF OwnTypes
<1>4. ControlInv'
  BY <1>1, <1>2 DEF BaseInv, ControlInv, OwnTypes, JoinPcs, Holders
<1>5. BuffersStay
  BY <1>1, <1>2, BuffersAlone DEF OwnTypes, Holders
<1>6. QED BY <1>3, <1>4, <1>5

LEMMA MoveStep ==
  ASSUME BaseInv, NEW w \in Workers, MoveOut(w) \/ MoveIn(w)
  PROVE  OwnTypes' /\ ControlInv' /\ BuffersStay
<1> USE DEF mainVars, poolVars
<1>1. PICK next \in {"join", "release"} :
        /\ tpc[w] \in {"moveout", "join"}
        /\ tpc' = [tpc EXCEPT ![w] = next]
        /\ UNCHANGED <<wpc, task, mpc, round, kids, index, join_count, finished, free_index,
                       filled>>
  BY DEF MoveOut, MoveIn
<1>2. OwnTypes
  BY TypeParts DEF BaseInv
<1>3. index[w] \in Indices /\ task[w].of \in Leaves
  BY <1>1, TaskKinds DEF BaseInv, ControlInv, JoinPcs, Holders, BuffersExclusive, Holders
<1>4. results' \in [Indices -> SUBSET Leaves] /\ output' \in [Workers -> SUBSET Leaves]
  <2>1. CASE MoveOut(w)
    BY <1>2, <1>3, <2>1 DEF MoveOut, OwnTypes
  <2>2. CASE MoveIn(w)
    <3>1. output[w] \cup {task[w].of} \in SUBSET Leaves
      BY <1>2, <1>3 DEF OwnTypes
    <3>2. QED BY <1>2, <2>2, <3>1 DEF MoveIn, OwnTypes
  <2>3. QED BY <2>1, <2>2
<1>5. OwnTypes'
  BY <1>1, <1>2, <1>4 DEF OwnTypes
<1>6. ControlInv'
  BY <1>1, <1>2 DEF BaseInv, ControlInv, OwnTypes, JoinPcs, Holders
<1>7. BuffersStay
  BY <1>1, <1>2, BuffersAlone DEF OwnTypes, Holders
<1>8. QED BY <1>5, <1>6, <1>7

LEMMA GrabStep ==
  ASSUME BaseInv, NEW w \in Workers, Grab(w), free_index # <<>>
  PROVE  OwnTypes' /\ ControlInv' /\ BuffersStay
<1> USE DEF mainVars, poolVars
<1> DEFINE top == free_index[Len(free_index)]
<1>1. /\ tpc[w] = "grab"
      /\ tpc' = [tpc EXCEPT ![w] = "moveout"]
      /\ index' = [index EXCEPT ![w] = top]
      /\ free_index' = SubSeq(free_index, 1, Len(free_index) - 1)
      /\ UNCHANGED <<wpc, task, mpc, round, kids, output, join_count, finished, results,
                     filled>>
  BY DEF Grab
<1>2. OwnTypes /\ free_index \in Seq(Indices)
  BY TypeParts DEF BaseInv, OwnTypes
<1>3. top \in Indices
  <2>1. Len(free_index) \in 1 .. Len(free_index)
    BY <1>2, EmptySeq, LenProperties
  <2>2. QED BY <1>2, <2>1, ElementOfSeq
<1>4. free_index' \in Seq(Indices)
  BY <1>1, <1>2, RangeOfFront
<1>5. ASSUME NEW avail \in SUBSET Indices, BuffersAre(avail)
      PROVE  BuffersAre(avail)'
  <2>1. /\ Unused = Unused' \cup {top} /\ top \notin Unused'
        /\ \A i, j \in DOMAIN free_index' : free_index'[i] = free_index'[j] => i = j
    BY <1>1, <1>2, <1>5, RangeOfFront DEF Unused, BuffersAre
  <2> HIDE DEF top
  <2>2. Holders' = Holders \cup {w} /\ w \notin Holders
    BY <1>1, <1>2 DEF Holders, OwnTypes
  <2>3. index'[w] = top /\ \A v \in Holders : index'[v] = index[v] /\ index[v] # top
    BY <1>1, <1>2, <1>5, <2>1, <2>2 DEF OwnTypes, BuffersAre, Holders
  <2>4. \A v \in Holders' : index'[v] \in avail \ Unused'
    BY <1>5, <2>1, <2>2, <2>3 DEF BuffersAre
  <2>5. \A v, u \in Holders' : index'[v] = index'[u] => v = u
    BY <1>5, <2>2, <2>3 DEF BuffersAre
  <2>6. avail = Unused' \cup {index'[v] : v \in Holders'}
    BY <1>5, <2>1, <2>2, <2>3 DEF BuffersAre
  <2>7. QED BY <2>1, <2>4, <2>5, <2>6 DEF BuffersAre
<1> HIDE DEF top
<1>6. OwnTypes'
  BY <1>1, <1>2, <1>3, <1>4 DEF OwnTypes
<1>7. ControlInv'
  BY <1>1, <1>2, <1>3 DEF BaseInv, ControlInv, OwnTypes, JoinPcs, Holders
<1>8. QED BY <1>5, <1>6, <1>7 DEF BuffersStay

LEMMA ReleaseStep ==
  ASSUME BaseInv, NEW w \in Workers, Release(w)
  PROVE  OwnTypes' /\ ControlInv' /\ BuffersStay
<1> USE DEF mainVars, poolVars
<1>1. /\ tpc[w] = "release"
      /\ tpc' = [tpc EXCEPT ![w] = "end"]
      /\ index' = [index EXCEPT ![w] = NoIndex]
      /\ free_index' = Append(free_index, index[w])
      /\ UNCHANGED <<wpc, task, mpc, round, kids, output, join_count, finished, results,
                     filled>>
  BY DEF Release
<1>2. OwnTypes /\ free_index \in Seq(Indices)
  BY TypeParts DEF BaseInv, OwnTypes
<1>3. w \in Holders /\ index[w] \in Indices
  BY <1>1 DEF BaseInv, ControlInv, Holders
<1>4. free_index' \in Seq(Indices)
  BY <1>1, <1>2, <1>3, AppendProperties
<1>5. ASSUME NEW avail \in SUBSET Indices, BuffersAre(avail)
      PROVE  BuffersAre(avail)'
  <2>1. /\ Unused' = Unused \cup {index[w]}
        /\ \A i, j \in DOMAIN free_index' : free_index'[i] = free_index'[j] => i = j
    <3>1. /\ \A i, j \in DOMAIN free_index : free_index[i] = free_index[j] => i = j
          /\ index[w] \notin Range(free_index)
      BY <1>3, <1>5 DEF BuffersAre, Unused
    <3>2. QED BY <1>1, <1>2, <1>3, <3>1, RangeOfAppend DEF Unused
  <2>2. Holders' = Holders \ {w} /\ \A v \in Holders' : index'[v] = index[v]
    BY <1>1, <1>2 DEF Holders, OwnTypes
  <2>3. \A v \in Holders' : index'[v] \in avail \ Unused'
    BY <1>3, <1>5, <2>1, <2>2 DEF BuffersAre
  <2>4. \A v, u \in Holders' : index'[v] = index'[u] => v = u
    BY <1>5, <2>2 DEF BuffersAre
  <2>5. avail = Unused' \cup {index'[v] : v \in Holders'}
    BY <1>3, <1>5, <2>1, <2>2 DEF BuffersAre
  <2>6. QED BY <2>1, <2>3, <2>4, <2>5 DEF BuffersAre
<1>6. OwnTypes'
  BY <1>1, <1>2, <1>4 DEF OwnTypes
<1>7. ControlInv'
  BY <1>1, <1>2 DEF BaseInv, ControlInv, OwnTypes, JoinPcs, Holders
<1>8. QED BY <1>5, <1>6, <1>7 DEF BuffersStay

\* A sound step keeps the types and the workers' places, and the buffers apart.
LEMMA BaseInvNext ==
  ASSUME BaseInv, SoundNext
  PROVE  BaseInv' /\ BuffersStay
<1>1. [Next]_vars
  BY DEF SoundNext, Next
<1>2. OwnTypes' /\ ControlInv' /\ BuffersStay
  <2>1. ASSUME NEW w \in Workers, TaskStep(w), tpc[w] = "grab" => free_index # <<>>
        PROVE  OwnTypes' /\ ControlInv' /\ BuffersStay
    <3>1. Grab(w) => tpc[w] = "grab"
      BY DEF Grab
    <3>2. QED
      BY <2>1, <3>1, ReturnStep, WorkStep, SpawnStep, CountStep, MoveStep, GrabStep,
         ReleaseStep
         DEF TaskStep
  <2>2. QED BY <2>1, LoopStep, TakeStep DEF SoundNext
<1>3. PP!TypeInv'
  BY <1>1, PoolStep, PoolConstants, PP!TypeInvNext DEF BaseInv
<1>4. TypeOK'
  BY <1>2, <1>3, SameTypes DEF TypeOK, OwnTypes
<1>5. QED BY <1>2, <1>3, <1>4 DEF BaseInv

\* As long as all buffers are in use, every step is sound.
LEMMA AllAvailable == BuffersExclusive <=> BuffersAre(Indices)
BY DEF BuffersExclusive, BuffersAre

LEMMA SoundSteps ==
  ASSUME IInv, [Next]_vars
  PROVE  SoundNext
<1>1. \A w \in Workers : tpc[w] = "grab" => free_index # <<>>
  BY BufferLeft, TypeParts DEF IInv, BaseInv
<1>2. QED BY <1>1 DEF Next, SoundNext, Terminated

LEMMA IInvNext == IInv /\ [Next]_vars => IInv'
<1> SUFFICES ASSUME IInv, [Next]_vars
             PROVE  IInv'
  OBVIOUS
<1>1. BaseInv' /\ BuffersStay
  BY SoundSteps, BaseInvNext DEF IInv
<1>2. BuffersAre(Indices)'
  BY <1>1, AllAvailable DEF IInv, BuffersStay
<1>3. BuffersExclusive'
  BY <1>2 DEF BuffersExclusive, BuffersAre
<1>4. QED BY <1>1, <1>3 DEF IInv

LEMMA IInvInvariant == Spec => []IInv
BY IInvInit, IInvNext, PTL DEF Spec

LEMMA BaseInvariant == Spec => []BaseInv
<1>1. IInv => BaseInv
  BY DEF IInv
<1>2. QED BY <1>1, IInvInvariant, PTL

--------------------------------------------------------------------------------
(* The theorems. *)

\* Every variable of the radix join has its type in every reachable state: nobody
\* uses a buffer index that is none, and what is scheduled is one of the tasks.
THEOREM TypeCorrect == Spec => []TypeOK
<1>1. IInv => TypeOK
  BY DEF IInv, BaseInv
<1>2. QED BY <1>1, IInvInvariant, PTL

\* At any time each output buffer is on the stack or in the hands of one join task,
\* for every number of threads and every way their steps interleave.
THEOREM BuffersAreExclusive == Spec => []BuffersExclusive
<1>1. IInv => BuffersExclusive
  BY DEF IInv, BaseInv
<1>2. QED BY <1>1, IInvInvariant, PTL

\* A join task that pops an index from the stack finds one.
THEOREM BufferAlwaysAvailable == Spec => []BufferAvailable
<1>1. IInv => BufferAvailable
  BY BufferLeft, TypeParts DEF IInv, BaseInv, BufferAvailable
<1>2. QED BY <1>1, IInvInvariant, PTL

\* The radix join uses the pool as ThreadPool.tla allows: only main and the workers
\* that run a task enqueue, and main does not while it is in finish.
THEOREM UsesPool == Spec => Pool!Spec
<1>1. Init => PP!Init
  BY SameActions DEF Init
<1>2. IInv /\ [Next]_vars => [PP!Next]_(PP!poolVars)
  BY PoolStep DEF IInv
<1>3. Spec => PP!Spec
  BY <1>1, <1>2, IInvInvariant, PTL DEF Spec, PP!Spec
<1>4. QED BY <1>3, SameSpec

\* So the invariants of the pool hold inside the radix join: none of its tasks is lost
\* or run twice, no wakeup is lost, and pool.finish() drains.
THEOREM PoolInvariants == Spec => [](PP!ExactlyOnce /\ PP!NoLostWakeup /\ PP!FinishDrains)
BY UsesPool, SameSpec, PoolConstants, PP!TasksExactlyOnce, PP!WakeupsSuffice,
   PP!FinishDrainsQueue, PTL

--------------------------------------------------------------------------------
(* Paths and what lies within them. *)

LEMMA PathType ==
  ASSUME NEW n \in Nat, NEW p \in Paths(n)
  PROVE  /\ p \in Seq(Parts) /\ Len(p) = n /\ DOMAIN p = 1 .. n
         /\ \A i \in 1 .. n : p[i] \in Parts
BY DEF Paths

\* A part lies in another one if the other one's path is a prefix of its path.
LEMMA WithinPrefix ==
  ASSUME NEW m \in Nat, NEW n \in Nat, NEW p \in Paths(m), NEW q \in Paths(n)
  PROVE  Within(p, q) <=> n <= m /\ \A i \in 1 .. n : p[i] = q[i]
<1>1. /\ p \in Seq(Parts) /\ Len(p) = m /\ Len(q) = n /\ q \in Seq(Parts)
      /\ \A i \in 1 .. m : p[i] \in Parts
  BY PathType
<1>2. ASSUME n <= m
      PROVE  SubSeq(p, 1, n) = q <=> \A i \in 1 .. n : p[i] = q[i]
  <2> DEFINE s == SubSeq(p, 1, n)
  <2>1. \A i \in 1 .. n : p[i] \in Parts
    BY <1>1, <1>2
  <2>2. /\ s \in Seq(Parts) /\ Len(s) = IF 1 <= n THEN n - 1 + 1 ELSE 0
        /\ \A i \in 1 .. (n - 1 + 1) : s[i] = p[1 + i - 1]
    BY <2>1, SubSeqProperties
  <2> HIDE DEF s
  <2>3. Len(s) = n /\ \A i \in 1 .. n : s[i] = p[i]
    BY <2>2
  <2>4. (\A i \in 1 .. n : s[i] = q[i]) => s = q
    BY <1>1, <2>2, <2>3, SeqEqual
  <2>5. QED BY <2>3, <2>4 DEF s
<1>3. QED BY <1>1, <1>2 DEF Within

LEMMA SamePath ==
  ASSUME NEW n \in Nat, NEW p \in Paths(n), NEW q \in Paths(n)
  PROVE  (\A i \in 1 .. n : p[i] = q[i]) => p = q
BY DEF Paths

\* A path and the path one radix value longer.
LEMMA ExtendedPath ==
  ASSUME NEW n \in Nat, NEW p \in Paths(n), NEW k \in Parts
  PROVE  /\ Append(p, k) \in Paths(n + 1)
         /\ Append(p, k)[n + 1] = k
         /\ \A i \in 1 .. n : Append(p, k)[i] = p[i]
<1>1. p \in Seq(Parts) /\ Len(p) = n
  BY PathType
<1>2. QED BY <1>1, PathProperties, AppendProperties

\* Every part has a leaf in it.
LEMMA LeafWithin ==
  ASSUME NEW n \in 0 .. LeafDepth, NEW p \in Paths(n)
  PROVE  \E q \in Leaves : Within(q, p)
<1> DEFINE q == [i \in 1 .. LeafDepth |-> IF i <= n THEN p[i] ELSE 0]
<1>1. n \in Nat /\ LeafDepth \in Nat
  BY LeafDepthType
<1>2. 0 \in Parts
  BY PartCount DEF Parts
<1>3. q \in Paths(LeafDepth)
  BY <1>1, <1>2, PathType DEF Paths
<1>4. n <= LeafDepth /\ \A i \in 1 .. n : q[i] = p[i]
  BY <1>1
<1> HIDE DEF q
<1>5. QED BY <1>1, <1>3, <1>4, WithinPrefix DEF Leaves

--------------------------------------------------------------------------------
(* The tasks and the order between them. *)

\* A task of depth 1 belongs to a chunk; any other task is given by its path, whose
\* length says what depth it has; the deepest tasks are the join tasks.
LEMMA TaskForm ==
  ASSUME NEW t \in AllTasks
  PROVE  /\ t = [op |-> t.op, depth |-> t.depth, of |-> t.of]
         /\ t.depth \in 1 .. (LeafDepth + 1)
         /\ t.depth = 1 <=> t \in ChunkTasks
         /\ t.depth # 1 => t.of \in Paths(t.depth - 1)
         /\ t.depth = LeafDepth + 1 <=> t \in JoinTasks
         /\ t.op = "join" <=> t \in JoinTasks
         /\ t \notin JoinTasks => t.op \in Ops
<1>1. LeafDepth \in Nat \ {0}
  BY LeafDepthType
<1>2. ASSUME NEW u \in ChunkTasks
      PROVE  u.depth = 1 /\ u.op \in Ops /\ u = [op |-> u.op, depth |-> u.depth, of |-> u.of]
  BY DEF ChunkTasks, Chunk
<1>3. ASSUME NEW u \in SubTasks
      PROVE  /\ u.op \in Ops /\ u.depth \in 2 .. LeafDepth /\ u.of \in Paths(u.depth - 1)
             /\ u = [op |-> u.op, depth |-> u.depth, of |-> u.of]
  <2>1. PICK d \in 2 .. LeafDepth : u \in {Subtask(op, p) : op \in Ops, p \in Paths(d - 1)}
    BY DEF SubTasks
  <2>2. PICK op \in Ops, p \in Paths(d - 1) : u = Subtask(op, p)
    BY <2>1
  <2>3. d - 1 \in Nat
    BY <1>1
  <2>4. Len(p) + 1 = d
    BY <2>3, PathType
  <2>5. QED BY <2>2, <2>4 DEF Subtask
<1>4. ASSUME NEW u \in JoinTasks
      PROVE  /\ u.op = "join" /\ u.depth = LeafDepth + 1 /\ u.of \in Paths(u.depth - 1)
             /\ u = [op |-> u.op, depth |-> u.depth, of |-> u.of]
  BY <1>1 DEF JoinTasks, JoinTask, Leaves
<1>5. CASE t \in ChunkTasks
  BY <1>1, <1>2, <1>4, <1>5 DEF Ops
<1>6. CASE t \in SubTasks
  BY <1>1, <1>2, <1>3, <1>4, <1>6 DEF Ops
<1>7. CASE t \in JoinTasks
  BY <1>1, <1>2, <1>4, <1>7 DEF Ops
<1>8. QED BY <1>5, <1>6, <1>7 DEF AllTasks

\* t is done with the data before u may touch them.
Earlier(t, u) ==
  \/ t.depth < u.depth
  \/ t.depth = u.depth /\ t.op = "partition" /\ u.op = "scatter"

Precedes(t, u) == Earlier(t, u) /\ (t.depth = 1 \/ Within(u.of, t.of))

\* Of two tasks that touch common data, one precedes the other.
LEMMA OverlapOrdered ==
  ASSUME NEW t \in AllTasks, NEW u \in AllTasks, t # u, Overlap(t, u)
  PROVE  Precedes(t, u) \/ Precedes(u, t)
<1> USE LeafDepthType
<1>1. CASE t.depth = 1 \/ u.depth = 1
  <2>1. t.depth # u.depth \/ t.op # u.op
    BY <1>1 DEF Overlap
  <2>2. CASE t.depth # u.depth
    BY <1>1, <2>2, TaskForm DEF Precedes, Earlier
  <2>3. CASE t.depth = u.depth
    <3>1. t.op \in Ops /\ u.op \in Ops /\ t.op # u.op
      <4>1. t \notin JoinTasks /\ u \notin JoinTasks
        BY <1>1, <2>3, TaskForm
      <4>2. QED BY <2>1, <2>3, <4>1, TaskForm
    <3>2. QED BY <1>1, <2>3, <3>1 DEF Precedes, Earlier, Ops
  <2>4. QED BY <2>2, <2>3
<1>2. CASE t.depth # 1 /\ u.depth # 1
  <2>1. SUFFICES ASSUME NEW a \in AllTasks, NEW b \in AllTasks, a # b,
                        a.depth # 1, b.depth # 1, Within(a.of, b.of)
                 PROVE  Precedes(a, b) \/ Precedes(b, a)
    <3>1. Within(t.of, u.of) \/ Within(u.of, t.of)
      BY <1>2 DEF Overlap
    <3>2. QED BY <1>2, <2>1, <3>1
  <2>2. /\ a.depth - 1 \in Nat /\ b.depth - 1 \in Nat /\ a.depth \in Nat /\ b.depth \in Nat
        /\ a.of \in Paths(a.depth - 1) /\ b.of \in Paths(b.depth - 1)
    BY <2>1, TaskForm
  <2>3. b.depth - 1 <= a.depth - 1 /\ \A i \in 1 .. (b.depth - 1) : a.of[i] = b.of[i]
    BY <2>1, <2>2, WithinPrefix
  <2>4. CASE b.depth < a.depth
    BY <2>1, <2>4 DEF Precedes, Earlier
  <2>5. CASE b.depth = a.depth
    <3>1. a.of = b.of
      BY <2>2, <2>3, <2>5, SamePath
    <3>2. a.op # b.op
      <4>1. /\ a = [op |-> a.op, depth |-> a.depth, of |-> a.of]
            /\ b = [op |-> b.op, depth |-> b.depth, of |-> b.of]
        BY TaskForm
      <4>2. QED BY <2>1, <2>5, <3>1, <4>1
    <3>3. a.op \in Ops /\ b.op \in Ops
      <4>1. a.op = "join" <=> b.op = "join"
        BY <2>5, TaskForm
      <4>2. QED BY <3>2, <4>1, TaskForm
    <3>4. Within(b.of, a.of)
      BY <2>1, <3>1
    <3>5. QED BY <2>1, <2>5, <3>2, <3>3, <3>4 DEF Precedes, Earlier, Ops
  <2>6. QED BY <2>2, <2>3, <2>4, <2>5
<1>3. QED BY <1>1, <1>2

\* What is scheduled for a part at the next level.
LEMMA NextLevelForm ==
  ASSUME NEW n \in 1 .. LeafDepth, NEW p \in Paths(n)
  PROVE  /\ NextLevel(p) \in AllTasks
         /\ NextLevel(p).of = p /\ NextLevel(p).depth = n + 1
         /\ NextLevel(p).op \in {"partition", "join"}
<1>1. n \in Nat /\ LeafDepth \in Nat
  BY LeafDepthType
<1>2. Len(p) = n
  BY <1>1, PathType
<1>3. QED BY <1>1, <1>2, NextLevelType DEF NextLevel, Subtask, JoinTask

\* What a task schedules: a partition task the scatter task of the same part, a
\* scatter task something for one of the parts of its part.
LEMMA ChildForm ==
  ASSUME NEW t \in AllTasks, ChildCount(t) # 0, NEW i \in Nat
  PROVE  /\ t.op \in Ops /\ t.depth \in 2 .. LeafDepth /\ t.of \in Paths(t.depth - 1)
         /\ Child(t, i) \in AllTasks
         /\ t.op = "partition" =>
              /\ Child(t, i).op = "scatter"
              /\ Child(t, i).depth = t.depth /\ Child(t, i).of = t.of
         /\ t.op = "scatter" =>
              /\ Child(t, i).op \in {"partition", "join"}
              /\ Child(t, i).depth = t.depth + 1
              /\ (i + 1) % part_count \in Parts
              /\ Child(t, i).of = Append(t.of, (i + 1) % part_count)
<1>1. t.op # "join" /\ t.depth # 1
  BY DEF ChildCount
<1>2. /\ t.op \in Ops /\ t.depth \in 2 .. LeafDepth /\ t.of \in Paths(t.depth - 1)
  BY <1>1, TaskForm, LeafDepthType
<1>3. t.depth \in Nat /\ t.depth - 1 \in Nat /\ (t.depth - 1) + 1 = t.depth
  BY <1>2, LeafDepthType
<1>4. CASE t.op = "partition"
  <2>1. Len(t.of) + 1 = t.depth
    BY <1>2, <1>3, PathType
  <2>2. QED BY <1>2, <1>4, <2>1, ChildType DEF Child, Subtask
<1>5. CASE t.op = "scatter"
  <2>1. (i + 1) % part_count \in Parts
    BY PartCount
  <2>2. Append(t.of, (i + 1) % part_count) \in Paths(t.depth)
    BY <1>2, <1>3, <2>1, ExtendedPath
  <2>3. t.depth \in 1 .. LeafDepth
    BY <1>2, LeafDepthType
  <2>4. QED BY <1>2, <1>5, <2>1, <2>2, <2>3, NextLevelForm, ChildType DEF Child
<1>6. QED BY <1>2, <1>4, <1>5 DEF Ops

\* The tasks before a child are its parent and those before its parent.
LEMMA BeforeChild ==
  ASSUME NEW t \in AllTasks, ChildCount(t) # 0, NEW i \in Nat
  PROVE  /\ Precedes(t, Child(t, i))
         /\ \A s \in AllTasks : Precedes(s, Child(t, i)) => s = t \/ Precedes(s, t)
<1> DEFINE u == Child(t, i)
           n == t.depth - 1
<1> USE LeafDepthType
<1>1. /\ n \in Nat /\ n + 1 \in Nat /\ t.of \in Paths(n) /\ t.depth = n + 1 /\ n # 0
  BY ChildForm
<1>2. \A s \in AllTasks : s.depth \in Nat /\ s.depth - 1 \in Nat
                           /\ (s.depth # 1 => s.of \in Paths(s.depth - 1))
  BY TaskForm
<1>3. ASSUME NEW s \in AllTasks, s.depth = t.depth, s.op = t.op, Within(t.of, s.of)
      PROVE  s = t
  <2>1. s.of = t.of
    <3>1. s.of \in Paths(n)
      BY <1>1, <1>2, <1>3
    <3>2. \A j \in 1 .. n : t.of[j] = s.of[j]
      BY <1>1, <1>3, <3>1, WithinPrefix
    <3>3. QED BY <1>1, <3>1, <3>2, SamePath
  <2>2. /\ s = [op |-> s.op, depth |-> s.depth, of |-> s.of]
        /\ t = [op |-> t.op, depth |-> t.depth, of |-> t.of]
    BY TaskForm
  <2>3. QED BY <1>3, <2>1, <2>2
<1>4. CASE t.op = "partition"
  <2>1. u.op = "scatter" /\ u.depth = t.depth /\ u.of = t.of
    BY <1>4, ChildForm
  <2>2. Within(t.of, t.of)
    BY <1>1, WithinPrefix
  <2>3. Precedes(t, u)
    BY <1>4, <2>1, <2>2 DEF Precedes, Earlier
  <2>4. ASSUME NEW s \in AllTasks, Precedes(s, u)
        PROVE  s = t \/ Precedes(s, t)
    BY <1>1, <1>2, <1>3, <1>4, <2>1, <2>4 DEF Precedes, Earlier
  <2>5. QED BY <2>3, <2>4
<1>5. CASE t.op = "scatter"
  <2>1. /\ u.op # "scatter" /\ u.depth = t.depth + 1 /\ u.of \in Paths(n + 1)
        /\ \A j \in 1 .. n : u.of[j] = t.of[j]
    <3>1. PICK k \in Parts :
            u.op # "scatter" /\ u.depth = t.depth + 1 /\ u.of = Append(t.of, k)
      BY <1>5, ChildForm
    <3>2. /\ Append(t.of, k) \in Paths(n + 1)
          /\ \A j \in 1 .. n : Append(t.of, k)[j] = t.of[j]
      <4>1. n \in Nat /\ t.of \in Paths(n)
        BY <1>1
      <4> HIDE DEF n, u
      <4>2. \A p \in Paths(n) : /\ Append(p, k) \in Paths(n + 1)
                                /\ \A j \in 1 .. n : Append(p, k)[j] = p[j]
        BY <4>1, ExtendedPath
      <4>3. QED BY <4>1, <4>2
    <3>3. QED BY <3>1, <3>2
  <2>2. Within(u.of, t.of)
    BY <1>1, <2>1, WithinPrefix
  <2>3. Precedes(t, u)
    BY <1>1, <2>1, <2>2 DEF Precedes, Earlier
  <2>4. ASSUME NEW s \in AllTasks, Precedes(s, u)
        PROVE  s = t \/ Precedes(s, t)
    <3>1. s.depth <= t.depth
      BY <1>1, <1>2, <2>1, <2>4 DEF Precedes, Earlier
    <3>2. CASE s.depth = 1
      BY <1>1, <3>2 DEF Precedes, Earlier
    <3>3. CASE s.depth # 1
      <4>1. s.depth - 1 \in Nat /\ s.depth - 1 <= n /\ s.of \in Paths(s.depth - 1)
        BY <1>1, <1>2, <3>1, <3>3
      <4>2. Within(u.of, s.of)
        BY <2>4, <3>3 DEF Precedes
      <4>3. \A j \in 1 .. (s.depth - 1) : u.of[j] = s.of[j]
        BY <1>1, <2>1, <4>1, <4>2, WithinPrefix
      <4>4. \A j \in 1 .. (s.depth - 1) : t.of[j] = s.of[j]
        BY <1>1, <2>1, <4>1, <4>3
      <4>5. Within(t.of, s.of)
        BY <1>1, <4>1, <4>4, WithinPrefix
      <4>6. CASE s.depth < t.depth
        BY <4>5, <4>6 DEF Precedes, Earlier
      <4>7. CASE s.depth = t.depth
        <5>1. s.op \in Ops
          BY <4>7, ChildForm, TaskForm
        <5>2. QED BY <1>3, <1>5, <4>5, <4>7, <5>1 DEF Precedes, Earlier, Ops
      <4>8. QED BY <1>1, <1>2, <3>1, <4>6, <4>7
    <3>4. QED BY <3>2, <3>3
  <2>5. QED BY <2>3, <2>4
<1>6. QED BY <1>4, <1>5, ChildForm DEF Ops

\* No two tasks schedule the same task, and no task schedules one twice.
LEMMA ChildrenDistinct ==
  ASSUME NEW t \in AllTasks, NEW u \in AllTasks,
         NEW i \in 0 .. (ChildCount(t) - 1), NEW j \in 0 .. (ChildCount(u) - 1),
         Child(t, i) = Child(u, j)
  PROVE  t = u /\ i = j
<1>1. /\ ChildCount(t) # 0 /\ ChildCount(u) # 0 /\ i \in Nat /\ j \in Nat
  BY ChildCountType, PartCount
<1>2. t.op = u.op /\ t.op \in Ops
  BY <1>1, ChildForm DEF Ops
<1>3. t.depth = u.depth
  <2>1. t.depth \in Nat /\ u.depth \in Nat
    BY TaskForm, LeafDepthType
  <2>2. Child(t, i).depth = IF t.op = "partition" THEN t.depth ELSE t.depth + 1
    BY <1>1, ChildForm DEF Ops
  <2>3. Child(u, j).depth = IF u.op = "partition" THEN u.depth ELSE u.depth + 1
    BY <1>1, ChildForm DEF Ops
  <2>4. QED BY <1>2, <2>1, <2>2, <2>3
<1>4. t.of = u.of /\ i = j
  <2>1. CASE t.op = "partition"
    <3>1. ChildCount(t) = 1 /\ ChildCount(u) = 1
      BY <1>1, <1>2, <2>1 DEF ChildCount
    <3>2. i = j
      BY <3>1
    <3>3. Child(t, i).of = t.of
      BY <1>1, <2>1, ChildForm
    <3>4. Child(u, j).of = u.of
      <4>1. u.op = "partition"
        BY <1>2, <2>1
      <4>2. QED BY <1>1, <4>1, ChildForm
    <3>5. QED BY <3>2, <3>3, <3>4
  <2>2. CASE t.op = "scatter"
    <3> DEFINE n == t.depth - 1
               a == (i + 1) % part_count
               b == (j + 1) % part_count
    <3>1. n \in Nat /\ t.of \in Paths(n) /\ u.of \in Paths(n)
      <4>1. t.depth \in 2 .. LeafDepth /\ t.of \in Paths(t.depth - 1) /\ u.of \in Paths(u.depth - 1)
        BY <1>1, ChildForm
      <4>2. QED BY <1>3, <4>1, LeafDepthType
    <3>2. a \in Parts /\ Child(t, i).of = Append(t.of, a)
      BY <1>1, <2>2, ChildForm
    <3>3. b \in Parts /\ Child(u, j).of = Append(u.of, b)
      BY <1>1, <1>2, <2>2, ChildForm
    <3>4. a = b /\ \A k \in 1 .. n : t.of[k] = u.of[k]
      <4> HIDE DEF n, a, b
      <4>1. Append(t.of, a)[n + 1] = a /\ \A k \in 1 .. n : Append(t.of, a)[k] = t.of[k]
        BY <3>1, <3>2, ExtendedPath
      <4>2. Append(u.of, b)[n + 1] = b /\ \A k \in 1 .. n : Append(u.of, b)[k] = u.of[k]
        BY <3>1, <3>3, ExtendedPath
      <4>3. Append(t.of, a) = Append(u.of, b)
        BY <3>2, <3>3
      <4>4. QED BY <4>1, <4>2, <4>3
    <3>5. ChildCount(t) = part_count /\ ChildCount(u) = part_count
      BY <1>1, <1>2, <2>2 DEF ChildCount
    <3>6. i = j
      BY <3>4, <3>5, Successor, PartCount
    <3>7. QED BY <3>1, <3>4, <3>6, SamePath
  <2>3. QED BY <1>2, <2>1, <2>2 DEF Ops
<1>5. /\ t = [op |-> t.op, depth |-> t.depth, of |-> t.of]
      /\ u = [op |-> u.op, depth |-> u.depth, of |-> u.of]
  BY TaskForm
<1>6. QED BY <1>2, <1>3, <1>4, <1>5

\* The rounds of execute(): the chunks of the threads twice, and then the first
\* level of the tree.
LEMMA RoundForm ==
  /\ \A r \in Ops :
       /\ Len(Round(r)) = thread_count
       /\ \A i \in 1 .. thread_count : Round(r)[i] = Chunk(r, i - 1)
       /\ Scheduled(r) = {t \in ChunkTasks : t.op = r}
  /\ Len(Round("leaves")) = part_count
  /\ \A i \in 1 .. part_count : Round("leaves")[i] = NextLevel(<<i - 1>>)
<1>1. Len(Round("leaves")) = part_count
      /\ \A i \in 1 .. part_count : Round("leaves")[i] = NextLevel(<<i - 1>>)
  BY PartCount DEF Round
<1>2. ASSUME NEW r \in Ops
      PROVE  /\ Len(Round(r)) = thread_count
             /\ DOMAIN Round(r) = 1 .. thread_count
             /\ \A i \in 1 .. thread_count : Round(r)[i] = Chunk(r, i - 1)
  BY ThreadCount DEF Round, Ops
<1>3. ASSUME NEW r \in Ops
      PROVE  Scheduled(r) = {t \in ChunkTasks : t.op = r}
  <2>1. \A i \in 1 .. thread_count : i - 1 \in Indices
    BY ThreadCount DEF Indices
  <2>2. \A k \in Indices : k + 1 \in 1 .. thread_count /\ (k + 1) - 1 = k
    BY ThreadCount DEF Indices
  <2>3. ASSUME NEW t \in Scheduled(r)
        PROVE  t \in ChunkTasks /\ t.op = r
    <3>1. PICK i \in 1 .. thread_count : t = Chunk(r, i - 1)
      BY <1>2 DEF Scheduled
    <3>2. QED BY <2>1, <3>1 DEF ChunkTasks, Chunk
  <2>4. ASSUME NEW t \in ChunkTasks, t.op = r
        PROVE  t \in Scheduled(r)
    <3>1. PICK op \in Ops, k \in Indices : t = Chunk(op, k)
      BY DEF ChunkTasks
    <3>2. t = Chunk(r, k)
      BY <2>4, <3>1 DEF Chunk
    <3>3. t = Round(r)[k + 1] /\ k + 1 \in DOMAIN Round(r)
      BY <1>2, <2>2, <3>2
    <3>4. QED BY <3>3 DEF Scheduled
  <2>5. QED BY <2>3, <2>4
<1>4. QED BY <1>1, <1>2, <1>3

LEMMA ChunkRoundForm ==
  ASSUME NEW r \in Ops, NEW i \in 1 .. thread_count
  PROVE  Round(r)[i].depth = 1 /\ Round(r)[i].op = r /\ Round(r)[i].of = <<i - 1>>
<1>1. Round(r)[i] = Chunk(r, i - 1)
  BY RoundForm
<1>2. QED BY <1>1 DEF Chunk

\* The tasks of the first level are of depth 2 and no scatter tasks.
LEMMA FirstLevelForm ==
  ASSUME NEW i \in 1 .. part_count
  PROVE  /\ Round("leaves")[i] \in AllTasks
         /\ Round("leaves")[i].depth = 2 /\ Round("leaves")[i].of = <<i - 1>>
         /\ Round("leaves")[i].op \in {"partition", "join"}
<1>1. i - 1 \in Parts
  BY PartCount DEF Parts
<1>2. <<i - 1>> \in Paths(1) /\ 1 \in 1 .. LeafDepth
  BY <1>1, FirstPath, LeafDepthType
<1>3. Round("leaves")[i] = NextLevel(<<i - 1>>)
  BY RoundForm
<1>4. QED BY <1>2, <1>3, NextLevelForm

\* No round schedules a task twice, ...
LEMMA RoundDistinct ==
  ASSUME NEW r \in {"partition", "scatter", "leaves"},
         NEW i \in 1 .. Len(Round(r)), NEW j \in 1 .. Len(Round(r)), i # j
  PROVE  Round(r)[i] # Round(r)[j]
<1>1. CASE r = "leaves"
  <2>1. i \in 1 .. part_count /\ j \in 1 .. part_count
    BY <1>1, RoundForm
  <2>2. Round(r)[i].of = <<i - 1>> /\ Round(r)[j].of = <<j - 1>>
    BY <1>1, <2>1, FirstLevelForm
  <2>3. <<i - 1>> # <<j - 1>>
    BY <2>1, PartCount
  <2>4. QED BY <2>2, <2>3
<1>2. CASE r # "leaves"
  <2>1. r \in Ops /\ i \in 1 .. thread_count /\ j \in 1 .. thread_count
    BY <1>2, RoundForm DEF Ops
  <2>2. Round(r)[i].of = <<i - 1>> /\ Round(r)[j].of = <<j - 1>>
    BY <2>1, ChunkRoundForm
  <2>3. <<i - 1>> # <<j - 1>>
    BY <2>1, ThreadCount
  <2>4. QED BY <2>2, <2>3
<1>3. QED BY <1>1, <1>2

\* ... nor one that is left to another task.
LEMMA RoundNotChild ==
  ASSUME NEW r \in {"partition", "scatter", "leaves"}, NEW i \in 1 .. Len(Round(r)),
         NEW t \in AllTasks, ChildCount(t) # 0, NEW k \in Nat
  PROVE  Round(r)[i] # Child(t, k)
<1>1. t.depth \in 2 .. LeafDepth /\ t.op \in Ops
  BY ChildForm
<1>2. CASE r = "leaves"
  <2>1. Round(r)[i].depth = 2 /\ Round(r)[i].op # "scatter"
    BY <1>2, RoundForm, FirstLevelForm
  <2>2. CASE t.op = "partition"
    BY <2>1, <2>2, ChildForm
  <2>3. CASE t.op = "scatter"
    <3>1. Child(t, k).depth = t.depth + 1
      BY <2>3, ChildForm
    <3>2. QED BY <1>1, <2>1, <3>1, LeafDepthType
  <2>4. QED BY <1>1, <2>2, <2>3 DEF Ops
<1>3. CASE r # "leaves"
  <2>1. r \in Ops /\ i \in 1 .. thread_count
    BY <1>3, RoundForm DEF Ops
  <2>2. Round(r)[i].depth = 1
    BY <2>1, ChunkRoundForm
  <2>3. Child(t, k).depth \in {t.depth, t.depth + 1}
    BY <1>1, ChildForm DEF Ops
  <2>4. QED BY <1>1, <2>2, <2>3, LeafDepthType
<1>4. QED BY <1>2, <1>3

\* The rounds before a round hold all tasks that precede one of its tasks.
LEMMA BeforeRound ==
  ASSUME NEW r \in {"partition", "scatter", "leaves"}, NEW i \in 1 .. Len(Round(r)),
         NEW s \in AllTasks, Precedes(s, Round(r)[i])
  PROVE  /\ s \in ChunkTasks /\ s.op \in Ops
         /\ r # "partition"
         /\ r = "scatter" => s.op = "partition"
<1>1. s.depth \in Nat \ {0} /\ (s.depth = 1 => s \in ChunkTasks)
  BY TaskForm, LeafDepthType
<1>2. CASE r = "leaves"
  <2>1. i \in 1 .. part_count
    BY <1>2, RoundForm
  <2>2. Round(r)[i].depth = 2 /\ Round(r)[i].op # "scatter"
    BY <1>2, <2>1, FirstLevelForm
  <2>3. s.depth = 1
    BY <1>1, <2>2 DEF Precedes, Earlier
  <2>4. QED BY <1>1, <1>2, <2>3 DEF ChunkTasks, Chunk
<1>3. CASE r # "leaves"
  <2>1. r \in Ops /\ i \in 1 .. thread_count
    BY <1>3, RoundForm DEF Ops
  <2>2. Round(r)[i].depth = 1 /\ Round(r)[i].op = r
    BY <2>1, ChunkRoundForm
  <2>3. s.depth = 1 /\ s.op = "partition" /\ r = "scatter"
    BY <1>1, <2>2 DEF Precedes, Earlier
  <2>4. QED BY <1>1, <2>3 DEF Ops
<1>4. QED BY <1>2, <1>3

\* Every other task precedes some join task.
LEMMA JoinTaskAfter ==
  ASSUME NEW t \in AllTasks, t \notin JoinTasks
  PROVE  \E u \in JoinTasks : Precedes(t, u)
<1>1. t.depth \in 1 .. LeafDepth
  BY TaskForm, LeafDepthType
<1>2. CASE t.depth = 1
  <2>1. PICK q \in Leaves : TRUE
    <3>1. 0 \in Parts
      BY PartCount DEF Parts
    <3>2. [i \in 1 .. LeafDepth |-> 0] \in Leaves
      BY <3>1 DEF Leaves, Paths
    <3>3. QED BY <3>2
  <2>2. JoinTask(q) \in JoinTasks /\ JoinTask(q).depth = LeafDepth + 1
    BY DEF JoinTasks, JoinTask
  <2>3. QED BY <1>2, <2>2, LeafDepthType DEF Precedes, Earlier
<1>3. CASE t.depth # 1
  <2>1. t.of \in Paths(t.depth - 1) /\ t.depth - 1 \in 0 .. LeafDepth
    BY <1>1, <1>3, TaskForm, LeafDepthType
  <2>2. PICK q \in Leaves : Within(q, t.of)
    BY <2>1, LeafWithin
  <2>3. /\ JoinTask(q) \in JoinTasks /\ JoinTask(q).depth = LeafDepth + 1
        /\ JoinTask(q).of = q
    BY DEF JoinTasks, JoinTask
  <2>4. QED BY <1>1, <2>2, <2>3, LeafDepthType DEF Precedes, Earlier
<1>4. QED BY <1>2, <1>3

\* There are finitely many join tasks, and join_exp of them if there is a pass.
LEMMA JoinTaskCount ==
  /\ IsFiniteSet(JoinTasks)
  /\ RadixPasses # 0 => Cardinality(JoinTasks) = join_exp
<1>1. IsFiniteSet(Parts) /\ Cardinality(Parts) = 2 ^ RadixBits
  <2>1. IsFiniteSet(Parts) /\ Cardinality(Parts) = part_count
    BY PartCount, FS_Interval DEF Parts
  <2>2. QED BY <2>1 DEF part_count
<1>2. IsFiniteSet(Leaves) /\ Cardinality(Leaves) = 2 ^ (RadixBits * LeafDepth)
  BY <1>1, RadixAssumption, LeafDepthType, CountSequences DEF Leaves, Paths
<1>3. RadixPasses # 0 => LeafDepth = RadixPasses
  BY RadixAssumption DEF LeafDepth
<1>4. ExistsBijection(Leaves, JoinTasks)
  <2> DEFINE f == [p \in Leaves |-> JoinTask(p)]
  <2>1. f \in [Leaves -> JoinTasks]
    BY DEF JoinTasks
  <2>2. \A p, q \in Leaves : f[p] = f[q] => p = q
    BY DEF JoinTask
  <2>3. \A t \in JoinTasks : \E p \in Leaves : f[p] = t
    BY DEF JoinTasks
  <2> HIDE DEF f
  <2>4. f \in Bijection(Leaves, JoinTasks)
    BY <2>1, <2>2, <2>3, Fun_IsBij
  <2>5. QED BY <2>4, Fun_ExistsBij
<1>5. IsFiniteSet(JoinTasks) /\ Cardinality(JoinTasks) = 2 ^ (RadixBits * LeafDepth)
  BY <1>2, <1>4, FS_Bijection
<1>6. QED BY <1>3, <1>5 DEF join_exp

--------------------------------------------------------------------------------
(* What the steps do to the tasks of the workers and to the histories. *)

\* The tasks that enqueue was called for, and those that are done with their data.
Announced == accepted \cup refused
Worked    == done \cup {task[w] : w \in {v \in Workers : tpc[v] \in {"spawn", "end"}}}

\* A step of a worker's task moves this worker only.
LEMMA StepsOfTasks ==
  ASSUME [Next]_vars
  PROVE  \/ UNCHANGED <<tpc, task, kids, done, index, output, stateVars, filled>>
         \/ \E w \in Workers : WorkerTake(w) \/ TaskStep(w)
<1> USE DEF taskVars, poolVars
<1>1. CASE MainStep \/ MainSpuriousWake
  <2>1. CASE MainEnqueue
    BY <2>1 DEF MainEnqueue, Pool!Enqueue
  <2>2. CASE MainBarrier \/ MainAwait \/ MainCheck \/ MainSpuriousWake
    BY <2>2 DEF MainBarrier, MainAwait, MainCheck, MainSpuriousWake
  <2>3. CASE MainFinish \/ MainReturn
    BY <2>3
       DEF MainFinish, MainReturn, Pool!FinishStop, Pool!FinishNotifyAll, Pool!FinishJoin
  <2>4. QED BY <1>1, <2>1, <2>2, <2>3 DEF MainStep
<1>2. CASE \E w \in Workers : WorkerSleep(w) \/ WorkerExit(w)
  BY <1>2 DEF WorkerSleep, WorkerExit, Pool!Wait, Pool!SpuriousWake, Pool!Exit
<1>3. CASE \E th \in Workers \cup {main} : NotifyOne(th)
  BY <1>3 DEF NotifyOne, Pool!NotifyOne
<1>4. CASE UNCHANGED vars
  BY <1>4 DEF vars
<1>5. QED BY <1>1, <1>2, <1>3, <1>4 DEF Next, Terminated

LEMMA TaskStepFrame ==
  ASSUME BaseInv, NEW w \in Workers, WorkerTake(w) \/ TaskStep(w)
  PROVE  \A v \in Workers \ {w} : tpc'[v] = tpc[v] /\ task'[v] = task[v] /\ kids'[v] = kids[v]
<1>1. /\ tpc \in [Workers -> {"idle", "work", "spawn", "count", "signal", "notify",
                              "grab", "moveout", "join", "release", "end"}]
      /\ kids \in [Workers -> 0 .. part_count]
      /\ task \in [Workers -> AllTasks \cup {NoTask}]
  BY DEF BaseInv, TypeOK, Pool!TypeOK
<1>2. CASE WorkerTake(w)
  BY <1>1, <1>2 DEF WorkerTake, Pool!Take
<1>3. CASE WorkerReturn(w)
  BY <1>1, <1>3 DEF WorkerReturn, Pool!Return
<1>4. CASE Spawn(w) \/ SpawnThrows(w)
  BY <1>1, <1>4 DEF Spawn, SpawnThrows, Pool!Enqueue, Pool!Refuse
<1>5. CASE Work(w) \/ Count(w) \/ Signal(w) \/ NotifyMain(w)
  BY <1>1, <1>5 DEF Work, Count, Signal, NotifyMain, poolVars
<1>6. CASE Grab(w) \/ MoveOut(w) \/ MoveIn(w) \/ Release(w)
  BY <1>1, <1>6 DEF Grab, MoveOut, MoveIn, Release, poolVars
<1>7. QED BY <1>2, <1>3, <1>4, <1>5, <1>6 DEF TaskStep

\* A task that is done with its data stays so.
LEMMA WorkedGrows ==
  ASSUME BaseInv, [Next]_vars
  PROVE  done \subseteq done' /\ Worked \subseteq Worked'
<1>1. CASE UNCHANGED <<tpc, task, kids, done>>
  BY <1>1 DEF Worked
<1>2. ASSUME NEW w \in Workers, WorkerTake(w) \/ TaskStep(w)
      PROVE  done \subseteq done' /\ Worked \subseteq Worked'
  <2>1. \A v \in Workers \ {w} : tpc'[v] = tpc[v] /\ task'[v] = task[v]
    BY <1>2, TaskStepFrame
  <2>2. /\ tpc \in [Workers -> {"idle", "work", "spawn", "count", "signal", "notify",
                                "grab", "moveout", "join", "release", "end"}]
        /\ task \in [Workers -> AllTasks \cup {NoTask}]
    BY DEF BaseInv, TypeOK, Pool!TypeOK
  <2>3. /\ done \subseteq done'
        /\ tpc[w] \in {"spawn", "end"} =>
             task[w] \in done' \/ (tpc'[w] \in {"spawn", "end"} /\ task'[w] = task[w])
    <3>1. CASE WorkerTake(w)
      <4>1. tpc[w] = "idle"
        BY <3>1 DEF WorkerTake, Pool!Take, BaseInv, ControlInv
      <4>2. QED BY <3>1, <4>1 DEF WorkerTake, Pool!Take
    <3>2. CASE WorkerReturn(w)
      BY <3>2 DEF WorkerReturn, Pool!Return
    <3>3. CASE Spawn(w) \/ SpawnThrows(w)
      BY <2>2, <3>3 DEF Spawn, SpawnThrows, Pool!Enqueue, Pool!Refuse
    <3>4. CASE Work(w) \/ Count(w) \/ Signal(w) \/ NotifyMain(w)
      BY <3>4 DEF Work, Count, Signal, NotifyMain, poolVars
    <3>5. CASE Grab(w) \/ MoveOut(w) \/ MoveIn(w) \/ Release(w)
      BY <3>5 DEF Grab, MoveOut, MoveIn, Release, poolVars
    <3>6. QED BY <1>2, <3>1, <3>2, <3>3, <3>4, <3>5 DEF TaskStep
  <2>4. QED BY <2>1, <2>3 DEF Worked
<1>3. QED BY <1>1, <1>2, StepsOfTasks

\* Only main's loop and the tasks that spawn call enqueue.
LEMMA Announcing ==
  ASSUME [Next]_vars
  PROVE  \/ MainEnqueue /\ Announced' = Announced \cup {Round(mpc)[round + 1]}
         \/ \E w \in Workers : /\ Spawn(w) \/ SpawnThrows(w)
                               /\ Announced' = Announced \cup {Child(task[w], kids[w])}
         \/ Announced' = Announced
<1> USE DEF poolVars, Announced
<1>1. CASE MainEnqueue
  BY <1>1 DEF MainEnqueue, Pool!Enqueue
<1>2. CASE MainBarrier \/ MainAwait \/ MainCheck \/ MainSpuriousWake
  BY <1>2 DEF MainBarrier, MainAwait, MainCheck, MainSpuriousWake
<1>3. CASE MainFinish \/ MainReturn
  BY <1>3
     DEF MainFinish, MainReturn, Pool!FinishStop, Pool!FinishNotifyAll, Pool!FinishJoin
<1>4. ASSUME NEW w \in Workers, WorkerTake(w) \/ WorkerSleep(w) \/ WorkerExit(w) \/ WorkerReturn(w)
      PROVE  Announced' = Announced
  BY <1>4 DEF WorkerTake, WorkerSleep, WorkerExit, WorkerReturn, Pool!Take, Pool!Wait,
              Pool!SpuriousWake, Pool!Exit, Pool!Return
<1>5. ASSUME NEW w \in Workers, Spawn(w) \/ SpawnThrows(w)
      PROVE  Announced' = Announced \cup {Child(task[w], kids[w])}
  BY <1>5 DEF Spawn, SpawnThrows, Pool!Enqueue, Pool!Refuse
<1>6. ASSUME NEW w \in Workers,
             \/ Work(w) \/ Count(w) \/ Signal(w) \/ NotifyMain(w)
             \/ Grab(w) \/ MoveOut(w) \/ MoveIn(w) \/ Release(w)
      PROVE  Announced' = Announced
  BY <1>6 DEF Work, Count, Signal, NotifyMain, Grab, MoveOut, MoveIn, Release
<1>7. CASE \E th \in Workers \cup {main} : NotifyOne(th)
  BY <1>7 DEF NotifyOne, Pool!NotifyOne
<1>8. CASE UNCHANGED vars
  BY <1>8 DEF vars
<1>9. QED BY <1>1, <1>2, <1>3, <1>4, <1>5, <1>6, <1>7, <1>8
          DEF Next, MainStep, TaskStep, Terminated

--------------------------------------------------------------------------------
(* The inductive invariant of the tree of tasks. *)

\* A task is announced only when all tasks before it are done with their data, ...
OrderInv ==
  \A u \in Announced, t \in AllTasks : Precedes(t, u) => t \in Worked

\* ... what a task has not scheduled yet nobody else has, ...
SpawnInv ==
  \A w \in Workers : tpc[w] = "spawn" =>
    \A i \in kids[w] .. (ChildCount(task[w]) - 1) : Child(task[w], i) \notin Announced

\* ... and the rounds of execute() are separated by barriers.
RoundInv ==
  /\ mpc # "partition" => Scheduled("partition") \subseteq done
  /\ mpc \notin {"partition", "scatter"} => Scheduled("scatter") \subseteq done
  /\ mpc \in {"partition", "scatter"} => Announced \subseteq ChunkTasks
  /\ mpc = "partition" => \A t \in Announced : t.op # "scatter"
  /\ mpc \in {"partition", "scatter", "leaves"} =>
       \A i \in (round + 1) .. Len(Round(mpc)) : Round(mpc)[i] \notin Announced

TreeInv == OrderInv /\ SpawnInv /\ RoundInv

\* A worker that is in a task holds an accepted task that is not done and that no
\* other worker holds.
LEMMA TasksHeld ==
  ASSUME BaseInv, PP!PlaceInv, NEW w \in Workers, tpc[w] # "idle"
  PROVE  /\ task[w] \in AllTasks /\ task[w] \in accepted /\ task[w] \in Announced
         /\ task[w] \notin done
         /\ \A v \in Workers : tpc[v] # "idle" /\ task[v] = task[w] => v = w
<1>1. \A v \in Workers : tpc[v] # "idle" <=> v \in PP!At("running")
  BY DEF BaseInv, ControlInv, PP!At
<1>2. task[w] \in AllTasks
  BY <1>1 DEF BaseInv, PP!TypeInv, PP!At
<1>3. task[w] \in PP!Running
  BY <1>1 DEF PP!Running
<1>4. QED BY <1>1, <1>2, <1>3 DEF PP!PlaceInv, PP!ExactlyOnce, Announced

LEMMA WorkedIsAccepted ==
  ASSUME BaseInv, PP!PlaceInv
  PROVE  Worked \subseteq accepted /\ done \subseteq accepted
<1>1. done \subseteq accepted
  BY DEF PP!PlaceInv, PP!ExactlyOnce
<1>2. QED BY <1>1, TasksHeld DEF Worked

\* A task that spawns is one of those that schedule others.
LEMMA Spawning ==
  ASSUME BaseInv, PP!PlaceInv, NEW w \in Workers, tpc[w] = "spawn"
  PROVE  /\ task[w] \in AllTasks /\ ChildCount(task[w]) # 0
         /\ kids[w] \in 0 .. (ChildCount(task[w]) - 1) /\ kids[w] \in Nat
<1>1. kids[w] \in Nat /\ kids[w] < ChildCount(task[w]) /\ ChildCount(task[w]) \in Nat
  BY ChildCountType, PartCount DEF BaseInv, ControlInv, TypeOK
<1>2. QED BY <1>1, TasksHeld

LEMMA TreeInvInit == Init => TreeInv
<1> SUFFICES ASSUME Init
             PROVE  TreeInv
  OBVIOUS
<1>1. Announced = {} /\ mpc = "partition" /\ \A w \in Workers : tpc[w] = "idle"
  BY DEF Init, Pool!Init, Announced
<1>2. QED BY <1>1 DEF TreeInv, OrderInv, SpawnInv, RoundInv

LEMMA OrderInvNext ==
  ASSUME BaseInv, PP!PlaceInv, OrderInv, RoundInv, [Next]_vars
  PROVE  OrderInv'
<1>1. Worked \subseteq Worked' /\ done \subseteq Worked
  BY WorkedGrows DEF Worked
<1>2. ASSUME MainEnqueue, Announced' = Announced \cup {Round(mpc)[round + 1]}
      PROVE  OrderInv'
  <2>1. mpc \in {"partition", "scatter", "leaves"} /\ round + 1 \in 1 .. Len(Round(mpc))
    <3>1. Len(Round(mpc)) \in Nat
      BY PartCount, ThreadCount DEF Round
    <3>2. QED BY <1>2, <3>1 DEF MainEnqueue, BaseInv, TypeOK
  <2>2. ASSUME NEW s \in AllTasks, Precedes(s, Round(mpc)[round + 1])
        PROVE  s \in done
    <3>1. /\ s \in ChunkTasks /\ s.op \in Ops /\ mpc # "partition"
          /\ mpc = "scatter" => s.op = "partition"
      BY <2>1, <2>2, BeforeRound
    <3>2. s \in Scheduled(s.op)
      BY <3>1, RoundForm
    <3>3. QED BY <2>1, <3>1, <3>2 DEF RoundInv, Ops
  <2>3. QED BY <1>1, <1>2, <2>2 DEF OrderInv
<1>3. ASSUME NEW w \in Workers, Spawn(w) \/ SpawnThrows(w),
             Announced' = Announced \cup {Child(task[w], kids[w])}
      PROVE  OrderInv'
  <2>1. tpc[w] = "spawn"
    BY <1>3 DEF Spawn, SpawnThrows
  <2>2. task[w] \in Worked /\ task[w] \in Announced
    BY <2>1, TasksHeld DEF Worked
  <2>3. ASSUME NEW s \in AllTasks, Precedes(s, Child(task[w], kids[w]))
        PROVE  s \in Worked
    <3>1. s = task[w] \/ Precedes(s, task[w])
      BY <2>1, <2>3, Spawning, BeforeChild
    <3>2. QED BY <2>2, <3>1 DEF OrderInv
  <2>4. QED BY <1>1, <1>3, <2>3 DEF OrderInv
<1>4. ASSUME Announced' = Announced
      PROVE  OrderInv'
  BY <1>1, <1>4 DEF OrderInv
<1>5. QED BY <1>2, <1>3, <1>4, Announcing

\* How a worker gets to the point where it schedules tasks.
LEMMA SpawnFrame ==
  ASSUME BaseInv, [Next]_vars, NEW v \in Workers, tpc'[v] = "spawn"
  PROVE  /\ task'[v] = task[v]
         /\ \/ tpc[v] = "spawn" /\ kids'[v] = kids[v] /\ ~Spawn(v) /\ ~SpawnThrows(v)
            \/ tpc[v] = "spawn" /\ kids'[v] = kids[v] + 1 /\ Spawn(v)
            \/ /\ tpc[v] = "work" /\ kids'[v] = kids[v]
               /\ ChildCount(task[v]) # 0 /\ Announced' = Announced
<1>1. /\ tpc \in [Workers -> {"idle", "work", "spawn", "count", "signal", "notify",
                              "grab", "moveout", "join", "release", "end"}]
      /\ kids \in [Workers -> 0 .. part_count]
      /\ task \in [Workers -> AllTasks \cup {NoTask}]
  BY DEF BaseInv, TypeOK, Pool!TypeOK
<1>2. CASE Spawn(v)
  BY <1>1, <1>2 DEF Spawn, Pool!Enqueue
<1>3. CASE SpawnThrows(v)
  BY <1>1, <1>3 DEF SpawnThrows
<1>4. CASE ~Spawn(v) /\ ~SpawnThrows(v)
  <2>1. CASE UNCHANGED <<tpc, task, kids, done>>
    BY <1>4, <2>1
  <2>2. ASSUME NEW w \in Workers, WorkerTake(w) \/ TaskStep(w)
        PROVE  /\ task'[v] = task[v]
               /\ \/ tpc[v] = "spawn" /\ kids'[v] = kids[v]
                  \/ /\ tpc[v] = "work" /\ kids'[v] = kids[v]
                     /\ ChildCount(task[v]) # 0 /\ Announced' = Announced
    <3>1. CASE v # w
      BY <2>2, <3>1, TaskStepFrame
    <3>2. CASE v = w
      <4>1. CASE WorkerTake(v)
        BY <1>1, <4>1 DEF WorkerTake
      <4>2. CASE WorkerReturn(v)
        BY <1>1, <4>2 DEF WorkerReturn
      <4>3. CASE Work(v)
        BY <1>1, <4>3 DEF Work, poolVars, Announced
      <4>4. CASE Count(v) \/ Signal(v) \/ NotifyMain(v)
        BY <1>1, <4>4 DEF Count, Signal, NotifyMain, JoinOrSkip
      <4>5. CASE Grab(v) \/ MoveOut(v) \/ MoveIn(v) \/ Release(v)
        BY <1>1, <4>5 DEF Grab, MoveOut, MoveIn, Release
      <4>6. QED BY <1>4, <2>2, <3>2, <4>1, <4>2, <4>3, <4>4, <4>5 DEF TaskStep
    <3>3. QED BY <3>1, <3>2
  <2>3. QED BY <1>4, <2>1, <2>2, StepsOfTasks
<1>5. QED BY <1>2, <1>3, <1>4

LEMMA SpawnInvNext ==
  ASSUME BaseInv, PP!PlaceInv, OrderInv, SpawnInv, [Next]_vars
  PROVE  SpawnInv'
<1> SUFFICES ASSUME NEW v \in Workers, tpc'[v] = "spawn",
                    NEW i \in kids'[v] .. (ChildCount(task'[v]) - 1)
             PROVE  Child(task'[v], i) \notin Announced'
  BY DEF SpawnInv
<1>1. task'[v] = task[v] /\ task[v] \in AllTasks
  <2>1. tpc[v] # "idle"
    BY SpawnFrame
  <2>2. QED BY <2>1, SpawnFrame, TasksHeld
<1>2. ChildCount(task[v]) \in Nat /\ kids[v] \in Nat
  <2>1. ChildCount(task[v]) \in 0 .. part_count
    BY <1>1, ChildCountType
  <2>2. kids[v] \in 0 .. part_count
    BY DEF BaseInv, TypeOK
  <2>3. QED BY <2>1, <2>2, PartCount
<1>3. CASE /\ tpc[v] = "work" /\ kids'[v] = kids[v]
           /\ ChildCount(task[v]) # 0 /\ Announced' = Announced
  <2>1. i \in Nat
    BY <1>2, <1>3
  <2>2. Precedes(task[v], Child(task[v], i)) /\ Child(task[v], i) \in AllTasks
    BY <1>1, <1>3, <2>1, BeforeChild, ChildForm
  <2>3. task[v] \notin Worked
    BY <1>3, TasksHeld DEF Worked
  <2>4. QED BY <1>1, <1>3, <2>2, <2>3 DEF OrderInv
<1>4. CASE tpc[v] = "spawn" /\ kids'[v] = kids[v] + 1 /\ Spawn(v)
  <2>1. Announced' = Announced \cup {Child(task[v], kids[v])}
    BY <1>4 DEF Spawn, Pool!Enqueue, Announced
  <2>2. /\ i \in kids[v] .. (ChildCount(task[v]) - 1) /\ i # kids[v]
        /\ i \in 0 .. (ChildCount(task[v]) - 1)
    BY <1>1, <1>2, <1>4
  <2>3. Child(task[v], i) \notin Announced
    BY <1>4, <2>2 DEF SpawnInv
  <2>4. Child(task[v], i) # Child(task[v], kids[v])
    BY <1>1, <1>4, <2>2, Spawning, ChildrenDistinct
  <2>5. QED BY <1>1, <2>1, <2>3, <2>4
<1>5. CASE tpc[v] = "spawn" /\ kids'[v] = kids[v] /\ ~Spawn(v) /\ ~SpawnThrows(v)
  <2>1. /\ i \in kids[v] .. (ChildCount(task[v]) - 1)
        /\ i \in 0 .. (ChildCount(task[v]) - 1) /\ i \in Nat /\ ChildCount(task[v]) # 0
    BY <1>1, <1>2, <1>5
  <2>2. Child(task[v], i) \notin Announced
    BY <1>5, <2>1 DEF SpawnInv
  <2>3. CASE MainEnqueue /\ Announced' = Announced \cup {Round(mpc)[round + 1]}
    <3>1. mpc \in {"partition", "scatter", "leaves"} /\ round + 1 \in 1 .. Len(Round(mpc))
      <4>1. Len(Round(mpc)) \in Nat
        BY PartCount, ThreadCount DEF Round
      <4>2. QED BY <2>3, <4>1 DEF MainEnqueue, BaseInv, TypeOK
    <3>2. Round(mpc)[round + 1] # Child(task[v], i)
      BY <1>1, <2>1, <3>1, RoundNotChild
    <3>3. QED BY <1>1, <2>2, <2>3, <3>2
  <2>4. ASSUME NEW w \in Workers, Spawn(w) \/ SpawnThrows(w),
               Announced' = Announced \cup {Child(task[w], kids[w])}
        PROVE  Child(task[v], i) \notin Announced'
    <3>1. tpc[w] = "spawn" /\ w # v
      BY <1>5, <2>4 DEF Spawn, SpawnThrows
    <3>2. task[w] # task[v]
      BY <1>5, <3>1, TasksHeld
    <3>3. Child(task[w], kids[w]) # Child(task[v], i)
      BY <1>1, <2>1, <3>1, <3>2, Spawning, ChildrenDistinct
    <3>4. QED BY <2>2, <2>4, <3>3
  <2>5. QED BY <1>1, <2>2, <2>3, <2>4, Announcing
<1>6. QED BY <1>3, <1>4, <1>5, SpawnFrame

\* Where execute() goes.
LEMMA MainFrame ==
  ASSUME [Next]_vars
  PROVE  \/ mpc' = mpc /\ (mpc \in {"partition", "scatter", "leaves"} => round' = round)
         \/ MainEnqueue
         \/ MainBarrier
         \/ /\ mpc \notin {"partition", "scatter"}
            /\ mpc' \notin {"partition", "scatter", "leaves"}
<1> USE DEF mainVars
<1>1. CASE MainFinish \/ MainReturn
  BY <1>1 DEF MainFinish, MainReturn
<1>2. CASE MainAwait \/ MainCheck \/ MainSpuriousWake
  BY <1>2 DEF MainAwait, MainCheck, MainSpuriousWake
<1>3. ASSUME NEW w \in Workers, WorkerTake(w) \/ WorkerSleep(w) \/ WorkerExit(w) \/ WorkerReturn(w)
      PROVE  UNCHANGED mainVars
  BY <1>3 DEF WorkerTake, WorkerSleep, WorkerExit, WorkerReturn
<1>4. ASSUME NEW w \in Workers,
             \/ Work(w) \/ Spawn(w) \/ SpawnThrows(w) \/ Count(w) \/ Signal(w)
             \/ Grab(w) \/ MoveOut(w) \/ MoveIn(w) \/ Release(w)
      PROVE  UNCHANGED mainVars
  BY <1>4 DEF Work, Spawn, SpawnThrows, Count, Signal, Grab, MoveOut, MoveIn, Release
<1>5. ASSUME NEW w \in Workers, NotifyMain(w)
      PROVE  round' = round /\ (mpc' = mpc \/ (mpc = "sleep" /\ mpc' = "check"))
  BY <1>5 DEF NotifyMain
<1>6. CASE \E th \in Workers \cup {main} : NotifyOne(th)
  BY <1>6 DEF NotifyOne
<1>7. CASE UNCHANGED vars
  BY <1>7 DEF vars
<1>8. QED BY <1>1, <1>2, <1>3, <1>4, <1>5, <1>6, <1>7
          DEF Next, MainStep, TaskStep, Terminated

LEMMA RoundInvNext ==
  ASSUME BaseInv, PP!PlaceInv, RoundInv, [Next]_vars
  PROVE  RoundInv'
<1>1. done \subseteq done'
  BY WorkedGrows
<1>2. Len(Round(mpc)) \in Nat /\ round \in Nat
  BY PartCount, ThreadCount DEF Round, BaseInv, TypeOK
<1>3. CASE MainEnqueue
  <2>1. /\ mpc' = mpc /\ round' = round + 1
        /\ mpc \in {"partition", "scatter", "leaves"} /\ round + 1 \in 1 .. Len(Round(mpc))
        /\ Announced' = Announced \cup {Round(mpc)[round + 1]}
    BY <1>2, <1>3 DEF MainEnqueue, Pool!Enqueue, Announced
  <2>2. mpc \in Ops => /\ Round(mpc)[round + 1] \in ChunkTasks
                       /\ Round(mpc)[round + 1].op = mpc
    <3>1. mpc \in Ops => Round(mpc)[round + 1] \in Scheduled(mpc)
      BY <2>1, ThreadCount DEF Scheduled, Round, Ops
    <3>2. QED BY <3>1, RoundForm
  <2>3. \A i \in (round + 2) .. Len(Round(mpc)) : Round(mpc)[i] \notin Announced'
    <3>1. SUFFICES ASSUME NEW i \in (round + 2) .. Len(Round(mpc))
                   PROVE  Round(mpc)[i] \notin Announced'
      OBVIOUS
    <3>2. i \in (round + 1) .. Len(Round(mpc)) /\ i \in 1 .. Len(Round(mpc)) /\ i # round + 1
      BY <1>2
    <3>3. Round(mpc)[i] # Round(mpc)[round + 1]
      BY <2>1, <3>2, RoundDistinct
    <3>4. QED BY <2>1, <3>2, <3>3 DEF RoundInv
  <2>4. round' + 1 = round + 2
    BY <1>2, <2>1
  <2>5. QED BY <1>1, <2>1, <2>2, <2>3, <2>4 DEF RoundInv, Ops
<1>4. CASE MainBarrier
  <2>1. /\ mpc \in Ops /\ mpc' = IF mpc = "partition" THEN "scatter" ELSE "leaves"
        /\ Scheduled(mpc) \subseteq done /\ round' = 0
        /\ done' = done /\ Announced' = Announced
    BY <1>4 DEF MainBarrier, Ops, poolVars, Announced
  <2>2. CASE mpc = "partition"
    <3>1. ASSUME NEW i \in 1 .. Len(Round("scatter"))
          PROVE  Round("scatter")[i] \notin Announced
      <4>1. i \in 1 .. thread_count /\ "scatter" \in Ops
        BY RoundForm DEF Ops
      <4>2. Round("scatter")[i].op = "scatter"
        BY <4>1, ChunkRoundForm
      <4>3. QED BY <2>2, <4>2 DEF RoundInv
    <3>2. QED BY <2>1, <2>2, <3>1 DEF RoundInv
  <2>3. CASE mpc = "scatter"
    <3>1. ASSUME NEW i \in 1 .. Len(Round("leaves"))
          PROVE  Round("leaves")[i] \notin Announced
      <4>1. Round("leaves")[i] \in AllTasks /\ Round("leaves")[i].depth = 2
        BY RoundForm, FirstLevelForm
      <4>2. Round("leaves")[i] \notin ChunkTasks
        BY <4>1, TaskForm
      <4>3. QED BY <2>3, <4>2 DEF RoundInv
    <3>2. QED BY <2>1, <2>3, <3>1 DEF RoundInv
  <2>4. QED BY <2>1, <2>2, <2>3 DEF Ops
<1>5. CASE mpc' = mpc /\ (mpc \in {"partition", "scatter", "leaves"} => round' = round)
           /\ ~MainEnqueue
  <2>1. CASE Announced' = Announced
    BY <1>1, <1>5, <2>1 DEF RoundInv
  <2>2. ASSUME NEW w \in Workers, Spawn(w) \/ SpawnThrows(w),
               Announced' = Announced \cup {Child(task[w], kids[w])}
        PROVE  RoundInv'
    <3>1. /\ task[w] \in AllTasks /\ task[w] \in Announced
          /\ ChildCount(task[w]) # 0 /\ kids[w] \in Nat
      <4>1. tpc[w] = "spawn"
        BY <2>2 DEF Spawn, SpawnThrows
      <4>2. QED BY <4>1, Spawning, TasksHeld
    <3>2. mpc \notin {"partition", "scatter"}
      <4>1. task[w] \notin ChunkTasks
        BY <3>1, ChildForm, TaskForm
      <4>2. QED BY <3>1, <4>1 DEF RoundInv
    <3>3. ASSUME mpc = "leaves", NEW i \in (round + 1) .. Len(Round(mpc))
          PROVE  Round(mpc)[i] # Child(task[w], kids[w])
      BY <1>2, <3>1, <3>3, RoundNotChild
    <3>4. QED BY <1>1, <1>5, <2>2, <3>2, <3>3 DEF RoundInv
  <2>3. QED BY <1>5, <2>1, <2>2, Announcing
<1>6. CASE /\ mpc \notin {"partition", "scatter"}
           /\ mpc' \notin {"partition", "scatter", "leaves"}
  BY <1>1, <1>6 DEF RoundInv
<1>7. QED BY <1>3, <1>4, <1>5, <1>6, MainFrame

LEMMA PlaceInvariantOfPool == Spec => []PP!PlaceInv
BY UsesPool, SameSpec, PoolConstants, PP!PlaceInvariant, PTL

LEMMA TreeInvariant == Spec => []TreeInv
<1>1. BaseInv /\ PP!PlaceInv /\ TreeInv /\ [Next]_vars => TreeInv'
  BY OrderInvNext, SpawnInvNext, RoundInvNext DEF TreeInv
<1>2. QED BY <1>1, TreeInvInit, BaseInvariant, PlaceInvariantOfPool, PTL DEF Spec

\* What a spawning task offers is one of its children that are still to come.
LEMMA NothingTwice ==
  ASSUME BaseInv, PP!PlaceInv, TreeInv
  PROVE  NoTaskTwice
<1>1. ASSUME NEW w \in Workers, tpc[w] = "spawn"
      PROVE  Offered(w) \notin accepted \cup refused
  <2>1. kids[w] \in kids[w] .. (ChildCount(task[w]) - 1)
    BY <1>1, Spawning
  <2>2. QED BY <1>1, <2>1 DEF TreeInv, SpawnInv, Offered, Announced
<1>2. ASSUME NEW w \in Workers, tpc[w] = "spawn", NEW v \in Workers \ {w}, tpc[v] = "spawn"
      PROVE  Offered(v) # Offered(w)
  <2>1. task[v] # task[w]
    BY <1>2, TasksHeld
  <2>2. QED BY <1>2, <2>1, Spawning, ChildrenDistinct DEF Offered
<1>3. ASSUME mpc \in {"partition", "scatter", "leaves"}, round < Len(Round(mpc))
      PROVE  Round(mpc)[round + 1] \notin accepted \cup refused
  <2>1. Len(Round(mpc)) \in Nat /\ round \in Nat
    BY PartCount, ThreadCount DEF Round, BaseInv, TypeOK
  <2>2. round + 1 \in (round + 1) .. Len(Round(mpc))
    BY <1>3, <2>1
  <2>3. QED BY <1>3, <2>2 DEF TreeInv, RoundInv, Announced
<1>4. QED BY <1>1, <1>2, <1>3 DEF NoTaskTwice

\* Of two tasks that touch common data, one has worked before the other is announced.
LEMMA NothingRaces ==
  ASSUME BaseInv, PP!PlaceInv, TreeInv
  PROVE  DataRaceFree
<1> SUFFICES ASSUME NEW v \in Workers, NEW w \in Workers,
                    tpc[v] \in {"work", "join"}, tpc[w] \in {"work", "join"}, v # w
             PROVE  ~Overlap(task[v], task[w])
  BY DEF DataRaceFree
<1>1. /\ task[v] \in AllTasks /\ task[v] \in Announced /\ task[v] \notin Worked
      /\ task[w] \in AllTasks /\ task[w] \in Announced /\ task[w] \notin Worked
      /\ task[v] # task[w]
  BY TasksHeld DEF Worked
<1>2. ~Precedes(task[v], task[w]) /\ ~Precedes(task[w], task[v])
  BY <1>1 DEF TreeInv, OrderInv
<1>3. QED BY <1>1, <1>2, OverlapOrdered

\* No task is ever scheduled twice: neither by two tasks, nor by one task in two
\* turns of its loop or in the call after the loop, nor by execute() and a task.
THEOREM TasksScheduledOnce == Spec => []NoTaskTwice
BY NothingTwice, BaseInvariant, PlaceInvariantOfPool, TreeInvariant, PTL

\* No two tasks ever touch the same part of the data at the same time: of two tasks
\* that would, one prepared the data for the other and was done with them first.
THEOREM TasksDoNotRace == Spec => []DataRaceFree
BY NothingRaces, BaseInvariant, PlaceInvariantOfPool, TreeInvariant, PTL

--------------------------------------------------------------------------------
(* How far the join tasks have got. *)

\* The join tasks that are in one of the places P of their code, or behind it.
Reached(P) ==
  JoinTasks \cap (done \cup {task[w] : w \in {v \in Workers : tpc[v] \in P}})

\* A worker that goes on from one place to another takes its task along.
LEMMA ReachedMove ==
  ASSUME BaseInv, PP!PlaceInv, NEW P, "idle" \notin P, NEW w \in Workers, NEW next,
         tpc[w] # "idle", tpc' = [tpc EXCEPT ![w] = next], UNCHANGED <<task, done>>
  PROVE  /\ (tpc[w] \in P <=> next \in P) \/ task[w] \notin JoinTasks =>
              Reached(P)' = Reached(P)
         /\ tpc[w] \notin P /\ next \in P /\ task[w] \in JoinTasks =>
              Reached(P)' = Reached(P) \cup {task[w]} /\ task[w] \notin Reached(P)
<1>1. DOMAIN tpc = Workers
  BY DEF BaseInv, TypeOK
<1>2. tpc'[w] = next /\ \A v \in Workers \ {w} : tpc'[v] = tpc[v]
  BY <1>1
<1>3. task[w] \notin done /\ \A v \in Workers : tpc[v] \in P /\ task[v] = task[w] => v = w
  BY TasksHeld
<1>4. (tpc[w] \in P <=> next \in P) \/ task[w] \notin JoinTasks => Reached(P)' = Reached(P)
  BY <1>2 DEF Reached
<1>5. ASSUME tpc[w] \notin P, next \in P, task[w] \in JoinTasks
      PROVE  Reached(P)' = Reached(P) \cup {task[w]} /\ task[w] \notin Reached(P)
  BY <1>2, <1>3, <1>5 DEF Reached
<1>6. QED BY <1>4, <1>5

\* A task that is taken has not got to P yet, and one that returns has passed it.
LEMMA ReachedTurn ==
  ASSUME BaseInv, PP!PlaceInv, NEW P, P \cap {"idle", "count", "work"} = {}, "end" \in P,
         NEW w \in Workers, WorkerTake(w) \/ WorkerReturn(w)
  PROVE  Reached(P)' = Reached(P)
<1>1. /\ DOMAIN tpc = Workers /\ DOMAIN task = Workers
      /\ \A v \in Workers \ {w} : tpc'[v] = tpc[v] /\ task'[v] = task[v]
  BY TaskStepFrame DEF BaseInv, TypeOK, Pool!TypeOK, TaskStep
<1>2. CASE WorkerTake(w)
  <2>1. tpc[w] = "idle" /\ done' = done /\ tpc'[w] \in {"count", "work"}
    BY <1>1, <1>2 DEF WorkerTake, Pool!Take, BaseInv, ControlInv
  <2>2. QED BY <1>1, <2>1 DEF Reached
<1>3. CASE WorkerReturn(w)
  <2>1. tpc[w] = "end" /\ done' = done \cup {task[w]} /\ tpc'[w] = "idle"
    BY <1>1, <1>3 DEF WorkerReturn, Pool!Return
  <2>2. QED BY <1>1, <2>1 DEF Reached
<1>4. QED BY <1>2, <1>3

LEMMA ReachedStays ==
  ASSUME NEW P, UNCHANGED <<tpc, task, done>>
  PROVE  Reached(P)' = Reached(P)
BY DEF Reached

--------------------------------------------------------------------------------
(* The end of the join: the counter, the flag and the pool's stop. *)

\* The join tasks that have incremented the counter.
CountedPcs == {"signal", "notify", "grab", "moveout", "join", "release", "end"}
Counted    == Reached(CountedPcs)

\* Somebody has seen the counter reach join_exp.
Complete == finished \/ \E w \in Workers : tpc[w] \in {"signal", "notify"}

\* main finishes the pool only when it has seen the flag.
FinishInv ==
  /\ mpc \in {"finish", "returned"} => finished
  /\ fpc # "idle" => mpc \in {"finish", "returned"}
  /\ fpc = "returned" <=> mpc = "returned"

\* The counter counts the join tasks, each of them once, and the one that gets the
\* last number is the last.
CountInv ==
  /\ \A w \in Workers : tpc[w] = "work" => task[w] \notin JoinTasks
  /\ join_count = Cardinality(Counted)
  /\ RadixPasses # 0 /\ Complete => JoinTasks \subseteq Counted

LEMMA CountInvInit == Init => FinishInv /\ CountInv
<1> SUFFICES ASSUME Init
             PROVE  FinishInv /\ CountInv
  OBVIOUS
<1>1. /\ mpc = "partition" /\ fpc = "idle" /\ done = {} /\ join_count = 0 /\ finished = FALSE
      /\ \A w \in Workers : tpc[w] = "idle"
  BY DEF Init, Pool!Init
<1>2. Counted = {}
  BY <1>1 DEF Counted, CountedPcs, Reached
<1>3. Cardinality(Counted) = 0
  BY <1>2, FS_EmptySet
<1>4. ~Complete
  BY <1>1 DEF Complete
<1>5. QED BY <1>1, <1>3, <1>4 DEF FinishInv, CountInv

LEMMA FinishInvNext ==
  ASSUME BaseInv, FinishInv, [Next]_vars
  PROVE  FinishInv'
<1> USE DEF FinishInv
<1>1. CASE MainEnqueue
  BY <1>1 DEF MainEnqueue, Pool!Enqueue, stateVars
<1>2. CASE MainBarrier \/ MainAwait \/ MainSpuriousWake
  BY <1>2 DEF MainBarrier, MainAwait, MainSpuriousWake, poolVars, stateVars
<1>3. CASE MainCheck
  BY <1>3 DEF MainCheck, poolVars, stateVars
<1>4. CASE MainFinish \/ MainReturn
  BY <1>4 DEF MainFinish, MainReturn, Pool!FinishStop, Pool!FinishNotifyAll,
              Pool!FinishJoin, mainVars, stateVars
<1>5. ASSUME NEW w \in Workers, WorkerTake(w) \/ WorkerSleep(w) \/ WorkerExit(w) \/ WorkerReturn(w)
      PROVE  FinishInv'
  BY <1>5 DEF WorkerTake, WorkerSleep, WorkerExit, WorkerReturn, Pool!Take, Pool!Wait,
              Pool!SpuriousWake, Pool!Exit, Pool!Return, mainVars, stateVars
<1>6. ASSUME NEW w \in Workers, Spawn(w) \/ SpawnThrows(w)
      PROVE  FinishInv'
  BY <1>6 DEF Spawn, SpawnThrows, Pool!Enqueue, Pool!Refuse, mainVars, stateVars
<1>7. ASSUME NEW w \in Workers,
             \/ Work(w) \/ Count(w) \/ Signal(w) \/ NotifyMain(w)
             \/ Grab(w) \/ MoveOut(w) \/ MoveIn(w) \/ Release(w)
      PROVE  FinishInv'
  <2>1. /\ fpc' = fpc /\ (mpc' = mpc \/ (mpc = "sleep" /\ mpc' = "check"))
        /\ finished' = finished \/ finished' = TRUE
    BY <1>7 DEF Work, Count, Signal, NotifyMain, Grab, MoveOut, MoveIn, Release, poolVars,
                mainVars, stateVars
  <2>2. QED BY <2>1
<1>8. CASE \E th \in Workers \cup {main} : NotifyOne(th)
  BY <1>8 DEF NotifyOne, Pool!NotifyOne, mainVars, stateVars
<1>9. CASE UNCHANGED vars
  BY <1>9 DEF vars, poolVars, mainVars, stateVars
<1>10. QED BY <1>1, <1>2, <1>3, <1>4, <1>5, <1>6, <1>7, <1>8, <1>9
           DEF Next, MainStep, TaskStep, Terminated

\* One more join task is counted, and nobody else has counted it.
LEMMA CountCounts ==
  ASSUME BaseInv, PP!PlaceInv, CountInv, NEW w \in Workers, Count(w)
  PROVE  CountInv'
<1>1. /\ tpc[w] = "count" /\ task[w] \in JoinTasks
      /\ UNCHANGED <<task, done, finished>> /\ join_count' = join_count + 1
  BY DEF Count, BaseInv, ControlInv, JoinPcs, poolVars
<1>2. PICK next \in {"signal", "grab", "end"} :
        /\ tpc' = [tpc EXCEPT ![w] = next]
        /\ next = "signal" => join_count' = join_exp
  BY DEF Count, JoinOrSkip
<1>3. Counted' = Counted \cup {task[w]} /\ task[w] \notin Counted
  <2>1. /\ Reached(CountedPcs)' = Reached(CountedPcs) \cup {task[w]}
        /\ task[w] \notin Reached(CountedPcs)
    BY <1>1, <1>2, ReachedMove DEF CountedPcs
  <2>2. QED BY <2>1 DEF Counted
<1>4. IsFiniteSet(Counted) /\ Counted' \subseteq JoinTasks
  <2>1. Counted \subseteq JoinTasks /\ Counted' \subseteq JoinTasks
    BY DEF Counted, Reached, JoinTasks
  <2>2. QED BY <2>1, JoinTaskCount, FS_Subset
<1>5. join_count' = Cardinality(Counted')
  BY <1>1, <1>3, <1>4, FS_AddElement DEF CountInv
<1>6. \A v \in Workers : tpc'[v] = "work" => task'[v] \notin JoinTasks
  BY <1>1, <1>2 DEF CountInv, BaseInv, TypeOK
<1>7. ASSUME RadixPasses # 0, Complete'
      PROVE  JoinTasks' \subseteq Counted'
  <2>1. Complete \/ next = "signal"
    BY <1>1, <1>2, <1>7 DEF Complete, BaseInv, TypeOK
  <2>2. CASE Complete
    BY <1>3, <1>7, <2>2 DEF CountInv, JoinTasks
  <2>3. CASE next = "signal"
    <3>1. Cardinality(Counted') = Cardinality(JoinTasks)
      BY <1>2, <1>5, <1>7, <2>3, JoinTaskCount
    <3>2. Counted' = JoinTasks
      BY <1>4, <3>1, JoinTaskCount, FS_Subset
    <3>3. QED BY <3>2 DEF JoinTasks
  <2>4. QED BY <2>1, <2>2, <2>3
<1>8. QED BY <1>5, <1>6, <1>7 DEF CountInv

\* No other step counts.
LEMMA CountKept ==
  ASSUME CountInv, Counted' = Counted, join_count' = join_count, Complete' => Complete,
         \A w \in Workers : tpc'[w] = "work" => task'[w] \notin JoinTasks
  PROVE  CountInv'
BY DEF CountInv, JoinTasks

LEMMA CountInvNext ==
  ASSUME BaseInv, PP!PlaceInv, CountInv, [Next]_vars
  PROVE  CountInv'
<1>1. tpc \in [Workers -> {"idle", "work", "spawn", "count", "signal", "notify",
                           "grab", "moveout", "join", "release", "end"}]
      /\ task \in [Workers -> AllTasks \cup {NoTask}]
  BY DEF BaseInv, TypeOK, Pool!TypeOK
<1>2. CASE UNCHANGED <<tpc, task, kids, done, stateVars>>
  <2>1. Counted' = Counted
    BY <1>2, ReachedStays DEF Counted
  <2>2. QED BY <1>2, <2>1, CountKept DEF CountInv, Complete, stateVars
<1>3. ASSUME NEW w \in Workers, WorkerTake(w) \/ WorkerReturn(w)
      PROVE  CountInv'
  <2>1. UNCHANGED <<join_count, finished>>
    BY <1>3 DEF WorkerTake, WorkerReturn, stateVars
  <2>2. Counted' = Counted
    <3>1. CountedPcs \cap {"idle", "count", "work"} = {} /\ "end" \in CountedPcs
      BY DEF CountedPcs
    <3>2. QED BY <1>3, <3>1, ReachedTurn DEF Counted
  <2>3. /\ \A v \in Workers \ {w} : tpc'[v] = tpc[v] /\ task'[v] = task[v]
        /\ tpc'[w] = "work" => task'[w].op # "join"
        /\ tpc'[w] \in {"count", "work", "idle"}
    <3>1. CASE WorkerTake(w)
      BY <1>1, <3>1 DEF WorkerTake, Pool!Take
    <3>2. CASE WorkerReturn(w)
      BY <1>1, <3>2 DEF WorkerReturn, Pool!Return
    <3>3. QED BY <1>3, <3>1, <3>2
  <2>4. \A t \in JoinTasks : t.op = "join"
    BY DEF JoinTasks, JoinTask
  <2>5. \A v \in Workers : tpc'[v] = "work" => task'[v] \notin JoinTasks
    BY <2>3, <2>4 DEF CountInv
  <2>6. Complete' => Complete
    BY <2>1, <2>3 DEF Complete
  <2>7. QED BY <2>1, <2>2, <2>5, <2>6, CountKept
<1>4. ASSUME NEW w \in Workers, Work(w) \/ Spawn(w) \/ SpawnThrows(w)
      PROVE  CountInv'
  <2>1. /\ UNCHANGED <<join_count, finished, task, done>>
        /\ tpc[w] \in {"work", "spawn"}
        /\ \E next \in {"spawn", "end"} : tpc' = [tpc EXCEPT ![w] = next]
    BY <1>4 DEF Work, Spawn, SpawnThrows, Pool!Enqueue, Pool!Refuse, poolVars, stateVars
  <2>2. task[w] \notin JoinTasks
    <3>1. CASE tpc[w] = "work"
      BY <3>1 DEF CountInv
    <3>2. CASE tpc[w] = "spawn"
      BY <3>2, Spawning DEF ChildCount, JoinTasks, JoinTask
    <3>3. QED BY <2>1, <3>1, <3>2
  <2>3. Reached(CountedPcs)' = Reached(CountedPcs)
    BY <2>1, <2>2, ReachedMove DEF CountedPcs
  <2>4. Counted' = Counted
    BY <2>3 DEF Counted
  <2>5. (Complete' => Complete) /\ \A v \in Workers : tpc'[v] = "work" => task'[v] \notin JoinTasks
    BY <1>1, <2>1 DEF Complete, CountInv
  <2>6. QED BY <2>1, <2>4, <2>5, CountKept
<1>5. ASSUME NEW w \in Workers,
             \/ Signal(w) \/ NotifyMain(w) \/ Grab(w) \/ MoveOut(w) \/ MoveIn(w) \/ Release(w)
      PROVE  CountInv'
  <2>1. /\ UNCHANGED <<join_count, task, done>>
        /\ tpc[w] \in CountedPcs
        /\ \E next \in CountedPcs \ {"signal"} :
             /\ tpc' = [tpc EXCEPT ![w] = next]
             /\ next = "notify" => tpc[w] = "signal"
        /\ finished' = finished \/ tpc[w] = "signal"
    BY <1>5 DEF Signal, NotifyMain, JoinOrSkip, Grab, MoveOut, MoveIn, Release, poolVars,
                stateVars, CountedPcs
  <2>2. Reached(CountedPcs)' = Reached(CountedPcs)
    BY <2>1, ReachedMove DEF CountedPcs
  <2>3. Counted' = Counted
    BY <2>2 DEF Counted
  <2>4. \A v \in Workers : tpc'[v] = "work" => task'[v] \notin JoinTasks
    BY <1>1, <2>1 DEF CountInv, CountedPcs
  <2>5. Complete' => Complete
    BY <1>1, <2>1 DEF Complete
  <2>6. QED BY <2>1, <2>3, <2>4, <2>5, CountKept
<1>6. QED BY <1>2, <1>3, <1>4, <1>5, CountCounts, StepsOfTasks DEF TaskStep

LEMMA CountInvariant == Spec => [](FinishInv /\ CountInv)
<1>1. BaseInv /\ PP!PlaceInv /\ FinishInv /\ CountInv /\ [Next]_vars => (FinishInv /\ CountInv)'
  BY FinishInvNext, CountInvNext
<1>2. QED BY <1>1, CountInvInit, BaseInvariant, PlaceInvariantOfPool, PTL DEF Spec

LEMMA PhaseInvariantOfPool == Spec => []PP!PhaseInv
BY UsesPool, SameSpec, PoolConstants, PP!PhaseInvariant, PTL

\* When the pool is stopped the last join task has been counted, all join tasks have
\* been accepted, and so have all tasks before them.
LEMMA StoppedLast ==
  ASSUME RadixPasses # 0, BaseInv, PP!PlaceInv, PP!PhaseInv, TreeInv, FinishInv, CountInv
  PROVE  StopAfterLastEnqueue
<1> SUFFICES ASSUME stop
             PROVE  AllTasks \subseteq accepted
  BY DEF StopAfterLastEnqueue
<1>1. finished
  BY DEF PP!PhaseInv, FinishInv
<1>2. JoinTasks \subseteq Counted
  BY <1>1 DEF CountInv, Complete
<1>3. JoinTasks \subseteq accepted
  BY <1>2, TasksHeld, WorkedIsAccepted DEF Counted, CountedPcs, Reached
<1>4. ASSUME NEW t \in AllTasks, t \notin JoinTasks
      PROVE  t \in accepted
  <2>1. PICK u \in JoinTasks : Precedes(t, u)
    BY <1>4, JoinTaskAfter
  <2>2. u \in Announced
    BY <1>3 DEF Announced
  <2>3. QED BY <1>4, <2>1, <2>2, WorkedIsAccepted DEF TreeInv, OrderInv
<1>5. QED BY <1>3, <1>4

\* With at least one pass, the pool is stopped only after the last of all tasks was
\* enqueued, for every number of threads, bits and passes.  (With no pass it is not,
\* because the first join task to finish reaches join_exp, which is 1.)
THEOREM StopsAfterLastEnqueue ==
  ASSUME RadixPasses # 0
  PROVE  Spec => []StopAfterLastEnqueue
BY StoppedLast, BaseInvariant, PlaceInvariantOfPool, PhaseInvariantOfPool, TreeInvariant,
   CountInvariant, PTL

\* So no task of the join ever meets the exception of ThreadPool.h:102, which would
\* be left in a future that nobody asks.
THEOREM NothingRefused ==
  ASSUME RadixPasses # 0
  PROVE  Spec => [](refused = {})
<1>1. Init => refused = {}
  BY DEF Init, Pool!Init
<1>2. BaseInv /\ PP!PlaceInv /\ StopAfterLastEnqueue /\ refused = {} /\ [Next]_vars
        => (refused = {})'
  <2> SUFFICES ASSUME BaseInv, PP!PlaceInv, StopAfterLastEnqueue, refused = {}, [Next]_vars
               PROVE  refused' = {}
    OBVIOUS
  <2>1. CASE UNCHANGED PP!poolVars
    BY <2>1 DEF PP!poolVars
  <2>2. ASSUME NEW th \in PP!Threads, NEW t \in AllTasks, PP!Refuse(th, t)
        PROVE  FALSE
    BY <2>2 DEF PP!Refuse, StopAfterLastEnqueue
  <2>3. CASE PP!Next
    BY <2>2, <2>3 DEF PP!Next, PP!Take, PP!Wait, PP!Exit, PP!SpuriousWake, PP!Return,
                      PP!Enqueue, PP!NotifyOne, PP!FinishStop, PP!FinishNotifyAll,
                      PP!FinishJoin, PP!Terminated, PP!poolVars
  <2>4. QED BY <2>1, <2>3, PoolStep
<1>3. Spec => []StopAfterLastEnqueue
  BY StopsAfterLastEnqueue
<1>4. QED BY <1>1, <1>2, <1>3, BaseInvariant, PlaceInvariantOfPool, PTL DEF Spec

--------------------------------------------------------------------------------
(* The output of the join tasks. *)

\* The join tasks whose output, if there is any, is in a result vector.
AppendedPcs == {"release", "end"}
Appended    == Reached(AppendedPcs)

\* The leaves whose output exists, in a result vector or in a nop_join's own one.
Joined == UNION ({results[i] : i \in Indices} \cup {output[w] : w \in Workers})

\* Only the join tasks of filled leaves take a buffer, ...
PickedInv ==
  \A w \in Workers : tpc[w] \in {"grab", "moveout", "join", "release"} => task[w].of \in filled

\* ... which is empty just while its contents are moved out to the nop_join, ...
MovedInv ==
  \A w \in Workers : /\ output[w] # {} => tpc[w] = "join"
                     /\ tpc[w] = "join" => results[index[w]] = {}

\* ... and no output is in two places.
SeparateInv ==
  /\ \A i, j \in Indices : i # j => results[i] \cap results[j] = {}
  /\ \A i \in Indices, w \in Workers : results[i] \cap output[w] = {}
  /\ \A v, w \in Workers : v # w => output[v] \cap output[w] = {}

\* What the join tasks have appended is all there, unless it is gone.  Nothing ever
\* goes here, but RadixFaults.tla has failures that destroy output.
Handled == {p \in filled : JoinTask(p) \in Appended}
JoinedInv(gone) == gone \subseteq Handled /\ Joined = Handled \ gone

ResultInv(gone) == PickedInv /\ MovedInv /\ SeparateInv /\ JoinedInv(gone)

\* Two workers do not hold the same buffer.
HeldApart == \A v, w \in Holders : index[v] = index[w] => v = w

LEMMA BuffersApart ==
  /\ BuffersExclusive => HeldApart
  /\ \A avail : BuffersAre(avail) => HeldApart
BY DEF BuffersExclusive, BuffersAre, HeldApart

LEMMA ResultInvInit == Init => ResultInv({})
<1> SUFFICES ASSUME Init
             PROVE  ResultInv({})
  OBVIOUS
<1>1. /\ \A w \in Workers : tpc[w] = "idle" /\ output[w] = {}
      /\ \A i \in Indices : results[i] = {}
      /\ done = {}
  BY DEF Init, Pool!Init
<1>2. Appended = {} /\ Joined = {}
  BY <1>1 DEF Appended, AppendedPcs, Reached, Joined
<1>3. QED BY <1>1, <1>2 DEF ResultInv, PickedInv, MovedInv, SeparateInv, JoinedInv, Handled

\* A step of worker w that moves no output.
LEMMA ResultKept ==
  ASSUME NEW gone, ResultInv(gone), UNCHANGED <<output, results, filled>>, NEW w \in Workers,
         \A v \in Workers \ {w} : tpc'[v] = tpc[v] /\ task'[v] = task[v] /\ index'[v] = index[v],
         tpc[w] # "join", tpc'[w] # "join",
         tpc'[w] \in {"grab", "moveout", "release"} => task'[w].of \in filled,
         \A p \in filled : JoinTask(p) \in Appended' <=> JoinTask(p) \in Appended
  PROVE  ResultInv(gone)'
<1>1. PickedInv'
  BY DEF ResultInv, PickedInv
<1>2. MovedInv'
  BY DEF ResultInv, MovedInv
<1>3. SeparateInv'
  BY DEF ResultInv, SeparateInv, Indices
<1>4. JoinedInv(gone)'
  <2>1. Joined' = Joined
    BY DEF Joined, Indices
  <2>2. QED BY <2>1 DEF ResultInv, JoinedInv, Handled, JoinTask
<1>5. QED BY <1>1, <1>2, <1>3, <1>4 DEF ResultInv

\* The path of a join task names it.
LEMMA JoinTaskOf ==
  /\ \A t \in JoinTasks : t = JoinTask(t.of) /\ t.of \in Leaves
  /\ \A p : JoinTask(p).of = p
BY DEF JoinTasks, JoinTask

LEMMA ResultTurn ==
  ASSUME BaseInv, PP!PlaceInv, NEW gone, ResultInv(gone), NEW w \in Workers, WorkerTake(w) \/ WorkerReturn(w)
  PROVE  ResultInv(gone)'
<1>1. UNCHANGED <<index, output, results, filled>>
  BY DEF WorkerTake, WorkerReturn, stateVars
<1>2. /\ tpc[w] \in {"idle", "end"} /\ tpc'[w] \in {"count", "work", "idle"}
      /\ \A v \in Workers \ {w} : tpc'[v] = tpc[v] /\ task'[v] = task[v]
  <2>1. /\ DOMAIN tpc = Workers
        /\ \A v \in Workers \ {w} : tpc'[v] = tpc[v] /\ task'[v] = task[v]
    BY TaskStepFrame DEF BaseInv, TypeOK, TaskStep
  <2>2. CASE WorkerTake(w)
    BY <2>1, <2>2 DEF WorkerTake, Pool!Take, BaseInv, ControlInv
  <2>3. CASE WorkerReturn(w)
    BY <2>1, <2>3 DEF WorkerReturn
  <2>4. QED BY <2>1, <2>2, <2>3
<1>3. Appended' = Appended
  <2>1. AppendedPcs \cap {"idle", "count", "work"} = {} /\ "end" \in AppendedPcs
    BY DEF AppendedPcs
  <2>2. QED BY <2>1, ReachedTurn DEF Appended
<1>4. QED BY <1>1, <1>2, <1>3, ResultKept

\* Worker w goes on in its task, and moves no output.
LEMMA ResultMove ==
  ASSUME BaseInv, PP!PlaceInv, NEW gone, ResultInv(gone), NEW w \in Workers, NEW next,
         tpc' = [tpc EXCEPT ![w] = next], UNCHANGED <<task, done, output, results, filled>>,
         \A v \in Workers \ {w} : index'[v] = index[v],
         tpc[w] \notin {"idle", "join"}, next \notin {"idle", "join"},
         next \in {"grab", "moveout", "release"} => task[w].of \in filled,
         \/ tpc[w] \in AppendedPcs <=> next \in AppendedPcs
         \/ task[w] \notin JoinTasks
         \/ next \in AppendedPcs /\ tpc[w] \notin AppendedPcs /\ task[w].of \notin filled
  PROVE  ResultInv(gone)'
<1>1. tpc'[w] = next /\ \A v \in Workers \ {w} : tpc'[v] = tpc[v] /\ task'[v] = task[v]
  BY DEF BaseInv, TypeOK
<1>2. "idle" \notin AppendedPcs
  BY DEF AppendedPcs
<1>3. Appended' = Appended \/ (Appended' = Appended \cup {task[w]} /\ task[w].of \notin filled)
  BY <1>2, ReachedMove DEF Appended
<1>4. \A p \in filled : JoinTask(p) \in Appended' <=> JoinTask(p) \in Appended
  BY <1>3, JoinTaskOf
<1>5. QED BY <1>1, <1>4, ResultKept

\* The nop_join takes the contents of the buffer, ...
LEMMA ResultOut ==
  ASSUME BaseInv, PP!PlaceInv, NEW gone, ResultInv(gone), HeldApart,
         NEW w \in Workers, MoveOut(w)
  PROVE  ResultInv(gone)' /\ Joined' = Joined
<1> DEFINE i == index[w]
<1>1. /\ tpc[w] = "moveout" /\ UNCHANGED <<task, done, index, filled>>
      /\ tpc' = [tpc EXCEPT ![w] = "join"]
      /\ output' = [output EXCEPT ![w] = results[i]]
      /\ results' = [results EXCEPT ![i] = {}]
  BY DEF MoveOut, poolVars
<1>2. /\ output \in [Workers -> SUBSET Leaves] /\ results \in [Indices -> SUBSET Leaves]
      /\ tpc'[w] = "join" /\ \A v \in Workers \ {w} : tpc'[v] = tpc[v]
  BY <1>1 DEF BaseInv, TypeOK
<1>3. i \in Indices /\ \A v \in Workers \ {w} : tpc[v] = "join" => index[v] # i /\ index[v] \in Indices
  BY <1>1 DEF BaseInv, ControlInv, HeldApart, Holders
<1>4. output[w] = {}
  BY <1>1 DEF ResultInv, MovedInv
<1> HIDE DEF i
<1>5. /\ output'[w] = results[i] /\ \A v \in Workers \ {w} : output'[v] = output[v]
      /\ results'[i] = {} /\ \A j \in Indices \ {i} : results'[j] = results[j]
  BY <1>1, <1>2, <1>3
<1>6. PickedInv'
  BY <1>1, <1>2 DEF ResultInv, PickedInv
<1>7. MovedInv'
  BY <1>1, <1>2, <1>3, <1>5 DEF ResultInv, MovedInv, i
<1>8. SeparateInv'
  BY <1>3, <1>5 DEF ResultInv, SeparateInv, Indices
<1>9. Joined' = Joined
  <2>1. ASSUME NEW p
        PROVE  p \in Joined' <=> p \in Joined
    <3>1. p \in Joined <=> (\E j \in Indices : p \in results[j]) \/ \E v \in Workers : p \in output[v]
      BY DEF Joined
    <3>2. p \in Joined' <=> (\E j \in Indices : p \in results'[j]) \/ \E v \in Workers : p \in output'[v]
      BY DEF Joined, Indices
    <3>3. QED BY <1>3, <1>4, <1>5, <3>1, <3>2
  <2>2. QED BY <2>1
<1>10. JoinedInv(gone)'
  <2>1. Reached(AppendedPcs)' = Reached(AppendedPcs)
    BY <1>1, ReachedMove DEF AppendedPcs
  <2>2. QED BY <1>1, <1>9, <2>1 DEF ResultInv, JoinedInv, Handled, JoinTask, Appended
<1>11. QED BY <1>6, <1>7, <1>8, <1>9, <1>10 DEF ResultInv

\* ... appends the output of the leaf, and has it moved back.
LEMMA ResultIn ==
  ASSUME BaseInv, PP!PlaceInv, NEW gone, ResultInv(gone), HeldApart,
         NEW w \in Workers, MoveIn(w)
  PROVE  /\ ResultInv(gone)'
         /\ task[w].of \in filled \ Joined /\ task[w].of \in Leaves
         /\ Joined' = Joined \cup {task[w].of}
<1> DEFINE i == index[w]
           leaf == task[w].of
<1>1. /\ tpc[w] = "join" /\ UNCHANGED <<task, done, index, filled>>
      /\ tpc' = [tpc EXCEPT ![w] = "release"]
      /\ output' = [output EXCEPT ![w] = {}]
      /\ results' = [results EXCEPT ![i] = output[w] \cup {leaf}]
  BY DEF MoveIn, poolVars
<1>2. /\ output \in [Workers -> SUBSET Leaves] /\ results \in [Indices -> SUBSET Leaves]
      /\ tpc'[w] = "release" /\ \A v \in Workers \ {w} : tpc'[v] = tpc[v]
  BY <1>1 DEF BaseInv, TypeOK
<1>3. i \in Indices /\ \A v \in Workers \ {w} : tpc[v] = "join" => index[v] # i /\ index[v] \in Indices
  BY <1>1 DEF BaseInv, ControlInv, HeldApart, Holders
<1>4. results[i] = {} /\ leaf \in filled
  BY <1>1 DEF ResultInv, MovedInv, PickedInv
<1>5. task[w] \in JoinTasks /\ task[w] = JoinTask(leaf) /\ leaf \in Leaves
  BY <1>1, JoinTaskOf DEF BaseInv, ControlInv, JoinPcs
<1>6. Appended' = Appended \cup {JoinTask(leaf)} /\ JoinTask(leaf) \notin Appended
  <2>1. /\ Reached(AppendedPcs)' = Reached(AppendedPcs) \cup {task[w]}
        /\ task[w] \notin Reached(AppendedPcs)
    BY <1>1, <1>5, ReachedMove DEF AppendedPcs
  <2>2. QED BY <1>5, <2>1 DEF Appended
<1> HIDE DEF i, leaf
<1>7. /\ output'[w] = {} /\ \A v \in Workers \ {w} : output'[v] = output[v]
      /\ results'[i] = output[w] \cup {leaf}
      /\ \A j \in Indices \ {i} : results'[j] = results[j]
  BY <1>1, <1>2, <1>3
<1>8. leaf \notin Joined
  BY <1>6 DEF ResultInv, JoinedInv, Handled
<1>9. \A p : p \in Joined <=> (\E j \in Indices : p \in results[j]) \/ \E v \in Workers : p \in output[v]
  BY DEF Joined
<1>10. Joined' = Joined \cup {leaf}
  <2>1. ASSUME NEW p
        PROVE  p \in Joined' <=> p \in Joined \/ p = leaf
    <3>1. p \in Joined' <=> (\E j \in Indices : p \in results'[j]) \/ \E v \in Workers : p \in output'[v]
      BY DEF Joined, Indices
    <3>2. QED BY <1>3, <1>4, <1>7, <1>9, <3>1
  <2>2. QED BY <2>1
<1>11. PickedInv'
  BY <1>1, <1>2, <1>4 DEF ResultInv, PickedInv, leaf
<1>12. MovedInv'
  BY <1>1, <1>2, <1>3, <1>7 DEF ResultInv, MovedInv, i
<1>13. SeparateInv'
  <2>1. (\A j \in Indices : leaf \notin results[j]) /\ \A v \in Workers : leaf \notin output[v]
    BY <1>8, <1>9
  <2>2. QED BY <1>3, <1>7, <2>1 DEF ResultInv, SeparateInv, Indices
<1>14. JoinedInv(gone)'
  <2>1. \A p \in filled : JoinTask(p) = JoinTask(leaf) => p = leaf
    BY JoinTaskOf
  <2>2. Handled' = Handled \cup {leaf} /\ leaf \notin Handled
    BY <1>1, <1>4, <1>6, <2>1 DEF Handled, JoinTask
  <2>3. QED BY <1>10, <2>2 DEF ResultInv, JoinedInv
<1>15. ResultInv(gone)'
  BY <1>11, <1>12, <1>13, <1>14 DEF ResultInv
<1>16. QED BY <1>4, <1>5, <1>8, <1>10, <1>15 DEF leaf

\* All other steps produce no output, and leave what there is where it is.
LEMMA ResultStays ==
  ASSUME BaseInv, PP!PlaceInv, CountInv, NEW gone, ResultInv(gone), HeldApart, [Next]_vars,
         \A w \in Workers : ~MoveIn(w)
  PROVE  ResultInv(gone)' /\ Joined' = Joined
<1>1. CASE UNCHANGED <<tpc, task, kids, done, index, output, stateVars, filled>>
  <2>1. Appended' = Appended /\ Joined' = Joined
    BY <1>1, ReachedStays DEF Appended, Joined, Indices, stateVars
  <2>2. UNCHANGED <<tpc, task, index, output, results, filled>>
    BY <1>1 DEF stateVars
  <2>3. QED BY <2>1, <2>2
            DEF ResultInv, PickedInv, MovedInv, SeparateInv, JoinedInv, Handled, JoinTask,
                Indices
<1>2. ASSUME NEW w \in Workers, MoveOut(w)
      PROVE  ResultInv(gone)' /\ Joined' = Joined
  BY <1>2, ResultOut
<1>3. ASSUME NEW w \in Workers, WorkerTake(w) \/ WorkerReturn(w)
      PROVE  ResultInv(gone)' /\ UNCHANGED <<output, results>>
  BY <1>3, ResultTurn DEF WorkerTake, WorkerReturn, stateVars
<1>4. ASSUME NEW w \in Workers, Work(w) \/ Spawn(w) \/ SpawnThrows(w)
      PROVE  ResultInv(gone)' /\ UNCHANGED <<output, results>>
  <2>1. /\ UNCHANGED <<task, done, index, output, results, filled>>
        /\ tpc[w] \in {"work", "spawn"}
        /\ \E next \in {"spawn", "end"} : tpc' = [tpc EXCEPT ![w] = next]
    BY <1>4 DEF Work, Spawn, SpawnThrows, Pool!Enqueue, Pool!Refuse, poolVars, stateVars
  <2>2. task[w] \notin JoinTasks
    <3>1. CASE tpc[w] = "work"
      BY <3>1 DEF CountInv
    <3>2. CASE tpc[w] = "spawn"
      BY <3>2, Spawning DEF ChildCount, JoinTasks, JoinTask
    <3>3. QED BY <2>1, <3>1, <3>2
  <2>3. QED BY <2>1, <2>2, ResultMove
<1>5. ASSUME NEW w \in Workers, Count(w) \/ Signal(w) \/ NotifyMain(w)
      PROVE  ResultInv(gone)' /\ UNCHANGED <<output, results>>
  <2>1. /\ UNCHANGED <<task, done, index, output, results, filled>>
        /\ tpc[w] \in {"count", "signal", "notify"}
        /\ \E next \in {"signal", "notify", "grab", "end"} :
             /\ tpc' = [tpc EXCEPT ![w] = next]
             /\ next = "grab" => task[w].of \in filled
             /\ next = "end" => task[w].of \notin filled
    BY <1>5 DEF Count, Signal, NotifyMain, JoinOrSkip, poolVars, stateVars
  <2>2. QED BY <2>1, ResultMove DEF AppendedPcs
<1>6. ASSUME NEW w \in Workers, Grab(w) \/ Release(w)
      PROVE  ResultInv(gone)' /\ UNCHANGED <<output, results>>
  <2>1. /\ UNCHANGED <<task, done, output, results, filled>>
        /\ \A v \in Workers \ {w} : index'[v] = index[v]
        /\ \/ tpc[w] = "grab" /\ tpc' = [tpc EXCEPT ![w] = "moveout"]
           \/ tpc[w] = "release" /\ tpc' = [tpc EXCEPT ![w] = "end"]
    BY <1>6 DEF Grab, Release, poolVars, BaseInv, TypeOK
  <2>2. tpc[w] = "grab" => task[w].of \in filled
    BY DEF ResultInv, PickedInv
  <2>3. QED BY <2>1, <2>2, ResultMove DEF AppendedPcs
<1>7. UNCHANGED <<output, results>> => Joined' = Joined
  BY DEF Joined, Indices
<1>8. QED BY <1>1, <1>2, <1>3, <1>4, <1>5, <1>6, <1>7, StepsOfTasks DEF TaskStep

LEMMA ResultInvNext ==
  ASSUME BaseInv, PP!PlaceInv, CountInv, NEW gone, ResultInv(gone), HeldApart, [Next]_vars
  PROVE  ResultInv(gone)'
BY ResultIn, ResultStays

LEMMA ResultInvariant == Spec => []ResultInv({})
<1>1. IInv /\ PP!PlaceInv /\ CountInv /\ ResultInv({}) /\ [Next]_vars => ResultInv({})'
  BY BuffersApart, ResultInvNext DEF IInv
<1>2. QED BY <1>1, ResultInvInit, IInvInvariant, PlaceInvariantOfPool, CountInvariant, PTL
          DEF Spec

\* The filled leaves whose join tasks the pool has accepted.
AcceptedLeaves == {p \in filled : JoinTask(p) \in accepted}

\* Once every worker has left the pool, all accepted join tasks have returned, and the output
\* of their leaves is in the result vectors.
LEMMA ExitedIsAccepted ==
  ASSUME BaseInv, PP!PlaceInv, PP!PhaseInv, NEW gone, ResultInv(gone),
         \A w \in Workers : wpc[w] = "exited"
  PROVE  /\ Joined = AcceptedLeaves \ gone /\ gone \subseteq AcceptedLeaves
         /\ \A w \in Workers : output[w] = {}
<1>1. stop /\ tasks = <<>>
  BY RadixAssumption DEF PP!PhaseInv
<1>2. PP!Queued = {} /\ PP!Running = {}
  BY <1>1 DEF PP!Queued, PP!Running, PP!At, PP!Range
<1>3. accepted = done
  BY <1>2 DEF PP!PlaceInv, PP!ExactlyOnce
<1>4. \A w \in Workers : tpc[w] = "idle"
  BY DEF BaseInv, ControlInv
<1>5. Appended = JoinTasks \cap accepted
  BY <1>3, <1>4 DEF Appended, Reached, AppendedPcs
<1>6. \A p \in filled : JoinTask(p) \in JoinTasks
  BY DEF BaseInv, TypeOK, JoinTasks
<1>7. Handled = AcceptedLeaves
  BY <1>5, <1>6 DEF Handled, AcceptedLeaves
<1>8. QED BY <1>4, <1>7 DEF ResultInv, JoinedInv, MovedInv

\* If all tasks were accepted that is every filled leaf.
LEMMA ExitedIsComplete ==
  ASSUME BaseInv, PP!PlaceInv, PP!PhaseInv, NEW gone, ResultInv(gone), StopAfterLastEnqueue,
         \A w \in Workers : wpc[w] = "exited"
  PROVE  /\ Joined = filled \ gone /\ gone \subseteq filled
         /\ \A w \in Workers : output[w] = {}
<1>1. stop
  BY RadixAssumption DEF PP!PhaseInv
<1>2. \A p \in filled : JoinTask(p) \in AllTasks
  BY DEF BaseInv, TypeOK, JoinTasks, AllTasks
<1>3. AcceptedLeaves = filled
  BY <1>1, <1>2 DEF AcceptedLeaves, StopAfterLastEnqueue
<1>4. QED BY <1>3, ExitedIsAccepted

\* However early the pool is stopped, when execute() returns the results have the output of
\* the join tasks that were enqueued, each in one vector, for every number of passes, 0 too.
THEOREM AcceptedAreJoined == Spec => []AcceptedJoined
<1>1. BaseInv /\ PP!PlaceInv /\ PP!PhaseInv /\ FinishInv /\ ResultInv({}) => AcceptedJoined
  <2> SUFFICES ASSUME BaseInv, PP!PlaceInv, PP!PhaseInv, FinishInv, ResultInv({}),
                      mpc = "returned"
               PROVE  /\ UNION {results[i] : i \in Indices} = AcceptedLeaves
                      /\ \A i, j \in Indices : i # j => results[i] \cap results[j] = {}
    BY DEF AcceptedJoined, AcceptedLeaves
  <2>1. \A w \in Workers : wpc[w] = "exited"
    BY DEF FinishInv, PP!PhaseInv
  <2>2. Joined = AcceptedLeaves /\ \A w \in Workers : output[w] = {}
    BY <2>1, ExitedIsAccepted
  <2>3. UNION {results[i] : i \in Indices} = Joined
    BY <2>2 DEF Joined
  <2>4. QED BY <2>2, <2>3 DEF ResultInv, SeparateInv
<1>2. QED BY <1>1, BaseInvariant, PlaceInvariantOfPool, PhaseInvariantOfPool, CountInvariant,
             ResultInvariant, PTL

\* When execute() returns, the output of every filled leaf is in one of the result
\* vectors and in one only, for every input, every number of threads, bits and passes,
\* and every way the tasks interleave, provided there is a pass at all.
THEOREM ResultIsComplete ==
  ASSUME RadixPasses # 0
  PROVE  Spec => []ResultsComplete
<1>1. BaseInv /\ PP!PlaceInv /\ PP!PhaseInv /\ FinishInv /\ ResultInv({})
        /\ StopAfterLastEnqueue => ResultsComplete
  <2> SUFFICES ASSUME BaseInv, PP!PlaceInv, PP!PhaseInv, FinishInv, ResultInv({}),
                      StopAfterLastEnqueue, mpc = "returned"
               PROVE  /\ UNION {results[i] : i \in Indices} = filled
                      /\ \A i, j \in Indices : i # j => results[i] \cap results[j] = {}
    BY DEF ResultsComplete
  <2>1. \A w \in Workers : wpc[w] = "exited"
    BY DEF FinishInv, PP!PhaseInv
  <2>2. Joined = filled /\ \A w \in Workers : output[w] = {}
    BY <2>1, ExitedIsComplete
  <2>3. UNION {results[i] : i \in Indices} = Joined
    BY <2>2 DEF Joined
  <2>4. QED BY <2>2, <2>3 DEF ResultInv, SeparateInv
<1>2. Spec => []StopAfterLastEnqueue
  BY StopsAfterLastEnqueue
<1>3. QED BY <1>1, <1>2, BaseInvariant, PlaceInvariantOfPool, PhaseInvariantOfPool,
             CountInvariant, ResultInvariant, PTL

--------------------------------------------------------------------------------
(* The radix join implements the partitioned join. *)

\* The end of a nop_join joins a leaf that was not joined before.
LEMMA MoveInJoins ==
  ASSUME BaseInv, HeldApart, PP!PlaceInv, PP!PhaseInv, FinishInv, ResultInv({}),
         NEW w \in Workers, MoveIn(w)
  PROVE  Promise!Join(task[w].of)
<1>1. /\ task[w].of \in filled \ Joined
      /\ Joined' = Joined \cup {task[w].of}
  BY ResultIn
<1>2. tpc[w] = "join" /\ UNCHANGED <<mpc, filled>>
  BY DEF MoveIn, mainVars
<1>3. mpc # "returned"
  BY <1>2 DEF BaseInv, ControlInv, FinishInv, PP!PhaseInv
<1>4. QED BY <1>1, <1>2, <1>3 DEF Promise!Join, Joined

LEMMA ReturnReturns ==
  ASSUME BaseInv, PP!PlaceInv, PP!PhaseInv, FinishInv, ResultInv({}),
         StopAfterLastEnqueue, MainReturn
  PROVE  Promise!Return
<1>1. /\ \A w \in Workers : wpc[w] = "exited"
      /\ mpc = "finish" /\ mpc' = "returned"
      /\ UNCHANGED <<filled, output, results>>
  BY DEF MainReturn, Pool!FinishJoin, taskVars, stateVars
<1>2. Joined = filled
  BY <1>1, ExitedIsComplete
<1>3. Joined' = Joined
  BY <1>1 DEF Joined, Indices
<1>4. QED BY <1>1, <1>2, <1>3 DEF Promise!Return, Joined

\* The input does not change, and nobody but main returns.
LEMMA ReturnFrame ==
  ASSUME [Next]_vars
  PROVE  filled' = filled /\ (MainReturn \/ (mpc' = "returned" <=> mpc = "returned"))
<1> USE DEF mainVars
<1>1. CASE MainEnqueue \/ MainBarrier \/ MainAwait \/ MainCheck \/ MainSpuriousWake \/ MainFinish
  BY <1>1 DEF MainEnqueue, MainBarrier, MainAwait, MainCheck, MainSpuriousWake, MainFinish
<1>2. CASE MainReturn
  BY <1>2 DEF MainReturn
<1>3. ASSUME NEW w \in Workers, WorkerTake(w) \/ WorkerSleep(w) \/ WorkerExit(w) \/ WorkerReturn(w)
      PROVE  UNCHANGED <<mpc, filled>>
  BY <1>3 DEF WorkerTake, WorkerSleep, WorkerExit, WorkerReturn
<1>4. ASSUME NEW w \in Workers,
             \/ Work(w) \/ Spawn(w) \/ SpawnThrows(w) \/ Count(w) \/ Signal(w)
             \/ Grab(w) \/ MoveOut(w) \/ MoveIn(w) \/ Release(w)
      PROVE  UNCHANGED <<mpc, filled>>
  BY <1>4 DEF Work, Spawn, SpawnThrows, Count, Signal, Grab, MoveOut, MoveIn, Release
<1>5. ASSUME NEW w \in Workers, NotifyMain(w)
      PROVE  filled' = filled /\ (mpc' = "returned" <=> mpc = "returned")
  BY <1>5 DEF NotifyMain, stateVars
<1>6. CASE \E th \in Workers \cup {main} : NotifyOne(th)
  BY <1>6 DEF NotifyOne
<1>7. CASE UNCHANGED vars
  BY <1>7 DEF vars
<1>8. QED BY <1>1, <1>2, <1>3, <1>4, <1>5, <1>6, <1>7
          DEF Next, MainStep, TaskStep, Terminated

\* Every other step is a stutter.
LEMMA OthersStutter ==
  ASSUME BaseInv, HeldApart, PP!PlaceInv, CountInv, ResultInv({}), [Next]_vars, ~MainReturn,
         \A w \in Workers : ~MoveIn(w)
  PROVE  UNCHANGED Promise!vars
<1>1. Joined' = Joined
  BY ResultStays
<1>2. filled' = filled /\ (mpc' = "returned" <=> mpc = "returned")
  BY ReturnFrame
<1>3. (mpc' = "returned") = (mpc = "returned")
  BY <1>2
<1>4. QED BY <1>1, <1>2, <1>3 DEF Promise!vars, Joined

\* The radix join implements the partitioned join: no leaf is joined twice, or without
\* being filled, and execute() does not return before all filled leaves are joined.
THEOREM RadixJoinImplementsPartitionedJoin ==
  ASSUME RadixPasses # 0
  PROVE  Spec => ImplementsPartitionedJoin
<1>1. Init => Promise!Init
  <2> SUFFICES ASSUME Init
               PROVE  Promise!Init
    OBVIOUS
  <2>1. /\ \A w \in Workers : output[w] = {}
        /\ \A i \in Indices : results[i] = {}
        /\ mpc = "partition" /\ filled \subseteq Leaves
    BY DataAssumption DEF Init
  <2>2. QED BY <2>1 DEF Promise!Init
<1>2. IInv /\ PP!PlaceInv /\ PP!PhaseInv /\ FinishInv /\ CountInv /\ ResultInv({})
        /\ StopAfterLastEnqueue /\ [Next]_vars => [Promise!Next]_(Promise!vars)
  <2> SUFFICES ASSUME IInv, PP!PlaceInv, PP!PhaseInv, FinishInv, CountInv, ResultInv({}),
                      StopAfterLastEnqueue, [Next]_vars
               PROVE  [Promise!Next]_(Promise!vars)
    OBVIOUS
  <2>0. BaseInv /\ HeldApart
    BY BuffersApart DEF IInv
  <2>1. ASSUME NEW w \in Workers, MoveIn(w)
        PROVE  Promise!Next
    <3>1. task[w].of \in Leaves
      BY <2>0, <2>1, ResultIn
    <3>2. Promise!Join(task[w].of)
      BY <2>0, <2>1, MoveInJoins
    <3>3. QED BY <3>1, <3>2 DEF Promise!Next, Promise!Join
  <2>2. CASE MainReturn
    BY <2>0, <2>2, ReturnReturns DEF Promise!Next
  <2>3. QED BY <2>0, <2>1, <2>2, OthersStutter
<1>3. Spec => []StopAfterLastEnqueue
  BY StopsAfterLastEnqueue
<1>4. Spec => Promise!Spec
  BY <1>1, <1>2, <1>3, IInvInvariant, PlaceInvariantOfPool, PhaseInvariantOfPool,
     CountInvariant, ResultInvariant, PTL DEF Spec, Promise!Spec
<1>5. QED BY <1>4 DEF ImplementsPartitionedJoin
================================================================================
