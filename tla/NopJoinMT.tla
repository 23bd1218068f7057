------------------------------- MODULE NopJoinMT -------------------------------
(***************************************************************************)
(* The multi-threaded no-partitioning join of                              *)
(* joins/src/algorithms/nop_join_mt.cpp, with the latched hash table of    *)
(* joins/include/algorithms/hash_helpers.h.                                *)
(*                                                                         *)
(* execute() starts a thread for every chunk of the left relation, which   *)
(* inserts its tuples into a shared hash table, joins these threads, and   *)
(* starts a thread for every chunk of the right relation, which probes the *)
(* table and appends the matches to its own result vector.                 *)
(*                                                                         *)
(* The buckets are those of HashTable.tla.  Inserting is a sequence of     *)
(* steps here, because keeping other builders out is what the bucket's     *)
(* latch is for.  Probing with a tuple is one step, because it reads what  *)
(* no thread writes any more and writes what no other thread sees.         *)
(*                                                                         *)
(* A tuple is named by its row; the relations map rows to keys.            *)
(***************************************************************************)
EXTENDS HashTable

CONSTANTS
  Keys,        \* the join attribute's values
  Hash,        \* murmur3
  size,        \* the number of buckets of the table
  threads,     \* the number of threads
  CountBits,   \* the width of a bucket's counter, 32 in the code
  Inputs       \* pairs of relations, each of them a sequence of keys

\* There is a thread and a bucket, execute divides by both, and no chain can become
\* longer than its counter can say.
ASSUME NopAssumption ==
  /\ Hash \in [Keys -> Nat]
  /\ size \in Nat \ {0}
  /\ threads \in Nat \ {0}
  /\ CountBits \in Nat
  /\ \A i \in Inputs : /\ i.left \in Seq(Keys) /\ i.right \in Seq(Keys)
                       /\ Len(i.left) < 2 ^ CountBits

VARIABLES
  left,     \* the left relation
  right,    \* the right relation
  mpc,      \* where execute() is
  started,  \* how many threads of the current phase it has started
  bpc,      \* where each thread is in build()
  bpos,     \* its loop variable k, counted from 1
  ppc,      \* where each thread is in probe()
  ppos,     \* its loop variable k, counted from 1
  latch,    \* the thread that has locked a bucket
  table,    \* the buckets
  result    \* the result vectors: how often each of them holds a pair of rows

input     == <<left, right>>
mainVars  == <<mpc, started>>
buildVars == <<bpc, bpos, latch, table>>
probeVars == <<ppc, ppos, result>>
vars      == <<input, mainVars, buildVars, probeVars>>

LeftRows  == 1 .. Len(left)
RightRows == 1 .. Len(right)
Pairs     == LeftRows \X RightRows

Slots    == 0 .. (threads - 1)
NoThread == threads
Buckets  == 0 .. (size - 1)

Index(key) == Hash[key] % size

\* Mutant of Last: the last thread does not take what the division leaves.
LastNoRest(n, t) == (t + 1) * (n \div threads)

\* The rows First .. Last of n rows are the chunk of thread t; the last chunk takes
\* the rest.
First(n, t) == t * (n \div threads) + 1
Last(n, t)  == IF t = threads - 1 THEN n ELSE (t + 1) * (n \div threads)

Init ==
  /\ \E i \in Inputs : left = i.left /\ right = i.right
  /\ mpc = "called"
  /\ started = 0
  /\ bpc = [t \in Slots |-> "none"]
  /\ bpos = [t \in Slots |-> NoRow]
  /\ ppc = [t \in Slots |-> "none"]
  /\ ppos = [t \in Slots |-> NoRow]
  /\ latch = [b \in Buckets |-> NoThread]
  /\ table = [b \in Buckets |-> EmptyBucket]
  /\ result = [t \in Slots |-> [m \in Pairs |-> 0]]

--------------------------------------------------------------------------------
(* execute(). *)

\* An empty relation has no matches; otherwise go on with the build phase.
Call ==
  /\ mpc = "called"
  /\ mpc' = IF left = <<>> \/ right = <<>> THEN "returned" ELSE "build"
  /\ UNCHANGED <<input, started, buildVars, probeVars>>

\* Mutant of StartBuilder: the loop does not leave the last thread out.
StartBuilderTwice ==
  /\ mpc = "build"
  /\ started <= threads
  /\ started' = started + 1
  /\ bpc' = [bpc EXCEPT ![started % threads] = "loop"]
  /\ bpos' = [bpos EXCEPT ![started % threads] = First(Len(left), started % threads)]
  /\ UNCHANGED <<input, mpc, latch, table, probeVars>>

\* Start the next builder, which runs from now on.
StartBuilder ==
  /\ mpc = "build"
  /\ started < threads
  /\ started' = started + 1
  /\ bpc' = [bpc EXCEPT ![started] = "loop"]
  /\ bpos' = [bpos EXCEPT ![started] = First(Len(left), started)]
  /\ UNCHANGED <<input, mpc, latch, table, probeVars>>

\* Mutant of JoinBuilders: the builders are not waited for.
JoinNoBuilder ==
  /\ mpc = "build"
  /\ started = threads
  /\ mpc' = "probe"
  /\ started' = 0
  /\ UNCHANGED <<input, buildVars, probeVars>>

\* Join the builders: the build phase is done.
JoinBuilders ==
  /\ mpc = "build"
  /\ started = threads
  /\ \A t \in Slots : bpc[t] = "done"
  /\ mpc' = "probe"
  /\ started' = 0
  /\ UNCHANGED <<input, buildVars, probeVars>>

StartProber ==
  /\ mpc = "probe"
  /\ started < threads
  /\ started' = started + 1
  /\ ppc' = [ppc EXCEPT ![started] = "loop"]
  /\ ppos' = [ppos EXCEPT ![started] = First(Len(right), started)]
  /\ UNCHANGED <<input, mpc, buildVars, result>>

\* Mutant of JoinProbers: the last prober is not waited for.
JoinOtherProbers ==
  /\ mpc = "probe"
  /\ started = threads
  /\ \A t \in Slots \ {threads - 1} : ppc[t] = "done"
  /\ mpc' = "returned"
  /\ UNCHANGED <<input, started, buildVars, probeVars>>

\* Join the probers and return.
JoinProbers ==
  /\ mpc = "probe"
  /\ started = threads
  /\ \A t \in Slots : ppc[t] = "done"
  /\ mpc' = "returned"
  /\ UNCHANGED <<input, started, buildVars, probeVars>>

--------------------------------------------------------------------------------
(* build(). *)

\* The bucket of the row a builder is at.
Bucket(t) == Index(left[bpos[t]])

Building(t) == bpc[t] = "loop" /\ bpos[t] <= Last(Len(left), t)

\* Mutant of Lock: the latch is not waited for.
LockAlways(t) ==
  /\ Building(t)
  /\ latch' = [latch EXCEPT ![Bucket(t)] = t]
  /\ bpc' = [bpc EXCEPT ![t] = "store"]
  /\ UNCHANGED <<input, mainVars, bpos, table, probeVars>>

Lock(t) ==
  /\ Building(t)
  /\ latch[Bucket(t)] = NoThread
  /\ latch' = [latch EXCEPT ![Bucket(t)] = t]
  /\ bpc' = [bpc EXCEPT ![t] = "store"]
  /\ UNCHANGED <<input, mainVars, bpos, table, probeVars>>

Store(t) ==
  /\ bpc[t] = "store"
  /\ table' = [table EXCEPT ![Bucket(t)] = Stored(@, bpos[t])]
  /\ bpc' = [bpc EXCEPT ![t] = "count"]
  /\ UNCHANGED <<input, mainVars, bpos, latch, probeVars>>

Increment(t) ==
  /\ bpc[t] = "count"
  /\ table' = [table EXCEPT ![Bucket(t)].count = (@ + 1) % (2 ^ CountBits)]
  /\ bpc' = [bpc EXCEPT ![t] = "unlock"]
  /\ UNCHANGED <<input, mainVars, bpos, latch, probeVars>>

\* Mutant of Unlock: the latch stays locked.
UnlockForgotten(t) ==
  /\ bpc[t] = "unlock"
  /\ bpos' = [bpos EXCEPT ![t] = @ + 1]
  /\ bpc' = [bpc EXCEPT ![t] = "loop"]
  /\ UNCHANGED <<input, mainVars, latch, table, probeVars>>

Unlock(t) ==
  /\ bpc[t] = "unlock"
  /\ latch' = [latch EXCEPT ![Bucket(t)] = NoThread]
  /\ bpos' = [bpos EXCEPT ![t] = @ + 1]
  /\ bpc' = [bpc EXCEPT ![t] = "loop"]
  /\ UNCHANGED <<input, mainVars, table, probeVars>>

\* The loop ends, and with it the thread.
BuildEnd(t) ==
  /\ bpc[t] = "loop"
  /\ ~Building(t)
  /\ bpc' = [bpc EXCEPT ![t] = "done"]
  /\ UNCHANGED <<input, mainVars, bpos, latch, table, probeVars>>

--------------------------------------------------------------------------------
(* probe(). *)

\* How often probing with row r yields the pair m.
Found(m, r) ==
  IF m[2] = r /\ left[m[1]] = right[r]
  THEN Occurrences(table[Index(right[r])], m[1])
  ELSE 0

Probing(t) == ppc[t] = "loop" /\ ppos[t] <= Last(Len(right), t)

Probe(t) ==
  /\ Probing(t)
  /\ result' = [result EXCEPT ![t] = [m \in Pairs |-> @[m] + Found(m, ppos[t])]]
  /\ ppos' = [ppos EXCEPT ![t] = @ + 1]
  /\ UNCHANGED <<input, mainVars, buildVars, ppc>>

ProbeEnd(t) ==
  /\ ppc[t] = "loop"
  /\ ~Probing(t)
  /\ ppc' = [ppc EXCEPT ![t] = "done"]
  /\ UNCHANGED <<input, mainVars, buildVars, ppos, result>>

--------------------------------------------------------------------------------

Terminated ==
  /\ mpc = "returned"
  /\ UNCHANGED vars

MainStep == Call \/ StartBuilder \/ JoinBuilders \/ StartProber \/ JoinProbers

Builder(t) == Lock(t) \/ Store(t) \/ Increment(t) \/ Unlock(t) \/ BuildEnd(t)
Prober(t)  == Probe(t) \/ ProbeEnd(t)

Next ==
  \/ MainStep
  \/ \E t \in Slots : Builder(t) \/ Prober(t)
  \/ Terminated

Spec == Init /\ [][Next]_vars

\* The operating system runs every thread that can run.  A latch is locked only
\* finitely often, so that weak fairness is enough for those who wait for it.
Fairness ==
  /\ WF_vars(MainStep)
  /\ \A t \in Slots : WF_vars(Builder(t)) /\ WF_vars(Prober(t))

FairSpec == Spec /\ Fairness

--------------------------------------------------------------------------------

TypeOK ==
  /\ left \in Seq(Keys) /\ right \in Seq(Keys)
  /\ mpc \in {"called", "build", "probe", "returned"}
  /\ started \in 0 .. threads
  /\ bpc \in [Slots -> {"none", "loop", "store", "count", "unlock", "done"}]
  /\ bpos \in [Slots -> Nat]
  /\ ppc \in [Slots -> {"none", "loop", "done"}]
  /\ ppos \in [Slots -> Nat]
  /\ latch \in [Buckets -> Slots \cup {NoThread}]
  /\ table \in [Buckets -> [count : Nat, t1 : Nat, t2 : Nat, next : Seq(Nat)]]
  /\ result \in [Slots -> [Pairs -> Nat]]

\* The rows thread t has put into the table: those of its chunk up to where it is.
InsertedBy(t) ==
  IF bpc[t] = "none" THEN {}
  ELSE {k \in LeftRows : /\ First(Len(left), t) <= k
                         /\ k < bpos[t] \/ (k = bpos[t] /\ bpc[t] \in {"count", "unlock"})}

RowsOf(b) == {k \in UNION {InsertedBy(t) : t \in Slots} : Index(left[k]) = b}

\* The buckets where a builder is between the store of a tuple and its counting.
Unsettled == {Bucket(t) : t \in {u \in Slots : bpc[u] = "count"}}

\* Outside of that window a bucket holds exactly the rows inserted so far that hash
\* to it, each of them once, and its list has as many nodes as the counter says: no
\* builder overwrites what another one has stored (lines 70-88), and following the
\* list neither runs into a null pointer (80, 106) nor leaves a tuple behind.
BucketsComplete ==
  \A b \in Buckets \ Unsettled :
    LET bucket == table[b]
    IN  /\ {Place(bucket, i) : i \in 1 .. bucket.count} = RowsOf(b)
        /\ \A i, j \in 1 .. bucket.count : Place(bucket, i) = Place(bucket, j) => i = j
        /\ Len(bucket.next) = IF bucket.count > 2 THEN bucket.count - 2 ELSE 0

\* No thread touches a bucket another one may be writing: builders are kept apart by
\* the latch, probers from builders by joining the threads in between (lines 41-43).
Accessing(t) == bpc[t] \in {"store", "count", "unlock"}
BucketRaceFree ==
  /\ \A t, u \in Slots : Accessing(t) /\ Accessing(u) /\ Bucket(t) = Bucket(u) => t = u
  /\ (\E t \in Slots : ppc[t] = "loop") => \A t \in Slots : bpc[t] = "done"

Matches == {m \in Pairs : left[m[1]] = right[m[2]]}

\* When execute() returns, one of the result vectors holds a pair of rows with the
\* same key, and it holds it once; no vector holds any other pair.
ResultExact ==
  mpc = "returned" =>
    /\ \A m \in Matches : \E t \in Slots :
         result[t][m] = 1 /\ \A u \in Slots \ {t} : result[u][m] = 0
    /\ \A m \in Pairs \ Matches, t \in Slots : result[t][m] = 0

\* The join implements the partitioned join: the parts are the rows of the right
\* relation, and a row is joined when all its matches are in the result.
RowsWith(pairs) == {m[2] : m \in pairs}
Promise == INSTANCE PartitionedJoin WITH
  Parts    <- UNION {DOMAIN i.right : i \in Inputs},
  filled   <- RowsWith(Matches),
  joined   <- RowsWith(Matches) \
              RowsWith({m \in Matches : \A t \in Slots : result[t][m] = 0}),
  returned <- (mpc = "returned")

ImplementsPartitionedJoin == Promise!Spec

\* execute() returns: no thread waits for a latch for ever.
ExecuteReturns == Promise!Returns
================================================================================
