---------------------------- MODULE NopJoinMTObject ----------------------------
(***************************************************************************)
(* The object around NopJoinMT.tla: its calls of execute, get and set, in  *)
(* any order (joins/src/algorithms/nop_join_mt.cpp).                       *)
(*                                                                         *)
(* Every execute() has a table of its own, and appends to the vectors the  *)
(* object has.  While none runs, mpc is "called" before the first step of  *)
(* the next one, and "returned" after the last.                            *)
(***************************************************************************)
EXTENDS NopJoinMT

CONSTANT MaxCalls    \* bound: the calls of execute, set and get

ASSUME MaxCalls \in Nat

VARIABLES
  built,    \* nop_join_mt::built
  calls,    \* how many calls there were, and how many of them
  due       \* were calls of execute that returned after the vectors were replaced

objectVars == <<built, calls, due>>
allVars    == <<vars, objectVars>>

NoMatches == [t \in Slots |-> [m \in Pairs |-> 0]]

ObjectInit ==
  /\ Init
  /\ built = FALSE
  /\ calls = 1
  /\ due = 0

MayCall == mpc \in {"called", "returned"} /\ calls < MaxCalls

\* The flag is set first, with and without tuples to join; the last step counts.
Execute ==
  /\ MainStep
  /\ built' = (built \/ mpc = "called")
  /\ due' = IF mpc' = "returned" THEN due + 1 ELSE due
  /\ UNCHANGED calls

\* execute() is called again, with a new table and new threads.
Again ==
  /\ mpc = "returned" /\ MayCall
  /\ mpc' = "called"
  /\ started' = 0
  /\ bpc' = [t \in Slots |-> "none"] /\ bpos' = [t \in Slots |-> NoRow]
  /\ ppc' = [t \in Slots |-> "none"] /\ ppos' = [t \in Slots |-> NoRow]
  /\ latch' = [b \in Buckets |-> NoThread]
  /\ table' = [b \in Buckets |-> EmptyBucket]
  /\ calls' = calls + 1
  /\ UNCHANGED <<input, result, built, due>>

Replace ==
  /\ MayCall
  /\ result' = NoMatches
  /\ due' = 0
  /\ calls' = calls + 1
  /\ UNCHANGED <<input, mainVars, buildVars, ppc, ppos>>

\* set() with empty vectors, one for each thread.
Set == Replace /\ built' = FALSE

\* get(), which throws before execute(), and a caller that moves the triples out.
Get == built /\ Replace /\ UNCHANGED built

ObjectTerminated ==
  /\ mpc = "returned" /\ calls = MaxCalls
  /\ UNCHANGED allVars

ObjectNext ==
  \/ Execute
  \/ Again
  \/ Set
  \/ Get
  \/ (\E t \in Slots : Builder(t) \/ Prober(t)) /\ UNCHANGED objectVars
  \/ ObjectTerminated

ObjectSpec == ObjectInit /\ [][ObjectNext]_allVars

--------------------------------------------------------------------------------

\* When execute() has returned, a pair of rows with the same key is in the vectors as
\* often as execute() has returned since they were replaced, each time put there by
\* the thread whose chunk of the right relation it is from, and no other pair is; and
\* get() is refused only if execute() has not been called since set() (lines 22-28,
\* 39-56, 119-131).
CallsExact ==
  mpc = "returned" =>
    /\ \A m \in Pairs, t \in Slots :
         LET mine == m[2] \in First(Len(right), t) .. Last(Len(right), t)
         IN  result[t][m] = IF m \in Matches /\ mine THEN due ELSE 0
    /\ due > 0 => built
================================================================================
