------------------------------ MODULE JoinProgram ------------------------------
(***************************************************************************)
(* How the repository's benchmarks and tests put the parts together, as in *)
(* src/benchmark/bm_joins_mt.cpp:37-60 and                                 *)
(* joins/test/algorithms/radix_join_test.cpp:16-43: generators make the    *)
(* left and the right relation, by a generator each or by a second build() *)
(* of the same one; they are copied and forgotten, and a join object is    *)
(* made of the copies and used.                                            *)
(***************************************************************************)
EXTENDS SequentialJoins, Generators

\* The keys that generators make are keys of the joins; in the code all are numbers of
\* 64 bits.
ASSUME KeyAssumption ==
  \A p \in Parameters :
    CASE p.kind = "incremental" -> Count(p) <= MaxSize => 0 .. (Count(p) - 1) \subseteq Keys
      [] p.kind = "uniform"     -> p.min .. p.max \subseteq Keys
      [] p.kind = "zipf"        -> DOMAIN p.sums \subseteq Keys

VARIABLE stage    \* what the program does next

vars == <<stage, gen, joinVars>>

Init ==
  /\ stage = "left"
  /\ GeneratorInit
  /\ JoinInit

Generating == stage \in {"left", "right"}

Generate ==
  /\ Generating
  /\ NewGenerator \/ Build \/ BuildThrows
  /\ UNCHANGED <<stage, joinVars>>

CopyTo(s, from, to) ==
  /\ stage = from /\ Copyable
  /\ rel' = [rel EXCEPT ![s] = Copy]
  /\ stage' = to
  /\ UNCHANGED <<gen, kind, pc, local, objectVars>>

Construct ==
  /\ stage = "construct"
  /\ gen' = NoGenerator
  /\ kind' \in {"nop", "radix"}
  /\ stage' = "join"
  /\ UNCHANGED <<rel, pc, local, objectVars>>

UseJoin ==
  /\ stage = "join"
  /\ JoinStep
  /\ UNCHANGED <<stage, gen>>

Terminated ==
  /\ stage = "join" /\ pc = "idle" /\ calls = MaxCalls
  /\ UNCHANGED vars

Next ==
  \/ Generate
  \/ CopyTo("l", "left", "right")
  \/ CopyTo("r", "right", "construct")
  \/ Construct
  \/ UseJoin
  \/ Terminated

Spec == Init /\ [][Next]_vars

--------------------------------------------------------------------------------

Tuple  == Keys \X Nat
Triple == Keys \X Nat \X Nat

\* Every variable has its type.  In a histogram that has been built every entry is a
\* position in its array or its end (radix_join.cpp:21-43).
TypeOK ==
  /\ stage \in {"left", "right", "construct", "join"}
  /\ Live => /\ gen.with \in Parameters
             /\ gen.built \in BOOLEAN /\ gen.builds \in 0 .. MaxBuilds
             /\ gen.data \in Seq(Tuple)
  /\ rel \in [Sides -> Seq(Tuple)]
  /\ kind \in {"none", "nop", "radix"}
  /\ result \in Seq(Triple)
  /\ built \in BOOLEAN /\ whole \in BOOLEAN
  /\ pc \in Sides \cup {"idle", "parts"}
  /\ part \in 0 .. part_count
  /\ list \in [Sides -> Seq(Tuple)]
  /\ \A s \in Sides : hist[s] = <<>> \/ hist[s] \in [Parts -> 0 .. Len(list[s])]
  /\ calls \in 0 .. MaxCalls
  /\ IsABag(owed)
================================================================================
