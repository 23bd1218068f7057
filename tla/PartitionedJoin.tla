---------------------------- MODULE PartitionedJoin ----------------------------
(***************************************************************************)
(* What a join that works on one part of the data after the other promises *)
(* to its caller: each part with matches is joined once, and the call      *)
(* returns only when the output of all of them is in the result.           *)
(*                                                                         *)
(* RadixTasks.tla and NopJoinMT.tla, the detailed models of the            *)
(* multi-threaded joins, are shown to implement this module.               *)
(***************************************************************************)

CONSTANT Parts    \* the parts into which the data can be split

VARIABLES
  filled,     \* the parts that have to be joined
  joined,     \* the parts whose output was produced
  returned    \* the caller may look at the result

vars == <<filled, joined, returned>>

Init ==
  /\ filled \subseteq Parts
  /\ joined = {}
  /\ returned = FALSE

Join(p) ==
  /\ ~returned
  /\ p \in filled \ joined
  /\ joined' = joined \cup {p}
  /\ UNCHANGED <<filled, returned>>

Return ==
  /\ ~returned
  /\ joined = filled
  /\ returned' = TRUE
  /\ UNCHANGED <<filled, joined>>

Next ==
  \/ \E p \in Parts : Join(p)
  \/ Return

Spec == Init /\ [][Next]_vars

\* The caller gets its answer.
Returns == <>returned
================================================================================
