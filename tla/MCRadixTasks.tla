----------------------------- MODULE MCRadixTasks ------------------------------
(***************************************************************************)
(* Instances of RadixTasks for TLC.                                        *)
(***************************************************************************)
EXTENDS RadixTasks

\* Every set of filled leaves.
AllInputs == SUBSET Leaves

\* All leaves filled, none, and all but one.
SomeInputs == {Leaves, {}} \cup {Leaves \ {p} : p \in {[i \in 1 .. LeafDepth |-> 0]}}
================================================================================
