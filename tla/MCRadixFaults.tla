----------------------------- MODULE MCRadixFaults -----------------------------
(***************************************************************************)
(* Instances of RadixFaults for TLC.                                       *)
(***************************************************************************)
EXTENDS RadixFaults

\* All leaves are filled, so that every join task takes a buffer.
Filled == {Leaves}
================================================================================
