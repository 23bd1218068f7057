----------------------------- MODULE MCJoinProgram -----------------------------
(***************************************************************************)
(* Instance of JoinProgram for TLC.                                        *)
(***************************************************************************)
EXTENDS JoinProgram

\* Four parts; two of them have two keys, which also meet in one bucket of a table
\* for two tuples.
SixKeys   == 0 .. 5
HashValue == [k \in SixKeys |-> 3 * k]

\* Ranges that are counted right, one whose count wraps to 0 and one whose count wraps
\* to more than a vector can hold; chains of five; sums that leave z = 6 without a key.
SomeParameters ==
  {[kind |-> "incremental", start |-> 1, ending |-> 6],
   [kind |-> "incremental", start |-> 0, ending |-> 15],
   [kind |-> "incremental", start |-> 3, ending |-> 0],
   [kind |-> "uniform", min |-> 1, max |-> 1, count |-> 5],
   [kind |-> "uniform", min |-> 1, max |-> 3, count |-> 3],
   [kind |-> "zipf", sums |-> [i \in 0 .. 4 |-> IF i = 0 THEN 0 ELSE i + 1], count |-> 2]}

SomePresets == {<<>>, <<<<3, 0, 0>>>>}
================================================================================
