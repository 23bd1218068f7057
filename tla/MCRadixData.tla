------------------------------ MODULE MCRadixData ------------------------------
(***************************************************************************)
(* Instances of RadixData for TLC.                                         *)
(***************************************************************************)
EXTENDS RadixData

\* Keys with every combination of two bits, two that share them, and two that share
\* the whole hash value.
SixKeys   == 1 .. 6
HashValue == [k \in SixKeys |-> IF k = 6 THEN 0 ELSE (5 * (k - 1)) % 8]

\* Lefts that fill all leaves, some, or one; rights with and without partners.
Relations ==
  {[l |-> l, r |-> r] :
     l \in {<<4, 3, 2, 1>>, <<1, 5, 6>>, <<2, 4, 2, 3>>, <<3>>, <<>>},
     r \in {<<2, 1, 4>>, <<6, 3>>}}
================================================================================
