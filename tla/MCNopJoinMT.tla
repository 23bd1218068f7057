------------------------------ MODULE MCNopJoinMT ------------------------------
(***************************************************************************)
(* Instances of NopJoinMT for TLC.                                         *)
(***************************************************************************)
EXTENDS NopJoinMT

\* Keys a and c share a bucket of a table with two buckets, b has the other one.
ThreeKeys == {"a", "b", "c"}
HashValue == [k \in ThreeKeys |-> CASE k = "a" -> 0 [] k = "b" -> 1 [] k = "c" -> 2]

\* All relations of a length over some keys.
Relations(n, K) == [1 .. n -> K]

\* Long chains: every left row in the same bucket, all or only some with one key.
LongChains ==
  {[left |-> l, right |-> r] :
     l \in {[k \in 1 .. 6 |-> "a"], [k \in 1 .. 6 |-> IF k \in {2, 5} THEN "c" ELSE "a"],
            <<"a">>, <<>>},
     r \in {<<"a", "c", "a">>, <<"b">>, <<>>}}

\* Every mixture of keys in a few rows, and nothing to join them with.
Mixtures ==
  {[left |-> l, right |-> r] :
     l \in Relations(4, ThreeKeys), r \in {<<"a", "b", "c">>, <<"b">>, <<>>}}
================================================================================
