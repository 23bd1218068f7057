-------------------------------- MODULE HashTable --------------------------------
(***************************************************************************)
(* The buckets of the chained hash tables of                               *)
(* joins/include/algorithms/hash_helpers.h, with and without a latch: a    *)
(* counter, two rows in place and a list of overflow nodes with one row    *)
(* each.  The counter alone says how much of the rest is valid.            *)
(***************************************************************************)
EXTENDS Naturals, Sequences, FiniteSets

\* No row: a place in a bucket that its counter does not cover.
NoRow       == 0
EmptyBucket == [count |-> 0, t1 |-> NoRow, t2 |-> NoRow, next |-> <<>>]

\* The i-th row of a bucket, the first two in place and the rest in the list.
Place(bucket, i) ==
  IF i = 1 THEN bucket.t1 ELSE IF i = 2 THEN bucket.t2 ELSE bucket.next[i - 2]

\* The bucket with row k behind the rows that count covers.  The first overflow
\* node replaces the list; later ones go behind node number count - 2, which is
\* reached over count - 3 links.
Stored(bucket, k) ==
  IF bucket.count = 0 THEN [bucket EXCEPT !.t1 = k]
  ELSE IF bucket.count = 1 THEN [bucket EXCEPT !.t2 = k]
  ELSE [bucket EXCEPT !.next = Append(SubSeq(@, 1, bucket.count - 2), k)]

\* How often probing the bucket comes across row k.
Occurrences(bucket, k) == Cardinality({i \in 1 .. bucket.count : Place(bucket, i) = k})
================================================================================
