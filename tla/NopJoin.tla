-------------------------------- MODULE NopJoin --------------------------------
(***************************************************************************)
(* The hash join of joins/src/algorithms/nop_join.cpp as a function of its *)
(* two relations: one thread builds a chained hash table of the left one   *)
(* and probes it with the right one.  A tuple is <<key, rid>>, a match is  *)
(* <<key, left rid, right rid>>.                                           *)
(*                                                                         *)
(* Nothing else runs while execute() does, so that only what it appends to *)
(* the result vector, and in which order, can be observed.                 *)
(***************************************************************************)
EXTENDS HashTable, SequencesExt

CONSTANTS
  Keys,    \* the join attribute's values
  Hash     \* murmur3

ASSUME HashAssumption == Hash \in [Keys -> Nat]

\* One and a half buckets for each tuple, whatever the constructor was told.
TableSize(count) == (3 * count) \div 2

EmptyTable(size) == [i \in 0 .. (size - 1) |-> EmptyBucket]

Index(t, table) == Hash[t[1]] % Cardinality(DOMAIN table)

\* A bucket with one tuple more.
Inserted(bucket, t) == [Stored(bucket, t) EXCEPT !.count = @ + 1]

Insert(table, t) == [table EXCEPT ![Index(t, table)] = Inserted(@, t)]

BuiltTable(left) == FoldLeft(Insert, EmptyTable(TableSize(Len(left))), left)

\* Mutant of ProbeOrder: the walk stops one overflow node early.
ProbeOrderShort(count) ==
  IF count < 3 THEN [i \in 1 .. count |-> count + 1 - i]
  ELSE [i \in 1 .. (count - 1) |-> IF i + 3 <= count THEN i + 2 ELSE count - i]

\* The places of a bucket in the order they are looked at: the overflow nodes from
\* the third place on, then the second place, then the first.
ProbeOrder(count) ==
  [i \in 1 .. count |-> IF i + 2 <= count THEN i + 2 ELSE count + 1 - i]

\* What probing a bucket with tuple t appends to the result.
Hits(bucket, t) ==
  LET order == ProbeOrder(bucket.count)
      found == [n \in DOMAIN order |-> Place(bucket, order[n])]
  IN  FlattenSeq([n \in DOMAIN found |->
                    IF found[n][1] = t[1] THEN <<<<t[1], found[n][2], t[2]>>>> ELSE <<>>])

Probe(table, right) ==
  FlattenSeq([j \in DOMAIN right |-> Hits(table[Index(right[j], table)], right[j])])

\* What execute() appends to the result.
Output(left, right) ==
  IF left = <<>> \/ right = <<>> THEN <<>> ELSE Probe(BuiltTable(left), right)

\* What a join is to find: the matches of tuples with the same key.
Matches(left, right) ==
  {<<left[p[1]][1], left[p[1]][2], right[p[2]][2]>> :
     p \in {q \in (DOMAIN left) \X (DOMAIN right) : left[q[1]][1] = right[q[2]][1]}}
================================================================================
