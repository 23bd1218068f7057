---------------------------- MODULE SequentialJoins ----------------------------
(***************************************************************************)
(* The objects nop_join and radix_join of joins/src/algorithms/nop_join.cpp *)
(* and radix_join.cpp, which one thread uses: calls of execute, get and set *)
(* in any order, and allocations that fail.                                *)
(*                                                                         *)
(* execute() of a nop_join is one step.  That of a radix_join partitions   *)
(* both relations by the low bits of the hash value into new arrays, and   *)
(* then joins part after part with a nop_join, into which it moves its     *)
(* result vector, and from which it moves it back: a step for each side    *)
(* and for each part.                                                      *)
(***************************************************************************)
EXTENDS NopJoin

CONSTANTS
  PartBits,    \* part_bits of the radix_join
  Presets,     \* what set() is called with
  MaxCalls     \* bound: the calls of execute, set and get on one object

\* part_count is 1 shifted left by part_bits, in 32 bits.
ASSUME CallAssumption ==
  /\ PartBits \in 0 .. 31
  /\ \A v \in Presets : v \in Seq(Keys \X Nat \X Nat)
  /\ MaxCalls \in Nat

VARIABLES
  rel,       \* the two relations, by side
  kind,      \* which class the join object has
  result,    \* its result vector
  built,     \* its flag built
  pc,        \* where execute() of the radix_join is
  part,      \* its loop variable part
  list,      \* the partitioned relations list_l and list_r
  hist,      \* their histograms
  calls,     \* how many calls there were
  owed,      \* the matches all calls should have put into result since it was set
  whole      \* no call has failed since then

Sides == {"l", "r"}
part_count == 2 ^ PartBits
Parts == 0 .. (part_count - 1)

local      == <<part, list, hist>>
objectVars == <<result, built, calls, owed, whole>>
joinVars   == <<rel, kind, pc, local, objectVars>>

Nothing == [s \in Sides |-> <<>>]

JoinInit ==
  /\ rel = Nothing
  /\ kind = "none"
  /\ result = <<>> /\ built = FALSE
  /\ pc = "idle" /\ part = 0 /\ list = Nothing /\ hist = Nothing
  /\ calls = 0 /\ owed = EmptyBag /\ whole = TRUE

--------------------------------------------------------------------------------
(* partition() of radix_join.cpp. *)

PartOf(t) == Hash[t[1]] % part_count

Histogram(data) ==
  [p \in Parts |-> Cardinality({i \in DOMAIN data : PartOf(data[i]) = p})]

\* Mutant of Starts: the sums include the part itself.
StartsInclusive(data) ==
  [p \in Parts |-> FoldFunctionOnSet(+, 0, Histogram(data), 0 .. p)]

\* Where each part begins.
Starts(data) ==
  [p \in Parts |-> FoldFunctionOnSet(+, 0, Histogram(data), {q \in Parts : q < p})]

\* Tuple t is copied to where the next one of its part goes.
Scattered(to, t) ==
  [hist |-> [to.hist EXCEPT ![PartOf(t)] = @ + 1],
   list |-> [to.list EXCEPT ![to.hist[PartOf(t)] + 1] = t]]

Partitioned(data) ==
  FoldLeft(Scattered, [hist |-> Starts(data), list |-> [i \in DOMAIN data |-> <<0, 0>>]], data)

\* Mutant of Region: the part's end is taken for its start.
RegionFromEnd(s, p) == SubSeq(list[s], hist[s][p] + 1, hist[s][p])

\* Part p of a partitioned relation: scattering has moved the start of each part to
\* that of the next one.
Region(s, p) == SubSeq(list[s], (IF p = 0 THEN 0 ELSE hist[s][p - 1]) + 1, hist[s][p])

--------------------------------------------------------------------------------
(* The calls. *)

MayCall(k) == kind = k /\ pc = "idle" /\ calls < MaxCalls

Empty == rel.l = <<>> \/ rel.r = <<>>

Expect == /\ calls' = calls + 1
          /\ owed' = owed (+) SetToBag(Matches(rel.l, rel.r))

\* nop_join::execute(), with and without tuples on both sides.
NopExecute ==
  /\ MayCall("nop")
  /\ Expect
  /\ built' = TRUE
  /\ result' = result \o Output(rel.l, rel.r)
  /\ UNCHANGED <<rel, kind, pc, local, whole>>

\* An allocation fails while the table is built, or once n matches were appended.
NopThrows ==
  /\ MayCall("nop") /\ ~Empty
  /\ Expect
  /\ whole' = FALSE
  /\ \/ UNCHANGED <<result, built>>
     \/ \E n \in 1 .. Len(Output(rel.l, rel.r)) :
          /\ result' = result \o SubSeq(Output(rel.l, rel.r), 1, n - 1)
          /\ built' = TRUE
  /\ UNCHANGED <<rel, kind, pc, local>>

\* radix_join::execute() begins, and has ended if one side is empty.
RadixCall ==
  /\ MayCall("radix")
  /\ Expect
  /\ built' = TRUE
  /\ pc' = IF Empty THEN "idle" ELSE "l"
  /\ UNCHANGED <<rel, kind, local, result, whole>>

RadixPartition(s) ==
  /\ pc = s
  /\ LET to == Partitioned(rel[s])
     IN  /\ list' = [list EXCEPT ![s] = to.list]
         /\ hist' = [hist EXCEPT ![s] = to.hist]
  /\ pc' = IF s = "l" THEN "r" ELSE "parts"
  /\ UNCHANGED <<rel, kind, part, objectVars>>

\* The next part; a part that is empty on one side costs nothing.
RadixJoin ==
  /\ pc = "parts" /\ part < part_count
  /\ result' = result \o Output(Region("l", part), Region("r", part))
  /\ part' = part + 1
  /\ UNCHANGED <<rel, kind, pc, list, hist, built, calls, owed, whole>>

\* The arrays and histograms go when execute() is left, on any way.
Leave ==
  /\ pc' = "idle" /\ part' = 0 /\ list' = Nothing /\ hist' = Nothing
  /\ UNCHANGED <<rel, kind, built, calls, owed>>

RadixReturn ==
  /\ pc = "parts" /\ part = part_count
  /\ Leave
  /\ UNCHANGED <<result, whole>>

\* An allocation fails: that of an array or a histogram, or one in the nop_join of
\* a part, with which the result vector it has been given is destroyed.
RadixThrows ==
  /\ \/ pc \in Sides /\ UNCHANGED result
     \/ /\ pc = "parts" /\ part < part_count
        /\ <<>> \notin {Region("l", part), Region("r", part)}
        /\ result' = <<>>
  /\ Leave
  /\ whole' = FALSE

\* set(): the object goes on with the caller's vector.
Set ==
  /\ \E k \in {"nop", "radix"} : MayCall(k)
  /\ \E v \in Presets : result' = v /\ owed' = ToBag(v)
  /\ built' = FALSE /\ whole' = TRUE /\ calls' = calls + 1
  /\ UNCHANGED <<rel, kind, pc, local>>

\* get(), which throws before execute(), and a caller that moves from the reference.
Get ==
  /\ \E k \in {"nop", "radix"} : MayCall(k)
  /\ built
  /\ result' = <<>> /\ owed' = EmptyBag
  /\ whole' = TRUE /\ calls' = calls + 1
  /\ UNCHANGED <<rel, kind, built, pc, local>>

JoinStep ==
  \/ NopExecute \/ NopThrows
  \/ RadixCall \/ RadixJoin \/ RadixReturn \/ RadixThrows
  \/ \E s \in Sides : RadixPartition(s)
  \/ Set \/ Get

--------------------------------------------------------------------------------
(* What is checked. *)

\* Between calls the result vector holds the matches of every call since it was set,
\* each as often as calls should have found it (nop_join.cpp:58-80,
\* radix_join.cpp:60-83).  A call that failed may leave some out, up to all of them,
\* but puts nothing else in, and nothing twice.
ResultExact ==
  pc = "idle" =>
    /\ ToBag(result) \sqsubseteq owed
    /\ whole => ToBag(result) = owed

\* When the parts are joined, both relations are split completely: every part is
\* where its bounds say it is, and holds exactly the tuples with its hash bits, in
\* their old order, so that equal keys meet in one part (radix_join.cpp:32-42, 62-73).
PartitionsExact ==
  pc = "parts" =>
    \A s \in Sides, p \in Parts :
      LET upTo(n) == {i \in 1 .. n : PartOf(rel[s][i]) = p}
      IN  /\ Len(Region(s, p)) = Cardinality(upTo(Len(rel[s])))
          /\ \A i \in upTo(Len(rel[s])) : Region(s, p)[Cardinality(upTo(i))] = rel[s][i]
================================================================================
