------------------------------- MODULE Generators -------------------------------
(***************************************************************************)
(* The generators of joins/src/generators/, which make the relations that  *)
(* the joins are tested and measured with.                                 *)
(*                                                                         *)
(* Random numbers come from an engine that every build() seeds again with  *)
(* the object's seed.  What matters of a seed is the stream of numbers it  *)
(* stands for: it is chosen with the object, and every build() of the      *)
(* object reads it from its beginning.                                     *)
(***************************************************************************)
EXTENDS Naturals, Sequences, FiniteSets

CONSTANTS
  Parameters,    \* arguments of the generators' constructors
  CountBits,     \* the width of a count, 64 in the code
  MaxSize,       \* how many tuples a vector can be asked to hold
  One,           \* z = 1, in units that the sums of a Zipf distribution come in
  MaxBuilds      \* bound: how often build() is called on one object

\* The ranges are not empty.  The sums are rounded, so that the last can be below 1.
ASSUME GeneratorAssumption ==
  /\ CountBits \in Nat /\ MaxSize \in Nat /\ One \in Nat /\ MaxBuilds \in Nat
  /\ \A p \in Parameters :
       \/ /\ p.kind = "incremental"
          /\ p.start \in 0 .. (2 ^ CountBits - 1) /\ p.ending \in 0 .. (2 ^ CountBits - 1)
       \/ /\ p.kind = "uniform"
          /\ p.min \in Nat /\ p.max \in Nat /\ p.min <= p.max /\ p.count \in Nat
       \/ /\ p.kind = "zipf"
          /\ IsFiniteSet(DOMAIN p.sums) /\ DOMAIN p.sums = 0 .. (Cardinality(DOMAIN p.sums) - 1)
          /\ p.sums \in [DOMAIN p.sums -> 0 .. One] /\ p.count \in Nat
          /\ 0 \in DOMAIN p.sums /\ p.sums[0] = 0
          /\ \A i \in DOMAIN p.sums \ {0} : p.sums[i - 1] <= p.sums[i]

VARIABLE gen    \* the generator object, while there is one

NoGenerator == [kind |-> "none"]

GeneratorInit == gen = NoGenerator

Live == gen.kind # "none"

Streams(p) ==
  CASE p.kind = "incremental" -> {<<>>}
    [] p.kind = "uniform"     -> [1 .. p.count -> p.min .. p.max]
    [] p.kind = "zipf"        -> [1 .. p.count -> 1 .. (One - 1)]    \* never 0 or 1

\* The constructors.  The member builds counts what build() has completed.
NewGenerator ==
  \E p \in Parameters : \E s \in Streams(p) :
    gen' = [kind |-> p.kind, with |-> p, stream |-> s, built |-> FALSE, data |-> <<>>,
            builds |-> 0]

\* get_count(), in unsigned integers.
Count(p) ==
  IF p.kind = "incremental"
    THEN (2 ^ CountBits + p.ending - p.start + 1) % 2 ^ CountBits
    ELSE p.count

\* Mutant of Search: the interval's lower end is not looked at.
SearchUpper(sums, z, old) ==
  LET max == Cardinality(DOMAIN sums) - 1
      from[i \in (1 .. (max + 1)) \X (0 .. max)] ==
        LET low == i[1]  high == i[2]  mid == (low + high) \div 2
        IN  CASE low > high      -> old
              [] sums[mid] >= z  -> mid
              [] OTHER           -> from[<<mid + 1, high>>]
  IN  from[<<1, max>>]

\* The binary search for the interval z falls into; without one, the variable
\* zipf_value keeps what it had.
Search(sums, z, old) ==
  LET max == Cardinality(DOMAIN sums) - 1
      from[i \in (1 .. (max + 1)) \X (0 .. max)] ==
        LET low == i[1]  high == i[2]  mid == (low + high) \div 2
        IN  IF low > high THEN old
            ELSE CASE sums[mid] >= z /\ sums[mid - 1] < z  -> mid
                   [] sums[mid] >= z /\ sums[mid - 1] >= z -> from[<<low, mid - 1>>]
                   [] OTHER                                -> from[<<mid + 1, high>>]
  IN  from[<<1, max>>]

\* The keys in the order build() makes them.
ZipfKeys(sums, stream) ==
  LET key[i \in 0 .. Len(stream)] ==
        IF i = 0 THEN 0 ELSE Search(sums, stream[i], key[i - 1])
  IN  [i \in DOMAIN stream |-> key[i]]

Key(g, i) ==
  CASE g.kind = "incremental" -> i - 1
    [] g.kind = "uniform"     -> g.stream[i]
    [] g.kind = "zipf"        -> ZipfKeys(g.with.sums, g.stream)[i]

\* What one build() appends.
Tuples(g) == [i \in 1 .. Count(g.with) |-> <<Key(g, i), i - 1>>]

Build ==
  /\ Live /\ gen.builds < MaxBuilds
  /\ Count(gen.with) <= MaxSize
  /\ gen' = [gen EXCEPT !.built = TRUE, !.data = @ \o Tuples(gen), !.builds = @ + 1]

\* reserve() refuses a size, or an allocation fails: at once, because a vector that
\* is full makes room for as much again.  The Zipf generator counts as built already.
BuildThrows ==
  /\ Live /\ gen.builds < MaxBuilds
  /\ Count(gen.with) > 0
  /\ gen' = [gen EXCEPT !.built = @ \/ gen.kind = "zipf"]

MayCopy == Live /\ (gen.built \/ gen.kind = "incremental")

\* get_vec_copy(), of which the callers use as many tuples as get_count() says, and
\* so call it when build() has returned.
Copy == SubSeq(gen.data, 1, Count(gen.with))

Copyable == MayCopy /\ gen.builds > 0

--------------------------------------------------------------------------------
(* What is checked. *)

\* Least element of a non-empty set of numbers.
Least(S) == CHOOSE x \in S : \A y \in S : x <= y

\* The i-th key that the first build() made is one above the key before it; or within
\* the bounds; or the smallest key whose sum of probabilities reaches the number drawn.
\* A number above all sums, which rounding makes possible, yields the key before it again,
\* and 0 if it is the first.
KeyFollows(i) ==
  LET p      == gen.with
      key(j) == gen.data[j][1]
      above  == {k \in DOMAIN p.sums : p.sums[k] >= gen.stream[i]}
  IN  /\ gen.kind = "incremental" /\ i > 1 => key(i) = key(i - 1) + 1
      /\ gen.kind = "uniform" => key(i) \in p.min .. p.max
      /\ gen.kind = "zipf" =>
           key(i) = IF above # {} THEN Least(above) ELSE IF i = 1 THEN 0 ELSE key(i - 1)

\* Every build() that returned has added its tuples, all of them, and a failed one none:
\* the flag of an incremental or a uniform generator is set only with its tuples there
\* (that of a Zipf generator is set first, zipf_generator.cpp:24-25).
\* The keys follow the parameters, the same ones again in each build(), and no row id
\* occurs twice in one (zipf_generator.cpp:22-71, uniform_generator.cpp:21-33,
\* incremental_generator.cpp:12-22).
DataFaithful ==
  Live =>
    LET count == Count(gen.with) IN
    /\ Len(gen.data) = gen.builds * count
    /\ gen.builds > 0 => gen.built
    /\ gen.built /\ gen.kind # "zipf" => gen.builds > 0
    /\ \A i \in DOMAIN gen.data :
         IF i > count THEN gen.data[i][1] = gen.data[i - count][1] ELSE KeyFollows(i)
    /\ \A i, j \in DOMAIN gen.data :
         i <= count /\ j <= count /\ gen.data[i][2] = gen.data[j][2] => i = j

\* What incremental_generator.h:15, uniform_generator.h:18 and zipf_generator.h:18 say:
\* "The RIDs are guaranteed to be unique within the whole dataset".  A second build()
\* counts from 0 again (line 28 of uniform_generator.cpp).
RowIdsUnique ==
  Live => \A i, j \in DOMAIN gen.data : gen.data[i][2] = gen.data[j][2] => i = j

\* What incremental_generator.h:22-23 says: "The first tuple will have value start, then
\* ext one start + 1 and so on".  The keys count from 0 (incremental_generator.cpp:18-20).
KeysFromStart ==
  Live /\ gen.kind = "incremental" =>
    \A i \in DOMAIN gen.data :
      i <= Count(gen.with) => gen.data[i][1] = gen.with.start + i - 1
================================================================================
