---------------------------- MODULE RadixDataLemmas ----------------------------
(***************************************************************************)
(* What the proofs about RadixData.tla rest on, for every relation, hash   *)
(* function, number of bits, passes and threads.                           *)
(*                                                                         *)
(* A path is the sequence of parts, one for each pass, that leads to a     *)
(* part.  The part's rows have a place in the arrays, after those of the   *)
(* parts before it: Offset and Count.  A scatter task moves the tuple at a *)
(* place i of its part to Dest, which counts the tuples of the part that   *)
(* have to come before it, and so sorts the part by the next digit.        *)
(*                                                                         *)
(* DataInv is the inductive invariant.  What keeps tasks apart is that     *)
(* every path has one owner, Holdings: the task that needs its tuples      *)
(* or has not yet handed their parts on, or execute() itself.              *)
(***************************************************************************)
EXTENDS RadixData, BasicLemmas

--------------------------------------------------------------------------------
(* Digits, parts and places. *)

\* The digit of a row's hash value that counts at a depth.
Digit(s, r, d) == Value(HashOf(s, r), d)

\* The rows that come before those of a part in the order of the digits.
Ahead(s, p) ==
  {r \in Rows(s) : \E d \in DOMAIN p : /\ Digit(s, r, d) < p[d]
                                       /\ \A e \in 1 .. (d - 1) : Digit(s, r, e) = p[e]}
Offset(s, p) == Cardinality(Ahead(s, p))
Count(s, p)  == Cardinality(Members(s, p))
Place(s, p)  == Offset(s, p) .. (Offset(s, p) + Count(s, p) - 1)

\* Two paths that lead to different parts, and the first of them to an earlier one.
Earlier(p, q) ==
  \E d \in DOMAIN p \cap DOMAIN q : p[d] < q[d] /\ \A e \in 1 .. (d - 1) : p[e] = q[e]
Apart(p, q) == Earlier(p, q) \/ Earlier(q, p)

ArgsInv == rel \in Inputs /\ passes \in Passes

\* The parts of a pass are numbered from 0.
LEMMA PartsType ==
  /\ RadixBits \in Nat
  /\ part_count \in Nat \ {0} /\ 0 \in Parts /\ Parts \subseteq Nat
  /\ \A p \in Parts : p < part_count
BY PowerOfTwo, DataAssumption DEF part_count, Parts

\* The relations, the passes and the rows have the types that they should have.
LEMMA RowsType ==
  ASSUME ArgsInv
  PROVE  /\ rel \in [Sides -> Seq(Keys)] /\ passes \in Nat \ {0}
         /\ \A s \in Sides : /\ Len(rel[s]) \in Nat
                             /\ IsFiniteSet(Rows(s)) /\ Cardinality(Rows(s)) = Len(rel[s])
                             /\ NoRow \notin Rows(s)
                             /\ \A r \in Rows(s) : r \in Nat /\ rel[s][r] \in Keys
<1>1. rel \in [Sides -> Seq(Keys)] /\ passes \in Nat \ {0}
  BY DataAssumption DEF ArgsInv
<1>2. ASSUME NEW s \in Sides
      PROVE  /\ Len(rel[s]) \in Nat
             /\ IsFiniteSet(Rows(s)) /\ Cardinality(Rows(s)) = Len(rel[s])
             /\ NoRow \notin Rows(s)
             /\ \A r \in Rows(s) : r \in Nat /\ rel[s][r] \in Keys
  <2>1. rel[s] \in Seq(Keys)
    BY <1>1
  <2>2. Len(rel[s]) \in Nat /\ \A r \in 1 .. Len(rel[s]) : rel[s][r] \in Keys
    BY <2>1
  <2>3. IsFiniteSet(1 .. Len(rel[s])) /\ Cardinality(1 .. Len(rel[s])) = Len(rel[s])
    <3> DEFINE n == Len(rel[s])
    <3> HIDE DEF n
    <3>1. n \in Nat
      BY <2>2 DEF n
    <3>2. IsFiniteSet(1 .. (1 + n - 1)) /\ Cardinality(1 .. (1 + n - 1)) = n
      BY <3>1, IntervalSize
    <3>3. 1 + n - 1 = n
      BY <3>1
    <3>4. QED BY <3>2, <3>3 DEF n
  <2>4. QED BY <2>2, <2>3 DEF Rows, NoRow
<1>3. QED BY <1>1, <1>2

\* Every digit names a part.
LEMMA DigitType ==
  ASSUME ArgsInv, NEW s \in Sides, NEW r \in Rows(s) \cup {NoRow}, NEW d \in Nat \ {0}
  PROVE  Digit(s, r, d) \in Parts
<1> DEFINE h == HashOf(s, r)
           m == 2 ^ ((d - 1) * RadixBits)
<1>1. h \in Nat
  <2>1. CASE r = NoRow
    BY <2>1 DEF HashOf
  <2>2. CASE r # NoRow
    <3>1. rel[s][r] \in Keys
      BY <2>2, RowsType
    <3>2. Hash[rel[s][r]] \in 0 .. (2 ^ HashBits - 1)
      BY <3>1, DataAssumption
    <3>3. QED BY <2>2, <3>2 DEF HashOf
  <2>3. QED BY <2>1, <2>2
<1>2. (d - 1) * RadixBits \in Nat /\ RadixBits \in Nat
  <2>1. d - 1 \in Nat
    OBVIOUS
  <2>2. QED BY <2>1, PartsType, Products
<1>3. m \in Nat \ {0}
  BY <1>2, PowerOfTwo
<1>4. 2 ^ (d * RadixBits) = m * part_count
  <2>1. d * RadixBits = (d - 1) * RadixBits + RadixBits
    <3>1. d - 1 \in Nat /\ d = (d - 1) + 1
      OBVIOUS
    <3>2. QED BY <1>2, <3>1, Products
  <2>2. QED BY <1>2, <2>1, PowerOfSum DEF part_count
<1>5. Digit(s, r, d) = (h % (m * part_count)) \div m
  BY <1>4 DEF Digit, Value
<1> HIDE DEF h, m
<1>6. QED BY <1>1, <1>3, <1>5, PartsType, DigitRange DEF Parts

\* Equal keys have equal digits.
LEMMA SameDigits ==
  ASSUME ArgsInv, NEW m \in Pairs, SameKey(m)
  PROVE  \A d : Digit("l", m[1], d) = Digit("r", m[2], d)
<1>1. m[1] \in Rows("l") /\ m[2] \in Rows("r") /\ "l" \in Sides /\ "r" \in Sides
  BY DEF Pairs, Sides
<1>2. m[1] # NoRow /\ m[2] # NoRow
  BY <1>1, RowsType
<1>3. QED BY <1>2 DEF Digit, HashOf, SameKey

\* A subset of a finite set.
LEMMA SubsetSize ==
  ASSUME NEW S, IsFiniteSet(S), NEW T, T \subseteq S
  PROVE  /\ IsFiniteSet(T) /\ Cardinality(T) \in Nat /\ Cardinality(S) \in Nat
         /\ Cardinality(T) <= Cardinality(S)
         /\ T # S => Cardinality(T) < Cardinality(S)
<1>1. IsFiniteSet(T) /\ Cardinality(T) <= Cardinality(S) /\ (Cardinality(S) = Cardinality(T) => S = T)
  BY FS_Subset
<1>2. Cardinality(T) \in Nat /\ Cardinality(S) \in Nat
  BY <1>1, FS_CardinalityType
<1>3. QED BY <1>1, <1>2

\* A path is a sequence of parts.
LEMMA PathType ==
  ASSUME NEW p \in Seq(Parts)
  PROVE  /\ Len(p) \in Nat /\ DOMAIN p = 1 .. Len(p)
         /\ \A d \in DOMAIN p : d \in Nat \ {0} /\ p[d] \in Parts /\ p[d] \in Nat
<1>1. Len(p) \in Nat /\ DOMAIN p = 1 .. Len(p) /\ \A d \in 1 .. Len(p) : p[d] \in Parts
  OBVIOUS
<1>2. \A d \in 1 .. Len(p) : d \in Nat \ {0}
  BY <1>1
<1>3. \A k \in Parts : k \in Nat
  BY PartsType
<1>4. QED BY <1>1, <1>2, <1>3

\* The digits of a row can be compared with those of a path.
LEMMA DigitNumber ==
  ASSUME ArgsInv, NEW s \in Sides, NEW r \in Rows(s), NEW p \in Seq(Parts)
  PROVE  /\ \A d \in DOMAIN p : Digit(s, r, d) \in Nat /\ p[d] \in Nat
         /\ Digit(s, r, Len(p) + 1) \in Parts
<1>1. /\ Len(p) + 1 \in Nat \ {0}
      /\ \A d \in DOMAIN p : d \in Nat \ {0} /\ p[d] \in Nat
  BY PathType
<1>2. QED BY <1>1, DigitType, PartsType

\* A part has finitely many rows, and its place is within the array.
LEMMA PartType ==
  ASSUME ArgsInv, NEW s \in Sides, NEW p \in Seq(Parts)
  PROVE  /\ Ahead(s, p) \subseteq Rows(s) /\ Members(s, p) \subseteq Rows(s)
         /\ Ahead(s, p) \cap Members(s, p) = {}
         /\ IsFiniteSet(Ahead(s, p)) /\ IsFiniteSet(Members(s, p))
         /\ Offset(s, p) \in Nat /\ Count(s, p) \in Nat
         /\ Offset(s, p) + Count(s, p) <= Len(rel[s])
         /\ IsFiniteSet(Place(s, p)) /\ Cardinality(Place(s, p)) = Count(s, p)
         /\ Place(s, p) \subseteq 0 .. (Len(rel[s]) - 1)
         /\ Place(s, p) \subseteq Nat
<1> DEFINE A == Ahead(s, p)
           M == Members(s, p)
<1>1. A \subseteq Rows(s) /\ M \subseteq Rows(s)
  BY DEF Ahead, Members
<1>2. A \cap M = {}
  <2>1. ASSUME NEW r \in A, r \in M
        PROVE  FALSE
    <3>1. PICK d \in DOMAIN p : Digit(s, r, d) < p[d]
      BY DEF Ahead
    <3>2. Digit(s, r, d) = p[d]
      BY <2>1 DEF Members, Digit
    <3>3. Digit(s, r, d) \in Nat
      BY <1>1, DigitNumber
    <3>4. QED BY <3>1, <3>2, <3>3
  <2>2. QED BY <2>1
<1>3. IsFiniteSet(Rows(s)) /\ Cardinality(Rows(s)) = Len(rel[s]) /\ Len(rel[s]) \in Nat
  BY RowsType
<1>4. IsFiniteSet(A) /\ IsFiniteSet(M)
  BY <1>1, <1>3, SubsetSize
<1>5. /\ Cardinality(A \cup M) = Cardinality(A) + Cardinality(M)
      /\ Cardinality(A) \in Nat /\ Cardinality(M) \in Nat
  <2> HIDE DEF A, M
  <2>1. QED BY <1>2, <1>4, DisjointUnion
<1>6. Cardinality(A \cup M) <= Cardinality(Rows(s))
  <2> HIDE DEF A, M
  <2>1. QED BY <1>1, <1>3, SubsetSize
<1>7. Offset(s, p) \in Nat /\ Count(s, p) \in Nat /\ Offset(s, p) + Count(s, p) <= Len(rel[s])
  BY <1>3, <1>5, <1>6 DEF Offset, Count
<1>8. IsFiniteSet(Place(s, p)) /\ Cardinality(Place(s, p)) = Count(s, p)
  <2>1. Offset(s, p) \in Int
    BY <1>7
  <2>2. QED BY <1>7, <2>1, IntervalSize DEF Place
<1>9. /\ Place(s, p) \subseteq 0 .. (Len(rel[s]) - 1)
      /\ Place(s, p) \subseteq Nat
  BY <1>3, <1>7 DEF Place
<1>10. QED BY <1>1, <1>2, <1>4, <1>7, <1>8, <1>9

\* The part that the empty path leads to is the whole relation.
LEMMA WholePart ==
  ASSUME ArgsInv, NEW s \in Sides
  PROVE  /\ <<>> \in Seq(Parts) /\ Members(s, <<>>) = Rows(s)
         /\ Offset(s, <<>>) = 0 /\ Count(s, <<>>) = Len(rel[s])
         /\ Place(s, <<>>) = 0 .. (Len(rel[s]) - 1)
<1>1. <<>> \in Seq(Parts) /\ DOMAIN <<>> = {}
  OBVIOUS
<1>2. Members(s, <<>>) = Rows(s) /\ Ahead(s, <<>>) = {}
  BY <1>1 DEF Members, Ahead
<1>3. Offset(s, <<>>) = 0
  BY <1>2, FS_EmptySet DEF Offset
<1>4. Count(s, <<>>) = Len(rel[s])
  BY <1>2, RowsType DEF Count
<1>5. Len(rel[s]) \in Nat
  BY RowsType
<1>6. QED BY <1>1, <1>2, <1>3, <1>4, <1>5 DEF Place

\* A path that goes on by one part.
LEMMA Extended ==
  ASSUME NEW p \in Seq(Parts), NEW q \in Parts
  PROVE  /\ Append(p, q) \in Seq(Parts) /\ Len(Append(p, q)) = Len(p) + 1
         /\ DOMAIN Append(p, q) = DOMAIN p \cup {Len(p) + 1}
         /\ Append(p, q)[Len(p) + 1] = q
         /\ \A d \in DOMAIN p : Append(p, q)[d] = p[d]
<1>1. Len(p) \in Nat /\ DOMAIN p = 1 .. Len(p)
  OBVIOUS
<1>2. /\ Append(p, q) \in Seq(Parts) /\ Len(Append(p, q)) = Len(p) + 1
      /\ Append(p, q)[Len(p) + 1] = q
      /\ \A d \in 1 .. Len(p) : Append(p, q)[d] = p[d]
  BY AppendProperties
<1>3. DOMAIN Append(p, q) = 1 .. (Len(p) + 1)
  BY <1>2
<1>4. 1 .. (Len(p) + 1) = (1 .. Len(p)) \cup {Len(p) + 1}
  BY <1>1
<1>5. QED BY <1>1, <1>2, <1>3, <1>4

\* The rows of a part whose next digit is the given one, and a smaller one.
Continued(s, p, q) == {r \in Members(s, p) : Digit(s, r, Len(p) + 1) = q}
Below(s, p, q) == {r \in Members(s, p) : Digit(s, r, Len(p) + 1) < q}

\* What one more digit means for the members of a part and the rows ahead of it.
LEMMA ExtendedPart ==
  ASSUME ArgsInv, NEW s \in Sides, NEW p \in Seq(Parts), NEW q \in Parts
  PROVE  /\ Members(s, Append(p, q)) = Continued(s, p, q)
         /\ Ahead(s, Append(p, q)) = Ahead(s, p) \cup Below(s, p, q)
         /\ Offset(s, Append(p, q)) = Offset(s, p) + Cardinality(Below(s, p, q))
         /\ Count(s, Append(p, q)) = Cardinality(Continued(s, p, q))
<1> DEFINE n == Len(p) + 1
           x == Append(p, q)
<1>1. /\ DOMAIN x = DOMAIN p \cup {n} /\ x[n] = q /\ x \in Seq(Parts)
      /\ \A d \in DOMAIN p : x[d] = p[d]
  BY Extended
<1>2. /\ Len(p) \in Nat /\ DOMAIN p = 1 .. Len(p) /\ n \in Nat \ {0} /\ n - 1 = Len(p)
      /\ \A d \in DOMAIN p : 1 .. (d - 1) \subseteq DOMAIN p
      /\ n \notin DOMAIN p
  BY PathType
<1> HIDE DEF n, x
<1>3. Members(s, x) = Continued(s, p, q)
  BY <1>1 DEF Members, Continued, Digit, n
<1>4. Ahead(s, x) = Ahead(s, p) \cup Below(s, p, q)
  <2>1. ASSUME NEW r \in Ahead(s, x)
        PROVE  r \in Ahead(s, p) \cup Below(s, p, q)
    <3>1. PICK d \in DOMAIN x : /\ Digit(s, r, d) < x[d]
                                /\ \A e \in 1 .. (d - 1) : Digit(s, r, e) = x[e]
      BY DEF Ahead
    <3>2. r \in Rows(s)
      BY DEF Ahead
    <3>3. CASE d \in DOMAIN p
      <4>1. Digit(s, r, d) < p[d] /\ \A e \in 1 .. (d - 1) : Digit(s, r, e) = p[e]
        BY <1>1, <1>2, <3>1, <3>3
      <4>2. QED BY <3>2, <3>3, <4>1 DEF Ahead
    <3>4. CASE d = n
      <4>1. Digit(s, r, n) < q /\ \A e \in DOMAIN p : Digit(s, r, e) = p[e]
        BY <1>1, <1>2, <3>1, <3>4
      <4>2. QED BY <3>2, <4>1 DEF Below, Members, Digit, n
    <3>5. QED BY <1>1, <3>3, <3>4
  <2>2. ASSUME NEW r \in Ahead(s, p)
        PROVE  r \in Ahead(s, x)
    <3>1. PICK d \in DOMAIN p : /\ Digit(s, r, d) < p[d]
                                /\ \A e \in 1 .. (d - 1) : Digit(s, r, e) = p[e]
      BY DEF Ahead
    <3>2. r \in Rows(s) /\ d \in DOMAIN x
      BY <1>1 DEF Ahead
    <3>3. Digit(s, r, d) < x[d] /\ \A e \in 1 .. (d - 1) : Digit(s, r, e) = x[e]
      BY <1>1, <1>2, <3>1
    <3>4. QED BY <3>2, <3>3 DEF Ahead
  <2>3. ASSUME NEW r \in Below(s, p, q)
        PROVE  r \in Ahead(s, x)
    <3>1. r \in Rows(s) /\ \A e \in DOMAIN p : Digit(s, r, e) = p[e]
      BY DEF Below, Members, Digit
    <3>2. Digit(s, r, n) < x[n] /\ n \in DOMAIN x
      BY <1>1 DEF Below, n
    <3>3. \A e \in 1 .. (n - 1) : Digit(s, r, e) = x[e]
      BY <1>1, <1>2, <3>1
    <3>4. QED BY <3>1, <3>2, <3>3 DEF Ahead
  <2>4. QED BY <2>1, <2>2, <2>3
<1>5. /\ IsFiniteSet(Ahead(s, p)) /\ IsFiniteSet(Members(s, p))
      /\ Ahead(s, p) \cap Members(s, p) = {}
  BY PartType
<1>6. IsFiniteSet(Below(s, p, q)) /\ Ahead(s, p) \cap Below(s, p, q) = {}
  <2>1. Below(s, p, q) \subseteq Members(s, p)
    BY DEF Below
  <2>2. QED BY <1>5, <2>1, SubsetSize
<1>7. Cardinality(Ahead(s, p) \cup Below(s, p, q)) = Cardinality(Ahead(s, p)) + Cardinality(Below(s, p, q))
  BY <1>5, <1>6, DisjointUnion
<1>8. QED BY <1>3, <1>4, <1>7 DEF x, Offset, Count

\* The places of a part lie in those of the part it is split from.
LEMMA PlaceWithin ==
  ASSUME ArgsInv, NEW s \in Sides, NEW p \in Seq(Parts), NEW q \in Parts
  PROVE  /\ Offset(s, p) <= Offset(s, Append(p, q))
         /\ Offset(s, Append(p, q)) + Count(s, Append(p, q)) <= Offset(s, p) + Count(s, p)
         /\ Place(s, Append(p, q)) \subseteq Place(s, p)
         /\ Members(s, Append(p, q)) \subseteq Members(s, p)
<1> DEFINE B == Below(s, p, q)
           N == Continued(s, p, q)
           M == Members(s, p)
<1>1. IsFiniteSet(M) /\ Offset(s, p) \in Nat /\ Count(s, p) \in Nat
  BY PartType
<1>2. B \subseteq M /\ N \subseteq M /\ B \cup N \subseteq M
  BY DEF Below, Continued
<1>3. B \cap N = {}
  <2>1. ASSUME NEW r \in M, r \in B, r \in N
        PROVE  FALSE
    <3>1. r \in Rows(s)
      BY PartType
    <3>2. Digit(s, r, Len(p) + 1) \in Nat
      BY <3>1, DigitNumber, PartsType
    <3>3. QED BY <2>1, <3>2 DEF Below, Continued
  <2>2. QED BY <1>2, <2>1
<1>4. IsFiniteSet(B) /\ IsFiniteSet(N)
  BY <1>1, <1>2, SubsetSize
<1>5. /\ Cardinality(B \cup N) = Cardinality(B) + Cardinality(N)
      /\ Cardinality(B) \in Nat /\ Cardinality(N) \in Nat
  <2> HIDE DEF B, N
  <2>1. QED BY <1>3, <1>4, DisjointUnion
<1>6. Cardinality(B \cup N) <= Cardinality(M)
  <2> HIDE DEF B, N, M
  <2>1. QED BY <1>1, <1>2, SubsetSize
<1>7. /\ Offset(s, Append(p, q)) = Offset(s, p) + Cardinality(B)
      /\ Count(s, Append(p, q)) = Cardinality(N)
      /\ Members(s, Append(p, q)) = N
  BY ExtendedPart
<1>8. Cardinality(M) = Count(s, p)
  BY DEF Count
<1> HIDE DEF B, N, M
<1>9. /\ Offset(s, p) <= Offset(s, Append(p, q))
      /\ Offset(s, Append(p, q)) + Count(s, Append(p, q)) <= Offset(s, p) + Count(s, p)
  BY <1>1, <1>5, <1>6, <1>7, <1>8
<1>10. Offset(s, Append(p, q)) \in Nat /\ Count(s, Append(p, q)) \in Nat
  BY <1>1, <1>5, <1>7
<1>11. Place(s, Append(p, q)) \subseteq Place(s, p)
  BY <1>1, <1>9, <1>10 DEF Place
<1>12. Members(s, Append(p, q)) \subseteq M
  BY <1>2, <1>7
<1>13. QED BY <1>9, <1>11, <1>12 DEF M

\* A part begins where the one before it ends, the first one where the whole begins.
LEMMA NextPart ==
  ASSUME ArgsInv, NEW s \in Sides, NEW p \in Seq(Parts)
  PROVE  /\ Offset(s, Append(p, 0)) = Offset(s, p)
         /\ \A q \in Parts : q # 0 =>
              /\ q - 1 \in Parts
              /\ Offset(s, Append(p, q)) = Offset(s, Append(p, q - 1)) + Count(s, Append(p, q - 1))
<1>1. \A r \in Members(s, p) : Digit(s, r, Len(p) + 1) \in Nat
  BY PartType, DigitNumber, PartsType
<1>2. Offset(s, Append(p, 0)) = Offset(s, p)
  <2>1. Below(s, p, 0) = {}
    BY <1>1 DEF Below
  <2>2. 0 \in Parts /\ Offset(s, p) \in Nat
    BY PartsType, PartType
  <2>3. Offset(s, Append(p, 0)) = Offset(s, p) + Cardinality(Below(s, p, 0))
    BY <2>2, ExtendedPart
  <2>4. Cardinality(Below(s, p, 0)) = 0
    BY <2>1, FS_EmptySet
  <2>5. QED BY <2>2, <2>3, <2>4
<1>3. ASSUME NEW q \in Parts, q # 0
      PROVE  /\ q - 1 \in Parts
             /\ Offset(s, Append(p, q)) = Offset(s, Append(p, q - 1)) + Count(s, Append(p, q - 1))
  <2> DEFINE B == Below(s, p, q - 1)
             N == Continued(s, p, q - 1)
  <2>1. q - 1 \in Parts /\ q \in Nat
    BY <1>3, PartsType DEF Parts
  <2>2. Below(s, p, q) = B \cup N /\ B \cap N = {}
    <3>1. \A n \in Nat : (n < q <=> n < q - 1 \/ n = q - 1) /\ ~ (n < q - 1 /\ n = q - 1)
      BY <1>3, <2>1
    <3>2. QED BY <1>1, <3>1 DEF Below, Continued
  <2>3. IsFiniteSet(B) /\ IsFiniteSet(N)
    <3>1. B \subseteq Members(s, p) /\ N \subseteq Members(s, p)
      BY DEF Below, Continued
    <3>2. QED BY <3>1, PartType, SubsetSize
  <2>4. /\ Offset(s, Append(p, q)) = Offset(s, p) + Cardinality(Below(s, p, q))
        /\ Offset(s, Append(p, q - 1)) = Offset(s, p) + Cardinality(B)
        /\ Count(s, Append(p, q - 1)) = Cardinality(N)
    BY <2>1, ExtendedPart
  <2>5. Offset(s, p) \in Nat
    BY PartType
  <2> HIDE DEF B, N
  <2>6. /\ Cardinality(B \cup N) = Cardinality(B) + Cardinality(N)
        /\ Cardinality(B) \in Nat /\ Cardinality(N) \in Nat
    BY <2>2, <2>3, DisjointUnion
  <2>7. QED BY <2>1, <2>2, <2>4, <2>5, <2>6
<1>4. QED BY <1>2, <1>3

\* An earlier part lies before a later one.
LEMMA EarlierParts ==
  ASSUME ArgsInv, NEW s \in Sides, NEW p \in Seq(Parts), NEW q \in Seq(Parts), Earlier(p, q)
  PROVE  /\ Offset(s, p) + Count(s, p) <= Offset(s, q)
         /\ Place(s, p) \cap Place(s, q) = {} /\ Members(s, p) \cap Members(s, q) = {}
<1>1. PICK d \in DOMAIN p \cap DOMAIN q : p[d] < q[d] /\ \A e \in 1 .. (d - 1) : p[e] = q[e]
  BY DEF Earlier
<1>2. /\ DOMAIN p = 1 .. Len(p) /\ Len(p) \in Nat /\ DOMAIN q = 1 .. Len(q) /\ Len(q) \in Nat
      /\ p[d] \in Nat /\ q[d] \in Nat /\ d \in Nat \ {0}
  BY PathType
<1>3. Ahead(s, p) \subseteq Ahead(s, q)
  <2> SUFFICES ASSUME NEW r \in Ahead(s, p)
               PROVE  r \in Ahead(s, q)
    OBVIOUS
  <2>1. PICK e \in DOMAIN p : /\ Digit(s, r, e) < p[e]
                              /\ \A f \in 1 .. (e - 1) : Digit(s, r, f) = p[f]
    BY DEF Ahead
  <2>2. r \in Rows(s) /\ e \in Nat \ {0}
    BY <1>2 DEF Ahead
  <2>3. Digit(s, r, d) \in Nat
    BY <2>2, DigitNumber
  <2>4. CASE e < d
    <3>1. e \in DOMAIN q /\ q[e] = p[e] /\ \A f \in 1 .. (e - 1) : p[f] = q[f]
      BY <1>1, <1>2, <2>2, <2>4
    <3>2. QED BY <2>1, <2>2, <3>1 DEF Ahead
  <2>5. CASE e = d
    <3>1. Digit(s, r, d) < q[d] /\ \A f \in 1 .. (d - 1) : Digit(s, r, f) = q[f]
      BY <1>1, <1>2, <2>1, <2>3, <2>5
    <3>2. QED BY <2>2, <3>1 DEF Ahead
  <2>6. CASE e > d
    <3>1. Digit(s, r, d) = p[d] /\ \A f \in 1 .. (d - 1) : Digit(s, r, f) = p[f]
      BY <1>2, <2>1, <2>2, <2>6
    <3>2. Digit(s, r, d) < q[d] /\ \A f \in 1 .. (d - 1) : Digit(s, r, f) = q[f]
      BY <1>1, <3>1
    <3>3. QED BY <2>2, <3>2 DEF Ahead
  <2>7. QED BY <1>2, <2>2, <2>4, <2>5, <2>6
<1>4. Members(s, p) \subseteq Ahead(s, q)
  <2> SUFFICES ASSUME NEW r \in Members(s, p)
               PROVE  r \in Ahead(s, q)
    OBVIOUS
  <2>1. r \in Rows(s) /\ \A e \in DOMAIN p : Digit(s, r, e) = p[e]
    BY DEF Members, Digit
  <2>2. \A e \in 1 .. (d - 1) : e \in DOMAIN p
    BY <1>2
  <2>3. Digit(s, r, d) < q[d] /\ \A e \in 1 .. (d - 1) : Digit(s, r, e) = q[e]
    BY <1>1, <2>1, <2>2
  <2>4. QED BY <2>1, <2>3 DEF Ahead
<1>5. /\ Ahead(s, p) \cap Members(s, p) = {} /\ Ahead(s, q) \cap Members(s, q) = {}
      /\ IsFiniteSet(Ahead(s, p)) /\ IsFiniteSet(Members(s, p)) /\ IsFiniteSet(Ahead(s, q))
      /\ Offset(s, p) \in Nat /\ Count(s, p) \in Nat /\ Offset(s, q) \in Nat /\ Count(s, q) \in Nat
  BY PartType
<1>6. Cardinality(Ahead(s, p) \cup Members(s, p)) = Cardinality(Ahead(s, p)) + Cardinality(Members(s, p))
  BY <1>5, DisjointUnion
<1>7. Cardinality(Ahead(s, p) \cup Members(s, p)) <= Cardinality(Ahead(s, q))
  <2>1. Ahead(s, p) \cup Members(s, p) \subseteq Ahead(s, q)
    BY <1>3, <1>4
  <2>2. QED BY <1>5, <2>1, SubsetSize
<1>8. Offset(s, p) + Count(s, p) <= Offset(s, q)
  BY <1>6, <1>7 DEF Offset, Count
<1>9. Place(s, p) \cap Place(s, q) = {}
  BY <1>5, <1>8 DEF Place
<1>10. Members(s, p) \cap Members(s, q) = {}
  BY <1>4, <1>5
<1>11. QED BY <1>8, <1>9, <1>10

\* Parts that neither contains the other have neither rows nor places in common.
LEMMA ApartParts ==
  ASSUME ArgsInv, NEW s \in Sides, NEW p \in Seq(Parts), NEW q \in Seq(Parts), Apart(p, q)
  PROVE  Place(s, p) \cap Place(s, q) = {} /\ Members(s, p) \cap Members(s, q) = {}
BY EarlierParts DEF Apart

\* No path is apart from itself.
LEMMA ApartIrreflexive ==
  ASSUME NEW p \in Seq(Parts)
  PROVE  ~ Apart(p, p)
BY PathType DEF Apart, Earlier

\* What lies in parts that are apart is apart, and so are the parts a part is split into.
LEMMA ApartExtended ==
  ASSUME NEW p \in Seq(Parts), NEW q \in Seq(Parts), Apart(p, q), NEW k \in Parts
  PROVE  Apart(Append(p, k), q) /\ Apart(q, Append(p, k))
<1> DEFINE x == Append(p, k)
<1>1. DOMAIN x = DOMAIN p \cup {Len(p) + 1} /\ \A d \in DOMAIN p : x[d] = p[d]
  BY Extended
<1>2. DOMAIN p = 1 .. Len(p) /\ Len(p) \in Nat /\ \A d \in DOMAIN p : 1 .. (d - 1) \subseteq DOMAIN p
  BY PathType
<1> HIDE DEF x
<1>3. Earlier(p, q) => Earlier(x, q)
  <2> SUFFICES ASSUME NEW d \in DOMAIN p \cap DOMAIN q,
                      p[d] < q[d] /\ \A e \in 1 .. (d - 1) : p[e] = q[e]
               PROVE  Earlier(x, q)
    BY DEF Earlier
  <2>1. x[d] < q[d] /\ \A e \in 1 .. (d - 1) : x[e] = q[e]
    BY <1>1, <1>2
  <2>2. QED BY <1>1, <2>1 DEF Earlier
<1>4. Earlier(q, p) => Earlier(q, x)
  <2> SUFFICES ASSUME NEW d \in DOMAIN p \cap DOMAIN q,
                      q[d] < p[d] /\ \A e \in 1 .. (d - 1) : q[e] = p[e]
               PROVE  Earlier(q, x)
    BY DEF Earlier
  <2>1. q[d] < x[d] /\ \A e \in 1 .. (d - 1) : q[e] = x[e]
    BY <1>1, <1>2
  <2>2. QED BY <1>1, <2>1 DEF Earlier
<1>5. QED BY <1>3, <1>4 DEF Apart, x

\* The parts that a part is split into are apart.
LEMMA ApartSplit ==
  ASSUME NEW p \in Seq(Parts), NEW k \in Parts, NEW l \in Parts, k # l
  PROVE  Apart(Append(p, k), Append(p, l))
<1> DEFINE n == Len(p) + 1
<1>1. /\ n \in DOMAIN Append(p, k) /\ n \in DOMAIN Append(p, l)
      /\ Append(p, k)[n] = k /\ Append(p, l)[n] = l
      /\ \A d \in DOMAIN p : Append(p, k)[d] = p[d] /\ Append(p, l)[d] = p[d]
  BY Extended
<1>2. 1 .. (n - 1) = DOMAIN p
  BY PathType
<1>3. k < l \/ l < k
  BY PartsType
<1> HIDE DEF n
<1>4. QED BY <1>1, <1>2, <1>3 DEF Apart, Earlier

\* A map onto a set that has as many elements as its domain takes no other value.
LEMMA OntoExact ==
  ASSUME NEW S, IsFiniteSet(S), NEW T, Cardinality(T) = Cardinality(S),
         NEW f, T \subseteq {f[x] : x \in S}
  PROVE  {f[x] : x \in S} = T
<1> DEFINE U == {f[x] : x \in S}
           g == [x \in S |-> f[x]]
<1>1. g \in [S -> U] /\ \A y \in U : \E x \in S : g[x] = y
  OBVIOUS
<1>2. T \subseteq U
  OBVIOUS
<1> HIDE DEF U, g
<1>3. g \in Surjection(S, U)
  BY <1>1 DEF Surjection
<1>4. IsFiniteSet(U) /\ Cardinality(U) <= Cardinality(S)
  BY <1>3, FS_Surjection
<1>5. Cardinality(T) <= Cardinality(U) /\ (Cardinality(U) = Cardinality(T) => U = T)
  BY <1>2, <1>4, FS_Subset
<1>6. Cardinality(U) \in Nat /\ Cardinality(S) \in Nat
  BY <1>4, FS_CardinalityType
<1>7. U = T
  BY <1>4, <1>5, <1>6
<1>8. QED BY <1>7 DEF U

--------------------------------------------------------------------------------
(* What the arrays hold, and where a pass moves it. *)

\* An array of rows.
Typed(arr, s) == arr \in [0 .. (Len(rel[s]) - 1) -> Rows(s) \cup {NoRow}]

\* The places of a part in an array hold the part's tuples.
Holds(arr, s, p) == {arr[i] : i \in Place(s, p)} = Members(s, p)

\* The next digit of the tuple at a place.
Key(arr, s, p, i) == Digit(s, arr[i], Len(p) + 1)

\* The places whose tuples a stable sort by the next digit moves before the one at
\* place x whose next digit is q.
Lower(arr, s, p, q, x) ==
  {j \in Place(s, p) : Key(arr, s, p, j) < q \/ (Key(arr, s, p, j) = q /\ j < x)}

Dest(arr, s, p, i) == Offset(s, p) + Cardinality(Lower(arr, s, p, Key(arr, s, p, i), i))

\* The key of a place is a part, whatever the array holds there.
LEMMA KeyType ==
  ASSUME ArgsInv, NEW s \in Sides, NEW p \in Seq(Parts), NEW arr, Typed(arr, s),
         NEW i \in Place(s, p)
  PROVE  Key(arr, s, p, i) \in Parts /\ Key(arr, s, p, i) \in Nat /\ i \in Nat
<1>1. i \in 0 .. (Len(rel[s]) - 1) /\ i \in Nat
  BY PartType
<1>2. arr[i] \in Rows(s) \cup {NoRow}
  BY <1>1 DEF Typed
<1>3. Len(p) + 1 \in Nat \ {0}
  BY PathType
<1>4. Key(arr, s, p, i) \in Parts
  BY <1>2, <1>3, DigitType DEF Key
<1>5. QED BY <1>1, <1>4, PartsType

\* What is lower is within the part's place.
LEMMA LowerType ==
  ASSUME ArgsInv, NEW s \in Sides, NEW p \in Seq(Parts), NEW arr, NEW q, NEW x
  PROVE  /\ Lower(arr, s, p, q, x) \subseteq Place(s, p)
         /\ IsFiniteSet(Lower(arr, s, p, q, x))
         /\ Cardinality(Lower(arr, s, p, q, x)) \in Nat
         /\ Cardinality(Lower(arr, s, p, q, x)) <= Count(s, p)
<1>1. Lower(arr, s, p, q, x) \subseteq Place(s, p)
  BY DEF Lower
<1>2. IsFiniteSet(Place(s, p)) /\ Cardinality(Place(s, p)) = Count(s, p)
  BY PartType
<1>3. QED BY <1>1, <1>2, SubsetSize

\* The set grows with the digit and with the place.
LEMMA LowerGrows ==
  ASSUME ArgsInv, NEW s \in Sides, NEW p \in Seq(Parts), NEW arr, Typed(arr, s),
         NEW q \in Parts, NEW r \in Parts, NEW x \in Int, NEW y \in Int,
         q < r \/ (q = r /\ x <= y)
  PROVE  Cardinality(Lower(arr, s, p, q, x)) <= Cardinality(Lower(arr, s, p, r, y))
<1>1. Lower(arr, s, p, q, x) \subseteq Lower(arr, s, p, r, y)
  <2> SUFFICES ASSUME NEW j \in Lower(arr, s, p, q, x)
               PROVE  j \in Lower(arr, s, p, r, y)
    OBVIOUS
  <2>1. j \in Place(s, p) /\ (Key(arr, s, p, j) < q \/ (Key(arr, s, p, j) = q /\ j < x))
    BY DEF Lower
  <2>2. Key(arr, s, p, j) \in Nat /\ j \in Nat /\ q \in Nat /\ r \in Nat
    BY <2>1, KeyType, PartsType
  <2>3. Key(arr, s, p, j) < r \/ (Key(arr, s, p, j) = r /\ j < y)
    BY <2>1, <2>2
  <2>4. QED BY <2>1, <2>3 DEF Lower
<1>2. IsFiniteSet(Lower(arr, s, p, r, y))
  BY LowerType
<1>3. QED BY <1>1, <1>2, SubsetSize

\* One more place counts for its own digit alone.
LEMMA LowerNext ==
  ASSUME ArgsInv, NEW s \in Sides, NEW p \in Seq(Parts), NEW arr, Typed(arr, s),
         NEW i \in Place(s, p), NEW q \in Parts
  PROVE  Cardinality(Lower(arr, s, p, q, i + 1)) =
           Cardinality(Lower(arr, s, p, q, i)) + (IF q = Key(arr, s, p, i) THEN 1 ELSE 0)
<1> DEFINE k == Key(arr, s, p, i)
           L == Lower(arr, s, p, q, i)
           M == Lower(arr, s, p, q, i + 1)
<1>1. k \in Nat /\ i \in Nat /\ q \in Nat
  BY KeyType, PartsType
<1>2. \A j \in Place(s, p) : j \in Nat
  BY KeyType
<1>3. \A j \in Place(s, p) : j < i + 1 <=> j < i \/ j = i
  BY <1>1, <1>2
<1>4. CASE q = k
  <2>1. M = L \cup {i}
    BY <1>3, <1>4 DEF Lower
  <2>2. i \notin L
    BY <1>1, <1>4 DEF Lower
  <2>3. IsFiniteSet(L)
    BY LowerType
  <2> HIDE DEF L, M, k
  <2>4. Cardinality(M) = Cardinality(L) + 1
    BY <2>1, <2>2, <2>3, FS_AddElement
  <2>5. QED BY <1>4, <2>4 DEF k, L, M
<1>5. CASE q # k
  <2>1. M = L
    BY <1>3, <1>5 DEF Lower
  <2>2. Cardinality(L) \in Nat
    BY LowerType
  <2> HIDE DEF L, M, k
  <2>3. Cardinality(M) = Cardinality(L) + 0
    BY <2>1, <2>2
  <2>4. QED BY <1>5, <2>3 DEF k, L, M
<1>6. QED BY <1>4, <1>5

\* No two tuples of a part are moved to the same place, and none out of the part.
LEMMA DestInjective ==
  ASSUME ArgsInv, NEW s \in Sides, NEW p \in Seq(Parts), NEW arr, Typed(arr, s),
         NEW i \in Place(s, p), NEW j \in Place(s, p), i # j
  PROVE  Dest(arr, s, p, i) # Dest(arr, s, p, j)
<1> DEFINE k(x) == Key(arr, s, p, x)
           c(x) == Cardinality(Lower(arr, s, p, k(x), x))
<1>1. ASSUME NEW x \in Place(s, p), NEW y \in Place(s, p), k(x) < k(y) \/ (k(x) = k(y) /\ x < y)
      PROVE  c(x) < c(y)
  <2>1. k(x) \in Parts /\ k(y) \in Parts /\ x \in Nat /\ y \in Nat
    BY KeyType
  <2>2. k(x) < k(y) \/ (k(x) = k(y) /\ x + 1 <= y)
    BY <1>1, <2>1
  <2>3. Cardinality(Lower(arr, s, p, k(x), x + 1)) <= c(y)
    <3>1. x + 1 \in Int /\ y \in Int
      BY <2>1
    <3> HIDE DEF k
    <3>2. QED BY <2>1, <2>2, <3>1, LowerGrows
  <2>4. Cardinality(Lower(arr, s, p, k(x), x + 1)) = c(x) + 1
    BY <2>1, LowerNext
  <2>5. c(x) \in Nat /\ c(y) \in Nat
    BY LowerType
  <2> HIDE DEF k, c
  <2>6. QED BY <2>3, <2>4, <2>5
<1>2. k(i) \in Nat /\ k(j) \in Nat /\ i \in Nat /\ j \in Nat
  BY KeyType
<1>3. \/ k(i) < k(j) \/ (k(i) = k(j) /\ i < j)
      \/ k(j) < k(i) \/ (k(j) = k(i) /\ j < i)
  <2> HIDE DEF k
  <2>1. QED BY <1>2
<1>4. c(i) \in Nat /\ c(j) \in Nat
  BY LowerType
<1>5. c(i) # c(j)
  <2> HIDE DEF k, c
  <2>1. c(i) < c(j) \/ c(j) < c(i)
    BY <1>1, <1>3
  <2>2. QED BY <1>4, <2>1
<1>6. Offset(s, p) \in Nat
  BY PartType
<1>7. Dest(arr, s, p, i) = Offset(s, p) + c(i) /\ Dest(arr, s, p, j) = Offset(s, p) + c(j)
  BY DEF Dest
<1> HIDE DEF c
<1>8. QED BY <1>4, <1>5, <1>6, <1>7

\* A tuple's destination is within the part's place.
LEMMA DestWithin ==
  ASSUME ArgsInv, NEW s \in Sides, NEW p \in Seq(Parts), NEW arr, Typed(arr, s),
         NEW i \in Place(s, p)
  PROVE  Dest(arr, s, p, i) \in Place(s, p)
<1> DEFINE L == Lower(arr, s, p, Key(arr, s, p, i), i)
<1>1. L \subseteq Place(s, p) /\ i \notin L
  <2>1. Key(arr, s, p, i) \in Nat /\ i \in Nat
    BY KeyType
  <2>2. QED BY <2>1 DEF Lower
<1>2. IsFiniteSet(Place(s, p)) /\ Cardinality(Place(s, p)) = Count(s, p) /\ Offset(s, p) \in Nat
  BY PartType
<1> HIDE DEF L
<1>3. Cardinality(L) < Count(s, p) /\ Cardinality(L) \in Nat /\ Count(s, p) \in Nat
  BY <1>1, <1>2, SubsetSize
<1>4. Offset(s, p) + Cardinality(L) \in Place(s, p)
  BY <1>2, <1>3 DEF Place
<1>5. QED BY <1>4 DEF Dest, L

\* A region that holds a part holds each of its tuples once.
LEMMA HoldsOnce ==
  ASSUME ArgsInv, NEW s \in Sides, NEW p \in Seq(Parts), NEW arr, Holds(arr, s, p)
  PROVE  /\ \A i, j \in Place(s, p) : arr[i] = arr[j] => i = j
         /\ \A i \in Place(s, p) : arr[i] \in Members(s, p)
         /\ \A r \in Members(s, p) : \E i \in Place(s, p) : arr[i] = r
<1>1. IsFiniteSet(Place(s, p)) /\ Cardinality(Place(s, p)) = Count(s, p)
  BY PartType
<1>2. Cardinality({arr[i] : i \in Place(s, p)}) = Cardinality(Place(s, p))
  BY <1>1 DEF Holds, Count
<1>3. \A i, j \in Place(s, p) : arr[i] = arr[j] => i = j
  BY <1>1, <1>2, ImageInjective
<1>4. QED BY <1>3 DEF Holds

\* An array that holds a part holds every row of it once, and no other one.
LEMMA HeldOnce ==
  ASSUME ArgsInv, NEW s \in Sides, NEW p \in Seq(Parts), NEW arr, Holds(arr, s, p), NEW r
  PROVE  Cardinality({i \in Place(s, p) : arr[i] = r}) = IF r \in Members(s, p) THEN 1 ELSE 0
<1> DEFINE S == {i \in Place(s, p) : arr[i] = r}
<1>1. CASE r \in Members(s, p)
  <2>1. PICK i \in Place(s, p) : arr[i] = r
    BY <1>1, HoldsOnce
  <2>2. S = {i}
    BY <2>1, HoldsOnce
  <2>3. Cardinality(S) = 1
    BY <2>2, FS_Singleton
  <2>4. QED BY <1>1, <2>3
<1>2. CASE r \notin Members(s, p)
  <2>1. S = {}
    BY <1>2, HoldsOnce
  <2>2. Cardinality(S) = 0
    BY <2>1, FS_EmptySet
  <2>3. QED BY <1>2, <2>2
<1>3. QED BY <1>1, <1>2

\* The places of a part whose tuples have a given next digit, or a smaller one.
WithKey(arr, s, p, q)  == {j \in Place(s, p) : Key(arr, s, p, j) = q}
LowerKey(arr, s, p, q) == {j \in Place(s, p) : Key(arr, s, p, j) < q}

\* How many tuples of a region that holds a part have which next digit.
LEMMA KeyCounts ==
  ASSUME ArgsInv, NEW s \in Sides, NEW p \in Seq(Parts), NEW arr, Holds(arr, s, p), NEW q
  PROVE  /\ Cardinality(LowerKey(arr, s, p, q)) = Cardinality(Below(s, p, q))
         /\ Cardinality(WithKey(arr, s, p, q)) = Cardinality(Continued(s, p, q))
<1> DEFINE n == Len(p) + 1
           S == {j \in Place(s, p) : Key(arr, s, p, j) < q}
           T == {j \in Place(s, p) : Key(arr, s, p, j) = q}
<1>1. /\ \A i, j \in Place(s, p) : arr[i] = arr[j] => i = j
      /\ \A i \in Place(s, p) : arr[i] \in Members(s, p)
      /\ \A r \in Members(s, p) : \E i \in Place(s, p) : arr[i] = r
  BY HoldsOnce
<1>2. {arr[j] : j \in S} = Below(s, p, q) /\ {arr[j] : j \in T} = Continued(s, p, q)
  <2>1. \A j \in Place(s, p) : Key(arr, s, p, j) = Digit(s, arr[j], n)
    BY DEF Key
  <2> HIDE DEF n
  <2>2. /\ Below(s, p, q) = {r \in Members(s, p) : Digit(s, r, n) < q}
        /\ Continued(s, p, q) = {r \in Members(s, p) : Digit(s, r, n) = q}
    BY DEF Below, Continued, n
  <2>3. {arr[j] : j \in S} = Below(s, p, q)
    BY <1>1, <2>1, <2>2
  <2>4. {arr[j] : j \in T} = Continued(s, p, q)
    BY <1>1, <2>1, <2>2
  <2>5. QED BY <2>3, <2>4
<1>3. S \subseteq Place(s, p) /\ T \subseteq Place(s, p) /\ IsFiniteSet(Place(s, p))
  BY PartType
<1>4. IsFiniteSet(S) /\ IsFiniteSet(T)
  <2> HIDE DEF S, T
  <2>1. QED BY <1>3, SubsetSize
<1>5. Cardinality({arr[j] : j \in S}) = Cardinality(S)
  <2>1. \A i, j \in S : arr[i] = arr[j] => i = j
    BY <1>1
  <2> HIDE DEF S
  <2>2. QED BY <1>4, <2>1, ImageCardinality
<1>6. Cardinality({arr[j] : j \in T}) = Cardinality(T)
  <2>1. \A i, j \in T : arr[i] = arr[j] => i = j
    BY <1>1
  <2> HIDE DEF T
  <2>2. QED BY <1>4, <2>1, ImageCardinality
<1>7. QED BY <1>2, <1>5, <1>6 DEF LowerKey, WithKey

\* Where the tuples of a part begin and end, by the sums before and after a pass.
LEMMA LowerEnds ==
  ASSUME ArgsInv, NEW s \in Sides, NEW p \in Seq(Parts), NEW arr, Typed(arr, s),
         Holds(arr, s, p), NEW q \in Parts
  PROVE  /\ Offset(s, p) + Cardinality(Lower(arr, s, p, q, Offset(s, p))) = Offset(s, Append(p, q))
         /\ Offset(s, p) + Cardinality(Lower(arr, s, p, q, Offset(s, p) + Count(s, p))) =
              Offset(s, Append(p, q)) + Count(s, Append(p, q))
<1> DEFINE o == Offset(s, p)
           e == Offset(s, p) + Count(s, p)
           S == {j \in Place(s, p) : Key(arr, s, p, j) < q}
           T == {j \in Place(s, p) : Key(arr, s, p, j) = q}
<1>1. /\ Offset(s, p) \in Nat /\ Count(s, p) \in Nat /\ IsFiniteSet(Place(s, p))
      /\ \A j \in Place(s, p) : ~ (j < o) /\ j < e
  <2>1. Offset(s, p) \in Nat /\ Count(s, p) \in Nat /\ IsFiniteSet(Place(s, p))
    BY PartType
  <2>2. \A j \in Place(s, p) : ~ (j < o) /\ j < e
    BY <2>1 DEF Place
  <2>3. QED BY <2>1, <2>2
<1>2. Lower(arr, s, p, q, o) = S
  BY <1>1 DEF Lower
<1>3. Lower(arr, s, p, q, e) = S \cup T
  BY <1>1 DEF Lower
<1>4. S \cap T = {} /\ S \subseteq Place(s, p) /\ T \subseteq Place(s, p)
  <2>1. \A j \in Place(s, p) : Key(arr, s, p, j) \in Nat
    BY KeyType
  <2>2. q \in Nat
    BY PartsType
  <2>3. QED BY <2>1, <2>2
<1>5. Cardinality(S) = Cardinality(Below(s, p, q)) /\ Cardinality(T) = Cardinality(Continued(s, p, q))
  BY KeyCounts DEF LowerKey, WithKey
<1>6. /\ Offset(s, Append(p, q)) = Offset(s, p) + Cardinality(Below(s, p, q))
      /\ Count(s, Append(p, q)) = Cardinality(Continued(s, p, q))
  BY ExtendedPart
<1> HIDE DEF S, T, o, e
<1>7. IsFiniteSet(S) /\ IsFiniteSet(T)
  BY <1>1, <1>4, SubsetSize
<1>8. /\ Cardinality(S \cup T) = Cardinality(S) + Cardinality(T)
      /\ Cardinality(S) \in Nat /\ Cardinality(T) \in Nat
  BY <1>4, <1>7, DisjointUnion
<1>9. o + Cardinality(Lower(arr, s, p, q, o)) = Offset(s, Append(p, q))
  BY <1>2, <1>5, <1>6 DEF o
<1>10. o + Cardinality(Lower(arr, s, p, q, e)) = Offset(s, Append(p, q)) + Count(s, Append(p, q))
  BY <1>1, <1>3, <1>5, <1>6, <1>8 DEF o
<1>11. QED BY <1>9, <1>10 DEF o, e

\* A pass over a part moves every tuple into the part that its next digit names, so
\* that afterwards the places of these parts hold them.
LEMMA PassSorts ==
  ASSUME ArgsInv, NEW s \in Sides, NEW p \in Seq(Parts), NEW src, Typed(src, s), Holds(src, s, p),
         NEW dst, \A i \in Place(s, p) : dst[Dest(src, s, p, i)] = src[i],
         NEW q \in Parts
  PROVE  Holds(dst, s, Append(p, q))
<1> DEFINE x == Append(p, q)
<1>1. x \in Seq(Parts)
  BY Extended
<1>2. IsFiniteSet(Place(s, x)) /\ Cardinality(Place(s, x)) = Count(s, x)
  BY <1>1, PartType
<1>3. Members(s, x) \subseteq {dst[i] : i \in Place(s, x)}
  <2> SUFFICES ASSUME NEW r \in Members(s, x)
               PROVE  \E y \in Place(s, x) : dst[y] = r
    OBVIOUS
  <2>1. r \in Members(s, p) /\ Digit(s, r, Len(p) + 1) = q
    <3>1. Members(s, Append(p, q)) = Continued(s, p, q)
      BY ExtendedPart
    <3>2. r \in Continued(s, p, q)
      BY <3>1
    <3>3. QED BY <3>2 DEF Continued
  <2>2. PICK i \in Place(s, p) : src[i] = r
    BY <2>1, HoldsOnce
  <2>3. Key(src, s, p, i) = q
    BY <2>1, <2>2 DEF Key
  <2> DEFINE y == Dest(src, s, p, i)
             c(z) == Cardinality(Lower(src, s, p, q, z))
             o == Offset(s, p)
             e == Offset(s, p) + Count(s, p)
  <2>4. y = o + c(i) /\ c(i + 1) = c(i) + 1
    BY <2>3, LowerNext DEF Dest
  <2>5. o \in Nat /\ Count(s, p) \in Nat /\ i \in Nat /\ o <= i /\ i + 1 <= e
    <3>1. o \in Nat /\ Count(s, p) \in Nat /\ i \in Nat
      BY PartType
    <3>2. QED BY <3>1 DEF Place
  <2>6. c(o) <= c(i) /\ c(i + 1) <= c(e)
    <3>1. o \in Int /\ i \in Int /\ i + 1 \in Int /\ e \in Int
      BY <2>5
    <3>2. c(o) <= c(i)
      BY <2>5, <3>1, LowerGrows
    <3>3. c(i + 1) <= c(e)
      BY <2>5, <3>1, LowerGrows
    <3>4. QED BY <3>2, <3>3
  <2>7. o + c(o) = Offset(s, x) /\ o + c(e) = Offset(s, x) + Count(s, x)
    BY LowerEnds
  <2>8. c(i) \in Nat /\ c(o) \in Nat /\ c(e) \in Nat /\ Offset(s, x) \in Nat /\ Count(s, x) \in Nat
    BY <1>1, LowerType, PartType
  <2>9. dst[y] = r
    BY <2>2
  <2> HIDE DEF y, c, o, e, x
  <2>10. Offset(s, x) <= y /\ y <= Offset(s, x) + Count(s, x) - 1 /\ y \in Nat
    <3>1. y = o + c(i) /\ c(i) + 1 <= c(e) /\ c(o) <= c(i)
      BY <2>4, <2>6
    <3> DEFINE a == Offset(s, x)
               b == Count(s, x)
               ci == c(i)
               co == c(o)
               ce == c(e)
    <3>2. /\ y = o + ci /\ ci + 1 <= ce /\ co <= ci /\ o + co = a /\ o + ce = a + b
          /\ o \in Nat /\ ci \in Nat /\ co \in Nat /\ ce \in Nat /\ a \in Nat /\ b \in Nat
      BY <2>5, <2>7, <2>8, <3>1
    <3> HIDE DEF a, b, ci, co, ce
    <3>3. a <= y /\ y <= a + b - 1 /\ y \in Nat
      BY <3>2
    <3>4. QED BY <3>3 DEF a, b
  <2>11. y \in Place(s, x)
    BY <2>8, <2>10 DEF Place
  <2>12. QED BY <2>9, <2>11
<1>4. Cardinality(Members(s, x)) = Cardinality(Place(s, x))
  BY <1>2 DEF Count
<1> HIDE DEF x
<1>5. {dst[i] : i \in Place(s, x)} = Members(s, x)
  BY <1>2, <1>3, <1>4, OntoExact
<1>6. QED BY <1>5 DEF Holds, x

\* An array that holds parts in which all rows lie holds the relation.
LEMMA WholeFromParts ==
  ASSUME ArgsInv, NEW s \in Sides, NEW arr,
         \A r \in Rows(s) : \E p \in Seq(Parts) : r \in Members(s, p) /\ Holds(arr, s, p)
  PROVE  Holds(arr, s, <<>>)
<1> DEFINE S == Place(s, <<>>)
<1>1. /\ S = 0 .. (Len(rel[s]) - 1) /\ Members(s, <<>>) = Rows(s) /\ <<>> \in Seq(Parts)
      /\ Count(s, <<>>) = Len(rel[s])
  BY WholePart
<1>2. IsFiniteSet(S) /\ Cardinality(S) = Len(rel[s])
  BY <1>1, PartType
<1>3. Cardinality(Rows(s)) = Cardinality(S)
  BY <1>2, RowsType
<1>4. Rows(s) \subseteq {arr[i] : i \in S}
  <2> SUFFICES ASSUME NEW r \in Rows(s)
               PROVE  \E i \in S : arr[i] = r
    OBVIOUS
  <2>1. PICK p \in Seq(Parts) : r \in Members(s, p) /\ Holds(arr, s, p)
    OBVIOUS
  <2>2. PICK i \in Place(s, p) : arr[i] = r
    BY <2>1, HoldsOnce
  <2>3. i \in S
    BY <1>1, PartType
  <2>4. QED BY <2>2, <2>3
<1> HIDE DEF S
<1>5. {arr[i] : i \in S} = Rows(s)
  BY <1>2, <1>3, <1>4, OntoExact
<1>6. QED BY <1>1, <1>5 DEF Holds, S

--------------------------------------------------------------------------------
(* Histograms and sums. *)

\* The elements of a set to which a map gives a number, or a smaller one.
Equal(S, c, q) == {i \in S : c[i] = q}
Less(S, c, q)  == {i \in S : c[i] < q}

\* A histogram of a set, the elements of which a map puts into parts.
Counts(h, S, c) ==
  /\ \A i \in S : c[i] \in Parts
  /\ \A q \in Parts : h[q] = Cardinality(Equal(S, c, q))

\* Of the histogram of a set, the prefix sums count the elements of the parts before.
LEMMA PrefixCounts ==
  ASSUME NEW S, IsFiniteSet(S), NEW c, NEW h, Counts(h, S, c)
  PROVE  /\ Prefix(h) \in [Parts -> Nat]
         /\ \A p \in Parts : Prefix(h)[p] = Cardinality(Less(S, c, p))
<1> DEFINE below(p) == Less(S, c, p)
           here(p)  == Equal(S, c, p)
           Sums(g)  == g = [p \in Parts |-> IF p = 0 THEN 0 ELSE g[p - 1] + h[p - 1]]
           f        == [p \in Parts |-> Cardinality(below(p))]
<1>1. Prefix(h) = CHOOSE g : Sums(g)
  BY DEF Prefix
<1>2. \A i \in S : c[i] \in Nat
  BY PartsType DEF Counts
<1>3. Cardinality(below(0)) = 0
  <2>1. below(0) = {}
    BY <1>2 DEF Less
  <2>2. QED BY <2>1, FS_EmptySet
<1>4. ASSUME NEW p \in Parts, p # 0
      PROVE  /\ p - 1 \in Parts
             /\ Cardinality(below(p)) = Cardinality(below(p - 1)) + h[p - 1]
  <2>1. p - 1 \in Parts /\ p \in Nat
    BY <1>4, PartsType DEF Parts
  <2>2. below(p) = below(p - 1) \cup here(p - 1) /\ below(p - 1) \cap here(p - 1) = {}
    <3>1. \A n \in Nat : (n < p <=> n < p - 1 \/ n = p - 1) /\ ~ (n < p - 1 /\ n = p - 1)
      BY <1>4, <2>1
    <3>2. QED BY <1>2, <3>1 DEF Less, Equal
  <2>3. IsFiniteSet(below(p - 1)) /\ IsFiniteSet(here(p - 1))
    BY FS_Subset DEF Less, Equal
  <2>4. h[p - 1] = Cardinality(here(p - 1))
    BY <2>1 DEF Counts
  <2> HIDE DEF below, here
  <2>5. Cardinality(below(p - 1) \cup here(p - 1)) =
          Cardinality(below(p - 1)) + Cardinality(here(p - 1))
    BY <2>2, <2>3, DisjointUnion
  <2>6. QED BY <2>1, <2>2, <2>4, <2>5
<1>5. \A p \in Parts : f[p] = IF p = 0 THEN 0 ELSE f[p - 1] + h[p - 1]
  <2>1. \A p \in Parts : f[p] = Cardinality(below(p))
    OBVIOUS
  <2> HIDE DEF f, below
  <2>2. QED BY <1>3, <1>4, <2>1
<1>6. f = [p \in Parts |-> f[p]]
  OBVIOUS
<1> HIDE DEF f
<1>7. Sums(f)
  BY <1>5, <1>6
<1>8. Sums(Prefix(h))
  <2> HIDE DEF Sums
  <2>1. QED BY <1>1, <1>7
<1>9. ASSUME NEW g, Sums(g)
      PROVE  g = f
  <2> DEFINE N == {p \in Parts : g[p] = f[p]}
  <2>1. \A p \in Parts : g[p] = IF p = 0 THEN 0 ELSE g[p - 1] + h[p - 1]
    BY <1>9
  <2>2. 0 \in N
    BY <1>5, <2>1, PartsType
  <2>3. ASSUME NEW p \in 0 .. (part_count - 1 - 1), p \in N
        PROVE  p + 1 \in N
    <3>1. p + 1 \in Parts /\ p + 1 # 0 /\ (p + 1) - 1 = p
      BY PartsType DEF Parts
    <3>2. g[p + 1] = g[p] + h[p] /\ f[p + 1] = f[p] + h[p]
      BY <1>5, <2>1, <3>1
    <3>3. QED BY <2>3, <3>1, <3>2
  <2>4. Parts \subseteq N
    <3>1. part_count - 1 \in Nat
      BY PartsType
    <3> HIDE DEF N
    <3>2. QED BY <2>2, <2>3, <3>1, UpTo DEF Parts
  <2>5. g = [p \in Parts |-> g[p]]
    BY <1>9
  <2>6. QED BY <1>6, <2>4, <2>5
<1>10. Prefix(h) = f
  <2> HIDE DEF Sums
  <2>1. QED BY <1>8, <1>9
<1>11. \A p \in Parts : Cardinality(below(p)) \in Nat
  <2>1. \A p \in Parts : below(p) \subseteq S
    BY DEF Less
  <2> HIDE DEF below
  <2>2. QED BY <2>1, SubsetSize
<1>12. QED BY <1>10, <1>11 DEF f

\* Where the chunks of the threads meet.
Edge(s, k) == IF k = threads THEN Len(rel[s]) ELSE k * (Len(rel[s]) \div threads)

\* The chunks lie one after the other and cover the relation (radix_join_mt.cpp:37-46).
LEMMA ChunkEdges ==
  ASSUME ArgsInv, NEW s \in Sides
  PROVE  /\ Edge(s, 0) = 0 /\ Edge(s, threads) = Len(rel[s])
         /\ \A k \in 0 .. threads : Edge(s, k) \in Nat
         /\ \A j, k \in 0 .. threads : j <= k => Edge(s, j) <= Edge(s, k)
         /\ \A op, k : k \in Slots =>
              /\ Chunk(op, k).base[s] = Edge(s, k)
              /\ Chunk(op, k).size[s] = Edge(s, k + 1) - Edge(s, k)
              /\ Region(Chunk(op, k), s) = Edge(s, k) .. (Edge(s, k + 1) - 1)
              /\ Region(Chunk(op, k), s) \subseteq 0 .. (Len(rel[s]) - 1)
<1> DEFINE n == Len(rel[s])
           z == n \div threads
<1>1. n \in Nat /\ threads \in Nat \ {0}
  BY RowsType, DataAssumption
<1> HIDE DEF n
<1>2. z \in Nat /\ z * threads <= n
  BY <1>1, Quotient
<1> HIDE DEF z
<1>3. \A j, k \in Nat : j <= k => j * z \in Nat /\ k * z \in Nat /\ j * z <= k * z /\ (j + 1) * z = j * z + z
  BY <1>2, Products
<1>4. 0 * z = 0 /\ threads * z <= n
  <2>1. threads * z = z * threads
    BY <1>1, <1>2
  <2>2. QED BY <1>2, <2>1
<1>5. \A k : Edge(s, k) = IF k = threads THEN n ELSE k * z
  BY DEF Edge, n, z
<1>6. \A k \in 0 .. threads : Edge(s, k) \in Nat
  BY <1>1, <1>3, <1>5
<1>7. \A j, k \in 0 .. threads : j <= k => Edge(s, j) <= Edge(s, k)
  <2> SUFFICES ASSUME NEW j \in 0 .. threads, NEW k \in 0 .. threads, j <= k
               PROVE  Edge(s, j) <= Edge(s, k)
    OBVIOUS
  <2>1. j * z <= k * z /\ j * z <= threads * z /\ j * z \in Nat /\ threads * z \in Nat
    BY <1>1, <1>3
  <2>2. QED BY <1>1, <1>4, <1>5, <2>1
<1>8. ASSUME NEW op, NEW k \in Slots
      PROVE  /\ Chunk(op, k).base[s] = Edge(s, k)
             /\ Chunk(op, k).size[s] = Edge(s, k + 1) - Edge(s, k)
             /\ Region(Chunk(op, k), s) = Edge(s, k) .. (Edge(s, k + 1) - 1)
             /\ Region(Chunk(op, k), s) \subseteq 0 .. (n - 1)
  <2>1. /\ k \in 0 .. threads /\ k + 1 \in 0 .. threads /\ k # threads /\ k \in Nat
        /\ (k + 1 = threads <=> k = threads - 1)
    BY <1>1 DEF Slots
  <2>2. Chunk(op, k).base[s] = k * z /\ Chunk(op, k).size[s] = ChunkSize(s, k)
    BY DEF Chunk, n, z
  <2>3. ChunkSize(s, k) = IF k = threads - 1 THEN n - k * z ELSE z
    BY DEF ChunkSize, n, z
  <2>4. Edge(s, k) = k * z
    BY <1>5, <2>1
  <2>5. Edge(s, k + 1) = IF k = threads - 1 THEN n ELSE k * z + z
    <3>1. (k + 1) * z = k * z + z
      BY <1>3, <2>1
    <3>2. QED BY <1>5, <2>1, <3>1
  <2>6. ChunkSize(s, k) = Edge(s, k + 1) - Edge(s, k)
    <3>1. k * z \in Nat
      BY <1>3, <2>1
    <3>2. QED BY <1>1, <1>2, <2>3, <2>4, <2>5, <3>1
  <2>7. Region(Chunk(op, k), s) = Edge(s, k) .. (Edge(s, k) + (Edge(s, k + 1) - Edge(s, k)) - 1)
    BY <2>2, <2>4, <2>6 DEF Region
  <2>8. Edge(s, k) \in Nat /\ Edge(s, k + 1) \in Nat /\ Edge(s, k + 1) <= n
    <3>1. threads \in 0 .. threads /\ k + 1 <= threads /\ Edge(s, threads) = n
      BY <1>1, <1>5, <2>1
    <3>2. QED BY <1>6, <1>7, <2>1, <3>1
  <2>9. Region(Chunk(op, k), s) = Edge(s, k) .. (Edge(s, k + 1) - 1)
    BY <2>7, <2>8
  <2>10. Region(Chunk(op, k), s) \subseteq 0 .. (n - 1)
    BY <1>1, <2>8, <2>9
  <2>11. QED BY <2>2, <2>4, <2>6, <2>9, <2>10
<1>9. Edge(s, 0) = 0 /\ Edge(s, threads) = n
  <2>1. 0 # threads
    BY <1>1
  <2>2. QED BY <1>4, <1>5, <2>1
<1>10. QED BY <1>6, <1>7, <1>8, <1>9 DEF n

\* What the partition tasks of the first round deliver.
HistKnown == \A k \in Slots : hist[k] = Histogram(Chunk("partition", k))

\* A task's part: what it reads is sorted by the digit after its path.
Path(t) == IF t.depth = 1 THEN <<>> ELSE t.of

\* A histogram counts the tuples of each part in the data of the task.
LEMMA HistogramCounts ==
  ASSUME NEW t, NEW s \in Sides, NEW q \in Parts, t.depth = Len(Path(t)) + 1
  PROVE  Histogram(t)[s][q] =
           Cardinality({i \in Region(t, s) : Key(mem[t.from][s], s, Path(t), i) = q})
BY DEF Histogram, PartAt, Key, Digit

\* The places before a bound whose tuples have a given next digit.
Upto(arr, s, q, x) == {i \in 0 .. (x - 1) : Key(arr, s, <<>>, i) = q}

\* What the chunks before n hold of each part.
LEMMA BeforeCounts ==
  ASSUME ArgsInv, HistKnown, NEW s \in Sides, NEW n \in 0 .. threads
  PROVE  Before(n, s) = [q \in Parts |-> Cardinality(Upto(mem["input"][s], s, q, Edge(s, n)))]
<1> DEFINE arr == mem["input"][s]
           c(q, k) == Cardinality(Upto(arr, s, q, Edge(s, k)))
           Sums(g) == g = [j \in 0 .. n |->
                         IF j = 0 THEN NoSums[s]
                         ELSE [q \in Parts |-> g[j - 1][q] + hist[j - 1][s][q]]]
           f == [j \in 0 .. n |-> [q \in Parts |-> c(q, j)]]
<1>1. n \in Nat /\ threads \in Nat \ {0}
  BY DataAssumption
<1>2. Before(n, s) = (CHOOSE g : Sums(g))[n]
  BY DEF Before
<1>3. \A q \in Parts : c(q, 0) = 0 /\ NoSums[s][q] = 0
  <2>1. \A q \in Parts : Upto(arr, s, q, 0) = {}
    BY DEF Upto
  <2>2. Edge(s, 0) = 0
    BY ChunkEdges
  <2>3. QED BY <2>1, <2>2, FS_EmptySet DEF NoSums
<1>4. ASSUME NEW j \in 0 .. n, j # 0, NEW q \in Parts
      PROVE  c(q, j) = c(q, j - 1) + hist[j - 1][s][q]
  <2> DEFINE A == Upto(arr, s, q, Edge(s, j - 1))
             B == {i \in Region(Chunk("partition", j - 1), s) : Key(arr, s, <<>>, i) = q}
  <2>1. j - 1 \in Slots /\ j \in Nat /\ (j - 1) + 1 = j /\ j - 1 \in 0 .. threads /\ j \in 0 .. threads
    BY <1>1, <1>4 DEF Slots
  <2>2. /\ Region(Chunk("partition", j - 1), s) = Edge(s, j - 1) .. (Edge(s, j) - 1)
        /\ Edge(s, j - 1) \in Nat /\ Edge(s, j) \in Nat /\ Edge(s, j - 1) <= Edge(s, j)
    BY <2>1, ChunkEdges
  <2>3. Upto(arr, s, q, Edge(s, j)) = A \cup B /\ A \cap B = {}
    <3>1. 0 .. (Edge(s, j) - 1) = 0 .. (Edge(s, j - 1) - 1) \cup Edge(s, j - 1) .. (Edge(s, j) - 1)
      BY <2>2
    <3>2. 0 .. (Edge(s, j - 1) - 1) \cap Edge(s, j - 1) .. (Edge(s, j) - 1) = {}
      BY <2>2
    <3>3. QED BY <2>2, <3>1, <3>2 DEF Upto
  <2>4. IsFiniteSet(A) /\ IsFiniteSet(B)
    <3>1. Edge(s, j - 1) - 1 \in Int /\ Edge(s, j) - 1 \in Int /\ 0 \in Int /\ Edge(s, j - 1) \in Int
      BY <2>2
    <3>2. IsFiniteSet(0 .. (Edge(s, j - 1) - 1)) /\ IsFiniteSet(Edge(s, j - 1) .. (Edge(s, j) - 1))
      BY <3>1, FS_Interval
    <3>3. A \subseteq 0 .. (Edge(s, j - 1) - 1) /\ B \subseteq Edge(s, j - 1) .. (Edge(s, j) - 1)
      BY <2>2 DEF Upto
    <3> HIDE DEF A, B
    <3>4. QED BY <3>2, <3>3, SubsetSize
  <2>5. hist[j - 1][s][q] = Cardinality(B)
    <3> DEFINE t == Chunk("partition", j - 1)
    <3>1. t.depth = 1 /\ t.from = "input" /\ Path(t) = <<>> /\ Len(<<>>) = 0
      BY DEF Chunk, Path
    <3>2. hist[j - 1] = Histogram(t)
      BY <2>1 DEF HistKnown
    <3> HIDE DEF t
    <3>3. Histogram(t)[s][q] = Cardinality({i \in Region(t, s) : Key(mem[t.from][s], s, Path(t), i) = q})
      BY <3>1, HistogramCounts
    <3>4. QED BY <3>1, <3>2, <3>3 DEF t
  <2> HIDE DEF A, B, arr
  <2>6. Cardinality(A \cup B) = Cardinality(A) + Cardinality(B)
    BY <2>3, <2>4, DisjointUnion
  <2>7. QED BY <2>3, <2>5, <2>6 DEF A
<1>5. \A j \in 0 .. n : f[j] = IF j = 0 THEN NoSums[s]
                               ELSE [q \in Parts |-> f[j - 1][q] + hist[j - 1][s][q]]
  <2>1. \A j \in 0 .. n : f[j] = [q \in Parts |-> c(q, j)]
    OBVIOUS
  <2>2. NoSums[s] = [q \in Parts |-> 0]
    BY DEF NoSums
  <2> HIDE DEF f, c
  <2>3. f[0] = NoSums[s]
    BY <1>1, <1>3, <2>1, <2>2
  <2>4. ASSUME NEW j \in 0 .. n, j # 0
        PROVE  f[j] = [q \in Parts |-> f[j - 1][q] + hist[j - 1][s][q]]
    <3>1. j - 1 \in 0 .. n
      BY <1>1, <2>4
    <3>2. \A q \in Parts : c(q, j) = f[j - 1][q] + hist[j - 1][s][q]
      BY <1>4, <2>1, <2>4, <3>1
    <3>3. QED BY <2>1, <3>2
  <2>5. QED BY <2>3, <2>4
<1>6. f = [j \in 0 .. n |-> f[j]]
  OBVIOUS
<1> HIDE DEF f
<1>7. Sums(f)
  <2>1. f = [j \in 0 .. n |-> IF j = 0 THEN NoSums[s]
                              ELSE [q \in Parts |-> f[j - 1][q] + hist[j - 1][s][q]]]
    BY <1>5, <1>6
  <2>2. QED BY <2>1
<1> DEFINE b == CHOOSE g : Sums(g)
<1>8. Sums(b)
  <2> HIDE DEF Sums
  <2>1. QED BY <1>7
<1> HIDE DEF b
<1>9. b = f
  <2> DEFINE N == {j \in 0 .. n : b[j] = f[j]}
  <2>1. \A j \in 0 .. n : b[j] = IF j = 0 THEN NoSums[s]
                                 ELSE [q \in Parts |-> b[j - 1][q] + hist[j - 1][s][q]]
    BY <1>8
  <2>2. 0 \in N
    <3>1. 0 \in 0 .. n
      BY <1>1
    <3>2. b[0] = NoSums[s]
      BY <2>1, <3>1
    <3>3. f[0] = NoSums[s]
      BY <1>5, <3>1
    <3>4. QED BY <3>1, <3>2, <3>3
  <2>3. ASSUME NEW j \in 0 .. (n - 1), j \in N
        PROVE  j + 1 \in N
    <3>1. j + 1 \in 0 .. n /\ j + 1 # 0 /\ (j + 1) - 1 = j
      BY <1>1
    <3>2. /\ b[j + 1] = [q \in Parts |-> b[j][q] + hist[j][s][q]]
          /\ f[j + 1] = [q \in Parts |-> f[j][q] + hist[j][s][q]]
      BY <1>5, <2>1, <3>1
    <3>3. QED BY <2>3, <3>1, <3>2
  <2>4. 0 .. n \subseteq N
    <3> HIDE DEF N
    <3>1. QED BY <1>1, <2>2, <2>3, UpTo
  <2>5. b = [j \in 0 .. n |-> b[j]]
    BY <1>8
  <2>6. QED BY <1>6, <2>4, <2>5
<1>10. Before(n, s) = f[n]
  BY <1>2, <1>9 DEF b
<1>11. n \in 0 .. n
  BY <1>1
<1>12. f[n] = [q \in Parts |-> c(q, n)]
  BY <1>11 DEF f
<1>13. QED BY <1>10, <1>12

\* The global histogram and its prefix sums, and where the threads write.
LEMMA GlobalCounts ==
  ASSUME ArgsInv, HistKnown, NEW s \in Sides, Typed(mem["input"][s], s),
         Holds(mem["input"][s], s, <<>>)
  PROVE  /\ \A q \in Parts : /\ Before(threads, s)[q] = Count(s, <<q>>)
                             /\ GlobalSum(s)[q] = Offset(s, <<q>>)
         /\ GlobalSum(s) \in [Parts -> Nat]
         /\ \A k \in Slots, q \in Parts :
              LocalSum(k)[s][q] = Cardinality(Lower(mem["input"][s], s, <<>>, q, Edge(s, k)))
<1> DEFINE arr == mem["input"][s]
           S == Place(s, <<>>)
           c == [i \in S |-> Key(arr, s, <<>>, i)]
<1>1. /\ <<>> \in Seq(Parts) /\ S = 0 .. (Len(rel[s]) - 1) /\ Offset(s, <<>>) = 0
      /\ IsFiniteSet(S)
  BY WholePart, PartType
<1>2. threads \in 0 .. threads /\ Edge(s, threads) = Len(rel[s])
  BY ChunkEdges, DataAssumption
<1>3. \A i \in S : c[i] = Key(arr, s, <<>>, i)
  OBVIOUS
<1>4. \A i \in S : c[i] \in Parts
  <2> HIDE DEF c
  <2>1. QED BY <1>1, <1>3, KeyType
<1>5. \A q \in Parts : Before(threads, s)[q] = Cardinality({i \in S : Key(arr, s, <<>>, i) = q})
  BY <1>1, <1>2, BeforeCounts DEF Upto
<1>6. /\ GlobalSum(s) \in [Parts -> Nat]
      /\ \A p \in Parts : GlobalSum(s)[p] = Cardinality(Less(S, c, p))
  <2> DEFINE h == Before(threads, s)
  <2>1. ASSUME NEW q \in Parts
        PROVE  {i \in S : Key(arr, s, <<>>, i) = q} = Equal(S, c, q)
    BY <1>3 DEF Equal
  <2>2. \A q \in Parts : h[q] = Cardinality(Equal(S, c, q))
    <3> HIDE DEF c, S, arr
    <3>1. QED BY <1>5, <2>1
  <2> HIDE DEF c, S, arr, h
  <2>3. /\ Prefix(h) \in [Parts -> Nat]
        /\ \A p \in Parts : Prefix(h)[p] = Cardinality(Less(S, c, p))
    <3>1. IsFiniteSet(S) /\ Counts(h, S, c)
      BY <1>1, <1>4, <2>2 DEF Counts
    <3>2. QED BY <3>1, PrefixCounts
  <2>4. QED BY <2>3 DEF h, GlobalSum
<1>7. \A p \in Parts : Less(S, c, p) = LowerKey(arr, s, <<>>, p)
  BY DEF Less, LowerKey
<1>8. \A p \in Parts : GlobalSum(s)[p] = Cardinality(LowerKey(arr, s, <<>>, p))
  <2> HIDE DEF c, S, arr
  <2>1. QED BY <1>6, <1>7
<1>9. ASSUME NEW q \in Parts
      PROVE  /\ Before(threads, s)[q] = Count(s, <<q>>)
             /\ GlobalSum(s)[q] = Offset(s, <<q>>)
             /\ GlobalSum(s)[q] \in Nat
  <2>1. Append(<<>>, q) = <<q>>
    OBVIOUS
  <2>2. /\ Cardinality(LowerKey(arr, s, <<>>, q)) = Cardinality(Below(s, <<>>, q))
        /\ Cardinality(WithKey(arr, s, <<>>, q)) = Cardinality(Continued(s, <<>>, q))
    BY <1>1, KeyCounts
  <2>3. /\ Offset(s, <<q>>) = 0 + Cardinality(Below(s, <<>>, q))
        /\ Count(s, <<q>>) = Cardinality(Continued(s, <<>>, q))
    BY <1>1, <2>1, ExtendedPart
  <2>4. Cardinality(Below(s, <<>>, q)) \in Nat
    <3>1. Below(s, <<>>, q) \subseteq Members(s, <<>>) /\ IsFiniteSet(Members(s, <<>>))
      BY <1>1, PartType DEF Below
    <3>2. QED BY <3>1, SubsetSize
  <2> HIDE DEF c, S, arr
  <2>5. GlobalSum(s)[q] = Cardinality(Below(s, <<>>, q))
    BY <1>8, <2>2
  <2>6. Before(threads, s)[q] = Cardinality(Continued(s, <<>>, q))
    BY <1>5, <2>2 DEF WithKey, S
  <2>7. QED BY <2>3, <2>4, <2>5, <2>6
<1>11. ASSUME NEW k \in Slots, NEW q \in Parts
       PROVE  LocalSum(k)[s][q] = Cardinality(Lower(arr, s, <<>>, q, Edge(s, k)))
  <2> DEFINE A == {i \in S : Key(arr, s, <<>>, i) < q}
             B == Upto(arr, s, q, Edge(s, k))
  <2>1. k \in 0 .. threads /\ threads \in Nat
    BY DataAssumption DEF Slots
  <2>2. Edge(s, k) \in Nat /\ Edge(s, k) <= Len(rel[s])
    BY <1>2, <2>1, ChunkEdges
  <2>3. LocalSum(k)[s][q] = GlobalSum(s)[q] + Before(k, s)[q]
    BY DEF LocalSum
  <2>4. GlobalSum(s)[q] = Cardinality(A)
    BY <1>8 DEF LowerKey
  <2>5. Before(k, s)[q] = Cardinality(B)
    BY <2>1, BeforeCounts
  <2>6. Lower(arr, s, <<>>, q, Edge(s, k)) = A \cup B /\ B \subseteq S
    <3>1. Len(rel[s]) \in Nat
      BY RowsType
    <3>2. \A j \in S : j < Edge(s, k) <=> j \in 0 .. (Edge(s, k) - 1)
      BY <1>1, <2>2, <3>1
    <3>3. 0 .. (Edge(s, k) - 1) \subseteq S
      BY <1>1, <2>2, <3>1
    <3>4. B \subseteq S
      BY <3>3 DEF Upto
    <3>5. \A j \in S : j \in B <=> Key(arr, s, <<>>, j) = q /\ j < Edge(s, k)
      BY <3>2 DEF Upto
    <3>6. QED BY <3>4, <3>5 DEF Lower
  <2>7. A \cap B = {}
    <3>1. \A j \in S : Key(arr, s, <<>>, j) \in Nat
      BY <1>1, KeyType
    <3>2. q \in Nat
      BY PartsType
    <3>3. QED BY <2>6, <3>1, <3>2 DEF Upto
  <2>8. A \subseteq S
    OBVIOUS
  <2> HIDE DEF A, B, S, arr
  <2>9. IsFiniteSet(A) /\ IsFiniteSet(B)
    BY <1>1, <2>6, <2>8, SubsetSize
  <2>10. Cardinality(A \cup B) = Cardinality(A) + Cardinality(B)
    BY <2>7, <2>9, DisjointUnion
  <2>11. QED BY <2>3, <2>4, <2>5, <2>6, <2>10
<1>12. QED BY <1>6, <1>9, <1>11

--------------------------------------------------------------------------------
(* The inductive invariant. *)

SetUp == mpc \in {"partition", "scatter"}
Later == mpc \in {"leaves", "wait", "finish"}

Busy  == Pool!Queued \cup active
Known == Busy \cup finished

\* The array that holds a part's tuples once it has been split off.
ArrayOf(p) == IF Len(p) % 2 = 0 THEN "input" ELSE "target"

TypeInv ==
  /\ ArgsInv
  /\ mem = [a \in Arrays |-> [s \in Sides |-> mem[a][s]]]
  /\ \A a \in Arrays, s \in Sides : Typed(mem[a][s], s)
  /\ queue \in Seq(Work) /\ active \subseteq Work /\ finished \subseteq Work
  /\ at \in [active -> [pos : Nat, sum : [Sides -> [Parts -> Nat]]]]
  /\ mpc \in {"idle", "partition", "scatter", "leaves", "wait", "finish"}
  /\ round \in Nat
  /\ hist \in [Slots -> [Sides -> [Parts -> Nat]]]
  /\ result \in [Pairs -> Nat]
  /\ built \in BOOLEAN /\ calls \in Nat /\ due \in Nat

\* The pool never has a task twice, and none between calls.
PoolInv ==
  /\ \A i, j \in DOMAIN queue : queue[i] = queue[j] => i = j
  /\ Pool!Queued \cap active = {} /\ Busy \cap finished = {}
  /\ mpc = "idle" => queue = <<>> /\ active = {}

\* A task below the first round: its bounds are those of its part.
DeepForm(t) ==
  /\ t.of \in Seq(Parts) /\ t.depth = Len(t.of) + 1 /\ t.depth \in 2 .. (passes + 1)
  /\ t.op = "join" <=> t.depth = passes + 1
  /\ t.op # "scatter" => t.sum = NoSums
  /\ t.from = ArrayOf(t.of)
  /\ \A s \in Sides : /\ t.base[s] = Offset(s, t.of) /\ t.to[s] = Offset(s, t.of)
                      /\ t.size[s] = Count(s, t.of)

Chunks(op, n) == {Chunk(op, k) : k \in 0 .. (n - 1)}

FormInv ==
  /\ mpc = "partition" => Known \subseteq Chunks("partition", round)
  /\ mpc = "scatter" =>
       /\ Chunks("partition", threads) \subseteq finished
       /\ Busy \subseteq Chunks("scatter", round)
       /\ finished \subseteq Chunks("partition", threads) \cup Chunks("scatter", threads)
  /\ Later => \A t \in Known : IF t.depth = 1 THEN t \in finished /\ t.op # "join" ELSE DeepForm(t)
  /\ SetUp => round <= threads
  /\ mpc = "leaves" => round <= part_count
  /\ ~ SetUp /\ mpc # "leaves" => round = 0

HistInv ==
  /\ mpc = "partition" => \A k \in Slots : \A t \in active \cup finished :
       t = Chunk("partition", k) /\ (t \in active => at[t].pos = 1) => hist[k] = Histogram(t)
  /\ mpc = "scatter" => HistKnown
  /\ mpc = "leaves" => \A s \in Sides, q \in Parts : /\ GlobalSum(s)[q] = Offset(s, <<q>>)
                                                    /\ Before(threads, s)[q] = Count(s, <<q>>)

\* Where a scatter task is in the data of a side after n steps.
Bound(t, s, n) ==
  t.base[s] + IF s = "l" THEN (IF n < t.size["l"] THEN n ELSE t.size["l"])
              ELSE (IF n < t.size["l"] THEN 0 ELSE n - t.size["l"])

\* A scatter task's sums after n steps, and what it has moved: m are the arrays.
SumsAt(t, m, sum, n) ==
  \A s \in Sides, q \in Parts :
    sum[s][q] = Cardinality(Lower(m[t.from][s], s, Path(t), q, Bound(t, s, n)))

MovedAt(t, m, n) ==
  \A s \in Sides : \A i \in t.base[s] .. (Bound(t, s, n) - 1) :
    m[Other(t.from)][s][Dest(m[t.from][s], s, Path(t), i)] = m[t.from][s][i]

\* When everything has been moved, the sums are where the parts end.
SplitAt(t, sum) ==
  \A s \in Sides, q \in Parts :
    sum[s][q] = Offset(s, Append(t.of, q)) + Count(s, Append(t.of, q)) - Offset(s, t.of)

Scattering(t, a, m) ==
  IF t.depth = 1 \/ a.pos < Tuples(t)
  THEN SumsAt(t, m, t.sum, 0) /\ SumsAt(t, m, a.sum, a.pos) /\ MovedAt(t, m, a.pos)
  ELSE SplitAt(t, a.sum)

ScatterInv ==
  /\ \A t \in Pool!Queued : t.op = "scatter" => SumsAt(t, mem, t.sum, 0)
  /\ \A t \in active : t.op = "scatter" => Scattering(t, at[t], mem)
  /\ mpc = "scatter" => \A t \in finished : t.op = "scatter" => MovedAt(t, mem, Tuples(t))

ActiveInv ==
  \A t \in active : /\ at[t].pos <= Steps(t)
                    /\ t.op # "scatter" => at[t].sum = NoSums

\* The paths that a task answers for: its own as long as it needs its data, for a
\* join forever, and the parts that a scatter task has not yet scheduled a task for.
Children(t, n) == {Append(t.of, (k + 1) % part_count) : k \in n .. (part_count - 1)}
Owned(t) ==
  IF t.depth = 1 THEN {}
  ELSE IF t.op = "join" \/ t \in Pool!Queued \/ (t \in active /\ Reading(t)) THEN {t.of}
  ELSE IF t \in active /\ t.op = "scatter" THEN Children(t, at[t].pos - Tuples(t))
  ELSE {}

MainOwned == IF mpc = "leaves" THEN {<<i>> : i \in round .. (part_count - 1)} ELSE {}

\* Who answers for which path; execute() itself is the owner {}.
Holdings ==
  (UNION {{<<{t}, p>> : p \in Owned(t)} : t \in Known}) \cup {<<{}, p>> : p \in MainOwned}

AllApart(H) == \A x, y \in H : x # y => Apart(x[2], y[2])

Parent(p) == SubSeq(p, 1, Len(p) - 1)

\* A part's tuples are in place.  After the last pass, if that leaves the tuples in
\* the target, the input still holds what was split.
Settled(m, p) ==
  \A s \in Sides : /\ Holds(m[ArrayOf(p)][s], s, p)
                   /\ Len(p) = passes /\ passes % 2 = 1 => Holds(m["input"][s], s, Parent(p))

OwnInv == Later => AllApart(Holdings)

ContentInv ==
  /\ ~ Later => \A s \in Sides : Holds(mem["input"][s], s, <<>>)
  /\ Later => \A x \in Holdings : Settled(mem, x[2])

Joined(t) == t.op = "join" /\ (t \in finished \/ (t \in active /\ at[t].pos = 1))
InJoined(r) == \E t \in Known : Joined(t) /\ r \in Members("l", t.of)

ResultInv ==
  /\ \A m \in Pairs :
       result[m] = IF ~ SameKey(m) THEN 0
                   ELSE IF mpc # "idle" /\ InJoined(m[1]) THEN due + 1 ELSE due
  /\ built <=> mpc \in {"wait", "finish"} \/ due > 0

LeafInv ==
  mpc = "finish" => \A p \in [1 .. passes -> Parts] :
                      \E t \in active \cup finished : t.op = "join" /\ t.of = p

DataInv ==
  /\ TypeInv /\ PoolInv /\ FormInv /\ HistInv /\ ScatterInv /\ ActiveInv
  /\ OwnInv /\ ContentInv /\ ResultInv /\ LeafInv

--------------------------------------------------------------------------------
(* What a step leaves as it is. *)

\* None of these operators depends on anything but the arguments of the join.
LEMMA Frame ==
  ASSUME UNCHANGED args
  PROVE  /\ ArgsInv' <=> ArgsInv
         /\ \A s : Rows(s)' = Rows(s)
         /\ \A s, p : Members(s, p)' = Members(s, p)
         /\ \A s, p : Offset(s, p)' = Offset(s, p) /\ Count(s, p)' = Count(s, p)
         /\ \A s, p : Place(s, p)' = Place(s, p)
         /\ \A arr, s : Typed(arr, s)' <=> Typed(arr, s)
         /\ \A arr, s, p : Holds(arr, s, p)' <=> Holds(arr, s, p)
         /\ \A t : DeepForm(t)' <=> DeepForm(t)
         /\ \A m, p : Settled(m, p)' <=> Settled(m, p)
         /\ \A t, m, sum, n : SumsAt(t, m, sum, n)' <=> SumsAt(t, m, sum, n)
         /\ \A t, m, n : MovedAt(t, m, n)' <=> MovedAt(t, m, n)
         /\ \A t, a, m : Scattering(t, a, m)' <=> Scattering(t, a, m)
<1>1. rel' = rel /\ passes' = passes
  BY DEF args
<1>2. \A s : Rows(s)' = Rows(s)
  BY <1>1 DEF Rows
<1>3. \A s, r : HashOf(s, r)' = HashOf(s, r)
  BY <1>1 DEF HashOf
<1>4. \A s, r, d : Digit(s, r, d)' = Digit(s, r, d)
  BY <1>3 DEF Digit, Value
<1>5. \A s, p : Members(s, p)' = Members(s, p)
  BY <1>2, <1>3 DEF Members, Value
<1>6. \A s, p : Ahead(s, p)' = Ahead(s, p)
  BY <1>2, <1>4 DEF Ahead
<1>7. \A s, p : Offset(s, p)' = Offset(s, p) /\ Count(s, p)' = Count(s, p)
  BY <1>5, <1>6 DEF Offset, Count
<1>8. \A s, p : Place(s, p)' = Place(s, p)
  BY <1>7 DEF Place
<1>9. \A arr, s : Typed(arr, s)' <=> Typed(arr, s)
  BY <1>1, <1>2 DEF Typed
<1>10. \A arr, s, p : Holds(arr, s, p)' <=> Holds(arr, s, p)
  BY <1>5, <1>8 DEF Holds
<1>11. \A arr, s, p, i : Key(arr, s, p, i)' = Key(arr, s, p, i)
  BY <1>4 DEF Key
<1>12. \A arr, s, p, q, x : Lower(arr, s, p, q, x)' = Lower(arr, s, p, q, x)
  BY <1>8, <1>11 DEF Lower
<1>13. \A arr, s, p, i : Dest(arr, s, p, i)' = Dest(arr, s, p, i)
  BY <1>7, <1>11, <1>12 DEF Dest
<1>14. \A t : DeepForm(t)' <=> DeepForm(t)
  BY <1>1, <1>7 DEF DeepForm
<1>15. \A m, p : Settled(m, p)' <=> Settled(m, p)
  BY <1>1, <1>10 DEF Settled
<1>16. \A t, m, sum, n : SumsAt(t, m, sum, n)' <=> SumsAt(t, m, sum, n)
  BY <1>12 DEF SumsAt, Bound, Path
<1>17. \A t, m, n : MovedAt(t, m, n)' <=> MovedAt(t, m, n)
  BY <1>13 DEF MovedAt, Bound, Path, Other
<1>18. \A t, sum : SplitAt(t, sum)' <=> SplitAt(t, sum)
  BY <1>7 DEF SplitAt
<1>19. \A t, a, m : Scattering(t, a, m)' <=> Scattering(t, a, m)
  BY <1>16, <1>17, <1>18 DEF Scattering, Tuples
<1>20. ArgsInv' <=> ArgsInv
  BY <1>1 DEF ArgsInv
<1>21. QED BY <1>2, <1>5, <1>7, <1>8, <1>9, <1>10, <1>14, <1>15, <1>16, <1>17, <1>19, <1>20

\* The chunks of the first round are the same tasks as long as the histograms are.
LEMMA ChunkFrame ==
  ASSUME UNCHANGED args
  PROVE  /\ \A k : Chunk("partition", k)' = Chunk("partition", k)
         /\ \A n : Chunks("partition", n)' = Chunks("partition", n)
         /\ UNCHANGED hist =>
              /\ \A op, k : Chunk(op, k)' = Chunk(op, k)
              /\ \A op, n : Chunks(op, n)' = Chunks(op, n)
              /\ \A s : GlobalSum(s)' = GlobalSum(s)
              /\ \A n, s : Before(n, s)' = Before(n, s)
<1>1. rel' = rel
  BY DEF args
<1>2. \A s, k : ChunkSize(s, k)' = ChunkSize(s, k)
  BY <1>1 DEF ChunkSize
<1>3. \A k : Chunk("partition", k)' = Chunk("partition", k)
  BY <1>1, <1>2 DEF Chunk, NoSums
<1>4. \A n : Chunks("partition", n)' = Chunks("partition", n)
  BY <1>3 DEF Chunks
<1>5. ASSUME UNCHANGED hist
      PROVE  /\ \A op, k : Chunk(op, k)' = Chunk(op, k)
             /\ \A s : GlobalSum(s)' = GlobalSum(s)
             /\ \A n, s : Before(n, s)' = Before(n, s)
  <2>1. \A n, s : Before(n, s)' = Before(n, s)
    BY <1>5 DEF Before, NoSums
  <2>2. \A s : GlobalSum(s)' = GlobalSum(s)
    BY <2>1 DEF GlobalSum, Prefix
  <2>3. \A k : LocalSum(k)' = LocalSum(k)
    BY <2>1, <2>2 DEF LocalSum
  <2>4. \A op, k : Chunk(op, k)' = Chunk(op, k)
    BY <1>1, <1>2, <2>3 DEF Chunk, NoSums
  <2>5. QED BY <2>1, <2>2, <2>4
<1>6. (\A op, k : Chunk(op, k)' = Chunk(op, k)) => \A op, n : Chunks(op, n)' = Chunks(op, n)
  BY DEF Chunks
<1>7. QED BY <1>3, <1>4, <1>5, <1>6

\* A histogram depends on the array it is about.
LEMMA HistogramFrame ==
  ASSUME UNCHANGED args, NEW t, UNCHANGED mem[t.from]
  PROVE  Histogram(t)' = Histogram(t)
<1>1. \A s, r : HashOf(s, r)' = HashOf(s, r)
  BY DEF HashOf, args
<1>2. mem'[t.from] = mem[t.from]
  OBVIOUS
<1>3. \A s, i : PartAt(t, s, i)' = PartAt(t, s, i)
  BY <1>1, <1>2 DEF PartAt, Value
<1>4. QED BY <1>3 DEF Histogram, Region

--------------------------------------------------------------------------------
(* Tasks. *)

\* The fields of the task for a chunk.
LEMMA ChunkForm ==
  ASSUME NEW op, NEW k
  PROVE  /\ Chunk(op, k).op = op /\ Chunk(op, k).depth = 1 /\ Chunk(op, k).of = <<k>>
         /\ Chunk(op, k).from = "input" /\ Path(Chunk(op, k)) = <<>>
         /\ \A s \in Sides : Chunk(op, k).to[s] = 0
         /\ Chunk(op, k).sum = IF op = "scatter" THEN LocalSum(k) ELSE NoSums
BY DEF Chunk, Path

\* Different chunks have different tasks.
LEMMA DistinctChunks ==
  ASSUME NEW op, NEW k, NEW j, NEW oq, Chunk(op, k) = Chunk(oq, j)
  PROVE  op = oq /\ k = j
<1>1. Chunk(op, k).of = <<k>> /\ Chunk(oq, j).of = <<j>> /\ Chunk(op, k).op = op /\ Chunk(oq, j).op = oq
  BY ChunkForm
<1>2. <<k>>[1] = k /\ <<j>>[1] = j
  OBVIOUS
<1>3. QED BY <1>1, <1>2

\* Where a task's data lie: in the places of the part that its path leads to.
LEMMA ChunkData ==
  ASSUME ArgsInv, NEW op, NEW k \in Slots, NEW s \in Sides
  PROVE  LET t == Chunk(op, k)
         IN  /\ Path(t) \in Seq(Parts) /\ t.depth = Len(Path(t)) + 1
             /\ t.base[s] \in Nat /\ t.size[s] \in Nat /\ t.to[s] = Offset(s, Path(t))
             /\ Region(t, s) \subseteq Place(s, Path(t))
<1> DEFINE t == Chunk(op, k)
<1>1. /\ t.depth = 1 /\ Path(t) = <<>> /\ t.to[s] = 0
  BY ChunkForm
<1>2. /\ <<>> \in Seq(Parts) /\ Offset(s, <<>>) = 0 /\ Place(s, <<>>) = 0 .. (Len(rel[s]) - 1)
      /\ Len(<<>>) = 0
  BY WholePart
<1>3. /\ t.base[s] = Edge(s, k) /\ t.size[s] = Edge(s, k + 1) - Edge(s, k)
      /\ Region(t, s) \subseteq 0 .. (Len(rel[s]) - 1)
  BY ChunkEdges
<1>4. Edge(s, k) \in Nat /\ Edge(s, k + 1) \in Nat /\ Edge(s, k) <= Edge(s, k + 1)
  <2>1. k \in 0 .. threads /\ k + 1 \in 0 .. threads /\ k <= k + 1
    BY DataAssumption DEF Slots
  <2>2. QED BY <2>1, ChunkEdges
<1> HIDE DEF t
<1>5. QED BY <1>1, <1>2, <1>3, <1>4 DEF t

\* The bounds of a task below the first round.
LEMMA DeepData ==
  ASSUME ArgsInv, NEW t, DeepForm(t), NEW s \in Sides
  PROVE  /\ t.depth # 1 /\ t.depth > 1 /\ t.depth \in Nat /\ t.of \in Seq(Parts) /\ Path(t) = t.of
         /\ t.depth = Len(Path(t)) + 1
         /\ t.base[s] \in Nat /\ t.size[s] \in Nat
         /\ t.base[s] = Offset(s, Path(t)) /\ t.to[s] = Offset(s, Path(t))
         /\ t.size[s] = Count(s, Path(t))
         /\ Region(t, s) = Place(s, Path(t))
<1>1. passes \in Nat
  BY RowsType
<1>2. t.depth # 1 /\ t.depth > 1 /\ t.depth \in Nat /\ t.of \in Seq(Parts) /\ t.depth = Len(t.of) + 1
  BY <1>1 DEF DeepForm
<1>3. Path(t) = t.of
  BY <1>2 DEF Path
<1>4. /\ t.base[s] = Offset(s, t.of) /\ t.to[s] = Offset(s, t.of) /\ t.size[s] = Count(s, t.of)
  BY DEF DeepForm
<1>5. Offset(s, t.of) \in Nat /\ Count(s, t.of) \in Nat
  BY <1>2, PartType
<1>6. QED BY <1>2, <1>3, <1>4, <1>5 DEF Region, Place

\* An empty queue holds no task.
LEMMA EmptyQueue == queue = <<>> => Pool!Queued = {}
BY DEF Pool!Queued, Pool!Range

\* What the pool's actions do to the tasks it holds.
LEMMA Accepting ==
  ASSUME TypeInv, PoolInv, NEW t \in Work, Pool!Accept(t)
  PROVE  /\ t \notin Known
         /\ (Pool!Queued)' = Pool!Queued \cup {t} /\ UNCHANGED <<active, finished>>
         /\ Busy' = Busy \cup {t} /\ Known' = Known \cup {t}
         /\ queue' \in Seq(Work)
         /\ \A i, j \in DOMAIN queue' : queue'[i] = queue'[j] => i = j
<1>1. t \notin Known /\ queue' = Append(queue, t) /\ UNCHANGED <<active, finished>>
  BY DEF Pool!Accept, Pool!Fresh, Known, Busy
<1>2. queue \in Seq(Work)
  BY DEF TypeInv
<1>3. Pool!Queued = Range(queue) /\ (Pool!Queued)' = Range(queue')
  BY DEF Pool!Queued, Pool!Range, Range
<1>4. Range(Append(queue, t)) = Range(queue) \cup {t}
  BY <1>2, RangeOfAppend
<1>5. t \notin Range(queue)
  BY <1>1, <1>3 DEF Known, Busy
<1>6. \A i, j \in DOMAIN Append(queue, t) :
        Append(queue, t)[i] = Append(queue, t)[j] => i = j
  BY <1>2, <1>5, RangeOfAppend DEF PoolInv
<1>7. QED BY <1>1, <1>2, <1>3, <1>4, <1>6 DEF Busy, Known

\* A task that is started leaves the queue.
LEMMA Starting ==
  ASSUME TypeInv, PoolInv, Pool!Start
  PROVE  \E t \in Pool!Queued :
           /\ t = Head(queue) /\ t \in Work /\ t \notin active /\ t \notin finished
           /\ (Pool!Queued)' = Pool!Queued \ {t} /\ active' = active \cup {t}
           /\ UNCHANGED finished /\ Busy' = Busy /\ Known' = Known
           /\ queue' \in Seq(Work)
           /\ \A i, j \in DOMAIN queue' : queue'[i] = queue'[j] => i = j
<1> DEFINE t == Head(queue)
<1>1. /\ queue # <<>> /\ queue' = Tail(queue) /\ active' = active \cup {t}
      /\ UNCHANGED finished
  BY DEF Pool!Start
<1>2. queue \in Seq(Work)
  BY DEF TypeInv
<1>3. Pool!Queued = Range(queue) /\ (Pool!Queued)' = Range(queue')
  BY DEF Pool!Queued, Pool!Range, Range
<1>4. t \in Work /\ Tail(queue) \in Seq(Work)
  BY <1>1, <1>2
<1>5. /\ Range(queue) = Range(Tail(queue)) \cup {t}
      /\ t \notin Range(Tail(queue))
      /\ \A i, j \in DOMAIN Tail(queue) : Tail(queue)[i] = Tail(queue)[j] => i = j
  <2>1. \A i, j \in DOMAIN queue : queue[i] = queue[j] => i = j
    BY DEF PoolInv
  <2>2. QED BY <1>1, <1>2, <2>1, RangeOfTail
<1> HIDE DEF t
<1>6. t \in Pool!Queued /\ (Pool!Queued)' = Pool!Queued \ {t}
  BY <1>1, <1>3, <1>5
<1>7. t \notin active /\ t \notin finished
  BY <1>6 DEF PoolInv, Busy
<1>8. Busy' = Busy
  BY <1>1, <1>6 DEF Busy
<1>9. Known' = Known
  BY <1>1, <1>8 DEF Known
<1>10. QED BY <1>1, <1>4, <1>5, <1>6, <1>7, <1>8, <1>9 DEF t

\* A task that completes is finished.
LEMMA Completing ==
  ASSUME PoolInv, NEW t, Pool!Complete(t)
  PROVE  /\ t \in active /\ active' = active \ {t} /\ finished' = finished \cup {t}
         /\ UNCHANGED queue /\ (Pool!Queued)' = Pool!Queued
         /\ Busy' = Busy \ {t} /\ Known' = Known
<1>1. t \in active /\ active' = active \ {t} /\ finished' = finished \cup {t} /\ UNCHANGED queue
  BY DEF Pool!Complete
<1>2. (Pool!Queued)' = Pool!Queued
  BY <1>1 DEF Pool!Queued, Pool!Range
<1>3. t \notin Pool!Queued
  BY <1>1 DEF PoolInv
<1>4. QED BY <1>1, <1>2, <1>3 DEF Busy, Known

\* The sets of tasks follow from the variables of the pool.
LEMMA PoolFrame ==
  ASSUME UNCHANGED <<queue, active, finished>>
  PROVE  (Pool!Queued)' = Pool!Queued /\ Busy' = Busy /\ Known' = Known
BY DEF Pool!Queued, Pool!Range, Busy, Known

\* What is queued or active, by the phase of execute().
LEMMA BusyTask ==
  ASSUME PoolInv, FormInv, NEW t \in Busy, TypeInv
  PROVE  \/ mpc = "partition" /\ \E k \in Slots : k < round /\ t = Chunk("partition", k)
         \/ mpc = "scatter" /\ \E k \in Slots : k < round /\ t = Chunk("scatter", k)
         \/ Later /\ DeepForm(t)
<1>1. mpc # "idle"
  <2>1. queue = <<>> => Pool!Queued = {}
    BY EmptyQueue
  <2>2. QED BY <2>1 DEF PoolInv, Busy
<1>2. CASE mpc = "partition" \/ mpc = "scatter"
  <2>1. t \in Chunks(mpc, round)
    BY <1>2 DEF FormInv, Known
  <2>2. PICK k \in 0 .. (round - 1) : t = Chunk(mpc, k)
    BY <2>1 DEF Chunks
  <2>3. round \in Nat /\ threads \in Nat /\ round <= threads
    BY <1>2, DataAssumption DEF TypeInv, FormInv, SetUp
  <2>4. k \in Slots /\ k < round
    BY <2>3 DEF Slots
  <2>5. QED BY <1>2, <2>2, <2>4
<1>3. CASE Later
  <2>1. t \in Known /\ t \notin finished
    BY DEF Known, PoolInv
  <2>2. QED BY <1>3, <2>1 DEF FormInv
<1>4. QED BY <1>1, <1>2, <1>3 DEF TypeInv, Later

\* The data of a queued or active task.
LEMMA TaskData ==
  ASSUME PoolInv, FormInv, TypeInv, NEW t \in Busy, NEW s \in Sides
  PROVE  /\ Path(t) \in Seq(Parts) /\ t.depth = Len(Path(t)) + 1
         /\ t.base[s] \in Nat /\ t.size[s] \in Nat /\ t.to[s] = Offset(s, Path(t))
         /\ Region(t, s) \subseteq Place(s, Path(t))
         /\ t.from \in Arrays
<1>1. ArgsInv
  BY DEF TypeInv
<1>2. CASE \E op \in {"partition", "scatter"} : \E k \in Slots : t = Chunk(op, k)
  <2>1. PICK op \in {"partition", "scatter"}, k \in Slots : t = Chunk(op, k)
    BY <1>2
  <2>2. QED BY <1>1, <2>1, ChunkData, ChunkForm DEF Arrays
<1>3. CASE DeepForm(t)
  <2>1. t.from \in Arrays
    BY <1>3 DEF DeepForm, ArrayOf, Arrays
  <2>2. QED BY <1>1, <1>3, <2>1, DeepData
<1>4. QED BY <1>2, <1>3, BusyTask

--------------------------------------------------------------------------------
(* A scatter task moves a tuple. *)

\* A task with its data in its part's places; m are the arrays.
Sized(t) ==
  /\ t.from \in Arrays /\ Path(t) \in Seq(Parts) /\ t.depth = Len(Path(t)) + 1
  /\ \A s \in Sides : /\ t.base[s] \in Nat /\ t.size[s] \in Nat
                      /\ Region(t, s) \subseteq Place(s, Path(t))

ArraysOK(m) ==
  /\ m = [a \in Arrays |-> [s \in Sides |-> m[a][s]]]
  /\ \A a \in Arrays, s \in Sides : Typed(m[a][s], s)

\* The data of a task that is queued or running are within the place of its part.
LEMMA SizesOfTask ==
  ASSUME PoolInv, FormInv, TypeInv, NEW t \in Busy
  PROVE  Sized(t) /\ \A s \in Sides : t.to[s] = Offset(s, Path(t))
<1>1. \A s \in Sides : /\ Path(t) \in Seq(Parts) /\ t.depth = Len(Path(t)) + 1
                       /\ t.base[s] \in Nat /\ t.size[s] \in Nat /\ t.to[s] = Offset(s, Path(t))
                       /\ Region(t, s) \subseteq Place(s, Path(t))
                       /\ t.from \in Arrays
  BY TaskData
<1>2. "l" \in Sides
  BY DEF Sides
<1>3. QED BY <1>1, <1>2 DEF Sized

\* The side a scatter task is at after n steps.
SideAt(t, n) == IF n < t.size["l"] THEN "l" ELSE "r"

\* A scatter task goes through one side and then through the other one.
LEMMA BoundSteps ==
  ASSUME NEW t, Sized(t), NEW n \in Nat
  PROVE  /\ Tuples(t) \in Nat
         /\ \A s \in Sides : /\ Bound(t, s, 0) = t.base[s]
                             /\ Bound(t, s, Tuples(t)) = t.base[s] + t.size[s]
                             /\ Bound(t, s, n) \in Nat /\ t.base[s] <= Bound(t, s, n)
                             /\ n <= Tuples(t) => Bound(t, s, n) <= t.base[s] + t.size[s]
         /\ n < Tuples(t) =>
              LET z == SideAt(t, n)
              IN  /\ z \in Sides /\ Bound(t, z, n) \in Region(t, z)
                  /\ Bound(t, z, n) = t.base[z] + n - (IF z = "l" THEN 0 ELSE t.size["l"])
                  /\ Bound(t, z, n + 1) = Bound(t, z, n) + 1
                  /\ \A s \in Sides : s # z => Bound(t, s, n + 1) = Bound(t, s, n)
<1>1. /\ t.base["l"] \in Nat /\ t.base["r"] \in Nat /\ t.size["l"] \in Nat /\ t.size["r"] \in Nat
      /\ "l" \in Sides /\ "r" \in Sides /\ "l" # "r"
  BY DEF Sized, Sides
<1>2. Tuples(t) = t.size["l"] + t.size["r"]
  BY DEF Tuples
<1> DEFINE bl == t.base["l"]
           br == t.base["r"]
           sl == t.size["l"]
           sr == t.size["r"]
<1>3. /\ \A k : Bound(t, "l", k) = bl + IF k < sl THEN k ELSE sl
      /\ \A k : Bound(t, "r", k) = br + IF k < sl THEN 0 ELSE k - sl
  BY <1>1 DEF Bound
<1>4. Tuples(t) \in Nat
  BY <1>1, <1>2
<1>5. ASSUME NEW s \in Sides
      PROVE  /\ Bound(t, s, 0) = t.base[s]
             /\ Bound(t, s, Tuples(t)) = t.base[s] + t.size[s]
             /\ Bound(t, s, n) \in Nat /\ t.base[s] <= Bound(t, s, n)
             /\ n <= Tuples(t) => Bound(t, s, n) <= t.base[s] + t.size[s]
  <2>1. CASE s = "l"
    BY <1>1, <1>2, <1>3, <2>1
  <2>2. CASE s = "r"
    BY <1>1, <1>2, <1>3, <2>2
  <2>3. QED BY <2>1, <2>2 DEF Sides
<1>6. ASSUME n < Tuples(t)
      PROVE  LET z == SideAt(t, n)
             IN  /\ z \in Sides /\ Bound(t, z, n) \in Region(t, z)
                 /\ Bound(t, z, n) = t.base[z] + n - (IF z = "l" THEN 0 ELSE t.size["l"])
                 /\ Bound(t, z, n + 1) = Bound(t, z, n) + 1
                 /\ \A s \in Sides : s # z => Bound(t, s, n + 1) = Bound(t, s, n)
  <2>1. CASE n < sl
    <3>1. SideAt(t, n) = "l"
      BY <2>1 DEF SideAt
    <3>2. Bound(t, "l", n) \in Region(t, "l")
      BY <1>1, <1>3, <2>1 DEF Region
    <3>3. /\ Bound(t, "l", n) = bl + n - 0 /\ Bound(t, "l", n + 1) = Bound(t, "l", n) + 1
          /\ Bound(t, "r", n + 1) = Bound(t, "r", n)
      BY <1>1, <1>3, <2>1
    <3>4. QED BY <1>1, <3>1, <3>2, <3>3 DEF Sides
  <2>2. CASE ~ (n < sl)
    <3>1. SideAt(t, n) = "r"
      BY <2>2 DEF SideAt
    <3>2. Bound(t, "r", n) \in Region(t, "r")
      BY <1>1, <1>2, <1>3, <1>6, <2>2 DEF Region
    <3>3. /\ Bound(t, "r", n) = br + n - sl /\ Bound(t, "r", n + 1) = Bound(t, "r", n) + 1
          /\ Bound(t, "l", n + 1) = Bound(t, "l", n)
      BY <1>1, <1>3, <2>2
    <3>4. QED BY <1>1, <3>1, <3>2, <3>3 DEF Sides
  <2>3. QED BY <2>1, <2>2
<1>7. QED BY <1>4, <1>5, <1>6

\* Array b of side s, and nothing else, is written at place w.
Written(m, n, b, s, w, v) ==
  /\ n[b][s] = [m[b][s] EXCEPT ![w] = v]
  /\ \A a \in Arrays, x \in Sides : ~ (a = b /\ x = s) => n[a][x] = m[a][x]

\* The sums and what has been moved, one tuple later.
\* Task t, after n steps, moves the tuple at place i of side s to place w; sum are its
\* sums before and sum2 after that, m and m2 the arrays.
OneMove(t, n, s, i, q, w, m, m2, sum, sum2) ==
  /\ s = SideAt(t, n) /\ i = Bound(t, s, n) /\ q = Key(m[t.from][s], s, Path(t), i)
  /\ w = Offset(s, Path(t)) + sum[s][q]
  /\ Written(m, m2, Other(t.from), s, w, m[t.from][s][i])
  /\ sum2 = [sum EXCEPT ![s][q] = @ + 1]

\* One tuple more has been moved, to its destination: the sum of the tuple's part is
\* the number of tuples that the scatter task has to put before it.
LEMMA MovesOn ==
  ASSUME ArgsInv, NEW t, Sized(t), NEW m, ArraysOK(m), NEW sum, NEW n \in Nat,
         n < Tuples(t), sum \in [Sides -> [Parts -> Nat]],
         SumsAt(t, m, sum, n), MovedAt(t, m, n),
         NEW s, NEW i, NEW q, NEW w, NEW m2, NEW sum2, OneMove(t, n, s, i, q, w, m, m2, sum, sum2)
  PROVE  /\ s \in Sides /\ i \in Place(s, Path(t)) /\ q \in Parts
         /\ w = Dest(m[t.from][s], s, Path(t), i)
         /\ SumsAt(t, m2, sum2, n + 1) /\ MovedAt(t, m2, n + 1)
<1> SUFFICES ASSUME s = SideAt(t, n), i = Bound(t, s, n), q = Key(m[t.from][s], s, Path(t), i),
                    w = Offset(s, Path(t)) + sum[s][q],
                    Written(m, m2, Other(t.from), s, w, m[t.from][s][i]),
                    sum2 = [sum EXCEPT ![s][q] = @ + 1]
             PROVE  /\ s \in Sides /\ i \in Place(s, Path(t)) /\ q \in Parts
                    /\ w = Dest(m[t.from][s], s, Path(t), i)
                    /\ SumsAt(t, m2, sum2, n + 1) /\ MovedAt(t, m2, n + 1)
  BY DEF OneMove
<1> DEFINE p == Path(t)
           b == Other(t.from)
           src(x) == m[t.from][x]
<1>1. /\ s \in Sides /\ i \in Region(t, s) /\ Bound(t, s, n + 1) = i + 1
      /\ \A x \in Sides : x # s => Bound(t, x, n + 1) = Bound(t, x, n)
      /\ \A x \in Sides : /\ Bound(t, x, n) \in Nat /\ t.base[x] \in Nat /\ t.base[x] <= Bound(t, x, n)
                          /\ Bound(t, x, n) <= t.base[x] + t.size[x]
  BY BoundSteps
<1>2. p \in Seq(Parts) /\ i \in Place(s, p) /\ t.from \in Arrays /\ b \in Arrays /\ b # t.from
  BY <1>1 DEF Sized, Arrays, Other
<1>3. \A x \in Sides : Typed(src(x), x)
  BY <1>2 DEF ArraysOK
<1>4. q \in Parts /\ i \in Nat
  BY <1>1, <1>2, <1>3, KeyType
<1>5. \A x \in Sides : m2[t.from][x] = src(x)
  BY <1>2 DEF Written
<1>6. w = Dest(src(s), s, p, i)
  <2>1. sum[s][q] = Cardinality(Lower(src(s), s, p, q, i))
    BY <1>1, <1>4 DEF SumsAt
  <2>2. QED BY <2>1 DEF Dest
<1>7. SumsAt(t, m2, sum2, n + 1)
  <2> SUFFICES ASSUME NEW x \in Sides, NEW r \in Parts
               PROVE  sum2[x][r] = Cardinality(Lower(m2[t.from][x], x, p, r, Bound(t, x, n + 1)))
    BY DEF SumsAt
  <2>1. sum[x][r] = Cardinality(Lower(src(x), x, p, r, Bound(t, x, n)))
    BY DEF SumsAt
  <2>2. CASE x # s
    <3>1. sum2[x][r] = sum[x][r]
      BY <2>2
    <3>2. QED BY <1>1, <1>5, <2>1, <2>2, <3>1
  <2>3. CASE x = s
    <3>1. sum2[s][r] = sum[s][r] + (IF r = q THEN 1 ELSE 0)
      <4>1. sum[s] \in [Parts -> Nat] /\ sum[s][r] \in Nat
        BY <1>1
      <4>2. sum2[s] = [sum[s] EXCEPT ![q] = @ + 1]
        BY <1>1
      <4>3. CASE r = q
        <5>1. sum2[s][q] = sum[s][q] + 1
          BY <1>4, <4>1, <4>2
        <5>2. QED BY <4>3, <5>1
      <4>4. CASE r # q
        <5>1. sum2[s][r] = sum[s][r]
          BY <4>1, <4>2, <4>4
        <5>2. QED BY <4>1, <4>4, <5>1
      <4>5. QED BY <4>3, <4>4
    <3>2. Cardinality(Lower(src(s), s, p, r, i + 1)) =
            Cardinality(Lower(src(s), s, p, r, i)) + (IF r = q THEN 1 ELSE 0)
      BY <1>1, <1>2, <1>3, LowerNext
    <3> HIDE DEF src, p
    <3>3. Cardinality(Lower(m2[t.from][s], s, p, r, Bound(t, s, n + 1))) =
            Cardinality(Lower(src(s), s, p, r, i + 1))
      BY <1>1, <1>5
    <3>4. QED BY <2>1, <2>3, <3>1, <3>2, <3>3
  <2>4. QED BY <2>2, <2>3
<1>8. MovedAt(t, m2, n + 1)
  <2> SUFFICES ASSUME NEW x \in Sides, NEW j \in t.base[x] .. (Bound(t, x, n + 1) - 1)
               PROVE  m2[b][x][Dest(m2[t.from][x], x, p, j)] = m2[t.from][x][j]
    BY DEF MovedAt
  <2>1. CASE x # s
    <3>1. j \in t.base[x] .. (Bound(t, x, n) - 1)
      BY <1>1, <2>1
    <3>2. m[b][x][Dest(src(x), x, p, j)] = src(x)[j]
      BY <3>1 DEF MovedAt
    <3>3. m2[b][x] = m[b][x]
      BY <1>2, <2>1 DEF Written
    <3>4. QED BY <1>5, <3>2, <3>3
  <2>2. CASE x = s /\ j # i
    <3>1. j \in t.base[s] .. (Bound(t, s, n) - 1)
      BY <1>1, <1>4, <2>2
    <3>2. m[b][s][Dest(src(s), s, p, j)] = src(s)[j]
      BY <1>1, <3>1 DEF MovedAt
    <3>3. j \in Place(s, p)
      <4>1. j \in t.base[s] .. (t.base[s] + t.size[s] - 1)
        BY <1>1, <3>1 DEF Sized
      <4>2. QED BY <1>1, <4>1 DEF Sized, Region
    <3>4. Dest(src(s), s, p, j) # w
      BY <1>1, <1>2, <1>3, <1>6, <2>2, <3>3, DestInjective
    <3>5. m2[b][s][Dest(src(s), s, p, j)] = m[b][s][Dest(src(s), s, p, j)]
      <4>1. m2[b][s] = [m[b][s] EXCEPT ![w] = src(s)[i]]
        BY DEF Written
      <4>2. Typed(m[b][s], s)
        BY <1>1, <1>2 DEF ArraysOK
      <4>3. Dest(src(s), s, p, j) \in DOMAIN m[b][s]
        <5>1. Dest(src(s), s, p, j) \in Place(s, p)
          BY <1>1, <1>2, <1>3, <3>3, DestWithin
        <5>2. DOMAIN m[b][s] = 0 .. (Len(rel[s]) - 1)
          BY <4>2 DEF Typed
        <5>3. QED BY <1>1, <1>2, <5>1, <5>2, PartType
      <4>4. QED BY <3>4, <4>1, <4>3
    <3>6. QED BY <1>1, <1>5, <2>2, <3>2, <3>5
  <2>3. CASE x = s /\ j = i
    <3>1. w \in DOMAIN m[b][s]
      <4>1. Typed(m[b][s], s)
        BY <1>1, <1>2 DEF ArraysOK
      <4>2. DOMAIN m[b][s] = 0 .. (Len(rel[s]) - 1)
        BY <4>1 DEF Typed
      <4>3. w \in Place(s, p)
        BY <1>1, <1>2, <1>3, <1>6, DestWithin
      <4>4. QED BY <1>1, <1>2, <4>2, <4>3, PartType
    <3>2. m2[b][s][w] = src(s)[i]
      BY <3>1 DEF Written
    <3>3. QED BY <1>1, <1>5, <1>6, <2>3, <3>2
  <2>4. QED BY <2>1, <2>2, <2>3
<1>9. QED BY <1>1, <1>2, <1>4, <1>6, <1>7, <1>8

\* Writing one place changes nothing else.
LEMMA WrittenArrays ==
  ASSUME NEW m, ArraysOK(m), NEW b \in Arrays, NEW s \in Sides, NEW w, NEW v \in Rows(s) \cup {NoRow},
         NEW m2, m2 = [m EXCEPT ![b][s][w] = v]
  PROVE  Written(m, m2, b, s, w, v) /\ ArraysOK(m2)
<1>1. m = [a \in Arrays |-> [x \in Sides |-> m[a][x]]]
  BY DEF ArraysOK
<1>2. m2[b][s] = [m[b][s] EXCEPT ![w] = v]
  BY <1>1
<1>3. \A a \in Arrays, x \in Sides : ~ (a = b /\ x = s) => m2[a][x] = m[a][x]
  BY <1>1
<1>4. m2 = [a \in Arrays |-> [x \in Sides |-> m2[a][x]]]
  <2> DEFINE f == [m[b] EXCEPT ![s] = [m[b][s] EXCEPT ![w] = v]]
  <2>1. m2 = [m EXCEPT ![b] = f]
    OBVIOUS
  <2>2. f = [x \in Sides |-> f[x]]
    BY <1>1
  <2> HIDE DEF f
  <2>3. \A a \in Arrays : m2[a] = IF a = b THEN f ELSE m[a]
    BY <1>1, <2>1
  <2>4. \A a \in Arrays : m2[a] = [x \in Sides |-> m2[a][x]]
    BY <1>1, <2>2, <2>3
  <2>5. m2 = [a \in Arrays |-> m2[a]]
    BY <1>1, <2>1
  <2>6. QED BY <2>4, <2>5
<1>5. ASSUME NEW a \in Arrays, NEW x \in Sides
      PROVE  Typed(m2[a][x], x)
  <2>1. Typed(m[a][x], x)
    BY DEF ArraysOK
  <2>2. CASE ~ (a = b /\ x = s)
    BY <1>3, <2>1, <2>2
  <2>3. CASE a = b /\ x = s
    <3> DEFINE f == m[b][s]
               D == 0 .. (Len(rel[s]) - 1)
               V == Rows(s) \cup {NoRow}
    <3>1. f \in [D -> V] /\ v \in V
      BY <2>1, <2>3 DEF Typed
    <3>2. m2[a][x] = [f EXCEPT ![w] = v]
      BY <1>2, <2>3
    <3> HIDE DEF f, D, V
    <3>3. m2[a][x] \in [D -> V]
      BY <3>1, <3>2
    <3>4. QED BY <2>3, <3>3 DEF D, V, Typed
  <2>4. QED BY <2>2, <2>3
<1>6. QED BY <1>2, <1>3, <1>4, <1>5 DEF Written, ArraysOK

\* There are two arrays of a side.
LEMMA OtherArray ==
  /\ Other("input") = "target" /\ Other("target") = "input"
  /\ \A a \in Arrays : Other(a) \in Arrays /\ Other(a) # a /\ Other(Other(a)) = a
  /\ \A p : ArrayOf(p) \in Arrays
BY DEF Other, Arrays, ArrayOf

\* A part is in the array its parent is not in.
LEMMA ArrayOfChild ==
  ASSUME NEW p \in Seq(Parts), NEW q \in Parts
  PROVE  ArrayOf(Append(p, q)) = Other(ArrayOf(p))
<1>1. Len(Append(p, q)) = Len(p) + 1 /\ Len(p) \in Nat
  BY Extended, PathType
<1>2. (Len(p) + 1) % 2 = 0 <=> ~ (Len(p) % 2 = 0)
  BY <1>1
<1>3. QED BY <1>1, <1>2 DEF ArrayOf, Other

\* The path that a path goes on from.
LEMMA ParentOf ==
  ASSUME NEW p \in Seq(Parts), NEW q \in Parts
  PROVE  Parent(Append(p, q)) = p
<1> DEFINE x == Append(p, q)
<1>1. /\ x \in Seq(Parts) /\ Len(x) = Len(p) + 1 /\ Len(p) \in Nat
      /\ \A d \in 1 .. Len(p) : x[d] = p[d] /\ x[d] \in Parts
  BY Extended, PathType
<1> HIDE DEF x
<1>2. Len(x) - 1 = Len(p)
  BY <1>1
<1> DEFINE y == SubSeq(x, 1, Len(p))
<1>3. /\ y \in Seq(Parts) /\ Len(y) = IF 1 <= Len(p) THEN Len(p) - 1 + 1 ELSE 0
      /\ \A i \in 1 .. (Len(p) - 1 + 1) : y[i] = x[1 + i - 1]
  <2>1. \A d \in 1 .. Len(p) : x[d] \in Parts
    BY <1>1
  <2>2. QED BY <1>1, <2>1, SubSeqProperties
<1> HIDE DEF y
<1>4. Len(y) = Len(p) /\ \A i \in 1 .. Len(p) : y[i] = p[i]
  BY <1>1, <1>3
<1>5. y = p
  BY <1>3, <1>4, SeqEqual
<1>6. QED BY <1>2, <1>5 DEF Parent, x, y

\* A longer path is its parent's path and a digit.
LEMMA ParentForm ==
  ASSUME NEW p \in Seq(Parts), Len(p) > 0
  PROVE  /\ Parent(p) \in Seq(Parts) /\ Len(Parent(p)) = Len(p) - 1
         /\ p[Len(p)] \in Parts /\ p = Append(Parent(p), p[Len(p)])
<1> DEFINE n == Len(p)
           y == SubSeq(p, 1, n - 1)
<1>1. n \in Nat /\ n > 0 /\ \A d \in 1 .. n : p[d] \in Parts
  BY PathType
<1>2. /\ y \in Seq(Parts) /\ Len(y) = IF 1 <= n - 1 THEN n - 1 - 1 + 1 ELSE 0
      /\ \A i \in 1 .. (n - 1 - 1 + 1) : y[i] = p[1 + i - 1]
  <2>1. \A d \in 1 .. (n - 1) : p[d] \in Parts
    BY <1>1
  <2>2. n - 1 \in Int /\ 1 \in Int
    BY <1>1
  <2> HIDE DEF n
  <2>3. QED BY <1>1, <2>1, <2>2, SubSeqProperties DEF n
<1> HIDE DEF y
<1>4. p[n] \in Parts
  BY <1>1
<1> HIDE DEF n
<1>3. Len(y) = n - 1 /\ \A i \in 1 .. (n - 1) : y[i] = p[i]
  <2>1. Len(y) = n - 1
    <3>1. CASE 1 <= n - 1
      BY <1>1, <1>2, <3>1
    <3>2. CASE ~ (1 <= n - 1)
      BY <1>1, <1>2, <3>2
    <3>3. QED BY <3>1, <3>2
  <2>2. ASSUME NEW i \in 1 .. (n - 1)
        PROVE  y[i] = p[i]
    <3>1. i \in 1 .. (n - 1 - 1 + 1) /\ 1 + i - 1 = i
      BY <1>1
    <3>2. QED BY <1>2, <3>1
  <2>3. QED BY <2>1, <2>2
<1> DEFINE x == Append(y, p[n])
<1>5. /\ x \in Seq(Parts) /\ Len(x) = Len(y) + 1 /\ x[Len(y) + 1] = p[n]
      /\ \A d \in 1 .. Len(y) : x[d] = y[d]
  BY <1>2, <1>4, Extended, PathType
<1> HIDE DEF x
<1>6. Len(x) = Len(p) /\ \A d \in 1 .. Len(p) : x[d] = p[d]
  BY <1>1, <1>3, <1>5 DEF n
<1>7. x = p
  BY <1>5, <1>6, SeqEqual
<1>8. QED BY <1>2, <1>3, <1>4, <1>7 DEF x, y, n, Parent

--------------------------------------------------------------------------------
(* The end of a pass over a part. *)

\* When a scatter task has moved all of its data, the parts are in place.
LEMMA PassEnd ==
  ASSUME ArgsInv, NEW t, DeepForm(t), t.op = "scatter", NEW m, ArraysOK(m),
         \A s \in Sides : Holds(m[t.from][s], s, t.of),
         NEW sum, SumsAt(t, m, sum, Tuples(t)), MovedAt(t, m, Tuples(t))
  PROVE  SplitAt(t, sum) /\ \A q \in Parts : Settled(m, Append(t.of, q))
<1> DEFINE p == t.of
<1>1. /\ p \in Seq(Parts) /\ t.from = ArrayOf(p) /\ t.from \in Arrays /\ Path(t) = p
      /\ Len(p) < passes /\ Len(p) \in Nat /\ passes \in Nat
  <2>1. \A s \in Sides : Path(t) = p
    BY DeepData
  <2>2. Sides # {}
    BY DEF Sides
  <2>3. p \in Seq(Parts) /\ t.from = ArrayOf(p) /\ t.depth = Len(p) + 1 /\ t.depth \in 2 .. (passes + 1)
        /\ t.depth # passes + 1
    BY DEF DeepForm
  <2>4. Len(p) \in Nat /\ passes \in Nat
    BY <2>3, PathType, RowsType
  <2>5. QED BY <2>1, <2>2, <2>3, <2>4, OtherArray
<1>2. ASSUME NEW s \in Sides
      PROVE  /\ t.base[s] = Offset(s, p) /\ Region(t, s) = Place(s, p)
             /\ Bound(t, s, Tuples(t)) = Offset(s, p) + Count(s, p)
             /\ t.base[s] .. (Bound(t, s, Tuples(t)) - 1) = Place(s, p)
  <2>1. /\ t.base[s] = Offset(s, p) /\ t.size[s] = Count(s, p) /\ Region(t, s) = Place(s, p)
    BY <1>1, DeepData
  <2>2. Sized(t)
    <3>1. \A x \in Sides : /\ t.depth = Len(Path(t)) + 1 /\ t.base[x] \in Nat /\ t.size[x] \in Nat
                           /\ Region(t, x) = Place(x, Path(t))
      BY DeepData
    <3>2. QED BY <1>1, <3>1 DEF Sized
  <2>3. 0 \in Nat
    OBVIOUS
  <2>4. Bound(t, s, Tuples(t)) = t.base[s] + t.size[s]
    BY <2>2, <2>3, BoundSteps
  <2>5. Bound(t, s, Tuples(t)) = Offset(s, p) + Count(s, p)
    BY <2>1, <2>4
  <2> HIDE DEF p
  <2>6. Bound(t, s, Tuples(t)) - 1 = Offset(s, p) + Count(s, p) - 1
    <3>1. Offset(s, p) \in Nat /\ Count(s, p) \in Nat
      <4>1. p \in Seq(Parts)
        BY <1>1 DEF p
      <4>2. QED BY <4>1, PartType
    <3>2. QED BY <2>5, <3>1
  <2>7. t.base[s] .. (Bound(t, s, Tuples(t)) - 1) = Offset(s, p) .. (Offset(s, p) + Count(s, p) - 1)
    BY <2>1, <2>6
  <2>8. t.base[s] .. (Bound(t, s, Tuples(t)) - 1) = Place(s, p)
    BY <2>7 DEF Place
  <2>9. QED BY <2>1, <2>5, <2>8
<1>3. \A s \in Sides : Typed(m[t.from][s], s)
  BY <1>1 DEF ArraysOK
<1>4. SplitAt(t, sum)
  <2> SUFFICES ASSUME NEW s \in Sides, NEW q \in Parts
               PROVE  sum[s][q] = Offset(s, Append(p, q)) + Count(s, Append(p, q)) - Offset(s, p)
    BY DEF SplitAt
  <2> DEFINE c == Cardinality(Lower(m[t.from][s], s, p, q, Offset(s, p) + Count(s, p)))
  <2>1. sum[s][q] = c
    BY <1>1, <1>2 DEF SumsAt
  <2>2. Offset(s, p) + c = Offset(s, Append(p, q)) + Count(s, Append(p, q))
    BY <1>1, <1>3, LowerEnds
  <2>3. c \in Nat /\ Offset(s, p) \in Nat
    BY <1>1, LowerType, PartType
  <2>4. Offset(s, Append(p, q)) \in Nat /\ Count(s, Append(p, q)) \in Nat
    BY <1>1, Extended, PartType
  <2> HIDE DEF c, p
  <2>5. QED BY <2>1, <2>2, <2>3, <2>4
<1>5. ASSUME NEW q \in Parts, NEW s \in Sides
      PROVE  Holds(m[ArrayOf(Append(p, q))][s], s, Append(p, q))
  <2>1. ArrayOf(Append(p, q)) = Other(t.from)
    BY <1>1, ArrayOfChild
  <2>2. \A i \in Place(s, p) : m[Other(t.from)][s][Dest(m[t.from][s], s, p, i)] = m[t.from][s][i]
    BY <1>1, <1>2 DEF MovedAt
  <2>3. QED BY <1>1, <1>3, <2>1, <2>2, PassSorts
<1>6. ASSUME NEW q \in Parts, NEW s \in Sides,
             Len(Append(p, q)) = passes, passes % 2 = 1
      PROVE  Holds(m["input"][s], s, Parent(Append(p, q)))
  <2>1. Len(p) + 1 = passes
    BY <1>1, <1>6, Extended
  <2>2. Len(p) % 2 = 0
    <3> DEFINE n == Len(p)
    <3>1. n \in Nat /\ (n + 1) % 2 = 1
      BY <1>1, <1>6, <2>1
    <3> HIDE DEF n
    <3>2. n % 2 = 0
      BY <3>1
    <3>3. QED BY <3>2 DEF n
  <2>3. t.from = "input"
    BY <1>1, <2>2 DEF ArrayOf
  <2>4. Parent(Append(p, q)) = p
    BY <1>1, ParentOf
  <2>5. QED BY <2>3, <2>4
<1>7. QED BY <1>4, <1>5, <1>6 DEF Settled

\* Every place is in a chunk.
LEMMA ChunkOf ==
  ASSUME ArgsInv, NEW s \in Sides, NEW i \in 0 .. (Len(rel[s]) - 1), NEW op
  PROVE  \E k \in Slots : i \in Region(Chunk(op, k), s)
<1> DEFINE T == {j \in 0 .. threads : i < Edge(s, j)}
<1>1. threads \in Nat \ {0} /\ Len(rel[s]) \in Nat /\ i \in Nat /\ i < Len(rel[s])
  BY RowsType, DataAssumption
<1>2. /\ Edge(s, 0) = 0 /\ Edge(s, threads) = Len(rel[s])
      /\ \A k \in 0 .. threads : Edge(s, k) \in Nat
  BY ChunkEdges
<1>3. T # {} /\ T \subseteq Nat
  BY <1>1, <1>2
<1>4. PICK j \in T : \A k \in T : j <= k
  <2> HIDE DEF T
  <2>1. QED BY <1>3, LeastNumber
<1>5. j \in 0 .. threads /\ i < Edge(s, j) /\ j # 0
  BY <1>1, <1>2, <1>4
<1>6. j - 1 \in Slots /\ j - 1 \in 0 .. threads /\ (j - 1) + 1 = j /\ j - 1 \notin T
  BY <1>1, <1>4, <1>5 DEF Slots
<1>7. Edge(s, j - 1) <= i
  BY <1>1, <1>2, <1>6
<1>8. Region(Chunk(op, j - 1), s) = Edge(s, j - 1) .. (Edge(s, j) - 1)
  BY <1>6, ChunkEdges
<1>9. i \in Region(Chunk(op, j - 1), s)
  BY <1>1, <1>2, <1>5, <1>6, <1>7, <1>8
<1>10. QED BY <1>6, <1>9

\* The first pass, by all chunks together.
LEMMA FirstPassEnd ==
  ASSUME ArgsInv, NEW m, ArraysOK(m), \A s \in Sides : Holds(m["input"][s], s, <<>>),
         \A k \in Slots : MovedAt(Chunk("scatter", k), m, Tuples(Chunk("scatter", k))),
         NEW q \in Parts
  PROVE  Settled(m, <<q>>)
<1>1. /\ <<>> \in Seq(Parts) /\ Append(<<>>, q) = <<q>> /\ Len(<<q>>) = 1 /\ Parent(<<q>>) = <<>>
  <2>1. <<>> \in Seq(Parts) /\ Append(<<>>, q) = <<q>> /\ Len(<<q>>) = 1
    OBVIOUS
  <2>2. QED BY <2>1, ParentOf
<1>2. ArrayOf(<<q>>) = "target"
  BY <1>1 DEF ArrayOf
<1>3. ASSUME NEW s \in Sides
      PROVE  Holds(m["target"][s], s, <<q>>)
  <2>1. Typed(m["input"][s], s)
    BY DEF ArraysOK, Arrays
  <2>2. ASSUME NEW i \in Place(s, <<>>)
        PROVE  m["target"][s][Dest(m["input"][s], s, <<>>, i)] = m["input"][s][i]
    <3>1. i \in 0 .. (Len(rel[s]) - 1)
      BY WholePart
    <3>2. PICK k \in Slots : i \in Region(Chunk("scatter", k), s)
      BY <3>1, ChunkOf
    <3> DEFINE t == Chunk("scatter", k)
    <3>3. MovedAt(t, m, Tuples(t)) /\ t.from = "input" /\ Path(t) = <<>>
      BY ChunkForm
    <3>4. Sized(t)
      <4>1. \A x \in Sides : /\ Path(t) \in Seq(Parts) /\ t.depth = Len(Path(t)) + 1
                             /\ t.base[x] \in Nat /\ t.size[x] \in Nat
                             /\ Region(t, x) \subseteq Place(x, Path(t))
        BY ChunkData
      <4>2. Sides # {}
        BY DEF Sides
      <4> HIDE DEF t
      <4>3. QED BY <3>3, <4>1, <4>2 DEF Sized, Arrays
    <3> HIDE DEF t
    <3>5. Bound(t, s, Tuples(t)) = t.base[s] + t.size[s]
      <4>1. 0 \in Nat
        OBVIOUS
      <4>2. QED BY <3>4, <4>1, BoundSteps
    <3>6. i \in t.base[s] .. (Bound(t, s, Tuples(t)) - 1)
      <4>1. i \in Region(t, s)
        BY <3>2 DEF t
      <4>2. t.base[s] \in Nat /\ t.size[s] \in Nat
        BY <3>4 DEF Sized
      <4>3. Region(t, s) = t.base[s] .. (t.base[s] + t.size[s] - 1)
        BY DEF Region
      <4>4. t.base[s] + t.size[s] - 1 = Bound(t, s, Tuples(t)) - 1
        BY <3>5, <4>2
      <4>5. QED BY <4>1, <4>3, <4>4
    <3>7. QED BY <3>3, <3>6, OtherArray DEF MovedAt
  <2>3. Holds(m["target"][s], s, Append(<<>>, q))
    <3> DEFINE e == <<>>
    <3>1. /\ e \in Seq(Parts) /\ Holds(m["input"][s], s, e)
          /\ \A i \in Place(s, e) : m["target"][s][Dest(m["input"][s], s, e, i)] = m["input"][s][i]
      BY <1>1, <2>2
    <3> HIDE DEF e
    <3>2. Holds(m["target"][s], s, Append(e, q))
      BY <2>1, <3>1, PassSorts
    <3>3. QED BY <3>2 DEF e
  <2>4. QED BY <1>1, <2>3
<1>4. QED BY <1>1, <1>2, <1>3 DEF Settled

--------------------------------------------------------------------------------
(* What a write leaves as it is. *)

\* Whether an array holds a part follows from what is at its place.
LEMMA HoldsFrame ==
  ASSUME NEW s, NEW p, NEW a, NEW b, \A i \in Place(s, p) : a[i] = b[i], Holds(a, s, p)
  PROVE  Holds(b, s, p)
<1>1. {a[i] : i \in Place(s, p)} = {b[i] : i \in Place(s, p)}
  OBVIOUS
<1>2. QED BY <1>1 DEF Holds

\* So does where the tuples of the part are moved to.
LEMMA LowerFrame ==
  ASSUME NEW s, NEW p, NEW a, NEW b, \A i \in Place(s, p) : a[i] = b[i]
  PROVE  /\ \A q, x : Lower(b, s, p, q, x) = Lower(a, s, p, q, x)
         /\ \A i \in Place(s, p) : Dest(b, s, p, i) = Dest(a, s, p, i)
<1>1. \A i \in Place(s, p) : Key(b, s, p, i) = Key(a, s, p, i)
  BY DEF Key
<1>2. \A q, x : Lower(b, s, p, q, x) = Lower(a, s, p, q, x)
  BY <1>1 DEF Lower
<1>3. QED BY <1>1, <1>2 DEF Dest

\* A task whose part is apart from what is written.
LEMMA ScatterFrame ==
  ASSUME ArgsInv, NEW t, Sized(t), NEW m, ArraysOK(m), NEW m2, ArraysOK(m2),
         \A a \in Arrays, s \in Sides : \A i \in Place(s, Path(t)) : m2[a][s][i] = m[a][s][i]
  PROVE  /\ \A sum, n : SumsAt(t, m, sum, n) => SumsAt(t, m2, sum, n)
         /\ \A n \in 0 .. Tuples(t) : MovedAt(t, m, n) => MovedAt(t, m2, n)
<1> DEFINE p == Path(t)
<1>1. t.from \in Arrays /\ Other(t.from) \in Arrays /\ p \in Seq(Parts)
  BY OtherArray DEF Sized
<1>2. ASSUME NEW s \in Sides
      PROVE  /\ \A q, x : Lower(m2[t.from][s], s, p, q, x) = Lower(m[t.from][s], s, p, q, x)
             /\ \A i \in Place(s, p) : Dest(m2[t.from][s], s, p, i) = Dest(m[t.from][s], s, p, i)
  <2>1. \A i \in Place(s, p) : m[t.from][s][i] = m2[t.from][s][i]
    BY <1>1
  <2> HIDE DEF p
  <2>2. QED BY <2>1, LowerFrame
<1>3. \A sum, n : SumsAt(t, m, sum, n) => SumsAt(t, m2, sum, n)
  BY <1>2 DEF SumsAt
<1>4. ASSUME NEW n \in 0 .. Tuples(t), MovedAt(t, m, n)
      PROVE  MovedAt(t, m2, n)
  <2> SUFFICES ASSUME NEW s \in Sides, NEW i \in t.base[s] .. (Bound(t, s, n) - 1)
               PROVE  m2[Other(t.from)][s][Dest(m2[t.from][s], s, p, i)] = m2[t.from][s][i]
    BY DEF MovedAt
  <2>1. i \in Place(s, p)
    <3>1. n \in Nat /\ n <= Tuples(t)
      <4>1. Tuples(t) \in Nat
        <5>1. 0 \in Nat
          OBVIOUS
        <5>2. QED BY <5>1, BoundSteps
      <4>2. QED BY <4>1
    <3>2. Bound(t, s, n) <= t.base[s] + t.size[s] /\ Bound(t, s, n) \in Nat
      BY <3>1, BoundSteps
    <3>3. t.base[s] \in Nat /\ t.size[s] \in Nat /\ Region(t, s) \subseteq Place(s, p)
      BY DEF Sized
    <3>4. i \in Region(t, s)
      BY <3>2, <3>3 DEF Region
    <3>5. QED BY <3>3, <3>4
  <2>2. m[Other(t.from)][s][Dest(m[t.from][s], s, p, i)] = m[t.from][s][i]
    BY <1>4 DEF MovedAt
  <2>3. Dest(m[t.from][s], s, p, i) \in Place(s, p)
    <3>1. Typed(m[t.from][s], s)
      BY <1>1 DEF ArraysOK
    <3>2. QED BY <1>1, <2>1, <3>1, DestWithin
  <2>4. QED BY <1>1, <1>2, <2>1, <2>2, <2>3
<1>5. QED BY <1>3, <1>4

\* A task from the same part that has not moved what is being moved.
LEMMA MovedFrame ==
  ASSUME ArgsInv, NEW t, Sized(t), NEW m, ArraysOK(m), NEW n \in 0 .. Tuples(t), MovedAt(t, m, n),
         NEW s \in Sides, NEW i \in Place(s, Path(t)), i \notin t.base[s] .. (Bound(t, s, n) - 1),
         NEW v, NEW w, w = Dest(m[t.from][s], s, Path(t), i),
         NEW m2, Written(m, m2, Other(t.from), s, w, v)
  PROVE  MovedAt(t, m2, n)
<1> DEFINE p == Path(t)
           b == Other(t.from)
<1>1. t.from \in Arrays /\ b \in Arrays /\ p \in Seq(Parts) /\ b # t.from
  BY OtherArray DEF Sized
<1>2. \A x \in Sides : m2[t.from][x] = m[t.from][x]
  BY <1>1 DEF Written
<1> SUFFICES ASSUME NEW x \in Sides, NEW j \in t.base[x] .. (Bound(t, x, n) - 1)
             PROVE  m2[b][x][Dest(m2[t.from][x], x, p, j)] = m2[t.from][x][j]
  BY DEF MovedAt
<1>3. m[b][x][Dest(m[t.from][x], x, p, j)] = m[t.from][x][j]
  BY DEF MovedAt
<1>4. CASE x # s
  <2>1. m2[b][x] = m[b][x]
    BY <1>1, <1>4 DEF Written
  <2>2. QED BY <1>2, <1>3, <2>1
<1>5. CASE x = s
  <2>1. j \in Place(s, p)
    <3>1. n \in Nat /\ n <= Tuples(t)
      <4>1. Tuples(t) \in Nat
        <5>1. 0 \in Nat
          OBVIOUS
        <5>2. QED BY <5>1, BoundSteps
      <4>2. QED BY <4>1
    <3>2. Bound(t, s, n) <= t.base[s] + t.size[s] /\ Bound(t, s, n) \in Nat
      BY <3>1, BoundSteps
    <3>3. t.base[s] \in Nat /\ t.size[s] \in Nat /\ Region(t, s) \subseteq Place(s, p)
      BY DEF Sized
    <3>4. j \in Region(t, s)
      BY <1>5, <3>2, <3>3 DEF Region
    <3>5. QED BY <3>3, <3>4
  <2>2. Typed(m[t.from][s], s) /\ Typed(m[b][s], s)
    BY <1>1 DEF ArraysOK
  <2>3. Dest(m[t.from][s], s, p, j) # w
    <3>1. i # j
      BY <1>5
    <3>2. QED BY <1>1, <2>1, <2>2, <3>1, DestInjective
  <2>4. Dest(m[t.from][s], s, p, j) \in DOMAIN m[b][s]
    <3>1. DOMAIN m[b][s] = 0 .. (Len(rel[s]) - 1)
      BY <2>2 DEF Typed
    <3>2. Dest(m[t.from][s], s, p, j) \in Place(s, p)
      BY <1>1, <2>1, <2>2, DestWithin
    <3>3. QED BY <1>1, <3>1, <3>2, PartType
  <2>5. m2[b][s][Dest(m[t.from][s], s, p, j)] = m[b][s][Dest(m[t.from][s], s, p, j)]
    <3>1. m2[b][s] = [m[b][s] EXCEPT ![w] = v]
      BY DEF Written
    <3>2. QED BY <2>3, <2>4, <3>1
  <2>6. QED BY <1>2, <1>3, <1>5, <2>5
<1>6. QED BY <1>4, <1>5

\* What is written lies outside of the parts that are apart from the writer's.
LEMMA WriteApart ==
  ASSUME ArgsInv, NEW m, ArraysOK(m), NEW b \in Arrays, NEW s \in Sides, NEW w, NEW v,
         NEW u \in Seq(Parts), w \in Place(s, u),
         NEW m2, Written(m, m2, b, s, w, v),
         NEW p \in Seq(Parts), Apart(u, p)
  PROVE  \A a \in Arrays, x \in Sides : \A i \in Place(x, p) : m2[a][x][i] = m[a][x][i]
<1> SUFFICES ASSUME NEW a \in Arrays, NEW x \in Sides, NEW i \in Place(x, p)
             PROVE  m2[a][x][i] = m[a][x][i]
  OBVIOUS
<1>1. CASE ~ (a = b /\ x = s)
  BY <1>1 DEF Written
<1>2. CASE a = b /\ x = s
  <2>1. i # w
    BY <1>2, ApartParts
  <2>2. i \in DOMAIN m[b][s]
    <3>1. Typed(m[b][s], s)
      BY DEF ArraysOK
    <3>2. DOMAIN m[b][s] = 0 .. (Len(rel[s]) - 1)
      BY <3>1 DEF Typed
    <3>3. QED BY <1>2, <3>2, PartType
  <2>3. m2[b][s] = [m[b][s] EXCEPT ![w] = v]
    BY DEF Written
  <2>4. QED BY <1>2, <2>1, <2>2, <2>3
<1>3. QED BY <1>1, <1>2

\* A path that is apart from a longer one is apart from where that one goes on from.
LEMMA ApartParent ==
  ASSUME NEW u \in Seq(Parts), NEW p \in Seq(Parts), Len(u) < Len(p), Apart(u, p)
  PROVE  Apart(u, Parent(p))
<1> DEFINE y == Parent(p)
<1>1. Len(u) \in Nat /\ Len(p) \in Nat /\ DOMAIN u = 1 .. Len(u)
  BY PathType
<1>2. y \in Seq(Parts) /\ Len(y) = Len(p) - 1 /\ p[Len(p)] \in Parts /\ p = Append(y, p[Len(p)])
  BY <1>1, ParentForm
<1>3. \A d \in DOMAIN y : p[d] = y[d]
  BY <1>2, Extended
<1>4. DOMAIN y = 1 .. (Len(p) - 1)
  BY <1>2, PathType
<1> HIDE DEF y
<1>5. DOMAIN u \subseteq DOMAIN y /\ \A d \in DOMAIN u : 1 .. (d - 1) \subseteq DOMAIN y
  BY <1>1, <1>4
<1>6. Earlier(u, p) => Earlier(u, y)
  BY <1>3, <1>5 DEF Earlier
<1>7. Earlier(p, u) => Earlier(y, u)
  BY <1>3, <1>5 DEF Earlier
<1>8. QED BY <1>6, <1>7 DEF Apart, y

\* A pass over one part leaves the others settled, and its own as far as it reads it.
LEMMA SettledFrame ==
  ASSUME ArgsInv, NEW m, ArraysOK(m), NEW u \in Seq(Parts), Len(u) < passes,
         NEW s \in Sides, NEW w, w \in Place(s, u), NEW v,
         NEW m2, Written(m, m2, Other(ArrayOf(u)), s, w, v),
         NEW p \in Seq(Parts), p = u \/ Apart(u, p), Settled(m, p)
  PROVE  Settled(m2, p)
<1> DEFINE b == Other(ArrayOf(u))
<1>1. b \in Arrays /\ ArrayOf(p) \in Arrays /\ ArrayOf(u) # b /\ "input" \in Arrays
  BY OtherArray DEF Arrays
<1>2. passes \in Nat /\ Len(u) \in Nat /\ Len(p) \in Nat
  BY RowsType, PathType
<1>3. CASE p = u
  <2>1. \A x \in Sides : m2[ArrayOf(p)][x] = m[ArrayOf(p)][x]
    BY <1>1, <1>3 DEF Written
  <2>2. Len(p) # passes
    BY <1>2, <1>3
  <2>3. QED BY <2>1, <2>2 DEF Settled
<1>4. CASE Apart(u, p)
  <2>1. \A a \in Arrays, x \in Sides : \A i \in Place(x, p) : m2[a][x][i] = m[a][x][i]
    BY <1>1, <1>4, WriteApart
  <2>2. ASSUME NEW x \in Sides
        PROVE  Holds(m2[ArrayOf(p)][x], x, p)
    <3>1. Holds(m[ArrayOf(p)][x], x, p)
      BY DEF Settled
    <3>2. \A i \in Place(x, p) : m[ArrayOf(p)][x][i] = m2[ArrayOf(p)][x][i]
      BY <1>1, <2>1
    <3>3. QED BY <3>1, <3>2, HoldsFrame
  <2>3. ASSUME NEW x \in Sides, Len(p) = passes, passes % 2 = 1
        PROVE  Holds(m2["input"][x], x, Parent(p))
    <3>1. Holds(m["input"][x], x, Parent(p))
      BY <2>3 DEF Settled
    <3>2. Parent(p) \in Seq(Parts) /\ Apart(u, Parent(p))
      <4>1. Len(p) > 0 /\ Len(u) < Len(p)
        BY <1>2, <2>3
      <4>2. QED BY <1>4, <4>1, ParentForm, ApartParent
    <3> DEFINE y == Parent(p)
    <3>3. \A a \in Arrays, z \in Sides : \A i \in Place(z, y) : m2[a][z][i] = m[a][z][i]
      <4>1. y \in Seq(Parts) /\ Apart(u, y)
        BY <3>2
      <4> HIDE DEF y
      <4>2. QED BY <1>1, <4>1, WriteApart
    <3>5. \A i \in Place(x, y) : m["input"][x][i] = m2["input"][x][i]
      BY <1>1, <3>3
    <3>4. QED BY <3>1, <3>5, HoldsFrame
  <2>4. QED BY <2>2, <2>3 DEF Settled
<1>5. QED BY <1>3, <1>4

--------------------------------------------------------------------------------
(* Who answers for which part. *)

\* Who answers for a path.
LEMMA HoldingIs ==
  /\ \A u, p : <<{u}, p>> \in Holdings <=> u \in Known /\ p \in Owned(u)
  /\ \A p : <<{}, p>> \in Holdings <=> p \in MainOwned
  /\ \A x \in Holdings : \/ \E u \in Known : \E p \in Owned(u) : x = <<{u}, p>>
                         \/ \E p \in MainOwned : x = <<{}, p>>
<1>1. \A x : x \in Holdings <=> \/ \E u \in Known : \E p \in Owned(u) : x = <<{u}, p>>
                                \/ \E p \in MainOwned : x = <<{}, p>>
  BY DEF Holdings
<1>2. \A u, v : {u} = {v} => u = v
  OBVIOUS
<1>3. \A u : {u} # {}
  OBVIOUS
<1>4. \A a, b, c, d : <<a, b>> = <<c, d>> <=> a = c /\ b = d
  OBVIOUS
<1>5. \A u, p : <<{u}, p>> \in Holdings <=> u \in Known /\ p \in Owned(u)
  <2> SUFFICES ASSUME NEW u, NEW p
               PROVE  <<{u}, p>> \in Holdings <=> u \in Known /\ p \in Owned(u)
    OBVIOUS
  <2>1. ASSUME <<{u}, p>> \in Holdings
        PROVE  u \in Known /\ p \in Owned(u)
    <3>1. CASE \E v \in Known : \E q \in Owned(v) : <<{u}, p>> = <<{v}, q>>
      <4>1. PICK v \in Known : \E q \in Owned(v) : <<{u}, p>> = <<{v}, q>>
        BY <3>1
      <4>2. PICK q \in Owned(v) : <<{u}, p>> = <<{v}, q>>
        BY <4>1
      <4>3. {u} = {v} /\ p = q
        BY <4>2, <1>4
      <4>4. u = v
        BY <4>3, <1>2
      <4>5. QED BY <4>3, <4>4
    <3>2. CASE \E q \in MainOwned : <<{u}, p>> = <<{}, q>>
      BY <3>2, <1>3, <1>4
    <3>3. QED BY <1>1, <2>1, <3>1, <3>2
  <2>2. ASSUME u \in Known, p \in Owned(u)
        PROVE  <<{u}, p>> \in Holdings
    BY <1>1, <2>2
  <2>3. QED BY <2>1, <2>2
<1>6. \A p : <<{}, p>> \in Holdings <=> p \in MainOwned
  <2> SUFFICES ASSUME NEW p
               PROVE  <<{}, p>> \in Holdings <=> p \in MainOwned
    OBVIOUS
  <2>1. ASSUME <<{}, p>> \in Holdings
        PROVE  p \in MainOwned
    <3>1. ~ \E v \in Known : \E q \in Owned(v) : <<{}, p>> = <<{v}, q>>
      BY <1>3, <1>4
    <3>2. PICK q \in MainOwned : <<{}, p>> = <<{}, q>>
      BY <1>1, <2>1, <3>1
    <3>3. p = q
      BY <3>2, <1>4
    <3>4. QED BY <3>3
  <2>2. ASSUME p \in MainOwned
        PROVE  <<{}, p>> \in Holdings
    BY <1>1, <2>2
  <2>3. QED BY <2>1, <2>2
<1>7. QED BY <1>1, <1>5, <1>6

\* Whatever step it is, all but task t keep at most what they had.
LEMMA HoldingsStep ==
  ASSUME NEW t, \A u \in Known' : u # t => u \in Known /\ Owned(u)' \subseteq Owned(u),
         MainOwned' \subseteq MainOwned
  PROVE  \A x \in Holdings' : \/ x \in Holdings /\ x[1] # {t}
                              \/ t \in Known' /\ \E p \in Owned(t)' : x = <<{t}, p>>
<1> SUFFICES ASSUME NEW x \in Holdings'
             PROVE  \/ x \in Holdings /\ x[1] # {t}
                    \/ t \in Known' /\ \E p \in Owned(t)' : x = <<{t}, p>>
  OBVIOUS
<1>1. \A u : u # t => {u} # {t} /\ {} # {t}
  OBVIOUS
<1>2. \/ \E u \in Known' : \E p \in Owned(u)' : x = <<{u}, p>>
      \/ \E p \in MainOwned' : x = <<{}, p>>
  BY DEF Holdings
<1>3. CASE \E u \in Known' : \E p \in Owned(u)' : x = <<{u}, p>>
  <2>1. PICK u \in Known' : \E p \in Owned(u)' : x = <<{u}, p>>
    BY <1>3
  <2>2. PICK p \in Owned(u)' : x = <<{u}, p>>
    BY <2>1
  <2>3. CASE u = t
    BY <2>2, <2>3
  <2>4. CASE u # t
    <3>1. u \in Known /\ p \in Owned(u)
      BY <2>4
    <3>2. x \in Holdings
      BY <2>2, <3>1, HoldingIs
    <3>3. x[1] # {t}
      BY <1>1, <2>2, <2>4
    <3>4. QED BY <3>2, <3>3
  <2>5. QED BY <2>3, <2>4
<1>4. CASE \E p \in MainOwned' : x = <<{}, p>>
  <2>1. PICK p \in MainOwned' : x = <<{}, p>>
    BY <1>4
  <2>2. x \in Holdings
    BY <2>1, HoldingIs
  <2>3. x[1] # {t}
    BY <2>1
  <2>4. QED BY <2>2, <2>3
<1>5. QED BY <1>2, <1>3, <1>4

\* Another one answers for a path.
LEMMA HandedOver ==
  ASSUME NEW H, AllApart(H), NEW x \in H, NEW y, y[2] = x[2],
         NEW K, K \subseteq H \cup {y}, x \notin K \/ x = y
  PROVE  AllApart(K)
<1> SUFFICES ASSUME NEW a \in K, NEW b \in K, a # b
             PROVE  Apart(a[2], b[2])
  BY DEF AllApart
<1>1. CASE a \in H /\ b \in H
  BY <1>1 DEF AllApart
<1>2. CASE a = y /\ b \in H
  <2>1. b # x
    BY <1>2
  <2>2. QED BY <1>2, <2>1 DEF AllApart
<1>3. CASE b = y /\ a \in H
  <2>1. a # x
    BY <1>3
  <2>2. QED BY <1>3, <2>1 DEF AllApart
<1>4. QED BY <1>1, <1>2, <1>3

\* K is H, but for the parts of x, which o has instead of x.
Divides(H, K, x, o) ==
  \A z \in K : \/ z \in H /\ z # x
              \/ \E k \in Parts : z = <<o, Append(x[2], k)>>

\* Instead of a part, somebody answers for the parts that it is split into.
LEMMA Divided ==
  ASSUME NEW H, AllApart(H), \A z \in H : z[2] \in Seq(Parts), NEW x \in H, NEW o,
         NEW K, Divides(H, K, x, o)
  PROVE  AllApart(K)
<1> USE DEF Divides
<1> SUFFICES ASSUME NEW a \in K, NEW b \in K, a # b
             PROVE  Apart(a[2], b[2])
  BY DEF AllApart
<1>1. CASE a \in H /\ b \in H
  BY <1>1 DEF AllApart
<1>2. ASSUME NEW c \in H, c # x, NEW k \in Parts
      PROVE  Apart(Append(x[2], k), c[2]) /\ Apart(c[2], Append(x[2], k))
  <2>1. Apart(x[2], c[2])
    BY <1>2 DEF AllApart
  <2>2. QED BY <2>1, ApartExtended
<1>3. ASSUME NEW k \in Parts, a = <<o, Append(x[2], k)>>, b \in H, b # x
      PROVE  Apart(a[2], b[2])
  BY <1>2, <1>3
<1>4. ASSUME NEW k \in Parts, b = <<o, Append(x[2], k)>>, a \in H, a # x
      PROVE  Apart(a[2], b[2])
  BY <1>2, <1>4
<1>5. ASSUME NEW k \in Parts, a = <<o, Append(x[2], k)>>,
             NEW l \in Parts, b = <<o, Append(x[2], l)>>
      PROVE  Apart(a[2], b[2])
  <2>1. k # l
    BY <1>5
  <2>2. Apart(Append(x[2], k), Append(x[2], l))
    BY <2>1, ApartSplit
  <2>3. QED BY <1>5, <2>2
<1>6. QED BY <1>1, <1>3, <1>4, <1>5

--------------------------------------------------------------------------------
(* Steps that leave most of the invariant as it is. *)

\* What a task answers for follows from its own state.
LEMMA OwnedFrame ==
  ASSUME NEW u, u \in (Pool!Queued)' <=> u \in Pool!Queued, u \in active' <=> u \in active,
         u \in active => at'[u] = at[u]
  PROVE  Owned(u)' = Owned(u)
<1>1. u \in active => (Reading(u)' <=> Reading(u))
  BY DEF Reading
<1>2. \A n : Children(u, n)' = Children(u, n)
  BY DEF Children, part_count
<1>3. u \in active => Children(u, at[u].pos - Tuples(u))' = Children(u, at[u].pos - Tuples(u))
  BY <1>2
<1>4. QED BY <1>1, <1>3 DEF Owned

\* The tasks that own something keep it, the memory too.
LEMMA OwnersKept ==
  ASSUME UNCHANGED <<args, mem>>, Later' <=> Later, OwnInv, ContentInv, Holdings' \subseteq Holdings
  PROVE  OwnInv' /\ ContentInv'
<1>1. OwnInv'
  <2> SUFFICES ASSUME Later, NEW x \in Holdings', NEW y \in Holdings', x # y
               PROVE  Apart(x[2], y[2])
    BY DEF OwnInv, AllApart
  <2>1. QED BY DEF OwnInv, AllApart
<1>2. ContentInv'
  <2>1. ~ Later => \A s \in Sides : Holds(mem["input"][s], s, <<>>)'
    BY Frame DEF ContentInv
  <2>2. Later => \A x \in Holdings' : Settled(mem', x[2])
    BY DEF ContentInv
  <2>3. QED BY <2>1, <2>2, Frame DEF ContentInv
<1>3. QED BY <1>1, <1>2

\* What somebody owned, y owns now.
LEMMA OwnerChanged ==
  ASSUME UNCHANGED <<args, mem>>, Later, Later', OwnInv, ContentInv,
         NEW x \in Holdings, NEW y, y[2] = x[2], Holdings' \subseteq Holdings \cup {y},
         x \notin Holdings'
  PROVE  OwnInv' /\ ContentInv'
<1>1. OwnInv'
  <2>1. AllApart(Holdings)
    BY DEF OwnInv
  <2> DEFINE H == Holdings
             K == Holdings'
  <2>2. H = Holdings /\ K = Holdings'
    OBVIOUS
  <2> HIDE DEF H, K
  <2>3. AllApart(K)
    BY <2>1, <2>2, HandedOver
  <2>4. QED BY <2>2, <2>3 DEF OwnInv, AllApart, K
<1>2. ContentInv'
  <2>1. \A z \in Holdings' : Settled(mem, z[2])
    BY DEF ContentInv
  <2>2. \A z \in Holdings' : Settled(mem', z[2])
    BY <2>1
  <2>3. QED BY <2>2, Frame DEF ContentInv
<1>3. QED BY <1>1, <1>2

\* No join task has worked.
LEMMA ResultKept ==
  ASSUME UNCHANGED <<args, result, due>>, ResultInv, mpc' = "idle" <=> mpc = "idle",
         built' <=> mpc' \in {"wait", "finish"} \/ due > 0,
         \A u : u \in Known' /\ Joined(u)' <=> u \in Known /\ Joined(u)
  PROVE  ResultInv'
<1>1. \A r : InJoined(r)' <=> InJoined(r)
  BY Frame DEF InJoined
<1>2. Pairs' = Pairs /\ \A m : SameKey(m)' <=> SameKey(m)
  BY Frame DEF Pairs, SameKey, args
<1>3. QED BY <1>1, <1>2 DEF ResultInv

\* What somebody answers for is a path.
LEMMA HoldingPaths ==
  ASSUME TypeInv, PoolInv, FormInv, Later
  PROVE  \A x \in Holdings : x[2] \in Seq(Parts)
<1> SUFFICES ASSUME NEW x \in Holdings
             PROVE  x[2] \in Seq(Parts)
  OBVIOUS
<1>1. ASSUME NEW u \in Known, NEW p \in Owned(u)
      PROVE  p \in Seq(Parts)
  <2>1. u.depth # 1
    BY DEF Owned
  <2>2. u.of \in Seq(Parts)
    BY <2>1 DEF FormInv, DeepForm
  <2>3. CASE p = u.of
    BY <2>2, <2>3
  <2>4. CASE u \in active /\ p \in Children(u, at[u].pos - Tuples(u)) /\ ~ Reading(u) /\ u.op = "scatter"
    <3>1. at[u].pos \in Nat /\ Tuples(u) \in Nat
      <4>1. at[u].pos \in Nat
        BY <2>4 DEF TypeInv
      <4>2. u \in Busy
        BY <2>4 DEF Busy
      <4>3. Sized(u)
        BY <4>2, SizesOfTask
      <4>4. 0 \in Nat
        OBVIOUS
      <4>5. QED BY <4>1, <4>3, <4>4, BoundSteps
    <3>2. at[u].pos - Tuples(u) \in Nat
      BY <2>4, <3>1 DEF Reading
    <3>3. PICK k \in (at[u].pos - Tuples(u)) .. (part_count - 1) : p = Append(u.of, (k + 1) % part_count)
      BY <2>4 DEF Children
    <3>4. k + 1 \in Nat
      BY <3>2, <3>3
    <3>5. (k + 1) % part_count \in Parts
      BY <3>4, PartsType DEF Parts
    <3>6. QED BY <2>2, <3>3, <3>5, Extended
  <2>5. QED BY <2>1, <2>3, <2>4 DEF Owned
<1>2. ASSUME NEW p \in MainOwned
      PROVE  p \in Seq(Parts)
  <2>1. mpc = "leaves"
    BY DEF MainOwned
  <2>2. PICK i \in round .. (part_count - 1) : p = <<i>>
    BY <2>1 DEF MainOwned
  <2>3. round \in Nat
    BY DEF TypeInv
  <2>4. i \in Parts
    BY <2>2, <2>3, PartsType DEF Parts
  <2>5. QED BY <2>2, <2>4
<1>3. CASE \E u \in Known : \E p \in Owned(u) : x = <<{u}, p>>
  BY <1>1, <1>3
<1>4. CASE \E p \in MainOwned : x = <<{}, p>>
  BY <1>2, <1>4
<1>5. QED BY <1>3, <1>4, HoldingIs

\* The parts that a scatter task is left with.
LEMMA ChildrenType ==
  ASSUME NEW t, t.of \in Seq(Parts)
  PROVE  /\ Children(t, 0) = {Append(t.of, q) : q \in Parts}
         /\ \A n \in Nat : n < part_count =>
              LET q == (n + 1) % part_count
              IN  /\ q \in Parts /\ Append(t.of, q) \in Children(t, n)
                  /\ Children(t, n + 1) \subseteq Children(t, n)
                  /\ Append(t.of, q) \notin Children(t, n + 1)
         /\ Children(t, part_count) = {}
<1> DEFINE pc == part_count
           next(k) == (k + 1) % pc
<1>1. pc \in Nat \ {0} /\ Parts = 0 .. (pc - 1)
  BY PartsType DEF Parts
<1>2. \A k \in 0 .. (pc - 1) : next(k) = IF k = pc - 1 THEN 0 ELSE k + 1
  <2> HIDE DEF pc
  <2>1. QED BY <1>1, Successor
<1>3. \A p, q \in Parts : Append(t.of, p) = Append(t.of, q) => p = q
  <2> SUFFICES ASSUME NEW p \in Parts, NEW q \in Parts, Append(t.of, p) = Append(t.of, q)
               PROVE  p = q
    OBVIOUS
  <2>1. Append(t.of, p)[Len(t.of) + 1] = p /\ Append(t.of, q)[Len(t.of) + 1] = q
    BY Extended
  <2>2. QED BY <2>1
<1>4. \A n : Children(t, n) = {Append(t.of, next(k)) : k \in n .. (pc - 1)}
  BY DEF Children
<1> HIDE DEF pc
<1>5. Children(t, 0) = {Append(t.of, q) : q \in Parts}
  <2>1. ASSUME NEW k \in 0 .. (pc - 1)
        PROVE  next(k) \in Parts
    BY <1>1, <1>2
  <2>2. ASSUME NEW q \in Parts
        PROVE  \E k \in 0 .. (pc - 1) : q = next(k)
    <3>1. CASE q = 0
      <4>1. pc - 1 \in 0 .. (pc - 1)
        BY <1>1
      <4>2. next(pc - 1) = 0
        BY <1>2, <4>1
      <4>3. QED BY <3>1, <4>1, <4>2
    <3>2. CASE q # 0
      <4>1. q - 1 \in 0 .. (pc - 1) /\ q - 1 # pc - 1 /\ (q - 1) + 1 = q
        BY <1>1, <3>2
      <4>2. next(q - 1) = (q - 1) + 1
        <5> DEFINE j == q - 1
        <5>1. j \in 0 .. (pc - 1) /\ j # pc - 1
          BY <4>1
        <5> HIDE DEF j
        <5>2. next(j) = j + 1
          BY <1>2, <5>1
        <5>3. QED BY <5>2 DEF j
      <4>3. QED BY <4>1, <4>2
    <3>3. QED BY <3>1, <3>2
  <2> HIDE DEF next
  <2>3. QED BY <1>4, <2>1, <2>2
<1>6. ASSUME NEW n \in Nat, n < pc
      PROVE  /\ next(n) \in Parts /\ Append(t.of, next(n)) \in Children(t, n)
             /\ Children(t, n + 1) \subseteq Children(t, n)
             /\ Append(t.of, next(n)) \notin Children(t, n + 1)
  <2>1. n \in n .. (pc - 1) /\ (n + 1) .. (pc - 1) \subseteq n .. (pc - 1) /\ n \in 0 .. (pc - 1)
    BY <1>1, <1>6
  <2>2. next(n) \in Parts
    BY <1>1, <1>2, <2>1
  <2>3. ASSUME NEW k \in (n + 1) .. (pc - 1)
        PROVE  next(k) \in Parts /\ next(k) # next(n)
    <3>1. k \in 0 .. (pc - 1) /\ k # n /\ n # pc - 1
      BY <1>1, <2>1
    <3>2. next(n) = n + 1 /\ next(k) = IF k = pc - 1 THEN 0 ELSE k + 1
      BY <1>2, <2>1, <3>1
    <3> HIDE DEF next
    <3>3. QED BY <1>1, <3>1, <3>2
  <2> HIDE DEF next
  <2>4. Append(t.of, next(n)) \notin Children(t, n + 1)
    <3>1. Children(t, n + 1) = {Append(t.of, next(k)) : k \in (n + 1) .. (pc - 1)}
      BY <1>4
    <3>2. ASSUME NEW k \in (n + 1) .. (pc - 1)
          PROVE  Append(t.of, next(k)) # Append(t.of, next(n))
      BY <1>3, <2>2, <2>3
    <3>3. QED BY <3>1, <3>2
  <2>5. Append(t.of, next(n)) \in Children(t, n)
    BY <1>4, <2>1
  <2>6. Children(t, n + 1) \subseteq Children(t, n)
    <3>1. Children(t, n + 1) = {Append(t.of, next(k)) : k \in (n + 1) .. (pc - 1)}
      BY <1>4
    <3>2. Children(t, n) = {Append(t.of, next(k)) : k \in n .. (pc - 1)}
      BY <1>4
    <3>3. QED BY <2>1, <3>1, <3>2
  <2>7. QED BY <2>2, <2>4, <2>5, <2>6
<1>7. Children(t, pc) = {}
  <2>1. pc .. (pc - 1) = {}
    BY <1>1
  <2>2. QED BY <1>4, <2>1
<1>8. QED BY <1>5, <1>6, <1>7 DEF pc
================================================================================
