----------------------------- MODULE BasicLemmas -------------------------------
(***************************************************************************)
(* What the proofs need of sequences, numbers and finite sets: the         *)
(* elements of a sequence after an element was added or removed at one of  *)
(* its ends, powers, products and quotients, the least number of a set and *)
(* the induction that follows from it, and counting.                       *)
(***************************************************************************)
EXTENDS Integers, Sequences, FiniteSets, Functions, SequenceTheorems,
        FiniteSetTheorems, FunctionTheorems, WellFoundedInduction, TLAPS

--------------------------------------------------------------------------------
(* Sequences. *)

\* Appending adds one element to a sequence, and a sequence without repetition
\* stays so when the element is new.
LEMMA RangeOfAppend ==
  ASSUME NEW S, NEW s \in Seq(S), NEW e \in S
  PROVE  /\ Range(Append(s, e)) = Range(s) \cup {e}
         /\ (\A i, j \in DOMAIN s : s[i] = s[j] => i = j) /\ e \notin Range(s) =>
              \A i, j \in DOMAIN Append(s, e) :
                Append(s, e)[i] = Append(s, e)[j] => i = j
<1> DEFINE t == Append(s, e)
<1>1. /\ Len(s) \in Nat /\ DOMAIN s = 1 .. Len(s)
      /\ DOMAIN t = 1 .. (Len(s) + 1)
      /\ \A i \in 1 .. Len(s) : t[i] = s[i]
      /\ t[Len(s) + 1] = e
  BY AppendProperties, LenProperties
<1> HIDE DEF t
<1>2. Range(t) = Range(s) \cup {e}
  <2>1. Range(t) \subseteq Range(s) \cup {e}
    <3>1. SUFFICES ASSUME NEW i \in 1 .. (Len(s) + 1)
                   PROVE  t[i] \in Range(s) \cup {e}
      BY <1>1 DEF Range
    <3>2. CASE i = Len(s) + 1
      BY <3>2, <1>1
    <3>3. CASE i # Len(s) + 1
      BY <3>3, <1>1 DEF Range
    <3>4. QED BY <3>2, <3>3
  <2>2. Range(s) \subseteq Range(t)
    <3>1. SUFFICES ASSUME NEW i \in 1 .. Len(s)
                   PROVE  s[i] \in Range(t)
      BY <1>1 DEF Range
    <3>2. i \in DOMAIN t /\ t[i] = s[i]
      BY <1>1
    <3>3. QED BY <3>2 DEF Range
  <2>3. e \in Range(t)
    <3>1. Len(s) + 1 \in DOMAIN t
      BY <1>1
    <3>2. QED BY <3>1, <1>1 DEF Range
  <2>4. QED BY <2>1, <2>2, <2>3
<1>3. ASSUME \A i, j \in DOMAIN s : s[i] = s[j] => i = j,
             e \notin Range(s),
             NEW i \in DOMAIN t, NEW j \in DOMAIN t, t[i] = t[j]
      PROVE  i = j
  <2>1. \A k \in 1 .. Len(s) : t[k] \in Range(s)
    BY <1>1 DEF Range
  <2>2. QED BY <1>1, <1>3, <2>1
<1>4. QED BY <1>2, <1>3 DEF t

\* A nonempty sequence has the elements of its tail and its head; without
\* repetition the head is not in the tail, and the tail has no repetition either.
LEMMA RangeOfTail ==
  ASSUME NEW S, NEW s \in Seq(S), s # <<>>
  PROVE  /\ Range(s) = Range(Tail(s)) \cup {Head(s)}
         /\ (\A i, j \in DOMAIN s : s[i] = s[j] => i = j) =>
              /\ Head(s) \notin Range(Tail(s))
              /\ \A i, j \in DOMAIN Tail(s) : Tail(s)[i] = Tail(s)[j] => i = j
<1> DEFINE t == Tail(s)
<1>1. /\ Len(s) \in Nat \ {0} /\ DOMAIN s = 1 .. Len(s)
      /\ DOMAIN t = 1 .. (Len(s) - 1)
      /\ \A i \in 1 .. (Len(s) - 1) : t[i] = s[i + 1]
      /\ Head(s) = s[1]
  <2>1. t \in Seq(S) /\ Len(t) = Len(s) - 1
        /\ \A i \in 1 .. Len(t) : t[i] = s[i + 1]
    BY HeadTailProperties
  <2>2. QED BY <2>1, LenProperties, EmptySeq
<1> HIDE DEF t
<1>2. Range(s) = Range(t) \cup {Head(s)}
  <2>1. Range(s) \subseteq Range(t) \cup {Head(s)}
    <3>1. SUFFICES ASSUME NEW i \in 1 .. Len(s), i # 1
                   PROVE  s[i] \in Range(t)
      BY <1>1 DEF Range
    <3>2. i - 1 \in DOMAIN t /\ t[i - 1] = s[i]
      BY <3>1, <1>1
    <3>3. QED BY <3>2 DEF Range
  <2>2. Range(t) \subseteq Range(s)
    <3>1. SUFFICES ASSUME NEW i \in DOMAIN t
                   PROVE  t[i] \in Range(s)
      BY DEF Range
    <3>2. i + 1 \in DOMAIN s /\ t[i] = s[i + 1]
      BY <1>1
    <3>3. QED BY <3>2 DEF Range
  <2>3. Head(s) \in Range(s)
    <3>1. 1 \in DOMAIN s
      BY <1>1
    <3>2. QED BY <3>1, <1>1 DEF Range
  <2>4. QED BY <2>1, <2>2, <2>3
<1>3. ASSUME \A i, j \in DOMAIN s : s[i] = s[j] => i = j
      PROVE  /\ Head(s) \notin Range(t)
             /\ \A i, j \in DOMAIN t : t[i] = t[j] => i = j
  <2>1. ASSUME NEW i \in DOMAIN t
        PROVE  t[i] # Head(s)
    <3>1. 1 \in DOMAIN s /\ i + 1 \in DOMAIN s /\ i + 1 # 1 /\ t[i] = s[i + 1]
      BY <1>1
    <3>2. QED BY <3>1, <1>3, <1>1
  <2>2. ASSUME NEW i \in DOMAIN t, NEW j \in DOMAIN t, t[i] = t[j]
        PROVE  i = j
    <3>1. i + 1 \in DOMAIN s /\ j + 1 \in DOMAIN s /\ s[i + 1] = s[j + 1]
      BY <1>1, <2>2
    <3>2. i + 1 = j + 1
      BY <3>1, <1>3
    <3>3. QED BY <3>2, <1>1
  <2>3. QED BY <2>1, <2>2 DEF Range
<1>4. QED BY <1>2, <1>3 DEF t

\* The same at the other end, where a stack is popped.
LEMMA RangeOfFront ==
  ASSUME NEW S, NEW s \in Seq(S), s # <<>>
  PROVE  LET t == SubSeq(s, 1, Len(s) - 1)
         IN  /\ t \in Seq(S)
             /\ Range(s) = Range(t) \cup {s[Len(s)]}
             /\ (\A i, j \in DOMAIN s : s[i] = s[j] => i = j) =>
                  /\ s[Len(s)] \notin Range(t)
                  /\ \A i, j \in DOMAIN t : t[i] = t[j] => i = j
<1> DEFINE n == Len(s)
           t == SubSeq(s, 1, n - 1)
<1>1. n \in Nat \ {0} /\ DOMAIN s = 1 .. n
  BY EmptySeq, LenProperties
<1>2. /\ t \in Seq(S) /\ DOMAIN t = 1 .. (n - 1)
      /\ \A i \in 1 .. (n - 1) : t[i] = s[i]
  <2>1. \A i \in 1 .. (n - 1) : s[i] \in S
    BY <1>1, ElementOfSeq
  <2>2. /\ t \in Seq(S) /\ Len(t) = IF 1 <= n - 1 THEN (n - 1) - 1 + 1 ELSE 0
        /\ \A i \in 1 .. ((n - 1) - 1 + 1) : t[i] = s[1 + i - 1]
    <3> HIDE DEF n
    <3>1. QED BY <1>1, <2>1, SubSeqProperties
  <2> HIDE DEF t, n
  <2>3. Len(t) = n - 1
    BY <1>1, <2>2
  <2>4. DOMAIN t = 1 .. (n - 1)
    BY <2>2, <2>3, LenProperties
  <2>5. \A i \in 1 .. (n - 1) : t[i] = s[i]
    BY <1>1, <2>2
  <2>6. QED BY <2>2, <2>4, <2>5
<1> HIDE DEF t, n
<1>3. Range(s) = Range(t) \cup {s[n]}
  BY <1>1, <1>2 DEF Range
<1>4. ASSUME \A i, j \in DOMAIN s : s[i] = s[j] => i = j
      PROVE  /\ s[n] \notin Range(t)
             /\ \A i, j \in DOMAIN t : t[i] = t[j] => i = j
  BY <1>1, <1>2, <1>4 DEF Range
<1>5. QED BY <1>2, <1>3, <1>4 DEF t, n

--------------------------------------------------------------------------------
(* Numbers. *)

\* A power of two is the number of subsets of a set.
LEMMA PowerOfTwo ==
  ASSUME NEW n \in Nat
  PROVE  2 ^ n \in Nat \ {0}
<1> DEFINE S == 1 .. n
<1>1. IsFiniteSet(S) /\ Cardinality(S) = n
  BY FS_Interval
<1>2. IsFiniteSet(SUBSET S) /\ Cardinality(SUBSET S) = 2 ^ n
  BY <1>1, FS_SUBSET
<1>3. SUBSET S # {}
  OBVIOUS
<1>4. QED
  <2> HIDE DEF S
  <2>1. QED BY <1>2, <1>3, FS_CardinalityType, FS_EmptySet

\* Multiplication is monotone.
LEMMA Products ==
  ASSUME NEW a \in Nat, NEW b \in Nat, NEW q \in Nat, a <= b
  PROVE  a * q \in Nat /\ b * q \in Nat /\ a * q <= b * q /\ (a + 1) * q = a * q + q
<1>1. PICK d \in Nat : b = a + d
  <2>1. b - a \in Nat /\ b = a + (b - a)
    OBVIOUS
  <2>2. QED BY <2>1
<1>2. a * q \in Nat /\ d * q \in Nat
  OBVIOUS
<1>3. (a + d) * q = a * q + d * q
  OBVIOUS
<1>4. QED BY <1>1, <1>2, <1>3

\* The quotient is the largest number of divisors that fit.
LEMMA Quotient ==
  ASSUME NEW n \in Nat, NEW d \in Nat \ {0}
  PROVE  /\ n \div d \in Nat
         /\ (n \div d) * d <= n
         /\ n < (n \div d) * d + d
OBVIOUS

\* The successor modulo n, which takes the last number to the first.
LEMMA Successor ==
  ASSUME NEW n \in Nat \ {0}, NEW k \in 0 .. (n - 1)
  PROVE  (k + 1) % n = IF k = n - 1 THEN 0 ELSE k + 1
<1>1. CASE k = n - 1
  BY <1>1
<1>2. CASE k # n - 1
  BY <1>2
<1>3. QED BY <1>1, <1>2
\* The sequences of d digits, of which there are 2^b each: a sequence is the set of
\* the bits that are one, each named by its place and its digit's place.
LEMMA CountSequences ==
  ASSUME NEW b \in Nat, NEW d \in Nat, NEW S, IsFiniteSet(S), Cardinality(S) = 2 ^ b
  PROVE  IsFiniteSet([1 .. d -> S]) /\ Cardinality([1 .. d -> S]) = 2 ^ (b * d)
<1> DEFINE B == 1 .. b
           P == B \X (1 .. d)
<1>1. IsFiniteSet(P) /\ Cardinality(P) = b * d
  <2>1. IsFiniteSet(B) /\ Cardinality(B) = b
    BY FS_Interval
  <2>2. IsFiniteSet(1 .. d) /\ Cardinality(1 .. d) = d
    BY FS_Interval
  <2> HIDE DEF B
  <2>3. QED BY <2>1, <2>2, FS_Product
<1>2. IsFiniteSet(SUBSET P) /\ Cardinality(SUBSET P) = 2 ^ (b * d)
  <2> HIDE DEF P
  <2>1. QED BY <1>1, FS_SUBSET
<1>3. PICK g \in Bijection(S, SUBSET B) : TRUE
  <2>1. IsFiniteSet(B) /\ Cardinality(B) = b
    BY FS_Interval
  <2> HIDE DEF B
  <2>2. IsFiniteSet(SUBSET B) /\ Cardinality(SUBSET B) = Cardinality(S)
    BY <2>1, FS_SUBSET
  <2>3. ExistsBijection(S, SUBSET B)
    BY <2>2, FS_SameCardinalityBij
  <2>4. QED BY <2>3, Fun_ExistsBij
<1>4. /\ g \in [S -> SUBSET B]
      /\ \A k, l \in S : g[k] = g[l] => k = l
      /\ \A C \in SUBSET B : \E k \in S : g[k] = C
  <2> HIDE DEF B
  <2>1. g \in Injection(S, SUBSET B) /\ g \in Surjection(S, SUBSET B)
    BY DEF Bijection
  <2>2. g \in [S -> SUBSET B] /\ \A C \in SUBSET B : \E k \in S : g[k] = C
    BY <2>1 DEF Surjection
  <2>3. \A k, l \in S : g[k] = g[l] => k = l
    BY <2>1 DEF Injection, IsInjective
  <2>4. QED BY <2>2, <2>3
<1> DEFINE h == [T \in SUBSET P |-> [i \in 1 .. d |->
                   CHOOSE k \in S : g[k] = {y \in B : <<y, i>> \in T}]]
<1>5. ASSUME NEW T \in SUBSET P, NEW i \in 1 .. d
      PROVE  h[T][i] \in S /\ g[h[T][i]] = {y \in B : <<y, i>> \in T}
  <2> DEFINE C == {y \in B : <<y, i>> \in T}
  <2>1. \E k \in S : g[k] = C
    <3>1. C \in SUBSET B
      OBVIOUS
    <3> HIDE DEF B, C
    <3>2. QED BY <1>4, <3>1
  <2>2. h[T][i] = CHOOSE k \in S : g[k] = C
    OBVIOUS
  <2> HIDE DEF C, h
  <2>3. h[T][i] \in S /\ g[h[T][i]] = C
    BY <2>1, <2>2
  <2>4. QED BY <2>3 DEF C
<1>6. h \in [SUBSET P -> [1 .. d -> S]]
  <2>1. \A T \in SUBSET P : h[T] \in [1 .. d -> S]
    <3>1. SUFFICES ASSUME NEW T \in SUBSET P
                   PROVE  h[T] \in [1 .. d -> S]
      OBVIOUS
    <3>2. DOMAIN h[T] = 1 .. d /\ h[T] = [i \in 1 .. d |-> h[T][i]]
      OBVIOUS
    <3> HIDE DEF h, P
    <3>3. QED BY <1>5, <3>2
  <2>2. h = [T \in SUBSET P |-> h[T]]
    OBVIOUS
  <2> HIDE DEF h, P
  <2>3. QED BY <2>1, <2>2
<1>7. ASSUME NEW T \in SUBSET P, NEW U \in SUBSET P, h[T] = h[U]
      PROVE  T = U
  <2>1. ASSUME NEW y \in B, NEW i \in 1 .. d
        PROVE  <<y, i>> \in T <=> <<y, i>> \in U
    <3> HIDE DEF h, P, B
    <3>1. {z \in B : <<z, i>> \in T} = {z \in B : <<z, i>> \in U}
      BY <1>5, <1>7
    <3>2. QED BY <3>1
  <2>2. \A x \in P : x = <<x[1], x[2]>> /\ x[1] \in B /\ x[2] \in 1 .. d
    OBVIOUS
  <2> HIDE DEF h, B, P
  <2>3. \A x \in P : x \in T <=> x \in U
    BY <2>1, <2>2
  <2>4. QED BY <2>3
<1>8. ASSUME NEW p \in [1 .. d -> S]
      PROVE  \E T \in SUBSET P : h[T] = p
  <2> DEFINE T == {x \in P : x[1] \in g[p[x[2]]]}
  <2>1. T \in SUBSET P
    OBVIOUS
  <2>2. ASSUME NEW i \in 1 .. d
        PROVE  h[T][i] = p[i]
    <3>1. p[i] \in S /\ g[p[i]] \subseteq B
      BY <1>4
    <3>2. {y \in B : <<y, i>> \in T} = g[p[i]]
      BY <3>1
    <3> HIDE DEF T, h, B, P
    <3>3. g[h[T][i]] = g[p[i]] /\ h[T][i] \in S
      BY <1>5, <2>1, <3>2
    <3>4. QED BY <1>4, <3>1, <3>3
  <2> HIDE DEF T, h, P
  <2>3. h[T] \in [1 .. d -> S]
    BY <1>6, <2>1
  <2>4. h[T] = p
    BY <2>2, <2>3
  <2>5. QED BY <2>1, <2>4
<1>9. h \in Bijection(SUBSET P, [1 .. d -> S])
  <2> HIDE DEF h, P
  <2>1. QED BY <1>6, <1>7, <1>8, Fun_IsBij
<1>10. ExistsBijection(SUBSET P, [1 .. d -> S])
  <2> HIDE DEF h, P
  <2>1. QED BY <1>9, Fun_ExistsBij
<1>11. QED
  <2> HIDE DEF P
  <2>1. QED BY <1>2, <1>10, FS_Bijection

\* A set of numbers has a least one: induction, as the provers can use it.
LEMMA LeastNumber ==
  ASSUME NEW T, T \subseteq Nat, T # {}
  PROVE  \E x \in T : \A y \in T : x <= y
<1> DEFINE R == OpToRel(<, Nat)
<1>1. IsWellFoundedOn(R, Nat)
  BY NatLessThanWellFounded
<1>2. \A x, y \in Nat : x < y => <<x, y>> \in R
  BY DEF OpToRel
<1> HIDE DEF R
<1>3. PICK x \in T : \A y \in T : ~ (<<y, x>> \in R)
  BY <1>1, WFMin
<1>4. ASSUME NEW y \in T
      PROVE  x <= y
  <2>1. x \in Nat /\ y \in Nat
    OBVIOUS
  <2>2. ~ (y < x)
    BY <1>2, <1>3, <2>1
  <2>3. QED BY <2>1, <2>2
<1>5. QED BY <1>4

LEMMA UpTo ==
  ASSUME NEW n \in Nat, NEW S, 0 \in S, \A i \in 0 .. (n - 1) : i \in S => i + 1 \in S
  PROVE  0 .. n \subseteq S
<1> SUFFICES ASSUME ~ (0 .. n \subseteq S)
             PROVE  FALSE
  OBVIOUS
<1> DEFINE T == (0 .. n) \ S
<1>1. T \subseteq Nat /\ T # {}
  OBVIOUS
<1> HIDE DEF T
<1>2. PICK x \in T : \A y \in T : x <= y
  BY <1>1, LeastNumber
<1>3. x \in 1 .. n /\ x \notin S
  BY DEF T
<1>4. x - 1 \in 0 .. (n - 1) /\ x - 1 \notin T /\ x = (x - 1) + 1
  BY <1>2, <1>3 DEF T
<1>5. x - 1 \in S
  BY <1>4 DEF T
<1>6. QED BY <1>3, <1>4, <1>5

LEMMA IntervalSize ==
  ASSUME NEW a \in Int, NEW n \in Nat
  PROVE  IsFiniteSet(a .. (a + n - 1)) /\ Cardinality(a .. (a + n - 1)) = n
<1>1. a + n - 1 \in Int
  OBVIOUS
<1>2. /\ IsFiniteSet(a .. (a + n - 1))
      /\ Cardinality(a .. (a + n - 1)) = IF a > a + n - 1 THEN 0 ELSE a + n - 1 - a + 1
  BY <1>1, FS_Interval
<1>3. QED BY <1>2

LEMMA PowerOfSum ==
  ASSUME NEW a \in Nat, NEW b \in Nat
  PROVE  2 ^ (a + b) = 2 ^ a * 2 ^ b
<1> DEFINE A == 1 .. a
           B == (a + 1) .. (a + b)
           C == 1 .. (a + b)
           P == (SUBSET A) \X (SUBSET B)
           f == [T \in SUBSET C |-> <<T \cap A, T \cap B>>]
<1>1. IsFiniteSet(A) /\ Cardinality(A) = a /\ IsFiniteSet(C) /\ Cardinality(C) = a + b
  <2>1. A = 1 .. (1 + a - 1) /\ C = 1 .. (1 + (a + b) - 1) /\ a + b \in Nat
    OBVIOUS
  <2> HIDE DEF A, C
  <2>2. QED BY <2>1, IntervalSize
<1>2. IsFiniteSet(B) /\ Cardinality(B) = b
  <2>1. IsFiniteSet((a + 1) .. (a + 1 + b - 1)) /\ Cardinality((a + 1) .. (a + 1 + b - 1)) = b
    <3>1. a + 1 \in Int
      OBVIOUS
    <3>2. QED BY <3>1, IntervalSize
  <2>2. a + 1 + b - 1 = a + b
    OBVIOUS
  <2>3. QED BY <2>1, <2>2
<1>3. C = A \cup B /\ A \cap B = {}
  OBVIOUS
<1> HIDE DEF A, B, C
<1>4. IsFiniteSet(SUBSET A) /\ Cardinality(SUBSET A) = 2 ^ a
  BY <1>1, FS_SUBSET
<1>5. IsFiniteSet(SUBSET B) /\ Cardinality(SUBSET B) = 2 ^ b
  BY <1>2, FS_SUBSET
<1>6. IsFiniteSet(SUBSET C) /\ Cardinality(SUBSET C) = 2 ^ (a + b)
  BY <1>1, FS_SUBSET
<1>7. Cardinality(P) = 2 ^ a * 2 ^ b
  BY <1>4, <1>5, FS_Product
<1>8. \A T \in SUBSET C : f[T] = <<T \cap A, T \cap B>> /\ f[T] \in P
  <2>1. ASSUME NEW T \in SUBSET C
        PROVE  f[T] = <<T \cap A, T \cap B>> /\ f[T] \in P
    <3>1. f[T] = <<T \cap A, T \cap B>>
      OBVIOUS
    <3>2. T \cap A \in SUBSET A /\ T \cap B \in SUBSET B
      OBVIOUS
    <3> HIDE DEF f
    <3>3. QED BY <3>1, <3>2
  <2>2. QED BY <2>1
<1>9. f \in [SUBSET C -> P]
  <2>1. f = [T \in SUBSET C |-> f[T]]
    OBVIOUS
  <2> HIDE DEF f, P
  <2>2. QED BY <1>8, <2>1
<1>10. ASSUME NEW T \in SUBSET C, NEW U \in SUBSET C, f[T] = f[U]
       PROVE  T = U
  <2> HIDE DEF f
  <2>1. T \cap A = U \cap A /\ T \cap B = U \cap B
    BY <1>8, <1>10
  <2>2. QED BY <1>3, <2>1
<1>11. ASSUME NEW x \in P
       PROVE  \E T \in SUBSET C : f[T] = x
  <2>1. PICK y \in SUBSET A, z \in SUBSET B : x = <<y, z>>
    OBVIOUS
  <2>2. y \cup z \in SUBSET C /\ (y \cup z) \cap A = y /\ (y \cup z) \cap B = z
    BY <1>3
  <2> HIDE DEF f
  <2>3. f[y \cup z] = x
    BY <1>8, <2>1, <2>2
  <2>4. QED BY <2>2, <2>3
<1> HIDE DEF f, P
<1>12. f \in Bijection(SUBSET C, P)
  BY <1>9, <1>10, <1>11, Fun_IsBij
<1>13. ExistsBijection(SUBSET C, P)
  BY <1>12, Fun_ExistsBij
<1>14. QED BY <1>6, <1>7, <1>13, FS_Bijection

\* A digit of a number, in a base of n.
LEMMA DigitRange ==
  ASSUME NEW h \in Nat, NEW m \in Nat \ {0}, NEW n \in Nat \ {0}
  PROVE  (h % (m * n)) \div m \in 0 .. (n - 1)
<1>1. m * n \in Nat \ {0}
  OBVIOUS
<1> DEFINE x == h % (m * n)
           q == x \div m
<1>2. x \in Nat /\ x < m * n
  BY <1>1
<1> HIDE DEF x
<1>3. q \in Nat /\ q * m <= x
  BY <1>2, Quotient
<1> HIDE DEF q
<1>4. ASSUME n <= q
      PROVE  FALSE
  <2>1. n * m <= q * m /\ n * m \in Nat /\ q * m \in Nat
    BY <1>3, <1>4, Products
  <2>2. m * n = n * m
    OBVIOUS
  <2>3. QED BY <1>1, <1>2, <1>3, <2>1, <2>2
<1>5. q < n
  BY <1>3, <1>4
<1>6. QED BY <1>3, <1>5 DEF q, x

\* As many numbers as names, if no two of the numbered things have the same name.
LEMMA ImageCardinality ==
  ASSUME NEW S, IsFiniteSet(S), NEW f,
         \A x, y \in S : f[x] = f[y] => x = y
  PROVE  /\ IsFiniteSet({f[x] : x \in S})
         /\ Cardinality({f[x] : x \in S}) = Cardinality(S)
<1> DEFINE T == {f[x] : x \in S}
           g == [x \in S |-> f[x]]
<1>1. g \in [S -> T] /\ \A x, y \in S : g[x] = g[y] => x = y
  OBVIOUS
<1>2. \A y \in T : \E x \in S : g[x] = y
  OBVIOUS
<1> HIDE DEF T, g
<1>3. g \in Bijection(S, T)
  BY <1>1, <1>2, Fun_IsBij
<1>4. ExistsBijection(S, T)
  BY <1>3, Fun_ExistsBij
<1>5. IsFiniteSet(T) /\ Cardinality(T) = Cardinality(S)
  BY <1>4, FS_Bijection
<1>6. QED BY <1>5 DEF T

\* If there are as many names as things, no two things share one.
LEMMA ImageInjective ==
  ASSUME NEW S, IsFiniteSet(S), NEW f, Cardinality({f[x] : x \in S}) = Cardinality(S)
  PROVE  \A x, y \in S : f[x] = f[y] => x = y
<1> DEFINE T == {f[x] : x \in S}
           g == [x \in S |-> f[x]]
<1>1. g \in [S -> T] /\ \A y \in T : \E x \in S : g[x] = y
  OBVIOUS
<1>2. \A x \in S : g[x] = f[x]
  OBVIOUS
<1>3. Cardinality(T) = Cardinality(S)
  OBVIOUS
<1> HIDE DEF T, g
<1>4. g \in Surjection(S, T)
  BY <1>1 DEF Surjection
<1>5. g \in Injection(S, T)
  BY <1>3, <1>4, FS_Surjection
<1>6. QED BY <1>2, <1>5 DEF Injection, IsInjective

\* The elements of two sets that have none in common.
LEMMA DisjointUnion ==
  ASSUME NEW S, NEW T, IsFiniteSet(S), IsFiniteSet(T), S \cap T = {}
  PROVE  /\ IsFiniteSet(S \cup T)
         /\ Cardinality(S \cup T) = Cardinality(S) + Cardinality(T)
         /\ Cardinality(S) \in Nat /\ Cardinality(T) \in Nat
<1>1. Cardinality(S \cap T) = 0
  BY FS_EmptySet
<1>2. Cardinality(S) \in Nat /\ Cardinality(T) \in Nat
  BY FS_CardinalityType
<1>3. /\ IsFiniteSet(S \cup T)
      /\ Cardinality(S \cup T) = Cardinality(S) + Cardinality(T) - Cardinality(S \cap T)
  BY FS_Union
<1>4. QED BY <1>1, <1>2, <1>3
================================================================================
