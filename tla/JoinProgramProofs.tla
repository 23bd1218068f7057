--------------------------- MODULE JoinProgramProofs ---------------------------
(***************************************************************************)
(* Proofs about the sequential program: the generators' data, and the      *)
(* results of the no-partitioning join and of the radix join, for every    *)
(* set of keys, every hash function, all parameters of the generators and  *)
(* relations of every size.  The module first says what the folds of the   *)
(* model compute (a table built tuple by tuple stores each tuple once, a   *)
(* probe finds each match once, the scatter puts each tuple at a place of  *)
(* its own), then what the generators make, and then shows that the        *)
(* invariant Inv is inductive: every match is in the result, or still to   *)
(* come, exactly as often as the calls owe it.                             *)
(***************************************************************************)
EXTENDS JoinProgram, BasicLemmas

--------------------------------------------------------------------------------
(* Folds.  The fold operators recurse over the subsets of a domain; what they    *)
(* choose exists because it can be built up from the empty set.                  *)

\* The greatest number of a non-empty interval is its end.
LEMMA MaxOf ==
  ASSUME NEW T, NEW m \in T, T \subseteq Int, \A x \in T : x <= m
  PROVE  Max(T) = m
<1>1. \E x \in T : \A y \in T : x >= y
  OBVIOUS
<1>2. Max(T) \in T /\ \A y \in T : Max(T) >= y
  BY <1>1 DEF Max
<1>3. Max(T) >= m /\ Max(T) <= m /\ Max(T) \in Int /\ m \in Int
  BY <1>2
<1>4. QED BY <1>3

\* A set of numbers up to n has a greatest.
LEMMA MaxIn ==
  ASSUME NEW n \in Nat, NEW T \in SUBSET (1 .. n), T # {}
  PROVE  Max(T) \in T
<1> DEFINE D == {n - x : x \in T}
<1>1. D \subseteq Nat /\ D # {}
  OBVIOUS
<1>2. PICK d \in D : \A e \in D : d <= e
  BY <1>1, LeastNumber
<1>3. PICK m \in T : d = n - m
  OBVIOUS
<1>4. \A x \in T : n - x \in D /\ x \in Int /\ m \in Int
  OBVIOUS
<1>5. ASSUME NEW x \in T
      PROVE  x <= m
  <2>1. n - m <= n - x
    BY <1>2, <1>3, <1>4
  <2>2. QED BY <1>4, <2>1
<1>6. QED BY <1>4, <1>5, MaxOf

\* A function on the sets of numbers up to n that applies G[i] for each element i of
\* a set, the least first.
Keeps(G, n, A) == \A i \in 1 .. n : \A a \in A : G[i][a] \in A
Iterates(h, G, n, A, base) ==
  /\ h \in [SUBSET (1 .. n) -> A]
  /\ \A s \in SUBSET (1 .. n) : h[s] = IF s = {} THEN base ELSE G[Max(s)][h[s \ {Max(s)}]]

\* There is such a function for every n: what FoldFunction chooses exists.
LEMMA Iterated ==
  ASSUME NEW n \in Nat, NEW A, NEW base \in A, NEW G, Keeps(G, n, A)
  PROVE  \E h : Iterates(h, G, n, A, base)
<1> USE DEF Keeps
<1> DEFINE Good(m, h) == \A s \in SUBSET (1 .. m) :
             h[s] = IF s = {} THEN base ELSE G[Max(s)][h[s \ {Max(s)}]]
           S == {m \in 0 .. n : \E h \in [SUBSET (1 .. m) -> A] : Good(m, h)}
<1>1. 0 \in S
  <2>1. [s \in SUBSET (1 .. 0) |-> base] \in [SUBSET (1 .. 0) -> A]
    OBVIOUS
  <2>2. Good(0, [s \in SUBSET (1 .. 0) |-> base])
    <3>1. 1 .. 0 = {}
      OBVIOUS
    <3>2. QED BY <3>1
  <2> HIDE DEF Good
  <2>3. QED BY <2>1, <2>2
<1>2. ASSUME NEW m \in 0 .. (n - 1), m \in S
      PROVE  m + 1 \in S
  <2>1. PICK h \in [SUBSET (1 .. m) -> A] : Good(m, h)
    BY <1>2
  <2> DEFINE g == [s \in SUBSET (1 .. (m + 1)) |->
                     IF m + 1 \in s THEN G[m + 1][h[s \ {m + 1}]] ELSE h[s]]
  <2>2. \A s \in SUBSET (1 .. (m + 1)) :
          IF m + 1 \in s THEN s \ {m + 1} \in SUBSET (1 .. m) ELSE s \in SUBSET (1 .. m)
    <3>1. \A x \in 1 .. (m + 1) : x = m + 1 \/ x \in 1 .. m
      OBVIOUS
    <3>2. QED BY <3>1
  <2>3. m + 1 \in 1 .. n /\ m + 1 \in 0 .. n
    BY SMT
  <2>4. g \in [SUBSET (1 .. (m + 1)) -> A]
    <3>1. ASSUME NEW s \in SUBSET (1 .. (m + 1))
          PROVE  (IF m + 1 \in s THEN G[m + 1][h[s \ {m + 1}]] ELSE h[s]) \in A
      <4>1. CASE m + 1 \in s
        <5>1. h[s \ {m + 1}] \in A
          BY <2>1, <2>2, <4>1
        <5>2. QED BY <2>3, <4>1, <5>1
      <4>2. CASE m + 1 \notin s
        BY <2>1, <2>2, <4>2
      <4>3. QED BY <4>1, <4>2
    <3>2. QED BY <3>1
  <2>5. Good(m + 1, g)
    <3> SUFFICES ASSUME NEW s \in SUBSET (1 .. (m + 1))
                 PROVE  g[s] = IF s = {} THEN base ELSE G[Max(s)][g[s \ {Max(s)}]]
      OBVIOUS
    <3>1. CASE m + 1 \in s
      <4>1. Max(s) = m + 1
        <5>1. s \subseteq Int /\ \A x \in s : x <= m + 1
          OBVIOUS
        <5>2. QED BY <3>1, <5>1, MaxOf
      <4>2. s \ {m + 1} \in SUBSET (1 .. (m + 1)) /\ m + 1 \notin s \ {m + 1}
        OBVIOUS
      <4>3. g[s \ {m + 1}] = h[s \ {m + 1}]
        BY <4>2
      <4>4. QED BY <3>1, <4>1, <4>3
    <3>2. CASE m + 1 \notin s
      <4>1. s \in SUBSET (1 .. m)
        BY <2>2, <3>2
      <4>2. h[s] = IF s = {} THEN base ELSE G[Max(s)][h[s \ {Max(s)}]]
        BY <2>1, <4>1
      <4>3. s \ {Max(s)} \in SUBSET (1 .. (m + 1)) /\ m + 1 \notin s \ {Max(s)}
        BY <3>2
      <4>4. g[s] = h[s] /\ g[s \ {Max(s)}] = h[s \ {Max(s)}]
        BY <3>2, <4>3
      <4>5. QED BY <4>2, <4>4
    <3>3. QED BY <3>1, <3>2
  <2> HIDE DEF Good, g
  <2>6. QED BY <2>3, <2>4, <2>5
<1>3. n \in S
  <2> HIDE DEF S
  <2>1. 0 .. n \subseteq S
    BY <1>1, <1>2, UpTo
  <2>2. QED BY <2>1
<1>4. QED BY <1>3 DEF Iterates

\* The last step up to k.
LEMMA LastStep ==
  ASSUME NEW k \in Nat \ {0}
  PROVE  /\ 1 .. k # {} /\ Max(1 .. k) = k /\ (1 .. k) \ {k} = 1 .. (k - 1)
<1>1. k \in 1 .. k /\ 1 .. k \subseteq Int /\ \A x \in 1 .. k : x <= k
  OBVIOUS
<1>2. Max(1 .. k) = k
  BY <1>1, MaxOf
<1>3. QED BY <1>1, <1>2

\* A sequence of values, each made from the one before.
Succeeds(h, G, n, A, base) ==
  h \in [0 .. n -> A] /\ h[0] = base /\ \A i \in 1 .. n : h[i] = G[i][h[i - 1]]

\* There is such a sequence for every n.
LEMMA Successive ==
  ASSUME NEW n \in Nat, NEW A, NEW base \in A, NEW G, Keeps(G, n, A)
  PROVE  \E h : Succeeds(h, G, n, A, base)
<1>0. PICK g : Iterates(g, G, n, A, base)
  BY Iterated
<1>1. /\ g \in [SUBSET (1 .. n) -> A]
      /\ \A s \in SUBSET (1 .. n) : g[s] = IF s = {} THEN base ELSE G[Max(s)][g[s \ {Max(s)}]]
  BY <1>0 DEF Iterates
<1> DEFINE h == [i \in 0 .. n |-> g[1 .. i]]
<1>2. \A i \in 0 .. n : 1 .. i \in SUBSET (1 .. n)
  OBVIOUS
<1>3. h \in [0 .. n -> A]
  BY <1>1, <1>2
<1>4. h[0] = base
  <2>1. 1 .. 0 = {} /\ 0 \in 0 .. n
    OBVIOUS
  <2>2. g[{}] = base
    BY <1>1
  <2>3. h[0] = g[1 .. 0]
    BY <2>1
  <2>4. QED BY <2>1, <2>2, <2>3
<1>5. ASSUME NEW i \in 1 .. n
      PROVE  h[i] = G[i][h[i - 1]]
  <2>1. 1 .. i # {} /\ Max(1 .. i) = i /\ (1 .. i) \ {i} = 1 .. (i - 1)
    <3>1. i \in Nat \ {0}
      OBVIOUS
    <3>2. QED BY <3>1, LastStep, Zenon
  <2>2. 1 .. i \in SUBSET (1 .. n) /\ i - 1 \in 0 .. n /\ i \in 0 .. n
    OBVIOUS
  <2>3. g[1 .. i] = G[i][g[1 .. (i - 1)]]
    BY <1>1, <2>1, <2>2
  <2>4. QED BY <2>2, <2>3
<1>6. QED
  <2> HIDE DEF h
  <2>1. QED BY <1>3, <1>4, <1>5 DEF Succeeds

\* FlattenSeq puts its sequences behind each other.
LEMMA FlattenSteps ==
  ASSUME NEW A, NEW ss \in Seq(Seq(A))
  PROVE  \E f \in [0 .. Len(ss) -> Seq(A)] :
           /\ f[0] = <<>> /\ f[Len(ss)] = FlattenSeq(ss)
           /\ \A i \in 1 .. Len(ss) : f[i] = f[i - 1] \o ss[i]
<1> DEFINE n == Len(ss)
           G == [i \in 1 .. n |-> [a \in Seq(A) |-> a \o ss[i]]]
<1>1. n \in Nat /\ \A i \in 1 .. n : ss[i] \in Seq(A)
  OBVIOUS
<1>2. <<>> \in Seq(A)
  OBVIOUS
<1>3. \A i \in 1 .. n, a \in Seq(A) : G[i][a] \in Seq(A)
  BY <1>1
<1>4. PICK f \in [0 .. n -> Seq(A)] : f[0] = <<>> /\ \A i \in 1 .. n : f[i] = G[i][f[i - 1]]
  <2> HIDE DEF G, n
  <2>1. Keeps(G, n, Seq(A))
    BY <1>3 DEF Keeps
  <2>2. \E f : Succeeds(f, G, n, Seq(A), <<>>)
    BY <1>1, <1>2, <2>1, Successive
  <2>3. QED BY <2>2 DEF Succeeds
<1>5. ASSUME NEW i \in 1 .. n
      PROVE  f[i] = f[i - 1] \o ss[i]
  <2>1. i - 1 \in 0 .. n
    BY <1>1
  <2>2. f[i - 1] \in Seq(A)
    BY <2>1
  <2>3. QED BY <1>4, <2>2
<1>6. f[n] = FlattenSeq(ss)
  <2>1. CASE n = 0
    <3>1. ss = <<>>
      BY <2>1
    <3>2. QED BY <1>4, <2>1, <3>1 DEF FlattenSeq
  <2>2. CASE n # 0
    <3> DEFINE E(g) == g = [i \in 1 .. n |-> IF i = 1 THEN ss[i] ELSE g[i - 1] \o ss[i]]
               g0 == [i \in 1 .. n |-> f[i]]
               c  == CHOOSE g : E(g)
    <3>1. E(g0)
      <4>1. ASSUME NEW i \in 1 .. n
            PROVE  f[i] = IF i = 1 THEN ss[i] ELSE g0[i - 1] \o ss[i]
        <5>1. CASE i = 1
          <6>1. f[1] = <<>> \o ss[1]
            <7>1. f[i] = f[i - 1] \o ss[i]
              BY <1>5, Zenon
            <7>2. i - 1 = 0
              BY <5>1
            <7>3. QED BY <1>4, <5>1, <7>1, <7>2
          <6>2. ss[1] \in Seq(A)
            BY <1>1, <5>1
          <6>3. QED BY <5>1, <6>1, <6>2
        <5>2. CASE i # 1
          <6>1. i - 1 \in 1 .. n
            BY <5>2
          <6>2. QED BY <1>5, <5>2, <6>1
        <5>3. QED BY <5>1, <5>2
      <4>2. QED BY <4>1
    <3>2. E(c)
      <4> HIDE DEF E
      <4>1. QED BY <3>1
    <3>3. FlattenSeq(ss) = c[n]
      BY <2>2 DEF FlattenSeq
    <3>4. \A i \in 1 .. n : c[i] = IF i = 1 THEN ss[i] ELSE c[i - 1] \o ss[i]
      <4> HIDE DEF c
      <4>1. QED BY <3>2
    <3> DEFINE S == {0} \cup {i \in 1 .. n : c[i] = f[i]}
    <3>5. 0 \in S
      OBVIOUS
    <3>6. ASSUME NEW i \in 0 .. (n - 1), i \in S
          PROVE  i + 1 \in S
      <4>1. i + 1 \in 1 .. n /\ (i + 1) - 1 = i
        BY <1>1
      <4>2. CASE i = 0
        <5> HIDE DEF c
        <5>1. c[1] = ss[1]
          BY <3>4, <4>1, <4>2
        <5>2. f[1] = <<>> \o ss[1] /\ ss[1] \in Seq(A)
          <6>1. i + 1 = 1 /\ 1 \in 1 .. n /\ 1 - 1 = 0
            BY <4>1, <4>2
          <6>2. f[1] = f[1 - 1] \o ss[1]
            BY <1>5, <6>1
          <6>3. QED BY <1>1, <1>4, <6>1, <6>2
        <5>3. QED BY <4>1, <4>2, <5>1, <5>2
      <4>3. CASE i # 0
        <5> HIDE DEF c
        <5>1. c[i] = f[i]
          BY <3>6, <4>3
        <5>2. c[i + 1] = c[i] \o ss[i + 1]
          <6>1. i + 1 # 1
            BY <4>3
          <6>2. QED BY <3>4, <4>1, <6>1
        <5>3. f[i + 1] = f[i] \o ss[i + 1]
          BY <1>5, <4>1
        <5>4. QED BY <4>1, <5>1, <5>2, <5>3
      <4>4. QED BY <4>2, <4>3
    <3>7. n \in S
      <4> HIDE DEF S, n
      <4>1. 0 .. n \subseteq S
        BY <1>1, <3>5, <3>6, UpTo
      <4>2. QED BY <1>1, <4>1
    <3>8. QED BY <2>2, <3>3, <3>7
  <2>3. QED BY <2>1, <2>2
<1>7. QED BY <1>4, <1>5, <1>6

--------------------------------------------------------------------------------
(* Sequences without repetition. *)

\* The elements of two sequences put together.
LEMMA Concatenated ==
  ASSUME NEW A, NEW s \in Seq(A), NEW t \in Seq(A)
  PROVE  /\ s \o t \in Seq(A) /\ Len(s \o t) = Len(s) + Len(t)
         /\ \A i \in DOMAIN s : i \in DOMAIN (s \o t) /\ (s \o t)[i] = s[i]
         /\ \A i \in DOMAIN t : /\ Len(s) + i \in DOMAIN (s \o t)
                                /\ (s \o t)[Len(s) + i] = t[i]
         /\ \A i \in DOMAIN (s \o t) :
              \/ i \in DOMAIN s
              \/ i \notin DOMAIN s /\ i - Len(s) \in DOMAIN t /\ (s \o t)[i] = t[i - Len(s)]
         /\ DOMAIN s = 1 .. Len(s) /\ DOMAIN t = 1 .. Len(t)
         /\ DOMAIN (s \o t) = 1 .. (Len(s) + Len(t))
<1>1. /\ Len(s) \in Nat /\ Len(t) \in Nat /\ Len(s \o t) = Len(s) + Len(t) /\ s \o t \in Seq(A)
      /\ DOMAIN s = 1 .. Len(s) /\ DOMAIN t = 1 .. Len(t)
      /\ DOMAIN (s \o t) = 1 .. (Len(s) + Len(t))
  OBVIOUS
<1>2. \A i \in 1 .. Len(s) : (s \o t)[i] = s[i]
  OBVIOUS
<1>3. \A i \in 1 .. Len(t) : (s \o t)[Len(s) + i] = t[i]
  OBVIOUS
<1>4. \A i \in 1 .. (Len(s) + Len(t)) : i \notin 1 .. Len(s) =>
        i - Len(s) \in 1 .. Len(t) /\ (s \o t)[i] = t[i - Len(s)]
  <2> SUFFICES ASSUME NEW i \in 1 .. (Len(s) + Len(t)), i \notin 1 .. Len(s)
               PROVE  i - Len(s) \in 1 .. Len(t) /\ (s \o t)[i] = t[i - Len(s)]
    OBVIOUS
  <2>1. i - Len(s) \in 1 .. Len(t) /\ Len(s) + (i - Len(s)) = i
    BY <1>1
  <2>2. QED BY <1>3, <2>1
<1>5. QED BY <1>1, <1>2, <1>3, <1>4

\* Two sequences without repetition and without a common element, put together.
LEMMA ConcatDistinct ==
  ASSUME NEW A, NEW s \in Seq(A), NEW t \in Seq(A),
         IsInjective(s), IsInjective(t), Range(s) \cap Range(t) = {}
  PROVE  IsInjective(s \o t) /\ Range(s \o t) = Range(s) \cup Range(t) /\ s \o t \in Seq(A)
<1> DEFINE u == s \o t
           m == Len(s)
<1>1. /\ u \in Seq(A)
      /\ \A i \in DOMAIN s : i \in DOMAIN u /\ u[i] = s[i]
      /\ \A i \in DOMAIN t : m + i \in DOMAIN u /\ u[m + i] = t[i]
      /\ \A i \in DOMAIN u :
           i \in DOMAIN s \/ (i \notin DOMAIN s /\ i - m \in DOMAIN t /\ u[i] = t[i - m])
  BY Concatenated
<1>2. m \in Nat /\ DOMAIN u \subseteq Int
  OBVIOUS
<1> HIDE DEF u, m
<1>3. Range(u) \subseteq Range(s) \cup Range(t)
  BY <1>1 DEF Range
<1>4. Range(s) \subseteq Range(u) /\ Range(t) \subseteq Range(u)
  BY <1>1 DEF Range
<1>5. ASSUME NEW i \in DOMAIN u, NEW j \in DOMAIN u, u[i] = u[j]
      PROVE  i = j
  <2>1. CASE i \in DOMAIN s /\ j \in DOMAIN s
    BY <1>1, <1>5, <2>1 DEF IsInjective
  <2>2. CASE i \notin DOMAIN s /\ j \notin DOMAIN s
    <3>1. i - m = j - m
      BY <1>1, <1>5, <2>2 DEF IsInjective
    <3>2. QED BY <1>2, <3>1
  <2>3. CASE i \in DOMAIN s /\ j \notin DOMAIN s
    BY <1>1, <1>5, <2>3 DEF Range
  <2>4. CASE i \notin DOMAIN s /\ j \in DOMAIN s
    <3>1. u[j] \in Range(s) /\ u[i] \in Range(t)
      BY <1>1, <2>4 DEF Range
    <3>2. QED BY <1>5, <3>1
  <2>5. QED BY <2>1, <2>2, <2>3, <2>4
<1>6. QED BY <1>1, <1>3, <1>4, <1>5 DEF IsInjective, u

\* Different sequences without repetition, put behind each other.
LEMMA FlattenDistinct ==
  ASSUME NEW A, NEW ss \in Seq(Seq(A)), \A i \in DOMAIN ss : IsInjective(ss[i]),
         \A i, j \in DOMAIN ss : i # j => Range(ss[i]) \cap Range(ss[j]) = {}
  PROVE  /\ FlattenSeq(ss) \in Seq(A) /\ IsInjective(FlattenSeq(ss))
         /\ Range(FlattenSeq(ss)) = UNION {Range(ss[i]) : i \in DOMAIN ss}
<1> DEFINE n == Len(ss)
           R(k) == UNION {Range(ss[i]) : i \in 1 .. k}
<1>1. n \in Nat /\ DOMAIN ss = 1 .. n /\ \A i \in 1 .. n : ss[i] \in Seq(A)
  OBVIOUS
<1>2. PICK f \in [0 .. n -> Seq(A)] :
        /\ f[0] = <<>> /\ f[n] = FlattenSeq(ss)
        /\ \A i \in 1 .. n : f[i] = f[i - 1] \o ss[i]
  BY FlattenSteps
<1> DEFINE S == {k \in 0 .. n : IsInjective(f[k]) /\ Range(f[k]) = R(k)}
<1> HIDE DEF n
<1>3. 0 \in S
  <2>1. IsInjective(<<>>) /\ Range(<<>>) = {}
    BY DEF IsInjective, Range
  <2>2. 1 .. 0 = {}
    OBVIOUS
  <2>3. R(0) = {}
    BY <2>2
  <2>4. QED BY <1>1, <1>2, <2>1, <2>3
<1>4. ASSUME NEW k \in 0 .. (n - 1), k \in S
      PROVE  k + 1 \in S
  <2>1. k + 1 \in 1 .. n /\ k + 1 \in 0 .. n /\ (k + 1) - 1 = k /\ k \in 0 .. n /\ k \in Nat
    BY <1>1
  <2>2. f[k + 1] = f[k] \o ss[k + 1] /\ f[k] \in Seq(A) /\ ss[k + 1] \in Seq(A)
    BY <1>1, <1>2, <2>1
  <2>3. IsInjective(f[k]) /\ Range(f[k]) = R(k) /\ IsInjective(ss[k + 1])
    BY <1>1, <1>4, <2>1
  <2>4. \A i \in 1 .. k : i \in 1 .. n /\ i # k + 1
    BY <1>1, <2>1
  <2>5. Range(f[k]) \cap Range(ss[k + 1]) = {}
    BY <1>1, <2>1, <2>3, <2>4
  <2>6. IsInjective(f[k + 1]) /\ Range(f[k + 1]) = R(k) \cup Range(ss[k + 1])
    BY <2>2, <2>3, <2>5, ConcatDistinct
  <2>7. 1 .. (k + 1) = (1 .. k) \cup {k + 1}
    BY <2>1
  <2>8. R(k + 1) = R(k) \cup Range(ss[k + 1])
    BY <2>7
  <2>9. QED BY <2>1, <2>6, <2>8
<1>5. n \in S
  <2> HIDE DEF S
  <2>1. 0 .. n \subseteq S
    BY <1>1, <1>3, <1>4, UpTo
  <2>2. QED BY <1>1, <2>1
<1>6. FlattenSeq(ss) \in Seq(A)
  BY <1>1, <1>2
<1>7. QED BY <1>1, <1>2, <1>5, <1>6

--------------------------------------------------------------------------------
(* Hash tables. *)

\* What a bucket stores in its places t1 and t2.
Rows == Tuple \cup {NoRow}

\* A bucket whose list has the nodes that its counter says.
Buckets ==
  {bk \in [count : Nat, t1 : Rows, t2 : Rows, next : Seq(Tuple)] :
     Len(bk.next) = IF bk.count < 2 THEN 0 ELSE bk.count - 2}
Tables(size) == [0 .. (size - 1) -> Buckets]

\* A bucket holds the tuples T, each of them once.
Stores(bk, T) ==
  /\ {Place(bk, i) : i \in 1 .. bk.count} = T
  /\ \A i, j \in 1 .. bk.count : Place(bk, i) = Place(bk, j) => i = j

\* A bucket's new tuple comes last; those before it stay where they are.
LEMMA InsertedPlaces ==
  ASSUME NEW bk \in Buckets, NEW t \in Tuple
  PROVE  /\ Inserted(bk, t) \in Buckets /\ Inserted(bk, t).count = bk.count + 1
         /\ Place(Inserted(bk, t), bk.count + 1) = t
         /\ \A i \in 1 .. bk.count : Place(Inserted(bk, t), i) = Place(bk, i)
<1> DEFINE n   == bk.count
           old == Stored(bk, t)
           new == Inserted(bk, t)
<1>1. /\ bk \in [count : Nat, t1 : Rows, t2 : Rows, next : Seq(Tuple)] /\ t \in Rows
      /\ n \in Nat /\ bk.next \in Seq(Tuple)
      /\ Len(bk.next) = IF n < 2 THEN 0 ELSE n - 2
  BY DEF Buckets, Rows
<1>2. /\ old \in [count : Nat, t1 : Rows, t2 : Rows, next : Seq(Tuple)] /\ old.count = n
      /\ Len(old.next) = IF n + 1 < 2 THEN 0 ELSE (n + 1) - 2
      /\ Place(old, n + 1) = t
      /\ \A i \in 1 .. n : Place(old, i) = Place(bk, i)
  <2>1. CASE n = 0
    <3>1. old = [bk EXCEPT !.t1 = t]
      BY <2>1 DEF Stored
    <3>2. QED BY <1>1, <2>1, <3>1 DEF Place
  <2>2. CASE n = 1
    <3>1. old = [bk EXCEPT !.t2 = t]
      BY <2>2 DEF Stored
    <3>2. QED BY <1>1, <2>2, <3>1 DEF Place
  <2>3. CASE n > 1
    <3> DEFINE tail == Append(bk.next, t)
    <3>1. SubSeq(bk.next, 1, n - 2) = bk.next
      BY <1>1, <2>3, SubSeqFull
    <3>2. old = [bk EXCEPT !.next = tail]
      <4>1. old = [bk EXCEPT !.next = Append(SubSeq(bk.next, 1, n - 2), t)]
        BY <1>1, <2>3 DEF Stored
      <4>2. QED BY <3>1, <4>1
    <3>3. /\ tail \in Seq(Tuple) /\ Len(tail) = n - 1 /\ tail[n - 1] = t
          /\ \A i \in 1 .. (n - 2) : tail[i] = bk.next[i]
      BY <1>1, <2>3, AppendProperties
    <3> HIDE DEF tail
    <3>4. /\ old \in [count : Nat, t1 : Rows, t2 : Rows, next : Seq(Tuple)]
          /\ old.count = n /\ old.next = tail /\ old.t1 = bk.t1 /\ old.t2 = bk.t2
      BY <1>1, <3>2, <3>3
    <3> HIDE DEF old
    <3>5. Place(old, n + 1) = t
      BY <1>1, <2>3, <3>3, <3>4 DEF Place
    <3>6. ASSUME NEW i \in 1 .. n
          PROVE  Place(old, i) = Place(bk, i)
      <4>1. CASE i <= 2
        BY <1>1, <3>4, <4>1 DEF Place
      <4>2. CASE i > 2
        <5>1. i - 2 \in 1 .. (n - 2) /\ i # 1 /\ i # 2
          BY <1>1, <4>2
        <5>2. QED BY <3>3, <3>4, <5>1 DEF Place
      <4>3. QED BY <1>1, <4>1, <4>2
    <3>7. QED BY <1>1, <2>3, <3>3, <3>4, <3>5, <3>6
  <2>4. QED BY <1>1, <2>1, <2>2, <2>3
<1>3. new = [old EXCEPT !.count = n + 1]
  BY <1>2 DEF Inserted
<1> HIDE DEF old
<1>4. /\ new \in [count : Nat, t1 : Rows, t2 : Rows, next : Seq(Tuple)]
      /\ new.count = n + 1 /\ new.next = old.next /\ new.t1 = old.t1 /\ new.t2 = old.t2
  BY <1>1, <1>2, <1>3
<1> HIDE DEF new
<1>5. \A i : Place(new, i) = Place(old, i)
  BY <1>4 DEF Place
<1>6. new \in Buckets
  BY <1>1, <1>2, <1>4 DEF Buckets, Rows
<1>7. QED BY <1>2, <1>4, <1>5, <1>6 DEF new

\* Inserting a tuple that a bucket does not hold: it then holds that tuple too, once.
LEMMA InsertedStores ==
  ASSUME NEW bk \in Buckets, NEW T, Stores(bk, T), NEW t \in Tuple, t \notin T
  PROVE  Stores(Inserted(bk, t), T \cup {t})
<1> DEFINE n   == bk.count
           new == Inserted(bk, t)
<1>1. /\ n \in Nat /\ new.count = n + 1 /\ Place(new, n + 1) = t
      /\ \A i \in 1 .. n : Place(new, i) = Place(bk, i)
  BY InsertedPlaces DEF Buckets
<1>2. /\ {Place(bk, i) : i \in 1 .. n} = T
      /\ \A i, j \in 1 .. n : Place(bk, i) = Place(bk, j) => i = j
  BY DEF Stores
<1> HIDE DEF new, n
<1>3. 1 .. (n + 1) = (1 .. n) \cup {n + 1}
  BY <1>1
<1>4. {Place(new, i) : i \in 1 .. (n + 1)} = T \cup {t}
  BY <1>1, <1>2, <1>3
<1>5. \A i \in 1 .. n : Place(new, i) # t
  BY <1>1, <1>2
<1>6. \A i, j \in 1 .. (n + 1) : Place(new, i) = Place(new, j) => i = j
  BY <1>1, <1>2, <1>3, <1>5
<1>7. QED BY <1>1, <1>4, <1>6 DEF Stores, new

\* A new bucket holds nothing.
LEMMA EmptyStores == EmptyBucket \in Buckets /\ Stores(EmptyBucket, {})
<1>1. <<>> \in Seq(Tuple) /\ Len(<<>>) = 0
  OBVIOUS
<1>2. EmptyBucket \in Buckets
  BY <1>1 DEF EmptyBucket, Buckets, Rows
<1>3. 1 .. EmptyBucket.count = {}
  BY DEF EmptyBucket
<1>4. QED BY <1>2, <1>3 DEF Stores

\* A relation with a tuple has a table with a bucket.
LEMMA SizeOf ==
  ASSUME NEW n \in Nat \ {0}
  PROVE  TableSize(n) \in Nat \ {0}
BY DEF TableSize

\* The number of a tuple's bucket in a table of that size.
Slot(t, size) == Hash[t[1]] % size

\* A table of that size has such a bucket.
LEMMA IndexIs ==
  ASSUME NEW size \in Nat \ {0}, NEW table \in Tables(size), NEW t \in Tuple
  PROVE  /\ Index(t, table) = Slot(t, size) /\ Slot(t, size) \in 0 .. (size - 1)
<1>1. DOMAIN table = 0 .. (0 + size - 1)
  BY DEF Tables
<1>2. Cardinality(DOMAIN table) = size
  BY <1>1, IntervalSize
<1>3. Hash[t[1]] \in Nat
  BY HashAssumption DEF Tuple
<1>4. Slot(t, size) \in 0 .. (size - 1)
  BY <1>3 DEF Slot
<1>5. QED BY <1>2, <1>4 DEF Index, Slot

\* Insert changes the tuple's bucket and no other one.
LEMMA InsertIs ==
  ASSUME NEW size \in Nat \ {0}, NEW table \in Tables(size), NEW t \in Tuple
  PROVE  /\ Insert(table, t) \in Tables(size)
         /\ Insert(table, t)[Slot(t, size)] = Inserted(table[Slot(t, size)], t)
         /\ \A b \in 0 .. (size - 1) : b # Slot(t, size) => Insert(table, t)[b] = table[b]
<1>1. Index(t, table) = Slot(t, size) /\ Slot(t, size) \in 0 .. (size - 1)
  BY IndexIs
<1>2. table[Slot(t, size)] \in Buckets
  BY <1>1 DEF Tables
<1>3. Inserted(table[Slot(t, size)], t) \in Buckets
  BY <1>2, InsertedPlaces
<1>4. Insert(table, t) = [table EXCEPT ![Slot(t, size)] = Inserted(table[Slot(t, size)], t)]
  BY <1>1 DEF Insert
<1>5. QED BY <1>1, <1>3, <1>4 DEF Tables

\* The table after each of the insertions.
LEMMA BuiltSteps ==
  ASSUME NEW left \in Seq(Tuple), left # <<>>
  PROVE  \E h \in [0 .. Len(left) -> Tables(TableSize(Len(left)))] :
           /\ h[0] = EmptyTable(TableSize(Len(left))) /\ h[Len(left)] = BuiltTable(left)
           /\ \A i \in 1 .. Len(left) : h[i] = Insert(h[i - 1], left[i])
<1> DEFINE n    == Len(left)
           size == TableSize(n)
           A    == Tables(size)
           base == EmptyTable(size)
           G    == [i \in 1 .. n |-> [a \in A |-> Insert(a, left[i])]]
           E(g) == g = [s \in SUBSET (1 .. n) |->
                          IF s = {} THEN base ELSE Insert(g[s \ {Max(s)}], left[Max(s)])]
           c    == CHOOSE g : E(g)
<1>1. /\ n \in Nat \ {0} /\ DOMAIN left = 1 .. n /\ size \in Nat \ {0}
      /\ \A i \in 1 .. n : left[i] \in Tuple
  BY SizeOf
<1>2. base \in A
  BY EmptyStores DEF EmptyTable, Tables
<1>3. BuiltTable(left) = c[1 .. n]
  BY <1>1 DEF BuiltTable, FoldLeft, MapThenFoldSet
<1> HIDE DEF n, size, A, base
<1>4. \A i \in 1 .. n : \A a \in A : Insert(a, left[i]) \in A
  BY <1>1, InsertIs DEF A
<1>5. Keeps(G, n, A)
  BY <1>4 DEF Keeps
<1>6. PICK h : Iterates(h, G, n, A, base)
  <2> HIDE DEF G
  <2>1. QED BY <1>1, <1>2, <1>5, Iterated
<1>7. E(h)
  <2>1. h \in [SUBSET (1 .. n) -> A]
    BY <1>6 DEF Iterates
  <2>2. ASSUME NEW s \in SUBSET (1 .. n)
        PROVE  h[s] = IF s = {} THEN base ELSE Insert(h[s \ {Max(s)}], left[Max(s)])
    <3>1. CASE s = {}
      BY <1>6, <3>1 DEF Iterates
    <3>2. CASE s # {}
      <4>1. Max(s) \in 1 .. n
        BY <1>1, <3>2, MaxIn
      <4>2. h[s] = G[Max(s)][h[s \ {Max(s)}]]
        BY <1>6, <3>2 DEF Iterates
      <4>3. h[s \ {Max(s)}] \in A
        <5>1. s \ {Max(s)} \in SUBSET (1 .. n)
          OBVIOUS
        <5>2. QED BY <2>1, <5>1
      <4>4. QED BY <3>2, <4>1, <4>2, <4>3
    <3>3. QED BY <3>1, <3>2
  <2>3. QED BY <2>1, <2>2
<1>8. E(c)
  <2> HIDE DEF E
  <2>1. QED BY <1>7
<1>9. \A s \in SUBSET (1 .. n) :
        c[s] = IF s = {} THEN base ELSE Insert(c[s \ {Max(s)}], left[Max(s)])
  <2> HIDE DEF c
  <2>1. QED BY <1>8
<1> HIDE DEF c, E, G
<1> DEFINE S == {k \in 0 .. n : c[1 .. k] \in A}
<1>10. c[1 .. 0] = base
  <2>1. 1 .. 0 = {}
    OBVIOUS
  <2>2. QED BY <1>9, <2>1
<1>11. \A k \in 1 .. n : c[1 .. k] = Insert(c[1 .. (k - 1)], left[k])
  <2> SUFFICES ASSUME NEW k \in 1 .. n
               PROVE  c[1 .. k] = Insert(c[1 .. (k - 1)], left[k])
    OBVIOUS
  <2>1. k \in Nat \ {0} /\ 1 .. k \in SUBSET (1 .. n)
    BY <1>1
  <2>2. 1 .. k # {} /\ Max(1 .. k) = k /\ (1 .. k) \ {k} = 1 .. (k - 1)
    BY <2>1, LastStep, Zenon
  <2>3. QED BY <1>9, <2>1, <2>2
<1>12. 0 \in S
  BY <1>1, <1>2, <1>10
<1>13. ASSUME NEW k \in 0 .. (n - 1), k \in S
       PROVE  k + 1 \in S
  <2>1. k + 1 \in 1 .. n /\ (k + 1) - 1 = k /\ k + 1 \in 0 .. n
    BY <1>1
  <2>2. c[1 .. (k + 1)] = Insert(c[1 .. k], left[k + 1])
    BY <1>11, <2>1
  <2>3. QED BY <1>4, <1>13, <2>1, <2>2
<1>14. 0 .. n \subseteq S
  <2> HIDE DEF S
  <2>1. QED BY <1>1, <1>12, <1>13, UpTo
<1> DEFINE t == [k \in 0 .. n |-> c[1 .. k]]
<1>15. t \in [0 .. n -> A] /\ t[0] = base /\ t[n] = c[1 .. n]
  BY <1>1, <1>10, <1>14
<1>16. \A k \in 1 .. n : t[k] = Insert(t[k - 1], left[k])
  <2> SUFFICES ASSUME NEW k \in 1 .. n
               PROVE  t[k] = Insert(t[k - 1], left[k])
    OBVIOUS
  <2>1. k \in 0 .. n /\ k - 1 \in 0 .. n
    BY <1>1
  <2>2. QED BY <1>11, <2>1
<1>17. QED
  <2> HIDE DEF t
  <2>1. QED BY <1>3, <1>15, <1>16 DEF n, size, A, base

\* No two tuples of a relation have the same row id.
OwnRows(r) == \A i, j \in DOMAIN r : r[i][2] = r[j][2] => i = j

\* The tuples among the first k that belong into bucket b.
InSlot(left, k, b) ==
  {left[i] : i \in {j \in 1 .. k : Slot(left[j], TableSize(Len(left))) = b}}

\* Every tuple of the relation is in its bucket once, and nothing else is.
LEMMA TableStores ==
  ASSUME NEW left \in Seq(Tuple), left # <<>>, OwnRows(left)
  PROVE  /\ BuiltTable(left) \in Tables(TableSize(Len(left)))
         /\ \A b \in 0 .. (TableSize(Len(left)) - 1) :
              Stores(BuiltTable(left)[b], InSlot(left, Len(left), b))
<1> DEFINE n    == Len(left)
           size == TableSize(n)
           Good(table, k) == \A b \in 0 .. (size - 1) : Stores(table[b], InSlot(left, k, b))
<1>1. /\ n \in Nat \ {0} /\ DOMAIN left = 1 .. n /\ size \in Nat \ {0}
      /\ \A i \in 1 .. n : left[i] \in Tuple
  BY SizeOf
<1>2. PICK h \in [0 .. n -> Tables(size)] :
        /\ h[0] = EmptyTable(size) /\ h[n] = BuiltTable(left)
        /\ \A i \in 1 .. n : h[i] = Insert(h[i - 1], left[i])
  BY BuiltSteps
<1>3. \A k \in Nat : \A b :
        InSlot(left, k, b) = {left[i] : i \in {j \in 1 .. k : Slot(left[j], size) = b}}
  BY DEF InSlot
<1> DEFINE S == {k \in 0 .. n : Good(h[k], k)}
<1> HIDE DEF n, size
<1>4. 0 \in S
  <2>1. 1 .. 0 = {}
    OBVIOUS
  <2>2. \A b : InSlot(left, 0, b) = {}
    BY <1>3, <2>1
  <2>3. \A b \in 0 .. (size - 1) : h[0][b] = EmptyBucket
    BY <1>2 DEF EmptyTable
  <2>4. QED BY <1>1, <2>2, <2>3, EmptyStores
<1>5. ASSUME NEW k \in 0 .. (n - 1), k \in S
      PROVE  k + 1 \in S
  <2> DEFINE t == left[k + 1]
             q == Slot(t, size)
  <2>1. k + 1 \in 1 .. n /\ (k + 1) - 1 = k /\ k + 1 \in 0 .. n /\ k \in 0 .. n /\ k \in Nat
    BY <1>1
  <2>2. h[k + 1] = Insert(h[k], t) /\ h[k] \in Tables(size) /\ t \in Tuple
    BY <1>1, <1>2, <2>1
  <2>3. /\ h[k + 1][q] = Inserted(h[k][q], t) /\ q \in 0 .. (size - 1)
        /\ \A b \in 0 .. (size - 1) : b # q => h[k + 1][b] = h[k][b]
    <3> HIDE DEF t
    <3>1. Slot(t, size) \in 0 .. (size - 1)
      BY <1>1, <2>2, IndexIs
    <3>2. /\ Insert(h[k], t)[Slot(t, size)] = Inserted(h[k][Slot(t, size)], t)
          /\ \A b \in 0 .. (size - 1) : b # Slot(t, size) => Insert(h[k], t)[b] = h[k][b]
      BY <1>1, <2>2, InsertIs
    <3>3. QED BY <2>2, <3>1, <3>2
  <2>4. 1 .. (k + 1) = (1 .. k) \cup {k + 1}
    BY <2>1
  <2>5. ASSUME NEW b \in 0 .. (size - 1)
        PROVE  InSlot(left, k + 1, b) = InSlot(left, k, b) \cup (IF b = q THEN {t} ELSE {})
    BY <1>3, <2>1, <2>4
  <2>6. \A b : t \notin InSlot(left, k, b)
    <3> SUFFICES ASSUME NEW i \in 1 .. k, left[i] = t
                 PROVE  FALSE
      BY <1>3, <2>1
    <3>1. i \in 1 .. n /\ i # k + 1
      BY <1>1, <2>1
    <3>2. QED BY <1>1, <2>1, <3>1 DEF OwnRows
  <2>7. ASSUME NEW b \in 0 .. (size - 1)
        PROVE  Stores(h[k + 1][b], InSlot(left, k + 1, b))
    <3>1. Stores(h[k][b], InSlot(left, k, b)) /\ h[k][b] \in Buckets
      BY <1>5, <2>2 DEF Tables
    <3>2. CASE b = q
      <4>1. InSlot(left, k + 1, b) = InSlot(left, k, b) \cup {t}
        BY <2>5, <3>2
      <4>2. Stores(Inserted(h[k][b], t), InSlot(left, k, b) \cup {t})
        BY <2>2, <2>6, <3>1, InsertedStores
      <4>3. QED BY <2>3, <3>2, <4>1, <4>2
    <3>3. CASE b # q
      <4>1. InSlot(left, k + 1, b) = InSlot(left, k, b)
        BY <2>5, <3>3
      <4>2. QED BY <2>3, <3>1, <3>3, <4>1
    <3>4. QED BY <3>2, <3>3
  <2>8. QED BY <2>1, <2>7
<1>6. n \in S
  <2> HIDE DEF S
  <2>1. 0 .. n \subseteq S
    BY <1>1, <1>4, <1>5, UpTo
  <2>2. QED BY <1>1, <2>1
<1>7. Good(BuiltTable(left), n) /\ BuiltTable(left) \in Tables(size)
  BY <1>1, <1>2, <1>6
<1>8. QED BY <1>7 DEF n, size

--------------------------------------------------------------------------------
(* Probing. *)

\* Every place of a bucket is looked at once.
LEMMA ProbesAll ==
  ASSUME NEW n \in Nat
  PROVE  /\ DOMAIN ProbeOrder(n) = 1 .. n
         /\ \A i \in 1 .. n : ProbeOrder(n)[i] \in 1 .. n
         /\ \A i, j \in 1 .. n : ProbeOrder(n)[i] = ProbeOrder(n)[j] => i = j
         /\ \A k \in 1 .. n : \E i \in 1 .. n : ProbeOrder(n)[i] = k
<1>1. /\ DOMAIN ProbeOrder(n) = 1 .. n
      /\ \A i \in 1 .. n : ProbeOrder(n)[i] = IF i + 2 <= n THEN i + 2 ELSE n + 1 - i
  BY DEF ProbeOrder
<1>2. ASSUME NEW k \in 1 .. n
      PROVE  \E i \in 1 .. n : ProbeOrder(n)[i] = k
  <2>1. CASE k > 2
    <3>1. k - 2 \in 1 .. n /\ (k - 2) + 2 <= n /\ (k - 2) + 2 = k
      BY <2>1
    <3>2. QED BY <1>1, <3>1
  <2>2. CASE k <= 2
    <3>1. n + 1 - k \in 1 .. n /\ ~ ((n + 1 - k) + 2 <= n) /\ n + 1 - (n + 1 - k) = k
      BY <2>2
    <3>2. QED BY <1>1, <3>1
  <2>3. QED BY <2>1, <2>2
<1>3. \A i \in 1 .. n : ProbeOrder(n)[i] \in 1 .. n
  BY <1>1
<1>4. \A i, j \in 1 .. n : ProbeOrder(n)[i] = ProbeOrder(n)[j] => i = j
  BY <1>1
<1>5. QED BY <1>1, <1>2, <1>3, <1>4

\* Sequences with at most one element.
LEMMA OneElement ==
  ASSUME NEW A, NEW a \in A
  PROVE  <<a>> \in Seq(A) /\ <<>> \in Seq(A)
OBVIOUS

\* A function on 1 .. n is a sequence.
LEMMA SequenceOf ==
  ASSUME NEW A, NEW n \in Nat, NEW s, s = [i \in 1 .. n |-> s[i]], \A i \in 1 .. n : s[i] \in A
  PROVE  s \in Seq(A) /\ DOMAIN s = 1 .. n /\ Len(s) = n
OBVIOUS

\* Sequences with at most one element do not repeat it.
LEMMA OneMatch ==
  ASSUME NEW m
  PROVE  IsInjective(<<m>>) /\ Range(<<m>>) = {m} /\ IsInjective(<<>>) /\ Range(<<>>) = {}
BY DEF IsInjective, Range

\* Probing a bucket finds each tuple with the same key once.
LEMMA HitsAre ==
  ASSUME NEW bk \in Buckets, NEW T \in SUBSET Tuple, Stores(bk, T), NEW t \in Tuple
  PROVE  /\ Hits(bk, t) \in Seq(Triple) /\ IsInjective(Hits(bk, t))
         /\ Range(Hits(bk, t)) = {<<t[1], l[2], t[2]>> : l \in {x \in T : x[1] = t[1]}}
<1> DEFINE n     == bk.count
           found == [i \in 1 .. n |-> Place(bk, ProbeOrder(n)[i])]
           match(l) == <<t[1], l[2], t[2]>>
           ss    == [i \in 1 .. n |-> IF found[i][1] = t[1] THEN <<match(found[i])>> ELSE <<>>]
<1>1. n \in Nat
  BY DEF Buckets
<1>2. Hits(bk, t) = FlattenSeq(ss)
  <2>1. DOMAIN ProbeOrder(bk.count) = 1 .. n /\ DOMAIN found = 1 .. n
    BY <1>1, ProbesAll
  <2>2. QED BY <2>1 DEF Hits
<1>3. /\ \A i \in 1 .. n : found[i] \in T
      /\ \A i, j \in 1 .. n : found[i] = found[j] => i = j
      /\ \A l \in T : \E i \in 1 .. n : found[i] = l
  <2>1. /\ {Place(bk, i) : i \in 1 .. n} = T
        /\ \A i, j \in 1 .. n : Place(bk, i) = Place(bk, j) => i = j
    BY DEF Stores
  <2>2. /\ \A i \in 1 .. n : ProbeOrder(n)[i] \in 1 .. n
        /\ \A i, j \in 1 .. n : ProbeOrder(n)[i] = ProbeOrder(n)[j] => i = j
        /\ \A k \in 1 .. n : \E i \in 1 .. n : ProbeOrder(n)[i] = k
    BY <1>1, ProbesAll
  <2> HIDE DEF n
  <2>3. \A i \in 1 .. n : found[i] \in T
    BY <2>1, <2>2
  <2>4. \A i, j \in 1 .. n : found[i] = found[j] => i = j
    BY <2>1, <2>2
  <2>5. \A l \in T : \E i \in 1 .. n : found[i] = l
    BY <2>1, <2>2
  <2>6. QED BY <2>3, <2>4, <2>5
<1>4. \A l \in T : match(l) \in Triple /\ l = <<l[1], l[2]>>
  BY DEF Triple, Tuple
<1>5. \A l, m \in T : l[1] = t[1] /\ m[1] = t[1] /\ match(l) = match(m) => l = m
  <2> SUFFICES ASSUME NEW l \in T, NEW m \in T, l[1] = t[1], m[1] = t[1], match(l) = match(m)
               PROVE  l = m
    OBVIOUS
  <2>1. l[2] = m[2]
    OBVIOUS
  <2>2. QED BY <1>4, <2>1
<1> HIDE DEF n, found, match
<1>6. \A i \in 1 .. n : ss[i] \in Seq(Triple) /\ IsInjective(ss[i])
  <2> SUFFICES ASSUME NEW i \in 1 .. n
               PROVE  ss[i] \in Seq(Triple) /\ IsInjective(ss[i])
    OBVIOUS
  <2>1. match(found[i]) \in Triple
    BY <1>3, <1>4
  <2>2. <<match(found[i])>> \in Seq(Triple) /\ <<>> \in Seq(Triple)
    BY <2>1, OneElement
  <2>3. QED BY <2>2, OneMatch
<1>7. \A i \in 1 .. n : Range(ss[i]) = IF found[i][1] = t[1] THEN {match(found[i])} ELSE {}
  BY OneMatch
<1>8. ss \in Seq(Seq(Triple)) /\ DOMAIN ss = 1 .. n
  <2>1. ss = [i \in 1 .. n |-> ss[i]]
    OBVIOUS
  <2> HIDE DEF ss
  <2>2. QED BY <1>1, <1>6, <2>1, SequenceOf
<1>9. \A i, j \in DOMAIN ss : i # j => Range(ss[i]) \cap Range(ss[j]) = {}
  <2> SUFFICES ASSUME NEW i \in 1 .. n, NEW j \in 1 .. n, i # j,
                      NEW m \in Range(ss[i]), m \in Range(ss[j])
               PROVE  FALSE
    BY <1>8
  <2> HIDE DEF ss
  <2>1. /\ found[i][1] = t[1] /\ m = match(found[i])
        /\ found[j][1] = t[1] /\ m = match(found[j])
    BY <1>7
  <2>2. found[i] = found[j]
    BY <1>3, <1>5, <2>1
  <2>3. QED BY <1>3, <2>2
<1>10. \A i \in DOMAIN ss : IsInjective(ss[i])
  BY <1>6, <1>8
<1> DEFINE R == UNION {Range(ss[i]) : i \in DOMAIN ss}
<1> HIDE DEF ss
<1>11. FlattenSeq(ss) \in Seq(Triple) /\ IsInjective(FlattenSeq(ss)) /\ Range(FlattenSeq(ss)) = R
  BY <1>8, <1>9, <1>10, FlattenDistinct
<1>12. R = {match(l) : l \in {x \in T : x[1] = t[1]}}
  <2>1. ASSUME NEW m \in R
        PROVE  \E l \in T : l[1] = t[1] /\ m = match(l)
    <3>1. PICK i \in 1 .. n : m \in Range(ss[i])
      BY <1>8
    <3>2. found[i][1] = t[1] /\ m = match(found[i])
      BY <1>7, <3>1
    <3>3. QED BY <1>3, <3>2
  <2>2. ASSUME NEW l \in T, l[1] = t[1]
        PROVE  match(l) \in R
    <3>1. PICK i \in 1 .. n : found[i] = l
      BY <1>3
    <3>2. match(l) \in Range(ss[i])
      BY <1>7, <2>2, <3>1
    <3>3. QED BY <1>8, <3>2
  <2> HIDE DEF R
  <2>3. QED BY <2>1, <2>2
<1>13. QED BY <1>2, <1>11, <1>12 DEF match

\* The matches of one right tuple.
MatchesOf(left, t) == {<<t[1], l[2], t[2]>> : l \in {x \in Range(left) : x[1] = t[1]}}

\* The matches of two relations are those of each right tuple.
LEMMA MatchesAre ==
  ASSUME NEW left \in Seq(Tuple), NEW right \in Seq(Tuple)
  PROVE  /\ Matches(left, right) = UNION {MatchesOf(left, right[j]) : j \in DOMAIN right}
         /\ Matches(left, right) \subseteq Triple
<1> DEFINE U == UNION {MatchesOf(left, right[j]) : j \in DOMAIN right}
<1>0. /\ \A i \in DOMAIN left : left[i] \in Tuple
      /\ \A j \in DOMAIN right : right[j] \in Tuple
  OBVIOUS
<1>1. ASSUME NEW m \in Matches(left, right)
      PROVE  m \in U /\ m \in Triple
  <2>1. PICK p \in (DOMAIN left) \X (DOMAIN right) :
          /\ left[p[1]][1] = right[p[2]][1]
          /\ m = <<left[p[1]][1], left[p[1]][2], right[p[2]][2]>>
    BY DEF Matches
  <2>2. p[1] \in DOMAIN left /\ p[2] \in DOMAIN right
    OBVIOUS
  <2>3. left[p[1]] \in Range(left)
    BY <2>2 DEF Range
  <2>4. m \in MatchesOf(left, right[p[2]])
    BY <2>1, <2>3 DEF MatchesOf
  <2>5. m \in Triple
    BY <1>0, <2>1, <2>2 DEF Tuple, Triple
  <2>6. QED BY <2>2, <2>4, <2>5
<1>2. ASSUME NEW m \in U
      PROVE  m \in Matches(left, right)
  <2>1. PICK j \in DOMAIN right : m \in MatchesOf(left, right[j])
    OBVIOUS
  <2>2. PICK l \in Range(left) : l[1] = right[j][1] /\ m = <<right[j][1], l[2], right[j][2]>>
    BY <2>1 DEF MatchesOf
  <2>3. PICK i \in DOMAIN left : l = left[i]
    BY DEF Range
  <2> DEFINE p == <<i, j>>
  <2>4. p \in (DOMAIN left) \X (DOMAIN right) /\ p[1] = i /\ p[2] = j
    OBVIOUS
  <2> HIDE DEF p
  <2>5. QED BY <2>2, <2>3, <2>4 DEF Matches
<1>3. QED BY <1>1, <1>2

\* execute() of a nop_join finds every match once.
LEMMA OutputExact ==
  ASSUME NEW left \in Seq(Tuple), NEW right \in Seq(Tuple), OwnRows(left), OwnRows(right)
  PROVE  /\ Output(left, right) \in Seq(Triple) /\ IsInjective(Output(left, right))
         /\ Range(Output(left, right)) = Matches(left, right)
<1>1. CASE left = <<>> \/ right = <<>>
  <2>1. Output(left, right) = <<>>
    BY <1>1 DEF Output
  <2>2. Matches(left, right) = {}
    <3>1. DOMAIN left = {} \/ DOMAIN right = {}
      BY <1>1
    <3>2. QED BY <3>1 DEF Matches
  <2>3. <<>> \in Seq(Triple)
    OBVIOUS
  <2>4. QED BY <2>1, <2>2, <2>3, OneMatch
<1>2. CASE left # <<>> /\ right # <<>>
  <2> DEFINE n     == Len(left)
             size  == TableSize(n)
             table == BuiltTable(left)
             ss    == [j \in DOMAIN right |-> Hits(table[Index(right[j], table)], right[j])]
  <2>1. Output(left, right) = FlattenSeq(ss)
    BY <1>2 DEF Output, Probe
  <2>2. n \in Nat \ {0} /\ size \in Nat \ {0} /\ DOMAIN left = 1 .. n
    BY <1>2, SizeOf
  <2>3. table \in Tables(size) /\ \A b \in 0 .. (size - 1) : Stores(table[b], InSlot(left, n, b))
    BY <1>2, TableStores
  <2>4. /\ Len(right) \in Nat /\ DOMAIN right = 1 .. Len(right)
        /\ \A j \in DOMAIN right : right[j] \in Tuple
    OBVIOUS
  <2>5. /\ \A i \in 1 .. n : left[i] \in Tuple
        /\ \A b : InSlot(left, n, b) = {left[i] : i \in {j \in 1 .. n : Slot(left[j], size) = b}}
    BY <2>2 DEF InSlot
  <2> HIDE DEF n, size, table, ss
  <2>6. ASSUME NEW j \in DOMAIN right
        PROVE  /\ ss[j] \in Seq(Triple) /\ IsInjective(ss[j])
               /\ Range(ss[j]) = MatchesOf(left, right[j])
    <3> DEFINE t == right[j]
               b == Slot(t, size)
               T == InSlot(left, n, b)
    <3>1. t \in Tuple
      BY <2>4
    <3>2. Index(t, table) = b /\ b \in 0 .. (size - 1)
      BY <2>2, <2>3, <3>1, IndexIs
    <3>3. table[b] \in Buckets /\ Stores(table[b], T) /\ T \subseteq Tuple
      BY <2>3, <2>5, <3>2 DEF Tables
    <3>4. ss[j] = Hits(table[b], t)
      BY <3>2 DEF ss
    <3> HIDE DEF t, b, T
    <3>5. /\ Hits(table[b], t) \in Seq(Triple) /\ IsInjective(Hits(table[b], t))
          /\ Range(Hits(table[b], t)) = {<<t[1], l[2], t[2]>> : l \in {x \in T : x[1] = t[1]}}
      BY <3>1, <3>3, HitsAre
    <3>6. {x \in T : x[1] = t[1]} = {x \in Range(left) : x[1] = t[1]}
      <4>1. T \subseteq Range(left)
        BY <2>2, <2>5 DEF T, Range
      <4>2. ASSUME NEW x \in Range(left), x[1] = t[1]
            PROVE  x \in T
        <5>1. PICK i \in 1 .. n : x = left[i]
          BY <2>2 DEF Range
        <5>2. Slot(left[i], size) = b
          BY <4>2, <5>1 DEF Slot, b
        <5>3. QED BY <2>5, <5>1, <5>2 DEF T
      <4>3. QED BY <4>1, <4>2
    <3>7. QED BY <3>4, <3>5, <3>6 DEF MatchesOf, t
  <2>7. ss \in Seq(Seq(Triple)) /\ DOMAIN ss = DOMAIN right
    <3>1. ss = [j \in 1 .. Len(right) |-> ss[j]]
      BY <2>4 DEF ss
    <3>2. QED BY <2>4, <2>6, <3>1, SequenceOf
  <2>8. \A i, j \in DOMAIN ss : i # j => Range(ss[i]) \cap Range(ss[j]) = {}
    <3> SUFFICES ASSUME NEW i \in DOMAIN ss, NEW j \in DOMAIN ss, i # j,
                        NEW m \in Range(ss[i]), m \in Range(ss[j])
                 PROVE  FALSE
      OBVIOUS
    <3>1. m \in MatchesOf(left, right[i]) /\ m \in MatchesOf(left, right[j])
      BY <2>6, <2>7
    <3>2. m[3] = right[i][2] /\ m[3] = right[j][2]
      BY <3>1 DEF MatchesOf
    <3>3. QED BY <2>7, <3>2 DEF OwnRows
  <2>9. \A i \in DOMAIN ss : IsInjective(ss[i])
    BY <2>6, <2>7
  <2>10. /\ FlattenSeq(ss) \in Seq(Triple) /\ IsInjective(FlattenSeq(ss))
         /\ Range(FlattenSeq(ss)) = UNION {Range(ss[j]) : j \in DOMAIN ss}
    BY <2>7, <2>8, <2>9, FlattenDistinct
  <2>11. UNION {Range(ss[j]) : j \in DOMAIN ss} =
           UNION {MatchesOf(left, right[j]) : j \in DOMAIN right}
    BY <2>6, <2>7
  <2>12. QED BY <2>1, <2>10, <2>11, MatchesAre
<1>3. QED BY <1>1, <1>2

--------------------------------------------------------------------------------
(* How often an element is in a sequence or a bag. *)

\* How often x is in a sequence, and how often it is in a bag.
Times(s, x)   == Cardinality({i \in DOMAIN s : s[i] = x})
Amount(b, x)  == IF x \in DOMAIN b THEN b[x] ELSE 0

\* x is in a sequence some number of times, and at least once if it is among its elements.
LEMMA TimesType ==
  ASSUME NEW A, NEW s \in Seq(A), NEW x
  PROVE  /\ IsFiniteSet({i \in DOMAIN s : s[i] = x}) /\ Times(s, x) \in Nat
         /\ Times(s, x) = 0 <=> x \notin Range(s)
<1> DEFINE I == {i \in DOMAIN s : s[i] = x}
<1>1. Len(s) \in Nat /\ DOMAIN s = 1 .. Len(s)
  OBVIOUS
<1>2. IsFiniteSet(1 .. Len(s))
  BY <1>1, FS_Interval
<1>3. IsFiniteSet(I)
  BY <1>1, <1>2, FS_Subset
<1>4. I = {} <=> x \notin Range(s)
  BY DEF Range
<1>5. Cardinality(I) \in Nat /\ (Cardinality(I) = 0 <=> I = {})
  BY <1>3, FS_CardinalityType, FS_EmptySet
<1>6. QED BY <1>3, <1>4, <1>5 DEF Times

\* x is in two sequences put together as often as it is in both.
LEMMA TimesConcat ==
  ASSUME NEW A, NEW s \in Seq(A), NEW t \in Seq(A), NEW x
  PROVE  Times(s \o t, x) = Times(s, x) + Times(t, x)
<1> DEFINE u == s \o t
           m == Len(s)
           I == {i \in DOMAIN s : s[i] = x}
           J == {i \in DOMAIN t : t[i] = x}
           K == {i \in DOMAIN u : u[i] = x}
           f == [i \in J |-> m + i]
           L == {f[i] : i \in J}
<1>1. /\ u \in Seq(A)
      /\ \A i \in DOMAIN s : i \in DOMAIN u /\ u[i] = s[i]
      /\ \A i \in DOMAIN t : m + i \in DOMAIN u /\ u[m + i] = t[i]
      /\ \A i \in DOMAIN u :
           i \in DOMAIN s \/ (i \notin DOMAIN s /\ i - m \in DOMAIN t /\ u[i] = t[i - m])
      /\ DOMAIN s = 1 .. m /\ DOMAIN t = 1 .. Len(t)
      /\ DOMAIN u = 1 .. (m + Len(t))
  BY Concatenated
<1>2. m \in Nat /\ Len(t) \in Nat
  OBVIOUS
<1>3. IsFiniteSet(I) /\ IsFiniteSet(J)
  BY TimesType
<1> HIDE DEF u, m
<1>4. \A i, j \in J : f[i] = f[j] => i = j
  BY <1>1, <1>2
<1>5. IsFiniteSet(L) /\ Cardinality(L) = Cardinality(J)
  <2> HIDE DEF f, J
  <2>1. QED BY <1>3, <1>4, ImageCardinality
<1>6. L = {m + i : i \in J}
  OBVIOUS
<1>7. K = I \cup L
  <2>1. I \subseteq K
    BY <1>1
  <2>2. L \subseteq K
    BY <1>1, <1>6
  <2>3. ASSUME NEW i \in K, i \notin I
        PROVE  i \in L
    <3>1. i \notin DOMAIN s /\ i - m \in DOMAIN t /\ t[i - m] = x
      BY <1>1, <2>3
    <3>2. i - m \in J /\ i = m + (i - m)
      BY <1>1, <1>2, <3>1
    <3>3. QED BY <1>6, <3>2
  <2>4. QED BY <2>1, <2>2, <2>3
<1>8. I \cap L = {}
  <2> SUFFICES ASSUME NEW i \in J, m + i \in I
               PROVE  FALSE
    BY <1>6
  <2>1. m + i \in 1 .. m /\ i \in 1 .. Len(t)
    BY <1>1
  <2>2. QED BY <1>2, <2>1
<1>9. Cardinality(K) = Cardinality(I) + Cardinality(L)
  <2> HIDE DEF I, L, K
  <2>1. QED BY <1>3, <1>5, <1>7, <1>8, DisjointUnion
<1>10. QED BY <1>5, <1>9 DEF Times, u

\* x is in a sequence without repetition at most once.
LEMMA TimesOnce ==
  ASSUME NEW A, NEW s \in Seq(A), IsInjective(s), NEW x
  PROVE  Times(s, x) = IF x \in Range(s) THEN 1 ELSE 0
<1>1. CASE x \in Range(s)
  <2>1. PICK i \in DOMAIN s : s[i] = x
    BY <1>1 DEF Range
  <2>2. {j \in DOMAIN s : s[j] = x} = {i}
    BY <2>1 DEF IsInjective
  <2>3. QED BY <1>1, <2>2, FS_Singleton DEF Times
<1>2. CASE x \notin Range(s)
  BY <1>2, TimesType
<1>3. QED BY <1>1, <1>2

\* x is in the beginning of a sequence at most as often as it is in the whole.
LEMMA TimesPrefix ==
  ASSUME NEW A, NEW s \in Seq(A), NEW n \in 0 .. Len(s), NEW x
  PROVE  /\ SubSeq(s, 1, n) \in Seq(A)
         /\ Times(SubSeq(s, 1, n), x) <= Times(s, x) /\ Times(SubSeq(s, 1, n), x) \in Nat
<1> DEFINE t == SubSeq(s, 1, n)
<1>1. t \in Seq(A) /\ DOMAIN t = 1 .. n /\ \A i \in 1 .. n : t[i] = s[i] /\ i \in DOMAIN s
  OBVIOUS
<1>2. {i \in DOMAIN t : t[i] = x} \subseteq {i \in DOMAIN s : s[i] = x}
  <2> HIDE DEF t
  <2>1. QED BY <1>1
<1>3. IsFiniteSet({i \in DOMAIN s : s[i] = x})
  BY TimesType
<1>4. Times(t, x) <= Times(s, x)
  BY <1>2, <1>3, FS_Subset DEF Times
<1>5. Times(t, x) \in Nat
  BY <1>1, TimesType
<1>6. QED BY <1>1, <1>4, <1>5

\* A sequence that has no element more often than a bag does.
LEMMA BagOf ==
  ASSUME NEW A, NEW s \in Seq(A), NEW b, IsABag(b), DOMAIN b \subseteq A,
         \A x \in A : Times(s, x) <= Amount(b, x)
  PROVE  /\ ToBag(s) \sqsubseteq b
         /\ (\A x \in A : Times(s, x) = Amount(b, x)) => ToBag(s) = b
<1>1. /\ DOMAIN ToBag(s) = Range(s) /\ ToBag(s) = [x \in Range(s) |-> Times(s, x)]
  BY DEF ToBag, Times
<1>2. Range(s) \subseteq A
  BY DEF Range
<1>3. b = [x \in DOMAIN b |-> b[x]] /\ \A x \in DOMAIN b : b[x] \in Nat /\ b[x] > 0
  BY DEF IsABag
<1>4. \A x \in Range(s) : Times(s, x) # 0 /\ Times(s, x) \in Nat
  BY TimesType
<1>5. \A x \in Range(s) : x \in DOMAIN b /\ Times(s, x) <= b[x]
  BY <1>2, <1>4 DEF Amount
<1>6. ToBag(s) \sqsubseteq b
  BY <1>1, <1>5 DEF \sqsubseteq
<1>7. ASSUME \A x \in A : Times(s, x) = Amount(b, x)
      PROVE  ToBag(s) = b
  <2>1. \A x \in DOMAIN b : Times(s, x) = b[x] /\ x \in A
    BY <1>7 DEF Amount
  <2>2. ASSUME NEW x \in DOMAIN b
        PROVE  x \in Range(s)
    <3>1. Times(s, x) > 0
      BY <1>3, <2>1
    <3>2. Times(s, x) = 0 <=> x \notin Range(s)
      BY TimesType
    <3>3. QED BY <3>1, <3>2
  <2>3. DOMAIN b = Range(s)
    BY <1>5, <2>2
  <2>4. QED BY <1>1, <1>3, <2>1, <2>3
<1>8. QED BY <1>6, <1>7

\* The bag of a sequence has each element as often as the sequence does.
LEMMA BagOfSequence ==
  ASSUME NEW A, NEW s \in Seq(A)
  PROVE  /\ IsABag(ToBag(s)) /\ DOMAIN ToBag(s) \subseteq A
         /\ \A x : Amount(ToBag(s), x) = Times(s, x)
<1>1. /\ DOMAIN ToBag(s) = Range(s) /\ ToBag(s) = [x \in Range(s) |-> Times(s, x)]
  BY DEF ToBag, Times
<1>2. Range(s) \subseteq A
  BY DEF Range
<1>3. \A x \in Range(s) : Times(s, x) \in Nat /\ Times(s, x) > 0
  <2> SUFFICES ASSUME NEW x \in Range(s)
               PROVE  Times(s, x) \in Nat /\ Times(s, x) > 0
    OBVIOUS
  <2>1. Times(s, x) \in Nat /\ (Times(s, x) = 0 <=> x \notin Range(s))
    BY TimesType
  <2>2. QED BY <2>1
<1>4. IsABag(ToBag(s))
  BY <1>1, <1>3 DEF IsABag
<1>5. \A x : Amount(ToBag(s), x) = Times(s, x)
  BY <1>1, TimesType DEF Amount
<1>6. QED BY <1>1, <1>2, <1>4, <1>5

\* The empty bag has nothing.
LEMMA BagOfNothing == IsABag(EmptyBag) /\ DOMAIN EmptyBag = {} /\ \A x : Amount(EmptyBag, x) = 0
<1>1. DOMAIN EmptyBag = {} /\ EmptyBag = [e \in {} |-> 1]
  BY DEF EmptyBag, SetToBag
<1>2. QED BY <1>1 DEF IsABag, Amount

\* A bag with the elements of a set, each once, added to it.
LEMMA BagWith ==
  ASSUME NEW b, IsABag(b), NEW S, NEW d, d = b (+) SetToBag(S)
  PROVE  /\ IsABag(d) /\ DOMAIN d = DOMAIN b \cup S
         /\ \A x : Amount(d, x) = Amount(b, x) + (IF x \in S THEN 1 ELSE 0)
<1> DEFINE c == SetToBag(S)
<1>1. \A x \in DOMAIN b : b[x] \in Nat /\ b[x] > 0
  BY DEF IsABag
<1>2. DOMAIN c = S /\ \A x \in S : c[x] = 1
  BY DEF SetToBag
<1> HIDE DEF c
<1>3. d = [x \in (DOMAIN b) \cup (DOMAIN c) |->
             (IF x \in DOMAIN b THEN b[x] ELSE 0) + (IF x \in DOMAIN c THEN c[x] ELSE 0)]
  BY DEF (+), c
<1>4. DOMAIN d = (DOMAIN b) \cup S /\ d = [x \in DOMAIN d |-> d[x]]
  BY <1>2, <1>3
<1>5. \A x \in DOMAIN d : d[x] = Amount(b, x) + (IF x \in S THEN 1 ELSE 0)
  BY <1>2, <1>3, <1>4 DEF Amount
<1>6. \A x : Amount(b, x) \in Nat
  BY <1>1 DEF Amount
<1>7. \A x \in DOMAIN d : d[x] \in Nat /\ d[x] > 0
  <2> SUFFICES ASSUME NEW x \in DOMAIN d
               PROVE  d[x] \in Nat /\ d[x] > 0
    OBVIOUS
  <2>1. CASE x \in S
    BY <1>5, <1>6, <2>1
  <2>2. CASE x \notin S
    <3>1. x \in DOMAIN b
      BY <1>4, <2>2
    <3>2. QED BY <1>1, <1>5, <2>2, <3>1 DEF Amount
  <2>3. QED BY <2>1, <2>2
<1>8. IsABag(d)
  BY <1>4, <1>7 DEF IsABag
<1>9. \A x : Amount(d, x) = Amount(b, x) + (IF x \in S THEN 1 ELSE 0)
  <2> SUFFICES ASSUME NEW x
               PROVE  Amount(d, x) = Amount(b, x) + (IF x \in S THEN 1 ELSE 0)
    OBVIOUS
  <2>1. CASE x \in DOMAIN d
    BY <1>5, <2>1 DEF Amount
  <2>2. CASE x \notin DOMAIN d
    BY <1>4, <2>2 DEF Amount
  <2>3. QED BY <2>1, <2>2
<1>10. QED BY <1>4, <1>8, <1>9

--------------------------------------------------------------------------------
(* The parts of a relation. *)

\* Every tuple is in one of the parts.
LEMMA PartIs ==
  /\ part_count \in Nat \ {0}
  /\ \A t : t[1] \in Keys => PartOf(t) \in Parts
  /\ \A t \in Tuple : PartOf(t) \in Parts
<1>1. part_count \in Nat \ {0}
  <2>1. PartBits \in Nat
    BY CallAssumption
  <2>2. QED BY <2>1, PowerOfTwo DEF part_count
<1>2. ASSUME NEW t, t[1] \in Keys
      PROVE  PartOf(t) \in Parts
  <2>1. Hash[t[1]] \in Nat
    BY <1>2, HashAssumption
  <2>2. QED BY <1>1, <2>1 DEF PartOf, Parts
<1>3. QED BY <1>1, <1>2 DEF Tuple

\* The places of the tuples of the parts Q.
InParts(data, Q) == {i \in DOMAIN data : PartOf(data[i]) \in Q}

\* There are at most as many tuples of some parts as the relation has.
LEMMA InPartsType ==
  ASSUME NEW data \in Seq(Tuple), NEW Q
  PROVE  /\ IsFiniteSet(InParts(data, Q)) /\ Cardinality(InParts(data, Q)) \in 0 .. Len(data)
         /\ Q = {} => Cardinality(InParts(data, Q)) = 0
         /\ \A R : R \subseteq Q => Cardinality(InParts(data, R)) <= Cardinality(InParts(data, Q))
<1>1. Len(data) \in Nat /\ DOMAIN data = 1 .. Len(data)
  OBVIOUS
<1>2. IsFiniteSet(1 .. Len(data)) /\ Cardinality(1 .. Len(data)) = Len(data)
  BY <1>1, FS_Interval
<1>3. InParts(data, Q) \subseteq 1 .. Len(data)
  BY <1>1 DEF InParts
<1>4. /\ IsFiniteSet(InParts(data, Q)) /\ Cardinality(InParts(data, Q)) <= Len(data)
      /\ Cardinality(InParts(data, Q)) \in Nat
  BY <1>2, <1>3, FS_Subset, FS_CardinalityType
<1>5. Q = {} => InParts(data, Q) = {}
  BY DEF InParts
<1>6. \A R : R \subseteq Q => InParts(data, R) \subseteq InParts(data, Q)
  BY DEF InParts
<1>7. QED BY <1>1, <1>4, <1>5, <1>6, FS_Subset, FS_EmptySet

\* The tuples of two groups of parts are counted apart.
LEMMA InPartsUnion ==
  ASSUME NEW data \in Seq(Tuple), NEW Q, NEW R, Q \cap R = {}
  PROVE  Cardinality(InParts(data, Q \cup R)) =
           Cardinality(InParts(data, Q)) + Cardinality(InParts(data, R))
<1>1. InParts(data, Q \cup R) = InParts(data, Q) \cup InParts(data, R)
  BY DEF InParts
<1>2. InParts(data, Q) \cap InParts(data, R) = {}
  BY DEF InParts
<1>3. IsFiniteSet(InParts(data, Q)) /\ IsFiniteSet(InParts(data, R))
  BY InPartsType
<1>4. QED BY <1>1, <1>2, <1>3, DisjointUnion

\* The sum of a histogram over some parts is how many tuples they have.
LEMMA HistogramSum ==
  ASSUME NEW data \in Seq(Tuple), NEW Q \in SUBSET Parts
  PROVE  FoldFunctionOnSet(+, 0, Histogram(data), Q) = Cardinality(InParts(data, Q))
<1> DEFINE H    == Histogram(data)
           one(s) == CHOOSE x \in s : TRUE
           E(g) == g = [s \in SUBSET Q |-> IF s = {} THEN 0 ELSE H[one(s)] + g[s \ {one(s)}]]
           c    == CHOOSE g : E(g)
           w    == [s \in SUBSET Q |-> Cardinality(InParts(data, s))]
<1>1. FoldFunctionOnSet(+, 0, H, Q) = c[Q]
  BY DEF FoldFunctionOnSet, MapThenFoldSet
<1>2. \A p \in Q : H[p] = Cardinality(InParts(data, {p}))
  BY DEF Histogram, InParts
<1>3. \A s \in SUBSET Q : s # {} => one(s) \in s
  OBVIOUS
<1> HIDE DEF H, one
<1>4. ASSUME NEW s \in SUBSET Q
      PROVE  w[s] = IF s = {} THEN 0 ELSE H[one(s)] + w[s \ {one(s)}]
  <2>1. CASE s = {}
    BY <2>1, InPartsType
  <2>2. CASE s # {}
    <3> DEFINE p == one(s)
    <3>1. p \in s /\ p \in Q
      BY <1>3, <2>2
    <3> HIDE DEF p
    <3>2. {p} \cup (s \ {p}) = s /\ {p} \cap (s \ {p}) = {} /\ s \ {p} \in SUBSET Q
      BY <3>1
    <3>3. Cardinality(InParts(data, s)) =
            Cardinality(InParts(data, {p})) + Cardinality(InParts(data, s \ {p}))
      BY <3>2, InPartsUnion
    <3>4. w[s] = H[p] + w[s \ {p}]
      BY <1>2, <3>1, <3>2, <3>3
    <3>5. QED BY <2>2, <3>4 DEF p
  <2>3. QED BY <2>1, <2>2
<1>5. E(w)
  <2>1. w = [s \in SUBSET Q |-> w[s]]
    OBVIOUS
  <2> HIDE DEF w
  <2>2. QED BY <1>4, <2>1
<1>6. E(c)
  <2> HIDE DEF E, w
  <2>1. QED BY <1>5
<1>7. \A s \in SUBSET Q : c[s] = IF s = {} THEN 0 ELSE H[one(s)] + c[s \ {one(s)}]
  <2> HIDE DEF c
  <2>1. QED BY <1>6
<1> HIDE DEF c, w, E
<1>8. IsFiniteSet(Q)
  <2>1. IsFiniteSet(Parts)
    BY PartIs, FS_Interval DEF Parts
  <2>2. QED BY <2>1, FS_Subset
<1> DEFINE S == {n \in 0 .. Cardinality(Q) : \A s \in SUBSET Q : Cardinality(s) = n => c[s] = w[s]}
<1>9. \A s \in SUBSET Q : IsFiniteSet(s)
  BY <1>8, FS_Subset
<1>10. Cardinality(Q) \in Nat
  BY <1>8, FS_CardinalityType
<1>11. 0 \in S
  <2>1. \A s \in SUBSET Q : Cardinality(s) = 0 => s = {}
    BY <1>9, FS_EmptySet
  <2>2. {} \in SUBSET Q /\ c[{}] = w[{}]
    BY <1>4, <1>7
  <2>3. \A s \in SUBSET Q : Cardinality(s) = 0 => c[s] = w[s]
    BY <2>1, <2>2
  <2>4. 0 \in 0 .. Cardinality(Q)
    BY <1>10
  <2>5. QED BY <2>3, <2>4
<1>12. ASSUME NEW n \in 0 .. (Cardinality(Q) - 1), n \in S
       PROVE  n + 1 \in S
  <2> SUFFICES ASSUME NEW s \in SUBSET Q, Cardinality(s) = n + 1
               PROVE  c[s] = w[s]
    BY <1>10
  <2>1. s # {}
    <3>1. Cardinality(s) # 0
      BY <1>10
    <3>2. QED BY <3>1, FS_EmptySet
  <2>2. one(s) \in s /\ s \ {one(s)} \in SUBSET Q
    BY <1>3, <2>1
  <2>3. Cardinality(s \ {one(s)}) = n
    <3>1. Cardinality(s \ {one(s)}) = Cardinality(s) - 1
      BY <1>9, <2>2, FS_RemoveElement
    <3>2. QED BY <3>1
  <2>4. c[s \ {one(s)}] = w[s \ {one(s)}]
    BY <1>12, <2>2, <2>3
  <2>5. QED BY <1>4, <1>7, <2>1, <2>4
<1>13. Cardinality(Q) \in S
  <2> HIDE DEF S
  <2>1. 0 .. Cardinality(Q) \subseteq S
    BY <1>10, <1>11, <1>12, UpTo
  <2>2. QED BY <1>10, <2>1
<1>14. c[Q] = w[Q]
  BY <1>13
<1>15. QED BY <1>1, <1>14 DEF w, H

--------------------------------------------------------------------------------
(* Where the tuples go. *)

\* The tuples of part p among the first n.
Among(data, p, n) == {i \in 1 .. n : PartOf(data[i]) = p}
\* How many there are; and how many tuples are of the parts before p.
Met(data, p, n)   == Cardinality(Among(data, p, n))
Start(data, p)    == Cardinality(InParts(data, {q \in Parts : q < p}))

\* The place of the tuple that is at place j of the relation.
Target(data, j) == Start(data, PartOf(data[j])) + Met(data, PartOf(data[j]), j)

\* Counting the tuples of a part one by one.
LEMMA MetType ==
  ASSUME NEW data \in Seq(Tuple), NEW p, NEW n \in 0 .. Len(data)
  PROVE  /\ IsFiniteSet(Among(data, p, n)) /\ Met(data, p, n) \in Nat
         /\ n = 0 => Met(data, p, n) = 0
         /\ n > 0 => Met(data, p, n) =
                       Met(data, p, n - 1) + (IF PartOf(data[n]) = p THEN 1 ELSE 0)
         /\ \A i \in 0 .. n : Met(data, p, i) <= Met(data, p, n)
         /\ \A i \in 0 .. n : (i < n /\ PartOf(data[n]) = p) => Met(data, p, i) < Met(data, p, n)
<1>1. n \in Nat /\ Len(data) \in Nat
  OBVIOUS
<1>2. ASSUME NEW i \in 0 .. n
      PROVE  IsFiniteSet(Among(data, p, i)) /\ Met(data, p, i) \in Nat
  <2>1. IsFiniteSet(1 .. i)
    BY <1>1, FS_Interval
  <2>2. IsFiniteSet(Among(data, p, i))
    BY <2>1, FS_Subset DEF Among
  <2>3. QED BY <2>2, FS_CardinalityType DEF Met
<1>3. n = 0 => Met(data, p, n) = 0
  <2> SUFFICES ASSUME n = 0
               PROVE  Met(data, p, n) = 0
    OBVIOUS
  <2>1. Among(data, p, n) = {}
    BY DEF Among
  <2>2. QED BY <2>1, FS_EmptySet DEF Met
<1>4. \A i \in 0 .. n : Met(data, p, i) <= Met(data, p, n)
  <2> SUFFICES ASSUME NEW i \in 0 .. n
               PROVE  Met(data, p, i) <= Met(data, p, n)
    OBVIOUS
  <2>1. Among(data, p, i) \subseteq Among(data, p, n)
    BY <1>1 DEF Among
  <2>2. QED BY <1>1, <1>2, <2>1, FS_Subset DEF Met
<1>5. n > 0 => Met(data, p, n) =
                 Met(data, p, n - 1) + (IF PartOf(data[n]) = p THEN 1 ELSE 0)
  <2> SUFFICES ASSUME n > 0
               PROVE  Met(data, p, n) =
                        Met(data, p, n - 1) + (IF PartOf(data[n]) = p THEN 1 ELSE 0)
    OBVIOUS
  <2>1. n - 1 \in 0 .. n /\ 1 .. n = (1 .. (n - 1)) \cup {n} /\ n \notin 1 .. (n - 1)
    BY <1>1
  <2>2. IsFiniteSet(Among(data, p, n - 1)) /\ Met(data, p, n - 1) \in Nat
    BY <1>2, <2>1
  <2>3. CASE PartOf(data[n]) = p
    <3>1. Among(data, p, n) = Among(data, p, n - 1) \cup {n} /\ n \notin Among(data, p, n - 1)
      BY <2>1, <2>3 DEF Among
    <3>2. Cardinality(Among(data, p, n)) = Cardinality(Among(data, p, n - 1)) + 1
      BY <2>2, <3>1, FS_AddElement
    <3>3. QED BY <2>3, <3>2 DEF Met
  <2>4. CASE PartOf(data[n]) # p
    <3>1. Among(data, p, n) = Among(data, p, n - 1)
      BY <2>1, <2>4 DEF Among
    <3>2. QED BY <2>2, <2>4, <3>1 DEF Met
  <2>5. QED BY <2>3, <2>4
<1>6. \A i \in 0 .. n : (i < n /\ PartOf(data[n]) = p) => Met(data, p, i) < Met(data, p, n)
  <2> SUFFICES ASSUME NEW i \in 0 .. n, i < n, PartOf(data[n]) = p
               PROVE  Met(data, p, i) < Met(data, p, n)
    OBVIOUS
  <2>1. n - 1 \in 0 .. n /\ n > 0
    BY <1>1
  <2>2. Among(data, p, i) \subseteq Among(data, p, n - 1)
    BY <1>1 DEF Among
  <2>3. Met(data, p, i) <= Met(data, p, n - 1)
    BY <1>2, <2>1, <2>2, FS_Subset DEF Met
  <2>4. Met(data, p, n) = Met(data, p, n - 1) + 1
    BY <1>5, <2>1
  <2>5. Met(data, p, i) \in Nat /\ Met(data, p, n - 1) \in Nat
    BY <1>2, <2>1
  <2>6. QED BY <2>3, <2>4, <2>5
<1>7. QED BY <1>1, <1>2, <1>3, <1>4, <1>5, <1>6

\* A part begins where the one before it ends.
LEMMA StartIs ==
  ASSUME NEW data \in Seq(Tuple), NEW p \in Parts
  PROVE  /\ Starts(data)[p] = Start(data, p) /\ Start(data, p) \in Nat
         /\ Met(data, p, Len(data)) \in Nat
         /\ Start(data, p) + Met(data, p, Len(data)) <= Len(data)
         /\ p = 0 => Start(data, p) = 0
         /\ p + 1 \in Parts => Start(data, p + 1) = Start(data, p) + Met(data, p, Len(data))
         /\ \A q \in Parts : p < q =>
              Start(data, p) + Met(data, p, Len(data)) <= Start(data, q)
<1> DEFINE B == {q \in Parts : q < p}
           C == B \cup {p}
<1>1. p \in Nat /\ Parts \subseteq Nat /\ DOMAIN data = 1 .. Len(data) /\ Len(data) \in Nat
  BY PartIs DEF Parts
<1>2. Starts(data)[p] = Start(data, p)
  <2>1. Starts(data)[p] = FoldFunctionOnSet(+, 0, Histogram(data), B)
    BY DEF Starts
  <2>2. QED BY <2>1, HistogramSum DEF Start
<1>3. Met(data, p, Len(data)) = Cardinality(InParts(data, {p}))
  BY <1>1 DEF Met, Among, InParts
<1>4. Cardinality(InParts(data, C)) = Start(data, p) + Met(data, p, Len(data))
  <2>1. B \cap {p} = {}
    BY <1>1
  <2>2. QED BY <1>3, <2>1, InPartsUnion DEF Start
<1>5. Start(data, p) \in Nat /\ Met(data, p, Len(data)) \in Nat
  BY <1>1, <1>3, InPartsType DEF Start
<1>6. Start(data, p) + Met(data, p, Len(data)) <= Len(data)
  BY <1>1, <1>4, InPartsType
<1>7. p = 0 => Start(data, p) = 0
  <2>1. p = 0 => B = {}
    <3>1. \A q \in Parts : ~ (q < 0)
      BY <1>1
    <3>2. QED BY <3>1
  <2>2. QED BY <2>1, InPartsType DEF Start
<1>8. p + 1 \in Parts => Start(data, p + 1) = Start(data, p) + Met(data, p, Len(data))
  <2>1. {q \in Parts : q < p + 1} = C
    <3>1. \A q \in Parts : q < p + 1 <=> q < p \/ q = p
      BY <1>1
    <3>2. QED BY <3>1
  <2>2. QED BY <1>4, <2>1 DEF Start
<1>9. \A q \in Parts : p < q => Start(data, p) + Met(data, p, Len(data)) <= Start(data, q)
  <2> SUFFICES ASSUME NEW q \in Parts, p < q
               PROVE  Start(data, p) + Met(data, p, Len(data)) <= Start(data, q)
    OBVIOUS
  <2>1. C \subseteq {r \in Parts : r < q}
    <3>1. \A r \in Parts : r < p => r < q
      <4> SUFFICES ASSUME NEW r \in Parts, r < p
                   PROVE  r < q
        OBVIOUS
      <4>1. r \in Nat /\ q \in Nat
        BY <1>1
      <4>2. QED BY <1>1, <4>1
    <3>2. QED BY <3>1
  <2>2. QED BY <1>4, <2>1, InPartsType DEF Start
<1>10. QED BY <1>2, <1>5, <1>6, <1>7, <1>8, <1>9

\* Every place of the new array is the target of one tuple.
LEMMA Targets ==
  ASSUME NEW data \in Seq(Tuple)
  PROVE  /\ \A j \in 1 .. Len(data) : Target(data, j) \in 1 .. Len(data)
         /\ \A i, j \in 1 .. Len(data) : Target(data, i) = Target(data, j) => i = j
         /\ \A k \in 1 .. Len(data) : \E j \in 1 .. Len(data) : Target(data, j) = k
<1> DEFINE n == Len(data)
           f == [j \in 1 .. n |-> Target(data, j)]
           P(j) == PartOf(data[j])
<1>1. n \in Nat /\ \A j \in 1 .. n : P(j) \in Parts
  BY PartIs
<1>2. ASSUME NEW j \in 1 .. n
      PROVE  /\ Target(data, j) = Start(data, P(j)) + Met(data, P(j), j)
             /\ Start(data, P(j)) \in Nat /\ Met(data, P(j), j) \in Nat \ {0}
             /\ Met(data, P(j), j) \in Nat /\ Met(data, P(j), n) \in Nat
             /\ Met(data, P(j), j) <= Met(data, P(j), n)
             /\ Start(data, P(j)) + Met(data, P(j), n) <= n
             /\ \A i \in 1 .. n : (i < j /\ P(i) = P(j)) => Met(data, P(i), i) < Met(data, P(j), j)
             /\ \A i \in 1 .. n : P(j) < P(i) =>
                  Start(data, P(j)) + Met(data, P(j), n) <= Start(data, P(i))
  <2> DEFINE p == P(j)
  <2>1. p \in Parts /\ j \in 0 .. n /\ n \in 0 .. n /\ 0 \in 0 .. j
    BY <1>1
  <2>2. /\ Start(data, p) \in Nat /\ Met(data, p, n) \in Nat
        /\ Start(data, p) + Met(data, p, n) <= n
        /\ \A q \in Parts : p < q => Start(data, p) + Met(data, p, n) <= Start(data, q)
    BY <2>1, StartIs
  <2>3. Met(data, p, j) \in Nat /\ Met(data, p, j) <= Met(data, p, n)
    BY <2>1, MetType
  <2>4. \A i \in 0 .. j : i < j => Met(data, p, i) < Met(data, p, j)
    BY <2>1, MetType
  <2>5. Met(data, p, 0) \in Nat
    BY <2>1, MetType
  <2>6. Met(data, p, 0) < Met(data, p, j)
    BY <2>1, <2>4
  <2>7. Met(data, p, j) # 0
    BY <2>3, <2>5, <2>6
  <2>8. QED BY <1>1, <2>2, <2>3, <2>4, <2>7 DEF Target
<1>3. \A j \in 1 .. n : Target(data, j) \in 1 .. n
  <2> SUFFICES ASSUME NEW j \in 1 .. n
               PROVE  Target(data, j) \in 1 .. n
    OBVIOUS
  <2>1. /\ Target(data, j) = Start(data, P(j)) + Met(data, P(j), j)
        /\ Start(data, P(j)) \in Nat /\ Met(data, P(j), j) \in Nat \ {0}
        /\ Met(data, P(j), n) \in Nat /\ Met(data, P(j), j) <= Met(data, P(j), n)
        /\ Start(data, P(j)) + Met(data, P(j), n) <= n
    BY <1>2
  <2> HIDE DEF n, P
  <2>2. QED BY <1>1, <2>1
<1>4. \A i, j \in 1 .. n : Target(data, i) = Target(data, j) => i = j
  <2>1. ASSUME NEW i \in 1 .. n, NEW j \in 1 .. n, i < j, Target(data, i) = Target(data, j)
        PROVE  FALSE
    <3> HIDE DEF n, P
    <3>1. P(i) \in Nat /\ P(j) \in Nat
      BY <1>1, PartIs DEF Parts
    <3>2. CASE P(i) = P(j)
      BY <1>2, <2>1, <3>2
    <3>3. CASE P(i) < P(j)
      <4>1. /\ Start(data, P(i)) + Met(data, P(i), n) <= Start(data, P(j))
            /\ Met(data, P(i), i) <= Met(data, P(i), n)
            /\ Target(data, i) = Start(data, P(i)) + Met(data, P(i), i)
            /\ Start(data, P(i)) \in Nat /\ Met(data, P(i), i) \in Nat
            /\ Met(data, P(i), n) \in Nat /\ Start(data, P(j)) \in Nat
        BY <1>2, <3>3, Zenon
      <4>2. /\ Target(data, j) = Start(data, P(j)) + Met(data, P(j), j)
            /\ Start(data, P(j)) \in Nat /\ Met(data, P(j), j) \in Nat \ {0}
        BY <1>2, Zenon
      <4>3. Target(data, i) <= Start(data, P(j))
        BY <4>1
      <4>4. Target(data, j) > Start(data, P(j))
        BY <4>2
      <4>5. Target(data, j) = Target(data, i) /\ Start(data, P(j)) \in Nat
          /\ Target(data, j) \in Nat
        BY <2>1, <4>2
      <4>6. QED BY <4>3, <4>4, <4>5
    <3>4. CASE P(j) < P(i)
      <4>1. /\ Start(data, P(j)) + Met(data, P(j), n) <= Start(data, P(i))
            /\ Met(data, P(j), j) <= Met(data, P(j), n)
            /\ Target(data, j) = Start(data, P(j)) + Met(data, P(j), j)
            /\ Start(data, P(j)) \in Nat /\ Met(data, P(j), j) \in Nat
            /\ Met(data, P(j), n) \in Nat /\ Start(data, P(i)) \in Nat
        BY <1>2, <3>4, Zenon
      <4>2. /\ Target(data, i) = Start(data, P(i)) + Met(data, P(i), i)
            /\ Start(data, P(i)) \in Nat /\ Met(data, P(i), i) \in Nat \ {0}
        BY <1>2, Zenon
      <4>3. Target(data, j) <= Start(data, P(i))
        BY <4>1
      <4>4. Target(data, i) > Start(data, P(i))
        BY <4>2
      <4>5. Target(data, i) = Target(data, j) /\ Start(data, P(i)) \in Nat
          /\ Target(data, i) \in Nat
        BY <2>1, <4>2
      <4>6. QED BY <4>3, <4>4, <4>5
    <3>5. QED BY <3>1, <3>2, <3>3, <3>4
  <2>2. \A i, j \in 1 .. n : i = j \/ i < j \/ j < i
    OBVIOUS
  <2>3. QED BY <2>1, <2>2
<1>5. \A k \in 1 .. n : \E j \in 1 .. n : Target(data, j) = k
  <2>1. IsFiniteSet(1 .. n) /\ \A i, j \in 1 .. n : f[i] = f[j] => i = j
    BY <1>1, <1>4, FS_Interval
  <2> HIDE DEF f
  <2>2. Cardinality({f[j] : j \in 1 .. n}) = Cardinality(1 .. n)
    <3> DEFINE N == 1 .. n
    <3>1. IsFiniteSet(N) /\ \A i, j \in N : f[i] = f[j] => i = j
      BY <2>1
    <3> HIDE DEF N
    <3>2. Cardinality({f[j] : j \in N}) = Cardinality(N)
      BY <3>1, ImageCardinality
    <3>3. QED BY <3>2 DEF N
  <2>3. {f[j] : j \in 1 .. n} \subseteq 1 .. n
    BY <1>3 DEF f
  <2>4. {f[j] : j \in 1 .. n} = 1 .. n
    BY <2>1, <2>2, <2>3, FS_Subset
  <2>5. QED BY <2>4 DEF f
<1>6. QED BY <1>3, <1>4, <1>5

\* What the partitioned array stores: before its tuples are put there, a pair of zeros.
Slots   == Tuple \cup {<<0, 0>>}
\* The histogram and the array that scatter() works on.
Arrays(n) == [hist : [Parts -> Int], list : [1 .. n -> Slots]]

\* Scattering one tuple: the histogram's entry of its part counts it, and it is put there.
LEMMA ScatteredIs ==
  ASSUME NEW n \in Nat, NEW a \in Arrays(n), NEW t \in Tuple
  PROVE  /\ Scattered(a, t) \in Arrays(n)
         /\ \A p \in Parts :
              Scattered(a, t).hist[p] = a.hist[p] + (IF PartOf(t) = p THEN 1 ELSE 0)
         /\ \A k \in 1 .. n :
              Scattered(a, t).list[k] = IF k = a.hist[PartOf(t)] + 1 THEN t ELSE a.list[k]
<1> DEFINE p == PartOf(t)
           H == [a.hist EXCEPT ![p] = a.hist[p] + 1]
           L == [a.list EXCEPT ![a.hist[p] + 1] = t]
<1>1. p \in Parts /\ t \in Slots
  BY PartIs DEF Slots
<1>2. Scattered(a, t) = [hist |-> H, list |-> L]
  BY DEF Scattered
<1>3. a.hist \in [Parts -> Int] /\ a.list \in [1 .. n -> Slots]
  BY DEF Arrays
<1> HIDE DEF p
<1>4. H \in [Parts -> Int]
  BY <1>1, <1>3
<1>5. L \in [1 .. n -> Slots]
  BY <1>1, <1>3
<1>6. QED
  <2> HIDE DEF H, L
  <2>1. Scattered(a, t) \in Arrays(n) /\ Scattered(a, t).hist = H /\ Scattered(a, t).list = L
    BY <1>2, <1>4, <1>5 DEF Arrays
  <2>2. \A q \in Parts : H[q] = a.hist[q] + (IF p = q THEN 1 ELSE 0)
    BY <1>1, <1>3 DEF H
  <2>3. \A k \in 1 .. n : L[k] = IF k = a.hist[p] + 1 THEN t ELSE a.list[k]
    BY <1>1, <1>3 DEF L
  <2>4. QED BY <2>1, <2>2, <2>3 DEF p

\* The histogram and the array after each of the tuples.
LEMMA PartitionSteps ==
  ASSUME NEW data \in Seq(Tuple)
  PROVE  \E h \in [0 .. Len(data) -> Arrays(Len(data))] :
           /\ h[0] = [hist |-> Starts(data), list |-> [i \in DOMAIN data |-> <<0, 0>>]]
           /\ h[Len(data)] = Partitioned(data)
           /\ \A i \in 1 .. Len(data) : h[i] = Scattered(h[i - 1], data[i])
<1> DEFINE n    == Len(data)
           A    == Arrays(n)
           base == [hist |-> Starts(data), list |-> [i \in DOMAIN data |-> <<0, 0>>]]
           G    == [i \in 1 .. n |-> [a \in A |-> Scattered(a, data[i])]]
           E(g) == g = [s \in SUBSET (1 .. n) |->
                          IF s = {} THEN base ELSE Scattered(g[s \ {Max(s)}], data[Max(s)])]
           c    == CHOOSE g : E(g)
<1>1. n \in Nat /\ DOMAIN data = 1 .. n /\ \A i \in 1 .. n : data[i] \in Tuple
  OBVIOUS
<1>2. base \in A
  <2>1. \A p \in Parts : Starts(data)[p] \in Int
    BY StartIs
  <2>2. Starts(data) = [p \in Parts |-> Starts(data)[p]]
    BY DEF Starts
  <2>3. Starts(data) \in [Parts -> Int]
    BY <2>1, <2>2
  <2>4. [i \in DOMAIN data |-> <<0, 0>>] \in [1 .. n -> Slots]
    BY <1>1 DEF Slots
  <2>5. QED BY <2>3, <2>4 DEF Arrays
<1>3. Partitioned(data) = c[1 .. n]
  BY <1>1 DEF Partitioned, FoldLeft, MapThenFoldSet
<1> HIDE DEF n, A, base
<1>4. \A i \in 1 .. n : \A a \in A : Scattered(a, data[i]) \in A
  BY <1>1, ScatteredIs DEF A
<1>5. Keeps(G, n, A)
  BY <1>4 DEF Keeps
<1>6. PICK h : Iterates(h, G, n, A, base)
  <2> HIDE DEF G
  <2>1. QED BY <1>1, <1>2, <1>5, Iterated
<1>7. E(h)
  <2>1. h \in [SUBSET (1 .. n) -> A]
    BY <1>6 DEF Iterates
  <2>2. ASSUME NEW s \in SUBSET (1 .. n)
        PROVE  h[s] = IF s = {} THEN base ELSE Scattered(h[s \ {Max(s)}], data[Max(s)])
    <3>1. CASE s = {}
      BY <1>6, <3>1 DEF Iterates
    <3>2. CASE s # {}
      <4>1. Max(s) \in 1 .. n
        BY <1>1, <3>2, MaxIn
      <4>2. h[s] = G[Max(s)][h[s \ {Max(s)}]]
        BY <1>6, <3>2 DEF Iterates
      <4>3. h[s \ {Max(s)}] \in A
        <5>1. s \ {Max(s)} \in SUBSET (1 .. n)
          OBVIOUS
        <5>2. QED BY <2>1, <5>1
      <4>4. QED BY <3>2, <4>1, <4>2, <4>3
    <3>3. QED BY <3>1, <3>2
  <2>3. QED BY <2>1, <2>2
<1>8. E(c)
  <2> HIDE DEF E
  <2>1. QED BY <1>7
<1>9. \A s \in SUBSET (1 .. n) :
        c[s] = IF s = {} THEN base ELSE Scattered(c[s \ {Max(s)}], data[Max(s)])
  <2> HIDE DEF c
  <2>1. QED BY <1>8
<1> HIDE DEF c, E, G
<1> DEFINE S == {k \in 0 .. n : c[1 .. k] \in A}
<1>10. c[1 .. 0] = base
  <2>1. 1 .. 0 = {}
    OBVIOUS
  <2>2. QED BY <1>9, <2>1
<1>11. \A k \in 1 .. n : c[1 .. k] = Scattered(c[1 .. (k - 1)], data[k])
  <2> SUFFICES ASSUME NEW k \in 1 .. n
               PROVE  c[1 .. k] = Scattered(c[1 .. (k - 1)], data[k])
    OBVIOUS
  <2>1. k \in Nat \ {0} /\ 1 .. k \in SUBSET (1 .. n)
    BY <1>1
  <2>2. 1 .. k # {} /\ Max(1 .. k) = k /\ (1 .. k) \ {k} = 1 .. (k - 1)
    BY <2>1, LastStep, Zenon
  <2>3. QED BY <1>9, <2>1, <2>2
<1>12. 0 \in S
  BY <1>1, <1>2, <1>10
<1>13. ASSUME NEW k \in 0 .. (n - 1), k \in S
       PROVE  k + 1 \in S
  <2>1. k + 1 \in 1 .. n /\ (k + 1) - 1 = k /\ k + 1 \in 0 .. n
    BY <1>1
  <2>2. c[1 .. (k + 1)] = Scattered(c[1 .. k], data[k + 1])
    BY <1>11, <2>1
  <2>3. QED BY <1>4, <1>13, <2>1, <2>2
<1>14. 0 .. n \subseteq S
  <2> HIDE DEF S
  <2>1. QED BY <1>1, <1>12, <1>13, UpTo
<1> DEFINE t == [k \in 0 .. n |-> c[1 .. k]]
<1>15. t \in [0 .. n -> A] /\ t[0] = base /\ t[n] = c[1 .. n]
  BY <1>1, <1>10, <1>14
<1>16. \A k \in 1 .. n : t[k] = Scattered(t[k - 1], data[k])
  <2> SUFFICES ASSUME NEW k \in 1 .. n
               PROVE  t[k] = Scattered(t[k - 1], data[k])
    OBVIOUS
  <2>1. k \in 0 .. n /\ k - 1 \in 0 .. n
    BY <1>1
  <2>2. QED BY <1>11, <2>1
<1>17. QED
  <2> HIDE DEF t
  <2>1. QED BY <1>3, <1>15, <1>16 DEF n, A, base

\* After k tuples every part has got as many as there are among them, each where it goes.
Filled(data, a, k) ==
  /\ \A p \in Parts : a.hist[p] = Start(data, p) + Met(data, p, k)
  /\ \A j \in 1 .. k : a.list[Target(data, j)] = data[j]

\* Scattering all of a relation puts each of its tuples at its target.
LEMMA PartitionFilled ==
  ASSUME NEW data \in Seq(Tuple)
  PROVE  Partitioned(data) \in Arrays(Len(data)) /\ Filled(data, Partitioned(data), Len(data))
<1> DEFINE n == Len(data)
<1>1. n \in Nat /\ DOMAIN data = 1 .. n /\ \A i \in 1 .. n : data[i] \in Tuple
  OBVIOUS
<1>2. PICK h \in [0 .. n -> Arrays(n)] :
        /\ h[0] = [hist |-> Starts(data), list |-> [i \in DOMAIN data |-> <<0, 0>>]]
        /\ h[n] = Partitioned(data)
        /\ \A i \in 1 .. n : h[i] = Scattered(h[i - 1], data[i])
  BY PartitionSteps
<1>3. /\ \A j \in 1 .. n : Target(data, j) \in 1 .. n
      /\ \A i, j \in 1 .. n : Target(data, i) = Target(data, j) => i = j
  BY Targets
<1> DEFINE S == {k \in 0 .. n : Filled(data, h[k], k)}
<1>4. 0 \in S
  <2>1. 1 .. 0 = {} /\ 0 \in 0 .. n
    BY <1>1
  <2>2. ASSUME NEW p \in Parts
        PROVE  h[0].hist[p] = Start(data, p) + Met(data, p, 0)
    <3>1. Starts(data)[p] = Start(data, p) /\ Start(data, p) \in Nat
      BY StartIs
    <3>2. Met(data, p, 0) = 0
      BY <2>1, MetType
    <3>3. QED BY <1>2, <3>1, <3>2
  <2>3. QED BY <2>1, <2>2 DEF Filled
<1>5. ASSUME NEW k \in 0 .. (n - 1), k \in S
      PROVE  k + 1 \in S
  <2> DEFINE t == data[k + 1]
             q == PartOf(t)
             a == h[k]
             b == h[k + 1]
  <2>1. k + 1 \in 1 .. n /\ (k + 1) - 1 = k /\ k + 1 \in 0 .. n /\ k \in 0 .. n /\ k \in Nat
        /\ k + 1 > 0
    BY <1>1
  <2>2. /\ b = Scattered(a, t) /\ a \in Arrays(n) /\ t \in Tuple /\ q \in Parts
        /\ Filled(data, a, k)
    BY <1>1, <1>2, <1>5, <2>1, PartIs
  <2> HIDE DEF t, a, b, n
  <2>3. /\ \A p \in Parts : b.hist[p] = a.hist[p] + (IF q = p THEN 1 ELSE 0)
        /\ \A i \in 1 .. n : b.list[i] = IF i = a.hist[q] + 1 THEN t ELSE a.list[i]
    <3>1. n \in Nat /\ a \in Arrays(n) /\ t \in Tuple /\ b = Scattered(a, t)
      BY <1>1, <2>2
    <3> HIDE DEF q
    <3>2. /\ \A p \in Parts :
               Scattered(a, t).hist[p] = a.hist[p] + (IF PartOf(t) = p THEN 1 ELSE 0)
          /\ \A i \in 1 .. n :
               Scattered(a, t).list[i] = IF i = a.hist[PartOf(t)] + 1 THEN t ELSE a.list[i]
      BY <3>1, ScatteredIs
    <3>3. QED BY <3>1, <3>2 DEF q
  <2>4. a.hist \in [Parts -> Int] /\ a.list \in [1 .. n -> Slots]
    BY <2>2 DEF Arrays
  <2>5. \A p \in Parts : /\ a.hist[p] = Start(data, p) + Met(data, p, k)
                         /\ Start(data, p) \in Nat /\ Met(data, p, k) \in Nat
                         /\ Met(data, p, k + 1) = Met(data, p, k) + (IF q = p THEN 1 ELSE 0)
    <3> SUFFICES ASSUME NEW p \in Parts
                 PROVE  /\ a.hist[p] = Start(data, p) + Met(data, p, k)
                        /\ Start(data, p) \in Nat /\ Met(data, p, k) \in Nat
                        /\ Met(data, p, k + 1) = Met(data, p, k) + (IF q = p THEN 1 ELSE 0)
      OBVIOUS
    <3>1. a.hist[p] = Start(data, p) + Met(data, p, k) /\ Start(data, p) \in Nat
      BY <2>2, StartIs DEF Filled
    <3>2. Met(data, p, k) \in Nat
      BY <2>1, MetType DEF n
    <3>3. Met(data, p, k + 1) =
            Met(data, p, (k + 1) - 1) + (IF PartOf(data[k + 1]) = p THEN 1 ELSE 0)
      BY <2>1, MetType DEF n
    <3>4. QED BY <2>1, <3>1, <3>2, <3>3 DEF t
  <2>6. \A p \in Parts : b.hist[p] = Start(data, p) + Met(data, p, k + 1)
    <3> SUFFICES ASSUME NEW p \in Parts
                 PROVE  b.hist[p] = Start(data, p) + Met(data, p, k + 1)
      OBVIOUS
    <3> HIDE DEF q
    <3>1. b.hist[p] = a.hist[p] + (IF q = p THEN 1 ELSE 0)
      BY <2>3
    <3>2. QED BY <2>5, <3>1
  <2>7. Target(data, k + 1) = a.hist[q] + 1
    <3>1. Target(data, k + 1) = Start(data, q) + Met(data, q, k + 1)
      BY DEF Target, t
    <3> HIDE DEF q
    <3>2. QED BY <2>2, <2>5, <3>1
  <2>8. ASSUME NEW j \in 1 .. (k + 1)
        PROVE  b.list[Target(data, j)] = data[j]
    <3> HIDE DEF q
    <3>1. j \in 1 .. n /\ Target(data, j) \in 1 .. n
      BY <1>1, <1>3, <2>1
    <3>2. CASE j = k + 1
      BY <2>3, <2>4, <2>7, <3>1, <3>2 DEF t
    <3>3. CASE j # k + 1
      <4>1. j \in 1 .. k
        BY <2>1, <3>3
      <4>2. a.list[Target(data, j)] = data[j]
        BY <2>2, <4>1 DEF Filled
      <4>3. Target(data, j) # Target(data, k + 1)
        BY <1>3, <2>1, <3>1, <3>3
      <4>4. QED BY <2>3, <2>4, <2>7, <3>1, <4>2, <4>3
    <3>4. QED BY <3>2, <3>3
  <2>9. QED BY <2>1, <2>6, <2>8 DEF Filled, b
<1>6. n \in S
  <2> HIDE DEF S, n
  <2>1. 0 .. n \subseteq S
    BY <1>1, <1>4, <1>5, UpTo
  <2>2. QED BY <1>1, <2>1
<1>7. n \in 0 .. n
  BY <1>1
<1>8. QED BY <1>2, <1>6, <1>7

\* Part p of an array.
Piece(array, ends, p) == SubSeq(array, (IF p = 0 THEN 0 ELSE ends[p - 1]) + 1, ends[p])

\* A sequence has the tuples of part p in their order.
Holds(R, data, p) ==
  /\ R \in Seq(Tuple) /\ Len(R) = Met(data, p, Len(data))
  /\ \A i \in Among(data, p, Len(data)) : R[Met(data, p, i)] = data[i]

\* In the partitioned array, each part's region holds the tuples of the part, in order.
LEMMA PartitionedIs ==
  ASSUME NEW data \in Seq(Tuple)
  PROVE  /\ Partitioned(data).list \in Seq(Tuple)
         /\ Partitioned(data).hist \in [Parts -> 0 .. Len(Partitioned(data).list)]
         /\ \A p \in Parts :
              Holds(Piece(Partitioned(data).list, Partitioned(data).hist, p), data, p)
<1> DEFINE n == Len(data)
           L == Partitioned(data).list
           H == Partitioned(data).hist
<1>1. n \in Nat /\ n \in 0 .. n /\ DOMAIN data = 1 .. n /\ \A i \in 1 .. n : data[i] \in Tuple
  OBVIOUS
<1>2. H \in [Parts -> Int] /\ L \in [1 .. n -> Slots]
  BY PartitionFilled DEF Arrays
<1>3. /\ \A p \in Parts : H[p] = Start(data, p) + Met(data, p, n)
      /\ \A j \in 1 .. n : L[Target(data, j)] = data[j]
  BY PartitionFilled DEF Filled
<1> HIDE DEF L, H, n
<1>4. \A k \in 1 .. n : L[k] \in Tuple
  <2> SUFFICES ASSUME NEW k \in 1 .. n
               PROVE  L[k] \in Tuple
    OBVIOUS
  <2>1. PICK j \in 1 .. n : Target(data, j) = k
    BY Targets DEF n
  <2>2. QED BY <1>1, <1>3, <2>1
<1>5. L \in Seq(Tuple) /\ Len(L) = n
  <2>1. L = [k \in 1 .. n |-> L[k]]
    BY <1>2
  <2>2. QED BY <1>1, <1>4, <2>1, SequenceOf
<1>6. \A p \in Parts : /\ Start(data, p) \in Nat /\ Met(data, p, n) \in Nat
                       /\ H[p] = Start(data, p) + Met(data, p, n) /\ H[p] <= n
                       /\ (IF p = 0 THEN 0 ELSE H[p - 1]) = Start(data, p)
  <2> SUFFICES ASSUME NEW p \in Parts
               PROVE  /\ Start(data, p) \in Nat /\ Met(data, p, n) \in Nat
                      /\ H[p] = Start(data, p) + Met(data, p, n) /\ H[p] <= n
                      /\ (IF p = 0 THEN 0 ELSE H[p - 1]) = Start(data, p)
    OBVIOUS
  <2>1. /\ Start(data, p) \in Nat /\ Met(data, p, n) \in Nat
        /\ Start(data, p) + Met(data, p, n) <= n
        /\ p = 0 => Start(data, p) = 0
    BY StartIs DEF n
  <2>2. CASE p = 0
    BY <1>3, <2>1, <2>2
  <2>3. CASE p # 0
    <3>1. p - 1 \in Parts /\ (p - 1) + 1 = p
      BY <2>3, PartIs DEF Parts
    <3>2. Start(data, (p - 1) + 1) = Start(data, p - 1) + Met(data, p - 1, n)
      BY <3>1, StartIs DEF n
    <3>3. H[p - 1] = Start(data, p)
      BY <1>3, <3>1, <3>2
    <3>4. QED BY <1>3, <2>1, <2>3, <3>3
  <2>4. QED BY <2>2, <2>3
<1>7. H \in [Parts -> 0 .. n]
  BY <1>1, <1>2, <1>6
<1>8. ASSUME NEW p \in Parts
      PROVE  Holds(Piece(L, H, p), data, p)
  <2> DEFINE s == Start(data, p)
             m == Met(data, p, n)
             R == SubSeq(L, s + 1, s + m)
  <2>1. s \in Nat /\ m \in Nat /\ s + m <= n /\ Piece(L, H, p) = R
    BY <1>6 DEF Piece
  <2> HIDE DEF s, m
  <2>2. /\ R \in Seq(Tuple) /\ Len(R) = m
        /\ \A k \in 1 .. m : R[k] = L[s + k]
    BY <1>5, <2>1, SubSeqProperties
  <2> HIDE DEF R
  <2>3. ASSUME NEW i \in Among(data, p, n)
        PROVE  R[Met(data, p, i)] = data[i]
    <3>1. i \in 1 .. n /\ PartOf(data[i]) = p
      BY DEF Among
    <3>2. Target(data, i) = s + Met(data, p, i)
      BY <3>1 DEF Target, s
    <3>3. Met(data, p, i) \in 1 .. m
      <4>1. i \in 0 .. n /\ 0 \in 0 .. i /\ 0 < i
        BY <1>1, <3>1
      <4>2. Met(data, p, i) \in Nat /\ Met(data, p, 0) < Met(data, p, i) /\ Met(data, p, 0) \in Nat
        <5>1. i \in 0 .. Len(data) /\ 0 \in 0 .. Len(data)
          BY <1>1, <4>1 DEF n
        <5>2. QED BY <3>1, <4>1, <5>1, MetType
      <4>3. Met(data, p, i) <= m
        BY <1>1, <4>1, MetType DEF n, m
      <4>4. QED BY <2>1, <4>2, <4>3
    <3>4. QED BY <1>3, <2>2, <3>1, <3>2, <3>3
  <2>4. QED BY <2>1, <2>2, <2>3 DEF Holds, m, n
<1>9. QED BY <1>5, <1>7, <1>8 DEF L, H

\* A piece has the tuples of its part and no other, and each once.
LEMMA PieceTuples ==
  ASSUME NEW data \in Seq(Tuple), NEW p, NEW R, Holds(R, data, p)
  PROVE  /\ R \in Seq(Tuple)
         /\ Range(R) = {x \in Range(data) : PartOf(x) = p}
         /\ OwnRows(data) => OwnRows(R)
<1> DEFINE n == Len(data)
           m == Met(data, p, n)
           I == Among(data, p, n)
           f == [i \in I |-> Met(data, p, i)]
<1>1. n \in Nat /\ n \in 0 .. n /\ DOMAIN data = 1 .. n
  OBVIOUS
<1>2. IsFiniteSet(I) /\ m = Cardinality(I) /\ m \in Nat /\ I \subseteq 1 .. n
  BY <1>1, MetType DEF Met, Among
<1>3. R \in Seq(Tuple) /\ Len(R) = m /\ DOMAIN R = 1 .. m /\ \A i \in I : R[f[i]] = data[i]
  BY <1>2 DEF Holds
<1>4. ASSUME NEW i \in I
      PROVE  f[i] \in 1 .. m /\ \A k \in I : k < i => f[k] < f[i]
  <2>1. i \in 0 .. n /\ PartOf(data[i]) = p /\ 0 \in 0 .. i /\ 0 < i /\ 0 \in 0 .. n
    BY <1>1, <1>2 DEF Among
  <2>2. \A k \in 0 .. i : k < i => Met(data, p, k) < Met(data, p, i)
    BY <2>1, MetType
  <2>3. Met(data, p, i) <= m
    BY <1>1, <2>1, MetType
  <2>4. Met(data, p, 0) \in Nat /\ Met(data, p, i) \in Nat
    BY <2>1, MetType
  <2>5. Met(data, p, 0) < Met(data, p, i)
    BY <2>1, <2>2
  <2>6. Met(data, p, i) \in 1 .. m
    BY <1>2, <2>3, <2>4, <2>5
  <2>7. \A k \in I : k < i => k \in 0 .. i
    BY <1>2, <2>1
  <2>8. QED BY <2>2, <2>6, <2>7
<1> HIDE DEF n, m, f
<1>5. \A i, k \in I : f[i] = f[k] => i = k
  <2> SUFFICES ASSUME NEW i \in I, NEW k \in I, f[i] = f[k], i # k
               PROVE  FALSE
    OBVIOUS
  <2> HIDE DEF I
  <2>1. i < k \/ k < i
    BY <1>1, <1>2
  <2>2. f[i] \in 1 .. m /\ f[k] \in 1 .. m
    BY <1>4
  <2>3. f[i] < f[k] \/ f[k] < f[i]
    BY <1>4, <2>1
  <2>4. QED BY <1>2, <2>2, <2>3
<1>6. {f[i] : i \in I} = 1 .. m
  <2>1. Cardinality({f[i] : i \in I}) = Cardinality(I)
    <3> HIDE DEF I
    <3>1. QED BY <1>2, <1>5, ImageCardinality
  <2>2. IsFiniteSet(1 .. m) /\ Cardinality(1 .. m) = m
    BY <1>2, FS_Interval
  <2>3. {f[i] : i \in I} \subseteq 1 .. m
    BY <1>4
  <2> HIDE DEF I
  <2>4. QED BY <1>2, <2>1, <2>2, <2>3, FS_Subset
<1>7. \A k \in 1 .. m : \E i \in I : f[i] = k /\ R[k] = data[i]
  BY <1>3, <1>6
<1>8. Range(R) = {x \in Range(data) : PartOf(x) = p}
  <2>1. ASSUME NEW x \in Range(R)
        PROVE  x \in Range(data) /\ PartOf(x) = p
    <3>1. PICK k \in 1 .. m : x = R[k]
      BY <1>3 DEF Range
    <3>2. PICK i \in I : x = data[i]
      BY <1>7, <3>1
    <3>3. QED BY <1>1, <1>2, <3>2 DEF Range, Among
  <2>2. ASSUME NEW x \in Range(data), PartOf(x) = p
        PROVE  x \in Range(R)
    <3>1. PICK i \in 1 .. n : x = data[i]
      BY <1>1 DEF Range
    <3>2. i \in I
      BY <2>2, <3>1 DEF Among
    <3>3. QED BY <1>3, <1>4, <3>1, <3>2 DEF Range
  <2>3. QED BY <2>1, <2>2
<1>9. ASSUME OwnRows(data)
      PROVE  OwnRows(R)
  <2> SUFFICES ASSUME NEW k \in 1 .. m, NEW l \in 1 .. m, R[k][2] = R[l][2]
               PROVE  k = l
    BY <1>3 DEF OwnRows
  <2>1. PICK i \in I : f[i] = k /\ R[k] = data[i]
    BY <1>7
  <2>2. PICK j \in I : f[j] = l /\ R[l] = data[j]
    BY <1>7
  <2>3. i = j
    BY <1>1, <1>2, <1>9, <2>1, <2>2 DEF OwnRows
  <2>4. QED BY <2>1, <2>2, <2>3
<1>10. QED BY <1>3, <1>8, <1>9

\* A match is made of two tuples with its key.
LEMMA MatchIs ==
  ASSUME NEW left \in Seq(Tuple), NEW right \in Seq(Tuple), NEW m
  PROVE  m \in Matches(left, right) <=>
           \E a \in Range(left), b \in Range(right) : a[1] = b[1] /\ m = <<a[1], a[2], b[2]>>
<1>1. m \in Matches(left, right) <=> \E j \in DOMAIN right : m \in MatchesOf(left, right[j])
  BY MatchesAre
<1>2. \A b : m \in MatchesOf(left, b) <=>
               \E a \in Range(left) : a[1] = b[1] /\ m = <<a[1], a[2], b[2]>>
  <2> SUFFICES ASSUME NEW b
               PROVE  m \in MatchesOf(left, b) <=>
                        \E a \in Range(left) : a[1] = b[1] /\ m = <<a[1], a[2], b[2]>>
    OBVIOUS
  <2>1. m \in MatchesOf(left, b) <=>
          \E a \in Range(left) : a[1] = b[1] /\ m = <<b[1], a[2], b[2]>>
    BY DEF MatchesOf
  <2>2. QED BY <2>1
<1>3. QED BY <1>1, <1>2 DEF Range

\* The matches of two pieces are those of the relations that are of the part.
LEMMA PieceMatches ==
  ASSUME NEW left \in Seq(Tuple), NEW right \in Seq(Tuple), NEW p,
         NEW L, Holds(L, left, p), NEW R, Holds(R, right, p), NEW m
  PROVE  m \in Matches(L, R) <=> (m \in Matches(left, right) /\ PartOf(m) = p)
<1>1. /\ L \in Seq(Tuple) /\ Range(L) = {x \in Range(left) : PartOf(x) = p}
      /\ R \in Seq(Tuple) /\ Range(R) = {x \in Range(right) : PartOf(x) = p}
  BY PieceTuples
<1>2. \A x, y : x[1] = y[1] => PartOf(x) = PartOf(y)
  BY DEF PartOf
<1>3. \A a, b : (m = <<a[1], a[2], b[2]>>) => m[1] = a[1]
  OBVIOUS
<1>4. ASSUME m \in Matches(L, R)
      PROVE  m \in Matches(left, right) /\ PartOf(m) = p
  <2>1. PICK a \in Range(L), b \in Range(R) : a[1] = b[1] /\ m = <<a[1], a[2], b[2]>>
    BY <1>1, <1>4, MatchIs
  <2>2. a \in Range(left) /\ b \in Range(right) /\ PartOf(a) = p /\ m[1] = a[1]
    BY <1>1, <2>1
  <2>3. m \in Matches(left, right)
    BY <2>1, <2>2, MatchIs
  <2>4. QED BY <1>2, <2>2, <2>3
<1>5. ASSUME m \in Matches(left, right), PartOf(m) = p
      PROVE  m \in Matches(L, R)
  <2>1. PICK a \in Range(left), b \in Range(right) : a[1] = b[1] /\ m = <<a[1], a[2], b[2]>>
    BY <1>5, MatchIs
  <2>2. m[1] = a[1] /\ m[1] = b[1]
    BY <2>1
  <2>3. PartOf(a) = p /\ PartOf(b) = p
    BY <1>2, <1>5, <2>2
  <2>4. a \in Range(L) /\ b \in Range(R)
    BY <1>1, <2>3
  <2>5. QED BY <1>1, <2>1, <2>4, MatchIs
<1>6. QED BY <1>4, <1>5

--------------------------------------------------------------------------------
(* The generators. *)

\* The sums of a Zipf distribution.
Sums(f) ==
  /\ IsFiniteSet(DOMAIN f) /\ DOMAIN f = 0 .. (Cardinality(DOMAIN f) - 1)
  /\ f \in [DOMAIN f -> 0 .. One] /\ f[0] = 0
  /\ \A i \in DOMAIN f \ {0} : f[i - 1] <= f[i]
  /\ 0 \in DOMAIN f

\* The places of the sums that are at least z.
Above(f, z) == {k \in DOMAIN f : f[k] >= z}

\* The sums of a Zipf distribution never fall.
LEMMA SumsRise ==
  ASSUME NEW f, Sums(f), NEW i \in DOMAIN f, NEW j \in DOMAIN f, i <= j
  PROVE  f[i] <= f[j] /\ f[i] \in Nat /\ f[j] \in Nat
<1> DEFINE max == Cardinality(DOMAIN f) - 1
           S == {n \in 0 .. max : n < i \/ f[i] <= f[n]}
<1>1. DOMAIN f = 0 .. max /\ max \in Nat /\ i \in 0 .. max /\ j \in 0 .. max
  BY FS_CardinalityType DEF Sums
<1> HIDE DEF max
<1>2. \A n \in 0 .. max : f[n] \in Nat
  <2>1. \A x \in 0 .. One : x \in Nat
    BY GeneratorAssumption
  <2>2. QED BY <1>1, <2>1 DEF Sums
<1>3. 0 \in S
  BY <1>1, <1>2
<1>4. ASSUME NEW n \in 0 .. (max - 1), n \in S
      PROVE  n + 1 \in S
  <2>1. n + 1 \in 0 .. max /\ n \in 0 .. max /\ n + 1 # 0 /\ (n + 1) - 1 = n
    BY <1>1
  <2>2. f[n] <= f[n + 1]
    BY <1>1, <2>1 DEF Sums
  <2>3. CASE n < i
    <3>1. n + 1 < i \/ n + 1 = i
      BY <1>1, <2>3
    <3>2. QED BY <1>1, <1>2, <2>1, <3>1
  <2>4. CASE f[i] <= f[n]
    BY <1>1, <1>2, <2>1, <2>2, <2>4
  <2>5. QED BY <1>4, <2>3, <2>4
<1>5. 0 .. max \subseteq S
  <2> HIDE DEF S
  <2>1. QED BY <1>1, <1>3, <1>4, UpTo
<1>6. QED BY <1>1, <1>2, <1>5

\* The least number of a set.
LEMMA LeastIs ==
  ASSUME NEW T, NEW m \in T, T \subseteq Nat, \A x \in T : m <= x
  PROVE  Least(T) = m
<1>1. Least(T) \in T /\ \A y \in T : Least(T) <= y
  BY DEF Least
<1>2. Least(T) \in Nat /\ m \in Nat /\ Least(T) <= m /\ m <= Least(T)
  BY <1>1
<1>3. QED BY <1>2

\* The binary search finds the least sum that is not below z.
LEMMA SearchIs ==
  ASSUME NEW f, Sums(f), NEW z \in 1 .. One, NEW old
  PROVE  Search(f, z, old) = IF Above(f, z) # {} THEN Least(Above(f, z)) ELSE old
<1> DEFINE max == Cardinality(DOMAIN f) - 1
           P   == (1 .. (max + 1)) \X (0 .. max)
           V(g, low, high, mid) ==
             IF low > high THEN old
             ELSE CASE f[mid] >= z /\ f[mid - 1] < z  -> mid
                    [] f[mid] >= z /\ f[mid - 1] >= z -> g[<<low, mid - 1>>]
                    [] OTHER                          -> g[<<mid + 1, high>>]
           E(g) == g = [i \in P |-> V(g, i[1], i[2], (i[1] + i[2]) \div 2)]
           c    == CHOOSE g : E(g)
           k    == Least(Above(f, z))
           w    == [i \in P |-> IF Above(f, z) # {} /\ k \in i[1] .. i[2] THEN k ELSE old]
<1>1. Search(f, z, old) = c[<<1, max>>]
  BY DEF Search
<1>2. /\ DOMAIN f = 0 .. max /\ max \in Nat /\ f[0] = 0 /\ z \in Nat \ {0}
      /\ \A i \in 0 .. max : f[i] \in Nat
      /\ \A i, j \in 0 .. max : i <= j => f[i] <= f[j]
  <2>1. DOMAIN f = 0 .. max /\ max \in Nat /\ f[0] = 0
    BY FS_CardinalityType DEF Sums
  <2>2. z \in Nat \ {0}
    BY GeneratorAssumption
  <2>3. \A i, j \in DOMAIN f : i <= j => (f[i] <= f[j] /\ f[i] \in Nat)
    BY SumsRise
  <2>4. \A i \in 0 .. max : i <= i
    OBVIOUS
  <2> HIDE DEF max
  <2>5. QED BY <2>1, <2>2, <2>3, <2>4
<1> HIDE DEF max
<1>3. Above(f, z) # {} => /\ k \in 1 .. max /\ f[k] >= z /\ f[k - 1] < z
                          /\ \A i \in 1 .. max : f[i] >= z /\ f[i - 1] < z => i = k
                          /\ \A i \in 0 .. max : f[i] >= z => k <= i
  <2> SUFFICES ASSUME Above(f, z) # {}
               PROVE  /\ k \in 1 .. max /\ f[k] >= z /\ f[k - 1] < z
                      /\ \A i \in 1 .. max : f[i] >= z /\ f[i - 1] < z => i = k
                      /\ \A i \in 0 .. max : f[i] >= z => k <= i
    OBVIOUS
  <2>1. Above(f, z) \subseteq Nat /\ Above(f, z) = {i \in 0 .. max : f[i] >= z}
    BY <1>2 DEF Above
  <2>2. PICK m \in Above(f, z) : \A y \in Above(f, z) : m <= y
    BY <2>1, LeastNumber
  <2>3. k = m
    BY <2>1, <2>2, LeastIs
  <2> HIDE DEF k
  <2>4. k \in 0 .. max /\ f[k] >= z /\ \A i \in 0 .. max : f[i] >= z => k <= i
    BY <2>1, <2>2, <2>3
  <2>5. k # 0
    BY <1>2, <2>4
  <2>6. k - 1 \in 0 .. max /\ ~ (k <= k - 1)
    BY <1>2, <2>4, <2>5
  <2>7. f[k - 1] < z
    BY <1>2, <2>4, <2>6
  <2>8. ASSUME NEW i \in 1 .. max, f[i] >= z, f[i - 1] < z
        PROVE  i = k
    <3>1. k <= i /\ i \in 0 .. max /\ i - 1 \in 0 .. max
      <4>1. i \in 0 .. max /\ i - 1 \in 0 .. max
        BY <1>2
      <4>2. QED BY <2>4, <2>8, <4>1
    <3>2. ~ (k <= i - 1)
      <4>1. k <= i - 1 => f[k] <= f[i - 1]
        BY <1>2, <2>4, <3>1
      <4>2. f[k] \in Nat /\ f[i - 1] \in Nat
        BY <1>2, <2>4, <3>1
      <4>3. QED BY <1>2, <2>4, <2>8, <4>1, <4>2
    <3>3. QED BY <2>4, <3>1, <3>2
  <2>9. QED BY <2>4, <2>5, <2>7, <2>8
<1> HIDE DEF k
<1> DEFINE In(low, high) == Above(f, z) # {} /\ k \in low .. high
           W(low, high)  == IF In(low, high) THEN k ELSE old
\* What one step of the search makes of the answers for the two halves.
<1>4. ASSUME NEW low \in 1 .. (max + 1), NEW high \in 0 .. max, low <= high
      PROVE  LET mid == (low + high) \div 2
             IN  /\ mid \in 1 .. max /\ low <= mid /\ mid <= high
                 /\ mid - 1 \in 0 .. max /\ mid + 1 \in 1 .. (max + 1)
                 /\ W(low, high) =
                      CASE f[mid] >= z /\ f[mid - 1] < z  -> mid
                        [] f[mid] >= z /\ f[mid - 1] >= z -> W(low, mid - 1)
                        [] OTHER                          -> W(mid + 1, high)
  <2> DEFINE mid == (low + high) \div 2
  <2>1. /\ mid \in 1 .. max /\ low <= mid /\ mid <= high
        /\ mid - 1 \in 0 .. max /\ mid + 1 \in 1 .. (max + 1) /\ mid \in 0 .. max
    BY <1>2, <1>4
  <2> HIDE DEF mid
  <2>2. f[mid] \in Nat /\ f[mid - 1] \in Nat
    BY <1>2, <2>1
  <2>3. CASE f[mid] >= z /\ f[mid - 1] < z
    <3>1. Above(f, z) # {}
      BY <1>2, <2>1, <2>3 DEF Above
    <3>2. mid = k
      BY <1>3, <2>1, <2>3, <3>1
    <3>3. In(low, high)
      BY <1>2, <1>4, <2>1, <3>1, <3>2
    <3>4. W(low, high) = mid
      BY <3>2, <3>3
    <3> HIDE DEF W, In
    <3>5. QED BY <1>2, <2>1, <2>2, <2>3, <3>4 DEF mid
  <2>4. CASE f[mid] >= z /\ f[mid - 1] >= z
    <3>1. Above(f, z) # {}
      BY <1>2, <2>1, <2>4 DEF Above
    <3>2. k <= mid - 1
      BY <1>3, <2>1, <2>4, <3>1
    <3>3. k \in 1 .. max
      BY <1>3, <3>1
    <3>4. k \in low .. high <=> k \in low .. (mid - 1)
      BY <1>2, <1>4, <2>1, <3>2, <3>3
    <3>5. W(low, high) = W(low, mid - 1)
      BY <3>4
    <3> HIDE DEF W, In
    <3>6. ~ (f[mid - 1] < z) /\ ~ (f[mid] < z)
      BY <1>2, <2>2, <2>4
    <3>7. QED BY <2>1, <2>4, <3>5, <3>6 DEF mid
  <2>5. CASE f[mid] < z
    <3>1. Above(f, z) # {} => k \in 1 .. max /\ ~ (k <= mid)
      <4> SUFFICES ASSUME Above(f, z) # {}
                   PROVE  k \in 1 .. max /\ ~ (k <= mid)
        OBVIOUS
      <4>1. k \in 1 .. max /\ f[k] >= z
        BY <1>3
      <4>2. k <= mid => f[k] <= f[mid]
        BY <1>2, <2>1, <4>1
      <4>3. f[k] \in Nat
        BY <1>2, <4>1
      <4>4. QED BY <1>2, <2>2, <2>5, <4>1, <4>2, <4>3
    <3>2. In(low, high) <=> In(mid + 1, high)
      BY <1>2, <1>4, <2>1, <3>1
    <3>3. W(low, high) = W(mid + 1, high)
      BY <3>2
    <3> HIDE DEF W, In
    <3>4. ~ (f[mid] >= z)
      BY <1>2, <2>2, <2>5
    <3>5. QED BY <2>1, <2>5, <3>3, <3>4 DEF mid
  <2>6. (f[mid] >= z \/ f[mid] < z) /\ (f[mid - 1] >= z \/ f[mid - 1] < z)
    BY <1>2, <2>2
  <2>7. QED BY <2>3, <2>4, <2>5, <2>6
<1>5. \A low \in 1 .. (max + 1), high \in 0 .. max :
        /\ <<low, high>> \in P /\ <<low, high>>[1] = low /\ <<low, high>>[2] = high
        /\ w[<<low, high>>] = W(low, high)
        /\ low > high => W(low, high) = old
  <2> SUFFICES ASSUME NEW low \in 1 .. (max + 1), NEW high \in 0 .. max
               PROVE  /\ <<low, high>> \in P /\ <<low, high>>[1] = low /\ <<low, high>>[2] = high
                      /\ w[<<low, high>>] = W(low, high)
                      /\ low > high => W(low, high) = old
    OBVIOUS
  <2>1. <<low, high>> \in P /\ <<low, high>>[1] = low /\ <<low, high>>[2] = high
    OBVIOUS
  <2>2. w[<<low, high>>] = W(low, high)
    BY <2>1
  <2>3. low > high => low .. high = {}
    BY <1>2
  <2>4. QED BY <2>1, <2>2, <2>3
<1>6. \A i \in P : i[1] \in 1 .. (max + 1) /\ i[2] \in 0 .. max /\ i = <<i[1], i[2]>>
  OBVIOUS
<1> HIDE DEF W, w, P
<1>7. E(w)
  <2>1. w = [i \in P |-> w[i]]
    BY DEF w
  <2>2. ASSUME NEW i \in P
        PROVE  w[i] = V(w, i[1], i[2], (i[1] + i[2]) \div 2)
    <3> DEFINE low  == i[1]
               high == i[2]
               mid  == (low + high) \div 2
    <3>1. low \in 1 .. (max + 1) /\ high \in 0 .. max /\ i = <<low, high>>
      BY <1>6
    <3>2. w[i] = W(low, high)
      BY <1>5, <3>1
    <3> HIDE DEF low, high
    <3>3. CASE low > high
      <4>1. W(low, high) = old
        BY <1>5, <3>1, <3>3
      <4>2. QED BY <3>2, <3>3, <4>1 DEF low, high
    <3>4. CASE ~ (low > high)
      <4>1. low <= high
        BY <1>2, <3>1, <3>4
      <4>2. /\ mid \in 1 .. max /\ mid - 1 \in 0 .. max /\ mid + 1 \in 1 .. (max + 1)
            /\ W(low, high) =
                 CASE f[mid] >= z /\ f[mid - 1] < z  -> mid
                   [] f[mid] >= z /\ f[mid - 1] >= z -> W(low, mid - 1)
                   [] OTHER                          -> W(mid + 1, high)
        BY <1>4, <3>1, <4>1
      <4> HIDE DEF mid
      <4>3. w[<<low, mid - 1>>] = W(low, mid - 1) /\ w[<<mid + 1, high>>] = W(mid + 1, high)
        BY <1>5, <3>1, <4>2
      <4>4. w[i] = V(w, low, high, mid)
        BY <3>2, <3>4, <4>2, <4>3
      <4> HIDE DEF V
      <4>5. QED BY <4>4 DEF low, high, mid
    <3>5. QED BY <3>3, <3>4
  <2> HIDE DEF V
  <2>3. QED BY <2>1, <2>2
<1>8. E(c)
  <2> HIDE DEF E
  <2>1. QED BY <1>7
<1>9. ASSUME NEW low \in 1 .. (max + 1), NEW high \in 0 .. max
      PROVE  c[<<low, high>>] = V(c, low, high, (low + high) \div 2)
  <2> HIDE DEF c, V
  <2>1. <<low, high>> \in P /\ <<low, high>>[1] = low /\ <<low, high>>[2] = high
    BY <1>5
  <2>2. c[<<low, high>>] =
          V(c, <<low, high>>[1], <<low, high>>[2], (<<low, high>>[1] + <<low, high>>[2]) \div 2)
    BY <1>8, <2>1
  <2>3. QED BY <2>1, <2>2
<1> HIDE DEF c, E
<1> DEFINE S == {n \in 0 .. (max + 1) :
                   \A low \in 1 .. (max + 1), high \in 0 .. max :
                     high + 1 - low <= n => c[<<low, high>>] = W(low, high)}
<1>10. ASSUME NEW low \in 1 .. (max + 1), NEW high \in 0 .. max, low > high
       PROVE  c[<<low, high>>] = W(low, high)
  BY <1>5, <1>9, <1>10
<1>11. 0 \in S
  <2>1. \A low \in 1 .. (max + 1), high \in 0 .. max : high + 1 - low <= 0 => low > high
    BY <1>2
  <2>2. 0 \in 0 .. (max + 1)
    BY <1>2
  <2>3. QED BY <1>10, <2>1, <2>2
<1>12. ASSUME NEW n \in 0 .. max, n \in S
       PROVE  n + 1 \in S
  <2>0. n + 1 \in 0 .. (max + 1) /\ n \in Nat
    BY <1>2
  <2> SUFFICES ASSUME NEW low \in 1 .. (max + 1), NEW high \in 0 .. max, high + 1 - low <= n + 1
               PROVE  c[<<low, high>>] = W(low, high)
    BY <2>0
  <2>1. CASE low > high
    BY <1>10, <2>1
  <2>2. CASE ~ (low > high)
    <3> DEFINE mid == (low + high) \div 2
    <3>1. low <= high
      BY <1>2, <2>2
    <3>2. /\ mid \in 1 .. max /\ mid - 1 \in 0 .. max /\ mid + 1 \in 1 .. (max + 1)
          /\ low <= mid /\ mid <= high
          /\ W(low, high) =
               CASE f[mid] >= z /\ f[mid - 1] < z  -> mid
                 [] f[mid] >= z /\ f[mid - 1] >= z -> W(low, mid - 1)
                 [] OTHER                          -> W(mid + 1, high)
      BY <1>4, <3>1
    <3>3. c[<<low, high>>] = V(c, low, high, mid)
      BY <1>9
    <3> HIDE DEF mid
    <3>4. (mid - 1) + 1 - low <= n /\ high + 1 - (mid + 1) <= n
      <4>1. mid \in Int /\ low \in Int /\ high \in Int /\ low <= mid /\ mid <= high
        BY <1>2, <3>2
      <4>2. QED BY <2>0, <4>1
    <3>5. c[<<low, mid - 1>>] = W(low, mid - 1) /\ c[<<mid + 1, high>>] = W(mid + 1, high)
      BY <1>12, <3>2, <3>4
    <3>6. QED BY <2>2, <3>2, <3>3, <3>5
  <2>3. QED BY <2>1, <2>2
<1>13. max + 1 \in S
  <2> HIDE DEF S
  <2>1. max + 1 \in Nat
    BY <1>2
  <2>2. 0 .. (max + 1) \subseteq S
    <3> DEFINE m == max + 1
    <3>1. ASSUME NEW n \in 0 .. (m - 1), n \in S
          PROVE  n + 1 \in S
      <4>1. n \in 0 .. max
        BY <1>2
      <4>2. QED BY <1>12, <3>1, <4>1
    <3> HIDE DEF m
    <3>2. m \in Nat
      BY <2>1 DEF m
    <3>3. 0 .. m \subseteq S
      BY <1>11, <3>1, <3>2, UpTo
    <3>4. QED BY <3>3 DEF m
  <2>3. QED BY <2>1, <2>2
<1>14. c[<<1, max>>] = W(1, max)
  <2>1. 1 \in 1 .. (max + 1) /\ max \in 0 .. max /\ max + 1 - 1 <= max + 1
    BY <1>2
  <2>2. QED BY <1>13, <2>1
<1>15. QED BY <1>1, <1>3, <1>14 DEF W, k

\* The keys of a Zipf distribution, each from its number and the key before it.
Drawn(K, f, stream, n) ==
  \A i \in 1 .. n :
    /\ K[i] \in DOMAIN f
    /\ K[i] = IF Above(f, stream[i]) # {} THEN Least(Above(f, stream[i]))
              ELSE IF i = 1 THEN 0 ELSE K[i - 1]

\* ZipfKeys draws each key as described by Drawn.
LEMMA ZipfKeysAre ==
  ASSUME NEW f, Sums(f), NEW n \in Nat, NEW stream \in [1 .. n -> 1 .. (One - 1)]
  PROVE  Drawn(ZipfKeys(f, stream), f, stream, n)
<1> DEFINE D == DOMAIN f
           G == [i \in 1 .. n |-> [a \in D |-> Search(f, stream[i], a)]]
           E(g) == g = [i \in 0 .. n |-> IF i = 0 THEN 0 ELSE Search(f, stream[i], g[i - 1])]
           c == CHOOSE g : E(g)
<1>1. Len(stream) = n /\ DOMAIN stream = 1 .. n
  OBVIOUS
<1>2. ZipfKeys(f, stream) = [i \in 1 .. n |-> c[i]]
  BY <1>1 DEF ZipfKeys
<1>3. 0 \in D /\ D \subseteq Nat
  BY FS_CardinalityType DEF Sums
<1>4. ASSUME NEW i \in 1 .. n, NEW a
      PROVE  /\ Search(f, stream[i], a) =
                  IF Above(f, stream[i]) # {} THEN Least(Above(f, stream[i])) ELSE a
             /\ a \in D => Search(f, stream[i], a) \in D
  <2>1. stream[i] \in 1 .. One
    BY GeneratorAssumption
  <2>2. Search(f, stream[i], a) =
          IF Above(f, stream[i]) # {} THEN Least(Above(f, stream[i])) ELSE a
    BY <2>1, SearchIs
  <2>3. Above(f, stream[i]) # {} => Least(Above(f, stream[i])) \in D
    <3> SUFFICES ASSUME Above(f, stream[i]) # {}
                 PROVE  Least(Above(f, stream[i])) \in D
      OBVIOUS
    <3>1. Above(f, stream[i]) \subseteq D
      BY DEF Above
    <3>2. PICK m \in Above(f, stream[i]) : \A y \in Above(f, stream[i]) : m <= y
      BY <1>3, <3>1, LeastNumber
    <3>3. Least(Above(f, stream[i])) = m
      BY <1>3, <3>1, <3>2, LeastIs
    <3>4. QED BY <3>1, <3>3
  <2>4. QED BY <2>2, <2>3
<1> HIDE DEF D
<1>5. PICK h : Succeeds(h, G, n, D, 0)
  <2>1. Keeps(G, n, D)
    BY <1>4 DEF Keeps
  <2> HIDE DEF G
  <2>2. QED BY <1>3, <2>1, Successive
<1>6. E(h)
  <2>1. h \in [0 .. n -> D] /\ h[0] = 0 /\ \A i \in 1 .. n : h[i] = G[i][h[i - 1]]
    BY <1>5 DEF Succeeds
  <2>2. ASSUME NEW i \in 0 .. n
        PROVE  h[i] = IF i = 0 THEN 0 ELSE Search(f, stream[i], h[i - 1])
    <3>1. CASE i = 0
      BY <2>1, <3>1
    <3>2. CASE i # 0
      <4>1. i \in 1 .. n /\ i - 1 \in 0 .. n
        BY <3>2
      <4>2. h[i - 1] \in D
        BY <2>1, <4>1
      <4>3. QED BY <2>1, <3>2, <4>1, <4>2
    <3>3. QED BY <3>1, <3>2
  <2>3. QED BY <2>1, <2>2
<1>7. E(c)
  <2> HIDE DEF E
  <2>1. QED BY <1>6
<1> HIDE DEF c, G
<1>8. c[0] = 0 /\ \A i \in 1 .. n : c[i] = Search(f, stream[i], c[i - 1])
  BY <1>7
<1> DEFINE S == {i \in 0 .. n : c[i] \in D}
<1>9. 0 \in S
  BY <1>3, <1>8
<1>10. ASSUME NEW i \in 0 .. (n - 1), i \in S
       PROVE  i + 1 \in S
  <2>1. i + 1 \in 1 .. n /\ i + 1 \in 0 .. n /\ (i + 1) - 1 = i
    OBVIOUS
  <2>2. c[i + 1] = Search(f, stream[i + 1], c[i]) /\ c[i] \in D
    BY <1>8, <1>10, <2>1
  <2>3. QED BY <1>4, <2>1, <2>2
<1>11. 0 .. n \subseteq S
  <2> HIDE DEF S
  <2>1. QED BY <1>9, <1>10, UpTo
<1>12. ASSUME NEW i \in 1 .. n
       PROVE  /\ c[i] \in D
              /\ c[i] = IF Above(f, stream[i]) # {} THEN Least(Above(f, stream[i]))
                        ELSE IF i = 1 THEN 0 ELSE ZipfKeys(f, stream)[i - 1]
  <2>1. c[i] \in D
    BY <1>11
  <2>2. c[i] = IF Above(f, stream[i]) # {} THEN Least(Above(f, stream[i])) ELSE c[i - 1]
    BY <1>4, <1>8
  <2>3. c[i - 1] = IF i = 1 THEN 0 ELSE ZipfKeys(f, stream)[i - 1]
    <3>1. CASE i = 1
      BY <1>8, <3>1
    <3>2. CASE i # 1
      <4>1. i - 1 \in 1 .. n
        BY <3>2
      <4>2. QED BY <1>2, <3>2, <4>1
    <3>3. QED BY <3>1, <3>2
  <2>4. QED BY <2>1, <2>2, <2>3
<1>13. QED BY <1>2, <1>12 DEF D, Drawn

\* A generator's kind is one of three.
LEMMA ParameterIs ==
  ASSUME NEW p \in Parameters
  PROVE  /\ p.kind \in {"incremental", "uniform", "zipf"} /\ Count(p) \in Nat
         /\ p.kind # "incremental" => p.count \in Nat /\ Count(p) = p.count
         /\ p.kind = "zipf" => Sums(p.sums)
<1>1. 2 ^ CountBits \in Nat \ {0}
  BY GeneratorAssumption, PowerOfTwo
<1>2. CASE p.kind = "incremental"
  <2>1. p.start \in 0 .. (2 ^ CountBits - 1) /\ p.ending \in 0 .. (2 ^ CountBits - 1)
    BY <1>2, GeneratorAssumption
  <2>2. 2 ^ CountBits + p.ending - p.start + 1 \in Nat
    BY <1>1, <2>1
  <2>3. (2 ^ CountBits + p.ending - p.start + 1) % 2 ^ CountBits \in Nat
    <3> HIDE DEF Count
    <3>1. QED BY <1>1, <2>2
  <2>4. QED BY <1>2, <2>3 DEF Count
<1>3. CASE p.kind = "uniform"
  BY <1>3, GeneratorAssumption DEF Count
<1>4. CASE p.kind = "zipf"
  BY <1>4, GeneratorAssumption DEF Count, Sums
<1>5. QED BY <1>2, <1>3, <1>4, GeneratorAssumption

\* What a generator that was made with its parameters appends at each build().
LEMMA TuplesAre ==
  ASSUME NEW g, g.with \in Parameters, g.kind = g.with.kind, g.stream \in Streams(g.with),
         Count(g.with) <= MaxSize
  PROVE  /\ Tuples(g) \in Seq(Tuple) /\ Len(Tuples(g)) = Count(g.with)
         /\ \A i \in 1 .. Count(g.with) :
              /\ Tuples(g)[i][2] = i - 1
              /\ g.kind = "incremental" => Tuples(g)[i][1] = i - 1
              /\ g.kind = "uniform" => Tuples(g)[i][1] \in g.with.min .. g.with.max
              /\ g.kind = "zipf" =>
                   Tuples(g)[i][1] =
                     IF Above(g.with.sums, g.stream[i]) # {}
                       THEN Least(Above(g.with.sums, g.stream[i]))
                     ELSE IF i = 1 THEN 0 ELSE Tuples(g)[i - 1][1]
<1> DEFINE p == g.with
           n == Count(p)
           t == Tuples(g)
<1>1. n \in Nat /\ p.kind \in {"incremental", "uniform", "zipf"} /\ p \in Parameters
  BY ParameterIs
<1>2. t = [i \in 1 .. n |-> <<Key(g, i), i - 1>>]
  BY DEF Tuples
<1> HIDE DEF n, t
<1>3. CASE p.kind = "incremental"
  <2>1. 0 .. (n - 1) \subseteq Keys
    BY <1>3, KeyAssumption DEF n
  <2>2. \A i \in 1 .. n : Key(g, i) = i - 1 /\ i - 1 \in 0 .. (n - 1) /\ i - 1 \in Nat
    BY <1>1, <1>3 DEF Key
  <2>3. \A i \in 1 .. n : t[i] \in Tuple /\ t[i][2] = i - 1 /\ t[i][1] = i - 1
    BY <1>2, <2>1, <2>2 DEF Tuple
  <2>4. t \in Seq(Tuple) /\ Len(t) = n
    BY <1>1, <1>2, <2>3, SequenceOf
  <2>5. QED BY <1>3, <2>3, <2>4 DEF n, t
<1>4. CASE p.kind = "uniform"
  <2>1. p.min .. p.max \subseteq Keys
    BY <1>4, KeyAssumption
  <2>2. n = p.count /\ g.stream \in [1 .. p.count -> p.min .. p.max]
    BY <1>4, ParameterIs DEF n, Streams
  <2>3. \A i \in 1 .. n : Key(g, i) \in p.min .. p.max /\ Key(g, i) \in Keys /\ i - 1 \in Nat
    BY <1>1, <1>4, <2>1, <2>2 DEF Key
  <2>4. \A i \in 1 .. n : t[i] \in Tuple /\ t[i][2] = i - 1 /\ t[i][1] \in p.min .. p.max
    BY <1>2, <2>3 DEF Tuple
  <2>5. t \in Seq(Tuple) /\ Len(t) = n
    BY <1>1, <1>2, <2>4, SequenceOf
  <2>6. QED BY <1>4, <2>4, <2>5 DEF n, t
<1>5. CASE p.kind = "zipf"
  <2> DEFINE K == ZipfKeys(p.sums, g.stream)
  <2>1. DOMAIN p.sums \subseteq Keys
    BY <1>5, KeyAssumption
  <2>2. n = p.count /\ g.stream \in [1 .. n -> 1 .. (One - 1)] /\ Sums(p.sums)
    BY <1>5, ParameterIs DEF n, Streams
  <2>3. \A i \in 1 .. n :
          /\ K[i] \in DOMAIN p.sums
          /\ K[i] = IF Above(p.sums, g.stream[i]) # {} THEN Least(Above(p.sums, g.stream[i]))
                    ELSE IF i = 1 THEN 0 ELSE K[i - 1]
    <3>1. Drawn(K, p.sums, g.stream, n)
      BY <1>1, <2>2, ZipfKeysAre
    <3>2. QED BY <3>1 DEF Drawn
  <2> HIDE DEF K
  <2>4. \A i \in 1 .. n : t[i] = <<K[i], i - 1>>
    BY <1>2, <1>5 DEF Key, K
  <2>5. \A i \in 1 .. n : t[i] \in Tuple /\ t[i][2] = i - 1 /\ t[i][1] = K[i]
    <3> SUFFICES ASSUME NEW i \in 1 .. n
                 PROVE  t[i] \in Tuple /\ t[i][2] = i - 1 /\ t[i][1] = K[i]
      OBVIOUS
    <3>1. K[i] \in Keys /\ i - 1 \in Nat
      BY <1>1, <2>1, <2>3
    <3>2. QED BY <2>4, <3>1 DEF Tuple
  <2>6. t \in Seq(Tuple) /\ Len(t) = n
    BY <1>1, <1>2, <2>5, SequenceOf
  <2>7. \A i \in 1 .. n : i # 1 => t[i - 1][1] = K[i - 1]
    <3>1. \A i \in 1 .. n : i # 1 => i - 1 \in 1 .. n
      BY <1>1
    <3>2. QED BY <2>5, <3>1
  <2>8. \A i \in 1 .. n :
          t[i][1] = IF Above(p.sums, g.stream[i]) # {} THEN Least(Above(p.sums, g.stream[i]))
                    ELSE IF i = 1 THEN 0 ELSE t[i - 1][1]
    BY <2>3, <2>5, <2>7
  <2>9. QED BY <1>5, <2>5, <2>6, <2>8 DEF n, t
<1>6. QED BY <1>1, <1>3, <1>4, <1>5

\* Counting modulo n goes around.
LEMMA Around ==
  ASSUME NEW x \in Nat, NEW n \in Nat \ {0}
  PROVE  /\ x % n \in 0 .. (n - 1) /\ (x + n) % n = x % n
         /\ x < n => x % n = x
         /\ \A k \in Nat : (k * n + x) % n = x % n
<1> DEFINE q == x \div n
           r == x % n
<1>1. q \in Nat /\ r \in 0 .. (n - 1) /\ x = q * n + r
  OBVIOUS
<1>2. ASSUME NEW k \in Nat
      PROVE  (k * n + x) % n = r
  <2> HIDE DEF q, r
  <2>1. k + q \in Nat /\ k * n \in Nat /\ q * n \in Nat /\ (k + q) * n = k * n + q * n
    BY <1>1
  <2>2. k * n + x = (k + q) * n + r
    BY <1>1, <2>1
  <2> DEFINE m == k + q
  <2>3. m \in Nat
    BY <2>1
  <2> HIDE DEF m
  <2>4. (m * n + r) % n = r
    BY <1>1, <2>3
  <2>5. QED BY <2>2, <2>4 DEF m
<1>3. (x + n) % n = r
  <2>1. 1 * n + x = x + n
    OBVIOUS
  <2>2. (1 * n + x) % n = r
    BY <1>2
  <2> HIDE DEF r
  <2>3. QED BY <2>1, <2>2
<1>4. x < n => x % n = x
  OBVIOUS
<1>5. QED BY <1>1, <1>2, <1>3, <1>4

\* The sequence d is k times the sequence t.
Repeats(d, t, k) ==
  /\ d \in Seq(Tuple) /\ Len(d) = k * Len(t)
  /\ \A i \in DOMAIN d : d[i] = t[((i - 1) % Len(t)) + 1]

\* Appending t once more.
LEMMA RepeatsOnce ==
  ASSUME NEW t \in Seq(Tuple), NEW d, NEW k \in Nat, Repeats(d, t, k)
  PROVE  Repeats(d \o t, t, k + 1)
<1> DEFINE n == Len(t)
           e == d \o t
<1>1. /\ n \in Nat /\ d \in Seq(Tuple) /\ Len(d) = k * n
      /\ \A i \in DOMAIN d : d[i] = t[((i - 1) % n) + 1]
  BY DEF Repeats
<1>2. /\ e \in Seq(Tuple) /\ Len(e) = k * n + n
      /\ \A i \in DOMAIN d : e[i] = d[i]
      /\ \A i \in DOMAIN e :
           i \in DOMAIN d \/ (i \notin DOMAIN d /\ i - k * n \in DOMAIN t /\ e[i] = t[i - k * n])
      /\ DOMAIN t = 1 .. n /\ DOMAIN e = 1 .. (k * n + n)
  <2> HIDE DEF n
  <2>1. /\ e \in Seq(Tuple) /\ Len(e) = Len(d) + Len(t)
        /\ \A i \in DOMAIN d : e[i] = d[i]
        /\ \A i \in DOMAIN e :
             \/ i \in DOMAIN d
             \/ i \notin DOMAIN d /\ i - Len(d) \in DOMAIN t /\ e[i] = t[i - Len(d)]
        /\ DOMAIN t = 1 .. Len(t) /\ DOMAIN e = 1 .. (Len(d) + Len(t))
    <3>1. d \in Seq(Tuple)
      BY <1>1
    <3>2. QED BY <3>1, Concatenated
  <2> HIDE DEF e
  <2>2. QED BY <1>1, <2>1 DEF n
<1>3. k * n + n = (k + 1) * n /\ k * n \in Nat
  BY <1>1
<1> HIDE DEF e, n
<1>4. ASSUME NEW i \in DOMAIN e
      PROVE  e[i] = t[((i - 1) % n) + 1]
  <2>1. CASE i \in DOMAIN d
    BY <1>1, <1>2, <2>1
  <2>2. CASE i \notin DOMAIN d
    <3> DEFINE m == k * n
               x == i - m - 1
    <3>1. i - m \in 1 .. n /\ e[i] = t[i - m] /\ m \in Nat /\ i \in Nat
      BY <1>2, <1>3, <2>2
    <3>2. n \in Nat \ {0} /\ x \in Nat /\ x < n
      BY <1>1, <3>1
    <3>3. x % n = x /\ (k * n + x) % n = x % n
      <4> HIDE DEF x
      <4>1. QED BY <3>2, Around
    <3> HIDE DEF m
    <3>4. m + x = i - 1 /\ x + 1 = i - m
      BY <3>1
    <3> HIDE DEF x
    <3>5. (i - 1) % n = x
      BY <3>3, <3>4 DEF m
    <3>6. QED BY <3>1, <3>4, <3>5
  <2>3. QED BY <2>1, <2>2
<1>5. QED BY <1>2, <1>3, <1>4 DEF Repeats, e, n

\* Nothing is t taken no times.
LEMMA RepeatsNothing ==
  ASSUME NEW t \in Seq(Tuple)
  PROVE  Repeats(<<>>, t, 0)
BY DEF Repeats

\* What build() appends depends only on what the object was made with.
LEMMA SameTuples ==
  ASSUME NEW g, NEW h, g.with \in Parameters, g.kind = g.with.kind,
         h.kind = g.kind, h.with = g.with, h.stream = g.stream
  PROVE  Tuples(h) = Tuples(g)
<1>1. g.kind \in {"incremental", "uniform", "zipf"}
  BY ParameterIs
<1>2. \A i : Key(h, i) = Key(g, i)
  <2>1. CASE g.kind = "incremental"
    BY <2>1 DEF Key
  <2>2. CASE g.kind = "uniform"
    BY <2>2 DEF Key
  <2>3. CASE g.kind = "zipf"
    BY <2>3 DEF Key
  <2>4. QED BY <1>1, <2>1, <2>2, <2>3
<1>3. QED BY <1>2 DEF Tuples

\* A generator object, with its data.
Made(g) ==
  /\ g = [kind |-> g.kind, with |-> g.with, stream |-> g.stream, built |-> g.built,
          data |-> g.data, builds |-> g.builds]
  /\ g.with \in Parameters /\ g.kind = g.with.kind /\ g.stream \in Streams(g.with)
  /\ g.built \in BOOLEAN /\ g.builds \in 0 .. MaxBuilds
  /\ g.data \in Seq(Tuple)
  /\ g.built /\ g.kind # "zipf" => g.builds > 0
  /\ IF g.builds = 0 THEN g.data = <<>>
     ELSE g.built /\ Count(g.with) <= MaxSize /\ Repeats(g.data, Tuples(g), g.builds)

\* What holds of the generator: it is what it was made with, and its data is what build()
\* has made, as often as it was called.
GenInv == gen = NoGenerator \/ Made(gen)

\* A generator that was made is one.
LEMMA MadeLives ==
  ASSUME NEW g, Made(g)
  PROVE  g.kind # "none" /\ g # NoGenerator
BY ParameterIs DEF Made, NoGenerator

\* A new generator has no data.
LEMMA GeneratorStarts == NewGenerator => GenInv'
<1> SUFFICES ASSUME NewGenerator
             PROVE  Made(gen')
  BY DEF GenInv, Made
<1>0. PICK p \in Parameters : \E s \in Streams(p) :
        gen' = [kind |-> p.kind, with |-> p, stream |-> s, built |-> FALSE, data |-> <<>>,
                builds |-> 0]
  BY DEF NewGenerator
<1>1. PICK s \in Streams(p) :
        gen' = [kind |-> p.kind, with |-> p, stream |-> s, built |-> FALSE, data |-> <<>>,
                builds |-> 0]
  BY <1>0
<1>2. 0 \in 0 .. MaxBuilds /\ <<>> \in Seq(Tuple)
  BY GeneratorAssumption
<1>3. QED BY <1>1, <1>2 DEF Made

\* build() appends the generator's tuples once more.
LEMMA GeneratorBuilds ==
  ASSUME GenInv, Build
  PROVE  GenInv'
<1>1. Live /\ gen.builds < MaxBuilds /\ Count(gen.with) <= MaxSize
  BY DEF Build
<1>2. Made(gen)
  BY <1>1 DEF GenInv, Live, NoGenerator
<1> DEFINE t == Tuples(gen)
           d == gen.data \o t
           new == [kind |-> gen.kind, with |-> gen.with, stream |-> gen.stream, built |-> TRUE,
                   data |-> d, builds |-> gen.builds + 1]
<1>3. t \in Seq(Tuple)
  BY <1>1, <1>2, TuplesAre DEF Made
<1>4. gen.builds \in Nat /\ gen.builds + 1 \in 0 .. MaxBuilds /\ gen.data \in Seq(Tuple)
  BY <1>1, <1>2, GeneratorAssumption DEF Made
<1>5. Repeats(gen.data, t, gen.builds)
  <2>1. CASE gen.builds = 0
    <3>1. gen.data = <<>>
      BY <1>2, <2>1 DEF Made
    <3> HIDE DEF t
    <3>2. QED BY <1>3, <2>1, <3>1, RepeatsNothing
  <2>2. CASE gen.builds # 0
    BY <1>2, <2>2 DEF Made
  <2>3. QED BY <2>1, <2>2
<1>6. Repeats(d, t, gen.builds + 1)
  <2> HIDE DEF t
  <2>1. QED BY <1>3, <1>4, <1>5, RepeatsOnce
<1>7. gen' = new
  <2>1. gen' = [gen EXCEPT !.built = TRUE, !.data = gen.data \o Tuples(gen),
                           !.builds = gen.builds + 1]
    BY DEF Build
  <2> HIDE DEF t
  <2>2. gen = [kind |-> gen.kind, with |-> gen.with, stream |-> gen.stream, built |-> gen.built,
               data |-> gen.data, builds |-> gen.builds]
    BY <1>2 DEF Made
  <2>3. QED BY <2>1, <2>2 DEF t
<1>8. Tuples(new) = t
  <2> HIDE DEF d
  <2>1. new.kind = gen.kind /\ new.with = gen.with /\ new.stream = gen.stream
    OBVIOUS
  <2> HIDE DEF new
  <2>2. QED BY <1>2, <2>1, SameTuples DEF Made
<1>9. d \in Seq(Tuple)
  BY <1>6 DEF Repeats
<1>10. Made(new)
  <2> HIDE DEF t, d
  <2>1. gen.builds + 1 > 0 /\ gen.builds + 1 # 0
    BY <1>4
  <2>2. Repeats(new.data, Tuples(new), new.builds)
    BY <1>6, <1>8
  <2>3. /\ gen.with \in Parameters /\ gen.kind = gen.with.kind /\ gen.stream \in Streams(gen.with)
    BY <1>2 DEF Made
  <2>4. QED BY <1>1, <1>4, <1>9, <2>1, <2>2, <2>3 DEF Made
<1>11. QED BY <1>7, <1>10 DEF GenInv, Made

\* A build() that fails leaves the data alone.
LEMMA GeneratorThrows ==
  ASSUME GenInv, BuildThrows
  PROVE  GenInv'
<1>1. Live /\ Made(gen)
  BY DEF GenInv, Live, NoGenerator, BuildThrows
<1> DEFINE b == gen.built \/ gen.kind = "zipf"
           new == [kind |-> gen.kind, with |-> gen.with, stream |-> gen.stream, built |-> b,
                   data |-> gen.data, builds |-> gen.builds]
<1>2. gen' = new
  <2>1. gen' = [gen EXCEPT !.built = gen.built \/ gen.kind = "zipf"]
    BY DEF BuildThrows
  <2>2. gen = [kind |-> gen.kind, with |-> gen.with, stream |-> gen.stream, built |-> gen.built,
               data |-> gen.data, builds |-> gen.builds]
    BY <1>1 DEF Made
  <2>3. QED BY <2>1, <2>2
<1>3. Tuples(new) = Tuples(gen)
  <2> HIDE DEF b
  <2>1. new.kind = gen.kind /\ new.with = gen.with /\ new.stream = gen.stream
    OBVIOUS
  <2> HIDE DEF new
  <2>2. QED BY <1>1, <2>1, SameTuples DEF Made
<1>4. b \in BOOLEAN /\ (gen.built => b) /\ (gen.kind # "zipf" => b = gen.built)
  BY <1>1 DEF Made
<1>5. Made(new)
  <2> HIDE DEF b
  <2>1. QED BY <1>1, <1>3, <1>4 DEF Made
<1>6. QED BY <1>2, <1>5 DEF GenInv, Made

\* The data is the first build's tuples over again, whose row ids count from 0.
LEMMA DataRepeats ==
  ASSUME GenInv, Live
  PROVE  LET n == Count(gen.with)
             d == gen.data
         IN  /\ n \in Nat /\ gen.builds \in Nat
             /\ d \in Seq(Tuple) /\ Len(d) = gen.builds * n
             /\ gen.builds > 0 => gen.built
             /\ gen.built /\ gen.kind # "zipf" => gen.builds > 0
             /\ \A i \in DOMAIN d : /\ d[i][2] = (i - 1) % n
                                    /\ i > n => d[i] = d[i - n]
                                    /\ i <= n => KeyFollows(i)
<1>1. Made(gen)
  BY DEF GenInv, Live, NoGenerator
<1> DEFINE n == Count(gen.with)
           d == gen.data
           t == Tuples(gen)
           z(i) == Above(gen.with.sums, gen.stream[i])
<1>2. n \in Nat /\ gen.builds \in Nat
  BY <1>1, ParameterIs, GeneratorAssumption DEF Made
<1>3. CASE gen.builds = 0
  BY <1>1, <1>2, <1>3 DEF Made
<1>4. CASE gen.builds # 0
  <2>1. gen.built /\ n <= MaxSize /\ Repeats(d, t, gen.builds)
    BY <1>1, <1>4 DEF Made
  <2>2. /\ t \in Seq(Tuple) /\ Len(t) = n
        /\ \A i \in 1 .. n :
             /\ t[i][2] = i - 1
             /\ gen.kind = "incremental" => t[i][1] = i - 1
             /\ gen.kind = "uniform" => t[i][1] \in gen.with.min .. gen.with.max
             /\ gen.kind = "zipf" => t[i][1] = IF z(i) # {} THEN Least(z(i))
                                               ELSE IF i = 1 THEN 0 ELSE t[i - 1][1]
    <3> DEFINE g == gen
    <3>1. /\ g.with \in Parameters /\ g.kind = g.with.kind /\ g.stream \in Streams(g.with)
          /\ Count(g.with) <= MaxSize
      BY <1>1, <2>1 DEF Made
    <3> HIDE DEF g
    <3>2. /\ Tuples(g) \in Seq(Tuple) /\ Len(Tuples(g)) = Count(g.with)
          /\ \A i \in 1 .. Count(g.with) :
               /\ Tuples(g)[i][2] = i - 1
               /\ g.kind = "incremental" => Tuples(g)[i][1] = i - 1
               /\ g.kind = "uniform" => Tuples(g)[i][1] \in g.with.min .. g.with.max
               /\ g.kind = "zipf" =>
                    Tuples(g)[i][1] =
                      IF Above(g.with.sums, g.stream[i]) # {}
                        THEN Least(Above(g.with.sums, g.stream[i]))
                      ELSE IF i = 1 THEN 0 ELSE Tuples(g)[i - 1][1]
      BY <3>1, TuplesAre
    <3>3. QED BY <3>2 DEF g
  <2> HIDE DEF n, t, z
  <2>3. /\ d \in Seq(Tuple) /\ Len(d) = gen.builds * n
        /\ \A i \in DOMAIN d : d[i] = t[((i - 1) % n) + 1]
    BY <2>1, <2>2 DEF Repeats
  <2> HIDE DEF d
  <2>4. ASSUME NEW i \in DOMAIN d
        PROVE  /\ d[i][2] = (i - 1) % n
               /\ i > n => d[i] = d[i - n]
               /\ i <= n => KeyFollows(i)
    <3>1. i \in Nat \ {0} /\ i \in 1 .. Len(d) /\ n # 0
      <4>1. i \in 1 .. Len(d) /\ Len(d) \in Nat
        BY <2>3
      <4>2. n # 0
        BY <1>2, <2>3, <4>1
      <4>3. QED BY <4>1, <4>2
    <3>2. i - 1 \in Nat /\ n \in Nat \ {0}
      BY <1>2, <3>1
    <3>3. (i - 1) % n \in 0 .. (n - 1) /\ (i - 1 < n => (i - 1) % n = i - 1)
      BY <3>2, Around
    <3>4. d[i][2] = (i - 1) % n
      <4> DEFINE r == (i - 1) % n
      <4>1. d[i] = t[r + 1] /\ r \in 0 .. (n - 1)
        BY <2>3, <3>3
      <4> HIDE DEF r
      <4>2. r + 1 \in 1 .. n /\ (r + 1) - 1 = r
        BY <1>2, <4>1
      <4>3. d[i][2] = r
        BY <2>2, <4>1, <4>2
      <4>4. QED BY <4>3 DEF r
    <3>5. ASSUME i > n
          PROVE  d[i] = d[i - n]
      <4>1. i - n \in 1 .. Len(d) /\ (i - n) - 1 \in Nat /\ ((i - n) - 1) + n = i - 1
        BY <1>2, <3>1, <3>5
      <4>2. (((i - n) - 1) + n) % n = ((i - n) - 1) % n
        BY <3>2, <4>1, Around
      <4>3. (i - 1) % n = ((i - n) - 1) % n
        BY <4>1, <4>2
      <4>4. i - n \in DOMAIN d
        BY <2>3, <4>1
      <4>5. QED BY <2>3, <4>3, <4>4
    <3>6. ASSUME i <= n
          PROVE  KeyFollows(i)
      <4>1. \A j \in 1 .. i : d[j] = t[j]
        <5> SUFFICES ASSUME NEW j \in 1 .. i
                     PROVE  d[j] = t[j]
          OBVIOUS
        <5>1. j \in 1 .. Len(d) /\ j - 1 \in Nat /\ j - 1 < n /\ (j - 1) + 1 = j
          BY <1>2, <3>1, <3>6
        <5>2. (j - 1) % n = j - 1
          BY <3>2, <5>1, Around
        <5>3. j \in DOMAIN d
          BY <2>3, <5>1
        <5>4. QED BY <2>3, <5>1, <5>2, <5>3
      <4>2. i \in 1 .. n /\ i \in 1 .. i /\ (i > 1 => i - 1 \in 1 .. i /\ i - 1 \in 1 .. n)
        BY <1>2, <3>1, <3>6
      <4>3. gen.kind = "incremental" /\ i > 1 => d[i][1] = d[i - 1][1] + 1
        <5>1. gen.kind = "incremental" /\ i > 1 => d[i][1] = i - 1 /\ d[i - 1][1] = (i - 1) - 1
          BY <2>2, <4>1, <4>2
        <5>2. QED BY <3>1, <5>1
      <4>4. gen.kind = "uniform" => d[i][1] \in gen.with.min .. gen.with.max
        BY <2>2, <4>1, <4>2
      <4>5. gen.kind = "zipf" =>
              d[i][1] = IF z(i) # {} THEN Least(z(i)) ELSE IF i = 1 THEN 0 ELSE d[i - 1][1]
        BY <2>2, <3>1, <4>1, <4>2
      <4>6. QED BY <4>3, <4>4, <4>5 DEF KeyFollows, d, z, Above
    <3>7. QED BY <3>4, <3>5, <3>6
  <2>5. QED BY <1>1, <1>2, <1>4, <2>1, <2>3, <2>4 DEF Made, n, d
<1>5. QED BY <1>3, <1>4

\* The invariant says what DataFaithful says.
LEMMA GeneratorFaithful == GenInv => DataFaithful
<1> SUFFICES ASSUME GenInv, Live
             PROVE  DataFaithful
  BY DEF DataFaithful
<1> DEFINE n == Count(gen.with)
           d == gen.data
<1>1. /\ n \in Nat /\ gen.builds \in Nat
      /\ d \in Seq(Tuple) /\ Len(d) = gen.builds * n
      /\ gen.builds > 0 => gen.built
      /\ gen.built /\ gen.kind # "zipf" => gen.builds > 0
      /\ \A i \in DOMAIN d : /\ d[i][2] = (i - 1) % n
                             /\ i > n => d[i] = d[i - n]
                             /\ i <= n => KeyFollows(i)
  BY DataRepeats
<1> HIDE DEF n, d
<1>2. \A i \in DOMAIN d : IF i > n THEN d[i][1] = d[i - n][1] ELSE KeyFollows(i)
  <2>1. DOMAIN d \subseteq Nat
    BY <1>1
  <2>2. QED BY <1>1, <2>1
<1>3. ASSUME NEW i \in DOMAIN d, NEW j \in DOMAIN d, i <= n, j <= n, d[i][2] = d[j][2]
      PROVE  i = j
  <2>1. i \in Nat \ {0} /\ j \in Nat \ {0} /\ n \in Nat \ {0}
    <3>1. DOMAIN d = 1 .. Len(d) /\ Len(d) \in Nat
      BY <1>1
    <3>2. QED BY <1>1, <1>3, <3>1
  <2>2. i - 1 \in Nat /\ j - 1 \in Nat /\ i - 1 < n /\ j - 1 < n
    BY <1>3, <2>1
  <2>3. (i - 1) % n = i - 1 /\ (j - 1) % n = j - 1
    BY <2>1, <2>2, Around
  <2>4. i - 1 = j - 1
    BY <1>1, <1>3, <2>3
  <2>5. QED BY <2>1, <2>4
<1>4. QED BY <1>1, <1>2, <1>3 DEF DataFaithful, n, d

--------------------------------------------------------------------------------
(* The inductive invariant. *)

\* No call of the join is made before the program has its relations.
StageInv ==
  /\ stage \in {"left", "right", "construct", "join"}
  /\ stage # "join" => pc = "idle"

\* The relations have been made by generators.
RelInv ==
  /\ rel \in [Sides -> Seq(Tuple)]
  /\ \A s \in Sides : OwnRows(rel[s])

\* The fields of the join object and of the call in progress.
ObjectInv ==
  /\ kind \in {"none", "nop", "radix"}
  /\ result \in Seq(Triple)
  /\ built \in BOOLEAN /\ whole \in BOOLEAN
  /\ pc \in Sides \cup {"idle", "parts"}
  /\ part \in 0 .. part_count /\ (pc # "parts" => part = 0)
  /\ calls \in 0 .. MaxCalls

\* The sides that have been partitioned.
IsSplit(s) == pc = "parts" \/ (pc = "r" /\ s = "l")

\* The arrays of a call are those of partition() for the sides it has partitioned.
SplitInv ==
  /\ list = [s \in Sides |-> IF IsSplit(s) THEN Partitioned(rel[s]).list ELSE <<>>]
  /\ hist = [s \in Sides |-> IF IsSplit(s) THEN Partitioned(rel[s]).hist ELSE <<>>]

\* How often match x is still to come in this call.
Pending(x) ==
  IF pc # "idle" /\ x \in Matches(rel.l, rel.r) /\ PartOf(x) >= part THEN 1 ELSE 0

\* What the result has of a match and what is still to come are what is owed, or less
\* if a call has failed.
Settled(x) ==
  /\ Times(result, x) + Pending(x) <= Amount(owed, x)
  /\ whole => Times(result, x) + Pending(x) = Amount(owed, x)

\* What the calls owe is made of triples, and each of them is settled.
OwedInv ==
  /\ IsABag(owed) /\ DOMAIN owed \subseteq Triple
  /\ \A x \in Triple : Settled(x)

\* The invariant of the program.
Inv == StageInv /\ GenInv /\ RelInv /\ ObjectInv /\ SplitInv /\ OwedInv

\* The relations of the join.
LEMMA SidesOf ==
  ASSUME RelInv
  PROVE  /\ rel.l \in Seq(Tuple) /\ OwnRows(rel.l)
         /\ rel.r \in Seq(Tuple) /\ OwnRows(rel.r)
         /\ Matches(rel.l, rel.r) \subseteq Triple
<1>1. "l" \in Sides /\ "r" \in Sides
  BY DEF Sides
<1>2. /\ rel.l \in Seq(Tuple) /\ OwnRows(rel.l)
      /\ rel.r \in Seq(Tuple) /\ OwnRows(rel.r)
  BY <1>1 DEF RelInv
<1>3. QED BY <1>2, MatchesAre

\* The amounts that Settled compares are numbers.
LEMMA AmountsAre ==
  ASSUME ObjectInv, OwedInv, NEW x
  PROVE  Times(result, x) \in Nat /\ Pending(x) \in {0, 1} /\ Amount(owed, x) \in Nat
<1>1. Times(result, x) \in Nat
  BY TimesType DEF ObjectInv
<1>2. \A y \in DOMAIN owed : owed[y] \in Nat
  BY DEF OwedInv, IsABag
<1>3. QED BY <1>1, <1>2 DEF Pending, Amount

\* The part of a triple is a number below part_count.
LEMMA PartNumber ==
  ASSUME NEW x \in Triple
  PROVE  PartOf(x) \in Nat /\ PartOf(x) < part_count /\ PartOf(x) \in Parts
<1>1. x[1] \in Keys
  BY DEF Triple
<1>2. PartOf(x) \in Parts
  BY <1>1, PartIs
<1>3. QED BY <1>2, PartIs DEF Parts

\* At first nothing was made, called or owed.
LEMMA InitInv == Init => Inv
<1> SUFFICES ASSUME Init
             PROVE  Inv
  OBVIOUS
<1> USE DEF Init, GeneratorInit, JoinInit
<1>1. StageInv
  BY DEF StageInv
<1>2. GenInv
  BY DEF GenInv
<1>3. RelInv
  <2>1. rel = [s \in Sides |-> <<>>]
    BY DEF Nothing
  <2>2. <<>> \in Seq(Tuple)
    OBVIOUS
  <2>3. QED BY <2>1, <2>2 DEF RelInv, OwnRows
<1>4. ObjectInv
  <2>1. part_count \in Nat /\ MaxCalls \in Nat
    BY PartIs, CallAssumption
  <2>2. <<>> \in Seq(Triple)
    OBVIOUS
  <2>3. 0 \in 0 .. part_count /\ 0 \in 0 .. MaxCalls
    BY <2>1
  <2>4. QED BY <2>2, <2>3 DEF ObjectInv
<1>5. SplitInv
  BY DEF SplitInv, IsSplit, Nothing
<1>6. OwedInv
  <2>1. \A x : Times(<<>>, x) = 0
    <3>1. <<>> \in Seq({}) /\ Range(<<>>) = {}
      BY DEF Range
    <3>2. QED BY <3>1, TimesType
  <2>2. \A x : Pending(x) = 0
    BY DEF Pending
  <2>3. QED BY <2>1, <2>2, BagOfNothing DEF OwedInv, Settled
<1>7. QED BY <1>1, <1>2, <1>3, <1>4, <1>5, <1>6 DEF Inv

\* A step that leaves these alone keeps what is said about them.
LEMMA SplitStays ==
  ASSUME SplitInv, UNCHANGED <<list, hist>>,
         \A s \in Sides : /\ IsSplit(s)' <=> IsSplit(s)
                          /\ IsSplit(s) => rel'[s] = rel[s]
  PROVE  SplitInv'
<1>1. list' = [s \in Sides |-> IF IsSplit(s)' THEN Partitioned(rel'[s]).list ELSE <<>>]
  BY DEF SplitInv
<1>2. hist' = [s \in Sides |-> IF IsSplit(s)' THEN Partitioned(rel'[s]).hist ELSE <<>>]
  BY DEF SplitInv
<1>3. QED BY <1>1, <1>2 DEF SplitInv, IsSplit

\* A step of the generator leaves the rest alone.
LEMMA GenerateKeeps == Inv /\ Generate => Inv'
<1> SUFFICES ASSUME Inv, Generate
             PROVE  Inv'
  OBVIOUS
<1> USE DEF Inv
<1>1. UNCHANGED <<stage, rel, kind, pc, part, list, hist, result, built, calls, owed, whole>>
  BY DEF Generate, joinVars, local, objectVars
<1>2. GenInv'
  BY GeneratorStarts, GeneratorBuilds, GeneratorThrows DEF Generate
<1>3. (StageInv /\ RelInv /\ ObjectInv)'
  BY <1>1 DEF StageInv, RelInv, ObjectInv
<1>4. SplitInv'
  BY <1>1, SplitStays DEF IsSplit
<1>5. OwedInv'
  BY <1>1 DEF OwedInv, Settled, Pending
<1>6. QED BY <1>2, <1>3, <1>4, <1>5

\* A copy of a generator's data has tuples with row ids that count from 0.
LEMMA CopyRows ==
  ASSUME GenInv, Copyable
  PROVE  Copy \in Seq(Tuple) /\ OwnRows(Copy)
<1> DEFINE n == Count(gen.with)
           d == gen.data
<1>1. Live /\ Made(gen) /\ gen.builds > 0
  BY DEF GenInv, Live, NoGenerator, Copyable, MayCopy
<1>2. n \in Nat /\ gen.builds \in Nat \ {0} /\ d \in Seq(Tuple)
  <2>1. n \in Nat
    BY <1>1, ParameterIs DEF Made
  <2>2. gen.builds \in Nat
    BY <1>1, GeneratorAssumption DEF Made
  <2>3. QED BY <1>1, <2>1, <2>2 DEF Made
<1>3. Len(d) = gen.builds * n /\ \A i \in DOMAIN d : d[i][2] = (i - 1) % n
  BY <1>1, DataRepeats
<1>4. Copy = SubSeq(d, 1, n)
  BY DEF Copy
<1> HIDE DEF n, d
<1>5. n <= Len(d)
  <2>1. 1 * n <= gen.builds * n
    BY <1>2, Products
  <2>2. QED BY <1>2, <1>3, <2>1
<1>6. /\ Copy \in Seq(Tuple) /\ DOMAIN Copy = 1 .. n
      /\ \A i \in 1 .. n : Copy[i] = d[i] /\ i \in DOMAIN d
  BY <1>2, <1>4, <1>5
<1>7. \A i \in 1 .. n : Copy[i][2] = i - 1
  <2> SUFFICES ASSUME NEW i \in 1 .. n
               PROVE  Copy[i][2] = i - 1
    OBVIOUS
  <2>1. i - 1 \in Nat /\ n \in Nat \ {0} /\ i - 1 < n
    BY <1>2
  <2>2. (i - 1) % n = i - 1
    BY <2>1, Around
  <2>3. QED BY <1>3, <1>6, <2>2
<1>8. OwnRows(Copy)
  <2> SUFFICES ASSUME NEW i \in 1 .. n, NEW j \in 1 .. n, Copy[i][2] = Copy[j][2]
               PROVE  i = j
    BY <1>6 DEF OwnRows
  <2>1. i - 1 = j - 1
    BY <1>7
  <2>2. QED BY <2>1
<1>9. QED BY <1>6, <1>8

\* Copying the generator's data gives the join a relation with its own row numbers.
LEMMA CopyToKeeps ==
  ASSUME Inv, NEW s \in Sides, NEW from, NEW to, from # "join",
         to \in {"right", "construct"}, CopyTo(s, from, to)
  PROVE  Inv'
<1> USE DEF Inv
<1>1. /\ stage = from /\ Copyable /\ rel' = [rel EXCEPT ![s] = Copy] /\ stage' = to
      /\ UNCHANGED <<gen, kind, pc, part, list, hist, result, built, calls, owed, whole>>
      /\ pc = "idle"
  BY DEF CopyTo, local, objectVars, StageInv
<1>2. GenInv'
  BY <1>1 DEF GenInv
<1>3. (StageInv /\ ObjectInv)'
  BY <1>1 DEF StageInv, ObjectInv
<1>4. RelInv'
  <2>1. Copy \in Seq(Tuple) /\ OwnRows(Copy)
    BY <1>1, CopyRows
  <2> DEFINE c == Copy
  <2>2. c \in Seq(Tuple) /\ OwnRows(c)
    BY <2>1
  <2>3. rel' = [rel EXCEPT ![s] = c]
    BY <1>1
  <2> HIDE DEF c
  <2>4. QED BY <2>2, <2>3 DEF RelInv
<1>5. SplitInv'
  BY <1>1, SplitStays DEF IsSplit, ObjectInv
<1>6. OwedInv'
  BY <1>1 DEF OwedInv, Settled, Pending
<1>7. QED BY <1>2, <1>3, <1>4, <1>5, <1>6

\* The constructors of the joins.
LEMMA ConstructKeeps == Inv /\ Construct => Inv'
<1> SUFFICES ASSUME Inv, Construct
             PROVE  Inv'
  OBVIOUS
<1> USE DEF Inv
<1>1. /\ gen' = NoGenerator /\ kind' \in {"nop", "radix"} /\ stage' = "join"
      /\ UNCHANGED <<rel, pc, part, list, hist, result, built, calls, owed, whole>>
  BY DEF Construct, local, objectVars
<1>2. GenInv'
  BY <1>1 DEF GenInv
<1>3. (StageInv /\ RelInv /\ ObjectInv)'
  BY <1>1 DEF StageInv, RelInv, ObjectInv
<1>4. SplitInv'
  BY <1>1, SplitStays DEF IsSplit
<1>5. OwedInv'
  BY <1>1 DEF OwedInv, Settled, Pending
<1>6. QED BY <1>2, <1>3, <1>4, <1>5

\* A step that changes nothing.
LEMMA StutterKeeps ==
  ASSUME Inv, UNCHANGED vars
  PROVE  Inv'
<1> USE DEF Inv
<1>1. UNCHANGED <<stage, gen, rel, kind, pc, part, list, hist, result, built, calls, owed, whole>>
  BY DEF vars, joinVars, local, objectVars
<1>2. GenInv'
  BY <1>1 DEF GenInv
<1>3. (StageInv /\ RelInv /\ ObjectInv)'
  BY <1>1 DEF StageInv, RelInv, ObjectInv
<1>4. SplitInv'
  BY <1>1, SplitStays DEF IsSplit
<1>5. OwedInv'
  BY <1>1 DEF OwedInv, Settled, Pending
<1>6. QED BY <1>2, <1>3, <1>4, <1>5

--------------------------------------------------------------------------------
(* The calls on a join object. *)

\* What every step of a join leaves alone.
JoinFrame == /\ stage = "join" /\ stage' = stage /\ gen' = gen /\ rel' = rel /\ kind' = kind

\* The parts of the invariant that no step of a join touches.
LEMMA FrameKeeps ==
  ASSUME Inv, JoinFrame
  PROVE  (StageInv /\ GenInv /\ RelInv)'
BY DEF Inv, JoinFrame, StageInv, GenInv, RelInv

\* Between calls nothing is split and nothing is pending.
LEMMA IdleIs ==
  ASSUME pc = "idle"
  PROVE  (\A s : ~ IsSplit(s)) /\ \A x : Pending(x) = 0
BY DEF IsSplit, Pending

\* execute() of a nop_join finds what it is to find.
LEMMA NopOutput ==
  ASSUME RelInv, ObjectInv
  PROVE  /\ Output(rel.l, rel.r) \in Seq(Triple)
         /\ result \o Output(rel.l, rel.r) \in Seq(Triple)
         /\ \A x : /\ Times(Output(rel.l, rel.r), x) = IF x \in Matches(rel.l, rel.r) THEN 1 ELSE 0
                   /\ Times(result \o Output(rel.l, rel.r), x) =
                        Times(result, x) + (IF x \in Matches(rel.l, rel.r) THEN 1 ELSE 0)
<1> DEFINE out == Output(rel.l, rel.r)
<1>1. /\ out \in Seq(Triple) /\ IsInjective(out) /\ Range(out) = Matches(rel.l, rel.r)
  BY SidesOf, OutputExact
<1>2. result \in Seq(Triple)
  BY DEF ObjectInv
<1> HIDE DEF out
<1>3. \A x : Times(out, x) = IF x \in Matches(rel.l, rel.r) THEN 1 ELSE 0
  BY <1>1, TimesOnce
<1>4. \A x : Times(result \o out, x) = Times(result, x) + Times(out, x)
  BY <1>1, <1>2, TimesConcat
<1>5. result \o out \in Seq(Triple)
  BY <1>1, <1>2
<1>6. QED BY <1>1, <1>3, <1>4, <1>5 DEF out

\* A call owes every match once more.
LEMMA ExpectOwes ==
  ASSUME RelInv, OwedInv, Expect
  PROVE  /\ IsABag(owed') /\ DOMAIN owed' \subseteq Triple
         /\ \A x : Amount(owed', x) =
                 Amount(owed, x) + (IF x \in Matches(rel.l, rel.r) THEN 1 ELSE 0)
<1> DEFINE S == Matches(rel.l, rel.r)
<1>1. owed' = owed (+) SetToBag(S) /\ S \subseteq Triple
  BY SidesOf DEF Expect
<1>2. IsABag(owed) /\ DOMAIN owed \subseteq Triple
  BY DEF OwedInv
<1> HIDE DEF S
<1>3. /\ IsABag(owed') /\ DOMAIN owed' = DOMAIN owed \cup S
      /\ \A x : Amount(owed', x) = Amount(owed, x) + (IF x \in S THEN 1 ELSE 0)
  BY <1>1, <1>2, BagWith
<1>4. QED BY <1>1, <1>2, <1>3 DEF S

\* execute() of the no-partitioning join adds every match of the relations once.
LEMMA NopExecuteKeeps ==
  ASSUME Inv, JoinFrame, NopExecute
  PROVE  Inv'
<1> USE DEF Inv
<1>1. /\ pc = "idle" /\ calls < MaxCalls /\ calls' = calls + 1 /\ built' = TRUE
      /\ result' = result \o Output(rel.l, rel.r)
      /\ UNCHANGED <<rel, kind, pc, part, list, hist, whole>>
  BY DEF NopExecute, MayCall, Expect, local
<1>2. (StageInv /\ GenInv /\ RelInv)'
  BY FrameKeeps
<1>3. ObjectInv'
  <2>1. result' \in Seq(Triple)
    BY <1>1, NopOutput
  <2>2. calls' \in 0 .. MaxCalls
    BY <1>1, CallAssumption DEF ObjectInv
  <2>3. QED BY <1>1, <2>1, <2>2 DEF ObjectInv
<1>4. SplitInv'
  BY <1>1, SplitStays DEF IsSplit
<1>5. OwedInv'
  <2>1. /\ IsABag(owed') /\ DOMAIN owed' \subseteq Triple
        /\ \A x : Amount(owed', x) =
                Amount(owed, x) + (IF x \in Matches(rel.l, rel.r) THEN 1 ELSE 0)
    BY ExpectOwes DEF NopExecute
  <2>2. ASSUME NEW x \in Triple
        PROVE  Settled(x)'
    <3> DEFINE o == IF x \in Matches(rel.l, rel.r) THEN 1 ELSE 0
    <3>1. Times(result', x) = Times(result, x) + o /\ Amount(owed', x) = Amount(owed, x) + o
      BY <1>1, <2>1, NopOutput
    <3>2. Pending(x) = 0 /\ Pending(x)' = 0
      BY <1>1 DEF Pending
    <3>3. Settled(x) /\ Times(result, x) \in Nat /\ Amount(owed, x) \in Nat /\ o \in {0, 1}
      BY AmountsAre DEF OwedInv
    <3> HIDE DEF o
    <3>4. QED BY <1>1, <3>1, <3>2, <3>3 DEF Settled
  <2>3. QED BY <2>1, <2>2 DEF OwedInv
<1>6. QED BY <1>2, <1>3, <1>4, <1>5

\* A failing execute() of the no-partitioning join has added each match at most once.
LEMMA NopThrowsKeeps ==
  ASSUME Inv, JoinFrame, NopThrows
  PROVE  Inv'
<1> USE DEF Inv
<1>1. /\ pc = "idle" /\ calls < MaxCalls /\ calls' = calls + 1 /\ whole' = FALSE
      /\ UNCHANGED <<rel, kind, pc, part, list, hist>>
  BY DEF NopThrows, MayCall, Expect, local
<1> DEFINE out == Output(rel.l, rel.r)
<1>2. (StageInv /\ GenInv /\ RelInv)'
  BY FrameKeeps
<1>3. /\ result' \in Seq(Triple) /\ built' \in BOOLEAN
      /\ \A x : Times(result', x) <=
              Times(result, x) + (IF x \in Matches(rel.l, rel.r) THEN 1 ELSE 0)
  <2>1. CASE UNCHANGED <<result, built>>
    <3>1. \A x : Times(result, x) \in Nat
      BY AmountsAre
    <3>2. \A x : Times(result, x) <=
                   Times(result, x) + (IF x \in Matches(rel.l, rel.r) THEN 1 ELSE 0)
      BY <3>1
    <3>3. QED BY <2>1, <3>2 DEF ObjectInv
  <2>2. ASSUME NEW n \in 1 .. Len(out), result' = result \o SubSeq(out, 1, n - 1), built' = TRUE
        PROVE  /\ result' \in Seq(Triple) /\ built' \in BOOLEAN
               /\ \A x : Times(result', x) <=
                       Times(result, x) + (IF x \in Matches(rel.l, rel.r) THEN 1 ELSE 0)
    <3> DEFINE t == SubSeq(out, 1, n - 1)
    <3>1. out \in Seq(Triple) /\ \A x : Times(out, x) = IF x \in Matches(rel.l, rel.r) THEN 1 ELSE 0
      BY NopOutput
    <3> HIDE DEF out
    <3>2. n - 1 \in 0 .. Len(out) /\ Len(out) \in Nat
      BY <3>1
    <3>3. t \in Seq(Triple) /\ \A x : Times(t, x) <= Times(out, x) /\ Times(t, x) \in Nat
      BY <3>1, <3>2, TimesPrefix
    <3> HIDE DEF t
    <3>4. result \in Seq(Triple) /\ result' = result \o t
      BY <2>2 DEF ObjectInv, t
    <3>5. \A x : Times(result', x) = Times(result, x) + Times(t, x) /\ Times(result, x) \in Nat
      BY <3>3, <3>4, TimesConcat, AmountsAre
    <3>6. \A x : Times(result', x) <=
               Times(result, x) + (IF x \in Matches(rel.l, rel.r) THEN 1 ELSE 0)
      <4> SUFFICES ASSUME NEW x
                   PROVE  Times(result', x) <=
                          Times(result, x) + (IF x \in Matches(rel.l, rel.r) THEN 1 ELSE 0)
        OBVIOUS
      <4>1. Times(t, x) <= (IF x \in Matches(rel.l, rel.r) THEN 1 ELSE 0) /\ Times(t, x) \in Nat
        BY <3>1, <3>3
      <4>2. QED BY <3>5, <4>1
    <3>7. QED BY <2>2, <3>3, <3>4, <3>6
  <2>3. QED BY <2>1, <2>2 DEF NopThrows
<1>4. ObjectInv'
  <2>1. calls' \in 0 .. MaxCalls
    BY <1>1, CallAssumption DEF ObjectInv
  <2>2. QED BY <1>1, <1>3, <2>1 DEF ObjectInv
<1>5. SplitInv'
  BY <1>1, SplitStays DEF IsSplit
<1>6. OwedInv'
  <2>1. /\ IsABag(owed') /\ DOMAIN owed' \subseteq Triple
        /\ \A x : Amount(owed', x) =
                Amount(owed, x) + (IF x \in Matches(rel.l, rel.r) THEN 1 ELSE 0)
    BY ExpectOwes DEF NopThrows
  <2>2. ASSUME NEW x \in Triple
        PROVE  Settled(x)'
    <3> DEFINE o == IF x \in Matches(rel.l, rel.r) THEN 1 ELSE 0
    <3>1. Times(result', x) <= Times(result, x) + o /\ Amount(owed', x) = Amount(owed, x) + o
      BY <1>3, <2>1
    <3>2. Pending(x) = 0 /\ Pending(x)' = 0
      BY <1>1 DEF Pending
    <3>3. Settled(x) /\ Times(result, x) \in Nat /\ Amount(owed, x) \in Nat /\ o \in {0, 1}
      BY AmountsAre DEF OwedInv
    <3>4. Times(result', x) \in Nat
      BY <1>3, TimesType
    <3> HIDE DEF o
    <3>5. QED BY <1>1, <3>1, <3>2, <3>3, <3>4 DEF Settled
  <2>3. QED BY <2>1, <2>2 DEF OwedInv
<1>7. QED BY <1>2, <1>4, <1>5, <1>6

\* A call of the radix join owes every match once: all of them are pending.
LEMMA RadixCallKeeps ==
  ASSUME Inv, JoinFrame, RadixCall
  PROVE  Inv'
<1> USE DEF Inv
<1>1. /\ pc = "idle" /\ calls < MaxCalls /\ calls' = calls + 1 /\ built' = TRUE
      /\ pc' = IF Empty THEN "idle" ELSE "l"
      /\ UNCHANGED <<rel, kind, part, list, hist, result, whole>>
  BY DEF RadixCall, MayCall, Expect, local
<1>2. stage = "join" /\ stage' = "join" /\ part = 0
  BY <1>1 DEF JoinFrame, ObjectInv
<1>3. (StageInv /\ GenInv /\ RelInv)'
  BY <1>1, <1>2 DEF JoinFrame, StageInv, GenInv, RelInv
<1>4. ObjectInv'
  <2>1. calls' \in 0 .. MaxCalls
    BY <1>1, CallAssumption DEF ObjectInv
  <2>2. pc' \in Sides \cup {"idle", "parts"}
    BY <1>1 DEF Sides
  <2>3. QED BY <1>1, <1>2, <2>1, <2>2 DEF ObjectInv
<1>5. SplitInv'
  BY <1>1, SplitStays DEF IsSplit
<1>6. OwedInv'
  <2>1. /\ IsABag(owed') /\ DOMAIN owed' \subseteq Triple
        /\ \A x : Amount(owed', x) =
                Amount(owed, x) + (IF x \in Matches(rel.l, rel.r) THEN 1 ELSE 0)
    BY ExpectOwes DEF RadixCall
  <2>2. ASSUME NEW x \in Triple
        PROVE  Settled(x)'
    <3> DEFINE o == IF x \in Matches(rel.l, rel.r) THEN 1 ELSE 0
    <3>1. Pending(x) = 0
      BY <1>1 DEF Pending
    <3>2. Pending(x)' = o
      <4>1. CASE Empty
        <5>1. Matches(rel.l, rel.r) = {}
          <6>1. DOMAIN rel.l = {} \/ DOMAIN rel.r = {}
            BY <4>1 DEF Empty
          <6>2. QED BY <6>1 DEF Matches
        <5>2. QED BY <1>1, <4>1, <5>1 DEF Pending
      <4>2. CASE ~ Empty
        <5>1. PartOf(x) >= 0
          BY PartNumber
        <5>2. QED BY <1>1, <1>2, <4>2, <5>1 DEF Pending
      <4>3. QED BY <4>1, <4>2
    <3>3. Settled(x) /\ Times(result, x) \in Nat /\ Amount(owed, x) \in Nat /\ o \in {0, 1}
      BY AmountsAre DEF OwedInv
    <3>4. Amount(owed', x) = Amount(owed, x) + o
      BY <2>1
    <3> HIDE DEF o
    <3>5. QED BY <1>1, <3>1, <3>2, <3>3, <3>4 DEF Settled
  <2>3. QED BY <2>1, <2>2 DEF OwedInv
<1>7. QED BY <1>3, <1>4, <1>5, <1>6

\* Partitioning a side leaves what is pending as it is.
LEMMA RadixPartitionKeeps ==
  ASSUME Inv, JoinFrame, NEW s \in Sides, RadixPartition(s)
  PROVE  Inv'
<1> USE DEF Inv
<1> DEFINE to == Partitioned(rel[s])
<1>1. /\ pc = s /\ pc' = IF s = "l" THEN "r" ELSE "parts"
      /\ list' = [list EXCEPT ![s] = to.list] /\ hist' = [hist EXCEPT ![s] = to.hist]
      /\ UNCHANGED <<rel, kind, part, result, built, calls, owed, whole>>
  BY DEF RadixPartition, objectVars
<1> HIDE DEF to
<1>2. stage = "join" /\ stage' = "join" /\ part = 0 /\ s \in {"l", "r"}
  BY <1>1 DEF JoinFrame, ObjectInv, Sides
<1>3. (StageInv /\ GenInv /\ RelInv)'
  BY <1>1, <1>2 DEF JoinFrame, StageInv, GenInv, RelInv
<1>4. ObjectInv'
  <2>1. pc' \in Sides \cup {"idle", "parts"}
    BY <1>1 DEF Sides
  <2>2. QED BY <1>1, <1>2, <2>1 DEF ObjectInv
<1>5. SplitInv'
  <2>1. \A q \in Sides : IsSplit(q)' <=> IsSplit(q) \/ q = s
    BY <1>1, <1>2 DEF IsSplit, Sides
  <2>2. list' = [q \in Sides |-> IF IsSplit(q)' THEN Partitioned(rel[q]).list ELSE <<>>]
    BY <1>1, <2>1 DEF SplitInv, to
  <2>3. hist' = [q \in Sides |-> IF IsSplit(q)' THEN Partitioned(rel[q]).hist ELSE <<>>]
    BY <1>1, <2>1 DEF SplitInv, to
  <2>4. rel' = rel
    BY <1>1
  <2>5. QED BY <2>2, <2>3, <2>4 DEF SplitInv, IsSplit
<1>6. OwedInv'
  <2>1. \A x : Pending(x)' = Pending(x)
    BY <1>1, <1>2 DEF Pending
  <2>2. QED BY <1>1, <2>1 DEF OwedInv, Settled
<1>7. QED BY <1>3, <1>4, <1>5, <1>6

\* The regions of both relations are the pieces of their partitions.
LEMMA RegionHolds ==
  ASSUME RelInv, SplitInv, pc = "parts", NEW s \in Sides, NEW p \in Parts
  PROVE  Holds(Region(s, p), rel[s], p)
<1> DEFINE d == rel[s]
<1>1. d \in Seq(Tuple)
  BY DEF RelInv
<1> HIDE DEF d
<1>2. Holds(Piece(Partitioned(d).list, Partitioned(d).hist, p), d, p)
  BY <1>1, PartitionedIs
<1>3. list[s] = Partitioned(d).list /\ hist[s] = Partitioned(d).hist
  BY DEF SplitInv, IsSplit, d
<1>4. Region(s, p) = Piece(list[s], hist[s], p)
  BY DEF Region, Piece
<1>5. QED BY <1>2, <1>3, <1>4 DEF d

\* Joining a part adds the matches of that part, which are pending no longer.
LEMMA RadixJoinKeeps ==
  ASSUME Inv, JoinFrame, RadixJoin
  PROVE  Inv'
<1> USE DEF Inv
<1> DEFINE L == Region("l", part)
           R == Region("r", part)
           out == Output(L, R)
<1>1. /\ pc = "parts" /\ part < part_count /\ result' = result \o out /\ part' = part + 1
      /\ UNCHANGED <<rel, kind, pc, list, hist, built, calls, owed, whole>>
  BY DEF RadixJoin
<1>2. part \in Parts /\ part \in Nat /\ part + 1 \in 0 .. part_count
  BY <1>1, PartIs DEF ObjectInv, Parts
<1>3. Holds(L, rel.l, part) /\ Holds(R, rel.r, part)
  BY <1>1, <1>2, RegionHolds DEF Sides
<1> HIDE DEF L, R
<1>4. L \in Seq(Tuple) /\ R \in Seq(Tuple) /\ OwnRows(L) /\ OwnRows(R)
  BY <1>3, SidesOf, PieceTuples
<1>5. out \in Seq(Triple) /\ IsInjective(out) /\ Range(out) = Matches(L, R)
  BY <1>4, OutputExact
<1> HIDE DEF out
<1>6. (StageInv /\ GenInv /\ RelInv)'
  BY FrameKeeps
<1>7. result \in Seq(Triple) /\ result' \in Seq(Triple)
  BY <1>1, <1>5 DEF ObjectInv
<1>8. ObjectInv'
  BY <1>1, <1>2, <1>7 DEF ObjectInv
<1>9. SplitInv'
  BY <1>1, SplitStays DEF IsSplit
<1>10. OwedInv'
  <2>1. ASSUME NEW x \in Triple
        PROVE  Settled(x)'
    <3> DEFINE here == x \in Matches(rel.l, rel.r) /\ PartOf(x) = part
    <3>1. Times(result', x) = Times(result, x) + Times(out, x)
      BY <1>1, <1>5, <1>7, TimesConcat
    <3>2. x \in Matches(L, R) <=> here
      BY <1>3, SidesOf, PieceMatches
    <3>3. Times(out, x) = IF here THEN 1 ELSE 0
      BY <1>5, <3>2, TimesOnce
    <3>4. Pending(x) = Pending(x)' + (IF here THEN 1 ELSE 0)
      <4>1. PartOf(x) \in Nat
        BY PartNumber
      <4>2. PartOf(x) >= part <=> PartOf(x) = part \/ PartOf(x) >= part + 1
        BY <1>2, <4>1
      <4>3. ~ (PartOf(x) = part /\ PartOf(x) >= part + 1)
        BY <1>2
      <4>4. QED BY <1>1, <4>2, <4>3 DEF Pending
    <3>5. Pending(x)' \in {0, 1}
      BY DEF Pending
    <3>6. Settled(x) /\ Times(result, x) \in Nat /\ Amount(owed, x) \in Nat
      BY AmountsAre DEF OwedInv
    <3> HIDE DEF here
    <3> DEFINE o == IF here THEN 1 ELSE 0
    <3>7. o \in {0, 1} /\ Times(result', x) = Times(result, x) + o /\ Pending(x) = Pending(x)' + o
      BY <3>1, <3>3, <3>4
    <3> HIDE DEF o
    <3>8. Times(result', x) + Pending(x)' = Times(result, x) + Pending(x)
      BY <3>5, <3>6, <3>7
    <3>9. QED BY <1>1, <3>6, <3>8 DEF Settled
  <2>2. QED BY <1>1, <2>1 DEF OwedInv
<1>11. QED BY <1>6, <1>8, <1>9, <1>10

\* Leaving execute() leaves nothing split.
LEMMA LeaveKeeps ==
  ASSUME Inv, JoinFrame, Leave, result' \in Seq(Triple), whole' \in BOOLEAN
  PROVE  /\ (StageInv /\ GenInv /\ RelInv /\ ObjectInv /\ SplitInv)'
         /\ \A x : Pending(x)' = 0
         /\ owed' = owed
<1>1. /\ pc' = "idle" /\ part' = 0 /\ list' = Nothing /\ hist' = Nothing
      /\ UNCHANGED <<rel, kind, built, calls, owed>>
  BY DEF Leave
<1>2. (StageInv /\ GenInv /\ RelInv)'
  BY FrameKeeps
<1>3. 0 \in 0 .. part_count
  BY PartIs
<1>4. ObjectInv'
  BY <1>1, <1>3 DEF Inv, ObjectInv
<1>5. SplitInv'
  BY <1>1 DEF SplitInv, IsSplit, Nothing
<1>6. QED BY <1>1, <1>2, <1>4, <1>5 DEF Pending

\* When the radix join returns, no match is pending.
LEMMA RadixReturnKeeps ==
  ASSUME Inv, JoinFrame, RadixReturn
  PROVE  Inv'
<1> USE DEF Inv
<1>1. pc = "parts" /\ part = part_count /\ Leave /\ UNCHANGED <<result, whole>>
  BY DEF RadixReturn
<1>2. result' \in Seq(Triple) /\ whole' \in BOOLEAN
  BY <1>1 DEF ObjectInv
<1>3. /\ (StageInv /\ GenInv /\ RelInv /\ ObjectInv /\ SplitInv)'
      /\ \A x : Pending(x)' = 0
      /\ owed' = owed
  BY <1>1, <1>2, LeaveKeeps
<1>4. ASSUME NEW x \in Triple
      PROVE  Settled(x)'
  <2>1. ~ (PartOf(x) >= part)
    BY <1>1, PartNumber, PartIs
  <2>2. Pending(x) = 0 /\ Pending(x)' = 0
    BY <1>3, <2>1 DEF Pending
  <2>3. QED BY <1>1, <1>3, <2>2 DEF OwedInv, Settled
<1>5. QED BY <1>3, <1>4 DEF OwedInv

\* When the radix join fails, what was pending stays owed and is not in the result.
LEMMA RadixThrowsKeeps ==
  ASSUME Inv, JoinFrame, RadixThrows
  PROVE  Inv'
<1> USE DEF Inv
<1>1. (result' = result \/ result' = <<>>) /\ Leave /\ whole' = FALSE
  BY DEF RadixThrows
<1>2. result \in Seq(Triple) /\ result' \in Seq(Triple) /\ whole' \in BOOLEAN
  <2>1. result \in Seq(Triple) /\ <<>> \in Seq(Triple)
    BY DEF ObjectInv
  <2>2. QED BY <1>1, <2>1
<1>3. /\ (StageInv /\ GenInv /\ RelInv /\ ObjectInv /\ SplitInv)'
      /\ \A x : Pending(x)' = 0
      /\ owed' = owed
  BY <1>1, <1>2, LeaveKeeps
<1>4. ASSUME NEW x \in Triple
      PROVE  Settled(x)'
  <2>1. /\ Settled(x) /\ Times(result, x) \in Nat /\ Amount(owed, x) \in Nat
        /\ Pending(x) \in {0, 1}
    BY AmountsAre DEF OwedInv
  <2>2. Times(result', x) <= Times(result, x) /\ Times(result', x) \in Nat
    <3>1. CASE result' = result
      BY <2>1, <3>1
    <3>2. CASE result' = <<>>
      <4>1. <<>> \in Seq(Triple) /\ Range(<<>>) = {}
        BY DEF Range
      <4>2. Times(<<>>, x) = 0
        BY <4>1, TimesType
      <4>3. QED BY <2>1, <3>2, <4>2
    <3>3. QED BY <1>1, <3>1, <3>2
  <2>3. QED BY <1>1, <1>3, <2>1, <2>2 DEF Settled
<1>5. QED BY <1>3, <1>4 DEF OwedInv

\* A call of set or get leaves the result and what is owed equal.
LEMMA FreshKeeps ==
  ASSUME Inv, JoinFrame, pc = "idle", calls < MaxCalls, calls' = calls + 1,
         UNCHANGED <<kind, pc, local>>, built' \in BOOLEAN, whole' \in BOOLEAN,
         result' \in Seq(Triple), IsABag(owed'), DOMAIN owed' \subseteq Triple,
         \A x \in Triple : Amount(owed', x) = Times(result', x)
  PROVE  Inv'
<1> USE DEF Inv
<1>1. UNCHANGED <<rel, part, list, hist>>
  BY DEF JoinFrame, local
<1>2. (StageInv /\ GenInv /\ RelInv)'
  BY FrameKeeps
<1>3. ObjectInv'
  <2>1. calls' \in 0 .. MaxCalls
    BY CallAssumption DEF ObjectInv
  <2>2. QED BY <1>1, <2>1 DEF ObjectInv
<1>4. SplitInv'
  BY <1>1, SplitStays DEF IsSplit
<1>5. OwedInv'
  <2>1. ASSUME NEW x \in Triple
        PROVE  Settled(x)'
    <3>1. Pending(x)' = 0
      BY DEF Pending
    <3>2. Times(result', x) \in Nat
      BY TimesType
    <3>3. QED BY <3>1, <3>2 DEF Settled
  <2>2. QED BY <2>1 DEF OwedInv
<1>6. QED BY <1>2, <1>3, <1>4, <1>5

\* set() replaces the result; what it is given is owed.
LEMMA SetKeeps ==
  ASSUME Inv, JoinFrame, Set
  PROVE  Inv'
<1>1. PICK v \in Presets : result' = v /\ owed' = ToBag(v)
  BY DEF Set
<1>2. /\ pc = "idle" /\ calls < MaxCalls /\ calls' = calls + 1
      /\ built' = FALSE /\ whole' = TRUE /\ UNCHANGED <<kind, pc, local>>
  BY DEF Set, MayCall
<1>3. v \in Seq(Triple)
  BY CallAssumption DEF Triple
<1>4. /\ IsABag(ToBag(v)) /\ DOMAIN ToBag(v) \subseteq Triple
      /\ \A x : Amount(ToBag(v), x) = Times(v, x)
  BY <1>3, BagOfSequence
<1>5. QED BY <1>1, <1>2, <1>3, <1>4, FreshKeeps

\* get() moves the result out of the object; nothing is owed then.
LEMMA GetKeeps ==
  ASSUME Inv, JoinFrame, Get
  PROVE  Inv'
<1>1. /\ pc = "idle" /\ calls < MaxCalls /\ calls' = calls + 1
      /\ result' = <<>> /\ owed' = EmptyBag
      /\ built' \in BOOLEAN /\ whole' = TRUE /\ UNCHANGED <<kind, pc, local>>
  BY DEF Get, MayCall, Inv, ObjectInv
<1>2. <<>> \in Seq(Triple) /\ Range(<<>>) = {}
  BY DEF Range
<1>3. \A x : Times(<<>>, x) = 0
  BY <1>2, TimesType
<1>4. QED BY <1>1, <1>2, <1>3, BagOfNothing, FreshKeeps

\* The calls on a join object keep the invariant.
LEMMA UseJoinKeeps == Inv /\ UseJoin => Inv'
<1> SUFFICES ASSUME Inv, UseJoin
             PROVE  Inv'
  OBVIOUS
<1>1. stage = "join" /\ JoinStep /\ UNCHANGED <<stage, gen>>
  BY DEF UseJoin
<1>2. JoinStep => UNCHANGED <<rel, kind>>
  BY DEF JoinStep, NopExecute, NopThrows, RadixCall, RadixPartition, RadixJoin, RadixReturn,
         RadixThrows, Leave, Set, Get
<1>3. JoinFrame
  BY <1>1, <1>2 DEF JoinFrame
<1>4. QED
  BY <1>1, <1>3, NopExecuteKeeps, NopThrowsKeeps, RadixCallKeeps, RadixPartitionKeeps,
     RadixJoinKeeps, RadixReturnKeeps, RadixThrowsKeeps, SetKeeps, GetKeeps DEF JoinStep

\* Every step of the program keeps the invariant.
LEMMA NextInv == Inv /\ [Next]_vars => Inv'
<1> SUFFICES ASSUME Inv, [Next]_vars
             PROVE  Inv'
  OBVIOUS
<1>1. CASE Generate
  BY <1>1, GenerateKeeps
<1>2. CASE CopyTo("l", "left", "right")
  BY <1>2, CopyToKeeps DEF Sides
<1>3. CASE CopyTo("r", "right", "construct")
  BY <1>3, CopyToKeeps DEF Sides
<1>4. CASE Construct
  BY <1>4, ConstructKeeps
<1>5. CASE UseJoin
  BY <1>5, UseJoinKeeps
<1>6. CASE Terminated
  BY <1>6, StutterKeeps DEF Terminated
<1>7. CASE UNCHANGED vars
  BY <1>7, StutterKeeps
<1>8. QED BY <1>1, <1>2, <1>3, <1>4, <1>5, <1>6, <1>7 DEF Next

\* The inductive invariant holds in every state of the program: the relations are those the
\* generators made, a side that is partitioned is as partition() leaves it, and every match is
\* in the result or still to come as often as the calls owe it (nop_join.cpp and
\* radix_join.cpp, and the build() of the three generators).
THEOREM InvHolds == Spec => []Inv
<1>1. QED BY InitInv, NextInv, PTL DEF Spec

\* The invariant types the state.
LEMMA InvTypes == Inv => TypeOK
<1> SUFFICES ASSUME Inv
             PROVE  TypeOK
  OBVIOUS
<1> USE DEF Inv
<1>1. Live => /\ gen.with \in Parameters
              /\ gen.built \in BOOLEAN /\ gen.builds \in 0 .. MaxBuilds
              /\ gen.data \in Seq(Tuple)
  BY DEF Live, GenInv, NoGenerator, Made
<1>2. ASSUME NEW s \in Sides
      PROVE  /\ list[s] \in Seq(Tuple)
             /\ hist[s] = <<>> \/ hist[s] \in [Parts -> 0 .. Len(list[s])]
  <2> DEFINE d == rel[s]
  <2>1. d \in Seq(Tuple)
    BY DEF RelInv
  <2> HIDE DEF d
  <2>2. /\ Partitioned(d).list \in Seq(Tuple)
        /\ Partitioned(d).hist \in [Parts -> 0 .. Len(Partitioned(d).list)]
    BY <2>1, PartitionedIs
  <2>3. CASE IsSplit(s)
    <3>1. list[s] = Partitioned(d).list /\ hist[s] = Partitioned(d).hist
      BY <2>3 DEF SplitInv, d
    <3>2. QED BY <2>2, <3>1
  <2>4. CASE ~ IsSplit(s)
    <3>1. list[s] = <<>> /\ hist[s] = <<>> /\ <<>> \in Seq(Tuple)
      BY <2>4 DEF SplitInv
    <3>2. QED BY <3>1
  <2>5. QED BY <2>3, <2>4
<1>3. list \in [Sides -> Seq(Tuple)]
  <2>1. DOMAIN list = Sides /\ list = [s \in DOMAIN list |-> list[s]]
    BY DEF SplitInv
  <2>2. QED BY <1>2, <2>1
<1>4. QED
  BY <1>1, <1>2, <1>3 DEF TypeOK, StageInv, RelInv, ObjectInv, OwedInv

\* Every variable of a program that generates two relations and joins them keeps its type, for
\* all keys, hash values, parameters of the generators and bounds.
THEOREM TypesHold == Spec => []TypeOK
<1>1. QED BY InvHolds, InvTypes, PTL

\* Between calls nothing is pending, so that the invariant says what the result is.
LEMMA InvExact == Inv => ResultExact
<1> SUFFICES ASSUME Inv, pc = "idle"
             PROVE  ToBag(result) \sqsubseteq owed /\ (whole => ToBag(result) = owed)
  BY DEF ResultExact
<1>1. result \in Seq(Triple) /\ IsABag(owed) /\ DOMAIN owed \subseteq Triple
  BY DEF Inv, ObjectInv, OwedInv
<1>2. \A x \in Triple : Settled(x) /\ Pending(x) = 0 /\ Times(result, x) \in Nat
  BY AmountsAre DEF Inv, OwedInv, Pending
<1>3. \A x \in Triple : /\ Times(result, x) <= Amount(owed, x)
                        /\ whole => Times(result, x) = Amount(owed, x)
  BY <1>2 DEF Settled
<1>4. QED BY <1>1, <1>3, BagOf

\* Between the calls on a NopJoin or a RadixJoin (nop_join.cpp and radix_join.cpp, execute, set
\* and get) the result holds every match of the two relations exactly as often as the calls since
\* the last set or get owe it, and no more often, if one of them has thrown: chains of overflow
\* buckets, the histograms and the regions of the parts lose no match and make none twice, for
\* all relations of all sizes.
THEOREM ResultIsExact == Spec => []ResultExact
<1>1. QED BY InvHolds, InvExact, PTL

\* While the parts are joined, the invariant says what the regions hold.
LEMMA InvParts == Inv => PartitionsExact
<1> SUFFICES ASSUME Inv, pc = "parts", NEW s \in Sides, NEW p \in Parts
             PROVE  LET upTo(n) == {i \in 1 .. n : PartOf(rel[s][i]) = p}
                    IN  /\ Len(Region(s, p)) = Cardinality(upTo(Len(rel[s])))
                        /\ \A i \in upTo(Len(rel[s])) :
                             Region(s, p)[Cardinality(upTo(i))] = rel[s][i]
  BY DEF PartitionsExact
<1>1. Holds(Region(s, p), rel[s], p)
  BY RegionHolds DEF Inv
<1>2. QED BY <1>1 DEF Holds, Met, Among

\* When the radix join joins the parts, the region of the array between two entries of the
\* histogram holds exactly the tuples of one part, in the order of the relation (radix_join.cpp,
\* partition, and the bounds that execute computes from the histogram), for all relations.
THEOREM PartitionsAreExact == Spec => []PartitionsExact
<1>1. QED BY InvHolds, InvParts, PTL

\* What holds of the generator says that its data is faithful.
LEMMA InvFaithful == Inv => DataFaithful
BY GeneratorFaithful DEF Inv

\* After any number of builds and failed builds a generator has the tuples of every build that
\* returned, all of them and no others.  The keys follow the parameters: consecutive ones; ones
\* within the bounds; or, for every non-decreasing table of sums, the key with the least sum that
\* reaches the number drawn, which the binary search finds.  Each build makes the same keys, and
\* no row id occurs twice in the first (incremental_generator.cpp, uniform_generator.cpp,
\* zipf_generator.cpp).
THEOREM DataIsFaithful == Spec => []DataFaithful
<1>1. QED BY InvHolds, InvFaithful, PTL
================================================================================
