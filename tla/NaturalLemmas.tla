---------------------------- MODULE NaturalLemmas ----------------------------
(***************************************************************************)
(* Facts about natural numbers that the proofs about the components cite:  *)
(* induction, functions defined by recursion on 0 .. N, and remainders.    *)
(*                                                                         *)
(* Induction is stated for sets (S contains 0 and the successor of each of *)
(* its elements) and recursion for step functions, so that a use of them   *)
(* instantiates constants only.                                            *)
(***************************************************************************)
EXTENDS Integers, WellFoundedInduction, TLAPS

-----------------------------------------------------------------------------
(***************************************************************************)
(* Induction.                                                              *)
(***************************************************************************)
Below == {pair \in Nat \X Nat : pair[1] < pair[2]}

LEMMA BelowIsWellFounded == IsWellFoundedOn(Below, Nat)
<1>1. Below = OpToRel(<, Nat)
  BY Zenon DEF Below, OpToRel
<1> QED BY <1>1, NatLessThanWellFounded, Zenon

\* A set of natural numbers has a least element.
LEMMA LeastNatural ==
  ASSUME NEW S, S \subseteq Nat, S # {}
  PROVE  \E n \in S : \A m \in S : n <= m
<1>1. \E n \in S : \A m \in S : <<m, n>> \notin Below
  BY BelowIsWellFounded, WFMin
<1>2. PICK n \in S : \A m \in S : <<m, n>> \notin Below
  BY <1>1
<1>3. ASSUME NEW m \in S
      PROVE  n <= m
  <2>1. m \in Nat /\ n \in Nat /\ <<m, n>> \notin Below
    BY <1>2
  <2>2. ~(m < n)
    BY <2>1 DEF Below
  <2> QED BY <2>1, <2>2
<1> QED BY <1>3

\* A set of natural numbers with a bound has a greatest element.
LEMMA GreatestNatural ==
  ASSUME NEW S, NEW N \in Nat, S \subseteq 0 .. N, S # {}
  PROVE  \E n \in S : \A m \in S : m <= n
<1> DEFINE T == {k \in 0 .. N : N - k \in S}
<1>1. T \subseteq Nat /\ T # {}
  <2>1. PICK m : m \in S
    OBVIOUS
  <2>2. N - m \in 0 .. N /\ N - (N - m) = m
    BY <2>1
  <2>3. N - m \in T
    <3>1. N - (N - m) \in S
      BY <2>1, <2>2
    <3> QED BY <2>2, <3>1
  <2>4. T \subseteq Nat
    OBVIOUS
  <2> HIDE DEF T
  <2> QED BY <2>3, <2>4
<1>2. PICK k \in T : \A j \in T : k <= j
  <2> HIDE DEF T
  <2> QED BY <1>1, LeastNatural
<1>3. ASSUME NEW m \in S
      PROVE  m <= N - k
  <2>1. N - m \in T
    <3>1. N - m \in 0 .. N /\ N - (N - m) = m
      OBVIOUS
    <3> QED BY <3>1
  <2>2. k <= N - m
    BY <1>2, <2>1
  <2> QED BY <1>2, <2>2
<1> QED BY <1>2, <1>3

LEMMA SetInduction ==
  ASSUME NEW S, 0 \in S, \A n \in Nat : n \in S => n + 1 \in S
  PROVE  Nat \subseteq S
<1> SUFFICES ASSUME Nat \ S # {} PROVE FALSE
  OBVIOUS
<1>1. PICK n \in Nat \ S : \A m \in Nat \ S : n <= m
  BY LeastNatural
<1>2. n # 0
  OBVIOUS
<1>3. n - 1 \in Nat /\ n - 1 \in S
  BY <1>1, <1>2
<1> QED BY <1>1, <1>3

\* The same up to a bound.
LEMMA SetInductionUpTo ==
  ASSUME NEW S, NEW N \in Nat, 0 \in S,
         \A n \in 1 .. N : n - 1 \in S => n \in S
  PROVE  0 .. N \subseteq S
<1> DEFINE T == {n \in Nat : n <= N => n \in S}
<1>1. 0 \in T
  OBVIOUS
<1>2. ASSUME NEW n \in Nat, n \in T
      PROVE  n + 1 \in T
  <2>1. ASSUME n + 1 <= N PROVE n + 1 \in S
    <3>1. n + 1 \in 1 .. N /\ (n + 1) - 1 = n /\ n \in S
      BY <1>2, <2>1
    <3>2. (n + 1) - 1 \in S
      BY <3>1
    <3> QED BY <3>1, <3>2
  <2> QED BY <2>1
<1> HIDE DEF T
<1>3. Nat \subseteq T
  BY <1>1, <1>2, SetInduction
<1> QED BY <1>3 DEF T

-----------------------------------------------------------------------------
(***************************************************************************)
(* Recursion.                                                              *)
(***************************************************************************)
\* The values on 0 .. N are `base' and what `step' makes of the value before and
\* the argument.
Steps(S, N) == [S \X (1 .. N) -> S]
IsRecursion(f, S, base, N, step) ==
  /\ f \in [0 .. N -> S]
  /\ f[0] = base
  /\ \A n \in 1 .. N : f[n] = step[<<f[n - 1], n>>]

\* A first value and a step define a function on 0 .. N.
LEMMA PrimitiveRecursion ==
  ASSUME NEW S, NEW base \in S, NEW N \in Nat, NEW step \in Steps(S, N)
  PROVE  \E f : IsRecursion(f, S, base, N, step)
<1> DEFINE T == {k \in 0 .. N : \E f : IsRecursion(f, S, base, k, step)}
<1>1. 0 \in T
  <2> DEFINE f == [n \in 0 .. 0 |-> base]
  <2>1. f \in [0 .. 0 -> S] /\ f[0] = base /\ 1 .. 0 = {}
    OBVIOUS
  <2> HIDE DEF f
  <2>2. IsRecursion(f, S, base, 0, step)
    BY <2>1 DEF IsRecursion
  <2> QED BY <2>2
<1>2. ASSUME NEW k \in 1 .. N, k - 1 \in T
      PROVE  k \in T
  <2>1. PICK f : IsRecursion(f, S, base, k - 1, step)
    BY <1>2
  <2>2. /\ f \in [0 .. k - 1 -> S] /\ f[0] = base
        /\ \A n \in 1 .. k - 1 : f[n] = step[<<f[n - 1], n>>]
    BY <2>1 DEF IsRecursion
  <2> DEFINE g == [n \in 0 .. k |-> IF n = k THEN step[<<f[k - 1], k>>] ELSE f[n]]
  <2>3. g \in [0 .. k -> S] /\ g[0] = base
    <3>1. f[k - 1] \in S
      BY <2>2
    <3> QED BY <2>2, <3>1 DEF Steps
  <2>4. ASSUME NEW n \in 1 .. k
        PROVE  g[n] = step[<<g[n - 1], n>>]
    <3>1. CASE n = k
      BY <3>1
    <3>2. CASE n # k
      BY <2>2, <3>2
    <3> QED BY <3>1, <3>2
  <2> HIDE DEF g
  <2>5. IsRecursion(g, S, base, k, step)
    BY <2>3, <2>4 DEF IsRecursion
  <2> QED BY <2>5
<1> HIDE DEF T
<1>3. N \in 0 .. N /\ 0 .. N \subseteq T
  BY <1>1, <1>2, SetInductionUpTo
<1> QED BY <1>3 DEF T

-----------------------------------------------------------------------------
(***************************************************************************)
(* Remainders.                                                             *)
(***************************************************************************)
LEMMA QuotientUnique ==
  ASSUME NEW R \in Nat \ {0}, NEW d \in Int, NEW e \in Int,
         NEW r \in 0 .. R - 1, NEW s \in 0 .. R - 1, R * d + r = R * e + s
  PROVE  r = s
<1>1. CASE d = e
  BY <1>1
<1>2. CASE d < e
  <2>1. R * (e - d) >= R
    <3>1. e - d \in Nat /\ e - d >= 1
      BY <1>2
    <3> QED BY <3>1
  <2>2. R * (e - d) = R * e - R * d
    OBVIOUS
  <2> QED BY <2>1, <2>2
<1>3. CASE e < d
  <2>1. R * (d - e) >= R
    <3>1. d - e \in Nat /\ d - e >= 1
      BY <1>3
    <3> QED BY <3>1
  <2>2. R * (d - e) = R * d - R * e
    OBVIOUS
  <2> QED BY <2>1, <2>2
<1> QED BY <1>1, <1>2, <1>3

LEMMA DivisionWithRemainder ==
  ASSUME NEW R \in Nat \ {0}, NEW a \in Int
  PROVE  /\ a \div R \in Int
         /\ a % R \in 0 .. R - 1
         /\ a = R * (a \div R) + (a % R)
OBVIOUS

LEMMA NaturalProduct ==
  ASSUME NEW a \in Nat, NEW b \in Nat
  PROVE  a * b \in Nat
OBVIOUS

LEMMA NaturalQuotient ==
  ASSUME NEW a \in Nat, NEW b \in Nat \ {0}
  PROVE  a \div b \in Nat
<1>1. /\ a \div b \in Int
      /\ a % b \in 0 .. b - 1
      /\ a = b * (a \div b) + (a % b)
  BY DivisionWithRemainder
<1> DEFINE q == a \div b
<1> HIDE DEF q
<1>2. ASSUME q < 0 PROVE FALSE
  <2>1. q \in Int /\ a % b < b /\ a = b * q + (a % b)
    BY <1>1 DEF q
  <2>2. b * q <= b * (-1)
    BY <1>2, <2>1
  <2> QED BY <1>1, <2>1, <2>2
<1> QED BY <1>1, <1>2 DEF q

LEMMA RemainderIsAtMost ==
  ASSUME NEW a \in Nat, NEW b \in Nat \ {0}
  PROVE  a % b <= a
<1> DEFINE r == a % b
           whole == b * (a \div b)
<1>1. r \in Int /\ a = whole + r
  BY DivisionWithRemainder
<1>2. whole \in Nat
  BY NaturalQuotient, NaturalProduct
<1> HIDE DEF r, whole
<1>3. r <= a
  BY <1>1, <1>2
<1> QED BY <1>3 DEF r

\* Reducing before adding changes nothing (arithmetic of fixed width).
LEMMA RemainderOfSum ==
  ASSUME NEW R \in Nat \ {0}, NEW a \in Int, NEW b \in Int
  PROVE  ((a % R) + b) % R = (a + b) % R
<1> DEFINE q == a \div R
           x == a % R
           t == (x + b) \div R
           y == (x + b) % R
           u == (a + b) \div R
           z == (a + b) % R
<1>1. q \in Int /\ x \in Int /\ a = R * q + x
  BY DivisionWithRemainder
<1>2. y \in 0 .. R - 1 /\ t \in Int /\ x + b = R * t + y
  <2>1. x + b \in Int
    BY <1>1
  <2> QED BY <2>1, DivisionWithRemainder
<1>3. z \in 0 .. R - 1 /\ u \in Int /\ a + b = R * u + z
  <2>1. a + b \in Int
    OBVIOUS
  <2> QED BY <2>1, DivisionWithRemainder
<1> HIDE DEF q, x, y, z, t, u
<1>4. R * (q + t) + y = R * u + z
  <2>1. R * (q + t) = R * q + R * t
    BY <1>1, <1>2
  <2>2. R * q \in Int /\ R * t \in Int /\ R * u \in Int
    BY <1>1, <1>2, <1>3
  <2>3. R * q + x + b = R * u + z
    BY <1>1, <1>3
  <2>4. R * q + R * t + y = R * u + z
    BY <1>1, <1>2, <1>3, <2>2, <2>3
  <2> QED BY <2>1, <2>4
<1>5. y = z
  <2>1. q + t \in Int
    BY <1>1, <1>2
  <2> QED BY <1>2, <1>3, <1>4, <2>1, QuotientUnique
<1> QED BY <1>5 DEF x, y, z
=============================================================================
