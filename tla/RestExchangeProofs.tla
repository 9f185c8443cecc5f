------------------------- MODULE RestExchangeProofs -------------------------
(***************************************************************************)
(* What each exchange's class sends, what the exchange makes of it and     *)
(* what the readers make of the answer, for any market, call, price and    *)
(* filter.                                                                 *)
(*                                                                         *)
(* One lemma for each call and class: its request is well-formed and       *)
(* signed as the exchange wants it, changes nothing unless it adds or      *)
(* cancels an order, and is read as what the exchange knew (BinanceAnswers *)
(* and so on), or as the id of the order entered as it was asked for       *)
(* (AddsTo).  They rest on lemmas about arrays, names, texts of numbers    *)
(* and lists of orders, which the five classes share.                      *)
(***************************************************************************)
EXTENDS RestClient, NaturalLemmas, SequenceTheorems, FiniteSetTheorems, TLAPS

-----------------------------------------------------------------------------
(***************************************************************************)
(* Arrays.                                                                 *)
(***************************************************************************)
Least(a, b) == IF a < b THEN a ELSE b

\* std::reverse keeps an array's members, the last first.
LEMMA ReversedArray ==
  ASSUME NEW S, NEW s \in Seq(S)
  PROVE  /\ Reverse(s) \in Seq(S) /\ Len(Reverse(s)) = Len(s)
         /\ \A i \in 1 .. Len(s) : Reverse(s)[i] = s[Len(s) - i + 1]
<1>1. Len(s) \in Nat /\ \A i \in 1 .. Len(s) : Len(s) - i + 1 \in 1 .. Len(s) /\ s[Len(s) - i + 1] \in S
  OBVIOUS
<1> QED BY <1>1 DEF Reverse

\* The first n members of an array, or all of them.
LEMMA FirstOfArray ==
  ASSUME NEW S, NEW s \in Seq(S), NEW n \in Nat
  PROVE  /\ First(s, n) \in Seq(S) /\ Len(First(s, n)) = Least(n, Len(s))
         /\ \A i \in 1 .. Least(n, Len(s)) : First(s, n)[i] = s[i]
<1> DEFINE k == IF n < Len(s) THEN n ELSE Len(s)
<1>1. k \in Nat /\ k <= Len(s) /\ k = Least(n, Len(s))
  BY DEF Least
<1>2. \A i \in 1 .. k : s[i] \in S
  BY <1>1
<1> HIDE DEF k
<1>3. SubSeq(s, 1, k) \in Seq(S) /\ Len(SubSeq(s, 1, k)) = k /\ \A i \in 1 .. k : SubSeq(s, 1, k)[i] = s[i]
  BY <1>1, <1>2
<1> QED BY <1>1, <1>3 DEF First, k

\* The newest n of an array that lists the oldest first, the newest first.
LEMMA NewestOfArray ==
  ASSUME NEW S, NEW s \in Seq(S), NEW n \in Nat
  PROVE  /\ Newest(s, n) \in Seq(S) /\ Len(Newest(s, n)) = Least(n, Len(s))
         /\ \A i \in 1 .. Least(n, Len(s)) : Newest(s, n)[i] = s[Len(s) - i + 1]
<1>1. /\ Reverse(s) \in Seq(S) /\ Len(Reverse(s)) = Len(s)
      /\ \A i \in 1 .. Len(s) : Reverse(s)[i] = s[Len(s) - i + 1]
  BY ReversedArray
<1>2. /\ First(Reverse(s), n) \in Seq(S) /\ Len(First(Reverse(s), n)) = Least(n, Len(Reverse(s)))
      /\ \A i \in 1 .. Least(n, Len(Reverse(s))) : First(Reverse(s), n)[i] = Reverse(s)[i]
  BY <1>1, FirstOfArray
<1>3. Least(n, Len(s)) <= Len(s) /\ Least(n, Len(s)) \in Nat
  BY DEF Least
<1> QED BY <1>1, <1>2, <1>3 DEF Newest

\* The recursion of Among.
AmongSteps(s, T) ==
  LET upTo[n \in 0 .. Len(s)] ==
        IF n = 0 THEN <<>> ELSE IF s[n] \in T THEN Append(upTo[n - 1], s[n]) ELSE upTo[n - 1]
  IN  upTo

\* The recursion that Among folds has a value at every step.
LEMMA AmongIsRecursive ==
  ASSUME NEW S, NEW s \in Seq(S), NEW T
  PROVE  /\ AmongSteps(s, T) \in [0 .. Len(s) -> Seq(S)]
         /\ AmongSteps(s, T)[0] = <<>>
         /\ \A n \in 1 .. Len(s) :
              AmongSteps(s, T)[n] = IF s[n] \in T THEN Append(AmongSteps(s, T)[n - 1], s[n])
                                                  ELSE AmongSteps(s, T)[n - 1]
<1> DEFINE N == Len(s)
           step == [x \in Seq(S) \X (1 .. N) |-> IF s[x[2]] \in T THEN Append(x[1], s[x[2]]) ELSE x[1]]
<1>1. N \in Nat /\ <<>> \in Seq(S) /\ step \in Steps(Seq(S), N)
  BY DEF Steps
<1>2. PICK f : IsRecursion(f, Seq(S), <<>>, N, step)
  <2> HIDE DEF step, N
  <2> QED BY <1>1, PrimitiveRecursion
<1>3. /\ f \in [0 .. N -> Seq(S)] /\ f[0] = <<>>
      /\ \A n \in 1 .. N : f[n] = step[<<f[n - 1], n>>]
  BY <1>2 DEF IsRecursion
<1>4. ASSUME NEW n \in 1 .. N
      PROVE  f[n] = IF s[n] \in T THEN Append(f[n - 1], s[n]) ELSE f[n - 1]
  <2>1. n - 1 \in 0 .. N
    BY <1>1
  <2>2. f[n - 1] \in Seq(S)
    <3> HIDE DEF step, N
    <3> QED BY <1>3, <2>1
  <2>3. f[n] = step[<<f[n - 1], n>>]
    BY <1>3
  <2>4. step[<<f[n - 1], n>>] = IF s[n] \in T THEN Append(f[n - 1], s[n]) ELSE f[n - 1]
    <3> HIDE DEF N
    <3> QED BY <2>2
  <2> QED BY <2>3, <2>4, Zenon
<1> HIDE DEF step
<1>5. f = [n \in 0 .. N |-> IF n = 0 THEN <<>> ELSE IF s[n] \in T THEN Append(f[n - 1], s[n]) ELSE f[n - 1]]
  <2> HIDE DEF N
  <2>1. ASSUME NEW n \in 0 .. N
        PROVE  f[n] = IF n = 0 THEN <<>> ELSE IF s[n] \in T THEN Append(f[n - 1], s[n]) ELSE f[n - 1]
    <3>1. CASE n = 0
      BY <1>3, <3>1
    <3>2. CASE n # 0
      <4>1. n \in 1 .. N
        BY <1>1, <3>2
      <4> QED BY <1>4, <3>2, <4>1, Zenon
    <3> QED BY <3>1, <3>2
  <2>2. f = [n \in 0 .. N |-> f[n]]
    BY <1>3
  <2> QED BY <2>1, <2>2, Zenon
<1>6. AmongSteps(s, T) = CHOOSE g : g = [n \in 0 .. N |-> IF n = 0 THEN <<>> ELSE IF s[n] \in T THEN Append(g[n - 1], s[n]) ELSE g[n - 1]]
  BY Zenon DEF AmongSteps
<1> DEFINE g == AmongSteps(s, T)
<1>7. g = [n \in 0 .. N |-> IF n = 0 THEN <<>> ELSE IF s[n] \in T THEN Append(g[n - 1], s[n]) ELSE g[n - 1]]
  BY <1>5, <1>6, Zenon
<1> HIDE DEF g
<1> DEFINE Same == {n \in 0 .. N : g[n] = f[n]}
<1>8. 0 \in Same
  <2>1. 0 \in 0 .. N
    BY <1>1
  <2>2. g[0] = <<>>
    BY <1>7, <2>1, Zenon
  <2> QED BY <1>3, <2>1, <2>2
<1>9. ASSUME NEW n \in 1 .. N, n - 1 \in Same
      PROVE  n \in Same
  <2>0. n \in 0 .. N /\ n # 0
    OBVIOUS
  <2>1. g[n] = IF s[n] \in T THEN Append(g[n - 1], s[n]) ELSE g[n - 1]
    BY <1>7, <2>0, Zenon
  <2>2. g[n - 1] = f[n - 1]
    BY <1>9
  <2>3. f[n] = IF s[n] \in T THEN Append(f[n - 1], s[n]) ELSE f[n - 1]
    BY <1>4
  <2>4. g[n] = f[n]
    BY <2>1, <2>2, <2>3
  <2> QED BY <2>0, <2>4
<1>10. 0 .. N \subseteq Same
  <2> HIDE DEF Same, N
  <2> QED BY <1>1, <1>8, <1>9, SetInductionUpTo
<1>11. g = f
  <2>1. \A n \in 0 .. N : g[n] = f[n]
    BY <1>10
  <2>2. f = [n \in 0 .. N |-> f[n]]
    BY <1>3
  <2> DEFINE e(n) == IF n = 0 THEN <<>> ELSE IF s[n] \in T THEN Append(g[n - 1], s[n]) ELSE g[n - 1]
  <2>3. g = [n \in 0 .. N |-> e(n)]
    BY <1>7
  <2> HIDE DEF e
  <2>4. \A n \in 0 .. N : e(n) = f[n]
    BY <2>1, <2>3
  <2> QED BY <2>2, <2>3, <2>4, Zenon
<1> QED BY <1>3, <1>4, <1>11 DEF g

\* Among is the last step of its recursion.
LEMMA AmongOfSteps == \A s, T : Among(s, T) = AmongSteps(s, T)[Len(s)]
BY Zenon DEF Among, AmongSteps

\* Among keeps the members that are in the set, and no others.
LEMMA AmongIs ==
  ASSUME NEW S, NEW s \in Seq(S), NEW T
  PROVE  /\ Among(s, T) \in Seq(S)
         /\ \A i \in 1 .. Len(Among(s, T)) : Among(s, T)[i] \in T /\ \E j \in 1 .. Len(s) : Among(s, T)[i] = s[j]
         /\ \A j \in 1 .. Len(s) : s[j] \in T => \E i \in 1 .. Len(Among(s, T)) : Among(s, T)[i] = s[j]
<1> DEFINE f == AmongSteps(s, T)
           N == Len(s)
           Good(n) == /\ \A i \in 1 .. Len(f[n]) : f[n][i] \in T /\ \E j \in 1 .. n : f[n][i] = s[j]
                      /\ \A j \in 1 .. n : s[j] \in T => \E i \in 1 .. Len(f[n]) : f[n][i] = s[j]
           Holds == {n \in 0 .. N : Good(n)}
<1>1. /\ N \in Nat /\ f \in [0 .. N -> Seq(S)] /\ f[0] = <<>>
      /\ \A n \in 1 .. N : f[n] = IF s[n] \in T THEN Append(f[n - 1], s[n]) ELSE f[n - 1]
  <2>1. N \in Nat
    OBVIOUS
  <2> QED BY <2>1, AmongIsRecursive
<1> HIDE DEF f
<1>2. 0 \in Holds
  BY <1>1
<1>3. ASSUME NEW n \in 1 .. N, n - 1 \in Holds
      PROVE  n \in Holds
  <2>1. /\ n - 1 \in 0 .. N /\ f[n - 1] \in Seq(S) /\ s[n] \in S
        /\ f[n] = IF s[n] \in T THEN Append(f[n - 1], s[n]) ELSE f[n - 1]
    <3>1. n - 1 \in 0 .. N /\ s[n] \in S
      BY <1>1
    <3> HIDE DEF N
    <3> QED BY <1>1, <3>1
  <2>2. Good(n - 1)
    BY <1>3
  <2>3. CASE s[n] \notin T
    <3>1. f[n] = f[n - 1]
      BY <2>1, <2>3
    <3>2. Good(n)
      BY <2>2, <2>3, <3>1
    <3> QED BY <3>2
  <2>4. CASE s[n] \in T
    <3> DEFINE a == f[n - 1]
               b == f[n]
    <3>1. b = Append(a, s[n])
      BY <2>1, <2>4
    <3>2. /\ Len(b) = Len(a) + 1 /\ Len(a) \in Nat
          /\ \A i \in 1 .. Len(a) : b[i] = a[i]
          /\ b[Len(a) + 1] = s[n]
      <4> HIDE DEF b
      <4>1. a \in Seq(S)
        BY <2>1
      <4> HIDE DEF a
      <4> QED BY <2>1, <3>1, <4>1, AppendProperties
    <3>3. /\ \A i \in 1 .. Len(a) : a[i] \in T /\ \E j \in 1 .. n - 1 : a[i] = s[j]
          /\ \A j \in 1 .. n - 1 : s[j] \in T => \E i \in 1 .. Len(a) : a[i] = s[j]
      BY <2>2
    <3> HIDE DEF a, b, N, f
    <3>4. ASSUME NEW i \in 1 .. Len(b)
          PROVE  b[i] \in T /\ \E j \in 1 .. n : b[i] = s[j]
      <4>1. CASE i = Len(a) + 1
        BY <4>1, <3>2, <2>4
      <4>2. CASE i # Len(a) + 1
        <5>1. i \in 1 .. Len(a)
          BY <4>2, <3>2
        <5>2. b[i] = a[i] /\ a[i] \in T /\ \E j \in 1 .. n - 1 : a[i] = s[j]
          BY <5>1, <3>2, <3>3
        <5>3. \A j \in 1 .. n - 1 : j \in 1 .. n
          BY <1>1
        <5> QED BY <5>2, <5>3
      <4> QED BY <4>1, <4>2
    <3>5. ASSUME NEW j \in 1 .. n, s[j] \in T
          PROVE  \E i \in 1 .. Len(b) : b[i] = s[j]
      <4>1. CASE j = n
        BY <4>1, <3>2
      <4>2. CASE j # n
        <5>1. j \in 1 .. n - 1
          BY <4>2, <1>1
        <5>2. PICK i \in 1 .. Len(a) : a[i] = s[j]
          BY <5>1, <3>3, <3>5
        <5> QED BY <5>2, <3>2
      <4> QED BY <4>1, <4>2
    <3>6. Good(n)
      BY <3>4, <3>5 DEF b
    <3> QED BY <3>6
  <2> QED BY <2>3, <2>4
<1>4. 0 .. N \subseteq Holds
  <2> HIDE DEF Holds, N
  <2> QED BY <1>1, <1>2, <1>3, SetInductionUpTo
<1>5. N \in 0 .. N /\ Among(s, T) = f[N]
  BY <1>1, AmongOfSteps DEF f
<1>6. Good(N) /\ f[N] \in Seq(S)
  BY <1>1, <1>4, <1>5
<1> HIDE DEF N
<1>7. /\ \A i \in 1 .. Len(f[N]) : f[N][i] \in T /\ \E j \in 1 .. N : f[N][i] = s[j]
      /\ \A j \in 1 .. N : s[j] \in T => \E i \in 1 .. Len(f[N]) : f[N][i] = s[j]
  BY <1>6
<1> HIDE DEF Good
<1> QED BY <1>5, <1>6, <1>7, Zenon DEF N

\* An array with a value for each element of another keeps those at the same places.
Images(t, s, g) == Len(t) = Len(s) /\ \A i \in 1 .. Len(s) : t[i] = g[s[i]]
KeepAlike(t, B, s, A) == \A i \in 1 .. Len(s) : t[i] \in B <=> s[i] \in A

\* Keeping members commutes with reading every member.
LEMMA AmongImage ==
  ASSUME NEW S, NEW U, NEW s \in Seq(S), NEW t \in Seq(U), NEW A, NEW B, NEW g,
         Images(t, s, g), KeepAlike(t, B, s, A)
  PROVE  Images(Among(t, B), Among(s, A), g)
<1>0. Len(t) = Len(s) /\ \A i \in 1 .. Len(s) : t[i] = g[s[i]] /\ (t[i] \in B <=> s[i] \in A)
  BY DEF Images, KeepAlike
<1> DEFINE f == AmongSteps(s, A)
           h == AmongSteps(t, B)
           N == Len(s)
           Good(n) == /\ Len(h[n]) = Len(f[n])
                      /\ \A i \in 1 .. Len(f[n]) : h[n][i] = g[f[n][i]]
           Holds == {n \in 0 .. N : Good(n)}
<1>1. /\ N \in Nat /\ f \in [0 .. N -> Seq(S)] /\ f[0] = <<>>
      /\ \A n \in 1 .. N : f[n] = IF s[n] \in A THEN Append(f[n - 1], s[n]) ELSE f[n - 1]
  <2>1. N \in Nat
    OBVIOUS
  <2> QED BY <2>1, AmongIsRecursive
<1>2. /\ h \in [0 .. N -> Seq(U)] /\ h[0] = <<>>
      /\ \A n \in 1 .. N : h[n] = IF t[n] \in B THEN Append(h[n - 1], t[n]) ELSE h[n - 1]
  <2>1. N = Len(t)
    BY <1>0
  <2> HIDE DEF N
  <2> QED BY <2>1, AmongIsRecursive
<1> HIDE DEF f, h
<1>3. 0 \in Holds
  BY <1>1, <1>2
<1>4. ASSUME NEW n \in 1 .. N, n - 1 \in Holds
      PROVE  n \in Holds
  <2>1. n - 1 \in 0 .. N /\ s[n] \in S /\ t[n] \in U /\ t[n] = g[s[n]] /\ (t[n] \in B <=> s[n] \in A)
    BY <1>0, <1>1
  <2> HIDE DEF N
  <2>2. /\ f[n - 1] \in Seq(S) /\ f[n] = IF s[n] \in A THEN Append(f[n - 1], s[n]) ELSE f[n - 1]
        /\ h[n - 1] \in Seq(U) /\ h[n] = IF t[n] \in B THEN Append(h[n - 1], t[n]) ELSE h[n - 1]
    BY <1>1, <1>2, <2>1
  <2>3. Good(n - 1)
    BY <1>4
  <2>4. CASE s[n] \notin A
    <3>1. f[n] = f[n - 1] /\ h[n] = h[n - 1]
      BY <2>1, <2>2, <2>4
    <3>2. Good(n)
      BY <2>3, <3>1
    <3> QED BY <3>2
  <2>5. CASE s[n] \in A
    <3> DEFINE a == f[n - 1]
               b == f[n]
               c == h[n - 1]
               d == h[n]
    <3>1. b = Append(a, s[n]) /\ d = Append(c, t[n])
      BY <2>1, <2>2, <2>5
    <3>2. a \in Seq(S) /\ c \in Seq(U)
      BY <2>2
    <3>3. Len(c) = Len(a) /\ \A i \in 1 .. Len(a) : c[i] = g[a[i]]
      BY <2>3
    <3> HIDE DEF a, b, c, d
    <3>4. /\ Len(b) = Len(a) + 1 /\ Len(a) \in Nat
          /\ \A i \in 1 .. Len(a) : b[i] = a[i]
          /\ b[Len(a) + 1] = s[n]
      BY <2>1, <3>1, <3>2, AppendProperties
    <3>5. /\ Len(d) = Len(c) + 1
          /\ \A i \in 1 .. Len(c) : d[i] = c[i]
          /\ d[Len(c) + 1] = t[n]
      BY <2>1, <3>1, <3>2, AppendProperties
    <3>6. ASSUME NEW i \in 1 .. Len(b)
          PROVE  d[i] = g[b[i]]
      <4>1. CASE i = Len(a) + 1
        BY <4>1, <3>3, <3>4, <3>5, <2>1
      <4>2. CASE i # Len(a) + 1
        <5>1. i \in 1 .. Len(a)
          BY <4>2, <3>4
        <5> QED BY <5>1, <3>3, <3>4, <3>5
      <4> QED BY <4>1, <4>2
    <3>7. Good(n)
      BY <3>3, <3>4, <3>5, <3>6 DEF b, d
    <3> QED BY <3>7
  <2> QED BY <2>4, <2>5
<1>5. 0 .. N \subseteq Holds
  <2> HIDE DEF Holds, N
  <2> QED BY <1>1, <1>3, <1>4, SetInductionUpTo
<1>6. N \in 0 .. N /\ Among(s, A) = f[N] /\ Among(t, B) = h[N]
  BY <1>0, <1>1, AmongOfSteps DEF f, h
<1>7. Good(N)
  BY <1>5, <1>6
<1> HIDE DEF N
<1>8. Images(h[N], f[N], g)
  BY <1>7 DEF Images
<1> QED BY <1>6, <1>8, Zenon

\* Two sets that hold the same members of an array keep the same ones.
LEMMA AmongSame ==
  ASSUME NEW S, NEW s \in Seq(S), NEW A, NEW B, \A i \in 1 .. Len(s) : s[i] \in A <=> s[i] \in B
  PROVE  Among(s, A) = Among(s, B)
<1> DEFINE g == [x \in S |-> x]
<1>1. Images(s, s, g) /\ KeepAlike(s, B, s, A)
  BY DEF Images, KeepAlike
<1> HIDE DEF g
<1>2. Images(Among(s, B), Among(s, A), g)
  BY <1>1, AmongImage
<1>3. Among(s, A) \in Seq(S) /\ Among(s, B) \in Seq(S)
  <2>1. \A T : Among(s, T) \in Seq(S)
    BY AmongIs
  <2> QED BY <2>1
<1>4. ASSUME NEW i \in 1 .. Len(Among(s, A))
      PROVE  Among(s, B)[i] = Among(s, A)[i]
  <2>1. Among(s, A)[i] \in S
    BY <1>3
  <2> QED BY <1>2, <2>1 DEF g, Images
<1>5. Len(Among(s, B)) = Len(Among(s, A))
  BY <1>2 DEF Images
<1> QED BY <1>3, <1>4, <1>5, SeqEqual

-----------------------------------------------------------------------------
(***************************************************************************)
(* Names, numbers and lists.                                               *)
(***************************************************************************)
LEMMA NamesTellPairs ==
  ASSUME NEW p \in Pairs, NEW q \in Pairs, NEW s, NEW t, Name(p, s) = Name(q, t)
  PROVE  p = q /\ s = t
BY PairsAssumption DEF Name

\* The pair that a market's name names is the pair it was made of.
LEMMA NameOfAPair ==
  ASSUME NEW p \in Pairs, NEW s
  PROVE  IsName(Name(p, s), s) /\ PairNamed(Name(p, s), s) = p
<1>1. IsName(Name(p, s), s)
  BY DEF IsName
<1>2. PairNamed(Name(p, s), s) \in Pairs /\ Name(PairNamed(Name(p, s), s), s) = Name(p, s)
  BY DEF PairNamed
<1> QED BY <1>1, <1>2, NamesTellPairs

\* A set of pairs has finitely many names.
LEMMA NamesAreFinite ==
  ASSUME NEW P, P \subseteq Pairs, NEW s
  PROVE  IsFiniteSet({Name(p, s) : p \in P})
<1> DEFINE N == {Name(p, s) : p \in P}
           f == [p \in P |-> Name(p, s)]
<1>1. IsFiniteSet(P)
  BY FiltersAssumption, FS_Subset
<1>2. f \in Surjection(P, N)
  BY DEF Surjection
<1> HIDE DEF f, N
<1>3. IsFiniteSet(N)
  BY <1>1, <1>2, FS_Surjection
<1> QED BY <1>3 DEF N

\* A list made of a finite set holds its members, and no others.
LEMMA ListOfASet ==
  ASSUME NEW S, IsFiniteSet(S)
  PROVE  /\ SetToSeq(S) \in Seq(S)
         /\ DOMAIN SetToSeq(S) = 1 .. Len(SetToSeq(S))
         /\ \A i \in DOMAIN SetToSeq(S) : SetToSeq(S)[i] \in S
         /\ \A x \in S : \E i \in DOMAIN SetToSeq(S) : SetToSeq(S)[i] = x
<1> DEFINE n == Cardinality(S)
<1>1. n \in Nat /\ ExistsBijection(1 .. n, S)
  BY FS_CardinalityType
<1>2. \E f \in [1 .. n -> S] : IsInjective(f)
  BY <1>1, Zenon DEF ExistsBijection, Bijection, Injection
<1>3. SetToSeq(S) \in [1 .. n -> S] /\ IsInjective(SetToSeq(S))
  BY <1>2, Zenon DEF SetToSeq
<1> DEFINE l == SetToSeq(S)
<1>4. l \in Injection(1 .. n, S)
  BY <1>3 DEF Injection
<1> HIDE DEF l
<1>5. l \in Surjection(1 .. n, S)
  <2>1. IsFiniteSet(1 .. n) /\ Cardinality(1 .. n) = n
    BY <1>1, FS_Interval
  <2> QED BY <1>4, <2>1, FS_Injection
<1>6. \A x \in S : \E i \in 1 .. n : l[i] = x
  BY <1>5 DEF Surjection
<1>7. l \in [1 .. n -> S]
  BY <1>3 DEF l
<1>8. l \in Seq(S) /\ Len(l) = n /\ DOMAIN l = 1 .. n
  BY <1>1, <1>7
<1> QED BY <1>6, <1>7, <1>8 DEF l

\* std::stod gives back the number a text was made of.
LEMMA TextIsRead == \A n : Stod(Text(n)) = n
BY DEF Stod, Text

\* Texts of different numbers differ.
LEMMA TextTells == \A m, n : Text(m) = Text(n) => m = n
BY DEF Text

\* A time in milliseconds, divided by 1000, is the time in seconds.
LEMMA MillisAreRead == \A t \in Nat : Millis(t) \div 1000 = t
BY DEF Millis

\* The newest of an array, in the order of the array.
LEMMA NewestInOrder ==
  ASSUME NEW S, NEW s \in Seq(S), NEW n \in Nat
  PROVE  /\ Reverse(Newest(s, n)) \in Seq(S) /\ Len(Reverse(Newest(s, n))) = Least(n, Len(s))
         /\ \A i \in 1 .. Least(n, Len(s)) :
              /\ Reverse(Newest(s, n))[i] = s[Len(s) - Least(n, Len(s)) + i]
              /\ Len(s) - Least(n, Len(s)) + i \in 1 .. Len(s)
<1> DEFINE L == Least(n, Len(s))
           t == Newest(s, n)
<1>1. t \in Seq(S) /\ Len(t) = L /\ \A i \in 1 .. L : t[i] = s[Len(s) - i + 1]
  BY NewestOfArray
<1>2. L \in Nat /\ L <= Len(s)
  BY DEF Least
<1> HIDE DEF t, L
<1>3. Reverse(t) \in Seq(S) /\ Len(Reverse(t)) = L /\ \A i \in 1 .. L : Reverse(t)[i] = t[L - i + 1]
  BY <1>1, ReversedArray
<1>4. ASSUME NEW i \in 1 .. L
      PROVE  Reverse(t)[i] = s[Len(s) - L + i] /\ Len(s) - L + i \in 1 .. Len(s)
  <2>1. L - i + 1 \in 1 .. L
    BY <1>2
  <2>2. Reverse(t)[i] = s[Len(s) - (L - i + 1) + 1]
    BY <1>1, <1>3, <2>1
  <2>3. Len(s) - (L - i + 1) + 1 = Len(s) - L + i
    BY <1>2
  <2> QED BY <1>2, <2>2, <2>3
<1> QED BY <1>3, <1>4 DEF t, L

\* The last n of an array, turned round, are its newest.
LEMMA NewestReversed ==
  ASSUME NEW S, NEW s \in Seq(S), NEW n \in Nat, NEW y \in Seq(S), Len(y) = Least(n, Len(s)),
         \A i \in 1 .. Len(y) : y[i] = s[Len(s) - Len(y) + i]
  PROVE  Reverse(y) = Newest(s, n)
<1>1. Reverse(y) \in Seq(S) /\ Len(Reverse(y)) = Len(y) /\ \A i \in 1 .. Len(y) : Reverse(y)[i] = y[Len(y) - i + 1]
  BY ReversedArray
<1>2. Newest(s, n) \in Seq(S) /\ Len(Newest(s, n)) = Len(y)
      /\ \A i \in 1 .. Len(y) : Newest(s, n)[i] = s[Len(s) - i + 1]
  BY NewestOfArray
<1>3. ASSUME NEW i \in 1 .. Len(y)
      PROVE  Reverse(y)[i] = Newest(s, n)[i]
  <2>1. Len(y) - i + 1 \in 1 .. Len(y) /\ Len(s) - Len(y) + (Len(y) - i + 1) = Len(s) - i + 1
    OBVIOUS
  <2>2. y[Len(y) - i + 1] = s[Len(s) - Len(y) + (Len(y) - i + 1)]
    BY <2>1
  <2> QED BY <1>1, <1>2, <2>1, <2>2
<1> QED BY <1>1, <1>2, <1>3, SeqEqual

\* The entries of a book that are read as they are.
LEMMA LevelsAreRead ==
  ASSUME NEW l \in Seq(Levels), NEW side, NEW b, b = [i \in DOMAIN l |-> Entry(l[i].price, l[i].volume, side)]
  PROVE  /\ b \in Seq([price : Nat, volume : Nat, side : {side}])
         /\ SameLevels(b, l) /\ \A e \in ToSet(b) : e.side = side
<1>1. ASSUME NEW i \in DOMAIN l
      PROVE  /\ b[i] \in [price : Nat, volume : Nat, side : {side}]
             /\ b[i].price = l[i].price /\ b[i].volume = l[i].volume /\ b[i].side = side
  <2>1. l[i] \in Levels
    OBVIOUS
  <2>2. l[i].price \in Nat /\ l[i].volume \in Nat
    BY <2>1 DEF Levels
  <2>3. b[i] = [price |-> l[i].price, volume |-> l[i].volume, side |-> side]
    BY DEF Entry
  <2> QED BY <2>2, <2>3
<1>2. DOMAIN b = DOMAIN l /\ b = [i \in DOMAIN l |-> b[i]]
  OBVIOUS
<1>3. b \in Seq([price : Nat, volume : Nat, side : {side}]) /\ Len(b) = Len(l)
  <2>1. DOMAIN l = 1 .. Len(l) /\ Len(l) \in Nat
    OBVIOUS
  <2>2. b \in [1 .. Len(l) -> [price : Nat, volume : Nat, side : {side}]]
    BY <1>1, <1>2, <2>1, Zenon
  <2> QED BY <2>1, <2>2
<1> QED BY <1>1, <1>2, <1>3 DEF SameLevels, ToSet

\* Candles that are sent as texts, oldest first, and read newest first.
CandleRow(k) == <<Millis(k.time), Text(k.open), Text(k.high), Text(k.low), Text(k.close), Text(k.volume)>>
CandleOfRow(k) == Candle(k[1] \div 1000, Stod(k[2]), Stod(k[3]), Stod(k[4]), Stod(k[5]), Stod(k[6]))

\* A candle of the wire is read as the candle it was made of.
LEMMA CandleIsReadBack ==
  ASSUME NEW k \in Candles
  PROVE  CandleOfRow(CandleRow(k)) = k
<1>1. Millis(k.time) \div 1000 = k.time
  BY MillisAreRead DEF Candles
<1> DEFINE w == CandleRow(k)
<1>2. /\ w[1] \div 1000 = k.time /\ Stod(w[2]) = k.open /\ Stod(w[3]) = k.high
      /\ Stod(w[4]) = k.low /\ Stod(w[5]) = k.close /\ Stod(w[6]) = k.volume
  BY <1>1, TextIsRead DEF CandleRow
<1> HIDE DEF w
<1>3. CandleOfRow(w) = Candle(k.time, k.open, k.high, k.low, k.close, k.volume)
  BY <1>2, Zenon DEF CandleOfRow
<1>4. Candle(k.time, k.open, k.high, k.low, k.close, k.volume) = k
  BY DEF Candle, Candles
<1> QED BY <1>3, <1>4 DEF w

\* The candles that Binance and Bybit send are read as the newest n, the newest first.
LEMMA CandlesAreReadBack ==
  ASSUME NEW s \in Seq(Candles), NEW n \in Nat
  PROVE  LET t == [i \in DOMAIN s |-> <<Millis(s[i].time), Text(s[i].open), Text(s[i].high), Text(s[i].low),
                                         Text(s[i].close), Text(s[i].volume)>>]
             z == Reverse(Newest(t, n))
             y == [i \in DOMAIN z |-> Candle(z[i][1] \div 1000, Stod(z[i][2]), Stod(z[i][3]), Stod(z[i][4]),
                                              Stod(z[i][5]), Stod(z[i][6]))]
         IN  Reverse(y) = Newest(s, n)
<1> DEFINE t == [i \in DOMAIN s |-> CandleRow(s[i])]
           z == Reverse(Newest(t, n))
           y == [i \in DOMAIN z |-> CandleOfRow(z[i])]
           U == {CandleRow(k) : k \in Candles}
           L == Least(n, Len(s))
<1>1. t \in Seq(U) /\ Len(t) = Len(s) /\ \A i \in 1 .. Len(s) : t[i] = CandleRow(s[i]) /\ s[i] \in Candles
  <2>1. \A i \in 1 .. Len(s) : CandleRow(s[i]) \in U
    OBVIOUS
  <2> HIDE DEF U
  <2> QED BY <2>1
<1> HIDE DEF t, U
<1>2. /\ z \in Seq(U) /\ Len(z) = L
      /\ \A i \in 1 .. L : z[i] = t[Len(s) - L + i] /\ Len(s) - L + i \in 1 .. Len(s)
  <2>1. /\ z \in Seq(U) /\ Len(z) = Least(n, Len(t))
        /\ \A i \in 1 .. Least(n, Len(t)) : z[i] = t[Len(t) - Least(n, Len(t)) + i]
                                          /\ Len(t) - Least(n, Len(t)) + i \in 1 .. Len(t)
    <3>1. t \in Seq(U)
      BY <1>1
    <3> QED BY <3>1, NewestInOrder
  <2>2. Len(t) = Len(s)
    BY <1>1
  <2> HIDE DEF z
  <2> QED BY <2>1, <2>2
<1> HIDE DEF z, L
<1>3. ASSUME NEW i \in 1 .. L PROVE CandleOfRow(z[i]) = s[Len(s) - L + i] /\ CandleOfRow(z[i]) \in Candles
  <2> DEFINE j == Len(s) - L + i
  <2>1. j \in 1 .. Len(s) /\ z[i] = t[j]
    BY <1>2
  <2> HIDE DEF j
  <2>2. z[i] = CandleRow(s[j]) /\ s[j] \in Candles
    BY <1>1, <2>1
  <2>3. CandleOfRow(z[i]) = s[j]
    BY <2>2, CandleIsReadBack
  <2> QED BY <2>2, <2>3 DEF j
<1>4. y \in Seq(Candles) /\ Len(y) = L /\ \A i \in 1 .. L : y[i] = CandleOfRow(z[i])
  <2>1. DOMAIN z = 1 .. L /\ L \in Nat
    BY <1>2
  <2>2. \A i \in 1 .. L : CandleOfRow(z[i]) \in Candles
    BY <1>3
  <2>3. y = [i \in 1 .. L |-> CandleOfRow(z[i])]
    BY <2>1
  <2> HIDE DEF y
  <2> QED BY <2>1, <2>2, <2>3
<1> HIDE DEF y
<1>5. Len(y) = Least(n, Len(s)) /\ \A i \in 1 .. Len(y) : y[i] = s[Len(s) - Len(y) + i]
  BY <1>3, <1>4 DEF L
<1>6. Reverse(y) = Newest(s, n)
  BY <1>4, <1>5, NewestReversed
<1> QED BY <1>6, Zenon DEF y, z, t, CandleRow, CandleOfRow

\* The orders of the exchange, and what is read of them.
LEMMA OrdersInState ==
  ASSUME NEW m, IsExchange(m), NEW states
  PROVE  /\ InState(m, states) \in Seq(Orders)
         /\ \A i \in 1 .. Len(InState(m, states)) :
              /\ InState(m, states)[i].state \in states
              /\ \E j \in 1 .. Len(m.orders) : InState(m, states)[i] = m.orders[j]
         /\ \A j \in 1 .. Len(m.orders) : m.orders[j].state \in states =>
              \E i \in 1 .. Len(InState(m, states)) : InState(m, states)[i] = m.orders[j]
<1> DEFINE T == {o \in ToSet(m.orders) : o.state \in states}
<1>1. m.orders \in Seq(Orders)
  BY DEF IsExchange
<1>2. InState(m, states) = Among(m.orders, T)
  BY Zenon DEF InState
<1>3. \A x : x \in T <=> x.state \in states /\ \E j \in 1 .. Len(m.orders) : x = m.orders[j]
  <2>1. DOMAIN m.orders = 1 .. Len(m.orders)
    BY <1>1
  <2> QED BY <2>1 DEF ToSet
<1> HIDE DEF T
<1>4. /\ Among(m.orders, T) \in Seq(Orders)
      /\ \A i \in 1 .. Len(Among(m.orders, T)) : Among(m.orders, T)[i] \in T
      /\ \A j \in 1 .. Len(m.orders) : m.orders[j] \in T => \E i \in 1 .. Len(Among(m.orders, T)) : Among(m.orders, T)[i] = m.orders[j]
  BY <1>1, AmongIs
<1> QED BY <1>2, <1>3, <1>4

OrderIsRead(d, o) ==
  /\ d.id = Text(o.id) /\ d.pair_name = Named(o.pair) /\ d.type = TypeRead(o.type)
  /\ d.action = o.action /\ d.price = o.price /\ d.volume = o.volume
  /\ d.time = (IF kind = "coinbase" THEN o.time - LocalOffset ELSE o.time)

\* Orders read one by one are the orders known, in their order.
LEMMA OrdersAreRead ==
  ASSUME NEW s \in Seq(Orders), NEW v, v = [i \in DOMAIN s |-> v[i]],
         \A i \in DOMAIN s : OrderIsRead(v[i], s[i])
  PROVE  SameOrders(v, s)
<1>1. Len(s) \in Nat /\ DOMAIN s = 1 .. Len(s)
  OBVIOUS
<1>2. v \in [1 .. Len(s) -> {v[i] : i \in DOMAIN s}]
  BY <1>1, Zenon
<1>3. Len(v) = Len(s) /\ DOMAIN v = DOMAIN s
  BY <1>1, <1>2
<1> QED BY <1>3, Zenon DEF SameOrders, OrderIsRead

\* An order that a class of exchange can hold, before it is entered.
IsNew(class, o) ==
  /\ o = Order(o.type, o.pair, o.action, o.price, o.volume, o.stop, o.delta)
  /\ o.type \in OrderTypes /\ o.pair \in Pairs /\ o.action \in Actions
  /\ o.price \in Nat /\ o.volume \in Nat /\ o.stop \in Nat /\ o.delta \in Nat
  /\ IsHeld(class, o)

\* What AsAsked says of an order that a call enters, for the price that the call has asked
\* for and the filters that the client has.
EnteredAs(o, c, price, F) ==
  LET asked == c.order
      moved == AsksPrice(asked) /\ price # o.price
      filter == Binance!FilterOf(asked.pair)
      Kept(n, parameter, step) ==
        \/ n = Get(asked, parameter)
        \/ kind = "binance" /\ (F = None \/ Get(asked, parameter) % step # 0)
  IN  /\ o.pair = asked.pair /\ o.action = asked.action
      /\ o.type = (IF kind = "bybit" /\ asked.type # "MARKET" THEN "LIMIT" ELSE asked.type)
      /\ Kept(o.volume, "VOLUME", filter.quantity) \/ moved
      /\ asked.type # "MARKET" => Kept(o.price, "ASSET_PRICE", filter.price)
      /\ kind = "binance" => /\ Kept(o.stop, "STOP_PRICE", filter.price)
                             /\ o.delta = Get(asked, "TRAILING_DELTA")

SameTerms(o, n) ==
  /\ o.type = n.type /\ o.pair = n.pair /\ o.action = n.action /\ o.price = n.price
  /\ o.volume = n.volume /\ o.stop = n.stop /\ o.delta = n.delta

\* An order entered has the terms of the request, an id, a time and a state.
LEMMA EnteredOrder ==
  ASSUME NEW n, n = Order(n.type, n.pair, n.action, n.price, n.volume, n.stop, n.delta), NEW id, NEW time, NEW state
  PROVE  [n EXCEPT !.id = id, !.time = time, !.state = state]
         = [type |-> n.type, pair |-> n.pair, action |-> n.action, price |-> n.price, volume |-> n.volume,
            stop |-> n.stop, delta |-> n.delta, id |-> id, time |-> time, state |-> state]
<1> DEFINE e == [n EXCEPT !.id = id, !.time = time, !.state = state]
<1>1. /\ DOMAIN n = {"type", "pair", "action", "price", "volume", "stop", "delta", "id", "time", "state"}
      /\ n = [k \in DOMAIN n |-> n[k]]
  BY DEF Order
<1>2. /\ e = [k \in DOMAIN n |-> e[k]]
      /\ e.type = n.type /\ e.pair = n.pair /\ e.action = n.action /\ e.price = n.price /\ e.volume = n.volume
      /\ e.stop = n.stop /\ e.delta = n.delta
  BY <1>1
<1>3. e.id = id /\ e.time = time /\ e.state = state
  BY <1>1
<1> HIDE DEF e
<1>4. e = [type |-> n.type, pair |-> n.pair, action |-> n.action, price |-> n.price, volume |-> n.volume,
           stop |-> n.stop, delta |-> n.delta, id |-> id, time |-> time, state |-> state]
  BY <1>1, <1>2, <1>3
<1> QED BY <1>4 DEF e

\* Entering an order adds one, with a new id, and changes nothing else.
LEMMA EnterIs ==
  ASSUME NEW m, IsExchange(m), NEW class, NEW n, IsNew(class, n)
  PROVE  /\ IsExchange(Enter(m, n))
         /\ DOMAIN Enter(m, n).orders = 1 .. Len(m.orders) + 1
         /\ \A i \in 1 .. Len(m.orders) : Enter(m, n).orders[i] = m.orders[i]
         /\ \A k \in DOMAIN m \ {"orders"} : Enter(m, n)[k] = m[k]
         /\ NextId(m) = Len(m.orders) + 1
         /\ LET o == Enter(m, n).orders[NextId(m)]
            IN  SameTerms(o, n) /\ o.id = NextId(m) /\ IsHeld(class, o)
<1> DEFINE number == NextId(m)
           now == m.time
           begin == IF n.type = "MARKET" THEN "closed" ELSE "open"
           e == [n EXCEPT !.id = number, !.time = now, !.state = begin]
<1>1. m.orders \in Seq(Orders) /\ m.time \in Nat /\ m = [k \in DOMAIN m |-> m[k]] /\ "orders" \in DOMAIN m
  BY DEF IsExchange
<1>2. NextId(m) = Len(m.orders) + 1 /\ NextId(m) \in Nat
  BY <1>1 DEF NextId
<1>3. e = [type |-> n.type, pair |-> n.pair, action |-> n.action, price |-> n.price, volume |-> n.volume,
           stop |-> n.stop, delta |-> n.delta, id |-> number, time |-> now, state |-> begin]
  <2>1. n = Order(n.type, n.pair, n.action, n.price, n.volume, n.stop, n.delta)
    BY DEF IsNew
  <2> HIDE DEF number, now, begin
  <2> QED BY <2>1, EnteredOrder
<1>4. e \in Orders /\ SameTerms(e, n) /\ e.id = NextId(m)
  BY <1>1, <1>2, <1>3 DEF Orders, IsNew, SameTerms
<1>5. Enter(m, n) = [m EXCEPT !.orders = Append(m.orders, e)]
  BY DEF Enter
<1> HIDE DEF e
<1>6. /\ Append(m.orders, e) \in Seq(Orders) /\ Len(Append(m.orders, e)) = Len(m.orders) + 1
      /\ Append(m.orders, e)[Len(m.orders) + 1] = e
      /\ \A i \in 1 .. Len(m.orders) : Append(m.orders, e)[i] = m.orders[i]
      /\ DOMAIN Append(m.orders, e) = 1 .. Len(m.orders) + 1
  BY <1>1, <1>4
<1>7. /\ DOMAIN Enter(m, n) = DOMAIN m /\ Enter(m, n).orders = Append(m.orders, e)
      /\ \A k \in DOMAIN m \ {"orders"} : Enter(m, n)[k] = m[k]
  BY <1>1, <1>5
<1>8. IsExchange(Enter(m, n))
  <2> DEFINE x == Enter(m, n)
  <2>0. x = [part \in {"status", "time", "fee", "price", "candles", "book", "balances", "orders"} |-> x[part]]
    <3>1. DOMAIN m = {"status", "time", "fee", "price", "candles", "book", "balances", "orders"}
      BY DEF IsExchange
    <3>2. x = [part \in DOMAIN m |-> x[part]]
      BY <1>1, <1>5
    <3> QED BY <3>1, <3>2
  <2>1. /\ DOMAIN x = DOMAIN m /\ x.orders \in Seq(Orders)
        /\ x.status = m.status /\ x.time = m.time /\ x.fee = m.fee /\ x.price = m.price /\ x.candles = m.candles
        /\ x.book = m.book /\ x.balances = m.balances
    BY <1>6, <1>7 DEF IsExchange
  <2> HIDE DEF x
  <2> QED BY <2>0, <2>1 DEF IsExchange, x
<1>9. IsHeld(class, e)
  BY <1>4 DEF IsHeld, IsNew, SameTerms
<1> QED BY <1>2, <1>4, <1>6, <1>7, <1>8, <1>9

\* Whether an order is as a call asked depends on its terms alone.
LEMMA SameTermsSameAsked ==
  ASSUME NEW o, NEW n, SameTerms(o, n), NEW c, NEW price, NEW F
  PROVE  EnteredAs(o, c, price, F) <=> EnteredAs(n, c, price, F)
BY Zenon DEF SameTerms, EnteredAs

\* An order that is cancelled is not open any more; others stay as they are.
LEMMA CancelIs ==
  ASSUME NEW m, IsExchange(m), NEW id
  PROVE  /\ IsExchange(Cancel(m, id))
         /\ DOMAIN Cancel(m, id).orders = DOMAIN m.orders
         /\ \A k \in DOMAIN m \ {"orders"} : Cancel(m, id)[k] = m[k]
         /\ \A i \in DOMAIN m.orders :
              /\ SameTerms(Cancel(m, id).orders[i], m.orders[i]) /\ Cancel(m, id).orders[i].id = m.orders[i].id
              /\ Cancel(m, id).orders[i].state = "open" => m.orders[i].state = "open" /\ Text(m.orders[i].id) # id
<1> DEFINE f(o) == IF Text(o.id) = id /\ o.state = "open" THEN [o EXCEPT !.state = "cancelled"] ELSE o
           s == [i \in DOMAIN m.orders |-> f(m.orders[i])]
<1>1. m.orders \in Seq(Orders) /\ m = [k \in DOMAIN m |-> m[k]] /\ "orders" \in DOMAIN m
  BY DEF IsExchange
<1>2. Cancel(m, id) = [m EXCEPT !.orders = s]
  BY DEF Cancel, Each
<1>3. ASSUME NEW o \in Orders
      PROVE  /\ f(o) \in Orders /\ SameTerms(f(o), o) /\ f(o).id = o.id
             /\ f(o).state = "open" => o.state = "open" /\ Text(o.id) # id
  BY DEF Orders, SameTerms
<1> HIDE DEF f
<1>4. \A i \in DOMAIN m.orders : m.orders[i] \in Orders /\ s[i] = f(m.orders[i])
  BY <1>1
<1>5. s \in Seq(Orders) /\ DOMAIN s = DOMAIN m.orders
  BY <1>1, <1>3, <1>4
<1> HIDE DEF s
<1>6. /\ DOMAIN Cancel(m, id) = DOMAIN m /\ Cancel(m, id).orders = s
      /\ \A k \in DOMAIN m \ {"orders"} : Cancel(m, id)[k] = m[k]
  BY <1>1, <1>2
<1>7. IsExchange(Cancel(m, id))
  <2> DEFINE x == Cancel(m, id)
  <2>0. x = [part \in {"status", "time", "fee", "price", "candles", "book", "balances", "orders"} |-> x[part]]
    <3>1. DOMAIN m = {"status", "time", "fee", "price", "candles", "book", "balances", "orders"}
      BY DEF IsExchange
    <3>2. x = [part \in DOMAIN m |-> x[part]]
      BY <1>1, <1>2
    <3> QED BY <3>1, <3>2
  <2>1. /\ DOMAIN x = DOMAIN m /\ x.orders \in Seq(Orders)
        /\ x.status = m.status /\ x.time = m.time /\ x.fee = m.fee /\ x.price = m.price /\ x.candles = m.candles
        /\ x.book = m.book /\ x.balances = m.balances
    BY <1>5, <1>6 DEF IsExchange
  <2> HIDE DEF x
  <2> QED BY <2>0, <2>1 DEF IsExchange, x
<1> QED BY <1>3, <1>4, <1>5, <1>6, <1>7

\* An id is open when an open order has it.
LEMMA OpenIs ==
  ASSUME NEW m, IsExchange(m), NEW id
  PROVE  IsOpen(m, id) <=> \E i \in DOMAIN m.orders : m.orders[i].state = "open" /\ Text(m.orders[i].id) = id
<1> DEFINE s == InState(m, {"open"})
<1>1. m.orders \in Seq(Orders)
  BY DEF IsExchange
<1>2. /\ s \in Seq(Orders)
      /\ \A i \in 1 .. Len(s) : s[i].state \in {"open"} /\ \E j \in 1 .. Len(m.orders) : s[i] = m.orders[j]
      /\ \A j \in 1 .. Len(m.orders) : m.orders[j].state \in {"open"} => \E i \in 1 .. Len(s) : s[i] = m.orders[j]
  <2>1. /\ InState(m, {"open"}) \in Seq(Orders)
        /\ \A i \in 1 .. Len(InState(m, {"open"})) :
             /\ InState(m, {"open"})[i].state \in {"open"}
             /\ \E j \in 1 .. Len(m.orders) : InState(m, {"open"})[i] = m.orders[j]
        /\ \A j \in 1 .. Len(m.orders) : m.orders[j].state \in {"open"} =>
             \E i \in 1 .. Len(InState(m, {"open"})) : InState(m, {"open"})[i] = m.orders[j]
    BY OrdersInState
  <2> QED BY <2>1
<1>3. IsOpen(m, id) <=> \E i \in DOMAIN s : Text(s[i].id) = id
  BY DEF IsOpen, ToSet
<1> HIDE DEF s
<1>4. DOMAIN s = 1 .. Len(s) /\ DOMAIN m.orders = 1 .. Len(m.orders)
  BY <1>1, <1>2
<1>5. ASSUME NEW i \in DOMAIN s, Text(s[i].id) = id
      PROVE  \E j \in DOMAIN m.orders : m.orders[j].state = "open" /\ Text(m.orders[j].id) = id
  <2>1. PICK j \in 1 .. Len(m.orders) : s[i] = m.orders[j]
    BY <1>2, <1>4
  <2>2. s[i].state = "open"
    BY <1>2, <1>4
  <2>3. j \in DOMAIN m.orders /\ m.orders[j].state = "open" /\ Text(m.orders[j].id) = id
    BY <1>4, <1>5, <2>1, <2>2
  <2> QED BY <2>3
<1>6. ASSUME NEW j \in DOMAIN m.orders, m.orders[j].state = "open", Text(m.orders[j].id) = id
      PROVE  \E i \in DOMAIN s : Text(s[i].id) = id
  <2>1. m.orders[j].state \in {"open"} /\ j \in 1 .. Len(m.orders)
    BY <1>4, <1>6
  <2>2. PICK i \in 1 .. Len(s) : s[i] = m.orders[j]
    BY <1>2, <2>1
  <2>3. i \in DOMAIN s /\ Text(s[i].id) = id
    BY <1>4, <1>6, <2>2
  <2> QED BY <2>3
<1> QED BY <1>3, <1>5, <1>6

\* An order that has been cancelled is not open.
LEMMA CancelCloses ==
  ASSUME NEW m, IsExchange(m), NEW id
  PROVE  ~ IsOpen(Cancel(m, id), id)
<1> DEFINE n == Cancel(m, id)
<1>1. /\ IsExchange(n) /\ DOMAIN n.orders = DOMAIN m.orders
      /\ \A i \in DOMAIN m.orders :
           n.orders[i].id = m.orders[i].id /\ (n.orders[i].state = "open" => Text(m.orders[i].id) # id)
  BY CancelIs
<1> HIDE DEF n
<1>2. IsOpen(n, id) <=> \E i \in DOMAIN n.orders : n.orders[i].state = "open" /\ Text(n.orders[i].id) = id
  BY <1>1, OpenIs
<1>3. ~ IsOpen(n, id)
  BY <1>1, <1>2, Zenon
<1> QED BY <1>3 DEF n

-----------------------------------------------------------------------------
(***************************************************************************)
(* Binance.                                                                *)
(***************************************************************************)
IsHttp(r, verb, path, query, content, sign) ==
  /\ r.is = "http" /\ r.verb = verb /\ r.path = path
  /\ r.query = query /\ r.content = content /\ r.sign = sign

\* The fields of a request.
LEMMA HttpFields ==
  ASSUME NEW verb, NEW path, NEW query, NEW content, NEW sign
  PROVE  IsHttp(Http(verb, path, query, content, sign), verb, path, query, content, sign)
BY DEF IsHttp, Http

\* A request without an effect, and the answer's reading.
BinanceAnswers(m, c, r, v) ==
  /\ r.is = "http" /\ ~ Binance!Refuses(m, r) /\ Binance!Effect(m, r) = m
  /\ Binance!Read(c, Binance!Body(m, r)) = Success(v)

\* The paths of Binance's requests tell them apart.
LEMMA BinancePaths == \A a, b : Binance!Api(a) = Binance!Api(b) => a = b
BY DEF Binance!Api

\* Binance's module has the same copy of RestTypes' helpers as this one.
LEMMA BinanceShares ==
  /\ \A x : Binance!Text(x) = Text(x) /\ Binance!Stod(x) = Stod(x) /\ Binance!Millis(x) = Millis(x)
  /\ \A x, y : Binance!Name(x, y) = Name(x, y) /\ Binance!IsName(x, y) = IsName(x, y)
               /\ Binance!PairNamed(x, y) = PairNamed(x, y)
  /\ \A x, y, z : Binance!Entry(x, y, z) = Entry(x, y, z)
  /\ \A x : Binance!Success(x) = Success(x) /\ Binance!Throws(x) = Throws(x)
  /\ Binance!Fail = Fail /\ Binance!None = None
  /\ \A x : Binance!Reverse(x) = Reverse(x) /\ Binance!SetToSeq(x) = SetToSeq(x) /\ Binance!ToSet(x) = ToSet(x)
  /\ \A x, y : Binance!First(x, y) = First(x, y) /\ Binance!Newest(x, y) = Newest(x, y)
               /\ Binance!InState(x, y) = InState(x, y) /\ Binance!IsOpen(x, y) = IsOpen(x, y)
<1>1. \A x, y : Binance!Name(x, y) = Name(x, y)
  BY DEF Binance!Name, Name
<1>2. \A x, y : Binance!IsName(x, y) = IsName(x, y)
  BY <1>1, Zenon DEF Binance!IsName, IsName, Binance!Name, Name
<1>3. \A x, y : Binance!PairNamed(x, y) = PairNamed(x, y)
  BY Zenon DEF Binance!PairNamed, PairNamed, Binance!Name, Name
<1>4. \A x : Binance!Text(x) = Text(x) /\ Binance!Stod(x) = Stod(x) /\ Binance!Millis(x) = Millis(x)
  BY Zenon DEF Binance!Text, Text, Binance!Stod, Stod, Binance!Millis, Millis
<1>5. \A x, y, z : Binance!Entry(x, y, z) = Entry(x, y, z)
  BY Zenon DEF Binance!Entry, Entry
<1>6. \A x : Binance!Success(x) = Success(x) /\ Binance!Throws(x) = Throws(x)
  BY Zenon DEF Binance!Success, Binance!Throws, Success, Throws
<1>7. Binance!Fail = Fail /\ Binance!None = None
  BY Zenon DEF Binance!Fail, Binance!None, Fail, None
<1>8. \A x : Binance!Reverse(x) = Reverse(x) /\ Binance!SetToSeq(x) = SetToSeq(x) /\ Binance!ToSet(x) = ToSet(x)
  BY Zenon DEF Binance!Reverse, Reverse, Binance!SetToSeq, SetToSeq, Binance!ToSet, ToSet,
               Binance!IsInjective, IsInjective, Binance!Cardinality, Cardinality
<1>9. \A x, y : Binance!First(x, y) = First(x, y)
  BY Zenon DEF Binance!First, First
<1>10. \A x, y : Binance!Newest(x, y) = Newest(x, y)
  BY <1>8, <1>9, Zenon DEF Binance!Newest, Newest
<1>11. \A x, y : Binance!Among(x, y) = Among(x, y)
  BY Zenon DEF Binance!Among, Among
<1>12. \A x, y : Binance!InState(x, y) = InState(x, y)
  BY <1>8, <1>11, Zenon DEF Binance!InState, InState
<1>13. \A x, y : Binance!IsOpen(x, y) = IsOpen(x, y)
  BY <1>4, <1>8, <1>12, Zenon DEF Binance!IsOpen, IsOpen
<1> QED BY <1>1, <1>2, <1>3, <1>4, <1>5, <1>6, <1>7, <1>8, <1>9, <1>10, <1>12, <1>13

\* A query of Binance that is not refused.
BinanceGets(m, r, name, query) ==
  /\ r.is = "http" /\ r.verb = "GET" /\ r.path = Binance!Api(name) /\ r.query = query
  /\ \A n : r.path = Binance!Api(n) => n = name
  /\ ~ Binance!Refuses(m, r)
  /\ Binance!Effect(m, r) = m

\* What makes a request one of Binance's that only reads.
LEMMA BinanceGetsFrom ==
  ASSUME NEW m, NEW r, NEW name, NEW query,
         r.is = "http" /\ r.verb = "GET" /\ r.path = Binance!Api(name) /\ r.query = query,
         name \in {"account", "openOrders", "order"} => r.sign = query,
         "symbol" \in DOMAIN query => IsName(query.symbol, "")
  PROVE  BinanceGets(m, r, name, query)
<1>2. \A n : r.path = Binance!Api(n) => n = name
  BY BinancePaths
<1>3. ~ Binance!Refuses(m, r)
  <2>1. Binance!IsName(r.query.symbol, "") = IsName(r.query.symbol, "")
    BY BinanceShares
  <2>2. r.path \in {Binance!Api("account"), Binance!Api("openOrders"), Binance!Api("order")} => r.sign = r.query
    BY <1>2
  <2> QED BY <2>1, <2>2 DEF Binance!Refuses
<1>4. Binance!Effect(m, r) = m
  BY Zenon DEF Binance!Effect
<1> QED BY <1>2, <1>3, <1>4 DEF BinanceGets

\* A public request of Binance only reads.
LEMMA BinancePublic ==
  ASSUME NEW m, NEW name, NEW query, name \notin {"account", "openOrders", "order"},
         "symbol" \in DOMAIN query => IsName(query.symbol, "")
  PROVE  BinanceGets(m, Binance!PublicGet(Binance!Api(name), query), name, query)
<1> DEFINE r == Binance!PublicGet(Binance!Api(name), query)
<1>1. r.is = "http" /\ r.verb = "GET" /\ r.path = Binance!Api(name) /\ r.query = query
  BY DEF Binance!PublicGet, Binance!Http
<1> HIDE DEF r
<1> QED BY <1>1, BinanceGetsFrom DEF r

\* A private request of Binance that only reads.
LEMMA BinancePrivate ==
  ASSUME NEW m, NEW name, NEW query, "symbol" \notin DOMAIN query
  PROVE  BinanceGets(m, Binance!Private("GET", name, query), name, query)
<1> DEFINE r == Binance!Private("GET", name, query)
<1>1. r.is = "http" /\ r.verb = "GET" /\ r.path = Binance!Api(name) /\ r.query = query /\ r.sign = query
  BY DEF Binance!Private, Binance!Http
<1> HIDE DEF r
<1> QED BY <1>1, BinanceGetsFrom DEF r

\* get_status reads what Binance answers.
LEMMA BinanceStatus ==
  ASSUME NEW m, NEW c, c.op = "get_status", NEW name, NEW filter, NEW r, r = Binance!Ask(c, name, filter)
  PROVE  BinanceAnswers(m, c, r, "ONLINE")
<1>1. r = Binance!PublicGet(Binance!Api("time"), Binance!None)
  BY Zenon DEF Binance!Ask
<1>2. "symbol" \notin DOMAIN Binance!None /\ "time" \notin {"account", "openOrders", "order"}
  BY DEF Binance!None
<1>3. BinanceGets(m, r, "time", Binance!None)
  BY <1>1, <1>2, BinancePublic
<1>4. Binance!Body(m, r) = [serverTime |-> Binance!Millis(m.time)]
  BY <1>3, Zenon DEF Binance!Body, BinanceGets
<1>5. "code" \notin DOMAIN Binance!Body(m, r)
  BY <1>4
<1>6. Binance!Read(c, Binance!Body(m, r)) = Binance!Success("ONLINE")
  BY <1>5, Zenon DEF Binance!Read
<1> QED BY <1>3, <1>6, BinanceShares DEF BinanceAnswers, BinanceGets

\* get_price reads the price that Binance knows.
LEMMA BinancePrice ==
  ASSUME NEW m, NEW c, c.op = "get_price", c.pair \in Pairs,
         NEW name, NEW filter, NEW r, r = Binance!Ask(c, name, filter)
  PROVE  BinanceAnswers(m, c, r, m.price[c.pair])
<1> DEFINE q == [symbol |-> Binance!Name(c.pair, "")]
<1>1. r = Binance!PublicGet(Binance!Api("ticker"), q)
  BY Zenon DEF Binance!Ask, Binance!Named
<1>2. q.symbol = Name(c.pair, "") /\ IsName(q.symbol, "") /\ PairNamed(q.symbol, "") = c.pair
      /\ "symbols" \notin DOMAIN q /\ "ticker" \notin {"account", "openOrders", "order"}
  BY BinanceShares, NameOfAPair
<1> HIDE DEF q
<1>3. BinanceGets(m, r, "ticker", q)
  BY <1>1, <1>2, BinancePublic
<1>4. Binance!Body(m, r) = [price |-> Binance!Text(m.price[Binance!PairNamed(q.symbol, "")])]
  BY <1>2, <1>3, Zenon DEF Binance!Body, BinanceGets
<1>5. Binance!Body(m, r) = [price |-> Text(m.price[c.pair])]
  BY <1>2, <1>4, BinanceShares
<1>6. "code" \notin DOMAIN Binance!Body(m, r) /\ Binance!Body(m, r).price = Text(m.price[c.pair])
  BY <1>5
<1>7. Binance!Read(c, Binance!Body(m, r)) = Binance!Success(Binance!Stod(Binance!Body(m, r).price))
  BY <1>6, Zenon DEF Binance!Read, Binance!read_price
<1> QED BY <1>3, <1>6, <1>7, BinanceShares, TextIsRead DEF BinanceAnswers, BinanceGets

\* Coverage of a set by the list of its elements.
PricesRead(v, m, P) == /\ DOMAIN v = {Name(p, "") : p \in P}
                       /\ \A p \in P : v[Name(p, "")] = m.price[p]

\* Kraken's answer names a pair in a way that the client did not.
OldNameRead(v, P) == /\ P \cap OldNames # {}
                     /\ \E name \in DOMAIN v : \A p \in P : Name(p, "") # name

\* get_prices reads the prices that Binance knows.
LEMMA BinancePricesAre ==
  ASSUME NEW m, NEW c, c.op = "get_prices", c.pairs \subseteq Pairs,
         NEW name, NEW filter, NEW r, r = Binance!Ask(c, name, filter)
  PROVE  \E v : BinanceAnswers(m, c, r, v) /\ PricesRead(v, m, c.pairs)
<1> DEFINE N == {Name(p, "") : p \in c.pairs}
           q == [symbols |-> N]
           l == SetToSeq(N)
           a == [i \in DOMAIN l |-> [symbol |-> l[i], price |-> Text(m.price[PairNamed(l[i], "")])]]
           e(k) == CHOOSE i \in DOMAIN a : a[i].symbol = k
           v == [k \in {a[i].symbol : i \in DOMAIN a} |-> Stod(a[e(k)].price)]
<1>1. r = Binance!PublicGet(Binance!Api("ticker"), q)
  <2>1. r = Binance!PublicGet(Binance!Api("ticker"), [symbols |-> {Binance!Name(p, "") : p \in c.pairs}])
    BY Zenon DEF Binance!Ask, Binance!Named
  <2> QED BY <2>1, BinanceShares, Zenon
<1>2. q.symbols = N /\ "symbol" \notin DOMAIN q /\ "symbols" \in DOMAIN q /\ "ticker" \notin {"account", "openOrders", "order"}
  OBVIOUS
<1>3. IsFiniteSet(N)
  BY NamesAreFinite
<1>4. /\ \A i \in DOMAIN l : l[i] \in N
      /\ \A x \in N : \E i \in DOMAIN l : l[i] = x
  <2> HIDE DEF N
  <2> QED BY <1>3, ListOfASet
<1> HIDE DEF q
<1>5. BinanceGets(m, r, "ticker", q)
  <2> HIDE DEF N
  <2>1. "symbol" \in DOMAIN q => IsName(q.symbol, "")
    BY <1>2
  <2> QED BY <1>1, <1>2, <2>1, BinancePublic
<1>6. Binance!Body(m, r) = Binance!Answers(Binance!Each(Binance!SetToSeq(q.symbols), LAMBDA n :
            [symbol |-> n, price |-> Binance!Text(m.price[Binance!PairNamed(n, "")])]))
  BY <1>2, <1>5, Zenon DEF Binance!Body, BinanceGets
<1>7. Binance!Body(m, r) = [array |-> a]
  BY <1>2, <1>6, BinanceShares, Zenon DEF Binance!Answers, Binance!Each
<1> HIDE DEF a
<1>8. "code" \notin DOMAIN Binance!Body(m, r) /\ Binance!Body(m, r).array = a
  BY <1>7
<1>9. Binance!Read(c, Binance!Body(m, r)) = Binance!Success(Binance!read_prices(Binance!Body(m, r)))
  BY <1>8, Zenon DEF Binance!Read
<1>10. Binance!read_prices(Binance!Body(m, r)) = v
  BY <1>8 DEF Binance!read_prices, Binance!ByKey, Binance!Stod, Stod
<1>11. BinanceAnswers(m, c, r, v)
  BY <1>5, <1>9, <1>10, BinanceShares DEF BinanceAnswers, BinanceGets
<1>12. DOMAIN a = DOMAIN l /\ \A i \in DOMAIN l : a[i].symbol = l[i] /\ a[i].price = Text(m.price[PairNamed(l[i], "")])
  BY DEF a
<1> HIDE DEF l, N
<1>13. {a[i].symbol : i \in DOMAIN a} = N
  <2>1. ASSUME NEW x \in N PROVE \E i \in DOMAIN a : a[i].symbol = x
    BY <1>4, <1>12
  <2>2. \A i \in DOMAIN a : a[i].symbol \in N
    BY <1>4, <1>12
  <2> QED BY <2>1, <2>2
<1>14. ASSUME NEW k \in N
       PROVE  e(k) \in DOMAIN l /\ l[e(k)] = k
  <2>1. \E i \in DOMAIN a : a[i].symbol = k
    BY <1>4, <1>12
  <2>2. e(k) \in DOMAIN a /\ a[e(k)].symbol = k
    BY <2>1, Zenon
  <2> QED BY <2>2, <1>12
<1> HIDE DEF e
<1>15. ASSUME NEW p \in c.pairs
       PROVE  v[Name(p, "")] = m.price[p]
  <2>1. Name(p, "") \in N /\ PairNamed(Name(p, ""), "") = p
    BY NameOfAPair DEF N
  <2>2. v[Name(p, "")] = Stod(a[e(Name(p, ""))].price)
    BY <2>1, <1>13
  <2>3. a[e(Name(p, ""))].price = Text(m.price[p])
    <3>1. e(Name(p, "")) \in DOMAIN l /\ l[e(Name(p, ""))] = Name(p, "")
      BY <2>1, <1>14
    <3> QED BY <2>1, <3>1, <1>12
  <2> QED BY <2>2, <2>3, TextIsRead
<1> HIDE DEF v
<1>16. DOMAIN v = N
  BY <1>13 DEF v
<1> QED BY <1>11, <1>15, <1>16 DEF N, PricesRead

\* get_ohlcv reads the newest candles that Binance knows, the newest first.
LEMMA BinanceCandlesAre ==
  ASSUME NEW m, IsExchange(m), NEW c, c.op = "get_ohlcv", c.pair \in Pairs, c.interval \in Intervals,
         c.count \in Nat, NEW name, NEW filter, NEW r, r = Binance!Ask(c, name, filter)
  PROVE  BinanceAnswers(m, c, r, Newest(m.candles[c.pair][c.interval], c.count))
<1> DEFINE q == [symbol |-> Name(c.pair, ""), interval |-> c.interval, limit |-> Text(c.count)]
           s == m.candles[c.pair][c.interval]
           Row(k) == <<Millis(k.time), Text(k.open), Text(k.high), Text(k.low), Text(k.close), Text(k.volume)>>
           t == [i \in DOMAIN s |-> Row(s[i])]
           z == Reverse(Newest(t, c.count))
           R(k) == Candle(k[1] \div 1000, Stod(k[2]), Stod(k[3]), Stod(k[4]), Stod(k[5]), Stod(k[6]))
           y == [i \in DOMAIN z |-> R(z[i])]
<1>1. r = Binance!PublicGet(Binance!Api("klines"), q)
  <2>1. r = Binance!PublicGet(Binance!Api("klines"), [symbol |-> Binance!Name(c.pair, ""), interval |-> c.interval,
                                                      limit |-> Binance!Text(c.count)])
    BY Zenon DEF Binance!Ask, Binance!Named
  <2> QED BY <2>1, BinanceShares, Zenon
<1>2. /\ q.symbol = Name(c.pair, "") /\ IsName(q.symbol, "") /\ PairNamed(q.symbol, "") = c.pair
      /\ q.interval = c.interval /\ Stod(q.limit) = c.count
      /\ "klines" \notin {"account", "openOrders", "order"}
  BY NameOfAPair, TextIsRead
<1> HIDE DEF q
<1>3. BinanceGets(m, r, "klines", q)
  BY <1>1, <1>2, BinancePublic
<1>4. Binance!Body(m, r) =
        Binance!Answers(Binance!Reverse(Binance!Newest(
          Binance!Each(m.candles[Binance!PairNamed(q.symbol, "")][q.interval], LAMBDA k :
            <<Binance!Millis(k.time), Binance!Text(k.open), Binance!Text(k.high), Binance!Text(k.low),
              Binance!Text(k.close), Binance!Text(k.volume)>>),
          Binance!Stod(q.limit))))
  BY <1>3, Zenon DEF Binance!Body, BinanceGets
<1>5. Binance!Each(s, LAMBDA k :
            <<Binance!Millis(k.time), Binance!Text(k.open), Binance!Text(k.high), Binance!Text(k.low),
              Binance!Text(k.close), Binance!Text(k.volume)>>) = t
  BY BinanceShares, Zenon DEF Binance!Each
<1> HIDE DEF t
<1>6. Binance!Body(m, r) = [array |-> z]
  BY <1>2, <1>4, <1>5, BinanceShares, Zenon DEF Binance!Answers
<1> HIDE DEF z
<1>7. "code" \notin DOMAIN Binance!Body(m, r) /\ Binance!Body(m, r).array = z
  BY <1>6
<1>8. Binance!Read(c, Binance!Body(m, r)) = Binance!Success(Binance!read_ohlcv(Binance!Body(m, r)))
  BY <1>7, Zenon DEF Binance!Read
<1>9. Binance!read_ohlcv(Binance!Body(m, r)) = Reverse(y)
  BY <1>7, BinanceShares, ZenonT(60) DEF Binance!read_ohlcv, Binance!Each, Binance!Candle, Candle, Binance!Stod, Stod
<1>10. s \in Seq(Candles)
  BY DEF IsExchange
<1>11. Reverse(y) = Newest(s, c.count)
  BY <1>10, CandlesAreReadBack DEF t, z
<1> QED BY <1>3, <1>8, <1>9, <1>11, BinanceShares DEF BinanceAnswers, BinanceGets

\* The levels of a book as the service sends them and as they are read.
LEMMA BinanceLevels ==
  ASSUME NEW l \in Seq(Levels), NEW side
  PROVE  Binance!Each(Binance!Each(l, LAMBDA e : <<Binance!Text(e.price), Binance!Text(e.volume)>>),
                      LAMBDA e : Binance!read_order_book_entry(e, side))
         = [i \in DOMAIN l |-> Entry(l[i].price, l[i].volume, side)]
<1> DEFINE t == [i \in DOMAIN l |-> <<Text(l[i].price), Text(l[i].volume)>>]
           b == [i \in DOMAIN t |-> Entry(Stod(t[i][1]), Stod(t[i][2]), side)]
<1>1. Binance!Each(l, LAMBDA e : <<Binance!Text(e.price), Binance!Text(e.volume)>>) = t
  BY BinanceShares, Zenon DEF Binance!Each
<1> HIDE DEF t
<1>2. Binance!Each(t, LAMBDA e : Binance!read_order_book_entry(e, side)) = b
  BY Zenon DEF Binance!Each, Binance!read_order_book_entry, Binance!Entry, Entry, Binance!Stod, Stod
<1>3. DOMAIN t = DOMAIN l /\ \A i \in DOMAIN l : t[i][1] = Text(l[i].price) /\ t[i][2] = Text(l[i].volume)
  BY DEF t
<1>4. b = [i \in DOMAIN l |-> Entry(l[i].price, l[i].volume, side)]
  BY <1>3, TextIsRead
<1> QED BY <1>1, <1>2, <1>4, Zenon

\* get_order_book reads the first levels of the book that Binance knows.
LEMMA BinanceBookIs ==
  ASSUME NEW m, IsExchange(m), NEW c, c.op = "get_order_book", c.pair \in Pairs, c.depth \in Nat,
         NEW name, NEW filter, NEW r, r = Binance!Ask(c, name, filter), kind = "binance"
  PROVE  \E v : BinanceAnswers(m, c, r, v) /\ SameBook(v, m.book[c.pair], c.depth)
<1> DEFINE q == [symbol |-> Name(c.pair, ""), limit |-> Text(c.depth)]
           asks == First(m.book[c.pair].asks, c.depth)
           bids == First(m.book[c.pair].bids, c.depth)
           T(l) == Binance!Each(l, LAMBDA e : <<Binance!Text(e.price), Binance!Text(e.volume)>>)
           R(l, side) == Binance!Each(l, LAMBDA e : Binance!read_order_book_entry(e, side))
           v == Binance!Book(m.book[c.pair].stamp, R(T(asks), "ASK"), R(T(bids), "BID"))
<1>1. r = Binance!PublicGet(Binance!Api("depth"), q)
  <2>1. r = Binance!PublicGet(Binance!Api("depth"), [symbol |-> Binance!Name(c.pair, ""), limit |-> Binance!Text(c.depth)])
    BY Zenon DEF Binance!Ask, Binance!Named
  <2> QED BY <2>1, BinanceShares, Zenon
<1>2. /\ q.symbol = Name(c.pair, "") /\ IsName(q.symbol, "") /\ PairNamed(q.symbol, "") = c.pair
      /\ Stod(q.limit) = c.depth
      /\ "depth" \notin {"account", "openOrders", "order"}
  BY NameOfAPair, TextIsRead
<1> HIDE DEF q
<1>3. BinanceGets(m, r, "depth", q)
  BY <1>1, <1>2, BinancePublic
<1>4. Binance!Body(m, r) =
        LET book == m.book[Binance!PairNamed(q.symbol, "")]
        IN  [lastUpdateId |-> book.stamp, asks |-> T(Binance!First(book.asks, Binance!Stod(q.limit))),
             bids |-> T(Binance!First(book.bids, Binance!Stod(q.limit)))]
  BY <1>3, Zenon DEF Binance!Body, BinanceGets
<1> HIDE DEF T, R
<1>5. Binance!Body(m, r) = [lastUpdateId |-> m.book[c.pair].stamp, asks |-> T(asks), bids |-> T(bids)]
  BY <1>2, <1>4, BinanceShares, Zenon
<1> HIDE DEF asks, bids
<1>6. /\ "code" \notin DOMAIN Binance!Body(m, r) /\ Binance!Body(m, r).lastUpdateId = m.book[c.pair].stamp
      /\ Binance!Body(m, r).asks = T(asks) /\ Binance!Body(m, r).bids = T(bids)
  BY <1>5
<1>7. Binance!Read(c, Binance!Body(m, r)) = Binance!Success(Binance!read_order_book(Binance!Body(m, r)))
  BY <1>6, Zenon DEF Binance!Read
<1>8. Binance!read_order_book(Binance!Body(m, r)) = v
  BY <1>6, Zenon DEF Binance!read_order_book, R
<1>9. asks \in Seq(Levels) /\ bids \in Seq(Levels)
  <2>1. m.book[c.pair].asks \in Seq(Levels) /\ m.book[c.pair].bids \in Seq(Levels)
    BY DEF IsExchange
  <2> QED BY <2>1, FirstOfArray DEF asks, bids
<1>10. v.asks = R(T(asks), "ASK") /\ v.bids = R(T(bids), "BID")
  BY DEF Binance!Book
<1> HIDE DEF v
<1>11. /\ v.asks = [i \in DOMAIN asks |-> Entry(asks[i].price, asks[i].volume, "ASK")]
       /\ v.bids = [i \in DOMAIN bids |-> Entry(bids[i].price, bids[i].volume, "BID")]
  BY <1>9, <1>10, BinanceLevels DEF R, T
<1>12. SameLevels(v.asks, asks) /\ \A e \in ToSet(v.asks) : e.side = "ASK"
  BY <1>9, <1>11, LevelsAreRead
<1>13. SameLevels(v.bids, bids) /\ \A e \in ToSet(v.bids) : e.side = "BID"
  BY <1>9, <1>11, LevelsAreRead
<1>14. SameBook(v, m.book[c.pair], c.depth)
  BY <1>12, <1>13, Zenon DEF SameBook, SidesAreNamed, asks, bids
<1>15. BinanceAnswers(m, c, r, v)
  BY <1>3, <1>7, <1>8, BinanceShares DEF BinanceAnswers, BinanceGets
<1> QED BY <1>14, <1>15

\* get_tradable_pairs reads the pairs that Binance lists.
LEMMA BinancePairsAre ==
  ASSUME NEW m, NEW c, c.op = "get_tradable_pairs", NEW name, NEW filter, NEW r, r = Binance!Ask(c, name, filter)
  PROVE  BinanceAnswers(m, c, r, [p \in Pairs |-> Binance!FilterOf(p)])
<1> DEFINE l == SetToSeq(Pairs)
           P(s) == [asset |-> s.baseAsset, price_unit |-> s.quoteAsset]
           F(s) == [price |-> Binance!GridOf(Stod(s.filters.PRICE_FILTER)),
                    quantity |-> Binance!GridOf(Stod(s.filters.LOT_SIZE))]
           S(p) == [baseAsset |-> p.asset, quoteAsset |-> p.price_unit,
                    filters |-> [PRICE_FILTER |-> Text(Filters[p].price), LOT_SIZE |-> Text(Filters[p].quantity)]]
           a == [i \in DOMAIN l |-> S(l[i])]
           e(k) == CHOOSE i \in DOMAIN a : P(a[i]) = k
           v == [k \in {P(a[i]) : i \in DOMAIN a} |-> F(a[e(k)])]
<1>1. r = Binance!PublicGet(Binance!Api("exchangeInfo"), Binance!None)
  BY Zenon DEF Binance!Ask
<1>2. "symbol" \notin DOMAIN Binance!None /\ "exchangeInfo" \notin {"account", "openOrders", "order"}
  BY DEF Binance!None
<1>3. BinanceGets(m, r, "exchangeInfo", Binance!None)
  BY <1>1, <1>2, BinancePublic
<1>4. Binance!Body(m, r) = [symbols |-> Binance!Each(Binance!SetToSeq(Pairs), LAMBDA p :
            [baseAsset |-> p.asset, quoteAsset |-> p.price_unit,
             filters |-> [PRICE_FILTER |-> Binance!Text(Filters[p].price),
                          LOT_SIZE |-> Binance!Text(Filters[p].quantity)]])]
  BY <1>3, Zenon DEF Binance!Body, BinanceGets
<1>5. Binance!Body(m, r) = [symbols |-> a]
  BY <1>4, BinanceShares, Zenon DEF Binance!Each
<1>6. \A p \in Pairs : P(S(p)) = p /\ F(S(p)) = Binance!FilterOf(p)
  <2>1. ASSUME NEW p \in Pairs PROVE F(S(p)) = Binance!FilterOf(p)
    BY TextIsRead DEF Binance!FilterOf
  <2>2. ASSUME NEW p \in Pairs PROVE P(S(p)) = p
    BY FiltersAssumption
  <2> QED BY <2>1, <2>2
<1> HIDE DEF a
<1>7. "code" \notin DOMAIN Binance!Body(m, r) /\ Binance!Body(m, r).symbols = a
  BY <1>5
<1>8. Binance!Read(c, Binance!Body(m, r)) = Binance!Success(Binance!read_tradable_pairs(Binance!Body(m, r)))
  BY <1>7, Zenon DEF Binance!Read
<1>9. Binance!read_tradable_pairs(Binance!Body(m, r)) = v
  BY <1>7 DEF Binance!read_tradable_pairs, Binance!ByKey, Binance!Stod, Stod
<1>10. BinanceAnswers(m, c, r, v)
  BY <1>3, <1>8, <1>9, BinanceShares DEF BinanceAnswers, BinanceGets
<1> HIDE DEF P, F, S
<1>11. /\ \A i \in DOMAIN l : l[i] \in Pairs
       /\ \A x \in Pairs : \E i \in DOMAIN l : l[i] = x
  BY FiltersAssumption, ListOfASet
<1>12. DOMAIN a = DOMAIN l /\ \A i \in DOMAIN l : a[i] = S(l[i])
  BY DEF a
<1> HIDE DEF l
<1>13. {P(a[i]) : i \in DOMAIN a} = Pairs
  <2>1. ASSUME NEW x \in Pairs PROVE \E i \in DOMAIN a : P(a[i]) = x
    BY <1>6, <1>11, <1>12
  <2>2. \A i \in DOMAIN a : P(a[i]) \in Pairs
    BY <1>6, <1>11, <1>12
  <2> QED BY <2>1, <2>2
<1>14. ASSUME NEW k \in Pairs
       PROVE  F(a[e(k)]) = Binance!FilterOf(k)
  <2>1. \E i \in DOMAIN a : P(a[i]) = k
    BY <1>6, <1>11, <1>12
  <2>2. e(k) \in DOMAIN a /\ P(a[e(k)]) = k
    BY <2>1, Zenon
  <2> HIDE DEF e
  <2>3. a[e(k)] = S(l[e(k)]) /\ l[e(k)] \in Pairs
    BY <2>2, <1>11, <1>12
  <2>4. P(S(l[e(k)])) = l[e(k)] /\ F(S(l[e(k)])) = Binance!FilterOf(l[e(k)])
    BY <2>3, <1>6
  <2>5. l[e(k)] = k
    BY <2>2, <2>3, <2>4
  <2> QED BY <2>3, <2>4, <2>5
<1> HIDE DEF e
<1>15. v = [p \in Pairs |-> Binance!FilterOf(p)]
  BY <1>13, <1>14, Zenon
<1> QED BY <1>10, <1>15

\* Binance's account is the fee and the balances that the market knows.
LEMMA BinanceAccount ==
  ASSUME NEW m, IsExchange(m), NEW r, r = Binance!Private("GET", "account", Binance!None)
  PROVE  /\ BinanceGets(m, r, "account", Binance!None)
         /\ Binance!Body(m, r) =
              [takerCommission |-> Binance!Real(m.fee),
               balances |-> [i \in DOMAIN SetToSeq(DOMAIN m.balances) |->
                              [asset |-> SetToSeq(DOMAIN m.balances)[i],
                               free |-> Text(m.balances[SetToSeq(DOMAIN m.balances)[i]])]]]
<1>2. "symbol" \notin DOMAIN Binance!None
  BY DEF Binance!None
<1>3. BinanceGets(m, r, "account", Binance!None)
  BY <1>2, BinancePrivate
<1>4. Binance!Body(m, r) =
         [takerCommission |-> Binance!Real(m.fee),
          balances |-> Binance!Each(Binance!SetToSeq(DOMAIN m.balances), LAMBDA a :
                         [asset |-> a, free |-> Binance!Text(m.balances[a])])]
  BY <1>3, Zenon DEF Binance!Body, BinanceGets
<1> QED BY <1>3, <1>4, BinanceShares, Zenon DEF Binance!Each

\* get_fee reads the fee that Binance knows.
LEMMA BinanceFee ==
  ASSUME NEW m, IsExchange(m), NEW c, c.op = "get_fee", NEW name, NEW filter, NEW r, r = Binance!Ask(c, name, filter)
  PROVE  BinanceAnswers(m, c, r, 100 * m.fee)
<1>1. r = Binance!Private("GET", "account", Binance!None)
  BY Zenon DEF Binance!Ask
<1>2. BinanceGets(m, r, "account", Binance!None)
  BY <1>1, BinanceAccount
<1>3. "code" \notin DOMAIN Binance!Body(m, r) /\ Binance!Body(m, r).takerCommission = Binance!Real(m.fee)
  BY <1>1, BinanceAccount
<1>4. Binance!Read(c, Binance!Body(m, r)) = Binance!Success(Binance!read_fee(Binance!Body(m, r)))
  BY <1>3, Zenon DEF Binance!Read
<1>5. Binance!read_fee(Binance!Body(m, r)) = (10000 * m.fee) \div 100
  BY <1>3 DEF Binance!read_fee, Binance!Real
<1>6. (10000 * m.fee) \div 100 = 100 * m.fee
  <2>1. m.fee \in Nat
    BY DEF IsExchange
  <2> QED BY <2>1
<1> QED BY <1>2, <1>4, <1>5, <1>6, BinanceShares DEF BinanceAnswers, BinanceGets

\* get_balances reads the balances that Binance knows.
LEMMA BinanceBalances ==
  ASSUME NEW m, IsExchange(m), NEW c, c.op = "get_balances", NEW name, NEW filter, NEW r, r = Binance!Ask(c, name, filter)
  PROVE  BinanceAnswers(m, c, r, m.balances)
<1> DEFINE A == DOMAIN m.balances
           l == SetToSeq(A)
           a == [i \in DOMAIN l |-> [asset |-> l[i], free |-> Text(m.balances[l[i]])]]
           e(k) == CHOOSE i \in DOMAIN a : a[i].asset = k
           v == [k \in {a[i].asset : i \in DOMAIN a} |-> Stod(a[e(k)].free)]
<1>1. r = Binance!Private("GET", "account", Binance!None)
  BY Zenon DEF Binance!Ask
<1>2. BinanceGets(m, r, "account", Binance!None)
  BY <1>1, BinanceAccount
<1>3. "code" \notin DOMAIN Binance!Body(m, r) /\ Binance!Body(m, r).balances = a
  BY <1>1, BinanceAccount
<1> HIDE DEF a
<1>4. Binance!Read(c, Binance!Body(m, r)) = Binance!Success(Binance!read_balances(Binance!Body(m, r)))
  BY <1>3, Zenon DEF Binance!Read
<1>5. Binance!read_balances(Binance!Body(m, r)) = v
  BY <1>3 DEF Binance!read_balances, Binance!ByKey, Binance!Stod, Stod
<1>6. IsFiniteSet(A) /\ m.balances = [k \in A |-> m.balances[k]]
  BY DEF IsExchange
<1>7. /\ \A i \in DOMAIN l : l[i] \in A
      /\ \A x \in A : \E i \in DOMAIN l : l[i] = x
  BY <1>6, ListOfASet
<1>8. DOMAIN a = DOMAIN l /\ \A i \in DOMAIN l : a[i].asset = l[i] /\ a[i].free = Text(m.balances[l[i]])
  BY DEF a
<1> HIDE DEF l, A
<1>9. {a[i].asset : i \in DOMAIN a} = A
  <2>1. ASSUME NEW x \in A PROVE \E i \in DOMAIN a : a[i].asset = x
    BY <1>7, <1>8
  <2>2. \A i \in DOMAIN a : a[i].asset \in A
    BY <1>7, <1>8
  <2> QED BY <2>1, <2>2
<1>10. ASSUME NEW k \in A
       PROVE  Stod(a[e(k)].free) = m.balances[k]
  <2>1. \E i \in DOMAIN a : a[i].asset = k
    BY <1>7, <1>8
  <2>2. e(k) \in DOMAIN a /\ a[e(k)].asset = k
    BY <2>1, Zenon
  <2> HIDE DEF e
  <2> QED BY <2>2, <1>8, TextIsRead
<1> HIDE DEF e
<1>11. v = m.balances
  BY <1>6, <1>9, <1>10, Zenon
<1> QED BY <1>2, <1>4, <1>5, <1>11, BinanceShares DEF BinanceAnswers, BinanceGets

\* An order of Binance's is read as the order it is.
LEMMA BinanceOrderIsRead ==
  ASSUME NEW o \in Orders, kind = "binance"
  PROVE  OrderIsRead(Binance!read_order_description(Binance!OrderJson(o)), o)
<1> DEFINE t == IF o.type \in {"STOP_LOSS", "TRAILING_STOP_LOSS"} THEN "STOP_LOSS_LIMIT" ELSE o.type
           j == [time |-> Millis(o.time), orderId |-> o.id, symbol |-> Name(o.pair, ""), side |-> o.action,
                 type |-> t, price |-> Text(o.price), origQty |-> Text(o.volume)]
<1>1. Binance!OrderJson(o) = j
  BY BinanceShares, Zenon DEF Binance!OrderJson, Binance!Named
<1>2. /\ j.time \div 1000 = o.time /\ j.orderId = o.id /\ j.symbol = Name(o.pair, "") /\ j.side = o.action
      /\ j.type = t /\ Stod(j.price) = o.price /\ Stod(j.origQty) = o.volume
  BY MillisAreRead, TextIsRead DEF Orders
<1> HIDE DEF j
<1>3. Binance!read_order_description(j) =
        Description(o.time, Text(o.id), IF t = "STOP_LOSS_LIMIT" THEN "STOP_LOSS" ELSE t,
                    Name(o.pair, ""), o.action, o.price, o.volume)
  <2> HIDE DEF t
  <2>1. Binance!Text(j.orderId) = Text(o.id) /\ Binance!Stod(j.price) = o.price /\ Binance!Stod(j.origQty) = o.volume
    BY <1>2, BinanceShares
  <2> QED BY <1>2, <2>1 DEF Binance!read_order_description, Binance!Description, Description
<1>4. (IF t = "STOP_LOSS_LIMIT" THEN "STOP_LOSS" ELSE t) = TypeRead(o.type)
  <2>1. o.type \in OrderTypes
    BY DEF Orders
  <2> QED BY <2>1 DEF TypeRead, OrderTypes
<1> HIDE DEF t
<1>5. Named(o.pair) = Name(o.pair, "")
  BY Zenon DEF Named
<1>6. OrderIsRead(Description(o.time, Text(o.id), TypeRead(o.type), Name(o.pair, ""), o.action, o.price, o.volume), o)
  BY <1>5 DEF OrderIsRead, Description
<1> QED BY <1>1, <1>3, <1>4, <1>6, Zenon

\* get_open_orders reads the orders that Binance holds open.
LEMMA BinanceOpenOrders ==
  ASSUME NEW m, IsExchange(m), NEW c, c.op = "get_open_orders", NEW name, NEW filter,
         NEW r, r = Binance!Ask(c, name, filter), kind = "binance"
  PROVE  \E v : BinanceAnswers(m, c, r, v) /\ SameOrders(v, InState(m, {"open"}))
<1> DEFINE s == InState(m, {"open"})
           a == [i \in DOMAIN s |-> Binance!OrderJson(s[i])]
           v == [i \in DOMAIN a |-> Binance!read_order_description(a[i])]
<1>1. r = Binance!Private("GET", "openOrders", Binance!None)
  BY Zenon DEF Binance!Ask
<1>2. "symbol" \notin DOMAIN Binance!None
  BY DEF Binance!None
<1>3. BinanceGets(m, r, "openOrders", Binance!None)
  BY <1>1, <1>2, BinancePrivate
<1>4. Binance!Body(m, r) = Binance!Answers(Binance!Each(Binance!InState(m, {"open"}), Binance!OrderJson))
  BY <1>3, Zenon DEF Binance!Body, BinanceGets
<1>5. Binance!Body(m, r) = [array |-> a]
  BY <1>4, BinanceShares, Zenon DEF Binance!Answers, Binance!Each
<1> HIDE DEF a
<1>6. "code" \notin DOMAIN Binance!Body(m, r) /\ Binance!Body(m, r).array = a
  BY <1>5
<1>7. Binance!Read(c, Binance!Body(m, r)) = Binance!Success(v)
  BY <1>6, Zenon DEF Binance!Read, Binance!Each
<1>8. s \in Seq(Orders)
  BY OrdersInState
<1> HIDE DEF s
<1>9. DOMAIN a = DOMAIN s /\ \A i \in DOMAIN s : a[i] = Binance!OrderJson(s[i]) /\ s[i] \in Orders
  BY <1>8 DEF a
<1>10. \A i \in DOMAIN s : OrderIsRead(v[i], s[i])
  BY <1>9, BinanceOrderIsRead
<1>11. v = [i \in DOMAIN s |-> v[i]]
  BY <1>9
<1> HIDE DEF v
<1>12. SameOrders(v, s)
  BY <1>8, <1>10, <1>11, OrdersAreRead
<1>13. BinanceAnswers(m, c, r, v)
  BY <1>3, <1>7, BinanceShares DEF BinanceAnswers, BinanceGets
<1> QED BY <1>12, <1>13 DEF s

\* Binance's module has the same copy of RestTypes' orders as this one.
LEMMA BinanceOrdersAre ==
  /\ \A x, y : Binance!Enter(x, y) = Enter(x, y) /\ Binance!Cancel(x, y) = Cancel(x, y) /\ Binance!Get(x, y) = Get(x, y)
  /\ \A m, p, a, v : Binance!AtMarket(m, p, a, v) = AtMarket(m, p, a, v)
  /\ \A a, b, c, d, e, f, g : Binance!Order(a, b, c, d, e, f, g) = Order(a, b, c, d, e, f, g)
  /\ \A m : Binance!NextId(m) = NextId(m)
<1>1. \A m : Binance!NextId(m) = NextId(m)
  BY Zenon DEF Binance!NextId, NextId
<1>2. \A x, y : Binance!Enter(x, y) = Enter(x, y)
  BY <1>1, Zenon DEF Binance!Enter, Enter
<1>3. \A x, y : Binance!Cancel(x, y) = Cancel(x, y)
  BY Zenon DEF Binance!Cancel, Cancel, Binance!Each, Each, Binance!Text, Text
<1>4. \A x, y : Binance!Get(x, y) = Get(x, y)
  BY Zenon DEF Binance!Get, Get
<1>5. \A a, b, c, d, e, f, g : Binance!Order(a, b, c, d, e, f, g) = Order(a, b, c, d, e, f, g)
  BY Zenon DEF Binance!Order, Order
<1>6. \A m, p, a, v : Binance!AtMarket(m, p, a, v) = AtMarket(m, p, a, v)
  BY <1>5, Zenon DEF Binance!AtMarket, AtMarket
<1> QED BY <1>1, <1>2, <1>3, <1>4, <1>5, <1>6

\* What is asked to be cancelled is cancelled, if it is open.
LEMMA BinanceCancels ==
  ASSUME NEW m, NEW c, c.op = "cancel_order", NEW name, NEW filter, NEW r, r = Binance!Ask(c, name, filter)
  PROVE  /\ r.is = "http" /\ Binance!Effect(m, r) = Cancel(m, c.id)
         /\ IsOpen(m, c.id) /\ IsName(name, "") => ~ Binance!Refuses(m, r)
         /\ Binance!Read(c, Binance!Body(m, r)) = Success("void")
<1> DEFINE q == [symbol |-> name, orderId |-> c.id]
<1>1. r = Binance!Http("DELETE", Binance!Api("order"), q, Binance!None, q)
  BY Zenon DEF Binance!Ask, Binance!Private
<1>2. q.symbol = name /\ q.orderId = c.id
  OBVIOUS
<1> HIDE DEF q
<1>3. r.is = "http" /\ r.verb = "DELETE" /\ r.query = q /\ r.sign = q /\ r.path = Binance!Api("order")
  BY <1>1 DEF Binance!Http
<1>4. Binance!Effect(m, r) = Cancel(m, c.id)
  <2>1. Binance!Effect(m, r) = Binance!Cancel(m, q.orderId)
    BY <1>3, Zenon DEF Binance!Effect
  <2> QED BY <2>1, <1>2, BinanceOrdersAre
<1>5. ASSUME IsOpen(m, c.id), IsName(name, "") PROVE ~ Binance!Refuses(m, r)
  <2>1. Binance!IsOpen(m, c.id) /\ Binance!IsName(name, "")
    BY <1>5, BinanceShares
  <2> QED BY <1>2, <1>3, <2>1, Zenon DEF Binance!Refuses
<1>6. Binance!Body(m, r) = [orderId |-> q.orderId]
  <2>1. \A n : r.path = Binance!Api(n) => n = "order"
    BY <1>3, BinancePaths
  <2> QED BY <1>3, <2>1, Zenon DEF Binance!Body
<1>7. "code" \notin DOMAIN Binance!Body(m, r)
  BY <1>6
<1>8. Binance!Read(c, Binance!Body(m, r)) = Binance!Success("void")
  BY <1>7, Zenon DEF Binance!Read
<1> QED BY <1>3, <1>4, <1>5, <1>8, BinanceShares

\* Binance's own error is read as a failure.
LEMMA BinanceError == \A c : Binance!Read(c, Binance!Error) = Fail
<1>1. "code" \in DOMAIN Binance!Error
  BY DEF Binance!Error
<1> QED BY <1>1, BinanceShares, Zenon DEF Binance!Read

-----------------------------------------------------------------------------
(* What the rounding leaves as it is. *)
Grids == {1, 10, 100, 1000}

\* The sizes of a market's steps are a grid.
LEMMA GridIs ==
  ASSUME NEW step \in 1 .. 1000
  PROVE  Binance!GridOf(step) \in Grids
<1> DEFINE P(g) == g \in {1, 10, 100, 1000} /\ g >= step /\ \A h \in {1, 10, 100, 1000} : h >= step => g <= h
<1>1. \E g \in {1, 10, 100, 1000} : g >= step /\ \A h \in {1, 10, 100, 1000} : h >= step => g <= h
  OBVIOUS
<1> QED BY <1>1, Zenon DEF Binance!GridOf, Grids

\* Rounding a number to a grid it is on changes nothing.
LEMMA RoundedKeeps ==
  ASSUME NEW n \in Nat, NEW g \in Grids
  PROVE  Binance!Rounded(n, g) \in Nat /\ (n % g = 0 => Binance!Rounded(n, g) = n)
<1>1. CASE g = 1
  BY <1>1 DEF Binance!Rounded
<1>2. CASE g = 10
  BY <1>2 DEF Binance!Rounded
<1>3. CASE g = 100
  BY <1>3 DEF Binance!Rounded
<1>4. CASE g = 1000
  BY <1>4 DEF Binance!Rounded
<1> QED BY <1>1, <1>2, <1>3, <1>4 DEF Grids

\* A parameter of a request, or 0 when it has none, is a natural number.
LEMMA GetIs ==
  ASSUME NEW o, IsOrderRequest(o), NEW parameter
  PROVE  Get(o, parameter) \in Nat
<1>1. o.parameters \in [ParametersOf(o.type) -> Nat]
  BY DEF IsOrderRequest
<1> QED BY <1>1 DEF Get

\* Filters that the client has: those of the exchange, or none.
IsFilter(c, filter, F) ==
  \/ F = None /\ filter = Binance!DefaultFilter
  \/ F # None /\ filter = Binance!FilterOf(c.order.pair)

\* An order's numbers are sent as they are, or have been rounded by a filter.
LEMMA BinanceKeeps ==
  ASSUME NEW c, IsOrderRequest(c.order), NEW filter, NEW F, IsFilter(c, filter, F), NEW parameter
  PROVE  /\ Binance!Rounded(Get(c.order, parameter), filter.price) \in Nat
         /\ Binance!Rounded(Get(c.order, parameter), filter.quantity) \in Nat
         /\ \/ Binance!Rounded(Get(c.order, parameter), filter.price) = Get(c.order, parameter)
            \/ F = None \/ Get(c.order, parameter) % Binance!FilterOf(c.order.pair).price # 0
         /\ \/ Binance!Rounded(Get(c.order, parameter), filter.quantity) = Get(c.order, parameter)
            \/ F = None \/ Get(c.order, parameter) % Binance!FilterOf(c.order.pair).quantity # 0
<1> DEFINE n == Get(c.order, parameter)
           p == c.order.pair
<1>1. n \in Nat
  BY GetIs
<1>2. p \in Pairs
  BY DEF IsOrderRequest
<1>3. /\ Binance!FilterOf(p).price \in Grids
      /\ Binance!FilterOf(p).quantity \in Grids
  <2> HIDE DEF n, p
  <2>1. Filters[p].price \in 1 .. 1000 /\ Filters[p].quantity \in 1 .. 1000
    <3>1. \A x \in Pairs : Filters[x].price \in 1 .. 1000 /\ Filters[x].quantity \in 1 .. 1000
      BY FiltersAssumption
    <3> QED BY <1>2, <3>1
  <2>2. \A step \in 1 .. 1000 : Binance!GridOf(step) \in Grids
    BY GridIs
  <2>3. /\ Binance!FilterOf(p).price = Binance!GridOf(Filters[p].price)
        /\ Binance!FilterOf(p).quantity = Binance!GridOf(Filters[p].quantity)
    BY DEF Binance!FilterOf
  <2>4. Binance!GridOf(Filters[p].price) \in Grids /\ Binance!GridOf(Filters[p].quantity) \in Grids
    BY <2>1, <2>2, Zenon
  <2> QED BY <2>3, <2>4, Zenon
<1>4. Binance!DefaultFilter.price \in Grids /\ Binance!DefaultFilter.quantity \in Grids
  BY DEF Binance!DefaultFilter, Grids
<1> HIDE DEF n, p
<1>5. filter.price \in Grids /\ filter.quantity \in Grids
  BY <1>3, <1>4 DEF IsFilter, p
<1>6. \A g \in Grids : Binance!Rounded(n, g) \in Nat /\ (n % g = 0 => Binance!Rounded(n, g) = n)
  BY <1>1, RoundedKeeps
<1>7. F = None \/ filter = Binance!FilterOf(p)
  BY DEF IsFilter, p
<1> QED BY <1>5, <1>6, <1>7 DEF n, p

Units(n) == n \div 10000

\* The members of the query that say what to order.
BinanceSends(q, o, volume, price, stop, delta) ==
  /\ q.symbol = Name(o.pair, "") /\ q.side = o.action /\ q.type = Binance!to_order_type_str(o.type)
  /\ Stod(q.quantity) = volume
  /\ "price" \in DOMAIN q <=> o.type # "MARKET"
  /\ "price" \in DOMAIN q => Stod(q.price) = price
  /\ "stopPrice" \in DOMAIN q <=> o.type = "STOP_LOSS"
  /\ "stopPrice" \in DOMAIN q => Stod(q.stopPrice) = stop
  /\ "trailingDelta" \in DOMAIN q <=> o.type = "TRAILING_STOP_LOSS"
  /\ "trailingDelta" \in DOMAIN q => Units(Stod(q.trailingDelta)) = delta

\* The query that create_order_query makes of a request.
LEMMA BinanceQueryIs ==
  ASSUME NEW o, IsOrderRequest(o), o.type # "TAKE_PROFIT", NEW filter
  PROVE  BinanceSends(Binance!create_order_query(o, filter), o,
                      Binance!Rounded(Get(o, "VOLUME"), filter.quantity),
                      Binance!Rounded(Get(o, "ASSET_PRICE"), filter.price),
                      Binance!Rounded(Get(o, "STOP_PRICE"), filter.price), Get(o, "TRAILING_DELTA"))
<1> DEFINE given == {"symbol", "side", "type", "quantity"}
                    \cup (IF Binance!is_limit_order(o.type) THEN {"price", "timeInForce"} ELSE {})
                    \cup (IF o.type = "STOP_LOSS" THEN {"stopPrice"} ELSE {})
                    \cup (IF o.type = "TRAILING_STOP_LOSS" THEN {"trailingDelta"} ELSE {})
           q == Binance!create_order_query(o, filter)
           volume == Binance!Rounded(Get(o, "VOLUME"), filter.quantity)
           price == Binance!Rounded(Get(o, "ASSET_PRICE"), filter.price)
           stop == Binance!Rounded(Get(o, "STOP_PRICE"), filter.price)
           delta == Get(o, "TRAILING_DELTA")
           ticks == delta * 10000
           type == Binance!to_order_type_str(o.type)
           w == [symbol |-> Name(o.pair, ""), side |-> o.action, type |-> type, quantity |-> Text(volume),
                 price |-> Text(price), timeInForce |-> "GTC", stopPrice |-> Text(stop), trailingDelta |-> Text(ticks)]
<1>1. q = [x \in given |-> w[x]]
  <2> DEFINE n == Binance!Named(o.pair)
             v1 == Binance!Text(Binance!Rounded(Binance!Get(o, "VOLUME"), filter.quantity))
             p1 == Binance!Text(Binance!Rounded(Binance!Get(o, "ASSET_PRICE"), filter.price))
             s1 == Binance!Text(Binance!Rounded(Binance!Get(o, "STOP_PRICE"), filter.price))
             d1 == Binance!Text(Binance!Get(o, "TRAILING_DELTA") * 10000)
             b == [symbol |-> n, side |-> o.action, type |-> type, quantity |-> v1,
                   price |-> p1, timeInForce |-> "GTC", stopPrice |-> s1, trailingDelta |-> d1]
  <2>1. n = Name(o.pair, "") /\ v1 = Text(volume) /\ p1 = Text(price) /\ s1 = Text(stop) /\ d1 = Text(ticks)
    BY BinanceOrdersAre, BinanceShares DEF Binance!Named
  <2>2. q = Binance!Restrict(b, given)
    BY DEF Binance!create_order_query
  <2>3. b = w
    <3> HIDE DEF type, volume, price, stop, delta, ticks, n, v1, p1, s1, d1
    <3> QED BY <2>1, Zenon
  <2> HIDE DEF b, w, given, q
  <2> QED BY <2>2, <2>3, Zenon DEF Binance!Restrict
<1>d. Units(ticks) = delta
  <2>1. delta \in Nat
    BY GetIs
  <2> HIDE DEF delta
  <2> QED BY <2>1 DEF Units
<1> HIDE DEF type, volume, price, stop, delta, ticks
<1>2. /\ w.symbol = Name(o.pair, "") /\ w.side = o.action /\ w.type = type
      /\ Stod(w.quantity) = volume /\ Stod(w.price) = price /\ Stod(w.stopPrice) = stop /\ Units(Stod(w.trailingDelta)) = delta
  BY <1>d, TextIsRead
<1> HIDE DEF w
<1>3. /\ "symbol" \in given /\ "side" \in given /\ "type" \in given /\ "quantity" \in given
      /\ "price" \in given <=> o.type # "MARKET"
      /\ "stopPrice" \in given <=> o.type = "STOP_LOSS"
      /\ "trailingDelta" \in given <=> o.type = "TRAILING_STOP_LOSS"
  <2>1. o.type \in OrderTypes
    BY DEF IsOrderRequest
  <2> QED BY <2>1 DEF Binance!is_limit_order, OrderTypes
<1> HIDE DEF given, q
<1>4. DOMAIN q = given /\ \A x \in given : q[x] = w[x]
  BY <1>1
<1>5. /\ q.symbol = w.symbol /\ q.side = w.side /\ q.type = w.type /\ q.quantity = w.quantity
      /\ "price" \in given => q.price = w.price
      /\ "stopPrice" \in given => q.stopPrice = w.stopPrice
      /\ "trailingDelta" \in given => q.trailingDelta = w.trailingDelta
  BY <1>3, <1>4
<1>6. BinanceSends(q, o, volume, price, stop, delta)
  BY <1>2, <1>3, <1>4, <1>5, Zenon DEF BinanceSends, type
<1> QED BY <1>6 DEF q, volume, price, stop, delta

\* The order that Binance makes of a query.
BinanceOrder(m, o, volume, price, stop, delta) ==
  IF o.type = "MARKET" THEN Order("MARKET", o.pair, o.action, m.price[o.pair], volume, 0, 0)
  ELSE Order(o.type, o.pair, o.action, price, volume, IF o.type = "STOP_LOSS" THEN stop ELSE 0,
             IF o.type = "TRAILING_STOP_LOSS" THEN delta ELSE 0)

\* The order that Binance makes of the query.
LEMMA BinanceOrderIn ==
  ASSUME NEW m, NEW o, IsOrderRequest(o), o.type # "TAKE_PROFIT",
         NEW volume, NEW price, NEW stop, NEW delta,
         NEW q, BinanceSends(q, o, volume, price, stop, delta)
  PROVE  Binance!OrderIn(m, q) = BinanceOrder(m, o, volume, price, stop, delta)
<1>1. o.type \in {"LIMIT", "MARKET", "STOP_LOSS", "TRAILING_STOP_LOSS"} /\ o.pair \in Pairs
  BY DEF IsOrderRequest, OrderTypes
<1>s. /\ q.symbol = Name(o.pair, "") /\ q.side = o.action /\ q.type = Binance!to_order_type_str(o.type)
      /\ Stod(q.quantity) = volume
      /\ "price" \in DOMAIN q <=> o.type # "MARKET"
      /\ "price" \in DOMAIN q => Stod(q.price) = price
      /\ "stopPrice" \in DOMAIN q <=> o.type = "STOP_LOSS"
      /\ "stopPrice" \in DOMAIN q => Stod(q.stopPrice) = stop
      /\ "trailingDelta" \in DOMAIN q <=> o.type = "TRAILING_STOP_LOSS"
      /\ "trailingDelta" \in DOMAIN q => Units(Stod(q.trailingDelta)) = delta
  BY Zenon DEF BinanceSends
<1>3. \A x : Binance!Stod(x) = Stod(x)
  BY BinanceShares
<1>2. Binance!PairNamed(q.symbol, "") = o.pair
  <2>1. PairNamed(Name(o.pair, ""), "") = o.pair
    BY <1>1, NameOfAPair
  <2>2. \A x, y : Binance!PairNamed(x, y) = PairNamed(x, y)
    BY BinanceShares
  <2> QED BY <1>s, <2>1, <2>2, Zenon
<1> DEFINE At(key) == IF key \in DOMAIN q THEN Binance!Stod(q[key]) ELSE 0
           kindOf == IF "trailingDelta" \in DOMAIN q THEN "TRAILING_STOP_LOSS"
                     ELSE IF q.type = "STOP_LOSS_LIMIT" THEN "STOP_LOSS" ELSE q.type
           first == At("price")
           second == At("stopPrice")
           third == Units(At("trailingDelta"))
<1>4. Binance!OrderIn(m, q) =
        IF q.type = "MARKET" THEN Binance!AtMarket(m, o.pair, q.side, Binance!Stod(q.quantity))
        ELSE Binance!Order(kindOf, o.pair, q.side, first, Binance!Stod(q.quantity), second, third)
  <2> DEFINE z == At("trailingDelta") \div 10000
             p == Binance!PairNamed(q.symbol, "")
  <2>1. Binance!OrderIn(m, q) =
          IF q.type = "MARKET" THEN Binance!AtMarket(m, p, q.side, Binance!Stod(q.quantity))
          ELSE Binance!Order(kindOf, p, q.side, first, Binance!Stod(q.quantity), second, z)
    BY DEF Binance!OrderIn
  <2>2. z = third
    BY DEF Units
  <2>3. p = o.pair
    BY <1>2
  <2> HIDE DEF z, p, third
  <2> QED BY <2>1, <2>2, <2>3
<1>5. Units(0) = 0
  BY DEF Units
<1>6. q.type = Binance!to_order_type_str(o.type) /\ q.side = o.action /\ Binance!Stod(q.quantity) = volume
  BY <1>3, <1>s, Zenon
<1>7. CASE o.type = "MARKET"
  <2>1. q.type = "MARKET"
    BY <1>6, <1>7 DEF Binance!to_order_type_str
  <2> HIDE DEF first, second, third, kindOf
  <2>2. Binance!OrderIn(m, q) = AtMarket(m, o.pair, o.action, volume)
    <3>1. Binance!OrderIn(m, q) = Binance!AtMarket(m, o.pair, o.action, volume)
      BY <1>4, <1>6, <2>1
    <3> QED BY <3>1, BinanceOrdersAre, Zenon
  <2> QED BY <1>7, <2>2, Zenon DEF AtMarket, BinanceOrder
<1>8. CASE o.type # "MARKET"
  <2>0. q.type = IF o.type \in {"STOP_LOSS", "TRAILING_STOP_LOSS"} THEN "STOP_LOSS_LIMIT" ELSE o.type
    BY <1>6 DEF Binance!to_order_type_str
  <2>1. q.type # "MARKET"
    BY <1>1, <2>0, <1>8
  <2>2. kindOf = o.type
    BY <1>1, <2>0, <1>8, <1>s
  <2>3. first = price
    BY <1>3, <1>8, <1>s
  <2>4. second = IF o.type = "STOP_LOSS" THEN stop ELSE 0
    BY <1>3, <1>s
  <2>5. third = IF o.type = "TRAILING_STOP_LOSS" THEN delta ELSE 0
    BY <1>3, <1>s, <1>5
  <2> DEFINE x == IF o.type = "STOP_LOSS" THEN stop ELSE 0
             y == IF o.type = "TRAILING_STOP_LOSS" THEN delta ELSE 0
  <2> HIDE DEF At, kindOf, first, second, third
  <2>9. Binance!OrderIn(m, q) = Binance!Order(kindOf, o.pair, q.side, first, Binance!Stod(q.quantity), second, third)
    BY <1>4, <2>1
  <2>10. second = x /\ third = y
    BY <2>4, <2>5
  <2> HIDE DEF x, y
  <2>6. Binance!OrderIn(m, q) = Binance!Order(o.type, o.pair, o.action, price, volume, x, y)
    BY <1>6, <2>2, <2>3, <2>9, <2>10, Zenon
  <2> QED BY <1>8, <2>6, BinanceOrdersAre, Zenon DEF BinanceOrder, x, y
<1> QED BY <1>7, <1>8

\* A request that enters an order, as the call asks for it, and answers with its id.
AddsTo(m, c, price, F, http, refuses, effect, read) ==
  \E o, v : /\ http = "http" /\ ~ refuses /\ effect = Enter(m, o)
            /\ IsNew(kind, o) /\ EnteredAs(o, c, price, F)
            /\ read = Success(v)
            /\ Text(NextId(m)) = IF c.op = "add_order" THEN v ELSE v.order_id

\* The order that Binance makes of a request is one it can hold, as asked.
LEMMA BinanceHolds ==
  ASSUME NEW m, IsExchange(m), NEW c, IsOrderRequest(c.order), c.order.type # "TAKE_PROFIT", kind = "binance",
         NEW filter, NEW F, IsFilter(c, filter, F), NEW price
  PROVE  LET a == c.order
             o == BinanceOrder(m, a, Binance!Rounded(Get(a, "VOLUME"), filter.quantity),
                               Binance!Rounded(Get(a, "ASSET_PRICE"), filter.price),
                               Binance!Rounded(Get(a, "STOP_PRICE"), filter.price), Get(a, "TRAILING_DELTA"))
         IN  IsNew(kind, o) /\ EnteredAs(o, c, price, F)
<1> DEFINE a == c.order
           volume == Binance!Rounded(Get(a, "VOLUME"), filter.quantity)
           limit == Binance!Rounded(Get(a, "ASSET_PRICE"), filter.price)
           stop == Binance!Rounded(Get(a, "STOP_PRICE"), filter.price)
           delta == Get(a, "TRAILING_DELTA")
           o == BinanceOrder(m, a, volume, limit, stop, delta)
           F1 == Binance!FilterOf(a.pair)
<1>1. /\ volume \in Nat /\ limit \in Nat /\ stop \in Nat /\ delta \in Nat
      /\ volume = Get(a, "VOLUME") \/ F = None \/ Get(a, "VOLUME") % F1.quantity # 0
      /\ limit = Get(a, "ASSET_PRICE") \/ F = None \/ Get(a, "ASSET_PRICE") % F1.price # 0
      /\ stop = Get(a, "STOP_PRICE") \/ F = None \/ Get(a, "STOP_PRICE") % F1.price # 0
  BY BinanceKeeps, GetIs
<1>2. /\ a.type \in OrderTypes \ {"TAKE_PROFIT"} /\ a.pair \in Pairs /\ a.action \in Actions
      /\ a.parameters \in [ParametersOf(a.type) -> Nat]
  BY DEF IsOrderRequest
<1>3. /\ a.type # "STOP_LOSS" => Get(a, "STOP_PRICE") = 0
      /\ a.type # "TRAILING_STOP_LOSS" => Get(a, "TRAILING_DELTA") = 0
      /\ a.type = "MARKET" => Get(a, "ASSET_PRICE") = 0
  BY <1>2 DEF Get, ParametersOf
<1>4. m.price[a.pair] \in Nat /\ m.price[a.pair] > 0
  BY <1>2 DEF IsExchange
<1> DEFINE x == IF a.type = "MARKET" THEN m.price[a.pair] ELSE limit
           y == IF a.type = "STOP_LOSS" THEN stop ELSE 0
           z == IF a.type = "TRAILING_STOP_LOSS" THEN delta ELSE 0
<1>5. o = Order(a.type, a.pair, a.action, x, volume, y, z)
  <2> HIDE DEF volume, limit, stop, delta
  <2> QED BY DEF BinanceOrder
<1>6. /\ x \in Nat /\ volume \in Nat /\ y \in Nat /\ z \in Nat /\ (a.type = "MARKET" => x > 0)
      /\ a.type # "MARKET" => x = limit
      /\ y = Get(a, "STOP_PRICE") \/ F = None \/ Get(a, "STOP_PRICE") % F1.price # 0
      /\ z = Get(a, "TRAILING_DELTA")
  <2> HIDE DEF volume, limit, stop, F1
  <2> QED BY <1>1, <1>3, <1>4
<1> HIDE DEF x, y, z, F1, volume, limit, stop, delta
<1>7. /\ o.type = a.type /\ o.pair = a.pair /\ o.action = a.action /\ o.price = x /\ o.volume = volume
      /\ o.stop = y /\ o.delta = z
  BY <1>5 DEF Order
<1> HIDE DEF o
<1>8. TypesHeld("binance") = OrderTypes \ {"TAKE_PROFIT"}
  BY Zenon DEF TypesHeld
<1>9. IsHeld(kind, o)
  BY <1>2, <1>6, <1>7, <1>8 DEF IsHeld
<1>10. IsNew(kind, o)
  BY <1>2, <1>5, <1>6, <1>7, <1>9, Zenon DEF IsNew
<1>11. EnteredAs(o, c, price, F)
  BY <1>1, <1>6, <1>7, Zenon DEF EnteredAs, a, F1
<1> QED BY <1>10, <1>11 DEF o, volume, limit, stop, delta, a

IsAdding(c) == c.op \in {"add_order", "add_order_confirm"}

\* add_order enters at Binance the order that was asked for, and reads its id.
LEMMA BinanceAdds ==
  ASSUME NEW m, IsExchange(m), NEW c, IsAdding(c), kind = "binance",
         IsOrderRequest(c.order), c.order.type # "TAKE_PROFIT",
         NEW filter, NEW F, IsFilter(c, filter, F), NEW price,
         NEW name, NEW r, r = Binance!Ask(c, name, filter)
  PROVE  AddsTo(m, c, price, F, r.is, Binance!Refuses(m, r), Binance!Effect(m, r), Binance!Read(c, Binance!Body(m, r)))
<1> DEFINE a == c.order
           q == Binance!create_order_query(a, filter)
           volume == Binance!Rounded(Get(a, "VOLUME"), filter.quantity)
           limit == Binance!Rounded(Get(a, "ASSET_PRICE"), filter.price)
           stop == Binance!Rounded(Get(a, "STOP_PRICE"), filter.price)
           delta == Get(a, "TRAILING_DELTA")
           o == BinanceOrder(m, a, volume, limit, stop, delta)
<1>0. c.op \in {"add_order", "add_order_confirm"}
  BY DEF IsAdding
<1>1. r = Binance!Http("POST", Binance!Api("order"), q, Binance!None, q)
  BY <1>0, Zenon DEF Binance!Ask, Binance!Private
<1>2. IsNew(kind, o) /\ EnteredAs(o, c, price, F)
  BY BinanceHolds
<1>3. BinanceSends(q, a, volume, limit, stop, delta)
  BY BinanceQueryIs
<1>4. Binance!OrderIn(m, q) = o
  <2> HIDE DEF q, volume, limit, stop, delta
  <2> QED BY <1>3, BinanceOrderIn
<1>5. IsName(q.symbol, "")
  <2>1. q.symbol = Name(a.pair, "")
    BY <1>3, Zenon DEF BinanceSends
  <2>2. a.pair \in Pairs
    BY DEF IsOrderRequest
  <2> HIDE DEF q
  <2>3. IsName(Name(a.pair, ""), "")
    BY <2>2, NameOfAPair
  <2> QED BY <2>1, <2>3, Zenon
<1> HIDE DEF q, volume, limit, stop, delta, o
<1>6. r.is = "http" /\ r.verb = "POST" /\ r.query = q /\ r.sign = q /\ r.path = Binance!Api("order")
  BY <1>1 DEF Binance!Http
<1>7. Binance!Effect(m, r) = Enter(m, o)
  <2>1. Binance!Effect(m, r) = Binance!Enter(m, Binance!OrderIn(m, q))
    BY <1>6, Zenon DEF Binance!Effect
  <2> QED BY <2>1, <1>4, BinanceOrdersAre
<1>8. ~ Binance!Refuses(m, r)
  <2>1. Binance!IsName(q.symbol, "")
    BY <1>5, BinanceShares
  <2> QED BY <1>6, <2>1, Zenon DEF Binance!Refuses
<1> DEFINE j == Binance!Body(m, r)
           e == Binance!Effect(m, r).orders
<1>9. Binance!Last(e).id = NextId(m)
  <2>1. /\ IsExchange(Enter(m, o)) /\ DOMAIN Enter(m, o).orders = 1 .. Len(m.orders) + 1
        /\ NextId(m) = Len(m.orders) + 1 /\ Enter(m, o).orders[NextId(m)].id = NextId(m)
    BY <1>2, EnterIs
  <2> DEFINE s == Enter(m, o).orders
  <2>2. e = s
    BY <1>7
  <2>3. s \in Seq(Orders)
    BY <2>1 DEF IsExchange
  <2>4. m.orders \in Seq(Orders)
    BY DEF IsExchange
  <2> HIDE DEF s
  <2>5. Len(s) = NextId(m) /\ s[NextId(m)].id = NextId(m)
    BY <2>1, <2>3, <2>4 DEF s
  <2> HIDE DEF e
  <2> QED BY <2>2, <2>5 DEF Binance!Last
<1>10. "code" \notin DOMAIN j /\ j.orderId = NextId(m)
  <2> DEFINE l == Binance!Last(e)
             done == IF l.state = "closed" THEN l.volume ELSE 0
             status == IF l.state = "closed" THEN "FILLED" ELSE "NEW"
             fills == IF done = 0 THEN <<>> ELSE <<[price |-> Binance!Text(l.price), qty |-> Binance!Text(done)]>>
  <2>1. j = [orderId |-> l.id, origQty |-> Binance!Text(l.volume), executedQty |-> Binance!Text(done),
             status |-> status, fills |-> fills]
    <3>1. \A n : r.path = Binance!Api(n) => n = "order"
      BY <1>6, BinancePaths
    <3> QED BY <1>6, <3>1, Zenon DEF Binance!Body
  <2> HIDE DEF l, j, done, fills, status
  <2> QED BY <2>1, <1>9 DEF l
<1> HIDE DEF j, e
<1>11. CASE c.op = "add_order"
  <2>1. Binance!Read(c, j) = Binance!Success(Binance!Text(j.orderId))
    BY <1>10, <1>11, Zenon DEF Binance!Read
  <2>2. Binance!Read(c, j) = Success(Text(NextId(m)))
    BY <1>10, <2>1, BinanceShares
  <2> QED BY <1>2, <1>6, <1>7, <1>8, <1>11, <2>2, Zenon DEF AddsTo, j
<1>12. CASE c.op = "add_order_confirm"
  <2> DEFINE v == Binance!read_add_order_confirm(j)
  <2>1. Binance!Read(c, j) = Binance!Success(v)
    BY <1>10, <1>12, Zenon DEF Binance!Read
  <2>2. v.order_id = Binance!Text(j.orderId)
    BY DEF Binance!read_add_order_confirm
  <2> HIDE DEF v
  <2>3. Binance!Read(c, j) = Success(v) /\ Text(NextId(m)) = v.order_id
    BY <1>10, <2>1, <2>2, BinanceShares
  <2>4. c.op # "add_order"
    BY <1>12
  <2> QED BY <1>2, <1>6, <1>7, <1>8, <2>3, <2>4, Zenon DEF AddsTo, j
<1> QED BY <1>0, <1>11, <1>12

-----------------------------------------------------------------------------
(* Elements among elements. *)
LEMMA AmongAppended ==
  ASSUME NEW S, NEW t \in Seq(S), NEW x \in S, NEW A
  PROVE  Among(Append(t, x), A) = IF x \in A THEN Append(Among(t, A), x) ELSE Among(t, A)
<1> DEFINE u == Append(t, x)
           f == AmongSteps(t, A)
           h == AmongSteps(u, A)
           N == Len(t)
           Same == {n \in 0 .. N : h[n] = f[n]}
<1>1. u \in Seq(S) /\ Len(u) = N + 1 /\ u[N + 1] = x /\ N \in Nat /\ \A n \in 1 .. N : u[n] = t[n]
  OBVIOUS
<1> HIDE DEF u
<1>2. /\ f[0] = <<>>
      /\ \A n \in 1 .. N : f[n] = IF t[n] \in A THEN Append(f[n - 1], t[n]) ELSE f[n - 1]
  BY AmongIsRecursive
<1>3. /\ h[0] = <<>>
      /\ \A n \in 1 .. Len(u) : h[n] = IF u[n] \in A THEN Append(h[n - 1], u[n]) ELSE h[n - 1]
  BY <1>1, AmongIsRecursive
<1>4. Among(t, A) = f[N] /\ Among(u, A) = h[N + 1]
  BY <1>1, AmongOfSteps
<1> HIDE DEF f, h, N
<1>5. 0 \in Same
  BY <1>1, <1>2, <1>3
<1>6. ASSUME NEW n \in 1 .. N, n - 1 \in Same
      PROVE  n \in Same
  <2>1. n \in 1 .. Len(u) /\ n \in 0 .. N /\ u[n] = t[n]
    BY <1>1
  <2>2. h[n] = IF u[n] \in A THEN Append(h[n - 1], u[n]) ELSE h[n - 1]
    BY <1>3, <2>1
  <2>3. f[n] = IF t[n] \in A THEN Append(f[n - 1], t[n]) ELSE f[n - 1]
    BY <1>2
  <2>4. h[n - 1] = f[n - 1]
    BY <1>6
  <2>5. h[n] = f[n]
    BY <2>1, <2>2, <2>3, <2>4
  <2> QED BY <2>1, <2>5
<1>7. 0 .. N \subseteq Same
  <2> HIDE DEF Same
  <2> QED BY <1>1, <1>5, <1>6, SetInductionUpTo
<1>8. h[N] = f[N]
  BY <1>1, <1>7
<1>9. N + 1 \in 1 .. Len(u) /\ (N + 1) - 1 = N
  BY <1>1
<1>10. h[N + 1] = IF u[N + 1] \in A THEN Append(h[N], u[N + 1]) ELSE h[N]
  BY <1>3, <1>9
<1> QED BY <1>1, <1>4, <1>8, <1>10 DEF u

\* Keeping the members of a subset of what was kept keeps those of the subset.
LEMMA AmongAmong ==
  ASSUME NEW S, NEW s \in Seq(S), NEW B, NEW A, \A i \in 1 .. Len(s) : s[i] \in A => s[i] \in B
  PROVE  Among(Among(s, B), A) = Among(s, A)
<1> DEFINE f == AmongSteps(s, A)
           h == AmongSteps(s, B)
           N == Len(s)
           Same == {n \in 0 .. N : Among(h[n], A) = f[n]}
<1>1. /\ f[0] = <<>> /\ N \in Nat
      /\ \A n \in 1 .. N : f[n] = IF s[n] \in A THEN Append(f[n - 1], s[n]) ELSE f[n - 1]
  BY AmongIsRecursive
<1>2. /\ h \in [0 .. N -> Seq(S)] /\ h[0] = <<>>
      /\ \A n \in 1 .. N : h[n] = IF s[n] \in B THEN Append(h[n - 1], s[n]) ELSE h[n - 1]
  BY AmongIsRecursive
<1>3. Among(s, A) = f[N] /\ Among(s, B) = h[N]
  BY AmongOfSteps
<1> HIDE DEF f, h
<1>4. 0 \in Same
  <2>1. <<>> \in Seq(S) /\ Len(<<>>) = 0
    OBVIOUS
  <2>2. AmongSteps(<<>>, A)[0] = <<>>
    BY <2>1, AmongIsRecursive
  <2>3. Among(<<>>, A) = <<>>
    BY <2>1, <2>2, AmongOfSteps
  <2> QED BY <1>1, <1>2, <2>3
<1>5. ASSUME NEW n \in 1 .. N, n - 1 \in Same
      PROVE  n \in Same
  <2>1. n \in 0 .. N /\ n - 1 \in 0 .. N /\ s[n] \in S
    BY <1>1
  <2>2. h[n - 1] \in Seq(S) /\ Among(h[n - 1], A) = f[n - 1]
    BY <1>2, <1>5, <2>1
  <2>3. f[n] = IF s[n] \in A THEN Append(f[n - 1], s[n]) ELSE f[n - 1]
    BY <1>1
  <2>4. h[n] = IF s[n] \in B THEN Append(h[n - 1], s[n]) ELSE h[n - 1]
    BY <1>2
  <2> DEFINE x == s[n]
             t == h[n - 1]
  <2>5. Among(Append(t, x), A) = IF x \in A THEN Append(Among(t, A), x) ELSE Among(t, A)
    <3> HIDE DEF x, t
    <3>1. x \in S /\ t \in Seq(S)
      BY <2>1, <2>2 DEF x, t
    <3> QED BY <3>1, AmongAppended
  <2>6. x \in A => x \in B
    OBVIOUS
  <2> HIDE DEF N
  <2>7. Among(h[n], A) = f[n]
    BY <2>2, <2>3, <2>4, <2>5, <2>6, Zenon
  <2> QED BY <2>1, <2>7
<1>6. 0 .. N \subseteq Same
  <2> HIDE DEF Same, N
  <2> QED BY <1>1, <1>4, <1>5, SetInductionUpTo
<1>7. Among(h[N], A) = f[N]
  BY <1>1, <1>6
<1> QED BY <1>3, <1>7

\* What a client keeps of the orders that an exchange listed with their states.
LEMMA OrdersKept ==
  ASSUME NEW m, IsExchange(m), NEW states, NEW state \in states, NEW g, NEW U, NEW t \in Seq(U),
         Images(t, InState(m, states), g),
         NEW B, \A i \in 1 .. Len(InState(m, states)) : t[i] \in B <=> InState(m, states)[i].state = state
  PROVE  Images(Among(t, B), InState(m, {state}), g)
<1> DEFINE s == InState(m, states)
           all == ToSet(m.orders)
           M(T) == {o \in all : o.state \in T}
<1>1. m.orders \in Seq(Orders)
  BY DEF IsExchange
<1>2. s \in Seq(Orders)
  BY OrdersInState
<1>3. s = Among(m.orders, M(states)) /\ InState(m, {state}) = Among(m.orders, M({state}))
  BY Zenon DEF InState
<1>4. \A i \in 1 .. Len(m.orders) : m.orders[i] \in M({state}) => m.orders[i] \in M(states)
  OBVIOUS
<1>5. Among(s, M({state})) = Among(m.orders, M({state}))
  <2> HIDE DEF M, s
  <2>1. Among(Among(m.orders, M(states)), M({state})) = Among(m.orders, M({state}))
    BY <1>1, <1>4, AmongAmong
  <2> QED BY <1>3, <2>1
<1>6. \A i \in 1 .. Len(s) : s[i] \in M({state}) <=> s[i].state = state
  <2> TAKE i \in 1 .. Len(s)
  <2>1. \E j \in 1 .. Len(m.orders) : s[i] = m.orders[j]
    BY OrdersInState
  <2>2. s[i] \in all
    BY <1>1, <2>1 DEF ToSet
  <2> HIDE DEF s, all
  <2> QED BY <2>2
<1> HIDE DEF s, M
<1>7. KeepAlike(t, B, s, M({state}))
  BY <1>6 DEF KeepAlike, s
<1>8. Images(Among(t, B), Among(s, M({state})), g)
  BY <1>2, <1>7, AmongImage DEF s
<1> QED BY <1>3, <1>5, <1>8

\* A product divided by one factor is the other.
LEMMA ProductDivided ==
  ASSUME NEW a \in Nat \ {0}, NEW b \in Nat
  PROVE  (a * b) \div a = b
<1> DEFINE p == a * b
<1>0. p \in Int
  OBVIOUS
<1>1. p \div a \in Int /\ p % a \in 0 .. a - 1 /\ p = a * (p \div a) + (p % a)
  <2> HIDE DEF p
  <2> QED BY <1>0, DivisionWithRemainder
<1> DEFINE d == (a * b) \div a
           r == (a * b) % a
<1>2. d \in Int /\ r \in 0 .. a - 1 /\ a * d + r = a * b + 0 /\ 0 \in 0 .. a - 1
  BY <1>1
<1> HIDE DEF d, r
<1>3. r = 0
  BY <1>2, QuotientUnique
<1>4. a * (d - b) = 0
  BY <1>2, <1>3
<1>5. d - b = 0
  BY <1>2, <1>4
<1> QED BY <1>2, <1>5 DEF d

\* A cost, and the volume that it is worth.
LEMMA CostIsWorth ==
  ASSUME NEW a \in Nat, NEW b \in Nat
  PROVE  /\ Cost(a, b) \in Nat /\ Volume(a, b) \in Nat
         /\ a > 0 => Volume(a, Cost(a, b)) = b
         /\ b > 0 => AssetPrice(Cost(a, b), b) = a
<1>1. Cost(a, b) \in Nat
  BY NaturalProduct DEF Cost
<1>2. Volume(a, b) \in Nat
  BY NaturalQuotient DEF Volume
<1>3. ASSUME a > 0 PROVE Volume(a, Cost(a, b)) = b
  <2>1. (a * b) \div a = b
    BY <1>3, ProductDivided
  <2>2. CASE b = 0
    BY <2>2 DEF Volume, Cost
  <2>3. CASE b # 0
    <3>1. a * b # 0
      BY <1>3, <2>3
    <3> DEFINE p == a * b
    <3>2. p # 0 /\ p \div a = b /\ Cost(a, b) = p /\ a # 0
      BY <1>3, <2>1, <3>1 DEF Cost
    <3> HIDE DEF p
    <3> QED BY <3>2 DEF Volume
  <2> QED BY <2>2, <2>3
<1>4. ASSUME b > 0 PROVE AssetPrice(Cost(a, b), b) = a
  <2>1. (b * a) \div b = a
    BY <1>4, ProductDivided
  <2>2. b * a = a * b
    OBVIOUS
  <2>3. CASE a = 0
    BY <2>3 DEF AssetPrice, Cost
  <2>4. CASE a # 0
    <3>1. a * b # 0
      BY <1>4, <2>4
    <3> DEFINE p == a * b
    <3>2. p # 0 /\ p \div b = a /\ Cost(a, b) = p /\ b # 0
      BY <1>4, <2>1, <2>2, <3>1 DEF Cost
    <3> HIDE DEF p
    <3> QED BY <3>2 DEF AssetPrice
  <2> QED BY <2>3, <2>4
<1> QED BY <1>1, <1>2, <1>3, <1>4

-----------------------------------------------------------------------------
(* What the instances share with this module. *)
\* Bybit's module has the same copy of RestTypes' helpers as this one.
LEMMA BybitShares ==
  /\ \A x : Bybit!Text(x) = Text(x) /\ Bybit!Stod(x) = Stod(x) /\ Bybit!Millis(x) = Millis(x) /\ Bybit!Seconds(x) = Seconds(x)
           /\ Bybit!Minutes(x) = Minutes(x) /\ Bybit!Fractional(x) = Fractional(x) /\ Bybit!Whole(x) = Whole(x)
  /\ \A x, y : Bybit!Name(x, y) = Name(x, y) /\ Bybit!IsName(x, y) = IsName(x, y) /\ Bybit!PairNamed(x, y) = PairNamed(x, y)
  /\ \A x, y, z : Bybit!Entry(x, y, z) = Entry(x, y, z)
  /\ \A x : Bybit!Success(x) = Success(x) /\ Bybit!Throws(x) = Throws(x)
  /\ Bybit!Fail = Fail /\ Bybit!None = None /\ Bybit!Undefined = Undefined
  /\ \A x : Bybit!Reverse(x) = Reverse(x) /\ Bybit!SetToSeq(x) = SetToSeq(x) /\ Bybit!ToSet(x) = ToSet(x)
  /\ \A x, y : Bybit!First(x, y) = First(x, y) /\ Bybit!Newest(x, y) = Newest(x, y) /\ Bybit!Among(x, y) = Among(x, y)
              /\ Bybit!InState(x, y) = InState(x, y) /\ Bybit!IsOpen(x, y) = IsOpen(x, y)
<1>1. \A x, y : Bybit!Name(x, y) = Name(x, y)
  BY DEF Bybit!Name, Name
<1>2. \A x, y : Bybit!IsName(x, y) = IsName(x, y)
  BY <1>1, Zenon DEF Bybit!IsName, IsName, Bybit!Name, Name
<1>3. \A x, y : Bybit!PairNamed(x, y) = PairNamed(x, y)
  BY Zenon DEF Bybit!PairNamed, PairNamed, Bybit!Name, Name
<1>4. \A x : Bybit!Text(x) = Text(x) /\ Bybit!Stod(x) = Stod(x) /\ Bybit!Millis(x) = Millis(x)
  BY Zenon DEF Bybit!Text, Text, Bybit!Stod, Stod, Bybit!Millis, Millis
<1>s. \A x : Bybit!Seconds(x) = Seconds(x)
  BY DEF Bybit!Seconds, Seconds
<1>m. \A x : Bybit!Minutes(x) = Minutes(x)
  BY <1>s DEF Bybit!Minutes, Minutes
<1>f. \A x : Bybit!Fractional(x) = Fractional(x) /\ Bybit!Whole(x) = Whole(x)
  BY Zenon DEF Bybit!Fractional, Fractional, Bybit!Whole, Whole
<1>5. \A x, y, z : Bybit!Entry(x, y, z) = Entry(x, y, z)
  BY Zenon DEF Bybit!Entry, Entry
<1>6. \A x : Bybit!Success(x) = Success(x) /\ Bybit!Throws(x) = Throws(x)
  BY Zenon DEF Bybit!Success, Bybit!Throws, Success, Throws
<1>7. Bybit!Fail = Fail /\ Bybit!None = None /\ Bybit!Undefined = Undefined
  BY Zenon DEF Bybit!Fail, Bybit!None, Fail, None, Bybit!Undefined, Undefined
<1>8. \A x : Bybit!Reverse(x) = Reverse(x) /\ Bybit!SetToSeq(x) = SetToSeq(x) /\ Bybit!ToSet(x) = ToSet(x)
  BY Zenon DEF Bybit!Reverse, Reverse, Bybit!SetToSeq, SetToSeq, Bybit!ToSet, ToSet,
               Bybit!IsInjective, IsInjective, Bybit!Cardinality, Cardinality
<1>9. \A x, y : Bybit!First(x, y) = First(x, y)
  BY Zenon DEF Bybit!First, First
<1>10. \A x, y : Bybit!Newest(x, y) = Newest(x, y)
  BY <1>8, <1>9, Zenon DEF Bybit!Newest, Newest
<1>11. \A x, y : Bybit!Among(x, y) = Among(x, y)
  BY Zenon DEF Bybit!Among, Among
<1>12. \A x, y : Bybit!InState(x, y) = InState(x, y)
  BY <1>8, <1>11, Zenon DEF Bybit!InState, InState
<1>13. \A x, y : Bybit!IsOpen(x, y) = IsOpen(x, y)
  BY <1>4, <1>8, <1>12, Zenon DEF Bybit!IsOpen, IsOpen
<1> QED BY <1>1, <1>2, <1>3, <1>4, <1>s, <1>m, <1>f, <1>5, <1>6, <1>7, <1>8, <1>9, <1>10, <1>11, <1>12, <1>13

\* Bybit's module has the same copy of RestTypes' orders as this one.
LEMMA BybitOrdersAre ==
  /\ \A x, y : Bybit!Enter(x, y) = Enter(x, y) /\ Bybit!Cancel(x, y) = Cancel(x, y) /\ Bybit!Get(x, y) = Get(x, y)
  /\ \A m, p, a, v : Bybit!AtMarket(m, p, a, v) = AtMarket(m, p, a, v)
  /\ \A a, b, c, d, e, f, g : Bybit!Order(a, b, c, d, e, f, g) = Order(a, b, c, d, e, f, g)
  /\ \A a, b, c, d, e, f, g : Bybit!Description(a, b, c, d, e, f, g) = Description(a, b, c, d, e, f, g)
  /\ \A m : Bybit!NextId(m) = NextId(m)
  /\ \A x, y : Bybit!Cost(x, y) = Cost(x, y) /\ Bybit!Volume(x, y) = Volume(x, y) /\ Bybit!AssetPrice(x, y) = AssetPrice(x, y)
<1>1. \A m : Bybit!NextId(m) = NextId(m)
  BY Zenon DEF Bybit!NextId, NextId
<1>2. \A x, y : Bybit!Enter(x, y) = Enter(x, y)
  BY <1>1, Zenon DEF Bybit!Enter, Enter
<1>3. \A x, y : Bybit!Cancel(x, y) = Cancel(x, y)
  BY Zenon DEF Bybit!Cancel, Cancel, Bybit!Each, Each, Bybit!Text, Text
<1>4. \A x, y : Bybit!Get(x, y) = Get(x, y)
  BY Zenon DEF Bybit!Get, Get
<1>5. \A a, b, c, d, e, f, g : Bybit!Order(a, b, c, d, e, f, g) = Order(a, b, c, d, e, f, g)
  BY Zenon DEF Bybit!Order, Order
<1>6. \A m, p, a, v : Bybit!AtMarket(m, p, a, v) = AtMarket(m, p, a, v)
  BY <1>5, Zenon DEF Bybit!AtMarket, AtMarket
<1>7. \A x, y : Bybit!Cost(x, y) = Cost(x, y) /\ Bybit!Volume(x, y) = Volume(x, y) /\ Bybit!AssetPrice(x, y) = AssetPrice(x, y)
  BY DEF Bybit!Cost, Cost, Bybit!Volume, Volume, Bybit!AssetPrice, AssetPrice
<1>8. \A a, b, c, d, e, f, g : Bybit!Description(a, b, c, d, e, f, g) = Description(a, b, c, d, e, f, g)
  BY Zenon DEF Bybit!Description, Description
<1> QED BY <1>1, <1>2, <1>3, <1>4, <1>5, <1>6, <1>7, <1>8

\* Coinbase's module has the same copy of RestTypes' helpers as this one.
LEMMA CoinbaseShares ==
  /\ \A x : Coinbase!Text(x) = Text(x) /\ Coinbase!Stod(x) = Stod(x) /\ Coinbase!Millis(x) = Millis(x) /\ Coinbase!Seconds(x) = Seconds(x)
           /\ Coinbase!Minutes(x) = Minutes(x) /\ Coinbase!Fractional(x) = Fractional(x) /\ Coinbase!Whole(x) = Whole(x)
  /\ \A x, y : Coinbase!Name(x, y) = Name(x, y) /\ Coinbase!IsName(x, y) = IsName(x, y) /\ Coinbase!PairNamed(x, y) = PairNamed(x, y)
  /\ \A x, y, z : Coinbase!Entry(x, y, z) = Entry(x, y, z)
  /\ \A x : Coinbase!Success(x) = Success(x) /\ Coinbase!Throws(x) = Throws(x)
  /\ Coinbase!Fail = Fail /\ Coinbase!None = None /\ Coinbase!Undefined = Undefined
  /\ \A x : Coinbase!Reverse(x) = Reverse(x) /\ Coinbase!SetToSeq(x) = SetToSeq(x) /\ Coinbase!ToSet(x) = ToSet(x)
  /\ \A x, y : Coinbase!First(x, y) = First(x, y) /\ Coinbase!Newest(x, y) = Newest(x, y) /\ Coinbase!Among(x, y) = Among(x, y)
              /\ Coinbase!InState(x, y) = InState(x, y) /\ Coinbase!IsOpen(x, y) = IsOpen(x, y)
<1>1. \A x, y : Coinbase!Name(x, y) = Name(x, y)
  BY DEF Coinbase!Name, Name
<1>2. \A x, y : Coinbase!IsName(x, y) = IsName(x, y)
  BY <1>1, Zenon DEF Coinbase!IsName, IsName, Coinbase!Name, Name
<1>3. \A x, y : Coinbase!PairNamed(x, y) = PairNamed(x, y)
  BY Zenon DEF Coinbase!PairNamed, PairNamed, Coinbase!Name, Name
<1>4. \A x : Coinbase!Text(x) = Text(x) /\ Coinbase!Stod(x) = Stod(x) /\ Coinbase!Millis(x) = Millis(x)
  BY Zenon DEF Coinbase!Text, Text, Coinbase!Stod, Stod, Coinbase!Millis, Millis
<1>s. \A x : Coinbase!Seconds(x) = Seconds(x)
  BY DEF Coinbase!Seconds, Seconds
<1>m. \A x : Coinbase!Minutes(x) = Minutes(x)
  BY <1>s DEF Coinbase!Minutes, Minutes
<1>f. \A x : Coinbase!Fractional(x) = Fractional(x) /\ Coinbase!Whole(x) = Whole(x)
  BY Zenon DEF Coinbase!Fractional, Fractional, Coinbase!Whole, Whole
<1>5. \A x, y, z : Coinbase!Entry(x, y, z) = Entry(x, y, z)
  BY Zenon DEF Coinbase!Entry, Entry
<1>6. \A x : Coinbase!Success(x) = Success(x) /\ Coinbase!Throws(x) = Throws(x)
  BY Zenon DEF Coinbase!Success, Coinbase!Throws, Success, Throws
<1>7. Coinbase!Fail = Fail /\ Coinbase!None = None /\ Coinbase!Undefined = Undefined
  BY Zenon DEF Coinbase!Fail, Coinbase!None, Fail, None, Coinbase!Undefined, Undefined
<1>8. \A x : Coinbase!Reverse(x) = Reverse(x) /\ Coinbase!SetToSeq(x) = SetToSeq(x) /\ Coinbase!ToSet(x) = ToSet(x)
  BY Zenon DEF Coinbase!Reverse, Reverse, Coinbase!SetToSeq, SetToSeq, Coinbase!ToSet, ToSet,
               Coinbase!IsInjective, IsInjective, Coinbase!Cardinality, Cardinality
<1>9. \A x, y : Coinbase!First(x, y) = First(x, y)
  BY Zenon DEF Coinbase!First, First
<1>10. \A x, y : Coinbase!Newest(x, y) = Newest(x, y)
  BY <1>8, <1>9, Zenon DEF Coinbase!Newest, Newest
<1>11. \A x, y : Coinbase!Among(x, y) = Among(x, y)
  BY Zenon DEF Coinbase!Among, Among
<1>12. \A x, y : Coinbase!InState(x, y) = InState(x, y)
  BY <1>8, <1>11, Zenon DEF Coinbase!InState, InState
<1>13. \A x, y : Coinbase!IsOpen(x, y) = IsOpen(x, y)
  BY <1>4, <1>8, <1>12, Zenon DEF Coinbase!IsOpen, IsOpen
<1> QED BY <1>1, <1>2, <1>3, <1>4, <1>s, <1>m, <1>f, <1>5, <1>6, <1>7, <1>8, <1>9, <1>10, <1>11, <1>12, <1>13

\* Coinbase's module has the same copy of RestTypes' orders as this one.
LEMMA CoinbaseOrdersAre ==
  /\ \A x, y : Coinbase!Enter(x, y) = Enter(x, y) /\ Coinbase!Cancel(x, y) = Cancel(x, y) /\ Coinbase!Get(x, y) = Get(x, y)
  /\ \A m, p, a, v : Coinbase!AtMarket(m, p, a, v) = AtMarket(m, p, a, v)
  /\ \A a, b, c, d, e, f, g : Coinbase!Order(a, b, c, d, e, f, g) = Order(a, b, c, d, e, f, g)
  /\ \A a, b, c, d, e, f, g : Coinbase!Description(a, b, c, d, e, f, g) = Description(a, b, c, d, e, f, g)
  /\ \A m : Coinbase!NextId(m) = NextId(m)
  /\ \A x, y : Coinbase!Cost(x, y) = Cost(x, y) /\ Coinbase!Volume(x, y) = Volume(x, y) /\ Coinbase!AssetPrice(x, y) = AssetPrice(x, y)
<1>1. \A m : Coinbase!NextId(m) = NextId(m)
  BY Zenon DEF Coinbase!NextId, NextId
<1>2. \A x, y : Coinbase!Enter(x, y) = Enter(x, y)
  BY <1>1, Zenon DEF Coinbase!Enter, Enter
<1>3. \A x, y : Coinbase!Cancel(x, y) = Cancel(x, y)
  BY Zenon DEF Coinbase!Cancel, Cancel, Coinbase!Each, Each, Coinbase!Text, Text
<1>4. \A x, y : Coinbase!Get(x, y) = Get(x, y)
  BY Zenon DEF Coinbase!Get, Get
<1>5. \A a, b, c, d, e, f, g : Coinbase!Order(a, b, c, d, e, f, g) = Order(a, b, c, d, e, f, g)
  BY Zenon DEF Coinbase!Order, Order
<1>6. \A m, p, a, v : Coinbase!AtMarket(m, p, a, v) = AtMarket(m, p, a, v)
  BY <1>5, Zenon DEF Coinbase!AtMarket, AtMarket
<1>7. \A x, y : Coinbase!Cost(x, y) = Cost(x, y) /\ Coinbase!Volume(x, y) = Volume(x, y) /\ Coinbase!AssetPrice(x, y) = AssetPrice(x, y)
  BY DEF Coinbase!Cost, Cost, Coinbase!Volume, Volume, Coinbase!AssetPrice, AssetPrice
<1>8. \A a, b, c, d, e, f, g : Coinbase!Description(a, b, c, d, e, f, g) = Description(a, b, c, d, e, f, g)
  BY Zenon DEF Coinbase!Description, Description
<1> QED BY <1>1, <1>2, <1>3, <1>4, <1>5, <1>6, <1>7, <1>8

\* Digifinex's module has the same copy of RestTypes' helpers as this one.
LEMMA DigifinexShares ==
  /\ \A x : Digifinex!Text(x) = Text(x) /\ Digifinex!Stod(x) = Stod(x) /\ Digifinex!Millis(x) = Millis(x) /\ Digifinex!Seconds(x) = Seconds(x)
           /\ Digifinex!Minutes(x) = Minutes(x) /\ Digifinex!Fractional(x) = Fractional(x) /\ Digifinex!Whole(x) = Whole(x)
  /\ \A x, y : Digifinex!Name(x, y) = Name(x, y) /\ Digifinex!IsName(x, y) = IsName(x, y) /\ Digifinex!PairNamed(x, y) = PairNamed(x, y)
  /\ \A x, y, z : Digifinex!Entry(x, y, z) = Entry(x, y, z)
  /\ \A x : Digifinex!Success(x) = Success(x) /\ Digifinex!Throws(x) = Throws(x)
  /\ Digifinex!Fail = Fail /\ Digifinex!None = None /\ Digifinex!Undefined = Undefined
  /\ \A x : Digifinex!Reverse(x) = Reverse(x) /\ Digifinex!SetToSeq(x) = SetToSeq(x) /\ Digifinex!ToSet(x) = ToSet(x)
  /\ \A x, y : Digifinex!First(x, y) = First(x, y) /\ Digifinex!Newest(x, y) = Newest(x, y) /\ Digifinex!Among(x, y) = Among(x, y)
              /\ Digifinex!InState(x, y) = InState(x, y) /\ Digifinex!IsOpen(x, y) = IsOpen(x, y)
<1>1. \A x, y : Digifinex!Name(x, y) = Name(x, y)
  BY DEF Digifinex!Name, Name
<1>2. \A x, y : Digifinex!IsName(x, y) = IsName(x, y)
  BY <1>1, Zenon DEF Digifinex!IsName, IsName, Digifinex!Name, Name
<1>3. \A x, y : Digifinex!PairNamed(x, y) = PairNamed(x, y)
  BY Zenon DEF Digifinex!PairNamed, PairNamed, Digifinex!Name, Name
<1>4. \A x : Digifinex!Text(x) = Text(x) /\ Digifinex!Stod(x) = Stod(x) /\ Digifinex!Millis(x) = Millis(x)
  BY Zenon DEF Digifinex!Text, Text, Digifinex!Stod, Stod, Digifinex!Millis, Millis
<1>s. \A x : Digifinex!Seconds(x) = Seconds(x)
  BY DEF Digifinex!Seconds, Seconds
<1>m. \A x : Digifinex!Minutes(x) = Minutes(x)
  BY <1>s DEF Digifinex!Minutes, Minutes
<1>f. \A x : Digifinex!Fractional(x) = Fractional(x) /\ Digifinex!Whole(x) = Whole(x)
  BY Zenon DEF Digifinex!Fractional, Fractional, Digifinex!Whole, Whole
<1>5. \A x, y, z : Digifinex!Entry(x, y, z) = Entry(x, y, z)
  BY Zenon DEF Digifinex!Entry, Entry
<1>6. \A x : Digifinex!Success(x) = Success(x) /\ Digifinex!Throws(x) = Throws(x)
  BY Zenon DEF Digifinex!Success, Digifinex!Throws, Success, Throws
<1>7. Digifinex!Fail = Fail /\ Digifinex!None = None /\ Digifinex!Undefined = Undefined
  BY Zenon DEF Digifinex!Fail, Digifinex!None, Fail, None, Digifinex!Undefined, Undefined
<1>8. \A x : Digifinex!Reverse(x) = Reverse(x) /\ Digifinex!SetToSeq(x) = SetToSeq(x) /\ Digifinex!ToSet(x) = ToSet(x)
  BY Zenon DEF Digifinex!Reverse, Reverse, Digifinex!SetToSeq, SetToSeq, Digifinex!ToSet, ToSet,
               Digifinex!IsInjective, IsInjective, Digifinex!Cardinality, Cardinality
<1>9. \A x, y : Digifinex!First(x, y) = First(x, y)
  BY Zenon DEF Digifinex!First, First
<1>10. \A x, y : Digifinex!Newest(x, y) = Newest(x, y)
  BY <1>8, <1>9, Zenon DEF Digifinex!Newest, Newest
<1>11. \A x, y : Digifinex!Among(x, y) = Among(x, y)
  BY Zenon DEF Digifinex!Among, Among
<1>12. \A x, y : Digifinex!InState(x, y) = InState(x, y)
  BY <1>8, <1>11, Zenon DEF Digifinex!InState, InState
<1>13. \A x, y : Digifinex!IsOpen(x, y) = IsOpen(x, y)
  BY <1>4, <1>8, <1>12, Zenon DEF Digifinex!IsOpen, IsOpen
<1> QED BY <1>1, <1>2, <1>3, <1>4, <1>s, <1>m, <1>f, <1>5, <1>6, <1>7, <1>8, <1>9, <1>10, <1>11, <1>12, <1>13

\* Digifinex's module has the same copy of RestTypes' orders as this one.
LEMMA DigifinexOrdersAre ==
  /\ \A x, y : Digifinex!Enter(x, y) = Enter(x, y) /\ Digifinex!Cancel(x, y) = Cancel(x, y) /\ Digifinex!Get(x, y) = Get(x, y)
  /\ \A m, p, a, v : Digifinex!AtMarket(m, p, a, v) = AtMarket(m, p, a, v)
  /\ \A a, b, c, d, e, f, g : Digifinex!Order(a, b, c, d, e, f, g) = Order(a, b, c, d, e, f, g)
  /\ \A a, b, c, d, e, f, g : Digifinex!Description(a, b, c, d, e, f, g) = Description(a, b, c, d, e, f, g)
  /\ \A m : Digifinex!NextId(m) = NextId(m)
  /\ \A x, y : Digifinex!Cost(x, y) = Cost(x, y) /\ Digifinex!Volume(x, y) = Volume(x, y) /\ Digifinex!AssetPrice(x, y) = AssetPrice(x, y)
<1>1. \A m : Digifinex!NextId(m) = NextId(m)
  BY Zenon DEF Digifinex!NextId, NextId
<1>2. \A x, y : Digifinex!Enter(x, y) = Enter(x, y)
  BY <1>1, Zenon DEF Digifinex!Enter, Enter
<1>3. \A x, y : Digifinex!Cancel(x, y) = Cancel(x, y)
  BY Zenon DEF Digifinex!Cancel, Cancel, Digifinex!Each, Each, Digifinex!Text, Text
<1>4. \A x, y : Digifinex!Get(x, y) = Get(x, y)
  BY Zenon DEF Digifinex!Get, Get
<1>5. \A a, b, c, d, e, f, g : Digifinex!Order(a, b, c, d, e, f, g) = Order(a, b, c, d, e, f, g)
  BY Zenon DEF Digifinex!Order, Order
<1>6. \A m, p, a, v : Digifinex!AtMarket(m, p, a, v) = AtMarket(m, p, a, v)
  BY <1>5, Zenon DEF Digifinex!AtMarket, AtMarket
<1>7. \A x, y : Digifinex!Cost(x, y) = Cost(x, y) /\ Digifinex!Volume(x, y) = Volume(x, y) /\ Digifinex!AssetPrice(x, y) = AssetPrice(x, y)
  BY DEF Digifinex!Cost, Cost, Digifinex!Volume, Volume, Digifinex!AssetPrice, AssetPrice
<1>8. \A a, b, c, d, e, f, g : Digifinex!Description(a, b, c, d, e, f, g) = Description(a, b, c, d, e, f, g)
  BY Zenon DEF Digifinex!Description, Description
<1> QED BY <1>1, <1>2, <1>3, <1>4, <1>5, <1>6, <1>7, <1>8

\* Kraken's module has the same copy of RestTypes' helpers as this one.
LEMMA KrakenShares ==
  /\ \A x : Kraken!Text(x) = Text(x) /\ Kraken!Stod(x) = Stod(x) /\ Kraken!Millis(x) = Millis(x) /\ Kraken!Seconds(x) = Seconds(x)
           /\ Kraken!Minutes(x) = Minutes(x) /\ Kraken!Fractional(x) = Fractional(x) /\ Kraken!Whole(x) = Whole(x)
  /\ \A x, y : Kraken!Name(x, y) = Name(x, y) /\ Kraken!IsName(x, y) = IsName(x, y) /\ Kraken!PairNamed(x, y) = PairNamed(x, y)
  /\ \A x, y, z : Kraken!Entry(x, y, z) = Entry(x, y, z)
  /\ \A x : Kraken!Success(x) = Success(x) /\ Kraken!Throws(x) = Throws(x)
  /\ Kraken!Fail = Fail /\ Kraken!None = None /\ Kraken!Undefined = Undefined
  /\ \A x : Kraken!Reverse(x) = Reverse(x) /\ Kraken!SetToSeq(x) = SetToSeq(x) /\ Kraken!ToSet(x) = ToSet(x)
  /\ \A x, y : Kraken!First(x, y) = First(x, y) /\ Kraken!Newest(x, y) = Newest(x, y) /\ Kraken!Among(x, y) = Among(x, y)
              /\ Kraken!InState(x, y) = InState(x, y) /\ Kraken!IsOpen(x, y) = IsOpen(x, y)
<1>1. \A x, y : Kraken!Name(x, y) = Name(x, y)
  BY DEF Kraken!Name, Name
<1>2. \A x, y : Kraken!IsName(x, y) = IsName(x, y)
  BY <1>1, Zenon DEF Kraken!IsName, IsName, Kraken!Name, Name
<1>3. \A x, y : Kraken!PairNamed(x, y) = PairNamed(x, y)
  BY Zenon DEF Kraken!PairNamed, PairNamed, Kraken!Name, Name
<1>4. \A x : Kraken!Text(x) = Text(x) /\ Kraken!Stod(x) = Stod(x) /\ Kraken!Millis(x) = Millis(x)
  BY Zenon DEF Kraken!Text, Text, Kraken!Stod, Stod, Kraken!Millis, Millis
<1>s. \A x : Kraken!Seconds(x) = Seconds(x)
  BY DEF Kraken!Seconds, Seconds
<1>m. \A x : Kraken!Minutes(x) = Minutes(x)
  BY <1>s DEF Kraken!Minutes, Minutes
<1>f. \A x : Kraken!Fractional(x) = Fractional(x) /\ Kraken!Whole(x) = Whole(x)
  BY Zenon DEF Kraken!Fractional, Fractional, Kraken!Whole, Whole
<1>5. \A x, y, z : Kraken!Entry(x, y, z) = Entry(x, y, z)
  BY Zenon DEF Kraken!Entry, Entry
<1>6. \A x : Kraken!Success(x) = Success(x) /\ Kraken!Throws(x) = Throws(x)
  BY Zenon DEF Kraken!Success, Kraken!Throws, Success, Throws
<1>7. Kraken!Fail = Fail /\ Kraken!None = None /\ Kraken!Undefined = Undefined
  BY Zenon DEF Kraken!Fail, Kraken!None, Fail, None, Kraken!Undefined, Undefined
<1>8. \A x : Kraken!Reverse(x) = Reverse(x) /\ Kraken!SetToSeq(x) = SetToSeq(x) /\ Kraken!ToSet(x) = ToSet(x)
  BY Zenon DEF Kraken!Reverse, Reverse, Kraken!SetToSeq, SetToSeq, Kraken!ToSet, ToSet,
               Kraken!IsInjective, IsInjective, Kraken!Cardinality, Cardinality
<1>9. \A x, y : Kraken!First(x, y) = First(x, y)
  BY Zenon DEF Kraken!First, First
<1>10. \A x, y : Kraken!Newest(x, y) = Newest(x, y)
  BY <1>8, <1>9, Zenon DEF Kraken!Newest, Newest
<1>11. \A x, y : Kraken!Among(x, y) = Among(x, y)
  BY Zenon DEF Kraken!Among, Among
<1>12. \A x, y : Kraken!InState(x, y) = InState(x, y)
  BY <1>8, <1>11, Zenon DEF Kraken!InState, InState
<1>13. \A x, y : Kraken!IsOpen(x, y) = IsOpen(x, y)
  BY <1>4, <1>8, <1>12, Zenon DEF Kraken!IsOpen, IsOpen
<1> QED BY <1>1, <1>2, <1>3, <1>4, <1>s, <1>m, <1>f, <1>5, <1>6, <1>7, <1>8, <1>9, <1>10, <1>11, <1>12, <1>13

\* Kraken's module has the same copy of RestTypes' orders as this one.
LEMMA KrakenOrdersAre ==
  /\ \A x, y : Kraken!Enter(x, y) = Enter(x, y) /\ Kraken!Cancel(x, y) = Cancel(x, y) /\ Kraken!Get(x, y) = Get(x, y)
  /\ \A m, p, a, v : Kraken!AtMarket(m, p, a, v) = AtMarket(m, p, a, v)
  /\ \A a, b, c, d, e, f, g : Kraken!Order(a, b, c, d, e, f, g) = Order(a, b, c, d, e, f, g)
  /\ \A a, b, c, d, e, f, g : Kraken!Description(a, b, c, d, e, f, g) = Description(a, b, c, d, e, f, g)
  /\ \A m : Kraken!NextId(m) = NextId(m)
  /\ \A x, y : Kraken!Cost(x, y) = Cost(x, y) /\ Kraken!Volume(x, y) = Volume(x, y) /\ Kraken!AssetPrice(x, y) = AssetPrice(x, y)
<1>1. \A m : Kraken!NextId(m) = NextId(m)
  BY Zenon DEF Kraken!NextId, NextId
<1>2. \A x, y : Kraken!Enter(x, y) = Enter(x, y)
  BY <1>1, Zenon DEF Kraken!Enter, Enter
<1>3. \A x, y : Kraken!Cancel(x, y) = Cancel(x, y)
  BY Zenon DEF Kraken!Cancel, Cancel, Kraken!Each, Each, Kraken!Text, Text
<1>4. \A x, y : Kraken!Get(x, y) = Get(x, y)
  BY Zenon DEF Kraken!Get, Get
<1>5. \A a, b, c, d, e, f, g : Kraken!Order(a, b, c, d, e, f, g) = Order(a, b, c, d, e, f, g)
  BY Zenon DEF Kraken!Order, Order
<1>6. \A m, p, a, v : Kraken!AtMarket(m, p, a, v) = AtMarket(m, p, a, v)
  BY <1>5, Zenon DEF Kraken!AtMarket, AtMarket
<1>7. \A x, y : Kraken!Cost(x, y) = Cost(x, y) /\ Kraken!Volume(x, y) = Volume(x, y) /\ Kraken!AssetPrice(x, y) = AssetPrice(x, y)
  BY DEF Kraken!Cost, Cost, Kraken!Volume, Volume, Kraken!AssetPrice, AssetPrice
<1>8. \A a, b, c, d, e, f, g : Kraken!Description(a, b, c, d, e, f, g) = Description(a, b, c, d, e, f, g)
  BY Zenon DEF Kraken!Description, Description
<1> QED BY <1>1, <1>2, <1>3, <1>4, <1>5, <1>6, <1>7, <1>8

-----------------------------------------------------------------------------
(* Bybit. *)

\* A request without an effect, and the answer's reading.
BybitAnswers(m, c, r, v) ==
  /\ r.is = "http" /\ ~ Bybit!Refuses(m, r) /\ Bybit!Effect(m, r) = m
  /\ Bybit!Read(c, Bybit!Body(m, r)) = Success(v)

\* The paths of Bybit's requests tell them apart.
LEMMA BybitPaths ==
  /\ \A a, b : Bybit!Spot(a) = Bybit!Spot(b) => a = b
  /\ \A a, b : Bybit!Quote(a) = Bybit!Quote(b) => a = b
  /\ \A a, b : Bybit!Spot(a) # Bybit!Quote(b)
  /\ \A a : Bybit!Quote(a)[2] # "v1"
<1>1. \A a : Bybit!Quote(a)[2] = "quote" /\ Bybit!Spot(a)[2] = "v1"
  BY DEF Bybit!Spot, Bybit!Quote
<1>2. \A a, b : Bybit!Spot(a) = Bybit!Spot(b) => a = b
  BY DEF Bybit!Spot
<1>3. \A a, b : Bybit!Quote(a) = Bybit!Quote(b) => a = b
  BY DEF Bybit!Quote
<1>4. "quote" # "v1"
  OBVIOUS
<1> QED BY <1>1, <1>2, <1>3, <1>4

\* A request without a query names no market.
LEMMA BybitNone == "symbol" \notin DOMAIN Bybit!None
BY DEF Bybit!None

\* Queries that are not refused.
BybitGets(m, r, query) ==
  /\ r.is = "http" /\ r.verb = "GET" /\ r.query = query
  /\ ~ Bybit!Refuses(m, r) /\ Bybit!Effect(m, r) = m
BybitSpot(m, r, name, query) ==
  /\ BybitGets(m, r, query) /\ r.path = Bybit!Spot(name)
  /\ \A n : r.path = Bybit!Spot(n) => n = name
  /\ \A n : r.path # Bybit!Quote(n)
BybitQuote(m, r, name, query) ==
  /\ BybitGets(m, r, query) /\ r.path = Bybit!Quote(name)
  /\ \A n : r.path = Bybit!Quote(n) => n = name
  /\ \A n : r.path # Bybit!Spot(n)

\* What makes a request one of Bybit's that only reads.
LEMMA BybitGetsFrom ==
  ASSUME NEW m, NEW r, NEW query,
         r.is = "http" /\ r.verb = "GET" /\ r.query = query /\ r.content = Bybit!None,
         \/ r.path[2] # "v1" \/ r.path \in {Bybit!Spot("time"), Bybit!Spot("symbols")} \/ r.sign = query,
         "symbol" \in DOMAIN query => IsName(query.symbol, "")
  PROVE  BybitGets(m, r, query)
<1>1. "symbol" \notin DOMAIN Bybit!None
  BY BybitNone
<1>2. Bybit!IsName(r.query.symbol, "") = IsName(r.query.symbol, "")
  BY BybitShares
<1>3. ~ Bybit!Refuses(m, r)
  <2>1. \A params \in {r.query, r.content} : "symbol" \in DOMAIN params => Bybit!IsName(params.symbol, "")
    BY <1>1, <1>2
  <2>2. r.verb # "DELETE"
    OBVIOUS
  <2>3. r.path[2] = "v1" /\ r.path \notin {Bybit!Spot("time"), Bybit!Spot("symbols")} => r.sign \in {r.query, r.content}
    OBVIOUS
  <2> QED BY <2>1, <2>2, <2>3, Zenon DEF Bybit!Refuses
<1>4. Bybit!Effect(m, r) = m
  BY Zenon DEF Bybit!Effect
<1> QED BY <1>3, <1>4 DEF BybitGets

\* The request of a quote for a market.
LEMMA BybitQuotes ==
  ASSUME NEW m, NEW name, NEW query, "symbol" \in DOMAIN query => IsName(query.symbol, "")
  PROVE  BybitQuote(m, Bybit!PublicGet(Bybit!Quote(name), query), name, query)
<1> DEFINE r == Bybit!PublicGet(Bybit!Quote(name), query)
<1>1. r.is = "http" /\ r.verb = "GET" /\ r.path = Bybit!Quote(name) /\ r.query = query /\ r.content = Bybit!None
  BY DEF Bybit!PublicGet, Bybit!Http
<1> HIDE DEF r
<1>2. r.path[2] # "v1"
  BY <1>1, BybitPaths
<1>3. BybitGets(m, r, query)
  BY <1>1, <1>2, BybitGetsFrom
<1> QED BY <1>1, <1>3, BybitPaths DEF r, BybitQuote

\* A public request of Bybit only reads.
LEMMA BybitPublic ==
  ASSUME NEW m, NEW name, name \in {"time", "symbols"}
  PROVE  BybitSpot(m, Bybit!PublicGet(Bybit!Spot(name), Bybit!None), name, Bybit!None)
<1> DEFINE r == Bybit!PublicGet(Bybit!Spot(name), Bybit!None)
<1>1. r.is = "http" /\ r.verb = "GET" /\ r.path = Bybit!Spot(name) /\ r.query = Bybit!None /\ r.content = Bybit!None
  BY DEF Bybit!PublicGet, Bybit!Http
<1>2. "symbol" \notin DOMAIN Bybit!None
  BY BybitNone
<1> HIDE DEF r
<1>3. BybitGets(m, r, Bybit!None)
  BY <1>1, <1>2, BybitGetsFrom
<1> QED BY <1>1, <1>3, BybitPaths DEF r, BybitSpot

\* A private request of Bybit that only reads.
LEMMA BybitPrivate ==
  ASSUME NEW m, NEW name
  PROVE  BybitSpot(m, Bybit!Private("GET", name, Bybit!None), name, Bybit!None)
<1> DEFINE r == Bybit!Private("GET", name, Bybit!None)
<1>1. /\ r.is = "http" /\ r.verb = "GET" /\ r.path = Bybit!Spot(name) /\ r.query = Bybit!None /\ r.content = Bybit!None
      /\ r.sign = Bybit!None
  BY DEF Bybit!Private, Bybit!Http
<1>2. "symbol" \notin DOMAIN Bybit!None
  BY BybitNone
<1> HIDE DEF r
<1>3. BybitGets(m, r, Bybit!None)
  BY <1>1, <1>2, BybitGetsFrom
<1> QED BY <1>1, <1>3, BybitPaths DEF r, BybitSpot

\* An answer and its result.
LEMMA BybitBody ==
  \A m, r : LET j == Bybit!Body(m, r)
            IN  j.result = Bybit!Result(m, r) /\ ~ (j.ret_code # 0)
BY DEF Bybit!Body

\* get_status reads what Bybit answers.
LEMMA BybitStatus ==
  ASSUME NEW m, NEW c, c.op = "get_status", NEW price, NEW r, r = Bybit!Ask(c, price)
  PROVE  BybitAnswers(m, c, r, "ONLINE")
<1>1. r = Bybit!PublicGet(Bybit!Spot("time"), Bybit!None)
  BY Zenon DEF Bybit!Ask
<1>2. BybitSpot(m, r, "time", Bybit!None)
  BY <1>1, BybitPublic
<1> DEFINE j == Bybit!Body(m, r)
<1>3. ~ (j.ret_code # 0)
  BY BybitBody
<1> HIDE DEF j
<1>4. Bybit!Read(c, j) = Bybit!Success("ONLINE")
  BY <1>3, Zenon DEF Bybit!Read
<1> QED BY <1>2, <1>4, BybitShares DEF BybitAnswers, BybitGets, BybitSpot, j

\* get_price reads the price that Bybit knows.
LEMMA BybitPrice ==
  ASSUME NEW m, NEW c, c.op = "get_price", c.pair \in Pairs, NEW price, NEW r, r = Bybit!Ask(c, price)
  PROVE  BybitAnswers(m, c, r, m.price[c.pair])
<1> DEFINE q == [symbol |-> Bybit!Name(c.pair, "")]
<1>1. r = Bybit!PublicGet(Bybit!Quote("ticker"), q)
  BY Zenon DEF Bybit!Ask, Bybit!Named
<1>2. IsName(q.symbol, "") /\ PairNamed(q.symbol, "") = c.pair
  BY BybitShares, NameOfAPair
<1> HIDE DEF q
<1>3. BybitQuote(m, r, "ticker", q)
  BY <1>1, <1>2, BybitQuotes
<1> DEFINE j == Bybit!Body(m, r)
<1>4. ~ (j.ret_code # 0) /\ j.result = Bybit!Result(m, r)
  BY BybitBody
<1>5. Bybit!Result(m, r) = [price |-> Bybit!Text(m.price[Bybit!PairNamed(q.symbol, "")])]
  BY <1>3, Zenon DEF Bybit!Result, BybitGets, BybitQuote
<1>6. Bybit!Result(m, r) = [price |-> Text(m.price[c.pair])]
  BY <1>2, <1>5, BybitShares
<1> HIDE DEF j
<1>7. j.result.price = Text(m.price[c.pair])
  BY <1>4, <1>6
<1>8. Bybit!Read(c, j) = Bybit!Success(Bybit!Stod(j.result.price))
  BY <1>4, Zenon DEF Bybit!Read, Bybit!read_price
<1> QED BY <1>3, <1>7, <1>8, BybitShares, TextIsRead DEF BybitAnswers, BybitGets, BybitQuote, j

\* get_ohlcv reads the newest candles that Bybit knows, the newest first.
LEMMA BybitCandlesAre ==
  ASSUME NEW m, IsExchange(m), NEW c, c.op = "get_ohlcv", c.pair \in Pairs, c.interval \in Intervals,
         c.count \in Nat, NEW price, NEW r, r = Bybit!Ask(c, price)
  PROVE  BybitAnswers(m, c, r, Newest(m.candles[c.pair][c.interval], c.count))
<1> DEFINE q == [symbol |-> Name(c.pair, ""), interval |-> c.interval, limit |-> Text(c.count)]
           s == m.candles[c.pair][c.interval]
           Row(k) == <<Millis(k.time), Text(k.open), Text(k.high), Text(k.low), Text(k.close), Text(k.volume)>>
           t == [i \in DOMAIN s |-> Row(s[i])]
           z == Reverse(Newest(t, c.count))
           R(k) == Candle(k[1] \div 1000, Stod(k[2]), Stod(k[3]), Stod(k[4]), Stod(k[5]), Stod(k[6]))
           y == [i \in DOMAIN z |-> R(z[i])]
<1>1. r = Bybit!PublicGet(Bybit!Quote("kline"), q)
  <2>1. r = Bybit!PublicGet(Bybit!Quote("kline"), [symbol |-> Bybit!Name(c.pair, ""), interval |-> c.interval,
                                                   limit |-> Bybit!Text(c.count)])
    BY Zenon DEF Bybit!Ask, Bybit!Named
  <2> QED BY <2>1, BybitShares, Zenon
<1>2. /\ IsName(q.symbol, "") /\ PairNamed(q.symbol, "") = c.pair
      /\ q.interval = c.interval /\ Stod(q.limit) = c.count
  BY NameOfAPair, TextIsRead
<1> HIDE DEF q
<1>3. BybitQuote(m, r, "kline", q)
  BY <1>1, <1>2, BybitQuotes
<1>4. Bybit!Result(m, r) =
        Bybit!Reverse(Bybit!Newest(
          Bybit!Each(m.candles[Bybit!PairNamed(q.symbol, "")][q.interval], LAMBDA k :
            <<Bybit!Millis(k.time), Bybit!Text(k.open), Bybit!Text(k.high), Bybit!Text(k.low),
              Bybit!Text(k.close), Bybit!Text(k.volume)>>),
          Bybit!Stod(q.limit)))
  BY <1>3, Zenon DEF Bybit!Result, BybitGets, BybitQuote
<1>5. Bybit!Each(s, LAMBDA k :
            <<Bybit!Millis(k.time), Bybit!Text(k.open), Bybit!Text(k.high), Bybit!Text(k.low),
              Bybit!Text(k.close), Bybit!Text(k.volume)>>) = t
  BY BybitShares, Zenon DEF Bybit!Each
<1> HIDE DEF t
<1>6. Bybit!Result(m, r) = z
  BY <1>2, <1>4, <1>5, BybitShares, Zenon
<1> HIDE DEF z
<1> DEFINE j == Bybit!Body(m, r)
<1>7. ~ (j.ret_code # 0) /\ j.result = z
  BY <1>6, BybitBody
<1> HIDE DEF j
<1>8. Bybit!Read(c, j) = Bybit!Success(Bybit!read_ohlcv(j.result))
  BY <1>7, Zenon DEF Bybit!Read
<1>9. Bybit!read_ohlcv(j.result) = Reverse(y)
  BY <1>7, BybitShares, Zenon DEF Bybit!read_ohlcv, Bybit!Each, Bybit!Candle, Candle, Bybit!Stod, Stod
<1>10. s \in Seq(Candles)
  BY DEF IsExchange
<1>11. Reverse(y) = Newest(s, c.count)
  BY <1>10, CandlesAreReadBack DEF t, z
<1> QED BY <1>3, <1>8, <1>9, <1>11, BybitShares DEF BybitAnswers, BybitGets, BybitQuote, j

\* The levels of a book as the service sends them and as they are read.
LEMMA BybitLevels ==
  ASSUME NEW l \in Seq(Levels), NEW side
  PROVE  Bybit!Each(Bybit!Each(l, LAMBDA e : <<Bybit!Text(e.price), Bybit!Text(e.volume)>>),
                    LAMBDA e : Bybit!read_order_book_entry(e, side))
         = [i \in DOMAIN l |-> Entry(l[i].price, l[i].volume, side)]
<1> DEFINE t == [i \in DOMAIN l |-> <<Text(l[i].price), Text(l[i].volume)>>]
           b == [i \in DOMAIN t |-> Entry(Stod(t[i][1]), Stod(t[i][2]), side)]
<1>1. Bybit!Each(l, LAMBDA e : <<Bybit!Text(e.price), Bybit!Text(e.volume)>>) = t
  BY BybitShares, Zenon DEF Bybit!Each
<1> HIDE DEF t
<1>2. Bybit!Each(t, LAMBDA e : Bybit!read_order_book_entry(e, side)) = b
  BY Zenon DEF Bybit!Each, Bybit!read_order_book_entry, Bybit!Entry, Entry, Bybit!Stod, Stod
<1>3. DOMAIN t = DOMAIN l /\ \A i \in DOMAIN l : t[i][1] = Text(l[i].price) /\ t[i][2] = Text(l[i].volume)
  BY DEF t
<1>4. b = [i \in DOMAIN l |-> Entry(l[i].price, l[i].volume, side)]
  BY <1>3, TextIsRead
<1> QED BY <1>1, <1>2, <1>4, Zenon

\* get_order_book reads the first levels of the book that Bybit knows.
LEMMA BybitBookIs ==
  ASSUME NEW m, IsExchange(m), NEW c, c.op = "get_order_book", c.pair \in Pairs, c.depth \in Nat,
         NEW price, NEW r, r = Bybit!Ask(c, price), kind = "bybit"
  PROVE  \E v : BybitAnswers(m, c, r, v) /\ SameBook(v, m.book[c.pair], c.depth)
<1> DEFINE q == [symbol |-> Name(c.pair, ""), limit |-> Text(c.depth)]
           asks == First(m.book[c.pair].asks, c.depth)
           bids == First(m.book[c.pair].bids, c.depth)
           T(l) == Bybit!Each(l, LAMBDA e : <<Bybit!Text(e.price), Bybit!Text(e.volume)>>)
           R(l, side) == Bybit!Each(l, LAMBDA e : Bybit!read_order_book_entry(e, side))
           stamp == Bybit!Millis(m.book[c.pair].stamp)
           v == Bybit!Book(stamp \div 1000, R(T(asks), "ASK"), R(T(bids), "BID"))
<1>1. r = Bybit!PublicGet(Bybit!Quote("depth"), q)
  <2>1. r = Bybit!PublicGet(Bybit!Quote("depth"), [symbol |-> Bybit!Name(c.pair, ""), limit |-> Bybit!Text(c.depth)])
    BY Zenon DEF Bybit!Ask, Bybit!Named
  <2> QED BY <2>1, BybitShares, Zenon
<1>2. IsName(q.symbol, "") /\ PairNamed(q.symbol, "") = c.pair /\ Stod(q.limit) = c.depth
  BY NameOfAPair, TextIsRead
<1> HIDE DEF q
<1>3. BybitQuote(m, r, "depth", q)
  BY <1>1, <1>2, BybitQuotes
<1>4. Bybit!Result(m, r) =
        LET book == m.book[Bybit!PairNamed(q.symbol, "")]
        IN  [time |-> Bybit!Millis(book.stamp), asks |-> T(Bybit!First(book.asks, Bybit!Stod(q.limit))),
             bids |-> T(Bybit!First(book.bids, Bybit!Stod(q.limit)))]
  BY <1>3, Zenon DEF Bybit!Result, BybitGets, BybitQuote
<1> HIDE DEF T, R
<1>5. Bybit!Result(m, r) = [time |-> stamp, asks |-> T(asks), bids |-> T(bids)]
  BY <1>2, <1>4, BybitShares, Zenon
<1> DEFINE j == Bybit!Body(m, r)
           n == stamp \div 1000
<1> HIDE DEF asks, bids, stamp
<1>6. /\ ~ (j.ret_code # 0) /\ j.result.time = stamp
      /\ j.result.asks = T(asks) /\ j.result.bids = T(bids)
  <2>1. ~ (j.ret_code # 0) /\ j.result = Bybit!Result(m, r)
    BY BybitBody
  <2> HIDE DEF j
  <2> QED BY <1>5, <2>1
<1> HIDE DEF j
<1>7. Bybit!Read(c, j) = Bybit!Success(Bybit!read_order_book(j.result))
  BY <1>6, Zenon DEF Bybit!Read
<1>8. Bybit!read_order_book(j.result) = v
  <2>1. Bybit!read_order_book(j.result) = Bybit!Book(j.result.time \div 1000, R(j.result.asks, "ASK"), R(j.result.bids, "BID"))
    BY DEF Bybit!read_order_book, R
  <2>2. j.result.time \div 1000 = n
    BY <1>6
  <2> HIDE DEF n
  <2> QED BY <1>6, <2>1, <2>2 DEF n
<1>9. asks \in Seq(Levels) /\ bids \in Seq(Levels)
  <2>1. m.book[c.pair].asks \in Seq(Levels) /\ m.book[c.pair].bids \in Seq(Levels)
    BY DEF IsExchange
  <2> QED BY <2>1, FirstOfArray DEF asks, bids
<1> HIDE DEF n
<1>10. v.asks = R(T(asks), "ASK") /\ v.bids = R(T(bids), "BID")
  BY DEF Bybit!Book
<1> HIDE DEF v
<1>11. /\ v.asks = [i \in DOMAIN asks |-> Entry(asks[i].price, asks[i].volume, "ASK")]
       /\ v.bids = [i \in DOMAIN bids |-> Entry(bids[i].price, bids[i].volume, "BID")]
  BY <1>9, <1>10, BybitLevels DEF R, T
<1>12. SameLevels(v.asks, asks) /\ \A e \in ToSet(v.asks) : e.side = "ASK"
  BY <1>9, <1>11, LevelsAreRead
<1>13. SameLevels(v.bids, bids) /\ \A e \in ToSet(v.bids) : e.side = "BID"
  BY <1>9, <1>11, LevelsAreRead
<1>14. SameBook(v, m.book[c.pair], c.depth)
  BY <1>12, <1>13, Zenon DEF SameBook, SidesAreNamed, asks, bids
<1>15. BybitAnswers(m, c, r, v)
  BY <1>3, <1>7, <1>8, BybitShares DEF BybitAnswers, BybitGets, BybitQuote, j
<1> QED BY <1>14, <1>15

\* get_tradable_pairs reads the pairs that Bybit lists.
LEMMA BybitPairsAre ==
  ASSUME NEW m, NEW c, c.op = "get_tradable_pairs", NEW price, NEW r, r = Bybit!Ask(c, price)
  PROVE  BybitAnswers(m, c, r, Pairs)
<1> DEFINE l == SetToSeq(Pairs)
           P(s) == [asset |-> s.baseCurrency, price_unit |-> s.quoteCurrency]
           S(p) == [baseCurrency |-> p.asset, quoteCurrency |-> p.price_unit]
           a == [i \in DOMAIN l |-> S(l[i])]
           v == {P(s) : s \in ToSet(a)}
<1>1. r = Bybit!PublicGet(Bybit!Spot("symbols"), Bybit!None)
  BY Zenon DEF Bybit!Ask
<1>2. BybitSpot(m, r, "symbols", Bybit!None)
  BY <1>1, BybitPublic
<1>3. Bybit!Result(m, r) = Bybit!Each(Bybit!SetToSeq(Pairs), LAMBDA p : [baseCurrency |-> p.asset, quoteCurrency |-> p.price_unit])
  BY <1>2, Zenon DEF Bybit!Result, BybitGets, BybitSpot
<1>4. Bybit!Result(m, r) = a
  BY <1>3, BybitShares, Zenon DEF Bybit!Each
<1>5. \A p \in Pairs : P(S(p)) = p
  BY FiltersAssumption
<1> HIDE DEF a
<1> DEFINE j == Bybit!Body(m, r)
<1>6. ~ (j.ret_code # 0) /\ j.result = a
  BY <1>4, BybitBody
<1> HIDE DEF j
<1>7. Bybit!Read(c, j) = Bybit!Success(Bybit!read_tradable_pairs(j.result))
  BY <1>6, Zenon DEF Bybit!Read
<1>8. Bybit!read_tradable_pairs(j.result) = v
  BY <1>6, BybitShares DEF Bybit!read_tradable_pairs
<1> HIDE DEF P, S
<1>9. /\ \A i \in DOMAIN l : l[i] \in Pairs
      /\ \A x \in Pairs : \E i \in DOMAIN l : l[i] = x
  BY FiltersAssumption, ListOfASet
<1>10. DOMAIN a = DOMAIN l /\ \A i \in DOMAIN l : a[i] = S(l[i])
  BY DEF a
<1> HIDE DEF l
<1>11. v = Pairs
  <2>1. ASSUME NEW x \in Pairs PROVE x \in v
    <3>1. PICK i \in DOMAIN l : l[i] = x
      BY <1>9
    <3>2. S(x) \in ToSet(a)
      BY <1>10, <3>1 DEF ToSet
    <3> QED BY <3>2, <1>5
  <2>2. ASSUME NEW s \in ToSet(a) PROVE P(s) \in Pairs
    <3>1. PICK i \in DOMAIN a : a[i] = s
      BY DEF ToSet
    <3> QED BY <1>5, <1>9, <1>10, <3>1
  <2> QED BY <2>1, <2>2
<1> QED BY <1>2, <1>7, <1>8, <1>11, BybitShares DEF BybitAnswers, BybitGets, BybitSpot, j

\* get_balances reads the balances that Bybit knows.
LEMMA BybitBalances ==
  ASSUME NEW m, IsExchange(m), NEW c, c.op = "get_balances", NEW price, NEW r, r = Bybit!Ask(c, price)
  PROVE  BybitAnswers(m, c, r, m.balances)
<1> DEFINE A == DOMAIN m.balances
           l == SetToSeq(A)
           a == [i \in DOMAIN l |-> [coin |-> l[i], free |-> Text(m.balances[l[i]])]]
           e(k) == CHOOSE i \in DOMAIN a : a[i].coin = k
           v == [k \in {a[i].coin : i \in DOMAIN a} |-> Stod(a[e(k)].free)]
<1>1. r = Bybit!Private("GET", "account", Bybit!None)
  BY Zenon DEF Bybit!Ask
<1>2. BybitSpot(m, r, "account", Bybit!None)
  BY <1>1, BybitPrivate
<1>3. Bybit!Result(m, r) = [balances |-> Bybit!Each(Bybit!SetToSeq(DOMAIN m.balances), LAMBDA x :
                              [coin |-> x, free |-> Bybit!Text(m.balances[x])])]
  BY <1>2, Zenon DEF Bybit!Result, BybitGets, BybitSpot
<1>4. Bybit!Result(m, r) = [balances |-> a]
  BY <1>3, BybitShares, Zenon DEF Bybit!Each
<1> HIDE DEF a
<1> DEFINE j == Bybit!Body(m, r)
<1>5. ~ (j.ret_code # 0) /\ j.result.balances = a
  BY <1>4, BybitBody
<1> HIDE DEF j
<1>6. Bybit!Read(c, j) = Bybit!Success(Bybit!read_balances(j.result))
  BY <1>5, Zenon DEF Bybit!Read
<1>7. Bybit!read_balances(j.result) = v
  BY <1>5 DEF Bybit!read_balances, Bybit!ByKey, Bybit!Stod, Stod
<1>8. IsFiniteSet(A) /\ m.balances = [k \in A |-> m.balances[k]]
  BY DEF IsExchange
<1>9. /\ \A i \in DOMAIN l : l[i] \in A
      /\ \A x \in A : \E i \in DOMAIN l : l[i] = x
  BY <1>8, ListOfASet
<1>10. DOMAIN a = DOMAIN l /\ \A i \in DOMAIN l : a[i].coin = l[i] /\ a[i].free = Text(m.balances[l[i]])
  BY DEF a
<1> HIDE DEF l, A
<1>11. {a[i].coin : i \in DOMAIN a} = A
  <2>1. ASSUME NEW x \in A PROVE \E i \in DOMAIN a : a[i].coin = x
    BY <1>9, <1>10
  <2>2. \A i \in DOMAIN a : a[i].coin \in A
    BY <1>9, <1>10
  <2> QED BY <2>1, <2>2
<1>12. ASSUME NEW k \in A
       PROVE  Stod(a[e(k)].free) = m.balances[k]
  <2>1. \E i \in DOMAIN a : a[i].coin = k
    BY <1>9, <1>10
  <2>2. e(k) \in DOMAIN a /\ a[e(k)].coin = k
    BY <2>1, Zenon
  <2> HIDE DEF e
  <2> QED BY <2>2, <1>10, TextIsRead
<1> HIDE DEF e
<1>13. v = m.balances
  BY <1>8, <1>11, <1>12, Zenon
<1> QED BY <1>2, <1>6, <1>7, <1>13, BybitShares DEF BybitAnswers, BybitGets, BybitSpot, j

\* The orders of the exchange are of the types that its class holds.
HoldsOnly(m, class) == \A i \in DOMAIN m.orders : IsHeld(class, m.orders[i])

\* The orders in some states are orders of the exchange, in those states.
LEMMA HeldInState ==
  ASSUME NEW m, IsExchange(m), NEW class, HoldsOnly(m, class), NEW states
  PROVE  /\ InState(m, states) \in Seq({o \in Orders : IsHeld(class, o)})
         /\ \A i \in 1 .. Len(InState(m, states)) : InState(m, states)[i].state \in states
<1> DEFINE s == InState(m, states)
<1>1. s \in Seq(Orders) /\ \A i \in 1 .. Len(s) : s[i].state \in states /\ \E j \in 1 .. Len(m.orders) : s[i] = m.orders[j]
  BY OrdersInState
<1>2. m.orders \in Seq(Orders)
  BY DEF IsExchange
<1> HIDE DEF s
<1>3. ASSUME NEW i \in 1 .. Len(s) PROVE s[i] \in {o \in Orders : IsHeld(class, o)}
  <2>1. PICK k \in 1 .. Len(m.orders) : s[i] = m.orders[k]
    BY <1>1
  <2>2. IsHeld(class, m.orders[k])
    BY <1>2, <2>1 DEF HoldsOnly
  <2>3. s[i] \in Orders
    BY <1>1
  <2> QED BY <2>1, <2>2, <2>3
<1>4. s \in Seq({o \in Orders : IsHeld(class, o)})
  BY <1>1, <1>3
<1> QED BY <1>1, <1>4 DEF s

\* An order of Bybit's is read as the order it is.
LEMMA BybitOrderIsRead ==
  ASSUME NEW o \in Orders, IsHeld("bybit", o), kind = "bybit"
  PROVE  OrderIsRead(Bybit!read_order_description(Bybit!OrderJson(o)), o)
<1> DEFINE qty == IF o.type = "MARKET" /\ o.action = "BUY" THEN Cost(o.price, o.volume) ELSE o.volume
           status == CASE o.state = "open" -> "NEW" [] o.state = "closed" -> "FILLED" [] OTHER -> "CANCELED"
           ms == Millis(o.time)
           j == [time |-> Text(ms), orderId |-> Text(o.id), symbol |-> Name(o.pair, ""), side |-> o.action,
                 type |-> o.type, price |-> Text(o.price), origQty |-> Text(qty), status |-> status]
<1>1. Bybit!OrderJson(o) = j
  BY BybitShares, BybitOrdersAre, Zenon DEF Bybit!OrderJson, Bybit!Named
<1>2. TypesHeld("bybit") = {"LIMIT", "MARKET"}
  BY Zenon DEF TypesHeld
<1>3. /\ o.type \in {"LIMIT", "MARKET"} /\ (o.type = "MARKET" => o.price > 0)
      /\ o.action \in {"BUY", "SELL"} /\ o.price \in Nat /\ o.volume \in Nat /\ o.time \in Nat
  BY <1>2 DEF IsHeld, Orders, Actions
<1>4. ms \div 1000 = o.time
  BY <1>3, MillisAreRead
<1>5. (IF o.action = "BUY" /\ o.type = "MARKET" THEN Volume(o.price, qty) ELSE qty) = o.volume
  <2>1. o.price > 0 => Volume(o.price, Cost(o.price, o.volume)) = o.volume
    BY <1>3, CostIsWorth
  <2> QED BY <1>3, <2>1
<1> HIDE DEF qty, status, ms
<1>6. /\ Stod(j.time) = ms /\ j.orderId = Text(o.id) /\ j.symbol = Name(o.pair, "") /\ j.side = o.action
      /\ j.type = o.type /\ Stod(j.price) = o.price /\ Stod(j.origQty) = qty
  BY TextIsRead
<1> HIDE DEF j
<1> DEFINE t == ms \div 1000
           bs == Bybit!Stod(j.time) \div 1000
           w == IF o.action = "BUY" /\ o.type = "MARKET" THEN Volume(o.price, qty) ELSE qty
<1>7. Bybit!read_order_description(j) = Description(t, Text(o.id), o.type, Name(o.pair, ""), o.action, o.price, w)
  <2>1. bs = t
    BY <1>6, BybitShares
  <2>2. Bybit!to_trade_action(j.side) = o.action /\ (IF j.type = "LIMIT" THEN "LIMIT" ELSE "MARKET") = o.type
    BY <1>3, <1>6 DEF Bybit!to_trade_action
  <2> DEFINE d == Bybit!read_order_description(j)
             a == Bybit!to_trade_action(j.side)
             u == IF a = "BUY" /\ j.type = "MARKET" THEN Bybit!Volume(Bybit!Stod(j.price), Bybit!Stod(j.origQty))
                                                    ELSE Bybit!Stod(j.origQty)
  <2>3. d = Bybit!Description(bs, j.orderId, IF j.type = "LIMIT" THEN "LIMIT" ELSE "MARKET", j.symbol, a, Bybit!Stod(j.price), u)
    BY DEF Bybit!read_order_description
  <2>4. u = w /\ Bybit!Stod(j.price) = o.price
    BY <1>6, <2>2, BybitShares, BybitOrdersAre
  <2> HIDE DEF bs, t, d, a, u, w
  <2>5. d = Bybit!Description(t, Text(o.id), o.type, Name(o.pair, ""), o.action, o.price, w)
    BY <1>6, <2>1, <2>2, <2>3, <2>4 DEF a
  <2> QED BY <2>5, BybitOrdersAre DEF d
<1>8. t = o.time /\ w = o.volume
  BY <1>4, <1>5
<1> HIDE DEF t, w
<1>9. TypeRead(o.type) = o.type /\ Named(o.pair) = Name(o.pair, "")
  <2>1. TypeRead(o.type) = o.type
    BY <1>3 DEF TypeRead
  <2>2. Named(o.pair) = Name(o.pair, "")
    BY Zenon DEF Named
  <2> QED BY <2>1, <2>2
<1>10. OrderIsRead(Description(o.time, Text(o.id), o.type, Name(o.pair, ""), o.action, o.price, o.volume), o)
  BY <1>9 DEF OrderIsRead, Description
<1> QED BY <1>1, <1>7, <1>8, <1>10, Zenon

\* get_open_orders reads the orders that Bybit holds open.
LEMMA BybitOpenOrders ==
  ASSUME NEW m, IsExchange(m), HoldsOnly(m, "bybit"), NEW c, c.op = "get_open_orders", NEW price,
         NEW r, r = Bybit!Ask(c, price), kind = "bybit"
  PROVE  \E v : BybitAnswers(m, c, r, v) /\ SameOrders(v, InState(m, {"open"}))
<1> DEFINE s == InState(m, {"open"})
           a == [i \in DOMAIN s |-> Bybit!OrderJson(s[i])]
           v == [i \in DOMAIN a |-> Bybit!read_order_description(a[i])]
<1>1. r = Bybit!Private("GET", "open-orders", Bybit!None)
  BY Zenon DEF Bybit!Ask
<1>2. BybitSpot(m, r, "open-orders", Bybit!None)
  BY <1>1, BybitPrivate
<1>3. Bybit!Result(m, r) = Bybit!Each(Bybit!InState(m, {"open"}), Bybit!OrderJson)
  BY <1>2, Zenon DEF Bybit!Result, BybitGets, BybitSpot
<1>4. Bybit!Result(m, r) = a
  BY <1>3, BybitShares, Zenon DEF Bybit!Each
<1> HIDE DEF a
<1> DEFINE j == Bybit!Body(m, r)
<1>5. ~ (j.ret_code # 0) /\ j.result = a
  BY <1>4, BybitBody
<1> HIDE DEF j
<1>6. Bybit!Read(c, j) = Bybit!Success(v)
  BY <1>5, Zenon DEF Bybit!Read, Bybit!read_open_orders, Bybit!Each
<1>7. s \in Seq({o \in Orders : IsHeld("bybit", o)})
  BY HeldInState
<1> HIDE DEF s
<1>8. DOMAIN a = DOMAIN s /\ \A i \in DOMAIN s : a[i] = Bybit!OrderJson(s[i]) /\ s[i] \in Orders /\ IsHeld("bybit", s[i])
  BY <1>7 DEF a
<1>9. \A i \in DOMAIN s : OrderIsRead(v[i], s[i])
  BY <1>8, BybitOrderIsRead
<1>10. v = [i \in DOMAIN s |-> v[i]]
  BY <1>8
<1> HIDE DEF v
<1>11. s \in Seq(Orders)
  BY <1>7
<1>12. SameOrders(v, s)
  BY <1>9, <1>10, <1>11, OrdersAreRead
<1>13. BybitAnswers(m, c, r, v)
  BY <1>2, <1>6, BybitShares DEF BybitAnswers, BybitGets, BybitSpot, j
<1> QED BY <1>12, <1>13 DEF s

\* get_closed_orders reads the orders that Bybit holds closed.
LEMMA BybitClosedOrders ==
  ASSUME NEW m, IsExchange(m), HoldsOnly(m, "bybit"), NEW c, c.op = "get_closed_orders", NEW price,
         NEW r, r = Bybit!Ask(c, price), kind = "bybit"
  PROVE  \E v : BybitAnswers(m, c, r, v) /\ SameOrders(v, InState(m, {"closed"}))
<1> DEFINE s == InState(m, {"closed", "cancelled"})
           k == InState(m, {"closed"})
           t == [i \in DOMAIN s |-> Bybit!OrderJson(s[i])]
           B == {o \in ToSet(t) : o.status = "FILLED"}
           a == Among(t, B)
           v == [i \in DOMAIN a |-> Bybit!read_order_description(a[i])]
           U == {Bybit!OrderJson(o) : o \in Orders}
           g == [o \in Orders |-> Bybit!OrderJson(o)]
<1>1. r = Bybit!Private("GET", "history-orders", Bybit!None)
  BY Zenon DEF Bybit!Ask
<1>2. BybitSpot(m, r, "history-orders", Bybit!None)
  BY <1>1, BybitPrivate
<1>3. Bybit!Result(m, r) = Bybit!Each(Bybit!InState(m, {"closed", "cancelled"}), Bybit!OrderJson)
  BY <1>2, Zenon DEF Bybit!Result, BybitGets, BybitSpot
<1>4. Bybit!Result(m, r) = t
  BY <1>3, BybitShares, Zenon DEF Bybit!Each
<1> DEFINE j == Bybit!Body(m, r)
<1>5. ~ (j.ret_code # 0) /\ j.result = t
  BY <1>4, BybitBody
<1> HIDE DEF j, t
<1>6. Bybit!Read(c, j) = Bybit!Success(v)
  <2>1. Bybit!Among(t, {o \in Bybit!ToSet(t) : o.status = "FILLED"}) = a
    BY BybitShares, Zenon
  <2> HIDE DEF a, B
  <2> QED BY <1>5, <2>1, Zenon DEF Bybit!Read, Bybit!read_closed_orders, Bybit!Each
<1>7. /\ s \in Seq({o \in Orders : IsHeld("bybit", o)}) /\ k \in Seq({o \in Orders : IsHeld("bybit", o)})
      /\ \A i \in 1 .. Len(s) : s[i].state \in {"closed", "cancelled"}
  BY HeldInState
<1> HIDE DEF s, k
<1>8. /\ DOMAIN t = 1 .. Len(s)
      /\ \A i \in 1 .. Len(s) : t[i] = Bybit!OrderJson(s[i]) /\ s[i] \in Orders
  BY <1>7 DEF t
<1>9. t \in Seq(U) /\ Len(t) = Len(s)
  <2>1. Len(s) \in Nat /\ DOMAIN s = 1 .. Len(s)
    BY <1>7
  <2>2. \A i \in 1 .. Len(s) : t[i] \in U
    BY <1>8
  <2>3. t = [i \in 1 .. Len(s) |-> t[i]]
    BY <2>1 DEF t
  <2> HIDE DEF U
  <2> QED BY <2>1, <2>2, <2>3
<1>10. \A i \in 1 .. Len(s) : t[i] \in B <=> s[i].state = "closed"
  <2> TAKE i \in 1 .. Len(s)
  <2>1. t[i] \in ToSet(t)
    BY <1>8 DEF ToSet
  <2>2. t[i].status = CASE s[i].state = "open" -> "NEW" [] s[i].state = "closed" -> "FILLED" [] OTHER -> "CANCELED"
    BY <1>8 DEF Bybit!OrderJson
  <2>3. t[i].status = "FILLED" <=> s[i].state = "closed"
    BY <1>7, <2>2
  <2> QED BY <2>1, <2>3
<1>11. Images(t, s, g)
  BY <1>8, <1>9 DEF Images
<1> HIDE DEF U, g, B
<1>12. Images(a, k, g)
  <2>1. "closed" \in {"closed", "cancelled"}
    OBVIOUS
  <2> HIDE DEF a
  <2>2. Images(Among(t, B), InState(m, {"closed"}), g)
    BY <1>9, <1>10, <1>11, <2>1, OrdersKept DEF s
  <2> QED BY <2>2 DEF a, k
<1>13. a \in Seq(U)
  BY <1>9, AmongIs
<1> HIDE DEF a
<1>14. /\ DOMAIN a = DOMAIN k
       /\ \A i \in DOMAIN k : a[i] = Bybit!OrderJson(k[i]) /\ k[i] \in Orders /\ IsHeld("bybit", k[i])
  <2>1. DOMAIN k = 1 .. Len(k) /\ Len(a) = Len(k) /\ \A i \in 1 .. Len(k) : a[i] = g[k[i]]
    BY <1>7, <1>12 DEF Images
  <2>2. DOMAIN a = 1 .. Len(a)
    BY <1>13
  <2>3. \A i \in 1 .. Len(k) : k[i] \in {o \in Orders : IsHeld("bybit", o)}
    BY <1>7
  <2> QED BY <2>1, <2>2, <2>3 DEF g
<1>15. \A i \in DOMAIN k : OrderIsRead(v[i], k[i])
  BY <1>14, BybitOrderIsRead
<1>16. v = [i \in DOMAIN k |-> v[i]]
  BY <1>14
<1> HIDE DEF v
<1>17. k \in Seq(Orders)
  BY <1>7
<1>18. SameOrders(v, k)
  BY <1>15, <1>16, <1>17, OrdersAreRead
<1>19. BybitAnswers(m, c, r, v)
  BY <1>2, <1>6, BybitShares DEF BybitAnswers, BybitGets, BybitSpot, j
<1> QED BY <1>18, <1>19 DEF k

\* cancel_order cancels the order at Bybit, and reads so.
LEMMA BybitCancels ==
  ASSUME NEW m, NEW c, c.op = "cancel_order", NEW price, NEW r, r = Bybit!Ask(c, price)
  PROVE  /\ r.is = "http" /\ Bybit!Effect(m, r) = Cancel(m, c.id)
         /\ IsOpen(m, c.id) => ~ Bybit!Refuses(m, r)
         /\ Bybit!Read(c, Bybit!Body(m, r)) = Success("void")
<1> DEFINE q == [orderId |-> c.id]
<1>1. r = Bybit!Http("DELETE", Bybit!Spot("order"), q, Bybit!None, q)
  <2>1. "DELETE" # "POST"
    OBVIOUS
  <2> QED BY <2>1, Zenon DEF Bybit!Ask, Bybit!Private
<1>2. q.orderId = c.id /\ "symbol" \notin DOMAIN q
  OBVIOUS
<1> HIDE DEF q
<1>3. /\ r.is = "http" /\ r.verb = "DELETE" /\ r.query = q /\ r.sign = q /\ r.content = Bybit!None
      /\ r.path = Bybit!Spot("order")
  BY <1>1 DEF Bybit!Http
<1>4. Bybit!Effect(m, r) = Cancel(m, c.id)
  <2>1. Bybit!Effect(m, r) = Bybit!Cancel(m, q.orderId)
    BY <1>3, Zenon DEF Bybit!Effect
  <2> QED BY <2>1, <1>2, BybitOrdersAre
<1>5. ASSUME IsOpen(m, c.id) PROVE ~ Bybit!Refuses(m, r)
  <2>1. Bybit!IsOpen(m, r.query.orderId)
    BY <1>2, <1>3, <1>5, BybitShares
  <2>2. \A params \in {r.query, r.content} : "symbol" \notin DOMAIN params
    BY <1>2, <1>3, BybitNone
  <2>3. r.sign \in {r.query, r.content}
    BY <1>3
  <2> QED BY <2>1, <2>2, <2>3, Zenon DEF Bybit!Refuses
<1> DEFINE j == Bybit!Body(m, r)
<1>6. ~ (j.ret_code # 0)
  BY BybitBody
<1> HIDE DEF j
<1>7. Bybit!Read(c, j) = Bybit!Success("void")
  BY <1>6, Zenon DEF Bybit!Read
<1> QED BY <1>3, <1>4, <1>5, <1>7, BybitShares DEF j

\* Bybit's own error is read as a failure.
LEMMA BybitError == \A c : Bybit!Read(c, Bybit!Error) = Fail
<1>1. Bybit!Error.ret_code # 0
  BY DEF Bybit!Error
<1> QED BY <1>1, BybitShares, Zenon DEF Bybit!Read

\* add_order enters at Bybit the order that was asked for, and reads its id.
LEMMA BybitAdds ==
  ASSUME NEW m, IsExchange(m), NEW c, c.op = "add_order", kind = "bybit", IsOrderRequest(c.order),
         NEW F, NEW price \in Nat, NEW r, r = Bybit!Ask(c, price)
  PROVE  AddsTo(m, c, price, F, r.is, Bybit!Refuses(m, r), Bybit!Effect(m, r), Bybit!Read(c, Bybit!Body(m, r)))
<1> DEFINE a == c.order
           n == Get(a, "VOLUME")
           qty == IF a.type = "MARKET" /\ a.action = "BUY" THEN Cost(price, n) ELSE n
           side == IF a.action = "BUY" THEN "Buy" ELSE "Sell"
           type == IF a.type = "MARKET" THEN "MARKET" ELSE "LIMIT"
           limit == Get(a, "ASSET_PRICE")
           q == [symbol |-> Name(a.pair, ""), qty |-> Text(qty), side |-> side, type |-> type, price |-> Text(limit)]
           now == m.price[a.pair]
           volume == IF a.type = "MARKET" /\ a.action = "BUY" THEN Volume(now, qty) ELSE qty
           x == IF a.type = "MARKET" THEN now ELSE limit
           o == Order(type, a.pair, a.action, x, volume, 0, 0)
<1>0. /\ a.type \in OrderTypes /\ a.pair \in Pairs /\ a.action \in {"BUY", "SELL"}
      /\ now \in Nat /\ now > 0 /\ n \in Nat /\ limit \in Nat /\ qty \in Nat /\ volume \in Nat
      /\ a.type = "MARKET" /\ a.action = "BUY" => (price = now => volume = n)
  <2>1. /\ a.type \in OrderTypes /\ a.pair \in Pairs /\ a.action \in {"BUY", "SELL"}
        /\ n \in Nat /\ limit \in Nat
    BY GetIs DEF IsOrderRequest, Actions
  <2>2. now \in Nat /\ now > 0
    BY <2>1 DEF IsExchange
  <2> HIDE DEF n, limit, now, a
  <2>3. Cost(price, n) \in Nat
    BY <2>1, CostIsWorth
  <2>4. qty \in Nat
    BY <2>1, <2>3
  <2>5. Volume(now, qty) \in Nat
    <3> HIDE DEF qty
    <3> QED BY <2>2, <2>4, CostIsWorth
  <2>6. now > 0 => Volume(now, Cost(now, n)) = n
    BY <2>1, <2>2, CostIsWorth
  <2> QED BY <2>1, <2>2, <2>4, <2>5, <2>6
<1>1. r = Bybit!Http("POST", Bybit!Spot("order"), Bybit!None, q, q)
  <2> DEFINE b == [symbol |-> Bybit!Name(a.pair, ""), qty |-> Bybit!Text(Bybit!get_order_quantity(a, price)),
                   side |-> Bybit!to_side_string(a.action), type |-> Bybit!to_type_string(a.type),
                   price |-> Bybit!Text(Bybit!Get(a, "ASSET_PRICE"))]
  <2>1. r = Bybit!Http("POST", Bybit!Spot("order"), Bybit!None, b, b)
    BY Zenon DEF Bybit!Ask, Bybit!Private, Bybit!Named
  <2>2. /\ Bybit!get_order_quantity(a, price) = qty /\ Bybit!to_side_string(a.action) = side
        /\ Bybit!to_type_string(a.type) = type
    BY BybitOrdersAre, Zenon
       DEF Bybit!get_order_quantity, Bybit!AsksPrice, Bybit!to_side_string, Bybit!to_type_string
  <2> HIDE DEF qty, side, type, limit
  <2>3. b = q
    BY <2>2, BybitShares, BybitOrdersAre, Zenon DEF limit
  <2> HIDE DEF b, q
  <2> QED BY <2>1, <2>3
<1>2. /\ q.symbol = Name(a.pair, "") /\ Stod(q.qty) = qty /\ q.side = side /\ q.type = type /\ Stod(q.price) = limit
      /\ "symbol" \in DOMAIN q
  <2> HIDE DEF qty, side, type, limit
  <2> QED BY TextIsRead
<1>3. IsName(q.symbol, "") /\ PairNamed(q.symbol, "") = a.pair
  <2> HIDE DEF a
  <2>1. IsName(Name(a.pair, ""), "") /\ PairNamed(Name(a.pair, ""), "") = a.pair
    BY <1>0, NameOfAPair
  <2> QED BY <2>1
<1> HIDE DEF q
<1>4. /\ r.is = "http" /\ r.verb = "POST" /\ r.content = q /\ r.sign = q /\ r.query = Bybit!None
      /\ r.path = Bybit!Spot("order")
  BY <1>1 DEF Bybit!Http
<1>5. Bybit!OrderIn(m, q) = o
  <2> DEFINE action == IF q.side = "Buy" THEN "BUY" ELSE "SELL"
             p == Bybit!PairNamed(q.symbol, "")
             w == Bybit!Stod(q.qty)
             z == Bybit!Stod(q.price)
  <2>1. Bybit!OrderIn(m, q) =
          IF q.type = "MARKET"
          THEN Bybit!AtMarket(m, p, action, IF action = "BUY" THEN Bybit!Volume(m.price[p], w) ELSE w)
          ELSE Bybit!Order(q.type, p, action, z, w, 0, 0)
    BY DEF Bybit!OrderIn
  <2>2. action = a.action /\ p = a.pair /\ w = qty /\ z = limit
    <3>1. action = a.action
      BY <1>0, <1>2
    <3>2. p = a.pair
      BY <1>3, BybitShares
    <3>3. w = qty /\ z = limit
      BY <1>2, BybitShares
    <3> QED BY <3>1, <3>2, <3>3
  <2> HIDE DEF action, p, w, z
  <2>3. CASE a.type = "MARKET"
    <3>1. q.type = "MARKET"
      BY <1>2, <2>3
    <3> DEFINE y == IF action = "BUY" THEN Bybit!Volume(m.price[p], w) ELSE w
    <3>2. y = volume
      BY <2>2, <2>3, BybitOrdersAre
    <3>3. Bybit!OrderIn(m, q) = Bybit!AtMarket(m, p, action, y)
      BY <2>1, <3>1
    <3> HIDE DEF y, volume
    <3>4. Bybit!OrderIn(m, q) = AtMarket(m, a.pair, a.action, volume)
      BY <2>2, <3>2, <3>3, BybitOrdersAre
    <3>5. type = "MARKET" /\ x = m.price[a.pair]
      BY <2>3
    <3> HIDE DEF type, x
    <3> QED BY <3>4, <3>5 DEF AtMarket
  <2>4. CASE a.type # "MARKET"
    <3>1. q.type # "MARKET" /\ q.type = type /\ volume = qty /\ x = limit
      BY <1>2, <2>4
    <3> HIDE DEF volume, x, type, limit, qty
    <3>2. Bybit!OrderIn(m, q) = Bybit!Order(type, a.pair, a.action, x, volume, 0, 0)
      BY <2>1, <2>2, <3>1
    <3> QED BY <3>2, BybitOrdersAre
  <2> QED BY <2>3, <2>4
<1>6. Bybit!Effect(m, r) = Enter(m, o)
  <2> HIDE DEF o
  <2>1. Bybit!Effect(m, r) = Bybit!Enter(m, Bybit!OrderIn(m, q))
    BY <1>4, Zenon DEF Bybit!Effect
  <2> QED BY <2>1, <1>5, BybitOrdersAre
<1>7. ~ Bybit!Refuses(m, r)
  <2>1. \A params \in {r.query, r.content} : "symbol" \in DOMAIN params => Bybit!IsName(params.symbol, "")
    <3>1. Bybit!IsName(q.symbol, "")
      BY <1>3, BybitShares
    <3> QED BY <1>4, <3>1, BybitNone
  <2>2. r.sign \in {r.query, r.content} /\ r.verb # "DELETE"
    BY <1>4
  <2> QED BY <2>1, <2>2, Zenon DEF Bybit!Refuses
<1> DEFINE j == Bybit!Body(m, r)
<1>8. ~ (j.ret_code # 0) /\ j.result.orderId = Text(NextId(m))
  <2>1. Bybit!Result(m, r) = [orderId |-> Bybit!Text(Bybit!NextId(m))]
    <3>1. (\A n1 : r.path = Bybit!Spot(n1) => n1 = "order") /\ \A n1 : r.path # Bybit!Quote(n1)
      BY <1>4, BybitPaths
    <3> QED BY <1>4, <3>1, Zenon DEF Bybit!Result
  <2>2. ~ (j.ret_code # 0) /\ j.result = Bybit!Result(m, r)
    BY BybitBody
  <2> HIDE DEF j
  <2> QED BY <2>1, <2>2, BybitShares, BybitOrdersAre
<1> HIDE DEF j
<1>9. Bybit!Read(c, j) = Success(Text(NextId(m)))
  <2>1. Bybit!Read(c, j) = Bybit!Success(j.result.orderId)
    BY <1>8, Zenon DEF Bybit!Read
  <2> QED BY <1>8, <2>1, BybitShares
<1>10. /\ o.type = type /\ o.pair = a.pair /\ o.action = a.action /\ o.price = x /\ o.volume = volume
       /\ o.stop = 0 /\ o.delta = 0
  BY DEF Order
<1>11. o = Order(o.type, o.pair, o.action, o.price, o.volume, o.stop, o.delta)
  BY <1>10, Zenon DEF o
<1>12. x \in Nat /\ type \in {"LIMIT", "MARKET"} /\ (type = "MARKET" => x > 0)
  BY <1>0
<1> HIDE DEF o, x, volume, qty, n, limit, now
<1>13. IsNew(kind, o)
  <2>1. TypesHeld("bybit") = {"LIMIT", "MARKET"}
    BY Zenon DEF TypesHeld
  <2>2. IsHeld(kind, o)
    BY <1>10, <1>12, <2>1 DEF IsHeld
  <2>3. o.type \in OrderTypes /\ o.action \in Actions
    BY <1>0, <1>10, <1>12 DEF OrderTypes, Actions
  <2>4. o.pair \in Pairs /\ o.price \in Nat /\ o.volume \in Nat /\ o.stop \in Nat /\ o.delta \in Nat
    BY <1>0, <1>10, <1>12
  <2> QED BY <1>11, <2>2, <2>3, <2>4, Zenon DEF IsNew
<1>14. EnteredAs(o, c, price, F)
  <2>1. o.type = (IF kind = "bybit" /\ a.type # "MARKET" THEN "LIMIT" ELSE a.type)
    BY <1>10
  <2>2. AsksPrice(a) <=> a.type = "MARKET" /\ a.action = "BUY"
    <3>1. Bybit!AsksPrice(a) <=> a.type = "MARKET" /\ a.action = "BUY"
      BY Zenon DEF Bybit!AsksPrice
    <3> QED BY <3>1 DEF AsksPrice
  <2>3. o.volume = n \/ (AsksPrice(a) /\ price # o.price)
    <3>1. CASE a.type = "MARKET" /\ a.action = "BUY"
      BY <1>0, <1>10, <2>2, <3>1 DEF x
    <3>2. CASE ~ (a.type = "MARKET" /\ a.action = "BUY")
      BY <1>10, <3>2 DEF volume, qty
    <3> QED BY <3>1, <3>2
  <2>4. a.type # "MARKET" => o.price = limit
    BY <1>10 DEF x
  <2>5. kind # "binance"
    OBVIOUS
  <2> HIDE DEF type
  <2> QED BY <1>10, <2>1, <2>3, <2>4, <2>5, Zenon DEF EnteredAs, n, limit
<1> HIDE DEF type
<1> QED BY <1>4, <1>6, <1>7, <1>9, <1>13, <1>14, Zenon DEF AddsTo, j

-----------------------------------------------------------------------------
(* Coinbase. *)
CoinbaseAnswers(m, c, r, v) ==
  /\ r.is = "http" /\ ~ Coinbase!Refuses(m, r) /\ Coinbase!Effect(m, r) = m
  /\ Coinbase!Read(c, Coinbase!Body(m, r)) = Success(v)

\* Paths of one name, and those of a pair.
LEMMA CoinbasePaths ==
  /\ \A a, b : <<a>> = <<b>> => a = b
  /\ \A a : Len(<<a>>) = 1 /\ <<a>>[1] = a
  /\ \A a, b, d : Len(<<a, b, d>>) = 3 /\ <<a, b, d>>[1] = a /\ <<a, b, d>>[2] = b /\ <<a, b, d>>[3] = d
OBVIOUS

CoinbaseGets(m, r, query) ==
  /\ r.is = "http" /\ r.verb = "GET" /\ r.query = query
  /\ ~ Coinbase!Refuses(m, r) /\ Coinbase!Effect(m, r) = m
CoinbaseList(m, r, name, query) ==
  /\ CoinbaseGets(m, r, query) /\ r.path = <<name>> /\ Len(r.path) # 3
  /\ \A n : r.path = <<n>> => n = name
CoinbaseProduct(m, r, pair, what, query) ==
  /\ CoinbaseGets(m, r, query) /\ Len(r.path) = 3 /\ r.path[3] = what
  /\ Coinbase!PairNamed(r.path[2], "-") = pair
  /\ \A n : r.path # <<n>>

\* What makes a request one of Coinbase's that only reads.
LEMMA CoinbaseGetsFrom ==
  ASSUME NEW m, NEW r, NEW query, r.is = "http" /\ r.verb = "GET" /\ r.query = query,
         Coinbase!IsPrivate(r) => r.sign = <<r.verb, r.path, r.query, r.content>>,
         Len(r.path) = 1 \/ IsName(r.path[2], "-")
  PROVE  CoinbaseGets(m, r, query)
<1>1. Coinbase!IsName(r.path[2], "-") = IsName(r.path[2], "-")
  BY CoinbaseShares
<1>2. ~ (Len(r.path) > 1 /\ ~ Coinbase!IsName(r.path[2], "-"))
  BY <1>1
<1>3. r.verb # "POST" /\ r.verb # "DELETE"
  OBVIOUS
<1>4. ~ Coinbase!Refuses(m, r)
  BY <1>2, <1>3, Zenon DEF Coinbase!Refuses
<1>5. Coinbase!Effect(m, r) = m
  BY Zenon DEF Coinbase!Effect
<1> QED BY <1>4, <1>5 DEF CoinbaseGets

\* The request of a list of the account.
LEMMA CoinbaseLists ==
  ASSUME NEW m, NEW name, NEW query
  PROVE  CoinbaseList(m, Coinbase!Private("GET", <<name>>, query, Coinbase!None), name, query)
<1> DEFINE r == Coinbase!Private("GET", <<name>>, query, Coinbase!None)
<1>1. /\ r.is = "http" /\ r.verb = "GET" /\ r.path = <<name>> /\ r.query = query
      /\ r.sign = <<r.verb, r.path, r.query, r.content>>
  BY DEF Coinbase!Private, Coinbase!Http
<1> HIDE DEF r
<1>2. Len(r.path) = 1
  BY <1>1
<1>3. CoinbaseGets(m, r, query)
  BY <1>1, <1>2, CoinbaseGetsFrom
<1>4. \A n : r.path = <<n>> => n = name
  BY <1>1, CoinbasePaths
<1> QED BY <1>1, <1>2, <1>3, <1>4 DEF r, CoinbaseList

\* The request of a product's data.
LEMMA CoinbaseProducts ==
  ASSUME NEW m, NEW pair \in Pairs, NEW what, NEW query
  PROVE  CoinbaseProduct(m, Coinbase!PublicGet(Coinbase!Product(pair, what), query), pair, what, query)
<1> DEFINE path == <<"products", Name(pair, "-"), what>>
           r == Coinbase!PublicGet(path, query)
<1>1. Coinbase!Product(pair, what) = path
  BY CoinbaseShares, Zenon DEF Coinbase!Product, Coinbase!Named
<1>2. r.is = "http" /\ r.verb = "GET" /\ r.path = path /\ r.query = query
  BY DEF Coinbase!PublicGet, Coinbase!Http
<1> HIDE DEF r
<1>3. Len(r.path) = 3 /\ r.path[1] = "products" /\ r.path[2] = Name(pair, "-") /\ r.path[3] = what
  BY <1>2
<1> HIDE DEF path
<1>4. ~ Coinbase!IsPrivate(r)
  BY <1>3 DEF Coinbase!IsPrivate
<1>5. IsName(Name(pair, "-"), "-") /\ PairNamed(Name(pair, "-"), "-") = pair
  BY NameOfAPair
<1>6. CoinbaseGets(m, r, query)
  BY <1>2, <1>3, <1>4, <1>5, CoinbaseGetsFrom
<1>7. Coinbase!PairNamed(r.path[2], "-") = pair
  BY <1>3, <1>5, CoinbaseShares
<1>8. \A n : r.path # <<n>>
  BY <1>3
<1>9. CoinbaseProduct(m, r, pair, what, query)
  BY <1>3, <1>6, <1>7, <1>8 DEF CoinbaseProduct
<1> QED BY <1>1, <1>9 DEF r

\* get_tradable_pairs reads the pairs that Coinbase lists.
LEMMA CoinbasePairsAre ==
  ASSUME NEW m, NEW c, c.op = "get_tradable_pairs", NEW r, r = Coinbase!Ask(c)
  PROVE  CoinbaseAnswers(m, c, r, Pairs)
<1> DEFINE l == SetToSeq(Pairs)
           P(s) == [asset |-> s.base_currency, price_unit |-> s.quote_currency]
           S(p) == [base_currency |-> p.asset, quote_currency |-> p.price_unit]
           a == [i \in DOMAIN l |-> S(l[i])]
           v == {P(s) : s \in ToSet(a)}
<1>1. r = Coinbase!PublicGet(<<"products">>, Coinbase!None)
  BY Zenon DEF Coinbase!Ask
<1>2. CoinbaseList(m, r, "products", Coinbase!None)
  <2>1. r.is = "http" /\ r.verb = "GET" /\ r.path = <<"products">> /\ r.query = Coinbase!None
    BY <1>1 DEF Coinbase!PublicGet, Coinbase!Http
  <2>2. Len(r.path) = 1 /\ r.path[1] = "products"
    BY <2>1
  <2>3. ~ Coinbase!IsPrivate(r)
    BY <2>2 DEF Coinbase!IsPrivate
  <2>4. CoinbaseGets(m, r, Coinbase!None)
    BY <2>1, <2>2, <2>3, CoinbaseGetsFrom
  <2>5. \A n : r.path = <<n>> => n = "products"
    BY <2>1, CoinbasePaths
  <2> QED BY <2>1, <2>2, <2>4, <2>5 DEF CoinbaseList
<1>3. Coinbase!Body(m, r) = [array |-> Coinbase!Each(Coinbase!SetToSeq(Pairs), LAMBDA p :
                                         [base_currency |-> p.asset, quote_currency |-> p.price_unit])]
  BY <1>2, Zenon DEF Coinbase!Body, CoinbaseGets, CoinbaseList
<1>4. Coinbase!Body(m, r) = [array |-> a]
  BY <1>3, CoinbaseShares, Zenon DEF Coinbase!Each
<1>5. \A p \in Pairs : P(S(p)) = p
  BY FiltersAssumption
<1> HIDE DEF a
<1> DEFINE j == Coinbase!Body(m, r)
<1>6. "message" \notin DOMAIN j /\ j.array = a
  BY <1>4
<1> HIDE DEF j
<1>7. Coinbase!Read(c, j) = Coinbase!Success(Coinbase!read_tradable_pairs(j))
  BY <1>6, Zenon DEF Coinbase!Read
<1>8. Coinbase!read_tradable_pairs(j) = v
  BY <1>6, CoinbaseShares DEF Coinbase!read_tradable_pairs
<1> HIDE DEF P, S
<1>9. /\ \A i \in DOMAIN l : l[i] \in Pairs
      /\ \A x \in Pairs : \E i \in DOMAIN l : l[i] = x
  BY FiltersAssumption, ListOfASet
<1>10. DOMAIN a = DOMAIN l /\ \A i \in DOMAIN l : a[i] = S(l[i])
  BY DEF a
<1> HIDE DEF l
<1>11. v = Pairs
  <2>1. ASSUME NEW x \in Pairs PROVE x \in v
    <3>1. PICK i \in DOMAIN l : l[i] = x
      BY <1>9
    <3>2. S(x) \in ToSet(a)
      BY <1>10, <3>1 DEF ToSet
    <3> QED BY <3>2, <1>5
  <2>2. ASSUME NEW s \in ToSet(a) PROVE P(s) \in Pairs
    <3>1. PICK i \in DOMAIN a : a[i] = s
      BY DEF ToSet
    <3> QED BY <1>5, <1>9, <1>10, <3>1
  <2> QED BY <2>1, <2>2
<1> QED BY <1>2, <1>7, <1>8, <1>11, CoinbaseShares DEF CoinbaseAnswers, CoinbaseGets, CoinbaseList, j

\* get_price reads the price that Coinbase knows.
LEMMA CoinbasePrice ==
  ASSUME NEW m, NEW c, c.op = "get_price", c.pair \in Pairs, NEW r, r = Coinbase!Ask(c)
  PROVE  CoinbaseAnswers(m, c, r, m.price[c.pair])
<1>1. r = Coinbase!PublicGet(Coinbase!Product(c.pair, "ticker"), Coinbase!None)
  BY Zenon DEF Coinbase!Ask
<1>2. CoinbaseProduct(m, r, c.pair, "ticker", Coinbase!None)
  BY <1>1, CoinbaseProducts
<1>3. Coinbase!Body(m, r) = [price |-> Coinbase!Text(m.price[c.pair])]
  BY <1>2, Zenon DEF Coinbase!Body, CoinbaseGets, CoinbaseProduct
<1> DEFINE j == Coinbase!Body(m, r)
<1>4. "message" \notin DOMAIN j /\ j.price = Text(m.price[c.pair])
  BY <1>3, CoinbaseShares
<1> HIDE DEF j
<1>5. Coinbase!Read(c, j) = Coinbase!Success(Coinbase!Stod(j.price))
  BY <1>4, Zenon DEF Coinbase!Read, Coinbase!read_price
<1> QED BY <1>2, <1>4, <1>5, CoinbaseShares, TextIsRead DEF CoinbaseAnswers, CoinbaseGets, CoinbaseProduct, j

\* get_fee reads the fee that Coinbase knows.
LEMMA CoinbaseFee ==
  ASSUME NEW m, IsExchange(m), NEW c, c.op = "get_fee", NEW r, r = Coinbase!Ask(c)
  PROVE  CoinbaseAnswers(m, c, r, 100 * m.fee)
<1>1. r = Coinbase!Private("GET", <<"fees">>, Coinbase!None, Coinbase!None)
  BY Zenon DEF Coinbase!Ask
<1>2. CoinbaseList(m, r, "fees", Coinbase!None)
  BY <1>1, CoinbaseLists
<1>3. Coinbase!Body(m, r) = [taker_fee_rate |-> Coinbase!Text(m.fee)]
  BY <1>2, Zenon DEF Coinbase!Body, CoinbaseGets, CoinbaseList
<1> DEFINE j == Coinbase!Body(m, r)
<1>4. "message" \notin DOMAIN j /\ j.taker_fee_rate = Text(m.fee)
  BY <1>3, CoinbaseShares
<1> HIDE DEF j
<1>5. Coinbase!Read(c, j) = Coinbase!Success(Coinbase!read_fee(j))
  BY <1>4, Zenon DEF Coinbase!Read
<1>6. Coinbase!read_fee(j) = 100 * m.fee
  <2>1. Coinbase!Stod(j.taker_fee_rate) = m.fee
    BY <1>4, CoinbaseShares, TextIsRead
  <2>2. m.fee \in Nat
    BY DEF IsExchange
  <2> QED BY <2>1, <2>2 DEF Coinbase!read_fee
<1> QED BY <1>2, <1>5, <1>6, CoinbaseShares DEF CoinbaseAnswers, CoinbaseGets, CoinbaseList, j

\* get_balances reads the balances that Coinbase knows.
LEMMA CoinbaseBalances ==
  ASSUME NEW m, IsExchange(m), NEW c, c.op = "get_balances", NEW r, r = Coinbase!Ask(c)
  PROVE  CoinbaseAnswers(m, c, r, m.balances)
<1> DEFINE A == DOMAIN m.balances
           l == SetToSeq(A)
           a == [i \in DOMAIN l |-> [currency |-> l[i], balance |-> Text(m.balances[l[i]])]]
           e(k) == CHOOSE i \in DOMAIN a : a[i].currency = k
           v == [k \in {a[i].currency : i \in DOMAIN a} |-> Stod(a[e(k)].balance)]
<1>1. r = Coinbase!Private("GET", <<"coinbase-accounts">>, Coinbase!None, Coinbase!None)
  BY Zenon DEF Coinbase!Ask
<1>2. CoinbaseList(m, r, "coinbase-accounts", Coinbase!None)
  BY <1>1, CoinbaseLists
<1>3. Coinbase!Body(m, r) = [array |-> Coinbase!Each(Coinbase!SetToSeq(DOMAIN m.balances), LAMBDA x :
                              [currency |-> x, balance |-> Coinbase!Text(m.balances[x])])]
  BY <1>2, Zenon DEF Coinbase!Body, CoinbaseGets, CoinbaseList
<1>4. Coinbase!Body(m, r) = [array |-> a]
  BY <1>3, CoinbaseShares, Zenon DEF Coinbase!Each
<1> HIDE DEF a
<1> DEFINE j == Coinbase!Body(m, r)
<1>5. "message" \notin DOMAIN j /\ j.array = a
  BY <1>4
<1> HIDE DEF j
<1>6. Coinbase!Read(c, j) = Coinbase!Success(Coinbase!read_balances(j))
  BY <1>5, Zenon DEF Coinbase!Read
<1>7. Coinbase!read_balances(j) = v
  BY <1>5 DEF Coinbase!read_balances, Coinbase!ByKey, Coinbase!Stod, Stod
<1>8. IsFiniteSet(A) /\ m.balances = [k \in A |-> m.balances[k]]
  BY DEF IsExchange
<1>9. /\ \A i \in DOMAIN l : l[i] \in A
      /\ \A x \in A : \E i \in DOMAIN l : l[i] = x
  BY <1>8, ListOfASet
<1>10. DOMAIN a = DOMAIN l /\ \A i \in DOMAIN l : a[i].currency = l[i] /\ a[i].balance = Text(m.balances[l[i]])
  BY DEF a
<1> HIDE DEF l, A
<1>11. {a[i].currency : i \in DOMAIN a} = A
  <2>1. ASSUME NEW x \in A PROVE \E i \in DOMAIN a : a[i].currency = x
    BY <1>9, <1>10
  <2>2. \A i \in DOMAIN a : a[i].currency \in A
    BY <1>9, <1>10
  <2> QED BY <2>1, <2>2
<1>12. ASSUME NEW k \in A
       PROVE  Stod(a[e(k)].balance) = m.balances[k]
  <2>1. \E i \in DOMAIN a : a[i].currency = k
    BY <1>9, <1>10
  <2>2. e(k) \in DOMAIN a /\ a[e(k)].currency = k
    BY <2>1, Zenon
  <2> HIDE DEF e
  <2> QED BY <2>2, <1>10, TextIsRead
<1> HIDE DEF e
<1>13. v = m.balances
  BY <1>8, <1>11, <1>12, Zenon
<1> QED BY <1>2, <1>6, <1>7, <1>13, CoinbaseShares DEF CoinbaseAnswers, CoinbaseGets, CoinbaseList, j

\* The interval of a number of seconds, or of minutes, as a query gives it.
LEMMA IntervalIsKnown ==
  ASSUME NEW i \in Intervals
  PROVE  /\ (CHOOSE k \in {"1m", "1d"} : Text(Seconds(k)) = Text(Seconds(i))) = i
         /\ (CHOOSE k \in {"1m", "1d"} : Text(Minutes(k)) = Text(Minutes(i))) = i
<1>1. Seconds("1m") = 60 /\ Seconds("1d") = 86400 /\ 60 # 86400
  BY DEF Seconds
<1>2. Minutes("1m") = 1 /\ Minutes("1d") = 1440 /\ 1 # 1440
  <2>1. 60 \div 60 = 1 /\ 86400 \div 60 = 1440
    OBVIOUS
  <2> QED BY <1>1, <2>1 DEF Minutes
<1>3. i = "1m" \/ i = "1d"
  BY DEF Intervals
<1>4. \A k \in {"1m", "1d"} : Text(Seconds(k)) = Text(Seconds(i)) <=> k = i
  BY <1>1, <1>3, TextTells
<1>5. \A k \in {"1m", "1d"} : Text(Minutes(k)) = Text(Minutes(i)) <=> k = i
  BY <1>2, <1>3, TextTells
<1>6. (CHOOSE k \in {"1m", "1d"} : Text(Seconds(k)) = Text(Seconds(i))) = i
  BY <1>3, <1>4
<1>7. (CHOOSE k \in {"1m", "1d"} : Text(Minutes(k)) = Text(Minutes(i))) = i
  BY <1>3, <1>5
<1> QED BY <1>6, <1>7

\* Candles that are sent newest first.
CoinbaseRow(k) == <<k.time, k.low, k.high, k.open, k.close, k.volume>>
CoinbaseOfRow(w) == Candle(w[1], w[4], w[3], w[2], w[5], w[6])

\* Coinbase's rows of candles are read as the candles they were made of.
LEMMA CoinbaseCandlesRead ==
  ASSUME NEW x \in Seq(Candles), NEW n \in Nat
  PROVE  LET t == [i \in DOMAIN x |-> CoinbaseRow(x[i])]
             z == First(t, n)
         IN  [i \in DOMAIN z |-> CoinbaseOfRow(z[i])] = First(x, n)
<1> DEFINE t == [i \in DOMAIN x |-> CoinbaseRow(x[i])]
           z == First(t, n)
           U == {CoinbaseRow(k) : k \in Candles}
           L == Least(n, Len(x))
           y == [i \in DOMAIN z |-> CoinbaseOfRow(z[i])]
<1>1. \A k \in Candles : CoinbaseOfRow(CoinbaseRow(k)) = k
  <2> TAKE k \in Candles
  <2> DEFINE w == CoinbaseRow(k)
  <2>1. w[1] = k.time /\ w[2] = k.low /\ w[3] = k.high /\ w[4] = k.open /\ w[5] = k.close /\ w[6] = k.volume
    BY DEF CoinbaseRow
  <2> HIDE DEF w
  <2>2. CoinbaseOfRow(w) = Candle(k.time, k.open, k.high, k.low, k.close, k.volume)
    BY <2>1, Zenon DEF CoinbaseOfRow
  <2>3. Candle(k.time, k.open, k.high, k.low, k.close, k.volume) = k
    BY DEF Candle, Candles
  <2> QED BY <2>2, <2>3 DEF w
<1>2. t \in Seq(U) /\ Len(t) = Len(x) /\ \A i \in 1 .. Len(x) : t[i] = CoinbaseRow(x[i]) /\ x[i] \in Candles
  <2>1. \A i \in 1 .. Len(x) : CoinbaseRow(x[i]) \in U
    OBVIOUS
  <2> HIDE DEF U
  <2> QED BY <2>1
<1> HIDE DEF t, U
<1>3. z \in Seq(U) /\ Len(z) = L /\ \A i \in 1 .. L : z[i] = t[i]
  <2>1. First(t, n) \in Seq(U) /\ Len(First(t, n)) = Least(n, Len(t))
        /\ \A i \in 1 .. Least(n, Len(t)) : First(t, n)[i] = t[i]
    BY <1>2, FirstOfArray
  <2> QED BY <1>2, <2>1
<1>4. First(x, n) \in Seq(Candles) /\ Len(First(x, n)) = L /\ \A i \in 1 .. L : First(x, n)[i] = x[i]
  BY FirstOfArray
<1>5. L \in Nat /\ L <= Len(x)
  BY DEF Least
<1> HIDE DEF z, L
<1>6. \A i \in 1 .. L : CoinbaseOfRow(z[i]) = x[i] /\ x[i] \in Candles
  BY <1>1, <1>2, <1>3, <1>5
<1>7. y \in Seq(Candles) /\ Len(y) = L /\ \A i \in 1 .. L : y[i] = x[i]
  <2>1. DOMAIN z = 1 .. L
    BY <1>3, <1>5
  <2>2. y = [i \in 1 .. L |-> CoinbaseOfRow(z[i])]
    BY <2>1
  <2> HIDE DEF y
  <2> QED BY <1>5, <1>6, <2>2
<1> HIDE DEF y
<1>8. y = First(x, n)
  BY <1>4, <1>7, SeqEqual
<1> QED BY <1>8, Zenon DEF y, z, t

\* get_ohlcv reads the newest candles that Coinbase knows, the newest first.
LEMMA CoinbaseCandlesAre ==
  ASSUME NEW m, IsExchange(m), NEW c, c.op = "get_ohlcv", c.pair \in Pairs, c.interval \in Intervals,
         c.count \in Nat, NEW r, r = Coinbase!Ask(c)
  PROVE  CoinbaseAnswers(m, c, r, Newest(m.candles[c.pair][c.interval], c.count))
<1> DEFINE q == [granularity |-> Text(Seconds(c.interval))]
           s == m.candles[c.pair][c.interval]
           x == Reverse(s)
           t == [i \in DOMAIN x |-> CoinbaseRow(x[i])]
           z == First(t, c.count)
           y == [i \in DOMAIN z |-> CoinbaseOfRow(z[i])]
<1>1. r = Coinbase!PublicGet(Coinbase!Product(c.pair, "candles"), q)
  <2>1. r = Coinbase!PublicGet(Coinbase!Product(c.pair, "candles"), [granularity |-> Coinbase!Text(Coinbase!Seconds(c.interval))])
    BY Zenon DEF Coinbase!Ask
  <2> QED BY <2>1, CoinbaseShares, Zenon
<1>2. (CHOOSE k \in {"1m", "1d"} : Text(Seconds(k)) = q.granularity) = c.interval
  BY IntervalIsKnown
<1>3. CoinbaseProduct(m, r, c.pair, "candles", q)
  BY <1>1, CoinbaseProducts
<1>4. (CHOOSE k \in {"1m", "1d"} : Coinbase!Text(Coinbase!Seconds(k)) = q.granularity) = c.interval
  <2> HIDE DEF q
  <2> QED BY <1>2, CoinbaseShares
<1> HIDE DEF q
<1>5. Coinbase!Body(m, r) = [array |->
        Coinbase!Each(Coinbase!Reverse(m.candles[c.pair][
            CHOOSE k \in {"1m", "1d"} : Coinbase!Text(Coinbase!Seconds(k)) = q.granularity]), LAMBDA k :
          <<k.time, k.low, k.high, k.open, k.close, k.volume>>)]
  BY <1>3, Zenon DEF Coinbase!Body, CoinbaseGets, CoinbaseProduct
<1>6. Coinbase!Each(x, LAMBDA k : <<k.time, k.low, k.high, k.open, k.close, k.volume>>) = t
  BY Zenon DEF Coinbase!Each, CoinbaseRow
<1> HIDE DEF t
<1>7. Coinbase!Body(m, r) = [array |-> t]
  BY <1>4, <1>5, <1>6, CoinbaseShares, Zenon
<1> DEFINE j == Coinbase!Body(m, r)
<1>8. "message" \notin DOMAIN j /\ j.array = t
  BY <1>7
<1> HIDE DEF j
<1>9. Coinbase!Read(c, j) = Coinbase!Success(Coinbase!read_ohlcv_data(j, c.count))
  BY <1>8, Zenon DEF Coinbase!Read
<1>10. Coinbase!read_ohlcv_data(j, c.count) = y
  <2> HIDE DEF z
  <2>1. Coinbase!First(j.array, c.count) = z
    BY <1>8, CoinbaseShares, Zenon DEF z
  <2>2. Coinbase!read_ohlcv_data(j, c.count) =
          Coinbase!Each(z, LAMBDA k : Coinbase!Candle(k[1], k[4], k[3], k[2], k[5], k[6]))
    BY <2>1, Zenon DEF Coinbase!read_ohlcv_data
  <2> QED BY <2>2, Zenon DEF Coinbase!Each, Coinbase!Candle, Candle, CoinbaseOfRow
<1>11. s \in Seq(Candles)
  BY DEF IsExchange
<1>12. x \in Seq(Candles)
  BY <1>11, ReversedArray
<1>13. y = Newest(s, c.count)
  <2>1. y = First(x, c.count)
    <3> HIDE DEF x
    <3> QED BY <1>12, CoinbaseCandlesRead DEF t
  <2> QED BY <2>1 DEF Newest
<1> QED BY <1>3, <1>9, <1>10, <1>13, CoinbaseShares DEF CoinbaseAnswers, CoinbaseGets, CoinbaseProduct, j

\* The levels of a book, as texts, and the first of them as they are read.
LevelTexts(l) == [i \in DOMAIN l |-> <<Text(l[i].price), Text(l[i].volume)>>]
EntriesOf(t, side) == [i \in DOMAIN t |-> Entry(Stod(t[i][1]), Stod(t[i][2]), side)]

\* The first n levels of a side are read as the levels they were made of.
LEMMA FirstLevelsAreRead ==
  ASSUME NEW l \in Seq(Levels), NEW n \in Nat, NEW side
  PROVE  /\ SameLevels(EntriesOf(First(LevelTexts(l), n), side), First(l, n))
         /\ \A e \in ToSet(EntriesOf(First(LevelTexts(l), n), side)) : e.side = side
<1> DEFINE t == LevelTexts(l)
           z == First(t, n)
           f == First(l, n)
           b == EntriesOf(z, side)
           U == {<<Text(k.price), Text(k.volume)>> : k \in Levels}
           L == Least(n, Len(l))
<1>1. t \in Seq(U) /\ Len(t) = Len(l) /\ \A i \in 1 .. Len(l) : t[i] = <<Text(l[i].price), Text(l[i].volume)>>
  <2>1. \A i \in 1 .. Len(l) : <<Text(l[i].price), Text(l[i].volume)>> \in U
    OBVIOUS
  <2>2. t = [i \in 1 .. Len(l) |-> <<Text(l[i].price), Text(l[i].volume)>>]
    BY DEF LevelTexts
  <2> HIDE DEF U, t
  <2> QED BY <2>1, <2>2
<1> HIDE DEF t, U
<1>2. z \in Seq(U) /\ Len(z) = L /\ \A i \in 1 .. L : z[i] = t[i]
  <2>1. First(t, n) \in Seq(U) /\ Len(First(t, n)) = Least(n, Len(t))
        /\ \A i \in 1 .. Least(n, Len(t)) : First(t, n)[i] = t[i]
    BY <1>1, FirstOfArray
  <2> QED BY <1>1, <2>1
<1>3. f \in Seq(Levels) /\ Len(f) = L /\ \A i \in 1 .. L : f[i] = l[i]
  BY FirstOfArray
<1>4. L \in Nat /\ L <= Len(l)
  BY DEF Least
<1> HIDE DEF z, f, L
<1>5. \A i \in 1 .. L : z[i] = <<Text(f[i].price), Text(f[i].volume)>>
  BY <1>1, <1>2, <1>3, <1>4
<1>6. \A i \in 1 .. L : Stod(z[i][1]) = f[i].price /\ Stod(z[i][2]) = f[i].volume
  <2> TAKE i \in 1 .. L
  <2>1. z[i][1] = Text(f[i].price) /\ z[i][2] = Text(f[i].volume)
    BY <1>5
  <2> QED BY <2>1, TextIsRead
<1>7. DOMAIN f = 1 .. L /\ DOMAIN z = 1 .. L
  BY <1>2, <1>3, <1>4
<1>8. b = [i \in DOMAIN f |-> Entry(f[i].price, f[i].volume, side)]
  BY <1>6, <1>7, Zenon DEF EntriesOf
<1> HIDE DEF b
<1>9. SameLevels(b, f) /\ \A e \in ToSet(b) : e.side = side
  BY <1>3, <1>8, LevelsAreRead
<1> QED BY <1>9 DEF b, z, f, t

\* get_order_book reads the first levels of the book that Coinbase knows.
LEMMA CoinbaseBookIs ==
  ASSUME NEW m, IsExchange(m), NEW c, c.op = "get_order_book", c.pair \in Pairs, c.depth \in Nat \ {0},
         NEW r, r = Coinbase!Ask(c), kind = "coinbase"
  PROVE  \E v : CoinbaseAnswers(m, c, r, v) /\ SameBook(v, m.book[c.pair], c.depth)
<1> DEFINE level == IF c.depth = 1 THEN 1 ELSE 2
           q == [level |-> Text(level)]
           S(l) == IF q.level = Text(1) THEN First(l, 1) ELSE l
           asks == m.book[c.pair].asks
           bids == m.book[c.pair].bids
           stamp == m.book[c.pair].stamp
           T(l) == LevelTexts(S(l))
           R(t, side) == EntriesOf(First(t, c.depth), side)
           v == Coinbase!Book(stamp, R(T(asks), "BID"), R(T(bids), "ASK"))
<1>1. r = Coinbase!PublicGet(Coinbase!Product(c.pair, "book"), q)
  <2>1. r = Coinbase!PublicGet(Coinbase!Product(c.pair, "book"), [level |-> Coinbase!Text(IF c.depth = 1 THEN 1 ELSE 2)])
    BY Zenon DEF Coinbase!Ask
  <2> HIDE DEF level
  <2>2. [level |-> Coinbase!Text(level)] = q
    BY CoinbaseShares, Zenon
  <2> QED BY <2>1, <2>2 DEF level
<1>2. q.level = Text(1) <=> c.depth = 1
  BY TextTells
<1> HIDE DEF q
<1>3. CoinbaseProduct(m, r, c.pair, "book", q)
  BY <1>1, CoinbaseProducts
<1> DEFINE T1(l) == Coinbase!Each(IF q.level = Coinbase!Text(1) THEN Coinbase!First(l, 1) ELSE l,
                                  LAMBDA e : <<Coinbase!Text(e.price), Coinbase!Text(e.volume)>>)
<1>4. Coinbase!Body(m, r) = [sequence |-> m.book[c.pair].stamp, asks |-> T1(m.book[c.pair].asks),
                             bids |-> T1(m.book[c.pair].bids)]
  BY <1>3, Zenon DEF Coinbase!Body, CoinbaseGets, CoinbaseProduct
<1>5. \A l : T1(l) = T(l)
  <2> TAKE l
  <2>1. (IF q.level = Coinbase!Text(1) THEN Coinbase!First(l, 1) ELSE l) = S(l)
    BY CoinbaseShares
  <2> HIDE DEF S
  <2>2. T1(l) = Coinbase!Each(S(l), LAMBDA e : <<Coinbase!Text(e.price), Coinbase!Text(e.volume)>>)
    BY <2>1
  <2> HIDE DEF T1
  <2> QED BY <2>2, CoinbaseShares, Zenon DEF Coinbase!Each, LevelTexts
<1> HIDE DEF T1, T, asks, bids, stamp, R
<1>6. Coinbase!Body(m, r) = [sequence |-> stamp, asks |-> T(asks), bids |-> T(bids)]
  BY <1>4, <1>5 DEF asks, bids, stamp
<1> DEFINE j == Coinbase!Body(m, r)
<1>7. "message" \notin DOMAIN j /\ j.sequence = stamp /\ j.asks = T(asks) /\ j.bids = T(bids)
  BY <1>6
<1> HIDE DEF j
<1>8. Coinbase!Read(c, j) = Coinbase!Success(Coinbase!read_order_book(j, c.depth))
  BY <1>7, Zenon DEF Coinbase!Read
<1>9. Coinbase!read_order_book(j, c.depth) = v
  <2>1. \A t, side : Coinbase!Each(Coinbase!First(t, c.depth),
                                   LAMBDA e : Coinbase!Entry(Coinbase!Stod(e[1]), Coinbase!Stod(e[2]), side)) = R(t, side)
    BY CoinbaseShares, Zenon DEF Coinbase!Each, EntriesOf, R
  <2>2. Coinbase!read_order_book(j, c.depth) = Coinbase!Book(j.sequence,
           Coinbase!Each(Coinbase!First(j.asks, c.depth),
                         LAMBDA e : Coinbase!Entry(Coinbase!Stod(e[1]), Coinbase!Stod(e[2]), "BID")),
           Coinbase!Each(Coinbase!First(j.bids, c.depth),
                         LAMBDA e : Coinbase!Entry(Coinbase!Stod(e[1]), Coinbase!Stod(e[2]), "ASK")))
    BY Zenon DEF Coinbase!read_order_book
  <2>3. Coinbase!read_order_book(j, c.depth) = Coinbase!Book(j.sequence, R(j.asks, "BID"), R(j.bids, "ASK"))
    BY <2>1, <2>2, Zenon
  <2> QED BY <1>7, <2>3
<1>10. v.asks = R(T(asks), "BID") /\ v.bids = R(T(bids), "ASK")
  BY DEF Coinbase!Book
<1> HIDE DEF v
<1>11. asks \in Seq(Levels) /\ bids \in Seq(Levels)
  BY DEF IsExchange, asks, bids
<1>12. ASSUME NEW l \in Seq(Levels), NEW side
       PROVE  SameLevels(R(T(l), side), First(l, c.depth))
  <2>1. S(l) \in Seq(Levels)
    BY FirstOfArray
  <2>2. First(S(l), c.depth) = First(l, c.depth)
    <3>1. CASE c.depth # 1
      BY <1>2, <3>1
    <3>2. CASE c.depth = 1
      <4>1. S(l) = First(l, 1)
        BY <1>2, <3>2
      <4>2. First(l, 1) \in Seq(Levels) /\ Len(First(l, 1)) = Least(1, Len(l))
        BY FirstOfArray
      <4>3. /\ First(First(l, 1), 1) \in Seq(Levels)
            /\ Len(First(First(l, 1), 1)) = Least(1, Len(First(l, 1)))
            /\ \A i \in 1 .. Least(1, Len(First(l, 1))) : First(First(l, 1), 1)[i] = First(l, 1)[i]
        <5> DEFINE f == First(l, 1)
        <5>1. f \in Seq(Levels)
          BY <4>2
        <5> HIDE DEF f
        <5>2. First(f, 1) \in Seq(Levels) /\ Len(First(f, 1)) = Least(1, Len(f))
              /\ \A i \in 1 .. Least(1, Len(f)) : First(f, 1)[i] = f[i]
          BY <5>1, FirstOfArray
        <5> QED BY <5>2 DEF f
      <4>4. Least(1, Least(1, Len(l))) = Least(1, Len(l))
        BY DEF Least
      <4>5. First(First(l, 1), 1) = First(l, 1)
        BY <4>2, <4>3, <4>4, SeqEqual
      <4> QED BY <3>2, <4>1, <4>5
    <3> QED BY <3>1, <3>2
  <2> DEFINE x == S(l)
  <2> HIDE DEF S
  <2>3. SameLevels(EntriesOf(First(LevelTexts(x), c.depth), side), First(x, c.depth))
    <3> HIDE DEF x
    <3>1. x \in Seq(Levels)
      BY <2>1 DEF x
    <3> QED BY <3>1, FirstLevelsAreRead
  <2> QED BY <2>2, <2>3 DEF R, T
<1>13. SameLevels(v.asks, First(asks, c.depth)) /\ SameLevels(v.bids, First(bids, c.depth))
  BY <1>10, <1>11, <1>12
<1>14. SameBook(v, m.book[c.pair], c.depth)
  BY <1>13, Zenon DEF SameBook, asks, bids
<1>15. CoinbaseAnswers(m, c, r, v)
  BY <1>3, <1>8, <1>9, CoinbaseShares DEF CoinbaseAnswers, CoinbaseGets, CoinbaseProduct, j
<1> QED BY <1>14, <1>15

\* The members of an order that the exchange sends.
LEMMA CoinbaseSends ==
  ASSUME NEW o \in Orders, NEW given,
         given = CASE o.type # "MARKET" -> "price" [] o.type = "MARKET" /\ o.action = "BUY" -> "funds"
                   [] OTHER -> "executed_value"
  PROVE  LET j == Coinbase!OrderJson(o)
             worth == Text(Cost(o.price, o.volume))
         IN  /\ DOMAIN j = {"created_at", "id", "product_id", "side", "size", "type", given}
             /\ j.created_at.utc = o.time /\ j.id = Text(o.id) /\ j.product_id = Name(o.pair, "-")
             /\ j.side = (IF o.action = "BUY" THEN "buy" ELSE "sell") /\ j.size = Text(o.volume)
             /\ j.type = (CASE o.type = "LIMIT" -> "limit" [] o.type = "MARKET" -> "market" [] OTHER -> "stop")
             /\ given = "price" => j.price = Text(o.price)
             /\ given = "funds" => j.funds = worth
             /\ given = "executed_value" => j.executed_value = worth
<1> DEFINE date == [utc |-> o.time]
           id == Text(o.id)
           product == Name(o.pair, "-")
           side == IF o.action = "BUY" THEN "buy" ELSE "sell"
           size == Text(o.volume)
           type == CASE o.type = "LIMIT" -> "limit" [] o.type = "MARKET" -> "market" [] OTHER -> "stop"
           price == Text(o.price)
           worth == Text(Cost(o.price, o.volume))
           all == [created_at |-> date, id |-> id, product_id |-> product, side |-> side, size |-> size, type |-> type,
                   price |-> price, funds |-> worth, executed_value |-> worth]
           S == {"created_at", "id", "product_id", "side", "size", "type", given}
           j == Coinbase!OrderJson(o)
<1>1. j = Coinbase!Restrict(all, S)
  BY CoinbaseShares, CoinbaseOrdersAre, Zenon DEF Coinbase!OrderJson, Coinbase!Named
<1>2. date.utc = o.time
  OBVIOUS
<1> HIDE DEF date, id, product, side, size, type, price, worth
<1>3. j = [k \in S |-> all[k]]
  BY <1>1, Zenon DEF Coinbase!Restrict
<1>4. /\ all.created_at = date /\ all.id = id /\ all.product_id = product /\ all.side = side /\ all.size = size
      /\ all.type = type /\ all.price = price /\ all.funds = worth /\ all.executed_value = worth
  OBVIOUS
<1> HIDE DEF all, j
<1>5. /\ DOMAIN j = S
      /\ j.created_at = date /\ j.id = id /\ j.product_id = product /\ j.side = side /\ j.size = size /\ j.type = type
  BY <1>3, <1>4
<1>6. /\ given = "price" => j.price = price
      /\ given = "funds" => j.funds = worth
      /\ given = "executed_value" => j.executed_value = worth
  BY <1>3, <1>4
<1> QED BY <1>2, <1>5, <1>6 DEF date, id, product, side, size, type, price, worth, j

\* What the reader makes of one order.
CoinbaseReads(j) ==
  LET paid == Coinbase!Stod(IF "funds" \in DOMAIN j THEN j.funds ELSE j.executed_value)
  IN  Coinbase!Description(Coinbase!to_time_t(j.created_at), j.id, Coinbase!to_order_type(j.type), j.product_id,
                           IF j.side = "buy" THEN "BUY" ELSE "SELL",
                           IF "price" \in DOMAIN j THEN Coinbase!Stod(j.price)
                           ELSE Coinbase!AssetPrice(paid, Coinbase!Stod(j.size)),
                           Coinbase!Stod(j.size))

\* An order of Coinbase's is read as the order it is.
LEMMA CoinbaseOrderIsRead ==
  ASSUME NEW o \in Orders, IsHeld("coinbase", o), kind = "coinbase"
  PROVE  OrderIsRead(CoinbaseReads(Coinbase!OrderJson(o)), o)
<1> DEFINE given == CASE o.type # "MARKET" -> "price" [] o.type = "MARKET" /\ o.action = "BUY" -> "funds"
                      [] OTHER -> "executed_value"
           j == Coinbase!OrderJson(o)
           worth == Text(Cost(o.price, o.volume))
           paid == Coinbase!Stod(IF "funds" \in DOMAIN j THEN j.funds ELSE j.executed_value)
           price == IF "price" \in DOMAIN j THEN Coinbase!Stod(j.price)
                    ELSE Coinbase!AssetPrice(paid, Coinbase!Stod(j.size))
           type == Coinbase!to_order_type(j.type)
           action == IF j.side = "buy" THEN "BUY" ELSE "SELL"
           time == Coinbase!to_time_t(j.created_at)
           size == Coinbase!Stod(j.size)
<1>1. /\ DOMAIN j = {"created_at", "id", "product_id", "side", "size", "type", given}
      /\ j.created_at.utc = o.time /\ j.id = Text(o.id) /\ j.product_id = Name(o.pair, "-")
      /\ j.side = (IF o.action = "BUY" THEN "buy" ELSE "sell") /\ j.size = Text(o.volume)
      /\ j.type = (CASE o.type = "LIMIT" -> "limit" [] o.type = "MARKET" -> "market" [] OTHER -> "stop")
      /\ given = "price" => j.price = Text(o.price)
      /\ given = "funds" => j.funds = worth
      /\ given = "executed_value" => j.executed_value = worth
  BY CoinbaseSends, Zenon
<1>2. /\ o.type \in {"LIMIT", "MARKET", "STOP_LOSS", "TAKE_PROFIT"}
      /\ o.type = "MARKET" => o.price > 0 /\ o.volume > 0
      /\ o.action \in {"BUY", "SELL"} /\ o.price \in Nat /\ o.volume \in Nat /\ o.time \in Nat
  <2>1. TypesHeld("coinbase") = OrderTypes \ {"TRAILING_STOP_LOSS"}
    BY Zenon DEF TypesHeld
  <2> QED BY <2>1 DEF IsHeld, Orders, Actions, OrderTypes
<1>3. given = IF o.type # "MARKET" THEN "price" ELSE IF o.action = "BUY" THEN "funds" ELSE "executed_value"
  BY <1>2
<1> HIDE DEF given, j
<1>4. size = o.volume
  BY <1>1, CoinbaseShares, TextIsRead
<1>5. price = o.price
  <2>1. CASE o.type # "MARKET"
    <3>1. "price" \in DOMAIN j /\ j.price = Text(o.price)
      BY <1>1, <1>3, <2>1
    <3> QED BY <3>1, CoinbaseShares, TextIsRead
  <2>2. CASE o.type = "MARKET"
    <3>1. "price" \notin DOMAIN j
      BY <1>1, <1>3, <2>2
    <3>2. (IF "funds" \in DOMAIN j THEN j.funds ELSE j.executed_value) = worth
      <4>1. CASE o.action = "BUY"
        BY <1>1, <1>3, <2>2, <4>1
      <4>2. CASE o.action # "BUY"
        <5>1. given = "executed_value" /\ "funds" \notin DOMAIN j
          BY <1>1, <1>3, <2>2, <4>2
        <5> QED BY <1>1, <5>1
      <4> QED BY <4>1, <4>2
    <3>3. paid = Cost(o.price, o.volume)
      BY <3>2, CoinbaseShares, TextIsRead
    <3>4. AssetPrice(Cost(o.price, o.volume), o.volume) = o.price
      BY <1>2, <2>2, CostIsWorth
    <3> HIDE DEF paid, size
    <3>5. price = Coinbase!AssetPrice(paid, size)
      BY <3>1 DEF size
    <3> HIDE DEF price
    <3> QED BY <1>4, <3>3, <3>4, <3>5, CoinbaseOrdersAre
  <2> QED BY <2>1, <2>2
<1>6. type = TypeRead(o.type)
  <2>1. TypeRead(o.type) = IF o.type = "TAKE_PROFIT" THEN "STOP_LOSS" ELSE o.type
    BY <1>2 DEF TypeRead
  <2>2. j.type = IF o.type = "LIMIT" THEN "limit" ELSE IF o.type = "MARKET" THEN "market" ELSE "stop"
    BY <1>1
  <2>3. type = IF j.type = "limit" THEN "LIMIT" ELSE IF j.type = "market" THEN "MARKET" ELSE "STOP_LOSS"
    BY <2>2 DEF Coinbase!to_order_type
  <2> QED BY <1>2, <2>1, <2>2, <2>3
<1>7. action = o.action
  BY <1>1, <1>2
<1>8. time = o.time - LocalOffset
  BY <1>1 DEF Coinbase!to_time_t
<1> HIDE DEF type, action, time, price, size
<1>9. CoinbaseReads(j) = Description(time, j.id, type, j.product_id, action, price, size)
  BY CoinbaseOrdersAre, Zenon DEF CoinbaseReads, type, action, time, price, size, paid
<1>10. Named(o.pair) = Name(o.pair, "-")
  <2>1. (CASE kind = "coinbase" -> "-" [] kind = "digifinex" -> "_" [] OTHER -> "") = "-"
    OBVIOUS
  <2> QED BY <2>1, Zenon DEF Named
<1> DEFINE d == CoinbaseReads(j)
<1>11. /\ d.time = time /\ d.id = j.id /\ d.type = type /\ d.pair_name = j.product_id /\ d.action = action
       /\ d.price = price /\ d.volume = size
  BY <1>9 DEF Description
<1> HIDE DEF d
<1>12. OrderIsRead(d, o)
  BY <1>1, <1>4, <1>5, <1>6, <1>7, <1>8, <1>10, <1>11 DEF OrderIsRead
<1> QED BY <1>12 DEF d, j

\* get_open_orders and get_closed_orders read Coinbase's orders in that state.
LEMMA CoinbaseOrdersListed ==
  ASSUME NEW m, IsExchange(m), HoldsOnly(m, "coinbase"), NEW c, kind = "coinbase", NEW r, r = Coinbase!Ask(c),
         NEW state, \/ c.op = "get_open_orders" /\ state = "open"
                    \/ c.op = "get_closed_orders" /\ state = "closed"
  PROVE  \E v : CoinbaseAnswers(m, c, r, v) /\ SameOrders(v, InState(m, {state}))
<1> DEFINE s == InState(m, {state})
           status == IF state = "open" THEN "open" ELSE "done"
           q == [status |-> status]
           a == [i \in DOMAIN s |-> Coinbase!OrderJson(s[i])]
           v == [i \in DOMAIN a |-> CoinbaseReads(a[i])]
<1>1. r = Coinbase!Private("GET", <<"orders">>, q, Coinbase!None)
  <2>1. CASE c.op = "get_open_orders"
    BY <2>1, Zenon DEF Coinbase!Ask
  <2>2. CASE c.op = "get_closed_orders"
    BY <2>2, Zenon DEF Coinbase!Ask
  <2> QED BY <2>1, <2>2
<1>2. q.status = status
  OBVIOUS
<1> HIDE DEF q
<1>3. CoinbaseList(m, r, "orders", q)
  BY <1>1, CoinbaseLists
<1>4. Coinbase!Body(m, r) = [array |-> Coinbase!Each(Coinbase!InState(m, {IF q.status = "open" THEN "open" ELSE "closed"}),
                                                     Coinbase!OrderJson)]
  BY <1>3, Zenon DEF Coinbase!Body, CoinbaseGets, CoinbaseList
<1>5. (IF q.status = "open" THEN "open" ELSE "closed") = state
  BY <1>2
<1>6. Coinbase!Body(m, r) = [array |-> a]
  BY <1>4, <1>5, CoinbaseShares, Zenon DEF Coinbase!Each
<1> HIDE DEF a
<1> DEFINE j == Coinbase!Body(m, r)
<1>7. "message" \notin DOMAIN j /\ j.array = a
  BY <1>6
<1> HIDE DEF j
<1>8. Coinbase!Read(c, j) = Coinbase!Success(v)
  <2>1. Coinbase!Read(c, j) = Coinbase!Success(Coinbase!read_orders(j))
    BY <1>7, Zenon DEF Coinbase!Read
  <2>2. Coinbase!read_orders(j) = v
    BY <1>7, Zenon DEF Coinbase!read_orders, Coinbase!Each, CoinbaseReads
  <2> QED BY <2>1, <2>2
<1>9. s \in Seq({o \in Orders : IsHeld("coinbase", o)})
  BY HeldInState
<1> HIDE DEF s
<1>10. DOMAIN a = DOMAIN s /\ \A i \in DOMAIN s : a[i] = Coinbase!OrderJson(s[i]) /\ s[i] \in Orders /\ IsHeld("coinbase", s[i])
  BY <1>9 DEF a
<1>11. \A i \in DOMAIN s : OrderIsRead(v[i], s[i])
  BY <1>10, CoinbaseOrderIsRead
<1>12. v = [i \in DOMAIN s |-> v[i]]
  BY <1>10
<1> HIDE DEF v
<1>13. s \in Seq(Orders)
  BY <1>9
<1>14. SameOrders(v, s)
  BY <1>11, <1>12, <1>13, OrdersAreRead
<1>15. CoinbaseAnswers(m, c, r, v)
  BY <1>3, <1>8, CoinbaseShares DEF CoinbaseAnswers, CoinbaseGets, CoinbaseList, j
<1> QED BY <1>14, <1>15 DEF s

\* cancel_order cancels the order at Coinbase, and reads so.
LEMMA CoinbaseCancels ==
  ASSUME NEW m, NEW c, c.op = "cancel_order", NEW r, r = Coinbase!Ask(c)
  PROVE  /\ r.is = "http" /\ Coinbase!Effect(m, r) = Cancel(m, c.id)
         /\ IsOpen(m, c.id) => ~ Coinbase!Refuses(m, r)
         /\ Coinbase!Read(c, Coinbase!Body(m, r)) = Success("void")
<1> DEFINE id == c.id
<1>1. r = Coinbase!Private("DELETE", <<"orders", id>>, Coinbase!None, Coinbase!None)
  BY Zenon DEF Coinbase!Ask
<1> HIDE DEF id
<1>2. /\ r.is = "http" /\ r.verb = "DELETE" /\ r.path = <<"orders", id>>
      /\ r.sign = <<r.verb, r.path, r.query, r.content>>
  BY <1>1 DEF Coinbase!Private, Coinbase!Http
<1>3. r.path[1] = "orders" /\ r.path[2] = id /\ Len(r.path) = 2
  BY <1>2
<1>4. Coinbase!Effect(m, r) = Cancel(m, id)
  <2>1. Coinbase!Effect(m, r) = Coinbase!Cancel(m, r.path[2])
    BY <1>2, Zenon DEF Coinbase!Effect
  <2> QED BY <2>1, <1>3, CoinbaseOrdersAre
<1>5. ASSUME IsOpen(m, id) PROVE ~ Coinbase!Refuses(m, r)
  <2>1. Coinbase!IsOpen(m, r.path[2])
    BY <1>3, <1>5, CoinbaseShares
  <2>2. r.path[1] # "products" /\ r.verb # "POST"
    BY <1>2, <1>3
  <2> QED BY <1>2, <2>1, <2>2, Zenon DEF Coinbase!Refuses
<1> DEFINE j == Coinbase!Body(m, r)
<1>6. j = [array |-> <<r.path[2]>>]
  <2>1. Len(r.path) # 3 /\ \A n : r.path # <<n>>
    BY <1>2, <1>3
  <2> QED BY <1>2, <2>1, Zenon DEF Coinbase!Body
<1>7. "message" \notin DOMAIN j
  BY <1>6
<1> HIDE DEF j
<1>8. Coinbase!Read(c, j) = Coinbase!Success("void")
  BY <1>7, Zenon DEF Coinbase!Read
<1> QED BY <1>2, <1>4, <1>5, <1>8, CoinbaseShares DEF j, id

\* Coinbase's own error is read as a failure.
LEMMA CoinbaseError == \A c : Coinbase!Read(c, Coinbase!Error) = Fail
<1>1. "message" \in DOMAIN Coinbase!Error
  BY DEF Coinbase!Error
<1> QED BY <1>1, CoinbaseShares, Zenon DEF Coinbase!Read

\* The members of an order that the client sends.
LEMMA CoinbaseContent ==
  ASSUME NEW a
  PROVE  LET q == Coinbase!OrderContent(a)
         IN  /\ q.side = (IF a.action = "BUY" THEN "buy" ELSE "sell") /\ q.product_id = Name(a.pair, "-")
             /\ q.size = Text(Get(a, "VOLUME")) /\ q.type = Coinbase!to_order_type_str(a.type)
             /\ a.type # "MARKET" => q.price = Text(Get(a, "ASSET_PRICE"))
<1> DEFINE product == Name(a.pair, "-")
           side == IF a.action = "BUY" THEN "buy" ELSE "sell"
           size == Text(Get(a, "VOLUME"))
           type == Coinbase!to_order_type_str(a.type)
           price == Text(Get(a, "ASSET_PRICE"))
           all == [side |-> side, product_id |-> product, size |-> size, type |-> type, price |-> price]
           more == IF a.type # "MARKET" THEN {"price"} ELSE {}
           S == {"side", "product_id", "size", "type"} \cup more
           q == Coinbase!OrderContent(a)
<1>1. q = Coinbase!Restrict(all, S)
  BY CoinbaseShares, CoinbaseOrdersAre, Zenon DEF Coinbase!OrderContent, Coinbase!Named
<1> HIDE DEF product, side, size, type, price
<1>2. q = [k \in S |-> all[k]]
  BY <1>1, Zenon DEF Coinbase!Restrict
<1>3. all.side = side /\ all.product_id = product /\ all.size = size /\ all.type = type /\ all.price = price
  OBVIOUS
<1> HIDE DEF all, q
<1>4. q.side = side /\ q.product_id = product /\ q.size = size /\ q.type = type
  BY <1>2, <1>3
<1>5. a.type # "MARKET" => q.price = price
  BY <1>2, <1>3
<1> QED BY <1>4, <1>5 DEF product, side, size, type, price, q

\* add_order enters at Coinbase the order that was asked for, and reads its id.
LEMMA CoinbaseAdds ==
  ASSUME NEW m, IsExchange(m), NEW c, c.op = "add_order", kind = "coinbase", IsOrderRequest(c.order),
         c.order.type # "TRAILING_STOP_LOSS", NEW F, NEW price, NEW r, r = Coinbase!Ask(c)
  PROVE  AddsTo(m, c, price, F, r.is, Coinbase!Refuses(m, r), Coinbase!Effect(m, r), Coinbase!Read(c, Coinbase!Body(m, r)))
<1> DEFINE a == c.order
           q == Coinbase!OrderContent(a)
           n == Get(a, "VOLUME")
           limit == Get(a, "ASSET_PRICE")
           now == m.price[a.pair]
           x == IF a.type = "MARKET" THEN now ELSE limit
           o == Order(a.type, a.pair, a.action, x, n, 0, 0)
<1>0. /\ a.type \in {"LIMIT", "MARKET", "STOP_LOSS", "TAKE_PROFIT"} /\ a.pair \in Pairs /\ a.action \in {"BUY", "SELL"}
      /\ now \in Nat /\ now > 0 /\ n \in Nat \ {0} /\ limit \in Nat
  <2>1. /\ a.type \in OrderTypes /\ a.pair \in Pairs /\ a.action \in {"BUY", "SELL"} /\ limit \in Nat
    BY GetIs DEF IsOrderRequest, Actions
  <2>2. now \in Nat /\ now > 0
    BY <2>1 DEF IsExchange
  <2>3. n \in Nat \ {0}
    <3>1. /\ a.parameters \in [ParametersOf(a.type) -> Nat] /\ "VOLUME" \in ParametersOf(a.type)
          /\ a.parameters["VOLUME"] # 0
      BY DEF IsOrderRequest, ParametersOf
    <3> HIDE DEF a
    <3> QED BY <3>1 DEF Get
  <2> QED BY <2>1, <2>2, <2>3 DEF OrderTypes
<1>1. r = Coinbase!Private("POST", <<"orders">>, Coinbase!None, q)
  <2>1. ~ (c.order.type = "TRAILING_STOP_LOSS")
    OBVIOUS
  <2> QED BY <2>1, Zenon DEF Coinbase!Ask
<1>2. /\ q.side = (IF a.action = "BUY" THEN "buy" ELSE "sell") /\ q.product_id = Name(a.pair, "-")
      /\ q.size = Text(n) /\ q.type = Coinbase!to_order_type_str(a.type)
      /\ a.type # "MARKET" => q.price = Text(limit)
  BY CoinbaseContent, Zenon
<1>3. IsName(q.product_id, "-") /\ PairNamed(q.product_id, "-") = a.pair
  <2>1. IsName(Name(a.pair, "-"), "-") /\ PairNamed(Name(a.pair, "-"), "-") = a.pair
    BY <1>0, NameOfAPair
  <2> HIDE DEF q, a
  <2> QED BY <1>2, <2>1
<1> HIDE DEF q
<1>4. /\ r.is = "http" /\ r.verb = "POST" /\ r.content = q /\ r.path = <<"orders">>
      /\ r.sign = <<r.verb, r.path, r.query, r.content>>
  BY <1>1 DEF Coinbase!Private, Coinbase!Http
<1>5. Coinbase!OrderIn(m, q) = o
  <2> DEFINE action == IF q.side = "buy" THEN "BUY" ELSE "SELL"
             p == Coinbase!PairNamed(q.product_id, "-")
             w == Coinbase!Stod(q.size)
             z == Coinbase!Stod(q.price)
             other == IF q.type = "loss" THEN "STOP_LOSS" ELSE "TAKE_PROFIT"
  <2>1. Coinbase!OrderIn(m, q) =
          CASE q.type = "market" -> Coinbase!AtMarket(m, p, action, w)
            [] q.type = "limit" -> Coinbase!Order("LIMIT", p, action, z, w, 0, 0)
            [] OTHER -> Coinbase!Order(other, p, action, z, w, 0, 0)
    BY DEF Coinbase!OrderIn
  <2>2. action = a.action /\ p = a.pair /\ w = n /\ (a.type # "MARKET" => z = limit)
    <3>1. action = a.action
      BY <1>0, <1>2
    <3>2. p = a.pair
      BY <1>3, CoinbaseShares
    <3>3. w = n /\ (a.type # "MARKET" => z = limit)
      BY <1>2, CoinbaseShares, TextIsRead
    <3> QED BY <3>1, <3>2, <3>3
  <2>3. q.type = IF a.type = "LIMIT" THEN "limit" ELSE IF a.type = "MARKET" THEN "market"
                 ELSE IF a.type = "STOP_LOSS" THEN "loss" ELSE "entry"
    BY <1>0, <1>2 DEF Coinbase!to_order_type_str
  <2>o. other = a.type \/ a.type \in {"MARKET", "LIMIT"}
    BY <1>0, <2>3
  <2> HIDE DEF action, p, w, z, other
  <2>4. CASE a.type = "MARKET"
    <3>1. q.type = "market"
      BY <2>3, <2>4
    <3>2. Coinbase!OrderIn(m, q) = Coinbase!AtMarket(m, p, action, w)
      BY <2>1, <3>1, Zenon
    <3>3. Coinbase!OrderIn(m, q) = AtMarket(m, a.pair, a.action, n)
      BY <2>2, <3>2, CoinbaseOrdersAre
    <3>4. x = m.price[a.pair]
      BY <2>4
    <3> HIDE DEF x, n
    <3> QED BY <2>4, <3>3, <3>4 DEF AtMarket
  <2>5. CASE a.type = "LIMIT"
    <3>1. q.type = "limit" /\ ~ (q.type = "market")
      BY <2>3, <2>5
    <3>2. Coinbase!OrderIn(m, q) = Coinbase!Order("LIMIT", p, action, z, w, 0, 0)
      BY <2>1, <3>1, Zenon
    <3>3. x = limit /\ z = limit
      BY <2>2, <2>5
    <3> HIDE DEF x, n, limit
    <3>4. Coinbase!OrderIn(m, q) = Order("LIMIT", a.pair, a.action, x, n, 0, 0)
      BY <2>2, <3>2, <3>3, CoinbaseOrdersAre
    <3> QED BY <2>5, <3>4
  <2>6. CASE a.type \notin {"MARKET", "LIMIT"}
    <3>1. ~ (q.type = "limit") /\ ~ (q.type = "market")
      BY <1>0, <2>3, <2>6
    <3>2. Coinbase!OrderIn(m, q) = Coinbase!Order(other, p, action, z, w, 0, 0)
      BY <2>1, <3>1, Zenon
    <3>3. x = limit /\ z = limit /\ other = a.type
      BY <2>2, <2>6, <2>o
    <3> HIDE DEF x, n, limit
    <3>4. Coinbase!OrderIn(m, q) = Order(a.type, a.pair, a.action, x, n, 0, 0)
      BY <2>2, <3>2, <3>3, CoinbaseOrdersAre
    <3> QED BY <3>4
  <2> QED BY <2>4, <2>5, <2>6
<1>6. Coinbase!Effect(m, r) = Enter(m, o)
  <2> HIDE DEF o
  <2>1. Coinbase!Effect(m, r) = Coinbase!Enter(m, Coinbase!OrderIn(m, q))
    BY <1>4, Zenon DEF Coinbase!Effect
  <2> QED BY <2>1, <1>5, CoinbaseOrdersAre
<1>7. ~ Coinbase!Refuses(m, r)
  <2>1. Coinbase!IsName(r.content.product_id, "-")
    BY <1>3, <1>4, CoinbaseShares
  <2>2. r.path[1] # "products" /\ r.verb # "DELETE"
    BY <1>4
  <2> QED BY <1>4, <2>1, <2>2, Zenon DEF Coinbase!Refuses
<1> DEFINE j == Coinbase!Body(m, r)
<1>8. "message" \notin DOMAIN j /\ j.id = Text(NextId(m))
  <2>1. Len(r.path) # 3 /\ \A n1 : r.path = <<n1>> => n1 = "orders"
    BY <1>4, CoinbasePaths
  <2>2. j = [id |-> Coinbase!Text(Coinbase!NextId(m))]
    BY <1>4, <2>1, Zenon DEF Coinbase!Body
  <2> HIDE DEF j
  <2> QED BY <2>2, CoinbaseShares, CoinbaseOrdersAre
<1> HIDE DEF j
<1>9. Coinbase!Read(c, j) = Success(Text(NextId(m)))
  <2>1. Coinbase!Read(c, j) = Coinbase!Success(j.id)
    BY <1>8, Zenon DEF Coinbase!Read
  <2> QED BY <1>8, <2>1, CoinbaseShares
<1>10. /\ o.type = a.type /\ o.pair = a.pair /\ o.action = a.action /\ o.price = x /\ o.volume = n
       /\ o.stop = 0 /\ o.delta = 0
  BY DEF Order
<1>11. o = Order(o.type, o.pair, o.action, o.price, o.volume, o.stop, o.delta)
  BY <1>10, Zenon DEF o
<1>12. x \in Nat /\ (a.type = "MARKET" => x > 0) /\ (a.type # "MARKET" => x = limit)
  BY <1>0
<1> HIDE DEF o, x, n, limit, now
<1>13. IsNew(kind, o)
  <2>1. TypesHeld("coinbase") = OrderTypes \ {"TRAILING_STOP_LOSS"}
    BY Zenon DEF TypesHeld
  <2>2. o.type \in OrderTypes /\ o.action \in Actions
    BY <1>0, <1>10 DEF OrderTypes, Actions
  <2>3. IsHeld(kind, o)
    BY <1>0, <1>10, <1>12, <2>1, <2>2 DEF IsHeld
  <2>4. o.pair \in Pairs /\ o.price \in Nat /\ o.volume \in Nat /\ o.stop \in Nat /\ o.delta \in Nat
    BY <1>0, <1>10, <1>12
  <2> QED BY <1>11, <2>2, <2>3, <2>4, Zenon DEF IsNew
<1>14. EnteredAs(o, c, price, F)
  <2>1. kind # "binance" /\ kind # "bybit"
    OBVIOUS
  <2>2. a.type # "MARKET" => o.price = limit
    BY <1>10, <1>12
  <2> QED BY <1>10, <2>1, <2>2, Zenon DEF EnteredAs, n, limit
<1> QED BY <1>4, <1>6, <1>7, <1>9, <1>13, <1>14, Zenon DEF AddsTo, j

-----------------------------------------------------------------------------
(* Digifinex. *)
DigifinexAnswers(m, c, r, v) ==
  /\ r.is = "http" /\ ~ Digifinex!Refuses(m, r) /\ Digifinex!Effect(m, r) = m
  /\ Digifinex!Read(c, Digifinex!Body(m, r)) = Success(v)

\* The paths of the API.
DigifinexTop(r, name) ==
  /\ r.path = <<name>> /\ \A n : r.path = <<n>> => n = name
  /\ \A a, b : r.path # <<a, b>>
  /\ \A a, b, d : r.path # <<a, b, d>>
DigifinexSpot(r, name) ==
  /\ r.path = <<"spot", name>> /\ \A n : r.path # <<n>>
  /\ \A n : r.path = <<"spot", n>> => n = name
  /\ \A a, b, d : r.path # <<a, b, d>>
DigifinexOrder(r, name) ==
  /\ r.path = <<"spot", "order", name>> /\ \A n : r.path # <<n>>
  /\ \A a, b : r.path # <<a, b>>
  /\ \A n : r.path = <<"spot", "order", n>> => n = name

\* The paths of Digifinex's requests tell them apart.
LEMMA DigifinexPaths ==
  /\ \A r, name : r.path = <<name>> => DigifinexTop(r, name) /\ r.path[1] = name
  /\ \A r, name : r.path = <<"spot", name>> => DigifinexSpot(r, name)
  /\ \A r, name : r.path = <<"spot", "order", name>> => DigifinexOrder(r, name)
<1>3. ASSUME NEW r, NEW name, r.path = <<name>> PROVE DigifinexTop(r, name) /\ r.path[1] = name
  <2> DEFINE p == r.path
  <2>1. p = <<name>>
    BY <1>3
  <2> HIDE DEF p
  <2>2. (\A n : p = <<n>> => n = name) /\ (\A a, b : p # <<a, b>>) /\ (\A a, b, d : p # <<a, b, d>>) /\ p[1] = name
    BY <2>1
  <2> QED BY <2>1, <2>2 DEF DigifinexTop, p
<1>4. ASSUME NEW r, NEW name, r.path = <<"spot", name>> PROVE DigifinexSpot(r, name)
  <2> DEFINE p == r.path
  <2>1. p = <<"spot", name>>
    BY <1>4
  <2> HIDE DEF p
  <2>2. (\A n : p # <<n>>) /\ (\A n : p = <<"spot", n>> => n = name) /\ (\A a, b, d : p # <<a, b, d>>)
    BY <2>1
  <2> QED BY <2>1, <2>2 DEF DigifinexSpot, p
<1>5. ASSUME NEW r, NEW name, r.path = <<"spot", "order", name>> PROVE DigifinexOrder(r, name)
  <2> DEFINE p == r.path
  <2>1. p = <<"spot", "order", name>>
    BY <1>5
  <2> HIDE DEF p
  <2>2. (\A n : p # <<n>>) /\ (\A a, b : p # <<a, b>>) /\ (\A n : p = <<"spot", "order", n>> => n = name)
    BY <2>1
  <2> QED BY <2>1, <2>2 DEF DigifinexOrder, p
<1> QED BY <1>3, <1>4, <1>5

\* A request without a query names no market.
LEMMA DigifinexNone == "symbol" \notin DOMAIN Digifinex!None
BY DEF Digifinex!None

\* Queries that are not refused.
DigifinexGets(m, r, query) ==
  /\ r.is = "http" /\ r.verb = "GET" /\ r.query = query /\ ~ Digifinex!IsCancel(r)
  /\ ~ Digifinex!Refuses(m, r) /\ Digifinex!Effect(m, r) = m

\* What makes a request one of Digifinex's that only reads.
LEMMA DigifinexGetsFrom ==
  ASSUME NEW m, NEW r, NEW query, r.is = "http" /\ r.verb = "GET" /\ r.query = query,
         r.path # <<"spot", "order", "cancel">>,
         r.path[1] # "spot" \/ r.path = <<"spot", "symbols">> \/ r.sign = query,
         "symbol" \in DOMAIN query => IsName(query.symbol, "_")
  PROVE  DigifinexGets(m, r, query)
<1>1. ~ Digifinex!IsCancel(r)
  BY DEF Digifinex!IsCancel
<1>2. "symbol" \in DOMAIN r.query => Digifinex!IsName(r.query.symbol, "_")
  BY DigifinexShares
<1>3. ~ Digifinex!Refuses(m, r)
  BY <1>1, <1>2, Zenon DEF Digifinex!Refuses
<1>4. Digifinex!Effect(m, r) = m
  <2>1. r.verb # "POST"
    OBVIOUS
  <2> QED BY <1>1, <2>1, Zenon DEF Digifinex!Effect
<1> QED BY <1>1, <1>3, <1>4 DEF DigifinexGets

\* A public request of Digifinex only reads.
LEMMA DigifinexPublic ==
  ASSUME NEW m, NEW name, name # "spot", NEW query, "symbol" \in DOMAIN query => IsName(query.symbol, "_"),
         NEW r, r = Digifinex!PublicGet(<<name>>, query)
  PROVE  DigifinexGets(m, r, query) /\ DigifinexTop(r, name)
<1>1. r.is = "http" /\ r.verb = "GET" /\ r.path = <<name>> /\ r.query = query
  BY DEF Digifinex!PublicGet, Digifinex!Http
<1>2. DigifinexTop(r, name) /\ r.path[1] = name
  BY <1>1, DigifinexPaths
<1>3. r.path # <<"spot", "order", "cancel">>
  BY <1>2, Zenon DEF DigifinexTop
<1>4. DigifinexGets(m, r, query)
  BY <1>1, <1>2, <1>3, DigifinexGetsFrom
<1> QED BY <1>2, <1>4

\* A private request of Digifinex that only reads.
LEMMA DigifinexPrivate ==
  ASSUME NEW m, NEW path, path # <<"spot", "order", "cancel">>,
         NEW r, r = Digifinex!Private("GET", path, Digifinex!None)
  PROVE  DigifinexGets(m, r, Digifinex!None) /\ r.path = path
<1>1. r.is = "http" /\ r.verb = "GET" /\ r.path = path /\ r.query = Digifinex!None /\ r.sign = Digifinex!None
  BY DEF Digifinex!Private, Digifinex!Http
<1>2. DigifinexGets(m, r, Digifinex!None)
  BY <1>1, DigifinexNone, DigifinexGetsFrom
<1> QED BY <1>1, <1>2

\* get_status reads what Digifinex answers.
LEMMA DigifinexStatus ==
  ASSUME NEW m, NEW c, c.op = "get_status", NEW price, NEW r, r = Digifinex!Ask(c, price)
  PROVE  DigifinexAnswers(m, c, r, "ONLINE")
<1>1. r = Digifinex!PublicGet(<<"ping">>, Digifinex!None)
  BY Zenon DEF Digifinex!Ask
<1>2. DigifinexGets(m, r, Digifinex!None) /\ DigifinexTop(r, "ping")
  BY <1>1, DigifinexNone, DigifinexPublic
<1> DEFINE j == Digifinex!Body(m, r)
<1>3. j = [code |-> 0, msg |-> "pong"]
  BY <1>2, Zenon DEF Digifinex!Body, DigifinexGets, DigifinexTop
<1> HIDE DEF j
<1>4. ~ (j.code # 0)
  BY <1>3
<1>5. Digifinex!Read(c, j) = Digifinex!Success("ONLINE")
  BY <1>4, Zenon DEF Digifinex!Read
<1> QED BY <1>2, <1>5, DigifinexShares DEF DigifinexAnswers, DigifinexGets, j

\* get_price reads the price that Digifinex knows.
LEMMA DigifinexPrice ==
  ASSUME NEW m, NEW c, c.op = "get_price", c.pair \in Pairs, NEW price, NEW r, r = Digifinex!Ask(c, price)
  PROVE  DigifinexAnswers(m, c, r, m.price[c.pair])
<1> DEFINE q == [symbol |-> Digifinex!Name(c.pair, "_")]
<1>1. r = Digifinex!PublicGet(<<"ticker">>, q)
  BY Zenon DEF Digifinex!Ask, Digifinex!Named
<1>2. IsName(q.symbol, "_") /\ PairNamed(q.symbol, "_") = c.pair
  BY DigifinexShares, NameOfAPair
<1> HIDE DEF q
<1>3. DigifinexGets(m, r, q) /\ DigifinexTop(r, "ticker")
  BY <1>1, <1>2, DigifinexPublic
<1> DEFINE j == Digifinex!Body(m, r)
           x == m.price[Digifinex!PairNamed(q.symbol, "_")]
<1>4. j = [code |-> 0, ticker |-> <<[last |-> x]>>]
  BY <1>3, Zenon DEF Digifinex!Body, DigifinexGets, DigifinexTop
<1> HIDE DEF j, x
<1>5. ~ (j.code # 0) /\ j.ticker[1].last = x
  BY <1>4
<1>6. Digifinex!Read(c, j) = Digifinex!Success(j.ticker[1].last)
  BY <1>5, Zenon DEF Digifinex!Read, Digifinex!read_price
<1>7. x = m.price[c.pair]
  BY <1>2, DigifinexShares DEF x
<1> QED BY <1>3, <1>5, <1>6, <1>7, DigifinexShares DEF DigifinexAnswers, DigifinexGets, j

\* get_tradable_pairs reads the pairs that Digifinex lists.
LEMMA DigifinexPairsAre ==
  ASSUME NEW m, NEW c, c.op = "get_tradable_pairs", NEW price, NEW r, r = Digifinex!Ask(c, price)
  PROVE  DigifinexAnswers(m, c, r, Pairs)
<1> DEFINE l == SetToSeq(Pairs)
           P(s) == [asset |-> s.base_asset, price_unit |-> s.quote_asset]
           S(p) == [base_asset |-> p.asset, quote_asset |-> p.price_unit]
           a == [i \in DOMAIN l |-> S(l[i])]
           v == {P(s) : s \in ToSet(a)}
<1>1. r = Digifinex!PublicGet(<<"spot", "symbols">>, Digifinex!None)
  BY Zenon DEF Digifinex!Ask
<1>2. DigifinexGets(m, r, Digifinex!None) /\ DigifinexSpot(r, "symbols")
  <2>1. r.is = "http" /\ r.verb = "GET" /\ r.path = <<"spot", "symbols">> /\ r.query = Digifinex!None
    BY <1>1 DEF Digifinex!PublicGet, Digifinex!Http
  <2>2. DigifinexSpot(r, "symbols")
    BY <2>1, DigifinexPaths
  <2>3. r.path # <<"spot", "order", "cancel">>
    BY <2>2, Zenon DEF DigifinexSpot
  <2> QED BY <2>1, <2>2, <2>3, DigifinexNone, DigifinexGetsFrom
<1>3. Digifinex!Body(m, r) = [code |-> 0, symbol_list |-> Digifinex!Each(Digifinex!SetToSeq(Pairs), LAMBDA p :
                                 [base_asset |-> p.asset, quote_asset |-> p.price_unit])]
  BY <1>2, Zenon DEF Digifinex!Body, DigifinexGets, DigifinexSpot
<1>4. Digifinex!Each(Digifinex!SetToSeq(Pairs), LAMBDA p : [base_asset |-> p.asset, quote_asset |-> p.price_unit]) = a
  BY DigifinexShares, Zenon DEF Digifinex!Each
<1>5. \A p \in Pairs : P(S(p)) = p
  BY FiltersAssumption
<1> HIDE DEF a
<1> DEFINE j == Digifinex!Body(m, r)
<1>6. ~ (j.code # 0) /\ j.symbol_list = a
  <2>1. j = [code |-> 0, symbol_list |-> a]
    BY <1>3, <1>4, Zenon
  <2> HIDE DEF j
  <2> QED BY <2>1
<1> HIDE DEF j
<1>7. Digifinex!Read(c, j) = Digifinex!Success(Digifinex!read_tradable_pairs(j))
  BY <1>6, Zenon DEF Digifinex!Read
<1>8. Digifinex!read_tradable_pairs(j) = v
  BY <1>6, DigifinexShares DEF Digifinex!read_tradable_pairs
<1> HIDE DEF P, S
<1>9. /\ \A i \in DOMAIN l : l[i] \in Pairs
      /\ \A x \in Pairs : \E i \in DOMAIN l : l[i] = x
  BY FiltersAssumption, ListOfASet
<1>10. DOMAIN a = DOMAIN l /\ \A i \in DOMAIN l : a[i] = S(l[i])
  BY DEF a
<1> HIDE DEF l
<1>11. v = Pairs
  <2>1. ASSUME NEW x \in Pairs PROVE x \in v
    <3>1. PICK i \in DOMAIN l : l[i] = x
      BY <1>9
    <3>2. S(x) \in ToSet(a)
      BY <1>10, <3>1 DEF ToSet
    <3> QED BY <3>2, <1>5
  <2>2. ASSUME NEW s \in ToSet(a) PROVE P(s) \in Pairs
    <3>1. PICK i \in DOMAIN a : a[i] = s
      BY DEF ToSet
    <3> QED BY <1>5, <1>9, <1>10, <3>1
  <2> QED BY <2>1, <2>2
<1> QED BY <1>2, <1>7, <1>8, <1>11, DigifinexShares DEF DigifinexAnswers, DigifinexGets, j

\* get_balances reads the balances that Digifinex knows.
LEMMA DigifinexBalances ==
  ASSUME NEW m, IsExchange(m), NEW c, c.op = "get_balances", NEW price, NEW r, r = Digifinex!Ask(c, price)
  PROVE  DigifinexAnswers(m, c, r, m.balances)
<1> DEFINE A == DOMAIN m.balances
           l == SetToSeq(A)
           a == [i \in DOMAIN l |-> [currency |-> l[i], free |-> m.balances[l[i]]]]
           e(k) == CHOOSE i \in DOMAIN a : a[i].currency = k
           v == [k \in {a[i].currency : i \in DOMAIN a} |-> a[e(k)].free]
<1>1. r = Digifinex!Private("GET", <<"spot", "assets">>, Digifinex!None)
  BY Zenon DEF Digifinex!Ask
<1>2. DigifinexGets(m, r, Digifinex!None) /\ DigifinexSpot(r, "assets")
  <2>1. <<"spot", "assets">> # <<"spot", "order", "cancel">>
    OBVIOUS
  <2> QED BY <1>1, <2>1, DigifinexPrivate, DigifinexPaths
<1>3. Digifinex!Body(m, r) = [code |-> 0, list |-> Digifinex!Each(Digifinex!SetToSeq(DOMAIN m.balances), LAMBDA x :
                              [currency |-> x, free |-> m.balances[x]])]
  BY <1>2, Zenon DEF Digifinex!Body, DigifinexGets, DigifinexSpot
<1>4. Digifinex!Each(Digifinex!SetToSeq(DOMAIN m.balances), LAMBDA x : [currency |-> x, free |-> m.balances[x]]) = a
  BY DigifinexShares, Zenon DEF Digifinex!Each
<1> HIDE DEF a
<1> DEFINE j == Digifinex!Body(m, r)
<1>5. ~ (j.code # 0) /\ j.list = a
  <2>1. j = [code |-> 0, list |-> a]
    BY <1>3, <1>4, Zenon
  <2> HIDE DEF j
  <2> QED BY <2>1
<1> HIDE DEF j
<1>6. Digifinex!Read(c, j) = Digifinex!Success(Digifinex!read_balances(j))
  BY <1>5, Zenon DEF Digifinex!Read
<1>7. Digifinex!read_balances(j) = v
  BY <1>5 DEF Digifinex!read_balances, Digifinex!ByKey
<1>8. IsFiniteSet(A) /\ m.balances = [k \in A |-> m.balances[k]]
  BY DEF IsExchange
<1>9. /\ \A i \in DOMAIN l : l[i] \in A
      /\ \A x \in A : \E i \in DOMAIN l : l[i] = x
  BY <1>8, ListOfASet
<1>10. DOMAIN a = DOMAIN l /\ \A i \in DOMAIN l : a[i].currency = l[i] /\ a[i].free = m.balances[l[i]]
  BY DEF a
<1> HIDE DEF l, A
<1>11. {a[i].currency : i \in DOMAIN a} = A
  <2>1. ASSUME NEW x \in A PROVE \E i \in DOMAIN a : a[i].currency = x
    BY <1>9, <1>10
  <2>2. \A i \in DOMAIN a : a[i].currency \in A
    BY <1>9, <1>10
  <2> QED BY <2>1, <2>2
<1>12. ASSUME NEW k \in A
       PROVE  a[e(k)].free = m.balances[k]
  <2>1. \E i \in DOMAIN a : a[i].currency = k
    BY <1>9, <1>10
  <2>2. e(k) \in DOMAIN a /\ a[e(k)].currency = k
    BY <2>1, Zenon
  <2> HIDE DEF e
  <2> QED BY <2>2, <1>10
<1> HIDE DEF e
<1>13. v = m.balances
  BY <1>8, <1>11, <1>12, Zenon
<1> QED BY <1>2, <1>6, <1>7, <1>13, DigifinexShares DEF DigifinexAnswers, DigifinexGets, j

\* All of an array is its first elements, when it has no more.
LEMMA AllOfArray ==
  ASSUME NEW S, NEW s \in Seq(S), NEW n \in Nat, Len(s) <= n
  PROVE  First(s, n) = s /\ Newest(s, n) = Reverse(s)
<1>1. Least(n, Len(s)) = Len(s)
  BY DEF Least
<1>2. First(s, n) \in Seq(S) /\ Len(First(s, n)) = Len(s) /\ \A i \in 1 .. Len(s) : First(s, n)[i] = s[i]
  BY <1>1, FirstOfArray
<1>3. First(s, n) = s
  BY <1>2, SeqEqual
<1> DEFINE t == Reverse(s)
<1>4. t \in Seq(S) /\ Len(t) = Len(s)
  BY ReversedArray
<1> HIDE DEF t
<1>5. First(t, n) \in Seq(S) /\ Len(First(t, n)) = Len(t) /\ \A i \in 1 .. Len(t) : First(t, n)[i] = t[i]
  <2>1. Least(n, Len(t)) = Len(t)
    BY <1>1, <1>4
  <2> QED BY <1>4, <2>1, FirstOfArray
<1>6. First(t, n) = t
  BY <1>4, <1>5, SeqEqual
<1> QED BY <1>3, <1>6 DEF Newest, t

DigifinexRow(k) == <<k.time, k.volume, k.close, k.high, k.low, k.open>>
DigifinexOfRow(w) == Candle(w[1], w[6], w[4], w[5], w[3], w[2])

\* Digifinex's rows of candles are read as the candles they were made of.
LEMMA DigifinexCandlesRead ==
  ASSUME NEW s \in Seq(Candles)
  PROVE  LET t == [i \in DOMAIN s |-> DigifinexRow(s[i])]
         IN  t \in Seq({DigifinexRow(k) : k \in Candles}) /\ Len(t) = Len(s) /\ [i \in DOMAIN t |-> DigifinexOfRow(t[i])] = s
<1> DEFINE t == [i \in DOMAIN s |-> DigifinexRow(s[i])]
           U == {DigifinexRow(k) : k \in Candles}
           y == [i \in DOMAIN t |-> DigifinexOfRow(t[i])]
<1>1. \A k \in Candles : DigifinexOfRow(DigifinexRow(k)) = k
  <2> TAKE k \in Candles
  <2> DEFINE w == DigifinexRow(k)
  <2>1. w[1] = k.time /\ w[2] = k.volume /\ w[3] = k.close /\ w[4] = k.high /\ w[5] = k.low /\ w[6] = k.open
    BY DEF DigifinexRow
  <2> HIDE DEF w
  <2>2. DigifinexOfRow(w) = Candle(k.time, k.open, k.high, k.low, k.close, k.volume)
    BY <2>1, Zenon DEF DigifinexOfRow
  <2>3. Candle(k.time, k.open, k.high, k.low, k.close, k.volume) = k
    BY DEF Candle, Candles
  <2> QED BY <2>2, <2>3 DEF w
<1>2. t \in Seq(U) /\ Len(t) = Len(s) /\ \A i \in 1 .. Len(s) : t[i] = DigifinexRow(s[i]) /\ s[i] \in Candles
  <2>1. \A i \in 1 .. Len(s) : DigifinexRow(s[i]) \in U
    OBVIOUS
  <2> HIDE DEF U
  <2> QED BY <2>1
<1> HIDE DEF t, U
<1>3. DOMAIN t = 1 .. Len(s) /\ Len(s) \in Nat
  BY <1>2
<1>4. y \in Seq(Candles) /\ Len(y) = Len(s) /\ \A i \in 1 .. Len(s) : y[i] = s[i]
  <2>1. \A i \in 1 .. Len(s) : DigifinexOfRow(t[i]) = s[i] /\ s[i] \in Candles
    BY <1>1, <1>2
  <2>2. y = [i \in 1 .. Len(s) |-> DigifinexOfRow(t[i])]
    BY <1>3
  <2> HIDE DEF y
  <2> QED BY <1>3, <2>1, <2>2
<1> HIDE DEF y
<1>5. y = s
  BY <1>4, SeqEqual
<1> QED BY <1>2, <1>5, Zenon DEF t, y, U

\* get_ohlcv reads the newest candles that Digifinex knows, the newest first.
LEMMA DigifinexCandlesAre ==
  ASSUME NEW m, IsExchange(m), NEW c, c.op = "get_ohlcv", c.pair \in Pairs, c.interval \in Intervals,
         c.count \in Nat, NEW price, NEW r, r = Digifinex!Ask(c, price)
  PROVE  \E v : /\ DigifinexAnswers(m, c, r, v)
                /\ \/ c.count < Len(m.candles[c.pair][c.interval])
                   \/ v = Newest(m.candles[c.pair][c.interval], c.count)
<1> DEFINE period == Digifinex!get_ohlcv_period(c.interval)
           q == [symbol |-> Digifinex!Name(c.pair, "_"), period |-> period]
           s == m.candles[c.pair][c.interval]
           t == [i \in DOMAIN s |-> DigifinexRow(s[i])]
           z == First(t, c.count)
           y == [i \in DOMAIN z |-> DigifinexOfRow(z[i])]
<1>1. r = Digifinex!PublicGet(<<"kline">>, q)
  BY Zenon DEF Digifinex!Ask, Digifinex!Named
<1>p. (IF period = <<1, "D">> THEN "1d" ELSE "1m") = c.interval
  <2>1. c.interval \in {"1m", "1d"}
    BY DEF Intervals
  <2>2. c.interval = "1m" => period[2] = ""
    BY DEF Digifinex!get_ohlcv_period
  <2>3. c.interval = "1d" => period = <<1, "D">>
    BY DEF Digifinex!get_ohlcv_period
  <2>4. \A x : x = <<1, "D">> => x[2] # ""
    OBVIOUS
  <2> HIDE DEF period
  <2> QED BY <2>1, <2>2, <2>3, <2>4
<1> HIDE DEF period
<1>2. IsName(q.symbol, "_") /\ PairNamed(q.symbol, "_") = c.pair /\ q.period = period
  BY DigifinexShares, NameOfAPair
<1> HIDE DEF q
<1>3. DigifinexGets(m, r, q) /\ DigifinexTop(r, "kline")
  BY <1>1, <1>2, DigifinexPublic
<1>4. Digifinex!Body(m, r) = [code |-> 0, data |->
        Digifinex!Each(m.candles[Digifinex!PairNamed(q.symbol, "_")][IF q.period = <<1, "D">> THEN "1d" ELSE "1m"], LAMBDA k :
          <<k.time, k.volume, k.close, k.high, k.low, k.open>>)]
  BY <1>3, Zenon DEF Digifinex!Body, DigifinexGets, DigifinexTop
<1>5. Digifinex!Each(s, LAMBDA k : <<k.time, k.volume, k.close, k.high, k.low, k.open>>) = t
  BY Zenon DEF Digifinex!Each, DigifinexRow
<1>6. Digifinex!PairNamed(q.symbol, "_") = c.pair /\ (IF q.period = <<1, "D">> THEN "1d" ELSE "1m") = c.interval
  BY <1>2, <1>p, DigifinexShares
<1> HIDE DEF t
<1>7. Digifinex!Body(m, r) = [code |-> 0, data |-> t]
  BY <1>4, <1>5, <1>6, Zenon
<1> DEFINE j == Digifinex!Body(m, r)
<1>8. ~ (j.code # 0) /\ j.data = t
  BY <1>7
<1> HIDE DEF j
<1>9. Digifinex!Read(c, j) = Digifinex!Success(Digifinex!read_ohlcv_data(j, c.count))
  BY <1>8, Zenon DEF Digifinex!Read
<1>10. Digifinex!read_ohlcv_data(j, c.count) = Reverse(y)
  <2> HIDE DEF z
  <2>1. Digifinex!First(j.data, c.count) = z
    BY <1>8, DigifinexShares, Zenon DEF z
  <2>2. Digifinex!read_ohlcv_data(j, c.count) =
          Digifinex!Reverse(Digifinex!Each(z, LAMBDA k : Digifinex!Candle(k[1], k[6], k[4], k[5], k[3], k[2])))
    BY <2>1, Zenon DEF Digifinex!read_ohlcv_data
  <2>3. Digifinex!Each(z, LAMBDA k : Digifinex!Candle(k[1], k[6], k[4], k[5], k[3], k[2])) = y
    BY Zenon DEF Digifinex!Each, Digifinex!Candle, Candle, DigifinexOfRow
  <2> HIDE DEF y
  <2> QED BY <2>2, <2>3, DigifinexShares
<1>11. s \in Seq(Candles)
  BY DEF IsExchange
<1>12. c.count < Len(s) \/ Reverse(y) = Newest(s, c.count)
  <2> SUFFICES ASSUME Len(s) <= c.count PROVE Reverse(y) = Newest(s, c.count)
    BY <1>11
  <2> HIDE DEF s
  <2>1. /\ t \in Seq({DigifinexRow(k) : k \in Candles}) /\ Len(t) = Len(s)
        /\ [i \in DOMAIN t |-> DigifinexOfRow(t[i])] = s
    BY <1>11, DigifinexCandlesRead, Zenon DEF t
  <2>2. z = t
    BY <2>1, AllOfArray
  <2>3. y = s
    BY <2>1, <2>2
  <2>4. Newest(s, c.count) = Reverse(s)
    BY <1>11, AllOfArray
  <2> QED BY <2>3, <2>4
<1>13. DigifinexAnswers(m, c, r, Reverse(y))
  <2> HIDE DEF y
  <2> QED BY <1>3, <1>9, <1>10, DigifinexShares DEF DigifinexAnswers, DigifinexGets, j
<1> QED BY <1>12, <1>13

\* Digifinex's levels are read as entries of that side.
LEMMA DigifinexLevels ==
  ASSUME NEW l \in Seq(Levels), NEW side
  PROVE  Digifinex!Each(Digifinex!Each(l, LAMBDA e : <<e.price, e.volume>>),
                        LAMBDA e : Digifinex!Entry(e[1], e[2], side))
         = [i \in DOMAIN l |-> Entry(l[i].price, l[i].volume, side)]
<1> DEFINE t == [i \in DOMAIN l |-> <<l[i].price, l[i].volume>>]
           b == [i \in DOMAIN t |-> Entry(t[i][1], t[i][2], side)]
<1>1. Digifinex!Each(l, LAMBDA e : <<e.price, e.volume>>) = t
  BY Zenon DEF Digifinex!Each
<1> HIDE DEF t
<1>2. Digifinex!Each(t, LAMBDA e : Digifinex!Entry(e[1], e[2], side)) = b
  BY Zenon DEF Digifinex!Each, Digifinex!Entry, Entry
<1>3. DOMAIN t = DOMAIN l /\ \A i \in DOMAIN l : t[i][1] = l[i].price /\ t[i][2] = l[i].volume
  BY DEF t
<1>4. b = [i \in DOMAIN l |-> Entry(l[i].price, l[i].volume, side)]
  BY <1>3
<1> QED BY <1>1, <1>2, <1>4, Zenon

\* get_order_book reads the first levels of the book that Digifinex knows.
LEMMA DigifinexBookIs ==
  ASSUME NEW m, IsExchange(m), NEW c, c.op = "get_order_book", c.pair \in Pairs, c.depth \in Nat,
         NEW price, NEW r, r = Digifinex!Ask(c, price), kind = "digifinex"
  PROVE  \E v : DigifinexAnswers(m, c, r, v) /\ SameBook(v, m.book[c.pair], c.depth)
<1> DEFINE q == [symbol |-> Name(c.pair, "_"), limit |-> Text(c.depth)]
           asks == First(m.book[c.pair].asks, c.depth)
           bids == First(m.book[c.pair].bids, c.depth)
           T(l) == Digifinex!Each(l, LAMBDA e : <<e.price, e.volume>>)
           R(l, side) == Digifinex!Each(l, LAMBDA e : Digifinex!Entry(e[1], e[2], side))
           stamp == m.book[c.pair].stamp
           v == Digifinex!Book(stamp, R(T(asks), "ASK"), R(T(bids), "BID"))
<1>1. r = Digifinex!PublicGet(<<"order_book">>, q)
  <2>1. r = Digifinex!PublicGet(<<"order_book">>, [symbol |-> Digifinex!Name(c.pair, "_"), limit |-> Digifinex!Text(c.depth)])
    BY Zenon DEF Digifinex!Ask, Digifinex!Named
  <2> QED BY <2>1, DigifinexShares, Zenon
<1>2. IsName(q.symbol, "_") /\ PairNamed(q.symbol, "_") = c.pair /\ Stod(q.limit) = c.depth
  BY NameOfAPair, TextIsRead
<1> HIDE DEF q
<1>3. DigifinexGets(m, r, q) /\ DigifinexTop(r, "order_book")
  BY <1>1, <1>2, DigifinexPublic
<1>4. Digifinex!Body(m, r) =
        LET book == m.book[Digifinex!PairNamed(q.symbol, "_")]
        IN  [code |-> 0, date |-> book.stamp, asks |-> T(Digifinex!First(book.asks, Digifinex!Stod(q.limit))),
             bids |-> T(Digifinex!First(book.bids, Digifinex!Stod(q.limit)))]
  BY <1>3, Zenon DEF Digifinex!Body, DigifinexGets, DigifinexTop
<1> HIDE DEF T, R
<1>5. Digifinex!Body(m, r) = [code |-> 0, date |-> stamp, asks |-> T(asks), bids |-> T(bids)]
  BY <1>2, <1>4, DigifinexShares, Zenon
<1> DEFINE j == Digifinex!Body(m, r)
<1> HIDE DEF asks, bids, stamp
<1>6. ~ (j.code # 0) /\ j.date = stamp /\ j.asks = T(asks) /\ j.bids = T(bids)
  BY <1>5
<1> HIDE DEF j
<1>7. Digifinex!Read(c, j) = Digifinex!Success(Digifinex!read_order_book(j))
  BY <1>6, Zenon DEF Digifinex!Read
<1>8. Digifinex!read_order_book(j) = v
  <2>1. Digifinex!read_order_book(j) = Digifinex!Book(j.date, R(j.asks, "ASK"), R(j.bids, "BID"))
    BY Zenon DEF Digifinex!read_order_book, R
  <2> QED BY <1>6, <2>1
<1>9. asks \in Seq(Levels) /\ bids \in Seq(Levels)
  <2>1. m.book[c.pair].asks \in Seq(Levels) /\ m.book[c.pair].bids \in Seq(Levels)
    BY DEF IsExchange
  <2> QED BY <2>1, FirstOfArray DEF asks, bids
<1>10. v.asks = R(T(asks), "ASK") /\ v.bids = R(T(bids), "BID")
  BY DEF Digifinex!Book
<1> HIDE DEF v
<1>11. /\ v.asks = [i \in DOMAIN asks |-> Entry(asks[i].price, asks[i].volume, "ASK")]
       /\ v.bids = [i \in DOMAIN bids |-> Entry(bids[i].price, bids[i].volume, "BID")]
  BY <1>9, <1>10, DigifinexLevels DEF R, T
<1>12. SameLevels(v.asks, asks) /\ \A e \in ToSet(v.asks) : e.side = "ASK"
  BY <1>9, <1>11, LevelsAreRead
<1>13. SameLevels(v.bids, bids) /\ \A e \in ToSet(v.bids) : e.side = "BID"
  BY <1>9, <1>11, LevelsAreRead
<1>14. SameBook(v, m.book[c.pair], c.depth)
  BY <1>12, <1>13, Zenon DEF SameBook, SidesAreNamed, asks, bids
<1>15. DigifinexAnswers(m, c, r, v)
  BY <1>3, <1>7, <1>8, DigifinexShares DEF DigifinexAnswers, DigifinexGets, j
<1> QED BY <1>14, <1>15

\* An order of Digifinex's is read as the order it is.
LEMMA DigifinexOrderIsRead ==
  ASSUME NEW o \in Orders, IsHeld("digifinex", o), kind = "digifinex"
  PROVE  OrderIsRead(Digifinex!read_order_description(Digifinex!OrderJson(o)), o)
<1> DEFINE status == CASE o.state = "open" -> 0 [] o.state = "closed" -> 2 [] OTHER -> 3
           atMarket == o.type = "MARKET"
           how == <<o.action, atMarket>>
           j == [created_date |-> o.time, order_id |-> Text(o.id), symbol |-> Name(o.pair, "_"), type |-> how,
                 price |-> o.price, amount |-> o.volume, status |-> status]
           d == Digifinex!read_order_description(j)
           type == IF j.type[2] THEN "MARKET" ELSE "LIMIT"
<1>1. Digifinex!OrderJson(o) = j
  BY DigifinexShares, Zenon DEF Digifinex!OrderJson, Digifinex!Named
<1>2. o.type \in {"LIMIT", "MARKET"}
  <2>1. TypesHeld("digifinex") = {"LIMIT", "MARKET"}
    BY Zenon DEF TypesHeld
  <2> QED BY <2>1 DEF IsHeld
<1> HIDE DEF status
<1>3. how[1] = o.action /\ how[2] = atMarket
  BY Zenon
<1> HIDE DEF how
<1>4. /\ j.created_date = o.time /\ j.order_id = Text(o.id) /\ j.symbol = Name(o.pair, "_") /\ j.type = how
      /\ j.price = o.price /\ j.amount = o.volume
  <2> HIDE DEF atMarket
  <2> QED OBVIOUS
<1> HIDE DEF j
<1>5. type = o.type
  <2>1. CASE o.type = "MARKET"
    <3>1. atMarket
      BY <2>1
    <3>2. j.type[2]
      BY <1>3, <1>4, <3>1, Zenon
    <3> QED BY <2>1, <3>2, Zenon
  <2>2. CASE o.type = "LIMIT"
    <3>1. ~ atMarket
      BY <2>2
    <3>2. ~ j.type[2]
      BY <1>3, <1>4, <3>1, Zenon
    <3> QED BY <2>2, <3>2, Zenon
  <2> QED BY <1>2, <2>1, <2>2
<1> HIDE DEF atMarket
<1>6. d = Description(o.time, Text(o.id), o.type, Name(o.pair, "_"), o.action, o.price, o.volume)
  <2>1. d = Digifinex!Description(j.created_date, j.order_id, type, j.symbol, j.type[1], j.price, j.amount)
    BY Zenon DEF Digifinex!read_order_description
  <2> HIDE DEF d, type
  <2> QED BY <1>3, <1>4, <1>5, <2>1, DigifinexOrdersAre
<1> HIDE DEF d, type
<1>7. TypeRead(o.type) = o.type /\ Named(o.pair) = Name(o.pair, "_")
  <2>1. TypeRead(o.type) = o.type
    BY <1>2 DEF TypeRead
  <2>2. (CASE kind = "coinbase" -> "-" [] kind = "digifinex" -> "_" [] OTHER -> "") = "_"
    OBVIOUS
  <2> QED BY <2>1, <2>2, Zenon DEF Named
<1>8. OrderIsRead(Description(o.time, Text(o.id), o.type, Name(o.pair, "_"), o.action, o.price, o.volume), o)
  BY <1>7 DEF OrderIsRead, Description
<1> QED BY <1>1, <1>6, <1>8, Zenon DEF d

\* get_open_orders reads the orders that Digifinex holds open.
LEMMA DigifinexOpenOrders ==
  ASSUME NEW m, IsExchange(m), HoldsOnly(m, "digifinex"), NEW c, c.op = "get_open_orders", NEW price,
         NEW r, r = Digifinex!Ask(c, price), kind = "digifinex"
  PROVE  \E v : DigifinexAnswers(m, c, r, v) /\ SameOrders(v, InState(m, {"open"}))
<1> DEFINE s == InState(m, {"open"})
           a == [i \in DOMAIN s |-> Digifinex!OrderJson(s[i])]
           v == [i \in DOMAIN a |-> Digifinex!read_order_description(a[i])]
<1>1. r = Digifinex!Private("GET", <<"spot", "order", "current">>, Digifinex!None)
  BY Zenon DEF Digifinex!Ask
<1>2. DigifinexGets(m, r, Digifinex!None) /\ DigifinexOrder(r, "current")
  <2>1. <<"spot", "order", "current">> # <<"spot", "order", "cancel">>
    OBVIOUS
  <2> QED BY <1>1, <2>1, DigifinexPrivate, DigifinexPaths
<1>3. Digifinex!Body(m, r) = [code |-> 0, data |-> Digifinex!Each(Digifinex!InState(m, {"open"}), Digifinex!OrderJson)]
  BY <1>2, Zenon DEF Digifinex!Body, DigifinexGets, DigifinexOrder
<1>4. Digifinex!Body(m, r) = [code |-> 0, data |-> a]
  BY <1>3, DigifinexShares, Zenon DEF Digifinex!Each
<1> HIDE DEF a
<1> DEFINE j == Digifinex!Body(m, r)
<1>5. ~ (j.code # 0) /\ j.data = a
  BY <1>4
<1> HIDE DEF j
<1>6. Digifinex!Read(c, j) = Digifinex!Success(v)
  BY <1>5, Zenon DEF Digifinex!Read, Digifinex!read_open_orders, Digifinex!Each
<1>7. s \in Seq({o \in Orders : IsHeld("digifinex", o)})
  BY HeldInState
<1> HIDE DEF s
<1>8. DOMAIN a = DOMAIN s /\ \A i \in DOMAIN s : a[i] = Digifinex!OrderJson(s[i]) /\ s[i] \in Orders /\ IsHeld("digifinex", s[i])
  BY <1>7 DEF a
<1>9. \A i \in DOMAIN s : OrderIsRead(v[i], s[i])
  BY <1>8, DigifinexOrderIsRead
<1>10. v = [i \in DOMAIN s |-> v[i]]
  BY <1>8
<1> HIDE DEF v
<1>11. s \in Seq(Orders)
  BY <1>7
<1>12. SameOrders(v, s)
  BY <1>9, <1>10, <1>11, OrdersAreRead
<1>13. DigifinexAnswers(m, c, r, v)
  BY <1>2, <1>6, DigifinexShares DEF DigifinexAnswers, DigifinexGets, j
<1> QED BY <1>12, <1>13 DEF s

\* get_closed_orders reads the orders that Digifinex holds closed.
LEMMA DigifinexClosedOrders ==
  ASSUME NEW m, IsExchange(m), HoldsOnly(m, "digifinex"), NEW c, c.op = "get_closed_orders", NEW price,
         NEW r, r = Digifinex!Ask(c, price), kind = "digifinex"
  PROVE  \E v : DigifinexAnswers(m, c, r, v) /\ SameOrders(v, InState(m, {"closed"}))
<1> DEFINE s == InState(m, {"closed", "cancelled"})
           k == InState(m, {"closed"})
           t == [i \in DOMAIN s |-> Digifinex!OrderJson(s[i])]
           B == {o \in ToSet(t) : o.status = 2}
           a == Among(t, B)
           v == [i \in DOMAIN a |-> Digifinex!read_order_description(a[i])]
           U == {Digifinex!OrderJson(o) : o \in Orders}
           g == [o \in Orders |-> Digifinex!OrderJson(o)]
<1>1. r = Digifinex!Private("GET", <<"spot", "order", "history">>, Digifinex!None)
  BY Zenon DEF Digifinex!Ask
<1>2. DigifinexGets(m, r, Digifinex!None) /\ DigifinexOrder(r, "history")
  <2>1. <<"spot", "order", "history">> # <<"spot", "order", "cancel">>
    OBVIOUS
  <2> QED BY <1>1, <2>1, DigifinexPrivate, DigifinexPaths
<1>3. Digifinex!Body(m, r) = [code |-> 0, data |->
                                Digifinex!Each(Digifinex!InState(m, {"closed", "cancelled"}), Digifinex!OrderJson)]
  BY <1>2, Zenon DEF Digifinex!Body, DigifinexGets, DigifinexOrder
<1>4. Digifinex!Body(m, r) = [code |-> 0, data |-> t]
  BY <1>3, DigifinexShares, Zenon DEF Digifinex!Each
<1> HIDE DEF t
<1> DEFINE j == Digifinex!Body(m, r)
<1>5. ~ (j.code # 0) /\ j.data = t
  BY <1>4
<1> HIDE DEF j
<1>6. Digifinex!Read(c, j) = Digifinex!Success(v)
  <2>1. Digifinex!Read(c, j) = Digifinex!Success(Digifinex!read_closed_orders(j))
    BY <1>5, Zenon DEF Digifinex!Read
  <2>2. Digifinex!Among(t, {o \in Digifinex!ToSet(t) : o.status = 2}) = a
    BY DigifinexShares
  <2> HIDE DEF a, B
  <2>3. Digifinex!read_closed_orders(j) =
          Digifinex!Each(Digifinex!Among(j.data, {o \in Digifinex!ToSet(j.data) : o.status = 2}), Digifinex!read_order_description)
    BY Zenon DEF Digifinex!read_closed_orders
  <2>4. Digifinex!read_closed_orders(j) = v
    BY <1>5, <2>2, <2>3, Zenon DEF Digifinex!Each
  <2> QED BY <2>1, <2>4
<1>7. /\ s \in Seq({o \in Orders : IsHeld("digifinex", o)}) /\ k \in Seq({o \in Orders : IsHeld("digifinex", o)})
      /\ \A i \in 1 .. Len(s) : s[i].state \in {"closed", "cancelled"}
  BY HeldInState
<1> HIDE DEF s, k
<1>8. /\ DOMAIN t = 1 .. Len(s)
      /\ \A i \in 1 .. Len(s) : t[i] = Digifinex!OrderJson(s[i]) /\ s[i] \in Orders
  BY <1>7 DEF t
<1>9. t \in Seq(U) /\ Len(t) = Len(s)
  <2>1. Len(s) \in Nat /\ DOMAIN s = 1 .. Len(s)
    BY <1>7
  <2>2. \A i \in 1 .. Len(s) : t[i] \in U
    BY <1>8
  <2>3. t = [i \in 1 .. Len(s) |-> t[i]]
    BY <2>1 DEF t
  <2> HIDE DEF U
  <2> QED BY <2>1, <2>2, <2>3
<1>10. \A i \in 1 .. Len(s) : t[i] \in B <=> s[i].state = "closed"
  <2> TAKE i \in 1 .. Len(s)
  <2>1. t[i] \in ToSet(t)
    BY <1>8 DEF ToSet
  <2> DEFINE status == CASE s[i].state = "open" -> 0 [] s[i].state = "closed" -> 2 [] OTHER -> 3
  <2>2. t[i].status = status
    BY <1>8 DEF Digifinex!OrderJson
  <2>3. status = 2 <=> s[i].state = "closed"
    BY <1>7
  <2> HIDE DEF status
  <2> QED BY <2>1, <2>2, <2>3
<1>11. Images(t, s, g)
  BY <1>8, <1>9 DEF Images
<1> HIDE DEF U, g, B
<1>12. Images(a, k, g)
  <2>1. "closed" \in {"closed", "cancelled"}
    OBVIOUS
  <2> HIDE DEF a
  <2>2. Images(Among(t, B), InState(m, {"closed"}), g)
    BY <1>9, <1>10, <1>11, <2>1, OrdersKept DEF s
  <2> QED BY <2>2 DEF a, k
<1>13. a \in Seq(U)
  BY <1>9, AmongIs
<1> HIDE DEF a
<1>14. /\ DOMAIN a = DOMAIN k
       /\ \A i \in DOMAIN k : a[i] = Digifinex!OrderJson(k[i]) /\ k[i] \in Orders /\ IsHeld("digifinex", k[i])
  <2>1. DOMAIN k = 1 .. Len(k) /\ Len(a) = Len(k) /\ \A i \in 1 .. Len(k) : a[i] = g[k[i]]
    BY <1>7, <1>12 DEF Images
  <2>2. DOMAIN a = 1 .. Len(a)
    BY <1>13
  <2>3. \A i \in 1 .. Len(k) : k[i] \in {o \in Orders : IsHeld("digifinex", o)}
    BY <1>7
  <2> QED BY <2>1, <2>2, <2>3 DEF g
<1>15. \A i \in DOMAIN k : OrderIsRead(v[i], k[i])
  BY <1>14, DigifinexOrderIsRead
<1>16. v = [i \in DOMAIN k |-> v[i]]
  BY <1>14
<1> HIDE DEF v
<1>17. k \in Seq(Orders)
  BY <1>7
<1>18. SameOrders(v, k)
  BY <1>15, <1>16, <1>17, OrdersAreRead
<1>19. DigifinexAnswers(m, c, r, v)
  BY <1>2, <1>6, DigifinexShares DEF DigifinexAnswers, DigifinexGets, j
<1> QED BY <1>18, <1>19 DEF k

\* cancel_order cancels the order at Digifinex, and reads so.
LEMMA DigifinexCancels ==
  ASSUME NEW m, NEW c, c.op = "cancel_order", NEW price, NEW r, r = Digifinex!Ask(c, price)
  PROVE  /\ r.is = "http" /\ Digifinex!Effect(m, r) = Cancel(m, c.id)
         /\ IsOpen(m, c.id) => ~ Digifinex!Refuses(m, r)
         /\ Digifinex!Read(c, Digifinex!Body(m, r)) = Success("void")
<1> DEFINE q == [market |-> "spot", order_id |-> c.id]
<1>1. r = Digifinex!Private("POST", <<"spot", "order", "cancel">>, q)
  BY Zenon DEF Digifinex!Ask
<1>2. q.order_id = c.id /\ "symbol" \notin DOMAIN q
  OBVIOUS
<1> HIDE DEF q
<1>3. /\ r.is = "http" /\ r.verb = "POST" /\ r.query = q /\ r.sign = q /\ r.path = <<"spot", "order", "cancel">>
  BY <1>1 DEF Digifinex!Private, Digifinex!Http
<1>4. Digifinex!IsCancel(r)
  BY <1>3 DEF Digifinex!IsCancel
<1>5. Digifinex!Effect(m, r) = Cancel(m, c.id)
  <2>1. Digifinex!Effect(m, r) = Digifinex!Cancel(m, r.query.order_id)
    BY <1>4, Zenon DEF Digifinex!Effect
  <2> QED BY <1>2, <1>3, <2>1, DigifinexOrdersAre
<1>6. ASSUME IsOpen(m, c.id) PROVE ~ Digifinex!Refuses(m, r)
  <2>1. Digifinex!IsOpen(m, r.query.order_id)
    BY <1>2, <1>3, <1>6, DigifinexShares
  <2>2. "symbol" \notin DOMAIN r.query /\ r.sign = r.query
    BY <1>2, <1>3
  <2> QED BY <2>1, <2>2, Zenon DEF Digifinex!Refuses
<1> DEFINE j == Digifinex!Body(m, r)
<1>7. ~ (j.code # 0)
  <2>1. /\ r.path # <<"ping">> /\ r.path # <<"spot", "symbols">> /\ r.path # <<"spot", "assets">> /\ r.path # <<"kline">>
        /\ r.path # <<"ticker">> /\ r.path # <<"order_book">> /\ r.path # <<"spot", "order", "current">>
        /\ r.path # <<"spot", "order", "history">>
    <3>1. DigifinexOrder(r, "cancel")
      BY <1>3, DigifinexPaths
    <3> QED BY <3>1, Zenon DEF DigifinexOrder
  <2>2. j = [code |-> 0, success |-> <<r.query.order_id>>]
    BY <1>4, <2>1, Zenon DEF Digifinex!Body
  <2> HIDE DEF j
  <2> QED BY <2>2
<1> HIDE DEF j
<1>8. Digifinex!Read(c, j) = Digifinex!Success("void")
  BY <1>7, Zenon DEF Digifinex!Read
<1> QED BY <1>3, <1>5, <1>6, <1>8, DigifinexShares DEF j

\* Digifinex's own error is read as a failure.
LEMMA DigifinexError == \A c : Digifinex!Read(c, Digifinex!Error) = Fail
<1>1. Digifinex!Error.code # 0
  BY DEF Digifinex!Error
<1> QED BY <1>1, DigifinexShares, Zenon DEF Digifinex!Read

\* add_order enters at Digifinex the order that was asked for, and reads its id.
LEMMA DigifinexAdds ==
  ASSUME NEW m, IsExchange(m), NEW c, c.op = "add_order", kind = "digifinex", IsOrderRequest(c.order),
         c.order.type \in {"LIMIT", "MARKET"},
         NEW F, NEW price \in Nat, NEW r, r = Digifinex!Ask(c, price)
  PROVE  AddsTo(m, c, price, F, r.is, Digifinex!Refuses(m, r), Digifinex!Effect(m, r), Digifinex!Read(c, Digifinex!Body(m, r)))
<1> DEFINE a == c.order
           n == Get(a, "VOLUME")
           limit == Get(a, "ASSET_PRICE")
           amount == IF a.type = "MARKET" THEN Cost(price, n) ELSE n
           how == Digifinex!get_order_type(a.type, a.action)
           q == [market |-> "spot", symbol |-> Name(a.pair, "_"), type |-> how, amount |-> Text(amount), price |-> Text(limit)]
           now == m.price[a.pair]
           volume == IF a.type = "MARKET" THEN Volume(now, amount) ELSE amount
           x == IF a.type = "MARKET" THEN now ELSE limit
           o == Order(a.type, a.pair, a.action, x, volume, 0, 0)
<1>0. /\ a.type \in {"LIMIT", "MARKET"} /\ a.pair \in Pairs /\ a.action \in Actions
      /\ now \in Nat /\ now > 0 /\ n \in Nat /\ limit \in Nat /\ amount \in Nat /\ volume \in Nat
      /\ a.type = "MARKET" => (price = now => volume = n)
  <2>1. a.type \in {"LIMIT", "MARKET"} /\ a.pair \in Pairs /\ a.action \in Actions /\ n \in Nat /\ limit \in Nat
    BY GetIs DEF IsOrderRequest
  <2>2. now \in Nat /\ now > 0
    BY <2>1 DEF IsExchange
  <2> HIDE DEF n, limit, now, a
  <2>3. Cost(price, n) \in Nat
    BY <2>1, CostIsWorth
  <2>4. amount \in Nat
    BY <2>1, <2>3
  <2>5. Volume(now, amount) \in Nat
    <3> HIDE DEF amount
    <3> QED BY <2>2, <2>4, CostIsWorth
  <2>6. now > 0 => Volume(now, Cost(now, n)) = n
    BY <2>1, <2>2, CostIsWorth
  <2> QED BY <2>1, <2>2, <2>4, <2>5, <2>6
<1>1. r = Digifinex!Private("POST", <<"spot", "order", "new">>, q)
  <2> DEFINE b == [market |-> "spot", symbol |-> Digifinex!Name(a.pair, "_"),
                   type |-> Digifinex!get_order_type(a.type, a.action),
                   amount |-> Digifinex!Text(Digifinex!get_amount(a, price)),
                   price |-> Digifinex!Text(Digifinex!Get(a, "ASSET_PRICE"))]
  <2>0. ~ (c.order.type \notin {"LIMIT", "MARKET"})
    OBVIOUS
  <2>1. r = Digifinex!Private("POST", <<"spot", "order", "new">>, b)
    BY <2>0, Zenon DEF Digifinex!Ask, Digifinex!Named
  <2>2. Digifinex!get_amount(a, price) = amount
    BY DigifinexOrdersAre, Zenon DEF Digifinex!get_amount, Digifinex!AsksPrice
  <2> HIDE DEF amount, limit, how
  <2>3. b = q
    BY <2>2, DigifinexShares, DigifinexOrdersAre, Zenon DEF limit, how
  <2> HIDE DEF b, q
  <2> QED BY <2>1, <2>3
<1>h. how[1] = a.action /\ how[2] = (a.type = "MARKET")
  BY Zenon DEF Digifinex!get_order_type
<1> HIDE DEF how
<1>2. /\ q.symbol = Name(a.pair, "_") /\ Stod(q.amount) = amount /\ q.type = how /\ Stod(q.price) = limit
  <2> HIDE DEF amount, limit
  <2> QED BY TextIsRead
<1>3. IsName(q.symbol, "_") /\ PairNamed(q.symbol, "_") = a.pair
  <2> HIDE DEF a
  <2>1. IsName(Name(a.pair, "_"), "_") /\ PairNamed(Name(a.pair, "_"), "_") = a.pair
    BY <1>0, NameOfAPair
  <2> QED BY <2>1
<1> HIDE DEF q
<1>4. /\ r.is = "http" /\ r.verb = "POST" /\ r.query = q /\ r.sign = q /\ r.path = <<"spot", "order", "new">>
  BY <1>1 DEF Digifinex!Private, Digifinex!Http
<1>c. ~ Digifinex!IsCancel(r) /\ DigifinexOrder(r, "new")
  <2>1. DigifinexOrder(r, "new")
    BY <1>4, DigifinexPaths
  <2>2. r.path # <<"spot", "order", "cancel">>
    BY <2>1, Zenon DEF DigifinexOrder
  <2> QED BY <2>1, <2>2 DEF Digifinex!IsCancel
<1>5. Digifinex!OrderIn(m, q) = o
  <2> DEFINE p == Digifinex!PairNamed(q.symbol, "_")
             w == Digifinex!Stod(q.amount)
             z == Digifinex!Stod(q.price)
             action == q.type[1]
             y == Digifinex!Volume(m.price[p], w)
  <2>1. Digifinex!OrderIn(m, q) =
          IF q.type[2] THEN Digifinex!AtMarket(m, p, action, y)
          ELSE Digifinex!Order("LIMIT", p, action, z, w, 0, 0)
    BY Zenon DEF Digifinex!OrderIn
  <2>2. action = a.action /\ p = a.pair /\ w = amount /\ z = limit /\ y = Volume(m.price[a.pair], amount)
    <3>1. action = a.action
      BY <1>2, <1>h, Zenon
    <3>2. p = a.pair
      BY <1>3, DigifinexShares
    <3>3. w = amount /\ z = limit
      BY <1>2, DigifinexShares
    <3>4. y = Volume(m.price[a.pair], amount)
      <4> HIDE DEF p, w, amount
      <4> QED BY <3>2, <3>3, DigifinexOrdersAre
    <3> QED BY <3>1, <3>2, <3>3, <3>4
  <2> HIDE DEF action, p, w, z, y
  <2>3. CASE a.type = "MARKET"
    <3>1. q.type[2]
      BY <1>2, <1>h, <2>3, Zenon
    <3>2. y = volume
      BY <2>2, <2>3
    <3>3. Digifinex!OrderIn(m, q) = Digifinex!AtMarket(m, p, action, y)
      BY <2>1, <3>1, Zenon
    <3>5. x = m.price[a.pair]
      BY <2>3
    <3> HIDE DEF volume, x
    <3>4. Digifinex!OrderIn(m, q) = AtMarket(m, a.pair, a.action, volume)
      BY <2>2, <3>2, <3>3, DigifinexOrdersAre
    <3> QED BY <2>3, <3>4, <3>5 DEF AtMarket
  <2>4. CASE a.type # "MARKET"
    <3>1. ~ q.type[2]
      BY <1>2, <1>h, <2>4, Zenon
    <3>2. volume = amount /\ x = limit /\ a.type = "LIMIT"
      BY <1>0, <2>4
    <3> HIDE DEF volume, x, limit, amount
    <3>3. Digifinex!OrderIn(m, q) = Digifinex!Order("LIMIT", p, action, z, w, 0, 0)
      BY <2>1, <3>1, Zenon
    <3>4. Digifinex!OrderIn(m, q) = Order("LIMIT", a.pair, a.action, x, volume, 0, 0)
      BY <2>2, <3>2, <3>3, DigifinexOrdersAre
    <3> QED BY <3>2, <3>4
  <2> QED BY <2>3, <2>4
<1>6. Digifinex!Effect(m, r) = Enter(m, o)
  <2> HIDE DEF o
  <2>1. Digifinex!Effect(m, r) = Digifinex!Enter(m, Digifinex!OrderIn(m, q))
    BY <1>4, <1>c, Zenon DEF Digifinex!Effect
  <2> QED BY <2>1, <1>5, DigifinexOrdersAre
<1>7. ~ Digifinex!Refuses(m, r)
  <2>1. Digifinex!IsName(r.query.symbol, "_")
    BY <1>3, <1>4, DigifinexShares
  <2>2. r.sign = r.query
    BY <1>4
  <2> QED BY <1>c, <2>1, <2>2, Zenon DEF Digifinex!Refuses
<1> DEFINE j == Digifinex!Body(m, r)
<1>8. ~ (j.code # 0) /\ j.order_id = Text(NextId(m))
  <2>1. j = [code |-> 0, order_id |-> Digifinex!Text(Digifinex!NextId(m))]
    BY <1>4, <1>c, Zenon DEF Digifinex!Body, DigifinexOrder
  <2> HIDE DEF j
  <2> QED BY <2>1, DigifinexShares, DigifinexOrdersAre
<1> HIDE DEF j
<1>9. Digifinex!Read(c, j) = Success(Text(NextId(m)))
  <2>1. Digifinex!Read(c, j) = Digifinex!Success(j.order_id)
    BY <1>8, Zenon DEF Digifinex!Read
  <2> QED BY <1>8, <2>1, DigifinexShares
<1>10. /\ o.type = a.type /\ o.pair = a.pair /\ o.action = a.action /\ o.price = x /\ o.volume = volume
       /\ o.stop = 0 /\ o.delta = 0
  BY DEF Order
<1>11. o = Order(o.type, o.pair, o.action, o.price, o.volume, o.stop, o.delta)
  BY <1>10, Zenon DEF o
<1>12. x \in Nat /\ (a.type = "MARKET" => x > 0) /\ (a.type # "MARKET" => volume = n /\ x = limit)
       /\ (a.type = "MARKET" => x = now)
  BY <1>0
<1> HIDE DEF o, x, volume, amount, n, limit, now
<1>13. IsNew(kind, o)
  <2>1. TypesHeld("digifinex") = {"LIMIT", "MARKET"}
    BY Zenon DEF TypesHeld
  <2>2. IsHeld(kind, o)
    BY <1>0, <1>10, <1>12, <2>1 DEF IsHeld
  <2>3. o.type \in OrderTypes
    BY <1>0, <1>10 DEF OrderTypes
  <2>4. o.action \in Actions /\ o.pair \in Pairs /\ o.price \in Nat /\ o.volume \in Nat /\ o.stop \in Nat /\ o.delta \in Nat
    BY <1>0, <1>10, <1>12
  <2> QED BY <1>11, <2>2, <2>3, <2>4, Zenon DEF IsNew
<1>14. EnteredAs(o, c, price, F)
  <2>1. kind # "binance" /\ kind # "bybit"
    OBVIOUS
  <2>2. AsksPrice(a) <=> a.type = "MARKET"
    <3>1. Digifinex!AsksPrice(a) <=> a.type = "MARKET"
      BY Zenon DEF Digifinex!AsksPrice
    <3> QED BY <3>1 DEF AsksPrice
  <2>3. o.volume = n \/ (AsksPrice(a) /\ price # o.price)
    BY <1>0, <1>10, <1>12, <2>2
  <2>4. a.type # "MARKET" => o.price = limit
    BY <1>10, <1>12
  <2> QED BY <1>10, <2>1, <2>3, <2>4, Zenon DEF EnteredAs, n, limit
<1> QED BY <1>4, <1>6, <1>7, <1>9, <1>13, <1>14, Zenon DEF AddsTo, j

-----------------------------------------------------------------------------
(* Kraken. *)
KrakenAnswers(m, c, r, v) ==
  /\ r.is = "http" /\ ~ Kraken!Refuses(m, r) /\ Kraken!Effect(m, r) = m
  /\ Kraken!Read(c, Kraken!Body(m, r)) = Success(v)

KrakenGets(m, r, method) ==
  /\ r.is = "http" /\ r.path[3] = method /\ ~ Kraken!IsOrder(r) /\ ~ Kraken!IsCancel(r)
  /\ ~ Kraken!Refuses(m, r) /\ Kraken!Effect(m, r) = m

\* A request without a query names no market.
LEMMA KrakenNone == "pair" \notin DOMAIN Kraken!None
BY DEF Kraken!None

\* What makes a request one of Kraken's that only reads.
LEMMA KrakenGetsFrom ==
  ASSUME NEW m, NEW r, NEW method, r.is = "http" /\ r.path[3] = method,
         method # "AddOrder" /\ method # "CancelOrder",
         r.path[2] = "private" => r.sign = <<r.path, r.content>>,
         "pair" \in DOMAIN r.query => \A name \in r.query.pair : IsName(name, ""),
         "pair" \in DOMAIN r.content => IsName(r.content.pair, "")
  PROVE  KrakenGets(m, r, method)
<1>1. ~ Kraken!IsOrder(r) /\ ~ Kraken!IsCancel(r)
  BY DEF Kraken!IsOrder, Kraken!IsCancel
<1>2. /\ "pair" \in DOMAIN r.query => \A name \in r.query.pair : Kraken!IsName(name, "")
      /\ "pair" \in DOMAIN r.content => Kraken!IsName(r.content.pair, "")
  BY KrakenShares
<1>3. ~ Kraken!Refuses(m, r)
  BY <1>1, <1>2, Zenon DEF Kraken!Refuses
<1>4. Kraken!Effect(m, r) = m
  BY <1>1, Zenon DEF Kraken!Effect
<1> QED BY <1>1, <1>3, <1>4 DEF KrakenGets

\* The request of a public method.
LEMMA KrakenPublicIs ==
  ASSUME NEW method, NEW query, NEW r, r = Kraken!Public(method, query)
  PROVE  r.is = "http" /\ r.path = <<"0", "public", method>> /\ r.query = query /\ r.content = Kraken!None
<1> DEFINE path == <<"0", "public", method>>
<1>1. r = Kraken!Http("GET", path, query, Kraken!None, Kraken!None)
  BY Zenon DEF Kraken!Public, Kraken!PublicGet
<1> HIDE DEF path
<1>2. r.is = "http" /\ r.path = path /\ r.query = query /\ r.content = Kraken!None
  BY <1>1 DEF Kraken!Http
<1> QED BY <1>2 DEF path

\* The request of a private method, signed over its path and its content.
LEMMA KrakenPrivateIs ==
  ASSUME NEW method, NEW query, NEW r, r = Kraken!Private(method, query)
  PROVE  /\ r.is = "http" /\ r.path = <<"0", "private", method>> /\ r.query = Kraken!None /\ r.content = query
         /\ r.sign = <<r.path, r.content>>
<1> DEFINE path == <<"0", "private", method>>
           sign == <<path, query>>
<1>1. r = Kraken!Http("POST", path, Kraken!None, query, sign)
  BY Zenon DEF Kraken!Private
<1> HIDE DEF path, sign
<1>2. r.is = "http" /\ r.path = path /\ r.query = Kraken!None /\ r.content = query /\ r.sign = sign
  BY <1>1 DEF Kraken!Http
<1>3. \A x, y : x = path /\ y = query => sign = <<x, y>>
  BY DEF sign
<1>4. r.sign = <<r.path, r.content>>
  BY <1>2, <1>3, Zenon
<1> QED BY <1>2, <1>4 DEF path

\* What a request for information may ask for.
KrakenMethod(method) == method # "AddOrder" /\ method # "CancelOrder"
KrakenNames(query) == "pair" \in DOMAIN query => \A name \in query.pair : IsName(name, "")
KrakenPairNamed(query) == "pair" \in DOMAIN query => IsName(query.pair, "")

\* A public request of Kraken only reads.
LEMMA KrakenPublic ==
  ASSUME NEW m, NEW method, KrakenMethod(method), NEW query, KrakenNames(query),
         NEW r, r = Kraken!Public(method, query)
  PROVE  KrakenGets(m, r, method) /\ r.query = query
<1> DEFINE path == <<"0", "public", method>>
<1>1. path[3] = method /\ path[2] = "public"
  OBVIOUS
<1>2. r.is = "http" /\ r.path = path /\ r.query = query /\ r.content = Kraken!None
  BY KrakenPublicIs
<1> HIDE DEF path
<1>3. r.path[3] = method /\ r.path[2] # "private"
  BY <1>1, <1>2
<1>4. KrakenGets(m, r, method)
  BY <1>2, <1>3, KrakenNone, KrakenGetsFrom DEF KrakenMethod, KrakenNames
<1> QED BY <1>2, <1>4

\* A private request of Kraken that only reads.
LEMMA KrakenPrivate ==
  ASSUME NEW m, NEW method, KrakenMethod(method), NEW query, KrakenPairNamed(query),
         NEW r, r = Kraken!Private(method, query)
  PROVE  KrakenGets(m, r, method) /\ r.content = query
<1> DEFINE path == <<"0", "private", method>>
<1>1. path[3] = method
  OBVIOUS
<1>2. /\ r.is = "http" /\ r.path = path /\ r.query = Kraken!None /\ r.content = query
      /\ r.sign = <<r.path, r.content>>
  BY KrakenPrivateIs
<1> HIDE DEF path
<1>3. KrakenGets(m, r, method)
  BY <1>1, <1>2, KrakenNone, KrakenGetsFrom DEF KrakenMethod, KrakenPairNamed
<1> QED BY <1>2, <1>3

\* An answer of Kraken carries a result and an empty list of errors.
LEMMA KrakenBody ==
  \A m, r : LET j == Kraken!Body(m, r)
            IN  j.result = Kraken!Result(m, r) /\ ~ (j.error # <<>>)
BY DEF Kraken!Body

\* The pairs that the members of a result are about.
KrakenFor(N) ==
  [key \in {Kraken!KeyOf(n) : n \in N} |-> Kraken!PairNamed(CHOOSE n \in N : Kraken!KeyOf(n) = key, "")]

\* The key under which Kraken answers a name.
LEMMA KrakenKeys ==
  ASSUME NEW p \in Pairs
  PROVE  Kraken!KeyOf(Name(p, "")) = Name(p, IF p \in OldNames THEN "Z" ELSE "")
<1>1. PairNamed(Name(p, ""), "") = p
  BY NameOfAPair
<1>2. Kraken!PairNamed(Name(p, ""), "") = p
  BY <1>1, KrakenShares
<1>3. Kraken!KeyOf(Name(p, "")) = IF p \in OldNames THEN Kraken!Name(p, "Z") ELSE Name(p, "")
  BY <1>2, Zenon DEF Kraken!KeyOf
<1> QED BY <1>3, KrakenShares

KrakenIsFor(h, N, P) ==
  /\ DOMAIN h = {Kraken!KeyOf(n) : n \in N}
  /\ \A p \in P : Kraken!KeyOf(Name(p, "")) \in DOMAIN h /\ h[Kraken!KeyOf(Name(p, ""))] = p
  /\ \A k \in DOMAIN h : h[k] \in P /\ k = Kraken!KeyOf(Name(h[k], ""))

\* The keys of an answer for some names are those of their pairs.
LEMMA KrakenForPairs ==
  ASSUME NEW P, P \subseteq Pairs, NEW N, N = {Name(p, "") : p \in P}, NEW h, h = KrakenFor(N)
  PROVE  KrakenIsFor(h, N, P)
<1> DEFINE K == {Kraken!KeyOf(n) : n \in N}
           at(k) == CHOOSE n \in N : Kraken!KeyOf(n) = k
<1>1. DOMAIN h = K /\ \A k \in K : h[k] = Kraken!PairNamed(at(k), "")
  BY DEF KrakenFor
<1>2. ASSUME NEW k \in K, NEW p \in P, k = Kraken!KeyOf(Name(p, ""))
      PROVE  h[k] = p
  <2>1. \E n \in N : Kraken!KeyOf(n) = k
    BY <1>2
  <2>2. at(k) \in N /\ Kraken!KeyOf(at(k)) = k
    BY <2>1, Zenon
  <2>3. PICK q \in P : at(k) = Name(q, "")
    BY <2>2
  <2>4. Kraken!KeyOf(Name(q, "")) = Kraken!KeyOf(Name(p, ""))
    BY <1>2, <2>2, <2>3
  <2>5. Name(q, IF q \in OldNames THEN "Z" ELSE "") = Name(p, IF p \in OldNames THEN "Z" ELSE "")
    BY <2>4, KrakenKeys
  <2>6. q = p
    BY <2>5, NamesTellPairs
  <2>7. Kraken!PairNamed(Name(p, ""), "") = p
    BY NameOfAPair, KrakenShares
  <2> QED BY <1>1, <2>3, <2>6, <2>7
<1> HIDE DEF at
<1>3. ASSUME NEW p \in P PROVE Kraken!KeyOf(Name(p, "")) \in K
  OBVIOUS
<1>4. ASSUME NEW k \in K PROVE \E p \in P : k = Kraken!KeyOf(Name(p, ""))
  OBVIOUS
<1>5. DOMAIN h = {Kraken!KeyOf(n) : n \in N}
  BY <1>1
<1> HIDE DEF K
<1>6. ASSUME NEW p \in P
      PROVE  Kraken!KeyOf(Name(p, "")) \in DOMAIN h /\ h[Kraken!KeyOf(Name(p, ""))] = p
  BY <1>1, <1>2, <1>3
<1>7. ASSUME NEW k \in DOMAIN h
      PROVE  h[k] \in P /\ k = Kraken!KeyOf(Name(h[k], ""))
  <2>1. PICK p \in P : k = Kraken!KeyOf(Name(p, ""))
    BY <1>1, <1>4
  <2>2. h[k] = p
    BY <1>1, <1>2, <2>1
  <2> QED BY <2>1, <2>2, Zenon
<1> QED BY <1>5, <1>6, <1>7, Zenon DEF KrakenIsFor

\* A result about one pair.
LEMMA KrakenForOne ==
  ASSUME NEW p \in Pairs, NEW N, N = {Name(p, "")}
  PROVE  DOMAIN KrakenFor(N) # {} /\ \A k \in DOMAIN KrakenFor(N) : KrakenFor(N)[k] = p
<1> DEFINE h == KrakenFor(N)
<1>1. {p} \subseteq Pairs /\ N = {Name(x, "") : x \in {p}}
  OBVIOUS
<1>a. h = KrakenFor(N)
  OBVIOUS
<1> HIDE DEF h
<1>b. KrakenIsFor(h, N, {p})
  BY <1>1, <1>a, KrakenForPairs
<1>2. /\ \A x \in {p} : Kraken!KeyOf(Name(x, "")) \in DOMAIN h
      /\ \A k \in DOMAIN h : h[k] \in {p}
  BY <1>b, Zenon DEF KrakenIsFor
<1> QED BY <1>2 DEF h

\* The only entry of a map in which all entries are the same.
LEMMA KrakenOnly ==
  ASSUME NEW R, NEW v, DOMAIN R # {}, \A k \in DOMAIN R : R[k] = v
  PROVE  Kraken!Only(R) = v
<1> DEFINE k == CHOOSE name \in DOMAIN R : TRUE
<1>1. k \in DOMAIN R
  OBVIOUS
<1> HIDE DEF k
<1> QED BY <1>1 DEF Kraken!Only, k

\* get_status reads what Kraken answers.
LEMMA KrakenStatus ==
  ASSUME NEW m, IsExchange(m), NEW c, c.op = "get_status", NEW r, r = Kraken!Ask(c)
  PROVE  KrakenAnswers(m, c, r, m.status)
<1> DEFINE status == CASE m.status = "ONLINE" -> "online" [] m.status = "CANCEL_ONLY" -> "cancel_only"
                       [] m.status = "POST_ONLY" -> "post_only" [] OTHER -> "maintenance"
           j == Kraken!Body(m, r)
<1>1. r = Kraken!Public("SystemStatus", Kraken!None)
  BY Zenon DEF Kraken!Ask
<1>2. KrakenGets(m, r, "SystemStatus")
  <2>1. KrakenMethod("SystemStatus") /\ KrakenNames(Kraken!None)
    BY KrakenNone DEF KrakenMethod, KrakenNames
  <2> QED BY <1>1, <2>1, KrakenPublic
<1>3. Kraken!Result(m, r) = [status |-> status]
  BY <1>2, Zenon DEF Kraken!Result, KrakenGets
<1>4. m.status \in {"ONLINE", "CANCEL_ONLY", "POST_ONLY", "MAINTENANCE"}
  BY DEF IsExchange
<1>5. status = IF m.status = "ONLINE" THEN "online" ELSE IF m.status = "CANCEL_ONLY" THEN "cancel_only"
               ELSE IF m.status = "POST_ONLY" THEN "post_only" ELSE "maintenance"
  BY <1>4
<1> HIDE DEF status
<1>6. ~ (j.error # <<>>) /\ j.result.status = status
  <2>1. ~ (j.error # <<>>) /\ j.result = Kraken!Result(m, r)
    BY KrakenBody
  <2> HIDE DEF j
  <2> QED BY <1>3, <2>1
<1> HIDE DEF j
<1>7. Kraken!Read(c, j) = Kraken!Success(Kraken!read_system_status(j.result))
  BY <1>6, Zenon DEF Kraken!Read
<1>8. Kraken!read_system_status(j.result) = m.status
  BY <1>4, <1>5, <1>6 DEF Kraken!read_system_status
<1> QED BY <1>2, <1>7, <1>8, KrakenShares DEF KrakenAnswers, KrakenGets, j

\* The prices that a result holds.
LEMMA KrakenTicker ==
  ASSUME NEW m, NEW r, NEW N, KrakenGets(m, r, "Ticker"), r.query.pair = N,
         NEW j, j = Kraken!Body(m, r), NEW h, h = KrakenFor(N)
  PROVE  /\ ~ (j.error # <<>>) /\ DOMAIN j.result = DOMAIN h
         /\ \A k \in DOMAIN h : Kraken!read_ticker_price(j.result[k]) = m.price[h[k]]
<1> DEFINE T(p) == [c |-> <<Kraken!Text(m.price[p]), Kraken!Text(1)>>]
<1>1. ~ (j.error # <<>>) /\ j.result = Kraken!Result(m, r)
  BY KrakenBody
<1>2. Kraken!Result(m, r) =
        [key \in {Kraken!KeyOf(n) : n \in N} |-> T(Kraken!PairNamed(CHOOSE n \in N : Kraken!KeyOf(n) = key, ""))]
  BY Zenon DEF Kraken!Result, KrakenGets
<1>3. \A p : T(p).c[1] = Kraken!Text(m.price[p])
  OBVIOUS
<1> HIDE DEF T
<1>4. DOMAIN j.result = DOMAIN h /\ \A k \in DOMAIN h : j.result[k] = T(h[k])
  BY <1>1, <1>2 DEF KrakenFor
<1>5. \A k \in DOMAIN h : Kraken!read_ticker_price(j.result[k]) = m.price[h[k]]
  BY <1>3, <1>4, KrakenShares, TextIsRead DEF Kraken!read_ticker_price
<1> QED BY <1>1, <1>4, <1>5

\* get_price reads the price that Kraken knows.
LEMMA KrakenPrice ==
  ASSUME NEW m, NEW c, c.op = "get_price", c.pair \in Pairs, NEW r, r = Kraken!Ask(c)
  PROVE  KrakenAnswers(m, c, r, m.price[c.pair])
<1> DEFINE N == {Name(c.pair, "")}
           q == [pair |-> N]
           j == Kraken!Body(m, r)
           h == KrakenFor(N)
<1>1. r = Kraken!Public("Ticker", q)
  <2>1. r = Kraken!Public("Ticker", [pair |-> {Kraken!Name(c.pair, "")}])
    BY Zenon DEF Kraken!Ask, Kraken!Named
  <2> QED BY <2>1, KrakenShares, Zenon
<1>2. q.pair = N /\ KrakenNames(q) /\ KrakenMethod("Ticker")
  BY NameOfAPair DEF KrakenMethod, KrakenNames
<1> HIDE DEF q
<1>3. KrakenGets(m, r, "Ticker") /\ r.query = q
  BY <1>1, <1>2, KrakenPublic
<1> DEFINE p == c.pair
<1>4. DOMAIN h # {} /\ \A k \in DOMAIN h : h[k] = p
  <2>1. p \in Pairs /\ N = {Name(p, "")}
    OBVIOUS
  <2> HIDE DEF p, N
  <2> QED BY <2>1, KrakenForOne
<1> HIDE DEF N, p
<1>5. /\ ~ (j.error # <<>>) /\ DOMAIN j.result = DOMAIN h
      /\ \A k \in DOMAIN h : Kraken!read_ticker_price(j.result[k]) = m.price[h[k]]
  <2>1. KrakenGets(m, r, "Ticker") /\ r.query.pair = N
    BY <1>2, <1>3
  <2>2. j = Kraken!Body(m, r) /\ h = KrakenFor(N)
    OBVIOUS
  <2> HIDE DEF j, h
  <2> QED BY <2>1, <2>2, KrakenTicker
<1> HIDE DEF j, h
<1>6. Kraken!Read(c, j) = Kraken!Success(Kraken!read_price(j.result))
  BY <1>5, Zenon DEF Kraken!Read
<1>7. Kraken!read_price(j.result) = m.price[p]
  <2> DEFINE k == CHOOSE name \in DOMAIN j.result : TRUE
  <2>1. k \in DOMAIN h
    BY <1>4, <1>5
  <2>2. Kraken!read_price(j.result) = Kraken!read_ticker_price(j.result[k])
    BY Zenon DEF Kraken!read_price, Kraken!Only
  <2> HIDE DEF k
  <2> QED BY <1>4, <1>5, <2>1, <2>2
<1> QED BY <1>3, <1>6, <1>7, KrakenShares DEF KrakenAnswers, KrakenGets, j, p

\* get_prices reads the prices that Kraken knows.
LEMMA KrakenPricesAre ==
  ASSUME NEW m, NEW c, c.op = "get_prices", c.pairs \subseteq Pairs, NEW r, r = Kraken!Ask(c)
  PROVE  \E v : KrakenAnswers(m, c, r, v) /\ (PricesRead(v, m, c.pairs) \/ OldNameRead(v, c.pairs))
<1> DEFINE P == c.pairs
           N == {Name(p, "") : p \in P}
           q == [pair |-> N]
           j == Kraken!Body(m, r)
           h == KrakenFor(N)
           v == Kraken!read_prices(j.result)
<1>1. r = Kraken!Public("Ticker", q)
  <2>1. r = Kraken!Public("Ticker", [pair |-> {Kraken!Name(p, "") : p \in c.pairs}])
    BY Zenon DEF Kraken!Ask, Kraken!Named
  <2> QED BY <2>1, KrakenShares, Zenon
<1>2. q.pair = N /\ KrakenNames(q) /\ KrakenMethod("Ticker")
  BY NameOfAPair DEF KrakenMethod, KrakenNames
<1> HIDE DEF q
<1>3. KrakenGets(m, r, "Ticker") /\ r.query = q
  BY <1>1, <1>2, KrakenPublic
<1>4. /\ DOMAIN h = {Kraken!KeyOf(n) : n \in N}
      /\ \A p \in P : Kraken!KeyOf(Name(p, "")) \in DOMAIN h /\ h[Kraken!KeyOf(Name(p, ""))] = p
      /\ \A k \in DOMAIN h : h[k] \in P /\ k = Kraken!KeyOf(Name(h[k], ""))
  <2>1. KrakenIsFor(h, N, P)
    BY KrakenForPairs
  <2> QED BY <2>1, Zenon DEF KrakenIsFor
<1>n. \A p \in P : Name(p, "") \in N
  OBVIOUS
<1>o. \A n \in N : \E p \in P : n = Name(p, "")
  OBVIOUS
<1> HIDE DEF N
<1>5. /\ ~ (j.error # <<>>) /\ DOMAIN j.result = DOMAIN h
      /\ \A k \in DOMAIN h : Kraken!read_ticker_price(j.result[k]) = m.price[h[k]]
  <2>1. KrakenGets(m, r, "Ticker") /\ r.query.pair = N
    BY <1>2, <1>3
  <2>2. j = Kraken!Body(m, r) /\ h = KrakenFor(N)
    OBVIOUS
  <2> HIDE DEF j, h
  <2> QED BY <2>1, <2>2, KrakenTicker
<1> HIDE DEF j, h
<1>6. Kraken!Read(c, j) = Kraken!Success(v)
  BY <1>5, Zenon DEF Kraken!Read
<1>7. DOMAIN v = DOMAIN h /\ \A k \in DOMAIN h : v[k] = m.price[h[k]]
  BY <1>5 DEF Kraken!read_prices
<1> HIDE DEF v
<1>8. KrakenAnswers(m, c, r, v)
  BY <1>3, <1>6, KrakenShares DEF KrakenAnswers, KrakenGets, j
<1>9. \A p \in P : Kraken!KeyOf(Name(p, "")) = Name(p, IF p \in OldNames THEN "Z" ELSE "")
  BY KrakenKeys
<1>10. CASE P \cap OldNames = {}
  <2>1. \A p \in P : Kraken!KeyOf(Name(p, "")) = Name(p, "")
    BY <1>9, <1>10
  <2>2. DOMAIN v = N
    <3>1. \A k \in DOMAIN h : k \in N
      BY <1>4, <1>n, <2>1
    <3>2. \A n \in N : n \in DOMAIN h
      BY <1>4, <1>o, <2>1
    <3> QED BY <1>7, <3>1, <3>2
  <2>3. \A p \in P : v[Name(p, "")] = m.price[p]
    BY <1>4, <1>7, <2>1
  <2> QED BY <1>8, <2>2, <2>3 DEF N, PricesRead
<1>11. CASE P \cap OldNames # {}
  <2>1. PICK p \in P : p \in OldNames
    BY <1>11
  <2>2. Kraken!KeyOf(Name(p, "")) = Name(p, "Z")
    BY <1>9, <2>1
  <2>3. Name(p, "Z") \in DOMAIN v
    BY <1>4, <1>7, <2>2
  <2>4. \A x \in P : Name(x, "") # Name(p, "Z")
    <3> TAKE x \in P
    <3>1. "" # "Z"
      OBVIOUS
    <3> QED BY <3>1, NamesTellPairs
  <2> QED BY <1>8, <1>11, <2>3, <2>4 DEF OldNameRead
<1> QED BY <1>10, <1>11

\* A response of Kraken holds a result.
KrakenHolds(j, R) == j.result = R /\ ~ (j.error # <<>>)

\* Kraken's body holds its result.
LEMMA KrakenBodyHolds == \A m, r : KrakenHolds(Kraken!Body(m, r), Kraken!Result(m, r))
<1> TAKE m, r
<1> DEFINE j == Kraken!Body(m, r)
<1>1. j.result = Kraken!Result(m, r) /\ ~ (j.error # <<>>)
  BY KrakenBody
<1> HIDE DEF j
<1> QED BY <1>1, Zenon DEF KrakenHolds, j

\* get_tradable_pairs reads the pairs that Kraken lists.
LEMMA KrakenPairsAre ==
  ASSUME NEW m, NEW c, c.op = "get_tradable_pairs", NEW r, r = Kraken!Ask(c)
  PROVE  KrakenAnswers(m, c, r, Pairs)
<1> DEFINE N == {Name(p, "") : p \in Pairs}
           j == Kraken!Body(m, r)
           h == KrakenFor(N)
           T(p) == [wsname |-> Kraken!Name(p, "/")]
           P(w) == [asset |-> w.wsname[1], price_unit |-> w.wsname[3]]
           v == {P(j.result[k]) : k \in DOMAIN j.result}
<1>1. r = Kraken!Public("AssetPairs", Kraken!None)
  BY Zenon DEF Kraken!Ask
<1>2. KrakenGets(m, r, "AssetPairs")
  <2>1. KrakenMethod("AssetPairs") /\ KrakenNames(Kraken!None)
    BY KrakenNone DEF KrakenMethod, KrakenNames
  <2> QED BY <1>1, <2>1, KrakenPublic
<1>3. Kraken!Result(m, r) =
        [key \in {Kraken!KeyOf(n) : n \in {Kraken!Named(p) : p \in Pairs}} |->
           T(Kraken!PairNamed(CHOOSE n \in {Kraken!Named(p) : p \in Pairs} : Kraken!KeyOf(n) = key, ""))]
  BY <1>2, Zenon DEF Kraken!Result, KrakenGets
<1>4. {Kraken!Named(p) : p \in Pairs} = N
  BY KrakenShares, Zenon DEF Kraken!Named
<1>5. \A p \in Pairs : P(T(p)) = p
  <2> TAKE p \in Pairs
  <2> DEFINE n == Kraken!Name(p, "/")
  <2>1. n[1] = p.asset /\ n[3] = p.price_unit
    BY DEF Kraken!Name
  <2> HIDE DEF n
  <2>2. T(p) = [wsname |-> n]
    BY DEF n
  <2>3. p = [asset |-> p.asset, price_unit |-> p.price_unit]
    BY FiltersAssumption
  <2>4. P(T(p)) = [asset |-> n[1], price_unit |-> n[3]]
    BY <2>2
  <2> QED BY <2>1, <2>3, <2>4
<1>6. KrakenHolds(j, Kraken!Result(m, r))
  BY KrakenBodyHolds
<1>7. KrakenIsFor(h, N, Pairs)
  BY KrakenForPairs
<1> HIDE DEF T, N, j, P
<1>8. DOMAIN j.result = DOMAIN h /\ \A k \in DOMAIN h : j.result[k] = T(h[k])
  <2>1. j.result = [key \in {Kraken!KeyOf(n) : n \in N} |-> T(Kraken!PairNamed(CHOOSE n \in N : Kraken!KeyOf(n) = key, ""))]
    <3> DEFINE G(M) == [key \in {Kraken!KeyOf(n) : n \in M} |-> T(Kraken!PairNamed(CHOOSE n \in M : Kraken!KeyOf(n) = key, ""))]
               M0 == {Kraken!Named(p) : p \in Pairs}
    <3>1. Kraken!Result(m, r) = G(M0)
      BY <1>3
    <3>2. M0 = N
      BY <1>4
    <3> HIDE DEF G, M0
    <3>3. Kraken!Result(m, r) = G(N)
      BY <3>1, <3>2
    <3> QED BY <1>6, <3>3, Zenon DEF KrakenHolds, G
  <2> QED BY <2>1 DEF KrakenFor
<1> HIDE DEF h
<1>9. v = Pairs
  <2>1. ASSUME NEW p \in Pairs PROVE p \in v
    <3>1. Kraken!KeyOf(Name(p, "")) \in DOMAIN h /\ h[Kraken!KeyOf(Name(p, ""))] = p
      BY <1>7, Zenon DEF KrakenIsFor
    <3> QED BY <1>5, <1>8, <3>1
  <2>2. ASSUME NEW k \in DOMAIN j.result PROVE P(j.result[k]) \in Pairs
    <3>1. h[k] \in Pairs
      BY <1>7, <1>8, Zenon DEF KrakenIsFor
    <3> QED BY <1>5, <1>8, <3>1
  <2> QED BY <2>1, <2>2
<1>10. Kraken!Read(c, j) = Kraken!Success(Kraken!read_tradable_pairs(j.result))
  BY <1>6, Zenon DEF Kraken!Read, KrakenHolds
<1>11. Kraken!read_tradable_pairs(j.result) = v
  BY Zenon DEF Kraken!read_tradable_pairs, P
<1> QED BY <1>2, <1>9, <1>10, <1>11, KrakenShares DEF KrakenAnswers, KrakenGets, j

\* get_balances reads the balances that Kraken knows.
LEMMA KrakenBalances ==
  ASSUME NEW m, IsExchange(m), NEW c, c.op = "get_balances", NEW r, r = Kraken!Ask(c)
  PROVE  KrakenAnswers(m, c, r, m.balances)
<1> DEFINE A == DOMAIN m.balances
           t == [a \in A |-> Kraken!Text(m.balances[a])]
           j == Kraken!Body(m, r)
           v == [a \in DOMAIN j.result |-> Kraken!Stod(j.result[a])]
<1>1. r = Kraken!Private("Balance", Kraken!None)
  BY Zenon DEF Kraken!Ask
<1>2. KrakenGets(m, r, "Balance")
  <2>1. KrakenMethod("Balance") /\ KrakenPairNamed(Kraken!None)
    BY KrakenNone DEF KrakenMethod, KrakenPairNamed
  <2> QED BY <1>1, <2>1, KrakenPrivate
<1>3. Kraken!Result(m, r) = t
  BY <1>2, Zenon DEF Kraken!Result, KrakenGets
<1>4. KrakenHolds(j, Kraken!Result(m, r))
  BY KrakenBodyHolds
<1>5. m.balances = [a \in A |-> m.balances[a]]
  BY DEF IsExchange
<1> HIDE DEF j
<1>6. j.result = t
  BY <1>3, <1>4, Zenon DEF KrakenHolds
<1>7. v = m.balances
  <2>1. \A a \in A : Kraken!Stod(t[a]) = m.balances[a]
    BY KrakenShares, TextIsRead
  <2>2. v = [a \in A |-> Kraken!Stod(t[a])]
    BY <1>6
  <2> HIDE DEF v, t, A
  <2> QED BY <1>5, <2>1, <2>2
<1>8. Kraken!Read(c, j) = Kraken!Success(Kraken!read_balances(j.result))
  BY <1>4, Zenon DEF Kraken!Read, KrakenHolds
<1>9. Kraken!read_balances(j.result) = v
  BY Zenon DEF Kraken!read_balances
<1> QED BY <1>2, <1>7, <1>8, <1>9, KrakenShares DEF KrakenAnswers, KrakenGets, j

\* get_fee reads the fee that Kraken knows.
LEMMA KrakenFee ==
  ASSUME NEW m, NEW c, c.op = "get_fee", c.pair \in Pairs, NEW r, r = Kraken!Ask(c)
  PROVE  KrakenAnswers(m, c, r, m.fee * 100)
<1> DEFINE name == Name(c.pair, "")
           N == {name}
           q == [pair |-> name]
           j == Kraken!Body(m, r)
           h == KrakenFor(N)
           t == [fee |-> Kraken!Text(m.fee * 100)]
           T(p) == t
           f == [key \in {Kraken!KeyOf(n) : n \in N} |-> T(Kraken!PairNamed(CHOOSE n \in N : Kraken!KeyOf(n) = key, ""))]
<1>1. r = Kraken!Private("TradeVolume", q)
  <2>1. r = Kraken!Private("TradeVolume", [pair |-> Kraken!Name(c.pair, "")])
    BY Zenon DEF Kraken!Ask, Kraken!Named
  <2> QED BY <2>1, KrakenShares, Zenon
<1>2. q.pair = name /\ KrakenPairNamed(q) /\ KrakenMethod("TradeVolume")
  BY NameOfAPair DEF KrakenMethod, KrakenPairNamed
<1> HIDE DEF q
<1>3. KrakenGets(m, r, "TradeVolume") /\ r.content = q
  BY <1>1, <1>2, KrakenPrivate
<1>4. DOMAIN h # {}
  <2>1. c.pair \in Pairs /\ N = {Name(c.pair, "")}
    OBVIOUS
  <2> HIDE DEF N
  <2> QED BY <2>1, KrakenForOne
<1>5. t.fee = Text(m.fee * 100)
  BY KrakenShares
<1> HIDE DEF name, t
<1>6. Kraken!Result(m, r) = [fees |-> f]
  <2>1. r.content.pair = name
    BY <1>2, <1>3
  <2> QED BY <1>3, <2>1, Zenon DEF Kraken!Result, KrakenGets, t
<1>7. DOMAIN f = DOMAIN h /\ \A k \in DOMAIN f : f[k] = t
  BY DEF KrakenFor
<1> HIDE DEF f, h, N
<1>8. Kraken!Only(f) = t
  BY <1>4, <1>7, KrakenOnly
<1>9. KrakenHolds(j, Kraken!Result(m, r))
  BY KrakenBodyHolds
<1> HIDE DEF j
<1>10. j.result.fees = f
  BY <1>6, <1>9 DEF KrakenHolds
<1>11. Kraken!Read(c, j) = Kraken!Success(Kraken!read_fee(j.result))
  BY <1>9, Zenon DEF Kraken!Read, KrakenHolds
<1>12. Kraken!read_fee(j.result) = Kraken!Stod(t.fee)
  BY <1>8, <1>10, Zenon DEF Kraken!read_fee
<1>13. Kraken!Stod(t.fee) = m.fee * 100
  BY <1>5, KrakenShares, TextIsRead
<1> QED BY <1>3, <1>11, <1>12, <1>13, KrakenShares DEF KrakenAnswers, KrakenGets, j

KrakenRow(k) ==
  <<k.time, Text(k.open), Text(k.high), Text(k.low), Text(k.close), Text(0), Text(k.volume), 1>>
KrakenOfRow(w) == Candle(w[1], Stod(w[2]), Stod(w[3]), Stod(w[4]), Stod(w[5]), Stod(w[7]))

\* Kraken's rows of candles are read as the candles they were made of.
LEMMA KrakenCandlesRead ==
  ASSUME NEW x \in Seq(Candles), NEW n \in Nat
  PROVE  LET t == [i \in DOMAIN x |-> KrakenRow(x[i])]
             z == Newest(t, n)
         IN  [i \in DOMAIN z |-> KrakenOfRow(z[i])] = Newest(x, n)
<1> DEFINE t == [i \in DOMAIN x |-> KrakenRow(x[i])]
           z == Newest(t, n)
           U == {KrakenRow(k) : k \in Candles}
           L == Least(n, Len(x))
           y == [i \in DOMAIN z |-> KrakenOfRow(z[i])]
<1>1. \A k \in Candles : KrakenOfRow(KrakenRow(k)) = k
  <2> TAKE k \in Candles
  <2> DEFINE w == KrakenRow(k)
  <2>1. w[1] = k.time /\ w[2] = Text(k.open) /\ w[3] = Text(k.high) /\ w[4] = Text(k.low) /\ w[5] = Text(k.close)
        /\ w[7] = Text(k.volume)
    BY DEF KrakenRow
  <2> HIDE DEF w
  <2>2. KrakenOfRow(w) = Candle(k.time, k.open, k.high, k.low, k.close, k.volume)
    BY <2>1, TextIsRead, Zenon DEF KrakenOfRow
  <2>3. Candle(k.time, k.open, k.high, k.low, k.close, k.volume) = k
    BY DEF Candle, Candles
  <2> QED BY <2>2, <2>3 DEF w
<1>2. t \in Seq(U) /\ Len(t) = Len(x) /\ \A i \in 1 .. Len(x) : t[i] = KrakenRow(x[i]) /\ x[i] \in Candles
  <2>1. \A i \in 1 .. Len(x) : KrakenRow(x[i]) \in U
    OBVIOUS
  <2> HIDE DEF U
  <2> QED BY <2>1
<1> HIDE DEF t, U
<1>3. z \in Seq(U) /\ Len(z) = L /\ \A i \in 1 .. L : z[i] = t[Len(x) - i + 1]
  <2>1. Newest(t, n) \in Seq(U) /\ Len(Newest(t, n)) = Least(n, Len(t))
        /\ \A i \in 1 .. Least(n, Len(t)) : Newest(t, n)[i] = t[Len(t) - i + 1]
    BY <1>2, NewestOfArray
  <2> QED BY <1>2, <2>1
<1>4. Newest(x, n) \in Seq(Candles) /\ Len(Newest(x, n)) = L /\ \A i \in 1 .. L : Newest(x, n)[i] = x[Len(x) - i + 1]
  BY NewestOfArray
<1>5. L \in Nat /\ L <= Len(x)
  BY DEF Least
<1> HIDE DEF z, L
<1>6. \A i \in 1 .. L : KrakenOfRow(z[i]) = x[Len(x) - i + 1] /\ x[Len(x) - i + 1] \in Candles
  BY <1>1, <1>2, <1>3, <1>5
<1>7. y \in Seq(Candles) /\ Len(y) = L /\ \A i \in 1 .. L : y[i] = x[Len(x) - i + 1]
  <2>1. DOMAIN z = 1 .. L
    BY <1>3, <1>5
  <2>2. y = [i \in 1 .. L |-> KrakenOfRow(z[i])]
    BY <2>1
  <2> HIDE DEF y
  <2> QED BY <1>5, <1>6, <2>2
<1> HIDE DEF y
<1>8. y = Newest(x, n)
  BY <1>4, <1>7, SeqEqual
<1> QED BY <1>8, Zenon DEF y, z, t

\* What the service sends about one pair.
KrakenCandles(m, r, p) ==
  Kraken!Each(m.candles[p][IF r.query.interval = Kraken!Text(1) THEN "1m" ELSE "1d"], LAMBDA k :
    <<k.time, Kraken!Text(k.open), Kraken!Text(k.high), Kraken!Text(k.low), Kraken!Text(k.close),
      Kraken!Text(0), Kraken!Text(k.volume), 1>>)

KrakenAllCandles(m, r, N) ==
  [key \in {Kraken!KeyOf(n) : n \in N} |->
     KrakenCandles(m, r, Kraken!PairNamed(CHOOSE n \in N : Kraken!KeyOf(n) = key, ""))]

\* Kraken's result for OHLC.
LEMMA KrakenOHLC ==
  ASSUME NEW m, NEW r, KrakenGets(m, r, "OHLC")
  PROVE  Kraken!Result(m, r) = KrakenAllCandles(m, r, r.query.pair)
BY ZenonT(60) DEF Kraken!Result, KrakenGets, KrakenCandles, KrakenAllCandles

\* get_ohlcv reads the newest candles that Kraken knows, the newest first.
LEMMA KrakenCandlesAre ==
  ASSUME NEW m, IsExchange(m), NEW c, c.op = "get_ohlcv", c.pair \in Pairs, c.interval \in Intervals,
         c.count \in Nat, NEW r, r = Kraken!Ask(c)
  PROVE  KrakenAnswers(m, c, r, Newest(m.candles[c.pair][c.interval], c.count))
<1> DEFINE p == c.pair
           N == {Name(p, "")}
           minutes == Text(Minutes(c.interval))
           q == [pair |-> N, interval |-> minutes]
           j == Kraken!Body(m, r)
           h == KrakenFor(N)
           s == m.candles[p][c.interval]
           t == [i \in DOMAIN s |-> KrakenRow(s[i])]
           z == Newest(t, c.count)
           y == [i \in DOMAIN z |-> KrakenOfRow(z[i])]
           T(x) == KrakenCandles(m, r, x)
<1>1. r = Kraken!Public("OHLC", q)
  <2>1. r = Kraken!Public("OHLC", [pair |-> {Kraken!Name(c.pair, "")}, interval |-> Kraken!Text(Kraken!Minutes(c.interval))])
    BY Zenon DEF Kraken!Ask, Kraken!Named
  <2> QED BY <2>1, KrakenShares, Zenon
<1>i. (IF minutes = Text(1) THEN "1m" ELSE "1d") = c.interval
  <2>1. Minutes("1m") = 1 /\ Minutes("1d") = 1440
    <3>1. 60 \div 60 = 1 /\ 86400 \div 60 = 1440
      OBVIOUS
    <3> QED BY <3>1 DEF Minutes, Seconds
  <2>2. c.interval \in {"1m", "1d"}
    BY DEF Intervals
  <2>3. CASE c.interval = "1m"
    BY <2>1, <2>3
  <2>4. CASE c.interval = "1d"
    <3>1. minutes = Text(1440)
      BY <2>1, <2>4
    <3>2. Text(1440) # Text(1)
      BY TextTells
    <3> QED BY <2>4, <3>1, <3>2
  <2> QED BY <2>2, <2>3, <2>4
<1> HIDE DEF minutes
<1>2. q.pair = N /\ KrakenNames(q) /\ KrakenMethod("OHLC") /\ q.interval = minutes
  BY NameOfAPair DEF KrakenMethod, KrakenNames
<1> HIDE DEF q
<1>3. KrakenGets(m, r, "OHLC") /\ r.query = q
  BY <1>1, <1>2, KrakenPublic
<1>4. DOMAIN h # {} /\ \A k \in DOMAIN h : h[k] = p
  <2>1. p \in Pairs /\ N = {Name(p, "")}
    OBVIOUS
  <2> HIDE DEF p, N
  <2> QED BY <2>1, KrakenForOne
<1> HIDE DEF N
<1>5. Kraken!Result(m, r) =
        [key \in {Kraken!KeyOf(n) : n \in N} |-> T(Kraken!PairNamed(CHOOSE n \in N : Kraken!KeyOf(n) = key, ""))]
  <2>1. r.query.pair = N
    BY <1>2, <1>3
  <2>2. KrakenGets(m, r, "OHLC")
    BY <1>3
  <2>3. Kraken!Result(m, r) = KrakenAllCandles(m, r, r.query.pair)
    BY <2>2, KrakenOHLC
  <2>4. Kraken!Result(m, r) = KrakenAllCandles(m, r, N)
    BY <2>1, <2>3
  <2>5. KrakenAllCandles(m, r, N) = [key \in {Kraken!KeyOf(n) : n \in N} |->
           T(Kraken!PairNamed(CHOOSE n \in N : Kraken!KeyOf(n) = key, ""))]
    BY DEF KrakenAllCandles
  <2> HIDE DEF T
  <2> QED BY <2>4, <2>5
<1>6. T(p) = t
  <2>1. (IF r.query.interval = Kraken!Text(1) THEN "1m" ELSE "1d") = c.interval
    BY <1>i, <1>2, <1>3, KrakenShares
  <2> QED BY <2>1, KrakenShares, Zenon DEF Kraken!Each, KrakenRow, KrakenCandles
<1>7. KrakenHolds(j, Kraken!Result(m, r))
  BY KrakenBodyHolds
<1> HIDE DEF T, t, p, j
<1>8. DOMAIN j.result = DOMAIN h /\ \A k \in DOMAIN h : j.result[k] = t
  <2>1. j.result = [key \in {Kraken!KeyOf(n) : n \in N} |-> T(Kraken!PairNamed(CHOOSE n \in N : Kraken!KeyOf(n) = key, ""))]
    BY <1>5, <1>7, Zenon DEF KrakenHolds
  <2>2. DOMAIN j.result = DOMAIN h /\ \A k \in DOMAIN h : j.result[k] = T(h[k])
    BY <2>1 DEF KrakenFor
  <2> HIDE DEF h
  <2> QED BY <1>4, <1>6, <2>2
<1> HIDE DEF h
<1>9. Kraken!Only(j.result) = t
  BY <1>4, <1>8, KrakenOnly
<1>10. Kraken!Read(c, j) = Kraken!Success(Kraken!read_ohlcv_data(j.result, c.count))
  BY <1>7, Zenon DEF Kraken!Read, KrakenHolds
<1>11. Kraken!read_ohlcv_data(j.result, c.count) = y
  <2> HIDE DEF z
  <2>1. Kraken!Newest(Kraken!Only(j.result), c.count) = z
    BY <1>9, KrakenShares, Zenon DEF z
  <2>2. Kraken!read_ohlcv_data(j.result, c.count) =
          Kraken!Each(z, LAMBDA k : Kraken!Candle(k[1], Kraken!Stod(k[2]), Kraken!Stod(k[3]), Kraken!Stod(k[4]), Kraken!Stod(k[5]), Kraken!Stod(k[7])))
    BY <2>1, Zenon DEF Kraken!read_ohlcv_data
  <2>3. Kraken!Each(z, LAMBDA k : Kraken!Candle(k[1], Kraken!Stod(k[2]), Kraken!Stod(k[3]), Kraken!Stod(k[4]), Kraken!Stod(k[5]), Kraken!Stod(k[7]))) = y
    BY KrakenShares, Zenon DEF Kraken!Each, Kraken!Candle, Candle, KrakenOfRow
  <2> QED BY <2>2, <2>3, Zenon
<1>12. s \in Seq(Candles)
  BY DEF IsExchange, p
<1>13. y = Newest(s, c.count)
  <2> HIDE DEF s
  <2> QED BY <1>12, KrakenCandlesRead DEF t
<1> QED BY <1>3, <1>10, <1>11, <1>13, KrakenShares DEF KrakenAnswers, KrakenGets, j, p

KrakenTexts(l) == [i \in DOMAIN l |-> <<Text(l[i].price), Text(l[i].volume), l[i].time>>]

\* Kraken's levels, all or the first n, are read as the levels they were made of.
LEMMA KrakenLevelsRead ==
  ASSUME NEW l \in Seq(Levels), NEW n \in Nat, NEW side
  PROVE  /\ Len(KrakenTexts(l)) = Len(l)
         /\ SameLevels(EntriesOf(First(KrakenTexts(l), n), side), First(l, n))
         /\ \A e \in ToSet(EntriesOf(First(KrakenTexts(l), n), side)) : e.side = side
         /\ SameLevels(EntriesOf(KrakenTexts(l), side), l)
         /\ \A e \in ToSet(EntriesOf(KrakenTexts(l), side)) : e.side = side
<1> DEFINE t == KrakenTexts(l)
           z == First(t, n)
           f == First(l, n)
           b == EntriesOf(z, side)
           d == EntriesOf(t, side)
           row(k) == <<Text(k.price), Text(k.volume), k.time>>
           U == {row(k) : k \in Levels}
           L == Least(n, Len(l))
<1>0. \A k : row(k)[1] = Text(k.price) /\ row(k)[2] = Text(k.volume)
  OBVIOUS
<1>1. t \in Seq(U) /\ Len(t) = Len(l) /\ \A i \in 1 .. Len(l) : t[i] = row(l[i])
  <2>1. \A i \in 1 .. Len(l) : row(l[i]) \in U
    OBVIOUS
  <2>2. t = [i \in 1 .. Len(l) |-> row(l[i])]
    BY DEF KrakenTexts
  <2> HIDE DEF U, t, row
  <2> QED BY <2>1, <2>2
<1> HIDE DEF t, U, row
<1>2. z \in Seq(U) /\ Len(z) = L /\ \A i \in 1 .. L : z[i] = t[i]
  <2>1. First(t, n) \in Seq(U) /\ Len(First(t, n)) = Least(n, Len(t))
        /\ \A i \in 1 .. Least(n, Len(t)) : First(t, n)[i] = t[i]
    BY <1>1, FirstOfArray
  <2> QED BY <1>1, <2>1
<1>3. f \in Seq(Levels) /\ Len(f) = L /\ \A i \in 1 .. L : f[i] = l[i]
  BY FirstOfArray
<1>4. L \in Nat /\ L <= Len(l)
  BY DEF Least
<1> HIDE DEF z, f, L
<1>5. \A i \in 1 .. Len(l) : Stod(t[i][1]) = l[i].price /\ Stod(t[i][2]) = l[i].volume
  <2> TAKE i \in 1 .. Len(l)
  <2>1. t[i][1] = Text(l[i].price) /\ t[i][2] = Text(l[i].volume)
    BY <1>0, <1>1
  <2> QED BY <2>1, TextIsRead
<1>6. \A i \in 1 .. L : Stod(z[i][1]) = f[i].price /\ Stod(z[i][2]) = f[i].volume
  BY <1>2, <1>3, <1>4, <1>5
<1>7. DOMAIN f = 1 .. L /\ DOMAIN z = 1 .. L /\ DOMAIN t = 1 .. Len(l) /\ DOMAIN l = 1 .. Len(l)
  BY <1>1, <1>2, <1>3, <1>4
<1>8. b = [i \in DOMAIN f |-> Entry(f[i].price, f[i].volume, side)]
  BY <1>6, <1>7, Zenon DEF EntriesOf
<1>9. d = [i \in DOMAIN l |-> Entry(l[i].price, l[i].volume, side)]
  BY <1>5, <1>7, Zenon DEF EntriesOf
<1> HIDE DEF b, d
<1>10. SameLevels(b, f) /\ \A e \in ToSet(b) : e.side = side
  BY <1>3, <1>8, LevelsAreRead
<1>11. SameLevels(d, l) /\ \A e \in ToSet(d) : e.side = side
  BY <1>9, LevelsAreRead
<1> QED BY <1>1, <1>10, <1>11 DEF b, d, z, f, t

\* What the service sends about one pair.
KrakenDepthOf(m, r, p) ==
  LET levels(l) == Kraken!Each(Kraken!First(l, Kraken!Stod(r.query.count)), LAMBDA e :
                     <<Kraken!Text(e.price), Kraken!Text(e.volume), e.time>>)
  IN  [asks |-> levels(m.book[p].asks), bids |-> levels(m.book[p].bids)]

KrakenAllDepths(m, r, N) ==
  [key \in {Kraken!KeyOf(n) : n \in N} |->
     KrakenDepthOf(m, r, Kraken!PairNamed(CHOOSE n \in N : Kraken!KeyOf(n) = key, ""))]

\* Kraken's result for Depth.
LEMMA KrakenDepth ==
  ASSUME NEW m, NEW r, KrakenGets(m, r, "Depth")
  PROVE  Kraken!Result(m, r) = KrakenAllDepths(m, r, r.query.pair)
BY ZenonT(60) DEF Kraken!Result, KrakenGets, KrakenDepthOf, KrakenAllDepths

\* A book whose bids are as many as its asks is the first levels of the one known.
LEMMA KrakenBookIsRead ==
  ASSUME NEW asks \in Seq(Levels), NEW bids \in Seq(Levels), NEW b, NEW stamp, kind = "kraken",
         b = Book(stamp, EntriesOf(KrakenTexts(asks), "ASK"), EntriesOf(First(KrakenTexts(bids), Len(asks)), "BID")),
         NEW known, NEW depth, asks = First(known.asks, depth), bids = First(known.bids, depth)
  PROVE  SameBook(b, known, depth)
<1> DEFINE x == EntriesOf(KrakenTexts(asks), "ASK")
           y == EntriesOf(First(KrakenTexts(bids), Len(asks)), "BID")
<1>1. SameLevels(x, asks) /\ \A e \in ToSet(x) : e.side = "ASK"
  BY KrakenLevelsRead
<1>2. Len(asks) \in Nat
  OBVIOUS
<1>3. SameLevels(y, First(bids, Len(asks))) /\ \A e \in ToSet(y) : e.side = "BID"
  BY <1>2, KrakenLevelsRead
<1> HIDE DEF x, y
<1>4. b.asks = x /\ b.bids = y
  BY DEF Book, x, y
<1>5. SidesAreNamed(b)
  BY <1>1, <1>3, <1>4, Zenon DEF SidesAreNamed
<1> QED BY <1>1, <1>3, <1>4, <1>5, Zenon DEF SameBook

\* get_order_book reads the first levels of the book that Kraken knows.
LEMMA KrakenBookIs ==
  ASSUME NEW m, IsExchange(m), NEW c, c.op = "get_order_book", c.pair \in Pairs,
         c.depth \in Nat, NEW r, r = Kraken!Ask(c), kind = "kraken"
  PROVE  /\ r.is = "http" /\ ~ Kraken!Refuses(m, r) /\ Kraken!Effect(m, r) = m
         /\ \/ Kraken!Read(c, Kraken!Body(m, r)) = Undefined
            \/ \E v : Kraken!Read(c, Kraken!Body(m, r)) = Success(v) /\ SameBook(v, m.book[c.pair], c.depth)
<1> DEFINE p == c.pair
           N == {Name(p, "")}
           count == Text(c.depth)
           q == [pair |-> N, count |-> count]
           j == Kraken!Body(m, r)
           h == KrakenFor(N)
           book == m.book[p]
           asks == First(book.asks, c.depth)
           bids == First(book.bids, c.depth)
           A == KrakenTexts(asks)
           D == KrakenTexts(bids)
           t == [asks |-> A, bids |-> D]
           T(x) == KrakenDepthOf(m, r, x)
<1>1. r = Kraken!Public("Depth", q)
  <2>1. r = Kraken!Public("Depth", [pair |-> {Kraken!Name(c.pair, "")}, count |-> Kraken!Text(c.depth)])
    BY Zenon DEF Kraken!Ask, Kraken!Named
  <2> QED BY <2>1, KrakenShares, Zenon
<1>i. Stod(count) = c.depth
  BY TextIsRead
<1> HIDE DEF count
<1>2. q.pair = N /\ KrakenNames(q) /\ KrakenMethod("Depth") /\ q.count = count
  BY NameOfAPair DEF KrakenMethod, KrakenNames
<1> HIDE DEF q
<1>3. KrakenGets(m, r, "Depth") /\ r.query = q
  BY <1>1, <1>2, KrakenPublic
<1>4. DOMAIN h # {} /\ \A k \in DOMAIN h : h[k] = p
  <2>1. p \in Pairs /\ N = {Name(p, "")}
    OBVIOUS
  <2> HIDE DEF p, N
  <2> QED BY <2>1, KrakenForOne
<1> HIDE DEF N
<1>5. Kraken!Result(m, r) =
        [key \in {Kraken!KeyOf(n) : n \in N} |-> T(Kraken!PairNamed(CHOOSE n \in N : Kraken!KeyOf(n) = key, ""))]
  <2>1. r.query.pair = N
    BY <1>2, <1>3
  <2>2. KrakenGets(m, r, "Depth")
    BY <1>3
  <2>3. Kraken!Result(m, r) = KrakenAllDepths(m, r, r.query.pair)
    BY <2>2, KrakenDepth
  <2>4. Kraken!Result(m, r) = KrakenAllDepths(m, r, N)
    BY <2>1, <2>3
  <2>5. KrakenAllDepths(m, r, N) = [key \in {Kraken!KeyOf(n) : n \in N} |->
           T(Kraken!PairNamed(CHOOSE n \in N : Kraken!KeyOf(n) = key, ""))]
    BY DEF KrakenAllDepths
  <2> HIDE DEF T
  <2> QED BY <2>4, <2>5
<1>6. T(p) = t
  <2>1. Kraken!Stod(r.query.count) = c.depth
    BY <1>i, <1>2, <1>3, KrakenShares
  <2>2. Kraken!First(book.asks, Kraken!Stod(r.query.count)) = asks /\ Kraken!First(book.bids, Kraken!Stod(r.query.count)) = bids
    BY <2>1, KrakenShares, Zenon
  <2> HIDE DEF asks, bids
  <2>3. T(p) = [asks |-> Kraken!Each(asks, LAMBDA e : <<Kraken!Text(e.price), Kraken!Text(e.volume), e.time>>),
                bids |-> Kraken!Each(bids, LAMBDA e : <<Kraken!Text(e.price), Kraken!Text(e.volume), e.time>>)]
    BY <2>2, Zenon DEF KrakenDepthOf
  <2> QED BY <2>3, KrakenShares, Zenon DEF Kraken!Each, KrakenTexts
<1>7. KrakenHolds(j, Kraken!Result(m, r))
  BY KrakenBodyHolds
<1>d. asks \in Seq(Levels) /\ bids \in Seq(Levels)
  <2>1. book.asks \in Seq(Levels) /\ book.bids \in Seq(Levels)
    BY DEF IsExchange
  <2> QED BY <2>1, FirstOfArray
<1> HIDE DEF T, t, p, j
<1>8. DOMAIN j.result = DOMAIN h /\ \A k \in DOMAIN h : j.result[k] = t
  <2>1. j.result = [key \in {Kraken!KeyOf(n) : n \in N} |-> T(Kraken!PairNamed(CHOOSE n \in N : Kraken!KeyOf(n) = key, ""))]
    BY <1>5, <1>7, Zenon DEF KrakenHolds
  <2>2. DOMAIN j.result = DOMAIN h /\ \A k \in DOMAIN h : j.result[k] = T(h[k])
    BY <2>1 DEF KrakenFor
  <2> HIDE DEF h
  <2> QED BY <1>4, <1>6, <2>2
<1> HIDE DEF h, A, D
<1>9. Kraken!Only(j.result) = t
  BY <1>4, <1>8, KrakenOnly
<1>10. t.asks = A /\ t.bids = D
  BY DEF t
<1>11. CASE Kraken!ReadsPastTheBids(j.result)
  <2>1. Kraken!Read(c, j) = Kraken!Undefined
    BY <1>7, <1>11, Zenon DEF Kraken!Read, KrakenHolds
  <2> QED BY <1>3, <2>1, KrakenShares, Zenon DEF KrakenGets, j
<1>12. CASE ~ Kraken!ReadsPastTheBids(j.result)
  <2>1. Kraken!Read(c, j) = Kraken!Success(Kraken!read_order_book(j.result))
    BY <1>7, <1>12, Zenon DEF Kraken!Read, KrakenHolds
  <2> DEFINE stamp == Kraken!Max({e[3] : e \in Kraken!ToSet(A) \cup Kraken!ToSet(Kraken!First(D, Kraken!Len(A)))} \cup {0})
             x == Kraken!Each(A, LAMBDA e : Kraken!Entry(Kraken!Stod(e[1]), Kraken!Stod(e[2]), "ASK"))
             y == Kraken!Each(Kraken!First(D, Len(A)), LAMBDA e : Kraken!Entry(Kraken!Stod(e[1]), Kraken!Stod(e[2]), "BID"))
             v == Kraken!read_order_book(j.result)
  <2>2. \E s : v = Kraken!Book(s, x, y)
    BY <1>9, <1>10, Zenon DEF Kraken!read_order_book
  <2>3. x = EntriesOf(A, "ASK")
    BY KrakenShares, Zenon DEF Kraken!Each, EntriesOf
  <2>4. Len(A) = Len(asks)
    BY <1>d, KrakenLevelsRead DEF A
  <2>5. y = EntriesOf(First(D, Len(asks)), "BID")
    BY <2>4, KrakenShares, Zenon DEF Kraken!Each, EntriesOf
  <2> HIDE DEF x, y, v
  <2>6. PICK s : v = Kraken!Book(s, x, y)
    BY <2>2
  <2>7. v = Book(s, EntriesOf(KrakenTexts(asks), "ASK"), EntriesOf(First(KrakenTexts(bids), Len(asks)), "BID"))
    BY <2>3, <2>5, <2>6, Zenon DEF Kraken!Book, Book, A, D
  <2>8. SameBook(v, book, c.depth)
    <3>1. asks = First(book.asks, c.depth) /\ bids = First(book.bids, c.depth)
      OBVIOUS
    <3> HIDE DEF asks, bids, book
    <3> QED BY <1>d, <2>7, <3>1, KrakenBookIsRead
  <2> QED BY <1>3, <2>1, <2>8, KrakenShares, Zenon DEF KrakenGets, j, v, p
<1> QED BY <1>11, <1>12

KrakenDescribe(o) ==
  Kraken!Description(Kraken!Whole(o.opentm), o.key, Kraken!to_order_type(o.ordertype), o.descr.pair,
                     IF o.descr.type = "buy" THEN "BUY" ELSE "SELL", Kraken!Stod(o.descr.price), Kraken!Stod(o.vol))

\* An order of Kraken's is read as the order it is.
LEMMA KrakenOrderIsRead ==
  ASSUME NEW o \in Orders, IsHeld("kraken", o), kind = "kraken"
  PROVE  OrderIsRead(KrakenDescribe(Kraken!OrderJson(o)), o)
<1> DEFINE status == IF o.state = "cancelled" THEN "canceled" ELSE o.state
           side == IF o.action = "BUY" THEN "buy" ELSE "sell"
           type == Kraken!to_order_type_str(o.type)
           descr == [pair |-> Name(o.pair, ""), type |-> side, price |-> Text(o.price)]
           j == [key |-> Text(o.id), opentm |-> Fractional(o.time), vol |-> Text(o.volume), ordertype |-> type,
                 status |-> status, descr |-> descr]
           d == KrakenDescribe(j)
           action == IF side = "buy" THEN "BUY" ELSE "SELL"
           back == Kraken!to_order_type(type)
<1>1. Kraken!OrderJson(o) = j
  BY KrakenShares, Zenon DEF Kraken!OrderJson, Kraken!Named
<1>2. o.type \in {"LIMIT", "MARKET", "STOP_LOSS", "TAKE_PROFIT"} /\ o.action \in {"BUY", "SELL"}
  <2>1. TypesHeld("kraken") = OrderTypes \ {"TRAILING_STOP_LOSS"}
    <3>1. "kraken" \in {"coinbase", "kraken"}
      OBVIOUS
    <3> QED BY <3>1, Zenon DEF TypesHeld
  <2> QED BY <2>1 DEF IsHeld, OrderTypes, Orders, Actions
<1>3. action = o.action
  BY <1>2
<1>4. back = o.type
  <2>1. /\ o.type = "LIMIT" => type = "limit"
        /\ o.type = "MARKET" => type = "market"
        /\ o.type = "STOP_LOSS" => type = "stop-loss"
        /\ o.type = "TAKE_PROFIT" => type = "take-profit"
    BY DEF Kraken!to_order_type_str
  <2>2. /\ type = "limit" => back = "LIMIT"
        /\ type = "market" => back = "MARKET"
        /\ type = "stop-loss" => back = "STOP_LOSS"
        /\ type = "take-profit" => back = "TAKE_PROFIT"
    BY DEF Kraken!to_order_type
  <2> HIDE DEF back, type
  <2> QED BY <1>2, <2>1, <2>2
<1> HIDE DEF status, side, type
<1>5. descr.pair = Name(o.pair, "") /\ descr.type = side /\ descr.price = Text(o.price)
  OBVIOUS
<1> HIDE DEF descr
<1>6. /\ j.key = Text(o.id) /\ j.opentm = Fractional(o.time) /\ j.vol = Text(o.volume) /\ j.ordertype = type /\ j.descr = descr
  OBVIOUS
<1> HIDE DEF j, action, back
<1>7. d = Description(o.time, Text(o.id), o.type, Name(o.pair, ""), o.action, o.price, o.volume)
  <2>1. d = Kraken!Description(Kraken!Whole(j.opentm), j.key, Kraken!to_order_type(j.ordertype), j.descr.pair,
                     IF j.descr.type = "buy" THEN "BUY" ELSE "SELL", Kraken!Stod(j.descr.price), Kraken!Stod(j.vol))
    BY Zenon DEF KrakenDescribe
  <2>2. /\ Kraken!Whole(j.opentm) = o.time /\ Kraken!Stod(j.vol) = o.volume /\ Kraken!Stod(j.descr.price) = o.price
    <3>1. Whole(Fractional(o.time)) = o.time
      BY DEF Whole, Fractional
    <3> QED BY <1>5, <1>6, <3>1, KrakenShares, TextIsRead
  <2>3. Kraken!to_order_type(j.ordertype) = o.type
    BY <1>4, <1>6, Zenon DEF back
  <2>4. (IF j.descr.type = "buy" THEN "BUY" ELSE "SELL") = o.action
    BY <1>3, <1>5, <1>6, Zenon DEF action
  <2> HIDE DEF d
  <2> QED BY <1>5, <1>6, <2>1, <2>2, <2>3, <2>4, KrakenOrdersAre, Zenon
<1> HIDE DEF d
<1>8. TypeRead(o.type) = o.type /\ Named(o.pair) = Name(o.pair, "")
  <2>1. TypeRead(o.type) = o.type
    BY <1>2 DEF TypeRead
  <2>2. (CASE kind = "coinbase" -> "-" [] kind = "digifinex" -> "_" [] OTHER -> "") = ""
    OBVIOUS
  <2> QED BY <2>1, <2>2, Zenon DEF Named
<1>9. OrderIsRead(Description(o.time, Text(o.id), o.type, Name(o.pair, ""), o.action, o.price, o.volume), o)
  BY <1>8 DEF OrderIsRead, Description
<1> QED BY <1>1, <1>7, <1>9, Zenon DEF d

\* The status that Kraken gives an order.
LEMMA KrakenStatusOf ==
  ASSUME NEW o, NEW status, status = (IF o.state = "cancelled" THEN "canceled" ELSE o.state)
  PROVE  Kraken!OrderJson(o).status = status
BY DEF Kraken!OrderJson

\* read_open_closed_orders keeps the orders of one state and reads them.
LEMMA KrakenOrdersAreRead ==
  ASSUME NEW m, IsExchange(m), HoldsOnly(m, "kraken"), kind = "kraken",
         NEW states, NEW state \in states, state \in {"open", "closed"}, states \subseteq {"open", "closed", "cancelled"},
         NEW t, t = Kraken!Each(InState(m, states), Kraken!OrderJson)
  PROVE  SameOrders(Kraken!read_open_closed_orders(t, state), InState(m, {state}))
<1> DEFINE s == InState(m, states)
           k == InState(m, {state})
           B == {o \in ToSet(t) : o.status = state}
           a == Among(t, B)
           v == [i \in DOMAIN a |-> KrakenDescribe(a[i])]
           g == [o \in Orders |-> Kraken!OrderJson(o)]
           U == {Kraken!OrderJson(o) : o \in Orders}
<1>0. t = [i \in DOMAIN s |-> Kraken!OrderJson(s[i])]
  BY Zenon DEF Kraken!Each
<1>6. Kraken!read_open_closed_orders(t, state) = v
  <2>1. Kraken!Among(t, {o \in Kraken!ToSet(t) : o.status = state}) = a
    BY KrakenShares
  <2> HIDE DEF a, B
  <2> QED BY <2>1, Zenon DEF Kraken!read_open_closed_orders, Kraken!Each, KrakenDescribe
<1>7. /\ s \in Seq({o \in Orders : IsHeld("kraken", o)}) /\ k \in Seq({o \in Orders : IsHeld("kraken", o)})
      /\ \A i \in 1 .. Len(s) : s[i].state \in states
  BY HeldInState
<1> HIDE DEF s, k
<1>8. /\ DOMAIN t = 1 .. Len(s)
      /\ \A i \in 1 .. Len(s) : t[i] = Kraken!OrderJson(s[i]) /\ s[i] \in Orders
  BY <1>0, <1>7
<1>9. t \in Seq(U) /\ Len(t) = Len(s)
  <2>1. Len(s) \in Nat /\ DOMAIN s = 1 .. Len(s)
    BY <1>7
  <2>2. \A i \in 1 .. Len(s) : t[i] \in U
    BY <1>8
  <2>3. t = [i \in 1 .. Len(s) |-> t[i]]
    BY <1>0, <2>1
  <2> HIDE DEF U
  <2> QED BY <2>1, <2>2, <2>3
<1>10. \A i \in 1 .. Len(s) : t[i] \in B <=> s[i].state = state
  <2> TAKE i \in 1 .. Len(s)
  <2>1. t[i] \in ToSet(t)
    BY <1>8 DEF ToSet
  <2> DEFINE status == IF s[i].state = "cancelled" THEN "canceled" ELSE s[i].state
  <2>2. t[i].status = status
    BY <1>8, KrakenStatusOf
  <2>3. status = state <=> s[i].state = state
    BY <1>7
  <2> HIDE DEF status
  <2> QED BY <2>1, <2>2, <2>3
<1>11. Images(t, s, g)
  BY <1>8, <1>9 DEF Images
<1> HIDE DEF U, g, B
<1>12. Images(a, k, g)
  <2> HIDE DEF a
  <2>2. Images(Among(t, B), InState(m, {state}), g)
    BY <1>9, <1>10, <1>11, OrdersKept DEF s
  <2> QED BY <2>2 DEF a, k
<1>13. a \in Seq(U)
  BY <1>9, AmongIs
<1> HIDE DEF a
<1>14. /\ DOMAIN a = DOMAIN k
       /\ \A i \in DOMAIN k : a[i] = Kraken!OrderJson(k[i]) /\ k[i] \in Orders /\ IsHeld("kraken", k[i])
  <2>1. DOMAIN k = 1 .. Len(k) /\ Len(a) = Len(k) /\ \A i \in 1 .. Len(k) : a[i] = g[k[i]]
    BY <1>7, <1>12 DEF Images
  <2>2. DOMAIN a = 1 .. Len(a)
    BY <1>13
  <2>3. \A i \in 1 .. Len(k) : k[i] \in {o \in Orders : IsHeld("kraken", o)}
    BY <1>7
  <2> QED BY <2>1, <2>2, <2>3 DEF g
<1>15. \A i \in DOMAIN k : OrderIsRead(v[i], k[i])
  BY <1>14, KrakenOrderIsRead
<1>16. v = [i \in DOMAIN k |-> v[i]]
  BY <1>14
<1> HIDE DEF v
<1>17. k \in Seq(Orders)
  BY <1>7
<1>18. SameOrders(v, k)
  BY <1>15, <1>16, <1>17, OrdersAreRead
<1> QED BY <1>6, <1>18 DEF k

\* get_open_orders reads the orders that Kraken holds open.
LEMMA KrakenOpenOrders ==
  ASSUME NEW m, IsExchange(m), HoldsOnly(m, "kraken"), NEW c, c.op = "get_open_orders",
         NEW r, r = Kraken!Ask(c), kind = "kraken"
  PROVE  \E v : KrakenAnswers(m, c, r, v) /\ SameOrders(v, InState(m, {"open"}))
<1> DEFINE s == InState(m, {"open"})
           t == Kraken!Each(s, Kraken!OrderJson)
           j == Kraken!Body(m, r)
           v == Kraken!read_open_closed_orders(t, "open")
<1>1. r = Kraken!Private("OpenOrders", Kraken!None)
  BY Zenon DEF Kraken!Ask
<1>2. KrakenGets(m, r, "OpenOrders")
  <2>1. KrakenMethod("OpenOrders") /\ KrakenPairNamed(Kraken!None)
    BY KrakenNone DEF KrakenMethod, KrakenPairNamed
  <2> QED BY <1>1, <2>1, KrakenPrivate
<1>3. Kraken!Result(m, r) = [open |-> Kraken!Each(Kraken!InState(m, {"open"}), Kraken!OrderJson)]
  BY <1>2, Zenon DEF Kraken!Result, KrakenGets
<1>4. Kraken!Result(m, r) = [open |-> t]
  BY <1>3, KrakenShares, Zenon
<1>5. KrakenHolds(j, Kraken!Result(m, r))
  BY KrakenBodyHolds
<1>6. SameOrders(v, s)
  <2>1. t = Kraken!Each(InState(m, {"open"}), Kraken!OrderJson)
    OBVIOUS
  <2> HIDE DEF t
  <2> QED BY <2>1, KrakenOrdersAreRead
<1> HIDE DEF t, j
<1>7. j.result.open = t
  BY <1>4, <1>5 DEF KrakenHolds
<1>8. Kraken!Read(c, j) = Kraken!Success(Kraken!read_open_closed_orders(j.result.open, "open"))
  BY <1>5, Zenon DEF Kraken!Read, KrakenHolds
<1> HIDE DEF v
<1>9. KrakenAnswers(m, c, r, v)
  BY <1>2, <1>7, <1>8, KrakenShares DEF KrakenAnswers, KrakenGets, j, v
<1> QED BY <1>6, <1>9

\* get_closed_orders reads the orders that Kraken holds closed.
LEMMA KrakenClosedOrders ==
  ASSUME NEW m, IsExchange(m), HoldsOnly(m, "kraken"), NEW c, c.op = "get_closed_orders",
         NEW r, r = Kraken!Ask(c), kind = "kraken"
  PROVE  \E v : KrakenAnswers(m, c, r, v) /\ SameOrders(v, InState(m, {"closed"}))
<1> DEFINE s == InState(m, {"closed", "cancelled"})
           t == Kraken!Each(s, Kraken!OrderJson)
           j == Kraken!Body(m, r)
           v == Kraken!read_open_closed_orders(t, "closed")
<1>1. r = Kraken!Private("ClosedOrders", Kraken!None)
  BY Zenon DEF Kraken!Ask
<1>2. KrakenGets(m, r, "ClosedOrders")
  <2>1. KrakenMethod("ClosedOrders") /\ KrakenPairNamed(Kraken!None)
    BY KrakenNone DEF KrakenMethod, KrakenPairNamed
  <2> QED BY <1>1, <2>1, KrakenPrivate
<1>3. Kraken!Result(m, r) = [closed |-> Kraken!Each(Kraken!InState(m, {"closed", "cancelled"}), Kraken!OrderJson)]
  BY <1>2, Zenon DEF Kraken!Result, KrakenGets
<1>4. Kraken!Result(m, r) = [closed |-> t]
  BY <1>3, KrakenShares, Zenon
<1>5. KrakenHolds(j, Kraken!Result(m, r))
  BY KrakenBodyHolds
<1>6. SameOrders(v, InState(m, {"closed"}))
  <2>1. t = Kraken!Each(InState(m, {"closed", "cancelled"}), Kraken!OrderJson)
    OBVIOUS
  <2> HIDE DEF t
  <2> QED BY <2>1, KrakenOrdersAreRead
<1> HIDE DEF t, j
<1>7. j.result.closed = t
  BY <1>4, <1>5 DEF KrakenHolds
<1>8. Kraken!Read(c, j) = Kraken!Success(Kraken!read_open_closed_orders(j.result.closed, "closed"))
  BY <1>5, Zenon DEF Kraken!Read, KrakenHolds
<1> HIDE DEF v
<1>9. KrakenAnswers(m, c, r, v)
  BY <1>2, <1>7, <1>8, KrakenShares DEF KrakenAnswers, KrakenGets, j, v
<1> QED BY <1>6, <1>9

\* cancel_order cancels the order at Kraken, and reads so.
LEMMA KrakenCancels ==
  ASSUME NEW m, NEW c, c.op = "cancel_order", NEW r, r = Kraken!Ask(c)
  PROVE  /\ r.is = "http" /\ Kraken!Effect(m, r) = Cancel(m, c.id)
         /\ IsOpen(m, c.id) => ~ Kraken!Refuses(m, r)
         /\ Kraken!Read(c, Kraken!Body(m, r)) = Success("void")
<1> DEFINE q == [txid |-> c.id]
           path == <<"0", "private", "CancelOrder">>
<1>0. path[3] = "CancelOrder"
  OBVIOUS
<1>1. r = Kraken!Private("CancelOrder", q)
  BY Zenon DEF Kraken!Ask
<1>2. q.txid = c.id /\ "pair" \notin DOMAIN q
  OBVIOUS
<1> HIDE DEF q
<1>3. /\ r.is = "http" /\ r.path = path /\ r.query = Kraken!None /\ r.content = q
      /\ r.sign = <<r.path, r.content>>
  BY <1>1, KrakenPrivateIs
<1> HIDE DEF path
<1>4. Kraken!IsCancel(r) /\ ~ Kraken!IsOrder(r)
  BY <1>0, <1>3 DEF Kraken!IsCancel, Kraken!IsOrder
<1>5. Kraken!Effect(m, r) = Cancel(m, c.id)
  <2>1. Kraken!Effect(m, r) = Kraken!Cancel(m, r.content.txid)
    BY <1>4, Zenon DEF Kraken!Effect
  <2> QED BY <1>2, <1>3, <2>1, KrakenOrdersAre
<1>6. ASSUME IsOpen(m, c.id) PROVE ~ Kraken!Refuses(m, r)
  <2>1. Kraken!IsOpen(m, r.content.txid)
    BY <1>2, <1>3, <1>6, KrakenShares
  <2>2. "pair" \notin DOMAIN r.query /\ "pair" \notin DOMAIN r.content
    BY <1>2, <1>3, KrakenNone
  <2> QED BY <1>3, <2>1, <2>2, Zenon DEF Kraken!Refuses
<1> DEFINE j == Kraken!Body(m, r)
<1>7. KrakenHolds(j, Kraken!Result(m, r))
  BY KrakenBodyHolds
<1> HIDE DEF j
<1>8. Kraken!Read(c, j) = Kraken!Success("void")
  BY <1>7, Zenon DEF Kraken!Read, KrakenHolds
<1> QED BY <1>3, <1>5, <1>6, <1>8, KrakenShares DEF j

\* Kraken's own error is read as a failure.
LEMMA KrakenError == \A c : Kraken!Read(c, Kraken!Error) = Fail
<1>1. Kraken!Error.error # <<>>
  BY DEF Kraken!Error
<1> QED BY <1>1, KrakenShares, Zenon DEF Kraken!Read

\* Kraken's text of an order's type is read as that type.
LEMMA KrakenTypeRead ==
  ASSUME NEW type \in {"LIMIT", "MARKET", "STOP_LOSS", "TAKE_PROFIT"}
  PROVE  /\ Kraken!to_order_type(Kraken!to_order_type_str(type)) = type
         /\ Kraken!to_order_type_str(type) = "market" <=> type = "MARKET"
<1> DEFINE text == Kraken!to_order_type_str(type)
<1>1. /\ type = "LIMIT" => text = "limit"
      /\ type = "MARKET" => text = "market"
      /\ type = "STOP_LOSS" => text = "stop-loss"
      /\ type = "TAKE_PROFIT" => text = "take-profit"
  BY DEF Kraken!to_order_type_str
<1> DEFINE back == Kraken!to_order_type(text)
<1>2. /\ text = "limit" => back = "LIMIT"
      /\ text = "market" => back = "MARKET"
      /\ text = "stop-loss" => back = "STOP_LOSS"
      /\ text = "take-profit" => back = "TAKE_PROFIT"
  BY DEF Kraken!to_order_type
<1> HIDE DEF back, text
<1>3. back = type /\ (text = "market" <=> type = "MARKET")
  BY <1>1, <1>2
<1> QED BY <1>3 DEF back, text

\* add_order enters at Kraken the order that was asked for, and reads its id.
LEMMA KrakenAdds ==
  ASSUME NEW m, IsExchange(m), NEW c, c.op = "add_order", kind = "kraken", IsOrderRequest(c.order),
         c.order.type # "TRAILING_STOP_LOSS",
         NEW F, NEW price, NEW r, r = Kraken!Ask(c)
  PROVE  AddsTo(m, c, price, F, r.is, Kraken!Refuses(m, r), Kraken!Effect(m, r), Kraken!Read(c, Kraken!Body(m, r)))
<1> DEFINE a == c.order
           n == Get(a, "VOLUME")
           limit == Get(a, "ASSET_PRICE")
           text == Kraken!to_order_type_str(a.type)
           side == IF a.action = "BUY" THEN "buy" ELSE "sell"
           q == [pair |-> Name(a.pair, ""), type |-> side, ordertype |-> text, price |-> Text(limit), volume |-> Text(n)]
           now == m.price[a.pair]
           x == IF a.type = "MARKET" THEN now ELSE limit
           o == Order(a.type, a.pair, a.action, x, n, 0, 0)
           path == <<"0", "private", "AddOrder">>
<1>p. path[3] = "AddOrder"
  OBVIOUS
<1>0. /\ a.type \in {"LIMIT", "MARKET", "STOP_LOSS", "TAKE_PROFIT"} /\ a.pair \in Pairs /\ a.action \in Actions
      /\ now \in Nat /\ now > 0 /\ n \in Nat /\ limit \in Nat
  <2>1. a.type \in {"LIMIT", "MARKET", "STOP_LOSS", "TAKE_PROFIT"} /\ a.pair \in Pairs /\ a.action \in Actions
        /\ n \in Nat /\ limit \in Nat
    BY GetIs DEF IsOrderRequest, OrderTypes
  <2>2. now \in Nat /\ now > 0
    BY <2>1 DEF IsExchange
  <2> QED BY <2>1, <2>2
<1>1. r = Kraken!Private("AddOrder", q)
  <2>0. c.order.type # "TRAILING_STOP_LOSS"
    OBVIOUS
  <2>1. r = Kraken!Private("AddOrder", Kraken!OrderQuery(a))
    BY <2>0, Zenon DEF Kraken!Ask
  <2>2. Kraken!OrderQuery(a) = q
    BY KrakenShares, KrakenOrdersAre, Zenon DEF Kraken!OrderQuery, Kraken!Named
  <2> HIDE DEF q
  <2> QED BY <2>1, <2>2
<1>t. Kraken!to_order_type(text) = a.type /\ (text = "market" <=> a.type = "MARKET")
  BY <1>0, KrakenTypeRead
<1>s. (IF side = "buy" THEN "BUY" ELSE "SELL") = a.action
  BY <1>0 DEF Actions
<1> HIDE DEF text, side
<1>2. /\ q.pair = Name(a.pair, "") /\ q.type = side /\ q.ordertype = text /\ Stod(q.volume) = n /\ Stod(q.price) = limit
  <2> HIDE DEF n, limit
  <2> QED BY TextIsRead
<1>3. IsName(q.pair, "") /\ PairNamed(q.pair, "") = a.pair
  <2> HIDE DEF a
  <2>1. IsName(Name(a.pair, ""), "") /\ PairNamed(Name(a.pair, ""), "") = a.pair
    BY <1>0, NameOfAPair
  <2> QED BY <2>1
<1> HIDE DEF q
<1>4. /\ r.is = "http" /\ r.path = path /\ r.query = Kraken!None /\ r.content = q
      /\ r.sign = <<r.path, r.content>>
  BY <1>1, KrakenPrivateIs
<1> HIDE DEF path
<1>c. ~ Kraken!IsCancel(r) /\ Kraken!IsOrder(r) /\ r.path[3] = "AddOrder"
  BY <1>p, <1>4 DEF Kraken!IsCancel, Kraken!IsOrder
<1>5. Kraken!OrderIn(m, q) = o
  <2> DEFINE p == Kraken!PairNamed(q.pair, "")
             w == Kraken!Stod(q.volume)
             z == Kraken!Stod(q.price)
             action == IF q.type = "buy" THEN "BUY" ELSE "SELL"
             type == Kraken!to_order_type(q.ordertype)
  <2>1. Kraken!OrderIn(m, q) =
          IF q.ordertype = "market" THEN Kraken!AtMarket(m, p, action, w)
          ELSE Kraken!Order(type, p, action, z, w, 0, 0)
    BY Zenon DEF Kraken!OrderIn
  <2>2. action = a.action /\ p = a.pair /\ w = n /\ z = limit /\ type = a.type
    <3>1. action = a.action
      BY <1>2, <1>s
    <3>2. p = a.pair
      BY <1>3, KrakenShares
    <3>3. w = n /\ z = limit
      BY <1>2, KrakenShares
    <3>4. type = a.type
      BY <1>2, <1>t
    <3> QED BY <3>1, <3>2, <3>3, <3>4
  <2> HIDE DEF action, p, w, z, type, n, limit
  <2>3. CASE a.type = "MARKET"
    <3>1. q.ordertype = "market"
      BY <1>2, <1>t, <2>3
    <3>3. Kraken!OrderIn(m, q) = Kraken!AtMarket(m, p, action, w)
      BY <2>1, <3>1, Zenon
    <3>5. x = m.price[a.pair]
      BY <2>3
    <3> HIDE DEF x
    <3>4. Kraken!OrderIn(m, q) = AtMarket(m, a.pair, a.action, n)
      BY <2>2, <3>3, KrakenOrdersAre
    <3> QED BY <2>3, <3>4, <3>5 DEF AtMarket
  <2>4. CASE a.type # "MARKET"
    <3>1. q.ordertype # "market"
      BY <1>2, <1>t, <2>4
    <3>2. x = limit
      BY <2>4
    <3> HIDE DEF x
    <3>3. Kraken!OrderIn(m, q) = Kraken!Order(type, p, action, z, w, 0, 0)
      BY <2>1, <3>1, Zenon
    <3>4. Kraken!OrderIn(m, q) = Order(a.type, a.pair, a.action, x, n, 0, 0)
      BY <2>2, <3>2, <3>3, KrakenOrdersAre
    <3> QED BY <3>4
  <2> QED BY <2>3, <2>4
<1>6. Kraken!Effect(m, r) = Enter(m, o)
  <2> HIDE DEF o
  <2>1. Kraken!Effect(m, r) = Kraken!Enter(m, Kraken!OrderIn(m, q))
    BY <1>4, <1>c, Zenon DEF Kraken!Effect
  <2> QED BY <2>1, <1>5, KrakenOrdersAre
<1>7. ~ Kraken!Refuses(m, r)
  <2>1. Kraken!IsName(r.content.pair, "")
    BY <1>3, <1>4, KrakenShares
  <2>2. "pair" \notin DOMAIN r.query
    BY <1>4, KrakenNone
  <2> QED BY <1>4, <1>c, <2>1, <2>2, Zenon DEF Kraken!Refuses
<1> DEFINE j == Kraken!Body(m, r)
           id == <<Kraken!Text(Kraken!NextId(m))>>
<1>8. ~ (j.error # <<>>) /\ j.result.txid[1] = Text(NextId(m))
  <2>1. KrakenHolds(j, Kraken!Result(m, r))
    BY KrakenBodyHolds
  <2>2. Kraken!Result(m, r) = [txid |-> id]
    BY <1>c, Zenon DEF Kraken!Result
  <2>3. id[1] = Text(NextId(m))
    BY KrakenShares, KrakenOrdersAre
  <2> HIDE DEF j, id
  <2> QED BY <2>1, <2>2, <2>3 DEF KrakenHolds
<1> HIDE DEF j
<1>9. Kraken!Read(c, j) = Success(Text(NextId(m)))
  <2>1. Kraken!Read(c, j) = Kraken!Success(j.result.txid[1])
    BY <1>8, Zenon DEF Kraken!Read
  <2> QED BY <1>8, <2>1, KrakenShares
<1>10. /\ o.type = a.type /\ o.pair = a.pair /\ o.action = a.action /\ o.price = x /\ o.volume = n
       /\ o.stop = 0 /\ o.delta = 0
  BY DEF Order
<1>11. o = Order(o.type, o.pair, o.action, o.price, o.volume, o.stop, o.delta)
  BY <1>10, Zenon DEF o
<1>12. x \in Nat /\ (a.type = "MARKET" => x > 0) /\ (a.type # "MARKET" => x = limit)
  BY <1>0
<1> HIDE DEF o, x, n, limit, now
<1>13. IsNew(kind, o)
  <2>1. TypesHeld("kraken") = OrderTypes \ {"TRAILING_STOP_LOSS"}
    <3>1. "kraken" \in {"coinbase", "kraken"}
      OBVIOUS
    <3> QED BY <3>1, Zenon DEF TypesHeld
  <2>3. o.type \in OrderTypes
    BY <1>0, <1>10 DEF OrderTypes
  <2>2. IsHeld(kind, o)
    BY <1>0, <1>10, <1>12, <2>1, <2>3 DEF IsHeld
  <2>4. o.action \in Actions /\ o.pair \in Pairs /\ o.price \in Nat /\ o.volume \in Nat /\ o.stop \in Nat /\ o.delta \in Nat
    BY <1>0, <1>10, <1>12
  <2> QED BY <1>11, <2>2, <2>3, <2>4, Zenon DEF IsNew
<1>14. EnteredAs(o, c, price, F)
  <2>1. kind # "binance" /\ kind # "bybit"
    OBVIOUS
  <2>4. a.type # "MARKET" => o.price = limit
    BY <1>10, <1>12
  <2> QED BY <1>10, <2>1, <2>4, Zenon DEF EnteredAs, n, limit
<1> QED BY <1>4, <1>6, <1>7, <1>9, <1>13, <1>14, Zenon DEF AddsTo, j
=============================================================================
