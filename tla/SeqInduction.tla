----------------------------- MODULE SeqInduction -----------------------------
(***************************************************************************)
(* Induction over the naturals, with a set in place of the predicate, what *)
(* Filter returns, and functions that are given step by step.              *)
(***************************************************************************)
EXTENDS SeqFilter, Integers, SequenceTheorems, WellFoundedInduction, TLAPS

USE ZenonT(5), SMTT(20), ZenonT(60)

(* Induction: a set that has 0, and with n also n + 1, has every natural.  *)
LEMMA Induction ==
  ASSUME NEW S, 0 \in S, \A n \in Nat : n \in S => n + 1 \in S
  PROVE  \A n \in Nat : n \in S
<1>. DEFINE Bad == Nat \ S
<1>1. SUFFICES ASSUME Bad # {} PROVE FALSE
  OBVIOUS
<1>2. PICK x \in Bad : \A y \in Bad : ~ (<<y, x>> \in OpToRel(<, Nat))
  <2>1. Bad \subseteq Nat
    OBVIOUS
  <2>. HIDE DEF Bad
  <2>. QED
    BY <1>1, <2>1, NatLessThanWellFounded, WFMin
<1>3. x \in Nat /\ x - 1 \in Bad
  OBVIOUS
<1>4. <<x - 1, x>> \in OpToRel(<, Nat)
  BY <1>3 DEF OpToRel
<1>. QED
  BY <1>2, <1>3, <1>4

(* A set of naturals that is not empty has a least one.                    *)
LEMMA Least ==
  ASSUME NEW S, S \subseteq Nat, S # {}
  PROVE  \E x \in S : \A y \in S : x <= y
<1>1. PICK x \in S : \A y \in S : ~ (<<y, x>> \in OpToRel(<, Nat))
  BY NatLessThanWellFounded, WFMin
<1>2. \A y \in S : ~ (y < x)
  BY <1>1 DEF OpToRel
<1>. QED
  BY <1>2

(* Induction up to a bound.                                                *)
LEMMA InductionUpTo ==
  ASSUME NEW N \in Nat, NEW S, 0 \in S, \A n \in 1..N : n - 1 \in S => n \in S
  PROVE  \A n \in 0..N : n \in S
<1>. DEFINE T == {n \in Nat : n <= N => n \in S}
<1>1. 0 \in T
  OBVIOUS
<1>2. \A n \in Nat : n \in T => n + 1 \in T
  OBVIOUS
<1>. HIDE DEF T
<1>3. \A n \in Nat : n \in T
  BY <1>1, <1>2, Induction
<1>. QED
  BY <1>3 DEF T

-----------------------------------------------------------------------------
(* Filtered satisfies the equation that defines it.                        *)
LEMMA FilteredDef ==
  ASSUME NEW s, NEW T, Len(s) \in Nat
  PROVE  Filtered(s, T) =
           [n \in 0..Len(s) |->
              IF n = 0 THEN <<>>
              ELSE IF s[n] \in T THEN Append(Filtered(s, T)[n - 1], s[n])
                                 ELSE Filtered(s, T)[n - 1]]
<1>. DEFINE Step(f, n) == IF s[n] \in T THEN Append(f[n - 1], s[n]) ELSE f[n - 1]
            Has == {m \in Nat : \E f : f[0] = <<>> /\ \A n \in 1..m : f[n] = Step(f, n)}
<1>1. 0 \in Has
  <2>. DEFINE f == [n \in 0..0 |-> <<>>]
  <2>1. f[0] = <<>> /\ \A n \in 1..0 : f[n] = Step(f, n)
    OBVIOUS
  <2>. QED
    BY <2>1
<1>2. ASSUME NEW m \in Nat, m \in Has
      PROVE  m + 1 \in Has
  <2>1. PICK f : f[0] = <<>> /\ \A n \in 1..m : f[n] = Step(f, n)
    BY <1>2
  <2>. DEFINE g == [n \in 0..(m + 1) |-> IF n = m + 1 THEN Step(f, n) ELSE f[n]]
  <2>2. g[0] = <<>> /\ \A n \in 1..(m + 1) : g[n] = Step(g, n)
    BY <2>1
  <2>. HIDE DEF g
  <2>. QED
    BY <2>2
<1>. HIDE DEF Has
<1>3. Len(s) \in Has
  BY <1>1, <1>2, Induction
<1>4. PICK f : f[0] = <<>> /\ \A n \in 1..Len(s) : f[n] = Step(f, n)
  BY <1>3 DEF Has
<1>. DEFINE g == [n \in 0..Len(s) |-> f[n]]
<1>5. g = [n \in 0..Len(s) |-> IF n = 0 THEN <<>> ELSE Step(g, n)]
  BY <1>4
<1>. HIDE DEF g
<1>. QED
  BY <1>5 DEF Filtered

(* The same, item by item.                                                 *)
LEMMA FilteredStep ==
  ASSUME NEW S, NEW s \in Seq(S), NEW T
  PROVE  /\ Filtered(s, T)[0] = <<>>
         /\ \A n \in 1..Len(s) :
              Filtered(s, T)[n] = IF s[n] \in T THEN Append(Filtered(s, T)[n - 1], s[n])
                                                ELSE Filtered(s, T)[n - 1]
<1>. DEFINE F == Filtered(s, T)
<1>1. Len(s) \in Nat
  OBVIOUS
<1>2. F = [n \in 0..Len(s) |-> IF n = 0 THEN <<>>
                               ELSE IF s[n] \in T THEN Append(F[n - 1], s[n]) ELSE F[n - 1]]
  BY <1>1, FilteredDef
<1>3. \A n \in 0..Len(s) : F[n] = IF n = 0 THEN <<>>
                                  ELSE IF s[n] \in T THEN Append(F[n - 1], s[n]) ELSE F[n - 1]
  <2>. HIDE DEF F
  <2>. QED
    BY <1>2, Zenon
<1>. HIDE DEF F
<1>4. F[0] = <<>> /\ \A n \in 1..Len(s) : F[n] = IF s[n] \in T THEN Append(F[n - 1], s[n])
                                                           ELSE F[n - 1]
  BY <1>1, <1>3
<1>. QED
  BY <1>4 DEF F

(* Filter returns items of s, those in T, and leaves none of them out.     *)
LEMMA FilterItems ==
  ASSUME NEW S, NEW s \in Seq(S), NEW T
  PROVE  /\ Filter(s, T) \in Seq(S)
         /\ \A m \in 1..Len(Filter(s, T)) :
              Filter(s, T)[m] \in T /\ \E k \in 1..Len(s) : s[k] = Filter(s, T)[m]
         /\ \A k \in 1..Len(s) :
              s[k] \in T => \E m \in 1..Len(Filter(s, T)) : Filter(s, T)[m] = s[k]
<1>. DEFINE F == Filtered(s, T)
            P(n) == /\ F[n] \in Seq(S)
                    /\ \A m \in 1..Len(F[n]) : F[n][m] \in T /\ \E k \in 1..n : s[k] = F[n][m]
                    /\ \A k \in 1..n : s[k] \in T => \E m \in 1..Len(F[n]) : F[n][m] = s[k]
            Good == {n \in 0..Len(s) : P(n)}
<1>. HIDE DEF F
<1>0. Len(s) \in Nat
  OBVIOUS
<1>1. F[0] = <<>> /\ \A n \in 1..Len(s) : F[n] = IF s[n] \in T THEN Append(F[n - 1], s[n])
                                                           ELSE F[n - 1]
  BY FilteredStep DEF F
<1>2. 0 \in Good
  <2>1. F[0] = <<>> /\ Len(F[0]) = 0 /\ F[0] \in Seq(S) /\ 0 \in 0..Len(s)
    BY <1>0, <1>1
  <2>2. P(0)
    BY <2>1
  <2>. QED
    BY <2>1, <2>2
<1>3. ASSUME NEW n \in 1..Len(s), n - 1 \in Good
      PROVE  n \in Good
  <2>1. F[n - 1] \in Seq(S) /\ s[n] \in S /\ n \in 0..Len(s)
    BY <1>3
  <2>2. CASE s[n] \in T
    <3>1. F[n] = Append(F[n - 1], s[n])
      BY <1>1, <2>2
    <3>2. /\ F[n] \in Seq(S) /\ Len(F[n]) = Len(F[n - 1]) + 1
          /\ \A m \in 1..Len(F[n - 1]) : F[n][m] = F[n - 1][m]
          /\ F[n][Len(F[n])] = s[n]
      BY <2>1, <3>1
    <3>3. Len(F[n - 1]) \in Nat
      BY <2>1
    <3>4. ASSUME NEW m \in 1..Len(F[n])
          PROVE  F[n][m] \in T /\ \E k \in 1..n : s[k] = F[n][m]
      <4>1. CASE m \in 1..Len(F[n - 1])
        <5>1. PICK k \in 1..(n - 1) : s[k] = F[n - 1][m] /\ F[n - 1][m] \in T
          BY <1>3, <4>1
        <5>. QED
          BY <3>2, <4>1, <5>1
      <4>2. CASE m = Len(F[n])
        <5>1. F[n][m] = s[n] /\ n \in 1..n
          BY <3>2, <4>2
        <5>. QED
          BY <2>2, <5>1
      <4>. QED
        BY <3>2, <3>3, <4>1, <4>2
    <3>5. ASSUME NEW k \in 1..n, s[k] \in T
          PROVE  \E m \in 1..Len(F[n]) : F[n][m] = s[k]
      <4>1. CASE k \in 1..(n - 1)
        <5>1. PICK m \in 1..Len(F[n - 1]) : F[n - 1][m] = s[k]
          BY <1>3, <3>5, <4>1
        <5>2. m \in 1..Len(F[n])
          BY <3>2, <3>3
        <5>. QED
          BY <3>2, <5>1, <5>2
      <4>2. CASE k = n
        <5>1. Len(F[n]) \in 1..Len(F[n])
          BY <3>2, <3>3
        <5>. QED
          BY <3>2, <4>2, <5>1
      <4>. QED
        BY <4>1, <4>2
    <3>. QED
      BY <2>1, <3>2, <3>4, <3>5
  <2>3. CASE s[n] \notin T
    <3>1. F[n] = F[n - 1]
      BY <1>1, <2>3
    <3>2. ASSUME NEW m \in 1..Len(F[n])
          PROVE  F[n][m] \in T /\ \E k \in 1..n : s[k] = F[n][m]
      BY <1>3, <3>1
    <3>3. ASSUME NEW k \in 1..n, s[k] \in T
          PROVE  \E m \in 1..Len(F[n]) : F[n][m] = s[k]
      BY <1>3, <2>3, <3>1, <3>3
    <3>. QED
      BY <2>1, <3>1, <3>2, <3>3
  <2>. QED
    BY <2>2, <2>3
<1>. HIDE DEF Good
<1>4. \A n \in 1..Len(s) : n - 1 \in Good => n \in Good
  BY <1>3
<1>5. \A n \in 0..Len(s) : n \in Good
  BY <1>0, <1>2, <1>4, InductionUpTo, Zenon
<1>6. Len(s) \in 0..Len(s)
  BY <1>0
<1>. QED
  BY <1>5, <1>6 DEF Good, F, Filter

(* Filter repeats nothing if s repeats no item of the set.                 *)
LEMMA FilterOnce ==
  ASSUME NEW S, NEW s \in Seq(S), NEW T,
         \A i, j \in 1..Len(s) : s[i] = s[j] /\ s[i] \in T => i = j
  PROVE  \A i, j \in 1..Len(Filter(s, T)) : Filter(s, T)[i] = Filter(s, T)[j] => i = j
<1>. DEFINE F == Filtered(s, T)
            P(n) == /\ F[n] \in Seq(S)
                    /\ \A m \in 1..Len(F[n]) : \E k \in 1..n : s[k] = F[n][m]
                    /\ \A i, j \in 1..Len(F[n]) : F[n][i] = F[n][j] => i = j
            Good == {n \in 0..Len(s) : P(n)}
<1>. HIDE DEF F
<1>0. Len(s) \in Nat
  OBVIOUS
<1>1. F[0] = <<>> /\ \A n \in 1..Len(s) : F[n] = IF s[n] \in T THEN Append(F[n - 1], s[n])
                                                           ELSE F[n - 1]
  BY FilteredStep DEF F
<1>2. 0 \in Good
  <2>1. F[0] = <<>> /\ Len(F[0]) = 0 /\ F[0] \in Seq(S) /\ 0 \in 0..Len(s)
    BY <1>0, <1>1
  <2>2. P(0)
    BY <2>1
  <2>. QED
    BY <2>1, <2>2
<1>3. ASSUME NEW n \in 1..Len(s), n - 1 \in Good
      PROVE  n \in Good
  <2>1. F[n - 1] \in Seq(S) /\ s[n] \in S /\ n \in 0..Len(s)
    BY <1>3
  <2>2. CASE s[n] \in T
    <3>1. F[n] = Append(F[n - 1], s[n])
      BY <1>1, <2>2
    <3>2. /\ F[n] \in Seq(S) /\ Len(F[n]) = Len(F[n - 1]) + 1 /\ Len(F[n - 1]) \in Nat
          /\ \A m \in 1..Len(F[n - 1]) : F[n][m] = F[n - 1][m]
          /\ F[n][Len(F[n])] = s[n]
      BY <2>1, <3>1
    <3>3. \A m \in 1..Len(F[n - 1]) : F[n - 1][m] # s[n]
      BY <1>3, <2>2
    <3>4. ASSUME NEW m \in 1..Len(F[n])
          PROVE  \E k \in 1..n : s[k] = F[n][m]
      <4>1. CASE m \in 1..Len(F[n - 1])
        <5>1. PICK k \in 1..(n - 1) : s[k] = F[n - 1][m]
          BY <1>3, <4>1
        <5>. QED
          BY <3>2, <4>1, <5>1
      <4>2. CASE m = Len(F[n])
        <5>1. F[n][m] = s[n] /\ n \in 1..n
          BY <3>2, <4>2
        <5>. QED
          BY <5>1
      <4>. QED
        BY <3>2, <4>1, <4>2
    <3>5. ASSUME NEW i \in 1..Len(F[n]), NEW j \in 1..Len(F[n]), F[n][i] = F[n][j]
          PROVE  i = j
      <4>1. CASE i \in 1..Len(F[n - 1]) /\ j \in 1..Len(F[n - 1])
        <5>1. F[n - 1][i] = F[n - 1][j]
          BY <3>2, <3>5, <4>1
        <5>. QED
          BY <1>3, <4>1, <5>1
      <4>2. CASE i = Len(F[n]) /\ j \in 1..Len(F[n - 1])
        BY <3>2, <3>3, <3>5, <4>2
      <4>3. CASE i \in 1..Len(F[n - 1]) /\ j = Len(F[n])
        BY <3>2, <3>3, <3>5, <4>3
      <4>4. \A m \in 1..Len(F[n]) : m \in 1..Len(F[n - 1]) \/ m = Len(F[n])
        BY <3>2
      <4>. QED
        BY <4>1, <4>2, <4>3, <4>4
    <3>. QED
      BY <2>1, <3>2, <3>4, <3>5
  <2>3. CASE s[n] \notin T
    <3>1. F[n] = F[n - 1]
      BY <1>1, <2>3
    <3>2. ASSUME NEW m \in 1..Len(F[n])
          PROVE  \E k \in 1..n : s[k] = F[n][m]
      <4>1. PICK k \in 1..(n - 1) : s[k] = F[n - 1][m]
        BY <1>3, <3>1
      <4>. QED
        BY <3>1, <4>1
    <3>. QED
      BY <1>3, <2>1, <3>1, <3>2
  <2>. QED
    BY <2>2, <2>3
<1>. HIDE DEF Good
<1>4. \A n \in 1..Len(s) : n - 1 \in Good => n \in Good
  BY <1>3
<1>5. \A n \in 0..Len(s) : n \in Good
  BY <1>0, <1>2, <1>4, InductionUpTo, Zenon
<1>6. Len(s) \in 0..Len(s)
  BY <1>0
<1>. QED
  BY <1>5, <1>6 DEF Good, F, Filter

(* Filter returns s if all its items are in T.                             *)
LEMMA FilterAll ==
  ASSUME NEW S, NEW s \in Seq(S), NEW T, \A n \in 1..Len(s) : s[n] \in T
  PROVE  Filter(s, T) = s
<1>. DEFINE F == Filtered(s, T)
            P(n) == F[n] = SubSeq(s, 1, n)
            Good == {n \in 0..Len(s) : P(n)}
<1>. HIDE DEF F
<1>0. Len(s) \in Nat
  OBVIOUS
<1>1. F[0] = <<>> /\ \A n \in 1..Len(s) : F[n] = Append(F[n - 1], s[n])
  BY FilteredStep DEF F
<1>2. 0 \in Good
  <2>1. F[0] = <<>> /\ Len(F[0]) = 0 /\ F[0] \in Seq(S) /\ 0 \in 0..Len(s)
    BY <1>0, <1>1
  <2>2. P(0)
    BY <2>1
  <2>. QED
    BY <2>1, <2>2
<1>3. ASSUME NEW n \in 1..Len(s), n - 1 \in Good
      PROVE  n \in Good
  <2>1. F[n] = Append(SubSeq(s, 1, n - 1), s[n])
    BY <1>1, <1>3
  <2>2. Append(SubSeq(s, 1, n - 1), s[n]) = SubSeq(s, 1, n)
    BY <1>0
  <2>. QED
    BY <2>1, <2>2
<1>. HIDE DEF Good
<1>4. \A n \in 1..Len(s) : n - 1 \in Good => n \in Good
  BY <1>3
<1>5. \A n \in 0..Len(s) : n \in Good
  BY <1>0, <1>2, <1>4, InductionUpTo, Zenon
<1>6. Len(s) \in 0..Len(s)
  BY <1>0
<1>. QED
  BY <1>5, <1>6 DEF Good, F, Filter

-----------------------------------------------------------------------------
(* G has N steps, which stay in X; f begins with a and takes them.         *)
Steps(G, N, X) == \A n \in 1..N : \A x \in X : G[n][x] \in X
Takes(f, a, G, N, X) ==
  /\ f[0] = a /\ \A n \in 0..N : f[n] \in X
  /\ \A n \in 1..N : f[n] = G[n][f[n - 1]]

(* There is such a function.                                               *)
LEMMA Iterates ==
  ASSUME NEW X, NEW a \in X, NEW N \in Nat, NEW G, Steps(G, N, X)
  PROVE  \E f : Takes(f, a, G, N, X)
<1>. DEFINE Has == {m \in Nat : m <= N => \E f : /\ f[0] = a /\ \A n \in 0..m : f[n] \in X
                                                 /\ \A n \in 1..m : f[n] = G[n][f[n - 1]]}
<1>1. 0 \in Has
  <2>. DEFINE f == [n \in 0..0 |-> a]
  <2>1. /\ f[0] = a /\ \A n \in 0..0 : f[n] \in X
        /\ \A n \in 1..0 : f[n] = G[n][f[n - 1]]
    OBVIOUS
  <2>. HIDE DEF f
  <2>. QED
    BY <2>1
<1>2. ASSUME NEW m \in Nat, m \in Has
      PROVE  m + 1 \in Has
  <2>1. SUFFICES ASSUME m + 1 <= N
                 PROVE  \E f : /\ f[0] = a /\ \A n \in 0..(m + 1) : f[n] \in X
                               /\ \A n \in 1..(m + 1) : f[n] = G[n][f[n - 1]]
    OBVIOUS
  <2>2. PICK f : /\ f[0] = a /\ \A n \in 0..m : f[n] \in X
                 /\ \A n \in 1..m : f[n] = G[n][f[n - 1]]
    BY <1>2, <2>1
  <2>. DEFINE x == G[m + 1][f[m]]
              g == [n \in 0..(m + 1) |-> IF n = m + 1 THEN x ELSE f[n]]
  <2>3. x \in X
    <3>1. m + 1 \in 1..N /\ f[m] \in X
      BY <2>1, <2>2
    <3>. QED
      BY <3>1 DEF Steps
  <2>. HIDE DEF x
  <2>4. g[0] = a /\ g[m + 1] = x /\ g[m] = f[m]
    BY <2>2
  <2>5. \A n \in 0..m : g[n] = f[n]
    OBVIOUS
  <2>. HIDE DEF g
  <2>6. g[m + 1] = G[m + 1][g[m]]
    BY <2>4 DEF x
  <2>7. \A n \in 1..m : g[n] = G[n][g[n - 1]]
    <3>1. \A n \in 1..m : n \in 0..m /\ n - 1 \in 0..m
      OBVIOUS
    <3>. QED
      BY <2>2, <2>5, <3>1
  <2>8. ASSUME NEW n \in 1..(m + 1)
        PROVE  g[n] = G[n][g[n - 1]]
    <3>1. CASE n = m + 1
      <4>1. n - 1 = m
        BY <3>1
      <4>. QED
        BY <2>6, <3>1, <4>1
    <3>2. CASE n \in 1..m
      BY <2>7, <3>2
    <3>. QED
      BY <3>1, <3>2
  <2>9. \A n \in 0..(m + 1) : g[n] \in X
    <3>1. \A n \in 0..(m + 1) : n = m + 1 \/ n \in 0..m
      OBVIOUS
    <3>. QED
      BY <2>2, <2>3, <2>4, <2>5, <3>1
  <2>. QED
    BY <2>4, <2>8, <2>9
<1>. HIDE DEF Has
<1>3. \A m \in Nat : m \in Has
  BY <1>1, <1>2, Induction
<1>4. N \in Has
  BY <1>3
<1>. QED
  BY <1>4 DEF Has, Takes

(* What is a sequence.                                                     *)
LEMMA SeqOver ==
  ASSUME NEW S, NEW n \in Nat, NEW q \in [1..n -> S]
  PROVE  q \in Seq(S) /\ Len(q) = n
OBVIOUS

(* The last item of a sequence is replaced.                                *)
LEMMA ReplaceLast ==
  ASSUME NEW S, NEW q \in Seq(S), NEW d \in S, NEW e \in S
  PROVE  [Append(q, d) EXCEPT ![Len(q) + 1] = e] = Append(q, e)
<1>. DEFINE f == [Append(q, d) EXCEPT ![Len(q) + 1] = e]
            g == Append(q, e)
<1>1. Len(q) \in Nat /\ Append(q, d) \in Seq(S) /\ Len(Append(q, d)) = Len(q) + 1
  OBVIOUS
<1>2. f \in Seq(S) /\ Len(f) = Len(q) + 1
  <2>1. Len(q) + 1 \in 1..Len(Append(q, d))
    BY <1>1
  <2>. QED
    BY <1>1, <2>1, ExceptSeq
<1>3. g \in Seq(S) /\ Len(g) = Len(q) + 1
  OBVIOUS
<1>4. f[Len(q) + 1] = e /\ \A i \in 1..Len(q) : f[i] = Append(q, d)[i]
  <2>. DEFINE a == Append(q, d)
  <2>1. a \in Seq(S) /\ Len(a) = Len(q) + 1 /\ f = [a EXCEPT ![Len(q) + 1] = e]
    BY <1>1
  <2>. HIDE DEF a, f
  <2>2. Len(q) + 1 \in DOMAIN a /\ \A i \in 1..Len(q) : i \in DOMAIN a /\ i # Len(q) + 1
    BY <1>1, <2>1
  <2>3. f[Len(q) + 1] = e /\ \A i \in 1..Len(q) : f[i] = a[i]
    BY <2>1, <2>2, Zenon
  <2>. QED
    BY <2>3 DEF a
<1>5. g[Len(q) + 1] = e /\ \A i \in 1..Len(q) : g[i] = q[i] /\ Append(q, d)[i] = q[i]
  BY AppendProperties
<1>. HIDE DEF f, g
<1>6. \A i \in 1..Len(f) : f[i] = g[i]
  BY <1>1, <1>2, <1>4, <1>5
<1>7. f = g
  BY <1>2, <1>3, <1>6, SeqEqual
<1>. QED
  BY <1>7 DEF f, g

=============================================================================
