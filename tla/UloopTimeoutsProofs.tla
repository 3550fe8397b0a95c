-------------------------- MODULE UloopTimeoutsProofs --------------------------
(***************************************************************************)
(* Proofs about UloopTimeouts, for every scale of time (Ms and Sec), any   *)
(* delays and any number of timeouts, 1000 and 1000 among them.            *)
(*                                                                         *)
(* tv_diff is shown to be off by less than a millisecond (DiffBounds) and  *)
(* uloop_timeout_set to compute the sum it means (AfterExact).  Neither    *)
(* makes the order of the list a total one: tv_diff = 0 is not transitive. *)
(* What an insertion keeps is SortedWithinMs, which is inductive.          *)
(***************************************************************************)
EXTENDS UloopTimeouts, TLAPS, SequenceTheorems, WellFoundedInduction

-----------------------------------------------------------------------------
(***************************************************************************)
(* Arithmetic                                                              *)
(***************************************************************************)

(* A set of naturals that is not empty has a least element.                *)
LEMMA Least ==
  ASSUME NEW T, T \subseteq Nat, T # {}
  PROVE  \E x \in T : \A y \in T : x <= y
<1>1. PICK x \in T : \A y \in T : ~(<<y, x>> \in OpToRel(<, Nat))
  BY NatLessThanWellFounded, WFMin, Zenon
<1>2. ASSUME NEW y \in T PROVE x <= y
  <2>1. y < x => <<y, x>> \in OpToRel(<, Nat)
    BY DEF OpToRel
  <2>2. x \in Nat /\ y \in Nat /\ ~(y < x)
    BY <1>1, <2>1
  <2>. QED
    BY <2>2
<1>. QED
  BY <1>2

(* Multiplication by a number that is not negative keeps the order.        *)
LEMMA TimesMono ==
  ASSUME NEW a \in Int, NEW b \in Int, NEW c \in Nat, a <= b
  PROVE  a * c \in Int /\ b * c \in Int /\ a * c <= b * c
OBVIOUS

LEMMA Distributes ==
  ASSUME NEW a \in Int, NEW b \in Int, NEW c \in Int
  PROVE  /\ (a + b) * c = a * c + b * c /\ (a - b) * c = a * c - b * c
         /\ a * (b * c) = (a * b) * c /\ a * b = b * a /\ a * b \in Int
OBVIOUS

LEMMA DivMod ==
  ASSUME NEW n \in Int, NEW d \in Nat \ {0}
  PROVE  /\ n \div d \in Int /\ n % d \in 0..d - 1 /\ (n \div d) * d = n - (n % d)
         /\ n \in Nat => n \div d \in Nat
<1>1. n \div d \in Int
  OBVIOUS
<1>2. n % d \in 0..d - 1
  OBVIOUS
<1>3. (n \div d) * d = n - (n % d)
  <2>1. d * (n \div d) = n - (n % d)
    OBVIOUS
  <2>2. (n \div d) * d = d * (n \div d)
    BY <1>1, Distributes
  <2>. QED
    BY <2>1, <2>2
<1>4. ASSUME n \in Nat, n \div d < 0 PROVE FALSE
  <2> DEFINE q == n \div d
             r == n % d
  <2>1. q \in Int /\ q <= -1 /\ r \in 0..d - 1 /\ q * d = n - r
    BY <1>1, <1>2, <1>3, <1>4
  <2> HIDE DEF q, r
  <2>2. q * d \in Int /\ q * d <= -1 * d
    BY <2>1, TimesMono
  <2>. QED
    BY <1>4, <2>1, <2>2
<1>. QED
  BY <1>1, <1>2, <1>3, <1>4

(* A second is a positive number of microseconds, and no less than a       *)
(* millisecond.                                                            *)
LEMMA Scale ==
  /\ Ms \in Nat \ {0} /\ Sec \in Nat \ {0} /\ SecUs \in Nat \ {0}
  /\ SecUs = Sec * Ms
BY UloopTimeoutsAssumption, Distributes DEF SecUs

(* The division of C is off by less than one, towards zero.                *)
LEMMA DivCBounds ==
  ASSUME NEW x \in Int
  PROVE  /\ DivC(x, Ms) \in Int /\ DivC(x, Ms) * Ms \in Int
         /\ DivC(x, Ms) * Ms - x < Ms /\ x - DivC(x, Ms) * Ms < Ms
<1>1. CASE x >= 0
  <2> DEFINE q == x \div Ms
             r == x % Ms
  <2>1. q \in Int /\ r \in 0..Ms - 1 /\ q * Ms = x - r
    BY Scale, DivMod
  <2>2. DivC(x, Ms) = q
    BY <1>1 DEF DivC
  <2> HIDE DEF q, r
  <2>3. q * Ms \in Int
    BY <2>1, Scale
  <2>. QED
    BY <2>1, <2>2, <2>3, Scale
<1>2. CASE x < 0
  <2> DEFINE q == (-x) \div Ms
             r == (-x) % Ms
  <2>1. q \in Int /\ r \in 0..Ms - 1 /\ q * Ms = -x - r
    <3>1. -x \in Int
      OBVIOUS
    <3>. QED
      BY <3>1, Scale, DivMod, Zenon
  <2>2. DivC(x, Ms) = -q
    BY <1>2 DEF DivC
  <2> HIDE DEF q, r
  <2>3. q * Ms \in Int /\ (-q) * Ms = -(q * Ms)
    BY <2>1, Scale
  <2>. QED
    BY <2>1, <2>2, <2>3, Scale
<1>. QED
  BY <1>1, <1>2

(* The microseconds of a time.                                             *)
LEMMA UsType ==
  ASSUME NEW t \in TimeVal
  PROVE  /\ t.sec \in Nat /\ t.usec \in Nat /\ Us(t) \in Nat /\ t.sec * SecUs \in Nat
         /\ Us(t) = t.sec * SecUs + t.usec
BY Scale DEF TimeVal, Us

(* tv_diff is off by less than a millisecond in either direction.          *)
LEMMA DiffBounds ==
  ASSUME NEW a \in TimeVal, NEW b \in TimeVal
  PROVE  /\ tv_diff(a, b) \in Int /\ tv_diff(a, b) * Ms \in Int
         /\ tv_diff(a, b) * Ms - (Us(a) - Us(b)) < Ms
         /\ (Us(a) - Us(b)) - tv_diff(a, b) * Ms < Ms
<1> DEFINE s == a.sec - b.sec
           x == a.usec - b.usec
           q == DivC(x, Ms)
<1>1. s \in Int /\ x \in Int
  BY UsType
<1>2. q \in Int /\ q * Ms \in Int /\ q * Ms - x < Ms /\ x - q * Ms < Ms
  BY <1>1, DivCBounds
<1>3. Us(a) - Us(b) = s * SecUs + x /\ s * SecUs \in Int
  <2>1. s * SecUs = a.sec * SecUs - b.sec * SecUs /\ s * SecUs \in Int
    BY UsType, Scale, Distributes
  <2>. QED
    BY <2>1, UsType
<1>4. tv_diff(a, b) = s * Sec + q
  BY DEF tv_diff
<1>5. Us(a) \in Nat /\ Us(b) \in Nat
  BY UsType
<1> HIDE DEF s, x, q
<1>6. s * Sec \in Int /\ (s * Sec) * Ms \in Int /\ (s * Sec) * Ms = s * SecUs
  BY <1>1, Scale, Distributes
<1>7. (s * Sec + q) * Ms = s * SecUs + q * Ms
  <2>1. Ms \in Int /\ q \in Int /\ s * Sec \in Int
    BY <1>2, <1>6, Scale
  <2>2. (s * Sec + q) * Ms = (s * Sec) * Ms + q * Ms
    BY <2>1, Distributes
  <2>. QED
    BY <1>6, <2>2
<1>8. s * Sec + q \in Int
  BY <1>2, <1>6
<1> DEFINE D == s * SecUs
           Q == q * Ms
<1>9. /\ D \in Int /\ Q \in Int /\ Q - x < Ms /\ x - Q < Ms
      /\ Us(a) - Us(b) = D + x /\ tv_diff(a, b) * Ms = D + Q
  BY <1>2, <1>3, <1>4, <1>6, <1>7
<1>10. tv_diff(a, b) \in Int
  BY <1>4, <1>8
<1> HIDE DEF D, Q
<1>. QED
  BY <1>1, <1>9, <1>10, Scale

(* uloop_gettime splits the clock and loses nothing.                       *)
LEMMA GetTime ==
  ASSUME NEW n \in Nat
  PROVE  /\ uloop_gettime(n) \in TimeVal /\ Us(uloop_gettime(n)) = n
         /\ uloop_gettime(n).usec < SecUs
<1> DEFINE q == n \div SecUs
           r == n % SecUs
<1>1. q \in Nat /\ r \in 0..SecUs - 1 /\ q * SecUs = n - r
  BY n \in Int, Scale, DivMod, Zenon
<1>2. uloop_gettime(n) = [sec |-> q, usec |-> r]
  BY DEF uloop_gettime
<1> HIDE DEF q, r
<1>. QED
  BY <1>1, <1>2, Scale DEF Us, TimeVal

(* The sum of uloop_timeout_set, whether it is carried or not.             *)
LEMMA AfterExact ==
  ASSUME NEW t \in TimeVal, t.usec < SecUs, NEW d \in Nat
  PROVE  TimeAfter(t, d) \in TimeVal /\ Us(TimeAfter(t, d)) = Us(t) + d * Ms
<1> DEFINE q == d \div Sec
           r == d % Sec
           u == t.usec + r * Ms
<1>0. q \in Nat /\ r \in 0..Sec - 1 /\ q * Sec = d - r
  BY d \in Int, Scale, DivMod, Zenon
<1>2. TimeAfter(t, d) = IF u > SecUs THEN [sec |-> t.sec + q + 1, usec |-> u % SecUs]
                                     ELSE [sec |-> t.sec + q, usec |-> u]
  BY DEF TimeAfter
<1> HIDE DEF q, r
<1>1. q \in Nat /\ r \in Nat /\ r <= Sec - 1 /\ q * Sec = d - r
  BY <1>0, Scale
<1>3. r * Ms \in Nat /\ r * Ms <= SecUs - Ms
  <2>1. r * Ms <= (Sec - 1) * Ms /\ r * Ms \in Int
    BY <1>1, Scale, TimesMono
  <2>2. (Sec - 1) * Ms = Sec * Ms - 1 * Ms
    BY Scale, Distributes
  <2>3. 0 * Ms <= r * Ms
    BY <1>1, Scale, TimesMono
  <2>. QED
    BY <2>1, <2>2, <2>3, Scale
<1>4. d * Ms = q * SecUs + r * Ms /\ q * SecUs \in Nat
  <2>1. (d - r) * Ms = d * Ms - r * Ms
    BY <1>1, Scale, Distributes
  <2>2. (q * Sec) * Ms = q * SecUs
    BY <1>1, Scale, Distributes
  <2>3. q * SecUs \in Nat
    BY <1>1, Scale
  <2>4. d * Ms \in Int
    BY Scale, Distributes
  <2>. QED
    BY <1>1, <1>3, <2>1, <2>2, <2>3, <2>4
<1>5. u \in Nat /\ u < 2 * SecUs /\ u = t.usec + r * Ms
  BY <1>3, UsType, Scale
<1> HIDE DEF u
<1>6. CASE u > SecUs
  <2>1. u % SecUs = u - SecUs
    <3> DEFINE k == u \div SecUs
               m == u % SecUs
    <3>1. k \in Nat /\ m \in 0..SecUs - 1 /\ k * SecUs = u - m
      BY <1>5, u \in Int, Scale, DivMod, Zenon
    <3> HIDE DEF k, m
    <3>2. k = 1
      <4>1. CASE k <= 0
        BY <1>5, <1>6, <3>1, <4>1, Scale
      <4>2. CASE k >= 2
        <5>1. 2 * SecUs <= k * SecUs /\ k * SecUs \in Int
          BY <3>1, <4>2, Scale, TimesMono
        <5>. QED
          BY <1>5, <3>1, <5>1, Scale
      <4>. QED
        BY <3>1, <4>1, <4>2
    <3>3. m = u - SecUs
      BY <1>5, <3>1, <3>2, Scale
    <3>. QED
      BY <3>3 DEF m
  <2>2. TimeAfter(t, d) = [sec |-> t.sec + q + 1, usec |-> u - SecUs]
    BY <1>2, <1>6, <2>1
  <2>3. (t.sec + q + 1) * SecUs = t.sec * SecUs + q * SecUs + SecUs
    <3>1. (t.sec + q + 1) * SecUs = (t.sec + q) * SecUs + 1 * SecUs
      BY <1>1, UsType, Scale, Distributes
    <3>2. (t.sec + q) * SecUs = t.sec * SecUs + q * SecUs
      BY <1>1, UsType, Scale, Distributes
    <3>. QED
      BY <3>1, <3>2, Scale
  <2>4. TimeAfter(t, d) \in TimeVal
    BY <1>1, <1>5, <1>6, <2>2, UsType, Scale DEF TimeVal
  <2>5. Us(TimeAfter(t, d)) = (t.sec + q + 1) * SecUs + (u - SecUs)
    BY <2>2 DEF Us
  <2>. QED
    BY <1>3, <1>4, <1>5, <2>3, <2>4, <2>5, UsType, Scale
<1>7. CASE u <= SecUs
  <2>1. TimeAfter(t, d) = [sec |-> t.sec + q, usec |-> u]
    BY <1>2, <1>5, <1>7, Scale
  <2>2. (t.sec + q) * SecUs = t.sec * SecUs + q * SecUs
    BY <1>1, UsType, Scale, Distributes
  <2>3. TimeAfter(t, d) \in TimeVal
    BY <1>1, <1>5, <2>1, UsType DEF TimeVal
  <2>4. Us(TimeAfter(t, d)) = (t.sec + q) * SecUs + u
    BY <2>1 DEF Us
  <2>. QED
    BY <1>3, <1>4, <1>5, <2>2, <2>3, <2>4, UsType, Scale
<1>. QED
  BY <1>5, <1>6, <1>7, Scale

-----------------------------------------------------------------------------
(***************************************************************************)
(* The list                                                                *)
(***************************************************************************)

(* SortedWithinMs of any list s with the times tm.                         *)
Sorted(s, tm) ==
  \A m, n \in 1..Len(s) :
    m < n => Us(tm[s[m]]) - Us(tm[s[n]]) < Ms /\ s[m] # s[n]

Times == [Timeout -> TimeVal]
Absent(t, s) == \A n \in 1..Len(s) : s[n] # t

(* A function over a range of indices is a sequence of that length.        *)
LEMMA IndexedSeq ==
  ASSUME NEW S, NEW k \in Nat, NEW w, w \in [1..k -> S]
  PROVE  w \in Seq(S) /\ Len(w) = k
<1>1. w \in Seq(S)
  BY SeqDef
<1>2. Len(w) \in Nat /\ 1..Len(w) = 1..k
  BY <1>1, LenProperties
<1>3. Len(w) <= k
  BY <1>2, Len(w) \in 1..Len(w) \/ Len(w) = 0
<1>4. k <= Len(w)
  BY <1>2, k \in 1..k \/ k = 0
<1>. QED
  BY <1>1, <1>2, <1>3, <1>4

(* list_del keeps the order of the others.                                 *)
LEMMA WithoutSorted ==
  ASSUME NEW s \in Seq(Timeout), NEW tm, Sorted(s, tm), NEW t
  PROVE  /\ Without(s, t) \in Seq(Timeout) /\ Sorted(Without(s, t), tm)
         /\ Absent(t, Without(s, t))
<1>1. CASE \E n \in 1..Len(s) : s[n] = t
  <2> DEFINE k == CHOOSE n \in 1..Len(s) : s[n] = t
             w == Without(s, t)
             from(n) == IF n < k THEN n ELSE n + 1
  <2>1. k \in 1..Len(s) /\ s[k] = t /\ Len(s) \in Nat
    BY <1>1, LenProperties
  <2>2. w = [n \in 1..Len(s) - 1 |-> IF n < k THEN s[n] ELSE s[n + 1]]
    BY <1>1 DEF Without
  <2> HIDE DEF k, w
  <2>3. \A n \in 1..Len(s) - 1 : w[n] = s[from(n)] /\ from(n) \in 1..Len(s) /\ from(n) # k
    BY <2>1, <2>2
  <2>4. w \in [1..Len(s) - 1 -> Timeout]
    <3>1. \A n \in 1..Len(s) - 1 : (IF n < k THEN s[n] ELSE s[n + 1]) \in Timeout
      BY <2>1
    <3>. QED
      BY <2>2, <3>1
  <2>5. w \in Seq(Timeout) /\ Len(w) = Len(s) - 1
    BY <2>1, <2>4, IndexedSeq
  <2>6. \A m, n \in 1..Len(w) : m < n => from(m) < from(n)
    BY <2>1, <2>5
  <2>7. Sorted(w, tm)
    <3> SUFFICES ASSUME NEW m \in 1..Len(w), NEW n \in 1..Len(w), m < n
                 PROVE  Us(tm[w[m]]) - Us(tm[w[n]]) < Ms /\ w[m] # w[n]
      BY DEF Sorted
    <3>1. from(m) \in 1..Len(s) /\ from(n) \in 1..Len(s) /\ from(m) < from(n)
      BY <2>3, <2>5, <2>6
    <3>2. w[m] = s[from(m)] /\ w[n] = s[from(n)]
      BY <2>3, <2>5
    <3> HIDE DEF from
    <3>. QED
      BY <3>1, <3>2 DEF Sorted
  <2>8. Absent(t, w)
    <3> SUFFICES ASSUME NEW n \in 1..Len(w), w[n] = t PROVE FALSE
      BY DEF Absent
    <3>1. from(n) \in 1..Len(s) /\ from(n) # k /\ s[from(n)] = s[k]
      BY <2>1, <2>3, <2>5
    <3>2. from(n) < k \/ k < from(n)
      BY <2>1, <3>1
    <3> HIDE DEF from
    <3>. QED
      BY <2>1, <3>1, <3>2 DEF Sorted
  <2>. QED
    BY <2>5, <2>7, <2>8 DEF w
<1>2. CASE ~ \E n \in 1..Len(s) : s[n] = t
  <2>1. Without(s, t) = s
    BY <1>2 DEF Without
  <2>. QED
    BY <1>2, <2>1 DEF Absent
<1>. QED
  BY <1>1, <1>2

(* The loop of uloop_timeout_add stops somewhere: behind no later element  *)
(* and before a later one or at the end.                                   *)
LEMMA PositionStops ==
  ASSUME NEW s \in Seq(Timeout), time \in Times, NEW v \in TimeVal
  PROVE  LET k == Position(s, v)
         IN  /\ k \in 1..Len(s) + 1
             /\ \A n \in 1..k - 1 : tv_diff(time[s[n]], v) <= 0
             /\ k <= Len(s) => tv_diff(time[s[k]], v) > 0
<1> DEFINE Stop(k) == k <= Len(s) => tv_diff(time[s[k]], v) > 0
           T == {k \in 1..Len(s) + 1 : Stop(k)}
<1>1. Len(s) \in Nat /\ \A n \in 1..Len(s) : tv_diff(time[s[n]], v) \in Int
  BY LenProperties, DiffBounds DEF Times
<1>2. T \subseteq Nat /\ Len(s) + 1 \in T
  BY <1>1
<1>3. PICK k \in T : \A n \in T : k <= n
  BY <1>2, Least
<1>4. \A n \in 1..k - 1 : tv_diff(time[s[n]], v) <= 0
  <2> SUFFICES ASSUME NEW n \in 1..k - 1 PROVE tv_diff(time[s[n]], v) <= 0
    OBVIOUS
  <2>1. n \in 1..Len(s) /\ n < k
    BY <1>1, <1>3
  <2>2. n \notin T
    BY <1>1, <1>3, <2>1
  <2>3. ~(tv_diff(time[s[n]], v) > 0)
    BY <1>1, <2>1, <2>2
  <2>. QED
    BY <1>1, <2>1, <2>3
<1>5. \E j \in 1..Len(s) + 1 :
        /\ \A n \in 1..j - 1 : tv_diff(time[s[n]], v) <= 0
        /\ j <= Len(s) => tv_diff(time[s[j]], v) > 0
  BY <1>3, <1>4
<1>. QED
  BY <1>5 DEF Position

(* An insertion at that place keeps the list sorted within a millisecond:  *)
(* the new time is before the one that stopped the loop, and that one is   *)
(* less than a millisecond behind any that follows it.                     *)
LEMMA InsertSorted ==
  ASSUME NEW s \in Seq(Timeout), time \in Times, Sorted(s, time),
         NEW t \in Timeout, Absent(t, s), NEW v \in TimeVal,
         NEW tm, tm = [time EXCEPT ![t] = v]
  PROVE  SortedAdd(s, t, v) \in Seq(Timeout) /\ Sorted(SortedAdd(s, t, v), tm)
<1> DEFINE k == Position(s, v)
           w == Insert(s, k, t)
<1>1. /\ k \in 1..Len(s) + 1 /\ Len(s) \in Nat
      /\ \A n \in 1..k - 1 : tv_diff(time[s[n]], v) <= 0
      /\ k <= Len(s) => tv_diff(time[s[k]], v) > 0
  BY PositionStops, LenProperties
<1>2. w = [n \in 1..Len(s) + 1 |-> IF n < k THEN s[n] ELSE IF n = k THEN t ELSE s[n - 1]]
  BY DEF Insert
<1>3. SortedAdd(s, t, v) = w
  BY DEF SortedAdd
<1> HIDE DEF k, w
<1>4. w \in [1..Len(s) + 1 -> Timeout]
  <2>1. \A n \in 1..Len(s) + 1 :
          (IF n < k THEN s[n] ELSE IF n = k THEN t ELSE s[n - 1]) \in Timeout
    BY <1>1
  <2>. QED
    BY <1>2, <2>1
<1>5. w \in Seq(Timeout) /\ Len(w) = Len(s) + 1
  BY <1>1, <1>4, IndexedSeq
<1>6. /\ \A n \in 1..k - 1 : n \in 1..Len(s) /\ w[n] = s[n]
      /\ w[k] = t
      /\ \A n \in k + 1..Len(w) : n - 1 \in k..Len(s) /\ n - 1 \in 1..Len(s) /\ w[n] = s[n - 1]
  BY <1>1, <1>2, <1>5
<1>7. tm[t] = v /\ \A n \in 1..Len(s) : tm[s[n]] = time[s[n]] /\ time[s[n]] \in TimeVal
  BY DEF Times, Absent
<1>8. Us(v) \in Nat /\ \A n \in 1..Len(s) : Us(time[s[n]]) \in Nat
  BY <1>7, UsType
<1>9. \A n \in 1..k - 1 : Us(time[s[n]]) - Us(v) < Ms
  <2> SUFFICES ASSUME NEW n \in 1..k - 1 PROVE Us(time[s[n]]) - Us(v) < Ms
    OBVIOUS
  <2> DEFINE D == tv_diff(time[s[n]], v)
  <2>1. /\ D \in Int /\ D * Ms \in Int /\ D <= 0 /\ (Us(time[s[n]]) - Us(v)) - D * Ms < Ms
    BY <1>1, <1>6, <1>7, DiffBounds
  <2>2. n \in 1..Len(s)
    BY <1>6
  <2> HIDE DEF D
  <2>3. D * Ms <= 0
    BY <2>1, Scale, TimesMono
  <2>. QED
    BY <1>8, <2>1, <2>2, <2>3, Scale
<1>10. k <= Len(s) => Us(v) < Us(time[s[k]])
  <2> SUFFICES ASSUME k <= Len(s) PROVE Us(v) < Us(time[s[k]])
    OBVIOUS
  <2> DEFINE D == tv_diff(time[s[k]], v)
  <2>1. k \in 1..Len(s)
    BY <1>1
  <2>2. D \in Int /\ D * Ms \in Int /\ D >= 1 /\ D * Ms - (Us(time[s[k]]) - Us(v)) < Ms
    BY <1>1, <1>7, <2>1, DiffBounds
  <2> HIDE DEF D
  <2>3. 1 * Ms <= D * Ms
    BY <2>2, Scale, TimesMono
  <2>. QED
    BY <1>8, <2>1, <2>2, <2>3, Scale
<1>11. \A n \in k..Len(s) : Us(v) - Us(time[s[n]]) < Ms
  <2> SUFFICES ASSUME NEW n \in k..Len(s) PROVE Us(v) - Us(time[s[n]]) < Ms
    OBVIOUS
  <2>1. k \in 1..Len(s) /\ n \in 1..Len(s) /\ (k = n \/ k < n)
    BY <1>1
  <2>2. k < n => Us(time[s[k]]) - Us(time[s[n]]) < Ms
    BY <2>1 DEF Sorted
  <2>. QED
    BY <1>1, <1>8, <1>10, <2>1, <2>2, Scale
<1>12. Sorted(w, tm)
  <2> SUFFICES ASSUME NEW m \in 1..Len(w), NEW n \in 1..Len(w), m < n
               PROVE  Us(tm[w[m]]) - Us(tm[w[n]]) < Ms /\ w[m] # w[n]
    BY DEF Sorted
  <2>1. CASE n < k
    <3>1. m \in 1..k - 1 /\ n \in 1..k - 1
      BY <1>1, <1>5, <2>1
    <3>. QED
      BY <1>6, <1>7, <3>1 DEF Sorted
  <2>2. CASE n = k
    <3>1. m \in 1..k - 1
      BY <1>1, <1>5, <2>2
    <3>. QED
      BY <1>6, <1>7, <1>9, <2>2, <3>1 DEF Absent
  <2>3. CASE m = k
    <3>1. n \in k + 1..Len(w)
      BY <1>1, <1>5, <2>3
    <3>. QED
      BY <1>6, <1>7, <1>11, <2>3, <3>1 DEF Absent
  <2>4. CASE m < k /\ k < n
    <3>1. m \in 1..k - 1 /\ n \in k + 1..Len(w) /\ m < n - 1
      BY <1>1, <1>5, <2>4
    <3>2. /\ m \in 1..Len(s) /\ w[m] = s[m]
          /\ n - 1 \in 1..Len(s) /\ w[n] = s[n - 1]
      BY <1>6, <3>1
    <3>3. Us(time[s[m]]) - Us(time[s[n - 1]]) < Ms /\ s[m] # s[n - 1]
      BY <3>1, <3>2 DEF Sorted
    <3>. QED
      BY <1>7, <3>2, <3>3
  <2>5. CASE k < m
    <3>1. m \in k + 1..Len(w) /\ n \in k + 1..Len(w) /\ m - 1 < n - 1
      BY <1>1, <1>5, <2>5
    <3>2. /\ m - 1 \in 1..Len(s) /\ w[m] = s[m - 1]
          /\ n - 1 \in 1..Len(s) /\ w[n] = s[n - 1]
      BY <1>6, <3>1
    <3>3. Us(time[s[m - 1]]) - Us(time[s[n - 1]]) < Ms /\ s[m - 1] # s[n - 1]
      BY <3>1, <3>2 DEF Sorted
    <3>. QED
      BY <1>7, <3>2, <3>3
  <2>. QED
    BY <1>1, <1>5, <2>1, <2>2, <2>3, <2>4, <2>5
<1>. QED
  BY <1>3, <1>5, <1>12

-----------------------------------------------------------------------------
(***************************************************************************)
(* The invariant                                                           *)
(***************************************************************************)

(* The time that uloop_run took is not ahead of the clock; the timeout of  *)
(* the poll, counted from it, is over less than a millisecond after the    *)
(* first timeout is due, or it is zero.                                    *)
TvPast == Us(tv) <= now
WakesForFirst ==
  at \in {"fetch", "poll"} /\ timeouts # <<>> =>
    wait >= 0 /\ (wait = 0 \/ Us(tv) + wait * Ms < Us(time[timeouts[1]]) + Ms)

IInv == TypeOK /\ SortedWithinMs /\ TvPast /\ WakesForFirst

(* The invariant in the form of the lemmas.                                *)
LEMMA InvFacts ==
  ASSUME IInv
  PROVE  /\ now \in Nat /\ timeouts \in Seq(Timeout) /\ time \in Times /\ tv \in TimeVal
         /\ Sorted(timeouts, time) /\ wait \in Int /\ began \in Nat
         /\ timeouts # <<>> => /\ timeouts[1] \in Timeout /\ 1 \in 1..Len(timeouts)
                               /\ Len(timeouts) \in Nat /\ time[timeouts[1]] \in TimeVal
<1>1. /\ now \in Nat /\ timeouts \in Seq(Timeout) /\ time \in Times /\ tv \in TimeVal
      /\ wait \in Int /\ began \in Nat
  BY DEF IInv, TypeOK, Times
<1>2. Sorted(timeouts, time)
  BY DEF IInv, SortedWithinMs, Sorted
<1>3. timeouts # <<>> => 1 \in 1..Len(timeouts) /\ Len(timeouts) \in Nat
  BY <1>1, EmptySeq, LenProperties
<1>. QED
  BY <1>1, <1>2, <1>3 DEF Times

(* What the user does with timeouts, outside polls.                        *)
LEMMA UserKeeps ==
  ASSUME IInv, NEW t \in Timeout,
         \/ \E d \in Delay : uloop_timeout_set(t, d)
         \/ uloop_timeout_add(t) \/ uloop_timeout_cancel(t)
  PROVE  IInv'
<1>1. UNCHANGED <<now, at, tv, wait, began>> /\ calls' \in Nat /\ at \notin {"fetch", "poll"}
  BY DEF uloop_timeout_set, uloop_timeout_add, uloop_timeout_cancel, User, IInv, TypeOK
<1>2. timeouts' \in Seq(Timeout) /\ time' \in Times /\ Sorted(timeouts', time')
  <2>1. ASSUME NEW d \in Delay, uloop_timeout_set(t, d)
        PROVE  timeouts' \in Seq(Timeout) /\ time' \in Times /\ Sorted(timeouts', time')
    <3> DEFINE v == TimeAfter(uloop_gettime(now), d)
               s == Without(timeouts, t)
    <3>1. time' = [time EXCEPT ![t] = v] /\ timeouts' = SortedAdd(s, t, v)
      BY <2>1 DEF uloop_timeout_set
    <3>2. v \in TimeVal
      BY InvFacts, GetTime, AfterExact, UloopTimeoutsAssumption
    <3>3. s \in Seq(Timeout) /\ Sorted(s, time) /\ Absent(t, s)
      BY InvFacts, WithoutSorted
    <3> HIDE DEF v, s
    <3>4. time' \in Times
      BY <3>1, <3>2, InvFacts DEF Times
    <3>. QED
      BY <3>1, <3>2, <3>3, <3>4, InvFacts, InsertSorted
  <2>2. ASSUME uloop_timeout_add(t)
        PROVE  timeouts' \in Seq(Timeout) /\ time' \in Times /\ Sorted(timeouts', time')
    <3>1. timeouts' = SortedAdd(timeouts, t, time[t]) /\ time' = time /\ t \notin Pending
      BY <2>2 DEF uloop_timeout_add
    <3>2. time[t] \in TimeVal /\ time = [time EXCEPT ![t] = time[t]]
      BY InvFacts DEF Times
    <3>3. Absent(t, timeouts)
      BY <3>1 DEF Absent, Pending
    <3>4. timeouts' \in Seq(Timeout) /\ Sorted(timeouts', time)
      BY <3>1, <3>2, <3>3, InvFacts, InsertSorted
    <3>. QED
      BY <3>1, <3>4, InvFacts
  <2>3. ASSUME uloop_timeout_cancel(t)
        PROVE  timeouts' \in Seq(Timeout) /\ time' \in Times /\ Sorted(timeouts', time')
    <3>1. timeouts' = Without(timeouts, t) /\ time' = time
      BY <2>3 DEF uloop_timeout_cancel
    <3>. QED
      BY <3>1, InvFacts, WithoutSorted
  <2>. QED
    BY <2>1, <2>2, <2>3
<1>3. TypeOK' /\ SortedWithinMs'
  BY <1>1, <1>2 DEF IInv, TypeOK, SortedWithinMs, Sorted, Times
<1>4. TvPast' /\ WakesForFirst'
  BY <1>1 DEF IInv, TvPast, WakesForFirst
<1>. QED
  BY <1>3, <1>4 DEF IInv

(* The loop takes the first timeout off the list.                          *)
LEMMA ProcessKeeps ==
  ASSUME IInv, uloop_process_timeouts
  PROVE  IInv'
<1>1. /\ timeouts # <<>> /\ timeouts' = Tail(timeouts) /\ at' = "callback"
      /\ UNCHANGED <<now, time, tv, wait, began, calls>>
  BY DEF uloop_process_timeouts, Expired
<1>2. /\ timeouts' \in Seq(Timeout) /\ Len(timeouts') = Len(timeouts) - 1
      /\ \A n \in 1..Len(timeouts') : timeouts'[n] = timeouts[n + 1] /\ n + 1 \in 1..Len(timeouts)
  <2>1. /\ Tail(timeouts) \in Seq(Timeout) /\ Len(Tail(timeouts)) = Len(timeouts) - 1
        /\ \A n \in 1..Len(Tail(timeouts)) : Tail(timeouts)[n] = timeouts[n + 1]
    BY <1>1, InvFacts, HeadTailProperties
  <2>2. Len(timeouts) \in Nat
    BY <1>1, InvFacts
  <2>. QED
    BY <1>1, <2>1, <2>2
<1>3. SortedWithinMs'
  <2> SUFFICES ASSUME NEW m \in 1..Len(timeouts'), NEW n \in 1..Len(timeouts'), m < n
               PROVE  /\ Us(time[timeouts'[m]]) - Us(time[timeouts'[n]]) < Ms
                      /\ timeouts'[m] # timeouts'[n]
    BY <1>1 DEF SortedWithinMs, Us, SecUs
  <2>1. m + 1 \in 1..Len(timeouts) /\ n + 1 \in 1..Len(timeouts) /\ m + 1 < n + 1
    BY <1>2
  <2>. QED
    BY <1>2, <2>1 DEF IInv, SortedWithinMs
<1>4. TypeOK' /\ TvPast' /\ WakesForFirst'
  BY <1>1, <1>2 DEF IInv, TypeOK, Place, TvPast, WakesForFirst
<1>. QED
  BY <1>3, <1>4 DEF IInv

(* The poll is given the time to the first timeout.                        *)
LEMMA NextKeeps ==
  ASSUME IInv, next_timeout
  PROVE  IInv'
<1> DEFINE g == uloop_gettime(now)
           d == uloop_get_next_timeout(g)
<1>1. /\ at' = "fetch" /\ tv' = g /\ wait' = d
      /\ UNCHANGED <<now, timeouts, time, began, calls>>
  BY DEF next_timeout
<1>2. g \in TimeVal /\ Us(g) = now /\ now \in Nat
  BY InvFacts, GetTime
<1>3. wait' \in Int /\ WakesForFirst'
  <2>1. CASE timeouts = <<>>
    <3>1. wait' = -1
      BY <1>1, <2>1 DEF uloop_get_next_timeout
    <3>. QED
      BY <1>1, <2>1, <3>1 DEF WakesForFirst
  <2>2. CASE timeouts # <<>>
    <3> DEFINE f == time[timeouts[1]]
               D == tv_diff(f, g)
    <3>1. f \in TimeVal /\ Us(f) \in Nat
      BY <2>2, InvFacts, UsType
    <3>2. D \in Int /\ D * Ms \in Int /\ D * Ms - (Us(f) - now) < Ms
      BY <1>2, <3>1, DiffBounds
    <3>3. wait' = IF D < 0 THEN 0 ELSE D
      BY <1>1, <2>2 DEF uloop_get_next_timeout
    <3> HIDE DEF D
    <3>4. wait' \in Nat /\ (wait' = 0 \/ now + wait' * Ms < Us(f) + Ms)
      BY <1>2, <3>1, <3>2, <3>3, Scale
    <3> HIDE DEF g
    <3>5. Us(tv)' = now
      BY <1>1, <1>2
    <3>6. Us(time[timeouts[1]])' = Us(f)
      BY <1>1
    <3>. QED
      BY <3>4, <3>5, <3>6 DEF WakesForFirst
  <2>. QED
    BY <2>1, <2>2
<1>4. TypeOK' /\ TvPast'
  BY <1>1, <1>2, <1>3 DEF IInv, TypeOK, Place, TvPast
<1>5. SortedWithinMs'
  BY <1>1 DEF IInv, SortedWithinMs
<1>. QED
  BY <1>3, <1>4, <1>5 DEF IInv

(* The invariant holds in every reachable state.                           *)
THEOREM TimeoutsInvariant == Spec => []IInv
<1>1. Init => IInv
  <2> SUFFICES ASSUME Init PROVE IInv
    OBVIOUS
  <2>1. timeouts \in Seq(Timeout) /\ Len(timeouts) = 0
    BY DEF Init
  <2>2. TypeOK
    BY <2>1 DEF Init, TypeOK, Place, TimeVal
  <2>3. Us(tv) = 0
    BY Scale DEF Init, Us
  <2>. QED
    BY <2>1, <2>2, <2>3 DEF Init, IInv, SortedWithinMs, TvPast, WakesForFirst
<1>2. IInv /\ [Next]_vars => IInv'
  <2> SUFFICES ASSUME IInv, [Next]_vars PROVE IInv'
    OBVIOUS
  <2>1. CASE Tick
    <3>1. now' = now + 1 /\ UNCHANGED <<timeouts, time, at, tv, wait, began, calls>>
      BY <2>1 DEF Tick
    <3>2. TypeOK' /\ SortedWithinMs'
      BY <3>1 DEF IInv, TypeOK, SortedWithinMs
    <3>3. TvPast' /\ WakesForFirst'
      BY <3>1, InvFacts, UsType DEF IInv, TvPast, WakesForFirst
    <3>. QED
      BY <3>2, <3>3 DEF IInv
  <2>2. CASE loop_begins
    <3>1. /\ at' = "timeouts" /\ tv' = uloop_gettime(now)
          /\ UNCHANGED <<now, timeouts, time, wait, began, calls>>
      BY <2>2 DEF loop_begins
    <3>2. uloop_gettime(now) \in TimeVal /\ Us(uloop_gettime(now)) = now /\ now \in Nat
      BY InvFacts, GetTime
    <3>3. TypeOK' /\ SortedWithinMs'
      BY <3>1, <3>2 DEF IInv, TypeOK, SortedWithinMs, Place
    <3>4. TvPast' /\ WakesForFirst'
      BY <3>1, <3>2 DEF TvPast, WakesForFirst
    <3>. QED
      BY <3>3, <3>4 DEF IInv
  <2>3. CASE uloop_process_timeouts
    BY <2>3, ProcessKeeps
  <2>4. CASE pass_ends \/ callback_returns \/ poll_ends \/ poll_interrupted
    <3>1. /\ at' \in Place /\ at' \notin {"fetch", "poll"} /\ wait' \in Int /\ began' \in Nat
          /\ UNCHANGED <<now, timeouts, time, tv, calls>>
      BY <2>4, InvFacts DEF pass_ends, callback_returns, poll_ends, poll_interrupted, Place
    <3>2. TypeOK' /\ SortedWithinMs' /\ TvPast' /\ WakesForFirst'
      BY <3>1 DEF IInv, TypeOK, SortedWithinMs, TvPast, WakesForFirst
    <3>. QED
      BY <3>2 DEF IInv
  <2>5. CASE next_timeout
    BY <2>5, NextKeeps
  <2>8. CASE poll_begins
    <3>1. /\ at = "fetch" /\ at' = "poll" /\ began' \in Nat
          /\ UNCHANGED <<now, timeouts, time, tv, wait, calls>>
      BY <2>8, InvFacts DEF poll_begins
    <3>2. TypeOK' /\ SortedWithinMs' /\ TvPast' /\ WakesForFirst'
      BY <3>1 DEF IInv, TypeOK, Place, SortedWithinMs, TvPast, WakesForFirst
    <3>. QED
      BY <3>2 DEF IInv
  <2>6. ASSUME NEW t \in Timeout,
               \/ \E d \in Delay : uloop_timeout_set(t, d)
               \/ uloop_timeout_add(t) \/ uloop_timeout_cancel(t)
        PROVE  IInv'
    BY <2>6, UserKeeps
  <2>7. CASE UNCHANGED vars
    BY <2>7 DEF vars, IInv, TypeOK, SortedWithinMs, TvPast, WakesForFirst
  <2>. QED
    BY <2>1, <2>2, <2>3, <2>4, <2>5, <2>6, <2>7, <2>8 DEF Next, Loop
<1>. QED
  BY <1>1, <1>2, PTL DEF Spec

-----------------------------------------------------------------------------
(***************************************************************************)
(* The theorems                                                            *)
(***************************************************************************)

(* Type correctness: every place of the list holds a timeout.              *)
THEOREM TypeCorrect == Spec => []TypeOK
<1>1. IInv => TypeOK
  BY DEF IInv
<1>. QED
  BY <1>1, TimeoutsInvariant, PTL

(* The list is sorted within a millisecond, at every scale.                *)
THEOREM ListSorted == Spec => []SortedWithinMs
<1>1. IInv => SortedWithinMs
  BY DEF IInv
<1>. QED
  BY <1>1, TimeoutsInvariant, PTL

(* Every delay is asked for exactly, whole seconds not excepted.           *)
THEOREM DelaysExact == Spec => []DelayExact
<1>1. IInv => DelayExact
  <2> SUFFICES ASSUME IInv, NEW d \in Delay
               PROVE  Us(TimeAfter(uloop_gettime(now), d)) = now + d * Ms
    BY DEF DelayExact
  <2>1. d \in Nat
    BY UloopTimeoutsAssumption
  <2>2. /\ uloop_gettime(now) \in TimeVal /\ Us(uloop_gettime(now)) = now
        /\ uloop_gettime(now).usec < SecUs
    BY InvFacts, GetTime
  <2>. QED
    BY <2>1, <2>2, AfterExact
<1>. QED
  BY <1>1, TimeoutsInvariant, PTL

(* The timeout of a poll is never too long for the pending timeouts, those *)
(* that callbacks of children have set among them.                         *)
THEOREM PollsWake == Spec => []PollWakes
<1>1. IInv => PollWakes
  <2> SUFFICES ASSUME IInv, at = "poll", NEW n \in 1..Len(timeouts)
               PROVE  /\ wait >= 0
                      /\ wait = 0 \/ Us(tv) + wait * Ms < Us(time[timeouts[n]]) + 2 * Ms
    BY DEF PollWakes, Pending
  <2>1. timeouts # <<>>
    OBVIOUS
  <2>2. wait >= 0 /\ (wait = 0 \/ Us(tv) + wait * Ms < Us(time[timeouts[1]]) + Ms)
    BY <2>1 DEF IInv, WakesForFirst
  <2>3. 1 \in 1..Len(timeouts) /\ (n = 1 \/ 1 < n)
    BY <2>1, InvFacts
  <2>4. 1 < n => Us(time[timeouts[1]]) - Us(time[timeouts[n]]) < Ms
    BY <2>3 DEF IInv, SortedWithinMs
  <2>5. time[timeouts[1]] \in TimeVal /\ time[timeouts[n]] \in TimeVal
    BY <2>1, InvFacts DEF Times
  <2>6. Us(time[timeouts[1]]) \in Nat /\ Us(time[timeouts[n]]) \in Nat
    BY <2>5, UsType
  <2>7. wait \in Int /\ tv \in TimeVal
    BY InvFacts
  <2>8. wait * Ms \in Int
    BY <2>7, Scale
  <2>9. Us(tv) \in Nat
    BY <2>7, UsType
  <2>. QED
    BY <2>2, <2>3, <2>4, <2>6, <2>8, <2>9, Scale
<1>. QED
  BY <1>1, TimeoutsInvariant, PTL

(* No callback runs a millisecond or more before its time.                 *)
THEOREM NoneEarly == Spec => NeverEarly
<1>1. IInv /\ [Next]_vars =>
        [at = "timeouts" /\ at' = "callback" => Us(time[timeouts[1]]) < now + Ms]_vars
  <2> SUFFICES ASSUME IInv, Next, at = "timeouts", at' = "callback"
               PROVE  Us(time[timeouts[1]]) < now + Ms
    OBVIOUS
  <2>1. uloop_process_timeouts
    BY DEF Next, Loop, Tick, loop_begins, pass_ends, callback_returns, next_timeout,
           poll_begins, poll_ends,
           poll_interrupted, uloop_timeout_set, uloop_timeout_add, uloop_timeout_cancel, User
  <2> DEFINE f == time[timeouts[1]]
             D == tv_diff(f, tv)
  <2>2. timeouts # <<>> /\ D <= 0
    BY <2>1 DEF uloop_process_timeouts, Expired
  <2>3. f \in TimeVal /\ tv \in TimeVal /\ now \in Nat
    BY <2>2, InvFacts
  <2>4. D \in Int /\ D * Ms \in Int /\ (Us(f) - Us(tv)) - D * Ms < Ms
    BY <2>3, DiffBounds
  <2>5. Us(f) \in Nat /\ Us(tv) \in Nat /\ Us(tv) <= now
    BY <2>3, UsType DEF IInv, TvPast
  <2> HIDE DEF D
  <2>6. D * Ms <= 0
    BY <2>2, <2>4, Scale, TimesMono
  <2>. QED
    BY <2>3, <2>4, <2>5, <2>6, Scale
<1>. QED
  BY <1>1, TimeoutsInvariant, PTL DEF Spec, NeverEarly
================================================================================
