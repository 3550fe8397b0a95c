---------------------------- MODULE RunqueueProofs ----------------------------
(***************************************************************************)
(* Proofs about Runqueue, for any set of tasks, any limit and any calls.   *)
(*                                                                         *)
(* A step adds a task (AddKeeps), starts one (StartKeeps), ends or cancels *)
(* some (Shrinks, ShrinksKeeps) or leaves the lists alone (QuietKeeps).    *)
(* The one invariant IInv covers the lists, the count, the iterations on   *)
(* the stack and the calls that will still look for tasks to start; every  *)
(* theorem at the end follows from it.                                     *)
(***************************************************************************)
EXTENDS Runqueue, TLAPS, SequenceTheorems, FiniteSetTheorems

USE ZenonT(5), SMTT(20), ZenonT(60)

-----------------------------------------------------------------------------
(***************************************************************************)
(* Lists                                                                   *)
(***************************************************************************)

(* A range of indices determines its length.                               *)
LEMMA SameRange ==
  ASSUME NEW m \in Nat, NEW n \in Nat, 1..m = 1..n
  PROVE  m = n
<1>1. m <= n
  BY m \in 1..m \/ m = 0
<1>2. n <= m
  BY n \in 1..n \/ n = 0
<1>. QED
  BY <1>1, <1>2

(* list_del removes the task, and keeps the others once each.              *)
LEMMA WithoutMember ==
  ASSUME NEW S, NEW s \in Seq(S), Distinct(s), NEW t \in Elements(s)
  PROVE  /\ Without(s, t) \in Seq(S)
         /\ Len(Without(s, t)) = Len(s) - 1
         /\ Distinct(Without(s, t))
         /\ Elements(Without(s, t)) = Elements(s) \ {t}
<1> DEFINE i == Index(s, t)
           w == Without(s, t)
<1>1. i \in 1..Len(s) /\ s[i] = t
  BY DEF Index, Elements
<1>2. w = [n \in 1..Len(s) - 1 |-> IF n < i THEN s[n] ELSE s[n + 1]]
  BY DEF Without
<1> HIDE DEF i, w
<1>3. Len(s) - 1 \in Nat
  BY <1>1
<1>4. \A n \in 1..Len(s) - 1 : w[n] = (IF n < i THEN s[n] ELSE s[n + 1]) /\ w[n] \in S
  BY <1>1, <1>2
<1>5. w \in Seq(S) /\ Len(w) = Len(s) - 1
  <2>1. w \in [1..Len(s) - 1 -> S]
    BY <1>2, <1>4
  <2>2. w \in Seq(S)
    BY <1>3, <2>1, SeqDef
  <2>3. Len(w) \in Nat /\ 1..Len(w) = 1..Len(s) - 1
    BY <2>1, <2>2, LenProperties
  <2>. QED
    BY <1>3, <2>2, <2>3, SameRange
<1>6. Distinct(w)
  <2> SUFFICES ASSUME NEW m \in 1..Len(w), NEW n \in 1..Len(w), w[m] = w[n]
               PROVE  m = n
    BY DEF Distinct
  <2> DEFINE from(k) == IF k < i THEN k ELSE k + 1
  <2>1. from(m) \in 1..Len(s) /\ from(n) \in 1..Len(s)
    BY <1>1, <1>5
  <2>2. w[m] = s[from(m)] /\ w[n] = s[from(n)]
    BY <1>4, <1>5
  <2>3. from(m) = from(n)
    BY <2>1, <2>2 DEF Distinct
  <2>. QED
    BY <1>1, <1>5, <2>3
<1>7. Elements(w) \subseteq Elements(s) \ {t}
  BY <1>1, <1>4, <1>5 DEF Distinct, Elements
<1>8. ASSUME NEW x \in Elements(s), x # t
      PROVE  x \in Elements(w)
  <2>1. PICK n \in 1..Len(s) : s[n] = x
    BY DEF Elements
  <2>2. CASE n < i
    BY <1>1, <1>4, <1>5, <2>1, <2>2 DEF Elements
  <2>3. CASE n > i
    <3>1. n - 1 \in 1..Len(w) /\ w[n - 1] = x
      BY <1>1, <1>4, <1>5, <2>1, <2>3
    <3>. QED
      BY <3>1 DEF Elements
  <2>. QED
    BY <1>1, <1>8, <2>1, <2>2, <2>3
<1>. QED
  BY <1>5, <1>6, <1>7, <1>8 DEF w

(* A task that is not in the list is not removed.                          *)
LEMMA WithoutOther ==
  ASSUME NEW s, NEW t, t \notin Elements(s)
  PROVE  Without(s, t) = s
BY DEF Without

(* The element behind t stays in the list when t leaves it.                *)
LEMMA NextMember ==
  ASSUME NEW S, NEW s \in Seq(S), Distinct(s), NEW t \in Elements(s)
  PROVE  NextIn(s, t) \in (Elements(s) \ {t}) \union {End}
<1>1. Index(s, t) \in 1..Len(s) /\ s[Index(s, t)] = t
  BY DEF Index, Elements
<1>. QED
  BY <1>1 DEF NextIn, Distinct, Elements

(* list_add_tail of a new task.                                            *)
LEMMA AppendNew ==
  ASSUME NEW S, NEW s \in Seq(S), Distinct(s), NEW t \in S, t \notin Elements(s)
  PROVE  /\ Append(s, t) \in Seq(S)
         /\ Len(Append(s, t)) = Len(s) + 1
         /\ Distinct(Append(s, t))
         /\ Elements(Append(s, t)) = Elements(s) \union {t}
<1> DEFINE w == Append(s, t)
<1>1. w \in Seq(S) /\ Len(w) = Len(s) + 1 /\ \A n \in 1..Len(w) : w[n] = IF n <= Len(s) THEN s[n] ELSE t
  BY AppendProperties
<1> HIDE DEF w
<1>2. Distinct(w)
  BY <1>1 DEF Distinct, Elements
<1>3. Elements(w) = Elements(s) \union {t}
  <2>1. Elements(w) \subseteq Elements(s) \union {t}
    BY <1>1 DEF Elements
  <2>2. Elements(s) \subseteq Elements(w)
    BY <1>1 DEF Elements
  <2>3. t \in Elements(w)
    <3>1. w[Len(s) + 1] = t /\ Len(s) + 1 \in 1..Len(w)
      BY <1>1
    <3>. QED
      BY <3>1 DEF Elements
  <2>. QED
    BY <2>1, <2>2, <2>3
<1>. QED
  BY <1>1, <1>2, <1>3 DEF w

(* What Push makes of a sequence.                                          *)
LEMMA PushSeq ==
  ASSUME NEW S, NEW s \in Seq(S), NEW t \in S
  PROVE  /\ Push(t, s) \in Seq(S)
         /\ Len(Push(t, s)) = Len(s) + 1
         /\ \A n \in 1..Len(s) + 1 : Push(t, s)[n] = IF n = 1 THEN t ELSE s[n - 1]
<1>1. <<t>> \in Seq(S) /\ Len(<<t>>) = 1 /\ <<t>>[1] = t
  OBVIOUS
<1>2. /\ <<t>> \o s \in Seq(S) /\ Len(<<t>> \o s) = 1 + Len(s)
      /\ \A n \in 1..1 + Len(s) : (<<t>> \o s)[n] = IF n <= 1 THEN <<t>>[n] ELSE s[n - 1]
  BY <1>1, ConcatProperties
<1>. QED
  BY <1>1, <1>2 DEF Push

(* list_add of a new task.                                                 *)
LEMMA PushNew ==
  ASSUME NEW S, NEW s \in Seq(S), Distinct(s), NEW t \in S, t \notin Elements(s)
  PROVE  /\ Distinct(Push(t, s))
         /\ Elements(Push(t, s)) = Elements(s) \union {t}
<1> DEFINE w == Push(t, s)
<1>1. Len(w) = Len(s) + 1 /\ \A n \in 1..Len(w) : w[n] = IF n = 1 THEN t ELSE s[n - 1]
  BY PushSeq
<1> HIDE DEF w
<1>2. Distinct(w)
  <2>1. \A n \in 2..Len(w) : n - 1 \in 1..Len(s) /\ w[n] = s[n - 1] /\ w[n] # t
    BY <1>1 DEF Elements
  <2>. QED
    BY <1>1, <2>1 DEF Distinct
<1>3. Elements(w) \subseteq Elements(s) \union {t}
  BY <1>1 DEF Elements
<1>4. ASSUME NEW x \in Elements(s) PROVE x \in Elements(w)
  <2>1. PICK n \in 1..Len(s) : s[n] = x
    BY DEF Elements
  <2>2. n + 1 \in 1..Len(w) /\ w[n + 1] = x
    BY <1>1, <2>1
  <2>. QED
    BY <2>2 DEF Elements
<1>5. t \in Elements(w)
  BY <1>1 DEF Elements
<1>. QED
  BY <1>2, <1>3, <1>4, <1>5 DEF w

(* The first element is taken off.                                         *)
LEMMA TailMember ==
  ASSUME NEW S, NEW s \in Seq(S), Distinct(s), s # <<>>
  PROVE  /\ Tail(s) \in Seq(S)
         /\ s[1] \in S /\ s[1] \in Elements(s)
         /\ Distinct(Tail(s))
         /\ Elements(Tail(s)) = Elements(s) \ {s[1]}
<1> DEFINE w == Tail(s)
<1>1. /\ Len(s) > 0 /\ w \in Seq(S) /\ Len(w) = Len(s) - 1
      /\ \A n \in 1..Len(w) : w[n] = s[n + 1]
  BY HeadTailProperties, EmptySeq
<1> HIDE DEF w
<1>2. s[1] \in S /\ s[1] \in Elements(s)
  BY <1>1 DEF Elements
<1>3. Distinct(w)
  BY <1>1 DEF Distinct
<1>4. Elements(w) \subseteq Elements(s) \ {s[1]}
  BY <1>1 DEF Elements, Distinct
<1>5. ASSUME NEW x \in Elements(s), x # s[1] PROVE x \in Elements(w)
  <2>1. PICK n \in 1..Len(s) : s[n] = x
    BY DEF Elements
  <2>2. n - 1 \in 1..Len(w) /\ w[n - 1] = x
    BY <1>1, <1>5, <2>1
  <2>. QED
    BY <2>2 DEF Elements
<1>. QED
  BY <1>1, <1>2, <1>3, <1>4, <1>5 DEF w

-----------------------------------------------------------------------------
(***************************************************************************)
(* The inductive invariant                                                 *)
(***************************************************************************)

Flags == [Task -> BOOLEAN]
Running == {t \in Task : running[t]}

(* running_tasks counts the tasks with the flag, not only the list.        *)
Counted == running_tasks = Cardinality(Running)

(* IteratorsValid of any stack S, with the lists act and pend.             *)
IterOK(S, act, pend) ==
  \A n \in 1..Len(S) :
    /\ S[n].at = "eachPending" => S[n].task \in Elements(pend) \union {End}
    /\ S[n].at = "eachActive" => S[n].task \in Elements(act) \union {End}

(* A call in progress that looks for tasks to start before it ends.        *)
Busy(S) == \E n \in 1..Len(S) : S[n].at \in {"start", "complete", "kill"}

(* NoStall also while calls are in progress.                               *)
StallInv == MayStart /\ Room => timer = "start" \/ killed \/ Busy(stack)

ListsOK ==
  /\ active \in Seq(Task) /\ inactive \in Seq(Task) /\ running_tasks \in Nat
  /\ queued \in Flags /\ running \in Flags /\ cancelled \in Flags /\ timeout \in Flags
  /\ ListsMatch /\ Counted /\ TimersOnRunning

RestOK ==
  /\ stopped \in BOOLEAN /\ empty \in BOOLEAN /\ timer \in {"none", "start", "empty"}
  /\ proc \in Flags /\ calls \in Nat /\ direct \subseteq Task /\ killed \in BOOLEAN

StackOK(S, act, pend) == S \in Seq(Frame) /\ IterOK(S, act, pend)

IInv ==
  /\ ListsOK /\ StackOK(stack, active, inactive) /\ RestOK
  /\ EmptyIsEmpty /\ LimitKept /\ StallInv

(* What an operation that ends or cancels tasks does, S being the stack    *)
(* below it: it starts and queues nothing, and keeps what S waits for.     *)
Shrinks(S) ==
  /\ ListsOK' /\ StackOK(stack', active', inactive')
  /\ \A u \in Task : (running'[u] => running[u]) /\ (queued'[u] => queued[u])
  /\ Busy(S) => Busy(stack')
  /\ Busy(stack') \/ UNCHANGED <<lists, running_tasks>>

-----------------------------------------------------------------------------
(***************************************************************************)
(* The stack                                                               *)
(***************************************************************************)

(* A call is begun.                                                        *)
LEMMA PushOK ==
  ASSUME NEW S, NEW act, NEW pend, StackOK(S, act, pend), NEW f \in Frame,
         f.at = "eachPending" => f.task \in Elements(pend) \union {End},
         f.at = "eachActive" => f.task \in Elements(act) \union {End}
  PROVE  /\ StackOK(Push(f, S), act, pend)
         /\ Push(f, S)[1] = f
         /\ Busy(Push(f, S)) <=> f.at \in {"start", "complete", "kill"} \/ Busy(S)
<1> DEFINE w == Push(f, S)
<1>1. S \in Seq(Frame)
  BY DEF StackOK
<1>2. /\ w \in Seq(Frame) /\ Len(w) = Len(S) + 1 /\ Len(S) \in Nat
      /\ \A n \in 1..Len(w) : w[n] = IF n = 1 THEN f ELSE S[n - 1]
  <2>1. /\ w \in Seq(Frame) /\ Len(w) = Len(S) + 1
        /\ \A n \in 1..Len(S) + 1 : w[n] = IF n = 1 THEN f ELSE S[n - 1]
    <3>1. ASSUME NEW F, NEW x \in Seq(F), NEW y \in F
          PROVE  /\ Push(y, x) \in Seq(F) /\ Len(Push(y, x)) = Len(x) + 1
                 /\ \A n \in 1..Len(x) + 1 : Push(y, x)[n] = IF n = 1 THEN y ELSE x[n - 1]
      BY PushSeq
    <3>. QED
      BY <1>1, <3>1
  <2>2. Len(S) \in Nat
    BY <1>1, LenProperties, Zenon
  <2> HIDE DEF w
  <2>. QED
    BY <2>1, <2>2
<1> HIDE DEF w
<1>3. w[1] = f /\ 1 \in 1..Len(w)
  BY <1>2
<1>4. \A n \in 2..Len(w) : n - 1 \in 1..Len(S) /\ w[n] = S[n - 1]
  BY <1>2
<1>5. \A n \in 1..Len(w) : n = 1 \/ n \in 2..Len(w)
  BY <1>2
<1>6. IterOK(w, act, pend)
  BY <1>3, <1>4, <1>5 DEF IterOK, StackOK
<1>7. \A n \in 1..Len(S) : n + 1 \in 1..Len(w) /\ w[n + 1] = S[n]
  BY <1>2
<1>8. Busy(w) <=> f.at \in {"start", "complete", "kill"} \/ Busy(S)
  <2>1. ASSUME Busy(w) PROVE f.at \in {"start", "complete", "kill"} \/ Busy(S)
    BY <1>3, <1>4, <1>5, <2>1 DEF Busy
  <2>2. ASSUME Busy(S) PROVE Busy(w)
    BY <1>7, <2>2 DEF Busy
  <2>3. ASSUME f.at \in {"start", "complete", "kill"} PROVE Busy(w)
    BY <1>3, <2>3 DEF Busy
  <2>. QED
    BY <2>1, <2>2, <2>3
<1>. QED
  BY <1>2, <1>3, <1>6, <1>8 DEF StackOK, w

(* A call ends.                                                            *)
LEMMA PopOK ==
  ASSUME NEW S, NEW act, NEW pend, StackOK(S, act, pend), S # <<>>
  PROVE  /\ S[1] \in Frame
         /\ StackOK(Tail(S), act, pend)
         /\ Busy(S) <=> S[1].at \in {"start", "complete", "kill"} \/ Busy(Tail(S))
<1> DEFINE w == Tail(S)
<1>1. S \in Seq(Frame)
  BY DEF StackOK
<1>2. /\ Len(S) \in Nat /\ Len(S) > 0 /\ w \in Seq(Frame) /\ Len(w) = Len(S) - 1
      /\ \A n \in 1..Len(w) : w[n] = S[n + 1]
  BY <1>1, HeadTailProperties, EmptySeq
<1> HIDE DEF w
<1>3. 1 \in 1..Len(S) /\ S[1] \in Frame
  BY <1>1, <1>2
<1>4. \A n \in 1..Len(w) : n + 1 \in 1..Len(S) /\ w[n] = S[n + 1]
  BY <1>2
<1>5. ASSUME NEW n \in 1..Len(S), n # 1
      PROVE  n - 1 \in 1..Len(w) /\ w[n - 1] = S[n]
  <2>1. n - 1 \in 1..Len(w) /\ n - 1 + 1 = n
    BY <1>2, <1>5
  <2>. QED
    BY <1>2, <2>1
<1>6. IterOK(w, act, pend)
  BY <1>4 DEF IterOK, StackOK
<1>7. Busy(S) <=> S[1].at \in {"start", "complete", "kill"} \/ Busy(w)
  <2>1. ASSUME Busy(S) PROVE S[1].at \in {"start", "complete", "kill"} \/ Busy(w)
    BY <1>5, <2>1 DEF Busy
  <2>2. ASSUME Busy(w) PROVE Busy(S)
    BY <1>4, <2>2 DEF Busy
  <2>3. ASSUME S[1].at \in {"start", "complete", "kill"} PROVE Busy(S)
    BY <1>3, <2>3 DEF Busy
  <2>. QED
    BY <2>1, <2>2, <2>3
<1>. QED
  BY <1>2, <1>3, <1>6, <1>7 DEF StackOK, w

(* safe_list_del leaves no iteration on the deleted task: with t off the   *)
(* list s, the iterations are valid again.                                 *)
LEMMA DeleteOK ==
  ASSUME NEW S, StackOK(S, active, inactive), ListsOK,
         NEW s \in {active, inactive}, NEW t \in Elements(s), NEW act, NEW pend,
         \/ Elements(act) = Elements(active) \ {t}
         \/ s = inactive /\ Elements(active) \subseteq Elements(act),
         Elements(pend) = Elements(inactive) \ {t}
  PROVE  /\ StackOK(safe_list_del(t, s, S), act, pend)
         /\ Busy(S) => Busy(safe_list_del(t, s, S))
<1> DEFINE w == safe_list_del(t, s, S)
           moved(n) == S[n].at \in Iterating /\ S[n].task = t
<1>1. /\ S \in Seq(Frame) /\ s \in Seq(Task) /\ Distinct(s)
      /\ \A x \in Elements(active) : x \notin Elements(inactive)
      /\ t \in Task
  <2>1. S \in Seq(Frame) /\ s \in Seq(Task) /\ Distinct(s)
    BY DEF StackOK, ListsOK, ListsMatch
  <2>2. Elements(active) \subseteq Task /\ Elements(inactive) \subseteq Task
    BY DEF ListsOK, Elements
  <2>. QED
    BY <2>1, <2>2 DEF ListsOK, ListsMatch
<1>2. NextIn(s, t) \in (Elements(s) \ {t}) \union {End}
  BY <1>1, NextMember
<1>3. NextIn(s, t) \in Task \union {End}
  BY <1>1, <1>2 DEF Elements
<1>4. /\ w = [n \in 1..Len(S) |-> IF moved(n) THEN Call(S[n].at, NextIn(s, t)) ELSE S[n]]
  BY DEF safe_list_del
<1>5. \A n \in 1..Len(S) : Call(S[n].at, NextIn(s, t)) \in Frame /\ S[n] \in Frame
  <2>1. \A n \in 1..Len(S) : S[n] \in Frame
    BY <1>1
  <2>2. \A f \in Frame, x \in Task \union {End} : Call(f.at, x) \in Frame
    BY Zenon DEF Call, Frame
  <2>. QED
    BY <1>3, <2>1, <2>2, Zenon
<1> HIDE DEF w
<1>6. w \in Seq(Frame) /\ Len(w) = Len(S)
  <2>1. w \in [1..Len(S) -> Frame]
    BY <1>4, <1>5
  <2>2. Len(S) \in Nat
    BY <1>1, LenProperties
  <2>3. w \in Seq(Frame)
    BY <2>1, <2>2, SeqDef
  <2>4. Len(w) \in Nat /\ 1..Len(w) = 1..Len(S)
    BY <2>1, <2>3, LenProperties
  <2>. QED
    BY <2>2, <2>3, <2>4, SameRange
<1>7. \A n \in 1..Len(S) : w[n].at = S[n].at
  BY <1>4 DEF Call
<1>8. IterOK(w, act, pend)
  <2> SUFFICES ASSUME NEW n \in 1..Len(S)
               PROVE  /\ w[n].at = "eachPending" => w[n].task \in Elements(pend) \union {End}
                      /\ w[n].at = "eachActive" => w[n].task \in Elements(act) \union {End}
    BY <1>6 DEF IterOK
  <2>0. /\ S[n].at = "eachPending" => S[n].task \in Elements(inactive) \union {End}
        /\ S[n].at = "eachActive" => S[n].task \in Elements(active) \union {End}
    BY DEF StackOK, IterOK
  <2>1. CASE ~moved(n)
    <3>1. w[n] = S[n]
      BY <1>4, <2>1
    <3>2. S[n].at \in {"eachPending", "eachActive"} => S[n].task # t
      BY <2>1 DEF Iterating
    <3>. QED
      BY <2>0, <3>1, <3>2
  <2>2. CASE moved(n)
    <3>1. w[n].task = NextIn(s, t) /\ S[n].task = t
      BY <1>4, <2>2 DEF Call
    <3>2. t # End
      BY <1>1, RunqueueAssumption
    <3>3. CASE w[n].at = "eachPending"
      <4>1. t \in Elements(inactive) /\ t \notin Elements(active)
        BY <1>1, <1>7, <2>0, <3>1, <3>2, <3>3
      <4>2. s = inactive
        BY <4>1
      <4>. QED
        BY <1>2, <3>1, <3>3, <4>2
    <3>4. CASE w[n].at = "eachActive"
      <4>1. t \in Elements(active) /\ t \notin Elements(inactive)
        BY <1>1, <1>7, <2>0, <3>1, <3>2, <3>4
      <4>2. s = active /\ s # inactive
        BY <4>1
      <4>. QED
        BY <1>2, <3>1, <3>4, <4>2
    <3>. QED
      BY <3>3, <3>4
  <2>. QED
    BY <2>1, <2>2
<1>9. Busy(S) => Busy(w)
  BY <1>6, <1>7 DEF Busy
<1>. QED
  BY <1>6, <1>8, <1>9 DEF StackOK, w

-----------------------------------------------------------------------------
(***************************************************************************)
(* Operations that end tasks                                               *)
(***************************************************************************)

(* A call on the stack is a frame.                                         *)
LEMMA CallFrame ==
  ASSUME NEW a \in Callbacks \union Iterating \union Internal, NEW x \in Task \union {End}
  PROVE  Call(a, x) \in Frame /\ Call(a, x).at = a /\ Call(a, x).task = x
BY DEF Call, Frame

(* The tasks with the flag are counted up and down by one.                 *)
LEMMA CountChange ==
  ASSUME ListsOK, NEW t \in Task, NEW r \in Flags
  PROVE  /\ IsFiniteSet(Running) /\ Cardinality(Running) \in Nat
         /\ running[t] /\ r = [running EXCEPT ![t] = FALSE] =>
              Cardinality({u \in Task : r[u]}) = Cardinality(Running) - 1
         /\ ~running[t] /\ r = [running EXCEPT ![t] = TRUE] =>
              Cardinality({u \in Task : r[u]}) = Cardinality(Running) + 1
<1>1. IsFiniteSet(Task) /\ Running \subseteq Task
  BY RunqueueAssumption DEF Running
<1>2. IsFiniteSet(Running)
  BY <1>1, FS_Subset
<1>3. Cardinality(Running) \in Nat
  BY <1>2, FS_CardinalityType
<1>4. running \in Flags
  BY DEF ListsOK
<1>5. ASSUME running[t], r = [running EXCEPT ![t] = FALSE]
      PROVE  Cardinality({u \in Task : r[u]}) = Cardinality(Running) - 1
  <2>1. {u \in Task : r[u]} = Running \ {t} /\ t \in Running
    BY <1>4, <1>5 DEF Running, Flags
  <2>. QED
    BY <1>2, <2>1, FS_RemoveElement
<1>6. ASSUME ~running[t], r = [running EXCEPT ![t] = TRUE]
      PROVE  Cardinality({u \in Task : r[u]}) = Cardinality(Running) + 1
  <2>1. {u \in Task : r[u]} = Running \union {t} /\ t \notin Running
    BY <1>4, <1>6 DEF Running, Flags
  <2>. QED
    BY <1>2, <2>1, FS_AddElement
<1>. QED
  BY <1>2, <1>3, <1>5, <1>6

(* runqueue_task_complete takes the task out of everything.                *)
LEMMA CompleteShrinks ==
  ASSUME ListsOK, NEW t \in Task, NEW S, StackOK(S, active, inactive),
         task_complete(t, S)
  PROVE  Shrinks(S)
<1>1. CASE ~queued[t]
  <2>1. stack' = S /\ UNCHANGED <<lists, flags, running_tasks, timeout>>
    BY <1>1 DEF task_complete, Complete
  <2>2. ListsOK'
    BY <2>1 DEF ListsOK, ListsMatch, Counted, TimersOnRunning, Running, lists, flags
  <2>. QED
    BY <2>1, <2>2 DEF Shrinks, lists, flags
<1>2. CASE queued[t]
  <2> DEFINE s == IF running[t] THEN active ELSE inactive
  <2>1. /\ running_tasks' = running_tasks + (IF running[t] THEN -1 ELSE 0)
        /\ timeout' = [timeout EXCEPT ![t] = FALSE]
        /\ active' = Without(active, t) /\ inactive' = Without(inactive, t)
        /\ queued' = [queued EXCEPT ![t] = FALSE]
        /\ running' = [running EXCEPT ![t] = FALSE]
        /\ cancelled' = [cancelled EXCEPT ![t] = FALSE]
        /\ stack' = Push(Call("complete", t), safe_list_del(t, s, S))
    BY <1>2 DEF task_complete, Complete
  <2>2. /\ t \in Elements(active) <=> running[t]
        /\ t \in Elements(inactive) <=> ~running[t]
        /\ active \in Seq(Task) /\ inactive \in Seq(Task)
        /\ Distinct(active) /\ Distinct(inactive) /\ running_tasks = Len(active)
        /\ running_tasks \in Nat
    BY <1>2 DEF ListsOK, ListsMatch
  <2>3. /\ active' \in Seq(Task) /\ Distinct(active') /\ Elements(active') = Elements(active) \ {t}
        /\ Len(active') = Len(active) + (IF running[t] THEN -1 ELSE 0)
    <3>1. CASE running[t]
      BY <2>1, <2>2, <3>1, WithoutMember
    <3>2. CASE ~running[t]
      BY <2>1, <2>2, <3>2, WithoutOther
    <3>. QED
      BY <3>1, <3>2
  <2>4. /\ inactive' \in Seq(Task) /\ Distinct(inactive')
        /\ Elements(inactive') = Elements(inactive) \ {t}
    <3>1. CASE ~running[t]
      BY <2>1, <2>2, <3>1, WithoutMember
    <3>2. CASE running[t]
      BY <2>1, <2>2, <3>2, WithoutOther
    <3>. QED
      BY <3>1, <3>2
  <2>5. /\ queued' \in Flags /\ running' \in Flags /\ cancelled' \in Flags /\ timeout' \in Flags
    BY <2>1 DEF ListsOK, Flags
  <2>6. \A u \in Task : /\ u # t => /\ queued'[u] = queued[u] /\ running'[u] = running[u]
                                    /\ cancelled'[u] = cancelled[u] /\ timeout'[u] = timeout[u]
                        /\ u = t => ~queued'[u] /\ ~running'[u] /\ ~cancelled'[u] /\ ~timeout'[u]
    BY <2>1 DEF ListsOK, Flags
  <2>7. running_tasks' = Len(active') /\ running_tasks' \in Nat
    BY <2>1, <2>2, <2>3, LenProperties
  <2>8. ListsMatch'
    BY <2>3, <2>4, <2>6, <2>7 DEF ListsOK, ListsMatch
  <2>9. Counted'
    <3>1. CASE running[t]
      BY <2>1, <2>5, <3>1, CountChange DEF Counted, Running, ListsOK
    <3>2. CASE ~running[t]
      <4>1. Running' = Running
        BY <2>6, <3>2 DEF Running
      <4>2. running_tasks' = running_tasks
        BY <2>1, <2>2, <3>2
      <4>. QED
        BY <4>1, <4>2 DEF Counted, ListsOK
    <3>. QED
      BY <3>1, <3>2
  <2>10. TimersOnRunning'
    BY <2>6 DEF TimersOnRunning, ListsOK
  <2>11. ListsOK'
    BY <2>3, <2>4, <2>5, <2>7, <2>8, <2>9, <2>10 DEF ListsOK
  <2>12. /\ StackOK(safe_list_del(t, s, S), active', inactive')
    <3>1. s \in {active, inactive} /\ t \in Elements(s)
      BY <2>2
    <3>. QED
      BY <2>3, <2>4, <3>1, DeleteOK
  <2>13. /\ StackOK(stack', active', inactive') /\ Busy(stack')
    <3>1. /\ Call("complete", t) \in Frame /\ Call("complete", t).at = "complete"
      BY CallFrame DEF Callbacks
    <3>. QED
      BY <2>1, <2>12, <3>1, PushOK
  <2>. QED
    BY <2>6, <2>11, <2>13 DEF Shrinks
<1>. QED
  BY <1>1, <1>2 DEF ListsOK, Flags

(* runqueue_task_cancel, its timeout pending or not.                       *)
LEMMA CancelShrinks ==
  ASSUME ListsOK, NEW t \in Task, NEW S, StackOK(S, active, inactive),
         NEW p \in BOOLEAN, Cancel(t, S, p)
  PROVE  Shrinks(S)
<1>1. CASE ~running[t] /\ task_complete(t, S)
  BY <1>1, CompleteShrinks
<1>2. CASE /\ queued[t] /\ running[t]
           /\ cancelled' = [cancelled EXCEPT ![t] = TRUE]
           /\ timeout' = [timeout EXCEPT ![t] = p \/ t \in CancelTimeout]
           /\ stack' = Push(Call("cancel", t), S)
           /\ UNCHANGED <<lists, queued, running, running_tasks>>
  <2>1. ListsMatch' /\ Counted' /\ TimersOnRunning'
    BY <1>2 DEF ListsOK, ListsMatch, Counted, TimersOnRunning, Running, lists, Flags
  <2>2. cancelled' \in Flags /\ timeout' \in Flags
    BY <1>2 DEF ListsOK, Flags
  <2>3. ListsOK'
    BY <1>2, <2>1, <2>2 DEF ListsOK, lists
  <2>4. Call("cancel", t) \in Frame /\ Call("cancel", t).at = "cancel"
    BY CallFrame DEF Callbacks
  <2>5. StackOK(stack', active, inactive) /\ (Busy(S) => Busy(stack'))
    BY <1>2, <2>4, PushOK
  <2>. QED
    BY <1>2, <2>3, <2>5 DEF Shrinks, lists
<1>. QED
  BY <1>1, <1>2 DEF Cancel

(* runqueue_task_kill, up to the completion's callback.                    *)
LEMMA KillShrinks ==
  ASSUME ListsOK, NEW t \in Task, NEW S, StackOK(S, active, inactive),
         task_kill(t, S)
  PROVE  Shrinks(S)
<1>1. CASE ~queued[t]
  BY <1>1, CompleteShrinks DEF task_kill
<1>2. CASE queued[t]
  <2> DEFINE a == IF running[t] THEN "killRunning" ELSE "killPending"
             f == Call(a, t)
  <2>1. f \in Frame /\ f.at = a /\ a # "eachPending" /\ a # "eachActive"
    BY CallFrame DEF Internal
  <2>2. task_complete(t, Push(f, S))
    BY <1>2 DEF task_kill
  <2> HIDE DEF f
  <2>3. StackOK(Push(f, S), active, inactive) /\ (Busy(S) => Busy(Push(f, S)))
    BY <2>1, PushOK
  <2>4. Shrinks(Push(f, S))
    BY <2>2, <2>3, CompleteShrinks
  <2>. QED
    BY <2>3, <2>4 DEF Shrinks
<1>. QED
  BY <1>1, <1>2 DEF ListsOK, Flags

-----------------------------------------------------------------------------
(***************************************************************************)
(* Each action keeps the invariant                                         *)
(***************************************************************************)

(* Calls that end tasks: they make room only with a completion on the      *)
(* stack, which will look for tasks to start.                              *)
LEMMA ShrinksKeeps ==
  ASSUME IInv, NEW S, Busy(stack) => Busy(S), Shrinks(S), RestOK',
         UNCHANGED <<stopped, empty, timer, direct, killed>>
  PROVE  IInv'
<1>1. \A u \in Task : (running'[u] => running[u]) /\ (queued'[u] => queued[u])
  BY DEF Shrinks
<1>2. EmptyIsEmpty'
  BY <1>1 DEF EmptyIsEmpty, IInv
<1>3. LimitKept'
  <2>1. {t \in Task : running'[t]} \ direct' \subseteq {t \in Task : running[t]} \ direct
    BY <1>1
  <2>2. IsFiniteSet({t \in Task : running[t]} \ direct)
    BY RunqueueAssumption, FS_Subset
  <2> DEFINE A == {t \in Task : running'[t]} \ direct'
             B == {t \in Task : running[t]} \ direct
  <2>3. Cardinality(A) <= Cardinality(B) /\ Cardinality(A) \in Nat /\ Cardinality(B) \in Nat
    <3>1. A \subseteq B /\ IsFiniteSet(B)
      BY <2>1, <2>2
    <3> HIDE DEF A, B
    <3>2. IsFiniteSet(A) /\ Cardinality(A) <= Cardinality(B)
      BY <3>1, FS_Subset
    <3>. QED
      BY <3>1, <3>2, FS_CardinalityType
  <2>4. MaxRunning > 0 => Cardinality(B) <= MaxRunning
    BY DEF IInv, LimitKept
  <2>5. MaxRunning > 0 => Cardinality(A) <= MaxRunning
    <3> HIDE DEF A, B
    <3>. QED
      BY <2>3, <2>4, RunqueueAssumption
  <2>. QED
    BY <2>5 DEF LimitKept
<1>4. StallInv'
  <2>1. CASE Busy(stack')
    BY <2>1 DEF StallInv
  <2>2. CASE UNCHANGED <<lists, running_tasks>>
    <3>1. MayStart' = MayStart /\ Room' = Room
      BY <2>2 DEF MayStart, Room, lists
    <3>2. Busy(stack) => Busy(stack)'
      BY DEF Shrinks
    <3>. QED
      BY <3>1, <3>2 DEF IInv, StallInv
  <2>. QED
    BY <2>1, <2>2 DEF Shrinks
<1>. QED
  BY <1>2, <1>3, <1>4 DEF IInv, Shrinks

(* Calls that only move the stack, the queue's timer or its own flags.     *)
LEMMA QuietKeeps ==
  ASSUME IInv, UNCHANGED <<lists, flags, running_tasks, timeout, direct>>,
         StackOK(stack', active, inactive), RestOK', EmptyIsEmpty', StallInv'
  PROVE  IInv'
<1>1. ListsOK'
  BY DEF IInv, ListsOK, ListsMatch, Counted, TimersOnRunning, Running, lists, flags
<1>2. LimitKept'
  BY DEF IInv, LimitKept, flags
<1>. QED
  BY <1>1, <1>2 DEF IInv, lists

(* runqueue_start_next leaves no pending task behind: the queue is not     *)
(* taken for empty while there is one.                                     *)
LEMMA StartTold ==
  ASSUME IInv, runqueue_start_next, UNCHANGED <<lists, flags, empty>>
  PROVE  /\ EmptyIsEmpty' /\ StallInv' /\ timer' \in {"none", "start", "empty"}
<1>1. timer' = IF empty THEN timer ELSE "start"
  BY DEF runqueue_start_next
<1>2. EmptyIsEmpty'
  BY <1>1 DEF IInv, EmptyIsEmpty, flags
<1>3. empty => inactive = <<>>
  <2> SUFFICES ASSUME empty, inactive # <<>> PROVE FALSE
    OBVIOUS
  <2>1. inactive[1] \in Task /\ inactive[1] \in Elements(inactive)
    BY TailMember DEF IInv, ListsOK, ListsMatch
  <2>. QED
    BY <2>1 DEF IInv, ListsOK, ListsMatch, EmptyIsEmpty
<1>4. StallInv'
  BY <1>1, <1>3 DEF StallInv, MayStart, lists
<1>. QED
  BY <1>1, <1>2, <1>4 DEF IInv, RestOK

(* The iterations are undisturbed by a task added to a list.               *)
LEMMA GrowOK ==
  ASSUME StackOK(stack, active, inactive), NEW act, NEW pend,
         Elements(active) \subseteq Elements(act),
         Elements(inactive) \subseteq Elements(pend)
  PROVE  StackOK(stack, act, pend)
BY DEF StackOK, IterOK

(* _runqueue_task_add: a task is new in exactly one list, and the queue is *)
(* told.                                                                   *)
LEMMA AddKeeps ==
  ASSUME IInv, NEW t \in Task, NEW run \in BOOLEAN, NEW first \in BOOLEAN,
         Add(t, run, first), empty' = FALSE, timer' = "start", proc' \in Flags,
         calls' \in Nat
  PROVE  IInv'
<1>1. /\ ~queued[t]
      /\ running_tasks' = running_tasks + (IF run THEN 1 ELSE 0)
      /\ queued' = [queued EXCEPT ![t] = TRUE]
      /\ running' = [running EXCEPT ![t] = run]
      /\ cancelled' = [cancelled EXCEPT ![t] = FALSE]
      /\ direct' = IF run THEN direct \union {t} ELSE direct \ {t}
      /\ killed' = FALSE
      /\ UNCHANGED <<stopped, timeout, stack>>
  BY DEF Add
<1>2. /\ ListsOK /\ active \in Seq(Task) /\ inactive \in Seq(Task)
      /\ Distinct(active) /\ Distinct(inactive) /\ running_tasks = Len(active)
      /\ running_tasks \in Nat
  BY DEF IInv, ListsOK, ListsMatch
<1>3. /\ t \notin Elements(active) /\ t \notin Elements(inactive)
      /\ ~running[t] /\ ~timeout[t]
  BY <1>1 DEF IInv, ListsOK, ListsMatch, TimersOnRunning
<1>4. ASSUME NEW s \in Seq(Task), Distinct(s), t \notin Elements(s),
             NEW w, w = IF first THEN Push(t, s) ELSE Append(s, t)
      PROVE  /\ w \in Seq(Task) /\ Distinct(w) /\ Len(w) = Len(s) + 1
             /\ Elements(w) = Elements(s) \union {t}
  <2>1. CASE first
    <3>1. w = Push(t, s)
      BY <1>4, <2>1
    <3>2. Push(t, s) \in Seq(Task) /\ Len(Push(t, s)) = Len(s) + 1
      BY PushSeq
    <3>3. Distinct(Push(t, s)) /\ Elements(Push(t, s)) = Elements(s) \union {t}
      BY <1>4, PushNew
    <3>. QED
      BY <3>1, <3>2, <3>3
  <2>2. CASE ~first
    <3>1. w = Append(s, t)
      BY <1>4, <2>2
    <3>2. /\ Append(s, t) \in Seq(Task) /\ Distinct(Append(s, t))
          /\ Len(Append(s, t)) = Len(s) + 1
          /\ Elements(Append(s, t)) = Elements(s) \union {t}
      BY <1>4, AppendNew
    <3>. QED
      BY <3>1, <3>2
  <2>. QED
    BY <2>1, <2>2
<1>5. /\ active' \in Seq(Task) /\ Distinct(active')
      /\ Elements(active') = IF run THEN Elements(active) \union {t} ELSE Elements(active)
      /\ Len(active') = Len(active) + (IF run THEN 1 ELSE 0)
  <2>1. CASE run
    BY <1>2, <1>3, <1>4, <2>1 DEF Add
  <2>2. CASE ~run
    <3>1. active' = active
      BY <2>2 DEF Add
    <3>. QED
      BY <1>2, <2>2, <3>1
  <2>. QED
    BY <2>1, <2>2
<1>6. /\ inactive' \in Seq(Task) /\ Distinct(inactive')
      /\ Elements(inactive') = IF run THEN Elements(inactive) ELSE Elements(inactive) \union {t}
  <2>1. CASE ~run
    BY <1>2, <1>3, <1>4, <2>1 DEF Add
  <2>2. CASE run
    <3>1. inactive' = inactive
      BY <2>2 DEF Add
    <3>. QED
      BY <1>2, <2>2, <3>1
  <2>. QED
    BY <2>1, <2>2
<1>7. /\ queued' \in Flags /\ running' \in Flags /\ cancelled' \in Flags /\ timeout' \in Flags
  BY <1>1, <1>2 DEF ListsOK, Flags
<1>8. \A u \in Task : /\ u # t => /\ queued'[u] = queued[u] /\ running'[u] = running[u]
                                  /\ cancelled'[u] = cancelled[u]
                      /\ u = t => queued'[u] /\ running'[u] = run /\ ~cancelled'[u]
  BY <1>1, <1>2 DEF ListsOK, Flags
<1>9. running_tasks' = Len(active') /\ running_tasks' \in Nat
  BY <1>1, <1>2, <1>5
<1>10. ListsMatch'
  BY <1>2, <1>3, <1>5, <1>6, <1>8, <1>9 DEF ListsOK, ListsMatch
<1>11. Counted'
  <2>1. CASE run
    BY <1>1, <1>2, <1>3, <1>7, <2>1, CountChange DEF Counted, Running, ListsOK
  <2>2. CASE ~run
    <3>1. Running' = Running
      BY <1>3, <1>8, <2>2 DEF Running
    <3>2. running_tasks' = running_tasks
      BY <1>1, <1>2, <2>2
    <3>. QED
      BY <1>2, <3>1, <3>2 DEF Counted, ListsOK
  <2>. QED
    BY <2>1, <2>2
<1>12. TimersOnRunning'
  BY <1>1, <1>2, <1>3, <1>8 DEF TimersOnRunning, ListsOK
<1>13. ListsOK'
  BY <1>5, <1>6, <1>7, <1>9, <1>10, <1>11, <1>12 DEF ListsOK
<1>14. StackOK(stack', active', inactive')
  BY <1>1, <1>5, <1>6, GrowOK DEF IInv
<1>15. RestOK' /\ EmptyIsEmpty' /\ StallInv'
  BY <1>1 DEF IInv, RestOK, EmptyIsEmpty, StallInv
<1>16. LimitKept'
  <2>1. {u \in Task : running'[u]} \ direct' = {u \in Task : running[u]} \ direct
    BY <1>1, <1>3, <1>8
  <2>. QED
    BY <2>1 DEF IInv, LimitKept
<1>. QED
  BY <1>13, <1>14, <1>15, <1>16 DEF IInv

(* __runqueue_start_next moves the first pending task, within the limit.   *)
LEMMA StartKeeps ==
  ASSUME IInv, __runqueue_start_next
  PROVE  IInv'
<1> DEFINE t == inactive[1]
           S == safe_list_del(t, inactive, stack)
<1>1. /\ inactive # <<>> /\ Room /\ inactive' = Tail(inactive) /\ active' = Append(active, t)
      /\ running' = [running EXCEPT ![t] = TRUE]
      /\ timeout' = [timeout EXCEPT ![t] = timeout[t] \/ t \in RunTimeout]
      /\ stack' = Push(Call("run", t), S)
      /\ running_tasks' = running_tasks + 1
      /\ UNCHANGED <<queued, cancelled, stopped, empty, timer, proc, calls, direct, killed>>
      /\ In("start")
  BY DEF __runqueue_start_next, StartNext, MayStart
<1>2. /\ ListsOK /\ active \in Seq(Task) /\ inactive \in Seq(Task)
      /\ Distinct(active) /\ Distinct(inactive) /\ running_tasks = Len(active)
      /\ running_tasks \in Nat /\ StackOK(stack, active, inactive)
  BY DEF IInv, ListsOK, ListsMatch
<1>3. /\ t \in Task /\ t \in Elements(inactive) /\ inactive' \in Seq(Task)
      /\ Distinct(inactive') /\ Elements(inactive') = Elements(inactive) \ {t}
  BY <1>1, <1>2, TailMember
<1>4. queued[t] /\ ~running[t] /\ t \notin Elements(active)
  BY <1>2, <1>3 DEF ListsOK, ListsMatch
<1>5. /\ active' \in Seq(Task) /\ Distinct(active') /\ Len(active') = Len(active) + 1
      /\ Elements(active') = Elements(active) \union {t}
  BY <1>1, <1>2, <1>3, <1>4, AppendNew
<1>6. StackOK(S, active', inactive') /\ (Busy(stack) => Busy(S))
  BY <1>2, <1>3, <1>5, DeleteOK
<1>7. Call("run", t) \in Frame /\ Call("run", t).at = "run"
  BY <1>3, CallFrame DEF Callbacks
<1> HIDE DEF S
<1>8. StackOK(stack', active', inactive') /\ (Busy(S) => Busy(stack'))
  BY <1>1, <1>6, <1>7, PushOK
<1>9. Busy(stack)
  BY <1>1, <1>2, PopOK DEF In
<1> HIDE DEF t
<1>10. /\ queued' \in Flags /\ running' \in Flags /\ cancelled' \in Flags /\ timeout' \in Flags
  BY <1>1, <1>2, <1>3 DEF ListsOK, Flags
<1>11. \A u \in Task : /\ u # t => running'[u] = running[u] /\ timeout'[u] = timeout[u]
                       /\ u = t => running'[u]
  BY <1>1, <1>2, <1>3 DEF ListsOK, Flags
<1>12. running_tasks' = Len(active') /\ running_tasks' \in Nat
  BY <1>1, <1>2, <1>5
<1>13. ListsMatch'
  BY <1>1, <1>2, <1>3, <1>4, <1>5, <1>11, <1>12 DEF ListsOK, ListsMatch
<1>14. Counted'
  BY <1>1, <1>2, <1>3, <1>4, <1>10, CountChange DEF Counted, Running, ListsOK
<1>15. TimersOnRunning'
  BY <1>1, <1>2, <1>11 DEF TimersOnRunning, ListsOK
<1>16. ListsOK'
  BY <1>3, <1>5, <1>10, <1>12, <1>13, <1>14, <1>15 DEF ListsOK
<1>17. RestOK' /\ EmptyIsEmpty' /\ StallInv'
  BY <1>1, <1>6, <1>8, <1>9 DEF IInv, RestOK, EmptyIsEmpty, StallInv
<1>18. LimitKept'
  <2> DEFINE A == {u \in Task : running'[u]} \ direct'
             B == Running'
  <2>1. A \subseteq B /\ B \subseteq Task
    BY DEF Running
  <2>2. B = Running' /\ A = {u \in Task : running'[u]} \ direct'
    OBVIOUS
  <2> HIDE DEF A, B
  <2>3. IsFiniteSet(B)
    BY <2>1, RunqueueAssumption, FS_Subset
  <2>4. Cardinality(A) <= Cardinality(B) /\ IsFiniteSet(A)
    BY <2>1, <2>3, FS_Subset
  <2>5. Cardinality(B) = running_tasks'
    BY <1>14, <2>2 DEF Counted
  <2>6. MaxRunning > 0 => running_tasks' <= MaxRunning
    BY <1>1, <1>2, RunqueueAssumption DEF Room
  <2>7. Cardinality(A) \in Nat
    BY <2>4, FS_CardinalityType
  <2>8. MaxRunning > 0 => Cardinality(A) <= MaxRunning
    BY <1>12, <2>4, <2>5, <2>6, <2>7, RunqueueAssumption
  <2>. QED
    BY <2>2, <2>8 DEF LimitKept
<1>. QED
  BY <1>8, <1>16, <1>17, <1>18 DEF IInv

(* Where an iteration begins, and goes next.                               *)
LEMMA IteratorBegins ==
  ASSUME NEW s \in Seq(Task)
  PROVE  First(s) \in Elements(s) \union {End} /\ First(s) \in Task \union {End}
<1>1. CASE s = <<>>
  BY <1>1 DEF First
<1>2. CASE s # <<>>
  <2>1. 1 \in 1..Len(s) /\ s[1] \in Task
    BY <1>2, EmptySeq
  <2>. QED
    BY <1>2, <2>1 DEF First, Elements
<1>. QED
  BY <1>1, <1>2

(* A call of the user that is no operation on a task.                      *)
LEMMA UserKeeps ==
  ASSUME IInv, runqueue_cancel \/ runqueue_kill \/ runqueue_stop \/ runqueue_resume
  PROVE  IInv'
<1>1. StackOK(stack, active, inactive) /\ RestOK /\ calls' \in Nat
  BY DEF IInv, RestOK, runqueue_cancel, runqueue_kill, runqueue_stop, runqueue_resume,
         UserCall
<1>2. ASSUME StackOK(stack', active, inactive), Busy(stack) => Busy(stack'),
             UNCHANGED <<lists, flags, running_tasks, stopped, empty, timer, timeout,
                         proc, direct, killed>>
      PROVE  IInv'
  <2>1. RestOK' /\ EmptyIsEmpty'
    BY <1>1, <1>2 DEF IInv, RestOK, EmptyIsEmpty, flags
  <2>2. StallInv'
    BY <1>2 DEF IInv, StallInv, MayStart, Room, lists
  <2>. QED
    BY <1>2, <2>1, <2>2, QuietKeeps
<1>3. CASE runqueue_cancel
  <2> DEFINE f == Call("eachPending", First(inactive))
             g == Call("thenActive", End)
  <2>1. First(inactive) \in Elements(inactive) \union {End} /\ First(inactive) \in Task \union {End}
    BY IteratorBegins DEF IInv, ListsOK
  <2>2. f \in Frame /\ f.at = "eachPending" /\ f.task = First(inactive)
    BY <2>1, CallFrame DEF Iterating
  <2>3. g \in Frame /\ g.at = "thenActive"
    BY CallFrame DEF Internal
  <2>4. stack' \in {Push(f, stack), Push(g, stack), Push(f, Push(g, stack))}
    BY <1>3 DEF runqueue_cancel
  <2> HIDE DEF f, g
  <2>5. StackOK(Push(g, stack), active, inactive) /\ (Busy(stack) => Busy(Push(g, stack)))
    BY <1>1, <2>3, PushOK
  <2>6. StackOK(Push(f, stack), active, inactive) /\ (Busy(stack) => Busy(Push(f, stack)))
    BY <1>1, <2>1, <2>2, PushOK
  <2>7. /\ StackOK(Push(f, Push(g, stack)), active, inactive)
        /\ Busy(stack) => Busy(Push(f, Push(g, stack)))
    BY <2>1, <2>2, <2>5, PushOK
  <2>. QED
    BY <1>2, <1>3, <2>4, <2>5, <2>6, <2>7 DEF runqueue_cancel
<1>4. CASE runqueue_kill
  <2> DEFINE f == Call("killAll", End)
  <2>1. f \in Frame /\ f.at = "killAll"
    BY CallFrame DEF Internal
  <2>2. stack' = Push(f, stack)
    BY <1>4 DEF runqueue_kill
  <2> HIDE DEF f
  <2>3. StackOK(stack', active, inactive) /\ (Busy(stack) => Busy(stack'))
    BY <1>1, <2>1, <2>2, PushOK
  <2>. QED
    BY <1>2, <1>4, <2>3 DEF runqueue_kill
<1>5. CASE runqueue_stop
  <2>1. RestOK' /\ EmptyIsEmpty' /\ StallInv'
    BY <1>1, <1>5 DEF runqueue_stop, IInv, RestOK, EmptyIsEmpty, flags, StallInv, MayStart
  <2>. QED
    BY <1>1, <1>5, <2>1, QuietKeeps DEF runqueue_stop
<1>6. CASE runqueue_resume
  <2>1. /\ runqueue_start_next /\ stopped' = FALSE
        /\ UNCHANGED <<lists, flags, running_tasks, empty, timeout, proc, stack, direct, killed>>
    BY <1>6 DEF runqueue_resume
  <2>2. EmptyIsEmpty' /\ StallInv' /\ timer' \in {"none", "start", "empty"}
    BY <2>1, StartTold
  <2>3. RestOK'
    BY <1>1, <2>1, <2>2 DEF RestOK
  <2>. QED
    BY <1>1, <2>1, <2>2, <2>3, QuietKeeps
<1>. QED
  BY <1>3, <1>4, <1>5, <1>6

(* A callback or a call returns.                                           *)
LEMMA ReturnKeeps ==
  ASSUME IInv, callback_returns \/ complete_returns \/ kill_callback
  PROVE  IInv'
<1>1. StackOK(stack, active, inactive) /\ RestOK /\ stack # <<>>
  BY DEF IInv, callback_returns, complete_returns, kill_callback, In
<1>2. /\ StackOK(Pop, active, inactive) /\ stack[1] \in Frame
      /\ Busy(stack) <=> stack[1].at \in {"start", "complete", "kill"} \/ Busy(Pop)
  BY <1>1, PopOK DEF Pop
<1>3. CASE callback_returns
  <2>1. /\ stack' = Pop /\ stack[1].at \in {"run", "cancel", "empty"}
        /\ UNCHANGED <<lists, flags, running_tasks, stopped, empty, timer, timeout, proc,
                       calls, direct, killed>>
    BY <1>3 DEF callback_returns, In
  <2>2. Busy(stack) => Busy(stack')
    BY <1>2, <2>1
  <2>3. RestOK' /\ EmptyIsEmpty' /\ StallInv'
    BY <1>1, <2>1, <2>2 DEF IInv, RestOK, EmptyIsEmpty, flags, StallInv, MayStart, Room, lists
  <2>. QED
    BY <1>2, <2>1, <2>3, QuietKeeps
<1>4. CASE complete_returns
  <2>1. /\ runqueue_start_next /\ stack' = Pop
        /\ UNCHANGED <<lists, flags, running_tasks, stopped, empty, timeout, proc, calls,
                       direct, killed>>
    BY <1>4 DEF complete_returns
  <2>2. EmptyIsEmpty' /\ StallInv' /\ timer' \in {"none", "start", "empty"}
    BY <2>1, StartTold
  <2>3. RestOK'
    BY <1>1, <2>1, <2>2 DEF RestOK
  <2>. QED
    BY <1>2, <2>1, <2>2, <2>3, QuietKeeps
<1>5. CASE kill_callback
  <2> DEFINE f == Call("kill", stack[1].task)
  <2>1. /\ stack' = Push(f, Pop) /\ proc' = [proc EXCEPT ![stack[1].task] = FALSE]
        /\ UNCHANGED <<lists, flags, running_tasks, stopped, empty, timer, timeout, calls,
                       direct, killed>>
    BY <1>5 DEF kill_callback
  <2>2. stack[1].task \in Task \union {End}
    BY <1>2 DEF Frame
  <2>3. f \in Frame /\ f.at = "kill"
    BY <2>2, CallFrame DEF Callbacks
  <2> HIDE DEF f
  <2>4. StackOK(stack', active, inactive) /\ Busy(stack')
    BY <1>2, <2>1, <2>3, PushOK
  <2>5. RestOK' /\ EmptyIsEmpty' /\ StallInv'
    BY <1>1, <2>1, <2>4 DEF IInv, RestOK, EmptyIsEmpty, flags, StallInv, Flags
  <2>. QED
    BY <2>1, <2>4, <2>5, QuietKeeps
<1>. QED
  BY <1>3, <1>4, <1>5

(* The loops of runqueue_cancel and runqueue_kill.                         *)
LEMMA LoopKeeps ==
  ASSUME IInv, runqueue_cancel_active \/ safe_list_for_each \/ kill_active
  PROVE  IInv'
<1>1. /\ ListsOK /\ StackOK(stack, active, inactive) /\ RestOK /\ stack # <<>>
      /\ stack[1].at \in {"thenActive", "eachPending", "eachActive", "killAll"}
      /\ UNCHANGED <<stopped, empty, timer, proc, calls, direct, killed>>
  BY DEF IInv, runqueue_cancel_active, safe_list_for_each, kill_active, In
<1>2. /\ StackOK(Pop, active, inactive) /\ stack[1] \in Frame
      /\ Busy(stack) => Busy(Pop)
  BY <1>1, PopOK DEF Pop
<1>3. RestOK'
  BY <1>1 DEF RestOK
<1>4. ASSUME StackOK(stack', active, inactive), Busy(stack) => Busy(stack'),
             UNCHANGED <<lists, flags, running_tasks, timeout>>
      PROVE  IInv'
  <2>1. EmptyIsEmpty' /\ StallInv'
    BY <1>1, <1>4 DEF IInv, EmptyIsEmpty, flags, StallInv, MayStart, Room, lists
  <2>. QED
    BY <1>1, <1>3, <1>4, <2>1, QuietKeeps
<1>5. active \in Seq(Task) /\ inactive \in Seq(Task) /\ Distinct(active) /\ Distinct(inactive)
  BY <1>1 DEF ListsOK, ListsMatch
<1>6. CASE runqueue_cancel_active
  <2> DEFINE f == Call("eachActive", First(active))
  <2>1. First(active) \in Elements(active) \union {End} /\ First(active) \in Task \union {End}
    BY <1>5, IteratorBegins
  <2>2. f \in Frame /\ f.at = "eachActive" /\ f.task = First(active)
    BY <2>1, CallFrame DEF Iterating
  <2>3. stack' = Push(f, Pop) /\ UNCHANGED <<lists, flags, running_tasks, timeout>>
    BY <1>6 DEF runqueue_cancel_active
  <2> HIDE DEF f
  <2>4. StackOK(stack', active, inactive) /\ (Busy(stack) => Busy(stack'))
    BY <1>2, <2>1, <2>2, <2>3, PushOK
  <2>. QED
    BY <1>4, <2>3, <2>4
<1>7. CASE safe_list_for_each
  <2> DEFINE cur == stack[1].task
             at == stack[1].at
             list == IF In("eachPending") THEN inactive ELSE active
             f == Call(at, NextIn(list, cur))
  <2>1. CASE cur = End
    <3>1. stack' = Pop /\ UNCHANGED <<lists, flags, running_tasks, timeout>>
      BY <1>7, <2>1 DEF safe_list_for_each
    <3>. QED
      BY <1>2, <1>4, <3>1
  <2>2. CASE cur # End
    <3>1. task_cancel(cur, Push(f, Pop))
      BY <1>7, <2>2 DEF safe_list_for_each
    <3>2. \/ at = "eachPending" /\ list = inactive
          \/ at = "eachActive" /\ list = active
      BY <1>7 DEF safe_list_for_each, In
    <3>3. cur \in Task /\ cur \in Elements(list) /\ list \in Seq(Task) /\ Distinct(list)
      <4>1. 1 \in 1..Len(stack)
        BY <1>1, EmptySeq DEF StackOK
      <4>2. cur \in Elements(list)
        BY <1>1, <2>2, <3>2, <4>1 DEF StackOK, IterOK
      <4>. QED
        BY <1>5, <3>2, <4>2 DEF Elements
    <3>4. NextIn(list, cur) \in Elements(list) \union {End}
      BY <3>3, NextMember
    <3>5. NextIn(list, cur) \in Task \union {End}
      BY <3>3, <3>4 DEF Elements
    <3>6. f \in Frame /\ f.at = at /\ f.task = NextIn(list, cur)
      BY <3>2, <3>5, CallFrame DEF Iterating
    <3> HIDE DEF f
    <3>7. StackOK(Push(f, Pop), active, inactive) /\ (Busy(stack) => Busy(Push(f, Pop)))
      <4>1. /\ f.at = "eachPending" => f.task \in Elements(inactive) \union {End}
            /\ f.at = "eachActive" => f.task \in Elements(active) \union {End}
        BY <3>2, <3>4, <3>6
      <4>. QED
        BY <1>2, <3>6, <4>1, PushOK
    <3>8. timeout[cur] \in BOOLEAN
      BY <1>1, <3>3 DEF ListsOK, Flags
    <3>9. Shrinks(Push(f, Pop))
      BY <1>1, <3>1, <3>3, <3>7, <3>8, CancelShrinks DEF task_cancel
    <3>. QED
      BY <1>1, <1>3, <3>7, <3>9, ShrinksKeeps
  <2>. QED
    BY <2>1, <2>2
<1>8. CASE kill_active
  <2>1. CASE active # <<>>
    <3>1. task_kill(active[1], stack) /\ active[1] \in Task
      BY <1>5, <1>8, <2>1, TailMember DEF kill_active
    <3>2. Shrinks(stack)
      BY <1>1, <3>1, KillShrinks
    <3>. QED
      BY <1>1, <1>3, <3>2, ShrinksKeeps
  <2>2. CASE active = <<>>
    <3> DEFINE f == Call("eachPending", First(inactive))
               g == Call("killEnd", End)
    <3>1. First(inactive) \in Elements(inactive) \union {End} /\ First(inactive) \in Task \union {End}
      BY <1>5, IteratorBegins
    <3>2. f \in Frame /\ f.at = "eachPending" /\ f.task = First(inactive)
      BY <3>1, CallFrame DEF Iterating
    <3>3. g \in Frame /\ g.at = "killEnd"
      BY CallFrame DEF Internal
    <3>4. stack' = Push(f, Push(g, Pop)) /\ UNCHANGED <<lists, flags, running_tasks, timeout>>
      BY <1>8, <2>2 DEF kill_active
    <3> HIDE DEF f, g
    <3>5. StackOK(Push(g, Pop), active, inactive) /\ (Busy(stack) => Busy(Push(g, Pop)))
      BY <1>2, <3>3, PushOK
    <3>6. StackOK(stack', active, inactive) /\ (Busy(stack) => Busy(stack'))
      BY <3>1, <3>2, <3>4, <3>5, PushOK
    <3>. QED
      BY <1>4, <3>4, <3>6
  <2>. QED
    BY <2>1, <2>2
<1>. QED
  BY <1>6, <1>7, <1>8

(* __runqueue_start_next and runqueue_kill end: neither leaves a task that *)
(* may start, unless the kill is on record.                                *)
LEMMA EndKeeps ==
  ASSUME IInv, start_next_ends \/ kill_ends
  PROVE  IInv'
<1>1. StackOK(stack, active, inactive) /\ RestOK /\ stack # <<>> /\ ListsOK
  BY DEF IInv, start_next_ends, kill_ends, In
<1>2. StackOK(Pop, active, inactive)
  BY <1>1, PopOK DEF Pop
<1>3. CASE start_next_ends
  <2>1. /\ stack' = Pop /\ ~(MayStart /\ Room)
        /\ IF ~empty /\ active = <<>> /\ inactive = <<>>
             THEN empty' = TRUE /\ timer' \in {"empty", timer}
             ELSE UNCHANGED <<empty, timer>>
        /\ UNCHANGED <<lists, flags, running_tasks, stopped, timeout, proc, calls, direct,
                       killed>>
    BY <1>3 DEF start_next_ends
  <2>2. RestOK'
    BY <1>1, <2>1 DEF RestOK
  <2>3. StallInv'
    BY <2>1 DEF StallInv, MayStart, Room, lists
  <2>4. EmptyIsEmpty'
    <3>1. CASE ~empty /\ active = <<>> /\ inactive = <<>>
      <4>1. Elements(active) = {} /\ Elements(inactive) = {}
        BY <3>1 DEF Elements
      <4>2. \A t \in Task : ~queued[t]
        BY <1>1, <4>1 DEF ListsOK, ListsMatch
      <4>. QED
        BY <2>1, <4>2 DEF EmptyIsEmpty, flags
    <3>2. CASE ~(~empty /\ active = <<>> /\ inactive = <<>>)
      BY <2>1, <3>2 DEF IInv, EmptyIsEmpty, flags
    <3>. QED
      BY <3>1, <3>2
  <2>. QED
    BY <1>2, <2>1, <2>2, <2>3, <2>4, QuietKeeps
<1>4. CASE kill_ends
  <2>1. /\ stack' = Pop /\ timer' = "none" /\ killed' = TRUE
        /\ UNCHANGED <<lists, flags, running_tasks, stopped, empty, timeout, proc, calls,
                       direct>>
    BY <1>4 DEF kill_ends
  <2>2. RestOK' /\ StallInv' /\ EmptyIsEmpty'
    BY <1>1, <2>1 DEF RestOK, StallInv, IInv, EmptyIsEmpty, flags
  <2>. QED
    BY <1>2, <2>1, <2>2, QuietKeeps
<1>. QED
  BY <1>3, <1>4

(* What uloop calls when nothing is in progress.                           *)
LEMMA EventKeeps ==
  ASSUME IInv, Event
  PROVE  IInv'
<1>1. ListsOK /\ StackOK(stack, active, inactive) /\ RestOK /\ stack = <<>>
  BY DEF IInv, Event, queue_timer, __runqueue_task_timeout, __runqueue_proc_cb, task_ends
<1>2. ASSUME queue_timer
      PROVE  IInv'
  <2>1. /\ timer \in {"start", "empty"} /\ timer' = "none" /\ stack' = <<Call(timer, End)>>
        /\ UNCHANGED <<lists, flags, running_tasks, stopped, empty, timeout, proc, calls,
                       direct, killed>>
    BY <1>1, <1>2 DEF queue_timer, RestOK
  <2> DEFINE f == Call(timer, End)
  <2>2. f \in Frame /\ f.at = timer
    BY <2>1, CallFrame DEF Callbacks, Internal
  <2>3. stack' = Push(f, stack)
    <3>1. <<f>> \o <<>> = <<f>>
      OBVIOUS
    <3>. QED
      BY <1>1, <2>1, <3>1 DEF Push
  <2> HIDE DEF f
  <2>4. StackOK(stack', active, inactive) /\ (timer = "start" \/ Busy(stack) => Busy(stack'))
    BY <1>1, <2>1, <2>2, <2>3, PushOK
  <2>5. RestOK' /\ EmptyIsEmpty'
    BY <1>1, <2>1 DEF IInv, RestOK, EmptyIsEmpty, flags
  <2>6. StallInv'
    BY <2>1, <2>4 DEF IInv, StallInv, MayStart, Room, lists
  <2>. QED
    BY <2>1, <2>4, <2>5, <2>6, QuietKeeps
<1>3. ASSUME NEW t \in Task, __runqueue_task_timeout(t)
      PROVE  IInv'
  <2>1. RestOK' /\ UNCHANGED <<stopped, empty, timer, direct, killed>>
    BY <1>1, <1>3 DEF __runqueue_task_timeout, RestOK
  <2>2. CASE cancelled[t]
    <3>1. task_kill(t, stack)
      BY <1>1, <1>3, <2>2 DEF __runqueue_task_timeout
    <3>. QED
      BY <1>1, <2>1, <3>1, KillShrinks, ShrinksKeeps
  <2>3. CASE ~cancelled[t]
    <3>1. Cancel(t, stack, FALSE)
      BY <1>1, <1>3, <2>3 DEF __runqueue_task_timeout
    <3>. QED
      BY <1>1, <2>1, <3>1, CancelShrinks, ShrinksKeeps
  <2>. QED
    BY <2>2, <2>3
<1>4. ASSUME NEW t \in Task, __runqueue_proc_cb(t) \/ task_ends(t)
      PROVE  IInv'
  <2>1. UNCHANGED <<stopped, empty, timer, calls, direct, killed>>
    BY <1>4 DEF __runqueue_proc_cb, task_ends
  <2>2. proc' \in Flags
    BY <1>1, <1>4 DEF __runqueue_proc_cb, task_ends, RestOK, Flags
  <2>3. task_complete(t, stack)
    BY <1>1, <1>4 DEF __runqueue_proc_cb, task_ends
  <2>4. RestOK'
    BY <1>1, <2>1, <2>2 DEF RestOK
  <2>. QED
    BY <1>1, <2>1, <2>3, <2>4, CompleteShrinks, ShrinksKeeps
<1>. QED
  BY <1>2, <1>3, <1>4 DEF Event

(* A call of the user.                                                     *)
LEMMA CallKeeps ==
  ASSUME IInv, UserStep
  PROVE  IInv'
<1>1. ListsOK /\ StackOK(stack, active, inactive) /\ RestOK
  BY DEF IInv
<1>2. ASSUME UserCall PROVE calls' \in Nat
  BY <1>1, <1>2 DEF UserCall, RestOK
<1>3. ASSUME NEW t \in Task, NEW run \in BOOLEAN, NEW first \in BOOLEAN,
             runqueue_task_add(t, run, first)
      PROVE  IInv'
  BY <1>1, <1>2, <1>3, AddKeeps DEF runqueue_task_add, RestOK
<1>4. ASSUME NEW t \in Task, runqueue_process_add(t)
      PROVE  IInv'
  <2>1. proc' \in Flags /\ calls' \in Nat
    BY <1>1, <1>2, <1>4 DEF runqueue_process_add, RestOK, Flags
  <2>2. CASE ~queued[t] /\ Add(t, TRUE, FALSE) /\ empty' = FALSE /\ timer' = "start"
    BY <2>1, <2>2, AddKeeps
  <2>3. CASE UNCHANGED <<lists, flags, running_tasks, stopped, empty, timer, timeout,
                         stack, direct, killed>>
    <3>1. RestOK' /\ EmptyIsEmpty' /\ StallInv'
      BY <1>1, <2>1, <2>3
         DEF IInv, RestOK, EmptyIsEmpty, flags, StallInv, MayStart, Room, lists
    <3>. QED
      BY <1>1, <2>3, <3>1, QuietKeeps
  <2>. QED
    BY <1>4, <2>2, <2>3 DEF runqueue_process_add
<1>5. ASSUME NEW t \in Task,
             runqueue_task_complete(t) \/ runqueue_task_cancel(t) \/ runqueue_task_kill(t)
      PROVE  IInv'
  <2>1. UserCall /\ UNCHANGED <<stopped, empty, timer, proc, direct, killed>>
    BY <1>5 DEF runqueue_task_complete, runqueue_task_cancel, runqueue_task_kill
  <2>2. RestOK'
    BY <1>1, <1>2, <2>1 DEF RestOK
  <2>3. Shrinks(stack)
    <3>1. CASE runqueue_task_complete(t)
      BY <1>1, <3>1, CompleteShrinks DEF runqueue_task_complete
    <3>2. CASE runqueue_task_cancel(t)
      <4>1. timeout[t] \in BOOLEAN /\ Cancel(t, stack, timeout[t])
        BY <1>1, <3>2 DEF runqueue_task_cancel, task_cancel, ListsOK, Flags
      <4>. QED
        BY <1>1, <4>1, CancelShrinks
    <3>3. CASE runqueue_task_kill(t)
      BY <1>1, <3>3, KillShrinks DEF runqueue_task_kill
    <3>. QED
      BY <1>5, <3>1, <3>2, <3>3
  <2>. QED
    BY <2>1, <2>2, <2>3, ShrinksKeeps
<1>. QED
  BY <1>3, <1>4, <1>5, UserKeeps DEF UserStep

-----------------------------------------------------------------------------
(***************************************************************************)
(* The theorems                                                            *)
(***************************************************************************)

(* The invariant holds in every reachable state, whatever the callbacks do.*)
THEOREM QueueInvariant == Spec => []IInv
<1>1. Init => IInv
  <2> SUFFICES ASSUME Init PROVE IInv
    OBVIOUS
  <2>1. /\ active = <<>> /\ inactive = <<>> /\ stack = <<>> /\ running_tasks = 0
        /\ \A t \in Task : ~queued[t] /\ ~running[t] /\ ~cancelled[t] /\ ~timeout[t]
        /\ queued \in Flags /\ running \in Flags /\ cancelled \in Flags
        /\ timeout \in Flags /\ proc \in Flags
    BY DEF Init, Flags
  <2>2. /\ active \in Seq(Task) /\ inactive \in Seq(Task) /\ stack \in Seq(Frame)
        /\ Len(active) = 0 /\ Len(inactive) = 0 /\ Len(stack) = 0
    BY <2>1
  <2>3. Elements(active) = {} /\ Elements(inactive) = {} /\ Distinct(active) /\ Distinct(inactive)
    BY <2>2 DEF Elements, Distinct
  <2>4. ListsMatch
    BY <2>1, <2>2, <2>3 DEF ListsMatch
  <2>5. Running = {}
    BY <2>1 DEF Running
  <2>6. Counted
    BY <2>1, <2>5, FS_EmptySet DEF Counted
  <2>7. ListsOK
    BY <2>1, <2>2, <2>4, <2>6 DEF ListsOK, TimersOnRunning
  <2>8. StackOK(stack, active, inactive)
    BY <2>2 DEF StackOK, IterOK
  <2>9. RestOK /\ EmptyIsEmpty /\ StallInv
    BY <2>1 DEF Init, RestOK, EmptyIsEmpty, StallInv, MayStart
  <2>10. LimitKept
    <3>1. {t \in Task : running[t]} \ direct = {}
      BY <2>1
    <3>2. Cardinality({t \in Task : running[t]} \ direct) = 0
      BY <3>1, FS_EmptySet
    <3>. QED
      BY <3>2, RunqueueAssumption DEF LimitKept
  <2>. QED
    BY <2>7, <2>8, <2>9, <2>10 DEF IInv
<1>2. IInv /\ [Next]_vars => IInv'
  <2> SUFFICES ASSUME IInv, [Next]_vars PROVE IInv'
    OBVIOUS
  <2>1. CASE UserStep
    BY <2>1, CallKeeps
  <2>2. CASE QueueStep
    BY <2>2, ReturnKeeps, StartKeeps, LoopKeeps, EndKeeps DEF QueueStep
  <2>3. CASE Event
    BY <2>3, EventKeeps
  <2>4. CASE UNCHANGED vars
    <3>1. /\ UNCHANGED <<lists, flags, running_tasks, timeout, direct>>
          /\ StackOK(stack', active, inactive) /\ RestOK'
      BY <2>4 DEF vars, lists, flags, IInv, RestOK
    <3>2. EmptyIsEmpty' /\ StallInv'
      BY <2>4 DEF vars, IInv, EmptyIsEmpty, StallInv, MayStart, Room
    <3>. QED
      BY <3>1, <3>2, QuietKeeps
  <2>. QED
    BY <2>1, <2>2, <2>3, <2>4 DEF Next
<1>. QED
  BY <1>1, <1>2, PTL DEF Spec

(* Type correctness.                                                       *)
THEOREM TypeCorrect == Spec => []TypeOK
<1>1. IInv => TypeOK
  BY DEF IInv, TypeOK, ListsOK, RestOK, StackOK, Flags
<1>. QED
  BY <1>1, QueueInvariant, PTL

(* The lists, the flags and the count agree, between any two statements    *)
(* that call out of the queue.                                             *)
THEOREM ListsAgree == Spec => []ListsMatch
<1>1. IInv => ListsMatch
  BY DEF IInv, ListsOK
<1>. QED
  BY <1>1, QueueInvariant, PTL

(* No timeout or cancellation outlives its task's run.                     *)
THEOREM TimersEnd == Spec => []TimersOnRunning
<1>1. IInv => TimersOnRunning
  BY DEF IInv, ListsOK
<1>. QED
  BY <1>1, QueueInvariant, PTL

(* The iterations of safe lists survive every deletion in a callback.      *)
THEOREM IterationsSafe == Spec => []IteratorsValid
<1>1. IInv => IteratorsValid
  BY DEF IInv, StackOK, IterOK, IteratorsValid
<1>. QED
  BY <1>1, QueueInvariant, PTL

(* The queue starts no task above max_running_tasks.                       *)
THEOREM LimitHolds == Spec => []LimitKept
<1>1. IInv => LimitKept
  BY DEF IInv
<1>. QED
  BY <1>1, QueueInvariant, PTL

(* No startable task is forgotten.                                         *)
THEOREM NeverStalls == Spec => []NoStall
<1>1. IInv => NoStall
  <2> SUFFICES ASSUME IInv, stack = <<>> PROVE ~Busy(stack)
    BY DEF IInv, NoStall, StallInv
  <2>1. Len(stack) = 0
    OBVIOUS
  <2>. QED
    BY <2>1 DEF Busy
<1>. QED
  BY <1>1, QueueInvariant, PTL

(* The queue never takes itself for empty while a task is queued.          *)
THEOREM EmptyRight == Spec => []EmptyIsEmpty
<1>1. IInv => EmptyIsEmpty
  BY DEF IInv
<1>. QED
  BY <1>1, QueueInvariant, PTL
=============================================================================
