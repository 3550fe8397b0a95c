------------------------------ MODULE UloopProofs ------------------------------
(***************************************************************************)
(* The safety properties of the event loop, for any descriptors and        *)
(* children, any number of nested loops and any size of the batch.         *)
(*                                                                         *)
(* The inductive invariant has four parts.  LoopInv: only the innermost    *)
(* loop is beyond its checks, it polls only with an empty batch, and no    *)
(* signal and no uloop_end is forgotten.  FdInv: fd_stack names an edge-   *)
(* triggered descriptor once, buffers events only for those, and the batch *)
(* names a descriptor once.  HeldInv: fd_stack names the callbacks that    *)
(* are not to be called again.  The rest is TypeOK.                        *)
(***************************************************************************)
EXTENDS Uloop, TLAPS

(* The provers of a leaf and their time limits.                            *)
USE ZenonT(5), SMTT(20), ZenonT(60)

(* Only the innermost loop is beyond its checks of uloop_cancelled, and it *)
(* waits for events only when the batch is empty.                          *)
PlacesOK ==
  /\ \A n \in 1..Len(stack) : stack[n].at \in {"fetch", "poll", "events"} => n = 1
  /\ In("poll") => batch = <<>>

LoopInv == PlacesOK /\ SignalKept /\ (ended => cancelled) /\ EndStops

(* The batch names a descriptor once.                                      *)
BatchOnce ==
  \A m, n \in 1..Len(batch) : batch[m].fd = batch[n].fd /\ batch[m].fd # NoFd => m = n

(* An event that is left of a deleted descriptor is not buffered.          *)
LeftUnbuffered ==
  \A f \in edge \ (registered \union switched) :
    (\E n \in 1..Len(batch) : batch[n].fd = f) => OnStack(f) = {}

(* Events are buffered for registered edge-triggered descriptors only.     *)
Quiet ==
  \A f \in Fd \ (switched \union (registered \intersect edge)) :
    \A n \in OnStack(f) : ~stack[n].more

(* fd_stack names an edge-triggered descriptor once.                       *)
OneEntry ==
  \A f \in edge \ switched : \A m, n \in OnStack(f) : m = n

FdInv ==
  /\ gone \intersect registered = {} /\ due \subseteq edge
  /\ BatchOnce /\ LeftUnbuffered /\ Quiet
  /\ DeletedIsSilent /\ OneEntry /\ NoLostEdge

(* A callback that is not to be called again is in progress once, fd_stack *)
(* still names it, and its descriptor is still edge-triggered.             *)
HeldInv ==
  \A f \in Fd \ loose :
    /\ \A m, n \in InProgress(f) : m = n
    /\ \A n \in InProgress(f) : f \in edge /\ stack[n].live

IInv == TypeOK /\ LoopInv /\ FdInv /\ HeldInv

-----------------------------------------------------------------------------
(***************************************************************************)
(* Stacks                                                                  *)
(***************************************************************************)

(* A call is put on a stack.                                               *)
LEMMA Pushed ==
  ASSUME NEW S \in Seq(Frame), NEW e \in Frame
  PROVE  /\ <<e>> \o S \in Seq(Frame) /\ Len(<<e>> \o S) = Len(S) + 1
         /\ (<<e>> \o S)[1] = e
         /\ \A n \in 1..Len(S) : (<<e>> \o S)[n + 1] = S[n]
         /\ \A n \in 2..Len(S) + 1 : n - 1 \in 1..Len(S) /\ (<<e>> \o S)[n] = S[n - 1]
  OBVIOUS

(* A call returns.                                                         *)
LEMMA Popped ==
  ASSUME NEW S \in Seq(Frame), S # <<>>
  PROVE  /\ Tail(S) \in Seq(Frame) /\ Len(Tail(S)) = Len(S) - 1 /\ Len(S) >= 1
         /\ \A n \in 1..Len(S) - 1 : n + 1 \in 1..Len(S) /\ Tail(S)[n] = S[n + 1]
  OBVIOUS

(* The innermost call goes to another place.                               *)
LEMMA Moved ==
  ASSUME NEW S \in Seq(Frame), S # <<>>, NEW e \in Frame
  PROVE  /\ [S EXCEPT ![1] = e] \in Seq(Frame) /\ Len([S EXCEPT ![1] = e]) = Len(S)
         /\ Len(S) >= 1 /\ [S EXCEPT ![1] = e][1] = e
         /\ \A n \in 2..Len(S) : [S EXCEPT ![1] = e][n] = S[n]
  OBVIOUS

(* Each call of a stack is replaced.                                       *)
LEMMA Mapped ==
  ASSUME NEW S \in Seq(Frame), NEW T, T = [n \in 1..Len(S) |-> T[n]],
         \A n \in 1..Len(S) : T[n] \in Frame
  PROVE  T \in Seq(Frame) /\ Len(T) = Len(S)
  OBVIOUS

(* Calls, callbacks and what uloop_fd_stack_event makes of them are frames.*)
LEMMA Frames ==
  ASSUME UloopAssumption
  PROVE  /\ \A a \in Loops \union Callbacks : Call(a) \in Frame
         /\ \A a \in Loops \union Callbacks : Call(a).at = a /\ Call(a).fd = NoFd /\ ~Call(a).live
         /\ \A f \in Fd : Callback(f) \in Frame
  BY DEF Call, Callback, Frame, Loops, Callbacks

(* What uloop_fd_stack_event(fd, -1) does to the stack.                    *)
LEMMA Forgets ==
  ASSUME TypeOK, NEW F
  PROVE  /\ stack_forget(F) \in Seq(Frame) /\ Len(stack_forget(F)) = Len(stack)
         /\ \A n \in 1..Len(stack) :
              /\ stack_forget(F)[n].at = stack[n].at /\ stack_forget(F)[n].fd = stack[n].fd
              /\ stack_forget(F)[n].more = stack[n].more
              /\ stack_forget(F)[n].live =
                   (stack[n].live /\ ~(stack[n].fd \in F \intersect edge /\ Innermost(n)))
<1> DEFINE T == stack_forget(F)
<1>1. \A n \in 1..Len(stack) : stack[n] \in Frame
  BY DEF TypeOK
<1>2. \A n \in 1..Len(stack) :
        /\ T[n] \in Frame
        /\ T[n].at = stack[n].at /\ T[n].fd = stack[n].fd /\ T[n].more = stack[n].more
        /\ T[n].live = (stack[n].live /\ ~(stack[n].fd \in F \intersect edge /\ Innermost(n)))
  BY <1>1 DEF stack_forget, Frame, Innermost, OnStack
<1>3. T = [n \in 1..Len(stack) |-> T[n]]
  BY DEF stack_forget
<1>4. stack \in Seq(Frame)
  BY DEF TypeOK
<1> HIDE DEF T
<1>5. T \in Seq(Frame) /\ Len(T) = Len(stack)
  BY <1>2, <1>3, <1>4, Mapped
<1> QED BY <1>2, <1>5 DEF T

(* What uloop_fd_stack_event does to the stack for an event that is to be  *)
(* buffered.                                                               *)
LEMMA Buffers ==
  ASSUME TypeOK, NEW f, NEW io \in BOOLEAN
  PROVE  /\ stack_buffer(f, io) \in Seq(Frame) /\ Len(stack_buffer(f, io)) = Len(stack)
         /\ \A n \in 1..Len(stack) :
              /\ stack_buffer(f, io)[n].at = stack[n].at
              /\ stack_buffer(f, io)[n].fd = stack[n].fd
              /\ stack_buffer(f, io)[n].live = stack[n].live
              /\ stack_buffer(f, io)[n].more =
                   (stack[n].more \/ (io /\ stack[n].fd = f /\ Innermost(n)))
<1> DEFINE T == stack_buffer(f, io)
<1>1. \A n \in 1..Len(stack) : stack[n] \in Frame
  BY DEF TypeOK
<1>2. \A n \in 1..Len(stack) :
        /\ T[n] \in Frame
        /\ T[n].at = stack[n].at /\ T[n].fd = stack[n].fd /\ T[n].live = stack[n].live
        /\ T[n].more = (stack[n].more \/ (io /\ stack[n].fd = f /\ Innermost(n)))
  BY <1>1 DEF stack_buffer, Frame
<1>3. T = [n \in 1..Len(stack) |-> T[n]]
  BY DEF stack_buffer
<1>4. stack \in Seq(Frame)
  BY DEF TypeOK
<1> HIDE DEF T
<1>5. T \in Seq(Frame) /\ Len(T) = Len(stack)
  BY <1>2, <1>3, <1>4, Mapped
<1> QED BY <1>2, <1>5 DEF T

(* A callback of a descriptor that fd_stack still names.                   *)
Named(s) == s.at = "fd" /\ s.live

StackOK(S) ==
  S \in Seq(Frame) /\ \A n \in 1..Len(S) : (S[n].fd = NoFd) <=> (S[n].at # "fd")

(* What fd_stack names in T it names in S, k places further, and no event  *)
(* is buffered in T that is not in S; and the other way round.             *)
Onto(S, T, k) ==
  \A n \in 1..Len(T) : Named(T[n]) =>
    /\ n + k \in 1..Len(S) /\ Named(S[n + k]) /\ S[n + k].fd = T[n].fd
    /\ T[n].more => S[n + k].more
Back(S, T, k) ==
  \A n \in 1..Len(S) : Named(S[n]) /\ S[n].more =>
    n - k \in 1..Len(T) /\ Named(T[n - k]) /\ T[n - k].fd = S[n].fd /\ T[n - k].more

(* A call that is no callback of a descriptor is put on the stack.         *)
LEMMA PushCall ==
  ASSUME UloopAssumption, NEW S, StackOK(S), NEW a \in (Loops \union Callbacks) \ {"fd"},
         NEW T, T = <<Call(a)>> \o S
  PROVE  StackOK(T) /\ Onto(S, T, -1) /\ Back(S, T, -1)
<1>1. S \in Seq(Frame) /\ Call(a) \in Frame /\ Call(a).at = a /\ Call(a).fd = NoFd
      /\ ~Call(a).live
  BY Frames DEF StackOK
<1>2. /\ T \in Seq(Frame) /\ Len(T) = Len(S) + 1 /\ T[1] = Call(a)
      /\ \A n \in 1..Len(S) : T[n + 1] = S[n]
      /\ \A n \in 2..Len(S) + 1 : n - 1 \in 1..Len(S) /\ T[n] = S[n - 1]
  BY <1>1, Pushed
<1>3. Len(S) \in Nat
  BY <1>1
<1>4. StackOK(T)
  BY <1>1, <1>2, <1>3 DEF StackOK
<1>5. Onto(S, T, -1)
  <2> SUFFICES ASSUME NEW n \in 1..Len(T), Named(T[n])
               PROVE  /\ n + (-1) \in 1..Len(S) /\ Named(S[n + (-1)])
                      /\ S[n + (-1)].fd = T[n].fd /\ (T[n].more => S[n + (-1)].more)
    BY DEF Onto
  <2>1. n # 1
    BY <1>1, <1>2 DEF Named
  <2>2. n \in 2..Len(S) + 1 /\ n + (-1) = n - 1
    BY <2>1, <1>2, <1>3
  <2> QED BY <2>2, <1>2
<1>6. Back(S, T, -1)
  <2> SUFFICES ASSUME NEW n \in 1..Len(S)
               PROVE  n - (-1) \in 1..Len(T) /\ T[n - (-1)] = S[n]
    BY DEF Back
  <2>1. n - (-1) = n + 1 /\ n + 1 \in 1..Len(T)
    BY <1>2, <1>3
  <2> QED BY <2>1, <1>2
<1> QED BY <1>4, <1>5, <1>6

(* A call without buffered events returns.                                 *)
LEMMA PopCall ==
  ASSUME NEW S, StackOK(S), S # <<>>, ~(Named(S[1]) /\ S[1].more), NEW T, T = Tail(S)
  PROVE  StackOK(T) /\ Onto(S, T, 1) /\ Back(S, T, 1)
<1>1. S \in Seq(Frame) /\ Len(S) \in Nat
  BY DEF StackOK
<1>2. /\ T \in Seq(Frame) /\ Len(T) = Len(S) - 1 /\ Len(S) >= 1
      /\ \A n \in 1..Len(S) - 1 : n + 1 \in 1..Len(S) /\ T[n] = S[n + 1]
  BY <1>1, Popped
<1>3. StackOK(T)
  BY <1>1, <1>2 DEF StackOK
<1>4. Onto(S, T, 1)
  BY <1>1, <1>2 DEF Onto
<1>5. Back(S, T, 1)
  <2> SUFFICES ASSUME NEW n \in 1..Len(S), Named(S[n]), S[n].more
               PROVE  n - 1 \in 1..Len(T) /\ T[n - 1] = S[n]
    BY DEF Back
  <2>1. n # 1
    OBVIOUS
  <2>2. n - 1 \in 1..Len(S) - 1 /\ (n - 1) + 1 = n
    BY <2>1, <1>1, <1>2
  <2> QED BY <2>2, <1>2
<1> QED BY <1>3, <1>4, <1>5

(* A call that is no callback of a descriptor goes to another place.       *)
LEMMA MoveCall ==
  ASSUME UloopAssumption, NEW S, StackOK(S), S # <<>>, S[1].at # "fd",
         NEW a \in (Loops \union Callbacks) \ {"fd"}, NEW T, T = [S EXCEPT ![1] = Call(a)]
  PROVE  StackOK(T) /\ Onto(S, T, 0) /\ Back(S, T, 0)
<1>1. S \in Seq(Frame) /\ Len(S) \in Nat /\ Call(a) \in Frame /\ Call(a).at = a
      /\ Call(a).fd = NoFd /\ ~Call(a).live
  BY Frames DEF StackOK
<1>2. /\ T \in Seq(Frame) /\ Len(T) = Len(S) /\ Len(S) >= 1 /\ T[1] = Call(a)
      /\ \A n \in 2..Len(S) : T[n] = S[n]
  BY <1>1, Moved
<1>3. \A n \in 1..Len(S) : n = 1 \/ n \in 2..Len(S)
  BY <1>1
<1>4. StackOK(T)
  BY <1>1, <1>2, <1>3 DEF StackOK
<1>5. \A n \in 1..Len(S) : n + 0 = n /\ n - 0 = n
  BY <1>1
<1>6. Onto(S, T, 0) /\ Back(S, T, 0)
  BY <1>1, <1>2, <1>3, <1>5 DEF Onto, Back, Named
<1> QED BY <1>4, <1>6

(* A step that changes neither descriptors nor the batch keeps FdInv.      *)
LEMMA FdOrdinary ==
  ASSUME FdInv, NEW k \in Int, Onto(stack, stack', k), Back(stack, stack', k),
         UNCHANGED <<registered, edge, batch, gone, switched, due>>
  PROVE  FdInv'
<1>1. \A f : \A n \in OnStack(f)' : n + k \in OnStack(f) /\ (stack'[n].more => stack[n + k].more)
  BY DEF OnStack, Onto, Named
<1>2. \A f : \A n \in OnStack(f) : stack[n].more =>
         n - k \in OnStack(f)' /\ stack'[n - k].more
  BY DEF OnStack, Back, Named
<1>3. LeftUnbuffered'
  BY <1>1 DEF FdInv, LeftUnbuffered
<1>4. Quiet'
  BY <1>1 DEF FdInv, Quiet
<1>5. DeletedIsSilent'
  BY <1>1 DEF FdInv, DeletedIsSilent
<1>6. OneEntry'
  <2> SUFFICES ASSUME NEW f \in edge \ switched, NEW m \in OnStack(f)', NEW n \in OnStack(f)'
               PROVE  m = n
    BY DEF OneEntry
  <2>1. m + k = n + k
    BY <1>1 DEF FdInv, OneEntry
  <2>2. m \in Int /\ n \in Int
    BY DEF OnStack
  <2> QED BY <2>1, <2>2
<1>7. NoLostEdge'
  BY <1>2 DEF FdInv, NoLostEdge
<1> QED BY <1>3, <1>4, <1>5, <1>6, <1>7 DEF FdInv, BatchOnce

-----------------------------------------------------------------------------
(***************************************************************************)
(* The steps that change descriptors or the batch                          *)
(***************************************************************************)
(* uloop_fd_add keeps FdInv.                                               *)
LEMMA AddKeeps ==
  ASSUME IInv, NEW f \in Fd, NEW trigger \in BOOLEAN, uloop_fd_add(f, trigger)
  PROVE  FdInv'
<1>1. /\ stack' = stack /\ batch' = batch
      /\ edge' = IF trigger THEN edge \union {f} ELSE edge \ {f}
      /\ due' = IF trigger THEN due ELSE due \ {f}
      /\ switched' = IF OnStack(f) # {} /\ (f \in edge) # trigger
                       THEN switched \union {f} ELSE switched
      /\ \/ registered' = registered \union {f} /\ gone' = gone \ {f}
         \/ registered' = registered /\ gone' = gone
  BY DEF uloop_fd_add, register_poll
<1>2. \A g : OnStack(g)' = OnStack(g)
  BY <1>1 DEF OnStack
<1>3. FdInv
  BY DEF IInv
<1>4. (gone \intersect registered = {})' /\ (due \subseteq edge)' /\ BatchOnce'
  BY <1>1, <1>3 DEF FdInv, BatchOnce
<1>5. \A g : g # f => /\ g \in edge' <=> g \in edge
                      /\ g \in registered' <=> g \in registered
                      /\ g \in switched' <=> g \in switched
                      /\ g \in gone' <=> g \in gone
                      /\ g \in due' <=> g \in due
  BY <1>1
<1>6. f \notin switched' => f \notin switched /\ (OnStack(f) = {} \/ (f \in edge <=> f \in edge'))
  BY <1>1
<1>7. (f \in registered => f \in registered') /\ (f \in gone' => f \in gone)
      /\ (f \in due' => f \in due)
  BY <1>1
<1>8. LeftUnbuffered'
  BY <1>1, <1>2, <1>3, <1>5, <1>6, <1>7 DEF FdInv, LeftUnbuffered
<1>9. Quiet'
  BY <1>1, <1>2, <1>3, <1>5, <1>6, <1>7 DEF FdInv, Quiet
<1>10. DeletedIsSilent'
  BY <1>1, <1>2, <1>3, <1>5, <1>6, <1>7 DEF FdInv, DeletedIsSilent
<1>11. OneEntry'
  BY <1>1, <1>2, <1>3, <1>5, <1>6 DEF FdInv, OneEntry
<1>12. NoLostEdge'
  BY <1>1, <1>2, <1>3, <1>5, <1>6, <1>7 DEF FdInv, NoLostEdge
<1> QED BY <1>4, <1>8, <1>9, <1>10, <1>11, <1>12 DEF FdInv

(* The batch after a deletion.                                             *)
LEMMA BatchDeleted ==
  ASSUME TypeOK, NEW f \in Fd, UloopAssumption
  PROVE  /\ batch_delete(f) \in Seq(Event) /\ Len(batch_delete(f)) = Len(batch)
         /\ \A n \in 1..Len(batch) :
              /\ batch_delete(f)[n].fd = IF batch[n].fd = f THEN NoFd ELSE batch[n].fd
              /\ batch_delete(f)[n].io = batch[n].io
<1> DEFINE T == batch_delete(f)
<1>1. \A n \in 1..Len(batch) : batch[n] \in Event
  BY DEF TypeOK
<1>2. \A n \in 1..Len(batch) :
        /\ T[n] \in Event /\ T[n].io = batch[n].io
        /\ T[n].fd = IF batch[n].fd = f THEN NoFd ELSE batch[n].fd
  BY <1>1 DEF batch_delete, Event
<1>3. T = [n \in 1..Len(batch) |-> T[n]]
  BY DEF batch_delete
<1>4. batch \in Seq(Event)
  BY DEF TypeOK
<1> HIDE DEF T
<1>5. T \in Seq(Event) /\ Len(T) = Len(batch)
  BY <1>2, <1>3, <1>4
<1> QED BY <1>2, <1>5 DEF T

(* What is left on fd_stack when edge-triggered descriptors are forgotten. *)
LEMMA ForgetsOnce ==
  ASSUME IInv, NEW F, Len(stack') = Len(stack),
         \A n \in 1..Len(stack) :
           \/ stack'[n] = stack_forget(F)[n]
           \/ stack[n].at # "fd" /\ stack'[n].at # "fd"
  PROVE  \A g : /\ OnStack(g)' \subseteq OnStack(g)
                /\ g \notin F => OnStack(g)' = OnStack(g)
                /\ g \in (F \intersect edge) \ switched => OnStack(g)' = {}
                /\ \A n \in OnStack(g)' : stack'[n].more = stack[n].more
<1> SUFFICES ASSUME NEW g
             PROVE  /\ OnStack(g)' \subseteq OnStack(g)
                    /\ g \notin F => OnStack(g)' = OnStack(g)
                    /\ g \in (F \intersect edge) \ switched => OnStack(g)' = {}
                    /\ \A n \in OnStack(g)' : stack'[n].more = stack[n].more
  OBVIOUS
<1> DEFINE T == stack_forget(F)
<1>1. \A n \in 1..Len(stack) :
        /\ T[n].at = stack[n].at /\ T[n].fd = stack[n].fd /\ T[n].more = stack[n].more
        /\ T[n].live = (stack[n].live /\ ~(stack[n].fd \in F \intersect edge /\ Innermost(n)))
  BY Forgets DEF IInv
<1> HIDE DEF T
<1>2. \A n \in 1..Len(stack) :
        \/ stack'[n] = T[n]
        \/ stack[n].at # "fd" /\ stack'[n].at # "fd"
  BY DEF T
<1>3. \A n \in OnStack(g)' : n \in OnStack(g) /\ stack'[n] = T[n]
  <2> SUFFICES ASSUME NEW n \in OnStack(g)'
               PROVE  n \in OnStack(g) /\ stack'[n] = T[n]
    OBVIOUS
  <2>1. /\ n \in 1..Len(stack) /\ stack'[n].at = "fd" /\ stack'[n].fd = g
        /\ stack'[n].live
    BY DEF OnStack
  <2>2. stack'[n] = T[n]
    BY <1>2, <2>1
  <2>3. stack[n].at = "fd" /\ stack[n].fd = g /\ stack[n].live
    BY <1>1, <2>1, <2>2
  <2> QED BY <2>1, <2>2, <2>3 DEF OnStack
<1>4. ASSUME g \notin F
      PROVE  OnStack(g)' = OnStack(g)
  <2> SUFFICES ASSUME NEW n \in OnStack(g) PROVE n \in OnStack(g)'
    BY <1>3
  <2>1. n \in 1..Len(stack) /\ stack[n].at = "fd" /\ stack[n].fd = g /\ stack[n].live
    BY DEF OnStack
  <2>2. T[n].at = "fd" /\ T[n].fd = g /\ T[n].live
    BY <1>1, <1>4, <2>1
  <2> QED BY <1>2, <2>1, <2>2 DEF OnStack
<1>5. ASSUME g \in (F \intersect edge) \ switched
      PROVE  OnStack(g)' = {}
  <2> SUFFICES ASSUME NEW n \in OnStack(g)' PROVE FALSE
    OBVIOUS
  <2>1. n \in OnStack(g) /\ stack[n].fd = g /\ n \in 1..Len(stack) /\ T[n].live
    BY <1>3 DEF OnStack
  <2>2. \A m \in OnStack(g) : m = n
    BY <1>5, <2>1 DEF IInv, FdInv, OneEntry
  <2>3. Innermost(n)
    BY <2>1, <2>2 DEF Innermost
  <2> QED BY <1>1, <1>5, <2>1, <2>3
<1>6. \A n \in OnStack(g)' : stack'[n].more = stack[n].more
  BY <1>1, <1>3 DEF OnStack
<1> QED BY <1>3, <1>4, <1>5, <1>6

(* uloop_fd_delete keeps FdInv: it clears the batch and the stack.         *)
LEMMA DeleteKeeps ==
  ASSUME UloopAssumption, IInv, NEW f \in Fd, uloop_fd_delete(f)
  PROVE  FdInv'
<1>1. /\ batch' = batch_delete(f) /\ registered' = registered \ {f}
      /\ IF f \in registered THEN stack' = stack_forget({f}) /\ edge' = edge \ {f}
                             ELSE stack' = stack /\ edge' = edge
      /\ gone' = gone \union {f} /\ due' = due \ {f} /\ switched' = switched
  BY DEF uloop_fd_delete
<1>2. /\ Len(batch') = Len(batch)
      /\ \A n \in 1..Len(batch) :
           /\ batch'[n].fd = IF batch[n].fd = f THEN NoFd ELSE batch[n].fd
           /\ batch'[n].io = batch[n].io
  BY <1>1, BatchDeleted DEF IInv
<1>3. FdInv /\ TypeOK
  BY DEF IInv
<1>4. \A g : /\ OnStack(g)' \subseteq OnStack(g)
             /\ g # f => OnStack(g)' = OnStack(g)
             /\ g = f /\ f \in registered /\ f \in edge \ switched => OnStack(g)' = {}
  <2>1. CASE f \in registered
    <3>1. stack' = stack_forget({f})
      BY <1>1, <2>1
    <3>2. Len(stack') = Len(stack)
      BY <1>3, <3>1, Forgets
    <3>3. \A g : /\ OnStack(g)' \subseteq OnStack(g)
                 /\ g \notin {f} => OnStack(g)' = OnStack(g)
                 /\ g \in ({f} \intersect edge) \ switched => OnStack(g)' = {}
      BY <3>1, <3>2, ForgetsOnce
    <3> QED BY <3>3
  <2>2. CASE f \notin registered
    BY <1>1, <2>2 DEF OnStack
  <2> QED BY <2>1, <2>2
<1>5. \A n \in 1..Len(stack) : stack'[n].more = stack[n].more
  BY <1>1, <1>3, Forgets
<1>6. \A g : \A n \in OnStack(g) : n \in 1..Len(stack)
  BY DEF OnStack
<1>7. (gone \intersect registered = {})' /\ (due \subseteq edge)'
  BY <1>1, <1>3 DEF FdInv
<1>8. \A n \in 1..Len(batch) : batch'[n].fd # f
  BY <1>2 DEF UloopAssumption
<1>9. BatchOnce'
  BY <1>2, <1>3 DEF FdInv, BatchOnce
<1>10. \A g : g # f => /\ g \in edge' <=> g \in edge
                       /\ g \in registered' <=> g \in registered
                       /\ g \in gone' <=> g \in gone
                       /\ g \in due' <=> g \in due
  BY <1>1
<1>11. LeftUnbuffered'
  <2> SUFFICES ASSUME NEW g \in edge' \ (registered' \union switched'),
                      NEW n \in 1..Len(batch), batch'[n].fd = g
               PROVE  OnStack(g)' = {}
    BY <1>2 DEF LeftUnbuffered
  <2>1. g # f /\ g # NoFd
    BY <1>1, <1>3, <1>8 DEF TypeOK, UloopAssumption
  <2>2. batch[n].fd = g
    BY <1>2, <2>1
  <2> QED BY <1>1, <1>3, <1>4, <1>10, <2>1, <2>2 DEF FdInv, LeftUnbuffered
<1>12. \A n \in OnStack(f)' : f \notin switched => ~stack'[n].more
  <2> SUFFICES ASSUME NEW n \in OnStack(f)', f \notin switched PROVE ~stack'[n].more
    OBVIOUS
  <2>1. n \in OnStack(f) /\ f \notin registered \intersect edge
    BY <1>4
  <2>2. ~stack[n].more
    BY <1>3, <2>1 DEF FdInv, Quiet
  <2> QED BY <1>5, <1>6, <2>1, <2>2
<1>13. Quiet'
  <2> SUFFICES ASSUME NEW g \in Fd \ (switched' \union (registered' \intersect edge')),
                      NEW n \in OnStack(g)'
               PROVE  ~stack'[n].more
    BY DEF Quiet
  <2>1. CASE g = f
    BY <1>1, <1>12, <2>1
  <2>2. CASE g # f
    <3>1. n \in OnStack(g) /\ g \in Fd \ (switched \union (registered \intersect edge))
      BY <1>1, <1>4, <1>10, <2>2
    <3> QED BY <1>3, <1>5, <1>6, <3>1 DEF FdInv, Quiet
  <2> QED BY <2>1, <2>2
<1>14. DeletedIsSilent'
  <2> SUFFICES ASSUME NEW g \in gone' \ switched'
               PROVE  /\ \A n \in 1..Len(batch) : batch'[n].fd # g
                      /\ \A n \in OnStack(g)' : ~stack'[n].more
    BY <1>2 DEF DeletedIsSilent
  <2>1. CASE g = f
    BY <1>1, <1>8, <1>12, <2>1
  <2>2. CASE g # f
    <3>1. g \in gone \ switched /\ g # NoFd
      BY <1>1, <1>3, <2>2 DEF TypeOK, UloopAssumption
    <3>2. /\ \A n \in 1..Len(batch) : batch[n].fd # g
          /\ \A n \in OnStack(g) : ~stack[n].more
      BY <1>3, <3>1 DEF FdInv, DeletedIsSilent
    <3> QED BY <1>2, <1>4, <1>5, <1>6, <2>2, <3>1, <3>2
  <2> QED BY <2>1, <2>2
<1>15. OneEntry'
  BY <1>1, <1>3, <1>4 DEF FdInv, OneEntry
<1>16. NoLostEdge'
  <2> SUFFICES ASSUME NEW g \in (due' \intersect edge') \ switched'
               PROVE  \/ \E n \in 1..Len(batch) : batch'[n].fd = g /\ batch'[n].io
                      \/ \E n \in OnStack(g)' : stack'[n].more
    BY <1>2 DEF NoLostEdge
  <2>1. g # f /\ g \in (due \intersect edge) \ switched
    BY <1>1
  <2>2. \/ \E n \in 1..Len(batch) : batch[n].fd = g /\ batch[n].io
        \/ \E n \in OnStack(g) : stack[n].more
    BY <1>3, <2>1 DEF FdInv, NoLostEdge
  <2> QED BY <1>2, <1>4, <1>5, <1>6, <2>1, <2>2
<1> QED BY <1>7, <1>9, <1>11, <1>13, <1>14, <1>15, <1>16 DEF FdInv

(* The events that uloop_fetch_events takes.                               *)
LEMMA Fetched ==
  ASSUME UloopAssumption, TypeOK, NEW r \in Reports, uloop_fetch_events(r)
  PROVE  /\ batch' \in Seq(Event) /\ Len(batch') <= MaxBatch
         /\ DOMAIN r = 1..Len(batch')
         /\ \A n \in 1..Len(batch') :
              /\ batch'[n].fd = r[n].fd /\ batch'[n].io = r[n].io /\ r[n].fd \in Ready
              /\ r[n].io \in BOOLEAN
         /\ r = <<>> <=> Len(batch') = 0
<1>1. PICK k \in 0..MaxBatch : r \in [1..k -> [fd : Ready, io : BOOLEAN, err : BOOLEAN]]
  BY DEF Reports
<1>2. k \in Nat /\ k <= MaxBatch /\ DOMAIN r = 1..k
  BY <1>1 DEF UloopAssumption
<1>3. batch' = [n \in 1..k |-> [fd |-> r[n].fd, io |-> r[n].io]]
  BY <1>2 DEF uloop_fetch_events
<1>4. \A n \in 1..k : r[n].fd \in Ready /\ r[n].io \in BOOLEAN
  BY <1>1
<1>5. \A n \in 1..k : [fd |-> r[n].fd, io |-> r[n].io] \in Event
  BY <1>4 DEF Ready, TypeOK, Event
<1>6. batch' \in Seq(Event) /\ Len(batch') = k
  BY <1>2, <1>3, <1>5
<1>7. r = <<>> <=> k = 0
  BY <1>1, <1>2
<1> QED BY <1>2, <1>3, <1>4, <1>6, <1>7

(* uloop_fetch_events keeps FdInv, though it deletes descriptors with      *)
(* errors.                                                                 *)
LEMMA FetchKeeps ==
  ASSUME UloopAssumption, IInv, NEW r \in Reports, uloop_fetch_events(r)
  PROVE  FdInv'
<1> DEFINE Failed == {r[n].fd : n \in {m \in DOMAIN r : r[m].err}} \ ErrorCb
           Io == {r[n].fd : n \in {m \in DOMAIN r : r[m].io}}
<1>1. /\ In("poll") /\ \A m, n \in DOMAIN r : r[m].fd = r[n].fd => m = n
      /\ registered' = registered \ Failed /\ edge' = edge \ Failed
      /\ stack' = [stack_forget(Failed) EXCEPT ![1] = Call(IF r = <<>> THEN "top" ELSE "events")]
      /\ due' = (due \union (Io \intersect edge)) \ Failed
      /\ gone' = gone /\ switched' = switched
  BY DEF uloop_fetch_events
<1>2. FdInv /\ TypeOK
  BY DEF IInv
<1>3. /\ DOMAIN r = 1..Len(batch')
      /\ \A n \in 1..Len(batch') : batch'[n].fd = r[n].fd /\ batch'[n].io = r[n].io
                                   /\ r[n].fd \in Ready
  BY <1>2, Fetched
<1>4. \A n \in 1..Len(batch') : batch'[n].fd \in registered
  BY <1>3 DEF Ready
<1>5. \A f \in Io : \E n \in 1..Len(batch') : batch'[n].fd = f /\ batch'[n].io
  BY <1>3
<1>6. Failed \subseteq registered
  BY <1>3 DEF Ready
<1>7. batch = <<>>
  BY <1>1 DEF IInv, LoopInv, PlacesOK
<1>8. BatchOnce'
  BY <1>1, <1>3 DEF BatchOnce
<1> HIDE DEF Failed, Io
<1>9. \A g : /\ OnStack(g)' \subseteq OnStack(g)
             /\ g \notin Failed => OnStack(g)' = OnStack(g)
             /\ g \in (Failed \intersect edge) \ switched => OnStack(g)' = {}
             /\ \A n \in OnStack(g)' : stack'[n].more = stack[n].more
  <2>1. /\ stack_forget(Failed) \in Seq(Frame) /\ Len(stack_forget(Failed)) = Len(stack)
        /\ stack # <<>> /\ stack[1].at = "poll" /\ stack \in Seq(Frame)
    BY <1>1, <1>2, Forgets DEF In, TypeOK
  <2>2. Call(IF r = <<>> THEN "top" ELSE "events") \in Frame
        /\ Call(IF r = <<>> THEN "top" ELSE "events").at # "fd"
    BY Frames DEF Loops, Callbacks
  <2>3. stack_forget(Failed) # <<>>
    BY <2>1
  <2>4. /\ Len(stack') = Len(stack) /\ stack'[1].at # "fd"
        /\ \A n \in 2..Len(stack) : stack'[n] = stack_forget(Failed)[n]
    BY <1>1, <2>1, <2>2, <2>3, Moved
  <2>5. \A n \in 1..Len(stack) : n = 1 \/ n \in 2..Len(stack)
    BY <2>1
  <2>6. \A n \in 1..Len(stack) :
           \/ stack'[n] = stack_forget(Failed)[n]
           \/ stack[n].at # "fd" /\ stack'[n].at # "fd"
    BY <2>1, <2>4, <2>5
  <2> QED BY <2>4, <2>6, ForgetsOnce
<1>10. (gone \intersect registered = {})' /\ (due \subseteq edge)'
  BY <1>1, <1>2 DEF FdInv
<1>11. LeftUnbuffered'
  <2> SUFFICES ASSUME NEW g \in edge' \ (registered' \union switched'),
                      NEW n \in 1..Len(batch'), batch'[n].fd = g
               PROVE  FALSE
    BY DEF LeftUnbuffered
  <2> QED BY <1>1, <1>4
<1>12. Quiet'
  <2> SUFFICES ASSUME NEW g \in Fd \ (switched' \union (registered' \intersect edge')),
                      NEW n \in OnStack(g)'
               PROVE  ~stack'[n].more
    BY DEF Quiet
  <2>1. g \notin registered \intersect edge
    BY <1>1, <1>9
  <2> QED BY <1>1, <1>2, <1>9, <2>1 DEF FdInv, Quiet
<1>13. DeletedIsSilent'
  <2> SUFFICES ASSUME NEW g \in gone \ switched
               PROVE  /\ \A n \in 1..Len(batch') : batch'[n].fd # g
                      /\ \A n \in OnStack(g)' : ~stack'[n].more
    BY <1>1 DEF DeletedIsSilent
  <2>1. g \notin registered /\ \A n \in OnStack(g) : ~stack[n].more
    BY <1>2 DEF FdInv, DeletedIsSilent
  <2> QED BY <1>4, <1>9, <2>1
<1>14. OneEntry'
  BY <1>1, <1>2, <1>9 DEF FdInv, OneEntry
<1>15. NoLostEdge'
  <2> SUFFICES ASSUME NEW g \in (due' \intersect edge') \ switched'
               PROVE  \/ \E n \in 1..Len(batch') : batch'[n].fd = g /\ batch'[n].io
                      \/ \E n \in OnStack(g)' : stack'[n].more
    BY DEF NoLostEdge
  <2>1. CASE g \in Io
    BY <1>5, <2>1
  <2>2. CASE g \notin Io
    <3>1. g \in (due \intersect edge) \ switched /\ g \notin Failed
      BY <1>1, <2>2
    <3>2. \E n \in OnStack(g) : stack[n].more
      BY <1>2, <1>7, <3>1 DEF FdInv, NoLostEdge
    <3> QED BY <1>9, <3>1, <3>2
  <2> QED BY <2>1, <2>2
<1> QED BY <1>8, <1>10, <1>11, <1>12, <1>13, <1>14, <1>15 DEF FdInv

(* The batch without its first event.                                      *)
LEMMA BatchTail ==
  ASSUME TypeOK, batch # <<>>, NEW T, T = Tail(batch)
  PROVE  /\ T \in Seq(Event) /\ Len(T) = Len(batch) - 1 /\ Len(batch) >= 1 /\ Len(T) \in Nat
         /\ \A n \in 1..Len(T) : n + 1 \in 1..Len(batch) /\ T[n] = batch[n + 1]
         /\ \A n \in 1..Len(batch) : n # 1 => n - 1 \in 1..Len(T) /\ T[n - 1] = batch[n]
         /\ batch[1] \in Event
<1>1. batch \in Seq(Event) /\ Len(batch) \in Nat
  BY DEF TypeOK
<1>2. /\ T \in Seq(Event) /\ Len(T) = Len(batch) - 1 /\ Len(batch) >= 1 /\ Len(T) \in Nat
      /\ \A n \in 1..Len(T) : n + 1 \in 1..Len(batch) /\ T[n] = batch[n + 1]
      /\ batch[1] \in Event
  BY <1>1
<1>3. ASSUME NEW n \in 1..Len(batch), n # 1
      PROVE  n - 1 \in 1..Len(T) /\ T[n - 1] = batch[n]
  <2>1. n - 1 \in 1..Len(T) /\ (n - 1) + 1 = n
    BY <1>1, <1>2, <1>3
  <2> QED BY <2>1, <1>2
<1> QED BY <1>2, <1>3

(* What holds of the batch alone when its first event is taken.            *)
LEMMA BatchShrinks ==
  ASSUME IInv, batch # <<>>, batch' = Tail(batch)
  PROVE  /\ BatchOnce'
         /\ \A g : (\E n \in 1..Len(batch') : batch'[n].fd = g)
                     => (\E n \in 1..Len(batch) : batch[n].fd = g)
         /\ batch[1].fd # NoFd => \A n \in 1..Len(batch') : batch'[n].fd # batch[1].fd
         /\ \A g : (\E n \in 1..Len(batch) : batch[n].fd = g /\ batch[n].io)
                     => \/ \E n \in 1..Len(batch') : batch'[n].fd = g /\ batch'[n].io
                        \/ batch[1].fd = g /\ batch[1].io
<1>1. /\ Len(batch') = Len(batch) - 1 /\ Len(batch) >= 1 /\ Len(batch') \in Nat
      /\ \A n \in 1..Len(batch') : n + 1 \in 1..Len(batch) /\ batch'[n] = batch[n + 1]
      /\ \A n \in 1..Len(batch) : n # 1 => n - 1 \in 1..Len(batch') /\ batch'[n - 1] = batch[n]
  BY BatchTail DEF IInv
<1>2. BatchOnce
  BY DEF IInv, FdInv
<1>3. BatchOnce'
  <2> SUFFICES ASSUME NEW m \in 1..Len(batch'), NEW n \in 1..Len(batch'),
                      batch'[m].fd = batch'[n].fd, batch'[m].fd # NoFd
               PROVE  m = n
    BY DEF BatchOnce
  <2>1. m + 1 = n + 1
    BY <1>1, <1>2 DEF BatchOnce
  <2> QED BY <2>1, <1>1
<1>4. ASSUME batch[1].fd # NoFd, NEW n \in 1..Len(batch'), batch'[n].fd = batch[1].fd
      PROVE  FALSE
  <2>1. 1 \in 1..Len(batch) /\ n + 1 \in 1..Len(batch) /\ n + 1 # 1
    BY <1>1
  <2> QED BY <1>1, <1>2, <1>4, <2>1 DEF BatchOnce
<1>5. ASSUME NEW g, NEW n \in 1..Len(batch), batch[n].fd = g, batch[n].io
      PROVE  \/ \E i \in 1..Len(batch') : batch'[i].fd = g /\ batch'[i].io
             \/ batch[1].fd = g /\ batch[1].io
  BY <1>1, <1>5
<1> QED BY <1>1, <1>3, <1>4, <1>5

(* An event that is NULL or is buffered keeps FdInv.                       *)
LEMMA SkipKeeps ==
  ASSUME UloopAssumption, IInv, event_skipped
  PROVE  FdInv'
<1> DEFINE f == batch[1].fd
<1>1. /\ batch # <<>> /\ batch' = Tail(batch)
      /\ f # NoFd => f \in edge /\ OnStack(f) # {}
      /\ stack' = IF f = NoFd THEN stack ELSE stack_buffer(f, batch[1].io)
      /\ registered' = registered /\ edge' = edge /\ gone' = gone /\ switched' = switched
      /\ due' = due
  BY DEF event_skipped, fds
<1>2. FdInv /\ TypeOK
  BY DEF IInv
<1>3. /\ BatchOnce'
      /\ \A g : (\E n \in 1..Len(batch') : batch'[n].fd = g)
                  => (\E n \in 1..Len(batch) : batch[n].fd = g)
      /\ \A g : (\E n \in 1..Len(batch) : batch[n].fd = g /\ batch[n].io)
                  => \/ \E n \in 1..Len(batch') : batch'[n].fd = g /\ batch'[n].io
                     \/ f = g /\ batch[1].io
  BY <1>1, BatchShrinks
<1>4. batch[1] \in Event /\ Len(batch) \in Nat /\ Len(batch) >= 1
  BY <1>1, <1>2, BatchTail DEF TypeOK
<1>5. batch[1].io \in BOOLEAN /\ f \in Fd \union {NoFd} /\ 1 \in 1..Len(batch)
  BY <1>4 DEF Event
<1> HIDE DEF f
<1>6. /\ Len(stack') = Len(stack)
      /\ \A n \in 1..Len(stack) :
           /\ stack'[n].at = stack[n].at /\ stack'[n].fd = stack[n].fd
           /\ stack'[n].live = stack[n].live
           /\ stack'[n].more => stack[n].more \/ stack[n].fd = f
           /\ stack[n].more => stack'[n].more
           /\ batch[1].io /\ f # NoFd /\ stack[n].fd = f /\ Innermost(n) => stack'[n].more
  <2>1. CASE f = NoFd
    BY <1>1, <2>1
  <2>2. CASE f # NoFd
    <3>1. stack' = stack_buffer(f, batch[1].io)
      BY <1>1, <2>2
    <3>2. /\ Len(stack') = Len(stack)
          /\ \A n \in 1..Len(stack) :
               /\ stack'[n].at = stack[n].at /\ stack'[n].fd = stack[n].fd
               /\ stack'[n].live = stack[n].live
               /\ stack'[n].more =
                    (stack[n].more \/ (batch[1].io /\ stack[n].fd = f /\ Innermost(n)))
      BY <1>2, <1>5, <3>1, Buffers
    <3> QED BY <3>2
  <2> QED BY <2>1, <2>2
<1>7. \A g : OnStack(g)' = OnStack(g)
  BY <1>6 DEF OnStack
<1>8. \A g : g # f => \A n \in OnStack(g) : stack'[n].more => stack[n].more
  BY <1>6 DEF OnStack
<1>9. \E n \in 1..Len(batch) : batch[n].fd = f
  BY <1>5 DEF f
<1>10. LeftUnbuffered'
  BY <1>1, <1>2, <1>3, <1>7 DEF FdInv, LeftUnbuffered
<1>11. Quiet'
  <2> SUFFICES ASSUME NEW g \in Fd \ (switched \union (registered \intersect edge)),
                      NEW n \in OnStack(g)
               PROVE  ~stack'[n].more
    BY <1>1, <1>7 DEF Quiet
  <2>1. CASE g = f
    <3>1. f # NoFd /\ f \in edge \ (registered \union switched)
      BY <1>1, <2>1 DEF UloopAssumption
    <3> QED BY <1>2, <1>9, <2>1, <3>1 DEF FdInv, LeftUnbuffered
  <2>2. CASE g # f
    BY <1>2, <1>8, <2>2 DEF FdInv, Quiet
  <2> QED BY <2>1, <2>2
<1>12. DeletedIsSilent'
  <2> SUFFICES ASSUME NEW g \in gone \ switched
               PROVE  /\ \A n \in 1..Len(batch') : batch'[n].fd # g
                      /\ \A n \in OnStack(g) : ~stack'[n].more
    BY <1>1, <1>7 DEF DeletedIsSilent
  <2>1. /\ \A n \in 1..Len(batch) : batch[n].fd # g
        /\ \A n \in OnStack(g) : ~stack[n].more
    BY <1>2 DEF FdInv, DeletedIsSilent
  <2>2. g # f
    BY <1>9, <2>1
  <2> QED BY <1>3, <1>8, <2>1, <2>2
<1>13. OneEntry'
  BY <1>1, <1>2, <1>7 DEF FdInv, OneEntry
<1>14. NoLostEdge'
  <2> SUFFICES ASSUME NEW g \in (due \intersect edge) \ switched
               PROVE  \/ \E n \in 1..Len(batch') : batch'[n].fd = g /\ batch'[n].io
                      \/ \E n \in OnStack(g) : stack'[n].more
    BY <1>1, <1>7 DEF NoLostEdge
  <2>1. \/ \E n \in 1..Len(batch) : batch[n].fd = g /\ batch[n].io
        \/ \E n \in OnStack(g) : stack[n].more
    BY <1>2 DEF FdInv, NoLostEdge
  <2>2. CASE f = g /\ batch[1].io
    <3>1. f # NoFd
      BY <1>2, <2>2 DEF TypeOK, UloopAssumption
    <3>2. PICK n \in OnStack(f) : TRUE
      BY <1>1, <3>1 DEF f
    <3>3. n \in 1..Len(stack) /\ stack[n].fd = f
      BY <3>2 DEF OnStack
    <3>4. \A m \in OnStack(f) : m = n
      BY <1>2, <2>2, <3>2 DEF FdInv, OneEntry
    <3>5. Innermost(n)
      BY <3>2, <3>3, <3>4 DEF Innermost
    <3> QED BY <1>6, <2>2, <3>1, <3>2, <3>3, <3>5
  <2>3. CASE \E n \in OnStack(g) : stack[n].more
    BY <1>6, <2>3 DEF OnStack
  <2> QED BY <1>3, <2>1, <2>2, <2>3
<1> QED BY <1>1, <1>2, <1>3, <1>10, <1>11, <1>12, <1>13, <1>14 DEF FdInv

(* An event whose callback is called keeps FdInv: it is put on fd_stack.   *)
LEMMA CallKeeps ==
  ASSUME UloopAssumption, IInv, event_calls
  PROVE  FdInv'
<1> DEFINE f == batch[1].fd
           G == Goto("top")
<1>1. /\ batch # <<>> /\ batch' = Tail(batch) /\ In("events")
      /\ f # NoFd /\ ~(f \in edge /\ OnStack(f) # {})
      /\ stack' = <<Callback(f)>> \o G
      /\ registered' = registered /\ edge' = edge /\ gone' = gone /\ switched' = switched
      /\ due' = due \ {f}
  BY DEF event_calls, fds
<1>2. FdInv /\ TypeOK
  BY DEF IInv
<1>3. /\ BatchOnce'
      /\ \A g : (\E n \in 1..Len(batch') : batch'[n].fd = g)
                  => (\E n \in 1..Len(batch) : batch[n].fd = g)
      /\ f # NoFd => \A n \in 1..Len(batch') : batch'[n].fd # f
      /\ \A g : (\E n \in 1..Len(batch) : batch[n].fd = g /\ batch[n].io)
                  => \/ \E n \in 1..Len(batch') : batch'[n].fd = g /\ batch'[n].io
                     \/ f = g /\ batch[1].io
  BY <1>1, BatchShrinks
<1>4. batch[1] \in Event /\ Len(batch) \in Nat /\ Len(batch) >= 1
  BY <1>1, <1>2, BatchTail DEF TypeOK
<1>5. f \in Fd /\ \E n \in 1..Len(batch) : batch[n].fd = f
  <2>1. 1 \in 1..Len(batch)
    BY <1>4
  <2>2. f \in Fd \union {NoFd} /\ f # NoFd
    BY <1>1, <1>4 DEF Event
  <2>. QED
    BY <2>1, <2>2
<1>6. StackOK(G) /\ Onto(stack, G, 0) /\ Back(stack, G, 0)
  <2>1. StackOK(stack) /\ stack # <<>> /\ stack[1].at # "fd"
    BY <1>1, <1>2 DEF TypeOK, StackOK, In
  <2>2. G = [stack EXCEPT ![1] = Call("top")] /\ "top" \in (Loops \union Callbacks) \ {"fd"}
    BY DEF Goto, Loops, Callbacks
  <2> HIDE DEF G
  <2> QED BY <2>1, <2>2, MoveCall
<1> HIDE DEF f, G
<1>7. G \in Seq(Frame) /\ Len(G) \in Nat
  BY <1>6 DEF StackOK
<1>8. /\ Len(stack') = Len(G) + 1 /\ stack'[1] = Callback(f)
      /\ \A n \in 1..Len(G) : stack'[n + 1] = G[n]
      /\ \A n \in 2..Len(G) + 1 : n - 1 \in 1..Len(G) /\ stack'[n] = G[n - 1]
  <2>1. Callback(f) \in Frame
    BY <1>5, Frames
  <2> QED BY <1>1, <1>7, <2>1, Pushed
<1>9. \A n \in 1..Len(stack') : n = 1 \/ n \in 2..Len(G) + 1
  BY <1>7, <1>8
<1>10. ASSUME NEW g, NEW n \in OnStack(g)'
       PROVE  \/ n = 1 /\ g = f /\ ~stack'[n].more
              \/ /\ n - 1 \in OnStack(g) /\ (stack'[n].more => stack[n - 1].more)
  <2>1. n \in 1..Len(stack') /\ Named(stack'[n]) /\ stack'[n].fd = g
    BY DEF OnStack, Named
  <2>2. CASE n = 1
    BY <1>8, <2>1, <2>2 DEF Callback
  <2>3. CASE n \in 2..Len(G) + 1
    <3>1. n - 1 \in 1..Len(G) /\ stack'[n] = G[n - 1] /\ (n - 1) + 0 = n - 1
      BY <1>7, <1>8, <2>3
    <3>2. /\ n - 1 \in 1..Len(stack) /\ Named(stack[n - 1]) /\ stack[n - 1].fd = g
          /\ stack'[n].more => stack[n - 1].more
      BY <1>6, <2>1, <3>1 DEF Onto
    <3> QED BY <3>2 DEF OnStack, Named
  <2> QED BY <1>9, <2>1, <2>2, <2>3
<1>11. ASSUME NEW g, NEW n \in OnStack(g), stack[n].more
       PROVE  n + 1 \in OnStack(g)' /\ stack'[n + 1].more
  <2>1. n \in 1..Len(stack) /\ Named(stack[n]) /\ stack[n].fd = g /\ n - 0 = n
    BY DEF OnStack, Named
  <2>2. n \in 1..Len(G) /\ Named(G[n]) /\ G[n].fd = g /\ G[n].more
    BY <1>6, <1>11, <2>1 DEF Back
  <2>3. stack'[n + 1] = G[n] /\ n + 1 \in 1..Len(stack')
    BY <1>7, <1>8, <2>2
  <2> QED BY <2>2, <2>3 DEF OnStack, Named
<1>12. \A g : g # f => (OnStack(g) = {} => OnStack(g)' = {})
  BY <1>10
<1>13. LeftUnbuffered'
  <2> SUFFICES ASSUME NEW g \in edge \ (registered \union switched),
                      NEW n \in 1..Len(batch'), batch'[n].fd = g
               PROVE  OnStack(g)' = {}
    BY <1>1 DEF LeftUnbuffered
  <2>1. g # f
    BY <1>1, <1>3 DEF f
  <2>2. OnStack(g) = {}
    BY <1>2, <1>3 DEF FdInv, LeftUnbuffered
  <2> QED BY <1>12, <2>1, <2>2
<1>14. Quiet'
  BY <1>1, <1>2, <1>10 DEF FdInv, Quiet
<1>15. DeletedIsSilent'
  <2> SUFFICES ASSUME NEW g \in gone \ switched
               PROVE  /\ \A n \in 1..Len(batch') : batch'[n].fd # g
                      /\ \A n \in OnStack(g)' : ~stack'[n].more
    BY <1>1 DEF DeletedIsSilent
  <2>1. /\ \A n \in 1..Len(batch) : batch[n].fd # g
        /\ \A n \in OnStack(g) : ~stack[n].more
    BY <1>2 DEF FdInv, DeletedIsSilent
  <2> QED BY <1>3, <1>10, <2>1
<1>16. OneEntry'
  <2> SUFFICES ASSUME NEW g \in edge \ switched, NEW m \in OnStack(g)', NEW n \in OnStack(g)'
               PROVE  m = n
    BY <1>1 DEF OneEntry
  <2>1. m \in Int /\ n \in Int
    BY DEF OnStack
  <2>2. CASE g = f
    <3>1. OnStack(g) = {}
      BY <1>1, <2>2 DEF f
    <3> QED BY <1>10, <3>1
  <2>3. CASE g # f
    <3>1. m - 1 \in OnStack(g) /\ n - 1 \in OnStack(g)
      BY <1>10, <2>3
    <3>2. m - 1 = n - 1
      BY <1>2, <3>1 DEF FdInv, OneEntry
    <3> QED BY <2>1, <3>2
  <2> QED BY <2>2, <2>3
<1>17. NoLostEdge'
  <2> SUFFICES ASSUME NEW g \in (due' \intersect edge) \ switched
               PROVE  \/ \E n \in 1..Len(batch') : batch'[n].fd = g /\ batch'[n].io
                      \/ \E n \in OnStack(g)' : stack'[n].more
    BY <1>1 DEF NoLostEdge
  <2>1. g # f /\ g \in (due \intersect edge) \ switched
    BY <1>1 DEF f
  <2>2. \/ \E n \in 1..Len(batch) : batch[n].fd = g /\ batch[n].io
        \/ \E n \in OnStack(g) : stack[n].more
    BY <1>2, <2>1 DEF FdInv, NoLostEdge
  <2> QED BY <1>3, <1>11, <2>1, <2>2
<1> QED BY <1>1, <1>2, <1>3, <1>13, <1>14, <1>15, <1>16, <1>17 DEF FdInv

(* A callback is called again: what was buffered is taken.                 *)
LEMMA Repeats ==
  ASSUME TypeOK, stack # <<>>, NEW T, T = [stack EXCEPT ![1].more = FALSE]
  PROVE  /\ StackOK(T) /\ Len(T) = Len(stack) /\ Len(stack) >= 1
         /\ T[1].at = stack[1].at /\ T[1].fd = stack[1].fd /\ T[1].live = stack[1].live
         /\ T[1].more = FALSE
         /\ \A n \in 2..Len(stack) : T[n] = stack[n]
<1> DEFINE e == [stack[1] EXCEPT !.more = FALSE]
<1>1. stack \in Seq(Frame) /\ Len(stack) \in Nat /\ Len(stack) >= 1 /\ stack[1] \in Frame
  BY DEF TypeOK
<1>2. e \in Frame /\ e.at = stack[1].at /\ e.fd = stack[1].fd /\ e.live = stack[1].live
      /\ e.more = FALSE
  BY <1>1 DEF Frame
<1>3. T = [stack EXCEPT ![1] = e]
  OBVIOUS
<1> HIDE DEF e
<1>4. /\ T \in Seq(Frame) /\ Len(T) = Len(stack) /\ T[1] = e
      /\ \A n \in 2..Len(stack) : T[n] = stack[n]
  BY ONLY <1>1, <1>2, <1>3, stack # <<>>, Moved
<1>5. \A n \in 1..Len(T) : n = 1 \/ n \in 2..Len(stack)
  BY <1>1, <1>4
<1>6. StackOK(T)
  BY <1>1, <1>2, <1>4, <1>5 DEF StackOK, TypeOK
<1> QED BY <1>1, <1>2, <1>4, <1>6

(* A callback that returns, or is called again for buffered events, keeps  *)
(* FdInv.                                                                  *)
LEMMA ReturnKeeps ==
  ASSUME IInv, callback_returns
  PROVE  FdInv'
<1>1. FdInv /\ TypeOK /\ StackOK(stack)
  BY DEF IInv, TypeOK, StackOK
<1>2. /\ stack # <<>> /\ batch' = batch /\ registered' = registered /\ edge' = edge
      /\ gone' = gone /\ switched' = switched
  BY DEF callback_returns, fds
<1>3. CASE ~(stack[1].live /\ stack[1].more)
  <2>1. stack' = Tail(stack) /\ due' = due
    BY <1>3 DEF callback_returns
  <2>2. Onto(stack, stack', 1) /\ Back(stack, stack', 1)
    BY <1>1, <1>2, <1>3, <2>1, PopCall DEF Named
  <2> QED BY <1>1, <1>2, <2>1, <2>2, FdOrdinary
<1>4. CASE stack[1].live /\ stack[1].more
  <2>1. stack' = [stack EXCEPT ![1].more = FALSE] /\ due' = due \ {stack[1].fd}
    BY <1>4 DEF callback_returns
  <2>2. /\ Len(stack') = Len(stack) /\ Len(stack) >= 1 /\ Len(stack) \in Nat
        /\ stack'[1].at = stack[1].at /\ stack'[1].fd = stack[1].fd
        /\ stack'[1].live = stack[1].live /\ stack'[1].more = FALSE
        /\ \A n \in 2..Len(stack) : stack'[n] = stack[n]
    BY <1>1, <1>2, <2>1, Repeats DEF TypeOK
  <2>3. \A n \in 1..Len(stack) : n = 1 \/ n \in 2..Len(stack)
    BY <2>2
  <2>4. \A n \in 1..Len(stack) :
          /\ stack'[n].at = stack[n].at /\ stack'[n].fd = stack[n].fd
          /\ stack'[n].live = stack[n].live /\ (stack'[n].more => stack[n].more)
          /\ stack[n].fd # stack[1].fd => stack'[n].more = stack[n].more
    BY <2>2, <2>3
  <2>5. \A g : OnStack(g)' = OnStack(g)
    BY <2>2, <2>4 DEF OnStack
  <2>6. \A g : \A n \in OnStack(g) : /\ stack'[n].more => stack[n].more
                                     /\ g # stack[1].fd => stack'[n].more = stack[n].more
    BY <2>4 DEF OnStack
  <2>7. BatchOnce' /\ LeftUnbuffered' /\ OneEntry'
    BY <1>1, <1>2, <2>5 DEF FdInv, BatchOnce, LeftUnbuffered, OneEntry
  <2>8. Quiet' /\ DeletedIsSilent'
    BY <1>1, <1>2, <2>5, <2>6 DEF FdInv, Quiet, DeletedIsSilent
  <2>9. NoLostEdge'
    <3> SUFFICES ASSUME NEW g \in (due' \intersect edge) \ switched
                 PROVE  \/ \E n \in 1..Len(batch) : batch[n].fd = g /\ batch[n].io
                        \/ \E n \in OnStack(g) : stack'[n].more
      BY <1>2, <2>5 DEF NoLostEdge
    <3>1. g # stack[1].fd /\ g \in (due \intersect edge) \ switched
      BY <2>1
    <3>2. \/ \E n \in 1..Len(batch) : batch[n].fd = g /\ batch[n].io
          \/ \E n \in OnStack(g) : stack[n].more
      BY <1>1, <3>1 DEF FdInv, NoLostEdge
    <3> QED BY <2>6, <3>1, <3>2
  <2> QED BY <1>1, <1>2, <2>1, <2>7, <2>8, <2>9 DEF FdInv
<1> QED BY <1>3, <1>4

-----------------------------------------------------------------------------
(***************************************************************************)
(* Every step                                                              *)
(***************************************************************************)

(* The ways in which the other steps change the stack.                     *)
Moves ==
  \/ stack' = stack
  \/ \E a \in {"top", "timer", "child"} : stack' = Push(Call(a))
  \/ stack # <<>> /\ stack[1].at # "fd" /\ stack' = Tail(stack)
  \/ stack # <<>> /\ stack[1].at # "fd" /\ \E a \in Loops : stack' = Goto(a)

(* These keep the entries of fd_stack.                                     *)
LEMMA MovesKeep ==
  ASSUME UloopAssumption, TypeOK, Moves
  PROVE  StackOK(stack') /\ \E k \in Int : Onto(stack, stack', k) /\ Back(stack, stack', k)
<1>1. StackOK(stack)
  BY DEF TypeOK, StackOK
<1>2. CASE stack' = stack
  <2>1. Len(stack) \in Nat
    BY <1>1 DEF StackOK
  <2>2. Onto(stack, stack', 0) /\ Back(stack, stack', 0)
    BY <1>2, <2>1 DEF Onto, Back
  <2> QED BY <1>1, <1>2, <2>2
<1>3. ASSUME NEW a \in {"top", "timer", "child"}, stack' = Push(Call(a))
      PROVE  StackOK(stack') /\ \E k \in Int : Onto(stack, stack', k) /\ Back(stack, stack', k)
  <2>1. a \in (Loops \union Callbacks) \ {"fd"} /\ stack' = <<Call(a)>> \o stack
    BY <1>3 DEF Loops, Callbacks, Push
  <2>2. StackOK(stack') /\ Onto(stack, stack', -1) /\ Back(stack, stack', -1)
    BY <1>1, <2>1, PushCall
  <2> QED BY <2>2
<1>4. CASE stack # <<>> /\ stack[1].at # "fd" /\ stack' = Tail(stack)
  <2>1. StackOK(stack') /\ Onto(stack, stack', 1) /\ Back(stack, stack', 1)
    BY <1>1, <1>4, PopCall DEF Named
  <2> QED BY <2>1
<1>5. ASSUME stack # <<>>, stack[1].at # "fd", NEW a \in Loops, stack' = Goto(a)
      PROVE  StackOK(stack') /\ \E k \in Int : Onto(stack, stack', k) /\ Back(stack, stack', k)
  <2>1. a \in (Loops \union Callbacks) \ {"fd"} /\ stack' = [stack EXCEPT ![1] = Call(a)]
    BY <1>5 DEF Loops, Goto
  <2>2. StackOK(stack') /\ Onto(stack, stack', 0) /\ Back(stack, stack', 0)
    BY <1>1, <1>5, <2>1, MoveCall
  <2> QED BY <2>2
<1> QED BY <1>2, <1>3, <1>4, <1>5 DEF Moves

(* The steps of a loop that is not beyond its checks.                      *)
Clear == \A n \in 1..Len(stack) : stack[n].at \notin {"reap", "fetch", "poll", "events"}

(* No loop moves.                                                          *)
LEMMA SamePlaces ==
  ASSUME PlacesOK, Len(stack') = Len(stack), stack \in Seq(Frame), stack' \in Seq(Frame),
         \A n \in 1..Len(stack) : stack'[n].at = stack[n].at,
         In("poll") => batch' = batch
  PROVE  PlacesOK' /\ (Reaping' <=> Reaping) /\ (Clear' <=> Clear)
<1>1. In("poll")' => In("poll")
  BY DEF In
<1> QED BY <1>1 DEF PlacesOK, Reaping, Clear

(* A call begins from a place where calls are possible.                    *)
LEMMA PushPlaces ==
  ASSUME PlacesOK, stack \in Seq(Frame), NEW e \in Frame, stack' = <<e>> \o stack,
         e.at \notin {"reap", "fetch", "poll", "events"},
         stack # <<>> => stack[1].at \notin {"fetch", "poll", "events"}
  PROVE  PlacesOK' /\ (Reaping => Reaping') /\ (Clear => Clear')
<1>1. /\ Len(stack') = Len(stack) + 1 /\ stack'[1] = e /\ Len(stack) \in Nat
      /\ \A n \in 1..Len(stack) : stack'[n + 1] = stack[n]
      /\ \A n \in 2..Len(stack) + 1 : n - 1 \in 1..Len(stack) /\ stack'[n] = stack[n - 1]
  BY Pushed
<1>2. \A n \in 1..Len(stack') : n = 1 \/ n \in 2..Len(stack) + 1
  BY <1>1
<1>3. \A n \in 1..Len(stack) : stack[n].at \notin {"fetch", "poll", "events"}
  <2> SUFFICES ASSUME NEW n \in 1..Len(stack), stack[n].at \in {"fetch", "poll", "events"}
               PROVE  FALSE
    OBVIOUS
  <2>1. n = 1 /\ stack # <<>>
    BY DEF PlacesOK
  <2> QED BY <2>1
<1>4. \A n \in 1..Len(stack') : stack'[n].at \notin {"fetch", "poll", "events"}
  BY <1>1, <1>2, <1>3
<1>5. PlacesOK'
  BY <1>1, <1>4 DEF PlacesOK, In
<1>6. Reaping => Reaping'
  <2> SUFFICES ASSUME NEW n \in 1..Len(stack), stack[n].at = "reap" PROVE Reaping'
    BY DEF Reaping
  <2>1. n + 1 \in 1..Len(stack') /\ stack'[n + 1].at = "reap"
    BY <1>1
  <2> QED BY <2>1 DEF Reaping
<1>7. Clear => Clear'
  BY <1>1, <1>2 DEF Clear
<1> QED BY <1>5, <1>6, <1>7

(* The innermost call returns.                                             *)
LEMMA PopPlaces ==
  ASSUME PlacesOK, stack \in Seq(Frame), stack # <<>>, stack' = Tail(stack)
  PROVE  /\ PlacesOK' /\ (Clear => Clear')
         /\ stack[1].at # "reap" => (Reaping => Reaping')
<1>1. /\ Len(stack') = Len(stack) - 1 /\ Len(stack) >= 1 /\ Len(stack) \in Nat
      /\ stack' \in Seq(Frame)
      /\ \A n \in 1..Len(stack) - 1 : n + 1 \in 1..Len(stack) /\ stack'[n] = stack[n + 1]
  BY Popped
<1>2. \A n \in 1..Len(stack') : stack'[n].at \notin {"fetch", "poll", "events"}
  <2> SUFFICES ASSUME NEW n \in 1..Len(stack'), stack'[n].at \in {"fetch", "poll", "events"}
               PROVE  FALSE
    OBVIOUS
  <2>1. n + 1 \in 1..Len(stack) /\ stack[n + 1].at \in {"fetch", "poll", "events"} /\ n + 1 # 1
    BY <1>1
  <2> QED BY <2>1 DEF PlacesOK
<1>3. PlacesOK'
  BY <1>1, <1>2 DEF PlacesOK, In
<1>4. Clear => Clear'
  BY <1>1 DEF Clear
<1>5. ASSUME stack[1].at # "reap", NEW n \in 1..Len(stack), stack[n].at = "reap"
      PROVE  Reaping'
  <2>1. n - 1 \in 1..Len(stack) - 1 /\ (n - 1) + 1 = n
    BY <1>1, <1>5
  <2>2. n - 1 \in 1..Len(stack') /\ stack'[n - 1].at = "reap"
    BY <1>1, <1>5, <2>1
  <2> QED BY <2>2 DEF Reaping
<1> QED BY <1>3, <1>4, <1>5 DEF Reaping

(* The innermost loop goes to another place.                               *)
LEMMA MovePlaces ==
  ASSUME UloopAssumption, PlacesOK, stack \in Seq(Frame), stack # <<>>, NEW a \in Loops,
         stack' = Goto(a), a = "poll" => batch' = <<>>
  PROVE  /\ PlacesOK'
         /\ Clear /\ a \notin {"reap", "fetch", "poll", "events"} => Clear'
         /\ stack[1].at # "reap" => (Reaping => Reaping')
         /\ a = "reap" => Reaping'
<1>1. Call(a) \in Frame /\ Call(a).at = a
  BY Frames
<1>2. /\ Len(stack') = Len(stack) /\ Len(stack) >= 1 /\ Len(stack) \in Nat
      /\ stack'[1] = Call(a) /\ \A n \in 2..Len(stack) : stack'[n] = stack[n]
  BY <1>1, Moved DEF Goto
<1>3. \A n \in 1..Len(stack) : n = 1 \/ n \in 2..Len(stack)
  BY <1>2
<1>4. PlacesOK'
  BY <1>1, <1>2, <1>3 DEF PlacesOK, In
<1>5. Clear /\ a \notin {"reap", "fetch", "poll", "events"} => Clear'
  BY <1>1, <1>2, <1>3 DEF Clear
<1>6. stack[1].at # "reap" => (Reaping => Reaping')
  BY <1>2, <1>3 DEF Reaping
<1>7. 1 \in 1..Len(stack')
  BY <1>2
<1>8. a = "reap" => Reaping'
  BY <1>1, <1>2, <1>7 DEF Reaping
<1> QED BY <1>4, <1>5, <1>6, <1>8

(* LoopInv follows for a step that forgets no child and no end.            *)
LEMMA LoopKept ==
  ASSUME LoopInv, PlacesOK', Reaping => Reaping', ended => (Clear => Clear'),
         cancelled => cancelled', ended' = ended, do_sigchld => do_sigchld',
         \A c \in Child : child'[c] = "zombie" /\ c \notin missed' =>
           do_sigchld' \/ (child[c] = "zombie" /\ c \notin missed)
  PROVE  LoopInv'
<1>1. SignalKept'
  BY DEF LoopInv, SignalKept
<1>2. EndStops <=> (ended => Clear)
  BY DEF EndStops, Clear
<1>3. EndStops' <=> (ended' => Clear')
  BY DEF EndStops, Clear
<1> QED BY <1>1, <1>2, <1>3 DEF LoopInv

(* The calls of the user that do not call uloop_run, and the events that   *)
(* are buffered or arrive: no loop moves.                                  *)
LEMMA StillKeeps ==
  ASSUME IInv, Len(stack') = Len(stack), stack' \in Seq(Frame),
         \A n \in 1..Len(stack) : stack'[n].at = stack[n].at,
         In("poll") => batch' = batch,
         UNCHANGED <<cancelled, do_sigchld, child, missed, ended>>
  PROVE  LoopInv'
<1>1. PlacesOK /\ LoopInv /\ stack \in Seq(Frame)
  BY DEF IInv, LoopInv, TypeOK
<1>2. PlacesOK' /\ (Reaping' <=> Reaping) /\ (Clear' <=> Clear)
  BY <1>1, SamePlaces
<1> QED BY <1>1, <1>2, LoopKept

(* No loop is beyond its checks after uloop_end.                           *)
LEMMA BeyondNotEnded ==
  ASSUME IInv, NEW a \in {"reap", "fetch", "poll", "events"}, In(a)
  PROVE  ~ended /\ stack # <<>> /\ stack[1].at = a
<1>1. stack # <<>> /\ stack[1].at = a /\ stack \in Seq(Frame)
  BY DEF In, IInv, TypeOK
<1>2. 1 \in 1..Len(stack)
  BY <1>1
<1> QED BY <1>1, <1>2 DEF IInv, LoopInv, EndStops

(* uloop_end keeps LoopInv: it is called where no loop is beyond its       *)
(* checks.                                                                 *)
LEMMA EndKeeps ==
  ASSUME IInv, uloop_end
  PROVE  LoopInv'
<1>1. /\ User /\ cancelled' = TRUE /\ ended' = (ended \/ (stack # <<>> /\ ~Reaping))
      /\ stack' = stack /\ batch' = batch /\ do_sigchld' = do_sigchld /\ child' = child
      /\ missed' = missed
  BY DEF uloop_end, UserCall, signals
<1>2. LoopInv
  BY DEF IInv
<1>3. PlacesOK' /\ SignalKept'
  BY <1>1, <1>2 DEF LoopInv, PlacesOK, In, SignalKept, Reaping
<1>4. ASSUME ended', NEW n \in 1..Len(stack), stack[n].at \in {"reap", "fetch", "poll", "events"}
      PROVE  FALSE
  <2>1. ~ended
    BY <1>2, <1>4 DEF LoopInv, EndStops
  <2>2. stack # <<>> /\ ~Reaping
    BY <1>1, <1>4, <2>1
  <2>3. stack[n].at # "reap"
    BY <2>2 DEF Reaping
  <2>4. n = 1
    BY <1>2, <1>4, <2>3 DEF LoopInv, PlacesOK
  <2> QED BY <1>1, <1>4, <2>2, <2>4 DEF User, Callbacks
<1>5. EndStops'
  BY <1>1, <1>4 DEF EndStops
<1> QED BY <1>1, <1>3, <1>5 DEF LoopInv

(* The steps that begin a call keep LoopInv.                               *)
LEMMA RunKeeps ==
  ASSUME UloopAssumption, IInv,
         \/ uloop_run
         \/ uloop_process_timeouts
         \/ \E c \in Child : uloop_handle_processes(c)
  PROVE  LoopInv'
<1>1. PlacesOK /\ LoopInv /\ stack \in Seq(Frame) /\ child \in [Child -> {"alive", "zombie", "reaped"}]
  BY DEF IInv, LoopInv, TypeOK
<1>2. /\ Call("top") \in Frame /\ Call("timer") \in Frame /\ Call("child") \in Frame
      /\ Call("top").at = "top" /\ Call("timer").at = "timer" /\ Call("child").at = "child"
  BY Frames DEF Loops, Callbacks
<1>3. CASE uloop_run
  <2>1. /\ stack' = <<Call("top")>> \o stack /\ (stack # <<>> => stack[1].at \in Callbacks)
        /\ UNCHANGED <<cancelled, do_sigchld, child, missed, ended>>
    BY <1>3 DEF uloop_run, UserCall, User, Push, signals
  <2>2. PlacesOK' /\ (Reaping => Reaping') /\ (Clear => Clear')
    BY <1>1, <1>2, <2>1, PushPlaces DEF Callbacks
  <2> QED BY <1>1, <2>1, <2>2, LoopKept
<1>4. CASE uloop_process_timeouts
  <2>1. /\ stack' = <<Call("timer")>> \o stack /\ stack # <<>> /\ stack[1].at = "timeouts"
        /\ UNCHANGED <<cancelled, do_sigchld, child, missed, ended>>
    BY <1>4 DEF uloop_process_timeouts, In, Push, signals
  <2>2. PlacesOK' /\ (Reaping => Reaping') /\ (Clear => Clear')
    BY <1>1, <1>2, <2>1, PushPlaces
  <2> QED BY <1>1, <2>1, <2>2, LoopKept
<1>5. ASSUME NEW c \in Child, uloop_handle_processes(c)
      PROVE  LoopInv'
  <2>1. /\ stack # <<>> /\ stack[1].at = "reap" /\ batch' = batch
        /\ stack' = IF c \in watched THEN <<Call("child")>> \o stack ELSE stack
        /\ child' = [child EXCEPT ![c] = "reaped"]
        /\ UNCHANGED <<cancelled, do_sigchld, missed, ended>>
    BY <1>5 DEF uloop_handle_processes, In, Push
  <2>4. PlacesOK' /\ (Reaping => Reaping') /\ (Clear => Clear')
    <3>1. CASE c \in watched
      BY <1>1, <1>2, <2>1, <3>1, PushPlaces
    <3>2. CASE c \notin watched
      BY <1>1, <2>1, <3>2, SamePlaces
    <3> QED BY <3>1, <3>2
  <2>5. \A d \in Child : child'[d] = "zombie" => child[d] = "zombie"
    BY <1>1, <2>1
  <2> QED BY <1>1, <2>1, <2>4, <2>5, LoopKept
<1> QED BY <1>3, <1>4, <1>5

(* A signal at any time keeps LoopInv.                                     *)
LEMMA SignalKeeps ==
  ASSUME UloopAssumption, IInv, uloop_handle_sigint \/ \E c \in Child : uloop_sigchld(c)
  PROVE  LoopInv'
<1>1. PlacesOK /\ LoopInv /\ stack \in Seq(Frame) /\ child \in [Child -> {"alive", "zombie", "reaped"}]
  BY DEF IInv, LoopInv, TypeOK
<1>2. stack' = Interrupted /\ batch' = batch /\ ended' = ended
  BY DEF uloop_handle_sigint, uloop_sigchld
<1>3. PlacesOK' /\ (Reaping => Reaping') /\ (ended => (Clear => Clear'))
  <2>1. CASE In("poll")
    <3>1. stack' = Goto("top") /\ stack # <<>> /\ stack[1].at = "poll" /\ "top" \in Loops
      BY <1>2, <2>1 DEF Interrupted, In, Loops
    <3> QED BY <1>1, <3>1, MovePlaces
  <2>2. CASE ~In("poll")
    <3>1. stack' = stack
      BY <1>2, <2>2 DEF Interrupted
    <3> QED BY <1>1, <1>2, <3>1, SamePlaces
  <2> QED BY <2>1, <2>2
<1>4. CASE uloop_handle_sigint
  <2>1. cancelled' = TRUE /\ UNCHANGED <<do_sigchld, child, missed>>
    BY <1>4 DEF uloop_handle_sigint, signals
  <2> QED BY <1>1, <1>2, <1>3, <2>1, LoopKept
<1>5. ASSUME NEW c \in Child, uloop_sigchld(c)
      PROVE  LoopInv'
  <2>1. /\ child' = [child EXCEPT ![c] = "zombie"]
        /\ do_sigchld' = (do_sigchld \/ stack # <<>>)
        /\ missed' = IF stack = <<>> THEN missed \union {c} ELSE missed
        /\ cancelled' = cancelled
    BY <1>5 DEF uloop_sigchld
  <2>2. \A d \in Child : child'[d] = "zombie" /\ d \notin missed' =>
           do_sigchld' \/ (child[d] = "zombie" /\ d \notin missed)
    BY <1>1, <2>1
  <2> QED BY <1>1, <1>2, <1>3, <2>1, <2>2, LoopKept
<1> QED BY <1>4, <1>5

(* The steps of uloop_run between its calls keep LoopInv.                  *)
LEMMA StepKeeps ==
  ASSUME UloopAssumption, IInv,
         loop_top \/ timeouts_done \/ all_reaped \/ uloop_run_events \/ events_done
  PROVE  LoopInv'
<1>1. PlacesOK /\ LoopInv /\ stack \in Seq(Frame) /\ do_sigchld \in BOOLEAN
      /\ cancelled \in BOOLEAN /\ (ended => cancelled) /\ SignalKept
  BY DEF IInv, LoopInv, TypeOK
<1>2. batch' = batch /\ cancelled' = cancelled /\ child' = child /\ missed' = missed
      /\ ended' = ended
  BY DEF loop_top, timeouts_done, all_reaped, uloop_run_events, events_done, signals
<1>3. {"top", "timeouts", "reap", "fetch", "poll", "events"} = Loops
  BY DEF Loops
<1>4. CASE loop_top
  <2>1. /\ stack # <<>> /\ stack[1].at = "top" /\ do_sigchld' = do_sigchld
        /\ stack' = IF cancelled THEN Tail(stack) ELSE Goto("timeouts")
    BY <1>4 DEF loop_top, In, signals
  <2>2. PlacesOK' /\ (Reaping => Reaping') /\ (ended => (Clear => Clear'))
    <3>1. CASE cancelled
      BY <1>1, <2>1, <3>1, PopPlaces
    <3>2. CASE ~cancelled
      BY <1>1, <1>3, <2>1, <3>2, MovePlaces
    <3> QED BY <3>1, <3>2
  <2> QED BY <1>1, <1>2, <2>1, <2>2, LoopKept
<1>5. CASE timeouts_done
  <2>1. /\ stack # <<>> /\ stack[1].at = "timeouts" /\ do_sigchld' = (do_sigchld /\ cancelled)
        /\ stack' = IF cancelled THEN Tail(stack)
                    ELSE Goto(IF do_sigchld THEN "reap" ELSE "fetch")
    BY <1>5 DEF timeouts_done, In
  <2>2. CASE cancelled
    <3>1. PlacesOK' /\ (Reaping => Reaping') /\ (Clear => Clear')
      BY <1>1, <2>1, <2>2, PopPlaces
    <3> QED BY <1>1, <1>2, <2>1, <2>2, <3>1, LoopKept
  <2>3. CASE ~cancelled /\ ~do_sigchld
    <3>1. PlacesOK' /\ (Reaping => Reaping')
      BY <1>1, <1>3, <2>1, <2>3, MovePlaces
    <3> QED BY <1>1, <1>2, <2>1, <2>3, <3>1, LoopKept
  <2>4. CASE ~cancelled /\ do_sigchld
    <3>1. PlacesOK' /\ Reaping'
      BY <1>1, <1>3, <2>1, <2>4, MovePlaces
    <3>2. SignalKept' /\ ~ended'
      BY <1>1, <1>2, <2>4, <3>1 DEF SignalKept
    <3> QED BY <3>1, <3>2 DEF LoopInv, EndStops
  <2> QED BY <1>1, <2>2, <2>3, <2>4
<1>6. CASE all_reaped
  <2>1. /\ In("reap") /\ \A c \in Child : child[c] # "zombie"
        /\ stack' = Goto("fetch")
    BY <1>6 DEF all_reaped
  <2>2. ~ended /\ stack # <<>>
    BY <2>1, BeyondNotEnded
  <2>3. PlacesOK'
    BY <1>1, <1>3, <2>1, <2>2, MovePlaces
  <2>4. SignalKept' /\ ~ended'
    BY <1>2, <2>1, <2>2 DEF SignalKept
  <2> QED BY <2>3, <2>4 DEF LoopInv, EndStops
<1>7. CASE uloop_run_events
  <2>1. /\ In("fetch") /\ stack' = Goto(IF batch = <<>> THEN "poll" ELSE "events")
        /\ do_sigchld' = do_sigchld
    BY <1>7 DEF uloop_run_events, signals
  <2>2. ~ended /\ stack # <<>> /\ stack[1].at = "fetch"
    BY <2>1, BeyondNotEnded
  <2>3. PlacesOK' /\ (Reaping => Reaping')
    BY <1>1, <1>2, <1>3, <2>1, <2>2, MovePlaces
  <2> QED BY <1>1, <1>2, <2>1, <2>2, <2>3, LoopKept
<1>8. CASE events_done
  <2>1. In("events") /\ stack' = Goto("top") /\ do_sigchld' = do_sigchld
    BY <1>8 DEF events_done, signals
  <2>2. ~ended /\ stack # <<>> /\ stack[1].at = "events"
    BY <2>1, BeyondNotEnded
  <2>3. PlacesOK' /\ (Reaping => Reaping')
    BY <1>1, <1>2, <1>3, <2>1, <2>2, MovePlaces
  <2> QED BY <1>1, <1>2, <2>1, <2>2, <2>3, LoopKept
<1> QED BY <1>4, <1>5, <1>6, <1>7, <1>8

(* Events are fetched, and a callback is called, by the innermost loop.    *)
LEMMA EventKeeps ==
  ASSUME UloopAssumption, IInv, event_calls \/ \E r \in Reports : uloop_fetch_events(r)
  PROVE  LoopInv' /\ StackOK(stack')
<1>1. PlacesOK /\ LoopInv /\ stack \in Seq(Frame) /\ TypeOK
  BY DEF IInv, LoopInv, TypeOK
<1>2. UNCHANGED <<cancelled, do_sigchld, child, missed, ended>>
  BY DEF event_calls, uloop_fetch_events, signals
<1>3. CASE event_calls
  <2> DEFINE G == Goto("top")
             f == batch[1].fd
  <2>1. In("events") /\ f # NoFd /\ stack' = <<Callback(f)>> \o G /\ batch # <<>>
    BY <1>3 DEF event_calls
  <2>2. ~ended /\ stack # <<>> /\ stack[1].at = "events"
    BY <2>1, BeyondNotEnded
  <2>3. f \in Fd
    BY <1>1, <2>1, BatchTail DEF Event
  <2>4. Call("top") \in Frame /\ Call("top").at = "top" /\ Callback(f) \in Frame
        /\ Call("top").fd = NoFd
    BY <2>3, Frames DEF Loops
  <2>5. /\ G \in Seq(Frame) /\ Len(G) = Len(stack) /\ Len(G) >= 1 /\ Len(G) \in Nat
        /\ G[1] = Call("top") /\ \A n \in 2..Len(stack) : G[n] = stack[n]
    BY <1>1, <2>2, <2>4, Moved DEF Goto
  <2> HIDE DEF G, f
  <2>6. /\ stack' \in Seq(Frame) /\ Len(stack') = Len(G) + 1 /\ stack'[1] = Callback(f)
        /\ \A n \in 1..Len(G) : stack'[n + 1] = G[n]
        /\ \A n \in 2..Len(G) + 1 : n - 1 \in 1..Len(G) /\ stack'[n] = G[n - 1]
    BY <2>1, <2>4, <2>5, Pushed
  <2>7. Callback(f).at = "fd" /\ Callback(f).fd = f
    BY DEF Callback
  <2>8. \A n \in 1..Len(stack') : n = 1 \/ n \in 2..Len(G) + 1
    BY <2>5, <2>6
  <2>9. \A n \in 1..Len(G) : n = 1 \/ n \in 2..Len(stack)
    BY <2>5
  <2>10. \A n \in 1..Len(G) : /\ G[n].at \notin {"fetch", "poll", "events"}
                              /\ (G[n].fd = NoFd) <=> (G[n].at # "fd")
    BY <1>1, <2>4, <2>5, <2>9 DEF PlacesOK, TypeOK
  <2>11. \A n \in 1..Len(stack') : /\ stack'[n].at \notin {"fetch", "poll", "events"}
                                   /\ (stack'[n].fd = NoFd) <=> (stack'[n].at # "fd")
    <3> SUFFICES ASSUME NEW n \in 1..Len(stack')
                 PROVE  /\ stack'[n].at \notin {"fetch", "poll", "events"}
                        /\ (stack'[n].fd = NoFd) <=> (stack'[n].at # "fd")
      OBVIOUS
    <3>1. CASE n = 1
      BY <2>1, <2>6, <2>7, <3>1
    <3>2. CASE n \in 2..Len(G) + 1
      BY <2>6, <2>10, <3>2
    <3> QED BY <2>8, <3>1, <3>2
  <2>12. PlacesOK'
    BY <2>5, <2>6, <2>11 DEF PlacesOK, In
  <2>13. Reaping => Reaping'
    <3> SUFFICES ASSUME NEW n \in 1..Len(stack), stack[n].at = "reap" PROVE Reaping'
      BY DEF Reaping
    <3>1. G[n].at = "reap"
      BY <2>2, <2>5, <2>9
    <3>2. n + 1 \in 1..Len(stack') /\ stack'[n + 1].at = "reap"
      BY <2>5, <2>6, <3>1
    <3> QED BY <3>2 DEF Reaping
  <2>14. StackOK(stack')
    BY <2>6, <2>11 DEF StackOK
  <2> QED BY <1>1, <1>2, <2>2, <2>12, <2>13, <2>14, LoopKept
<1>4. ASSUME NEW r \in Reports, uloop_fetch_events(r)
      PROVE  LoopInv' /\ StackOK(stack')
  <2> DEFINE Failed == {r[n].fd : n \in {m \in DOMAIN r : r[m].err}} \ ErrorCb
             T == stack_forget(Failed)
             a == IF r = <<>> THEN "top" ELSE "events"
  <2>1. In("poll") /\ stack' = [T EXCEPT ![1] = Call(a)]
    BY <1>4 DEF uloop_fetch_events
  <2>2. ~ended /\ stack # <<>> /\ stack[1].at = "poll"
    BY <2>1, BeyondNotEnded
  <2> HIDE DEF Failed
  <2>3. /\ T \in Seq(Frame) /\ Len(T) = Len(stack)
        /\ \A n \in 1..Len(stack) : T[n].at = stack[n].at /\ T[n].fd = stack[n].fd
    BY <1>1, Forgets
  <2>4. a \in Loops /\ a # "poll" /\ a # "fd"
    BY DEF Loops
  <2>5. Call(a) \in Frame /\ Call(a).at = a /\ Call(a).fd = NoFd
    BY <2>4, Frames
  <2> HIDE DEF T, a
  <2>6. T # <<>>
    BY <1>1, <2>2, <2>3
  <2>7. /\ stack' \in Seq(Frame) /\ Len(stack') = Len(stack) /\ Len(stack) >= 1
        /\ Len(stack) \in Nat
        /\ stack'[1] = Call(a) /\ \A n \in 2..Len(stack) : stack'[n] = T[n]
    BY <2>1, <2>3, <2>5, <2>6, Moved
  <2>8. \A n \in 1..Len(stack) : n = 1 \/ n \in 2..Len(stack)
    BY <2>7
  <2>9. \A n \in 2..Len(stack) : stack'[n].at = stack[n].at /\ stack'[n].fd = stack[n].fd
                                 /\ n # 1
    BY <2>3, <2>7
  <2>10. PlacesOK'
    BY <1>1, <2>4, <2>5, <2>7, <2>8, <2>9 DEF PlacesOK, In
  <2>11. Reaping => Reaping'
    BY <2>2, <2>7, <2>8, <2>9 DEF Reaping
  <2>12. StackOK(stack')
    BY <1>1, <2>4, <2>5, <2>7, <2>8, <2>9 DEF StackOK, TypeOK
  <2> QED BY <1>1, <1>2, <2>2, <2>10, <2>11, <2>12, LoopKept
<1> QED BY <1>3, <1>4

(* The steps that move no descriptor and no event.                         *)
Ordinary ==
  \/ \E f \in Fd : Arrives(f)
  \/ \E c \in Child : \/ uloop_process_add(c) \/ uloop_process_delete(c)
                      \/ uloop_sigchld(c) \/ uloop_handle_processes(c)
  \/ uloop_end \/ uloop_run \/ uloop_handle_sigint
  \/ loop_top \/ uloop_process_timeouts \/ timeouts_done \/ all_reaped
  \/ uloop_run_events \/ events_done

(* They are moves on the stack and leave the rest of FdInv alone.          *)
LEMMA OrdinaryMoves ==
  ASSUME IInv, Ordinary
  PROVE  Moves /\ UNCHANGED <<registered, edge, batch, gone, switched, loose, due>>
<1>1. CASE \E f \in Fd : Arrives(f)
  BY <1>1 DEF Arrives, Moves
<1>2. ASSUME NEW c \in Child, uloop_process_add(c) \/ uloop_process_delete(c)
      PROVE  Moves /\ UNCHANGED <<registered, edge, batch, gone, switched, loose, due>>
  BY <1>2 DEF uloop_process_add, uloop_process_delete, Moves, fds
<1>3. CASE uloop_handle_sigint \/ \E c \in Child : uloop_sigchld(c)
  <2>1. /\ stack' = Interrupted
        /\ UNCHANGED <<registered, edge, batch, gone, switched, loose, due>>
    BY <1>3 DEF uloop_handle_sigint, uloop_sigchld, fds
  <2> QED BY <2>1 DEF Interrupted, Moves, In, Loops
<1>4. ASSUME NEW c \in Child, uloop_handle_processes(c)
      PROVE  Moves /\ UNCHANGED <<registered, edge, batch, gone, switched, loose, due>>
  BY <1>4 DEF uloop_handle_processes, Moves, fds
<1>5. CASE uloop_end \/ uloop_run \/ uloop_process_timeouts
  BY <1>5 DEF uloop_end, uloop_run, uloop_process_timeouts, Moves, fds
<1>6. CASE loop_top
  BY <1>6 DEF loop_top, Moves, fds, In, Loops
<1>7. CASE timeouts_done
  <2>1. /\ stack # <<>> /\ stack[1].at = "timeouts"
        /\ \/ stack' = Tail(stack)
           \/ stack' = Goto("reap")
           \/ stack' = Goto("fetch")
        /\ UNCHANGED <<registered, edge, batch, gone, switched, loose, due>>
    BY <1>7 DEF timeouts_done, fds, In
  <2> QED BY <2>1 DEF Moves, Loops
<1>8. CASE all_reaped \/ events_done
  BY <1>8 DEF all_reaped, events_done, Moves, fds, In, Loops
<1>9. CASE uloop_run_events
  <2>1. /\ stack # <<>> /\ stack[1].at = "fetch"
        /\ stack' = Goto("poll") \/ stack' = Goto("events")
        /\ UNCHANGED <<registered, edge, batch, gone, switched, loose, due>>
    BY <1>9 DEF uloop_run_events, fds, In
  <2> QED BY <2>1 DEF Moves, Loops
<1> QED BY <1>1, <1>2, <1>3, <1>4, <1>5, <1>6, <1>7, <1>8, <1>9 DEF Ordinary

-----------------------------------------------------------------------------
(***************************************************************************)
(* The callbacks that are not called again                                 *)
(***************************************************************************)

(* The callbacks in progress in T are in progress in S, k places further,  *)
(* and fd_stack names them if it does in S.                                *)
Same(S, T, k) ==
  \A n \in 1..Len(T) : T[n].at = "fd" =>
    /\ n + k \in 1..Len(S) /\ S[n + k].at = "fd" /\ S[n + k].fd = T[n].fd
    /\ S[n + k].live => T[n].live

(* A step that begins no callback keeps HeldInv, if it leaves out of loose *)
(* only what is no longer in progress.                                     *)
LEMMA HeldKept ==
  ASSUME HeldInv, NEW k \in Int, Same(stack, stack', k), edge' = edge,
         \A f \in Fd \ loose' : f \in loose => InProgress(f)' = {}
  PROVE  HeldInv'
<1> SUFFICES ASSUME NEW f \in Fd \ loose', NEW m \in InProgress(f)', NEW n \in InProgress(f)'
             PROVE  m = n /\ f \in edge' /\ stack'[n].live
  BY DEF HeldInv
<1>1. f \notin loose
  OBVIOUS
<1>2. m \in Int /\ n \in Int
  BY DEF InProgress
<1>3. m + k \in InProgress(f) /\ n + k \in InProgress(f) /\ (stack[n + k].live => stack'[n].live)
  BY DEF Same, InProgress
<1>4. m + k = n + k /\ f \in edge /\ stack[n + k].live
  BY <1>1, <1>3 DEF HeldInv
<1> QED BY <1>2, <1>3, <1>4

(* The ordinary changes of the stack begin no callback of a descriptor.    *)
LEMMA MovesSame ==
  ASSUME UloopAssumption, TypeOK, Moves
  PROVE  \E k \in Int : Same(stack, stack', k)
<1>1. stack \in Seq(Frame) /\ Len(stack) \in Nat
  BY DEF TypeOK
<1>2. CASE stack' = stack
  <2>1. Same(stack, stack', 0)
    BY <1>1, <1>2 DEF Same
  <2> QED BY <2>1
<1>3. ASSUME NEW a \in {"top", "timer", "child"}, stack' = Push(Call(a))
      PROVE  Same(stack, stack', -1)
  <2>1. stack' = <<Call(a)>> \o stack /\ Call(a) \in Frame /\ Call(a).at # "fd"
    BY <1>3, Frames DEF Loops, Callbacks, Push
  <2>2. /\ Len(stack') = Len(stack) + 1 /\ stack'[1] = Call(a)
        /\ \A n \in 2..Len(stack) + 1 : n - 1 \in 1..Len(stack) /\ stack'[n] = stack[n - 1]
    BY <1>1, <2>1, Pushed
  <2> SUFFICES ASSUME NEW n \in 1..Len(stack'), stack'[n].at = "fd"
               PROVE  n + (-1) \in 1..Len(stack) /\ stack[n + (-1)] = stack'[n]
    BY DEF Same
  <2>3. n # 1
    BY <2>1, <2>2
  <2>4. n \in 2..Len(stack) + 1 /\ n + (-1) = n - 1
    BY <1>1, <2>2, <2>3
  <2> QED BY <2>2, <2>4
<1>4. CASE stack # <<>> /\ stack' = Tail(stack)
  <2>1. Len(stack') = Len(stack) - 1
        /\ \A n \in 1..Len(stack) - 1 : n + 1 \in 1..Len(stack) /\ stack'[n] = stack[n + 1]
    BY <1>1, <1>4, Popped
  <2>2. Same(stack, stack', 1)
    BY <1>1, <2>1 DEF Same
  <2> QED BY <2>2
<1>5. ASSUME stack # <<>>, NEW a \in Loops, stack' = Goto(a)
      PROVE  Same(stack, stack', 0)
  <2>1. stack' = [stack EXCEPT ![1] = Call(a)] /\ Call(a) \in Frame /\ Call(a).at # "fd"
    BY <1>5, Frames DEF Loops, Goto
  <2>2. /\ Len(stack') = Len(stack) /\ stack'[1] = Call(a)
        /\ \A n \in 2..Len(stack) : stack'[n] = stack[n]
    BY <1>1, <1>5, <2>1, Moved
  <2> SUFFICES ASSUME NEW n \in 1..Len(stack'), stack'[n].at = "fd"
               PROVE  n + 0 \in 1..Len(stack) /\ stack[n + 0] = stack'[n]
    BY DEF Same
  <2>3. n # 1
    BY <2>1, <2>2
  <2>4. n \in 2..Len(stack) /\ n + 0 = n
    BY <1>1, <2>2, <2>3
  <2> QED BY <2>2, <2>4
<1>6. -1 \in Int /\ 0 \in Int
  OBVIOUS
<1> QED BY <1>2, <1>3, <1>4, <1>5, <1>6 DEF Moves

(* uloop_fd_add keeps HeldInv: a changed trigger makes its callback loose. *)
LEMMA AddHolds ==
  ASSUME IInv, NEW f \in Fd, NEW trigger \in BOOLEAN, uloop_fd_add(f, trigger)
  PROVE  HeldInv'
<1>1. /\ stack' = stack
      /\ edge' = IF trigger THEN edge \union {f} ELSE edge \ {f}
      /\ loose' = IF (f \in edge) # trigger THEN Loosened({f}) ELSE loose
  BY DEF uloop_fd_add, register_poll
<1>2. \A g : InProgress(g)' = InProgress(g)
  BY <1>1 DEF InProgress
<1> SUFFICES ASSUME NEW g \in Fd \ loose'
             PROVE  /\ g \notin loose
                    /\ InProgress(g) # {} => (g \in edge' <=> g \in edge)
  BY <1>1, <1>2 DEF IInv, HeldInv
<1>3. g \notin loose
  BY <1>1 DEF Loosened
<1>4. ASSUME InProgress(g) # {} PROVE g \in edge' <=> g \in edge
  BY <1>1, <1>4 DEF Loosened
<1> QED BY <1>3, <1>4

(* The callbacks of the descriptors that are forgotten become loose.       *)
LEMMA ForgetsHold ==
  ASSUME IInv, NEW F, Len(stack') = Len(stack), edge' = edge \ F, loose' = Loosened(F),
         \A n \in 1..Len(stack) :
           \/ stack'[n] = stack_forget(F)[n]
           \/ stack'[n].at # "fd"
  PROVE  HeldInv'
<1> DEFINE T == stack_forget(F)
<1>1. \A n \in 1..Len(stack) :
        /\ T[n].at = stack[n].at /\ T[n].fd = stack[n].fd
        /\ T[n].live = (stack[n].live /\ ~(stack[n].fd \in F \intersect edge /\ Innermost(n)))
  BY Forgets DEF IInv
<1> HIDE DEF T
<1>2. \A n \in 1..Len(stack) : stack'[n] = T[n] \/ stack'[n].at # "fd"
  BY DEF T
<1> SUFFICES ASSUME NEW f \in Fd \ loose', NEW m \in InProgress(f)', NEW n \in InProgress(f)'
             PROVE  m = n /\ f \in edge' /\ stack'[n].live
  BY DEF HeldInv
<1>3. /\ m \in 1..Len(stack) /\ stack'[m].at = "fd" /\ stack'[m].fd = f
      /\ n \in 1..Len(stack) /\ stack'[n].at = "fd" /\ stack'[n].fd = f
  BY DEF InProgress
<1>4. stack'[n] = T[n] /\ stack'[m] = T[m]
  BY <1>2, <1>3
<1>5. m \in InProgress(f) /\ n \in InProgress(f) /\ stack[n].fd = f
  BY <1>1, <1>3, <1>4 DEF InProgress
<1>6. f \notin F /\ f \notin loose
  BY <1>5 DEF Loosened
<1>7. m = n /\ f \in edge /\ stack[n].live
  BY <1>5, <1>6 DEF IInv, HeldInv
<1> QED BY <1>1, <1>3, <1>4, <1>5, <1>6, <1>7

(* uloop_fd_delete keeps HeldInv.                                          *)
LEMMA DeleteHolds ==
  ASSUME IInv, NEW f \in Fd, uloop_fd_delete(f)
  PROVE  HeldInv'
<1>1. CASE f \in registered
  <2>1. stack' = stack_forget({f}) /\ edge' = edge \ {f} /\ loose' = Loosened({f})
    BY <1>1 DEF uloop_fd_delete
  <2>2. Len(stack') = Len(stack)
    BY <2>1, Forgets DEF IInv
  <2> QED BY <2>1, <2>2, ForgetsHold
<1>2. CASE f \notin registered
  <2>1. stack' = stack /\ edge' = edge /\ loose' = loose
    BY <1>2 DEF uloop_fd_delete
  <2> QED BY <2>1 DEF IInv, HeldInv, InProgress
<1> QED BY <1>1, <1>2

(* uloop_fetch_events keeps HeldInv: what it deletes becomes loose.        *)
LEMMA FetchHolds ==
  ASSUME UloopAssumption, IInv, NEW r \in Reports, uloop_fetch_events(r)
  PROVE  HeldInv'
<1> DEFINE Failed == {r[n].fd : n \in {m \in DOMAIN r : r[m].err}} \ ErrorCb
           c == Call(IF r = <<>> THEN "top" ELSE "events")
           T == stack_forget(Failed)
<1>1. /\ In("poll") /\ edge' = edge \ Failed /\ loose' = Loosened(Failed)
      /\ stack' = [T EXCEPT ![1] = c]
  BY DEF uloop_fetch_events
<1>2. c \in Frame /\ c.at # "fd"
  BY Frames DEF Loops, Callbacks
<1> HIDE DEF Failed, c
<1>3. T \in Seq(Frame) /\ Len(T) = Len(stack) /\ stack \in Seq(Frame) /\ stack # <<>>
  BY <1>1, Forgets DEF IInv, TypeOK, In
<1> HIDE DEF T
<1>4. T # <<>> /\ Len(stack) \in Nat
  BY <1>3
<1>5. /\ Len(stack') = Len(stack) /\ stack'[1] = c
      /\ \A n \in 2..Len(stack) : stack'[n] = T[n]
  BY <1>1, <1>2, <1>3, <1>4, Moved
<1>6. \A n \in 1..Len(stack) : n = 1 \/ n \in 2..Len(stack)
  BY <1>4
<1>7. \A n \in 1..Len(stack) : stack'[n] = stack_forget(Failed)[n] \/ stack'[n].at # "fd"
  BY <1>2, <1>5, <1>6 DEF T
<1> QED BY <1>1, <1>5, <1>7, ForgetsHold

(* An event that is NULL or is buffered keeps HeldInv.                     *)
LEMMA SkipHolds ==
  ASSUME UloopAssumption, IInv, event_skipped
  PROVE  HeldInv'
<1>1. /\ batch # <<>> /\ edge' = edge /\ loose' = loose
      /\ stack' = stack \/ stack' = stack_buffer(batch[1].fd, batch[1].io)
  BY DEF event_skipped, fds
<1>2. TypeOK /\ HeldInv /\ Len(stack) \in Nat
  BY DEF IInv, TypeOK
<1>3. batch[1].io \in BOOLEAN
  BY <1>1, <1>2, BatchTail DEF TypeOK, Event
<1>4. /\ Len(stack') = Len(stack)
      /\ \A n \in 1..Len(stack) :
           stack'[n].at = stack[n].at /\ stack'[n].fd = stack[n].fd /\ stack'[n].live = stack[n].live
  BY <1>1, <1>2, <1>3, Buffers
<1>5. Same(stack, stack', 0)
  BY <1>2, <1>4 DEF Same
<1> QED BY <1>1, <1>2, <1>5, HeldKept

(* A callback that is called keeps HeldInv: if one of the descriptor is in *)
(* progress then fd_stack names it and the event is buffered, or it is     *)
(* loose.                                                                  *)
LEMMA CallHolds ==
  ASSUME UloopAssumption, IInv, event_calls
  PROVE  HeldInv'
<1> DEFINE f == batch[1].fd
           G == Goto("top")
<1>1. /\ batch # <<>> /\ In("events") /\ f # NoFd /\ ~(f \in edge /\ OnStack(f) # {})
      /\ stack' = <<Callback(f)>> \o G /\ edge' = edge
      /\ loose' = IF f \in edge THEN loose ELSE loose \union {f}
  BY DEF event_calls, fds
<1>2. TypeOK /\ HeldInv /\ stack \in Seq(Frame) /\ Len(stack) \in Nat
  BY DEF IInv, TypeOK
<1>3. f \in Fd
  BY <1>1, <1>2, BatchTail DEF TypeOK, Event
<1>4. Call("top") \in Frame /\ Call("top").at # "fd" /\ Callback(f) \in Frame
  BY <1>3, Frames DEF Loops
<1>5. /\ G \in Seq(Frame) /\ Len(G) = Len(stack) /\ G[1] = Call("top")
      /\ \A n \in 2..Len(stack) : G[n] = stack[n]
  <2>1. G = [stack EXCEPT ![1] = Call("top")] /\ stack # <<>>
    BY <1>1 DEF Goto, In
  <2> HIDE DEF G
  <2> QED BY <1>2, <1>4, <2>1, Moved
<1> HIDE DEF f, G
<1>6. /\ Len(stack') = Len(stack) + 1 /\ stack'[1] = Callback(f)
      /\ \A n \in 2..Len(stack) + 1 : n - 1 \in 1..Len(stack) /\ stack'[n] = G[n - 1]
  BY <1>1, <1>4, <1>5, Pushed
<1>7. ASSUME NEW g \in Fd, NEW n \in InProgress(g)', n # 1
      PROVE  n - 1 \in InProgress(g) /\ stack'[n] = stack[n - 1]
  <2>1. n \in 2..Len(stack) + 1 /\ stack'[n].at = "fd" /\ stack'[n].fd = g
    BY <1>2, <1>6, <1>7 DEF InProgress
  <2>2. n - 1 \in 1..Len(stack) /\ stack'[n] = G[n - 1]
    BY <1>6, <2>1
  <2>3. n - 1 # 1
    BY <1>4, <1>5, <2>1, <2>2
  <2>4. G[n - 1] = stack[n - 1]
    <3>1. n - 1 \in 2..Len(stack)
      BY <1>2, <2>1, <2>3
    <3> QED BY <1>5, <3>1
  <2> QED BY <2>1, <2>2, <2>4 DEF InProgress
<1> SUFFICES ASSUME NEW g \in Fd \ loose', NEW m \in InProgress(g)', NEW n \in InProgress(g)'
             PROVE  m = n /\ g \in edge' /\ stack'[n].live
  BY DEF HeldInv
<1>8. g \notin loose /\ (g = f => g \in edge)
  BY <1>1
<1>9. CASE g = f
  <2>1. InProgress(g) = {}
    <3> SUFFICES ASSUME NEW i \in InProgress(g) PROVE FALSE
      OBVIOUS
    <3>1. stack[i].live
      BY <1>2, <1>8 DEF HeldInv
    <3>2. i \in OnStack(g)
      BY <3>1 DEF InProgress, OnStack
    <3> QED BY <1>1, <1>8, <1>9, <3>2
  <2>2. m = 1 /\ n = 1
    BY <1>7, <2>1
  <2>3. stack'[1].live
    BY <1>6 DEF Callback
  <2> QED BY <1>1, <1>8, <1>9, <2>2, <2>3
<1>10. CASE g # f
  <2>1. m # 1 /\ n # 1
    BY <1>6, <1>10 DEF InProgress, Callback
  <2>2. /\ m - 1 \in InProgress(g) /\ n - 1 \in InProgress(g) /\ stack'[n] = stack[n - 1]
        /\ m \in Int /\ n \in Int
    BY <1>7, <2>1 DEF InProgress
  <2>3. m - 1 = n - 1 /\ g \in edge /\ stack[n - 1].live
    BY <1>2, <1>8, <2>2 DEF HeldInv
  <2>4. m = n
    BY <2>2, <2>3
  <2>5. g \in edge' /\ stack'[n].live
    BY <1>1, <2>2, <2>3
  <2> QED BY <2>4, <2>5
<1> QED BY <1>9, <1>10

(* A callback that returns, or is called again, keeps HeldInv.             *)
LEMMA ReturnHolds ==
  ASSUME IInv, callback_returns
  PROVE  HeldInv'
<1>1. HeldInv /\ stack \in Seq(Frame) /\ Len(stack) \in Nat
  BY DEF IInv, TypeOK
<1>2. stack # <<>> /\ edge' = edge
  BY DEF callback_returns, fds
<1>3. CASE stack[1].live /\ stack[1].more
  <2>1. stack' = [stack EXCEPT ![1].more = FALSE] /\ loose' = loose
    BY <1>3 DEF callback_returns
  <2>2. /\ Len(stack') = Len(stack)
        /\ stack'[1].at = stack[1].at /\ stack'[1].fd = stack[1].fd
        /\ stack'[1].live = stack[1].live
        /\ \A n \in 2..Len(stack) : stack'[n] = stack[n]
    BY <1>1, <1>2, <2>1, Repeats
  <2>3. \A n \in 1..Len(stack) : (n = 1 \/ n \in 2..Len(stack)) /\ n + 0 = n
    BY <1>1
  <2>4. Same(stack, stack', 0)
    BY <2>2, <2>3 DEF Same
  <2>5. 0 \in Int /\ \A f \in Fd \ loose' : f \notin loose
    BY <2>1
  <2> QED BY <1>1, <1>2, <2>4, <2>5, HeldKept
<1>4. CASE ~(stack[1].live /\ stack[1].more)
  <2>1. stack' = Tail(stack) /\ loose' = {f \in loose : InProgress(f) # {1}}
    BY <1>4 DEF callback_returns
  <2>2. Len(stack') = Len(stack) - 1
        /\ \A n \in 1..Len(stack) - 1 : n + 1 \in 1..Len(stack) /\ stack'[n] = stack[n + 1]
    BY <1>1, <1>2, <2>1, Popped
  <2>3. Same(stack, stack', 1)
    BY <1>1, <2>2 DEF Same
  <2>4. ASSUME NEW f \in Fd \ loose', f \in loose, NEW n \in InProgress(f)'
        PROVE  FALSE
    <3>1. n \in 1..Len(stack) - 1 /\ stack'[n].at = "fd" /\ stack'[n].fd = f
      BY <1>1, <2>2 DEF InProgress
    <3>2. n + 1 \in InProgress(f) /\ n + 1 # 1
      BY <1>1, <2>2, <3>1 DEF InProgress
    <3>3. InProgress(f) # {1}
      BY <3>2
    <3> QED BY <2>1, <2>4, <3>3
  <2> QED BY <1>1, <1>2, <2>3, <2>4, HeldKept
<1> QED BY <1>3, <1>4

(* The ordinary steps keep HeldInv.                                        *)
LEMMA OrdinaryHolds ==
  ASSUME UloopAssumption, IInv, Ordinary
  PROVE  HeldInv'
<1>1. Moves /\ edge' = edge /\ loose' = loose /\ TypeOK /\ HeldInv
  BY OrdinaryMoves DEF IInv
<1>2. \E k \in Int : Same(stack, stack', k)
  BY <1>1, MovesSame
<1> QED BY <1>1, <1>2, HeldKept

-----------------------------------------------------------------------------
(* TypeOK, of the variables that the ordinary steps change.                *)
LEMMA OrdinaryTypes ==
  ASSUME UloopAssumption, IInv, Ordinary
  PROVE  TypeOK'
<1>1. TypeOK /\ UloopAssumption
  BY DEF IInv
<1>2. UNCHANGED <<registered, edge, batch, gone, switched, loose, due>> /\ StackOK(stack')
  BY <1>1, OrdinaryMoves, MovesKeep
<1>3. pend' \subseteq Fd
  BY <1>1 DEF Ordinary, TypeOK, Arrives, uloop_process_add, uloop_process_delete, uloop_sigchld,
       uloop_handle_processes, uloop_end, uloop_run, uloop_handle_sigint, loop_top,
       uloop_process_timeouts, timeouts_done, all_reaped, uloop_run_events, events_done, fds
<1>4. cancelled' \in BOOLEAN /\ ended' \in BOOLEAN
  BY <1>1 DEF Ordinary, TypeOK, Arrives, uloop_process_add, uloop_process_delete, uloop_sigchld,
       uloop_handle_processes, uloop_end, uloop_run, uloop_handle_sigint, loop_top,
       uloop_process_timeouts, timeouts_done, all_reaped, uloop_run_events, events_done
<1>5. do_sigchld' \in BOOLEAN /\ missed' \subseteq Child
      /\ child' \in [Child -> {"alive", "zombie", "reaped"}]
  BY <1>1 DEF Ordinary, TypeOK, Arrives, uloop_process_add, uloop_process_delete, uloop_sigchld,
       uloop_handle_processes, uloop_end, uloop_run, uloop_handle_sigint, loop_top,
       uloop_process_timeouts, timeouts_done, all_reaped, uloop_run_events, events_done, signals
<1>6. watched' \subseteq Child
  BY <1>1 DEF Ordinary, TypeOK, Arrives, uloop_process_add, uloop_process_delete, uloop_sigchld,
       uloop_handle_processes, uloop_end, uloop_run, uloop_handle_sigint, loop_top,
       uloop_process_timeouts, timeouts_done, all_reaped, uloop_run_events, events_done
<1>7. calls' = calls \/ (calls < MaxCalls /\ calls' = calls + 1)
  BY DEF Ordinary, Arrives, uloop_process_add, uloop_process_delete, uloop_sigchld,
       uloop_handle_processes, uloop_end, uloop_run, uloop_handle_sigint, loop_top,
       uloop_process_timeouts, timeouts_done, all_reaped, uloop_run_events, events_done, UserCall
<1>8. calls' \in 0..MaxCalls
  BY <1>1, <1>7 DEF TypeOK, UloopAssumption
<1> QED BY <1>1, <1>2, <1>3, <1>4, <1>5, <1>6, <1>8 DEF TypeOK, StackOK

(* The other steps.                                                        *)
Special ==
  \/ \E f \in Fd : \/ uloop_fd_delete(f)
                   \/ \E trigger \in BOOLEAN : uloop_fd_add(f, trigger)
  \/ \E r \in Reports : uloop_fetch_events(r)
  \/ event_skipped \/ event_calls \/ callback_returns

(* TypeOK, of the steps on descriptors and events.                         *)
LEMMA SpecialTypes ==
  ASSUME UloopAssumption, IInv, Special
  PROVE  TypeOK'
<1>1. TypeOK /\ StackOK(stack) /\ calls \in Nat
  BY DEF IInv, TypeOK, StackOK
<1>2. UNCHANGED <<child, do_sigchld, missed, watched, cancelled, ended>>
  BY DEF Special, uloop_fd_delete, uloop_fd_add, uloop_fetch_events, event_skipped, event_calls,
         callback_returns, signals
<1>3. calls' = calls \/ (calls < MaxCalls /\ calls' = calls + 1)
  BY DEF Special, uloop_fd_delete, uloop_fd_add, uloop_fetch_events, event_skipped, event_calls,
         callback_returns, UserCall
<1>4. calls' \in 0..MaxCalls
  BY <1>1, <1>3 DEF TypeOK, UloopAssumption
<1>5. ASSUME NEW f \in Fd, uloop_fd_delete(f)
      PROVE  TypeOK'
  <2>1. /\ batch' = batch_delete(f)
        /\ stack' = stack \/ stack' = stack_forget({f})
        /\ registered' \subseteq registered /\ edge' \subseteq edge /\ pend' \subseteq pend
        /\ gone' = gone \union {f} /\ due' \subseteq due /\ switched' = switched
        /\ loose' \subseteq loose \union {f}
    BY <1>5 DEF uloop_fd_delete, Loosened
  <2>2. batch' \in Seq(Event) /\ Len(batch') <= MaxBatch
    BY <1>1, <2>1, BatchDeleted DEF TypeOK
  <2>3. StackOK(stack')
    BY <1>1, <2>1, Forgets DEF StackOK
  <2> QED BY <1>1, <1>2, <1>4, <2>1, <2>2, <2>3 DEF TypeOK, StackOK
<1>6. ASSUME NEW f \in Fd, NEW trigger \in BOOLEAN, uloop_fd_add(f, trigger)
      PROVE  TypeOK'
  <2>1. /\ batch' = batch /\ stack' = stack
        /\ registered' \subseteq registered \union {f} /\ edge' \subseteq edge \union {f}
        /\ pend' \subseteq pend \union {f}
        /\ gone' \subseteq gone /\ due' \subseteq due /\ switched' \subseteq switched \union {f}
        /\ loose' \subseteq loose \union {f}
    BY <1>6 DEF uloop_fd_add, register_poll, Loosened
  <2> QED BY <1>1, <1>2, <1>4, <2>1 DEF TypeOK
<1>7. ASSUME NEW r \in Reports, uloop_fetch_events(r)
      PROVE  TypeOK'
  <2>1. batch' \in Seq(Event) /\ Len(batch') <= MaxBatch
    BY <1>1, <1>7, Fetched
  <2>2. StackOK(stack')
    BY <1>7, EventKeeps
  <2>3. /\ registered' \subseteq registered /\ edge' \subseteq edge /\ pend' \subseteq pend
        /\ gone' = gone /\ due' \subseteq due \union edge /\ switched' = switched
    BY <1>7 DEF uloop_fetch_events
  <2>4. loose' \subseteq Fd
    <3>1. loose' = Loosened({r[n].fd : n \in {m \in DOMAIN r : r[m].err}} \ ErrorCb)
      BY <1>7 DEF uloop_fetch_events
    <3>2. \A n \in DOMAIN r : r[n].fd \in Fd
      BY <1>1, <1>7, Fetched DEF Ready, TypeOK
    <3> QED BY <1>1, <3>1, <3>2 DEF Loosened, TypeOK
  <2> QED BY <1>1, <1>2, <1>4, <2>1, <2>2, <2>3, <2>4 DEF TypeOK, StackOK
<1>8. CASE event_skipped \/ event_calls
  <2>1. /\ batch # <<>> /\ batch' = Tail(batch) /\ due' \subseteq due
        /\ UNCHANGED <<registered, edge, pend, gone, switched>>
        /\ loose' = loose \/ (batch[1].fd # NoFd /\ loose' \subseteq loose \union {batch[1].fd})
    BY <1>8 DEF event_skipped, event_calls, fds
  <2>2. batch' \in Seq(Event) /\ Len(batch') <= MaxBatch /\ batch[1] \in Event
    BY <1>1, <2>1, BatchTail DEF TypeOK, UloopAssumption
  <2>4. loose' \subseteq Fd
    BY <1>1, <2>1, <2>2 DEF Event, TypeOK
  <2>3. StackOK(stack')
    <3>1. CASE event_calls
      BY <3>1, EventKeeps
    <3>2. CASE event_skipped
      <4>1. \/ stack' = stack
            \/ stack' = stack_buffer(batch[1].fd, batch[1].io)
        BY <3>2 DEF event_skipped
      <4>2. batch[1].io \in BOOLEAN
        BY <2>2 DEF Event
      <4> QED BY <1>1, <4>1, <4>2, Buffers DEF StackOK
    <3> QED BY <1>8, <3>1, <3>2
  <2> QED BY <1>1, <1>2, <1>4, <2>1, <2>2, <2>3, <2>4 DEF TypeOK, StackOK
<1>9. CASE callback_returns
  <2>1. /\ stack # <<>> /\ due' \subseteq due /\ loose' \subseteq loose
        /\ \/ stack' = [stack EXCEPT ![1].more = FALSE]
           \/ ~(stack[1].live /\ stack[1].more) /\ stack' = Tail(stack)
        /\ UNCHANGED <<registered, edge, pend, batch, gone, switched>>
    BY <1>9 DEF callback_returns, fds
  <2>2. StackOK(stack')
    BY <1>1, <2>1, Repeats, PopCall DEF Named
  <2> QED BY <1>1, <1>2, <1>4, <2>1, <2>2 DEF TypeOK, StackOK
<1> QED BY <1>5, <1>6, <1>7, <1>8, <1>9 DEF Special

(* LoopInv, of the steps on descriptors and events.                        *)
LEMMA SpecialLoop ==
  ASSUME UloopAssumption, IInv, Special
  PROVE  LoopInv'
<1>1. TypeOK /\ PlacesOK /\ LoopInv /\ stack \in Seq(Frame) /\ stack' \in Seq(Frame)
  BY SpecialTypes DEF IInv, LoopInv, TypeOK
<1>2. UNCHANGED <<child, do_sigchld, missed, cancelled, ended>>
  BY DEF Special, uloop_fd_delete, uloop_fd_add, uloop_fetch_events, event_skipped, event_calls,
         callback_returns, signals
<1>3. ASSUME NEW f \in Fd, uloop_fd_delete(f)
      PROVE  LoopInv'
  <2>1. User /\ (stack' = stack \/ stack' = stack_forget({f}))
    BY <1>3 DEF uloop_fd_delete, UserCall
  <2>2. ~In("poll")
    BY <2>1 DEF User, In, Callbacks
  <2>3. Len(stack') = Len(stack) /\ \A n \in 1..Len(stack) : stack'[n].at = stack[n].at
    BY <1>1, <2>1, Forgets
  <2> QED BY <1>1, <1>2, <2>2, <2>3, StillKeeps
<1>4. ASSUME NEW f \in Fd, NEW trigger \in BOOLEAN, uloop_fd_add(f, trigger)
      PROVE  LoopInv'
  <2>1. stack' = stack /\ batch' = batch
    BY <1>4 DEF uloop_fd_add
  <2> QED BY <1>1, <1>2, <2>1, StillKeeps
<1>5. CASE event_skipped
  <2>1. /\ In("events") /\ batch # <<>>
        /\ \/ stack' = stack
           \/ stack' = stack_buffer(batch[1].fd, batch[1].io)
    BY <1>5 DEF event_skipped
  <2>2. ~In("poll")
    BY <2>1 DEF In
  <2>3. batch[1].io \in BOOLEAN
    BY <1>1, <2>1, BatchTail DEF Event
  <2>4. Len(stack') = Len(stack) /\ \A n \in 1..Len(stack) : stack'[n].at = stack[n].at
    BY <1>1, <2>1, <2>3, Buffers
  <2> QED BY <1>1, <1>2, <2>2, <2>4, StillKeeps
<1>6. CASE callback_returns
  <2>1. /\ User /\ stack # <<>> /\ batch' = batch
        /\ \/ stack' = [stack EXCEPT ![1].more = FALSE]
           \/ stack' = Tail(stack)
    BY <1>6 DEF callback_returns
  <2>2. CASE stack' = [stack EXCEPT ![1].more = FALSE]
    <3>1. /\ Len(stack') = Len(stack) /\ stack'[1].at = stack[1].at /\ Len(stack) \in Nat
          /\ \A n \in 2..Len(stack) : stack'[n] = stack[n]
      BY <1>1, <2>1, <2>2, Repeats
    <3>2. \A n \in 1..Len(stack) : n = 1 \/ n \in 2..Len(stack)
      BY <3>1
    <3>3. \A n \in 1..Len(stack) : stack'[n].at = stack[n].at
      BY <3>1, <3>2
    <3> QED BY <1>1, <1>2, <2>1, <3>1, <3>3, StillKeeps
  <2>3. CASE stack' = Tail(stack)
    <3>1. stack[1].at # "reap"
      BY <2>1 DEF User, Callbacks
    <3>2. PlacesOK' /\ (Clear => Clear') /\ (Reaping => Reaping')
      BY <1>1, <2>1, <2>3, <3>1, PopPlaces
    <3> QED BY <1>1, <1>2, <3>2, LoopKept
  <2> QED BY <2>1, <2>2, <2>3
<1>7. CASE event_calls \/ \E r \in Reports : uloop_fetch_events(r)
  BY <1>7, EventKeeps
<1> QED BY <1>3, <1>4, <1>5, <1>6, <1>7 DEF Special

(* LoopInv, of the ordinary steps.                                         *)
LEMMA OrdinaryLoop ==
  ASSUME UloopAssumption, IInv, Ordinary
  PROVE  LoopInv'
<1>1. CASE (\E f \in Fd : Arrives(f))
           \/ \E c \in Child : uloop_process_add(c) \/ uloop_process_delete(c)
  <2>1. UNCHANGED <<stack, batch, cancelled, do_sigchld, child, missed, ended>>
    BY <1>1 DEF Arrives, uloop_process_add, uloop_process_delete, signals
  <2>2. stack \in Seq(Frame)
    BY DEF IInv, TypeOK
  <2> QED BY <2>1, <2>2, StillKeeps
<1> QED BY <1>1, EndKeeps, RunKeeps, SignalKeeps, StepKeeps DEF Ordinary

(* The inductive invariant holds when the program starts.                  *)
LEMMA InitOK ==
  ASSUME UloopAssumption, Init
  PROVE  IInv
<1>1. Call("top") \in Frame /\ Call("top").at = "top" /\ Call("top").fd = NoFd
      /\ ~Call("top").live
  BY Frames DEF Loops
<1>2. /\ stack \in Seq(Frame) /\ Len(stack) = 1 /\ stack[1] = Call("top") /\ stack # <<>>
      /\ batch = <<>> /\ batch \in Seq(Event) /\ Len(batch) = 0
  BY <1>1 DEF Init
<1>3. \A n \in 1..Len(stack) : stack[n] = Call("top")
  BY <1>2
<1>4. TypeOK
  <2>1. /\ registered \subseteq Fd /\ edge \subseteq Fd /\ pend \subseteq Fd
        /\ gone \subseteq Fd /\ switched \subseteq Fd /\ loose \subseteq Fd /\ due \subseteq Fd
        /\ missed \subseteq Child /\ watched \subseteq Child
        /\ cancelled \in BOOLEAN /\ do_sigchld \in BOOLEAN /\ ended \in BOOLEAN
    BY DEF Init
  <2>2. child \in [Child -> {"alive", "zombie", "reaped"}] /\ calls \in 0..MaxCalls
        /\ Len(batch) <= MaxBatch
    BY <1>2 DEF Init, UloopAssumption
  <2>3. \A n \in 1..Len(stack) : (stack[n].fd = NoFd) <=> (stack[n].at # "fd")
    BY <1>1, <1>3
  <2> QED BY <1>2, <2>1, <2>2, <2>3 DEF TypeOK
<1>5. LoopInv
  BY <1>1, <1>2, <1>3 DEF LoopInv, PlacesOK, In, SignalKept, EndStops, Init
<1>6. \A f : OnStack(f) = {}
  BY <1>1, <1>3 DEF OnStack
<1>7. FdInv
  BY <1>2, <1>6 DEF FdInv, BatchOnce, LeftUnbuffered, Quiet, DeletedIsSilent, OneEntry,
     NoLostEdge, Init
<1>8. \A f \in Fd : InProgress(f) = {}
  BY <1>1, <1>3 DEF InProgress
<1>9. HeldInv
  BY <1>8 DEF HeldInv
<1> QED BY <1>4, <1>5, <1>7, <1>9 DEF IInv

(* Every step keeps the inductive invariant.                               *)
LEMMA NextOK ==
  ASSUME UloopAssumption, IInv, [Next]_vars
  PROVE  IInv'
<1>1. CASE Ordinary
  <2>1. TypeOK' /\ LoopInv'
    BY <1>1, OrdinaryTypes, OrdinaryLoop
  <2>2. /\ UNCHANGED <<registered, edge, batch, gone, switched, loose, due>>
        /\ \E k \in Int : Onto(stack, stack', k) /\ Back(stack, stack', k)
    BY <1>1, OrdinaryMoves, MovesKeep DEF IInv
  <2>3. FdInv'
    BY <2>2, FdOrdinary DEF IInv
  <2>4. HeldInv'
    BY <1>1, OrdinaryHolds
  <2> QED BY <2>1, <2>3, <2>4 DEF IInv
<1>2. CASE Special
  <2>1. TypeOK' /\ LoopInv'
    BY <1>2, SpecialTypes, SpecialLoop
  <2>2. FdInv'
    BY <1>2, DeleteKeeps, AddKeeps, FetchKeeps, SkipKeeps, CallKeeps, ReturnKeeps DEF Special
  <2>3. HeldInv'
    BY <1>2, AddHolds, DeleteHolds, FetchHolds, SkipHolds, CallHolds, ReturnHolds DEF Special
  <2> QED BY <2>1, <2>2, <2>3 DEF IInv
<1>3. CASE UNCHANGED vars
  <2>1. UNCHANGED <<registered, edge, pend, batch, stack, cancelled, do_sigchld, child, watched,
                    calls, gone, switched, loose, due, missed, ended>>
    BY <1>3 DEF vars
  <2>2. TypeOK /\ stack \in Seq(Frame)
    BY DEF IInv, TypeOK
  <2>3. TypeOK'
    BY <2>1, <2>2 DEF TypeOK
  <2>4. LoopInv'
    BY <2>1, <2>2, StillKeeps
  <2>5. \E k \in Int : Onto(stack, stack', k) /\ Back(stack, stack', k)
    BY <2>1, <2>2, MovesKeep DEF Moves
  <2>6. FdInv'
    BY <2>1, <2>5, FdOrdinary DEF IInv
  <2>7. HeldInv'
    BY <2>1 DEF IInv, HeldInv, InProgress
  <2> QED BY <2>3, <2>4, <2>6, <2>7 DEF IInv
<1> QED BY <1>1, <1>2, <1>3 DEF Next, Ordinary, Special

-----------------------------------------------------------------------------
(***************************************************************************)
(* The theorems                                                            *)
(***************************************************************************)

(* The inductive invariant of the event loop.                              *)
THEOREM LoopInvariant == Spec => []IInv
<1>1. Init => IInv
  BY InitOK, UloopAssumption
<1>2. IInv /\ [Next]_vars => IInv'
  BY NextOK, UloopAssumption
<1> QED BY <1>1, <1>2, PTL DEF Spec

(* The variables keep their types: the callback of a NULL entry of the     *)
(* batch is never called, and the batch never outgrows cur_fds.            *)
THEOREM TypeCorrect == Spec => []TypeOK
<1>1. IInv => TypeOK
  BY DEF IInv
<1> QED BY <1>1, LoopInvariant, PTL

(* No callback of a deleted descriptor is called (uloop_fd_delete).        *)
THEOREM DeletedStaysSilent == Spec => []DeletedIsSilent
<1>1. IInv => DeletedIsSilent
  BY DEF IInv, FdInv
<1> QED BY <1>1, LoopInvariant, PTL

(* The callback of a descriptor that stays registered as edge-triggered is *)
(* not called while it is in progress, however many loops are nested       *)
(* (uloop_fd_stack_event, uloop_run_events).                               *)
THEOREM NeverReentered == Spec => []NoReentry
<1>1. IInv => NoReentry
  BY DEF IInv, HeldInv, NoReentry
<1> QED BY <1>1, LoopInvariant, PTL

(* No reported edge is lost (uloop_run_events).                            *)
THEOREM EdgesKept == Spec => []NoLostEdge
<1>1. IInv => NoLostEdge
  BY DEF IInv, FdInv
<1> QED BY <1>1, LoopInvariant, PTL

(* No child that ends while a loop runs is forgotten                       *)
(* (uloop_handle_processes).                                               *)
THEOREM ChildrenKept == Spec => []SignalKept
<1>1. IInv => SignalKept
  BY DEF IInv, LoopInv
<1> QED BY <1>1, LoopInvariant, PTL

(* After uloop_end no loop goes on to its events (uloop_run).              *)
THEOREM EndsStop == Spec => []EndStops
<1>1. IInv => EndStops
  BY DEF IInv, LoopInv
<1> QED BY <1>1, LoopInvariant, PTL
===============================================================================
