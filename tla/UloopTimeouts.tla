----------------------------- MODULE UloopTimeouts -----------------------------
(***************************************************************************)
(* The timeouts of uloop (uloop.c): the sorted list, the pass that runs    *)
(* the callbacks of the expired ones, and how long the poll waits.         *)
(*                                                                         *)
(* Times are a struct timeval, seconds and microseconds, and are compared  *)
(* in whole milliseconds, rounded towards zero.  The model keeps both and  *)
(* scales the units: Ms is the microseconds in a millisecond, Sec the      *)
(* milliseconds in a second, both 1000 in the code.  Differences are taken *)
(* to fit in an int, that is to stay below 24 days.                        *)
(***************************************************************************)
EXTENDS Integers, Sequences

CONSTANTS
  Timeout,   \* the timeouts
  Ms, Sec,   \* the scale of times
  Delay,     \* the delays, in milliseconds, that the user asks for
  MaxNow,    \* bound: how far the clock runs
  MaxLate,   \* bound: how far it runs between uloop_gettime and the poll
  MaxCalls   \* bound: how many times the user sets a timeout

ASSUME UloopTimeoutsAssumption ==
  /\ Ms \in Nat \ {0} /\ Sec \in Nat \ {0}
  /\ Delay \subseteq Nat
  /\ MaxNow \in Nat /\ MaxLate \in Nat /\ MaxCalls \in Nat

VARIABLES
  now,       \* the monotonic clock, in microseconds
  timeouts,  \* the list of pending timeouts
  time,      \* the time of each timeout
  at,        \* where uloop_run is
  tv,        \* its variable tv
  wait,      \* the timeout of the poll, in milliseconds, -1 for none
  began,     \* when the poll in progress began
  calls      \* how many timeouts the user set

vars == <<now, timeouts, time, at, tv, wait, began, calls>>

(* uloop_run is at the top of its loop, in uloop_process_timeouts, in the  *)
(* callback of a timeout, in those of dead children, about to take the     *)
(* time, about to poll, in the poll, or in the callback of an event.       *)
Place == {"top", "timeouts", "callback", "child", "gettime", "fetch", "poll", "event"}
TimeVal == [sec : Nat, usec : Nat]

-----------------------------------------------------------------------------
(***************************************************************************)
(* Times                                                                   *)
(***************************************************************************)
SecUs == Ms * Sec

(* The microseconds a time stands for.                                     *)
Us(t) == t.sec * SecUs + t.usec

uloop_gettime(n) == [sec |-> n \div SecUs, usec |-> n % SecUs]

(* Division of C: the quotient is rounded towards zero.                    *)
DivC(a, b) == IF a >= 0 THEN a \div b ELSE -((-a) \div b)

(* Mutant: the seconds are left out.                                       *)
tv_diff_usec(t1, t2) == DivC(t1.usec - t2.usec, Ms)

tv_diff(t1, t2) == (t1.sec - t2.sec) * Sec + DivC(t1.usec - t2.usec, Ms)

(* Mutants: the microseconds are carried into the next second but kept; a  *)
(* second is taken off without a look.                                     *)
carry_kept(t, d) ==
  LET u == t.usec + (d % Sec) * Ms
  IN  IF u > SecUs THEN [sec |-> t.sec + d \div Sec + 1, usec |-> u]
                   ELSE [sec |-> t.sec + d \div Sec, usec |-> u]

carry_always(t, d) ==
  [sec |-> t.sec + d \div Sec + 1, usec |-> t.usec + (d % Sec) * Ms - SecUs]

(* The arithmetic of uloop_timeout_set.  A sum of a whole second exactly   *)
(* is not carried: usec is then SecUs.                                     *)
TimeAfter(t, d) ==
  LET u == t.usec + (d % Sec) * Ms
  IN  IF u > SecUs THEN [sec |-> t.sec + d \div Sec + 1, usec |-> u % SecUs]
                   ELSE [sec |-> t.sec + d \div Sec, usec |-> u]

-----------------------------------------------------------------------------
(***************************************************************************)
(* The list                                                                *)
(***************************************************************************)
Pending == {timeouts[n] : n \in 1..Len(timeouts)}

Without(s, t) ==
  IF \E n \in 1..Len(s) : s[n] = t
    THEN LET k == CHOOSE n \in 1..Len(s) : s[n] = t
         IN  [n \in 1..Len(s) - 1 |-> IF n < k THEN s[n] ELSE s[n + 1]]
    ELSE s

Insert(s, k, t) ==
  [n \in 1..Len(s) + 1 |-> IF n < k THEN s[n] ELSE IF n = k THEN t ELSE s[n - 1]]

(* Where list_for_each_entry stops: at the first element later than v, or  *)
(* behind the last.                                                        *)
Position(s, v) ==
  CHOOSE k \in 1..Len(s) + 1 :
    /\ \A n \in 1..k - 1 : tv_diff(time[s[n]], v) <= 0
    /\ k <= Len(s) => tv_diff(time[s[k]], v) > 0

(* Mutant: a new timeout goes to the end of the list.                      *)
add_last(s, t, v) == Append(s, t)

(* uloop_timeout_add of a timeout t with time v that is not pending.       *)
SortedAdd(s, t, v) == Insert(s, Position(s, v), t)

-----------------------------------------------------------------------------
Init ==
  /\ now = 0 /\ timeouts = <<>>
  /\ time = [t \in Timeout |-> [sec |-> 0, usec |-> 0]]
  /\ at = "top" /\ tv = [sec |-> 0, usec |-> 0]
  /\ wait = -1 /\ began = 0 /\ calls = 0

(* Time passes; the kernel ends the poll when its time has come.           *)
Tick ==
  /\ now < MaxNow
  /\ at = "fetch" => now < Us(tv) + MaxLate
  /\ at = "poll" /\ wait >= 0 => now < began + wait * Ms
  /\ now' = now + 1
  /\ UNCHANGED <<timeouts, time, at, tv, wait, began, calls>>

(* The user sets or cancels timeouts in callbacks, and before uloop_run,   *)
(* for which the top of the loop stands too.  A pending timeout is         *)
(* cancelled before it is set.                                             *)
User == at \in {"callback", "child", "event"} \/ (at = "top" /\ now = 0)

uloop_timeout_set(t, d) ==
  /\ User
  /\ calls < MaxCalls
  /\ now + (d + 2) * Ms + MaxLate <= MaxNow   \* so that it can expire
  /\ LET v == TimeAfter(uloop_gettime(now), d) IN
       /\ time' = [time EXCEPT ![t] = v]
       /\ timeouts' = SortedAdd(Without(timeouts, t), t, v)
  /\ calls' = calls + 1
  /\ UNCHANGED <<now, at, tv, wait, began>>

(* A timeout is added with the time it had.                                *)
uloop_timeout_add(t) ==
  /\ User
  /\ calls < MaxCalls
  /\ t \notin Pending
  /\ timeouts' = SortedAdd(timeouts, t, time[t])
  /\ calls' = calls + 1
  /\ UNCHANGED <<now, time, at, tv, wait, began>>

uloop_timeout_cancel(t) ==
  /\ User
  /\ timeouts' = Without(timeouts, t)
  /\ UNCHANGED <<now, time, at, tv, wait, began, calls>>

(* The loop of uloop_run takes the time ...                                *)
loop_begins ==
  /\ at = "top"
  /\ at' = "timeouts"
  /\ tv' = uloop_gettime(now)
  /\ UNCHANGED <<now, timeouts, time, wait, began, calls>>

Expired == timeouts # <<>> /\ tv_diff(time[timeouts[1]], tv) <= 0

(* ... runs the callback of the first timeout while that has expired ...   *)
uloop_process_timeouts ==
  /\ at = "timeouts"
  /\ Expired
  /\ timeouts' = Tail(timeouts)
  /\ at' = "callback"
  /\ UNCHANGED <<now, time, tv, wait, began, calls>>

(* ... and, if a SIGCHLD came, those of the children that died.            *)
pass_ends ==
  /\ at = "timeouts"
  /\ ~Expired
  /\ at' \in {"child", "gettime"}
  /\ UNCHANGED <<now, timeouts, time, tv, wait, began, calls>>

callback_returns ==
  /\ at \in {"callback", "child", "event"}
  /\ at' = CASE at = "callback" -> "timeouts" [] at = "child" -> "gettime"
             [] at = "event" -> "top"
  /\ UNCHANGED <<now, timeouts, time, tv, wait, began, calls>>

(* Mutant: a timeout that is overdue makes the poll wait for ever.         *)
next_unclamped(v) == IF timeouts = <<>> THEN -1 ELSE tv_diff(time[timeouts[1]], v)

uloop_get_next_timeout(v) ==
  IF timeouts = <<>> THEN -1
  ELSE LET d == tv_diff(time[timeouts[1]], v) IN IF d < 0 THEN 0 ELSE d

(* It takes the time again for the timeout of the poll ...                 *)
next_timeout ==
  /\ at = "gettime"
  /\ at' = "fetch"
  /\ tv' = uloop_gettime(now)
  /\ wait' = uloop_get_next_timeout(uloop_gettime(now))
  /\ UNCHANGED <<now, timeouts, time, began, calls>>

(* ... which begins somewhat later.                                        *)
poll_begins ==
  /\ at = "fetch"
  /\ at' = "poll" /\ began' = now
  /\ UNCHANGED <<now, timeouts, time, tv, wait, calls>>

(* The poll ends at its time, or before that with a signal or an event,    *)
(* whose callback runs.                                                    *)
poll_ends ==
  /\ at = "poll" /\ wait >= 0 /\ now >= began + wait * Ms
  /\ at' = "top" /\ wait' = -1 /\ began' = 0
  /\ UNCHANGED <<now, timeouts, time, tv, calls>>

poll_interrupted ==
  /\ at = "poll"
  /\ at' = "event" /\ wait' = -1 /\ began' = 0
  /\ UNCHANGED <<now, timeouts, time, tv, calls>>

Loop ==
  \/ loop_begins \/ uloop_process_timeouts \/ pass_ends \/ callback_returns
  \/ next_timeout \/ poll_begins \/ poll_ends

Next ==
  \/ Tick
  \/ Loop
  \/ poll_interrupted
  \/ \E t \in Timeout : \/ \E d \in Delay : uloop_timeout_set(t, d)
                        \/ uloop_timeout_add(t)
                        \/ uloop_timeout_cancel(t)

Spec == Init /\ [][Next]_vars

(* The clock runs on, and uloop_run goes on: callbacks return and the poll *)
(* ends at its time.  Nothing has to interrupt a poll.                     *)
FairSpec == Spec /\ WF_vars(Tick) /\ WF_vars(Loop)

-----------------------------------------------------------------------------
(* The variables have their types; the seconds and microseconds that       *)
(* uloop_timeout_set computes are never negative.                          *)
TypeOK ==
  /\ now \in Nat /\ wait \in Int /\ began \in Nat /\ calls \in Nat
  /\ timeouts \in Seq(Timeout)
  /\ time \in [Timeout -> TimeVal] /\ tv \in TimeVal
  /\ at \in Place

(* The list is sorted up to the precision of tv_diff: no timeout stands    *)
(* before one that is due a millisecond or more earlier, however timeouts  *)
(* are set, cancelled and added again.  No timeout is in it twice.         *)
SortedWithinMs ==
  \A m, n \in 1..Len(timeouts) :
    m < n => /\ Us(time[timeouts[m]]) - Us(time[timeouts[n]]) < Ms
             /\ timeouts[m] # timeouts[n]

(* uloop_timeout_set asks for exactly the delay given, at every time of    *)
(* the clock: also when the sum is a whole second, which is not carried.   *)
DelayExact == \A d \in Delay : Us(TimeAfter(uloop_gettime(now), d)) = now + d * Ms

(* No callback runs a millisecond or more before its time, although an     *)
(* earlier tv may be compared with a timeout set after it.                 *)
NeverEarly ==
  [][at = "timeouts" /\ at' = "callback" => Us(time[timeouts[1]]) < now + Ms]_vars

(* The timeout of a poll, counted from the uloop_gettime before it, is     *)
(* over less than two milliseconds after any pending timeout is due, or    *)
(* it is zero; and there is one if a timeout is pending, also one that a   *)
(* child's callback has set.  By as much as the poll begins later than     *)
(* that uloop_gettime it ends later.                                       *)
PollWakes ==
  at = "poll" => \A t \in Pending :
    wait >= 0 /\ (wait = 0 \/ Us(tv) + wait * Ms < Us(time[t]) + 2 * Ms)

(* A pending timeout expires, unless it is cancelled or set again.         *)
TimeoutFires == \A t \in Timeout : t \in Pending ~> t \notin Pending
=============================================================================
