------------------------------- MODULE Runqueue -------------------------------
(***************************************************************************)
(* The run queue of libubox (runqueue.c) on its safe lists (safe_list.c).  *)
(*                                                                         *)
(* Everything happens in one thread, but the callbacks of tasks may call   *)
(* the queue again while it is in the middle of an operation.  stack holds *)
(* the calls in progress, innermost first: where each is, and its task.    *)
(* When the innermost is a callback, the user's code is at work: it may    *)
(* call any operation, or return.  When the stack is empty uloop waits,    *)
(* and a timer, the end of a task or the user may begin a call.            *)
(***************************************************************************)
EXTENDS Integers, Sequences, FiniteSets

CONSTANTS
  Task,           \* the tasks
  End,            \* the list head, where an iteration ends; not a task
  MaxRunning,     \* q->max_running_tasks, 0 for no limit
  RunTimeout,     \* the tasks with a run_timeout
  CancelTimeout,  \* the tasks with a cancel_timeout
  MaxCalls,       \* bound: how many calls the user makes
  MaxDepth        \* bound: how many calls are in progress when the user makes one

ASSUME RunqueueAssumption ==
  /\ IsFiniteSet(Task)
  /\ End \notin Task
  /\ RunTimeout \subseteq Task /\ CancelTimeout \subseteq Task
  /\ MaxRunning \in Nat /\ MaxCalls \in Nat /\ MaxDepth \in Nat

VARIABLES
  active, inactive,              \* q->tasks_active, q->tasks_inactive
  running_tasks, stopped, empty, \* of q
  timer,                         \* the callback of q->timeout if it is pending
  queued, running, cancelled,    \* of each task
  timeout,                       \* whether t->timeout is pending
  proc,                          \* whether the child process of t is watched
  stack,                         \* the calls in progress, innermost first
  calls,                         \* how many calls the user made
  direct,                        \* history: the tasks that were added as running
  killed                         \* history: runqueue_kill ended, nothing was added since

lists == <<active, inactive>>
flags == <<queued, running, cancelled>>
vars == <<active, inactive, running_tasks, stopped, empty, timer, queued, running,
          cancelled, timeout, proc, stack, calls, direct, killed>>

(* Where a call in progress is: in a callback of the user, or in the loop  *)
(* of __runqueue_start_next, in runqueue_task_kill after the completion of *)
(* a running task or of another, in or before a loop of runqueue_cancel,   *)
(* or in the loop or at the end of runqueue_kill.                          *)
Callbacks == {"run", "complete", "cancel", "kill", "empty"}
Iterating == {"eachPending", "eachActive"}
Internal == {"start", "killRunning", "killPending", "thenActive", "killAll", "killEnd"}
Frame == [at : Callbacks \union Iterating \union Internal, task : Task \union {End}]

(* runqueue_init on a zeroed queue.                                        *)
Init ==
  /\ active = <<>> /\ inactive = <<>>
  /\ running_tasks = 0 /\ stopped = FALSE /\ empty = FALSE
  /\ timer = "none"
  /\ queued = [t \in Task |-> FALSE]
  /\ running = [t \in Task |-> FALSE]
  /\ cancelled = [t \in Task |-> FALSE]
  /\ timeout = [t \in Task |-> FALSE]
  /\ proc = [t \in Task |-> FALSE]
  /\ stack = <<>> /\ calls = 0
  /\ direct = {} /\ killed = FALSE

-----------------------------------------------------------------------------
(***************************************************************************)
(* Lists, iterations and the stack                                         *)
(***************************************************************************)
Elements(s) == {s[n] : n \in 1..Len(s)}
Index(s, t) == CHOOSE n \in 1..Len(s) : s[n] = t
First(s) == IF s = <<>> THEN End ELSE s[1]

(* list->list.next, End for the last element.                              *)
NextIn(s, t) == IF Index(s, t) = Len(s) THEN End ELSE s[Index(s, t) + 1]

(* list_del                                                                *)
Without(s, t) ==
  IF t \in Elements(s)
    THEN [n \in 1..Len(s) - 1 |-> IF n < Index(s, t) THEN s[n] ELSE s[n + 1]]
    ELSE s

Call(a, t) == [at |-> a, task |-> t]
Push(f, S) == <<f>> \o S
Pop == Tail(stack)
In(at) == stack # <<>> /\ stack[1].at = at

(* Mutant: the iterations that stand on a deleted element stay there.      *)
iterators_stay(t, s, S) == S

(* The iterators that safe_list_del moves: those whose next element is t   *)
(* go on to the element behind it.                                         *)
safe_list_del(t, s, S) ==
  [n \in 1..Len(S) |->
     IF S[n].at \in Iterating /\ S[n].task = t
       THEN Call(S[n].at, NextIn(s, t)) ELSE S[n]]

-----------------------------------------------------------------------------
(***************************************************************************)
(* The operations, with S the stack of the calls below them                *)
(***************************************************************************)

(* The loop of __runqueue_start_next will run from uloop.                  *)
runqueue_start_next == timer' = IF empty THEN timer ELSE "start"

(* The task leaves its list, the count changes by n, and its timeout is    *)
(* pending if keep.                                                        *)
Complete(t, S, n, keep) ==
  \/ /\ ~queued[t]                                    \* early return
     /\ stack' = S
     /\ UNCHANGED <<lists, flags, running_tasks, timeout>>
  \/ /\ queued[t]
     /\ running_tasks' = running_tasks + n
     /\ timeout' = [timeout EXCEPT ![t] = keep]
     /\ active' = Without(active, t) /\ inactive' = Without(inactive, t)
     /\ queued' = [queued EXCEPT ![t] = FALSE]
     /\ running' = [running EXCEPT ![t] = FALSE]
     /\ cancelled' = [cancelled EXCEPT ![t] = FALSE]
     /\ stack' = Push(Call("complete", t),
                      safe_list_del(t, IF running[t] THEN active ELSE inactive, S))

(* Mutants: the task is counted on; one that was not running is counted    *)
(* off; the timeout stays.                                                 *)
complete_counted_off(t, S) == Complete(t, S, -1, FALSE)
complete_still_counted(t, S) == Complete(t, S, 0, FALSE)
complete_keeps_timeout(t, S) == Complete(t, S, IF running[t] THEN -1 ELSE 0, timeout[t])

(* runqueue_task_complete up to the callback t->complete.                  *)
task_complete(t, S) == Complete(t, S, IF running[t] THEN -1 ELSE 0, FALSE)

(* runqueue_task_cancel: a pending task completes; a running one is asked  *)
(* to end by its type's cancel callback.  pending: whether its timeout is. *)
Cancel(t, S, pending) ==
  \/ ~running[t] /\ task_complete(t, S)
  \/ /\ queued[t] /\ running[t]
     /\ cancelled' = [cancelled EXCEPT ![t] = TRUE]
     /\ timeout' = [timeout EXCEPT ![t] = pending \/ t \in CancelTimeout]
     /\ stack' = Push(Call("cancel", t), S)
     /\ UNCHANGED <<lists, queued, running, running_tasks>>

task_cancel(t, S) == Cancel(t, S, timeout[t])

(* runqueue_task_kill: complete, then the kill callback of a running task. *)
task_kill(t, S) ==
  task_complete(t, IF queued[t]
                     THEN Push(Call(IF running[t] THEN "killRunning" ELSE "killPending", t), S)
                     ELSE S)

-----------------------------------------------------------------------------
(***************************************************************************)
(* Calls of the user, from a callback or from uloop                        *)
(***************************************************************************)
UserCall ==
  /\ stack # <<>> => stack[1].at \in Callbacks
  /\ calls < MaxCalls /\ Len(stack) <= MaxDepth
  /\ calls' = calls + 1

(* What _runqueue_task_add does up to its last line; nothing if the task   *)
(* is queued.                                                              *)
Add(t, run, first) ==
  /\ ~queued[t]
  /\ running_tasks' = running_tasks + (IF run THEN 1 ELSE 0)
  /\ LET into(s) == IF first THEN Push(t, s) ELSE Append(s, t)
     IN  IF run THEN active' = into(active) /\ UNCHANGED inactive
                ELSE inactive' = into(inactive) /\ UNCHANGED active
  /\ queued' = [queued EXCEPT ![t] = TRUE]
  /\ running' = [running EXCEPT ![t] = run]
  /\ cancelled' = [cancelled EXCEPT ![t] = FALSE]
  /\ direct' = IF run THEN direct \union {t} ELSE direct \ {t}
  /\ killed' = FALSE
  /\ UNCHANGED <<stopped, timeout, stack>>

(* Mutants: the queue is not told; it is still taken for empty.            *)
add_silent(t, run, first) ==
  UserCall /\ Add(t, run, first) /\ empty' = FALSE /\ UNCHANGED <<timer, proc>>
add_to_empty(t, run, first) ==
  UserCall /\ Add(t, run, first) /\ timer' = "start" /\ UNCHANGED <<empty, proc>>

(* runqueue_task_add and runqueue_task_add_first.                          *)
runqueue_task_add(t, run, first) ==
  UserCall /\ Add(t, run, first) /\ empty' = FALSE /\ timer' = "start" /\ UNCHANGED proc

(* Watch a child process.  A task that is not queued is added as running;  *)
(* for one that waits _runqueue_task_add returns early, and it waits on.   *)
runqueue_process_add(t) ==
  /\ UserCall
  /\ ~proc[t]
  /\ proc' = [proc EXCEPT ![t] = TRUE]
  /\ \/ ~queued[t] /\ Add(t, TRUE, FALSE) /\ empty' = FALSE /\ timer' = "start"
     \/ /\ queued[t]
        /\ UNCHANGED <<lists, flags, running_tasks, stopped, empty, timer, timeout,
                       stack, direct, killed>>

(* A task ends in a callback; kill must not complete its task (runqueue.h),*)
(* and the task of a child process is completed by __runqueue_proc_cb.     *)
runqueue_task_complete(t) ==
  /\ UserCall
  /\ ~proc[t] /\ ~(In("kill") /\ stack[1].task = t)
  /\ task_complete(t, stack)
  /\ UNCHANGED <<stopped, empty, timer, proc, direct, killed>>

runqueue_task_cancel(t) ==
  /\ UserCall
  /\ task_cancel(t, stack)
  /\ UNCHANGED <<stopped, empty, timer, proc, direct, killed>>

runqueue_task_kill(t) ==
  /\ UserCall
  /\ task_kill(t, stack)
  /\ UNCHANGED <<stopped, empty, timer, proc, direct, killed>>

(* runqueue_cancel_pending, runqueue_cancel_active and both.               *)
runqueue_cancel ==
  /\ UserCall
  /\ \/ stack' = Push(Call("eachPending", First(inactive)), stack)
     \/ stack' = Push(Call("thenActive", End), stack)
     \/ stack' = Push(Call("eachPending", First(inactive)),
                      Push(Call("thenActive", End), stack))
  /\ UNCHANGED <<lists, flags, running_tasks, stopped, empty, timer, timeout, proc,
                 direct, killed>>

runqueue_kill ==
  /\ UserCall
  /\ stack' = Push(Call("killAll", End), stack)
  /\ UNCHANGED <<lists, flags, running_tasks, stopped, empty, timer, timeout, proc,
                 direct, killed>>

runqueue_stop ==
  /\ UserCall
  /\ stopped' = TRUE
  /\ UNCHANGED <<lists, flags, running_tasks, empty, timer, timeout, proc, stack,
                 direct, killed>>

runqueue_resume ==
  /\ UserCall
  /\ stopped' = FALSE
  /\ runqueue_start_next
  /\ UNCHANGED <<lists, flags, running_tasks, empty, timeout, proc, stack, direct,
                 killed>>

-----------------------------------------------------------------------------
(***************************************************************************)
(* The queue goes on                                                       *)
(***************************************************************************)

(* run, cancel and the empty callback return.                              *)
callback_returns ==
  /\ In("run") \/ In("cancel") \/ In("empty")
  /\ stack' = Pop
  /\ UNCHANGED <<lists, flags, running_tasks, stopped, empty, timer, timeout, proc,
                 calls, direct, killed>>

(* The last line of runqueue_task_complete, and of runqueue_task_kill.     *)
complete_returns ==
  /\ In("complete") \/ In("kill") \/ In("killPending")
  /\ stack' = Pop
  /\ runqueue_start_next
  /\ UNCHANGED <<lists, flags, running_tasks, stopped, empty, timeout, proc, calls,
                 direct, killed>>

(* runqueue_task_kill calls the kill callback, which for a child process   *)
(* is runqueue_process_kill_cb: it is watched no longer.                   *)
kill_callback ==
  /\ In("killRunning")
  /\ stack' = Push(Call("kill", stack[1].task), Pop)
  /\ proc' = [proc EXCEPT ![stack[1].task] = FALSE]
  /\ UNCHANGED <<lists, flags, running_tasks, stopped, empty, timer, timeout, calls,
                 direct, killed>>

MayStart == ~stopped /\ inactive # <<>>
Room == MaxRunning = 0 \/ running_tasks < MaxRunning

(* A turn of the loop: the first pending task is moved and run ...         *)
StartNext(room) ==
  /\ In("start")
  /\ MayStart /\ room
  /\ LET t == inactive[1] IN
       /\ inactive' = Tail(inactive)
       /\ active' = Append(active, t)
       /\ running' = [running EXCEPT ![t] = TRUE]
       /\ timeout' = [timeout EXCEPT ![t] = @ \/ t \in RunTimeout]
       /\ stack' = Push(Call("run", t), safe_list_del(t, inactive, stack))
  /\ running_tasks' = running_tasks + 1
  /\ UNCHANGED <<queued, cancelled, stopped, empty, timer, proc, calls, direct, killed>>

(* Mutant: one task more than max_running_tasks is started.                *)
start_next_one_more == StartNext(MaxRunning = 0 \/ running_tasks <= MaxRunning)

__runqueue_start_next == StartNext(Room)

(* ... or the loop ends, and an empty queue will be told of if there is an *)
(* empty_cb.                                                               *)
start_next_ends ==
  /\ In("start")
  /\ ~(MayStart /\ Room)
  /\ stack' = Pop
  /\ IF ~empty /\ active = <<>> /\ inactive = <<>>
       THEN empty' = TRUE /\ timer' \in {"empty", timer}
       ELSE UNCHANGED <<empty, timer>>
  /\ UNCHANGED <<lists, flags, running_tasks, stopped, timeout, proc, calls, direct,
                 killed>>

(* The second call of runqueue_cancel begins its loop.                     *)
runqueue_cancel_active ==
  /\ In("thenActive")
  /\ stack' = Push(Call("eachActive", First(active)), Pop)
  /\ UNCHANGED <<lists, flags, running_tasks, stopped, empty, timer, timeout, proc,
                 calls, direct, killed>>

(* A turn of safe_list_for_each: the iterator goes to the element behind   *)
(* cur before __runqueue_cancel is called with cur.                        *)
safe_list_for_each ==
  /\ In("eachPending") \/ In("eachActive")
  /\ LET cur == stack[1].task
         list == IF In("eachPending") THEN inactive ELSE active
     IN  IF cur = End
           THEN /\ stack' = Pop
                /\ UNCHANGED <<lists, flags, running_tasks, timeout>>
           ELSE task_cancel(cur, Push(Call(stack[1].at, NextIn(list, cur)), Pop))
  /\ UNCHANGED <<stopped, empty, timer, proc, calls, direct, killed>>

(* runqueue_kill: kill the first active task, as long as there is one ...  *)
kill_active ==
  /\ In("killAll")
  /\ IF active # <<>>
       THEN task_kill(active[1], stack)
       ELSE /\ stack' = Push(Call("eachPending", First(inactive)),
                             Push(Call("killEnd", End), Pop))
            /\ UNCHANGED <<lists, flags, running_tasks, timeout>>
  /\ UNCHANGED <<stopped, empty, timer, proc, calls, direct, killed>>

(* ... then, the pending ones cancelled, the queue's own timer is stopped. *)
kill_ends ==
  /\ In("killEnd")
  /\ stack' = Pop
  /\ timer' = "none"
  /\ killed' = TRUE
  /\ UNCHANGED <<lists, flags, running_tasks, stopped, empty, timeout, proc, calls,
                 direct>>

-----------------------------------------------------------------------------
(***************************************************************************)
(* Events, from uloop                                                      *)
(***************************************************************************)
queue_timer ==
  /\ stack = <<>>
  /\ timer # "none"
  /\ timer' = "none"
  /\ stack' = <<Call(timer, End)>>
  /\ UNCHANGED <<lists, flags, running_tasks, stopped, empty, timeout, proc, calls,
                 direct, killed>>

(* Mutant: a task that ignores its cancellation is cancelled again.        *)
timeout_cancels(t) ==
  /\ stack = <<>> /\ timeout[t]
  /\ Cancel(t, <<>>, FALSE)
  /\ UNCHANGED <<stopped, empty, timer, proc, calls, direct, killed>>

(* A timeout is not pending any more when its callback runs: the first     *)
(* cancels the task, one after that kills it.                              *)
__runqueue_task_timeout(t) ==
  /\ stack = <<>>
  /\ timeout[t]
  /\ IF cancelled[t] THEN task_kill(t, <<>>) ELSE Cancel(t, <<>>, FALSE)
  /\ UNCHANGED <<stopped, empty, timer, proc, calls, direct, killed>>

(* The child process ends: uloop watches it no longer and tells the queue. *)
__runqueue_proc_cb(t) ==
  /\ stack = <<>>
  /\ proc[t]
  /\ proc' = [proc EXCEPT ![t] = FALSE]
  /\ task_complete(t, <<>>)
  /\ UNCHANGED <<stopped, empty, timer, calls, direct, killed>>

(* A task that is no child process ends by itself.                         *)
task_ends(t) ==
  /\ stack = <<>>
  /\ running[t] /\ ~proc[t]
  /\ task_complete(t, <<>>)
  /\ UNCHANGED <<stopped, empty, timer, proc, calls, direct, killed>>

-----------------------------------------------------------------------------
UserStep ==
  \/ \E t \in Task, run, first \in BOOLEAN : runqueue_task_add(t, run, first)
  \/ \E t \in Task : \/ runqueue_process_add(t)
                     \/ runqueue_task_complete(t)
                     \/ runqueue_task_cancel(t)
                     \/ runqueue_task_kill(t)
  \/ runqueue_cancel \/ runqueue_kill \/ runqueue_stop \/ runqueue_resume

(* What is in progress goes on, unless the user calls first.               *)
QueueStep ==
  \/ callback_returns \/ complete_returns \/ kill_callback
  \/ __runqueue_start_next \/ start_next_ends
  \/ runqueue_cancel_active \/ safe_list_for_each \/ kill_active \/ kill_ends

Event ==
  \/ queue_timer
  \/ \E t \in Task : __runqueue_task_timeout(t) \/ __runqueue_proc_cb(t) \/ task_ends(t)

Next == UserStep \/ QueueStep \/ Event

Spec == Init /\ [][Next]_vars

(* Callbacks return, and uloop fires the timers that are set.  No task has *)
(* to end by itself.                                                       *)
FairSpec ==
  /\ Spec
  /\ WF_vars(QueueStep)
  /\ WF_vars(queue_timer)
  /\ \A t \in Task : WF_vars(__runqueue_task_timeout(t))

-----------------------------------------------------------------------------
(* The variables have their types; running_tasks is never counted below    *)
(* zero.                                                                   *)
TypeOK ==
  /\ active \in Seq(Task) /\ inactive \in Seq(Task)
  /\ running_tasks \in Nat /\ stopped \in BOOLEAN /\ empty \in BOOLEAN
  /\ timer \in {"none", "start", "empty"}
  /\ queued \in [Task -> BOOLEAN] /\ running \in [Task -> BOOLEAN]
  /\ cancelled \in [Task -> BOOLEAN] /\ timeout \in [Task -> BOOLEAN]
  /\ proc \in [Task -> BOOLEAN]
  /\ stack \in Seq(Frame)
  /\ calls \in Nat /\ direct \subseteq Task /\ killed \in BOOLEAN

Distinct(s) == \A m, n \in 1..Len(s) : s[m] = s[n] => m = n

(* A task is in tasks_active exactly while it is running, in               *)
(* tasks_inactive exactly while it is queued and not running, and in       *)
(* neither twice; running_tasks counts the running ones.                   *)
ListsMatch ==
  /\ Distinct(active) /\ Distinct(inactive)
  /\ \A t \in Task : /\ t \in Elements(active) <=> running[t]
                     /\ t \in Elements(inactive) <=> queued[t] /\ ~running[t]
                     /\ running[t] => queued[t]
  /\ running_tasks = Len(active)

(* A timeout is pending, and a cancellation under way, only for a task     *)
(* that is running: none outlives runqueue_task_complete to hit the next   *)
(* use of the task.                                                        *)
TimersOnRunning == \A t \in Task : timeout[t] \/ cancelled[t] => running[t]

(* An iteration of safe_list_for_each stands on an element of its list or  *)
(* at its end, whatever the callbacks delete, move or add meanwhile.       *)
IteratorsValid ==
  \A n \in 1..Len(stack) :
    /\ stack[n].at = "eachPending" => stack[n].task \in Elements(inactive) \union {End}
    /\ stack[n].at = "eachActive" => stack[n].task \in Elements(active) \union {End}

(* __runqueue_start_next never brings the tasks it started above           *)
(* max_running_tasks; only tasks added as running come on top.             *)
LimitKept ==
  MaxRunning > 0 => Cardinality({t \in Task : running[t]} \ direct) <= MaxRunning

(* Between events a task that may start has the queue's timer set to start *)
(* it: no order of completions, stops and resumes forgets a pending task.  *)
(* The exception is a task added in a callback of runqueue_kill.           *)
NoStall == stack = <<>> /\ MayStart /\ Room => timer = "start" \/ killed

(* The queue takes itself for empty, and the empty callback is on its way  *)
(* or at work on arrival, only when no task is queued.                     *)
EmptyIsEmpty == empty \/ timer = "empty" => \A t \in Task : ~queued[t]

(* A task that the queue started and that has both timeouts ends, even if  *)
(* it never calls runqueue_task_complete and ignores its cancel callback.  *)
TimeoutEnds ==
  \A t \in RunTimeout \intersect CancelTimeout :
    running[t] /\ t \notin direct ~> ~running[t] \/ t \in direct

(* A pending task is started or removed, unless the queue is stopped or    *)
(* killed, or a task that no timeout ends holds its place.                 *)
PendingServed ==
  \A t \in Task :
    queued[t] /\ ~running[t] ~>
      \/ ~queued[t] \/ running[t] \/ stopped \/ killed
      \/ \E u \in Task : running[u] /\ ~timeout[u]
=============================================================================
