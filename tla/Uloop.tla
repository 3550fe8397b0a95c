--------------------------------- MODULE Uloop ---------------------------------
(***************************************************************************)
(* The event loop of libubox (uloop.c, with epoll): descriptors, their     *)
(* callbacks and the children that end.  UloopTimeouts has the timeouts.   *)
(*                                                                         *)
(* A callback may register and delete descriptors, its own included, and   *)
(* call uloop_run again: the loops share one batch of fetched events.      *)
(* stack holds the loops and callbacks in progress, innermost first; the   *)
(* fd_stack of the code is its sequence of callbacks of descriptors.       *)
(* Signals come between any two steps.                                     *)
(***************************************************************************)
EXTENDS Integers, Sequences

CONSTANTS
  Fd,         \* the descriptors
  NoFd,       \* NULL
  ErrorCb,    \* the descriptors with ULOOP_ERROR_CB
  Child,      \* the child processes
  MaxBatch,   \* ULOOP_MAX_EVENTS
  MaxCalls,   \* bound: how many calls the user makes
  MaxDepth    \* bound: how many loops and callbacks are in progress when the
              \* user calls uloop_run

ASSUME UloopAssumption ==
  /\ NoFd \notin Fd /\ ErrorCb \subseteq Fd
  /\ MaxBatch \in Nat \ {0} /\ MaxCalls \in Nat /\ MaxDepth \in Nat

VARIABLES
  registered,   \* the registered descriptors
  edge,         \* those with ULOOP_EDGE_TRIGGER in their flags
  pend,         \* the kernel: the edges it has not reported
  batch,        \* the rest of cur_fds: a descriptor or NULL, and its events
  stack,        \* the loops and callbacks in progress, innermost first
  cancelled,    \* uloop_cancelled
  do_sigchld,
  child,        \* of each child: alive, zombie (ended) or reaped
  watched,      \* the children in the list processes
  calls,        \* how many calls the user made
  gone,         \* history: descriptors the user deleted and did not add again
  switched,     \* history: those whose trigger changed in their own callback
  loose,        \* history: those with a callback in progress, that began or
                \* were since then level-triggered, or deleted
  due,          \* history: edges reported that no callback answered yet
  missed,       \* history: children that ended when no loop was running
  ended         \* history: the user called uloop_end, and no loop was reaping

fds == <<registered, edge, pend>>
signals == <<do_sigchld, child, missed>>
vars == <<registered, edge, pend, batch, stack, cancelled, do_sigchld, child, watched,
          calls, gone, switched, loose, due, missed, ended>>

(* Where a call is: uloop_run runs the expired timeouts, looks at the      *)
(* signals, reaps children, goes to fetch events, waits for them, or runs  *)
(* their callbacks; or it is a callback, of a descriptor, a timeout or a   *)
(* child.                                                                  *)
Loops == {"top", "timeouts", "reap", "fetch", "poll", "events"}
Callbacks == {"fd", "timer", "child"}

(* Of a callback of a descriptor: stack_cur.fd is set, and stack_cur.events*)
(* is not zero.                                                            *)
Frame == [at : Loops \union Callbacks, fd : Fd \union {NoFd}, live : BOOLEAN,
          more : BOOLEAN]
Event == [fd : Fd \union {NoFd}, io : BOOLEAN]

Call(a) == [at |-> a, fd |-> NoFd, live |-> FALSE, more |-> FALSE]
Push(f) == <<f>> \o stack
In(a) == stack # <<>> /\ stack[1].at = a
User == stack # <<>> => stack[1].at \in Callbacks

(* The innermost call goes to place a.                                     *)
Goto(a) == [stack EXCEPT ![1] = Call(a)]

(* Descriptors are registered, children watched, and uloop_run is called.  *)
Init ==
  /\ registered = Fd /\ edge \in SUBSET Fd
  /\ pend = {} /\ batch = <<>> /\ stack = <<Call("top")>>
  /\ cancelled = FALSE /\ do_sigchld = FALSE
  /\ child = [c \in Child |-> "alive"] /\ watched = Child
  /\ calls = 0
  /\ gone = {} /\ switched = {} /\ loose = {} /\ due = {} /\ missed = {} /\ ended = FALSE

-----------------------------------------------------------------------------
(***************************************************************************)
(* Descriptors                                                             *)
(***************************************************************************)

(* The callbacks of f in progress.  History: those of F that have one are  *)
(* no longer kept from being called again.                                 *)
InProgress(f) == {n \in 1..Len(stack) : stack[n].at = "fd" /\ stack[n].fd = f}
Loosened(F) == loose \union {f \in F : InProgress(f) # {}}

(* The callbacks of f in progress whose entry on fd_stack names it.        *)
OnStack(f) == {n \in 1..Len(stack) : stack[n].at = "fd" /\ stack[n].fd = f /\ stack[n].live}
Innermost(n) == n \in OnStack(stack[n].fd) /\ \A m \in OnStack(stack[n].fd) : n <= m

(* uloop_fd_stack_event(f, -1), for each f of F: the callback of an edge-  *)
(* triggered descriptor forgets it.                                        *)
stack_forget(F) ==
  [n \in 1..Len(stack) |->
     IF stack[n].fd \in F \intersect edge /\ Innermost(n)
       THEN [stack[n] EXCEPT !.live = FALSE] ELSE stack[n]]

(* Mutant: nothing is buffered.                                            *)
buffer_nothing(f, io) == stack

(* uloop_fd_stack_event(f, events): the callback will be called again.     *)
stack_buffer(f, io) ==
  [n \in 1..Len(stack) |->
     IF stack[n].fd = f /\ Innermost(n)
       THEN [stack[n] EXCEPT !.more = @ \/ io] ELSE stack[n]]

(* Mutant: the events of the batch stay.                                   *)
batch_keep(f) == batch

(* The events of f in the batch become NULL.                               *)
batch_delete(f) ==
  [n \in 1..Len(batch) |->
     IF batch[n].fd = f THEN [batch[n] EXCEPT !.fd = NoFd] ELSE batch[n]]

UserCall == User /\ calls < MaxCalls /\ calls' = calls + 1

(* register_poll sets the flags; epoll_ctl may fail.  If it does not, the  *)
(* kernel reports an edge at once when the descriptor is ready.            *)
register_poll(f, trigger) ==
  /\ edge' = IF trigger THEN edge \union {f} ELSE edge \ {f}
  /\ due' = IF trigger THEN due ELSE due \ {f}
  /\ switched' = IF OnStack(f) # {} /\ (f \in edge) # trigger
                   THEN switched \union {f} ELSE switched
  /\ loose' = IF (f \in edge) # trigger THEN Loosened({f}) ELSE loose

uloop_fd_add(f, trigger) ==
  /\ UserCall
  /\ register_poll(f, trigger)
  /\ \/ /\ registered' = registered \union {f}
        /\ pend' \in {pend \ {f}, IF trigger THEN pend \union {f} ELSE pend \ {f}}
        /\ gone' = gone \ {f}
     \/ UNCHANGED <<registered, pend, gone>>
  /\ UNCHANGED <<batch, stack, cancelled, signals, watched, ended>>

uloop_fd_delete(f) ==
  /\ UserCall
  /\ batch' = batch_delete(f)
  /\ IF f \in registered
       THEN /\ stack' = stack_forget({f})
            /\ edge' = edge \ {f}
            /\ loose' = Loosened({f})
       ELSE UNCHANGED <<stack, edge, loose>>
  /\ registered' = registered \ {f} /\ pend' = pend \ {f}
  /\ gone' = gone \union {f} /\ due' = due \ {f}
  /\ UNCHANGED <<cancelled, signals, watched, switched, ended>>

(* Data arrives at an edge-triggered descriptor.  A level-triggered one is *)
(* ready whenever the kernel likes.                                        *)
Arrives(f) ==
  /\ f \in registered \intersect edge /\ f \notin pend
  /\ pend' = pend \union {f}
  /\ UNCHANGED <<registered, edge, batch, stack, cancelled, signals, watched, calls,
                 gone, switched, loose, due, ended>>

-----------------------------------------------------------------------------
(***************************************************************************)
(* Children, signals, and the other calls of the user                      *)
(***************************************************************************)
uloop_process_add(c) ==
  /\ UserCall /\ c \notin watched
  /\ watched' = watched \union {c}
  /\ UNCHANGED <<fds, batch, stack, cancelled, signals, gone, switched, loose, due, ended>>

uloop_process_delete(c) ==
  /\ UserCall /\ c \in watched
  /\ watched' = watched \ {c}
  /\ UNCHANGED <<fds, batch, stack, cancelled, signals, gone, switched, loose, due, ended>>

Reaping == \E n \in 1..Len(stack) : stack[n].at = "reap"

uloop_end ==
  /\ UserCall
  /\ cancelled' = TRUE /\ ended' = (ended \/ (stack # <<>> /\ ~Reaping))
  /\ UNCHANGED <<fds, batch, stack, signals, watched, gone, switched, loose, due>>

uloop_run ==
  /\ UserCall /\ Len(stack) <= MaxDepth
  /\ stack' = Push(Call("top"))
  /\ UNCHANGED <<fds, batch, cancelled, signals, watched, gone, switched, loose, due, ended>>

(* A signal ends epoll_wait.                                               *)
Interrupted == IF In("poll") THEN Goto("top") ELSE stack

(* A child ends.  The handler uloop_sigchld is there while a loop runs.    *)
uloop_sigchld(c) ==
  /\ child[c] = "alive"
  /\ child' = [child EXCEPT ![c] = "zombie"]
  /\ do_sigchld' = (do_sigchld \/ stack # <<>>)
  /\ missed' = IF stack = <<>> THEN missed \union {c} ELSE missed
  /\ stack' = Interrupted
  /\ UNCHANGED <<fds, batch, cancelled, watched, calls, gone, switched, loose, due, ended>>

uloop_handle_sigint ==
  /\ stack # <<>> /\ ~cancelled
  /\ cancelled' = TRUE
  /\ stack' = Interrupted
  /\ UNCHANGED <<fds, batch, signals, watched, calls, gone, switched, loose, due, ended>>

-----------------------------------------------------------------------------
(***************************************************************************)
(* The loop                                                                *)
(***************************************************************************)
loop_top ==
  /\ In("top")
  /\ stack' = IF cancelled THEN Tail(stack) ELSE Goto("timeouts")
  /\ UNCHANGED <<fds, batch, cancelled, signals, watched, calls, gone, switched, loose, due, ended>>

(* A timeout expired: its callback.                                        *)
uloop_process_timeouts ==
  /\ In("timeouts") /\ calls < MaxCalls
  /\ calls' = calls + 1
  /\ stack' = Push(Call("timer"))
  /\ UNCHANGED <<fds, batch, cancelled, signals, watched, gone, switched, loose, due, ended>>

(* Mutant: the loop does not look whether a timeout ended it.              *)
timeouts_go_on ==
  /\ In("timeouts")
  /\ stack' = Goto(IF do_sigchld THEN "reap" ELSE "fetch")
  /\ do_sigchld' = FALSE
  /\ UNCHANGED <<fds, batch, cancelled, child, missed, watched, calls, gone, switched, loose, due,
                 ended>>

(* No timeout is left: uloop_handle_processes clears do_sigchld before it  *)
(* waits for the children.                                                 *)
timeouts_done ==
  /\ In("timeouts")
  /\ stack' = IF cancelled THEN Tail(stack)
              ELSE Goto(IF do_sigchld THEN "reap" ELSE "fetch")
  /\ do_sigchld' = (do_sigchld /\ cancelled)
  /\ UNCHANGED <<fds, batch, cancelled, child, missed, watched, calls, gone, switched, loose, due,
                 ended>>

(* Mutant: one child is reaped for each signal.                            *)
reap_one(c) ==
  /\ In("reap") /\ child[c] = "zombie"
  /\ child' = [child EXCEPT ![c] = "reaped"]
  /\ watched' = watched \ {c}
  /\ stack' = IF c \in watched THEN <<Call("child")>> \o Goto("fetch") ELSE Goto("fetch")
  /\ UNCHANGED <<fds, batch, cancelled, do_sigchld, missed, calls, gone, switched, loose, due, ended>>

(* waitpid returns a child: its callback is called if it is watched.       *)
uloop_handle_processes(c) ==
  /\ In("reap") /\ child[c] = "zombie"
  /\ child' = [child EXCEPT ![c] = "reaped"]
  /\ watched' = watched \ {c}
  /\ stack' = IF c \in watched THEN Push(Call("child")) ELSE stack
  /\ UNCHANGED <<fds, batch, cancelled, do_sigchld, missed, calls, gone, switched, loose, due, ended>>

all_reaped ==
  /\ In("reap") /\ \A c \in Child : child[c] # "zombie"
  /\ stack' = Goto("fetch")
  /\ UNCHANGED <<fds, batch, cancelled, signals, watched, calls, gone, switched, loose, due, ended>>

(* uloop_run_events: a batch that is not empty is not fetched again.       *)
uloop_run_events ==
  /\ In("fetch")
  /\ stack' = Goto(IF batch = <<>> THEN "poll" ELSE "events")
  /\ UNCHANGED <<fds, batch, cancelled, signals, watched, calls, gone, switched, loose, due, ended>>

(* What epoll_wait may report: io is EPOLLIN or EPOLLOUT, err EPOLLERR or  *)
(* EPOLLHUP.  Neither is a lone EPOLLRDHUP.                                *)
Ready == {f \in registered : f \in edge => f \in pend}
Reports ==
  UNION {[1..n -> [fd : Ready, io : BOOLEAN, err : BOOLEAN]] : n \in 0..MaxBatch}

(* A failed descriptor is deleted, unless it has ULOOP_ERROR_CB.  Its      *)
(* event stays: cur_nfds is still zero, and its callback is told.          *)
uloop_fetch_events(r) ==
  LET Told == {r[n].fd : n \in DOMAIN r}
      Failed == {r[n].fd : n \in {m \in DOMAIN r : r[m].err}} \ ErrorCb
      Io == {r[n].fd : n \in {m \in DOMAIN r : r[m].io}}
  IN /\ In("poll") /\ \A m, n \in DOMAIN r : r[m].fd = r[n].fd => m = n
     /\ batch' = [n \in DOMAIN r |-> [fd |-> r[n].fd, io |-> r[n].io]]
     /\ registered' = registered \ Failed /\ edge' = edge \ Failed
     /\ pend' = pend \ Told
     /\ stack' = [stack_forget(Failed) EXCEPT ![1] =
                    Call(IF r = <<>> THEN "top" ELSE "events")]
     /\ due' = (due \union (Io \intersect edge)) \ Failed
     /\ loose' = Loosened(Failed)
     /\ UNCHANGED <<cancelled, signals, watched, calls, gone, switched, ended>>

Callback(f) == [at |-> "fd", fd |-> f, live |-> TRUE, more |-> FALSE]

(* Mutants: the callback is called although it is in progress; or NULL is  *)
(* not skipped.                                                            *)
event_reenters ==
  /\ In("events") /\ batch # <<>> /\ batch[1].fd # NoFd
  /\ stack' = <<Callback(batch[1].fd)>> \o Goto("top")
  /\ due' = due \ {batch[1].fd}
  /\ loose' = IF batch[1].fd \in edge THEN loose ELSE loose \union {batch[1].fd}
  /\ batch' = Tail(batch)
  /\ UNCHANGED <<fds, cancelled, signals, watched, calls, gone, switched, ended>>
event_null ==
  /\ In("events") /\ batch # <<>>
  /\ LET f == batch[1].fd
     IN /\ ~(f \in edge /\ OnStack(f) # {})
        /\ stack' = <<Callback(f)>> \o Goto("top")
        /\ due' = due \ {f}
        /\ loose' = IF f \in edge THEN loose ELSE loose \union {f}
  /\ batch' = Tail(batch)
  /\ UNCHANGED <<fds, cancelled, signals, watched, calls, gone, switched, ended>>

(* The next event: an edge of a descriptor whose callback is in progress   *)
(* is buffered.                                                            *)
event_skipped ==
  /\ In("events") /\ batch # <<>>
  /\ LET f == batch[1].fd
     IN /\ f # NoFd => f \in edge /\ OnStack(f) # {}
        /\ stack' = IF f = NoFd THEN stack ELSE stack_buffer(f, batch[1].io)
  /\ batch' = Tail(batch)
  /\ UNCHANGED <<fds, cancelled, signals, watched, calls, gone, switched, loose, due, ended>>

(* Otherwise its callback is called.  uloop_run_events returns after it.   *)
event_calls ==
  /\ In("events") /\ batch # <<>>
  /\ LET f == batch[1].fd
     IN /\ f # NoFd /\ ~(f \in edge /\ OnStack(f) # {})
        /\ stack' = <<Callback(f)>> \o Goto("top")
        /\ due' = due \ {f}
        /\ loose' = IF f \in edge THEN loose ELSE loose \union {f}
  /\ batch' = Tail(batch)
  /\ UNCHANGED <<fds, cancelled, signals, watched, calls, gone, switched, ended>>

events_done ==
  /\ In("events") /\ batch = <<>>
  /\ stack' = Goto("top")
  /\ UNCHANGED <<fds, batch, cancelled, signals, watched, calls, gone, switched, loose, due, ended>>

(* A callback returns: it is called again if an event was buffered.        *)
callback_returns ==
  /\ User /\ stack # <<>>
  /\ IF stack[1].live /\ stack[1].more
       THEN /\ stack' = [stack EXCEPT ![1].more = FALSE]
            /\ due' = due \ {stack[1].fd}
            /\ UNCHANGED loose
       ELSE /\ stack' = Tail(stack)
            /\ loose' = {f \in loose : InProgress(f) # {1}}
            /\ UNCHANGED due
  /\ UNCHANGED <<fds, batch, cancelled, signals, watched, calls, gone, switched, ended>>

-----------------------------------------------------------------------------
Next ==
  \/ \E f \in Fd : \/ uloop_fd_delete(f) \/ Arrives(f)
                   \/ \E trigger \in BOOLEAN : uloop_fd_add(f, trigger)
  \/ \E c \in Child : \/ uloop_process_add(c) \/ uloop_process_delete(c)
                      \/ uloop_sigchld(c) \/ uloop_handle_processes(c)
  \/ uloop_end \/ uloop_run \/ uloop_handle_sigint
  \/ loop_top \/ uloop_process_timeouts \/ timeouts_done \/ all_reaped
  \/ uloop_run_events \/ \E r \in Reports : uloop_fetch_events(r)
  \/ event_skipped \/ event_calls \/ events_done \/ callback_returns

Spec == Init /\ [][Next]_vars

-----------------------------------------------------------------------------
(* The variables have their types.  A callback of a descriptor, and only   *)
(* that, has its descriptor: a NULL of the batch is never called.          *)
TypeOK ==
  /\ registered \subseteq Fd /\ edge \subseteq Fd /\ pend \subseteq Fd
  /\ batch \in Seq(Event) /\ Len(batch) <= MaxBatch
  /\ stack \in Seq(Frame)
  /\ \A n \in 1..Len(stack) : (stack[n].fd = NoFd) <=> (stack[n].at # "fd")
  /\ cancelled \in BOOLEAN /\ do_sigchld \in BOOLEAN /\ ended \in BOOLEAN
  /\ child \in [Child -> {"alive", "zombie", "reaped"}] /\ watched \subseteq Child
  /\ calls \in 0..MaxCalls
  /\ gone \subseteq Fd /\ switched \subseteq Fd /\ loose \subseteq Fd /\ due \subseteq Fd
  /\ missed \subseteq Child

(* Once the user has deleted a descriptor, and until it is added again, no *)
(* event of it is in the batch that the loops share and no callback of it  *)
(* will be called again, however many loops are nested.  Excepted is a     *)
(* descriptor whose trigger was changed while its callback was in progress.*)
DeletedIsSilent ==
  \A f \in gone \ switched :
    /\ \A n \in 1..Len(batch) : batch[n].fd # f
    /\ \A n \in OnStack(f) : ~stack[n].more

(* The callback of an edge-triggered descriptor is not called again by a   *)
(* nested loop, at any depth, while it is in progress and the descriptor   *)
(* stays registered with that trigger.  It may be if the user deletes the  *)
(* descriptor, adds it with the other trigger, or if the inner loop meets  *)
(* an error of it and deletes it (uloop_fetch_events): the events still    *)
(* there or to come then call the callback that is in progress.            *)
NoReentry ==
  \A f \in Fd \ loose : \A m, n \in InProgress(f) : m = n

(* An edge that the kernel reported, and will not report again, waits in   *)
(* the batch or in the entry of a callback in progress until a callback of *)
(* the descriptor is called.                                               *)
NoLostEdge ==
  \A f \in (due \intersect edge) \ switched :
    \/ \E n \in 1..Len(batch) : batch[n].fd = f /\ batch[n].io
    \/ \E n \in OnStack(f) : stack[n].more

(* A child that ended while a loop was running is not forgotten: SIGCHLD   *)
(* is still to be looked at, or a loop in progress still reaps children.   *)
SignalKept ==
  \A c \in Child : child[c] = "zombie" /\ c \notin missed =>
    do_sigchld \/ Reaping

(* After uloop_end no loop in progress reaps children, waits for events or *)
(* takes one from the batch, whichever callback called it and however many *)
(* loops are nested: each goes on to its next look at uloop_cancelled.     *)
(* Excepted is a call from within the reaping of children: that loop still *)
(* waits for events, or takes one, before it looks.                        *)
EndStops ==
  ended => \A n \in 1..Len(stack) : stack[n].at \notin {"reap", "fetch", "poll", "events"}
===============================================================================
