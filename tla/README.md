# Verification of the UCI store, the run queue, the event loop and the projector scripts

TLA+ specifications of the stateful parts of this repository, model-checked with TLC
and proved with TLAPS. `PROJECT.json` is the machine-readable index: components, runs,
mutants, the map from definitions to source lines, findings, hazards and theorems.

## Inventory of the repository

| Part | Source | State | Operations | What makes it hard |
|---|---|---|---|---|
| UCI store | `src/sample_code/libuci/{file,delta,util,libuci}.c` | config file, delta file, their flocks, temporary file; per process the package, its unsaved changes, `has_delta` | load, save, commit, revert, unload, import | several processes on the same two files; crashes between truncation and rename; errors that are trapped and ignored |
| UCI package tree | `libuci/list.h`, `delta.c` | sections, options, lists, anonymous names | set, add, add_list, del_list, rename, delete, reorder; replay of delta lines | a replay must do what the call did, on a package that others changed |
| UCI text format | `libuci/{file,util}.c` | parser context | import, export | quoting, multi-line values |
| Command line | `src/sample_code/uci_app/cli.c` | one context | one or several commands (batch) | the order of store calls |
| Run queue | `src/sample_code/libubox/{runqueue,safe_list}.c` | two lists, a counter, timers, flags | add, start, complete, cancel, kill, stop, resume | callbacks that call back; timeouts racing completions |
| Event loop | `libubox/uloop.c` | descriptors, fetched events, sorted timers, children | add, delete, run, signals | events that outlive their descriptor; nested loops |
| Streams | `libubox/ustream*.c` | buffer lists, flags | write, flush, read, consume | limits, errors, end of file |
| Versioned list, AVL tree | `libubox/{vlist,avl}.c` | ordered map with versions | add, delete, update, flush | flush against callbacks |
| Blob, JSON, md5, sockets, logs | `libubox/*` | buffers | encode, decode | sizes |
| Projector scripts | `src/sample_code/shell/amPjmConfigAccess.sh`, `applyConfigToSystem.sh` | lock file, config file | save, load | check-then-create lock, stale lock |
| LCD samples, exercises | `src/lcd_16x2`, `src/sample_code/{daemon,mmap,...}` | none shared | run once | nothing |
| Set-up scripts | `src/my_*/setup.sh` | none | install | nothing |
| U-Boot, root file system | `src/my_mini_pi` | third party, build output | | |

Correctness that matters, for the store: a saved change is neither lost nor applied
twice; the config file is always a complete one; a load sees what was saved; a revert
is final; no call waits for ever; the calls look atomic.

## Modules

| Module | Models | Proofs |
|---|---|---|
| `UciStore`, `UciAtomic` | the files of the store, step by step, and the one-step calls they implement | `UciStoreProofs` with `UciStoreFrame` |
| `UciPackage` | the package tree, the delta lines, replay, export and import | `UciPackageProofs` |
| `PjmConfig` | `amPjmConfigAccess.sh` | `PjmConfigProofs` |
| `Runqueue` | `runqueue.c` and the iterators of `safe_list.c` | `RunqueueProofs` |
| `UloopTimeouts` | the timeouts of `uloop.c` and the clock | `UloopTimeoutsProofs` |
| `Uloop` | descriptors, nested loops, children and signals of `uloop.c` | `UloopProofs` |

`MC<Module>` instantiates `<Module>` for TLC; each `.cfg` is one run. `UciStore` and
`UciPackage` are two views of one store: the first has the steps and the files and takes
a change for an opaque value, the second has what a change does and takes load, save and
commit for single steps, which `UciAtomic` says they are outside the windows.

## The UCI store

### How it works

A package lives in `<confdir>/<name>`; saved but uncommitted changes are lines in
`<savedir>/<name>`, the delta file. `uci_load` locks and imports the first, then applies
the second. `uci_save` appends a process's own changes to the delta file. `uci_commit`
locks the config file, saves its own changes, imports the file again, applies the
delta, truncates it, exports to a temporary file, unlocks and renames. `uci_revert`
saves, unloads, rewrites the delta file without the reverted changes and loads again.

### The model

`UciStore` follows the calls step by step. The config file is an inode, because rename
replaces it while others have it open: `file` is the sequence of inodes ever created,
`cfg` the one the path names, `fd[p]` and `mode[p]` what process `p` has open and
locked. `delta` is the content of the delta file. `pkg`, `own`, `tracked`, `changes`,
`tmp`, `list` are the memory of a process: the package, `p->delta`, `p->has_delta`, the
count of `uci_load_delta` (zero or not), the temporary file to be renamed, the list of
`uci_filter_delta`. `pc[p]` is the place in the call. Actions have the names of the
functions whose steps they are, and each is one access to a file that another process
can see, with all the memory updates that go with it; error paths are the actions
named `_fails`. `Crash` kills a process at any step.

A change is an opaque value and a package the set of changes applied to it. That keeps
what the properties distinguish (is this change here, there, twice, nowhere) and leaves
out what a change does. `Rejected` are changes whose line no longer parses or applies: a
load skips such a line, while the filter of a revert is abandoned at it and the delta file
left as it was (`delta.c:371`), which is also what a failing read or write does to it.

The history variables `saved`, `reverted`, `replaced` say what should be there. `hit`
is set by a step taken in one of the three *windows*, which are defined once:
`ReadNotTruncated` (another process has read the delta file and not yet truncated it),
`NotTheConfig` (the opened inode is not, or is about not to be, the config file) and
`HoldsFlushed` (a process dies or fails with flushed changes only in memory).

Abstracted or left out: what changes do to sections and options (`UciPackage`); a delta line half
written when a process dies; `mktemp` name collisions; packages given by a path
outside `confdir`; `uci_commit` with `overwrite` on a loaded package (no caller does
it); a merging import (it is a series of changes and a save).

### Runs

| Run | Shows |
|---|---|
| `uci_store` | with crashes at any step: types, no torn config, nothing applied twice, changes lost only in the windows, reverts final, loads complete |
| `uci_store_faults` | with an overwriting import, failing calls and a full disk: no torn config, changes lost only in the windows, and outside the windows the calls implement `UciAtomic` |
| `uci_store_live` | every call returns, with an overlay and a delta file that can be read and not written |
| `uci_lost_change` | violation: a save between another's read and truncation of the delta file is lost |
| `uci_commit_lock` | violation: a commit can hold the lock of a replaced file |
| `uci_overlay` | violation: overlays are committed |

Bounds: two processes, since every window is a step of one process during the call of
another, and every lock conflict is between two; two or three changes, so that one can
be lost while another survives, plus one that is rejected, one in an overlay or one
imported; two or three calls per process, enough for load, change, commit and for a
revert or a second commit that meets the other process in any of its steps. Processes
are symmetric, and symmetry is used only in runs that check no liveness property.
Deadlock is not checked, because a behaviour ends when the calls are used up; that no
process is stuck inside a call is `EveryCallReturns`.

Fairness: `FairSpec` assumes weak fairness of the steps of each process that is inside
a call. The kernel runs a runnable process and grants a `flock` that nobody contests;
nothing is assumed of the beginning of calls or of crashes. Weak fairness suffices
because calls are bounded, so a lock cannot be taken away for ever.

### Proofs

`UciStoreProofs` proves, for every number of processes, changes, calls and every
combination of faults, from `StoreAssumption` alone:

- `TypeCorrect`: `Spec => []TypeOK`
- `NeverTorn`: `Spec => []ConfigNeverTorn`
- `AppliedOnce`: `Spec => []NoDoubleApply`
- `LostOnlyInWindows`: `Spec => []OnlyWindowsLose`
- `RevertedOut`: `Spec => []RevertedStaysOut`
- `LoadsSeeSaved`: `Spec => LoadSeesSaved`
- `AtomicCalls`: `Spec => CallsAreAtomic`, if the delta file can be written
  (`DeltaWritable`) and no overlay holds changes that apply (`NoOverlay`)

None of these is inductive. `IInv` adds what the code relies on without saying so:
the program counter fixes the locks and the memory (`PcInv`); temporary files are
complete and have one owner (`TmpInv`); an unsaved change is nowhere else (`FreshInv`);
what a file holds has left the delta (`OnceInv`); outside the windows one process
commits at a time, on the file the path names (`LockInv`), and holds all that it will
replace and truncate (`CarryInv`), nothing that was reverted (`RevertInv`) and nothing
else (`TakeInv`). For each
conjunct a lemma with one case per action speaks of the process that moves;
`Others` and `FileStep` (`UciStoreFrame`) say that it leaves the rest alone.

`AtomicCalls` is a refinement, step by step: `QuietOrNot` says that a step leaves the
config and the saved changes alone or saves, but for four actions, and `AtomicStep` shows
what these are in `UciAtomic`. The flush of a commit is its `Commit`: it is then that the
saved changes become those that some file or process holds for good. The rename is a
stuttering step, or the `Import`. The filter of a revert is its `Revert`. `CarryInv` and
`TakeInv` together say that the committing process has the config file and the accepted
saved changes, no less and no more. The two conditions are those under which the run
`uci_store_faults` checks it: with an overlay the commit takes that too (see the
findings), and a delta file that cannot be truncated is committed and stays.

Only model-checked: `EveryCallReturns` (liveness is outside the prover).

### Findings

- A commit reads the delta file, closes it and opens it again to truncate it. A change
  saved in between is lost (`delta.c:337`).
- The config file is unlocked before the rename and opened before its lock is granted,
  so two commits can overlap and the later undoes the earlier (`file.c:798`).
- Overlays are committed, against `uci.h:272` (`delta.c:326`).

## The UCI package tree

`UciPackage` has the tree of `list.h`: a sequence of sections with a type, a name, the
`anonymous` flag and a sequence of options, each a string or a list, and `n_section`.
`uci_set`, `uci_delete`, `uci_rename`, `uci_reorder_section`, `uci_add_list` and
`uci_del_list` are operators from trees to trees, because the code calls the same
functions for a user and for the replay of a line: `Effect` is their choice by command,
`Found` their lookup, `Recorded` and `uci_add_delta` what they put into `p->delta`.
`uci_parse_delta` takes the lines of a delta to a tree one by one and skips those it
rejects; `uci_export` and `uci_import` go from a tree to the sections of a file and back.
The loops are recursive functions (`Replayed`, `Listed`, `Parsed`, `Imported`), whose
value at k is the state after k turns. Actions:
the calls of a user (on a section found by place, `@type[index]`, or a new one),
`uci_save`, `uci_load` (of an unloaded package) and `uci_commit`.

An unnamed section is named `cfg%02x%04x` by the number of sections so far and a hash.
Import and `uci_add_section` name it before it has options, so the hash is one of its
type: the model's name is the pair of both. `uci_export` leaves such a name out and the
next import gives a new one. A repeated section of another type makes an import fail
(`UCI_FLAG_STRICT`, the default): the package is `Gone`.

Histories: `id` tells sections apart whatever they are called; `base` is the package
before the unsaved changes; `odd` are processes that met two sections of one name or
used a name that does not validate (`uci_rename` checks neither, replay does);
`astray` says that changes were saved by one of those, or from a package that was not
what a load would have given.

The run `uci_package` checks:

- `ReplayAgrees`: the lines that a process recorded, replayed on the package it had
  before them, give the package it has, unless it is odd. A commit does just that replay.
- `LinesLand`: unless changes went astray, every line of the delta file is accepted and
  changes the section that its call changed, however it is called by now.
- `FileReadsBack`: what is exported is imported as it was, names that clash excepted.

The exceptions are real. `list.h:159` says of generated names that they come "from a hash
of its type and name/value pairs of its option" and that "if the order of the unnamed
sections changes for some reason, updates to them will be rejected". The hash has no
options in it, so an update is not rejected: without `~astray`, TLC finds that one process
moves an unnamed section and commits, another that loaded before removes the third
section, and the line removes a different section of that type. Two processes that
each add a section give both one name, and the second line updates the section of the
first. And a section that is renamed to the name of one of another type is committed to
a file that no load can read.

Bounds: two processes; two recorded changes, one by each or both by one; two files to
begin with, one with two unnamed sections, a string and a list, one with a named section
of another type between two unnamed ones; two types, three names of which one does not
validate, two values, positions 0 to 2. 130,000 states. Longer sequences of changes are
left to the proofs below. Left out: reverting single lines, empty values (a removal), and
the merging import.

`UciPackageProofs` proves all four, for any processes, types, names, values, positions and
number of calls, and any config files to begin with that can be read: their sections have
their types, one is unnamed just if it has no name, and every option has a value
(`PackageAssumption`, which also says that NULL is not a name):

- `TypeCorrect`: `Spec => []TypeOK`
- `ReplayIsFaithful`: `Spec => []ReplayAgrees`
- `EveryLineLands`: `Spec => []LinesLand`
- `CommitReadsBack`: `Spec => []FileReadsBack`

The inductive invariant is `IInv`, which the run was also made with (`Invariance`).
`ReplayAgrees` alone is not inductive: that a new line does to the replayed tree what its
call did to the package needs the line to find the section that the call was given by
place. So `Agrees` says, of a process that is not odd, that no two of its sections have
one name and that its unsaved lines land (`Lands`) on its `base`; then the line names that
section and no other (`LookupOnly`), the tree of the replay is the package, and both
take one and the same `Effect` (`SameEffect`). A call that records nothing changes
nothing (`NotRecorded`). When a process saves what it recorded on the tree a load would
give, its lines come behind those of the delta, and replay of both is replay of the one
after the other (`ReplayJoin`), which gives `LinesLand` (`SavedLand`); a commit flushes
the lines it replayed. `NoLines` says that no lines wait for a file that cannot be
imported, on which none would land.

`FileReadsBack` is a fact about the two conversions and follows from `TypeOK`
(`ReadsBack`): by induction over its items a list is built as it was (`ListedNew`), over
the options a section has them all in their order (`ParsedNew`), and over the sections
the package has each of them with its name, or a generated one that is not taken
(`ImportNew`); export drops just the generated names again.

The values of the recursive functions come from `Iterates` of `SeqInduction`: a step that
keeps a set has its iterations. The step is there a function on that set, because no
prover here instantiates a lemma with an operator. `UciPackage` defines two operators
of `SequencesExt` itself, since all the definitions of that module would be in the
context of each of the proof steps.

## The projector configuration scripts

`amPjmConfigAccess.sh` saves a configuration file from shared memory or loads it,
optionally merging a reference file first, under the lock file `/tmp/<name>.lock`.
`PjmConfig` has a step for each command that looks at or changes the lock file or the
configuration file: a turn of the lock loop, the `touch`, the look after it, the
decisions of save and load once locked, `cp` in two steps (the empty file, the lines), the
`grep` and the `>>` of the merge, `am_config.app` (external: the time for which the lock
is needed) and the `rm`. `main` starts a call. `Killed` ends a script anywhere and leaves
its lock file, `Restart` ends them all and empties `/tmp`.

The script looks at the status of none of `touch`, `cp`, `>>` and `rm`, so each may fail
(`MayFail`) and the script goes on. A failing `touch` is noticed by the look after it,
unless another script has made the file meanwhile. `cp` and `>>` may do nothing, or stop
after some lines or inside one (`Cuts`): a part of a line has no newline, so the next line
that is appended continues it. A kill during a write is a write that stops short and then
a kill.

A line is blank, a comment or the instance that it sets; `Inside` says which names `grep`
finds in which lines and parts, so that names which are parts of others, and comments
which mention names, are covered. Values are left out. For a blank line the name is empty
and `grep -q $filepath` reads the reference file on, which is the standard input of the
loop: it finds the path in some later line, and the merge goes on behind that, or reads to
the end; then a blank line is appended and the merge is over.

Histories: `hit` records the race of `func_lockFile`, in which a script finds no lock file
while another is between that and the return of `func_lockFile`; `failed[s]` that a `cp` or
`>>` of the present load of `s` failed.

Assumed: the reference file does not change and ends with a newline; `grep` and the shell
can be run and read the files; no name occurs across the joint of a part and the line that
continues it.

| Run | Shows |
|---|---|
| `pjm_config` | but for the race: the lock excludes and stays until its owner removes it, the merge doubles no line, and a load whose own writes did not fail leaves every instance that the reference file sets before its first blank line to be found, whatever earlier loads left; every call ends, stale lock files notwithstanding |
| `pjm_lock` | violation: in the race two scripts hold the lock |

Bounds: two scripts, since a race is between two, and two calls, so that a later call
meets the leavings of a failure or a kill; two tries instead of 26, which is enough for
one that sleeps and then finds the file gone, and one that times out; a reference file of
five lines with one overlap of names, a blank line and a comment; two instances whose
lines may be cut, one of them so that a name is still found; the file is first missing,
empty, cut or has one comment. 460,000 states. Fairness: each script that runs goes on,
which the kernel grants; none of its steps blocks.

`PjmConfigProofs` proves, for any number of scripts, tries, calls, kills and failures, any
instances, comments, parts and files, and any relation between names and lines in which a
name occurs in its own line and none in a blank one (`PjmAssumption`):

- `TypeCorrect`: `Spec => []TypeOK`
- `LockFileExcludes`: `Spec => []LockExcludes`
- `NeverDouble`: `Spec => []NoDoubleLine`
- `MergeComplete`: `Spec => []MergeCoversRef`

`IInv` adds `LockInv`, the scripts that are past the check of `func_lockFile`: one at
most, with no file before its `touch` and with one once it has the lock; `LineInv`, the
loop stays inside the reference file; and `MergeInv`, what the script that has the lock
knows of the file: unless a write of its own failed, `grep` finds every instance of the
lines before its own, and it still finds none of the one it is about to append. Outside
the race no other script can disturb it (`OnlyHolder`). What `grep` selects is `Filter`
(`SeqFilter`), a recursive function; `SeqInduction` proves what it returns by induction
over the length. Its induction rule speaks of a set and not of a predicate, which the
provers can instantiate.

Finding: the lock is not exclusive (`amPjmConfigAccess.sh:64`).

What `MergeCoversRef` does not say is what the code does not do, against its head comment
"if any config inst lost, copy from ref file to user file" (`amPjmConfigAccess.sh:20`). It
speaks of what `grep` finds: an instance whose name is a part of another, or occurs in a
comment or in what is left of a line that was cut, is found there and its own line is not
restored (`:246`). Instances behind a blank line of the reference file need not be
restored. And a load whose `cp` or `>>` failed hands what there is to `am_config.app`.

## The run queue

`Runqueue` has the tasks of `runqueue.c` in two lists, `tasks_active` and
`tasks_inactive`, the flags `queued`, `running` and `cancelled`, the counter
`running_tasks`, a timeout for each task and the one timer of the queue. Callbacks are
where it is hard: `run`, `cancel`, `kill` and `complete` may call any operation, in the
middle of a `safe_list_for_each`. The stack of operations in progress is therefore
state: a frame is a callback or an iteration and the element it stands on, and
`safe_list_del` moves every iteration off the element it removes. The user's operations
are possible when the stack is empty (between events) or a callback is on top. Two
histories: `killed` from the end of a `runqueue_kill` to the next added task, because it
stops the timer after callbacks that may have added tasks; `direct` for tasks that
`runqueue_process_add` started without regard to the limit, waiting ones included.
`empty_cb` may or may not be set.

The run `runqueue` (127,000 states) has three tasks, one with a run timeout, one with a
cancel timeout and one with both, a limit of one, four calls by the user and three nested
frames, the fewest for a callback in an iteration in a callback. It checks that lists,
flags and counter agree (`ListsMatch`), that timeouts are only pending for running tasks
(`TimersOnRunning`), that iterations stand on elements of their list (`IteratorsValid`),
the limit, that a task which may start has the timer set (`NoStall`), that an empty queue
is empty, and under fairness that a task whose timeout is pending ends (`TimeoutEnds`) and
that a pending task is started or leaves (`PendingServed`). `FairSpec` assumes weak
fairness of the steps inside an operation (the code runs on), of the timer of the queue
and of each timeout (the event loop fires them, which `UloopTimeouts` shows), and none
of the user, of callbacks that end a task or of child processes.

`RunqueueProofs` proves all but the two liveness properties for any set of tasks, limit,
number of calls and depth. `IInv` is the conjunction of `ListsOK` (each list has no
repetition and holds just the tasks of its flags, the counter is the number of running
ones), `StackOK` (the frames have their types and every iteration stands on its list),
`RestOK` (the types of the rest), `EmptyIsEmpty`, `LimitKept` and `StallInv`. The last is what makes
`NoStall` inductive: in the middle of operations either the timer is set or a frame on
the stack will still look for tasks to start.

Left out: the refusal of a task without run callback. An observation: `runqueue.h:50` says that a task "is removed
from the list before this callback is run" and "can re-arm itself using
runqueue_task_add"; in the code it is still queued then, and `runqueue_task_add` returns
without doing anything (`runqueue.c:152`).

## The timeouts of the event loop

`UloopTimeouts` has the list of timeouts, the clock as seconds and microseconds, and the
loop of `uloop_run`: it takes the time, runs the callbacks of the expired timeouts and
those of dead children, takes the time again, computes the timeout of the poll from it and
polls, with the clock running between any two of these steps. The user sets, adds and
cancels timeouts in all callbacks: of timeouts, of children (after the pass, before the
poll) and of events. `tv_diff` rounds to milliseconds as in the code, so that it is not a
transitive order, and `uloop_timeout_set` carries only when the microseconds exceed a
second. The scale is a parameter: `Ms` microseconds in a millisecond, `Sec`
milliseconds in a second.

The run `uloop_timeouts` (1,007,000 states) has three timeouts, two microseconds in a
millisecond and two milliseconds in a second, delays of 0 to 2 ms, a clock of 10
microseconds and three calls, so that rounding and the carry both occur; the poll begins
up to a millisecond after the time was taken for it (`MaxLate`, two microseconds). It checks
that the list is sorted to a millisecond (`SortedWithinMs`), that a delay is exact however
it is carried (`DelayExact`), that none fires a millisecond early (`NeverEarly`) and that
every pending timeout fires or is cancelled (`TimeoutFires`). `PollWakes` says that the
timeout of a poll is zero or, counted from the time taken before it, over within two
milliseconds after any pending timeout is due: how late the poll itself begins is up to
the scheduler, and by that much it ends later. Fairness: of the clock and of the loop; not
of interrupted polls.

`UloopTimeoutsProofs` proves all but the last for any timeouts, delays and
scale; the inductive invariant adds to the types and the order that the time a loop read
is past (`TvPast`) and that its poll was computed from the first timeout
(`WakesForFirst`). Assumed: differences of times fit in an `int`, and delays are not
negative: what a caller would mean by a negative one the code does not say.
`uloop_timeout_remaining` changes nothing and is left out.

## Descriptors, children and nested loops

`Uloop` has the registered descriptors, the batch `cur_fds` of fetched events that all
loops share, `fd_stack` of edge-triggered descriptors whose callbacks are in progress,
the children, `do_sigchld` and `uloop_cancelled`, and a stack of loops: a callback may
call `uloop_run`, and the inner loop goes on with the batch of the outer. Signals come
between any two steps. epoll is external: an edge is reported once.

The run `uloop` (2,590,000 states, about two minutes) has two descriptors of which one wants
errors reported, two children, batches of two, three calls by the user and four
nested places. It checks that an event of a deleted descriptor is nowhere left
(`DeletedIsSilent`), that no two loops on the stack are in the callback of one descriptor
(`NoReentry`, with exceptions) and that no edge is lost (`NoLostEdge`), that a child which
ended is still to be reaped (`SignalKept`), and that after `uloop_end` no loop waits or
calls before it looks at `uloop_cancelled` (`EndStops`). Exceptions, each a variable of the
model: a descriptor whose trigger is changed while its callback is in progress
(`switched`), a child that ends while no loop is running (`missed`), and `uloop_end` in
the callback of a child, after which the loop polls once more (it does not set `ended`).

`NoReentry` counts the callbacks in progress on the stack of loops, whatever `fd_stack`
says of them. It excepts the descriptors in `loose`, for which the code does not prevent
that a nested loop enters a callback in progress: those which are not edge-triggered, for
which `fd_stack` is not looked at (`uloop.c:306`, "Caller needs to take care of recursion issues"); those whose trigger was changed in the callback; and
those which were deleted while in their callback, since `uloop_fd_delete` takes them off
`fd_stack` (`uloop.c:408`). The last can be the user, who may add the descriptor again at
once, or a nested loop that gets a hang-up or error for it: that deletes it and still
calls it (`uloop.c:273`). A descriptor leaves `loose` when its last callback returns.

`UloopProofs` proves all of them for any descriptors, children, batch and depth. `IInv` is
`TypeOK`, `LoopInv` (where each loop on the stack can be, and the properties on signals
and ends), `FdInv` (the batch has an event of a descriptor once at most, an event left
on the stack is of a descriptor in progress, a deleted one is in neither, and the
properties on descriptors) and `HeldInv`, which makes `NoReentry` inductive: a callback
that is not to be entered again is in progress once, `fd_stack` still names it, and its
descriptor is still edge-triggered. Left out: the kqueue build, `uloop_init` and `uloop_done`.

## Not modelled

- The tokenizer, quoting and line continuation of the UCI format: loops over the
  characters of one call, without state that outlives it.
- The blob, ucimap, Lua and shell bindings: conversions, or calls of the operations that
  are modelled.
- `ustream*.c`: buffers of bytes and pointers into them, used by one loop. What can go
  wrong is pointer arithmetic within a call, which a model of queues would assume away.
- `vlist.c`, `avl.c`: sequential data structures; rebalancing is induction over data.
- blob, blobmsg, JSON scripts, md5, sockets, logs: encodings and thin wrappers.
- `applyConfigToSystem.sh`, the LCD samples, the exercises and the set-up scripts: each
  runs once from top to bottom and shares no state.
- U-Boot and the root file system: not this repository's code. They are nearly all
  of its lines.

Out of the prover's reach, and left to TLC: every liveness property. Every invariant and
action property that a passing run checks is also a theorem.
