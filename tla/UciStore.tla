------------------------------- MODULE UciStore -------------------------------
(***************************************************************************)
(* One UCI package shared by several processes: the config file            *)
(* <confdir>/<name>, the delta file <savedir>/<name>, and the calls of     *)
(* libuci that read and write them (file.c, delta.c, util.c).              *)
(*                                                                         *)
(* A change made through uci_set, uci_add_list, ... is a value of Change;  *)
(* a file or a loaded package is the set of the changes it contains.       *)
(* How a change edits sections and options is left out: this module is     *)
(* about where the changes are while processes open, lock, read, append,   *)
(* truncate and rename the two files.                                      *)
(*                                                                         *)
(* A config file is an inode: rename gives the path another one, and a     *)
(* process that opened the path before keeps, and locks, the old one.      *)
(* The delta file is never renamed, and each of its accesses opens it,     *)
(* locks it, works and closes it while nothing else is waited for: one     *)
(* access of the delta file is one step, but for uci_filter_delta, which a *)
(* crash can stop between the truncation and the rewriting.                *)
(***************************************************************************)
EXTENDS Naturals, Sequences, FiniteSets

CONSTANTS
  Proc,        \* the processes, each with a uci_context of its own
  Change,      \* the changes that may be made
  Rejected,    \* the changes whose line uci_parse_delta_line rejects
  Overlay,     \* what the delta_path directories other than savedir hold
  Selections,  \* the sets of changes an argument of uci_revert can select
  Importable,  \* the changes that `uci import' may bring
  Faults,      \* which faults may happen, of FaultKinds
  MaxCalls     \* bound: how many calls that open a config file a process makes

(* crash: a process dies.  io: opening, truncating or renaming fails.      *)
(* readonly: the delta file can be read but not opened for writing.        *)
(* full: the disk fills up while the new config file is written.           *)
FaultKinds == {"crash", "io", "readonly", "full"}

ASSUME StoreAssumption ==
  /\ Rejected \subseteq Change
  /\ Overlay \subseteq Change
  /\ Importable \subseteq Change
  /\ Selections \subseteq SUBSET Change
  /\ Faults \subseteq FaultKinds
  /\ MaxCalls \in Nat

VARIABLES
  file,     \* the inodes created so far: what each holds, and if all of it
  cfg,      \* the inode that <confdir>/<name> names
  delta,    \* what the delta file <savedir>/<name> holds
  pc,       \* where each process is in the call it makes
  fd,       \* the inode each process has opened as config file, 0 if none
  mode,     \* the flock each process holds on fd
  pkg,      \* the package each process has in memory
  own,      \* its changes not yet saved (p->delta)
  tracked,  \* p->has_delta
  changes,  \* whether uci_load_delta counted a change
  tmp,      \* the temporary file that is to be renamed, 0 if do_rename is false
  list,     \* what uci_filter_delta is to write back
  calls     \* how many calls each process has begun

(***************************************************************************)
(* History: what the properties speak of and no process reads.             *)
(***************************************************************************)
VARIABLES
  saved,    \* the changes written to the delta file or imported, ever
  reverted, \* those uci_revert removed from the delta file
  replaced, \* those an import overwrote
  hit,      \* whether a step was taken inside one of the windows below
  cut,      \* whether the disk filled up under an export
  stale     \* whether the load of a process began inside one

files == <<file, cfg, delta>>
memory == <<pkg, own, tracked, changes, tmp, list>>
history == <<saved, reverted, replaced, hit, cut, stale>>
vars == <<file, cfg, delta, pc, fd, mode, pkg, own, tracked, changes, tmp, list,
          calls, saved, reverted, replaced, hit, cut, stale>>

PCs == {"out", "in",                              \* no package, a package
        "loadLock", "loadDelta", "loadClose",
        "lock", "reload", "read", "truncate", "tmp", "export", "close",
        "rename", "filter", "rewrite", "reopen"}

(* The states of uci_file_commit between the flush of the delta file and   *)
(* the rename: what was flushed is only in memory or in a temporary file.  *)
Unlinked == {"tmp", "export", "close", "rename"}

Init ==
  /\ file = <<[body |-> {}, whole |-> TRUE]>>
  /\ cfg = 1
  /\ delta = {}
  /\ pc = [p \in Proc |-> "out"]
  /\ fd = [p \in Proc |-> 0]
  /\ mode = [p \in Proc |-> "un"]
  /\ pkg = [p \in Proc |-> {}]
  /\ own = [p \in Proc |-> {}]
  /\ tracked = [p \in Proc |-> FALSE]
  /\ changes = [p \in Proc |-> FALSE]
  /\ tmp = [p \in Proc |-> 0]
  /\ list = [p \in Proc |-> {}]
  /\ calls = [p \in Proc |-> 0]
  /\ saved = {} /\ reverted = {} /\ replaced = {}
  /\ hit = FALSE /\ cut = FALSE
  /\ stale = [p \in Proc |-> FALSE]

Count(p) ==
  /\ calls[p] < MaxCalls
  /\ calls' = [calls EXCEPT ![p] = @ + 1]

Goto(p, l) == pc' = [pc EXCEPT ![p] = l]

(***************************************************************************)
(* The windows.  They are named once, here: the steps below record in hit  *)
(* that they were taken inside one.                                        *)
(***************************************************************************)

(* Another process has read the delta file and is about to truncate it.    *)
ReadNotTruncated(p) == \E q \in Proc \ {p} : pc[q] = "truncate"

(* The inode p opened is not, or is about not to be, the config file:      *)
(* another process has unlocked it and its rename is done or is pending.   *)
NotTheConfig(p) == fd[p] # cfg \/ \E q \in Proc : pc[q] = "rename"

(* p has flushed changes that no file under a permanent name holds.        *)
HoldsFlushed(p) == pc[p] \in Unlinked /\ tracked[p] /\ changes[p]

-----------------------------------------------------------------------------
(***************************************************************************)
(* flock(2), as uci_open_stream and uci_close_stream use it.               *)
(***************************************************************************)
CanShare(p) == \A q \in Proc \ {p} : fd[q] = fd[p] => mode[q] # "ex"
CanExclude(p) == \A q \in Proc \ {p} : fd[q] = fd[p] => mode[q] = "un"

Unlock(p) ==
  /\ fd' = [fd EXCEPT ![p] = 0]
  /\ mode' = [mode EXCEPT ![p] = "un"]

(* The delta file is locked across two steps only by uci_filter_delta.     *)
DeltaFree(p) == \A q \in Proc \ {p} : pc[q] # "rewrite"

(* The lines that uci_parse_delta applies: an error in a line is trapped,  *)
(* the line is skipped and not counted.                                    *)
Accepted(S) == S \ Rejected

-----------------------------------------------------------------------------
(***************************************************************************)
(* uci_load: uci_file_load and uci_load_delta(flush = false)               *)
(***************************************************************************)
uci_file_load_open(p) ==
  /\ \/ pc[p] = "out" /\ Count(p)
     \/ pc[p] = "reopen" /\ UNCHANGED calls
  /\ fd' = [fd EXCEPT ![p] = cfg]
  /\ Goto(p, "loadLock")
  /\ UNCHANGED <<files, mode, memory, history>>

(* Mutant: the config file is read without its shared lock.                *)
load_without_lock(p) ==
  /\ pc[p] = "loadLock"
  /\ pkg' = [pkg EXCEPT ![p] = file[fd[p]].body]
  /\ own' = [own EXCEPT ![p] = {}]
  /\ tracked' = [tracked EXCEPT ![p] = TRUE]
  /\ stale' = [stale EXCEPT ![p] = NotTheConfig(p)]
  /\ Goto(p, "loadDelta")
  /\ UNCHANGED <<files, fd, mode, changes, tmp, list, calls, saved, reverted,
                 replaced, hit, cut>>

uci_file_load_import(p) ==
  /\ pc[p] = "loadLock"
  /\ CanShare(p)
  /\ mode' = [mode EXCEPT ![p] = "sh"]
  /\ pkg' = [pkg EXCEPT ![p] = file[fd[p]].body]
  /\ own' = [own EXCEPT ![p] = {}]
  /\ tracked' = [tracked EXCEPT ![p] = TRUE]
  /\ stale' = [stale EXCEPT ![p] = NotTheConfig(p)]
  /\ Goto(p, "loadDelta")
  /\ UNCHANGED <<files, fd, changes, tmp, list, calls, saved, reverted, replaced,
                 hit, cut>>

uci_file_load_delta(p) ==
  /\ pc[p] = "loadDelta"
  /\ DeltaFree(p)
  /\ pkg' = [pkg EXCEPT ![p] = @ \union Accepted(Overlay \union delta)]
  /\ Goto(p, "loadClose")
  /\ UNCHANGED <<files, fd, mode, own, tracked, changes, tmp, list, calls, history>>

uci_file_load_close(p) ==
  /\ pc[p] = "loadClose"
  /\ Unlock(p)
  /\ Goto(p, "in")
  /\ UNCHANGED <<files, memory, calls, history>>

uci_unload(p) ==
  /\ pc[p] = "in"
  /\ pkg' = [pkg EXCEPT ![p] = {}]
  /\ own' = [own EXCEPT ![p] = {}]
  /\ Goto(p, "out")
  /\ UNCHANGED <<files, fd, mode, tracked, changes, tmp, list, calls, history>>

-----------------------------------------------------------------------------
(***************************************************************************)
(* uci_set and the other calls that record a change, and uci_save          *)
(***************************************************************************)
Unused(c) ==
  /\ c \notin saved \union Overlay \union Importable
  /\ \A q \in Proc : c \notin pkg[q] \union own[q]

uci_add_delta(p, c) ==
  /\ pc[p] = "in"
  /\ Unused(c)
  /\ pkg' = [pkg EXCEPT ![p] = @ \union {c}]
  /\ own' = [own EXCEPT ![p] = @ \union {c}]
  /\ UNCHANGED <<files, pc, fd, mode, tracked, changes, tmp, list, calls, history>>

(* What uci_save does to the two lists and to the delta file.  An empty    *)
(* list is an early return.                                                *)
SaveOwn(p) ==
  /\ own[p] = {} \/ DeltaFree(p)
  /\ delta' = delta \union own[p]
  /\ own' = [own EXCEPT ![p] = {}]
  /\ saved' = saved \union own[p]
  /\ hit' = (hit \/ (own[p] # {} /\ ReadNotTruncated(p)))

uci_save(p) ==
  /\ pc[p] = "in"
  /\ own[p] # {}
  /\ SaveOwn(p)
  /\ UNCHANGED <<file, cfg, pc, fd, mode, pkg, tracked, changes, tmp, list, calls,
                 reverted, replaced, cut, stale>>

-----------------------------------------------------------------------------
(***************************************************************************)
(* uci_commit: uci_file_commit and uci_load_delta(flush = true)            *)
(***************************************************************************)
Returned(p) == IF tracked[p] THEN "in" ELSE "out"

uci_file_commit_open(p) ==
  /\ pc[p] = "in"
  /\ Count(p)
  /\ fd' = [fd EXCEPT ![p] = cfg]
  /\ Goto(p, "lock")
  /\ UNCHANGED <<files, mode, memory, history>>

(* `uci import': a package read from a stream, has_delta unset, is         *)
(* committed with overwrite set.                                           *)
uci_do_import(p, c) ==
  /\ pc[p] = "out"
  /\ Count(p)
  /\ c \notin saved /\ \A q \in Proc : c \notin pkg[q]
  /\ pkg' = [pkg EXCEPT ![p] = {c}]
  /\ tracked' = [tracked EXCEPT ![p] = FALSE]
  /\ fd' = [fd EXCEPT ![p] = cfg]
  /\ Goto(p, "lock")
  /\ UNCHANGED <<files, mode, own, changes, tmp, list, history>>

(* Mutant: opening for writing truncates, as the comment of                *)
(* uci_open_stream says.                                                   *)
commit_lock_truncates(p) ==
  /\ pc[p] = "lock"
  /\ CanExclude(p)
  /\ mode' = [mode EXCEPT ![p] = "ex"]
  /\ changes' = [changes EXCEPT ![p] = FALSE]
  /\ file' = [file EXCEPT ![fd[p]] = [body |-> {}, whole |-> FALSE]]
  /\ hit' = (hit \/ NotTheConfig(p))
  /\ Goto(p, IF tracked[p] THEN "reload" ELSE "tmp")
  /\ UNCHANGED <<cfg, delta, fd, pkg, own, tracked, tmp, list, calls, saved,
                 reverted, replaced, cut, stale>>

uci_file_commit_lock(p) ==
  /\ pc[p] = "lock"
  /\ CanExclude(p)
  /\ mode' = [mode EXCEPT ![p] = "ex"]
  /\ changes' = [changes EXCEPT ![p] = FALSE]
  /\ hit' = (hit \/ NotTheConfig(p))
  /\ Goto(p, IF tracked[p] THEN "reload" ELSE "tmp")
  /\ UNCHANGED <<files, fd, pkg, own, tracked, tmp, list, calls, saved, reverted,
                 replaced, cut, stale>>

(* Mutant: the package in memory is committed without a reload.            *)
commit_without_reload(p) ==
  /\ pc[p] = "reload"
  /\ SaveOwn(p)
  /\ Goto(p, "read")
  /\ UNCHANGED <<file, cfg, fd, mode, pkg, tracked, changes, tmp, list, calls,
                 reverted, replaced, cut, stale>>

(* Own changes go to the delta file, then the config file is read anew.    *)
uci_file_commit_reload(p) ==
  /\ pc[p] = "reload"
  /\ SaveOwn(p)
  /\ pkg' = [pkg EXCEPT ![p] = file[fd[p]].body]
  /\ Goto(p, "read")
  /\ UNCHANGED <<file, cfg, fd, mode, tracked, changes, tmp, list, calls, reverted,
                 replaced, cut, stale>>

uci_file_commit_save_fails(p) ==
  /\ "io" \in Faults
  /\ pc[p] = "reload"
  /\ own[p] # {}
  /\ Goto(p, "close")
  /\ UNCHANGED <<files, fd, mode, memory, calls, history>>

uci_load_delta_read(p) ==
  /\ pc[p] = "read"
  /\ DeltaFree(p)
  /\ LET lines == Accepted(Overlay \union delta) IN
       /\ pkg' = [pkg EXCEPT ![p] = @ \union lines]
       /\ changes' = [changes EXCEPT ![p] = lines # {}]
  /\ Goto(p, "truncate")
  /\ UNCHANGED <<files, fd, mode, own, tracked, tmp, list, calls, history>>

(* Mutant: the delta file is not truncated.                                *)
flush_without_truncate(p) ==
  /\ pc[p] = "truncate"
  /\ DeltaFree(p)
  /\ Goto(p, IF changes[p] THEN "tmp" ELSE "close")
  /\ UNCHANGED <<files, fd, mode, memory, calls, history>>

uci_load_delta_flush(p) ==
  /\ pc[p] = "truncate"
  /\ DeltaFree(p)
  /\ delta' = IF changes[p] THEN {} ELSE delta
  /\ Goto(p, IF changes[p] THEN "tmp" ELSE "close")
  /\ UNCHANGED <<file, cfg, fd, mode, memory, calls, history>>

(* ftruncate fails: an error, and nothing has been flushed.                *)
uci_load_delta_flush_fails(p) ==
  /\ "io" \in Faults
  /\ pc[p] = "truncate"
  /\ DeltaFree(p)
  /\ changes[p]
  /\ changes' = [changes EXCEPT ![p] = FALSE]
  /\ Goto(p, "close")
  /\ UNCHANGED <<files, fd, mode, pkg, own, tracked, tmp, list, calls, history>>

(* Opening the delta file for writing fails: the error is trapped, and the *)
(* commit goes on with what was read.                                      *)
uci_load_delta_reopen_fails(p) ==
  /\ "readonly" \in Faults
  /\ pc[p] = "truncate"
  /\ Goto(p, IF changes[p] THEN "tmp" ELSE "close")
  /\ UNCHANGED <<files, fd, mode, memory, calls, history>>

(* Mutant: the name that is to be renamed is not that of the file created. *)
commit_tmp_misnamed(p) ==
  /\ pc[p] = "tmp"
  /\ file' = Append(file, [body |-> {}, whole |-> FALSE])
  /\ tmp' = [tmp EXCEPT ![p] = Len(file) + 2]
  /\ Goto(p, "export")
  /\ UNCHANGED <<cfg, delta, fd, mode, pkg, own, tracked, changes, list, calls,
                 history>>

uci_file_commit_tmp(p) ==
  /\ pc[p] = "tmp"
  /\ file' = Append(file, [body |-> {}, whole |-> FALSE])
  /\ tmp' = [tmp EXCEPT ![p] = Len(file) + 1]
  /\ Goto(p, "export")
  /\ UNCHANGED <<cfg, delta, fd, mode, pkg, own, tracked, changes, list, calls, history>>

uci_file_commit_tmp_fails(p) ==
  /\ "io" \in Faults
  /\ pc[p] = "tmp"
  /\ hit' = (hit \/ HoldsFlushed(p))
  /\ changes' = [changes EXCEPT ![p] = FALSE]
  /\ Goto(p, "close")
  /\ UNCHANGED <<files, fd, mode, pkg, own, tracked, tmp, list, calls, saved,
                 reverted, replaced, cut, stale>>

(* uci_export, fflush, fsync and the close of the temporary file.  Their   *)
(* results are not looked at.                                              *)
uci_file_commit_export(p) ==
  /\ pc[p] = "export"
  /\ \/ /\ file' = [file EXCEPT ![tmp[p]] = [body |-> pkg[p], whole |-> TRUE]]
        /\ UNCHANGED <<hit, cut>>
     \/ /\ "full" \in Faults
        /\ hit' = TRUE /\ cut' = TRUE
        /\ UNCHANGED file
  /\ Goto(p, "close")
  /\ UNCHANGED <<cfg, delta, fd, mode, memory, calls, saved, reverted, replaced,
                 stale>>

(* Mutant: a commit with nothing to rename leaves the config file locked.  *)
commit_close_leaks_lock(p) ==
  /\ pc[p] = "close"
  /\ IF tmp[p] # 0 THEN Unlock(p) ELSE UNCHANGED <<fd, mode>>
  /\ Goto(p, IF tmp[p] # 0 THEN "rename" ELSE Returned(p))
  /\ UNCHANGED <<files, memory, calls, history>>

(* The config file is closed, hence unlocked, before the rename.           *)
uci_file_commit_close(p) ==
  /\ pc[p] = "close"
  /\ Unlock(p)
  /\ Goto(p, IF tmp[p] # 0 THEN "rename" ELSE Returned(p))
  /\ UNCHANGED <<files, memory, calls, history>>

uci_file_commit_rename(p) ==
  /\ pc[p] = "rename"
  /\ cfg' = tmp[p]
  /\ tmp' = [tmp EXCEPT ![p] = 0]
  /\ IF tracked[p]
       THEN UNCHANGED <<saved, replaced, pkg>>
       ELSE /\ saved' = saved \union pkg[p]
            /\ replaced' = replaced \union file[cfg].body
            /\ pkg' = [pkg EXCEPT ![p] = {}]
  /\ Goto(p, Returned(p))
  /\ UNCHANGED <<file, delta, fd, mode, own, tracked, changes, list, calls, reverted,
                 hit, cut, stale>>

uci_file_commit_rename_fails(p) ==
  /\ "io" \in Faults
  /\ pc[p] = "rename"
  /\ hit' = (hit \/ HoldsFlushed(p))
  /\ tmp' = [tmp EXCEPT ![p] = 0]
  /\ Goto(p, Returned(p))
  /\ UNCHANGED <<files, fd, mode, pkg, own, tracked, changes, list, calls, saved,
                 reverted, replaced, cut, stale>>

-----------------------------------------------------------------------------
(***************************************************************************)
(* uci_revert: save, unload, uci_filter_delta, load                        *)
(***************************************************************************)
uci_revert(p) ==
  /\ pc[p] = "in"
  /\ Count(p)
  /\ SaveOwn(p)
  /\ pkg' = [pkg EXCEPT ![p] = {}]
  /\ Goto(p, "filter")
  /\ UNCHANGED <<file, cfg, fd, mode, tracked, changes, tmp, list, reverted,
                 replaced, cut, stale>>

(* Read the delta file, keep what the argument does not match, truncate.   *)
uci_filter_delta(p, S) ==
  /\ pc[p] = "filter"
  /\ DeltaFree(p)
  /\ list' = [list EXCEPT ![p] = delta \ S]
  /\ delta' = {}
  /\ reverted' = reverted \union (delta \intersect S)
  /\ hit' = (hit \/ (delta \intersect S # {} /\ ReadNotTruncated(p)))
  /\ Goto(p, "rewrite")
  /\ UNCHANGED <<file, cfg, fd, mode, pkg, own, tracked, changes, tmp, calls,
                 saved, replaced, cut, stale>>

(* Opening or truncating fails, or uci_parse_delta_tuple throws at a line  *)
(* (other lines are rejected only when they are applied): trapped before   *)
(* anything is written, and the package is loaded again.                   *)
uci_filter_delta_fails(p) ==
  /\ pc[p] = "filter"
  /\ "io" \in Faults \/ (DeltaFree(p) /\ delta \intersect Rejected # {})
  /\ Goto(p, "reopen")
  /\ UNCHANGED <<files, fd, mode, memory, calls, history>>

(* Write the rest back to the same, still locked, file.                    *)
uci_filter_delta_rewrite(p) ==
  /\ pc[p] = "rewrite"
  /\ delta' = list[p]
  /\ list' = [list EXCEPT ![p] = {}]
  /\ Goto(p, "reopen")
  /\ UNCHANGED <<file, cfg, fd, mode, pkg, own, tracked, changes, tmp, calls,
                 history>>

-----------------------------------------------------------------------------
(* A process is killed: the kernel closes its files and drops its locks.   *)
Crash(p) ==
  /\ "crash" \in Faults
  /\ pc[p] # "out"
  /\ Unlock(p)
  /\ hit' = (hit \/ HoldsFlushed(p) \/ list[p] # {})
  /\ pkg' = [pkg EXCEPT ![p] = {}]
  /\ own' = [own EXCEPT ![p] = {}]
  /\ tmp' = [tmp EXCEPT ![p] = 0]
  /\ list' = [list EXCEPT ![p] = {}]
  /\ Goto(p, "out")
  /\ UNCHANGED <<files, tracked, changes, calls, saved, reverted, replaced, cut,
                 stale>>

(* The steps of a call that has begun.                                     *)
Step(p) ==
  \/ pc[p] = "reopen" /\ uci_file_load_open(p)
  \/ uci_file_load_import(p) \/ uci_file_load_delta(p) \/ uci_file_load_close(p)
  \/ uci_file_commit_lock(p)
  \/ uci_file_commit_reload(p) \/ uci_file_commit_save_fails(p)
  \/ uci_load_delta_read(p)
  \/ uci_load_delta_flush(p) \/ uci_load_delta_flush_fails(p)
  \/ uci_load_delta_reopen_fails(p)
  \/ uci_file_commit_tmp(p) \/ uci_file_commit_tmp_fails(p)
  \/ uci_file_commit_export(p)
  \/ uci_file_commit_close(p)
  \/ uci_file_commit_rename(p) \/ uci_file_commit_rename_fails(p)
  \/ \E S \in Selections : uci_filter_delta(p, S)
  \/ uci_filter_delta_fails(p) \/ uci_filter_delta_rewrite(p)

(* The calls a process may begin.                                          *)
Call(p) ==
  \/ pc[p] = "out" /\ uci_file_load_open(p)
  \/ uci_unload(p)
  \/ \E c \in Change : uci_add_delta(p, c)
  \/ uci_save(p)
  \/ uci_file_commit_open(p)
  \/ uci_revert(p)
  \/ \E c \in Importable : uci_do_import(p, c)

Next == \E p \in Proc : Step(p) \/ Call(p) \/ Crash(p)

Spec == Init /\ [][Next]_vars

(* A call that has begun goes on unless its process dies: the kernel       *)
(* schedules it, and grants flock once nobody holds a conflicting lock.    *)
FairSpec == Spec /\ \A p \in Proc : WF_vars(Step(p))

-----------------------------------------------------------------------------
(***************************************************************************)
(* Properties                                                              *)
(***************************************************************************)

Inode == [body : SUBSET Change, whole : BOOLEAN]

(* Every variable has its type: inodes are in range, locks and program     *)
(* counters are known, and a flock is held only on an open file.           *)
TypeOK ==
  /\ file \in Seq(Inode)
  /\ cfg \in 1..Len(file)
  /\ delta \in SUBSET Change
  /\ pc \in [Proc -> PCs]
  /\ fd \in [Proc -> 0..Len(file)]
  /\ mode \in [Proc -> {"un", "sh", "ex"}]
  /\ pkg \in [Proc -> SUBSET Change]
  /\ own \in [Proc -> SUBSET Change]
  /\ tracked \in [Proc -> BOOLEAN]
  /\ changes \in [Proc -> BOOLEAN]
  /\ tmp \in [Proc -> 0..Len(file)]
  /\ list \in [Proc -> SUBSET Change]
  /\ calls \in [Proc -> 0..MaxCalls]
  /\ saved \in SUBSET Change
  /\ reverted \in SUBSET Change
  /\ replaced \in SUBSET Change
  /\ hit \in BOOLEAN
  /\ cut \in BOOLEAN
  /\ stale \in [Proc -> BOOLEAN]

(* Whatever crashes, and at whatever step, the config path names a file    *)
(* that was exported to its end (the temporary file of uci_file_commit is  *)
(* complete before rename), unless the disk filled up during an export.    *)
ConfigNeverTorn == cut \/ file[cfg].whole

DeltaWritable == "readonly" \notin Faults
NoOverlay == Accepted(Overlay) = {}

(* No saved change is both in the config file and in the delta file, where *)
(* the next load would apply it a second time: uci_file_commit truncates   *)
(* the delta file before it renames, in every interleaving.                *)
NoDoubleApply == DeltaWritable => file[cfg].body \intersect delta = {}

(* What commits in progress have flushed, and reverts are writing back.    *)
Flushed == {c \in Change : \E p \in Proc : HoldsFlushed(p) /\ c \in pkg[p]}
Kept == {c \in Change : \E p \in Proc : c \in list[p]}
InTransit == Flushed \union Kept

(* The saved changes that no commit has taken.                             *)
Waiting == delta \union Kept

(* The saved changes that nobody asked to undo.                            *)
Live == saved \ (reverted \union replaced \union Rejected)

(* A saved change stays in the config file, in the delta file or with the  *)
(* process that carries it from one to the other (uci_save, uci_commit).   *)
NoLostChange == Live \subseteq file[cfg].body \union delta \union InTransit

(* Saved changes are lost only by a step taken in one of the windows named *)
(* above, or by a failure between the flush and the rename: outside them   *)
(* the locks of uci_file_commit and uci_load_delta are enough.             *)
OnlyWindowsLose == hit \/ NoLostChange

(* Outside the same windows, a change removed by uci_revert never comes    *)
(* back: no process carries it on, and no file holds it.                   *)
RevertedStaysOut ==
  DeltaWritable /\ ~hit
    => reverted \intersect (file[cfg].body \union delta \union InTransit) = {}

(* A load that takes its lock outside the windows gets every live change   *)
(* that was saved before it read the delta file, although it reads the two *)
(* files one after the other while commits move changes between them.      *)
LoadSeesSaved ==
  [][\A p \in Proc : uci_file_load_delta(p) /\ ~stale[p] /\ ~hit
       => Live \subseteq pkg'[p]]_vars

(* No call waits for ever: the lock order config file, delta file is kept  *)
(* by uci_load, uci_commit and uci_revert, and every path unlocks.         *)
EveryCallReturns ==
  \A p \in Proc : pc[p] \notin {"out", "in"} ~> pc[p] \in {"out", "in"}

-----------------------------------------------------------------------------
(***************************************************************************)
(* The inductive invariant from which the proofs derive the properties     *)
(***************************************************************************)

(* Where a process holds the exclusive lock of uci_file_commit, and where  *)
(* it is between that lock and the end of the call.                        *)
Exclusive == {"reload", "read", "truncate", "tmp", "export", "close"}
Committing == Exclusive \union {"rename"}

(* What the program counter says of the locks, the files and the memory of *)
(* a process.                                                              *)
PcInv ==
  \A p \in Proc :
    /\ fd[p] # 0 <=> pc[p] \in Exclusive \union {"loadLock", "loadDelta", "loadClose", "lock"}
    /\ mode[p] = "ex" <=> pc[p] \in Exclusive
    /\ mode[p] = "sh" <=> pc[p] \in {"loadDelta", "loadClose"}
    /\ tmp[p] # 0 => pc[p] \in {"export", "close", "rename"}
    /\ pc[p] \in {"export", "rename"} => tmp[p] # 0
    /\ list[p] # {} => pc[p] = "rewrite"
    /\ own[p] # {} => pc[p] \in {"in", "lock", "reload", "close"} /\ tracked[p] /\ tmp[p] = 0
    /\ pc[p] \in {"in", "loadDelta", "loadClose", "reload", "read", "truncate",
                  "filter", "rewrite", "reopen"} => tracked[p]
    /\ pc[p] = "close" /\ tmp[p] = 0 => ~changes[p]
    /\ pc[p] \in {"reload", "read"} => ~changes[p]

(* While a process rewrites the delta file, it is empty and locked.        *)
RewriteInv ==
  \A p \in Proc : pc[p] = "rewrite" => delta = {} /\ DeltaFree(p)

(* p will rename a file with what is in its memory.                        *)
Exporting(p) == pc[p] \in {"tmp", "export"} \/ tmp[p] # 0

(* The file that a process will rename is complete, and neither the config *)
(* file nor that of another process.                                       *)
TmpInv ==
  /\ \A p, q \in Proc : p # q /\ tmp[p] # 0 => tmp[p] # tmp[q]
  /\ \A p \in Proc : tmp[p] # cfg
  /\ ~cut => /\ file[cfg].whole
             /\ \A p \in Proc : tmp[p] # 0 /\ pc[p] # "export"
                  => file[tmp[p]] = [body |-> pkg[p], whole |-> TRUE]

(* A change that is not yet saved is in no file and belongs to one         *)
(* process; what the delta file holds is neither imported nor an overlay.  *)
Outside == Overlay \union Importable

FreshInv ==
  /\ \A n \in 1..Len(file) : file[n].body \subseteq saved \union Outside
  /\ delta \subseteq saved \ Outside
  /\ reverted \subseteq saved \ Outside
  /\ \A p \in Proc :
       /\ own[p] \intersect (saved \union Outside) = {}
       /\ list[p] \subseteq saved \ Outside
       /\ pkg[p] \subseteq saved \union Outside \union own[p]
       /\ ~tracked[p] => pkg[p] \subseteq Importable
       /\ \A q \in Proc \ {p} : own[p] \intersect own[q] = {}

(* What a file holds, or will hold, is no longer in the delta file.        *)
OnceInv ==
  DeltaWritable =>
    /\ \A n \in 1..Len(file) : file[n].body \intersect Waiting = {}
    /\ \A p \in Proc : pc[p] = "read" \/ Exporting(p) => pkg[p] \intersect Waiting = {}

(* Outside the windows one process at a time commits, on the file that the *)
(* config path names, and no load overlaps it.                             *)
LockInv ==
  ~hit =>
    /\ ~cut
    /\ \A p, q \in Proc : p # q /\ pc[p] \in Committing => pc[q] \notin Committing
    /\ \A p \in Proc : pc[p] \in Exclusive => fd[p] = cfg
    /\ \A p \in Proc : pc[p] = "loadDelta" /\ ~stale[p]
         => fd[p] = cfg /\ \A q \in Proc : pc[q] \notin Committing

(* Outside the windows a process has in memory all that it will replace,   *)
(* and all that it will truncate.                                          *)
CarryInv ==
  ~hit =>
    \A p \in Proc :
      /\ pc[p] \in {"read", "truncate"} => file[cfg].body \subseteq pkg[p]
      /\ Exporting(p) /\ tracked[p] => file[cfg].body \subseteq pkg[p]
      /\ pc[p] = "loadDelta" /\ ~stale[p] => file[cfg].body \subseteq pkg[p]
      /\ pc[p] = "truncate" => Accepted(Waiting) \subseteq pkg[p]

(* Outside the windows no committing process holds what was reverted.      *)
RevertInv ==
  DeltaWritable /\ ~hit =>
    /\ reverted \intersect (file[cfg].body \union Waiting) = {}
    /\ \A p \in Proc : pc[p] \in {"read", "truncate"} \/ Exporting(p)
         => reverted \intersect pkg[p] = {}

(* What a process is to import is one change of the stream, and what it    *)
(* is to export otherwise holds a change of the delta file.  Outside the   *)
(* windows, and without overlays, it has in memory nothing but the config  *)
(* file and the delta file that it will truncate.                          *)
TakeInv ==
  \A p \in Proc :
    /\ pc[p] \in Unlinked \union {"lock"} /\ ~tracked[p] => \E c \in Importable : pkg[p] = {c}
    /\ Exporting(p) /\ tracked[p] => changes[p]
    /\ ~hit /\ pc[p] = "read" => pkg[p] \subseteq file[cfg].body
    /\ ~hit /\ pc[p] = "truncate" /\ NoOverlay
         => /\ pkg[p] \subseteq file[cfg].body \union Accepted(Waiting)
            /\ changes[p] => Accepted(Waiting) # {}

(* The invariant that the steps of uci_load, uci_save, uci_commit,         *)
(* uci_revert, import and crashes preserve.                                *)
IInv ==
  /\ TypeOK /\ PcInv /\ RewriteInv /\ TmpInv /\ FreshInv /\ OnceInv
  /\ LockInv /\ CarryInv /\ OnlyWindowsLose /\ RevertInv /\ TakeInv

-----------------------------------------------------------------------------
(***************************************************************************)
(* Outside the windows the calls are atomic                                *)
(***************************************************************************)

Atomic == INSTANCE UciAtomic WITH
  committed <- file[cfg].body \union Flushed,
  pending <- Waiting

(* Outside the windows the interleaved steps of uci_save, uci_commit,      *)
(* uci_revert and import look like single steps on one shared package: a   *)
(* commit and a revert take effect when they truncate the delta file.      *)
CallsAreAtomic ==
  Atomic!Init /\ [][hit' \/ Atomic!Next]_<<file[cfg].body \union Flushed, Waiting>>

-----------------------------------------------------------------------------
(***************************************************************************)
(* What comments and the documentation say, and the code does not do       *)
(***************************************************************************)

(* file.c: "open the config file for writing now, so that it is locked".   *)
(* The process that holds the exclusive lock of uci_file_commit holds the  *)
(* one of the file that the config path names.                             *)
CommitLocksConfig == \A p \in Proc : mode[p] = "ex" => fd[p] = cfg

(* uci.h, uci_add_delta_path: "'overlays' for the active config, that will *)
(* never be committed".                                                    *)
OverlayNeverCommitted == file[cfg].body \intersect Overlay = {}

=============================================================================
