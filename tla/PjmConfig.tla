------------------------------ MODULE PjmConfig ------------------------------
(***************************************************************************)
(* amPjmConfigAccess.sh: scripts that save a projector configuration file  *)
(* from shared memory, or load it, under a lock file /tmp/<name>.lock.     *)
(*                                                                         *)
(* A line of a configuration file is blank, a comment, or stands for the   *)
(* instance it sets; what matters of its text is which names grep finds in *)
(* it.  A write that stops short may leave a part of a line, which has no  *)
(* newline: the next line of the file is then the rest of the same line.   *)
(* The reference file is written as a whole and ends with a newline.       *)
(* am_config.app, which copies between the file and shared memory, is      *)
(* external: here it is the time during which a script needs the lock.     *)
(***************************************************************************)
EXTENDS Naturals, Sequences, FiniteSets, SeqFilter

CONSTANTS
  Script,    \* the running scripts
  Key,       \* the configuration instances, and the lines that set them
  Comment,   \* the lines that begin with #
  Blank,     \* the blank line
  Part,      \* the parts of lines
  Cut,       \* of each line, the parts of it that a write may leave
  Ref,       \* the lines of the reference file, in order
  Given,     \* the configuration files there may be to begin with
  Inside,    \* <<k, l>>: grep finds the name of instance k in l
  Tries,     \* how often the lock file is looked for before giving up
  MaxRuns,   \* bound: how many calls are made
  MayDie,    \* whether scripts may be killed, and the system restarted
  MayFail    \* whether touch, cp, >> and rm may fail

Line == Key \union Comment \union {Blank}
Piece == Line \union Part

ASSUME PjmAssumption ==
  /\ Key \intersect Comment = {} /\ Blank \notin Key \union Comment
  /\ Part \intersect Line = {} /\ Cut \in [Line -> SUBSET Part]
  /\ Ref \in Seq(Line) /\ \A f \in Given : f \in Seq(Piece)
  /\ Inside \subseteq Key \X (Piece \ {Blank})
  /\ \A k \in Key : <<k, k>> \in Inside
  /\ Tries \in Nat /\ MaxRuns \in Nat /\ MayDie \in BOOLEAN /\ MayFail \in BOOLEAN

VARIABLES
  lock,   \* whether the lock file exists
  exists, \* whether the configuration file exists
  file,   \* its lines and parts of lines
  pc,     \* where each script is
  op,     \* its call: save all or one instance, load without or with a reference file
  i,      \* the counter of the lock loop
  line,   \* the line of the reference file it is at
  runs,   \* how many calls were made
  hit,    \* history: a script found no lock file while another was about to make it
  failed  \* history: a cp or >> of its present load failed

vars == <<lock, exists, file, pc, op, i, line, runs, hit, failed>>

Ops == {"save", "saveOne", "load", "loadRef"}
PCs == {"idle", "try", "touch", "recheck", "begin", "cp", "copy", "grep", "append", "app", "rm"}

(* Between the check that finds no lock file and the return of             *)
(* func_lockFile; and between that return and the rm of the lock file.     *)
Entering == {"touch", "recheck"}
Locked == {"begin", "cp", "copy", "grep", "append", "app", "rm"}

Init ==
  /\ lock = FALSE
  /\ exists \in BOOLEAN
  /\ file \in IF exists THEN Given ELSE {<<>>}
  /\ pc = [s \in Script |-> "idle"]
  /\ op = [s \in Script |-> "save"]
  /\ i = [s \in Script |-> 0]
  /\ line = [s \in Script |-> 0]
  /\ failed = [s \in Script |-> FALSE]
  /\ runs = 0
  /\ hit = FALSE

Goto(s, l) == pc' = [pc EXCEPT ![s] = l]

(* The scripts of S end: their variables are as if they had not run.       *)
End(S) ==
  /\ pc' = [s \in Script |-> IF s \in S THEN "idle" ELSE pc[s]]
  /\ op' = [s \in Script |-> IF s \in S THEN "save" ELSE op[s]]
  /\ i' = [s \in Script |-> IF s \in S THEN 0 ELSE i[s]]
  /\ line' = [s \in Script |-> IF s \in S THEN 0 ELSE line[s]]
  /\ failed' = [s \in Script |-> IF s \in S THEN FALSE ELSE failed[s]]

(* The lines that grep finds in f.                                         *)
Matching(k, f) == Filter(f, {l \in Piece : <<k, l>> \in Inside})

(* What a write of the lines w leaves when it stops short: some of them,   *)
(* and perhaps a part of the next one.                                     *)
Cuts(w) ==
  UNION {{SubSeq(w, 1, n)} \union {Append(SubSeq(w, 1, n), p) : p \in Cut[w[n + 1]]} :
           n \in 0..Len(w) - 1}

Fails(s) == failed' = [failed EXCEPT ![s] = TRUE]

-----------------------------------------------------------------------------
(* func_saveConfigFile gives up before it locks if there is no file.       *)
main(s, o) ==
  /\ pc[s] = "idle"
  /\ runs < MaxRuns
  /\ runs' = runs + 1
  /\ IF o \in {"save", "saveOne"} /\ ~exists
       THEN UNCHANGED <<pc, op>>
       ELSE Goto(s, "try") /\ op' = [op EXCEPT ![s] = o]
  /\ UNCHANGED <<lock, exists, file, i, line, hit, failed>>

(* The lock file is not found, perhaps as another script is to make it.    *)
NotFound(s) ==
  /\ Goto(s, "touch")
  /\ hit' = (hit \/ \E t \in Script \ {s} : pc[t] \in Entering)
  /\ UNCHANGED <<op, i, line, failed>>

(* It is looked for again after a while.                                   *)
Sleep(s) ==
  /\ i' = [i EXCEPT ![s] = @ + 1]
  /\ UNCHANGED <<pc, op, line, failed, hit>>

(* Mutant: the loop looks once more after the time is up.                  *)
lock_check_late(s) ==
  /\ pc[s] = "try"
  /\ \/ i[s] > Tries /\ End({s}) /\ UNCHANGED hit
     \/ i[s] <= Tries /\ lock /\ Sleep(s)
     \/ i[s] <= Tries /\ ~lock /\ NotFound(s)
  /\ UNCHANGED <<lock, exists, file, runs>>

(* Mutant: the loop does not count the times it has slept.                 *)
lock_check_forever(s) ==
  /\ pc[s] = "try"
  /\ \/ lock /\ UNCHANGED <<pc, op, i, line, failed, hit>>
     \/ ~lock /\ NotFound(s)
  /\ UNCHANGED <<lock, exists, file, runs>>

(* One turn of the loop of func_lockFile: time out, sleep, or go on.       *)
func_lockFile_check(s) ==
  /\ pc[s] = "try"
  /\ \/ i[s] >= Tries /\ End({s}) /\ UNCHANGED hit
     \/ i[s] < Tries /\ lock /\ Sleep(s)
     \/ i[s] < Tries /\ ~lock /\ NotFound(s)
  /\ UNCHANGED <<lock, exists, file, runs>>

(* Mutant: the lock file is not made.                                      *)
lock_touch_missing(s) ==
  /\ pc[s] = "touch"
  /\ Goto(s, "begin")
  /\ UNCHANGED <<lock, exists, file, op, i, line, runs, hit, failed>>

(* Whether touch fails is not looked at.                                   *)
func_lockFile_touch(s) ==
  /\ pc[s] = "touch"
  /\ lock' = TRUE \/ (MayFail /\ UNCHANGED lock)
  /\ Goto(s, "recheck")
  /\ UNCHANGED <<exists, file, op, i, line, runs, hit, failed>>

(* There is no lock file: "create lock File failed".                       *)
func_lockFile_recheck(s) ==
  /\ pc[s] = "recheck"
  /\ IF lock THEN Goto(s, "begin") /\ UNCHANGED <<op, i, line, failed>>
             ELSE End({s})
  /\ UNCHANGED <<lock, exists, file, runs, hit>>

-----------------------------------------------------------------------------
(* The locked part of a save runs am_config.app, unless it is to save one  *)
(* instance that no line of the file begins with.                          *)
func_saveConfigFile_begin(s) ==
  /\ pc[s] = "begin"
  /\ \/ op[s] = "save" /\ Goto(s, "app")
     \/ op[s] = "saveOne" /\ (\E k \in Key : Matching(k, file) # <<>>) /\ Goto(s, "app")
     \/ op[s] = "saveOne" /\ Goto(s, "rm")
  /\ UNCHANGED <<lock, exists, file, op, i, line, runs, hit, failed>>

(* The locked part of a load looks for the file, or for the reference file *)
(* (which may be missing) and then for the file; cp creates the file.      *)
func_loadConfigFile_begin(s) ==
  /\ pc[s] = "begin"
  /\ line' = [line EXCEPT ![s] = 1] /\ failed' = [failed EXCEPT ![s] = FALSE]
  /\ \/ op[s] = "load" /\ Goto(s, IF exists THEN "app" ELSE "rm")
     \/ op[s] = "loadRef" /\ Goto(s, "rm")
     \/ op[s] = "loadRef" /\ Goto(s, IF exists THEN "grep" ELSE "cp")
  /\ UNCHANGED <<lock, exists, file, op, i, runs, hit>>

(* cp creates the file; whether it fails is not looked at.                 *)
func_loadConfigFile_cp(s) ==
  /\ pc[s] = "cp"
  /\ \/ /\ exists' = TRUE /\ file' = <<>>
        /\ Goto(s, "copy")
        /\ UNCHANGED failed
     \/ /\ MayFail /\ Fails(s)
        /\ Goto(s, "app")
        /\ UNCHANGED <<exists, file>>
  /\ UNCHANGED <<lock, op, i, line, runs, hit>>

(* It writes the lines.  A kill during the write is a write that stops     *)
(* short and a kill after it.                                              *)
func_loadConfigFile_copy(s) ==
  /\ pc[s] = "copy"
  /\ \/ file' = Ref /\ UNCHANGED failed
     \/ MayFail /\ file' \in Cuts(Ref) /\ Fails(s)
  /\ Goto(s, "app")
  /\ UNCHANGED <<lock, exists, op, i, line, runs, hit>>

(* Mutant: the line is not looked for, and copied in any case.             *)
append_always(s) ==
  /\ pc[s] = "grep"
  /\ Goto(s, IF line[s] > Len(Ref) THEN "app" ELSE "append")
  /\ UNCHANGED <<lock, exists, file, op, i, line, runs, hit, failed>>

(* The rest of the reference file has been read, or line n is next.        *)
ReadOn(s, n) == line' = [line EXCEPT ![s] = n]

(* Mutant: the loop ends when one instance has been found.                 *)
grep_breaks(s) ==
  /\ pc[s] = "grep"
  /\ \/ /\ \/ line[s] > Len(Ref)
           \/ Ref[line[s]] \in Key /\ Matching(Ref[line[s]], file) # <<>>
        /\ Goto(s, "app")
        /\ UNCHANGED line
     \/ /\ line[s] <= Len(Ref) /\ Ref[line[s]] \in Comment
        /\ ReadOn(s, line[s] + 1)
        /\ UNCHANGED pc
     \/ /\ line[s] <= Len(Ref)
        /\ \/ Ref[line[s]] \in Key /\ Matching(Ref[line[s]], file) = <<>>
           \/ Ref[line[s]] = Blank
        /\ Goto(s, "append")
        /\ UNCHANGED line
  /\ UNCHANGED <<lock, exists, file, op, i, runs, hit, failed>>

(* One line of the reference file: grep -q $substring $filepath.  For a    *)
(* blank line that is grep -q $filepath, which reads the reference file on *)
(* to a line that contains the path, or to its end and finds none.         *)
func_loadConfigFile_grep(s) ==
  /\ pc[s] = "grep"
  /\ \/ /\ line[s] > Len(Ref)
        /\ Goto(s, "app")
        /\ UNCHANGED line
     \/ /\ line[s] <= Len(Ref)
        /\ \/ Ref[line[s]] \in Comment
           \/ Ref[line[s]] \in Key /\ Matching(Ref[line[s]], file) # <<>>
        /\ ReadOn(s, line[s] + 1)
        /\ UNCHANGED pc
     \/ /\ line[s] < Len(Ref) /\ Ref[line[s]] = Blank
        /\ \E n \in line[s] + 2..Len(Ref) + 1 : ReadOn(s, n)
        /\ UNCHANGED pc
     \/ /\ line[s] <= Len(Ref)
        /\ \/ Ref[line[s]] \in Key /\ Matching(Ref[line[s]], file) = <<>>
           \/ Ref[line[s]] = Blank
        /\ Goto(s, "append")
        /\ UNCHANGED line
  /\ UNCHANGED <<lock, exists, file, op, i, runs, hit, failed>>

(* copyLine=$(grep $substring $refFilepath): nothing for a blank line, as  *)
(* grep has read all there is.                                             *)
copyLine(s) == IF Ref[line[s]] = Blank THEN <<Blank>> ELSE Matching(Ref[line[s]], Ref)

(* echo "$copyLine" >> $filepath: whether it fails is not looked at.       *)
func_loadConfigFile_append(s) ==
  /\ pc[s] = "append"
  /\ \/ file' = file \o copyLine(s) /\ UNCHANGED failed
     \/ MayFail /\ (\E w \in Cuts(copyLine(s)) : file' = file \o w) /\ Fails(s)
  /\ ReadOn(s, IF Ref[line[s]] = Blank THEN Len(Ref) + 1 ELSE line[s] + 1)
  /\ Goto(s, "grep")
  /\ UNCHANGED <<lock, exists, op, i, runs, hit>>

(* am_config.app -s or -l returns.                                         *)
am_config_app(s) ==
  /\ pc[s] = "app"
  /\ Goto(s, "rm")
  /\ UNCHANGED <<lock, exists, file, op, i, line, runs, hit, failed>>

(* rm $g_amPjmCfgLock, whoever made it; an error of rm is ignored.         *)
func_rmLock(s) ==
  /\ pc[s] = "rm"
  /\ lock' = FALSE \/ (MayFail /\ UNCHANGED lock)
  /\ End({s})
  /\ UNCHANGED <<exists, file, runs, hit>>

(* A killed script leaves its lock file.                                   *)
Killed(s) ==
  /\ MayDie
  /\ pc[s] # "idle"
  /\ End({s})
  /\ UNCHANGED <<lock, exists, file, runs, hit>>

(* A restart of the system: no script runs, and /tmp is empty.             *)
Restart ==
  /\ MayDie
  /\ lock' = FALSE
  /\ End(Script)
  /\ UNCHANGED <<exists, file, runs, hit>>

Step(s) ==
  \/ func_lockFile_check(s) \/ func_lockFile_touch(s) \/ func_lockFile_recheck(s)
  \/ func_saveConfigFile_begin(s) \/ func_loadConfigFile_begin(s)
  \/ func_loadConfigFile_cp(s) \/ func_loadConfigFile_copy(s)
  \/ func_loadConfigFile_grep(s) \/ func_loadConfigFile_append(s)
  \/ am_config_app(s) \/ func_rmLock(s)

Next == \/ \E s \in Script : Step(s) \/ Killed(s) \/ \E o \in Ops : main(s, o)
        \/ Restart

Spec == Init /\ [][Next]_vars

(* A script that runs goes on: nothing it does waits without a timeout.    *)
FairSpec == Spec /\ \A s \in Script : WF_vars(Step(s))

-----------------------------------------------------------------------------
(***************************************************************************)
(* Properties                                                              *)
(***************************************************************************)

(* Every variable has its type.                                            *)
TypeOK ==
  /\ lock \in BOOLEAN /\ exists \in BOOLEAN /\ hit \in BOOLEAN
  /\ file \in Seq(Piece)
  /\ pc \in [Script -> PCs]
  /\ op \in [Script -> Ops]
  /\ i \in [Script -> 0..Tries]
  /\ line \in [Script -> 0..Len(Ref) + 1]
  /\ runs \in 0..MaxRuns
  /\ failed \in [Script -> BOOLEAN]

(* "return 0, lock success": of the scripts for which func_lockFile        *)
(* returned 0 only one is between that and its rm.                         *)
OneHolder == \A s, t \in Script : pc[s] \in Locked /\ pc[t] \in Locked => s = t

(* The lock file excludes other scripts, and is there as long as a script  *)
(* relies on it, unless a script found none while another was about to     *)
(* make it: kills, restarts, time-outs, and a touch or rm that fails do    *)
(* not break it.                                                           *)
LockExcludes ==
  hit \/ /\ OneHolder
         /\ \A s \in Script : pc[s] \in Locked => lock

(* No comment and no line of an instance is twice in f.                    *)
OnceEach(f) ==
  \A m, n \in 1..Len(f) : f[m] = f[n] /\ f[m] \in Key \union Comment => m = n

SetOnce == \A f \in Given \union {Ref} : OnceEach(f)

(* Unless the lock was broken or a file had a line twice to begin with,    *)
(* func_loadConfigFile never makes a line double, also when earlier writes *)
(* stopped short: a line is appended only if no line of the file contains  *)
(* its instance, and so none of the lines that grep copies with it is      *)
(* there.  Blank lines and parts of lines may come again.                  *)
NoDoubleLine == ~hit /\ SetOnce => OnceEach(file)

(* The instances that the reference file sets before its first blank line. *)
Merged == {m \in 1..Len(Ref) : Ref[m] \in Key /\ \A n \in 1..m : Ref[n] # Blank}

(* Unless the lock was broken, when a load that merged the reference file, *)
(* and whose own cp and >> did not fail, calls am_config.app, grep finds   *)
(* in the configuration file every instance that the reference file sets   *)
(* before its first blank line, whatever earlier loads left that failed or *)
(* were killed: as a line of its own, or as a part of another name, of a   *)
(* comment or of a line that was cut.  Behind a blank line nothing is      *)
(* promised: it ends the merge.                                            *)
MergeCoversRef ==
  hit \/ \A s \in Script : pc[s] = "app" /\ op[s] = "loadRef" /\ ~failed[s]
           => \A m \in Merged : Matching(Ref[m], file) # <<>>

(* Every call ends, a stale lock file of a killed script notwithstanding.  *)
EveryScriptEnds == \A s \in Script : pc[s] # "idle" ~> pc[s] = "idle"

-----------------------------------------------------------------------------
(* The inductive invariant behind LockExcludes: outside the race one       *)
(* script at a time is past the check of func_lockFile, the lock file is   *)
(* missing until it touches it and there until it removes it.              *)
LockInv ==
  ~hit =>
    /\ \A s, t \in Script :
         pc[s] \in Entering \union Locked /\ pc[t] \in Entering \union Locked => s = t
    /\ \A s \in Script : pc[s] = "touch" => ~lock
    /\ \A s \in Script : pc[s] \in Locked => lock

(* The inductive invariant behind NoDoubleLine and MergeCoversRef: the     *)
(* loop is at a line of the reference file, and outside the race the file  *)
(* has what grep looks for in the lines before unless a write failed, and  *)
(* still lacks the instance that is about to be appended.                  *)
LineInv ==
  \A s \in Script : /\ pc[s] = "grep" => line[s] \in 1..Len(Ref) + 1
                    /\ pc[s] = "append" => /\ line[s] \in 1..Len(Ref)
                                           /\ Ref[line[s]] \in Key \union {Blank}

(* What the first n lines of the reference file set is found in the file.  *)
Covered(n) == \A m \in Merged : m <= n => Matching(Ref[m], file) # <<>>

MergeInv ==
  ~hit => \A s \in Script :
            /\ pc[s] \in {"grep", "append"} /\ ~failed[s] => Covered(line[s] - 1)
            /\ pc[s] = "append" /\ Ref[line[s]] \in Key
                 => Matching(Ref[line[s]], file) = <<>>

=============================================================================
