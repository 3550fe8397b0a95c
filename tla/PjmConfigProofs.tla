--------------------------- MODULE PjmConfigProofs ---------------------------
(***************************************************************************)
(* The lock file of amPjmConfigAccess.sh and the merge of the reference    *)
(* file under it, for any number of scripts, tries and calls, any set of   *)
(* instances and any reference file.                                       *)
(***************************************************************************)
EXTENDS PjmConfig, SeqInduction

USE ZenonT(5), SMTT(20), ZenonT(60)

USE DEF Goto, PCs, Ops, Locked, Entering

(* Every variable has its type; one script at most is past the check of    *)
(* func_lockFile, with the lock file there from its touch to its rm; and   *)
(* what that script knows of the configuration file still holds.           *)
IInv == TypeOK /\ LockInv /\ LineInv /\ MergeInv /\ NoDoubleLine /\ MergeCoversRef

-----------------------------------------------------------------------------
(* The reference file has lines.                                           *)
LEMMA RefType == Ref \in Seq(Line) /\ Ref \in Seq(Piece) /\ Len(Ref) \in Nat
<1>1. Ref \in Seq(Line)
  BY PjmAssumption
<1>2. Line \subseteq Piece
  BY DEF Piece
<1>. QED
  BY <1>1, <1>2

(* The bounds of the loops are numbers.                                    *)
LEMMA Bounds == Len(Ref) \in Nat /\ Tries \in Nat /\ MaxRuns \in Nat
<1>. QED
  BY RefType, PjmAssumption

(* grep finds nothing exactly if no line contains the instance.            *)
LEMMA MatchingEmpty ==
  ASSUME NEW f \in Seq(Piece), NEW k
  PROVE  Matching(k, f) = <<>> <=> \A n \in 1..Len(f) : <<k, f[n]>> \notin Inside
<1>. DEFINE T == {l \in Piece : <<k, l>> \in Inside}
            M == Filter(f, T)
<1>1. /\ M \in Seq(Piece)
      /\ \A m \in 1..Len(M) : M[m] \in T /\ \E n \in 1..Len(f) : f[n] = M[m]
      /\ \A n \in 1..Len(f) : f[n] \in T => \E m \in 1..Len(M) : M[m] = f[n]
  <2>. HIDE DEF T
  <2>. QED
    BY FilterItems
<1>2. \A n \in 1..Len(f) : f[n] \in T <=> <<k, f[n]>> \in Inside
  OBVIOUS
<1>. HIDE DEF T, M
<1>3. M = <<>> <=> \A n \in 1..Len(f) : f[n] \notin T
  <2>1. ASSUME M = <<>>, NEW n \in 1..Len(f)
        PROVE  f[n] \notin T
    BY <1>1, <2>1
  <2>2. ASSUME M # <<>>
        PROVE  \E n \in 1..Len(f) : f[n] \in T
    <3>1. 1 \in 1..Len(M)
      BY <1>1, <2>2
    <3>. QED
      BY <1>1, <3>1
  <2>. QED
    BY <2>1, <2>2
<1>. QED
  BY <1>2, <1>3 DEF M, T, Matching

(* What grep copies from the reference file: lines that contain the        *)
(* instance, each of them once if the reference file has no line twice.    *)
LEMMA MatchingRef ==
  ASSUME NEW k \in Key
  PROVE  /\ Matching(k, Ref) \in Seq(Line)
         /\ \A m \in 1..Len(Matching(k, Ref)) : <<k, Matching(k, Ref)[m]>> \in Inside
         /\ OnceEach(Ref) => OnceEach(Matching(k, Ref))
<1>. DEFINE T == {l \in Piece : <<k, l>> \in Inside}
            M == Filter(Ref, T)
<1>1. M \in Seq(Line) /\ \A m \in 1..Len(M) : M[m] \in T
  <2>. HIDE DEF T
  <2>. QED
    BY RefType, FilterItems
<1>2. ASSUME OnceEach(Ref) PROVE OnceEach(M)
  <2>1. \A n \in 1..Len(Ref) : Ref[n] \in Line
    BY RefType
  <2>2. \A n \in 1..Len(Ref) : Ref[n] \in T => Ref[n] \in Key \union Comment
    BY <2>1, PjmAssumption DEF Line
  <2>3. \A m, n \in 1..Len(Ref) : Ref[m] = Ref[n] /\ Ref[m] \in T => m = n
    BY <1>2, <2>2 DEF OnceEach
  <2>. HIDE DEF T
  <2>4. \A m, n \in 1..Len(M) : M[m] = M[n] => m = n
    BY <2>3, RefType, FilterOnce
  <2>. QED
    BY <2>4 DEF OnceEach
<1>. QED
  BY <1>1, <1>2 DEF Matching

(* v is what a write of w leaves, as a whole or cut short.                 *)
Wrote(v, w) ==
  /\ v \in Seq(Piece)
  /\ \A n \in 1..Len(v) : v[n] \in Part \/ (n \in 1..Len(w) /\ v[n] = w[n])

(* A write of all lines.                                                   *)
LEMMA WroteAll ==
  ASSUME NEW w \in Seq(Line)
  PROVE  Wrote(w, w)
<1>1. Line \subseteq Piece
  BY DEF Piece
<1>. QED
  BY <1>1 DEF Wrote

(* A write that stops short.                                               *)
LEMMA WroteSome ==
  ASSUME NEW w \in Seq(Line), NEW v \in Cuts(w)
  PROVE  Wrote(v, w)
<1>1. PICK n \in 0..Len(w) - 1 :
        v \in {SubSeq(w, 1, n)} \union {Append(SubSeq(w, 1, n), p) : p \in Cut[w[n + 1]]}
  BY DEF Cuts
<1>. DEFINE u == SubSeq(w, 1, n)
<1>2. /\ u \in Seq(Line) /\ Len(u) = n /\ n \in Nat /\ n + 1 \in 1..Len(w)
      /\ \A m \in 1..n : m \in 1..Len(w) /\ u[m] = w[m]
  OBVIOUS
<1>3. Line \subseteq Piece /\ Part \subseteq Piece /\ Cut[w[n + 1]] \subseteq Part
  <2>1. w[n + 1] \in Line
    BY <1>2
  <2>. QED
    BY <2>1, PjmAssumption DEF Piece
<1>. HIDE DEF u
<1>4. u \in Seq(Piece)
  BY <1>2, <1>3
<1>5. CASE v = u
  BY <1>2, <1>4, <1>5 DEF Wrote
<1>6. ASSUME NEW p \in Cut[w[n + 1]], v = Append(u, p)
      PROVE  Wrote(v, w)
  <2>1. p \in Piece /\ p \in Part
    BY <1>3
  <2>2. /\ v \in Seq(Piece) /\ Len(v) = n + 1 /\ v[n + 1] = p
        /\ \A m \in 1..n : v[m] = u[m]
    BY <1>2, <1>4, <1>6, <2>1
  <2>3. \A m \in 1..n + 1 : m \in 1..n \/ m = n + 1
    BY <1>2
  <2>. QED
    BY <1>2, <2>1, <2>2, <2>3 DEF Wrote
<1>. QED
  BY <1>1, <1>5, <1>6 DEF u

(* What a write leaves has no line twice that w has not.                   *)
LEMMA WroteOnce ==
  ASSUME NEW w, NEW v, Wrote(v, w), OnceEach(w)
  PROVE  OnceEach(v)
<1>1. \A n \in 1..Len(v) : v[n] \in Key \union Comment => n \in 1..Len(w) /\ v[n] = w[n]
  BY PjmAssumption DEF Wrote, Line
<1>. QED
  BY <1>1 DEF OnceEach

-----------------------------------------------------------------------------
(* copyLine is a sequence of lines.                                        *)
LEMMA CopyType ==
  ASSUME LineInv, NEW s \in Script, pc[s] = "append"
  PROVE  copyLine(s) \in Seq(Line)
<1>1. Ref[line[s]] \in Key \union {Blank}
  BY DEF LineInv
<1>2. CASE Ref[line[s]] = Blank
  <2>1. Blank \in Line
    BY DEF Line
  <2>. QED
    BY <1>2, <2>1 DEF copyLine
<1>3. CASE Ref[line[s]] # Blank
  BY <1>1, <1>3, MatchingRef DEF copyLine
<1>. QED
  BY <1>2, <1>3

(* What append writes, and where the loop reads on.                        *)
LEMMA AppendDoes ==
  ASSUME TypeOK, LineInv, NEW s \in Script, func_loadConfigFile_append(s)
  PROVE  /\ pc[s] = "append" /\ line[s] \in 1..Len(Ref) /\ Ref[line[s]] \in Key \union {Blank}
         /\ \E v : /\ Wrote(v, copyLine(s)) /\ file' = file \o v
                   /\ \/ v = copyLine(s) /\ failed' = failed
                      \/ failed' = [failed EXCEPT ![s] = TRUE]
         /\ line' = [line EXCEPT ![s] = IF Ref[line[s]] = Blank THEN Len(Ref) + 1
                                                                ELSE line[s] + 1]
         /\ pc' = [pc EXCEPT ![s] = "grep"]
         /\ UNCHANGED <<lock, exists, op, i, runs, hit>>
<1>1. /\ pc[s] = "append" /\ line[s] \in 1..Len(Ref) /\ Ref[line[s]] \in Key \union {Blank}
      /\ copyLine(s) \in Seq(Line)
  BY CopyType DEF func_loadConfigFile_append, LineInv
<1>2. \E v : /\ Wrote(v, copyLine(s)) /\ file' = file \o v
             /\ \/ v = copyLine(s) /\ failed' = failed
                \/ failed' = [failed EXCEPT ![s] = TRUE]
  <2>1. CASE file' = file \o copyLine(s) /\ failed' = failed
    BY <1>1, <2>1, WroteAll
  <2>2. CASE (\E w \in Cuts(copyLine(s)) : file' = file \o w) /\ Fails(s)
    BY <1>1, <2>2, WroteSome DEF Fails
  <2>. QED
    BY <2>1, <2>2 DEF func_loadConfigFile_append
<1>. QED
  BY <1>1, <1>2 DEF func_loadConfigFile_append, ReadOn

(* What a turn of the merge does to the place in the reference file.       *)
LEMMA GrepDoes ==
  ASSUME TypeOK, LineInv, NEW s \in Script, func_loadConfigFile_grep(s)
  PROVE  /\ pc[s] = "grep" /\ line[s] \in 1..Len(Ref) + 1
         /\ UNCHANGED <<lock, exists, file, op, i, runs, hit, failed>>
         /\ \/ line[s] = Len(Ref) + 1 /\ pc' = [pc EXCEPT ![s] = "app"] /\ line' = line
            \/ /\ line[s] \in 1..Len(Ref) /\ pc' = pc
               /\ \/ Ref[line[s]] \in Comment
                  \/ Ref[line[s]] \in Key /\ Matching(Ref[line[s]], file) # <<>>
               /\ line' = [line EXCEPT ![s] = line[s] + 1]
            \/ /\ line[s] \in 1..Len(Ref) /\ Ref[line[s]] = Blank /\ pc' = pc
               /\ \E n \in 1..Len(Ref) + 1 : line' = [line EXCEPT ![s] = n]
            \/ /\ line[s] \in 1..Len(Ref) /\ pc' = [pc EXCEPT ![s] = "append"] /\ line' = line
               /\ \/ Ref[line[s]] \in Key /\ Matching(Ref[line[s]], file) = <<>>
                  \/ Ref[line[s]] = Blank
<1>. USE Bounds
<1>1. /\ pc[s] = "grep" /\ line[s] \in 1..Len(Ref) + 1
      /\ UNCHANGED <<lock, exists, file, op, i, runs, hit, failed>>
  BY DEF func_loadConfigFile_grep, LineInv
<1>2. /\ line[s] > Len(Ref) => line[s] = Len(Ref) + 1
      /\ line[s] <= Len(Ref) => line[s] \in 1..Len(Ref)
      /\ line[s] < Len(Ref) => line[s] \in 1..Len(Ref)
      /\ \A n \in line[s] + 2..Len(Ref) + 1 : n \in 1..Len(Ref) + 1
  BY <1>1
<1>. QED
  BY <1>1, <1>2 DEF func_loadConfigFile_grep, ReadOn

(* What cp and its writes do.                                              *)
LEMMA CopyDoes ==
  ASSUME NEW s \in Script, func_loadConfigFile_copy(s)
  PROVE  /\ pc[s] = "copy" /\ pc' = [pc EXCEPT ![s] = "app"] /\ Wrote(file', Ref)
         /\ \/ file' = Ref /\ failed' = failed
            \/ failed' = [failed EXCEPT ![s] = TRUE]
         /\ UNCHANGED <<lock, exists, op, i, line, runs, hit>>
<1>1. Wrote(file', Ref)
  BY RefType, WroteAll, WroteSome DEF func_loadConfigFile_copy
<1>. QED
  BY <1>1 DEF func_loadConfigFile_copy, Fails

(* cp creates the file or fails.                                           *)
LEMMA CreateDoes ==
  ASSUME NEW s \in Script, func_loadConfigFile_cp(s)
  PROVE  /\ pc[s] = "cp" /\ UNCHANGED <<lock, op, i, line, runs, hit>>
         /\ \/ pc' = [pc EXCEPT ![s] = "copy"] /\ failed' = failed /\ exists' = TRUE /\ file' = <<>>
            \/ /\ pc' = [pc EXCEPT ![s] = "app"] /\ failed' = [failed EXCEPT ![s] = TRUE]
               /\ exists' = exists /\ file' = file
  BY DEF func_loadConfigFile_cp, Fails

(* A turn of the loop of func_lockFile.                                    *)
LEMMA CheckDoes ==
  ASSUME NEW s \in Script, func_lockFile_check(s)
  PROVE  /\ pc[s] = "try" /\ UNCHANGED <<lock, exists, file, runs>>
         /\ \/ End({s}) /\ hit' = hit
            \/ /\ i[s] < Tries /\ i' = [i EXCEPT ![s] = i[s] + 1]
               /\ UNCHANGED <<pc, op, line, failed, hit>>
            \/ /\ ~lock /\ pc' = [pc EXCEPT ![s] = "touch"]
               /\ hit' = (hit \/ \E t \in Script \ {s} : pc[t] \in Entering)
               /\ UNCHANGED <<op, i, line, failed>>
  BY DEF func_lockFile_check, Sleep, NotFound

-----------------------------------------------------------------------------
(* Scripts that end keep the types.                                        *)
LEMMA EndType ==
  ASSUME TypeOK, LineInv, NEW S, End(S), lock' \in BOOLEAN, UNCHANGED <<exists, file, runs, hit>>
  PROVE  TypeOK' /\ LineInv'
<1>1. 0 \in 0..Tries /\ 0 \in 0..Len(Ref) + 1
  BY Bounds
<1>2. pc' \in [Script -> PCs] /\ op' \in [Script -> Ops] /\ failed' \in [Script -> BOOLEAN]
  BY DEF TypeOK, End
<1>3. i' \in [Script -> 0..Tries] /\ line' \in [Script -> 0..Len(Ref) + 1]
  BY <1>1 DEF TypeOK, End
<1>4. \A t \in Script : pc'[t] # "idle" => pc'[t] = pc[t] /\ line'[t] = line[t]
  BY DEF End
<1>5. LineInv'
  BY <1>4 DEF LineInv
<1>. QED
  BY <1>2, <1>3, <1>5 DEF TypeOK

(* Every step keeps the types, and the loops inside the reference file.    *)
LEMMA TypeStep ==
  ASSUME TypeOK, LineInv, NEW s \in Script,
         Step(s) \/ Killed(s) \/ \E o \in Ops : main(s, o)
  PROVE  TypeOK' /\ LineInv'
<1>. USE Bounds
<1>1. CASE func_lockFile_check(s)
  <2>1. UNCHANGED <<lock, exists, file, runs>>
    BY <1>1, CheckDoes
  <2>2. CASE End({s}) /\ hit' = hit
    BY <2>1, <2>2, EndType DEF TypeOK
  <2>3. CASE i[s] < Tries /\ i' = [i EXCEPT ![s] = i[s] + 1] /\ UNCHANGED <<pc, op, line, failed, hit>>
    <3>1. i \in [Script -> 0..Tries] /\ i[s] + 1 \in 0..Tries
      BY <2>3 DEF TypeOK
    <3>2. i' \in [Script -> 0..Tries]
      BY <2>3, <3>1
    <3>. QED
      BY <2>1, <2>3, <3>2 DEF TypeOK, LineInv
  <2>4. CASE /\ pc' = [pc EXCEPT ![s] = "touch"] /\ UNCHANGED <<op, i, line, failed>>
             /\ hit' = (hit \/ \E t \in Script \ {s} : pc[t] \in Entering)
    BY <2>1, <2>4 DEF TypeOK, LineInv
  <2>. QED
    BY <1>1, <2>2, <2>3, <2>4, CheckDoes
<1>2. CASE func_lockFile_touch(s)
  BY <1>2 DEF TypeOK, LineInv, func_lockFile_touch
<1>3. CASE func_lockFile_recheck(s)
  <2>1. UNCHANGED <<lock, exists, file, runs, hit>>
    BY <1>3 DEF func_lockFile_recheck
  <2>2. CASE End({s})
    BY <2>1, <2>2, EndType DEF TypeOK
  <2>3. CASE pc' = [pc EXCEPT ![s] = "begin"] /\ UNCHANGED <<op, i, line, failed>>
    BY <2>1, <2>3 DEF TypeOK, LineInv
  <2>. QED
    BY <1>3, <2>2, <2>3 DEF func_lockFile_recheck
<1>4. CASE func_saveConfigFile_begin(s)
  BY <1>4 DEF TypeOK, LineInv, func_saveConfigFile_begin
<1>5. CASE func_loadConfigFile_begin(s)
  <2>. UNCHANGED <<lock, exists, file, op, i, runs, hit>>
    BY <1>5 DEF func_loadConfigFile_begin
  <2>1. 1 \in 0..Len(Ref) + 1 /\ 1 \in 1..Len(Ref) + 1
    OBVIOUS
  <2>2. /\ line' = [line EXCEPT ![s] = 1] /\ line' \in [Script -> 0..Len(Ref) + 1]
        /\ failed' \in [Script -> BOOLEAN]
    BY <1>5, <2>1 DEF TypeOK, func_loadConfigFile_begin
  <2>3. pc' \in [Script -> PCs] /\ pc'[s] # "append"
    BY <1>5 DEF TypeOK, func_loadConfigFile_begin
  <2>4. \A t \in Script \ {s} : pc'[t] = pc[t]
    BY <1>5 DEF TypeOK, func_loadConfigFile_begin
  <2>. QED
    BY <2>1, <2>2, <2>3, <2>4 DEF TypeOK, LineInv
<1>6. CASE func_loadConfigFile_cp(s) \/ func_loadConfigFile_copy(s)
  <2>1. /\ file' = file \/ file' = <<>> \/ Wrote(file', Ref)
        /\ pc' = [pc EXCEPT ![s] = "copy"] \/ pc' = [pc EXCEPT ![s] = "app"]
        /\ failed' = failed \/ failed' = [failed EXCEPT ![s] = TRUE]
        /\ exists' = exists \/ exists' = TRUE
        /\ UNCHANGED <<lock, op, i, line, runs, hit>>
    BY <1>6, CreateDoes, CopyDoes
  <2>2. file' \in Seq(Piece)
    <3>1. file \in Seq(Piece) /\ <<>> \in Seq(Piece)
      BY DEF TypeOK
    <3>2. Wrote(file', Ref) => file' \in Seq(Piece)
      BY DEF Wrote
    <3>. QED
      BY <2>1, <3>1, <3>2
  <2>. QED
    BY <2>1, <2>2 DEF TypeOK, LineInv
<1>7. CASE func_loadConfigFile_grep(s)
  <2>1. UNCHANGED <<lock, exists, file, op, i, runs, hit, failed>> /\ pc[s] = "grep"
    BY <1>7, GrepDoes
  <2>2. \/ pc' = [pc EXCEPT ![s] = "app"] /\ line' = line
        \/ pc' = pc /\ \E n \in 1..Len(Ref) + 1 : line' = [line EXCEPT ![s] = n]
        \/ /\ pc' = [pc EXCEPT ![s] = "append"] /\ line' = line
           /\ line[s] \in 1..Len(Ref) /\ Ref[line[s]] \in Key \union {Blank}
    <3>1. line[s] \in 1..Len(Ref) => line[s] + 1 \in 1..Len(Ref) + 1
      OBVIOUS
    <3>. QED
      BY <1>7, <3>1, GrepDoes
  <2>3. \A n \in 1..Len(Ref) + 1 : n \in 0..Len(Ref) + 1
    OBVIOUS
  <2>4. TypeOK'
    BY <2>1, <2>2, <2>3 DEF TypeOK
  <2>5. LineInv'
    BY <2>1, <2>2 DEF TypeOK, LineInv
  <2>. QED
    BY <2>4, <2>5
<1>8. CASE func_loadConfigFile_append(s)
  <2>1. PICK v : Wrote(v, copyLine(s)) /\ file' = file \o v
    BY <1>8, AppendDoes
  <2>2. file' \in Seq(Piece)
    BY <2>1 DEF TypeOK, Wrote
  <2>3. /\ UNCHANGED <<lock, exists, op, i, runs, hit>> /\ pc' = [pc EXCEPT ![s] = "grep"]
        /\ failed' = failed \/ failed' = [failed EXCEPT ![s] = TRUE]
    BY <1>8, AppendDoes
  <2>4. \E n \in 1..Len(Ref) + 1 : line' = [line EXCEPT ![s] = n]
    <3>1. line[s] \in 1..Len(Ref)
      BY <1>8, AppendDoes
    <3>2. line[s] + 1 \in 1..Len(Ref) + 1 /\ Len(Ref) + 1 \in 1..Len(Ref) + 1
      BY <3>1
    <3>. QED
      BY <1>8, <3>2, AppendDoes
  <2>5. \A n \in 1..Len(Ref) + 1 : n \in 0..Len(Ref) + 1
    OBVIOUS
  <2>. QED
    BY <2>2, <2>3, <2>4, <2>5 DEF TypeOK, LineInv
<1>9. CASE am_config_app(s)
  BY <1>9 DEF TypeOK, LineInv, am_config_app
<1>10. CASE func_rmLock(s)
  <2>1. lock' \in BOOLEAN /\ End({s}) /\ UNCHANGED <<exists, file, runs, hit>>
    BY <1>10 DEF TypeOK, func_rmLock
  <2>. QED
    BY <2>1, EndType
<1>11. CASE Killed(s)
  <2>1. lock' \in BOOLEAN /\ End({s}) /\ UNCHANGED <<exists, file, runs, hit>>
    BY <1>11 DEF TypeOK, Killed
  <2>. QED
    BY <2>1, EndType
<1>12. CASE \E o \in Ops : main(s, o)
  <2>1. /\ pc' = pc \/ pc' = [pc EXCEPT ![s] = "try"]
        /\ op' = op \/ \E o \in Ops : op' = [op EXCEPT ![s] = o]
        /\ runs' = runs + 1 /\ runs < MaxRuns
        /\ UNCHANGED <<lock, exists, file, i, line, hit, failed>>
    BY <1>12 DEF main
  <2>2. runs' \in 0..MaxRuns
    BY <2>1 DEF TypeOK
  <2>3. pc' \in [Script -> PCs] /\ op' \in [Script -> Ops]
    BY <2>1 DEF TypeOK
  <2>4. LineInv'
    BY <2>1 DEF TypeOK, LineInv
  <2>. QED
    BY <2>1, <2>2, <2>3, <2>4 DEF TypeOK
<1>. QED
  BY <1>1, <1>2, <1>3, <1>4, <1>5, <1>6, <1>7, <1>8, <1>9, <1>10, <1>11, <1>12 DEF Step

-----------------------------------------------------------------------------
(***************************************************************************)
(* The lock                                                                *)
(***************************************************************************)

(* The part of the types that the lock depends on.                         *)
PcType == pc \in [Script -> PCs] /\ lock \in BOOLEAN /\ hit \in BOOLEAN

(* Scripts that end leave the lock to the others, or remove it if they had *)
(* it or if there are no others.                                           *)
LEMMA EndKeepsLock ==
  ASSUME PcType, LockInv, NEW S, End(S), hit' = hit,
         \/ lock' = lock
         \/ lock' = FALSE /\ \A t \in Script \ S : hit \/ pc[t] \notin Locked
  PROVE  LockInv'
<1>1. \A t \in Script : pc'[t] = "idle" \/ (t \notin S /\ pc'[t] = pc[t])
  BY DEF End
<1>. QED
  BY <1>1 DEF PcType, LockInv

(* A turn of the loop of func_lockFile lets a script in only if there is   *)
(* no lock file: then nobody else has it, and if another script is about   *)
(* to make it that is the race.                                            *)
LEMMA CheckKeepsLock ==
  ASSUME PcType, LockInv, NEW s \in Script, func_lockFile_check(s)
  PROVE  LockInv'
<1>. lock' = lock
  BY CheckDoes
<1>1. CASE pc' = pc /\ hit' = hit
  BY <1>1 DEF PcType, LockInv
<1>2. CASE End({s}) /\ hit' = hit
  BY <1>2, EndKeepsLock
<1>3. CASE /\ ~lock
           /\ pc' = [pc EXCEPT ![s] = "touch"]
           /\ hit' = (hit \/ \E t \in Script \ {s} : pc[t] \in Entering)
  <2>1. ASSUME ~hit'
        PROVE  \A t \in Script \ {s} : pc[t] \notin Entering \union Locked
    BY <1>3, <2>1 DEF LockInv
  <2>. QED
    BY <1>3, <2>1 DEF PcType, LockInv
<1>. QED
  BY <1>1, <1>2, <1>3, CheckDoes

(* Each step of a script that is past the check keeps the lock, and so do  *)
(* a kill and a new call.                                                  *)
LEMMA LockStep ==
  ASSUME PcType, LockInv, NEW s \in Script,
         Step(s) \/ Killed(s) \/ \E o \in Ops : main(s, o)
  PROVE  LockInv'
<1>1. CASE func_lockFile_check(s)
  BY <1>1, CheckKeepsLock
<1>2. CASE func_lockFile_touch(s)
  BY <1>2 DEF PcType, LockInv, func_lockFile_touch
<1>3. CASE func_lockFile_recheck(s)
  <2>1. CASE End({s})
    BY <1>3, <2>1, EndKeepsLock DEF func_lockFile_recheck
  <2>2. CASE lock /\ pc' = [pc EXCEPT ![s] = "begin"]
    BY <1>3, <2>2 DEF PcType, LockInv, func_lockFile_recheck
  <2>. QED
    BY <1>3, <2>1, <2>2 DEF func_lockFile_recheck
<1>4. CASE func_saveConfigFile_begin(s)
  BY <1>4 DEF PcType, LockInv, func_saveConfigFile_begin
<1>5. CASE func_loadConfigFile_begin(s)
  BY <1>5 DEF PcType, LockInv, func_loadConfigFile_begin
<1>6. CASE func_loadConfigFile_cp(s) \/ func_loadConfigFile_copy(s)
  BY <1>6 DEF PcType, LockInv, func_loadConfigFile_cp, func_loadConfigFile_copy
<1>7. CASE func_loadConfigFile_grep(s)
  BY <1>7 DEF PcType, LockInv, func_loadConfigFile_grep
<1>8. CASE func_loadConfigFile_append(s)
  BY <1>8 DEF PcType, LockInv, func_loadConfigFile_append
<1>9. CASE am_config_app(s)
  BY <1>9 DEF PcType, LockInv, am_config_app
<1>10. CASE func_rmLock(s)
  <2>1. \A t \in Script \ {s} : hit \/ pc[t] \notin Locked
    BY <1>10 DEF LockInv, func_rmLock
  <2>. QED
    BY <1>10, <2>1, EndKeepsLock DEF func_rmLock
<1>11. CASE Killed(s)
  BY <1>11, EndKeepsLock DEF Killed
<1>12. CASE \E o \in Ops : main(s, o)
  BY <1>12 DEF PcType, LockInv, main
<1>. QED
  BY <1>1, <1>2, <1>3, <1>4, <1>5, <1>6, <1>7, <1>8, <1>9, <1>10, <1>11, <1>12 DEF Step

-----------------------------------------------------------------------------
(***************************************************************************)
(* The merge                                                               *)
(***************************************************************************)

(* What is left of a write of w behind f makes no line double if f has no  *)
(* line of w.                                                              *)
LEMMA Appended ==
  ASSUME NEW f \in Seq(Piece), OnceEach(f), NEW w, NEW v, Wrote(v, w), OnceEach(w),
         \A m \in 1..Len(w), n \in 1..Len(f) : w[m] = f[n] => w[m] \notin Key \union Comment
  PROVE  OnceEach(f \o v)
<1>. DEFINE g == f \o v
            L == Key \union Comment
<1>1. /\ v \in Seq(Piece) /\ OnceEach(v)
      /\ \A m \in 1..Len(v), n \in 1..Len(f) : v[m] = f[n] => v[m] \notin L
  <2>1. \A m \in 1..Len(v) : v[m] \in L => m \in 1..Len(w) /\ v[m] = w[m]
    BY PjmAssumption DEF Wrote, Line
  <2>. QED
    BY <2>1, WroteOnce DEF Wrote
<1>2. /\ Len(g) = Len(f) + Len(v) /\ Len(f) \in Nat /\ Len(v) \in Nat
      /\ \A n \in 1..Len(f) : g[n] = f[n]
      /\ \A n \in (Len(f) + 1)..Len(g) : g[n] = v[n - Len(f)] /\ n - Len(f) \in 1..Len(v)
  BY <1>1
<1>. HIDE DEF g, L
<1>3. ASSUME NEW m \in 1..Len(g), NEW n \in 1..Len(g), g[m] = g[n], g[m] \in L
      PROVE  m = n
  <2>1. CASE m \in 1..Len(f) /\ n \in 1..Len(f)
    BY <1>2, <1>3, <2>1 DEF OnceEach, L
  <2>2. CASE m \in (Len(f) + 1)..Len(g) /\ n \in (Len(f) + 1)..Len(g)
    <3>1. /\ v[m - Len(f)] = v[n - Len(f)] /\ v[m - Len(f)] \in L
          /\ m - Len(f) \in 1..Len(v) /\ n - Len(f) \in 1..Len(v)
      BY <1>2, <1>3, <2>2
    <3>2. m - Len(f) = n - Len(f)
      BY <1>1, <3>1 DEF OnceEach, L
    <3>. QED
      BY <1>2, <3>2
  <2>3. CASE m \in 1..Len(f) /\ n \in (Len(f) + 1)..Len(g)
    BY <1>1, <1>2, <1>3, <2>3
  <2>4. CASE m \in (Len(f) + 1)..Len(g) /\ n \in 1..Len(f)
    BY <1>1, <1>2, <1>3, <2>4
  <2>. QED
    BY <1>2, <2>1, <2>2, <2>3, <2>4
<1>. QED
  BY <1>3 DEF OnceEach, g, L

(* What grep found before an append it still finds, and what it finds in   *)
(* the appended lines.                                                     *)
LEMMA AppendedCovers ==
  ASSUME NEW f \in Seq(Piece), NEW v \in Seq(Piece), NEW k,
         Matching(k, f) # <<>> \/ Matching(k, v) # <<>>
  PROVE  Matching(k, f \o v) # <<>>
<1>. DEFINE g == f \o v
<1>1. /\ g \in Seq(Piece)
      /\ \A m \in 1..Len(f) : m \in 1..Len(g) /\ g[m] = f[m]
      /\ \A m \in 1..Len(v) : m + Len(f) \in 1..Len(g) /\ g[m + Len(f)] = v[m]
  OBVIOUS
<1>. HIDE DEF g
<1>2. CASE Matching(k, f) # <<>>
  BY <1>1, <1>2, MatchingEmpty DEF g
<1>3. CASE Matching(k, v) # <<>>
  BY <1>1, <1>3, MatchingEmpty DEF g
<1>. QED
  BY <1>2, <1>3

(* grep finds in the reference file what it sets, and in what it copies.   *)
LEMMA RefCovers ==
  ASSUME NEW m \in 1..Len(Ref), Ref[m] \in Key
  PROVE  /\ Matching(Ref[m], Ref) # <<>>
         /\ Matching(Ref[m], Matching(Ref[m], Ref)) # <<>>
<1>. DEFINE M == Matching(Ref[m], Ref)
<1>1. M # <<>>
  BY RefType, MatchingEmpty, PjmAssumption
<1>2. M \in Seq(Line) /\ \A n \in 1..Len(M) : <<Ref[m], M[n]>> \in Inside
  BY MatchingRef
<1>. HIDE DEF M
<1>3. M \in Seq(Piece) /\ 1 \in 1..Len(M)
  BY <1>1, <1>2 DEF Piece
<1>4. Matching(Ref[m], M) # <<>>
  BY <1>2, <1>3, MatchingEmpty
<1>. QED
  BY <1>1, <1>4 DEF M

(* What the merge knows, in a state before any race.                       *)
Merging == MergeInv /\ NoDoubleLine /\ MergeCoversRef

Same(t) == pc'[t] = pc[t] /\ line'[t] = line[t] /\ op'[t] = op[t] /\ failed'[t] = failed[t]

(* A step that neither writes the file nor takes a script to the merge, or *)
(* past it, keeps what the scripts know.                                   *)
LEMMA Elsewhere ==
  ASSUME Merging, ~hit, file' = file,
         \A t \in Script :
           Same(t) \/ (pc'[t] \notin {"grep", "append"} /\ (pc'[t] = "app" => op'[t] # "loadRef"))
  PROVE  Merging'
<1>1. NoDoubleLine'
  BY DEF Merging, NoDoubleLine
<1>2. MergeCoversRef'
  BY DEF Merging, MergeCoversRef, Same
<1>3. MergeInv'
  BY DEF Merging, MergeInv, Covered, Same
<1>. QED
  BY <1>1, <1>2, <1>3 DEF Merging

(* Scripts that end do.                                                    *)
LEMMA EndMerges ==
  ASSUME Merging, ~hit, file' = file, NEW S, End(S)
  PROVE  Merging'
<1>1. \A t \in Script : Same(t) \/ pc'[t] = "idle"
  BY DEF End, Same
<1>. QED
  BY <1>1, Elsewhere

(* Outside the race the script that has the lock is the only one that has  *)
(* something to do with the file: it is enough to look at that one.        *)
LEMMA OnlyHolder ==
  ASSUME LockInv, NEW s \in Script, ~hit, pc[s] \in Locked,
         \A t \in Script \ {s} : pc'[t] = pc[t],
         pc'[s] \in {"grep", "append"} /\ ~failed'[s] => Covered(line[s] - 1)',
         pc'[s] = "append" /\ Ref[line'[s]] \in Key => Matching(Ref[line'[s]], file') = <<>>,
         pc'[s] = "app" /\ op'[s] = "loadRef" /\ ~failed'[s] =>
           \A m \in Merged : Matching(Ref[m], file') # <<>>,
         SetOnce => OnceEach(file')
  PROVE  Merging'
<1>1. \A t \in Script \ {s} : pc'[t] \notin Locked
  BY DEF LockInv
<1>2. MergeInv'
  BY <1>1 DEF MergeInv
<1>3. MergeCoversRef'
  BY <1>1 DEF MergeCoversRef
<1>. QED
  BY <1>2, <1>3 DEF Merging, NoDoubleLine

(* cp creates the file and writes the lines of the reference file.         *)
LEMMA CopyMerges ==
  ASSUME TypeOK, LockInv, Merging, NEW s \in Script, ~hit,
         func_loadConfigFile_cp(s) \/ func_loadConfigFile_copy(s)
  PROVE  Merging'
<1>1. CASE func_loadConfigFile_cp(s)
  <2>1. /\ pc[s] = "cp" /\ pc'[s] \in {"copy", "app"} /\ \A t \in Script \ {s} : pc'[t] = pc[t]
        /\ pc'[s] = "app" => failed'[s]
        /\ file' = file \/ file' = <<>>
    BY <1>1, CreateDoes DEF TypeOK
  <2>2. OnceEach(<<>>)
    <3>1. Len(<<>>) = 0
      OBVIOUS
    <3>. QED
      BY <3>1 DEF OnceEach
  <2>3. SetOnce => OnceEach(file')
    BY <2>1, <2>2 DEF Merging, NoDoubleLine
  <2>. QED
    BY <2>1, <2>3, OnlyHolder
<1>2. CASE func_loadConfigFile_copy(s)
  <2>1. /\ pc[s] = "copy" /\ pc'[s] = "app" /\ \A t \in Script \ {s} : pc'[t] = pc[t]
        /\ Wrote(file', Ref)
        /\ file' = Ref \/ failed'[s]
    BY <1>2, CopyDoes DEF TypeOK
  <2>2. SetOnce => OnceEach(file')
    BY <2>1, WroteOnce DEF SetOnce
  <2>3. file' = Ref => \A m \in Merged : Matching(Ref[m], file') # <<>>
    BY RefCovers DEF Merged
  <2>. QED
    BY <2>1, <2>2, <2>3, OnlyHolder
<1>. QED
  BY <1>1, <1>2

(* grep goes to the next line if the instance is found, and to the append  *)
(* if it is not; at a blank line it goes on, but no line that is promised  *)
(* comes behind one.                                                       *)
LEMMA GrepMerges ==
  ASSUME TypeOK, LockInv, LineInv, Merging, NEW s \in Script, ~hit,
         func_loadConfigFile_grep(s)
  PROVE  Merging'
<1>. USE Bounds
<1>1. /\ pc[s] = "grep" /\ UNCHANGED <<op, file, failed>> /\ line[s] \in 1..Len(Ref) + 1
      /\ ~failed[s] => Covered(line[s] - 1)
  BY GrepDoes DEF Merging, MergeInv
<1>2. SetOnce => OnceEach(file')
  BY <1>1 DEF Merging, NoDoubleLine
<1>3. \A n : (\A m \in Merged : m <= n => Matching(Ref[m], file') # <<>>) <=> Covered(n)
  BY <1>1 DEF Covered
<1>4. CASE line[s] = Len(Ref) + 1 /\ pc' = [pc EXCEPT ![s] = "app"] /\ line' = line
  <2>1. pc'[s] = "app" /\ \A t \in Script \ {s} : pc'[t] = pc[t]
    BY <1>4 DEF TypeOK
  <2>2. ~failed'[s] => \A m \in Merged : Matching(Ref[m], file') # <<>>
    <3>1. \A m \in Merged : m <= line[s] - 1
      BY <1>4 DEF Merged
    <3>. QED
      BY <1>1, <3>1 DEF Covered
  <2>. QED
    BY <1>1, <1>2, <2>1, <2>2, OnlyHolder
<1>5. CASE /\ line[s] \in 1..Len(Ref) /\ pc' = pc
           /\ \/ Ref[line[s]] \in Comment
              \/ Ref[line[s]] \in Key /\ Matching(Ref[line[s]], file) # <<>>
           /\ line' = [line EXCEPT ![s] = line[s] + 1]
  <2>1. line'[s] - 1 = line[s]
    BY <1>5 DEF TypeOK
  <2>2. ~failed[s] => Covered(line[s])
    <3>1. ASSUME NEW m \in Merged, m <= line[s]
          PROVE  m <= line[s] - 1 \/ (m = line[s] /\ Ref[line[s]] \in Key)
      BY <1>5, <3>1 DEF Merged
    <3>2. Ref[line[s]] \in Key => Matching(Ref[line[s]], file) # <<>>
      BY <1>5, PjmAssumption
    <3>. QED
      BY <1>1, <3>1, <3>2 DEF Covered
  <2>3. ~failed'[s] => Covered(line[s] - 1)'
    BY <1>1, <2>1, <2>2 DEF Covered
  <2>. QED
    BY <1>1, <1>2, <1>5, <2>3, OnlyHolder
<1>6. CASE /\ line[s] \in 1..Len(Ref) /\ Ref[line[s]] = Blank /\ pc' = pc
           /\ \E n \in 1..Len(Ref) + 1 : line' = [line EXCEPT ![s] = n]
  <2>1. \A m \in Merged : m <= line[s] - 1
    <3>1. \A m \in Merged : m \in 1..Len(Ref) /\ line[s] \notin 1..m
      BY <1>6 DEF Merged
    <3>. QED
      BY <1>6, <3>1
  <2>2. ~failed'[s] => Covered(line[s] - 1)'
    BY <1>1, <2>1 DEF Covered
  <2>. QED
    BY <1>1, <1>2, <1>6, <2>2, OnlyHolder
<1>7. CASE /\ line[s] \in 1..Len(Ref) /\ pc' = [pc EXCEPT ![s] = "append"] /\ line' = line
           /\ \/ Ref[line[s]] \in Key /\ Matching(Ref[line[s]], file) = <<>>
              \/ Ref[line[s]] = Blank
  <2>1. pc'[s] = "append" /\ \A t \in Script \ {s} : pc'[t] = pc[t]
    BY <1>7 DEF TypeOK
  <2>2. ~failed'[s] => Covered(line[s] - 1)'
    BY <1>1, <1>7 DEF Covered
  <2>3. Ref[line'[s]] \in Key => Matching(Ref[line'[s]], file') = <<>>
    BY <1>1, <1>7, PjmAssumption
  <2>. QED
    BY <1>1, <1>2, <2>1, <2>2, <2>3, OnlyHolder
<1>. QED
  BY <1>4, <1>5, <1>6, <1>7, GrepDoes

(* The append makes nothing double and, if it does not fail, leaves the    *)
(* line behind covered.                                                    *)
LEMMA AppendMerges ==
  ASSUME TypeOK, LockInv, LineInv, Merging, NEW s \in Script, ~hit,
         func_loadConfigFile_append(s)
  PROVE  Merging'
<1>. USE Bounds
<1>. DEFINE k == Ref[line[s]]
            w == copyLine(s)
<1>1. /\ pc[s] = "append" /\ line[s] \in 1..Len(Ref) /\ k \in Key \union {Blank}
      /\ line' = [line EXCEPT ![s] = IF k = Blank THEN Len(Ref) + 1 ELSE line[s] + 1]
      /\ pc' = [pc EXCEPT ![s] = "grep"]
  BY AppendDoes
<1>2. PICK v : /\ Wrote(v, w) /\ file' = file \o v
               /\ (v = w /\ failed' = failed) \/ failed' = [failed EXCEPT ![s] = TRUE]
  BY AppendDoes
<1>3. /\ ~failed[s] => Covered(line[s] - 1)
      /\ k \in Key => Matching(k, file) = <<>>
      /\ file \in Seq(Piece) /\ (SetOnce => OnceEach(file) /\ OnceEach(Ref))
  BY <1>1 DEF Merging, MergeInv, NoDoubleLine, SetOnce, TypeOK
<1>4. /\ pc'[s] = "grep" /\ \A t \in Script \ {s} : pc'[t] = pc[t]
      /\ line'[s] = IF k = Blank THEN Len(Ref) + 1 ELSE line[s] + 1
      /\ ~failed'[s] => v = w /\ ~failed[s]
  BY <1>1, <1>2 DEF TypeOK
<1>5. ASSUME SetOnce PROVE OnceEach(file')
  <2>1. CASE k = Blank
    <3>1. w = <<Blank>>
      BY <2>1 DEF copyLine
    <3>2. Len(w) = 1 /\ \A m \in 1..Len(w) : w[m] = Blank
      BY <3>1
    <3>3. OnceEach(w) /\ \A m \in 1..Len(w) : w[m] \notin Key \union Comment
      BY <3>2, PjmAssumption DEF OnceEach
    <3>. HIDE DEF w
    <3>. QED
      BY <1>2, <1>3, <1>5, <3>3, Appended
  <2>2. CASE k \in Key
    <3>1. w = Matching(k, Ref)
      BY <2>2, PjmAssumption DEF copyLine
    <3>2. OnceEach(w) /\ \A m \in 1..Len(w) : <<k, w[m]>> \in Inside
      BY <1>3, <1>5, <2>2, <3>1, MatchingRef
    <3>3. \A n \in 1..Len(file) : <<k, file[n]>> \notin Inside
      BY <1>3, <2>2, MatchingEmpty
    <3>. HIDE DEF w, k
    <3>4. \A m \in 1..Len(w), n \in 1..Len(file) : w[m] # file[n]
      BY <3>2, <3>3
    <3>. QED
      BY <1>2, <1>3, <1>5, <3>2, <3>4, Appended
  <2>. QED
    BY <1>1, <2>1, <2>2
<1>6. ASSUME ~failed'[s] PROVE Covered(line[s] - 1)'
  <2>1. v \in Seq(Piece) /\ v = w /\ Covered(line[s] - 1)
    BY <1>2, <1>3, <1>4, <1>6 DEF Wrote
  <2>2. \A m \in Merged : m <= line[s] - 1 => Matching(Ref[m], file') # <<>>
    <3>1. \A m \in Merged : m <= line[s] - 1 => Matching(Ref[m], file) # <<>>
      BY <2>1 DEF Covered
    <3>. HIDE DEF w
    <3>. QED
      BY <1>2, <1>3, <2>1, <3>1, AppendedCovers
  <2>3. CASE k = Blank
    <3>1. \A m \in Merged : m <= line[s] - 1
      <4>1. \A m \in Merged : m \in 1..Len(Ref) /\ line[s] \notin 1..m
        BY <2>3 DEF Merged
      <4>. QED
        BY <1>1, <4>1
    <3>. QED
      BY <2>2, <3>1 DEF Covered
  <2>4. CASE k \in Key
    <3>1. w = Matching(k, Ref) /\ line'[s] - 1 = line[s]
      BY <1>1, <1>4, <2>4, PjmAssumption DEF copyLine
    <3>2. Matching(k, file') # <<>>
      <4>1. Matching(k, w) # <<>>
        BY <1>1, <2>4, <3>1, RefCovers
      <4>. HIDE DEF w, k
      <4>. QED
        BY <1>2, <1>3, <2>1, <4>1, AppendedCovers
    <3>3. \A m \in Merged : m <= line[s] => m <= line[s] - 1 \/ m = line[s]
      BY <1>1 DEF Merged
    <3>4. \A m \in Merged : m <= line[s] => Matching(Ref[m], file') # <<>>
      BY <2>2, <3>2, <3>3
    <3>. QED
      BY <3>1, <3>4 DEF Covered
  <2>. QED
    BY <1>1, <2>3, <2>4
<1>. QED
  BY <1>1, <1>4, <1>5, <1>6, OnlyHolder

(* Every step keeps what the merge knows: outside the race only cp, grep   *)
(* and append of the script that has the lock matter.                      *)
LEMMA MergeStep ==
  ASSUME TypeOK, LockInv, LineInv, Merging, NEW s \in Script, ~hit,
         Step(s) \/ Killed(s) \/ \E o \in Ops : main(s, o)
  PROVE  Merging'
<1>. DEFINE Away == pc'[s] \notin {"grep", "append"} /\ (pc'[s] = "app" => op'[s] # "loadRef")
<1>0. ASSUME file' = file, Away, \A t \in Script \ {s} : Same(t)
      PROVE  Merging'
  BY <1>0, Elsewhere
<1>1. CASE func_lockFile_check(s)
  <2>1. CASE End({s})
    BY <1>1, <2>1, CheckDoes, EndMerges
  <2>2. CASE ~End({s})
    <3>1. /\ pc[s] = "try" /\ file' = file /\ UNCHANGED <<op, line, failed>>
          /\ pc' = pc \/ pc' = [pc EXCEPT ![s] = "touch"]
      BY <1>1, <2>2, CheckDoes
    <3>. QED
      BY <1>0, <3>1 DEF TypeOK, Same
  <2>. QED
    BY <2>1, <2>2
<1>2. CASE func_lockFile_touch(s)
  BY <1>0, <1>2 DEF TypeOK, Same, func_lockFile_touch
<1>3. CASE func_lockFile_recheck(s)
  <2>1. CASE End({s})
    BY <1>3, <2>1, EndMerges DEF func_lockFile_recheck
  <2>2. CASE pc' = [pc EXCEPT ![s] = "begin"] /\ UNCHANGED <<op, line, failed>>
    BY <1>0, <1>3, <2>2 DEF TypeOK, Same, func_lockFile_recheck
  <2>. QED
    BY <1>3, <2>1, <2>2 DEF func_lockFile_recheck
<1>4. CASE func_saveConfigFile_begin(s)
  BY <1>0, <1>4 DEF TypeOK, Same, func_saveConfigFile_begin
<1>5. CASE func_loadConfigFile_begin(s)
  <2>1. /\ file' = file /\ op' = op /\ pc[s] = "begin" /\ line'[s] = 1
        /\ pc'[s] \in {"app", "rm", "grep", "cp"} /\ (pc'[s] = "app" => op'[s] # "loadRef")
        /\ \A t \in Script \ {s} : pc'[t] = pc[t]
    BY <1>5 DEF TypeOK, func_loadConfigFile_begin
  <2>2. Covered(line[s] - 1)'
    BY <2>1, Bounds DEF Covered, Merged
  <2>3. SetOnce => OnceEach(file')
    BY <2>1 DEF Merging, NoDoubleLine
  <2>. QED
    BY <2>1, <2>2, <2>3, OnlyHolder
<1>6. CASE func_loadConfigFile_cp(s) \/ func_loadConfigFile_copy(s)
  BY <1>6, CopyMerges
<1>7. CASE func_loadConfigFile_grep(s)
  BY <1>7, GrepMerges
<1>8. CASE func_loadConfigFile_append(s)
  BY <1>8, AppendMerges
<1>9. CASE am_config_app(s)
  BY <1>0, <1>9 DEF TypeOK, Same, am_config_app
<1>10. CASE func_rmLock(s) \/ Killed(s)
  BY <1>10, EndMerges DEF func_rmLock, Killed
<1>11. CASE \E o \in Ops : main(s, o)
  <2>1. PICK o \in Ops : main(s, o)
    BY <1>11
  <2>2. CASE UNCHANGED <<pc, op>>
    BY <2>1, <2>2, Elsewhere DEF main, Same
  <2>3. CASE pc' = [pc EXCEPT ![s] = "try"] /\ op' = [op EXCEPT ![s] = o]
    <3>1. pc'[s] = "try" /\ \A t \in Script \ {s} : Same(t)
      BY <2>1, <2>3 DEF TypeOK, Same, main
    <3>. QED
      BY <1>0, <2>1, <3>1 DEF main
  <2>. QED
    BY <2>1, <2>2, <2>3 DEF main
<1>. QED
  BY <1>1, <1>2, <1>3, <1>4, <1>5, <1>6, <1>7, <1>8, <1>9, <1>10, <1>11 DEF Step

(* Once a script has broken the lock nothing is said of the files.         *)
LEMMA HitStays ==
  ASSUME TypeOK, Next, ~hit'
  PROVE  ~hit
  BY DEF TypeOK, Next, Step, Killed, Restart, main, func_lockFile_check, NotFound, Sleep,
     func_lockFile_touch, func_lockFile_recheck, func_saveConfigFile_begin,
     func_loadConfigFile_begin, func_loadConfigFile_cp, func_loadConfigFile_copy,
     func_loadConfigFile_grep, func_loadConfigFile_append, am_config_app, func_rmLock

(* A restart ends all scripts, and so keeps everything.                    *)
LEMMA RestartStep ==
  ASSUME TypeOK, LineInv, LockInv, Merging, Restart
  PROVE  TypeOK' /\ LineInv' /\ LockInv' /\ (~hit => Merging')
<1>1. TypeOK' /\ LineInv'
  BY EndType DEF Restart
<1>2. LockInv'
  <2>1. PcType
    BY DEF TypeOK, PcType
  <2>. QED
    BY <2>1, EndKeepsLock DEF Restart
<1>3. ~hit => Merging'
  BY EndMerges DEF Restart
<1>. QED
  BY <1>1, <1>2, <1>3

-----------------------------------------------------------------------------
(***************************************************************************)
(* The theorems                                                            *)
(***************************************************************************)

(* The inductive invariant holds in every behaviour of the scripts.        *)
THEOREM Invariance == Spec => []IInv
<1>1. Init => IInv
  <2>. SUFFICES ASSUME Init PROVE IInv
    OBVIOUS
  <2>1. file \in Seq(Piece) /\ (SetOnce => OnceEach(file))
    <3>1. <<>> \in Seq(Piece) /\ Len(<<>>) = 0
      OBVIOUS
    <3>2. OnceEach(<<>>)
      BY <3>1 DEF OnceEach
    <3>3. file \in Given \/ file = <<>>
      BY DEF Init
    <3>. QED
      BY <3>1, <3>2, <3>3, PjmAssumption DEF SetOnce
  <2>2. TypeOK
    <3>1. 0 \in 0..Tries /\ 0 \in 0..Len(Ref) + 1 /\ 0 \in 0..MaxRuns
      BY Bounds
    <3>2. pc \in [Script -> PCs] /\ op \in [Script -> Ops]
      BY DEF Init, PCs, Ops
    <3>. QED
      BY <2>1, <3>1, <3>2 DEF Init, TypeOK
  <2>3. LockInv /\ LineInv /\ MergeInv /\ MergeCoversRef
    BY DEF Init, LockInv, LineInv, MergeInv, MergeCoversRef
  <2>. QED
    BY <2>1, <2>2, <2>3 DEF IInv, NoDoubleLine
<1>2. IInv /\ [Next]_vars => IInv'
  <2>1. ASSUME IInv, Next
        PROVE  IInv'
    <3>. TypeOK /\ LockInv /\ LineInv /\ Merging
      BY <2>1 DEF IInv, Merging
    <3>1. TypeOK' /\ LineInv' /\ LockInv' /\ (~hit => Merging')
      <4>1. CASE Restart
        BY <4>1, RestartStep
      <4>2. ASSUME NEW s \in Script, Step(s) \/ Killed(s) \/ \E o \in Ops : main(s, o)
            PROVE  TypeOK' /\ LineInv' /\ LockInv' /\ (~hit => Merging')
        <5>1. PcType
          BY DEF TypeOK, PcType
        <5>. QED
          BY <4>2, <5>1, TypeStep, LockStep, MergeStep
      <4>. QED
        BY <2>1, <4>1, <4>2 DEF Next
    <3>2. Merging'
      <4>1. CASE hit'
        BY <4>1 DEF Merging, MergeInv, NoDoubleLine, MergeCoversRef
      <4>2. CASE ~hit'
        BY <2>1, <3>1, <4>2, HitStays
      <4>. QED
        BY <4>1, <4>2
    <3>. QED
      BY <3>1, <3>2 DEF IInv, Merging
  <2>2. ASSUME IInv, UNCHANGED vars
        PROVE  IInv'
    BY <2>2 DEF IInv, TypeOK, LockInv, LineInv, MergeInv, Covered, NoDoubleLine,
       MergeCoversRef, vars
  <2>. QED
    BY <2>1, <2>2
<1>. QED
  BY <1>1, <1>2, PTL DEF Spec

(* Every variable keeps its type: the loop of func_lockFile counts no      *)
(* further than Tries, and the merge reads no line behind the last one.    *)
THEOREM TypeCorrect == Spec => []TypeOK
<1>1. IInv => TypeOK
  BY DEF IInv
<1>. QED
  BY <1>1, Invariance, PTL

(* The lock file of func_lockFile excludes other scripts and stays as long *)
(* as a script relies on it, with kills, restarts, time-outs and a touch   *)
(* or rm that fails, unless a script found no lock file while another was  *)
(* between its check and its return from func_lockFile.                    *)
THEOREM LockFileExcludes == Spec => []LockExcludes
<1>1. IInv => LockExcludes
  BY DEF IInv, LockInv, LockExcludes, OneHolder
<1>. QED
  BY <1>1, Invariance, PTL

(* Outside that race func_loadConfigFile makes no line of an instance and  *)
(* no comment double in files that had none, whatever instances are parts  *)
(* of the names of others and wherever a cp or >> stopped short before.    *)
THEOREM NeverDouble == Spec => []NoDoubleLine
<1>1. IInv => NoDoubleLine
  BY DEF IInv
<1>. QED
  BY <1>1, Invariance, PTL

(* Outside that race a load whose own cp and >> did not fail hands on a    *)
(* file in which grep finds every instance that the reference file sets    *)
(* before its first blank line, whatever earlier loads left that failed or *)
(* were killed.                                                            *)
THEOREM MergeComplete == Spec => []MergeCoversRef
<1>1. IInv => MergeCoversRef
  BY DEF IInv
<1>. QED
  BY <1>1, Invariance, PTL

=============================================================================
