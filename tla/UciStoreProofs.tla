---------------------------- MODULE UciStoreProofs ----------------------------
(***************************************************************************)
(* The properties of UciStore, for any number of processes, changes, calls *)
(* and faults.                                                             *)
(*                                                                         *)
(* The inductive invariant IInv has eleven conjuncts. Each is preserved by a  *)
(* step of a process p for two reasons, proved apart: a lemma on p alone   *)
(* (one case per action), and Others (UciStoreFrame), which says that the  *)
(* step leaves the variables of the other processes alone. UciStoreFrame   *)
(* proves the conjuncts that hold always, this module those that hold      *)
(* outside the windows; the theorems are at the end.                       *)
(***************************************************************************)
EXTENDS UciStoreFrame

USE ZenonT(5), SMTT(20), ZenonT(60)

USE DEF files, memory, history, Goto, Count, Unlock, PCs, Exclusive, Accepted

-----------------------------------------------------------------------------
(***************************************************************************)
(* Outside the windows: locks and lost changes                             *)
(***************************************************************************)

(* One committer at a time, on the config file itself.                     *)
LEMMA LockStep ==
  ASSUME TypeOK, PcInv, LockInv, NEW p \in Proc, Step(p) \/ Call(p) \/ Crash(p)
  PROVE  LockInv'
<1>1. CASE uci_file_load_open(p)
  BY <1>1 DEF TypeOK, PcInv, LockInv, Committing, HoldsFlushed, uci_file_load_open
<1>2. CASE uci_file_load_import(p)
  <2>. SUFFICES ASSUME ~hit' PROVE LockInv'
    BY DEF LockInv
  <2>1. /\ ~hit /\ cfg' = cfg /\ cut' = cut /\ pc[p] = "loadLock" /\ pc'[p] = "loadDelta"
        /\ fd'[p] = fd[p] /\ stale'[p] = NotTheConfig(p)
    BY <1>2 DEF TypeOK, uci_file_load_import
  <2>2. ASSUME ~stale'[p]
        PROVE  fd[p] = cfg /\ \A q \in Proc : pc[q] \notin Committing
    <3>1. fd[p] = cfg /\ \A q \in Proc : pc[q] # "rename"
      BY <2>1, <2>2 DEF NotTheConfig
    <3>2. \A q \in Proc \ {p} : fd[q] = cfg => mode[q] # "ex"
      BY <1>2, <3>1 DEF CanShare, uci_file_load_import
    <3>. QED
      BY <2>1, <3>1, <3>2 DEF LockInv, PcInv, Committing
  <2>. QED
    BY <2>1, <2>2, Others DEF LockInv, Committing
<1>3. CASE uci_file_load_delta(p)
  BY <1>3 DEF TypeOK, PcInv, LockInv, Committing, HoldsFlushed, uci_file_load_delta
<1>4. CASE uci_file_load_close(p)
  BY <1>4 DEF TypeOK, PcInv, LockInv, Committing, HoldsFlushed, uci_file_load_close
<1>5. CASE uci_unload(p)
  BY <1>5 DEF TypeOK, PcInv, LockInv, Committing, HoldsFlushed, uci_unload
<1>6. CASE uci_save(p)
  BY <1>6 DEF TypeOK, PcInv, LockInv, Committing, HoldsFlushed, uci_save, SaveOwn
<1>7. CASE uci_file_commit_open(p)
  BY <1>7 DEF TypeOK, PcInv, LockInv, Committing, HoldsFlushed, uci_file_commit_open, Returned
<1>8. CASE uci_file_commit_lock(p)
  <2>. SUFFICES ASSUME ~hit' PROVE LockInv'
    BY DEF LockInv
  <2>1. ~hit /\ cfg' = cfg /\ cut' = cut /\ fd[p] = cfg /\ \A q \in Proc : pc[q] # "rename"
    BY <1>8 DEF TypeOK, NotTheConfig, uci_file_commit_lock
  <2>2. \A q \in Proc \ {p} : fd[q] = cfg => mode[q] = "un"
    BY <1>8, <2>1 DEF CanExclude, uci_file_commit_lock
  <2>3. \A q \in Proc \ {p} : pc[q] \notin Committing
    BY <2>1, <2>2 DEF LockInv, PcInv, Committing
  <2>4. \A q \in Proc \ {p} : ~(pc[q] = "loadDelta" /\ ~stale[q])
    BY <2>1, <2>2 DEF LockInv, PcInv
  <2>5. pc'[p] # "loadDelta" /\ fd'[p] = fd[p]
    BY <1>8 DEF TypeOK, uci_file_commit_lock
  <2>. QED
    BY <2>1, <2>3, <2>4, <2>5, Others DEF LockInv, Committing
<1>9. CASE uci_file_commit_reload(p)
  BY <1>9 DEF TypeOK, PcInv, LockInv, Committing, HoldsFlushed, uci_file_commit_reload,
     SaveOwn, Returned
<1>10. CASE uci_file_commit_save_fails(p)
  BY <1>10 DEF TypeOK, PcInv, LockInv, Committing, HoldsFlushed,
     uci_file_commit_save_fails, Returned
<1>11. CASE uci_load_delta_read(p)
  BY <1>11 DEF TypeOK, PcInv, LockInv, Committing, HoldsFlushed, uci_load_delta_read
<1>12. CASE uci_load_delta_flush(p)
  BY <1>12 DEF TypeOK, PcInv, LockInv, Committing, HoldsFlushed, uci_load_delta_flush
<1>13. CASE uci_load_delta_flush_fails(p)
  BY <1>13 DEF TypeOK, PcInv, LockInv, Committing, HoldsFlushed, uci_load_delta_flush_fails
<1>14. CASE uci_load_delta_reopen_fails(p)
  BY <1>14 DEF TypeOK, PcInv, LockInv, Committing, HoldsFlushed, uci_load_delta_reopen_fails
<1>15. CASE uci_file_commit_tmp(p)
  BY <1>15 DEF TypeOK, PcInv, LockInv, Committing, HoldsFlushed, uci_file_commit_tmp, Returned
<1>16. CASE uci_file_commit_tmp_fails(p)
  BY <1>16 DEF TypeOK, PcInv, LockInv, Committing, HoldsFlushed, uci_file_commit_tmp_fails,
     Returned
<1>17. CASE uci_file_commit_export(p)
  BY <1>17 DEF TypeOK, PcInv, LockInv, Committing, HoldsFlushed, uci_file_commit_export,
     Returned
<1>18. CASE uci_file_commit_close(p)
  BY <1>18 DEF TypeOK, PcInv, LockInv, Committing, HoldsFlushed, uci_file_commit_close, Returned
<1>19. CASE uci_file_commit_rename(p)
  BY <1>19 DEF TypeOK, PcInv, LockInv, Committing, HoldsFlushed, uci_file_commit_rename,
     Returned
<1>20. CASE uci_file_commit_rename_fails(p)
  BY <1>20 DEF TypeOK, PcInv, LockInv, Committing, HoldsFlushed,
     uci_file_commit_rename_fails, Returned
<1>21. CASE uci_revert(p)
  BY <1>21 DEF TypeOK, PcInv, LockInv, Committing, HoldsFlushed, uci_revert, SaveOwn
<1>22. CASE uci_filter_delta_fails(p)
  BY <1>22 DEF TypeOK, PcInv, LockInv, Committing, HoldsFlushed, uci_filter_delta_fails
<1>23. CASE uci_filter_delta_rewrite(p)
  BY <1>23 DEF TypeOK, PcInv, LockInv, Committing, HoldsFlushed, uci_filter_delta_rewrite
<1>24. CASE Crash(p)
  BY <1>24 DEF TypeOK, PcInv, LockInv, Committing, HoldsFlushed, Crash
<1>25. CASE \E c \in Change : uci_add_delta(p, c)
  <2>1. PICK c \in Change : uci_add_delta(p, c)
    BY <1>25
  <2>. QED
    BY <2>1 DEF TypeOK, PcInv, LockInv, Committing, HoldsFlushed, uci_add_delta
<1>26. CASE \E c \in Importable : uci_do_import(p, c)
  <2>1. PICK c \in Importable : uci_do_import(p, c)
    BY <1>26
  <2>. QED
    BY <2>1 DEF TypeOK, PcInv, LockInv, Committing, HoldsFlushed, uci_do_import
<1>27. CASE \E S \in Selections : uci_filter_delta(p, S)
  <2>1. PICK S \in Selections : uci_filter_delta(p, S)
    BY <1>27
  <2>. QED
    BY <2>1 DEF TypeOK, PcInv, LockInv, Committing, HoldsFlushed, uci_filter_delta
<1>. QED
  BY <1>1, <1>2, <1>3, <1>4, <1>5, <1>6, <1>7, <1>8, <1>9, <1>10, <1>11, <1>12, <1>13,
     <1>14, <1>15, <1>16, <1>17, <1>18, <1>19, <1>20, <1>21, <1>22, <1>23, <1>24, <1>25,
     <1>26, <1>27 DEF Step, Call

(* Between the reading and the truncation of the delta file by q nobody    *)
(* else adds to it, or hit is set.                                         *)
LEMMA QuietStep ==
  ASSUME TypeOK, PcInv, NEW p \in Proc, Step(p) \/ Call(p) \/ Crash(p), ~hit', NEW q \in Proc \ {p}, pc[q] = "truncate"
  PROVE  delta' \subseteq delta \union list[p]
<1>1. CASE uci_file_load_open(p)
  BY <1>1 DEF TypeOK, PcInv, ReadNotTruncated, uci_file_load_open
<1>2. CASE uci_file_load_import(p)
  BY <1>2 DEF TypeOK, PcInv, ReadNotTruncated, uci_file_load_import
<1>3. CASE uci_file_load_delta(p)
  BY <1>3 DEF TypeOK, PcInv, ReadNotTruncated, uci_file_load_delta
<1>4. CASE uci_file_load_close(p)
  BY <1>4 DEF TypeOK, PcInv, ReadNotTruncated, uci_file_load_close
<1>5. CASE uci_unload(p)
  BY <1>5 DEF TypeOK, PcInv, ReadNotTruncated, uci_unload
<1>6. CASE uci_save(p)
  BY <1>6 DEF TypeOK, PcInv, ReadNotTruncated, uci_save, SaveOwn
<1>7. CASE uci_file_commit_open(p)
  BY <1>7 DEF TypeOK, PcInv, ReadNotTruncated, uci_file_commit_open, Returned
<1>8. CASE uci_file_commit_lock(p)
  BY <1>8 DEF TypeOK, PcInv, ReadNotTruncated, uci_file_commit_lock, Returned
<1>9. CASE uci_file_commit_reload(p)
  BY <1>9 DEF TypeOK, PcInv, ReadNotTruncated, uci_file_commit_reload, SaveOwn, Returned
<1>10. CASE uci_file_commit_save_fails(p)
  BY <1>10 DEF TypeOK, PcInv, ReadNotTruncated, uci_file_commit_save_fails, Returned
<1>11. CASE uci_load_delta_read(p)
  BY <1>11 DEF TypeOK, PcInv, ReadNotTruncated, uci_load_delta_read
<1>12. CASE uci_load_delta_flush(p)
  BY <1>12 DEF TypeOK, PcInv, ReadNotTruncated, uci_load_delta_flush
<1>13. CASE uci_load_delta_flush_fails(p)
  BY <1>13 DEF TypeOK, PcInv, ReadNotTruncated, uci_load_delta_flush_fails
<1>14. CASE uci_load_delta_reopen_fails(p)
  BY <1>14 DEF TypeOK, PcInv, ReadNotTruncated, uci_load_delta_reopen_fails
<1>15. CASE uci_file_commit_tmp(p)
  BY <1>15 DEF TypeOK, PcInv, ReadNotTruncated, uci_file_commit_tmp, Returned
<1>16. CASE uci_file_commit_tmp_fails(p)
  BY <1>16 DEF TypeOK, PcInv, ReadNotTruncated, uci_file_commit_tmp_fails, Returned
<1>17. CASE uci_file_commit_export(p)
  BY <1>17 DEF TypeOK, PcInv, ReadNotTruncated, uci_file_commit_export, Returned
<1>18. CASE uci_file_commit_close(p)
  BY <1>18 DEF TypeOK, PcInv, ReadNotTruncated, uci_file_commit_close, Returned
<1>19. CASE uci_file_commit_rename(p)
  BY <1>19 DEF TypeOK, PcInv, ReadNotTruncated, uci_file_commit_rename, Returned
<1>20. CASE uci_file_commit_rename_fails(p)
  BY <1>20 DEF TypeOK, PcInv, ReadNotTruncated, uci_file_commit_rename_fails, Returned
<1>21. CASE uci_revert(p)
  BY <1>21 DEF TypeOK, PcInv, ReadNotTruncated, uci_revert, SaveOwn
<1>22. CASE uci_filter_delta_fails(p)
  BY <1>22 DEF TypeOK, PcInv, ReadNotTruncated, uci_filter_delta_fails
<1>23. CASE uci_filter_delta_rewrite(p)
  BY <1>23 DEF TypeOK, PcInv, ReadNotTruncated, uci_filter_delta_rewrite
<1>24. CASE Crash(p)
  BY <1>24 DEF TypeOK, PcInv, ReadNotTruncated, Crash
<1>25. CASE \E c \in Change : uci_add_delta(p, c)
  <2>1. PICK c \in Change : uci_add_delta(p, c)
    BY <1>25
  <2>. QED
    BY <2>1 DEF TypeOK, PcInv, ReadNotTruncated, uci_add_delta
<1>26. CASE \E c \in Importable : uci_do_import(p, c)
  <2>1. PICK c \in Importable : uci_do_import(p, c)
    BY <1>26
  <2>. QED
    BY <2>1 DEF TypeOK, PcInv, ReadNotTruncated, uci_do_import
<1>27. CASE \E S \in Selections : uci_filter_delta(p, S)
  <2>1. PICK S \in Selections : uci_filter_delta(p, S)
    BY <1>27
  <2>. QED
    BY <2>1 DEF TypeOK, PcInv, ReadNotTruncated, uci_filter_delta
<1>. QED
  BY <1>1, <1>2, <1>3, <1>4, <1>5, <1>6, <1>7, <1>8, <1>9, <1>10, <1>11, <1>12, <1>13,
     <1>14, <1>15, <1>16, <1>17, <1>18, <1>19, <1>20, <1>21, <1>22, <1>23, <1>24, <1>25,
     <1>26, <1>27 DEF Step, Call

(* rename ends the commit.                                                 *)
LEMMA RenameEnds ==
  ASSUME TypeOK, NEW p \in Proc, Step(p) \/ Call(p) \/ Crash(p), pc[p] = "rename"
  PROVE  pc'[p] \in {"in", "out"} /\ ~Exporting(p)'
<1>1. CASE uci_file_load_open(p)
  BY <1>1 DEF TypeOK, Exporting, uci_file_load_open
<1>2. CASE uci_file_load_import(p)
  BY <1>2 DEF TypeOK, Exporting, uci_file_load_import
<1>3. CASE uci_file_load_delta(p)
  BY <1>3 DEF TypeOK, Exporting, uci_file_load_delta
<1>4. CASE uci_file_load_close(p)
  BY <1>4 DEF TypeOK, Exporting, uci_file_load_close
<1>5. CASE uci_unload(p)
  BY <1>5 DEF TypeOK, Exporting, uci_unload
<1>6. CASE uci_save(p)
  BY <1>6 DEF TypeOK, Exporting, uci_save, SaveOwn
<1>7. CASE uci_file_commit_open(p)
  BY <1>7 DEF TypeOK, Exporting, uci_file_commit_open, Returned
<1>8. CASE uci_file_commit_lock(p)
  BY <1>8 DEF TypeOK, Exporting, uci_file_commit_lock, Returned
<1>9. CASE uci_file_commit_reload(p)
  BY <1>9 DEF TypeOK, Exporting, uci_file_commit_reload, SaveOwn, Returned
<1>10. CASE uci_file_commit_save_fails(p)
  BY <1>10 DEF TypeOK, Exporting, uci_file_commit_save_fails, Returned
<1>11. CASE uci_load_delta_read(p)
  BY <1>11 DEF TypeOK, Exporting, uci_load_delta_read
<1>12. CASE uci_load_delta_flush(p)
  BY <1>12 DEF TypeOK, Exporting, uci_load_delta_flush
<1>13. CASE uci_load_delta_flush_fails(p)
  BY <1>13 DEF TypeOK, Exporting, uci_load_delta_flush_fails
<1>14. CASE uci_load_delta_reopen_fails(p)
  BY <1>14 DEF TypeOK, Exporting, uci_load_delta_reopen_fails
<1>15. CASE uci_file_commit_tmp(p)
  BY <1>15 DEF TypeOK, Exporting, uci_file_commit_tmp, Returned
<1>16. CASE uci_file_commit_tmp_fails(p)
  BY <1>16 DEF TypeOK, Exporting, uci_file_commit_tmp_fails, Returned
<1>17. CASE uci_file_commit_export(p)
  BY <1>17 DEF TypeOK, Exporting, uci_file_commit_export, Returned
<1>18. CASE uci_file_commit_close(p)
  BY <1>18 DEF TypeOK, Exporting, uci_file_commit_close, Returned
<1>19. CASE uci_file_commit_rename(p)
  BY <1>19 DEF TypeOK, Exporting, uci_file_commit_rename, Returned
<1>20. CASE uci_file_commit_rename_fails(p)
  BY <1>20 DEF TypeOK, Exporting, uci_file_commit_rename_fails, Returned
<1>21. CASE uci_revert(p)
  BY <1>21 DEF TypeOK, Exporting, uci_revert, SaveOwn
<1>22. CASE uci_filter_delta_fails(p)
  BY <1>22 DEF TypeOK, Exporting, uci_filter_delta_fails
<1>23. CASE uci_filter_delta_rewrite(p)
  BY <1>23 DEF TypeOK, Exporting, uci_filter_delta_rewrite
<1>24. CASE Crash(p)
  BY <1>24 DEF TypeOK, Exporting, Crash
<1>25. CASE \E c \in Change : uci_add_delta(p, c)
  <2>1. PICK c \in Change : uci_add_delta(p, c)
    BY <1>25
  <2>. QED
    BY <2>1 DEF TypeOK, Exporting, uci_add_delta
<1>26. CASE \E c \in Importable : uci_do_import(p, c)
  <2>1. PICK c \in Importable : uci_do_import(p, c)
    BY <1>26
  <2>. QED
    BY <2>1 DEF TypeOK, Exporting, uci_do_import
<1>27. CASE \E S \in Selections : uci_filter_delta(p, S)
  <2>1. PICK S \in Selections : uci_filter_delta(p, S)
    BY <1>27
  <2>. QED
    BY <2>1 DEF TypeOK, Exporting, uci_filter_delta
<1>. QED
  BY <1>1, <1>2, <1>3, <1>4, <1>5, <1>6, <1>7, <1>8, <1>9, <1>10, <1>11, <1>12, <1>13,
     <1>14, <1>15, <1>16, <1>17, <1>18, <1>19, <1>20, <1>21, <1>22, <1>23, <1>24, <1>25,
     <1>26, <1>27 DEF Step, Call

(* What p reads covers what it will replace and truncate.                  *)
LEMMA CarryLocal ==
  ASSUME TypeOK, PcInv, TmpInv, LockInv, CarryInv, NEW p \in Proc, Step(p) \/ Call(p) \/ Crash(p), ~hit'
  PROVE  /\ ~hit
         /\ pc'[p] \in {"read", "truncate"} => file[cfg].body \subseteq pkg'[p]
         /\ Exporting(p)' /\ tracked'[p] => file[cfg].body \subseteq pkg'[p]
         /\ pc'[p] = "loadDelta" /\ ~stale'[p] => file[cfg].body \subseteq pkg'[p]
         /\ pc'[p] = "truncate" => /\ pc[p] = "read" /\ delta' = delta
                                   /\ Accepted(delta) \subseteq pkg'[p]
                                   /\ \A q \in Proc : list'[q] = {}
<1>1. CASE uci_file_load_open(p)
  BY <1>1 DEF TypeOK, PcInv, LockInv, CarryInv, Exporting, uci_file_load_open
<1>2. CASE uci_file_load_import(p)
  <2>1. /\ pc[p] = "loadLock" /\ pc'[p] = "loadDelta" /\ pkg'[p] = file[fd[p]].body
        /\ stale'[p] = NotTheConfig(p) /\ tmp'[p] = tmp[p] /\ hit' = hit
    BY <1>2 DEF TypeOK, uci_file_load_import
  <2>2. tmp[p] = 0
    BY <2>1 DEF PcInv
  <2>3. ~NotTheConfig(p) => fd[p] = cfg
    BY DEF NotTheConfig
  <2>. QED
    BY <2>1, <2>2, <2>3 DEF Exporting
<1>3. CASE uci_file_load_delta(p)
  BY <1>3 DEF TypeOK, PcInv, LockInv, CarryInv, Exporting, uci_file_load_delta
<1>4. CASE uci_file_load_close(p)
  BY <1>4 DEF TypeOK, PcInv, LockInv, CarryInv, Exporting, uci_file_load_close
<1>5. CASE uci_unload(p)
  BY <1>5 DEF TypeOK, PcInv, LockInv, CarryInv, Exporting, uci_unload
<1>6. CASE uci_save(p)
  BY <1>6 DEF TypeOK, PcInv, LockInv, CarryInv, Exporting, uci_save, SaveOwn
<1>7. CASE uci_file_commit_open(p)
  BY <1>7 DEF TypeOK, PcInv, LockInv, CarryInv, Exporting, uci_file_commit_open, Returned
<1>8. CASE uci_file_commit_lock(p)
  BY <1>8 DEF TypeOK, PcInv, LockInv, CarryInv, Exporting, uci_file_commit_lock, Returned
<1>9. CASE uci_file_commit_reload(p)
  BY <1>9 DEF TypeOK, PcInv, LockInv, CarryInv, Exporting, uci_file_commit_reload, SaveOwn,
     Returned
<1>10. CASE uci_file_commit_save_fails(p)
  BY <1>10 DEF TypeOK, PcInv, LockInv, CarryInv, Exporting, uci_file_commit_save_fails, Returned
<1>11. CASE uci_load_delta_read(p)
  <2>3. /\ ~hit /\ pc[p] = "read" /\ pc'[p] = "truncate" /\ delta' = delta /\ tmp' = tmp
        /\ pkg'[p] = pkg[p] \union Accepted(Overlay \union delta)
    BY <1>11 DEF TypeOK, uci_load_delta_read
  <2>4. tmp[p] = 0
    BY <2>3 DEF PcInv
  <2>1. /\ ~hit /\ pc[p] = "read" /\ pc'[p] = "truncate" /\ delta' = delta /\ tmp'[p] = 0
        /\ pkg'[p] = pkg[p] \union Accepted(Overlay \union delta)
    BY <2>3, <2>4
  <2>2. \A q \in Proc : list'[q] = {}
    BY <1>11 DEF PcInv, DeltaFree, uci_load_delta_read
  <2>. QED
    BY <2>1, <2>2 DEF CarryInv, Exporting
<1>12. CASE uci_load_delta_flush(p)
  BY <1>12 DEF TypeOK, PcInv, LockInv, CarryInv, Exporting, uci_load_delta_flush
<1>13. CASE uci_load_delta_flush_fails(p)
  BY <1>13 DEF TypeOK, PcInv, LockInv, CarryInv, Exporting, uci_load_delta_flush_fails
<1>14. CASE uci_load_delta_reopen_fails(p)
  BY <1>14 DEF TypeOK, PcInv, LockInv, CarryInv, Exporting, uci_load_delta_reopen_fails
<1>15. CASE uci_file_commit_tmp(p)
  BY <1>15 DEF TypeOK, PcInv, LockInv, CarryInv, Exporting, uci_file_commit_tmp, Returned
<1>16. CASE uci_file_commit_tmp_fails(p)
  BY <1>16 DEF TypeOK, PcInv, LockInv, CarryInv, Exporting, uci_file_commit_tmp_fails, Returned
<1>17. CASE uci_file_commit_export(p)
  BY <1>17 DEF TypeOK, PcInv, LockInv, CarryInv, Exporting, uci_file_commit_export, Returned
<1>18. CASE uci_file_commit_close(p)
  BY <1>18 DEF TypeOK, PcInv, LockInv, CarryInv, Exporting, uci_file_commit_close, Returned
<1>19. CASE uci_file_commit_rename(p)
  BY <1>19 DEF TypeOK, PcInv, LockInv, CarryInv, Exporting, uci_file_commit_rename, Returned
<1>20. CASE uci_file_commit_rename_fails(p)
  BY <1>20 DEF TypeOK, PcInv, LockInv, CarryInv, Exporting, uci_file_commit_rename_fails,
     Returned
<1>21. CASE uci_revert(p)
  <2>1. pc[p] = "in" /\ pc'[p] = "filter" /\ tmp'[p] = tmp[p] /\ (hit => hit')
    BY <1>21 DEF TypeOK, uci_revert, SaveOwn
  <2>2. tmp[p] = 0
    BY <2>1 DEF PcInv
  <2>. QED
    BY <2>1, <2>2 DEF Exporting
<1>22. CASE uci_filter_delta_fails(p)
  BY <1>22 DEF TypeOK, PcInv, LockInv, CarryInv, Exporting, uci_filter_delta_fails
<1>23. CASE uci_filter_delta_rewrite(p)
  BY <1>23 DEF TypeOK, PcInv, LockInv, CarryInv, Exporting, uci_filter_delta_rewrite
<1>24. CASE Crash(p)
  BY <1>24 DEF TypeOK, PcInv, LockInv, CarryInv, Exporting, Crash
<1>25. CASE \E c \in Change : uci_add_delta(p, c)
  <2>1. PICK c \in Change : uci_add_delta(p, c)
    BY <1>25
  <2>. QED
    BY <2>1 DEF TypeOK, PcInv, LockInv, CarryInv, Exporting, uci_add_delta
<1>26. CASE \E c \in Importable : uci_do_import(p, c)
  <2>1. PICK c \in Importable : uci_do_import(p, c)
    BY <1>26
  <2>. QED
    BY <2>1 DEF TypeOK, PcInv, LockInv, CarryInv, Exporting, uci_do_import
<1>27. CASE \E S \in Selections : uci_filter_delta(p, S)
  <2>1. PICK S \in Selections : uci_filter_delta(p, S)
    BY <1>27
  <2>. QED
    BY <2>1 DEF TypeOK, PcInv, LockInv, CarryInv, Exporting, uci_filter_delta
<1>. QED
  BY <1>1, <1>2, <1>3, <1>4, <1>5, <1>6, <1>7, <1>8, <1>9, <1>10, <1>11, <1>12, <1>13,
     <1>14, <1>15, <1>16, <1>17, <1>18, <1>19, <1>20, <1>21, <1>22, <1>23, <1>24, <1>25,
     <1>26, <1>27 DEF Step, Call

(* A committing process has all that it will replace and truncate.         *)
LEMMA CarryStep ==
  ASSUME TypeOK, PcInv, TmpInv, LockInv, CarryInv, NEW p \in Proc, Step(p) \/ Call(p) \/ Crash(p)
  PROVE  CarryInv'
<1>. SUFFICES ASSUME ~hit', NEW q \in Proc
             PROVE  /\ pc'[q] \in {"read", "truncate"} => file'[cfg'].body \subseteq pkg'[q]
                    /\ Exporting(q)' /\ tracked'[q] => file'[cfg'].body \subseteq pkg'[q]
                    /\ pc'[q] = "loadDelta" /\ ~stale'[q] => file'[cfg'].body \subseteq pkg'[q]
                    /\ pc'[q] = "truncate" => Accepted(Waiting') \subseteq pkg'[q]
  BY DEF CarryInv
<1>0. ~hit
  BY CarryLocal
<1>1. CASE q = p
  <2>1. CASE cfg' = cfg /\ file'[cfg'] = file[cfg]
    <3>1. pc'[p] = "truncate" => Accepted(Waiting') \subseteq pkg'[p]
      BY CarryLocal DEF Waiting, Kept
    <3>. QED
      BY <1>1, <2>1, <3>1, CarryLocal
  <2>2. CASE pc[p] = "rename"
    BY <1>1, <2>2, RenameEnds
  <2>. QED
    BY <2>1, <2>2, ConfigStep
<1>2. CASE q # p
  <2>1. /\ pc'[q] = pc[q] /\ pkg'[q] = pkg[q] /\ tracked'[q] = tracked[q]
        /\ tmp'[q] = tmp[q] /\ stale'[q] = stale[q]
    BY <1>2, Others
  <2>2. CASE cfg' = cfg /\ file'[cfg'] = file[cfg]
    <3>1. ASSUME pc[q] = "truncate"
          PROVE  Waiting' \subseteq Waiting
      <4>1. delta' \subseteq delta \union list[p]
        BY <1>2, <3>1, QuietStep
      <4>2. ASSUME NEW x \in Kept' PROVE x \in Kept \union delta
        <5>1. PICK r \in Proc : x \in list'[r]
          BY <4>2 DEF Kept
        <5>2. x \in list[r] \/ x \in delta
          BY <5>1, DeltaStep, Others
        <5>. QED
          BY <4>2, <5>2 DEF Kept
      <4>. QED
        BY <4>1, <4>2 DEF Waiting, Kept, TypeOK
    <3>. QED
      BY <1>0, <2>1, <2>2, <3>1 DEF CarryInv, Exporting
  <2>3. CASE pc[p] = "rename"
    <3>1. pc[q] \notin Committing /\ ~(pc[q] = "loadDelta" /\ ~stale[q])
      BY <1>0, <1>2, <2>3 DEF LockInv, Committing
    <3>2. ~Exporting(q)
      BY <3>1 DEF PcInv, Exporting, Committing
    <3>. QED
      BY <2>1, <3>1, <3>2 DEF Exporting, Committing
  <2>. QED
    BY <2>2, <2>3, ConfigStep
<1>. QED
  BY <1>1, <1>2

(* Where the changes that p has, or that are in the files, go.             *)
LEMMA MoveStep ==
  ASSUME TypeOK, PcInv, RewriteInv, TmpInv, LockInv, CarryInv, NEW p \in Proc, Step(p) \/ Call(p) \/ Crash(p), ~hit', NEW x \in Change
  PROVE  LET New == \/ x \in file'[cfg'].body \/ x \in delta' \/ x \in list'[p]
                    \/ HoldsFlushed(p)' /\ x \in pkg'[p]
         IN  /\ ~hit /\ reverted \subseteq reverted' /\ replaced \subseteq replaced'
             /\ HoldsFlushed(p) /\ x \in pkg[p] => New
             /\ x \in list[p] => New
             /\ x \in file[cfg].body \ replaced' => New
             /\ x \in delta \ (reverted' \union Rejected) => New
             /\ x \in saved' \ saved => New
<1>1. CASE uci_file_load_open(p)
  BY <1>1, ConfigStep DEF TypeOK, PcInv, HoldsFlushed, Unlinked, uci_file_load_open
<1>2. CASE uci_file_load_import(p)
  BY <1>2, ConfigStep DEF TypeOK, PcInv, HoldsFlushed, Unlinked, uci_file_load_import
<1>3. CASE uci_file_load_delta(p)
  BY <1>3, ConfigStep DEF TypeOK, PcInv, HoldsFlushed, Unlinked, uci_file_load_delta
<1>4. CASE uci_file_load_close(p)
  BY <1>4, ConfigStep DEF TypeOK, PcInv, HoldsFlushed, Unlinked, uci_file_load_close
<1>5. CASE uci_unload(p)
  BY <1>5, ConfigStep DEF TypeOK, PcInv, HoldsFlushed, Unlinked, uci_unload
<1>6. CASE uci_save(p)
  BY <1>6, ConfigStep DEF TypeOK, PcInv, HoldsFlushed, Unlinked, uci_save, SaveOwn
<1>7. CASE uci_file_commit_open(p)
  BY <1>7, ConfigStep DEF TypeOK, PcInv, HoldsFlushed, Unlinked, uci_file_commit_open, Returned
<1>8. CASE uci_file_commit_lock(p)
  BY <1>8, ConfigStep DEF TypeOK, PcInv, HoldsFlushed, Unlinked, uci_file_commit_lock, Returned
<1>9. CASE uci_file_commit_reload(p)
  BY <1>9, ConfigStep DEF TypeOK, PcInv, HoldsFlushed, Unlinked, uci_file_commit_reload,
     SaveOwn, Returned
<1>10. CASE uci_file_commit_save_fails(p)
  BY <1>10, ConfigStep DEF TypeOK, PcInv, HoldsFlushed, Unlinked,
     uci_file_commit_save_fails, Returned
<1>11. CASE uci_load_delta_read(p)
  BY <1>11, ConfigStep DEF TypeOK, PcInv, HoldsFlushed, Unlinked, uci_load_delta_read
<1>12. CASE uci_load_delta_flush(p)
  BY <1>12, ConfigStep DEF TypeOK, PcInv, HoldsFlushed, Unlinked, uci_load_delta_flush,
     CarryInv, Waiting
<1>13. CASE uci_load_delta_flush_fails(p)
  BY <1>13, ConfigStep DEF TypeOK, PcInv, HoldsFlushed, Unlinked, uci_load_delta_flush_fails
<1>14. CASE uci_load_delta_reopen_fails(p)
  BY <1>14, ConfigStep DEF TypeOK, PcInv, HoldsFlushed, Unlinked, uci_load_delta_reopen_fails
<1>15. CASE uci_file_commit_tmp(p)
  BY <1>15, ConfigStep DEF TypeOK, PcInv, HoldsFlushed, Unlinked, uci_file_commit_tmp, Returned
<1>16. CASE uci_file_commit_tmp_fails(p)
  BY <1>16, ConfigStep DEF TypeOK, PcInv, HoldsFlushed, Unlinked,
     uci_file_commit_tmp_fails, Returned
<1>17. CASE uci_file_commit_export(p)
  BY <1>17, ConfigStep DEF TypeOK, PcInv, HoldsFlushed, Unlinked, uci_file_commit_export,
     Returned
<1>18. CASE uci_file_commit_close(p)
  BY <1>18, ConfigStep DEF TypeOK, PcInv, HoldsFlushed, Unlinked, uci_file_commit_close,
     Returned
<1>19. CASE uci_file_commit_rename(p)
  <2>1. ~hit /\ tmp[p] # 0 /\ pc[p] = "rename"
    BY <1>19 DEF PcInv, uci_file_commit_rename
  <2>2. file'[cfg'].body = pkg[p]
    BY <1>19, <2>1, Renamed DEF uci_file_commit_rename
  <2>3. tracked[p] => file[cfg].body \subseteq pkg[p]
    BY <2>1 DEF CarryInv, Exporting
  <2>4. /\ reverted' = reverted /\ replaced \subseteq replaced' /\ delta' = delta
        /\ list[p] = {}
    BY <1>19, <2>1 DEF PcInv, uci_file_commit_rename
  <2>5. CASE tracked[p]
    <3>1. saved' = saved
      BY <1>19, <2>5 DEF uci_file_commit_rename
    <3>. QED
      BY <2>1, <2>2, <2>3, <2>4, <2>5, <3>1
  <2>6. CASE ~tracked[p]
    <3>1. saved' = saved \union pkg[p] /\ replaced' = replaced \union file[cfg].body
      BY <1>19, <2>6 DEF uci_file_commit_rename
    <3>. QED
      BY <2>1, <2>2, <2>4, <3>1
  <2>. QED
    BY <2>5, <2>6
<1>20. CASE uci_file_commit_rename_fails(p)
  BY <1>20, ConfigStep DEF TypeOK, PcInv, HoldsFlushed, Unlinked,
     uci_file_commit_rename_fails, Returned
<1>21. CASE uci_revert(p)
  BY <1>21, ConfigStep DEF TypeOK, PcInv, HoldsFlushed, Unlinked, uci_revert, SaveOwn
<1>22. CASE uci_filter_delta_fails(p)
  BY <1>22, ConfigStep DEF TypeOK, PcInv, HoldsFlushed, Unlinked, uci_filter_delta_fails
<1>23. CASE uci_filter_delta_rewrite(p)
  BY <1>23, ConfigStep DEF TypeOK, PcInv, HoldsFlushed, Unlinked, uci_filter_delta_rewrite,
     RewriteInv
<1>24. CASE Crash(p)
  BY <1>24, ConfigStep DEF TypeOK, PcInv, HoldsFlushed, Unlinked, Crash
<1>25. CASE \E c \in Change : uci_add_delta(p, c)
  <2>1. PICK c \in Change : uci_add_delta(p, c)
    BY <1>25
  <2>. QED
    BY <2>1, ConfigStep DEF TypeOK, PcInv, HoldsFlushed, Unlinked, uci_add_delta
<1>26. CASE \E c \in Importable : uci_do_import(p, c)
  <2>1. PICK c \in Importable : uci_do_import(p, c)
    BY <1>26
  <2>. QED
    BY <2>1, ConfigStep DEF TypeOK, PcInv, HoldsFlushed, Unlinked, uci_do_import
<1>27. CASE \E S \in Selections : uci_filter_delta(p, S)
  <2>1. PICK S \in Selections : uci_filter_delta(p, S)
    BY <1>27
  <2>2. delta \subseteq list'[p] \union reverted'
    BY <2>1 DEF TypeOK, uci_filter_delta
  <2>. QED
    BY <2>1, <2>2, ConfigStep DEF TypeOK, PcInv, HoldsFlushed, Unlinked, uci_filter_delta
<1>. QED
  BY <1>1, <1>2, <1>3, <1>4, <1>5, <1>6, <1>7, <1>8, <1>9, <1>10, <1>11, <1>12, <1>13,
     <1>14, <1>15, <1>16, <1>17, <1>18, <1>19, <1>20, <1>21, <1>22, <1>23, <1>24, <1>25,
     <1>26, <1>27 DEF Step, Call

(* A live change is never lost outside the windows.                        *)
LEMMA LoseStep ==
  ASSUME TypeOK, PcInv, RewriteInv, TmpInv, LockInv, CarryInv, OnlyWindowsLose,
         NEW p \in Proc, Step(p) \/ Call(p) \/ Crash(p)
  PROVE  OnlyWindowsLose'
<1>. SUFFICES ASSUME ~hit', NEW x \in Live'
             PROVE  x \in file'[cfg'].body \union delta' \union InTransit'
  BY DEF OnlyWindowsLose, NoLostChange
<1>1. x \in Change
  BY TypeStep DEF TypeOK, Live
<1>2. /\ HoldsFlushed(p)' /\ x \in pkg'[p] => x \in InTransit'
      /\ x \in list'[p] => x \in InTransit'
  BY <1>1 DEF InTransit, Flushed, Kept
<1>3. ASSUME NEW q \in Proc \ {p}
      PROVE  /\ HoldsFlushed(q) /\ x \in pkg[q] => x \in InTransit'
             /\ x \in list[q] => x \in InTransit'
  BY <1>1, <1>3, Others DEF InTransit, Flushed, Kept, HoldsFlushed
<1>4. CASE x \notin saved
  BY <1>1, <1>2, <1>4, MoveStep DEF Live
<1>5. CASE x \in saved
  <2>1. x \in Live /\ ~hit
    BY <1>1, <1>5, MoveStep DEF Live
  <2>2. x \in file[cfg].body \union delta \union Flushed \union Kept
    BY <2>1 DEF OnlyWindowsLose, NoLostChange, InTransit
  <2>3. CASE x \in file[cfg].body \union delta
    BY <1>1, <1>2, <2>3, MoveStep DEF Live
  <2>4. CASE x \in Flushed \union Kept
    <3>1. PICK q \in Proc : (HoldsFlushed(q) /\ x \in pkg[q]) \/ x \in list[q]
      BY <2>4 DEF Flushed, Kept
    <3>2. CASE q = p
      BY <1>1, <1>2, <3>1, <3>2, MoveStep
    <3>. QED
      BY <1>3, <3>1, <3>2
  <2>. QED
    BY <2>2, <2>3, <2>4
<1>. QED
  BY <1>4, <1>5

-----------------------------------------------------------------------------
(***************************************************************************)
(* Outside the windows: reverted changes                                   *)
(***************************************************************************)

(* Only uci_filter_delta reverts.                                          *)
LEMMA FilterOnly ==
  ASSUME TypeOK, NEW p \in Proc, Step(p) \/ Call(p) \/ Crash(p)
  PROVE  (\E S \in Selections : uci_filter_delta(p, S)) \/ reverted' = reverted
<1>1. CASE uci_file_load_open(p)
  BY <1>1 DEF TypeOK, uci_file_load_open
<1>2. CASE uci_file_load_import(p)
  BY <1>2 DEF TypeOK, uci_file_load_import
<1>3. CASE uci_file_load_delta(p)
  BY <1>3 DEF TypeOK, uci_file_load_delta
<1>4. CASE uci_file_load_close(p)
  BY <1>4 DEF TypeOK, uci_file_load_close
<1>5. CASE uci_unload(p)
  BY <1>5 DEF TypeOK, uci_unload
<1>6. CASE uci_save(p)
  BY <1>6 DEF TypeOK, uci_save, SaveOwn
<1>7. CASE uci_file_commit_open(p)
  BY <1>7 DEF TypeOK, uci_file_commit_open, Returned
<1>8. CASE uci_file_commit_lock(p)
  BY <1>8 DEF TypeOK, uci_file_commit_lock, Returned
<1>9. CASE uci_file_commit_reload(p)
  BY <1>9 DEF TypeOK, uci_file_commit_reload, SaveOwn, Returned
<1>10. CASE uci_file_commit_save_fails(p)
  BY <1>10 DEF TypeOK, uci_file_commit_save_fails, Returned
<1>11. CASE uci_load_delta_read(p)
  BY <1>11 DEF TypeOK, uci_load_delta_read
<1>12. CASE uci_load_delta_flush(p)
  BY <1>12 DEF TypeOK, uci_load_delta_flush
<1>13. CASE uci_load_delta_flush_fails(p)
  BY <1>13 DEF TypeOK, uci_load_delta_flush_fails
<1>14. CASE uci_load_delta_reopen_fails(p)
  BY <1>14 DEF TypeOK, uci_load_delta_reopen_fails
<1>15. CASE uci_file_commit_tmp(p)
  BY <1>15 DEF TypeOK, uci_file_commit_tmp, Returned
<1>16. CASE uci_file_commit_tmp_fails(p)
  BY <1>16 DEF TypeOK, uci_file_commit_tmp_fails, Returned
<1>17. CASE uci_file_commit_export(p)
  BY <1>17 DEF TypeOK, uci_file_commit_export, Returned
<1>18. CASE uci_file_commit_close(p)
  BY <1>18 DEF TypeOK, uci_file_commit_close, Returned
<1>19. CASE uci_file_commit_rename(p)
  BY <1>19 DEF TypeOK, uci_file_commit_rename, Returned
<1>20. CASE uci_file_commit_rename_fails(p)
  BY <1>20 DEF TypeOK, uci_file_commit_rename_fails, Returned
<1>21. CASE uci_revert(p)
  BY <1>21 DEF TypeOK, uci_revert, SaveOwn
<1>22. CASE uci_filter_delta_fails(p)
  BY <1>22 DEF TypeOK, uci_filter_delta_fails
<1>23. CASE uci_filter_delta_rewrite(p)
  BY <1>23 DEF TypeOK, uci_filter_delta_rewrite
<1>24. CASE Crash(p)
  BY <1>24 DEF TypeOK, Crash
<1>25. CASE \E c \in Change : uci_add_delta(p, c)
  <2>1. PICK c \in Change : uci_add_delta(p, c)
    BY <1>25
  <2>. QED
    BY <2>1 DEF TypeOK, uci_add_delta
<1>26. CASE \E c \in Importable : uci_do_import(p, c)
  <2>1. PICK c \in Importable : uci_do_import(p, c)
    BY <1>26
  <2>. QED
    BY <2>1 DEF TypeOK, uci_do_import
<1>27. CASE \E S \in Selections : uci_filter_delta(p, S)
  <2>1. PICK S \in Selections : uci_filter_delta(p, S)
    BY <1>27
  <2>. QED
    BY <2>1 DEF TypeOK, uci_filter_delta
<1>. QED
  BY <1>1, <1>2, <1>3, <1>4, <1>5, <1>6, <1>7, <1>8, <1>9, <1>10, <1>11, <1>12, <1>13,
     <1>14, <1>15, <1>16, <1>17, <1>18, <1>19, <1>20, <1>21, <1>22, <1>23, <1>24, <1>25,
     <1>26, <1>27 DEF Step, Call

(* Where the package that p will export comes from.                        *)
LEMMA RevertLocal ==
  ASSUME TypeOK, PcInv, FreshInv, NEW p \in Proc, Step(p) \/ Call(p) \/ Crash(p), ~hit'
  PROVE  /\ ~hit
         /\ pc'[p] \in {"read", "truncate"} \/ Exporting(p)' =>
              \/ /\ pc[p] \in {"read", "truncate"} \/ Exporting(p)
                 /\ pkg'[p] \subseteq pkg[p] \union Overlay \union delta
              \/ pkg'[p] \subseteq Importable
              \/ pc[p] = "reload" /\ pkg'[p] = file[fd[p]].body
<1>1. CASE uci_file_load_open(p)
  BY <1>1 DEF TypeOK, PcInv, Exporting, uci_file_load_open
<1>2. CASE uci_file_load_import(p)
  BY <1>2 DEF TypeOK, PcInv, Exporting, uci_file_load_import
<1>3. CASE uci_file_load_delta(p)
  BY <1>3 DEF TypeOK, PcInv, Exporting, uci_file_load_delta
<1>4. CASE uci_file_load_close(p)
  BY <1>4 DEF TypeOK, PcInv, Exporting, uci_file_load_close
<1>5. CASE uci_unload(p)
  BY <1>5 DEF TypeOK, PcInv, Exporting, uci_unload
<1>6. CASE uci_save(p)
  BY <1>6 DEF TypeOK, PcInv, Exporting, uci_save, SaveOwn
<1>7. CASE uci_file_commit_open(p)
  BY <1>7 DEF TypeOK, PcInv, Exporting, uci_file_commit_open, Returned
<1>8. CASE uci_file_commit_lock(p)
  <2>1. ~hit /\ pkg'[p] = pkg[p] /\ tmp'[p] = 0
    BY <1>8 DEF TypeOK, PcInv, uci_file_commit_lock
  <2>2. CASE tracked[p]
    BY <1>8, <2>1, <2>2 DEF TypeOK, Exporting, uci_file_commit_lock
  <2>3. CASE ~tracked[p]
    BY <2>1, <2>3 DEF FreshInv
  <2>. QED
    BY <2>2, <2>3
<1>9. CASE uci_file_commit_reload(p)
  BY <1>9 DEF TypeOK, PcInv, Exporting, uci_file_commit_reload, SaveOwn, Returned
<1>10. CASE uci_file_commit_save_fails(p)
  BY <1>10 DEF TypeOK, PcInv, Exporting, uci_file_commit_save_fails, Returned
<1>11. CASE uci_load_delta_read(p)
  BY <1>11 DEF TypeOK, PcInv, Exporting, uci_load_delta_read
<1>12. CASE uci_load_delta_flush(p)
  BY <1>12 DEF TypeOK, PcInv, Exporting, uci_load_delta_flush
<1>13. CASE uci_load_delta_flush_fails(p)
  BY <1>13 DEF TypeOK, PcInv, Exporting, uci_load_delta_flush_fails
<1>14. CASE uci_load_delta_reopen_fails(p)
  BY <1>14 DEF TypeOK, PcInv, Exporting, uci_load_delta_reopen_fails
<1>15. CASE uci_file_commit_tmp(p)
  BY <1>15 DEF TypeOK, PcInv, Exporting, uci_file_commit_tmp, Returned
<1>16. CASE uci_file_commit_tmp_fails(p)
  BY <1>16 DEF TypeOK, PcInv, Exporting, uci_file_commit_tmp_fails, Returned
<1>17. CASE uci_file_commit_export(p)
  BY <1>17 DEF TypeOK, PcInv, Exporting, uci_file_commit_export, Returned
<1>18. CASE uci_file_commit_close(p)
  BY <1>18 DEF TypeOK, PcInv, Exporting, uci_file_commit_close, Returned
<1>19. CASE uci_file_commit_rename(p)
  BY <1>19 DEF TypeOK, PcInv, Exporting, uci_file_commit_rename, Returned
<1>20. CASE uci_file_commit_rename_fails(p)
  BY <1>20 DEF TypeOK, PcInv, Exporting, uci_file_commit_rename_fails, Returned
<1>21. CASE uci_revert(p)
  BY <1>21 DEF TypeOK, PcInv, Exporting, uci_revert, SaveOwn
<1>22. CASE uci_filter_delta_fails(p)
  BY <1>22 DEF TypeOK, PcInv, Exporting, uci_filter_delta_fails
<1>23. CASE uci_filter_delta_rewrite(p)
  BY <1>23 DEF TypeOK, PcInv, Exporting, uci_filter_delta_rewrite
<1>24. CASE Crash(p)
  BY <1>24 DEF TypeOK, PcInv, Exporting, Crash
<1>25. CASE \E c \in Change : uci_add_delta(p, c)
  <2>1. PICK c \in Change : uci_add_delta(p, c)
    BY <1>25
  <2>. QED
    BY <2>1 DEF TypeOK, PcInv, Exporting, uci_add_delta
<1>26. CASE \E c \in Importable : uci_do_import(p, c)
  <2>1. PICK c \in Importable : uci_do_import(p, c)
    BY <1>26
  <2>. QED
    BY <2>1 DEF TypeOK, PcInv, Exporting, uci_do_import
<1>27. CASE \E S \in Selections : uci_filter_delta(p, S)
  <2>1. PICK S \in Selections : uci_filter_delta(p, S)
    BY <1>27
  <2>. QED
    BY <2>1 DEF TypeOK, PcInv, Exporting, uci_filter_delta
<1>. QED
  BY <1>1, <1>2, <1>3, <1>4, <1>5, <1>6, <1>7, <1>8, <1>9, <1>10, <1>11, <1>12, <1>13,
     <1>14, <1>15, <1>16, <1>17, <1>18, <1>19, <1>20, <1>21, <1>22, <1>23, <1>24, <1>25,
     <1>26, <1>27 DEF Step, Call

(* uci_filter_delta removes the change from the only place that holds it.  *)
LEMMA Filtered ==
  ASSUME TypeOK, PcInv, OnceInv, LockInv, RevertInv, DeltaWritable, ~hit,
         NEW p \in Proc, NEW S \in Selections, uci_filter_delta(p, S), ~hit'
  PROVE  RevertInv'
<1>1. /\ delta' = {} /\ list'[p] = delta \ S /\ pc[p] = "filter" /\ pc'[p] = "rewrite"
      /\ reverted' = reverted \union (delta \intersect S)
      /\ UNCHANGED <<file, cfg, pkg, tmp>>
  BY DEF TypeOK, uci_filter_delta
<1>2. \A q \in Proc \ {p} : pc'[q] = pc[q] /\ list'[q] = {}
  BY DEF TypeOK, PcInv, DeltaFree, uci_filter_delta
<1>3. Waiting' = delta \ S
  BY <1>1, <1>2 DEF TypeOK, Waiting, Kept
<1>4. delta \subseteq Waiting
  BY DEF Waiting
<1>5. (reverted \union (delta \intersect S)) \intersect file[cfg].body = {}
  BY <1>4 DEF RevertInv, OnceInv, TypeOK
<1>6. (reverted \union (delta \intersect S)) \intersect (delta \ S) = {}
  BY <1>4 DEF RevertInv
<1>7. ASSUME NEW q \in Proc, pc'[q] \in {"read", "truncate"} \/ Exporting(q)'
      PROVE  (reverted \union (delta \intersect S)) \intersect pkg[q] = {}
  <2>1. pc'[q] = pc[q] /\ (pc[q] \in {"read", "truncate"} \/ Exporting(q))
    BY <1>1, <1>2, <1>7 DEF PcInv, Exporting
  <2>2. CASE pc[q] = "read" \/ Exporting(q)
    BY <1>4, <2>2 DEF RevertInv, OnceInv
  <2>3. CASE pc[q] = "truncate"
    <3>1. q # p
      BY <1>1, <2>3
    <3>2. delta \intersect S = {}
      BY <2>3, <3>1 DEF ReadNotTruncated, uci_filter_delta
    <3>. QED
      BY <2>3, <3>2 DEF RevertInv
  <2>. QED
    BY <2>1, <2>2, <2>3
<1>. QED
  BY <1>1, <1>3, <1>5, <1>6, <1>7 DEF RevertInv

(* A reverted change stays out.                                            *)
LEMMA RevertStep ==
  ASSUME TypeOK, PcInv, TmpInv, FreshInv, OnceInv, LockInv, RevertInv,
         NEW p \in Proc, Step(p) \/ Call(p) \/ Crash(p)
  PROVE  RevertInv'
<1>. DEFINE Taking(q) == pc[q] \in {"read", "truncate"} \/ Exporting(q)
<1>. SUFFICES ASSUME DeltaWritable, ~hit'
             PROVE  RevertInv'
  BY DEF RevertInv, DeltaWritable
<1>0. ~hit
  BY RevertLocal
<1>1. CASE \E S \in Selections : uci_filter_delta(p, S)
  BY <1>0, <1>1, Filtered
<1>2. CASE reverted' = reverted
  <2>1. reverted \intersect (Overlay \union Importable \union own[p]) = {}
    BY DEF FreshInv, Outside
  <2>2. reverted \intersect Waiting' = {}
    BY <1>0, <2>1, WaitStep DEF RevertInv
  <2>3. reverted \intersect file'[cfg'].body = {}
    <3>1. CASE pc[p] = "rename" /\ cfg' = tmp[p] /\ file' = file
      <4>1. file'[cfg'].body = pkg[p] /\ Exporting(p)
        BY <1>0, <3>1, Renamed DEF PcInv, Exporting
      <4>. QED
        BY <1>0, <4>1 DEF RevertInv
    <3>2. CASE cfg' = cfg /\ file'[cfg'] = file[cfg]
      BY <1>0, <3>2 DEF RevertInv
    <3>. QED
      BY <3>1, <3>2, ConfigStep
  <2>4. ASSUME Taking(p)'
        PROVE  reverted \intersect pkg'[p] = {}
    <3>1. CASE Taking(p) /\ pkg'[p] \subseteq pkg[p] \union Overlay \union delta
      BY <1>0, <2>1, <3>1 DEF RevertInv, Waiting
    <3>2. CASE pkg'[p] \subseteq Importable
      BY <2>1, <3>2
    <3>3. CASE pc[p] = "reload" /\ pkg'[p] = file[fd[p]].body
      BY <1>0, <3>3 DEF RevertInv, LockInv
    <3>. QED
      BY <2>4, <3>1, <3>2, <3>3, RevertLocal
  <2>5. ASSUME NEW q \in Proc \ {p}, Taking(q)'
        PROVE  reverted \intersect pkg'[q] = {}
    BY <1>0, <2>5, Others DEF RevertInv, Exporting
  <2>. QED
    BY <1>2, <2>2, <2>3, <2>4, <2>5 DEF RevertInv
<1>3. (\E S \in Selections : uci_filter_delta(p, S)) \/ reverted' = reverted
  BY FilterOnly
<1>. QED
  BY <1>1, <1>2, <1>3

-----------------------------------------------------------------------------
(***************************************************************************)
(* Outside the windows: the calls are atomic                               *)
(***************************************************************************)

(* A step takes a change neither from nor to the saved changes and the     *)
(* config, or saves own changes, or is one of four: the rename of a        *)
(* commit, its flush, a flush of a file that cannot be written, and the    *)
(* filter of a revert.                                                     *)
Quiet(p) ==
  /\ cfg' = cfg /\ file'[cfg'] = file[cfg]
  /\ HoldsFlushed(p)' <=> HoldsFlushed(p)
  /\ HoldsFlushed(p) => pkg'[p] = pkg[p]
  /\ \/ delta' \union list'[p] = delta \union list[p]
     \/ /\ delta' \union list'[p] = (delta \union list[p]) \union own[p]
        /\ ~ReadNotTruncated(p)

LEMMA QuietOrNot ==
  ASSUME TypeOK, PcInv, RewriteInv, TmpInv, NEW p \in Proc, Step(p) \/ Call(p) \/ Crash(p), ~hit'
  PROVE  \/ Quiet(p)
         \/ uci_file_commit_rename(p)
         \/ uci_load_delta_flush(p) /\ changes[p]
         \/ uci_load_delta_reopen_fails(p)
         \/ \E S \in Selections : uci_filter_delta(p, S)
<1>1. CASE uci_file_load_open(p)
  BY <1>1, ConfigStep DEF TypeOK, PcInv, Quiet, HoldsFlushed, Unlinked, uci_file_load_open
<1>2. CASE uci_file_load_import(p)
  BY <1>2, ConfigStep DEF TypeOK, PcInv, Quiet, HoldsFlushed, Unlinked, uci_file_load_import
<1>3. CASE uci_file_load_delta(p)
  BY <1>3, ConfigStep DEF TypeOK, PcInv, Quiet, HoldsFlushed, Unlinked, uci_file_load_delta
<1>4. CASE uci_file_load_close(p)
  BY <1>4, ConfigStep DEF TypeOK, PcInv, Quiet, HoldsFlushed, Unlinked, uci_file_load_close
<1>5. CASE uci_unload(p)
  BY <1>5, ConfigStep DEF TypeOK, PcInv, Quiet, HoldsFlushed, Unlinked, uci_unload
<1>6. CASE uci_save(p)
  BY <1>6, ConfigStep DEF TypeOK, PcInv, Quiet, HoldsFlushed, Unlinked, uci_save, SaveOwn
<1>7. CASE uci_file_commit_open(p)
  BY <1>7, ConfigStep DEF TypeOK, PcInv, Quiet, HoldsFlushed, Unlinked,
     uci_file_commit_open, Returned
<1>8. CASE uci_file_commit_lock(p)
  BY <1>8, ConfigStep DEF TypeOK, PcInv, Quiet, HoldsFlushed, Unlinked,
     uci_file_commit_lock, Returned
<1>9. CASE uci_file_commit_reload(p)
  BY <1>9, ConfigStep DEF TypeOK, PcInv, Quiet, HoldsFlushed, Unlinked,
     uci_file_commit_reload, SaveOwn, Returned
<1>10. CASE uci_file_commit_save_fails(p)
  BY <1>10, ConfigStep DEF TypeOK, PcInv, Quiet, HoldsFlushed, Unlinked,
     uci_file_commit_save_fails, Returned
<1>11. CASE uci_load_delta_read(p)
  BY <1>11, ConfigStep DEF TypeOK, PcInv, Quiet, HoldsFlushed, Unlinked, uci_load_delta_read
<1>12. CASE uci_load_delta_flush(p)
  BY <1>12, ConfigStep DEF TypeOK, PcInv, Quiet, HoldsFlushed, Unlinked,
     uci_load_delta_flush
<1>13. CASE uci_load_delta_flush_fails(p)
  BY <1>13, ConfigStep DEF TypeOK, PcInv, Quiet, HoldsFlushed, Unlinked,
     uci_load_delta_flush_fails
<1>14. CASE uci_load_delta_reopen_fails(p)
  BY <1>14
<1>15. CASE uci_file_commit_tmp(p)
  BY <1>15, ConfigStep DEF TypeOK, PcInv, Quiet, HoldsFlushed, Unlinked,
     uci_file_commit_tmp, Returned
<1>16. CASE uci_file_commit_tmp_fails(p)
  BY <1>16, ConfigStep DEF TypeOK, PcInv, Quiet, HoldsFlushed, Unlinked,
     uci_file_commit_tmp_fails, Returned
<1>17. CASE uci_file_commit_export(p)
  BY <1>17, ConfigStep DEF TypeOK, PcInv, Quiet, HoldsFlushed, Unlinked,
     uci_file_commit_export, Returned
<1>18. CASE uci_file_commit_close(p)
  BY <1>18, ConfigStep DEF TypeOK, PcInv, Quiet, HoldsFlushed, Unlinked,
     uci_file_commit_close, Returned
<1>19. CASE uci_file_commit_rename(p)
  BY <1>19
<1>20. CASE uci_file_commit_rename_fails(p)
  BY <1>20, ConfigStep DEF TypeOK, PcInv, Quiet, HoldsFlushed, Unlinked,
     uci_file_commit_rename_fails, Returned
<1>21. CASE uci_revert(p)
  BY <1>21, ConfigStep DEF TypeOK, PcInv, Quiet, HoldsFlushed, Unlinked, uci_revert, SaveOwn
<1>22. CASE uci_filter_delta_fails(p)
  BY <1>22, ConfigStep DEF TypeOK, PcInv, Quiet, HoldsFlushed, Unlinked,
     uci_filter_delta_fails
<1>23. CASE uci_filter_delta_rewrite(p)
  BY <1>23, ConfigStep DEF TypeOK, PcInv, Quiet, HoldsFlushed, Unlinked,
     uci_filter_delta_rewrite, RewriteInv
<1>24. CASE Crash(p)
  BY <1>24, ConfigStep DEF TypeOK, PcInv, Quiet, HoldsFlushed, Unlinked, Crash
<1>25. CASE \E c \in Change : uci_add_delta(p, c)
  <2>1. PICK c \in Change : uci_add_delta(p, c)
    BY <1>25
  <2>. QED
    BY <2>1, ConfigStep DEF TypeOK, PcInv, Quiet, HoldsFlushed, Unlinked, uci_add_delta
<1>26. CASE \E c \in Importable : uci_do_import(p, c)
  <2>1. PICK c \in Importable : uci_do_import(p, c)
    BY <1>26
  <2>. QED
    BY <2>1, ConfigStep DEF TypeOK, PcInv, Quiet, HoldsFlushed, Unlinked, uci_do_import
<1>27. CASE \E S \in Selections : uci_filter_delta(p, S)
  BY <1>27
<1>. QED
  BY <1>1, <1>2, <1>3, <1>4, <1>5, <1>6, <1>7, <1>8, <1>9, <1>10, <1>11, <1>12, <1>13,
     <1>14, <1>15, <1>16, <1>17, <1>18, <1>19, <1>20, <1>21, <1>22, <1>23, <1>24, <1>25,
     <1>26, <1>27 DEF Step, Call

(* What p imports, exports, reads and flushes.                             *)
LEMMA TakeLocal ==
  ASSUME TypeOK, PcInv, TmpInv, LockInv, TakeInv, NEW p \in Proc, Step(p) \/ Call(p) \/ Crash(p)
  PROVE  /\ pc'[p] \in Unlinked \union {"lock"} /\ ~tracked'[p]
              => \E c \in Importable : pkg'[p] = {c}
         /\ Exporting(p)' /\ tracked'[p] => changes'[p]
         /\ ~hit' => ~hit
         /\ ~hit' /\ pc'[p] = "read" => pkg'[p] \subseteq file[cfg].body
         /\ ~hit' /\ pc'[p] = "truncate" /\ NoOverlay
              => /\ pc[p] = "read" /\ delta' = delta /\ list'[p] = {}
                 /\ pkg'[p] \subseteq file[cfg].body \union Accepted(delta)
                 /\ changes'[p] => Accepted(delta) # {}
<1>1. CASE uci_file_load_open(p)
  BY <1>1 DEF TypeOK, PcInv, TakeInv, Exporting, Unlinked, uci_file_load_open
<1>2. CASE uci_file_load_import(p)
  BY <1>2 DEF TypeOK, PcInv, TakeInv, Exporting, Unlinked, uci_file_load_import
<1>3. CASE uci_file_load_delta(p)
  BY <1>3 DEF TypeOK, PcInv, TakeInv, Exporting, Unlinked, uci_file_load_delta
<1>4. CASE uci_file_load_close(p)
  BY <1>4 DEF TypeOK, PcInv, TakeInv, Exporting, Unlinked, uci_file_load_close
<1>5. CASE uci_unload(p)
  BY <1>5 DEF TypeOK, PcInv, TakeInv, Exporting, Unlinked, uci_unload
<1>6. CASE uci_save(p)
  BY <1>6 DEF TypeOK, PcInv, TakeInv, Exporting, Unlinked, uci_save, SaveOwn
<1>7. CASE uci_file_commit_open(p)
  BY <1>7 DEF TypeOK, PcInv, TakeInv, Exporting, Unlinked, uci_file_commit_open, Returned
<1>8. CASE uci_file_commit_lock(p)
  BY <1>8 DEF TypeOK, PcInv, TakeInv, Exporting, Unlinked, uci_file_commit_lock, Returned
<1>9. CASE uci_file_commit_reload(p)
  <2>1. pc[p] = "reload" /\ pc'[p] = "read" /\ tracked'[p] = tracked[p] /\ tracked[p] /\ tmp'[p] = 0
        /\ pkg'[p] = file[fd[p]].body /\ (~hit' => ~hit)
    BY <1>9 DEF TypeOK, PcInv, uci_file_commit_reload, SaveOwn
  <2>2. ~hit => fd[p] = cfg
    BY <2>1 DEF LockInv
  <2>. QED
    BY <2>1, <2>2 DEF Exporting, Unlinked
<1>10. CASE uci_file_commit_save_fails(p)
  BY <1>10 DEF TypeOK, PcInv, TakeInv, Exporting, Unlinked, uci_file_commit_save_fails,
     Returned
<1>11. CASE uci_load_delta_read(p)
  <2>1. /\ pc[p] = "read" /\ pc'[p] = "truncate" /\ tracked'[p] = tracked[p] /\ tracked[p] /\ tmp'[p] = 0
        /\ pkg'[p] = pkg[p] \union Accepted(Overlay \union delta) /\ hit' = hit
        /\ delta' = delta /\ list'[p] = {}
        /\ changes'[p] = (Accepted(Overlay \union delta) # {})
    <3>1. /\ pc[p] = "read" /\ pc'[p] = "truncate" /\ tracked' = tracked /\ tmp' = tmp
          /\ pkg'[p] = pkg[p] \union Accepted(Overlay \union delta) /\ hit' = hit
          /\ delta' = delta /\ list' = list
          /\ changes'[p] = (Accepted(Overlay \union delta) # {})
      BY <1>11 DEF TypeOK, uci_load_delta_read
    <3>2. tracked[p] /\ tmp[p] = 0 /\ list[p] = {}
      BY <3>1 DEF PcInv
    <3>. QED
      BY <3>1, <3>2
  <2>2. NoOverlay => Accepted(Overlay \union delta) = Accepted(delta)
    BY DEF NoOverlay
  <2>3. ~hit => pkg[p] \subseteq file[cfg].body
    BY <2>1 DEF TakeInv
  <2>. QED
    BY <2>1, <2>2, <2>3 DEF Exporting, Unlinked
<1>12. CASE uci_load_delta_flush(p)
  BY <1>12 DEF TypeOK, PcInv, TakeInv, Exporting, Unlinked, uci_load_delta_flush
<1>13. CASE uci_load_delta_flush_fails(p)
  BY <1>13 DEF TypeOK, PcInv, TakeInv, Exporting, Unlinked, uci_load_delta_flush_fails
<1>14. CASE uci_load_delta_reopen_fails(p)
  BY <1>14 DEF TypeOK, PcInv, TakeInv, Exporting, Unlinked, uci_load_delta_reopen_fails
<1>15. CASE uci_file_commit_tmp(p)
  BY <1>15 DEF TypeOK, PcInv, TakeInv, Exporting, Unlinked, uci_file_commit_tmp, Returned
<1>16. CASE uci_file_commit_tmp_fails(p)
  BY <1>16 DEF TypeOK, PcInv, TakeInv, Exporting, Unlinked, uci_file_commit_tmp_fails,
     Returned
<1>17. CASE uci_file_commit_export(p)
  BY <1>17 DEF TypeOK, PcInv, TakeInv, Exporting, Unlinked, uci_file_commit_export, Returned
<1>18. CASE uci_file_commit_close(p)
  BY <1>18 DEF TypeOK, PcInv, TakeInv, Exporting, Unlinked, uci_file_commit_close, Returned
<1>19. CASE uci_file_commit_rename(p)
  BY <1>19 DEF TypeOK, PcInv, TakeInv, Exporting, Unlinked, uci_file_commit_rename, Returned
<1>20. CASE uci_file_commit_rename_fails(p)
  BY <1>20 DEF TypeOK, PcInv, TakeInv, Exporting, Unlinked, uci_file_commit_rename_fails,
     Returned
<1>21. CASE uci_revert(p)
  BY <1>21 DEF TypeOK, PcInv, TakeInv, Exporting, Unlinked, uci_revert, SaveOwn
<1>22. CASE uci_filter_delta_fails(p)
  BY <1>22 DEF TypeOK, PcInv, TakeInv, Exporting, Unlinked, uci_filter_delta_fails
<1>23. CASE uci_filter_delta_rewrite(p)
  BY <1>23 DEF TypeOK, PcInv, TakeInv, Exporting, Unlinked, uci_filter_delta_rewrite
<1>24. CASE Crash(p)
  <2>1. pc'[p] = "out" /\ tmp'[p] = 0 /\ (hit => hit')
    BY <1>24 DEF TypeOK, Crash
  <2>. QED
    BY <2>1 DEF Exporting, Unlinked
<1>25. CASE \E c \in Change : uci_add_delta(p, c)
  <2>1. PICK c \in Change : uci_add_delta(p, c)
    BY <1>25
  <2>. QED
    BY <2>1 DEF TypeOK, PcInv, TakeInv, Exporting, Unlinked, uci_add_delta
<1>26. CASE \E c \in Importable : uci_do_import(p, c)
  <2>1. PICK c \in Importable : uci_do_import(p, c)
    BY <1>26
  <2>. QED
    BY <2>1 DEF TypeOK, PcInv, TakeInv, Exporting, Unlinked, uci_do_import
<1>27. CASE \E S \in Selections : uci_filter_delta(p, S)
  <2>1. PICK S \in Selections : uci_filter_delta(p, S)
    BY <1>27
  <2>. QED
    BY <2>1 DEF TypeOK, PcInv, TakeInv, Exporting, Unlinked, uci_filter_delta
<1>. QED
  BY <1>1, <1>2, <1>3, <1>4, <1>5, <1>6, <1>7, <1>8, <1>9, <1>10, <1>11, <1>12, <1>13,
     <1>14, <1>15, <1>16, <1>17, <1>18, <1>19, <1>20, <1>21, <1>22, <1>23, <1>24, <1>25,
     <1>26, <1>27 DEF Step, Call

(* What the other processes keep and have flushed: a step of p leaves it.  *)
KeptElsewhere(p) == {c \in Change : \E q \in Proc \ {p} : c \in list[q]}
FlushedElsewhere(p) ==
  {c \in Change : \E q \in Proc \ {p} : HoldsFlushed(q) /\ c \in pkg[q]}

LEMMA Elsewhere ==
  ASSUME TypeOK, PcInv, NEW p \in Proc, Step(p) \/ Call(p) \/ Crash(p)
  PROVE  /\ Waiting = (delta \union list[p]) \union KeptElsewhere(p)
         /\ Waiting' = (delta' \union list'[p]) \union KeptElsewhere(p)
         /\ Flushed = (IF HoldsFlushed(p) THEN pkg[p] ELSE {}) \union FlushedElsewhere(p)
         /\ Flushed' = (IF HoldsFlushed(p)' THEN pkg'[p] ELSE {}) \union FlushedElsewhere(p)
<1>1. Waiting = (delta \union list[p]) \union KeptElsewhere(p)
  BY DEF TypeOK, Waiting, Kept, KeptElsewhere
<1>2. Flushed = (IF HoldsFlushed(p) THEN pkg[p] ELSE {}) \union FlushedElsewhere(p)
  BY DEF TypeOK, Flushed, FlushedElsewhere
<1>3. TypeOK'
  BY TypeStep
<1>4. KeptElsewhere(p)' = KeptElsewhere(p)
  BY Others DEF KeptElsewhere
<1>5. FlushedElsewhere(p)' = FlushedElsewhere(p)
  BY Others DEF FlushedElsewhere, HoldsFlushed
<1>6. Waiting' = (delta' \union list'[p]) \union KeptElsewhere(p)
  BY <1>3, <1>4 DEF TypeOK, Waiting, Kept, KeptElsewhere
<1>7. Flushed' = (IF HoldsFlushed(p)' THEN pkg'[p] ELSE {}) \union FlushedElsewhere(p)
  BY <1>3, <1>5 DEF TypeOK, Flushed, FlushedElsewhere
<1>. QED
  BY <1>1, <1>2, <1>6, <1>7

(* Between the reading and the truncation of the delta file by q the saved *)
(* changes stay the same, or hit is set.                                   *)
LEMMA WaitingStays ==
  ASSUME TypeOK, PcInv, RewriteInv, TmpInv, LockInv, NEW p \in Proc,
         Step(p) \/ Call(p) \/ Crash(p), ~hit, ~hit', NEW q \in Proc \ {p}, pc[q] = "truncate"
  PROVE  Waiting' = Waiting
<1>1. ReadNotTruncated(p)
  BY DEF ReadNotTruncated
<1>2. CASE Quiet(p)
  BY <1>1, <1>2, Elsewhere DEF Quiet
<1>3. CASE uci_file_commit_rename(p)
  BY <1>3, Elsewhere DEF uci_file_commit_rename
<1>4. CASE uci_load_delta_flush(p)
  BY <1>4 DEF LockInv, Committing, uci_load_delta_flush
<1>5. CASE uci_load_delta_reopen_fails(p)
  BY <1>5, Elsewhere DEF uci_load_delta_reopen_fails
<1>6. CASE \E S \in Selections : uci_filter_delta(p, S)
  <2>1. PICK S \in Selections : uci_filter_delta(p, S)
    BY <1>6
  <2>3. /\ pc[p] = "filter" /\ list'[p] = delta \ S /\ delta' = {}
        /\ delta \intersect S = {}
    BY <1>1, <2>1 DEF TypeOK, uci_filter_delta
  <2>2. list[p] = {} /\ list'[p] = delta \ S /\ delta' = {} /\ delta \intersect S = {}
    BY <2>3 DEF PcInv
  <2>. QED
    BY <2>2, Elsewhere
<1>. QED
  BY <1>2, <1>3, <1>4, <1>5, <1>6, QuietOrNot

(* A committing process takes no more than the two files hold.             *)
LEMMA TakeStep ==
  ASSUME TypeOK, PcInv, RewriteInv, TmpInv, LockInv, TakeInv, NEW p \in Proc,
         Step(p) \/ Call(p) \/ Crash(p)
  PROVE  TakeInv'
<1>. DEFINE Sent(q) ==
              /\ pc[q] \in Unlinked \union {"lock"} /\ ~tracked[q]
                   => \E c \in Importable : pkg[q] = {c}
              /\ Exporting(q) /\ tracked[q] => changes[q]
            Read(q) == pc[q] = "read" => pkg[q] \subseteq file[cfg].body
            Taken(q) == pc[q] = "truncate" /\ NoOverlay
                          => /\ pkg[q] \subseteq file[cfg].body \union Accepted(Waiting)
                             /\ changes[q] => Accepted(Waiting) # {}
<1>1. ASSUME NEW q \in Proc PROVE Sent(q)'
  <2>1. CASE q = p
    BY <2>1, TakeLocal
  <2>2. CASE q # p
    <3>1. Sent(q)
      BY DEF TakeInv
    <3>2. /\ pc'[q] = pc[q] /\ tracked'[q] = tracked[q] /\ pkg'[q] = pkg[q]
          /\ changes'[q] = changes[q] /\ tmp'[q] = tmp[q]
      BY <2>2, Others
    <3>. QED
      BY <3>1, <3>2 DEF Exporting
  <2>. QED
    BY <2>1, <2>2
<1>2. ASSUME ~hit', NEW q \in Proc PROVE Read(q)' /\ Taken(q)'
  <2>0. ~hit
    BY <1>2, TakeLocal
  <2>1. CASE q = p /\ pc[p] = "rename"
    BY <2>1, RenameEnds
  <2>2. CASE q # p /\ pc[p] = "rename"
    <3>1. pc'[q] = pc[q] /\ pc[q] \notin Committing
      BY <2>0, <2>2, Others DEF LockInv, Committing
    <3>. QED
      BY <3>1 DEF Committing
  <2>3. CASE q = p /\ cfg' = cfg /\ file'[cfg'] = file[cfg]
    <3>1. Read(q)'
      BY <1>2, <2>3, TakeLocal
    <3>2. Accepted(delta') \subseteq Accepted(Waiting')
      BY DEF Waiting
    <3>3. Taken(q)'
      BY <1>2, <2>3, <3>2, TakeLocal
    <3>. QED
      BY <3>1, <3>3
  <2>4. CASE q # p /\ cfg' = cfg /\ file'[cfg'] = file[cfg]
    <3>1. pc'[q] = pc[q] /\ pkg'[q] = pkg[q] /\ changes'[q] = changes[q]
      BY <2>4, Others
    <3>2. pc[q] = "truncate" => Waiting' = Waiting
      BY <1>2, <2>0, <2>4, WaitingStays
    <3>3. Read(q)'
      BY <2>0, <2>4, <3>1 DEF TakeInv
    <3>4. Taken(q)'
      BY <2>0, <2>4, <3>1, <3>2 DEF TakeInv
    <3>. QED
      BY <3>3, <3>4
  <2>. QED
    BY <2>1, <2>2, <2>3, <2>4, ConfigStep
<1>. QED
  BY <1>1, <1>2 DEF TakeInv

(* Outside the windows a step on the files is a step of the abstract       *)
(* package, or none.                                                       *)
LEMMA AtomicStep ==
  ASSUME IInv, DeltaWritable, NoOverlay, NEW p \in Proc,
         Step(p) \/ Call(p) \/ Crash(p), ~hit'
  PROVE  [Atomic!Next]_<<file[cfg].body \union Flushed, Waiting>>
<1>. USE DEF IInv
<1>0. ~hit
  BY TakeLocal
<1>. DEFINE committed == file[cfg].body \union Flushed
            pending == Waiting
<1>1. CASE Quiet(p)
  <2>1. committed' = committed
    BY <1>1, Elsewhere DEF Quiet
  <2>2. CASE Waiting' = Waiting
    BY <2>1, <2>2
  <2>3. CASE Waiting' = Waiting \union own[p]
    <3>1. own[p] \in SUBSET Change
      BY DEF TypeOK
    <3>2. Atomic!Save
      BY <2>1, <2>3, <3>1 DEF Atomic!Save
    <3>. QED
      BY <3>2 DEF Atomic!Next
  <2>4. Waiting' = Waiting \/ Waiting' = Waiting \union own[p]
    BY <1>1, Elsewhere DEF Quiet
  <2>. QED
    BY <2>2, <2>3, <2>4
<1>2. CASE uci_file_commit_rename(p)
  <2>1. /\ pc[p] = "rename" /\ pc'[p] \in {"in", "out"} /\ cfg' = tmp[p] /\ file' = file
        /\ delta' = delta /\ list' = list
    BY <1>2 DEF TypeOK, uci_file_commit_rename, Returned
  <2>2. FlushedElsewhere(p) = {}
    BY <1>0, <2>1 DEF LockInv, Committing, FlushedElsewhere, HoldsFlushed, Unlinked
  <2>3. ~HoldsFlushed(p)'
    BY <2>1 DEF HoldsFlushed, Unlinked
  <2>4. committed' = pkg[p] /\ Waiting' = Waiting
    BY <1>0, <2>1, <2>2, <2>3, Elsewhere, Renamed
  <2>5. Exporting(p)
    BY <2>1 DEF PcInv, Exporting
  <2>6. CASE tracked[p]
    <3>1. HoldsFlushed(p) /\ file[cfg].body \subseteq pkg[p]
      BY <1>0, <2>1, <2>5, <2>6 DEF TakeInv, CarryInv, HoldsFlushed, Unlinked
    <3>2. committed = pkg[p]
      BY <2>2, <3>1, Elsewhere
    <3>. QED
      BY <2>4, <3>2
  <2>7. CASE ~tracked[p]
    <3>1. PICK c \in Importable : pkg[p] = {c}
      BY <2>1, <2>7 DEF TakeInv, Unlinked
    <3>2. Atomic!Import
      BY <2>4, <3>1 DEF Atomic!Import
    <3>. QED
      BY <3>2 DEF Atomic!Next
  <2>. QED
    BY <2>6, <2>7
<1>3. CASE uci_load_delta_flush(p) /\ changes[p]
  <2>1. /\ pc[p] = "truncate" /\ pc'[p] = "tmp" /\ delta' = {} /\ list' = list
        /\ cfg' = cfg /\ file' = file /\ pkg'[p] = pkg[p]
        /\ tracked'[p] = tracked[p] /\ changes'[p]
    BY <1>3 DEF TypeOK, uci_load_delta_flush
  <2>2. \A q \in Proc : list[q] = {}
    BY <1>3, <2>1 DEF PcInv, DeltaFree, uci_load_delta_flush
  <2>3. Waiting' = {}
    BY <2>1, <2>2, Elsewhere DEF KeptElsewhere
  <2>4. FlushedElsewhere(p) = {}
    BY <1>0, <2>1 DEF LockInv, Committing, FlushedElsewhere, HoldsFlushed, Unlinked
  <2>5. ~HoldsFlushed(p) /\ HoldsFlushed(p)'
    BY <2>1 DEF PcInv, HoldsFlushed, Unlinked
  <2>6. committed = file[cfg].body /\ committed' = file[cfg].body \union pkg[p]
    BY <2>1, <2>4, <2>5, Elsewhere
  <2>7. /\ pkg[p] \subseteq file[cfg].body \union Accepted(Waiting)
        /\ Accepted(Waiting) \subseteq pkg[p] /\ Accepted(Waiting) # {}
    BY <1>0, <1>3, <2>1 DEF TakeInv, CarryInv
  <2>8. Atomic!Commit
    BY <2>3, <2>6, <2>7 DEF Atomic!Commit
  <2>. QED
    BY <2>8 DEF Atomic!Next
<1>4. CASE uci_load_delta_reopen_fails(p)
  BY <1>4 DEF DeltaWritable, uci_load_delta_reopen_fails
<1>5. CASE \E S \in Selections : uci_filter_delta(p, S)
  <2>1. PICK S \in Selections : uci_filter_delta(p, S)
    BY <1>5
  <2>2. /\ pc[p] = "filter" /\ pc'[p] = "rewrite" /\ list'[p] = delta \ S /\ delta' = {}
        /\ cfg' = cfg /\ file' = file
    BY <2>1 DEF TypeOK, uci_filter_delta
  <2>3. \A q \in Proc : list[q] = {}
    BY <2>1, <2>2 DEF PcInv, DeltaFree, uci_filter_delta
  <2>4. KeptElsewhere(p) = {}
    BY <2>3 DEF KeptElsewhere
  <2>5. Waiting' = Waiting \ S
    BY <2>2, <2>3, <2>4, Elsewhere
  <2>6. ~HoldsFlushed(p) /\ ~HoldsFlushed(p)'
    BY <2>2 DEF HoldsFlushed, Unlinked
  <2>7. committed' = committed
    BY <2>2, <2>6, Elsewhere
  <2>8. Atomic!Revert
    BY <2>5, <2>7 DEF Atomic!Revert
  <2>. QED
    BY <2>8 DEF Atomic!Next
<1>. QED
  BY <1>1, <1>2, <1>3, <1>4, <1>5, QuietOrNot

-----------------------------------------------------------------------------
(***************************************************************************)
(* The theorems                                                            *)
(***************************************************************************)

(* The initial state, one complete and empty config file, satisfies the    *)
(* invariant.                                                              *)
LEMMA IInvInit == Init => IInv
<1>. SUFFICES ASSUME Init PROVE IInv
  OBVIOUS
<1>1. [body |-> {}, whole |-> TRUE] \in Inode
  BY DEF Inode
<1>2. file \in Seq(Inode) /\ Len(file) = 1 /\ file[1] = [body |-> {}, whole |-> TRUE]
  BY <1>1 DEF Init
<1>3. file[1].body = {} /\ file[1].whole
  <2>1. file[1].body = {}
    BY <1>2
  <2>2. file[1].whole = TRUE
    BY <1>2
  <2>. QED
    BY <2>1, <2>2
<1>4. TypeOK
  <2>. cfg = 1 /\ MaxCalls \in Nat
    BY StoreAssumption DEF Init
  <2>1. cfg \in 1..Len(file) /\ 0 \in 0..Len(file) /\ 0 \in 0..MaxCalls
    BY <1>2
  <2>2. /\ fd \in [Proc -> 0..Len(file)]
        /\ tmp \in [Proc -> 0..Len(file)]
        /\ calls \in [Proc -> 0..MaxCalls]
    BY <2>1 DEF Init
  <2>3. /\ pkg \in [Proc -> SUBSET Change]
        /\ own \in [Proc -> SUBSET Change]
        /\ list \in [Proc -> SUBSET Change]
    BY DEF Init
  <2>4. /\ pc \in [Proc -> PCs]
        /\ mode \in [Proc -> {"un", "sh", "ex"}]
        /\ tracked \in [Proc -> BOOLEAN]
        /\ changes \in [Proc -> BOOLEAN]
        /\ stale \in [Proc -> BOOLEAN]
    BY DEF Init
  <2>5. /\ delta \in SUBSET Change /\ saved \in SUBSET Change
        /\ reverted \in SUBSET Change /\ replaced \in SUBSET Change
        /\ hit \in BOOLEAN /\ cut \in BOOLEAN
    BY DEF Init
  <2>. QED
    BY <1>2, <2>1, <2>2, <2>3, <2>4, <2>5 DEF TypeOK
<1>5. PcInv /\ RewriteInv
  BY DEF Init, PcInv, RewriteInv
<1>6. TmpInv
  BY <1>3 DEF Init, TmpInv
<1>7. FreshInv
  BY <1>2, <1>3 DEF Init, FreshInv
<1>8. OnceInv
  BY <1>2, <1>3 DEF Init, OnceInv, Waiting, Kept, Exporting
<1>9. LockInv /\ CarryInv
  BY DEF Init, LockInv, CarryInv, Committing, Exporting
<1>10. OnlyWindowsLose
  BY DEF Init, OnlyWindowsLose, NoLostChange, Live
<1>11. RevertInv
  BY DEF Init, RevertInv
<1>12. TakeInv
  BY DEF Init, TakeInv, Unlinked, Exporting
<1>. QED
  BY <1>4, <1>5, <1>6, <1>7, <1>8, <1>9, <1>10, <1>11, <1>12 DEF IInv

(* Every step of every process preserves the invariant.                    *)
LEMMA IInvNext == IInv /\ [Next]_vars => IInv'
<1>. SUFFICES ASSUME IInv, [Next]_vars PROVE IInv'
  OBVIOUS
<1>1. CASE Next
  <2>1. PICK p \in Proc : Step(p) \/ Call(p) \/ Crash(p)
    BY <1>1 DEF Next
  <2>. QED
    BY <2>1, TypeStep, PcStep, RewriteStep, TmpStep, FreshStep, OnceStep, LockStep,
       CarryStep, LoseStep, RevertStep, TakeStep DEF IInv
<1>2. CASE UNCHANGED vars
  <2>1. TypeOK' /\ PcInv' /\ RewriteInv' /\ TmpInv'
    BY <1>2 DEF IInv, vars, TypeOK, PcInv, RewriteInv, TmpInv, DeltaFree
  <2>2. FreshInv' /\ LockInv'
    BY <1>2 DEF IInv, vars, FreshInv, LockInv
  <2>3. Kept' = Kept /\ Flushed' = Flushed
    BY <1>2 DEF vars, Kept, Flushed, HoldsFlushed
  <2>4. OnceInv' /\ CarryInv' /\ RevertInv'
    BY <1>2, <2>3 DEF IInv, vars, OnceInv, CarryInv, RevertInv, Waiting, Exporting,
       DeltaWritable
  <2>5. OnlyWindowsLose'
    BY <1>2, <2>3 DEF IInv, vars, OnlyWindowsLose, NoLostChange, Live, InTransit
  <2>6. TakeInv'
    BY <1>2, <2>3 DEF IInv, vars, TakeInv, Waiting, Exporting
  <2>. QED
    BY <2>1, <2>2, <2>4, <2>5, <2>6 DEF IInv
<1>. QED
  BY <1>1, <1>2

(* The inductive invariant holds in every behaviour of the processes that  *)
(* share a package.                                                        *)
THEOREM Invariance == Spec => []IInv
<1>. QED
  BY IInvInit, IInvNext, PTL DEF Spec

(* Every variable keeps its type: in particular no call works on a config  *)
(* file that it has not opened, or renames one that it has not created.    *)
THEOREM TypeCorrect == Spec => []TypeOK
<1>1. IInv => TypeOK
  BY DEF IInv
<1>. QED
  BY <1>1, Invariance, PTL

(* The config path names a completely exported file, whatever processes    *)
(* crash and wherever, unless the disk filled up under uci_export.         *)
THEOREM NeverTorn == Spec => []ConfigNeverTorn
<1>1. IInv => ConfigNeverTorn
  BY DEF IInv, TmpInv, ConfigNeverTorn
<1>. QED
  BY <1>1, Invariance, PTL

(* If the delta file can be written, no saved change is both in the config *)
(* file and in the delta file: no crash and no interleaving of commits     *)
(* makes a later load apply it twice.                                      *)
THEOREM AppliedOnce == Spec => []NoDoubleApply
<1>1. IInv => NoDoubleApply
  BY DEF IInv, TypeOK, OnceInv, NoDoubleApply, Waiting
<1>. QED
  BY <1>1, Invariance, PTL

(* A saved change that nobody reverts or overwrites is lost only if a step *)
(* is taken in one of the windows of uci_load_delta and uci_file_commit    *)
(* that the module names.                                                  *)
THEOREM LostOnlyInWindows == Spec => []OnlyWindowsLose
<1>1. IInv => OnlyWindowsLose
  BY DEF IInv
<1>. QED
  BY <1>1, Invariance, PTL

(* Outside the windows, and if the delta file can be written, what         *)
(* uci_revert removed never comes back.                                    *)
THEOREM RevertedOut == Spec => []RevertedStaysOut
<1>1. IInv => RevertedStaysOut
  <2>. SUFFICES ASSUME IInv, DeltaWritable, ~hit
               PROVE  reverted \intersect (file[cfg].body \union delta \union InTransit) = {}
    BY DEF RevertedStaysOut
  <2>1. \A p \in Proc : HoldsFlushed(p) => Exporting(p)
    BY DEF IInv, PcInv, HoldsFlushed, Unlinked, Exporting
  <2>2. reverted \intersect Flushed = {}
    BY <2>1 DEF IInv, RevertInv, Flushed
  <2>. QED
    BY <2>2 DEF IInv, RevertInv, InTransit, Waiting
<1>. QED
  BY <1>1, Invariance, PTL

(* A load that locks the config file outside the windows sees every live   *)
(* change, although it reads the config file and the delta file one after  *)
(* the other.                                                              *)
THEOREM LoadsSeeSaved == Spec => LoadSeesSaved
<1>1. ASSUME IInv, NEW p \in Proc, uci_file_load_delta(p), ~stale[p], ~hit
      PROVE  Live \subseteq pkg'[p]
  <2>1. pc[p] = "loadDelta" /\ pkg'[p] = pkg[p] \union Accepted(Overlay \union delta)
    BY <1>1 DEF IInv, TypeOK, uci_file_load_delta
  <2>2. \A q \in Proc : ~HoldsFlushed(q)
    BY <1>1, <2>1 DEF IInv, LockInv, Committing, HoldsFlushed, Unlinked
  <2>3. \A q \in Proc : list[q] = {}
    BY <1>1, <2>1 DEF IInv, PcInv, DeltaFree, uci_file_load_delta
  <2>4. InTransit = {}
    BY <2>2, <2>3 DEF InTransit, Flushed, Kept
  <2>5. Live \subseteq file[cfg].body \union delta
    BY <1>1, <2>4 DEF IInv, OnlyWindowsLose, NoLostChange
  <2>6. file[cfg].body \subseteq pkg[p]
    BY <1>1, <2>1 DEF IInv, CarryInv
  <2>. QED
    BY <2>1, <2>5, <2>6 DEF Live
<1>2. IInv /\ [Next]_vars
        => [\A p \in Proc : uci_file_load_delta(p) /\ ~stale[p] /\ ~hit
              => Live \subseteq pkg'[p]]_vars
  BY <1>1
<1>. QED
  BY <1>2, Invariance, PTL DEF LoadSeesSaved, Spec

(* Outside the windows the calls are atomic, if the delta file can be      *)
(* written and no delta_path holds changes that apply: every step of       *)
(* uci_save, uci_commit, uci_revert and import is one step of UciAtomic on *)
(* one shared package, or none.                                            *)
THEOREM AtomicCalls ==
  ASSUME DeltaWritable, NoOverlay
  PROVE  Spec => CallsAreAtomic
<1>1. Init => Atomic!Init
  <2>. SUFFICES ASSUME Init PROVE Atomic!Init
    OBVIOUS
  <2>1. file[cfg].body = {}
    BY DEF Init
  <2>2. Flushed = {} /\ Waiting = {}
    BY DEF Init, Flushed, HoldsFlushed, Unlinked, Waiting, Kept
  <2>. QED
    BY <2>1, <2>2 DEF Atomic!Init
<1>2. IInv /\ [Next]_vars
        => [hit' \/ Atomic!Next]_<<file[cfg].body \union Flushed, Waiting>>
  <2>. SUFFICES ASSUME IInv, [Next]_vars, ~hit'
               PROVE  [Atomic!Next]_<<file[cfg].body \union Flushed, Waiting>>
    OBVIOUS
  <2>1. CASE Next
    <3>1. PICK p \in Proc : Step(p) \/ Call(p) \/ Crash(p)
      BY <2>1 DEF Next
    <3>. QED
      BY <3>1, AtomicStep
  <2>2. CASE UNCHANGED vars
    BY <2>2 DEF vars, Flushed, HoldsFlushed, Waiting, Kept
  <2>. QED
    BY <2>1, <2>2
<1>. QED
  BY <1>1, <1>2, Invariance, PTL DEF CallsAreAtomic, Spec

===============================================================================
