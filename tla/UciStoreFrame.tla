---------------------------- MODULE UciStoreFrame ----------------------------
(***************************************************************************)
(* Lemmas on UciStore: the types, the program counters, what a step of a   *)
(* process leaves alone, the temporary files, the file that the config     *)
(* path names, and where a change can be.                                  *)
(***************************************************************************)
EXTENDS UciStore, TLAPS

USE ZenonT(5), SMTT(20), ZenonT(60)

USE DEF files, memory, history, Goto, Count, Unlock, PCs, Exclusive, Accepted

(* An inode holds changes.                                                 *)
LEMMA InodeType ==
  ASSUME TypeOK, NEW n \in 1..Len(file)
  PROVE  /\ file[n] \in Inode
         /\ file[n].body \in SUBSET Change
<1>1. file[n] \in Inode
  BY DEF TypeOK
<1>2. QED
  BY <1>1 DEF Inode

-----------------------------------------------------------------------------
(***************************************************************************)
(* Types, program counters and what a step leaves alone                    *)
(***************************************************************************)

(* Every step of uci_load, uci_save, uci_commit, uci_revert and import     *)
(* keeps the types.                                                        *)
LEMMA TypeStep ==
  ASSUME TypeOK, PcInv, NEW p \in Proc, Step(p) \/ Call(p) \/ Crash(p)
  PROVE  TypeOK'
<1>1. CASE uci_file_load_open(p)
  <2>1. fd' \in [Proc -> 0..Len(file)]
    BY <1>1 DEF TypeOK, uci_file_load_open
  <2>2. calls' \in [Proc -> 0..MaxCalls]
    BY <1>1, StoreAssumption DEF TypeOK, uci_file_load_open
  <2>3. pc' \in [Proc -> PCs]
    BY <1>1 DEF TypeOK, uci_file_load_open
  <2>4. UNCHANGED <<file, cfg, delta, mode, pkg, own, tracked, changes, tmp, list, history>>
    BY <1>1 DEF uci_file_load_open
  <2>. QED
    BY <2>1, <2>2, <2>3, <2>4 DEF TypeOK
<1>2. CASE uci_file_load_import(p)
  <2>1. fd[p] \in 1..Len(file)
    BY <1>2 DEF TypeOK, PcInv, uci_file_load_import
  <2>2. file[fd[p]].body \in SUBSET Change
    BY <2>1, InodeType
  <2>. QED
    BY <1>2, <2>2 DEF TypeOK, uci_file_load_import, NotTheConfig
<1>3. CASE uci_file_load_delta(p)
  BY <1>3, StoreAssumption DEF TypeOK, PcInv, uci_file_load_delta
<1>4. CASE uci_file_load_close(p)
  BY <1>4, StoreAssumption DEF TypeOK, PcInv, uci_file_load_close
<1>5. CASE uci_unload(p)
  BY <1>5, StoreAssumption DEF TypeOK, PcInv, uci_unload
<1>6. CASE uci_save(p)
  BY <1>6, StoreAssumption DEF TypeOK, PcInv, uci_save, SaveOwn
<1>7. CASE uci_file_commit_open(p)
  BY <1>7, StoreAssumption DEF TypeOK, PcInv, uci_file_commit_open, Returned
<1>8. CASE uci_file_commit_lock(p)
  BY <1>8, StoreAssumption DEF TypeOK, PcInv, uci_file_commit_lock, Returned
<1>9. CASE uci_file_commit_reload(p)
  <2>1. fd[p] \in 1..Len(file)
    BY <1>9 DEF TypeOK, PcInv, uci_file_commit_reload
  <2>2. file[fd[p]].body \in SUBSET Change
    BY <2>1, InodeType
  <2>. QED
    BY <1>9, <2>2 DEF TypeOK, uci_file_commit_reload, SaveOwn
<1>10. CASE uci_file_commit_save_fails(p)
  BY <1>10, StoreAssumption DEF TypeOK, PcInv, uci_file_commit_save_fails, Returned
<1>11. CASE uci_load_delta_read(p)
  BY <1>11, StoreAssumption DEF TypeOK, PcInv, uci_load_delta_read
<1>12. CASE uci_load_delta_flush(p)
  BY <1>12, StoreAssumption DEF TypeOK, PcInv, uci_load_delta_flush
<1>13. CASE uci_load_delta_flush_fails(p)
  BY <1>13, StoreAssumption DEF TypeOK, PcInv, uci_load_delta_flush_fails
<1>14. CASE uci_load_delta_reopen_fails(p)
  BY <1>14, StoreAssumption DEF TypeOK, PcInv, uci_load_delta_reopen_fails
<1>15. CASE uci_file_commit_tmp(p)
  <2>1. [body |-> {}, whole |-> FALSE] \in Inode
    BY DEF Inode
  <2>2. file' \in Seq(Inode) /\ Len(file') = Len(file) + 1 /\ Len(file) \in Nat
    BY <1>15, <2>1 DEF TypeOK, uci_file_commit_tmp
  <2>. QED
    BY <1>15, <2>2 DEF TypeOK, uci_file_commit_tmp
<1>16. CASE uci_file_commit_tmp_fails(p)
  BY <1>16, StoreAssumption DEF TypeOK, PcInv, uci_file_commit_tmp_fails, Returned
<1>17. CASE uci_file_commit_export(p)
  <2>1. tmp[p] \in 1..Len(file)
    BY <1>17 DEF TypeOK, PcInv, uci_file_commit_export
  <2>2. [body |-> pkg[p], whole |-> TRUE] \in Inode
    BY DEF TypeOK, Inode
  <2>3. CASE file' = [file EXCEPT ![tmp[p]] = [body |-> pkg[p], whole |-> TRUE]]
    <3>1. file' \in Seq(Inode) /\ Len(file') = Len(file)
      BY <2>1, <2>2, <2>3 DEF TypeOK
    <3>. QED
      BY <1>17, <3>1 DEF TypeOK, uci_file_commit_export
  <2>4. CASE file' = file
    BY <1>17, <2>4 DEF TypeOK, uci_file_commit_export
  <2>. QED
    BY <1>17, <2>3, <2>4 DEF uci_file_commit_export
<1>18. CASE uci_file_commit_close(p)
  BY <1>18, StoreAssumption DEF TypeOK, PcInv, uci_file_commit_close, Returned
<1>19. CASE uci_file_commit_rename(p)
  <2>1. tmp[p] \in 1..Len(file)
    BY <1>19 DEF TypeOK, PcInv, uci_file_commit_rename
  <2>2. file[cfg].body \in SUBSET Change
    BY InodeType DEF TypeOK
  <2>3. saved' \in SUBSET Change /\ replaced' \in SUBSET Change
    BY <1>19, <2>2 DEF TypeOK, uci_file_commit_rename
  <2>4. pkg' \in [Proc -> SUBSET Change]
    BY <1>19 DEF TypeOK, uci_file_commit_rename
  <2>5. cfg' \in 1..Len(file) /\ tmp' \in [Proc -> 0..Len(file)]
    BY <1>19, <2>1 DEF TypeOK, uci_file_commit_rename
  <2>6. pc' \in [Proc -> PCs]
    BY <1>19 DEF TypeOK, uci_file_commit_rename, Returned
  <2>7. UNCHANGED <<file, delta, fd, mode, own, tracked, changes, list, calls, reverted,
                    hit, cut, stale>>
    BY <1>19 DEF uci_file_commit_rename
  <2>. QED
    BY <2>3, <2>4, <2>5, <2>6, <2>7 DEF TypeOK
<1>20. CASE uci_file_commit_rename_fails(p)
  BY <1>20, StoreAssumption DEF TypeOK, PcInv, uci_file_commit_rename_fails, Returned
<1>21. CASE uci_revert(p)
  BY <1>21, StoreAssumption DEF TypeOK, PcInv, uci_revert, SaveOwn
<1>22. CASE uci_filter_delta_fails(p)
  BY <1>22, StoreAssumption DEF TypeOK, PcInv, uci_filter_delta_fails
<1>23. CASE uci_filter_delta_rewrite(p)
  BY <1>23, StoreAssumption DEF TypeOK, PcInv, uci_filter_delta_rewrite
<1>24. CASE Crash(p)
  BY <1>24, StoreAssumption DEF TypeOK, PcInv, Crash
<1>25. CASE \E c \in Change : uci_add_delta(p, c)
  <2>1. PICK c \in Change : uci_add_delta(p, c)
    BY <1>25
  <2>. QED
    BY <2>1, StoreAssumption DEF TypeOK, PcInv, uci_add_delta
<1>26. CASE \E c \in Importable : uci_do_import(p, c)
  <2>1. PICK c \in Importable : uci_do_import(p, c)
    BY <1>26
  <2>. QED
    BY <2>1, StoreAssumption DEF TypeOK, PcInv, uci_do_import
<1>27. CASE \E S \in Selections : uci_filter_delta(p, S)
  <2>1. PICK S \in Selections : uci_filter_delta(p, S)
    BY <1>27
  <2>. QED
    BY <2>1, StoreAssumption DEF TypeOK, PcInv, uci_filter_delta
<1>. QED
  BY <1>1, <1>2, <1>3, <1>4, <1>5, <1>6, <1>7, <1>8, <1>9, <1>10, <1>11, <1>12, <1>13,
     <1>14, <1>15, <1>16, <1>17, <1>18, <1>19, <1>20, <1>21, <1>22, <1>23, <1>24, <1>25,
     <1>26, <1>27 DEF Step, Call

(* The program counter of the process that makes the step still says which *)
(* locks, temporary file and lists it has.                                 *)
LEMMA PcStep ==
  ASSUME TypeOK, PcInv, NEW p \in Proc, Step(p) \/ Call(p) \/ Crash(p)
  PROVE  PcInv'
<1>1. CASE uci_file_load_open(p)
  BY <1>1 DEF TypeOK, PcInv, uci_file_load_open
<1>2. CASE uci_file_load_import(p)
  BY <1>2 DEF TypeOK, PcInv, uci_file_load_import
<1>3. CASE uci_file_load_delta(p)
  BY <1>3 DEF TypeOK, PcInv, uci_file_load_delta
<1>4. CASE uci_file_load_close(p)
  BY <1>4 DEF TypeOK, PcInv, uci_file_load_close
<1>5. CASE uci_unload(p)
  BY <1>5 DEF TypeOK, PcInv, uci_unload
<1>6. CASE uci_save(p)
  BY <1>6 DEF TypeOK, PcInv, uci_save, SaveOwn
<1>7. CASE uci_file_commit_open(p)
  BY <1>7 DEF TypeOK, PcInv, uci_file_commit_open, Returned
<1>8. CASE uci_file_commit_lock(p)
  BY <1>8 DEF TypeOK, PcInv, uci_file_commit_lock, Returned
<1>9. CASE uci_file_commit_reload(p)
  BY <1>9 DEF TypeOK, PcInv, uci_file_commit_reload, SaveOwn, Returned
<1>10. CASE uci_file_commit_save_fails(p)
  BY <1>10 DEF TypeOK, PcInv, uci_file_commit_save_fails, Returned
<1>11. CASE uci_load_delta_read(p)
  BY <1>11 DEF TypeOK, PcInv, uci_load_delta_read
<1>12. CASE uci_load_delta_flush(p)
  BY <1>12 DEF TypeOK, PcInv, uci_load_delta_flush
<1>13. CASE uci_load_delta_flush_fails(p)
  BY <1>13 DEF TypeOK, PcInv, uci_load_delta_flush_fails
<1>14. CASE uci_load_delta_reopen_fails(p)
  BY <1>14 DEF TypeOK, PcInv, uci_load_delta_reopen_fails
<1>15. CASE uci_file_commit_tmp(p)
  BY <1>15 DEF TypeOK, PcInv, uci_file_commit_tmp, Returned
<1>16. CASE uci_file_commit_tmp_fails(p)
  BY <1>16 DEF TypeOK, PcInv, uci_file_commit_tmp_fails, Returned
<1>17. CASE uci_file_commit_export(p)
  BY <1>17 DEF TypeOK, PcInv, uci_file_commit_export, Returned
<1>18. CASE uci_file_commit_close(p)
  BY <1>18 DEF TypeOK, PcInv, uci_file_commit_close, Returned
<1>19. CASE uci_file_commit_rename(p)
  BY <1>19 DEF TypeOK, PcInv, uci_file_commit_rename, Returned
<1>20. CASE uci_file_commit_rename_fails(p)
  BY <1>20 DEF TypeOK, PcInv, uci_file_commit_rename_fails, Returned
<1>21. CASE uci_revert(p)
  BY <1>21 DEF TypeOK, PcInv, uci_revert, SaveOwn
<1>22. CASE uci_filter_delta_fails(p)
  BY <1>22 DEF TypeOK, PcInv, uci_filter_delta_fails
<1>23. CASE uci_filter_delta_rewrite(p)
  BY <1>23 DEF TypeOK, PcInv, uci_filter_delta_rewrite
<1>24. CASE Crash(p)
  BY <1>24 DEF TypeOK, PcInv, Crash
<1>25. CASE \E c \in Change : uci_add_delta(p, c)
  <2>1. PICK c \in Change : uci_add_delta(p, c)
    BY <1>25
  <2>. QED
    BY <2>1 DEF TypeOK, PcInv, uci_add_delta
<1>26. CASE \E c \in Importable : uci_do_import(p, c)
  <2>1. PICK c \in Importable : uci_do_import(p, c)
    BY <1>26
  <2>. QED
    BY <2>1 DEF TypeOK, PcInv, uci_do_import
<1>27. CASE \E S \in Selections : uci_filter_delta(p, S)
  <2>1. PICK S \in Selections : uci_filter_delta(p, S)
    BY <1>27
  <2>. QED
    BY <2>1 DEF TypeOK, PcInv, uci_filter_delta
<1>. QED
  BY <1>1, <1>2, <1>3, <1>4, <1>5, <1>6, <1>7, <1>8, <1>9, <1>10, <1>11, <1>12, <1>13,
     <1>14, <1>15, <1>16, <1>17, <1>18, <1>19, <1>20, <1>21, <1>22, <1>23, <1>24, <1>25,
     <1>26, <1>27 DEF Step, Call

(* A step of p leaves the memory, the descriptors and the locks of the     *)
(* other processes alone.                                                  *)
LEMMA Others ==
  ASSUME TypeOK, NEW p \in Proc, Step(p) \/ Call(p) \/ Crash(p)
  PROVE  \A q \in Proc \ {p} :
           /\ pc'[q] = pc[q] /\ fd'[q] = fd[q] /\ mode'[q] = mode[q]
           /\ pkg'[q] = pkg[q] /\ own'[q] = own[q] /\ tracked'[q] = tracked[q]
           /\ changes'[q] = changes[q] /\ tmp'[q] = tmp[q] /\ list'[q] = list[q]
           /\ stale'[q] = stale[q]
<1>1. CASE uci_file_load_open(p)
  BY <1>1 DEF TypeOK, uci_file_load_open
<1>2. CASE uci_file_load_import(p)
  BY <1>2 DEF TypeOK, uci_file_load_import
<1>3. CASE uci_file_load_delta(p)
  BY <1>3 DEF TypeOK, uci_file_load_delta
<1>4. CASE uci_file_load_close(p)
  BY <1>4 DEF TypeOK, uci_file_load_close
<1>5. CASE uci_unload(p)
  BY <1>5 DEF TypeOK, uci_unload
<1>6. CASE uci_save(p)
  BY <1>6 DEF TypeOK, uci_save, SaveOwn
<1>7. CASE uci_file_commit_open(p)
  BY <1>7 DEF TypeOK, uci_file_commit_open, Returned
<1>8. CASE uci_file_commit_lock(p)
  BY <1>8 DEF TypeOK, uci_file_commit_lock, Returned
<1>9. CASE uci_file_commit_reload(p)
  BY <1>9 DEF TypeOK, uci_file_commit_reload, SaveOwn, Returned
<1>10. CASE uci_file_commit_save_fails(p)
  BY <1>10 DEF TypeOK, uci_file_commit_save_fails, Returned
<1>11. CASE uci_load_delta_read(p)
  BY <1>11 DEF TypeOK, uci_load_delta_read
<1>12. CASE uci_load_delta_flush(p)
  BY <1>12 DEF TypeOK, uci_load_delta_flush
<1>13. CASE uci_load_delta_flush_fails(p)
  BY <1>13 DEF TypeOK, uci_load_delta_flush_fails
<1>14. CASE uci_load_delta_reopen_fails(p)
  BY <1>14 DEF TypeOK, uci_load_delta_reopen_fails
<1>15. CASE uci_file_commit_tmp(p)
  BY <1>15 DEF TypeOK, uci_file_commit_tmp, Returned
<1>16. CASE uci_file_commit_tmp_fails(p)
  BY <1>16 DEF TypeOK, uci_file_commit_tmp_fails, Returned
<1>17. CASE uci_file_commit_export(p)
  BY <1>17 DEF TypeOK, uci_file_commit_export, Returned
<1>18. CASE uci_file_commit_close(p)
  BY <1>18 DEF TypeOK, uci_file_commit_close, Returned
<1>19. CASE uci_file_commit_rename(p)
  BY <1>19 DEF TypeOK, uci_file_commit_rename, Returned
<1>20. CASE uci_file_commit_rename_fails(p)
  BY <1>20 DEF TypeOK, uci_file_commit_rename_fails, Returned
<1>21. CASE uci_revert(p)
  BY <1>21 DEF TypeOK, uci_revert, SaveOwn
<1>22. CASE uci_filter_delta_fails(p)
  BY <1>22 DEF TypeOK, uci_filter_delta_fails
<1>23. CASE uci_filter_delta_rewrite(p)
  BY <1>23 DEF TypeOK, uci_filter_delta_rewrite
<1>24. CASE Crash(p)
  BY <1>24 DEF TypeOK, Crash
<1>25. CASE \E c \in Change : uci_add_delta(p, c)
  <2>1. PICK c \in Change : uci_add_delta(p, c)
    BY <1>25
  <2>. QED
    BY <2>1 DEF TypeOK, uci_add_delta
<1>26. CASE \E c \in Importable : uci_do_import(p, c)
  <2>1. PICK c \in Importable : uci_do_import(p, c)
    BY <1>26
  <2>. QED
    BY <2>1 DEF TypeOK, uci_do_import
<1>27. CASE \E S \in Selections : uci_filter_delta(p, S)
  <2>1. PICK S \in Selections : uci_filter_delta(p, S)
    BY <1>27
  <2>. QED
    BY <2>1 DEF TypeOK, uci_filter_delta
<1>. QED
  BY <1>1, <1>2, <1>3, <1>4, <1>5, <1>6, <1>7, <1>8, <1>9, <1>10, <1>11, <1>12, <1>13,
     <1>14, <1>15, <1>16, <1>17, <1>18, <1>19, <1>20, <1>21, <1>22, <1>23, <1>24, <1>25,
     <1>26, <1>27 DEF Step, Call

(* A step of p writes no file but the temporary file of p.                 *)
LEMMA FileStep ==
  ASSUME TypeOK, PcInv, NEW p \in Proc, Step(p) \/ Call(p) \/ Crash(p)
  PROVE  /\ Len(file) \in Nat /\ Len(file') >= Len(file)
         /\ \A n \in 1..Len(file) : n # tmp[p] => file'[n] = file[n]
<1>1. CASE uci_file_load_open(p)
  BY <1>1 DEF TypeOK, PcInv, uci_file_load_open
<1>2. CASE uci_file_load_import(p)
  BY <1>2 DEF TypeOK, PcInv, uci_file_load_import
<1>3. CASE uci_file_load_delta(p)
  BY <1>3 DEF TypeOK, PcInv, uci_file_load_delta
<1>4. CASE uci_file_load_close(p)
  BY <1>4 DEF TypeOK, PcInv, uci_file_load_close
<1>5. CASE uci_unload(p)
  BY <1>5 DEF TypeOK, PcInv, uci_unload
<1>6. CASE uci_save(p)
  BY <1>6 DEF TypeOK, PcInv, uci_save, SaveOwn
<1>7. CASE uci_file_commit_open(p)
  BY <1>7 DEF TypeOK, PcInv, uci_file_commit_open, Returned
<1>8. CASE uci_file_commit_lock(p)
  BY <1>8 DEF TypeOK, PcInv, uci_file_commit_lock, Returned
<1>9. CASE uci_file_commit_reload(p)
  BY <1>9 DEF TypeOK, PcInv, uci_file_commit_reload, SaveOwn, Returned
<1>10. CASE uci_file_commit_save_fails(p)
  BY <1>10 DEF TypeOK, PcInv, uci_file_commit_save_fails, Returned
<1>11. CASE uci_load_delta_read(p)
  BY <1>11 DEF TypeOK, PcInv, uci_load_delta_read
<1>12. CASE uci_load_delta_flush(p)
  BY <1>12 DEF TypeOK, PcInv, uci_load_delta_flush
<1>13. CASE uci_load_delta_flush_fails(p)
  BY <1>13 DEF TypeOK, PcInv, uci_load_delta_flush_fails
<1>14. CASE uci_load_delta_reopen_fails(p)
  BY <1>14 DEF TypeOK, PcInv, uci_load_delta_reopen_fails
<1>15. CASE uci_file_commit_tmp(p)
  BY <1>15, InodeType DEF TypeOK, PcInv, uci_file_commit_tmp
<1>16. CASE uci_file_commit_tmp_fails(p)
  BY <1>16 DEF TypeOK, PcInv, uci_file_commit_tmp_fails, Returned
<1>17. CASE uci_file_commit_export(p)
  BY <1>17, InodeType DEF TypeOK, PcInv, uci_file_commit_export
<1>18. CASE uci_file_commit_close(p)
  BY <1>18 DEF TypeOK, PcInv, uci_file_commit_close, Returned
<1>19. CASE uci_file_commit_rename(p)
  BY <1>19 DEF TypeOK, PcInv, uci_file_commit_rename, Returned
<1>20. CASE uci_file_commit_rename_fails(p)
  BY <1>20 DEF TypeOK, PcInv, uci_file_commit_rename_fails, Returned
<1>21. CASE uci_revert(p)
  BY <1>21 DEF TypeOK, PcInv, uci_revert, SaveOwn
<1>22. CASE uci_filter_delta_fails(p)
  BY <1>22 DEF TypeOK, PcInv, uci_filter_delta_fails
<1>23. CASE uci_filter_delta_rewrite(p)
  BY <1>23 DEF TypeOK, PcInv, uci_filter_delta_rewrite
<1>24. CASE Crash(p)
  BY <1>24 DEF TypeOK, PcInv, Crash
<1>25. CASE \E c \in Change : uci_add_delta(p, c)
  <2>1. PICK c \in Change : uci_add_delta(p, c)
    BY <1>25
  <2>. QED
    BY <2>1 DEF TypeOK, PcInv, uci_add_delta
<1>26. CASE \E c \in Importable : uci_do_import(p, c)
  <2>1. PICK c \in Importable : uci_do_import(p, c)
    BY <1>26
  <2>. QED
    BY <2>1 DEF TypeOK, PcInv, uci_do_import
<1>27. CASE \E S \in Selections : uci_filter_delta(p, S)
  <2>1. PICK S \in Selections : uci_filter_delta(p, S)
    BY <1>27
  <2>. QED
    BY <2>1 DEF TypeOK, PcInv, uci_filter_delta
<1>. QED
  BY <1>1, <1>2, <1>3, <1>4, <1>5, <1>6, <1>7, <1>8, <1>9, <1>10, <1>11, <1>12, <1>13,
     <1>14, <1>15, <1>16, <1>17, <1>18, <1>19, <1>20, <1>21, <1>22, <1>23, <1>24, <1>25,
     <1>26, <1>27 DEF Step, Call

(* What uci_export leaves in the temporary file.                           *)
LEMMA Exported ==
  ASSUME TypeOK, PcInv, NEW p \in Proc, uci_file_commit_export(p)
  PROVE  /\ tmp[p] \in 1..Len(file)
         /\ Len(file') = Len(file)
         /\ \/ file'[tmp[p]] = [body |-> pkg[p], whole |-> TRUE]
            \/ file' = file /\ hit' /\ cut'
<1>1. tmp[p] \in 1..Len(file)
  BY DEF TypeOK, PcInv, uci_file_commit_export
<1>2. [body |-> pkg[p], whole |-> TRUE] \in Inode
  BY DEF TypeOK, Inode
<1>3. CASE file' = [file EXCEPT ![tmp[p]] = [body |-> pkg[p], whole |-> TRUE]]
  BY <1>1, <1>2, <1>3 DEF TypeOK
<1>. QED
  BY <1>1, <1>3 DEF uci_file_commit_export

(* What a step does to the content of the config files: a new one is       *)
(* empty, an exported one is the package of p.                             *)
LEMMA BodyStep ==
  ASSUME TypeOK, PcInv, NEW p \in Proc, Step(p) \/ Call(p) \/ Crash(p)
  PROVE  \A n \in 1..Len(file') :
           \/ n \in 1..Len(file) /\ file'[n].body = file[n].body
           \/ file'[n].body = {}
           \/ pc[p] = "export" /\ file'[n].body = pkg[p]
<1>1. CASE uci_file_load_open(p)
  BY <1>1 DEF TypeOK, PcInv, uci_file_load_open
<1>2. CASE uci_file_load_import(p)
  BY <1>2 DEF TypeOK, PcInv, uci_file_load_import
<1>3. CASE uci_file_load_delta(p)
  BY <1>3 DEF TypeOK, PcInv, uci_file_load_delta
<1>4. CASE uci_file_load_close(p)
  BY <1>4 DEF TypeOK, PcInv, uci_file_load_close
<1>5. CASE uci_unload(p)
  BY <1>5 DEF TypeOK, PcInv, uci_unload
<1>6. CASE uci_save(p)
  BY <1>6 DEF TypeOK, PcInv, uci_save, SaveOwn
<1>7. CASE uci_file_commit_open(p)
  BY <1>7 DEF TypeOK, PcInv, uci_file_commit_open, Returned
<1>8. CASE uci_file_commit_lock(p)
  BY <1>8 DEF TypeOK, PcInv, uci_file_commit_lock, Returned
<1>9. CASE uci_file_commit_reload(p)
  BY <1>9 DEF TypeOK, PcInv, uci_file_commit_reload, SaveOwn, Returned
<1>10. CASE uci_file_commit_save_fails(p)
  BY <1>10 DEF TypeOK, PcInv, uci_file_commit_save_fails, Returned
<1>11. CASE uci_load_delta_read(p)
  BY <1>11 DEF TypeOK, PcInv, uci_load_delta_read
<1>12. CASE uci_load_delta_flush(p)
  BY <1>12 DEF TypeOK, PcInv, uci_load_delta_flush
<1>13. CASE uci_load_delta_flush_fails(p)
  BY <1>13 DEF TypeOK, PcInv, uci_load_delta_flush_fails
<1>14. CASE uci_load_delta_reopen_fails(p)
  BY <1>14 DEF TypeOK, PcInv, uci_load_delta_reopen_fails
<1>15. CASE uci_file_commit_tmp(p)
  <2>1. [body |-> {}, whole |-> FALSE] \in Inode
    BY DEF Inode
  <2>2. /\ Len(file') = Len(file) + 1 /\ Len(file) \in Nat
        /\ file'[Len(file) + 1] = [body |-> {}, whole |-> FALSE]
        /\ \A n \in 1..Len(file) : file'[n] = file[n]
    BY <1>15, <2>1 DEF TypeOK, uci_file_commit_tmp
  <2>. QED
    BY <2>2
<1>16. CASE uci_file_commit_tmp_fails(p)
  BY <1>16 DEF TypeOK, PcInv, uci_file_commit_tmp_fails, Returned
<1>17. CASE uci_file_commit_export(p)
  <2>1. CASE file'[tmp[p]] = [body |-> pkg[p], whole |-> TRUE]
    <3>1. file'[tmp[p]].body = pkg[p]
      BY <2>1
    <3>. QED
      BY <1>17, <3>1, Exported, FileStep DEF uci_file_commit_export
  <2>. QED
    BY <1>17, <2>1, Exported
<1>18. CASE uci_file_commit_close(p)
  BY <1>18 DEF TypeOK, PcInv, uci_file_commit_close, Returned
<1>19. CASE uci_file_commit_rename(p)
  BY <1>19 DEF TypeOK, PcInv, uci_file_commit_rename, Returned
<1>20. CASE uci_file_commit_rename_fails(p)
  BY <1>20 DEF TypeOK, PcInv, uci_file_commit_rename_fails, Returned
<1>21. CASE uci_revert(p)
  BY <1>21 DEF TypeOK, PcInv, uci_revert, SaveOwn
<1>22. CASE uci_filter_delta_fails(p)
  BY <1>22 DEF TypeOK, PcInv, uci_filter_delta_fails
<1>23. CASE uci_filter_delta_rewrite(p)
  BY <1>23 DEF TypeOK, PcInv, uci_filter_delta_rewrite
<1>24. CASE Crash(p)
  BY <1>24 DEF TypeOK, PcInv, Crash
<1>25. CASE \E c \in Change : uci_add_delta(p, c)
  <2>1. PICK c \in Change : uci_add_delta(p, c)
    BY <1>25
  <2>. QED
    BY <2>1 DEF TypeOK, PcInv, uci_add_delta
<1>26. CASE \E c \in Importable : uci_do_import(p, c)
  <2>1. PICK c \in Importable : uci_do_import(p, c)
    BY <1>26
  <2>. QED
    BY <2>1 DEF TypeOK, PcInv, uci_do_import
<1>27. CASE \E S \in Selections : uci_filter_delta(p, S)
  <2>1. PICK S \in Selections : uci_filter_delta(p, S)
    BY <1>27
  <2>. QED
    BY <2>1 DEF TypeOK, PcInv, uci_filter_delta
<1>. QED
  BY <1>1, <1>2, <1>3, <1>4, <1>5, <1>6, <1>7, <1>8, <1>9, <1>10, <1>11, <1>12, <1>13,
     <1>14, <1>15, <1>16, <1>17, <1>18, <1>19, <1>20, <1>21, <1>22, <1>23, <1>24, <1>25,
     <1>26, <1>27 DEF Step, Call

(* The delta file gets only what p saves or writes back.                   *)
LEMMA DeltaStep ==
  ASSUME TypeOK, PcInv, NEW p \in Proc, Step(p) \/ Call(p) \/ Crash(p)
  PROVE  /\ delta' \subseteq delta \union list[p] \union (own[p] \intersect saved')
         /\ list'[p] \subseteq list[p] \union delta
<1>1. CASE uci_file_load_open(p)
  BY <1>1 DEF TypeOK, PcInv, uci_file_load_open
<1>2. CASE uci_file_load_import(p)
  BY <1>2 DEF TypeOK, PcInv, uci_file_load_import
<1>3. CASE uci_file_load_delta(p)
  BY <1>3 DEF TypeOK, PcInv, uci_file_load_delta
<1>4. CASE uci_file_load_close(p)
  BY <1>4 DEF TypeOK, PcInv, uci_file_load_close
<1>5. CASE uci_unload(p)
  BY <1>5 DEF TypeOK, PcInv, uci_unload
<1>6. CASE uci_save(p)
  BY <1>6 DEF TypeOK, PcInv, uci_save, SaveOwn
<1>7. CASE uci_file_commit_open(p)
  BY <1>7 DEF TypeOK, PcInv, uci_file_commit_open, Returned
<1>8. CASE uci_file_commit_lock(p)
  BY <1>8 DEF TypeOK, PcInv, uci_file_commit_lock, Returned
<1>9. CASE uci_file_commit_reload(p)
  BY <1>9 DEF TypeOK, PcInv, uci_file_commit_reload, SaveOwn, Returned
<1>10. CASE uci_file_commit_save_fails(p)
  BY <1>10 DEF TypeOK, PcInv, uci_file_commit_save_fails, Returned
<1>11. CASE uci_load_delta_read(p)
  BY <1>11 DEF TypeOK, PcInv, uci_load_delta_read
<1>12. CASE uci_load_delta_flush(p)
  BY <1>12 DEF TypeOK, PcInv, uci_load_delta_flush
<1>13. CASE uci_load_delta_flush_fails(p)
  BY <1>13 DEF TypeOK, PcInv, uci_load_delta_flush_fails
<1>14. CASE uci_load_delta_reopen_fails(p)
  BY <1>14 DEF TypeOK, PcInv, uci_load_delta_reopen_fails
<1>15. CASE uci_file_commit_tmp(p)
  BY <1>15 DEF TypeOK, PcInv, uci_file_commit_tmp, Returned
<1>16. CASE uci_file_commit_tmp_fails(p)
  BY <1>16 DEF TypeOK, PcInv, uci_file_commit_tmp_fails, Returned
<1>17. CASE uci_file_commit_export(p)
  BY <1>17 DEF TypeOK, PcInv, uci_file_commit_export, Returned
<1>18. CASE uci_file_commit_close(p)
  BY <1>18 DEF TypeOK, PcInv, uci_file_commit_close, Returned
<1>19. CASE uci_file_commit_rename(p)
  BY <1>19 DEF TypeOK, PcInv, uci_file_commit_rename, Returned
<1>20. CASE uci_file_commit_rename_fails(p)
  BY <1>20 DEF TypeOK, PcInv, uci_file_commit_rename_fails, Returned
<1>21. CASE uci_revert(p)
  BY <1>21 DEF TypeOK, PcInv, uci_revert, SaveOwn
<1>22. CASE uci_filter_delta_fails(p)
  BY <1>22 DEF TypeOK, PcInv, uci_filter_delta_fails
<1>23. CASE uci_filter_delta_rewrite(p)
  BY <1>23 DEF TypeOK, PcInv, uci_filter_delta_rewrite
<1>24. CASE Crash(p)
  BY <1>24 DEF TypeOK, PcInv, Crash
<1>25. CASE \E c \in Change : uci_add_delta(p, c)
  <2>1. PICK c \in Change : uci_add_delta(p, c)
    BY <1>25
  <2>. QED
    BY <2>1 DEF TypeOK, PcInv, uci_add_delta
<1>26. CASE \E c \in Importable : uci_do_import(p, c)
  <2>1. PICK c \in Importable : uci_do_import(p, c)
    BY <1>26
  <2>. QED
    BY <2>1 DEF TypeOK, PcInv, uci_do_import
<1>27. CASE \E S \in Selections : uci_filter_delta(p, S)
  <2>1. PICK S \in Selections : uci_filter_delta(p, S)
    BY <1>27
  <2>. QED
    BY <2>1 DEF TypeOK, PcInv, uci_filter_delta
<1>. QED
  BY <1>1, <1>2, <1>3, <1>4, <1>5, <1>6, <1>7, <1>8, <1>9, <1>10, <1>11, <1>12, <1>13,
     <1>14, <1>15, <1>16, <1>17, <1>18, <1>19, <1>20, <1>21, <1>22, <1>23, <1>24, <1>25,
     <1>26, <1>27 DEF Step, Call

(* What waits for a commit after a step waited before, or is saved by p.   *)
LEMMA WaitStep ==
  ASSUME TypeOK, PcInv, NEW p \in Proc, Step(p) \/ Call(p) \/ Crash(p)
  PROVE  Waiting' \subseteq Waiting \union own[p]
<1>1. ASSUME NEW x \in Kept'
      PROVE  x \in Kept \union delta
  <2>1. PICK q \in Proc : x \in list'[q]
    BY <1>1 DEF Kept
  <2>2. x \in list[q] \/ x \in delta
    BY <2>1, DeltaStep, Others
  <2>. QED
    BY <1>1, <2>2 DEF Kept
<1>2. delta' \subseteq delta \union own[p] \union Kept
  BY DeltaStep DEF TypeOK, Kept
<1>. QED
  BY <1>1, <1>2 DEF Waiting

(* While uci_filter_delta rewrites the delta file nobody else writes it.   *)
LEMMA RewriteStep ==
  ASSUME TypeOK, PcInv, RewriteInv, NEW p \in Proc, Step(p) \/ Call(p) \/ Crash(p)
  PROVE  RewriteInv'
<1>1. CASE uci_file_load_open(p)
  BY <1>1 DEF TypeOK, PcInv, RewriteInv, DeltaFree, uci_file_load_open
<1>2. CASE uci_file_load_import(p)
  BY <1>2 DEF TypeOK, PcInv, RewriteInv, DeltaFree, uci_file_load_import
<1>3. CASE uci_file_load_delta(p)
  BY <1>3 DEF TypeOK, PcInv, RewriteInv, DeltaFree, uci_file_load_delta
<1>4. CASE uci_file_load_close(p)
  BY <1>4 DEF TypeOK, PcInv, RewriteInv, DeltaFree, uci_file_load_close
<1>5. CASE uci_unload(p)
  BY <1>5 DEF TypeOK, PcInv, RewriteInv, DeltaFree, uci_unload
<1>6. CASE uci_save(p)
  BY <1>6 DEF TypeOK, PcInv, RewriteInv, DeltaFree, uci_save, SaveOwn
<1>7. CASE uci_file_commit_open(p)
  BY <1>7 DEF TypeOK, PcInv, RewriteInv, DeltaFree, uci_file_commit_open, Returned
<1>8. CASE uci_file_commit_lock(p)
  BY <1>8 DEF TypeOK, PcInv, RewriteInv, DeltaFree, uci_file_commit_lock, Returned
<1>9. CASE uci_file_commit_reload(p)
  BY <1>9 DEF TypeOK, PcInv, RewriteInv, DeltaFree, uci_file_commit_reload, SaveOwn, Returned
<1>10. CASE uci_file_commit_save_fails(p)
  BY <1>10 DEF TypeOK, PcInv, RewriteInv, DeltaFree, uci_file_commit_save_fails, Returned
<1>11. CASE uci_load_delta_read(p)
  BY <1>11 DEF TypeOK, PcInv, RewriteInv, DeltaFree, uci_load_delta_read
<1>12. CASE uci_load_delta_flush(p)
  BY <1>12 DEF TypeOK, PcInv, RewriteInv, DeltaFree, uci_load_delta_flush
<1>13. CASE uci_load_delta_flush_fails(p)
  BY <1>13 DEF TypeOK, PcInv, RewriteInv, DeltaFree, uci_load_delta_flush_fails
<1>14. CASE uci_load_delta_reopen_fails(p)
  BY <1>14 DEF TypeOK, PcInv, RewriteInv, DeltaFree, uci_load_delta_reopen_fails
<1>15. CASE uci_file_commit_tmp(p)
  BY <1>15 DEF TypeOK, PcInv, RewriteInv, DeltaFree, uci_file_commit_tmp, Returned
<1>16. CASE uci_file_commit_tmp_fails(p)
  BY <1>16 DEF TypeOK, PcInv, RewriteInv, DeltaFree, uci_file_commit_tmp_fails, Returned
<1>17. CASE uci_file_commit_export(p)
  BY <1>17 DEF TypeOK, PcInv, RewriteInv, DeltaFree, uci_file_commit_export, Returned
<1>18. CASE uci_file_commit_close(p)
  BY <1>18 DEF TypeOK, PcInv, RewriteInv, DeltaFree, uci_file_commit_close, Returned
<1>19. CASE uci_file_commit_rename(p)
  BY <1>19 DEF TypeOK, PcInv, RewriteInv, DeltaFree, uci_file_commit_rename, Returned
<1>20. CASE uci_file_commit_rename_fails(p)
  BY <1>20 DEF TypeOK, PcInv, RewriteInv, DeltaFree, uci_file_commit_rename_fails, Returned
<1>21. CASE uci_revert(p)
  BY <1>21 DEF TypeOK, PcInv, RewriteInv, DeltaFree, uci_revert, SaveOwn
<1>22. CASE uci_filter_delta_fails(p)
  BY <1>22 DEF TypeOK, PcInv, RewriteInv, DeltaFree, uci_filter_delta_fails
<1>23. CASE uci_filter_delta_rewrite(p)
  BY <1>23 DEF TypeOK, PcInv, RewriteInv, DeltaFree, uci_filter_delta_rewrite
<1>24. CASE Crash(p)
  BY <1>24 DEF TypeOK, PcInv, RewriteInv, DeltaFree, Crash
<1>25. CASE \E c \in Change : uci_add_delta(p, c)
  <2>1. PICK c \in Change : uci_add_delta(p, c)
    BY <1>25
  <2>. QED
    BY <2>1 DEF TypeOK, PcInv, RewriteInv, DeltaFree, uci_add_delta
<1>26. CASE \E c \in Importable : uci_do_import(p, c)
  <2>1. PICK c \in Importable : uci_do_import(p, c)
    BY <1>26
  <2>. QED
    BY <2>1 DEF TypeOK, PcInv, RewriteInv, DeltaFree, uci_do_import
<1>27. CASE \E S \in Selections : uci_filter_delta(p, S)
  <2>1. PICK S \in Selections : uci_filter_delta(p, S)
    BY <1>27
  <2>. QED
    BY <2>1 DEF TypeOK, PcInv, RewriteInv, DeltaFree, uci_filter_delta
<1>. QED
  BY <1>1, <1>2, <1>3, <1>4, <1>5, <1>6, <1>7, <1>8, <1>9, <1>10, <1>11, <1>12, <1>13,
     <1>14, <1>15, <1>16, <1>17, <1>18, <1>19, <1>20, <1>21, <1>22, <1>23, <1>24, <1>25,
     <1>26, <1>27 DEF Step, Call

-----------------------------------------------------------------------------
(***************************************************************************)
(* The temporary files, and the file that the config path names            *)
(***************************************************************************)

(* rename changes no file.                                                 *)
LEMMA RenameOnly ==
  ASSUME TypeOK, NEW p \in Proc, Step(p) \/ Call(p) \/ Crash(p), pc[p] = "rename"
  PROVE  file' = file
<1>1. CASE uci_file_load_open(p)
  BY <1>1 DEF TypeOK, uci_file_load_open
<1>2. CASE uci_file_load_import(p)
  BY <1>2 DEF TypeOK, uci_file_load_import
<1>3. CASE uci_file_load_delta(p)
  BY <1>3 DEF TypeOK, uci_file_load_delta
<1>4. CASE uci_file_load_close(p)
  BY <1>4 DEF TypeOK, uci_file_load_close
<1>5. CASE uci_unload(p)
  BY <1>5 DEF TypeOK, uci_unload
<1>6. CASE uci_save(p)
  BY <1>6 DEF TypeOK, uci_save, SaveOwn
<1>7. CASE uci_file_commit_open(p)
  BY <1>7 DEF TypeOK, uci_file_commit_open, Returned
<1>8. CASE uci_file_commit_lock(p)
  BY <1>8 DEF TypeOK, uci_file_commit_lock, Returned
<1>9. CASE uci_file_commit_reload(p)
  BY <1>9 DEF TypeOK, uci_file_commit_reload, SaveOwn, Returned
<1>10. CASE uci_file_commit_save_fails(p)
  BY <1>10 DEF TypeOK, uci_file_commit_save_fails, Returned
<1>11. CASE uci_load_delta_read(p)
  BY <1>11 DEF TypeOK, uci_load_delta_read
<1>12. CASE uci_load_delta_flush(p)
  BY <1>12 DEF TypeOK, uci_load_delta_flush
<1>13. CASE uci_load_delta_flush_fails(p)
  BY <1>13 DEF TypeOK, uci_load_delta_flush_fails
<1>14. CASE uci_load_delta_reopen_fails(p)
  BY <1>14 DEF TypeOK, uci_load_delta_reopen_fails
<1>15. CASE uci_file_commit_tmp(p)
  BY <1>15 DEF TypeOK, uci_file_commit_tmp, Returned
<1>16. CASE uci_file_commit_tmp_fails(p)
  BY <1>16 DEF TypeOK, uci_file_commit_tmp_fails, Returned
<1>17. CASE uci_file_commit_export(p)
  BY <1>17 DEF TypeOK, uci_file_commit_export, Returned
<1>18. CASE uci_file_commit_close(p)
  BY <1>18 DEF TypeOK, uci_file_commit_close, Returned
<1>19. CASE uci_file_commit_rename(p)
  BY <1>19 DEF TypeOK, uci_file_commit_rename, Returned
<1>20. CASE uci_file_commit_rename_fails(p)
  BY <1>20 DEF TypeOK, uci_file_commit_rename_fails, Returned
<1>21. CASE uci_revert(p)
  BY <1>21 DEF TypeOK, uci_revert, SaveOwn
<1>22. CASE uci_filter_delta_fails(p)
  BY <1>22 DEF TypeOK, uci_filter_delta_fails
<1>23. CASE uci_filter_delta_rewrite(p)
  BY <1>23 DEF TypeOK, uci_filter_delta_rewrite
<1>24. CASE Crash(p)
  BY <1>24 DEF TypeOK, Crash
<1>25. CASE \E c \in Change : uci_add_delta(p, c)
  <2>1. PICK c \in Change : uci_add_delta(p, c)
    BY <1>25
  <2>. QED
    BY <2>1 DEF TypeOK, uci_add_delta
<1>26. CASE \E c \in Importable : uci_do_import(p, c)
  <2>1. PICK c \in Importable : uci_do_import(p, c)
    BY <1>26
  <2>. QED
    BY <2>1 DEF TypeOK, uci_do_import
<1>27. CASE \E S \in Selections : uci_filter_delta(p, S)
  <2>1. PICK S \in Selections : uci_filter_delta(p, S)
    BY <1>27
  <2>. QED
    BY <2>1 DEF TypeOK, uci_filter_delta
<1>. QED
  BY <1>1, <1>2, <1>3, <1>4, <1>5, <1>6, <1>7, <1>8, <1>9, <1>10, <1>11, <1>12, <1>13,
     <1>14, <1>15, <1>16, <1>17, <1>18, <1>19, <1>20, <1>21, <1>22, <1>23, <1>24, <1>25,
     <1>26, <1>27 DEF Step, Call

(* What a step does to the temporary file of p and to the config path.     *)
LEMMA TmpLocal ==
  ASSUME TypeOK, PcInv, NEW p \in Proc, Step(p) \/ Call(p) \/ Crash(p)
  PROVE  /\ cut => cut'
         /\ cfg' = cfg \/ (cfg' = tmp[p] /\ pc[p] = "rename" /\ tmp'[p] = 0)
         /\ \/ tmp'[p] = 0
            \/ tmp'[p] = Len(file) + 1 /\ pc'[p] = "export"
            \/ /\ tmp'[p] = tmp[p] /\ pkg'[p] = pkg[p] /\ pc'[p] # "export"
               /\ IF pc[p] = "export"
                    THEN cut' \/ file'[tmp[p]] = [body |-> pkg[p], whole |-> TRUE]
                    ELSE file'[tmp[p]] = file[tmp[p]]
<1>1. CASE uci_file_load_open(p)
  BY <1>1 DEF TypeOK, PcInv, uci_file_load_open
<1>2. CASE uci_file_load_import(p)
  BY <1>2 DEF TypeOK, PcInv, uci_file_load_import
<1>3. CASE uci_file_load_delta(p)
  BY <1>3 DEF TypeOK, PcInv, uci_file_load_delta
<1>4. CASE uci_file_load_close(p)
  BY <1>4 DEF TypeOK, PcInv, uci_file_load_close
<1>5. CASE uci_unload(p)
  BY <1>5 DEF TypeOK, PcInv, uci_unload
<1>6. CASE uci_save(p)
  BY <1>6 DEF TypeOK, PcInv, uci_save, SaveOwn
<1>7. CASE uci_file_commit_open(p)
  BY <1>7 DEF TypeOK, PcInv, uci_file_commit_open, Returned
<1>8. CASE uci_file_commit_lock(p)
  BY <1>8 DEF TypeOK, PcInv, uci_file_commit_lock, Returned
<1>9. CASE uci_file_commit_reload(p)
  BY <1>9 DEF TypeOK, PcInv, uci_file_commit_reload, SaveOwn, Returned
<1>10. CASE uci_file_commit_save_fails(p)
  BY <1>10 DEF TypeOK, PcInv, uci_file_commit_save_fails, Returned
<1>11. CASE uci_load_delta_read(p)
  BY <1>11 DEF TypeOK, PcInv, uci_load_delta_read
<1>12. CASE uci_load_delta_flush(p)
  BY <1>12 DEF TypeOK, PcInv, uci_load_delta_flush
<1>13. CASE uci_load_delta_flush_fails(p)
  BY <1>13 DEF TypeOK, PcInv, uci_load_delta_flush_fails
<1>14. CASE uci_load_delta_reopen_fails(p)
  BY <1>14 DEF TypeOK, PcInv, uci_load_delta_reopen_fails
<1>15. CASE uci_file_commit_tmp(p)
  BY <1>15 DEF TypeOK, PcInv, uci_file_commit_tmp, Returned
<1>16. CASE uci_file_commit_tmp_fails(p)
  BY <1>16 DEF TypeOK, PcInv, uci_file_commit_tmp_fails, Returned
<1>17. CASE uci_file_commit_export(p)
  BY <1>17, Exported DEF TypeOK, PcInv, uci_file_commit_export, Returned
<1>18. CASE uci_file_commit_close(p)
  BY <1>18 DEF TypeOK, PcInv, uci_file_commit_close, Returned
<1>19. CASE uci_file_commit_rename(p)
  BY <1>19 DEF TypeOK, PcInv, uci_file_commit_rename, Returned
<1>20. CASE uci_file_commit_rename_fails(p)
  BY <1>20 DEF TypeOK, PcInv, uci_file_commit_rename_fails, Returned
<1>21. CASE uci_revert(p)
  BY <1>21 DEF TypeOK, PcInv, uci_revert, SaveOwn
<1>22. CASE uci_filter_delta_fails(p)
  BY <1>22 DEF TypeOK, PcInv, uci_filter_delta_fails
<1>23. CASE uci_filter_delta_rewrite(p)
  BY <1>23 DEF TypeOK, PcInv, uci_filter_delta_rewrite
<1>24. CASE Crash(p)
  BY <1>24 DEF TypeOK, PcInv, Crash
<1>25. CASE \E c \in Change : uci_add_delta(p, c)
  <2>1. PICK c \in Change : uci_add_delta(p, c)
    BY <1>25
  <2>. QED
    BY <2>1 DEF TypeOK, PcInv, uci_add_delta
<1>26. CASE \E c \in Importable : uci_do_import(p, c)
  <2>1. PICK c \in Importable : uci_do_import(p, c)
    BY <1>26
  <2>. QED
    BY <2>1 DEF TypeOK, PcInv, uci_do_import
<1>27. CASE \E S \in Selections : uci_filter_delta(p, S)
  <2>1. PICK S \in Selections : uci_filter_delta(p, S)
    BY <1>27
  <2>. QED
    BY <2>1 DEF TypeOK, PcInv, uci_filter_delta
<1>. QED
  BY <1>1, <1>2, <1>3, <1>4, <1>5, <1>6, <1>7, <1>8, <1>9, <1>10, <1>11, <1>12, <1>13,
     <1>14, <1>15, <1>16, <1>17, <1>18, <1>19, <1>20, <1>21, <1>22, <1>23, <1>24, <1>25,
     <1>26, <1>27 DEF Step, Call

(* A temporary file is complete when it is renamed, and has one owner.     *)
LEMMA TmpStep ==
  ASSUME TypeOK, PcInv, TmpInv, NEW p \in Proc, Step(p) \/ Call(p) \/ Crash(p)
  PROVE  TmpInv'
<1>1. /\ Len(file) \in Nat /\ cfg \in 1..Len(file)
      /\ \A q \in Proc : tmp[q] \in 0..Len(file)
  BY FileStep DEF TypeOK
<1>2. pc[p] = "rename" => tmp[p] # 0
  BY DEF PcInv
<1>3. ASSUME NEW q \in Proc, NEW r \in Proc, q # r, tmp'[q] # 0
      PROVE  tmp'[q] # tmp'[r]
  <2>1. \A s \in Proc : tmp'[s] \in {0, tmp[s], Len(file) + 1}
    BY TmpLocal, Others
  <2>2. tmp[q] = tmp'[q] \/ tmp[r] = tmp'[r]
    BY <1>3, Others
  <2>3. tmp[q] # 0 => tmp[q] # tmp[r]
    BY <1>3 DEF TmpInv
  <2>4. tmp[r] # 0 => tmp[r] # tmp[q]
    BY <1>3 DEF TmpInv
  <2>. QED
    BY <1>1, <1>3, <2>1, <2>2, <2>3, <2>4
<1>4. ASSUME NEW q \in Proc
      PROVE  tmp'[q] # cfg'
  <2>1. tmp[q] # cfg /\ (q # p /\ tmp[p] # 0 => tmp[p] # tmp[q])
    BY DEF TmpInv
  <2>2. CASE q = p
    <3>1. tmp'[p] \in {0, tmp[p], Len(file) + 1}
      BY TmpLocal
    <3>2. CASE cfg' = cfg
      BY <1>1, <2>1, <2>2, <3>1, <3>2
    <3>3. CASE cfg' = tmp[p] /\ pc[p] = "rename" /\ tmp'[p] = 0
      BY <1>2, <2>2, <3>3
    <3>. QED
      BY <3>2, <3>3, TmpLocal
  <2>3. CASE q # p
    BY <1>1, <1>2, <2>1, <2>3, TmpLocal, Others
  <2>. QED
    BY <2>2, <2>3
<1>5. ASSUME ~cut'
      PROVE  file'[cfg'].whole
  <2>1. CASE cfg' = cfg
    <3>1. ~cut
      BY <1>5, TmpLocal
    <3>2. file[cfg].whole /\ cfg # tmp[p]
      BY <3>1 DEF TmpInv
    <3>3. file'[cfg] = file[cfg]
      BY <1>1, <3>2, FileStep
    <3>. QED
      BY <2>1, <3>2, <3>3
  <2>2. CASE cfg' = tmp[p] /\ pc[p] = "rename"
    <3>1. file[tmp[p]] = [body |-> pkg[p], whole |-> TRUE]
      BY <1>2, <1>5, <2>2, TmpLocal DEF TmpInv
    <3>2. file' = file
      BY <2>2, RenameOnly
    <3>. QED
      BY <2>2, <3>1, <3>2
  <2>. QED
    BY <2>1, <2>2, TmpLocal
<1>6. ASSUME ~cut', NEW q \in Proc, tmp'[q] # 0, pc'[q] # "export"
      PROVE  file'[tmp'[q]] = [body |-> pkg'[q], whole |-> TRUE]
  <2>1. CASE q = p
    <3>1. ~cut /\ (tmp[p] # 0 /\ pc[p] # "export" => file[tmp[p]] = [body |-> pkg[p], whole |-> TRUE])
      BY <1>6, TmpLocal DEF TmpInv
    <3>. QED
      BY <1>6, <2>1, <3>1, TmpLocal
  <2>2. CASE q # p
    <3>1. tmp'[q] = tmp[q] /\ pkg'[q] = pkg[q] /\ pc'[q] = pc[q]
      BY <2>2, Others
    <3>2. file'[tmp[q]] = file[tmp[q]]
      BY <1>1, <1>6, <2>2, <3>1, FileStep DEF TmpInv
    <3>3. ~cut
      BY <1>6, TmpLocal
    <3>4. file[tmp[q]] = [body |-> pkg[q], whole |-> TRUE]
      BY <1>6, <3>1, <3>3 DEF TmpInv
    <3>. QED
      BY <3>1, <3>2, <3>4
  <2>. QED
    BY <2>1, <2>2
<1>. QED
  BY <1>3, <1>4, <1>5, <1>6 DEF TmpInv

(* The config path keeps its file, or gets the temporary file of p.        *)
LEMMA ConfigStep ==
  ASSUME TypeOK, PcInv, TmpInv, NEW p \in Proc, Step(p) \/ Call(p) \/ Crash(p)
  PROVE  \/ cfg' = cfg /\ file'[cfg'] = file[cfg]
         \/ pc[p] = "rename" /\ cfg' = tmp[p] /\ file' = file
<1>1. cfg \in 1..Len(file) /\ cfg # tmp[p]
  BY DEF TypeOK, TmpInv
<1>2. file'[cfg] = file[cfg]
  BY <1>1, FileStep
<1>. QED
  BY <1>2, TmpLocal, RenameOnly

(* What is renamed is the package in memory, outside the windows.          *)
LEMMA Renamed ==
  ASSUME TypeOK, PcInv, TmpInv, LockInv, ~hit, NEW p \in Proc, pc[p] = "rename"
  PROVE  file[tmp[p]].body = pkg[p]
<1>1. file[tmp[p]] = [body |-> pkg[p], whole |-> TRUE]
  BY DEF PcInv, TmpInv, LockInv
<1>. QED
  BY <1>1

-----------------------------------------------------------------------------
(***************************************************************************)
(* Where a change can be                                                   *)
(***************************************************************************)

(* A step saves only own changes, and own changes are new.                 *)
LEMMA FreshLocal ==
  ASSUME TypeOK, PcInv, FreshInv, NEW p \in Proc, Step(p) \/ Call(p) \/ Crash(p)
  PROVE  /\ saved \subseteq saved'
         /\ saved' \subseteq saved \union own[p] \union Outside
         /\ reverted' \subseteq reverted \union delta
         /\ own'[p] \intersect (saved' \union Outside) = {}
         /\ \A q \in Proc \ {p} : own'[p] \intersect own[q] = {}
         /\ pkg'[p] \subseteq saved' \union Outside \union own'[p]
         /\ ~tracked'[p] => pkg'[p] \subseteq Importable
<1>a. /\ own[p] \intersect (saved \union Outside) = {}
      /\ \A q \in Proc \ {p} : own[p] \intersect own[q] = {}
      /\ pkg[p] \subseteq saved \union Outside \union own[p]
      /\ ~tracked[p] => pkg[p] \subseteq Importable
  BY DEF FreshInv
<1>b. /\ delta \subseteq saved /\ Overlay \subseteq Outside /\ Importable \subseteq Outside
  BY DEF FreshInv, Outside
<1>c. \A n \in 1..Len(file) : file[n].body \subseteq saved \union Outside
  BY DEF FreshInv
<1>d. fd[p] # 0 => fd[p] \in 1..Len(file)
  <2>1. file \in Seq(Inode) /\ fd \in [Proc -> 0..Len(file)]
    BY DEF TypeOK
  <2>2. Len(file) \in Nat /\ fd[p] \in 0..Len(file)
    BY <2>1
  <2>. QED
    BY <2>2
<1>e. ASSUME SaveOwn(p), reverted' = reverted, tracked' = tracked,
             pkg'[p] \subseteq saved \union Outside \union own[p],
             ~tracked[p] => pkg'[p] \subseteq Importable
      PROVE  /\ saved \subseteq saved'
             /\ saved' \subseteq saved \union own[p] \union Outside
             /\ reverted' \subseteq reverted \union delta
             /\ own'[p] \intersect (saved' \union Outside) = {}
             /\ \A q \in Proc \ {p} : own'[p] \intersect own[q] = {}
             /\ pkg'[p] \subseteq saved' \union Outside \union own'[p]
             /\ ~tracked'[p] => pkg'[p] \subseteq Importable
  <2>1. own'[p] = {} /\ saved' = saved \union own[p]
    BY <1>e DEF TypeOK, SaveOwn
  <2>. QED
    BY <1>e, <2>1
<1>1. CASE uci_file_load_open(p)
  BY <1>1 DEF TypeOK, PcInv, FreshInv, Outside, Unused, uci_file_load_open
<1>2. CASE uci_file_load_import(p)
  <2>1. /\ pc[p] = "loadLock" /\ pkg'[p] = file[fd[p]].body /\ own'[p] = {} /\ tracked'[p]
        /\ UNCHANGED <<saved, reverted>>
    BY <1>2 DEF TypeOK, uci_file_load_import
  <2>2. fd[p] # 0
    BY <2>1 DEF PcInv
  <2>3. file[fd[p]].body \subseteq saved \union Outside
    BY <1>c, <1>d, <2>2
  <2>. QED
    BY <2>1, <2>3
<1>3. CASE uci_file_load_delta(p)
  <2>1. /\ pkg'[p] = pkg[p] \union ((Overlay \union delta) \ Rejected)
        /\ UNCHANGED <<saved, reverted, own, tracked>>
    BY <1>3 DEF TypeOK, uci_file_load_delta
  <2>2. tracked[p]
    BY <1>3 DEF PcInv, uci_file_load_delta
  <2>. QED
    BY <1>a, <1>b, <2>1, <2>2
<1>4. CASE uci_file_load_close(p)
  BY <1>4 DEF TypeOK, PcInv, FreshInv, Outside, Unused, uci_file_load_close
<1>5. CASE uci_unload(p)
  BY <1>5 DEF TypeOK, PcInv, FreshInv, Outside, Unused, uci_unload
<1>6. CASE uci_save(p)
  <2>1. SaveOwn(p) /\ UNCHANGED <<reverted, tracked, pkg>>
    BY <1>6 DEF uci_save
  <2>. QED
    BY <1>a, <1>e, <2>1
<1>7. CASE uci_file_commit_open(p)
  BY <1>7 DEF TypeOK, PcInv, FreshInv, Outside, Unused, uci_file_commit_open, Returned
<1>8. CASE uci_file_commit_lock(p)
  BY <1>8 DEF TypeOK, PcInv, FreshInv, Outside, Unused, uci_file_commit_lock, Returned
<1>9. CASE uci_file_commit_reload(p)
  <2>1. /\ SaveOwn(p) /\ UNCHANGED <<reverted, tracked>>
        /\ pkg'[p] = file[fd[p]].body /\ pc[p] = "reload"
    BY <1>9 DEF TypeOK, uci_file_commit_reload
  <2>2. tracked[p] /\ fd[p] # 0
    BY <2>1 DEF PcInv
  <2>3. file[fd[p]].body \subseteq saved \union Outside
    BY <1>c, <1>d, <2>2
  <2>. QED
    BY <1>e, <2>1, <2>2, <2>3
<1>10. CASE uci_file_commit_save_fails(p)
  BY <1>10 DEF TypeOK, PcInv, FreshInv, Outside, Unused, uci_file_commit_save_fails, Returned
<1>11. CASE uci_load_delta_read(p)
  <2>1. /\ pkg'[p] = pkg[p] \union Accepted(Overlay \union delta) /\ pc[p] = "read"
        /\ UNCHANGED <<saved, reverted, own, tracked>>
    BY <1>11 DEF TypeOK, uci_load_delta_read
  <2>2. tracked[p]
    BY <2>1 DEF PcInv
  <2>. QED
    BY <1>a, <1>b, <2>1, <2>2
<1>12. CASE uci_load_delta_flush(p)
  BY <1>12 DEF TypeOK, PcInv, FreshInv, Outside, Unused, uci_load_delta_flush
<1>13. CASE uci_load_delta_flush_fails(p)
  BY <1>13 DEF TypeOK, PcInv, FreshInv, Outside, Unused, uci_load_delta_flush_fails
<1>14. CASE uci_load_delta_reopen_fails(p)
  BY <1>14 DEF TypeOK, PcInv, FreshInv, Outside, Unused, uci_load_delta_reopen_fails
<1>15. CASE uci_file_commit_tmp(p)
  BY <1>15 DEF TypeOK, PcInv, FreshInv, Outside, Unused, uci_file_commit_tmp, Returned
<1>16. CASE uci_file_commit_tmp_fails(p)
  BY <1>16 DEF TypeOK, PcInv, FreshInv, Outside, Unused, uci_file_commit_tmp_fails, Returned
<1>17. CASE uci_file_commit_export(p)
  BY <1>17 DEF TypeOK, PcInv, FreshInv, Outside, Unused, uci_file_commit_export, Returned
<1>18. CASE uci_file_commit_close(p)
  BY <1>18 DEF TypeOK, PcInv, FreshInv, Outside, Unused, uci_file_commit_close, Returned
<1>19. CASE uci_file_commit_rename(p)
  <2>1. /\ UNCHANGED <<reverted, own, tracked>>
        /\ \/ UNCHANGED <<saved, pkg>>
           \/ ~tracked[p] /\ saved' = saved \union pkg[p] /\ pkg'[p] = {}
    BY <1>19 DEF TypeOK, uci_file_commit_rename
  <2>2. CASE UNCHANGED <<saved, pkg>>
    BY <1>a, <2>1, <2>2
  <2>3. CASE ~tracked[p] /\ saved' = saved \union pkg[p] /\ pkg'[p] = {}
    <3>1. own[p] = {}
      BY <2>3 DEF PcInv
    <3>. QED
      BY <1>a, <1>b, <2>1, <2>3, <3>1
  <2>. QED
    BY <2>1, <2>2, <2>3
<1>20. CASE uci_file_commit_rename_fails(p)
  BY <1>20 DEF TypeOK, PcInv, FreshInv, Outside, Unused, uci_file_commit_rename_fails, Returned
<1>21. CASE uci_revert(p)
  <2>1. SaveOwn(p) /\ UNCHANGED <<reverted, tracked>> /\ pkg'[p] = {}
    BY <1>21 DEF TypeOK, uci_revert
  <2>. QED
    BY <1>e, <2>1
<1>22. CASE uci_filter_delta_fails(p)
  BY <1>22 DEF TypeOK, PcInv, FreshInv, Outside, Unused, uci_filter_delta_fails
<1>23. CASE uci_filter_delta_rewrite(p)
  BY <1>23 DEF TypeOK, PcInv, FreshInv, Outside, Unused, uci_filter_delta_rewrite
<1>24. CASE Crash(p)
  <2>1. pkg'[p] = {} /\ own'[p] = {} /\ UNCHANGED <<saved, reverted>>
    BY <1>24 DEF TypeOK, Crash
  <2>. QED
    BY <2>1
<1>25. CASE \E c \in Change : uci_add_delta(p, c)
  <2>1. PICK c \in Change : uci_add_delta(p, c)
    BY <1>25
  <2>. QED
    <3>1. /\ pc[p] = "in" /\ pkg'[p] = pkg[p] \union {c} /\ own'[p] = own[p] \union {c}
          /\ UNCHANGED <<saved, reverted, tracked>>
      BY <2>1 DEF TypeOK, uci_add_delta
    <3>2. c \notin saved \union Outside /\ \A q \in Proc : c \notin own[q]
      BY <2>1 DEF uci_add_delta, Unused, Outside
    <3>3. tracked[p]
      BY <3>1 DEF PcInv
    <3>. QED
      BY <1>a, <3>1, <3>2, <3>3
<1>26. CASE \E c \in Importable : uci_do_import(p, c)
  <2>1. PICK c \in Importable : uci_do_import(p, c)
    BY <1>26
  <2>. QED
    <3>1. pkg'[p] = {c} /\ UNCHANGED <<saved, reverted, own>>
      BY <2>1 DEF TypeOK, uci_do_import
    <3>. QED
      BY <1>a, <1>b, <3>1
<1>27. CASE \E S \in Selections : uci_filter_delta(p, S)
  <2>1. PICK S \in Selections : uci_filter_delta(p, S)
    BY <1>27
  <2>. QED
    BY <2>1 DEF TypeOK, PcInv, FreshInv, Outside, Unused, uci_filter_delta
<1>. QED
  BY <1>1, <1>2, <1>3, <1>4, <1>5, <1>6, <1>7, <1>8, <1>9, <1>10, <1>11, <1>12, <1>13,
     <1>14, <1>15, <1>16, <1>17, <1>18, <1>19, <1>20, <1>21, <1>22, <1>23, <1>24, <1>25,
     <1>26, <1>27 DEF Step, Call

(* An unsaved change is in no file and belongs to one process.             *)
LEMMA FreshStep ==
  ASSUME TypeOK, PcInv, FreshInv, NEW p \in Proc, Step(p) \/ Call(p) \/ Crash(p)
  PROVE  FreshInv'
<1>1. \A n \in 1..Len(file') : file'[n].body \subseteq saved' \union Outside
  <2>1. pc[p] = "export" => pkg[p] \subseteq saved \union Outside
    BY DEF PcInv, FreshInv
  <2>. QED
    BY <2>1, BodyStep, FreshLocal DEF FreshInv
<1>2. delta' \subseteq saved' \ Outside
  BY DeltaStep, FreshLocal DEF FreshInv
<1>3. reverted' \subseteq saved' \ Outside
  BY FreshLocal DEF FreshInv
<1>4. \A q \in Proc : own'[q] \intersect (saved' \union Outside) = {}
  <2>1. own'[p] \intersect (saved' \union Outside) = {}
    BY FreshLocal
  <2>2. ASSUME NEW q \in Proc \ {p}
        PROVE  own'[q] \intersect (saved' \union Outside) = {}
    <3>1. own'[q] = own[q]
      BY Others
    <3>2. saved' \subseteq saved \union own[p] \union Outside
      BY FreshLocal
    <3>. QED
      BY <3>1, <3>2 DEF FreshInv
  <2>. QED
    BY <2>1, <2>2
<1>5. \A q \in Proc : list'[q] \subseteq saved' \ Outside
  <2>1. saved \subseteq saved'
    BY FreshLocal
  <2>2. list'[p] \subseteq list[p] \union delta
    BY DeltaStep
  <2>3. \A q \in Proc \ {p} : list'[q] = list[q]
    BY Others
  <2>4. delta \subseteq saved \ Outside /\ \A q \in Proc : list[q] \subseteq saved \ Outside
    BY DEF FreshInv
  <2>5. list'[p] \subseteq saved' \ Outside
    BY <2>1, <2>2, <2>4
  <2>6. ASSUME NEW q \in Proc \ {p}
        PROVE  list'[q] \subseteq saved' \ Outside
    BY <2>1, <2>3, <2>4
  <2>. QED
    BY <2>5, <2>6
<1>6. \A q \in Proc : pkg'[q] \subseteq saved' \union Outside \union own'[q]
  <2>1. saved \subseteq saved' /\ pkg'[p] \subseteq saved' \union Outside \union own'[p]
    BY FreshLocal
  <2>2. \A q \in Proc \ {p} : pkg'[q] = pkg[q] /\ own'[q] = own[q]
    BY Others
  <2>3. \A q \in Proc : pkg[q] \subseteq saved \union Outside \union own[q]
    BY DEF FreshInv
  <2>4. ASSUME NEW q \in Proc \ {p}
        PROVE  pkg'[q] \subseteq saved' \union Outside \union own'[q]
    BY <2>1, <2>2, <2>3
  <2>. QED
    BY <2>1, <2>4
<1>7. \A q \in Proc : ~tracked'[q] => pkg'[q] \subseteq Importable
  <2>1. ~tracked'[p] => pkg'[p] \subseteq Importable
    BY FreshLocal
  <2>2. \A q \in Proc \ {p} : pkg'[q] = pkg[q] /\ tracked'[q] = tracked[q]
    BY Others
  <2>3. \A q \in Proc : ~tracked[q] => pkg[q] \subseteq Importable
    BY DEF FreshInv
  <2>. QED
    BY <2>1, <2>2, <2>3
<1>8. \A q \in Proc : \A r \in Proc \ {q} : own'[q] \intersect own'[r] = {}
  <2>1. \A r \in Proc \ {p} : own'[p] \intersect own'[r] = {}
    BY FreshLocal, Others
  <2>2. \A q \in Proc \ {p} : own'[q] = own[q]
    BY Others
  <2>3. \A q \in Proc : \A r \in Proc \ {q} : own[q] \intersect own[r] = {}
    BY DEF FreshInv
  <2>4. ASSUME NEW q \in Proc, NEW r \in Proc \ {q}
        PROVE  own'[q] \intersect own'[r] = {}
    <3>1. CASE q = p
      BY <2>1, <3>1
    <3>2. CASE r = p
      BY <2>1, <3>2
    <3>3. CASE q # p /\ r # p
      BY <2>2, <2>3, <3>3
    <3>. QED
      BY <3>1, <3>2, <3>3
  <2>. QED
    BY <2>4
<1>. QED
  BY <1>1, <1>2, <1>3, <1>4, <1>5, <1>6, <1>7, <1>8 DEF FreshInv, Outside

(* What p will export was in memory before, comes from an import or from a *)
(* config file, or has just been flushed.                                  *)
LEMMA ExportStep ==
  ASSUME TypeOK, PcInv, DeltaWritable, NEW p \in Proc, Step(p) \/ Call(p) \/ Crash(p), pc'[p] = "read" \/ Exporting(p)'
  PROVE  \/ pkg'[p] = pkg[p] /\ (Exporting(p) \/ (pc[p] = "lock" /\ ~tracked[p]))
         \/ delta' = {} /\ \A q \in Proc : list'[q] = {}
         \/ fd[p] \in 1..Len(file) /\ pkg'[p] = file[fd[p]].body
<1>1. CASE uci_file_load_open(p)
  BY <1>1 DEF TypeOK, PcInv, Exporting, DeltaWritable, DeltaFree, uci_file_load_open
<1>2. CASE uci_file_load_import(p)
  BY <1>2 DEF TypeOK, PcInv, Exporting, DeltaWritable, DeltaFree, uci_file_load_import
<1>3. CASE uci_file_load_delta(p)
  BY <1>3 DEF TypeOK, PcInv, Exporting, DeltaWritable, DeltaFree, uci_file_load_delta
<1>4. CASE uci_file_load_close(p)
  BY <1>4 DEF TypeOK, PcInv, Exporting, DeltaWritable, DeltaFree, uci_file_load_close
<1>5. CASE uci_unload(p)
  BY <1>5 DEF TypeOK, PcInv, Exporting, DeltaWritable, DeltaFree, uci_unload
<1>6. CASE uci_save(p)
  BY <1>6 DEF TypeOK, PcInv, Exporting, DeltaWritable, DeltaFree, uci_save, SaveOwn
<1>7. CASE uci_file_commit_open(p)
  BY <1>7 DEF TypeOK, PcInv, Exporting, DeltaWritable, DeltaFree, uci_file_commit_open, Returned
<1>8. CASE uci_file_commit_lock(p)
  BY <1>8 DEF TypeOK, PcInv, Exporting, DeltaWritable, DeltaFree, uci_file_commit_lock, Returned
<1>9. CASE uci_file_commit_reload(p)
  BY <1>9 DEF TypeOK, PcInv, Exporting, DeltaWritable, DeltaFree, uci_file_commit_reload,
     SaveOwn, Returned
<1>10. CASE uci_file_commit_save_fails(p)
  BY <1>10 DEF TypeOK, PcInv, Exporting, DeltaWritable, DeltaFree,
     uci_file_commit_save_fails, Returned
<1>11. CASE uci_load_delta_read(p)
  BY <1>11 DEF TypeOK, PcInv, Exporting, DeltaWritable, DeltaFree, uci_load_delta_read
<1>12. CASE uci_load_delta_flush(p)
  <2>1. pc[p] = "truncate" /\ tmp'[p] = 0 /\ (~changes[p] => pc'[p] = "close")
    BY <1>12 DEF TypeOK, PcInv, uci_load_delta_flush
  <2>2. changes[p] => delta' = {}
    BY <1>12 DEF uci_load_delta_flush
  <2>3. \A q \in Proc : list'[q] = {}
    BY <1>12 DEF PcInv, DeltaFree, uci_load_delta_flush
  <2>. QED
    BY <2>1, <2>2, <2>3 DEF Exporting
<1>13. CASE uci_load_delta_flush_fails(p)
  BY <1>13 DEF TypeOK, PcInv, Exporting, DeltaWritable, DeltaFree, uci_load_delta_flush_fails
<1>14. CASE uci_load_delta_reopen_fails(p)
  BY <1>14 DEF TypeOK, PcInv, Exporting, DeltaWritable, DeltaFree, uci_load_delta_reopen_fails
<1>15. CASE uci_file_commit_tmp(p)
  BY <1>15 DEF TypeOK, PcInv, Exporting, DeltaWritable, DeltaFree, uci_file_commit_tmp, Returned
<1>16. CASE uci_file_commit_tmp_fails(p)
  BY <1>16 DEF TypeOK, PcInv, Exporting, DeltaWritable, DeltaFree,
     uci_file_commit_tmp_fails, Returned
<1>17. CASE uci_file_commit_export(p)
  BY <1>17 DEF TypeOK, PcInv, Exporting, DeltaWritable, DeltaFree, uci_file_commit_export,
     Returned
<1>18. CASE uci_file_commit_close(p)
  BY <1>18 DEF TypeOK, PcInv, Exporting, DeltaWritable, DeltaFree, uci_file_commit_close,
     Returned
<1>19. CASE uci_file_commit_rename(p)
  BY <1>19 DEF TypeOK, PcInv, Exporting, DeltaWritable, DeltaFree, uci_file_commit_rename,
     Returned
<1>20. CASE uci_file_commit_rename_fails(p)
  BY <1>20 DEF TypeOK, PcInv, Exporting, DeltaWritable, DeltaFree,
     uci_file_commit_rename_fails, Returned
<1>21. CASE uci_revert(p)
  BY <1>21 DEF TypeOK, PcInv, Exporting, DeltaWritable, DeltaFree, uci_revert, SaveOwn
<1>22. CASE uci_filter_delta_fails(p)
  BY <1>22 DEF TypeOK, PcInv, Exporting, DeltaWritable, DeltaFree, uci_filter_delta_fails
<1>23. CASE uci_filter_delta_rewrite(p)
  BY <1>23 DEF TypeOK, PcInv, Exporting, DeltaWritable, DeltaFree, uci_filter_delta_rewrite
<1>24. CASE Crash(p)
  BY <1>24 DEF TypeOK, PcInv, Exporting, DeltaWritable, DeltaFree, Crash
<1>25. CASE \E c \in Change : uci_add_delta(p, c)
  <2>1. PICK c \in Change : uci_add_delta(p, c)
    BY <1>25
  <2>. QED
    BY <2>1 DEF TypeOK, PcInv, Exporting, DeltaWritable, DeltaFree, uci_add_delta
<1>26. CASE \E c \in Importable : uci_do_import(p, c)
  <2>1. PICK c \in Importable : uci_do_import(p, c)
    BY <1>26
  <2>. QED
    BY <2>1 DEF TypeOK, PcInv, Exporting, DeltaWritable, DeltaFree, uci_do_import
<1>27. CASE \E S \in Selections : uci_filter_delta(p, S)
  <2>1. PICK S \in Selections : uci_filter_delta(p, S)
    BY <1>27
  <2>. QED
    BY <2>1 DEF TypeOK, PcInv, Exporting, DeltaWritable, DeltaFree, uci_filter_delta
<1>. QED
  BY <1>1, <1>2, <1>3, <1>4, <1>5, <1>6, <1>7, <1>8, <1>9, <1>10, <1>11, <1>12, <1>13,
     <1>14, <1>15, <1>16, <1>17, <1>18, <1>19, <1>20, <1>21, <1>22, <1>23, <1>24, <1>25,
     <1>26, <1>27 DEF Step, Call

(* uci_load_delta truncates before uci_file_commit exports: what a file    *)
(* holds no longer waits in the delta file.                                *)
LEMMA OnceStep ==
  ASSUME TypeOK, PcInv, FreshInv, OnceInv, NEW p \in Proc, Step(p) \/ Call(p) \/ Crash(p)
  PROVE  OnceInv'
<1>. DEFINE Taking(q) == pc[q] = "read" \/ Exporting(q)
<1>. SUFFICES ASSUME DeltaWritable
             PROVE  /\ \A n \in 1..Len(file') : file'[n].body \intersect Waiting' = {}
                    /\ \A q \in Proc : Taking(q)' => pkg'[q] \intersect Waiting' = {}
  BY DEF OnceInv, DeltaWritable
<1>1. Waiting' \subseteq Waiting \union own[p]
  BY WaitStep
<1>2. \A n \in 1..Len(file) : file[n].body \intersect (Waiting \union own[p]) = {}
  BY DEF OnceInv, FreshInv
<1>3. ASSUME NEW q \in Proc, Taking(q)
      PROVE  pkg[q] \intersect (Waiting \union own[p]) = {}
  <2>1. own[q] = {}
    BY <1>3 DEF PcInv, Exporting
  <2>. QED
    BY <1>3, <2>1 DEF OnceInv, FreshInv
<1>4. \A n \in 1..Len(file') : file'[n].body \intersect Waiting' = {}
  <2>1. pc[p] = "export" => Taking(p)
    BY DEF Exporting
  <2>. QED
    BY <1>1, <1>2, <1>3, <2>1, BodyStep
<1>5. ASSUME Taking(p)'
      PROVE  pkg'[p] \intersect Waiting' = {}
  <2>1. CASE pkg'[p] = pkg[p] /\ Taking(p)
    BY <1>1, <1>3, <2>1
  <2>2. CASE pkg'[p] = pkg[p] /\ pc[p] = "lock" /\ ~tracked[p]
    <3>1. own[p] = {}
      BY <2>2 DEF PcInv
    <3>2. pkg[p] \intersect Waiting = {}
      BY <2>2 DEF FreshInv, Outside, Waiting, Kept
    <3>. QED
      BY <1>1, <2>2, <3>1, <3>2
  <2>3. CASE delta' = {} /\ \A q \in Proc : list'[q] = {}
    BY <2>3 DEF Waiting, Kept
  <2>4. CASE fd[p] \in 1..Len(file) /\ pkg'[p] = file[fd[p]].body
    BY <1>1, <1>2, <2>4
  <2>. QED
    BY <1>5, <2>1, <2>2, <2>3, <2>4, ExportStep
<1>6. ASSUME NEW q \in Proc \ {p}, Taking(q)'
      PROVE  pkg'[q] \intersect Waiting' = {}
  <2>1. Taking(q) /\ pkg'[q] = pkg[q]
    BY <1>6, Others DEF Exporting
  <2>. QED
    BY <1>1, <1>3, <2>1
<1>. QED
  BY <1>4, <1>5, <1>6

===============================================================================
