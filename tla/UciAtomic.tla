------------------------------ MODULE UciAtomic ------------------------------
(***************************************************************************)
(* What a UCI package promises to the processes that share it: saved       *)
(* changes are pending until a commit takes them all in one step, or a     *)
(* revert drops them.                                                      *)
(***************************************************************************)
CONSTANTS
  Change,      \* the changes that may be made
  Rejected,    \* the changes that no longer apply
  Selections,  \* the sets of changes a revert can select
  Importable   \* the changes that an import may bring

VARIABLES
  committed,   \* the changes in the config
  pending      \* the changes saved and not yet committed

Init == committed = {} /\ pending = {}

Save ==
  \E C \in SUBSET Change :
    /\ pending' = pending \union C
    /\ UNCHANGED committed

(* A commit takes every pending change.  It drops those that no longer     *)
(* apply, unless there are no others.                                      *)
Commit ==
  /\ pending \ Rejected # {}
  /\ committed' = committed \union (pending \ Rejected)
  /\ pending' = {}

Revert ==
  \E S \in Selections :
    /\ pending' = pending \ S
    /\ UNCHANGED committed

Import ==
  \E c \in Importable :
    /\ committed' = {c}
    /\ UNCHANGED pending

Next == Save \/ Commit \/ Revert \/ Import

Spec == Init /\ [][Next]_<<committed, pending>>

=============================================================================
