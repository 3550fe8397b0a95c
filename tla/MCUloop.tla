-------------------------------- MODULE MCUloop --------------------------------
(* The event loop with two descriptors, the first with ULOOP_ERROR_CB, and *)
(* two children.                                                           *)
EXTENDS Uloop, TLC

CONSTANTS f1, f2, c1, c2

MCFd == {f1, f2}
MCErrorCb == {f1}
MCChild == {c1, c2}

(* The children are alike; the descriptors are not.                        *)
Symmetry == Permutations(Child)
===============================================================================
