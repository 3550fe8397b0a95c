------------------------------ MODULE MCUciStore ------------------------------
(* Instances of UciStore for TLC.                                          *)
EXTENDS UciStore, TLC

CONSTANTS p1, p2, a, b, r, o, i

Processes == {p1, p2}
Symmetry == Permutations(Processes)

(* uci revert <config>, uci revert <config>.<the section of a>             *)
AllOrA == {Change, {a}}

None == {}

=============================================================================
