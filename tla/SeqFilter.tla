------------------------------ MODULE SeqFilter ------------------------------
(***************************************************************************)
(* The items of a sequence that are in a set, as grep and the loops over   *)
(* lists of libuci pick them.  It is a recursive function, and not         *)
(* SelectSeq, so that SeqInduction can prove what it returns.              *)
(***************************************************************************)
EXTENDS Naturals, Sequences

(* Filtered(s, T)[n]: those among the first n items of s.                  *)
Filtered(s, T) ==
  LET f[n \in 0..Len(s)] ==
        IF n = 0 THEN <<>>
        ELSE IF s[n] \in T THEN Append(f[n - 1], s[n]) ELSE f[n - 1]
  IN f

Filter(s, T) == Filtered(s, T)[Len(s)]

=============================================================================
