----------------------------- MODULE MCUciPackage -----------------------------
(* UciPackage for TLC: two processes, and a config file with two unnamed   *)
(* sections of one type, a string and a list, or with a named section of   *)
(* another type between two unnamed ones.                                  *)
EXTENDS UciPackage, TLC

CONSTANTS p1, p2, iface, rule, lan, wan, bad, v1, v2

Sect(k, type, name, options) ==
  [id |-> -k, type |-> type, name |-> name, anon |-> name = None, opt |-> options]

MCFiles ==
  {<<Sect(1, iface, None, <<[name |-> lan, list |-> FALSE, val |-> <<v1>>]>>),
     Sect(2, iface, None, <<[name |-> lan, list |-> TRUE, val |-> <<v1, v2>>]>>)>>,
   <<Sect(1, iface, None, <<>>), Sect(2, rule, lan, <<>>), Sect(3, iface, None, <<>>)>>}

Symmetry == Permutations(Proc)
===============================================================================
