----------------------------- MODULE MCPjmConfig -----------------------------
(* Instances of PjmConfig for TLC.                                         *)
EXTENDS PjmConfig

CONSTANTS s1, s2, osd, osdLang, lamp, note, blank, osdCut, stub

(* The name of the instance osd is a part of the name of osdLang, and of   *)
(* what a cut may leave of its line; the comment mentions lamp.  A blank   *)
(* line comes before the comment.                                          *)
Instances == {osd, osdLang, lamp}
Found == {<<k, k>> : k \in Instances}
         \union {<<osd, osdLang>>, <<osd, osdCut>>, <<lamp, note>>}
Reference == <<osd, osdLang, lamp, blank, note>>
Cutting == [l \in Line |-> IF l = osdLang THEN {osdCut} ELSE IF l = lamp THEN {stub} ELSE {}]

(* What earlier calls left: nothing, a line that was cut, or a comment.    *)
Begun == {<<>>, <<lamp, osdCut>>, <<note>>}

=============================================================================
