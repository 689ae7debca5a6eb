--------------------------- MODULE MCGlooxInline ---------------------------
(* Lists of up to four nodes, every value of a short integer, and every    *)
(* class of extension.                                                     *)
EXTENDS GlooxInline

CONSTANTS n1, n2, n3, n4
MCNodes == {n1, n2, n3, n4}
MCBases == 0 .. 18
MCClasses == DOMAIN ClassOf
=============================================================================
