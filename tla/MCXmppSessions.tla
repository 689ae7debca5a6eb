--------------------------- MODULE MCXmppSessions ---------------------------
(* Two senders, one of them with two resources in turn, two clients. *)
EXTENDS XmppSessions, TLC

CONSTANTS ann, bea, r1, r2
MCSenders == {ann, bea}
MCOneSender == {ann}
MCResources == {r1, r2}
Symmetry == Permutations(MCResources)
=============================================================================
