---------------------------- MODULE MCXmppSystem ----------------------------
(* XmppSystem with two calls of connect and one contact. *)
EXTENDS XmppSystem

CONSTANTS t1, t2, alice, ann
MCThreads == {t1, t2}
MCPasswordOf == [u \in {alice} |-> alice]
=============================================================================
