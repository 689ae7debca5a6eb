---------------------------- MODULE MCXmppClient ----------------------------
(* XmppClient with two calls of connect, one user whose password is their  *)
(* name and one whose password is not.                                     *)
EXTENDS XmppClient

CONSTANTS t1, t2, alice, bob, secret
MCThreads == {t1, t2}
MCPasswordOf == [u \in {alice, bob} |-> IF u = alice THEN alice ELSE secret]
=============================================================================
