--------------------------- MODULE MCXmppListener ---------------------------
(* XmppListener on two threads and two clients. *)
EXTENDS XmppListener

CONSTANTS t1, t2
MCThreads == {t1, t2}
=============================================================================
