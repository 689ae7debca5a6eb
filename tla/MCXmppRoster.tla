---------------------------- MODULE MCXmppRoster ----------------------------
(* Three JIDs, two of them with the same username on different servers. *)
EXTENDS XmppRoster

CONSTANTS annHome, annWork, beaHome, ann, bea, r1
MCUserOf == [j \in {annHome, annWork, beaHome} |-> IF j = beaHome THEN bea ELSE ann]
=============================================================================
