------------------------------ MODULE XmppPeer ------------------------------
(***************************************************************************)
(* XmppPeer (src/src/XmppClient.h): what the client remembers of a contact *)
(* and how a gloox presence becomes a status. Both enumerations are cast   *)
(* to and from int in the code, so they are numbers here.                  *)
(***************************************************************************)
EXTENDS Naturals

(* XmppPeer::status_t is Available, Chat, Away, DND, XA, Unavailable,      *)
(* Invalid; gloox::Presence::PresenceType has the same first six, then     *)
(* Probe, Error and Invalid.                                               *)
Available == 0
Unavailable == 5
Invalid == 6
Status == Available .. Invalid

PresenceType == 0 .. 8
Error == 7

Peer(Names) == [username : Names, connected : BOOLEAN, status : Status]

(* The constructor with its default arguments. *)
NewPeer(user) == [username |-> user, connected |-> FALSE, status |-> Invalid]

(* Mutant of setStatus: Unavailable counts as connected. *)
setStatusOffByOne(peer, value) ==
    [peer EXCEPT !.status = value, !.connected = value <= Unavailable]

setStatus(peer, value) == [peer EXCEPT !.status = value, !.connected = value < Unavailable]

(* Mutant of presenceToStatus: a cast without the test. *)
castPresence(presence) == presence

presenceToStatus(presence) == IF presence <= Invalid THEN presence ELSE Invalid
=============================================================================
