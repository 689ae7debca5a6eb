--------------------------- MODULE XmppLifecycle ---------------------------
(***************************************************************************)
(* What an application may rely on when it uses one XmppClient: the calls  *)
(* of connect that are accepted and the order of the signals they lead to. *)
(* XmppClient.tla implements this specification.                           *)
(***************************************************************************)
EXTENDS Naturals, Sequences

VARIABLES
    life,   \* "new", "started", "doomed", "terminated" or "destroyed"
    heard   \* the signals emitted so far, in order

vars == <<life, heard>>

(* Of one connection every signal comes at most once, in this order. *)
Order == <<"tls", "connect", "roster", "disconnect">>
Signals == {Order[i] : i \in DOMAIN Order}
Rank(s) == CHOOSE i \in DOMAIN Order : Order[i] = s

(* s may follow what was heard; the roster follows the connect signal. *)
MayFollow(s) ==
    /\ heard # <<>> => Rank(heard[Len(heard)]) < Rank(s)
    /\ s = "roster" => heard # <<>> /\ heard[Len(heard)] = "connect"

Init == life = "new" /\ heard = <<>>

(* A second connect is accepted but cannot end well. *)
Connect ==
    /\ \/ life = "new" /\ life' = "started"
       \/ life \in {"started", "doomed"} /\ life' = "doomed"
    /\ UNCHANGED heard

Signal(s) ==
    /\ life = "doomed" \/ (life = "started" /\ MayFollow(s))
    /\ heard' = Append(heard, s)
    /\ UNCHANGED life

Terminate ==
    /\ life \in {"started", "doomed"}
    /\ life' = "terminated"
    /\ UNCHANGED heard

(* Only a client that was never connected can be destroyed. *)
Destroy ==
    /\ \/ life = "new" /\ life' = "destroyed"
       \/ life = "started" /\ life' = "doomed"
    /\ UNCHANGED heard

Next == Connect \/ Terminate \/ Destroy \/ \E s \in Signals : Signal(s)

Spec == Init /\ [][Next]_vars
=============================================================================
