---------------------------- MODULE XmppContacts ----------------------------
(***************************************************************************)
(* What an application may rely on of the contacts that an XmppClient      *)
(* reports: who is a contact is settled once, by the roster signal; from   *)
(* then on a contact has the status last signalled, and signals about      *)
(* anybody else say nothing. XmppRoster.tla implements this specification. *)
(***************************************************************************)
EXTENDS Naturals

CONSTANTS
    Usernames,
    Status,     \* what a contact can be
    Unheard,    \* the status of a contact before its first presence
    NoContact   \* the username is not one of a contact

VARIABLES
    answered,   \* the roster request has been answered, well or badly
    listed,     \* the usernames of the roster signal
    contacts,   \* the status of each contact
    told,       \* whom the last presence signal was about, and what it said
    named,      \* who sent the last message, and the status reported with it
    crashed     \* the process is gone

vars == <<answered, listed, contacts, told, named, crashed>>

Init ==
    /\ answered = FALSE
    /\ listed = {}
    /\ contacts = [u \in Usernames |-> NoContact]
    /\ told = [who |-> "none", status |-> NoContact]
    /\ named = [who |-> "none", status |-> NoContact]
    /\ crashed = FALSE

IsContact(u) == contacts[u] # NoContact

(* The roster signal, or an error that nobody is told of. *)
Load(users) ==
    /\ ~answered
    /\ answered' = TRUE
    /\ listed' = users
    /\ contacts' = [u \in Usernames |-> IF u \in users THEN Unheard ELSE NoContact]
    /\ UNCHANGED <<told, named, crashed>>

(* The presence signal carries the contact with the status it has now. *)
Presence(u, s) ==
    /\ answered /\ IsContact(u)
    /\ contacts' = [contacts EXCEPT ![u] = s]
    /\ told' = [who |-> u, status |-> s]
    /\ UNCHANGED <<answered, listed, named, crashed>>

(* The presence of somebody else: a signal without a contact, or a crash. *)
Stranger(u) ==
    /\ answered /\ ~IsContact(u)
    /\ \/ told' = [who |-> u, status |-> NoContact] /\ UNCHANGED crashed
       \/ crashed' = TRUE /\ UNCHANGED told
    /\ UNCHANGED <<answered, listed, contacts, named>>

(* A message comes with what is known of its sender. *)
Message(u) ==
    /\ named' = [who |-> u, status |-> contacts[u]]
    /\ UNCHANGED <<answered, listed, contacts, told, crashed>>

Next ==
    /\ ~crashed
    /\ \/ \E users \in SUBSET Usernames : Load(users)
       \/ \E u \in Usernames :
             Stranger(u) \/ Message(u) \/ \E s \in Status : Presence(u, s)

Spec == Init /\ [][Next]_vars
=============================================================================
