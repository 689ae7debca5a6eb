----------------------------- MODULE XmppRoster -----------------------------
(***************************************************************************)
(* The roster of an XmppClient (src/src/XmppClient.cpp), keyed by username *)
(* and filled once by handleRoster, beside the roster that gloox keeps,    *)
(* keyed by JID and changed by every roster push. All of it runs on the    *)
(* listener's thread.                                                      *)
(***************************************************************************)
EXTENDS XmppPeer, FiniteSets

CONSTANTS
    JIDs,            \* bare JIDs
    Resources,
    Usernames,
    UserOf,          \* the username part of each JID
    PresenceTypes,   \* the presences the server sends
    NoPeer           \* no entry in mRoster

ASSUME JIDsAssumption == IsFiniteSet(JIDs)
ASSUME UserOfAssumption == UserOf \in [JIDs -> Usernames]
ASSUME PresenceAssumption == PresenceTypes \subseteq PresenceType
ASSUME UnknownAssumption == "unknown" \notin Usernames
ASSUME NoPeerAssumption == NoPeer \notin Peer(Usernames)
ASSUME NoStatusAssumption == NoPeer \notin Status

VARIABLES
    roster,      \* "asked", "loaded" or "refused": the answer to the request
    gRoster,     \* the JIDs in gloox's roster
    gPresence,   \* what gloox knows of each resource, Unavailable if nothing
    mRoster,     \* the client's peers
    published,   \* how often each username is in the last roster signal
    signalled,   \* the last presence signal
    reported,    \* the last message signal: whose, and the peer it named
    outcome,     \* "fine", "undefined" (a signal with an undefined peer) or "crashed"
    removed,     \* history: the JIDs that a push has taken out of the roster
    seen         \* history: the resources that have sent a presence

glooxVars == <<roster, gRoster, gPresence>>
historyVars == <<removed, seen>>
vars == <<glooxVars, mRoster, published, signalled, reported, outcome, historyVars>>

Nothing == [item |-> "none", peer |-> NoPeer, status |-> Invalid]

TypeOK ==
    /\ roster \in {"asked", "loaded", "refused"}
    /\ gRoster \subseteq JIDs
    /\ gPresence \in [JIDs \X Resources -> PresenceType]
    /\ mRoster \in [Usernames -> Peer(Usernames) \cup {NoPeer}]
    /\ published \in [Usernames -> Nat]
    /\ signalled \in [item : Usernames \cup {"none"},
                      peer : Peer(Usernames) \cup {NoPeer}, status : Status]
    /\ reported \in [sender : Usernames \cup {"none"}, peer : Peer(Usernames \cup {"unknown"})]
    /\ outcome \in {"fine", "undefined", "crashed"}
    /\ removed \subseteq JIDs
    /\ seen \subseteq JIDs \X Resources

Init ==
    /\ roster = "asked"
    /\ gRoster = {}
    /\ gPresence = [x \in JIDs \X Resources |-> Unavailable]
    /\ mRoster = [u \in Usernames |-> NoPeer]
    /\ published = [u \in Usernames |-> 0]
    /\ signalled = Nothing
    /\ reported = [sender |-> "none", peer |-> NewPeer("unknown")]
    /\ outcome = "fine"
    /\ removed = {}
    /\ seen = {}

-----------------------------------------------------------------------------
(* gloox's roster changes; handleItemAdded, handleItemUpdated and          *)
(* handleItemRemoved of the listener do nothing.                           *)
PushAdds(j) ==
    /\ gRoster' = gRoster \cup {j}
    /\ UNCHANGED <<roster, gPresence, mRoster, published, signalled, reported, outcome, historyVars>>

PushRemoves(j) ==
    /\ j \in gRoster
    /\ gRoster' = gRoster \ {j}
    /\ gPresence' = [x \in JIDs \X Resources |-> IF x[1] = j THEN Unavailable ELSE gPresence[x]]
    /\ removed' = removed \cup {j}
    /\ UNCHANGED <<roster, mRoster, published, signalled, reported, outcome, seen>>

(* How often the username occurs in a roster. *)
Occurrences(items, u) == Cardinality({j \in items : UserOf[j] = u})

(* Mutant of handleRoster: the map is cleared after the loop, not before. *)
handleRosterClears(items) ==
    /\ mRoster' = [u \in Usernames |-> NoPeer]
    /\ published' = [u \in Usernames |-> Occurrences(items, u)]

(* handleRoster: a peer per username, the username once per item in the    *)
(* list of the signal.                                                     *)
handleRoster(items) ==
    /\ mRoster' = [u \in Usernames |-> IF Occurrences(items, u) > 0 THEN NewPeer(u) ELSE NoPeer]
    /\ published' = [u \in Usernames |-> Occurrences(items, u)]

(* The server's answer to the one request of a connection is added to what *)
(* pushes have brought, and the listener gets all of it.                   *)
RosterArrives(items) ==
    /\ roster = "asked"
    /\ roster' = "loaded"
    /\ gRoster' = gRoster \cup items
    /\ handleRoster(gRoster')
    /\ UNCHANGED <<gPresence, signalled, reported, outcome, historyVars>>

(* handleRosterError of the listener does nothing. *)
RosterRefused ==
    /\ roster = "asked"
    /\ roster' = "refused"
    /\ UNCHANGED <<gRoster, gPresence, mRoster, published, signalled, reported, outcome, historyVars>>

(* Mutants of handleRosterPresence: the signal gets the peer as it was;    *)
(* operator[] makes the missing entry.                                     *)
presenceSignalsOld(name, presence) ==
    LET status == presenceToStatus(presence)
    IN  /\ mRoster[name] # NoPeer
        /\ mRoster' = [mRoster EXCEPT ![name] = setStatus(@, status)]
        /\ signalled' = [item |-> name, peer |-> mRoster[name], status |-> status]
        /\ outcome' = "fine"

presenceInserts(name, presence) ==
    LET status == presenceToStatus(presence)
        old == IF mRoster[name] # NoPeer THEN mRoster[name] ELSE NewPeer(name)
    IN  /\ mRoster' = [mRoster EXCEPT ![name] = setStatus(old, status)]
        /\ signalled' = [item |-> name, peer |-> setStatus(old, status), status |-> status]
        /\ outcome' = "fine"

(* handleRosterPresence: without an entry the signal's first argument is   *)
(* read through the end() iterator, which crashes or yields anything.      *)
handleRosterPresence(name, presence) ==
    LET status == presenceToStatus(presence)
        peer == setStatus(mRoster[name], status)
    IN  IF mRoster[name] # NoPeer
        THEN /\ mRoster' = [mRoster EXCEPT ![name] = peer]
             /\ signalled' = [item |-> name, peer |-> peer, status |-> status]
             /\ outcome' = "fine"
        ELSE /\ \/ outcome' = "crashed" /\ UNCHANGED signalled
                \/ /\ outcome' = "undefined"
                   /\ signalled' = [item |-> name, peer |-> NoPeer, status |-> status]
             /\ UNCHANGED mRoster

(* Contacts are heard of once the roster request is answered, which is     *)
(* when gloox sends the user's own presence. gloox keeps errors and JIDs   *)
(* outside of its roster to itself.                                        *)
PresenceArrives(j, r, presence) ==
    /\ roster # "asked"
    /\ j \in gRoster /\ presence # Error
    /\ gPresence' = [gPresence EXCEPT ![<<j, r>>] = presence]
    /\ seen' = seen \cup {<<j, r>>}
    /\ handleRosterPresence(UserOf[j], presence)
    /\ UNCHANGED <<roster, gRoster, published, reported, removed>>

(* Mutant of MessageArrives: the peer is not looked up by name. *)
MessageOfAnyPeer(j) ==
    /\ \E u \in Usernames :
          /\ mRoster[u] # NoPeer
          /\ reported' = [sender |-> UserOf[j], peer |-> mRoster[u]]
    /\ UNCHANGED <<glooxVars, mRoster, published, signalled, outcome, historyVars>>

(* handleMessage: the session's username, looked up among the peers. *)
MessageArrives(j) ==
    /\ LET name == UserOf[j]
       IN  reported' = [sender |-> name,
                        peer |-> IF mRoster[name] # NoPeer THEN mRoster[name] ELSE NewPeer("unknown")]
    /\ UNCHANGED <<glooxVars, mRoster, published, signalled, outcome, historyVars>>

Next ==
    /\ outcome # "crashed"
    /\ \/ \E items \in SUBSET JIDs : RosterArrives(items)
       \/ RosterRefused
       \/ \E j \in JIDs :
             \/ PushAdds(j) \/ PushRemoves(j) \/ MessageArrives(j)
             \/ \E r \in Resources, presence \in PresenceTypes : PresenceArrives(j, r, presence)

Spec == Init /\ [][Next]_vars

-----------------------------------------------------------------------------
(* Properties.                                                             *)

(* Some resource of the user is online for gloox. *)
Online(u) == \E x \in JIDs \X Resources : UserOf[x[1]] = u /\ gPresence[x] < Unavailable

(* A peer is connected exactly when gloox has a resource of that user      *)
(* online, unless the username was heard of from two places (resources, or *)
(* servers: only the last one counts) or an item was removed by a push     *)
(* (the peer stays as it was).                                             *)
ConnectedIsOnline ==
    \A u \in Usernames : mRoster[u] # NoPeer =>
        \/ mRoster[u].connected <=> Online(u)
        \/ Cardinality({x \in seen : UserOf[x[1]] = u}) > 1
        \/ \E j \in removed : UserOf[j] = u

(* The usernames the application was told of are those a peer is kept for: *)
(* what it looks up by a name of the list is there as long as it runs.     *)
PublishedArePeers == \A u \in Usernames : published[u] > 0 <=> mRoster[u] # NoPeer

(* The undefined peer of handleRosterPresence needs a contact that was not *)
(* in the roster signal: one a push added later, or a refused request.     *)
UndefinedNeedsPush ==
    outcome = "undefined" => published[signalled.item] = 0

(* A message is reported with the peer of the sender's name or with the    *)
(* default "unknown", never with another user's peer or an empty entry.    *)
MessageNamesItsSender ==
    reported.sender # "none" =>
        reported.peer.username \in {reported.sender, "unknown"}

(* What the application sees follows XmppContacts: pushes, JIDs, resources *)
(* and the flag of a peer are hidden, and a contact is a username with the *)
(* status of its peer. "unknown" is the peer of somebody who has none.     *)
StatusOf(peer) == IF peer = NoPeer \/ peer.username = "unknown" THEN NoPeer ELSE peer.status

Contacts == INSTANCE XmppContacts WITH
    Unheard <- Invalid,
    NoContact <- NoPeer,
    answered <- roster # "asked",
    listed <- {u \in Usernames : published[u] > 0},
    contacts <- [u \in Usernames |-> StatusOf(mRoster[u])],
    told <- [who |-> signalled.item, status |-> StatusOf(signalled.peer)],
    named <- [who |-> reported.sender, status |-> StatusOf(reported.peer)],
    crashed <- outcome = "crashed"
ImplementsContacts == Contacts!Spec

(* gloox's rosterlistener.h:107, of handleRosterPresence: "This function   *)
(* is called on every status change of an item in the roster." The client  *)
(* has a peer to signal for every such call.                               *)
PresenceHasAPeer == outcome = "fine"
=============================================================================
