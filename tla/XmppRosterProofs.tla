-------------------------- MODULE XmppRosterProofs --------------------------
(***************************************************************************)
(* Theorems about XmppRoster, for every finite set of JIDs, every mapping  *)
(* of JIDs to usernames and every choice of presences and resources.       *)
(***************************************************************************)
EXTENDS XmppRoster, FiniteSetTheorems, TLAPS

(* A peer carries the username it is kept under. *)
PeersAreNamed == \A u \in Usernames : mRoster[u] # NoPeer => mRoster[u].username = u

(* The flag of a peer is what setStatus has made of its status.            *)
StatusOK ==
    \A u \in Usernames : mRoster[u] # NoPeer =>
        (mRoster[u].connected <=> mRoster[u].status < Unavailable)

(* No presence is signalled before the roster request is answered: this is *)
(* what keeps handleRoster from publishing the user of an undefined peer.  *)
QuietUntilAnswered == roster = "asked" => outcome = "fine"

(* After an undefined peer, the signal names the user that has no entry. *)
UndefinedIsUnpublished ==
    outcome = "undefined" => signalled.item \in Usernames /\ published[signalled.item] = 0

IInv ==
    /\ TypeOK
    /\ StatusOK
    /\ PublishedArePeers
    /\ PeersAreNamed
    /\ QuietUntilAnswered
    /\ UndefinedIsUnpublished
    /\ MessageNamesItsSender

-----------------------------------------------------------------------------
(* XmppPeer.                                                               *)

(* The cast of presenceToStatus never leaves the range of status_t. *)
LEMMA CastIsAStatus ==
    ASSUME NEW presence \in PresenceType
    PROVE  presenceToStatus(presence) \in Status
BY DEF PresenceType, presenceToStatus, Status, Available, Invalid

(* setStatus keeps the name of a peer and makes the flag agree with the    *)
(* status, whatever the flag was before.                                   *)
LEMMA SetStatusAgrees ==
    ASSUME NEW Names, NEW peer \in Peer(Names), NEW status \in Status
    PROVE  /\ setStatus(peer, status) \in Peer(Names)
           /\ setStatus(peer, status).username = peer.username
           /\ setStatus(peer, status).connected <=> setStatus(peer, status).status < Unavailable
<1> DEFINE on == status < Unavailable
<1>1. on \in BOOLEAN
  BY DEF Status, Available, Invalid, Unavailable
<1>2. setStatus(peer, status) = [peer EXCEPT !.status = status, !.connected = on]
  BY DEF setStatus
<1> HIDE DEF on
<1>3. setStatus(peer, status) \in Peer(Names)
  BY <1>1, <1>2 DEF Peer
<1>4. /\ setStatus(peer, status).username = peer.username
      /\ setStatus(peer, status).status = status
      /\ setStatus(peer, status).connected = on
  BY <1>1, <1>2 DEF Peer
<1>5. QED
  BY <1>1, <1>3, <1>4 DEF on

(* A new peer is not connected, and its status says so too. *)
LEMMA NewPeerAgrees ==
    ASSUME NEW Names, NEW user \in Names
    PROVE  /\ NewPeer(user) \in Peer(Names)
           /\ NewPeer(user).username = user
           /\ NewPeer(user).connected <=> NewPeer(user).status < Unavailable
BY DEF NewPeer, Peer, Status, Available, Invalid, Unavailable

(* What is not NoPeer in mRoster is a peer, and a peer is not NoPeer. *)
LEMMA PeerOrNot ==
    ASSUME TypeOK, NEW u \in Usernames
    PROVE  mRoster[u] # NoPeer <=> mRoster[u] \in Peer(Usernames)
BY NoPeerAssumption DEF TypeOK

(* A username occurs in a roster a natural number of times. *)
LEMMA OccurrencesType ==
    ASSUME NEW items \in SUBSET JIDs, NEW u
    PROVE  Occurrences(items, u) \in Nat
<1>1. IsFiniteSet({j \in items : UserOf[j] = u})
  BY JIDsAssumption, FS_Subset
<1>2. QED
  BY <1>1, FS_CardinalityType DEF Occurrences

-----------------------------------------------------------------------------
(* What the two handlers make of the roster.                               *)

(* handleRoster: exactly the published usernames have a peer, a new one. *)
LEMMA HandleRosterEffect ==
    ASSUME NEW items \in SUBSET JIDs, handleRoster(items)
    PROVE  /\ mRoster' \in [Usernames -> Peer(Usernames) \cup {NoPeer}]
           /\ published' \in [Usernames -> Nat]
           /\ \A u \in Usernames : published'[u] > 0 <=> mRoster'[u] # NoPeer
           /\ \A u \in Usernames : mRoster'[u] # NoPeer => mRoster'[u] = NewPeer(u)
<1>1. \A u \in Usernames : Occurrences(items, u) \in Nat
  BY OccurrencesType
<1>2. \A u \in Usernames : NewPeer(u) \in Peer(Usernames) /\ NewPeer(u) # NoPeer
  BY NewPeerAgrees, NoPeerAssumption
<1>3. \A u \in Usernames :
        /\ published'[u] = Occurrences(items, u)
        /\ mRoster'[u] = IF Occurrences(items, u) > 0 THEN NewPeer(u) ELSE NoPeer
  BY DEF handleRoster
<1>4. published' \in [Usernames -> Nat]
  BY <1>1 DEF handleRoster
<1>5. mRoster' \in [Usernames -> Peer(Usernames) \cup {NoPeer}]
  BY <1>2 DEF handleRoster
<1>6. QED
  BY <1>2, <1>3, <1>4, <1>5

(* handleRosterPresence: at most the one peer changes, by setStatus, and   *)
(* no entry appears or goes.                                               *)
LEMMA HandleRosterPresenceEffect ==
    ASSUME TypeOK, NEW name \in Usernames, NEW presence \in PresenceType,
           handleRosterPresence(name, presence)
    PROVE  LET status == presenceToStatus(presence)
               peer == setStatus(mRoster[name], status)
           IN  /\ status \in Status
               /\ \/ /\ mRoster[name] # NoPeer
                     /\ peer \in Peer(Usernames)
                     /\ mRoster' = [mRoster EXCEPT ![name] = peer]
                     /\ signalled' = [item |-> name, peer |-> peer, status |-> status]
                     /\ outcome' = "fine"
                  \/ /\ mRoster[name] = NoPeer
                     /\ mRoster' = mRoster
                     /\ \/ outcome' = "crashed" /\ signalled' = signalled
                        \/ /\ outcome' = "undefined"
                           /\ signalled' = [item |-> name, peer |-> NoPeer, status |-> status]
<1> DEFINE status == presenceToStatus(presence)
           peer == setStatus(mRoster[name], status)
<1>1. status \in Status
  BY CastIsAStatus
<1>2. CASE mRoster[name] # NoPeer
  <2>1. mRoster[name] \in Peer(Usernames)
    BY <1>2, PeerOrNot
  <2>2. peer \in Peer(Usernames)
    BY <1>1, <2>1, SetStatusAgrees
  <2>3. QED
    BY <1>1, <1>2, <2>2 DEF handleRosterPresence
<1>3. CASE mRoster[name] = NoPeer
  BY <1>1, <1>3 DEF handleRosterPresence
<1>4. QED
  BY <1>2, <1>3

-----------------------------------------------------------------------------
(* The invariant.                                                          *)

(* Nobody has a peer, and nothing was said, before the roster arrives. *)
LEMMA InitInvariant == Init => IInv
<1> SUFFICES ASSUME Init PROVE IInv
  OBVIOUS
<1> USE DEF Init
<1>1. NewPeer("unknown") \in Peer(Usernames \cup {"unknown"})
  BY NewPeerAgrees
<1>2. TypeOK
  BY <1>1 DEF TypeOK, Nothing, Status, Available, Invalid, PresenceType, Unavailable
<1>3. PublishedArePeers
  BY DEF PublishedArePeers
<1>4. QED
  BY <1>2, <1>3 DEF IInv, StatusOK, PeersAreNamed, QuietUntilAnswered,
                    UndefinedIsUnpublished, MessageNamesItsSender

(* The parts of the invariant that only look at what the application is    *)
(* told of survive any step that tells it nothing.                         *)
LEMMA UntoldKeepsInvariant ==
    ASSUME IInv, TypeOK', QuietUntilAnswered',
           UNCHANGED <<mRoster, published, signalled, reported, outcome>>
    PROVE  IInv'
BY DEF IInv, StatusOK, PublishedArePeers, PeersAreNamed,
       UndefinedIsUnpublished, MessageNamesItsSender

(* handleItemAdded, handleItemRemoved and handleRosterError do nothing. *)
LEMMA PushesAndRefusal ==
    ASSUME IInv,
           RosterRefused \/ \E j \in JIDs : PushAdds(j) \/ PushRemoves(j)
    PROVE  IInv'
<1>1. TypeOK /\ QuietUntilAnswered
  BY DEF IInv
<1>2. CASE RosterRefused
  <2>1. TypeOK' /\ QuietUntilAnswered'
    BY <1>1, <1>2 DEF RosterRefused, TypeOK, QuietUntilAnswered, historyVars
  <2>2. QED
    BY <1>2, <2>1, UntoldKeepsInvariant DEF RosterRefused
<1>3. ASSUME NEW j \in JIDs, PushAdds(j)
      PROVE  IInv'
  <2>1. TypeOK' /\ QuietUntilAnswered'
    BY <1>1, <1>3 DEF PushAdds, TypeOK, QuietUntilAnswered, historyVars
  <2>2. QED
    BY <1>3, <2>1, UntoldKeepsInvariant DEF PushAdds
<1>4. ASSUME NEW j \in JIDs, PushRemoves(j)
      PROVE  IInv'
  <2>1. gPresence' \in [JIDs \X Resources -> PresenceType]
    BY <1>1, <1>4 DEF PushRemoves, TypeOK, PresenceType, Unavailable
  <2>2. TypeOK' /\ QuietUntilAnswered'
    BY <1>1, <1>4, <2>1 DEF PushRemoves, TypeOK, QuietUntilAnswered
  <2>3. QED
    BY <1>4, <2>2, UntoldKeepsInvariant DEF PushRemoves
<1>5. QED
  BY <1>2, <1>3, <1>4

(* The roster signal replaces all peers and all published usernames. *)
LEMMA RosterArrivesInvariant ==
    ASSUME IInv, NEW items \in SUBSET JIDs, RosterArrives(items)
    PROVE  IInv'
<1> USE DEF IInv
<1>1. gRoster' \in SUBSET JIDs /\ handleRoster(gRoster')
  BY DEF RosterArrives, TypeOK
<1>2. /\ mRoster' \in [Usernames -> Peer(Usernames) \cup {NoPeer}]
      /\ published' \in [Usernames -> Nat]
      /\ \A u \in Usernames : published'[u] > 0 <=> mRoster'[u] # NoPeer
      /\ \A u \in Usernames : mRoster'[u] # NoPeer => mRoster'[u] = NewPeer(u)
  BY <1>1, HandleRosterEffect
<1>3. TypeOK'
  BY <1>1, <1>2 DEF RosterArrives, TypeOK, historyVars
<1>4. PublishedArePeers'
  BY <1>2 DEF PublishedArePeers
<1>5. PeersAreNamed' /\ StatusOK'
  BY <1>2, NewPeerAgrees DEF PeersAreNamed, StatusOK
<1>6. outcome' = "fine" /\ roster' = "loaded"
  BY DEF RosterArrives, QuietUntilAnswered
<1>7. QuietUntilAnswered' /\ UndefinedIsUnpublished'
  BY <1>6 DEF QuietUntilAnswered, UndefinedIsUnpublished
<1>8. MessageNamesItsSender'
  BY DEF RosterArrives, MessageNamesItsSender
<1>9. QED
  BY <1>3, <1>4, <1>5, <1>7, <1>8

(* A presence changes one peer in place, or finds none. *)
LEMMA PresenceArrivesInvariant ==
    ASSUME IInv, NEW j \in JIDs, NEW r \in Resources, NEW presence \in PresenceTypes,
           PresenceArrives(j, r, presence)
    PROVE  IInv'
<1> DEFINE name == UserOf[j]
           status == presenceToStatus(presence)
           peer == setStatus(mRoster[name], status)
<1>1. /\ TypeOK /\ StatusOK /\ PublishedArePeers /\ PeersAreNamed
      /\ QuietUntilAnswered /\ UndefinedIsUnpublished /\ MessageNamesItsSender
  BY DEF IInv
<1>2. name \in Usernames /\ presence \in PresenceType
  BY UserOfAssumption, PresenceAssumption
<1>3. /\ roster # "asked"
      /\ gPresence' = [gPresence EXCEPT ![<<j, r>>] = presence]
      /\ seen' = seen \cup {<<j, r>>}
      /\ UNCHANGED <<roster, gRoster, published, reported, removed>>
      /\ handleRosterPresence(name, presence)
  BY DEF PresenceArrives
<1>4. /\ status \in Status
      /\ \/ /\ mRoster[name] # NoPeer
            /\ peer \in Peer(Usernames)
            /\ mRoster' = [mRoster EXCEPT ![name] = peer]
            /\ signalled' = [item |-> name, peer |-> peer, status |-> status]
            /\ outcome' = "fine"
         \/ /\ mRoster[name] = NoPeer
            /\ mRoster' = mRoster
            /\ \/ outcome' = "crashed" /\ signalled' = signalled
               \/ /\ outcome' = "undefined"
                  /\ signalled' = [item |-> name, peer |-> NoPeer, status |-> status]
  BY <1>1, <1>2, <1>3, HandleRosterPresenceEffect
<1>5. mRoster[name] # NoPeer =>
        /\ peer.username = name
        /\ peer.connected <=> peer.status < Unavailable
        /\ peer # NoPeer
  <2> SUFFICES ASSUME mRoster[name] # NoPeer
               PROVE  /\ peer.username = name
                      /\ peer.connected <=> peer.status < Unavailable
                      /\ peer # NoPeer
    OBVIOUS
  <2>1. mRoster[name] \in Peer(Usernames) /\ mRoster[name].username = name
    BY <1>1, <1>2, PeerOrNot DEF PeersAreNamed
  <2>2. peer \in Peer(Usernames)
    BY <1>4, <2>1, SetStatusAgrees
  <2>3. QED
    BY <1>4, <2>1, <2>2, SetStatusAgrees, NoPeerAssumption
<1> HIDE DEF name, status, peer
<1>6. /\ mRoster' \in [Usernames -> Peer(Usernames) \cup {NoPeer}]
      /\ signalled' \in [item : Usernames \cup {"none"},
                         peer : Peer(Usernames) \cup {NoPeer}, status : Status]
      /\ outcome' \in {"fine", "undefined", "crashed"}
  BY <1>1, <1>2, <1>4 DEF TypeOK
<1>7. TypeOK'
  <2>1. <<j, r>> \in JIDs \X Resources
    OBVIOUS
  <2>2. gPresence' \in [JIDs \X Resources -> PresenceType] /\ seen' \subseteq JIDs \X Resources
    BY <1>1, <1>2, <1>3, <2>1 DEF TypeOK
  <2>3. QED
    BY <1>1, <1>3, <1>6, <2>2 DEF TypeOK
<1>8. \A u \in Usernames :
        /\ mRoster'[u] = NoPeer <=> mRoster[u] = NoPeer
        /\ mRoster'[u] = mRoster[u] \/ (u = name /\ mRoster[u] # NoPeer /\ mRoster'[u] = peer)
  BY <1>1, <1>2, <1>4, <1>5 DEF TypeOK
<1>9. StatusOK'
  BY <1>1, <1>5, <1>8 DEF StatusOK
<1>10. PublishedArePeers'
  BY <1>1, <1>3, <1>8 DEF PublishedArePeers
<1>11. PeersAreNamed'
  BY <1>1, <1>5, <1>8 DEF PeersAreNamed
<1>12. QuietUntilAnswered' /\ MessageNamesItsSender'
  BY <1>1, <1>3 DEF QuietUntilAnswered, MessageNamesItsSender
<1>13. UndefinedIsUnpublished'
  <2> SUFFICES ASSUME outcome' = "undefined"
               PROVE  signalled'.item \in Usernames /\ published'[signalled'.item] = 0
    BY DEF UndefinedIsUnpublished
  <2>1. mRoster[name] = NoPeer /\ signalled'.item = name
    BY <1>4
  <2>2. published[name] \in Nat /\ ~(published[name] > 0)
    BY <1>1, <1>2, <2>1 DEF TypeOK, PublishedArePeers
  <2>3. QED
    BY <1>2, <1>3, <2>1, <2>2
<1>14. QED
  BY <1>7, <1>9, <1>10, <1>11, <1>12, <1>13 DEF IInv

(* A message is reported with the entry of the sender's name, or none. *)
LEMMA MessageArrivesInvariant ==
    ASSUME IInv, NEW j \in JIDs, MessageArrives(j)
    PROVE  IInv'
<1> DEFINE name == UserOf[j]
           peer == IF mRoster[name] # NoPeer THEN mRoster[name] ELSE NewPeer("unknown")
<1>1. /\ TypeOK /\ StatusOK /\ PublishedArePeers /\ PeersAreNamed
      /\ QuietUntilAnswered /\ UndefinedIsUnpublished
  BY DEF IInv
<1>2. name \in Usernames
  BY UserOfAssumption
<1>3. /\ reported' = [sender |-> name, peer |-> peer]
      /\ UNCHANGED <<glooxVars, mRoster, published, signalled, outcome, historyVars>>
  BY DEF MessageArrives
<1>4. peer \in Peer(Usernames \cup {"unknown"}) /\ peer.username \in {name, "unknown"}
  <2>1. CASE mRoster[name] # NoPeer
    <3>1. mRoster[name] \in Peer(Usernames) /\ mRoster[name].username = name
      BY <1>1, <1>2, <2>1, PeerOrNot DEF PeersAreNamed
    <3>2. QED
      BY <2>1, <3>1 DEF Peer
  <2>2. CASE mRoster[name] = NoPeer
    BY <2>2, NewPeerAgrees
  <2>3. QED
    BY <2>1, <2>2
<1> HIDE DEF name, peer
<1>5. TypeOK'
  BY <1>1, <1>2, <1>3, <1>4 DEF TypeOK, glooxVars, historyVars
<1>6. MessageNamesItsSender'
  BY <1>3, <1>4 DEF MessageNamesItsSender
<1>7. /\ StatusOK' /\ PublishedArePeers' /\ PeersAreNamed'
      /\ QuietUntilAnswered' /\ UndefinedIsUnpublished'
  BY <1>1, <1>3 DEF StatusOK, PublishedArePeers, PeersAreNamed,
                    QuietUntilAnswered, UndefinedIsUnpublished, glooxVars
<1>8. QED
  BY <1>5, <1>6, <1>7 DEF IInv

LEMMA StepInvariant == IInv /\ [Next]_vars => IInv'
<1> SUFFICES ASSUME IInv, [Next]_vars PROVE IInv'
  OBVIOUS
<1>1. ASSUME NEW items \in SUBSET JIDs, RosterArrives(items)
      PROVE  IInv'
  BY <1>1, RosterArrivesInvariant
<1>2. CASE RosterRefused \/ \E j \in JIDs : PushAdds(j) \/ PushRemoves(j)
  BY <1>2, PushesAndRefusal
<1>3. ASSUME NEW j \in JIDs, MessageArrives(j)
      PROVE  IInv'
  BY <1>3, MessageArrivesInvariant
<1>4. ASSUME NEW j \in JIDs, NEW r \in Resources, NEW presence \in PresenceTypes,
             PresenceArrives(j, r, presence)
      PROVE  IInv'
  BY <1>4, PresenceArrivesInvariant
<1>5. CASE UNCHANGED vars
  <2>1. TypeOK' /\ QuietUntilAnswered'
    BY <1>5 DEF IInv, TypeOK, QuietUntilAnswered, vars, glooxVars, historyVars
  <2>2. QED
    BY <1>5, <2>1, UntoldKeepsInvariant DEF vars
<1>6. QED
  BY <1>1, <1>2, <1>3, <1>4, <1>5 DEF Next

(* The invariant holds throughout, for all the constants. *)
LEMMA Invariant == Spec => []IInv
BY InitInvariant, StepInvariant, PTL DEF Spec

-----------------------------------------------------------------------------
(* The theorems.                                                           *)

(* The roster's variables keep their types: no status leaves status_t,     *)
(* whatever presence gloox reports.                                        *)
THEOREM RosterTypeCorrect == Spec => []TypeOK
<1>1. IInv => TypeOK
  BY DEF IInv
<1>2. QED
  BY <1>1, Invariant, PTL

(* The usernames of the roster signal are those that have a peer. *)
THEOREM PublishedHavePeers == Spec => []PublishedArePeers
<1>1. IInv => PublishedArePeers
  BY DEF IInv
<1>2. QED
  BY <1>1, Invariant, PTL

(* Only a contact that was not in the roster signal can reach the          *)
(* dereference of end() in handleRosterPresence.                           *)
THEOREM UndefinedWasUnpublished == Spec => []UndefinedNeedsPush
<1>1. IInv => UndefinedNeedsPush
  BY DEF IInv, UndefinedIsUnpublished, UndefinedNeedsPush
<1>2. QED
  BY <1>1, Invariant, PTL

(* A message is never reported with another user's peer. *)
THEOREM MessageNamesSender == Spec => []MessageNamesItsSender
<1>1. IInv => MessageNamesItsSender
  BY DEF IInv
<1>2. QED
  BY <1>1, Invariant, PTL

-----------------------------------------------------------------------------
(* What gloox knows and what the client knows of the same user.            *)

(* Until the roster request is answered there is nobody to know of: no     *)
(* peer is older than the first presence, and no list than the answer.     *)
EmptyUntilAnswered ==
    roster = "asked" =>
        /\ seen = {}
        /\ \A u \in Usernames : mRoster[u] = NoPeer /\ published[u] = 0

(* gloox has a presence only of resources that it has heard of. *)
KnownWereSeen ==
    \A x \in (JIDs \X Resources) \ seen : gPresence[x] = Unavailable

(* The exceptions of ConnectedIsOnline, the first without counting. *)
TwoPlaces(u) == \E x, y \in seen : x # y /\ UserOf[x[1]] = u /\ UserOf[y[1]] = u
Removed(u) == \E j \in removed : UserOf[j] = u

PeersAreOnline ==
    \A u \in Usernames : mRoster[u] # NoPeer =>
        (mRoster[u].connected <=> Online(u)) \/ TwoPlaces(u) \/ Removed(u)

OnlineInv ==
    IInv /\ EmptyUntilAnswered /\ KnownWereSeen /\ IsFiniteSet(seen) /\ PeersAreOnline

LEMMA InitOnline == Init => OnlineInv
<1> SUFFICES ASSUME Init PROVE OnlineInv
  OBVIOUS
<1>1. IInv
  BY InitInvariant
<1>2. IsFiniteSet(seen)
  BY FS_EmptySet DEF Init
<1>3. QED
  BY <1>1, <1>2 DEF Init, OnlineInv, EmptyUntilAnswered, KnownWereSeen, PeersAreOnline

(* A push takes its presences along; the user is excepted from then on.    *)
LEMMA PushRemovesOnline ==
    ASSUME OnlineInv, NEW j \in JIDs, PushRemoves(j)
    PROVE  KnownWereSeen' /\ PeersAreOnline'
<1>1. TypeOK /\ KnownWereSeen /\ PeersAreOnline
  BY DEF OnlineInv, IInv
<1>2. /\ \A x \in JIDs \X Resources :
            gPresence'[x] = IF x[1] = j THEN Unavailable ELSE gPresence[x]
      /\ removed' = removed \cup {j} /\ seen' = seen /\ mRoster' = mRoster
  BY DEF PushRemoves
<1>3. KnownWereSeen'
  BY <1>1, <1>2 DEF KnownWereSeen
<1>4. ASSUME NEW u \in Usernames, mRoster[u] # NoPeer, ~Removed(u)'
      PROVE  (mRoster[u].connected <=> Online(u)') \/ TwoPlaces(u)'
  <2>1. UserOf[j] # u /\ ~Removed(u)
    BY <1>2, <1>4 DEF Removed
  <2>2. Online(u)' <=> Online(u)
    BY <1>2, <2>1 DEF Online
  <2>3. TwoPlaces(u)' <=> TwoPlaces(u)
    BY <1>2 DEF TwoPlaces
  <2>4. QED
    BY <1>1, <1>4, <2>1, <2>2, <2>3 DEF PeersAreOnline
<1>5. QED
  BY <1>2, <1>3, <1>4 DEF PeersAreOnline

(* Nobody was online before the roster, and no new peer is connected.      *)
LEMMA RosterArrivesOnline ==
    ASSUME OnlineInv, NEW items \in SUBSET JIDs, RosterArrives(items)
    PROVE  KnownWereSeen' /\ PeersAreOnline'
<1>1. TypeOK /\ KnownWereSeen /\ seen = {}
  BY DEF OnlineInv, IInv, EmptyUntilAnswered, RosterArrives
<1>2. gPresence' = gPresence /\ seen' = seen
  BY DEF RosterArrives, historyVars
<1>3. gRoster' \in SUBSET JIDs /\ handleRoster(gRoster')
  BY <1>1 DEF RosterArrives, TypeOK
<1>4. \A u \in Usernames : mRoster'[u] # NoPeer => mRoster'[u] = NewPeer(u)
  BY <1>3, HandleRosterEffect
<1>5. \A u : ~Online(u)'
  BY <1>1, <1>2 DEF KnownWereSeen, Online, Unavailable
<1>6. \A u : NewPeer(u).connected = FALSE
  BY DEF NewPeer
<1>7. QED
  BY <1>1, <1>2, <1>4, <1>5, <1>6 DEF KnownWereSeen, PeersAreOnline

(* The one resource that a user was heard of from decides both the flag    *)
(* and what gloox knows.                                                   *)
LEMMA PresenceArrivesOnline ==
    ASSUME OnlineInv, NEW j \in JIDs, NEW r \in Resources, NEW presence \in PresenceTypes,
           PresenceArrives(j, r, presence)
    PROVE  KnownWereSeen' /\ PeersAreOnline'
<1> DEFINE x == <<j, r>>
           name == UserOf[j]
           status == presenceToStatus(presence)
           peer == setStatus(mRoster[name], status)
<1>0. x \in JIDs \X Resources /\ x[1] = j
  OBVIOUS
<1>1. TypeOK /\ KnownWereSeen /\ PeersAreOnline
  BY DEF OnlineInv, IInv
<1>2. name \in Usernames /\ presence \in PresenceType /\ presence # Error
  BY UserOfAssumption, PresenceAssumption DEF PresenceArrives
<1>3. /\ gPresence' = [gPresence EXCEPT ![x] = presence]
      /\ seen' = seen \cup {x}
      /\ removed' = removed
      /\ handleRosterPresence(name, presence)
  BY DEF PresenceArrives
<1>4. status \in Status /\ (status < Unavailable <=> presence < Unavailable)
  BY <1>2, CastIsAStatus DEF presenceToStatus, PresenceType, Error, Unavailable, Invalid
<1>5. /\ mRoster[name] = NoPeer => mRoster' = mRoster
      /\ mRoster[name] # NoPeer =>
            mRoster' = [mRoster EXCEPT ![name] = peer] /\ peer.connected = (status < Unavailable)
  <2>1. mRoster[name] # NoPeer => mRoster[name] \in Peer(Usernames)
    BY <1>1, <1>2, PeerOrNot
  <2>2. mRoster[name] # NoPeer => peer.connected = (status < Unavailable)
    BY <2>1 DEF setStatus, Peer
  <2>3. QED
    BY <1>3, <2>2 DEF handleRosterPresence
<1> HIDE DEF x, name, status, peer
<1>6. /\ gPresence'[x] = presence
      /\ \A y \in (JIDs \X Resources) \ {x} : gPresence'[y] = gPresence[y]
  BY <1>0, <1>1, <1>3 DEF TypeOK
<1>7. KnownWereSeen'
  BY <1>1, <1>3, <1>6 DEF KnownWereSeen
<1>8. ASSUME NEW u \in Usernames, mRoster'[u] # NoPeer, ~TwoPlaces(u)', ~Removed(u)'
      PROVE  mRoster'[u].connected <=> Online(u)'
  <2>1. ~TwoPlaces(u) /\ ~Removed(u)
    BY <1>3, <1>8 DEF TwoPlaces, Removed
  <2>2. CASE u = name
    <3>1. mRoster[u] # NoPeer
      BY <1>5, <1>8, <2>2
    <3>2. mRoster'[u].connected <=> presence < Unavailable
      BY <1>1, <1>2, <1>4, <1>5, <2>2, <3>1 DEF TypeOK
    <3>3. \A y \in (JIDs \X Resources) \ {x} : UserOf[y[1]] = u => gPresence'[y] = Unavailable
      <4> SUFFICES ASSUME NEW y \in (JIDs \X Resources) \ {x}, UserOf[y[1]] = u
                   PROVE  y \notin seen'
        BY <1>7 DEF KnownWereSeen
      <4>1. x \in seen' /\ UserOf[x[1]] = u /\ x # y
        BY <1>0, <1>3, <2>2 DEF name
      <4>2. QED
        BY <1>8, <4>1 DEF TwoPlaces
    <3>4. Online(u)' <=> presence < Unavailable
      BY <1>0, <1>6, <2>2, <3>3 DEF Online, name, Unavailable
    <3>5. QED
      BY <3>2, <3>4
  <2>3. CASE u # name
    <3>1. mRoster'[u] = mRoster[u]
      BY <1>1, <1>5, <2>3 DEF TypeOK
    <3>2. \A y \in JIDs \X Resources : UserOf[y[1]] = u => gPresence'[y] = gPresence[y]
      BY <1>0, <1>6, <2>3 DEF name
    <3>3. Online(u)' <=> Online(u)
      BY <3>2 DEF Online
    <3>4. QED
      BY <1>1, <1>8, <2>1, <3>1, <3>3 DEF PeersAreOnline
  <2>4. QED
    BY <2>2, <2>3
<1>9. QED
  BY <1>7, <1>8 DEF PeersAreOnline

LEMMA StepOnline == OnlineInv /\ [Next]_vars => OnlineInv'
<1> SUFFICES ASSUME OnlineInv, [Next]_vars PROVE OnlineInv'
  OBVIOUS
<1>0. IInv' /\ IInv /\ TypeOK
  BY StepInvariant DEF OnlineInv, IInv
<1>1. EmptyUntilAnswered'
  BY DEF Next, vars, glooxVars, historyVars, RosterArrives, RosterRefused, PushAdds, PushRemoves,
         MessageArrives, PresenceArrives, OnlineInv, EmptyUntilAnswered
<1>2. ASSUME UNCHANGED <<gPresence, mRoster, removed, seen>> PROVE OnlineInv'
  BY <1>0, <1>1, <1>2
     DEF OnlineInv, KnownWereSeen, PeersAreOnline, Online, TwoPlaces, Removed
<1>3. IsFiniteSet(seen')
  <2>1. ASSUME NEW x, seen' = seen \cup {x} PROVE IsFiniteSet(seen')
    BY <2>1, FS_AddElement DEF OnlineInv
  <2>2. QED
    BY <2>1 DEF Next, vars, glooxVars, historyVars, RosterArrives, RosterRefused, PushAdds,
                PushRemoves, MessageArrives, PresenceArrives, OnlineInv
<1>4. ASSUME NEW items \in SUBSET JIDs, RosterArrives(items) PROVE OnlineInv'
  BY <1>0, <1>1, <1>3, <1>4, RosterArrivesOnline DEF OnlineInv
<1>5. ASSUME NEW j \in JIDs, PushRemoves(j) PROVE OnlineInv'
  BY <1>0, <1>1, <1>3, <1>5, PushRemovesOnline DEF OnlineInv
<1>6. ASSUME NEW j \in JIDs, NEW r \in Resources, NEW presence \in PresenceTypes,
             PresenceArrives(j, r, presence)
      PROVE  OnlineInv'
  BY <1>0, <1>1, <1>3, <1>6, PresenceArrivesOnline DEF OnlineInv
<1>7. QED
  BY <1>2, <1>4, <1>5, <1>6
     DEF Next, vars, glooxVars, historyVars, RosterRefused, PushAdds, MessageArrives

LEMMA SpecOnline == Spec => []OnlineInv
BY InitOnline, StepOnline, PTL DEF Spec

(* isConnected() of a peer is what gloox knows of the user, for every      *)
(* roster and order of presences, but for the two exceptions.              *)
THEOREM ConnectedPeersAreOnline == Spec => []ConnectedIsOnline
<1>1. ASSUME OnlineInv PROVE ConnectedIsOnline
  <2>1. ASSUME NEW u, TwoPlaces(u)
        PROVE  Cardinality({x \in seen : UserOf[x[1]] = u}) > 1
    <3> DEFINE S == {x \in seen : UserOf[x[1]] = u}
    <3>1. IsFiniteSet(S)
      BY <1>1, FS_Subset DEF OnlineInv
    <3>2. PICK x \in S, y \in S : x # y
      BY <2>1 DEF TwoPlaces
    <3>3. IsFiniteSet({x, y}) /\ Cardinality({x, y}) = 2
      <4>1. IsFiniteSet({x}) /\ Cardinality({x}) = 1
        BY FS_Singleton
      <4>2. {x, y} = {x} \cup {y} /\ y \notin {x}
        BY <3>2
      <4>3. Cardinality({x} \cup {y}) = 1 + 1 /\ IsFiniteSet({x} \cup {y})
        BY <4>1, <4>2, FS_AddElement
      <4>4. QED
        BY <4>2, <4>3
    <3>4. Cardinality({x, y}) <= Cardinality(S)
      BY <3>1, <3>2, FS_Subset
    <3>5. Cardinality(S) \in Nat
      BY <3>1, FS_CardinalityType
    <3>6. QED
      BY <3>3, <3>4, <3>5
  <2>2. QED
    BY <1>1, <2>1 DEF OnlineInv, PeersAreOnline, ConnectedIsOnline, Removed
<1>2. QED
  BY <1>1, SpecOnline, PTL

-----------------------------------------------------------------------------
(* XmppRoster implements XmppContacts.                                     *)

(* A contact of the application is a peer, by the name it is kept under:   *)
(* nobody's peer is taken for that of a stranger.                          *)
LEMMA StatusOfPeer ==
    ASSUME IInv, NEW u \in Usernames
    PROVE  /\ mRoster[u] # NoPeer => StatusOf(mRoster[u]) = mRoster[u].status
           /\ mRoster[u] # NoPeer <=> StatusOf(mRoster[u]) # NoPeer
           /\ StatusOf(NoPeer) = NoPeer
           /\ StatusOf(NewPeer("unknown")) = NoPeer
<1>1. mRoster[u] # NoPeer => mRoster[u].status \in Status /\ mRoster[u].username = u
  BY PeerOrNot DEF IInv, PeersAreNamed, Peer
<1>2. u # "unknown" /\ NoPeer \notin Status
  BY UnknownAssumption, NoStatusAssumption
<1>3. NewPeer("unknown").username = "unknown"
  BY DEF NewPeer
<1>4. QED
  BY <1>1, <1>2, <1>3 DEF StatusOf

LEMMA ContactsInit == Init => Contacts!Init
<1> SUFFICES ASSUME Init PROVE Contacts!Init
  OBVIOUS
<1>1. StatusOf(NoPeer) = NoPeer /\ StatusOf(NewPeer("unknown")) = NoPeer
  BY DEF StatusOf, NewPeer
<1>2. \A u \in Usernames : mRoster[u] = NoPeer /\ published[u] = 0
  BY DEF Init
<1>3. [u \in Usernames |-> StatusOf(mRoster[u])] = [u \in Usernames |-> NoPeer]
  BY <1>1, <1>2
<1>4. {u \in Usernames : published[u] > 0} = {}
  BY <1>2
<1>5. QED
  BY <1>1, <1>3, <1>4 DEF Init, Contacts!Init, Nothing

(* The roster signal, and the refusal that nobody is told of. *)
LEMMA AnswerIsLoad ==
    ASSUME OnlineInv,
           RosterRefused \/ \E items \in SUBSET JIDs : RosterArrives(items)
    PROVE  \E users \in SUBSET Usernames : Contacts!Load(users)
<1>1. IInv /\ TypeOK /\ roster = "asked" /\ roster' # "asked"
  BY DEF OnlineInv, IInv, RosterRefused, RosterArrives
<1> DEFINE users == {u \in Usernames : published'[u] > 0}
<1>2. \A u \in Usernames : StatusOf(mRoster'[u]) = IF u \in users THEN Invalid ELSE NoPeer
  <2>1. CASE RosterRefused
    BY <1>1, <2>1 DEF RosterRefused, OnlineInv, EmptyUntilAnswered, StatusOf
  <2>2. ASSUME NEW items \in SUBSET JIDs, RosterArrives(items)
        PROVE  \A u \in Usernames : StatusOf(mRoster'[u]) = IF u \in users THEN Invalid ELSE NoPeer
    <3>1. gRoster' \in SUBSET JIDs /\ handleRoster(gRoster')
      BY <1>1, <2>2 DEF RosterArrives, TypeOK
    <3>2. \A u \in Usernames : (u \in users <=> mRoster'[u] # NoPeer)
                            /\ (mRoster'[u] # NoPeer => mRoster'[u] = NewPeer(u))
      BY <3>1, HandleRosterEffect
    <3>3. \A u \in Usernames : NewPeer(u).status = Invalid /\ NewPeer(u).username = u
      BY DEF NewPeer
    <3>4. "unknown" \notin Usernames
      BY UnknownAssumption
    <3>5. QED
      BY <3>2, <3>3, <3>4 DEF StatusOf
  <2>3. QED
    BY <2>1, <2>2
<1>3. [u \in Usernames |-> StatusOf(mRoster'[u])] = [u \in Usernames |-> IF u \in users THEN Invalid ELSE NoPeer]
  BY <1>2
<1>4. UNCHANGED <<signalled, reported, outcome>>
  BY DEF RosterRefused, RosterArrives
<1>5. Contacts!Load(users)
  BY <1>1, <1>3, <1>4 DEF Contacts!Load
<1>6. users \in SUBSET Usernames
  OBVIOUS
<1> HIDE DEF users
<1>7. QED
  BY <1>5, <1>6 DEF Contacts!Load

(* A presence is that of a contact or of a stranger. *)
LEMMA PresenceIsPresence ==
    ASSUME OnlineInv, outcome # "crashed", NEW j \in JIDs, NEW r \in Resources,
           NEW presence \in PresenceTypes, PresenceArrives(j, r, presence)
    PROVE  \E u \in Usernames : Contacts!Stranger(u) \/ \E s \in Status : Contacts!Presence(u, s)
<1> DEFINE name == UserOf[j]
           status == presenceToStatus(presence)
           peer == setStatus(mRoster[name], status)
<1>1. IInv /\ TypeOK /\ PeersAreNamed
  BY DEF OnlineInv, IInv
<1>2. name \in Usernames /\ presence \in PresenceType
  BY UserOfAssumption, PresenceAssumption
<1>3. /\ roster # "asked" /\ UNCHANGED <<roster, published, reported>>
      /\ handleRosterPresence(name, presence)
  BY DEF PresenceArrives
<1>4. /\ status \in Status
      /\ \/ /\ mRoster[name] # NoPeer
            /\ peer \in Peer(Usernames)
            /\ mRoster' = [mRoster EXCEPT ![name] = peer]
            /\ signalled' = [item |-> name, peer |-> peer, status |-> status]
            /\ outcome' = "fine"
         \/ /\ mRoster[name] = NoPeer
            /\ mRoster' = mRoster
            /\ \/ outcome' = "crashed" /\ signalled' = signalled
               \/ /\ outcome' = "undefined"
                  /\ signalled' = [item |-> name, peer |-> NoPeer, status |-> status]
  BY <1>1, <1>2, <1>3, HandleRosterPresenceEffect
<1>5. mRoster[name] # NoPeer => StatusOf(peer) = status
  <2> SUFFICES ASSUME mRoster[name] # NoPeer PROVE StatusOf(peer) = status
    OBVIOUS
  <2>1. mRoster[name] \in Peer(Usernames) /\ mRoster[name].username = name
    BY <1>1, <1>2, PeerOrNot DEF PeersAreNamed
  <2>2. peer.username = name /\ peer.status = status /\ peer \in Peer(Usernames)
    BY <1>4, <2>1, SetStatusAgrees DEF setStatus, Peer
  <2>3. peer # NoPeer /\ name # "unknown"
    BY <1>2, <2>2, NoPeerAssumption, UnknownAssumption
  <2>4. QED
    BY <2>2, <2>3 DEF StatusOf
<1>6. /\ mRoster[name] # NoPeer <=> StatusOf(mRoster[name]) # NoPeer
      /\ StatusOf(NoPeer) = NoPeer
  BY <1>1, <1>2, StatusOfPeer
<1> HIDE DEF name, status, peer
<1> DEFINE before == [u \in Usernames |-> StatusOf(mRoster[u])]
           after == [u \in Usernames |-> StatusOf(mRoster'[u])]
<1>7. CASE mRoster[name] # NoPeer
  <2>1. after = [before EXCEPT ![name] = status]
    <3>1. \A u \in Usernames : mRoster'[u] = IF u = name THEN peer ELSE mRoster[u]
      BY <1>1, <1>2, <1>4, <1>7 DEF TypeOK
    <3>2. \A u \in Usernames : StatusOf(mRoster'[u]) = IF u = name THEN status ELSE StatusOf(mRoster[u])
      BY <1>5, <1>7, <3>1
    <3>3. QED
      BY <3>2
  <2>2. before[name] # NoPeer
    BY <1>2, <1>6, <1>7
  <2>3. signalled'.item = name /\ StatusOf(signalled'.peer) = status /\ outcome' # "crashed"
    BY <1>4, <1>5, <1>7
  <2>4. Contacts!Presence(name, status)
    BY <1>3, <2>1, <2>2, <2>3 DEF Contacts!Presence, Contacts!IsContact
  <2>5. QED
    BY <1>2, <1>4, <2>4
<1>8. CASE mRoster[name] = NoPeer
  <2>1. mRoster' = mRoster /\ before[name] = NoPeer
    BY <1>2, <1>4, <1>6, <1>8
  <2>2. \/ outcome' = "crashed" /\ signalled' = signalled
        \/ outcome' # "crashed" /\ signalled'.item = name /\ StatusOf(signalled'.peer) = NoPeer
    BY <1>4, <1>6, <1>8
  <2>3. Contacts!Stranger(name)
    BY <1>3, <2>1, <2>2 DEF Contacts!Stranger, Contacts!IsContact
  <2>4. QED
    BY <1>2, <2>3
<1>9. QED
  BY <1>7, <1>8

(* A message comes with the status of its sender's peer, or with none.     *)
LEMMA MessageIsMessage ==
    ASSUME OnlineInv, NEW j \in JIDs, MessageArrives(j)
    PROVE  Contacts!Message(UserOf[j])
<1>1. UserOf[j] \in Usernames /\ IInv
  BY UserOfAssumption DEF OnlineInv
<1>2. StatusOf(NewPeer("unknown")) = NoPeer /\ StatusOf(NoPeer) = NoPeer
  BY <1>1, StatusOfPeer
<1>3. /\ reported'.sender = UserOf[j]
      /\ StatusOf(reported'.peer) = StatusOf(mRoster[UserOf[j]])
  BY <1>2 DEF MessageArrives
<1>4. UNCHANGED <<roster, mRoster, published, signalled, outcome>>
  BY DEF MessageArrives, glooxVars
<1>5. QED
  BY <1>1, <1>3, <1>4 DEF Contacts!Message

LEMMA ContactsStep ==
    ASSUME OnlineInv, [Next]_vars PROVE [Contacts!Next]_(Contacts!vars)
<1>1. ASSUME UNCHANGED <<roster, mRoster, published, signalled, reported, outcome>>
      PROVE  UNCHANGED Contacts!vars
  BY <1>1 DEF Contacts!vars
<1>2. CASE UNCHANGED vars
  BY <1>1, <1>2 DEF vars, glooxVars
<1>3. ASSUME NEW j \in JIDs, PushAdds(j) \/ PushRemoves(j)
      PROVE  [Contacts!Next]_(Contacts!vars)
  BY <1>1, <1>3 DEF PushAdds, PushRemoves
<1>4. ASSUME outcome # "crashed",
             RosterRefused \/ \E items \in SUBSET JIDs : RosterArrives(items)
      PROVE  Contacts!Next
  BY <1>4, AnswerIsLoad DEF Contacts!Next
<1>5. ASSUME outcome # "crashed", NEW j \in JIDs, NEW r \in Resources,
             NEW presence \in PresenceTypes, PresenceArrives(j, r, presence)
      PROVE  Contacts!Next
  BY <1>5, PresenceIsPresence DEF Contacts!Next
<1>6. ASSUME outcome # "crashed", NEW j \in JIDs, MessageArrives(j) PROVE Contacts!Next
  BY <1>6, MessageIsMessage, UserOfAssumption DEF Contacts!Next
<1>7. QED
  BY <1>2, <1>3, <1>4, <1>5, <1>6 DEF Next

(* Every behaviour of the roster is one that XmppContacts allows: whoever  *)
(* is in the roster signal has the status last signalled, and presences    *)
(* and messages of anybody else say nothing about a contact.               *)
THEOREM FollowsContacts == Spec => ImplementsContacts
BY ContactsInit, ContactsStep, SpecOnline, PTL DEF Spec, ImplementsContacts, Contacts!Spec
=============================================================================
