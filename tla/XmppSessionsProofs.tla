------------------------- MODULE XmppSessionsProofs -------------------------
(***************************************************************************)
(* Proofs about XmppSessions, for every number of clients and of sessions  *)
(* and for all senders and resources: what becomes of the message sessions *)
(* while the callbacks of several clients replace mSession line by line.   *)
(***************************************************************************)
EXTENDS XmppSessions, TLAPS

(* What the places and the numbers imply of each other: a callback has a   *)
(* session that gloox has opened, in the list of a client that setup has   *)
(* made, and what was not opened yet was not released.                     *)
NumbersOK ==
    /\ mSession <= opened
    /\ \A c \in Busy : c <= mClient
    /\ \A c \in Clients :
          /\ pending[c].at = "idle" => pending[c] = Idle
          /\ pending[c].at # "idle" => pending[c].session \in 1 .. opened
          /\ pending[c].at = "free" => pending[c].victim \in 1 .. opened
    /\ \A i \in Ids :
          /\ i > opened => frees[i] = 0
          /\ i <= opened => owner[i] \in 1 .. mClient

(* A session that no thread has stored in mSession yet is alive, and no    *)
(* thread is about to dispose of it or to store it but its own.            *)
Early == {"dispose", "free", "assign"}
Unassigned(c) == pending[c].at \in Early

UnassignedOK ==
    \A c \in Clients : Unassigned(c) =>
        /\ frees[pending[c].session] = 0
        /\ pending[c].session # mSession
        /\ \A d \in Clients :
              /\ pending[d].at = "free" => pending[d].victim # pending[c].session
              /\ Unassigned(d) /\ pending[d].session = pending[c].session => c = d

(* Where one thread stands that no other has come between: it disposes of  *)
(* what mSession points to, and hooks what it has stored there.            *)
StandsAlone(c) ==
    LET p == pending[c]
    IN  /\ p.at = "free" => p.victim = mSession /\ frees[p.victim] = 0
        /\ p.at \in {"register", "events", "states"} => p.session = mSession
        /\ p.at \in {"register", "events", "states", "deliver"} => frees[p.session] = 0
        /\ p.at \in {"events", "states", "deliver"} => "message" \in hooks[p.session]
        /\ p.at \in {"states", "deliver"} => "event" \in hooks[p.session]
        /\ p.at = "deliver" => "state" \in hooks[p.session]

AloneOK ==
    overlapped \/
        /\ \A c, d \in Busy : c = d
        /\ \A c \in Clients : StandsAlone(c)
        /\ \A i \in Ids : frees[i] <= 1
        /\ ~lost /\ ~misuse

(* With the first client alone a session that is alive is in mSession, or  *)
(* on its way there while the one before it is disposed of.                *)
FirstClientOK ==
    mClient <= 1 =>
        /\ ~overlapped
        /\ \A i \in Live :
              \/ i = mSession /\ \A c \in Clients : pending[c].at # "assign"
              \/ \E c \in Clients : Unassigned(c) /\ pending[c].session = i

SessionInv ==
    /\ VariablesOK /\ NumbersOK /\ UnassignedOK /\ AloneOK /\ FirstClientOK
    /\ SessionNotDangling /\ LiveSessionsHooked /\ HookedNotNull

-----------------------------------------------------------------------------
(* The thread of a client goes on to its next place, takes up a message or *)
(* is through with one; the other threads stay where they are.             *)
OthersStay(c) == \A d \in Clients \ {c} : pending'[d] = pending[d]

LEMMA GoesEffect ==
    ASSUME VariablesOK, NEW c \in Clients, NEW from, NEW to \in Places, Goes(c, from, to)
    PROVE  /\ pending' \in [Clients -> Pending] /\ OthersStay(c)
           /\ pending[c].at = from /\ pending'[c].at = to
           /\ pending'[c].session = pending[c].session
           /\ pending'[c].victim = pending[c].victim
           /\ pending'[c].empty = pending[c].empty
BY DEF VariablesOK, Goes, Pending, OthersStay

LEMMA StartsEffect ==
    ASSUME VariablesOK, NEW c \in Clients, NEW at \in Places, NEW i \in 1 .. MaxSessions,
           NEW empty \in BOOLEAN, Starts(c, at, i, empty)
    PROVE  /\ pending' \in [Clients -> Pending] /\ OthersStay(c)
           /\ pending[c].at = "idle"
           /\ pending'[c].at = at /\ pending'[c].session = i /\ pending'[c].victim = 0
           /\ overlapped' <=> overlapped \/ Busy # {}
<1>1. [at |-> at, session |-> i, victim |-> 0, empty |-> empty] \in Pending
  BY SessionBoundsAssumption DEF Pending
<1>2. pending' = [pending EXCEPT ![c] = [at |-> at, session |-> i, victim |-> 0, empty |-> empty]]
      /\ c \notin Busy
  BY DEF Starts
<1>3. pending[c].at = "idle"
  BY <1>2 DEF Busy
<1>4. overlapped' <=> overlapped \/ Busy # {}
  BY DEF Starts
<1>5. pending \in [Clients -> Pending]
  BY DEF VariablesOK
<1>6. QED
  BY <1>1, <1>2, <1>3, <1>4, <1>5 DEF OthersStay

LEMMA DisposeEffect ==
    ASSUME VariablesOK, NEW c \in Clients, DisposeOld(c)
    PROVE  /\ pending' \in [Clients -> Pending] /\ OthersStay(c)
           /\ pending[c].at = "dispose"
           /\ pending'[c].session = pending[c].session
           /\ \/ mSession \in Sessions(mClient) /\ pending'[c].at = "free" /\ pending'[c].victim = mSession
              \/ mSession \notin Sessions(mClient) /\ pending'[c].at = "assign"
BY DEF VariablesOK, DisposeOld, Pending, OthersStay, Places

LEMMA DeliverEffect ==
    ASSUME VariablesOK, NEW c \in Clients, Deliver(c)
    PROVE  /\ pending' \in [Clients -> Pending] /\ OthersStay(c)
           /\ pending[c].at = "deliver" /\ pending'[c] = Idle
BY SessionBoundsAssumption DEF VariablesOK, Deliver, Pending, OthersStay, Places, Idle

(* The session that a message fits is open, and one of its own peer.       *)
LEMMA FittingIsOpen ==
    ASSUME VariablesOK, NEW c, NEW m \in Targets, NEW i \in Fitting(c, m)
    PROVE  /\ i \in Ids /\ i \in Live /\ i \in 1 .. opened
           /\ target[i].sender = m.sender /\ target[i].type = m.type
BY SessionBoundsAssumption DEF VariablesOK, Fitting, SameFull, SameBare, Sessions, Live, Ids

(* The lines of handleMessageSession that hook the listener to a session.  *)
HookSteps(c) ==
    \/ Hook(c, "register", "message", "events") \/ Hook(c, "events", "event", "states")
    \/ Hook(c, "states", "state", "deliver")

LEMMA HookEffect ==
    ASSUME VariablesOK, NEW c \in Clients, NEW from, NEW hook \in Hooks, NEW to \in Places,
           Hook(c, from, hook, to)
    PROVE  /\ pending' \in [Clients -> Pending] /\ OthersStay(c)
           /\ pending[c].at = from /\ pending'[c].at = to
           /\ pending'[c].session = pending[c].session /\ pending'[c].victim = pending[c].victim
           /\ hooks' \in [Ids -> SUBSET Hooks]
           /\ \A i \in Ids : hooks'[i] = IF i = mSession THEN hooks[i] \cup {hook} ELSE hooks[i]
           /\ misuse' <=> misuse \/ mSession \notin Live
<1>1. Goes(c, from, to) /\ hooks' = [hooks EXCEPT ![mSession] = @ \cup {hook}]
      /\ (misuse' <=> misuse \/ mSession \notin Live)
  BY DEF Hook, Uses
<1>2. hooks' \in [Ids -> SUBSET Hooks]
      /\ \A i \in Ids : hooks'[i] = IF i = mSession THEN hooks[i] \cup {hook} ELSE hooks[i]
  BY <1>1 DEF VariablesOK
<1>3. QED
  BY <1>1, <1>2, GoesEffect

(* What each step of a thread does to the rest of the state, by session.   *)
LEMMA KnownEffect ==
    ASSUME VariablesOK, NEW c \in Clients, NEW m \in Targets, NEW empty \in BOOLEAN,
           KnownPeerWrites(c, m, empty)
    PROVE  /\ OthersStay(c) /\ pending[c].at = "idle" /\ pending'[c].at = "deliver"
           /\ pending'[c].session \in 1 .. opened /\ pending'[c].session \in Live
           /\ overlapped' <=> overlapped \/ Busy # {}
           /\ UNCHANGED <<mClient, mSession, opened, owner, frees, hooks, lost, misuse, destroyed>>
<1>1. PICK i \in Fitting(c, m) : Starts(c, "deliver", i, empty)
  BY DEF KnownPeerWrites
<1>2. i \in 1 .. MaxSessions /\ i \in 1 .. opened /\ i \in Live
  BY FittingIsOpen DEF Ids
<1>3. QED
  BY <1>1, <1>2, StartsEffect DEF KnownPeerWrites, Places

LEMMA NewEffect ==
    ASSUME VariablesOK, NEW c \in Clients, NEW m \in Targets, NEW empty \in BOOLEAN,
           NewPeerWrites(c, m, empty)
    PROVE  /\ OthersStay(c) /\ pending[c].at = "idle" /\ pending'[c].at = "dispose"
           /\ opened' = opened + 1 /\ opened' \in Ids /\ pending'[c].session = opened'
           /\ overlapped' <=> overlapped \/ Busy # {}
           /\ \A i \in Ids : owner'[i] = IF i = opened' THEN c ELSE owner[i]
           /\ UNCHANGED <<mClient, mSession, frees, hooks, lost, misuse, destroyed>>
<1>1. opened' = opened + 1 /\ opened' \in 1 .. MaxSessions
  BY SessionBoundsAssumption DEF NewPeerWrites, VariablesOK
<1>2. \A i \in Ids : owner'[i] = IF i = opened' THEN c ELSE owner[i]
  BY DEF NewPeerWrites, VariablesOK
<1>3. QED
  BY <1>1, <1>2, StartsEffect DEF NewPeerWrites, Places, Ids

LEMMA FreeEffect ==
    ASSUME VariablesOK, NEW c \in Clients, FreeOld(c)
    PROVE  /\ OthersStay(c) /\ pending[c].at = "free" /\ pending'[c].at = "assign"
           /\ pending'[c].session = pending[c].session
           /\ \A i \in Ids : frees'[i] = IF i = pending[c].victim THEN frees[i] + 1 ELSE frees[i]
           /\ UNCHANGED <<mClient, mSession, opened, owner, hooks, historyVars, destroyed>>
BY GoesEffect DEF FreeOld, Places, VariablesOK

LEMMA AssignEffect ==
    ASSUME VariablesOK, NEW c \in Clients, Assign(c)
    PROVE  /\ OthersStay(c) /\ pending[c].at = "assign" /\ pending'[c].at = "register"
           /\ pending'[c].session = pending[c].session /\ mSession' = pending[c].session
           /\ UNCHANGED <<mClient, sessionVars, historyVars, destroyed>>
BY GoesEffect DEF Assign, Places

LEMMA LiveIs ==
    ASSUME VariablesOK
    PROVE  \A i : i \in Live <=> i \in Ids /\ i <= opened /\ frees[i] = 0
BY SessionBoundsAssumption DEF VariablesOK, Live, Ids

-----------------------------------------------------------------------------
(* The steps by what they are about. *)
ClientStep(c) ==
    \/ \E m \in Targets, empty \in BOOLEAN : KnownPeerWrites(c, m, empty) \/ NewPeerWrites(c, m, empty)
    \/ DisposeOld(c) \/ FreeOld(c) \/ Assign(c) \/ HookSteps(c) \/ Deliver(c)

LEMMA Steps ==
    ASSUME VariablesOK, Next
    PROVE  ~destroyed /\ (Setup \/ Destroy \/ \E c \in Clients : c <= mClient /\ ClientStep(c))
<1>1. \A c \in 1 .. mClient : c \in Clients /\ c <= mClient
  BY SessionBoundsAssumption DEF VariablesOK, Clients
<1>2. QED
  BY <1>1 DEF Next, handleMessageSession, ClientStep, HookSteps, RegisterHandler,
              RegisterEventFilter, RegisterStateFilter

LEMMA TypeStep ==
    ASSUME VariablesOK, NumbersOK, Next PROVE VariablesOK'
<1> USE DEF VariablesOK, sessionVars, historyVars
<1>1. CASE Setup
  BY <1>1, SessionBoundsAssumption DEF Setup
<1>2. CASE Destroy
  BY <1>2 DEF Destroy
<1>3. ASSUME NEW c \in Clients, c <= mClient, NEW m \in Targets, NEW empty \in BOOLEAN,
             KnownPeerWrites(c, m, empty)
      PROVE  VariablesOK'
  <2>1. PICK i \in Fitting(c, m) :
            target' = [target EXCEPT ![i].resource = m.resource] /\ Starts(c, "deliver", i, empty)
    BY <1>3 DEF KnownPeerWrites
  <2>2. i \in Ids /\ target[i].sender = m.sender /\ target[i].type = m.type
    BY FittingIsOpen
  <2>3. target' \in [Ids -> Targets \cup {NoTarget}]
    BY <2>1, <2>2 DEF Targets, NoTarget
  <2>4. pending' \in [Clients -> Pending]
    BY <2>1, <2>2, StartsEffect DEF Places, Ids
  <2>5. overlapped' \in BOOLEAN
    BY <2>1 DEF Starts
  <2>6. QED
    BY <1>3, <2>3, <2>4, <2>5 DEF KnownPeerWrites
<1>4. ASSUME NEW c \in Clients, c <= mClient, NEW m \in Targets, NEW empty \in BOOLEAN,
             NewPeerWrites(c, m, empty)
      PROVE  VariablesOK'
  <2>1. opened' \in Ids /\ opened' \in 0 .. MaxSessions
    BY <1>4, SessionBoundsAssumption DEF NewPeerWrites, Ids
  <2>2. pending' \in [Clients -> Pending]
    BY <1>4, <2>1, StartsEffect DEF NewPeerWrites, Places, Ids
  <2>3. c \in 0 .. MaxSetups
    BY SessionBoundsAssumption DEF Clients
  <2>4. target' \in [Ids -> Targets \cup {NoTarget}] /\ owner' \in [Ids -> 0 .. MaxSetups]
    BY <1>4, <2>1, <2>3 DEF NewPeerWrites
  <2>5. overlapped' \in BOOLEAN
    BY <1>4 DEF NewPeerWrites, Starts
  <2>6. QED
    BY <1>4, <2>1, <2>2, <2>4, <2>5 DEF NewPeerWrites
<1>5. ASSUME NEW c \in Clients, DisposeOld(c) PROVE VariablesOK'
  BY <1>5, DisposeEffect DEF DisposeOld
<1>6. ASSUME NEW c \in Clients, FreeOld(c) PROVE VariablesOK'
  <2>1. pending' \in [Clients -> Pending]
    BY <1>6, GoesEffect DEF FreeOld, Places
  <2>2. frees' \in [Ids -> Nat]
    <3>1. frees \in [Ids -> Nat] /\ \A i \in Ids : frees[i] + 1 \in Nat
      BY DEF VariablesOK
    <3>2. frees' = [i \in Ids |-> IF i = pending[c].victim THEN frees[i] + 1 ELSE frees[i]]
      BY <1>6, <3>1 DEF FreeOld
    <3>3. QED
      BY <3>1, <3>2
  <2>3. QED
    BY <1>6, <2>1, <2>2 DEF FreeOld
<1>7. ASSUME NEW c \in Clients, Assign(c) PROVE VariablesOK'
  <2>1. pending' \in [Clients -> Pending]
    BY <1>7, GoesEffect DEF Assign, Places
  <2>2. pending[c].session \in 0 .. MaxSessions
    BY DEF Pending
  <2>3. QED
    BY <1>7, <2>1, <2>2 DEF Assign
<1>8. ASSUME NEW c \in Clients, HookSteps(c) PROVE VariablesOK'
  <2>1. \A from, hook, to : Hook(c, from, hook, to) =>
            UNCHANGED <<mClient, mSession, opened, target, owner, frees, lost, overlapped, destroyed>>
            /\ misuse' \in BOOLEAN
    BY DEF Hook, Uses
  <2>2. pending' \in [Clients -> Pending] /\ hooks' \in [Ids -> SUBSET Hooks]
    BY <1>8, HookEffect DEF HookSteps, Places, Hooks
  <2>3. QED
    BY <1>8, <2>1, <2>2 DEF HookSteps
<1>9. ASSUME NEW c \in Clients, Deliver(c) PROVE VariablesOK'
  <2>1. pending' \in [Clients -> Pending]
    BY <1>9, DeliverEffect
  <2>2. lost' \in BOOLEAN /\ misuse' \in BOOLEAN
    BY <1>9 DEF Deliver, Uses
  <2>3. QED
    BY <1>9, <2>1, <2>2 DEF Deliver
<1>10. QED
  BY <1>1, <1>2, <1>3, <1>4, <1>5, <1>6, <1>7, <1>8, <1>9, Steps DEF ClientStep

LEMMA NumbersStep ==
    ASSUME VariablesOK, NumbersOK, Next PROVE NumbersOK'
<1> USE DEF NumbersOK, Busy, OthersStay
<1>0. /\ mClient \in Nat /\ opened \in Nat /\ mSession \in Nat /\ Ids \subseteq Nat /\ Clients \subseteq Nat \ {0}
      /\ \A i \in Ids : owner[i] \in Nat
  BY SessionBoundsAssumption DEF VariablesOK, Ids, Clients
<1>1. CASE Setup
  <2>1. mClient' = mClient + 1 /\ UNCHANGED <<mSession, opened, owner, frees, pending>>
    BY <1>1 DEF Setup, sessionVars
  <2>2. /\ mSession' <= opened'
        /\ \A c \in Clients : pending'[c] = pending[c]
        /\ \A i \in Ids : i > opened' => frees'[i] = 0
    BY <2>1
  <2>3. \A c \in Clients : pending'[c].at # "idle" => c <= mClient'
    BY <1>0, <2>1
  <2>4. \A n \in 1 .. mClient : n \in 1 .. mClient'
    BY <1>0, <2>1
  <2>5. \A i \in Ids : i <= opened' => owner'[i] \in 1 .. mClient'
    BY <2>1, <2>4
  <2>6. \A c \in Clients :
              /\ pending'[c].at = "idle" => pending'[c] = Idle
              /\ pending'[c].at # "idle" => pending'[c].session \in 1 .. opened'
              /\ pending'[c].at = "free" => pending'[c].victim \in 1 .. opened'
    BY <2>1
  <2>7. QED
    BY <2>2, <2>3, <2>5, <2>6
<1>2. CASE Destroy
  <2>1. \A i \in Ids : i > opened => frees'[i] = 0
    <3>1. \A i \in Ids : i \in Sessions(mClient) => i <= opened
      BY DEF Sessions
    <3>2. \A i \in Ids : frees'[i] = IF i \in Sessions(mClient) THEN frees[i] + 1 ELSE frees[i]
      BY <1>2 DEF Destroy
    <3>3. \A i \in Ids : i > opened => ~(i <= opened)
      BY <1>0
    <3>4. QED
      BY <3>1, <3>2, <3>3
  <2>2. QED
    BY <1>2, <2>1 DEF Destroy
<1>3. ASSUME NEW c \in Clients, c <= mClient, NEW m \in Targets, NEW empty \in BOOLEAN,
             KnownPeerWrites(c, m, empty)
      PROVE  NumbersOK'
  BY <1>0, <1>3, KnownEffect
<1>4. ASSUME NEW c \in Clients, c <= mClient, NEW m \in Targets, NEW empty \in BOOLEAN,
             NewPeerWrites(c, m, empty)
      PROVE  NumbersOK'
  <2>1. /\ \A d \in Clients \ {c} : pending'[d] = pending[d]
        /\ pending'[c].at = "dispose" /\ opened' = opened + 1 /\ pending'[c].session = opened'
        /\ \A i \in Ids : owner'[i] = IF i = opened' THEN c ELSE owner[i]
        /\ UNCHANGED <<mClient, mSession, frees>>
    BY <1>4, NewEffect
  <2>2. \A i \in Ids :
              /\ i > opened' => frees'[i] = 0
              /\ i <= opened' => owner'[i] \in 1 .. mClient'
    <3>1. c \in 1 .. mClient' /\ mClient' = mClient /\ frees' = frees
      BY <1>0, <1>4, <2>1
    <3>2. \A i \in Ids : (i > opened' => i > opened) /\ (i <= opened' => i <= opened \/ i = opened')
      BY <1>0, <2>1
    <3>3. \A i \in Ids : i <= opened' => owner'[i] \in 1 .. mClient'
      BY <2>1, <3>1, <3>2
    <3>4. QED
      BY <3>1, <3>2, <3>3
  <2>3. \A d \in Clients :
              /\ pending'[d].at = "idle" => pending'[d] = Idle
              /\ pending'[d].at # "idle" => pending'[d].session \in 1 .. opened'
              /\ pending'[d].at = "free" => pending'[d].victim \in 1 .. opened'
    <3>1. \A n \in 1 .. opened : n \in 1 .. opened'
      BY <1>0, <2>1
    <3>2. opened' \in 1 .. opened'
      BY <1>0, <2>1
    <3>3. QED
      BY <2>1, <3>1, <3>2
  <2>4. mSession' <= opened'
    BY <1>0, <2>1
  <2>5. \A d \in Busy' : d <= mClient'
    BY <1>4, <2>1
  <2>6. QED
    BY <2>2, <2>3, <2>4, <2>5
<1>5. ASSUME NEW c \in Clients, DisposeOld(c) PROVE NumbersOK'
  <2>1. mSession \in Sessions(mClient) => mSession \in 1 .. opened
    BY DEF Sessions
  <2>2. QED
    BY <1>0, <1>5, <2>1, DisposeEffect DEF DisposeOld, sessionVars
<1>6. ASSUME NEW c \in Clients, FreeOld(c) PROVE NumbersOK'
  <2>1. \A i \in Ids : i > opened => frees'[i] = 0
    <3>1. pending[c].victim \in 1 .. opened
      BY <1>6, FreeEffect
    <3>2. \A i \in Ids : i > opened => i # pending[c].victim
      BY <1>0, <3>1
    <3>3. \A i \in Ids : frees'[i] = IF i = pending[c].victim THEN frees[i] + 1 ELSE frees[i]
      BY <1>6, FreeEffect
    <3>4. QED
      BY <3>2, <3>3
  <2>2. QED
    BY <1>0, <1>6, <2>1, FreeEffect
<1>7. ASSUME NEW c \in Clients, Assign(c) PROVE NumbersOK'
  BY <1>0, <1>7, AssignEffect DEF sessionVars
<1>8. ASSUME NEW c \in Clients, HookSteps(c) PROVE NumbersOK'
  <2>1. UNCHANGED <<mClient, mSession, opened, owner, frees>>
    BY <1>8 DEF HookSteps, Hook
  <2>2. /\ \A d \in Clients \ {c} : pending'[d] = pending[d]
        /\ pending[c].at # "idle" /\ pending'[c].at \in {"events", "states", "deliver"}
        /\ pending'[c].session = pending[c].session
    BY <1>8, HookEffect DEF HookSteps, Places, Hooks
  <2>3. QED
    BY <1>0, <2>1, <2>2
<1>9. ASSUME NEW c \in Clients, Deliver(c) PROVE NumbersOK'
  <2>1. UNCHANGED <<mClient, mSession, opened, owner, frees>>
    BY <1>9 DEF Deliver, sessionVars
  <2>2. QED
    BY <1>0, <1>9, <2>1, DeliverEffect DEF Idle
<1>10. QED
  BY <1>1, <1>2, <1>3, <1>4, <1>5, <1>6, <1>7, <1>8, <1>9, Steps DEF ClientStep

(* Only the thread that opened a session has it before it is stored, and   *)
(* a thread disposes only of what was stored.                              *)
LEMMA UnassignedStep ==
    ASSUME VariablesOK, NumbersOK, UnassignedOK, Next PROVE UnassignedOK'
<1> USE DEF UnassignedOK, Unassigned, Early, OthersStay
<1>0. /\ opened \in Nat /\ mSession \in Nat /\ Ids \subseteq Nat
      /\ \A c \in Clients :
               /\ pending[c].at # "idle" => pending[c].session \in Ids /\ pending[c].session <= opened
               /\ pending[c].at = "free" => pending[c].victim \in Ids /\ pending[c].victim <= opened
  <2>1. /\ opened \in Nat /\ mSession \in Nat /\ Ids \subseteq Nat
        /\ \A n \in 1 .. opened : n \in Ids /\ n <= opened
    BY SessionBoundsAssumption DEF VariablesOK, Ids
  <2>2. QED
    BY <2>1 DEF NumbersOK
<1>1. CASE Setup
  BY <1>1 DEF Setup, sessionVars
<1>2. CASE Destroy
  BY <1>2 DEF Destroy, Busy
<1>3. ASSUME NEW c \in Clients, c <= mClient, NEW m \in Targets, NEW empty \in BOOLEAN,
             KnownPeerWrites(c, m, empty)
      PROVE  UnassignedOK'
  BY <1>0, <1>3, KnownEffect
<1>4. ASSUME NEW c \in Clients, c <= mClient, NEW m \in Targets, NEW empty \in BOOLEAN,
             NewPeerWrites(c, m, empty)
      PROVE  UnassignedOK'
  <2>1. /\ \A d \in Clients \ {c} : pending'[d] = pending[d]
        /\ pending'[c].at = "dispose" /\ opened' = opened + 1 /\ opened' \in Ids
        /\ pending'[c].session = opened' /\ UNCHANGED <<mSession, frees>>
    BY <1>4, NewEffect
  <2>2. frees'[opened'] = 0 /\ opened' # mSession'
    BY <1>0, <2>1 DEF NumbersOK
  <2>3. \A d \in Clients \ {c} :
              /\ pending'[d].at = "free" => pending'[d].victim # opened'
              /\ pending'[d].at # "idle" => pending'[d].session # opened'
    BY <1>0, <2>1
  <2>4. ASSUME NEW d \in Clients \ {c}, Unassigned(d)'
        PROVE  /\ frees'[pending'[d].session] = 0 /\ pending'[d].session # mSession'
               /\ \A e \in Clients :
                     /\ pending'[e].at = "free" => pending'[e].victim # pending'[d].session
                     /\ Unassigned(e)' /\ pending'[e].session = pending'[d].session => d = e
    BY <2>1, <2>3, <2>4
  <2>5. \A e \in Clients :
            /\ pending'[e].at = "free" => pending'[e].victim # pending'[c].session
            /\ Unassigned(e)' /\ pending'[e].session = pending'[c].session => c = e
    BY <2>1, <2>3
  <2>6. QED
    BY <2>1, <2>2, <2>4, <2>5
<1>5. ASSUME NEW c \in Clients, DisposeOld(c) PROVE UnassignedOK'
  <2>1. UNCHANGED <<mSession, frees>>
    BY <1>5 DEF DisposeOld, sessionVars
  <2>2. QED
    BY <1>5, <2>1, DisposeEffect
<1>6. ASSUME NEW c \in Clients, FreeOld(c) PROVE UnassignedOK'
  <2>1. \A d \in Clients : Unassigned(d) => frees'[pending[d].session] = 0
    BY <1>0, <1>6, FreeEffect
  <2>2. QED
    BY <1>6, <2>1, FreeEffect
<1>7. ASSUME NEW c \in Clients, Assign(c) PROVE UnassignedOK'
  BY <1>7, AssignEffect DEF sessionVars
<1>8. ASSUME NEW c \in Clients, HookSteps(c) PROVE UnassignedOK'
  <2>1. UNCHANGED <<mSession, frees>>
    BY <1>8 DEF HookSteps, Hook
  <2>2. /\ \A d \in Clients \ {c} : pending'[d] = pending[d]
        /\ pending'[c].at \in {"events", "states", "deliver"}
    BY <1>8, HookEffect DEF HookSteps, Places, Hooks
  <2>3. QED
    BY <2>1, <2>2
<1>9. ASSUME NEW c \in Clients, Deliver(c) PROVE UnassignedOK'
  <2>1. UNCHANGED <<mSession, frees>>
    BY <1>9 DEF Deliver, sessionVars
  <2>2. QED
    BY <1>9, <2>1, DeliverEffect DEF Idle
<1>10. QED
  BY <1>1, <1>2, <1>3, <1>4, <1>5, <1>6, <1>7, <1>8, <1>9, Steps DEF ClientStep

-----------------------------------------------------------------------------
(* What the thread of client c does, for the next four lemmas: the numbers *)
(* are what they are meant to be.                                          *)
LEMMA Ranges ==
    ASSUME VariablesOK
    PROVE  /\ mClient \in Nat /\ opened \in Nat /\ mSession \in Nat
           /\ Ids \subseteq Nat \ {0} /\ Clients \subseteq Nat \ {0}
           /\ \A n \in 1 .. opened : n \in Ids /\ n <= opened
BY SessionBoundsAssumption DEF VariablesOK, Ids, Clients

(* Where nobody overlaps, a thread in a callback is the only one there.    *)
LEMMA OthersIdle ==
    ASSUME AloneOK, ~overlapped, NEW c \in Clients, pending[c].at # "idle"
    PROVE  \A d \in Clients \ {c} : pending[d].at = "idle"
BY DEF AloneOK, Busy

LEMMA StaysAlone ==
    ASSUME NEW c \in Clients, \A d \in Clients \ {c} : pending'[d].at = "idle",
           StandsAlone(c)', \A i \in Ids : frees'[i] <= 1, ~lost', ~misuse'
    PROVE  AloneOK'
<1>1. \A d \in Clients : StandsAlone(d)'
  BY DEF StandsAlone
<1>2. \A d, e \in Busy' : d = e
  BY DEF Busy
<1>3. QED
  BY <1>1, <1>2 DEF AloneOK

LEMMA AloneStep ==
    ASSUME VariablesOK, NumbersOK, UnassignedOK, LiveSessionsHooked, AloneOK, Next PROVE AloneOK'
<1> SUFFICES ASSUME ~overlapped' PROVE AloneOK'
  BY DEF AloneOK
<1>0. /\ VariablesOK /\ Ids \subseteq Nat \ {0} /\ Clients \subseteq Nat \ {0}
      /\ \A n \in 1 .. opened : n \in Ids /\ n <= opened
  BY Ranges
<1>1. CASE Setup
  BY <1>1 DEF Setup, sessionVars, historyVars, AloneOK, StandsAlone, Busy
<1>2. CASE Destroy
  <2>1. ~overlapped /\ Busy = {} /\ UNCHANGED <<pending, lost, misuse>>
    BY <1>2 DEF Destroy, historyVars
  <2>2. \A d \in Clients : pending'[d].at = "idle"
    BY <2>1 DEF Busy
  <2>3. \A i \in Ids : frees'[i] = IF i \in Sessions(mClient) THEN frees[i] + 1 ELSE frees[i]
    BY <1>2 DEF Destroy
  <2>4. \A i \in Ids : i \in Sessions(mClient) => frees[i] = 0
    BY DEF Sessions
  <2>5. \A i \in Ids : frees'[i] <= 1
    BY <2>1, <2>3, <2>4 DEF AloneOK
  <2>6. QED
    BY <2>1, <2>2, <2>5 DEF AloneOK, StandsAlone, Busy
<1>3. ASSUME NEW c \in Clients, NEW m \in Targets, NEW empty \in BOOLEAN,
             KnownPeerWrites(c, m, empty)
      PROVE  AloneOK'
  <2> DEFINE i == pending'[c].session
  <2>1. /\ OthersStay(c) /\ pending'[c].at = "deliver" /\ i \in 1 .. opened /\ i \in Live
        /\ ~overlapped /\ Busy = {} /\ UNCHANGED <<frees, hooks, lost, misuse>>
    BY <1>3, KnownEffect
  <2>2. \A d \in Clients : pending[d].at = "idle" /\ pending[d].session = 0
    BY <2>1 DEF Busy, NumbersOK, Idle
  <2>3. hooks[i] = Hooks /\ frees[i] = 0
    BY <1>0, <2>1, <2>2 DEF LiveSessionsHooked, Live
  <2>4. StandsAlone(c)'
    BY <2>1, <2>3 DEF StandsAlone, Hooks
  <2>5. QED
    BY <2>1, <2>2, <2>4, StaysAlone DEF AloneOK, OthersStay
<1>4. ASSUME NEW c \in Clients, NEW m \in Targets, NEW empty \in BOOLEAN,
             NewPeerWrites(c, m, empty)
      PROVE  AloneOK'
  <2>1. /\ OthersStay(c) /\ pending'[c].at = "dispose"
        /\ ~overlapped /\ Busy = {} /\ UNCHANGED <<frees, lost, misuse>>
    BY <1>4, NewEffect
  <2>2. \A d \in Clients \ {c} : pending'[d].at = "idle"
    BY <2>1 DEF Busy, OthersStay
  <2>3. StandsAlone(c)'
    BY <2>1 DEF StandsAlone
  <2>4. QED
    BY <2>1, <2>2, <2>3, StaysAlone DEF AloneOK
<1>5. ASSUME NEW c \in Clients, DisposeOld(c) PROVE AloneOK'
  <2>1. UNCHANGED <<mSession, frees, lost, misuse, overlapped>>
    BY <1>5 DEF DisposeOld, sessionVars, historyVars
  <2>2. \A d \in Clients \ {c} : pending'[d].at = "idle"
    BY <1>5, <2>1, DisposeEffect, OthersIdle DEF OthersStay
  <2>3. mSession \in Sessions(mClient) => frees[mSession] = 0
    BY DEF Sessions
  <2>4. StandsAlone(c)'
    BY <1>5, <2>1, <2>3, DisposeEffect DEF StandsAlone
  <2>5. QED
    BY <2>1, <2>2, <2>4, StaysAlone DEF AloneOK
<1>6. ASSUME NEW c \in Clients, FreeOld(c) PROVE AloneOK'
  <2>1. /\ OthersStay(c) /\ pending[c].at = "free" /\ pending'[c].at = "assign"
        /\ \A i \in Ids : frees'[i] = IF i = pending[c].victim THEN frees[i] + 1 ELSE frees[i]
        /\ UNCHANGED historyVars
    BY <1>6, FreeEffect
  <2>2. ~overlapped /\ UNCHANGED <<lost, misuse>>
    BY <2>1 DEF historyVars
  <2>3. \A d \in Clients \ {c} : pending'[d].at = "idle"
    BY <2>1, <2>2, OthersIdle DEF OthersStay
  <2>4. frees[pending[c].victim] = 0
    BY <2>1, <2>2 DEF AloneOK, StandsAlone
  <2>5. \A i \in Ids : frees'[i] <= 1
    BY <2>1, <2>2, <2>4 DEF AloneOK
  <2>6. StandsAlone(c)'
    BY <2>1 DEF StandsAlone
  <2>7. QED
    BY <2>2, <2>3, <2>5, <2>6, StaysAlone DEF AloneOK
<1>7. ASSUME NEW c \in Clients, Assign(c) PROVE AloneOK'
  <2>1. /\ OthersStay(c) /\ pending[c].at = "assign" /\ pending'[c].at = "register"
        /\ pending'[c].session = pending[c].session /\ mSession' = pending[c].session
        /\ UNCHANGED <<frees, lost, misuse, overlapped>>
    BY <1>7, AssignEffect DEF sessionVars, historyVars
  <2>2. \A d \in Clients \ {c} : pending'[d].at = "idle"
    BY <2>1, OthersIdle DEF OthersStay
  <2>3. frees[pending[c].session] = 0
    BY <2>1 DEF UnassignedOK, Unassigned, Early
  <2>4. StandsAlone(c)'
    BY <2>1, <2>3 DEF StandsAlone
  <2>5. QED
    BY <2>1, <2>2, <2>4, StaysAlone DEF AloneOK
<1>8. ASSUME NEW c \in Clients, HookSteps(c) PROVE AloneOK'
  <2>1. UNCHANGED <<mSession, frees, lost, overlapped>>
    BY <1>8 DEF HookSteps, Hook
  <2>2. /\ OthersStay(c) /\ pending'[c].session = pending[c].session
        /\ misuse' <=> misuse \/ mSession \notin Live
        /\ \/ /\ pending[c].at = "register" /\ pending'[c].at = "events"
              /\ \A i \in Ids : hooks'[i] = IF i = mSession THEN hooks[i] \cup {"message"} ELSE hooks[i]
           \/ /\ pending[c].at = "events" /\ pending'[c].at = "states"
              /\ \A i \in Ids : hooks'[i] = IF i = mSession THEN hooks[i] \cup {"event"} ELSE hooks[i]
           \/ /\ pending[c].at = "states" /\ pending'[c].at = "deliver"
              /\ \A i \in Ids : hooks'[i] = IF i = mSession THEN hooks[i] \cup {"state"} ELSE hooks[i]
    BY <1>8, HookEffect DEF HookSteps, Places, Hooks
  <2>3. \A d \in Clients \ {c} : pending'[d].at = "idle"
    BY <2>1, <2>2, OthersIdle DEF OthersStay
  <2>4. pending[c].session \in 1 .. opened /\ pending[c].session \in Ids
    BY <1>0, <2>2 DEF NumbersOK
  <2>5. StandsAlone(c) /\ mSession = pending[c].session /\ frees[mSession] = 0
    BY <2>1, <2>2 DEF AloneOK, StandsAlone
  <2>6. ~misuse'
    BY <2>1, <2>2, <2>4, <2>5 DEF AloneOK, Live
  <2>7. StandsAlone(c)'
    BY <2>1, <2>2, <2>4, <2>5 DEF StandsAlone
  <2>8. QED
    BY <2>1, <2>3, <2>6, <2>7, StaysAlone DEF AloneOK
<1>9. ASSUME NEW c \in Clients, Deliver(c) PROVE AloneOK'
  <2> DEFINE i == pending[c].session
  <2>1. /\ UNCHANGED <<frees, overlapped>>
        /\ lost' <=> lost \/ (~pending[c].empty /\ "message" \notin hooks[i])
        /\ misuse' <=> misuse \/ i \notin Live
    BY <1>9 DEF Deliver, sessionVars, Uses
  <2>2. OthersStay(c) /\ pending[c].at = "deliver" /\ pending'[c].at = "idle"
    BY <1>9, DeliverEffect DEF Idle
  <2>3. \A d \in Clients \ {c} : pending'[d].at = "idle"
    BY <2>1, <2>2, OthersIdle DEF OthersStay
  <2>4. i \in 1 .. opened /\ frees[i] = 0 /\ "message" \in hooks[i]
    BY <2>1, <2>2 DEF AloneOK, StandsAlone, NumbersOK
  <2>5. ~lost' /\ ~misuse'
    BY <2>1, <2>4 DEF AloneOK, Live
  <2>6. StandsAlone(c)'
    BY <2>2 DEF StandsAlone
  <2>7. QED
    BY <2>1, <2>3, <2>5, <2>6, StaysAlone DEF AloneOK
<1>10. QED
  BY <1>1, <1>2, <1>3, <1>4, <1>5, <1>6, <1>7, <1>8, <1>9, Steps DEF ClientStep

-----------------------------------------------------------------------------
(* A session that mSession points to dies only by the hands of a thread    *)
(* that stores another one next: this needs no thread to be alone.         *)
LEMMA DanglingStep ==
    ASSUME VariablesOK, NumbersOK, UnassignedOK, SessionNotDangling, Next PROVE SessionNotDangling'
<1> USE DEF SessionNotDangling, OthersStay
<1>0. \A i : i \in Live <=> i \in Ids /\ i <= opened /\ frees[i] = 0
  BY LiveIs
<1>1. CASE Setup \/ Destroy
  BY <1>1 DEF Setup, Destroy, sessionVars, Live
<1>2. ASSUME NEW c \in Clients, pending[c].at # "assign", OthersStay(c),
             mSession' = mSession, destroyed' = destroyed, Live \subseteq Live'
      PROVE  SessionNotDangling'
  BY <1>2
<1>3. ASSUME NEW c \in Clients, NEW m \in Targets, NEW empty \in BOOLEAN,
             KnownPeerWrites(c, m, empty)
      PROVE  SessionNotDangling'
  BY <1>2, <1>3, KnownEffect DEF Live
<1>4. ASSUME NEW c \in Clients, NEW m \in Targets, NEW empty \in BOOLEAN,
             NewPeerWrites(c, m, empty)
      PROVE  SessionNotDangling'
  <2>1. 1 .. opened \subseteq 1 .. opened'
    BY <1>4, NewEffect, Ranges
  <2>2. Live \subseteq Live'
    BY <1>4, <2>1, NewEffect DEF Live
  <2>3. QED
    BY <1>2, <1>4, <2>2, NewEffect
<1>5. ASSUME NEW c \in Clients, DisposeOld(c) PROVE SessionNotDangling'
  BY <1>2, <1>5, DisposeEffect DEF DisposeOld, sessionVars, Live
<1>6. ASSUME NEW c \in Clients, FreeOld(c) PROVE SessionNotDangling'
  BY <1>6, FreeEffect
<1>7. ASSUME NEW c \in Clients, Assign(c) PROVE SessionNotDangling'
  <2>1. pending[c].session \in Live
    BY <1>7, AssignEffect DEF UnassignedOK, Unassigned, Early, NumbersOK, Live
  <2>2. QED
    BY <1>7, <2>1, AssignEffect DEF sessionVars, Live
<1>8. ASSUME NEW c \in Clients, HookSteps(c) PROVE SessionNotDangling'
  <2>1. UNCHANGED <<mSession, opened, frees, destroyed>>
    BY <1>8 DEF HookSteps, Hook
  <2>2. OthersStay(c) /\ pending[c].at # "assign"
    BY <1>8, HookEffect DEF HookSteps, Places, Hooks
  <2>3. QED
    BY <1>2, <2>1, <2>2 DEF Live
<1>9. ASSUME NEW c \in Clients, Deliver(c) PROVE SessionNotDangling'
  BY <1>2, <1>9, DeliverEffect DEF Deliver, sessionVars, Live
<1>10. QED
  BY <1>1, <1>3, <1>4, <1>5, <1>6, <1>7, <1>8, <1>9, Steps DEF ClientStep

(* A thread at the lines that hook has stored a session, and nobody stores *)
(* null over it.                                                           *)
LEMMA NotNullStep ==
    ASSUME VariablesOK, NumbersOK, HookedNotNull, Next PROVE HookedNotNull'
<1> USE DEF HookedNotNull, OthersStay
<1>1. CASE Setup \/ Destroy
  BY <1>1 DEF Setup, Destroy
<1>2. ASSUME NEW c \in Clients, NEW m \in Targets, NEW empty \in BOOLEAN,
             KnownPeerWrites(c, m, empty) \/ NewPeerWrites(c, m, empty)
      PROVE  HookedNotNull'
  BY <1>2, KnownEffect, NewEffect
<1>3. ASSUME NEW c \in Clients, DisposeOld(c) PROVE HookedNotNull'
  BY <1>3, DisposeEffect DEF DisposeOld
<1>4. ASSUME NEW c \in Clients, FreeOld(c) PROVE HookedNotNull'
  BY <1>4, FreeEffect
<1>5. ASSUME NEW c \in Clients, Assign(c) PROVE HookedNotNull'
  <2>1. mSession' \in 1 .. opened
    BY <1>5, AssignEffect DEF NumbersOK
  <2>2. QED
    BY <2>1
<1>6. ASSUME NEW c \in Clients, HookSteps(c) PROVE HookedNotNull'
  <2>1. /\ OthersStay(c) /\ pending[c].at \in {"register", "events", "states"}
        /\ mSession' = mSession
    BY <1>6, HookEffect DEF HookSteps, Hook, Places, Hooks
  <2>2. QED
    BY <2>1
<1>7. ASSUME NEW c \in Clients, Deliver(c) PROVE HookedNotNull'
  BY <1>7, DeliverEffect DEF Deliver, Idle
<1>8. QED
  BY <1>1, <1>2, <1>3, <1>4, <1>5, <1>6, <1>7, Steps DEF ClientStep

(* A session is left by its callback only with all its hooks.              *)
LEMMA HookedStep ==
    ASSUME VariablesOK, NumbersOK, AloneOK, LiveSessionsHooked, Next PROVE LiveSessionsHooked'
<1> SUFFICES ASSUME ~overlapped', NEW i \in Live'
             PROVE  hooks'[i] = Hooks \/ \E c \in Clients : pending'[c].session = i
  BY DEF LiveSessionsHooked
<1>0. \A j : j \in Live <=> j \in Ids /\ j <= opened /\ frees[j] = 0
  BY LiveIs
<1>1. CASE Setup \/ Destroy
  <2>1. i \in 1 .. opened /\ frees'[i] = 0 /\ ~overlapped
        /\ UNCHANGED <<hooks, pending>>
    BY <1>1 DEF Setup, Destroy, sessionVars, historyVars, Live
  <2>2. frees[i] = 0
    <3>1. i \in Ids /\ frees[i] \in Nat
      BY <2>1, Ranges DEF VariablesOK
    <3>2. QED
      BY <1>1, <2>1, <3>1 DEF Setup, Destroy, sessionVars
  <2>3. QED
    BY <2>1, <2>2 DEF LiveSessionsHooked, Live
<1>2. ASSUME NEW c \in Clients, i \in Live, ~overlapped, OthersStay(c),
             hooks[i] = Hooks => hooks'[i] = Hooks,
             pending[c].session = i => hooks'[i] = Hooks \/ pending'[c].session = i
      PROVE  hooks'[i] = Hooks \/ \E d \in Clients : pending'[d].session = i
  BY <1>2 DEF LiveSessionsHooked, OthersStay
<1>3. ASSUME NEW c \in Clients, pending[c].at = "idle" PROVE pending[c].session # i
  <2>1. i \in Nat \ {0}
    BY DEF Live
  <2>2. QED
    BY <1>3, <2>1 DEF NumbersOK, Idle
<1>4. ASSUME NEW c \in Clients, NEW m \in Targets, NEW empty \in BOOLEAN,
             KnownPeerWrites(c, m, empty)
      PROVE  hooks'[i] = Hooks \/ \E d \in Clients : pending'[d].session = i
  BY <1>2, <1>3, <1>4, KnownEffect DEF Live
<1>5. ASSUME NEW c \in Clients, NEW m \in Targets, NEW empty \in BOOLEAN,
             NewPeerWrites(c, m, empty)
      PROVE  hooks'[i] = Hooks \/ \E d \in Clients : pending'[d].session = i
  <2>1. i = opened' \/ i \in Live
    BY <1>5, NewEffect, Ranges DEF Live
  <2>2. QED
    BY <1>2, <1>3, <1>5, <2>1, NewEffect
<1>6. ASSUME NEW c \in Clients, DisposeOld(c)
      PROVE  hooks'[i] = Hooks \/ \E d \in Clients : pending'[d].session = i
  BY <1>2, <1>6, DisposeEffect DEF DisposeOld, sessionVars, historyVars, Live
<1>7. ASSUME NEW c \in Clients, FreeOld(c)
      PROVE  hooks'[i] = Hooks \/ \E d \in Clients : pending'[d].session = i
  <2>1. i \in 1 .. opened /\ frees'[i] = 0 /\ i \in Ids
    BY <1>7, FreeEffect, Ranges DEF Live
  <2>2. frees[i] \in Nat /\ (frees'[i] = frees[i] \/ frees'[i] = frees[i] + 1)
    BY <1>7, <2>1, FreeEffect DEF VariablesOK
  <2>3. i \in Live
    BY <2>1, <2>2 DEF Live
  <2>4. QED
    BY <1>2, <1>7, <2>3, FreeEffect DEF historyVars
<1>8. ASSUME NEW c \in Clients, Assign(c)
      PROVE  hooks'[i] = Hooks \/ \E d \in Clients : pending'[d].session = i
  BY <1>2, <1>8, AssignEffect DEF sessionVars, historyVars, Live
<1>9. ASSUME NEW c \in Clients, HookSteps(c)
      PROVE  hooks'[i] = Hooks \/ \E d \in Clients : pending'[d].session = i
  <2>1. UNCHANGED <<opened, frees, overlapped>>
    BY <1>9 DEF HookSteps, Hook
  <2>2. /\ OthersStay(c) /\ pending'[c].session = pending[c].session
        /\ \E hook \in Hooks : \A j \in Ids :
              hooks'[j] = IF j = mSession THEN hooks[j] \cup {hook} ELSE hooks[j]
    BY <1>9, HookEffect DEF HookSteps, Places, Hooks
  <2>3. i \in Live
    BY <2>1 DEF Live
  <2>4. hooks[i] = Hooks => hooks'[i] = Hooks
    BY <1>0, <2>2, <2>3
  <2>5. QED
    BY <1>2, <2>1, <2>2, <2>3, <2>4
<1>10. ASSUME NEW c \in Clients, Deliver(c)
       PROVE  hooks'[i] = Hooks \/ \E d \in Clients : pending'[d].session = i
  <2>1. UNCHANGED <<opened, frees, hooks, overlapped>>
    BY <1>10 DEF Deliver, sessionVars
  <2>2. OthersStay(c) /\ pending[c].at = "deliver"
    BY <1>10, DeliverEffect
  <2>3. i \in Live /\ i \in Ids /\ hooks[i] \subseteq Hooks
    BY <1>0, <2>1 DEF Live, VariablesOK
  <2>4. pending[c].session = i => hooks[i] = Hooks
    BY <2>1, <2>2, <2>3 DEF AloneOK, StandsAlone, Hooks
  <2>5. QED
    BY <1>2, <2>1, <2>2, <2>3, <2>4
<1>11. QED
  BY <1>1, <1>4, <1>5, <1>6, <1>7, <1>8, <1>9, <1>10, Steps DEF ClientStep

(* As long as there is one client its thread is the only one, and disposes *)
(* of the session before it stores the next.                               *)
LEMMA FirstClientStep ==
    ASSUME VariablesOK, NumbersOK, UnassignedOK, AloneOK, FirstClientOK, Next PROVE FirstClientOK'
<1> SUFFICES ASSUME mClient' <= 1
             PROVE  /\ ~overlapped'
                    /\ \A i \in Live' :
                          \/ i = mSession' /\ \A d \in Clients : pending'[d].at # "assign"
                          \/ \E d \in Clients : Unassigned(d)' /\ pending'[d].session = i
  BY DEF FirstClientOK
<1> DEFINE Placed(i) ==
        \/ i = mSession /\ \A d \in Clients : pending[d].at # "assign"
        \/ \E d \in Clients : Unassigned(d) /\ pending[d].session = i
<1> DEFINE Goal == ~overlapped' /\ \A i \in Live' : Placed(i)'
<1>r. /\ mClient \in Nat /\ opened \in Nat /\ mSession \in Nat
      /\ Ids \subseteq Nat \ {0} /\ Clients \subseteq Nat \ {0}
      /\ \A n \in 1 .. opened : n \in Ids /\ n <= opened
  BY Ranges
<1>l. \A i : i \in Live <=> i \in Ids /\ i <= opened /\ frees[i] = 0
  BY LiveIs
<1>m. mClient <= 1
  <2>1. mClient' = mClient + 1 \/ mClient' = mClient
    <3>1. \A c : ClientStep(c) => mClient' = mClient
      BY DEF ClientStep, KnownPeerWrites, NewPeerWrites, DisposeOld, FreeOld, Assign, HookSteps,
             Hook, Deliver
    <3>2. Setup \/ Destroy => mClient' = mClient + 1 \/ mClient' = mClient
      BY DEF Setup, Destroy
    <3>3. QED
      BY <3>1, <3>2, Steps
  <2>2. QED
    BY <2>1, <1>r
<1>p. ~overlapped /\ \A i \in Live : Placed(i)
  BY <1>m DEF FirstClientOK
<1>b. ASSUME NEW c \in Clients, c <= mClient
      PROVE  c = 1 /\ mClient = 1 /\ \A d \in Clients \ {c} : pending[d].at = "idle"
  <2>1. \A d \in Clients : d <= mClient => d = 1 /\ mClient = 1
    BY <1>m, <1>r
  <2>2. \A d \in Clients : pending[d].at # "idle" => d <= mClient
    BY DEF NumbersOK, Busy
  <2>3. QED
    BY <1>b, <2>1, <2>2
<1>1. CASE Setup
  <2>1. mClient = 0
    BY <1>1, <1>r DEF Setup
  <2>2. Live = {}
    <3>1. \A i \in Ids : i <= opened => owner[i] \in 1 .. mClient
      BY DEF NumbersOK
    <3>2. 1 .. mClient = {}
      BY <2>1
    <3>3. \A i : i \notin Live
      BY <3>1, <3>2, <1>l
    <3>4. QED
      BY <3>3
  <2>3. QED
    BY <1>1, <1>p, <2>2 DEF Setup, sessionVars, historyVars, Live
<1>2. CASE Destroy
  <2>1. \A i \in Live' : i \in Live
    <3>1. \A i \in Ids : frees[i] \in Nat /\ (frees'[i] = frees[i] \/ frees'[i] = frees[i] + 1)
      BY <1>2 DEF Destroy, VariablesOK
    <3>2. \A i \in Ids : frees'[i] = 0 => frees[i] = 0
      BY <3>1
    <3>3. UNCHANGED opened
      BY <1>2 DEF Destroy
    <3>4. QED
      BY <3>2, <3>3, <1>l, <1>r DEF Live
  <2>2. UNCHANGED <<mSession, pending, overlapped>>
    BY <1>2 DEF Destroy, historyVars
  <2>3. QED
    BY <1>p, <2>1, <2>2 DEF Unassigned
<1>3. ASSUME NEW c \in Clients, c <= mClient, OthersStay(c), pending[c].at \notin Early,
             pending'[c].at # "assign",
             UNCHANGED <<mSession, opened, frees, overlapped>>
      PROVE  Goal
  BY <1>3, <1>p DEF Live, OthersStay, Unassigned
<1>4. ASSUME NEW c \in Clients, c <= mClient, NEW m \in Targets, NEW empty \in BOOLEAN,
             KnownPeerWrites(c, m, empty)
      PROVE  Goal
  <2>1. /\ OthersStay(c) /\ pending[c].at = "idle" /\ pending'[c].at = "deliver"
        /\ overlapped' <=> overlapped \/ Busy # {}
        /\ UNCHANGED <<mSession, opened, frees>>
    BY <1>4, KnownEffect
  <2>2. Busy = {}
    BY <2>1, <1>4, <1>b DEF Busy
  <2>3. \A i \in Live : i = mSession /\ \A d \in Clients : pending[d].at # "assign"
    BY <2>2, <1>p DEF Busy, Unassigned, Early
  <2>4. QED
    BY <1>p, <2>1, <2>2, <2>3 DEF Live, OthersStay
<1>5. ASSUME NEW c \in Clients, c <= mClient, NEW m \in Targets, NEW empty \in BOOLEAN,
             NewPeerWrites(c, m, empty)
      PROVE  Goal
  <2>1. /\ OthersStay(c) /\ pending[c].at = "idle" /\ pending'[c].at = "dispose"
        /\ opened' = opened + 1 /\ pending'[c].session = opened'
        /\ overlapped' <=> overlapped \/ Busy # {}
        /\ UNCHANGED <<mSession, frees>>
    BY <1>5, NewEffect
  <2>2. Busy = {}
    BY <2>1, <1>5, <1>b DEF Busy
  <2>3. \A d \in Clients : pending'[d].at # "assign"
    BY <2>1, <2>2 DEF Busy, OthersStay
  <2>4. \A i \in Live : i = mSession
    BY <2>2, <1>p DEF Busy, Unassigned, Early
  <2>5. \A i \in Live' : i = opened' \/ i \in Live
    BY <2>1, <1>r DEF Live
  <2>6. Unassigned(c)'
    BY <2>1 DEF Unassigned, Early
  <2>7. QED
    BY <1>p, <2>1, <2>2, <2>3, <2>4, <2>5, <2>6
<1>6. ASSUME NEW c \in Clients, c <= mClient, DisposeOld(c) PROVE Goal
  <2>1. /\ OthersStay(c) /\ pending[c].at = "dispose"
        /\ pending'[c].session = pending[c].session
        /\ \/ pending'[c].at = "free"
           \/ mSession \notin Sessions(mClient) /\ pending'[c].at = "assign"
    BY <1>6, DisposeEffect
  <2>2. UNCHANGED <<mSession, opened, frees, overlapped>>
    BY <1>6 DEF DisposeOld, sessionVars, historyVars
  <2>3. Live' = Live /\ Live \subseteq Sessions(mClient)
    BY <2>2, <1>6, <1>b, <1>l, <1>r DEF Live, Sessions, NumbersOK
  <2>4. Unassigned(c) /\ Unassigned(c)'
    BY <2>1 DEF Unassigned, Early
  <2>5. \A d \in Clients \ {c} : ~Unassigned(d) /\ pending'[d].at = "idle"
    BY <2>1, <1>6, <1>b DEF Unassigned, Early, OthersStay
  <2>6. QED
    BY <1>p, <2>1, <2>2, <2>3, <2>4, <2>5
<1>7. ASSUME NEW c \in Clients, c <= mClient, FreeOld(c) PROVE Goal
  <2>1. /\ OthersStay(c) /\ pending[c].at = "free" /\ pending'[c].at = "assign"
        /\ pending'[c].session = pending[c].session
        /\ \A i \in Ids : frees'[i] = IF i = pending[c].victim THEN frees[i] + 1 ELSE frees[i]
        /\ UNCHANGED <<mSession, opened, overlapped>>
    BY <1>7, FreeEffect DEF historyVars
  <2>2. pending[c].victim = mSession
    BY <2>1, <1>p DEF AloneOK, StandsAlone
  <2>3. \A i \in Live' : i \in Live /\ i # mSession
    <3>1. \A i \in Ids : frees[i] \in Nat
      BY DEF VariablesOK
    <3>2. \A i \in Ids : frees'[i] = 0 => frees[i] = 0 /\ i # mSession
      BY <2>1, <2>2, <3>1
    <3>3. QED
      BY <2>1, <3>2, <1>r DEF Live
  <2>4. Unassigned(c) /\ Unassigned(c)'
    BY <2>1 DEF Unassigned, Early
  <2>5. \A d \in Clients \ {c} : ~Unassigned(d)
    BY <1>7, <1>b DEF Unassigned, Early
  <2>6. QED
    BY <1>p, <2>1, <2>3, <2>4, <2>5
<1>8. ASSUME NEW c \in Clients, c <= mClient, Assign(c) PROVE Goal
  <2>1. /\ OthersStay(c) /\ pending[c].at = "assign" /\ pending'[c].at = "register"
        /\ mSession' = pending[c].session
        /\ UNCHANGED <<opened, frees, overlapped>>
    BY <1>8, AssignEffect DEF sessionVars, historyVars
  <2>2. \A d \in Clients \ {c} : ~Unassigned(d) /\ pending'[d].at = "idle"
    BY <2>1, <1>8, <1>b DEF Unassigned, Early, OthersStay
  <2>3. \A i \in Live' : i = mSession'
    BY <1>p, <2>1, <2>2 DEF Live
  <2>4. \A d \in Clients : pending'[d].at # "assign"
    BY <2>1, <2>2
  <2>5. QED
    BY <1>p, <2>1, <2>3, <2>4
<1>9. ASSUME NEW c \in Clients, c <= mClient, HookSteps(c) PROVE Goal
  <2>1. UNCHANGED <<mSession, opened, frees, overlapped>>
    BY <1>9 DEF HookSteps, Hook
  <2>2. /\ OthersStay(c) /\ pending[c].at \in {"register", "events", "states"}
        /\ pending'[c].at \in {"events", "states", "deliver"}
    BY <1>9, HookEffect DEF HookSteps, Places, Hooks
  <2>3. QED
    BY <1>3, <1>9, <2>1, <2>2 DEF Early
<1>10. ASSUME NEW c \in Clients, c <= mClient, Deliver(c) PROVE Goal
  <2>1. UNCHANGED <<mSession, opened, frees, overlapped>>
    BY <1>10 DEF Deliver, sessionVars
  <2>2. QED
    BY <1>3, <1>10, <2>1, DeliverEffect DEF Early, Idle
<1>11. Goal
  BY <1>1, <1>2, <1>4, <1>5, <1>6, <1>7, <1>8, <1>9, <1>10, Steps DEF ClientStep
<1>12. QED
  BY <1>11

-----------------------------------------------------------------------------
(* The invariant holds of what setup finds, is kept by every step, and so  *)
(* holds of every state.                                                   *)
LEMMA SessionInvInit == Init => SessionInv
<1> SUFFICES ASSUME Init PROVE SessionInv
  OBVIOUS
<1> USE SessionBoundsAssumption
<1>1. Live = {} /\ Busy = {} /\ \A c \in Clients : pending[c] = Idle
  BY DEF Init, Live, Busy, Idle
<1>2. VariablesOK
  <2>1. Idle \in Pending
    BY DEF Idle, Pending, Places
  <2>2. 0 \in 0 .. MaxSetups /\ 0 \in 0 .. MaxSessions
    OBVIOUS
  <2>3. target \in [Ids -> Targets \cup {NoTarget}] /\ hooks \in [Ids -> SUBSET Hooks]
    BY DEF Init
  <2>4. owner \in [Ids -> 0 .. MaxSetups] /\ frees \in [Ids -> Nat]
    BY <2>2 DEF Init
  <2>5. pending \in [Clients -> Pending]
    BY <2>1 DEF Init
  <2>6. QED
    BY <2>2, <2>3, <2>4, <2>5 DEF Init, VariablesOK
<1>3. NumbersOK /\ UnassignedOK
  BY <1>1 DEF Init, NumbersOK, UnassignedOK, Unassigned, Early, Idle, Ids
<1>4. AloneOK /\ FirstClientOK
  BY <1>1 DEF Init, AloneOK, StandsAlone, FirstClientOK, Idle, Ids
<1>5. SessionNotDangling /\ LiveSessionsHooked /\ HookedNotNull
  BY <1>1 DEF Init, SessionNotDangling, LiveSessionsHooked, HookedNotNull, Idle
<1>6. QED
  BY <1>2, <1>3, <1>4, <1>5 DEF SessionInv

LEMMA SessionInvStep == SessionInv /\ [Next]_vars => SessionInv'
<1> SUFFICES ASSUME SessionInv, [Next]_vars PROVE SessionInv'
  OBVIOUS
<1>1. CASE Next
  BY <1>1, TypeStep, NumbersStep, UnassignedStep, AloneStep, FirstClientStep, DanglingStep, HookedStep,
     NotNullStep DEF SessionInv
<1>2. CASE UNCHANGED vars
  <2> USE <1>2 DEF vars, sessionVars, historyVars
  <2>1. VariablesOK'
    BY DEF SessionInv, VariablesOK
  <2>2. NumbersOK' /\ UnassignedOK'
    BY DEF SessionInv, NumbersOK, UnassignedOK, Unassigned, Busy
  <2>3. AloneOK'
    BY DEF SessionInv, AloneOK, StandsAlone, Busy
  <2>4. FirstClientOK'
    BY DEF SessionInv, FirstClientOK, Live, Unassigned
  <2>5. SessionNotDangling' /\ LiveSessionsHooked' /\ HookedNotNull'
    BY DEF SessionInv, SessionNotDangling, LiveSessionsHooked, HookedNotNull, Live
  <2>6. QED
    BY <2>1, <2>2, <2>3, <2>4, <2>5 DEF SessionInv
<1>3. QED
  BY <1>1, <1>2

LEMMA AlwaysSessionInv == Spec => []SessionInv
BY SessionInvInit, SessionInvStep, PTL DEF Spec

(* Every variable keeps its type, and lines 119 to 123 never follow a null *)
(* mSession, however many threads store one.                               *)
THEOREM SessionTypeCorrect == Spec => []TypeOK
<1>1. SessionInv => TypeOK
  BY DEF SessionInv, TypeOK
<1>2. QED
  BY <1>1, AlwaysSessionInv, PTL

(* handleMessageSession hooks the handler early enough: unless two threads *)
(* are in it at once no message with text is lost, for any number of peers,*)
(* of sessions and of calls of setup in between.                           *)
THEOREM MessagesArrive == Spec => []NothingLost
<1>1. SessionInv => NothingLost
  BY DEF SessionInv, AloneOK, NothingLost
<1>2. QED
  BY <1>1, AlwaysSessionInv, PTL

(* Neither line 116 nor the destructor releases a session that the other,  *)
(* or an earlier callback, has released.                                   *)
THEOREM ReleasedOnce == Spec => []NoDoubleFree
<1>1. ASSUME SessionInv PROVE NoDoubleFree
  <2>1. VariablesOK /\ AloneOK
    BY <1>1 DEF SessionInv
  <2>2. \A i \in Ids : frees[i] \in Nat
    BY <2>1 DEF VariablesOK
  <2>3. QED
    BY <2>1, <2>2 DEF AloneOK, NoDoubleFree
<1>2. QED
  BY <1>1, AlwaysSessionInv, PTL

(* The session that lines 119 to 123 hook and the one gloox hands the      *)
(* message to have not been released by line 116.                          *)
THEOREM UsedWhileAlive == Spec => []NoUseAfterFree
<1>1. SessionInv => NoUseAfterFree
  BY DEF SessionInv, AloneOK, NoUseAfterFree
<1>2. QED
  BY <1>1, AlwaysSessionInv, PTL

(* However many threads dispose of one session and store theirs, in any    *)
(* order: mSession dangles only until a thread has reached line 118.       *)
THEOREM SessionStaysValid == Spec => []SessionNotDangling
<1>1. SessionInv => SessionNotDangling
  BY DEF SessionInv
<1>2. QED
  BY <1>1, AlwaysSessionInv, PTL

(* A session that no callback is working on reports messages, events and   *)
(* chat states to the listener, also after a second setup.                 *)
THEOREM SessionsReport == Spec => []LiveSessionsHooked
<1>1. SessionInv => LiveSessionsHooked
  BY DEF SessionInv
<1>2. QED
  BY <1>1, AlwaysSessionInv, PTL

(* Line 115, "this example can handle only one session", is kept to as     *)
(* long as setup has been called once.                                     *)
THEOREM OneSessionAlive == Spec => []OneSessionPerListener
<1>1. ASSUME SessionInv PROVE OneSessionPerListener
  <2>1. SUFFICES ASSUME mClient <= 1, Busy = {}, NEW i \in Live PROVE i = mSession
    BY DEF OneSessionPerListener, OneSession
  <2>2. \A c \in Clients : ~Unassigned(c)
    BY <2>1 DEF Busy, Unassigned, Early
  <2>3. QED
    BY <1>1, <2>1, <2>2 DEF SessionInv, FirstClientOK
<1>2. QED
  BY <1>1, AlwaysSessionInv, PTL
=============================================================================
