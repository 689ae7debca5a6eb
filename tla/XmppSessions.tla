---------------------------- MODULE XmppSessions ----------------------------
(***************************************************************************)
(* The message sessions of XmppListener (src/src/XmppListener.cpp): how    *)
(* handleMessageSession replaces mSession when gloox opens a session for a *)
(* message that fits none, on the thread of every client that setup has    *)
(* made and whose stream is still read. The callback reads mClient and     *)
(* mSession anew at every line, and nothing keeps two of them apart.       *)
(***************************************************************************)
EXTENDS Naturals, FiniteSets

CONSTANTS
    Senders,      \* the bare JIDs that write to the user
    Resources,    \* the resources they write from
    MaxSetups,    \* bound: how many times setup is called
    MaxSessions   \* bound: how many sessions gloox opens

ASSUME SessionBoundsAssumption == MaxSetups \in Nat /\ MaxSessions \in Nat

VARIABLES
    mClient,    \* the current gloox client, 0 before the first setup
    mSession,   \* the session pointer, 0 is null
    opened,     \* how many sessions gloox has opened
    target,     \* the peer and the message type each session is for
    owner,      \* the client in whose list a session is or was
    frees,      \* how many times a session's memory was released
    hooks,      \* what each session passes to the listener
    pending,    \* what the thread of each client is doing
    lost,       \* history: a message with text found no message handler
    misuse,     \* history: a session was used after it was released
    overlapped, \* history: two threads were handling a message at once
    destroyed   \* the destructor has run

sessionVars == <<opened, target, owner, frees, hooks>>
historyVars == <<lost, misuse, overlapped>>
vars == <<mClient, mSession, sessionVars, pending, historyVars, destroyed>>

Clients == 1 .. MaxSetups
Ids == 1 .. MaxSessions
Types == {"Chat", "Normal"}
Targets == [sender : Senders, resource : Resources, type : Types]
NoTarget == [sender |-> "none", resource |-> "none", type |-> "none"]

(* Messages, message events and chat states reach the listener. *)
Hooks == {"message", "event", "state"}

(* The lines of handleMessageSession at which other threads may come in:   *)
(* 116, inside of 116, 118, 119, 120-121, 122-123; "deliver" is gloox      *)
(* passing a message to a session.                                         *)
Places == {"idle", "dispose", "free", "assign", "register", "events", "states", "deliver"}

Idle == [at |-> "idle", session |-> 0, victim |-> 0, empty |-> FALSE]
Pending == [at : Places, session : 0 .. MaxSessions, victim : 0 .. MaxSessions, empty : BOOLEAN]

VariablesOK ==
    /\ mClient \in 0 .. MaxSetups
    /\ mSession \in 0 .. MaxSessions
    /\ opened \in 0 .. MaxSessions
    /\ target \in [Ids -> Targets \cup {NoTarget}]
    /\ owner \in [Ids -> 0 .. MaxSetups]
    /\ frees \in [Ids -> Nat]
    /\ hooks \in [Ids -> SUBSET Hooks]
    /\ pending \in [Clients -> Pending]
    /\ lost \in BOOLEAN
    /\ misuse \in BOOLEAN
    /\ overlapped \in BOOLEAN
    /\ destroyed \in BOOLEAN

(* Lines 119 to 123 follow a pointer that is null until the first session. *)
HookedNotNull ==
    \A c \in Clients : pending[c].at \in {"register", "events", "states"} => mSession # 0

TypeOK == VariablesOK /\ HookedNotNull

Init ==
    /\ mClient = 0
    /\ mSession = 0
    /\ opened = 0
    /\ target = [i \in Ids |-> NoTarget]
    /\ owner = [i \in Ids |-> 0]
    /\ frees = [i \in Ids |-> 0]
    /\ hooks = [i \in Ids |-> {}]
    /\ pending = [c \in Clients |-> Idle]
    /\ lost = FALSE
    /\ misuse = FALSE
    /\ overlapped = FALSE
    /\ destroyed = FALSE

-----------------------------------------------------------------------------
(* The sessions in client c's list. *)
Sessions(c) == {i \in 1 .. opened : owner[i] = c /\ frees[i] = 0}
Live == {i \in 1 .. opened : frees[i] = 0}

(* gloox looks for a session of the message's type, first by the sender's  *)
(* full JID, then by the bare one.                                         *)
SameBare(c, m) == {i \in Sessions(c) : target[i].sender = m.sender /\ target[i].type = m.type}
SameFull(c, m) == {i \in SameBare(c, m) : target[i].resource = m.resource}
Fitting(c, m) == IF SameFull(c, m) # {} THEN SameFull(c, m) ELSE SameBare(c, m)

Busy == {c \in Clients : pending[c].at # "idle"}

(* The thread of client c goes from one place to another. *)
Goes(c, from, to) == pending[c].at = from /\ pending' = [pending EXCEPT ![c].at = to]

(* A thread takes up a message. *)
Starts(c, at, i, empty) ==
    /\ c \notin Busy
    /\ pending' = [pending EXCEPT ![c] = [at |-> at, session |-> i, victim |-> 0, empty |-> empty]]
    /\ overlapped' = (overlapped \/ Busy # {})

(* The session is dereferenced. *)
Uses(i) == misuse' = (misuse \/ i \notin Live)

(* setup: mSession stays what it was, in the list of the previous client. *)
Setup ==
    /\ mClient < MaxSetups
    /\ mClient' = mClient + 1
    /\ UNCHANGED <<mSession, sessionVars, pending, historyVars, destroyed>>

(* A message arrives for which client c has a session; the session goes on *)
(* with the resource the message came from.                                *)
KnownPeerWrites(c, m, empty) ==
    /\ \E i \in Fitting(c, m) :
          /\ target' = [target EXCEPT ![i].resource = m.resource]
          /\ Starts(c, "deliver", i, empty)
    /\ UNCHANGED <<mClient, mSession, opened, owner, frees, hooks, lost, misuse, destroyed>>

(* A message arrives that fits no session: gloox opens one and hands it to *)
(* handleMessageSession. A chat message without text is dropped instead.   *)
NewPeerWrites(c, m, empty) ==
    /\ Fitting(c, m) = {}
    /\ ~(m.type = "Chat" /\ empty)
    /\ opened < MaxSessions
    /\ opened' = opened + 1
    /\ target' = [target EXCEPT ![opened'] = m]
    /\ owner' = [owner EXCEPT ![opened'] = c]
    /\ Starts(c, "dispose", opened', empty)
    /\ UNCHANGED <<mClient, mSession, frees, hooks, lost, misuse, destroyed>>

-----------------------------------------------------------------------------
(* handleMessageSession.                                                   *)

(* Mutants of DisposeOld: the pointer is moved to the new session first;   *)
(* line 116 is not there.                                                  *)
DisposeNew(c) ==
    /\ pending[c].at = "dispose"
    /\ pending' = [pending EXCEPT ![c].at = "free", ![c].victim = pending[c].session]
    /\ mSession' = pending[c].session
    /\ UNCHANGED <<mClient, sessionVars, historyVars, destroyed>>

DisposeNothing(c) ==
    /\ Goes(c, "dispose", "assign")
    /\ UNCHANGED <<mClient, mSession, sessionVars, historyVars, destroyed>>

(* Line 116: disposeMessageSession looks for the old session in the        *)
(* current client's list and does nothing if it is not there.              *)
DisposeOld(c) ==
    /\ pending[c].at = "dispose"
    /\ pending' = IF mSession \in Sessions(mClient)
                  THEN [pending EXCEPT ![c].at = "free", ![c].victim = mSession]
                  ELSE [pending EXCEPT ![c].at = "assign"]
    /\ UNCHANGED <<mClient, mSession, sessionVars, historyVars, destroyed>>

(* The session it has found is deleted. *)
FreeOld(c) ==
    /\ Goes(c, "free", "assign")
    /\ frees' = [frees EXCEPT ![pending[c].victim] = @ + 1]
    /\ UNCHANGED <<mClient, mSession, opened, target, owner, hooks, historyVars, destroyed>>

(* Mutant of Assign: the pointer keeps what it pointed to. *)
AssignNothing(c) ==
    /\ Goes(c, "assign", "register")
    /\ UNCHANGED <<mClient, mSession, sessionVars, historyVars, destroyed>>

(* Line 118. *)
Assign(c) ==
    /\ Goes(c, "assign", "register")
    /\ mSession' = pending[c].session
    /\ UNCHANGED <<mClient, sessionVars, historyVars, destroyed>>

(* A line that hooks the listener to what mSession points to by then. *)
Hook(c, from, hook, to) ==
    /\ Goes(c, from, to)
    /\ hooks' = [hooks EXCEPT ![mSession] = @ \cup {hook}]
    /\ Uses(mSession)
    /\ UNCHANGED <<mClient, mSession, opened, target, owner, frees, lost, overlapped, destroyed>>

(* Mutants of the next two: the handler is not registered; the chat states *)
(* are hooked in the place of the events.                                  *)
RegisterStateTwice(c) == Hook(c, "events", "state", "states")
RegisterNothing(c) == Hook(c, "register", "event", "events")

(* Line 119, and with the filter each of its pair of lines. *)
RegisterHandler(c) == Hook(c, "register", "message", "events")
RegisterEventFilter(c) == Hook(c, "events", "event", "states")
RegisterStateFilter(c) == Hook(c, "states", "state", "deliver")

(* gloox passes the message to its session, also when it was opened just   *)
(* now: one with text goes to the handler, if there is one.                *)
Deliver(c) ==
    LET i == pending[c].session
    IN  /\ pending[c].at = "deliver"
        /\ pending' = [pending EXCEPT ![c] = Idle]
        /\ lost' = (lost \/ (~pending[c].empty /\ "message" \notin hooks[i]))
        /\ Uses(i)
        /\ UNCHANGED <<mClient, mSession, sessionVars, overlapped, destroyed>>

-----------------------------------------------------------------------------
(* Mutant of Destroy: with the deletion of mSession that line 19 leaves out. *)
DestroyWithSession ==
    /\ Busy = {}
    /\ destroyed' = TRUE
    /\ frees' = [i \in Ids |-> frees[i] + (IF i \in Sessions(mClient) THEN 1 ELSE 0)
                                        + (IF i = mSession THEN 1 ELSE 0)]
    /\ UNCHANGED <<mClient, mSession, opened, target, owner, hooks, pending, historyVars>>

(* The destructor, line 23: the current client deletes its sessions, with  *)
(* their filters. No callback is left: an XmppClient never gets here while *)
(* a thread is in its listener (DestroyedWithoutThread).                   *)
Destroy ==
    /\ Busy = {}
    /\ destroyed' = TRUE
    /\ frees' = [i \in Ids |-> IF i \in Sessions(mClient) THEN frees[i] + 1 ELSE frees[i]]
    /\ UNCHANGED <<mClient, mSession, opened, target, owner, hooks, pending, historyVars>>

handleMessageSession(c) ==
    \/ DisposeOld(c) \/ FreeOld(c) \/ Assign(c)
    \/ RegisterHandler(c) \/ RegisterEventFilter(c) \/ RegisterStateFilter(c)

Next ==
    /\ ~destroyed
    /\ \/ Setup
       \/ Destroy
       \/ \E c \in 1 .. mClient :
             \/ handleMessageSession(c)
             \/ Deliver(c)
             \/ \E m \in Targets, empty \in BOOLEAN :
                   KnownPeerWrites(c, m, empty) \/ NewPeerWrites(c, m, empty)

Spec == Init /\ [][Next]_vars

-----------------------------------------------------------------------------
(* Properties. Two clients of one listener can be handling messages at     *)
(* once only after a second setup; an XmppClient does not get that far.    *)

(* handleMessageSession registers the handler early enough: no message     *)
(* with text is lost, not even the one that opens the session, whichever   *)
(* peers, resources and types alternate, wherever setup comes in between.  *)
NothingLost == lost => overlapped

(* Lines 18-21 leave the session and the filters to gloox ("These lines    *)
(* cause problems??"): nothing is ever released twice, unless two threads  *)
(* dispose of the same session.                                            *)
NoDoubleFree == (\E i \in Ids : frees[i] > 1) => overlapped

(* The session that lines 119-123 use and the one that gloox passes the    *)
(* message to are alive, although line 116 has just deleted one.           *)
NoUseAfterFree == misuse => overlapped

(* mSession dangles only while a thread is between lines 116 and 118, even *)
(* when two threads dispose of the same session and assign in any order.   *)
SessionNotDangling ==
    mSession \notin Live \cup {0} =>
        destroyed \/ \E c \in Clients : pending[c].at = "assign"

(* Every session that has been handed over reports messages, events and    *)
(* chat states to the listener, for as long as it is alive.                *)
LiveSessionsHooked ==
    \A i \in Live :
        \/ hooks[i] = Hooks
        \/ overlapped
        \/ \E c \in Clients : pending[c].session = i

(* Line 115: "this example can handle only one session. so we get rid of   *)
(* the old session": outside of the callback only mSession is alive.       *)
OneSession == Busy = {} => Live \subseteq {mSession}

(* That much is true as long as setup has not been called a second time:   *)
(* every further session is one that was open when the client was replaced *)
(* or was opened later.                                                    *)
OneSessionPerListener == mClient <= 1 => OneSession
=============================================================================
