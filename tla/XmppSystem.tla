----------------------------- MODULE XmppSystem -----------------------------
(***************************************************************************)
(* The callbacks of one XmppClient put together: roster, presences,        *)
(* messages and message sessions arrive on the listener thread of their    *)
(* connection (XmppClient.tla), and share mRoster, mClient and mSession    *)
(* with the callbacks of any other listener thread. A callback is not      *)
(* atomic: it looks something up, and uses it in a later step.             *)
(***************************************************************************)
EXTENDS XmppClient, FiniteSets

CONSTANT Contacts   \* usernames that a roster may have

VARIABLES
    handler,    \* the callback each listener thread is in: "none", "roster",
                \* "presence", "message" or "session"
    iter,       \* the iterator into mRoster which that callback holds: "none",
                \* "entry", "end" or "invalid"
    mRoster,    \* the usernames that have an entry
    rosterOf,   \* the client whose roster answer filled mRoster, 0 if none
    sessionOf,  \* the client whose session mSession is, 0 if it is null
    leaked      \* history: a session was looked for in another client's list

callbackVars == <<handler, iter, mRoster, rosterOf, sessionOf, leaked>>
systemVars == <<allVars, callbackVars>>

SystemInit ==
    /\ ClientInit
    /\ handler = [t \in Threads |-> "none"]
    /\ iter = [t \in Threads |-> "none"]
    /\ mRoster = {}
    /\ rosterOf = 0
    /\ sessionOf = 0
    /\ leaked = FALSE

-----------------------------------------------------------------------------
Free(t) == handler[t] = "none"
Begin(t, callback) == Free(t) /\ handler' = [handler EXCEPT ![t] = callback]
End(t, callback) == handler[t] = callback /\ handler' = [handler EXCEPT ![t] = "none"]

(* clear, insert and the destructor of the map leave no iterator valid     *)
(* that another thread holds.                                              *)
Invalidated == [t \in Threads |-> IF iter[t] = "entry" THEN "invalid" ELSE iter[t]]

(* mRoster.find(u) on thread t: nothing good in a map that is destroyed. *)
Lookup(t, u) ==
    iter' = [iter EXCEPT ![t] =
                IF Gone THEN "invalid" ELSE IF u \in mRoster THEN "entry" ELSE "end"]
Drop(t) == iter' = [iter EXCEPT ![t] = "none"]

(* Thread t is receiving on a stream that can bring what it is about.      *)
Receiving(t, states) == pc[t] = "recv" /\ stream[inside[t]] \in states

(* gloox has handled the stanza; a stream that another thread has ended or *)
(* replaced meanwhile is noticed at the next recv.                         *)
StanzaDone(t) ==
    IF Receiving(t, {"authed", "online"}) THEN Stanza(t) ELSE UNCHANGED vars

(* handleRoster: line 100, *)
RosterBegin(t) ==
    /\ note[t] = "handleRoster" /\ pc[t] = "callback"
    /\ Begin(t, "roster")
    /\ mRoster' = {}
    /\ rosterOf' = 0
    /\ iter' = Invalidated
    /\ UNCHANGED <<allVars, sessionOf, leaked>>

(* and the rest: the entries of the answer and the signal. *)
RosterEnd(t, users) ==
    /\ End(t, "roster")
    /\ mRoster' = mRoster \cup users
    /\ rosterOf' = inside[t]
    /\ iter' = Invalidated
    /\ SignalRoster(t)
    /\ UNCHANGED <<sessionOf, leaked>>

(* handleRosterPresence: the lookup, *)
PresenceBegin(t, u) ==
    /\ Receiving(t, {"online"})
    /\ Begin(t, "presence")
    /\ Lookup(t, u)
    /\ UNCHANGED <<allVars, mRoster, rosterOf, sessionOf, leaked>>

(* the new status and the signal, *)
PresenceEnd(t) ==
    /\ End(t, "presence")
    /\ Drop(t)
    /\ StanzaDone(t)
    /\ UseSignals
    /\ UNCHANGED <<heard, mRoster, rosterOf, sessionOf, leaked>>

(* or the end of the process, if end() or worse is dereferenced or the     *)
(* signal has been destroyed.                                              *)
UndefinedIterator(t) ==
    /\ \/ handler[t] = "presence" /\ iter[t] \in {"end", "invalid"}
       \/ handler[t] = "message" /\ iter[t] = "invalid"
       \/ handler[t] \in {"roster", "presence", "message"} /\ Gone
    /\ Terminate
    /\ UNCHANGED callbackVars

(* handleMessage: the lookup of the sender, and the copy and the signal. *)
MessageBegin(t, u) ==
    /\ Receiving(t, {"authed", "online"})
    /\ Begin(t, "message")
    /\ Lookup(t, u)
    /\ UNCHANGED <<allVars, mRoster, rosterOf, sessionOf, leaked>>

MessageEnd(t) ==
    /\ End(t, "message")
    /\ Drop(t)
    /\ StanzaDone(t)
    /\ UseSignals
    /\ UNCHANGED <<heard, mRoster, rosterOf, sessionOf, leaked>>

(* A message of somebody new: handleMessageSession is about to run, *)
SessionBegin(t) ==
    /\ Receiving(t, {"authed", "online"})
    /\ Begin(t, "session")
    /\ UNCHANGED <<allVars, iter, mRoster, rosterOf, sessionOf, leaked>>

(* and runs: the old session is disposed of only if it is in the list of   *)
(* the client that mClient points to. handleMessage follows.               *)
SessionEnd(t, u) ==
    /\ handler[t] = "session"
    /\ handler' = [handler EXCEPT ![t] = "message"]
    /\ leaked' = (leaked \/ sessionOf \notin {0, mClient})
    /\ sessionOf' = inside[t]
    /\ Lookup(t, u)
    /\ UNCHANGED <<allVars, mRoster, rosterOf>>

-----------------------------------------------------------------------------
CallbackBegin(t) ==
    \/ RosterBegin(t) \/ SessionBegin(t)
    \/ \E u \in Contacts : PresenceBegin(t, u) \/ MessageBegin(t, u)

CallbackEnd(t) ==
    \/ \E users \in SUBSET Contacts : RosterEnd(t, users)
    \/ \E u \in Contacts : SessionEnd(t, u)
    \/ PresenceEnd(t) \/ MessageEnd(t) \/ UndefinedIterator(t)

(* Outside of a callback the thread goes on as XmppClient says; its roster *)
(* callback is the one above.                                              *)
Elsewhere(t) ==
    /\ Free(t) /\ note[t] # "handleRoster"
    /\ ClientThreadStep(t) \/ ClientNetworkStep(t)
    /\ UNCHANGED callbackVars

DestroyRoster ==
    /\ DestroyMembers
    /\ iter' = Invalidated
    /\ UNCHANGED <<handler, mRoster, rosterOf, sessionOf, leaked>>

SystemNext ==
    /\ process = "running" /\ Exists
    /\ \/ ClientApplication /\ UNCHANGED callbackVars
       \/ DestroyRoster
       \/ \E t \in spawned : Elsewhere(t) \/ CallbackBegin(t) \/ CallbackEnd(t)

SystemSpec == SystemInit /\ [][SystemNext]_systemVars

-----------------------------------------------------------------------------
(* Properties. None of the members that the callbacks share has a lock.    *)
(* What keeps them apart is that a second connect and the destructor end   *)
(* the process: from its start to that end the application's thread is     *)
(* inside connect or inside ~XmppClient.                                   *)
Doomed ==
    \/ process = "terminated"
    \/ appPc \in {"spawn", "assign", "destroyThread"} /\ mListenerThread # NoThread

(* Two threads are in callbacks of one XmppClient only in a doomed process. *)
CallbacksExclusive ==
    (\E t, u \in Threads : t # u /\ ~Free(t) /\ ~Free(u)) => Doomed

(* The iterator that handleRosterPresence and handleMessage hold stays     *)
(* valid until they have used it, although handleRoster clears the map and *)
(* ~XmppClient destroys it under the thread that holds the iterator.       *)
IteratorsValid == (\E t \in Threads : iter[t] = "invalid") => Doomed

(* An entry that a callback finds is one of the roster of the connection   *)
(* that the callback belongs to, never of an earlier one.                  *)
PeersOfThisConnection ==
    \A t \in Threads : iter[t] = "entry" => rosterOf = inside[t] \/ Doomed

(* handleMessageSession asks the client that owns the old session to       *)
(* dispose of it: none is left behind.                                     *)
NoSessionLeaks == leaked => Doomed

(* A presence is signalled only after the connect signal and before the    *)
(* disconnect signal; messages may come earlier, but not after it.         *)
SignalledWhileConnected ==
    \A t \in Threads : ~Free(t) =>
        \/ Doomed
        \/ /\ \A i \in DOMAIN heard : heard[i] # "disconnect"
           /\ handler[t] = "presence" => \E i \in DOMAIN heard : heard[i] = "connect"
=============================================================================
