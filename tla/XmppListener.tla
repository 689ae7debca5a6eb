---------------------------- MODULE XmppListener ----------------------------
(***************************************************************************)
(* The connection side of XmppListener (src/src/XmppListener.cpp): the     *)
(* flag mIsConnected and the pointer mClient, which an application thread  *)
(* and the threads that run openConnection share without a lock, and the   *)
(* streams of the gloox clients that setup allocates.                      *)
(*                                                                         *)
(* gloox is a library: of it the module keeps what XmppListener can see,   *)
(* the state of each client's stream and the notifications it raises, in   *)
(* the order in which the thread that reads the stream delivers them.      *)
(***************************************************************************)
EXTENDS Naturals

CONSTANTS
    Threads,     \* the threads that may run openConnection
    MaxSetups,   \* bound: how many times setup is called
    RefusalReasons,  \* why gloox could not open a socket
    EndReasons       \* why gloox ended an open stream

(* gloox::ConnectionError, in its order. *)
ConnectionError ==
    {"ConnNoError", "ConnStreamError", "ConnStreamVersionError",
     "ConnStreamClosed", "ConnProxyAuthRequired", "ConnProxyAuthFailed",
     "ConnProxyNoSupportedAuth", "ConnIoError", "ConnParseError",
     "ConnConnectionRefused", "ConnDnsError", "ConnOutOfMemory",
     "ConnNoSupportedAuth", "ConnTlsFailed", "ConnTlsNotAvailable",
     "ConnCompressionFailed", "ConnAuthenticationFailed",
     "ConnUserDisconnected", "ConnNotConnected"}

ASSUME MaxSetupsAssumption == MaxSetups \in Nat \ {0}
ASSUME ReasonsAssumption ==
    RefusalReasons \subseteq ConnectionError /\ EndReasons \subseteq ConnectionError

VARIABLES
    mIsConnected,  \* the flag that isConnected() returns
    mClient,       \* the current gloox client, 0 is the null pointer
    stream,        \* the state of every client's stream
    pc,            \* where each thread is in openConnection
    inside,        \* the client whose functions the thread is in, 0 if none
    blocking,      \* the thread is in connect(true), which has not returned
    note,          \* the notification that the thread is delivering
    sending,       \* sendMessage has passed its test and not yet sent
    sent,          \* what became of the last sendMessage
    lifetime,      \* how far the destructor has got, see Lifetimes
    shared         \* history: two threads have been inside one client

threadVars == <<pc, inside, blocking, note>>
sendVars == <<sending, sent>>
vars == <<mIsConnected, mClient, stream, threadVars, sendVars, lifetime, shared>>

Clients == 1 .. MaxSetups

(* The stream of a client: no socket, socket being opened, negotiating in  *)
(* the clear, negotiating over TLS, authenticated with the roster asked    *)
(* for, and ready.                                                         *)
StreamStates == {"down", "connecting", "plain", "secure", "authed", "online"}
Open == {"plain", "secure", "authed", "online"}
Raised == {"secure", "authed", "online"}  \* onTLSConnect or onConnect was due

Notifications == {"onTLSConnect", "onConnect", "handleRoster"} \cup ConnectionError

(* Where a thread can be: not in openConnection, at its test, at the call  *)
(* of connect, in the opening of the socket, waiting for the server, in a  *)
(* callback, in the callback of a refused connection, at the while.        *)
Places ==
    {"idle", "entry", "connect", "connecting", "recv", "callback", "refused", "loop"}

(* The object is alive, the destructor has disconnected the client, it has *)
(* deleted it and freed the object, a thread has used the freed object.    *)
Lifetimes == {"alive", "disconnected", "deleted", "undefined"}

ThreadsOK ==
    /\ pc \in [Threads -> Places]
    /\ inside \in [Threads -> 0 .. MaxSetups]
    /\ blocking \in [Threads -> BOOLEAN]
    /\ note \in [Threads -> Notifications \cup {"none"}]

VariablesOK ==
    /\ ThreadsOK
    /\ mIsConnected \in BOOLEAN
    /\ mClient \in 0 .. MaxSetups
    /\ stream \in [Clients -> StreamStates]
    /\ sending \in BOOLEAN
    /\ sent \in {"none", "rejected"} \cup StreamStates
    /\ lifetime \in Lifetimes
    /\ shared \in BOOLEAN

(* mClient is null until setup. connect and sendMessage dereference it a    *)
(* step after they have tested it, the loop and the callbacks of a stream   *)
(* without a test of their own.                                             *)
PointersOK ==
    /\ sending => mClient # 0
    /\ \A t \in Threads : pc[t] \in {"connect", "loop"} => mClient # 0
    /\ \A t \in Threads : pc[t] \notin {"idle", "entry", "connect", "loop"} => inside[t] # 0

(* The type invariant: every variable has its type, and no pointer is null *)
(* where the code dereferences it (XmppListener.cpp:55 and 58).            *)
TypeOK == VariablesOK /\ PointersOK

Init ==
    /\ mIsConnected = FALSE
    /\ mClient = 0
    /\ stream = [c \in Clients |-> "down"]
    /\ pc = [t \in Threads |-> "idle"]
    /\ inside = [t \in Threads |-> 0]
    /\ blocking = [t \in Threads |-> FALSE]
    /\ note = [t \in Threads |-> "none"]
    /\ sending = FALSE
    /\ sent = "none"
    /\ lifetime = "alive"
    /\ shared = FALSE

-----------------------------------------------------------------------------
(* A thread moves to a place of openConnection outside of any client. *)
Goto(t, place) ==
    /\ pc' = [pc EXCEPT ![t] = place]
    /\ inside' = [inside EXCEPT ![t] = 0]
    /\ blocking' = [blocking EXCEPT ![t] = FALSE]
    /\ note' = [note EXCEPT ![t] = "none"]

(* A thread calls into client c. *)
Enter(t, place, c, block) ==
    /\ pc' = [pc EXCEPT ![t] = place]
    /\ inside' = [inside EXCEPT ![t] = c]
    /\ blocking' = [blocking EXCEPT ![t] = block]
    /\ note' = [note EXCEPT ![t] = "none"]
    /\ shared' = (shared \/ \E u \in Threads \ {t} : inside[u] = c)

(* The thread starts to deliver notification n. *)
Notify(t, place, n) ==
    /\ pc' = [pc EXCEPT ![t] = place]
    /\ note' = [note EXCEPT ![t] = n]
    /\ UNCHANGED <<inside, blocking>>

(* What was received is dealt with: connect(true) goes on receiving, a     *)
(* single recv() returns ConnNoError to the loop.                          *)
Handled(t) ==
    IF blocking[t]
    THEN /\ pc' = [pc EXCEPT ![t] = "recv"]
         /\ note' = [note EXCEPT ![t] = "none"]
         /\ UNCHANGED <<inside, blocking>>
    ELSE Goto(t, "loop")

-----------------------------------------------------------------------------
(* The application.                                                        *)

(* setup: the pointer is overwritten with a new client, the old client is  *)
(* neither disconnected nor deleted.                                       *)
Setup ==
    /\ lifetime = "alive"
    /\ mClient < MaxSetups
    /\ mClient' = mClient + 1
    /\ UNCHANGED <<mIsConnected, stream, threadVars, sendVars, lifetime, shared>>

(* openConnection(toggle) is called on thread t. *)
CallOpenConnection(t, toggle) ==
    /\ lifetime = "alive"
    /\ pc[t] = "idle"
    /\ pc' = [pc EXCEPT ![t] = "entry"]
    /\ blocking' = [blocking EXCEPT ![t] = toggle]
    /\ UNCHANGED <<mIsConnected, mClient, stream, inside, note, sendVars,
                   lifetime, shared>>

(* Mutant of SendMessageTest: the flag is not tested. *)
SendUntested(empty) ==
    /\ lifetime = "alive" /\ ~sending
    /\ IF empty \/ mClient = 0
       THEN sent' = "rejected" /\ UNCHANGED sending
       ELSE sending' = TRUE /\ UNCHANGED sent
    /\ UNCHANGED <<mIsConnected, mClient, stream, threadVars, lifetime, shared>>

(* sendMessage, up to the test on the flag, the text and the pointer. *)
SendMessageTest(empty) ==
    /\ lifetime = "alive" /\ ~sending
    /\ IF ~mIsConnected \/ empty \/ mClient = 0
       THEN sent' = "rejected" /\ UNCHANGED sending
       ELSE sending' = TRUE /\ UNCHANGED sent
    /\ UNCHANGED <<mIsConnected, mClient, stream, threadVars, lifetime, shared>>

(* sendMessage, the call of mClient->send and the return of true: gloox    *)
(* writes on an open stream and silently drops the message otherwise.      *)
SendMessageSend ==
    /\ sending
    /\ sending' = FALSE
    /\ sent' = stream[mClient]
    /\ UNCHANGED <<mIsConnected, mClient, stream, threadVars, lifetime, shared>>

(* ~XmppListener, line 16: disconnect of the current client closes its     *)
(* stream and calls onDisconnect, unless the stream is down. No thread is  *)
(* asked to stop: one may be inside the client, or come to it later.       *)
DestructorDisconnect ==
    /\ lifetime = "alive"
    /\ lifetime' = "disconnected"
    /\ IF mClient # 0 /\ stream[mClient] # "down"
       THEN /\ stream' = [stream EXCEPT ![mClient] = "down"]
            /\ mIsConnected' = FALSE
            /\ shared' = (shared \/ \E t \in Threads : inside[t] = mClient)
       ELSE UNCHANGED <<stream, mIsConnected, shared>>
    /\ UNCHANGED <<mClient, threadVars, sendVars>>

(* Line 23: the client is deleted, and the object with its last member. *)
DestructorDelete ==
    /\ lifetime = "disconnected"
    /\ lifetime' = "deleted"
    /\ UNCHANGED <<mIsConnected, mClient, stream, threadVars, sendVars, shared>>

(* A thread in openConnection or in sendMessage uses what was freed: from  *)
(* here on anything may happen, and the model says nothing more.           *)
UseDeleted ==
    /\ lifetime = "deleted"
    /\ sending \/ \E t \in Threads : pc[t] # "idle"
    /\ lifetime' = "undefined"
    /\ UNCHANGED <<mIsConnected, mClient, stream, threadVars, sendVars, shared>>

-----------------------------------------------------------------------------
(* openConnection, on thread t.                                            *)

(* Mutant of OpenConnection: the pointer is not tested. *)
OpenUntested(t) ==
    /\ pc[t] = "entry"
    /\ IF ~mIsConnected
       THEN pc' = [pc EXCEPT ![t] = "connect"] /\ UNCHANGED <<inside, blocking, note>>
       ELSE Goto(t, "idle")
    /\ UNCHANGED <<mIsConnected, mClient, stream, sendVars, lifetime, shared>>

(* The test on the flag and the pointer. *)
OpenConnection(t) ==
    /\ pc[t] = "entry"
    /\ IF ~mIsConnected /\ mClient # 0
       THEN pc' = [pc EXCEPT ![t] = "connect"] /\ UNCHANGED <<inside, blocking, note>>
       ELSE Goto(t, "idle")
    /\ UNCHANGED <<mIsConnected, mClient, stream, sendVars, lifetime, shared>>

(* mClient->connect(toggle): true at once when the client is connecting or *)
(* connected already; otherwise the socket is opened, or connect returns   *)
(* false without a notification, the address of the client being no JID.   *)
Connect(t) ==
    /\ pc[t] = "connect"
    /\ IF stream[mClient] = "down"
       THEN \/ /\ stream' = [stream EXCEPT ![mClient] = "connecting"]
               /\ Enter(t, "connecting", mClient, blocking[t])
            \/ Goto(t, "idle") /\ UNCHANGED <<stream, shared>>
       ELSE /\ Goto(t, "loop")
            /\ UNCHANGED <<stream, shared>>
    /\ UNCHANGED <<mIsConnected, mClient, sendVars, lifetime>>

SocketOpened(t) ==
    /\ pc[t] = "connecting"
    /\ stream' = [stream EXCEPT ![inside[t]] = "plain"]
    /\ Handled(t)
    /\ UNCHANGED <<mIsConnected, mClient, sendVars, lifetime, shared>>

SocketRefused(t, e) ==
    /\ pc[t] = "connecting"
    /\ stream' = [stream EXCEPT ![inside[t]] = "down"]
    /\ Notify(t, "refused", e)
    /\ UNCHANGED <<mIsConnected, mClient, sendVars, lifetime, shared>>

(* Mutants of Loop: the loop ends while the flag is down; ConnNotConnected *)
(* does not end it.                                                        *)
LoopWhileConnected(t) ==
    /\ pc[t] = "loop"
    /\ IF stream[mClient] \in Open /\ mIsConnected
       THEN Enter(t, "recv", mClient, FALSE)
       ELSE Goto(t, "idle") /\ UNCHANGED shared
    /\ UNCHANGED <<mIsConnected, mClient, stream, sendVars, lifetime>>

LoopForever(t) ==
    /\ pc[t] = "loop"
    /\ stream[mClient] \in Open
    /\ Enter(t, "recv", mClient, FALSE)
    /\ UNCHANGED <<mIsConnected, mClient, stream, sendVars, lifetime>>

(* The loop reads mClient again before each recv: on a client without a    *)
(* socket recv returns ConnNotConnected, which ends openConnection.        *)
Loop(t) ==
    /\ pc[t] = "loop"
    /\ IF stream[mClient] \in Open
       THEN Enter(t, "recv", mClient, FALSE)
       ELSE Goto(t, "idle") /\ UNCHANGED shared
    /\ UNCHANGED <<mIsConnected, mClient, stream, sendVars, lifetime>>

(* The stream went down under a thread that was receiving on it: recv and  *)
(* receive report ConnNotConnected; connect(true) then returns true.       *)
RecvNotConnected(t) ==
    /\ pc[t] = "recv"
    /\ stream[inside[t]] \notin Open
    /\ Goto(t, IF blocking[t] THEN "loop" ELSE "idle")
    /\ UNCHANGED <<mIsConnected, mClient, stream, sendVars, lifetime, shared>>

-----------------------------------------------------------------------------
(* What the server does, and gloox with it, before XmppListener is told.   *)

Receives(t, from, to) ==
    /\ pc[t] = "recv"
    /\ stream[inside[t]] \in from
    /\ stream' = [stream EXCEPT ![inside[t]] = to]
    /\ UNCHANGED <<mIsConnected, mClient, sendVars, lifetime, shared>>

TlsHandshake(t) == Receives(t, {"plain"}, "secure") /\ Notify(t, "callback", "onTLSConnect")

Authenticated(t) == Receives(t, {"plain", "secure"}, "authed") /\ Handled(t)

RosterAnswer(t) == Receives(t, {"authed"}, "online") /\ Notify(t, "callback", "onConnect")

(* A stanza can come as soon as the session is there, before the roster. *)
Stanza(t) == \E s \in {"authed", "online"} : Receives(t, {s}, s) /\ Handled(t)

(* The stream ends: gloox closes the socket first and notifies afterwards. *)
StreamEnd(t, e) ==
    /\ Receives(t, Open, "down")
    /\ Notify(t, "callback", e)

-----------------------------------------------------------------------------
(* The callbacks of gloox::ConnectionListener, without a delegate.         *)

onTLSConnect(t) ==
    /\ pc[t] = "callback" /\ note[t] = "onTLSConnect"
    /\ mIsConnected' = TRUE
    /\ Handled(t)
    /\ UNCHANGED <<mClient, stream, sendVars, lifetime, shared>>

(* The answer to the roster request was an error, or handleRoster follows. *)
onConnect(t) ==
    /\ pc[t] = "callback" /\ note[t] = "onConnect"
    /\ mIsConnected' = TRUE
    /\ Handled(t) \/ Notify(t, "callback", "handleRoster")
    /\ UNCHANGED <<mClient, stream, sendVars, lifetime, shared>>

handleRoster(t) ==
    /\ pc[t] = "callback" /\ note[t] = "handleRoster"
    /\ Handled(t)
    /\ UNCHANGED <<mIsConnected, mClient, stream, sendVars, lifetime, shared>>

(* Mutant of onDisconnect: the flag is not cleared. *)
onDisconnectForgets(t) ==
    /\ pc[t] \in {"callback", "refused"} /\ note[t] \in ConnectionError
    /\ \/ pc[t] = "callback" /\ Goto(t, "loop")
       \/ (pc[t] = "refused" \/ ~blocking[t]) /\ Goto(t, "idle")
    /\ UNCHANGED <<mIsConnected, mClient, stream, sendVars, lifetime, shared>>

(* After a refusal connect returned false. After the end of a stream       *)
(* connect(true) returned true, and recv() returned either the error or,   *)
(* when the stream was ended by what was received, ConnNoError.            *)
onDisconnect(t) ==
    /\ pc[t] \in {"callback", "refused"} /\ note[t] \in ConnectionError
    /\ mIsConnected' = FALSE
    /\ \/ pc[t] = "callback" /\ Goto(t, "loop")
       \/ (pc[t] = "refused" \/ ~blocking[t]) /\ Goto(t, "idle")
    /\ UNCHANGED <<mClient, stream, sendVars, lifetime, shared>>

-----------------------------------------------------------------------------
Application ==
    \/ Setup
    \/ \E t \in Threads, toggle \in BOOLEAN : CallOpenConnection(t, toggle)
    \/ \E empty \in BOOLEAN : SendMessageTest(empty)
    \/ SendMessageSend
    \/ DestructorDisconnect
    \/ DestructorDelete

Callback(t) == onTLSConnect(t) \/ onConnect(t) \/ handleRoster(t) \/ onDisconnect(t)

(* The steps a thread takes on its own; those that wait for the network. *)
ThreadStep(t) ==
    OpenConnection(t) \/ Connect(t) \/ Loop(t) \/ RecvNotConnected(t) \/ Callback(t)

NetworkStep(t) ==
    \/ SocketOpened(t) \/ TlsHandshake(t) \/ Authenticated(t) \/ RosterAnswer(t)
    \/ Stanza(t)
    \/ \E e \in RefusalReasons : SocketRefused(t, e)
    \/ \E e \in EndReasons : StreamEnd(t, e)

Exists == lifetime \in {"alive", "disconnected"}

Next ==
    \/ Exists /\ (Application \/ \E t \in Threads : ThreadStep(t) \/ NetworkStep(t))
    \/ UseDeleted

(* The scheduler lets every thread that can run take its next step; nothing *)
(* is assumed of the application and of the network.                        *)
Fairness == \A t \in Threads : WF_vars(Exists /\ ThreadStep(t))

Spec == Init /\ [][Next]_vars
FairSpec == Spec /\ Fairness

-----------------------------------------------------------------------------
(* Properties.                                                             *)

(* A stream has ended whose onDisconnect has not cleared the flag yet. *)
Ending(t) == pc[t] = "callback" /\ note[t] \in ConnectionError

(* isConnected() is never true for nothing: a stream that got as far as    *)
(* TLS or the login is still open, or its onDisconnect is on the way. Only *)
(* two threads inside one client can leave the flag raised after the end,  *)
(* when a late onConnect overtakes onDisconnect.                           *)
FlagHasAStream ==
    mIsConnected =>
        \/ shared
        \/ \E c \in Clients : stream[c] \in Raised
        \/ \E t \in Threads : Ending(t)

(* The thread reads the current client's stream, or is about to. *)
Serving(t) ==
    \/ pc[t] = "loop"
    \/ /\ inside[t] = mClient
       /\ pc[t] \in {"connecting", "recv"} \/ (pc[t] = "callback" /\ ~Ending(t))

(* The stream of the current client never stays without a thread that      *)
(* reads it, whatever the order of setup, connect, recv and the callbacks: *)
(* the while loop of openConnection loses only clients that were replaced. *)
CurrentStreamServed ==
    mClient # 0 /\ stream[mClient] # "down" => \E t \in Threads : Serving(t)

(* A raised flag outlives the last open stream only for a while, whatever  *)
(* ended the stream. The exceptions are a client that two threads were in, *)
(* see FlagHasAStream, and an object that was deleted in the meantime.     *)
FlagFallsAfterStream ==
    (\A c \in Clients : stream[c] = "down") ~> (~mIsConnected \/ shared \/ ~Exists)

(* When its stream has ended, openConnection returns to its caller, unless *)
(* a stream is opened again in time, by another thread, and it serves that *)
(* one, or the object is deleted.                                          *)
OpenConnectionReturns ==
    \A t \in Threads :
        Ending(t) ~> \/ pc[t] = "idle" \/ ~Exists
                     \/ \E u \in Threads \ {t} : pc[u] # "idle"
=============================================================================
