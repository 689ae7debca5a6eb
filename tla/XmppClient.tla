----------------------------- MODULE XmppClient -----------------------------
(***************************************************************************)
(* XmppClient (src/src/XmppClient.cpp) around its XmppListener: connect    *)
(* starts openConnection(true) on a thread of its own, the callbacks of    *)
(* the listener become signals or exceptions, and an exception or a thread *)
(* object that is overwritten or destroyed ends the process.               *)
(* One application thread calls connect, sendMessage and the destructor.   *)
(***************************************************************************)
EXTENDS XmppListener, Sequences

CONSTANTS
    Users,       \* usernames
    NoThread,    \* the empty ThreadRef
    NoAccount,   \* a gloox client that does not exist yet
    PasswordOf   \* what the server has on record: the password of each user

ASSUME NoThreadAssumption == NoThread \notin Threads

VARIABLES
    process,          \* "running" or "terminated" (std::terminate)
    mListenerThread,  \* the thread object that the client owns
    appPc,            \* where the application is in connect or ~XmppClient
    spawned,          \* the threads that connect has started
    throwing,         \* the threads an exception is leaving openConnection of
    heard,            \* the signals emitted so far
    misused,          \* history: a callback has used destroyed signals
    account,          \* the username and password each gloox client was given
    sentTo            \* the server in the address of the last message

clientVars == <<process, mListenerThread, appPc, spawned, throwing, heard, misused,
                account, sentTo>>
allVars == <<vars, clientVars>>

ClientTypeOK ==
    /\ VariablesOK
    /\ process \in {"running", "terminated"}
    /\ mListenerThread \in Threads \cup {NoThread}
    /\ appPc \in {"idle", "spawn", "assign", "destroyThread", "destroyListener"}
    /\ spawned \subseteq Threads
    /\ throwing \subseteq spawned
    /\ heard \in Seq({"tls", "connect", "roster", "disconnect"})
    /\ misused \in BOOLEAN
    /\ account \in [Clients -> [username : Users, password : Users] \cup {NoAccount}]
    /\ sentTo \in {"none", ""}

ClientInit ==
    /\ Init
    /\ process = "running"
    /\ mListenerThread = NoThread
    /\ appPc = "idle"
    /\ spawned = {}
    /\ throwing = {}
    /\ heard = <<>>
    /\ misused = FALSE
    /\ account = [c \in Clients |-> NoAccount]
    /\ sentTo = "none"

Terminate ==
    /\ process' = "terminated"
    /\ UNCHANGED <<vars, mListenerThread, appPc, spawned, throwing, heard, misused, account, sentTo>>

-----------------------------------------------------------------------------
(* The application's thread. An empty username or server makes connect     *)
(* return false without a step; so no action stands for it.                *)

(* connect, line 25: setup takes the username for the password too. *)
ConnectSetup(user) ==
    /\ appPc = "idle" /\ ~sending
    /\ Setup
    /\ account' = [account EXCEPT ![mClient'] = [username |-> user, password |-> user]]
    /\ appPc' = "spawn"
    /\ UNCHANGED <<process, mListenerThread, spawned, throwing, heard, misused, sentTo>>

(* connect, line 27, right-hand side: the thread runs at once. The listener's *)
(* parameter toggle receives the pointer `this`, which converts to true.      *)
ConnectSpawn(t) ==
    /\ appPc = "spawn"
    /\ t \notin spawned
    /\ CallOpenConnection(t, TRUE)
    /\ spawned' = spawned \cup {t}
    /\ appPc' = "assign"
    /\ UNCHANGED <<process, mListenerThread, throwing, heard, misused, account, sentTo>>

(* Mutant of ConnectAssignFails: the old thread is detached, the new kept. *)
ConnectAssignDetaches ==
    /\ appPc = "assign" /\ mListenerThread # NoThread
    /\ mListenerThread' \in spawned \ {mListenerThread}
    /\ appPc' = "idle"
    /\ UNCHANGED <<vars, process, spawned, throwing, heard, misused, account, sentTo>>

(* connect, line 27, the assignment: the thread object it replaces was     *)
(* never joined or detached, and destroying it ends the process.           *)
ConnectAssign(t) ==
    /\ appPc = "assign"
    /\ mListenerThread = NoThread
    /\ t \in spawned
    /\ mListenerThread' = t
    /\ appPc' = "idle"
    /\ UNCHANGED <<vars, process, spawned, throwing, heard, misused, account, sentTo>>

ConnectAssignFails == appPc = "assign" /\ mListenerThread # NoThread /\ Terminate

(* sendMessage: the address is recipient@server(), and nothing has ever    *)
(* assigned the listener's mServer.                                        *)
SendMessage(empty) ==
    /\ appPc = "idle"
    /\ SendMessageTest(empty)
    /\ UNCHANGED clientVars

SendMessageWrite ==
    /\ SendMessageSend
    /\ sentTo' = ""
    /\ UNCHANGED <<process, mListenerThread, appPc, spawned, throwing, heard, misused, account>>

-----------------------------------------------------------------------------
(* ~XmppClient destroys its members in the reverse order of XmppClient.h,  *)
(* lines 115 to 123, while the listener thread runs on. In between the     *)
(* signals and mRoster are gone and callbacks still come.                  *)
Gone == appPc \in {"destroyThread", "destroyListener"}

(* Mutant of DestroyMembers: mListenerThread is declared before mListener, *)
(* and so destroyed after it.                                              *)
DestroyMembersSwapped ==
    /\ appPc = "idle" /\ ~sending
    /\ appPc' = "destroyListener"
    /\ UNCHANGED <<vars, process, mListenerThread, spawned, throwing, heard, misused, account, sentTo>>

(* The signals and mRoster are destroyed first. *)
DestroyMembers ==
    /\ appPc = "idle" /\ ~sending
    /\ appPc' = "destroyThread"
    /\ UNCHANGED <<vars, process, mListenerThread, spawned, throwing, heard, misused, account, sentTo>>

(* Mutant of DestroyThread: the thread is detached first. *)
DestroyThreadDetaches ==
    /\ appPc = "destroyThread"
    /\ appPc' = "destroyListener"
    /\ UNCHANGED <<vars, process, mListenerThread, spawned, throwing, heard, misused, account, sentTo>>

(* Then mListenerThread: a thread that nobody has joined, finished or not, *)
(* ends the process.                                                       *)
DestroyThread ==
    /\ appPc = "destroyThread"
    /\ IF mListenerThread # NoThread
       THEN Terminate
       ELSE /\ appPc' = "destroyListener"
            /\ UNCHANGED <<vars, process, mListenerThread, spawned, throwing, heard, misused,
                           account, sentTo>>

(* mListener comes last. If its destructor disconnects a stream, the       *)
(* client's onDisconnect throws out of it, which ends the process.         *)
DestroyListener ==
    /\ appPc = "destroyListener"
    /\ \/ /\ DestructorDisconnect
          /\ process' = IF stream' = stream THEN process ELSE "terminated"
       \/ DestructorDelete /\ UNCHANGED process
    /\ UNCHANGED <<mListenerThread, appPc, spawned, throwing, heard, misused, account, sentTo>>

-----------------------------------------------------------------------------
(* The listener's callbacks with the client as their delegate.             *)

UseSignals ==
    /\ misused' = (misused \/ Gone)
    /\ UNCHANGED <<process, mListenerThread, appPc, spawned, throwing, account, sentTo>>

(* A callback emits a signal; one that has been destroyed may have no      *)
(* slots left to call.                                                     *)
Emit(signal) ==
    /\ UseSignals
    /\ heard' = Append(heard, signal) \/ (Gone /\ UNCHANGED heard)

(* Mutant of SignalTlsConnect: it emits the signal of onConnect. *)
SignalTlsAsConnect(t) == onTLSConnect(t) /\ Emit("connect")

(* Mutant of SignalConnect: nothing is emitted. *)
SignalConnectSilent(t) == onConnect(t) /\ UNCHANGED clientVars

SignalTlsConnect(t) == onTLSConnect(t) /\ Emit("tls")
SignalConnect(t) == onConnect(t) /\ Emit("connect")
SignalRoster(t) == handleRoster(t) /\ Emit("roster")

(* onDisconnect throws for every reason but one, after the listener has    *)
(* cleared the flag; nothing between here and the thread catches.          *)
Throws(e) == e # "ConnNoError"

SignalDisconnect(t) == ~Throws(note[t]) /\ onDisconnect(t) /\ Emit("disconnect")

(* Mutant of DisconnectThrows: the exception is swallowed. *)
DisconnectSwallows(t) ==
    /\ note[t] \in ConnectionError /\ Throws(note[t])
    /\ onDisconnect(t)
    /\ UNCHANGED clientVars

DisconnectThrows(t) ==
    /\ note[t] \in ConnectionError /\ Throws(note[t])
    /\ mIsConnected' = FALSE
    /\ throwing' = throwing \cup {t}
    /\ UNCHANGED <<mClient, stream, threadVars, sendVars, lifetime, shared,
                   process, mListenerThread, appPc, spawned, heard, misused, account, sentTo>>

Uncaught(t) == t \in throwing /\ Terminate

(* The use of a destroyed signal ends the process, where Emit goes on. *)
CrashInSignal(t) ==
    /\ Gone
    /\ note[t] \in {"onTLSConnect", "onConnect", "handleRoster", "ConnNoError"}
    /\ Terminate

-----------------------------------------------------------------------------
(* The server accepts only the password it has on record. *)
Login(t) ==
    /\ Authenticated(t)
    /\ LET a == account[inside[t]] IN a.password = PasswordOf[a.username]
    /\ UNCHANGED clientVars

ClientNetworkStep(t) ==
    \/ Login(t)
    \/ /\ \/ SocketOpened(t) \/ TlsHandshake(t) \/ RosterAnswer(t) \/ Stanza(t)
          \/ \E e \in RefusalReasons : SocketRefused(t, e)
          \/ \E e \in EndReasons : StreamEnd(t, e)
       /\ UNCHANGED clientVars

ClientThreadStep(t) ==
    IF t \in throwing
    THEN Uncaught(t)
    ELSE \/ /\ OpenConnection(t) \/ Connect(t) \/ Loop(t) \/ RecvNotConnected(t)
            /\ UNCHANGED clientVars
         \/ SignalTlsConnect(t) \/ SignalConnect(t) \/ SignalRoster(t)
         \/ SignalDisconnect(t) \/ DisconnectThrows(t) \/ CrashInSignal(t)

(* Inside connect and the destructor the application's thread runs on by   *)
(* itself.                                                                 *)
ConnectStep ==
    \/ \E t \in Threads : ConnectSpawn(t) \/ ConnectAssign(t)
    \/ ConnectAssignFails

DestroyStep == DestroyThread \/ DestroyListener

ClientApplication ==
    \/ \E user \in Users : ConnectSetup(user)
    \/ ConnectStep
    \/ \E empty \in BOOLEAN : SendMessage(empty)
    \/ SendMessageWrite
    \/ DestroyStep

ClientNext ==
    /\ process = "running" /\ Exists
    /\ \/ ClientApplication \/ DestroyMembers
       \/ \E t \in spawned : ClientThreadStep(t) \/ ClientNetworkStep(t)

Running(A) == process = "running" /\ Exists /\ A

(* The scheduler runs every thread that can run, the application's too     *)
(* while it is inside connect or the destructor.                           *)
ClientFairness ==
    /\ WF_allVars(Running(ConnectStep \/ DestroyStep))
    /\ \A t \in Threads : WF_allVars(Running(t \in spawned /\ ClientThreadStep(t)))

ClientSpec == ClientInit /\ [][ClientNext]_allVars
FairClientSpec == ClientSpec /\ ClientFairness

-----------------------------------------------------------------------------
(* Properties.                                                             *)

(* Two threads are inside one gloox client only in a process that the      *)
(* second connect is about to end: the race of FlagHasAStream that the     *)
(* listener alone allows cannot leave the flag of an XmppClient raised.    *)
SharingIsFatal ==
    shared => process = "terminated" \/ (appPc = "assign" /\ mListenerThread # NoThread)

(* A message that sendMessage accepts is never written on a stream that    *)
(* still negotiates in the clear, however long the application's thread    *)
(* stands between the test of mIsConnected and the send.                   *)
NeverSentInTheClear == sent \notin {"connecting", "plain"}

(* The listener is never destroyed under a thread that runs in it: once    *)
(* connect has been accepted, ~XmppClient ends the process before it gets  *)
(* to ~XmppListener.                                                       *)
DestroyedWithoutThread == lifetime # "alive" => spawned = {}

(* A callback uses the signals and mRoster after ~XmppClient has destroyed *)
(* them only in a process that is about to end: no program outlives it.    *)
DestroyedMembersAreFatal ==
    misused => process = "terminated" \/ (appPc = "destroyThread" /\ mListenerThread # NoThread)

(* The destructor of the listener never finds a stream to close: it calls  *)
(* no onDisconnect of a client that is half destroyed, which would throw.  *)
DestructorIsSilent == [][lifetime' # lifetime => UNCHANGED <<stream, mIsConnected>>]_allVars

(* The client's signals come in the order of XmppLifecycle. *)
Life ==
    IF process = "terminated" THEN "terminated"
    ELSE IF mClient = 0 THEN IF Gone THEN "destroyed" ELSE "new"
    ELSE IF mClient = 1 /\ ~Gone THEN "started" ELSE "doomed"

Lifecycle == INSTANCE XmppLifecycle WITH life <- Life, heard <- heard
ImplementsLifecycle == Lifecycle!Spec

(* Every end of a connection that has a reason ends the process, and so    *)
(* does every refused connection and every second connect.                 *)
FailureIsFatal ==
    \A t \in Threads : (note[t] \in ConnectionError /\ Throws(note[t])) ~> process = "terminated"
SecondConnectIsFatal == (mClient > 1) ~> process = "terminated"

(* README.md:32 shows connect("username", "password", "server"): a user    *)
(* logs in with the password of the account.                               *)
LogsInWithPassword ==
    \A c \in Clients : account[c] # NoAccount =>
        account[c].password = PasswordOf[account[c].username]

(* README.md:8 presents the client as what chatting needs: a message goes  *)
(* to the recipient at the server the client is connected to.              *)
AddressedToServer == sentTo # ""
=============================================================================
