-------------------------- MODULE XmppClientProofs --------------------------
(***************************************************************************)
(* Proofs about XmppClient for every number of threads and of calls of     *)
(* connect, and for every set of reasons that gloox may give. What the     *)
(* listener does is taken from XmppListenerProofs: every step of the       *)
(* client is one of the listener's, or drops the flag and throws.          *)
(***************************************************************************)
EXTENDS XmppClient, XmppListenerProofs, SequenceTheorems

(* How far connect has got: nothing was called yet, the first client was   *)
(* made, its thread was started, the thread was kept; the same again for   *)
(* the second call, which never gets to the end of line 27. The destructor *)
(* gets past mListenerThread only before the first call.                   *)
Stages ==
    \/ /\ appPc \in {"idle", "destroyThread", "destroyListener"}
       /\ mListenerThread = NoThread /\ mClient = 0 /\ spawned = {}
    \/ appPc = "spawn" /\ mListenerThread = NoThread /\ mClient = 1 /\ spawned = {}
    \/ /\ appPc = "assign" /\ mListenerThread = NoThread /\ mClient = 1
       /\ \E t \in Threads : spawned = {t}
    \/ /\ appPc \in {"idle", "destroyThread"} /\ mListenerThread # NoThread
       /\ mClient = 1 /\ spawned = {mListenerThread}
    \/ /\ appPc = "spawn" /\ mListenerThread # NoThread /\ mClient = 2
       /\ spawned = {mListenerThread}
    \/ /\ appPc = "assign" /\ mListenerThread # NoThread /\ mClient = 2
       /\ mListenerThread \in spawned

StageOK == Stages /\ (lifetime # "alive" => appPc = "destroyListener")

(* A thread that was not started is nowhere, one with a notification is in *)
(* its callback, and one that an exception leaves stays in the callback    *)
(* that threw it.                                                          *)
ThreadsStarted ==
    /\ \A t \in Threads \ spawned : pc[t] = "idle"
    /\ \A t \in Threads : note[t] # "none" => pc[t] \in {"callback", "refused"}
    /\ \A t \in throwing : note[t] \in ConnectionError /\ Throws(note[t])

(* Signals are used too late only while ~XmppClient is at the thread.      *)
MembersOK == misused => appPc = "destroyThread" /\ mListenerThread # NoThread

SharingNeedsTwo == shared => appPc = "assign" /\ mListenerThread # NoThread

(* Before the second connect a raised flag means that the one thread is    *)
(* past the opening of the socket and the stream past the clear, and what  *)
(* sendMessage has found stays so until it sends.                          *)
Before == {"entry", "connect", "connecting"}
Clear == {"connecting", "plain"}

Negotiated ==
    /\ sending => appPc = "idle"
    /\ spawned = {} => ~mIsConnected /\ ~sending
    /\ mClient <= 1 /\ ~Gone /\ (mIsConnected \/ sending) =>
          /\ \A t \in Threads : pc[t] \notin Before
          /\ \A c \in Clients : stream[c] \notin Clear

(* Of the first connection, until ~XmppClient destroys the signals: which  *)
(* one was the last, by where the thread and the stream are.               *)
Said == IF heard = <<>> THEN "none" ELSE heard[Len(heard)]
Streams(states) == \A c \in Clients : stream[c] \in states

Offline == StreamStates \ {"online"}

ThreadInOrder(t) ==
    /\ pc[t] \in Before => Said = "none"
    /\ pc[t] \in {"entry", "connect"} => Streams({"down"})
    /\ pc[t] = "connecting" => Streams({"down", "connecting"})
    /\ pc[t] \in {"recv", "loop"} => Said \in {"connect", "roster"} \/ Streams(Offline)
    /\ note[t] = "onTLSConnect" => Said = "none" /\ Streams({"down", "secure"})
    /\ note[t] = "onConnect" => Said \in {"none", "tls"} /\ Streams({"down", "online"})
    /\ note[t] = "handleRoster" => Said = "connect" /\ Streams({"down", "online"})
    /\ note[t] \in ConnectionError => Said # "disconnect" /\ Streams({"down"})

StreamInOrder(c) ==
    /\ stream[c] \in Clear => Said = "none"
    /\ stream[c] \in {"secure", "authed"} => Said \in {"none", "tls"}
    /\ stream[c] = "online" => Said # "disconnect"

SignalsInOrder ==
    mClient <= 1 /\ ~Gone =>
        /\ spawned = {} => Said = "none" /\ Streams({"down"})
        /\ \A t \in Threads : ThreadInOrder(t)
        /\ \A c \in Clients : StreamInOrder(c)

(* The last signal stands for the others: after the disconnect signal      *)
(* nothing comes, and the roster signal follows the connect signal.        *)
Heard(signal) == \E i \in DOMAIN heard : heard[i] = signal

HeardInOrder ==
    mClient <= 1 /\ ~Gone =>
        /\ Heard("disconnect") => Said = "disconnect"
        /\ Said = "roster" => Heard("connect")

ClientInv ==
    /\ ClientTypeOK /\ PlacesOK /\ SocketsOK
    /\ StageOK /\ ThreadsStarted /\ SharingNeedsTwo /\ Negotiated
    /\ SignalsInOrder /\ HeardInOrder
    /\ NeverSentInTheClear /\ DestroyedWithoutThread /\ MembersOK
-----------------------------------------------------------------------------
(* The steps of the client, by what they do to the listener, and those of  *)
(* its callbacks that another module splits up: a callback may end the     *)
(* process, the roster signal comes whenever handleRoster runs, and other  *)
(* signals are used that are not heard here.                               *)
Acts(t) ==
    \/ OpenConnection(t) \/ Connect(t) \/ Loop(t) \/ RecvNotConnected(t)
    \/ NetworkStep(t)

Aged ==
    /\ lifetime' \in Lifetimes
    /\ UNCHANGED <<mIsConnected, mClient, stream, threadVars, sendVars, shared>>

Destroying ==
    /\ Aged
    /\ UNCHANGED <<process, mListenerThread, spawned, throwing, heard, misused, account, sentTo>>
    /\ \/ appPc = "idle" /\ ~sending /\ appPc' = "destroyThread" /\ lifetime' = lifetime
       \/ appPc # "idle" /\ Gone /\ mListenerThread = NoThread /\ appPc' = "destroyListener"

Quiet ==
    /\ misused' \in {misused, misused \/ Gone}
    /\ UNCHANGED <<process, mListenerThread, appPc, spawned, throwing, heard, account, sentTo>>

ApplicationSteps ==
    \/ \E user \in Users : ConnectSetup(user)
    \/ \E t \in Threads : ConnectSpawn(t) \/ ConnectAssign(t)
    \/ \E empty \in BOOLEAN : SendMessage(empty)
    \/ SendMessageWrite
    \/ Destroying

ThreadSteps(t) ==
    \/ Acts(t) /\ Quiet
    \/ SignalTlsConnect(t) \/ SignalConnect(t) \/ SignalRoster(t)
    \/ SignalDisconnect(t) \/ DisconnectThrows(t)

ClientStep ==
    /\ process = "running" /\ Exists
    /\ \/ ApplicationSteps
       \/ \E t \in spawned : ThreadSteps(t)
       \/ spawned # {} /\ Quiet /\ UNCHANGED vars
       \/ spawned # {} /\ Terminate

(* Only a client with a thread ends the process; one without has no stream *)
(* that the destructor of the listener could find open.                    *)
LEMMA StepsOfApplication ==
    ASSUME ClientTypeOK, StageOK, ClientApplication \/ DestroyMembers
    PROVE  ApplicationSteps \/ (spawned # {} /\ Terminate)
<1>1. CASE ConnectStep
  BY <1>1, NoThreadAssumption
     DEF ConnectStep, ConnectAssignFails, ApplicationSteps, StageOK, Stages
<1>2. CASE DestroyMembers
  BY <1>2 DEF DestroyMembers, Destroying, Aged, ApplicationSteps, ClientTypeOK, VariablesOK, vars
<1>3. CASE DestroyThread
  <2>1. CASE mListenerThread # NoThread
    BY <1>3, <2>1 DEF DestroyThread, StageOK, Stages
  <2>2. CASE mListenerThread = NoThread
    BY <1>3, <2>2 DEF DestroyThread, Destroying, Aged, Gone, ApplicationSteps, ClientTypeOK,
                      VariablesOK, vars
  <2>3. QED
    BY <2>1, <2>2
<1>4. CASE DestroyListener
  <2>1. mClient = 0 /\ mListenerThread = NoThread /\ appPc = "destroyListener" /\ appPc' = appPc
    BY <1>4 DEF DestroyListener, StageOK, Stages
  <2>2. CASE DestructorDisconnect
    BY <1>4, <2>1, <2>2
       DEF DestroyListener, DestructorDisconnect, DestructorDelete, Destroying, Aged, Gone,
           Lifetimes, ApplicationSteps
  <2>3. CASE DestructorDelete
    BY <1>4, <2>1, <2>3
       DEF DestroyListener, DestructorDisconnect, DestructorDelete, Destroying, Aged, Gone,
           Lifetimes, ApplicationSteps
  <2>4. QED
    BY <1>4, <2>2, <2>3 DEF DestroyListener
<1>5. QED
  BY <1>1, <1>2, <1>3, <1>4 DEF ClientApplication, DestroyStep, ApplicationSteps

LEMMA StepsOfThread ==
    ASSUME NEW t, ClientThreadStep(t) \/ ClientNetworkStep(t)
    PROVE  ThreadSteps(t) \/ Terminate
<1>1. CASE ClientThreadStep(t)
  BY <1>1 DEF ClientThreadStep, ThreadSteps, Acts, Uncaught, CrashInSignal, Quiet, clientVars
<1>2. CASE ClientNetworkStep(t)
  BY <1>2 DEF ClientNetworkStep, ThreadSteps, Acts, NetworkStep, Login, Quiet, clientVars
<1>3. QED
  BY <1>1, <1>2

LEMMA StepsOfClient ==
    ASSUME ClientTypeOK, StageOK, ClientNext PROVE ClientStep
BY StepsOfApplication, StepsOfThread DEF ClientNext, ClientStep

(* To the listener alone each is a step of its own, none, a step of its    *)
(* destructor, or the flag goes down for an exception.                     *)
FlagDropped ==
    /\ mIsConnected' = FALSE
    /\ UNCHANGED <<mClient, stream, threadVars, sendVars, lifetime, shared>>

LEMMA StepsOfListener ==
    ASSUME ClientTypeOK, ClientStep PROVE [Next]_vars \/ Aged \/ FlagDropped
<1>1. CASE ApplicationSteps
  <2>1. ASSUME NEW t \in Threads, ConnectSpawn(t) PROVE Application
    BY <2>1 DEF ConnectSpawn, Application
  <2>2. ASSUME NEW t \in Threads, ConnectAssign(t) PROVE UNCHANGED vars
    BY <2>2 DEF ConnectAssign
  <2>3. ApplicationSteps => Application \/ Aged \/ UNCHANGED vars
    BY <2>1, <2>2 DEF Destroying, ApplicationSteps, Application, ConnectSetup, SendMessage, SendMessageWrite
  <2>4. QED
    BY <1>1, <2>3 DEF ClientStep, Next
<1>2. ASSUME NEW t \in spawned, ThreadSteps(t) PROVE [Next]_vars \/ Aged \/ FlagDropped
  <2>1. t \in Threads
    BY DEF ClientTypeOK
  <2>2. CASE DisconnectThrows(t)
    BY <2>2 DEF DisconnectThrows, FlagDropped
  <2>3. ThreadSteps(t) /\ ~DisconnectThrows(t) => ThreadStep(t) \/ NetworkStep(t)
    BY DEF ThreadSteps, Acts, ThreadStep, Callback, SignalTlsConnect, SignalConnect,
           SignalRoster, SignalDisconnect
  <2>4. QED
    BY <1>2, <2>1, <2>2, <2>3 DEF ClientStep, Next
<1>3. CASE Terminate \/ UNCHANGED vars
  BY <1>3 DEF Terminate
<1>4. QED
  BY <1>1, <1>2, <1>3 DEF ClientStep

(* So what is known of the listener's steps holds for the client's.        *)
LEMMA ListenerPart ==
    ASSUME ClientTypeOK, PlacesOK, SocketsOK, ClientStep
    PROVE  VariablesOK' /\ PlacesOK' /\ SocketsOK'
<1>1. VariablesOK
  BY DEF ClientTypeOK
<1>2. CASE [Next]_vars
  BY <1>1, <1>2, TypeStep, PlacesStep, SocketsStep
<1>3. CASE FlagDropped
  BY <1>1, <1>3 DEF FlagDropped, VariablesOK, ThreadsOK, PlacesOK, SocketsOK, threadVars, sendVars
<1>4. CASE Aged
  BY <1>1, <1>4 DEF Aged, VariablesOK, ThreadsOK, PlacesOK, SocketsOK, threadVars, sendVars
<1>5. QED
  BY <1>2, <1>3, <1>4, StepsOfListener

-----------------------------------------------------------------------------
(* What a step of a thread leaves alone: the other threads, and of the     *)
(* listener what only the application changes.                             *)
ListenerKept == UNCHANGED <<mClient, sending, sent, lifetime>>

LEMMA ActsEffect ==
    ASSUME NEW t \in Threads, VariablesOK, Acts(t)
    PROVE  Others(t) /\ ListenerKept /\ mIsConnected' = mIsConnected
<1> USE DEF ListenerKept, sendVars
<1>1. ThreadsOK
  BY DEF VariablesOK
<1>2. CASE OpenConnection(t)
  BY <1>1, <1>2, GotoEffect DEF OpenConnection, Others, ThreadsOK
<1>3. CASE Connect(t)
  BY <1>1, <1>3, GotoEffect, EnterEffect DEF Connect
<1>4. CASE Loop(t)
  BY <1>1, <1>4, GotoEffect, EnterEffect DEF Loop
<1>5. CASE RecvNotConnected(t)
  BY <1>1, <1>5, GotoEffect DEF RecvNotConnected
<1>6. CASE SocketOpened(t)
  BY <1>1, <1>6, HandledEffect DEF SocketOpened
<1>7. CASE TlsHandshake(t)
  BY <1>1, <1>7, NotifyEffect DEF TlsHandshake, Receives
<1>8. CASE Authenticated(t)
  BY <1>1, <1>8, HandledEffect DEF Authenticated, Receives
<1>9. CASE RosterAnswer(t)
  BY <1>1, <1>9, NotifyEffect DEF RosterAnswer, Receives
<1>10. CASE Stanza(t)
  BY <1>1, <1>10, HandledEffect DEF Stanza, Receives
<1>11. ASSUME NEW e \in RefusalReasons, SocketRefused(t, e)
       PROVE  Others(t) /\ ListenerKept /\ mIsConnected' = mIsConnected
  BY <1>1, <1>11, NotifyEffect DEF SocketRefused
<1>12. ASSUME NEW e \in EndReasons, StreamEnd(t, e)
       PROVE  Others(t) /\ ListenerKept /\ mIsConnected' = mIsConnected
  BY <1>1, <1>12, NotifyEffect DEF StreamEnd, Receives
<1>13. QED
  BY <1>2, <1>3, <1>4, <1>5, <1>6, <1>7, <1>8, <1>9, <1>10, <1>11, <1>12 DEF Acts, NetworkStep

(* Outside of a callback only can a thread go on by itself. *)
LEMMA ActsNotInCallback ==
    ASSUME NEW t \in Threads, Acts(t)
    PROVE  pc[t] \notin {"callback", "refused"}
BY DEF Acts, NetworkStep, OpenConnection, Connect, Loop, RecvNotConnected, SocketOpened,
       SocketRefused, TlsHandshake, Authenticated, RosterAnswer, Stanza, StreamEnd, Receives

(* A thread has a notification only in its callback. *)
Delivering(t) == note[t] # "none" => pc[t] \in {"callback", "refused"}

LEMMA ActsDelivering ==
    ASSUME NEW t \in Threads, VariablesOK, Delivering(t), Acts(t)
    PROVE  Delivering(t)'
<1> USE DEF Delivering
<1>1. ThreadsOK
  BY DEF VariablesOK
<1>2. CASE OpenConnection(t)
  BY <1>1, <1>2, GotoEffect DEF OpenConnection, ThreadsOK
<1>3. CASE Connect(t) \/ Loop(t) \/ RecvNotConnected(t)
  BY <1>1, <1>3, GotoEffect, EnterEffect DEF Connect, Loop, RecvNotConnected
<1>4. CASE SocketOpened(t) \/ Authenticated(t) \/ Stanza(t)
  BY <1>1, <1>4, HandledEffect DEF SocketOpened, Authenticated, Stanza
<1>5. CASE TlsHandshake(t) \/ RosterAnswer(t)
  BY <1>1, <1>5, NotifyEffect DEF TlsHandshake, RosterAnswer
<1>6. ASSUME NEW e \in RefusalReasons, SocketRefused(t, e) PROVE Delivering(t)'
  BY <1>1, <1>6, NotifyEffect DEF SocketRefused
<1>7. ASSUME NEW e \in EndReasons, StreamEnd(t, e) PROVE Delivering(t)'
  BY <1>1, <1>7, NotifyEffect DEF StreamEnd
<1>8. QED
  BY <1>2, <1>3, <1>4, <1>5, <1>6, <1>7 DEF Acts, NetworkStep

(* The loop either receives once more or ends. *)
LEMMA LoopEffect ==
    ASSUME NEW t \in Threads, VariablesOK, Loop(t)
    PROVE  pc'[t] \in {"recv", "idle"} /\ note'[t] = "none" /\ stream' = stream
<1>1. ThreadsOK /\ stream' = stream
  BY DEF VariablesOK, Loop
<1>2. CASE Enter(t, "recv", mClient, FALSE)
  BY <1>1, <1>2, EnterEffect
<1>3. CASE Goto(t, "idle")
  BY <1>1, <1>3, GotoEffect
<1>4. QED
  BY <1>2, <1>3 DEF Loop

(* A callback leaves the streams alone too, and its thread without a       *)
(* notification or with that of the roster.                                *)
LEMMA TlsCallback ==
    ASSUME NEW t \in Threads, VariablesOK, onTLSConnect(t)
    PROVE  /\ Others(t) /\ ListenerKept /\ UNCHANGED <<stream, shared>> /\ mIsConnected' = TRUE
           /\ note[t] = "onTLSConnect" /\ note'[t] = "none" /\ pc'[t] \in {"recv", "loop"}
BY HandledEffect DEF onTLSConnect, ListenerKept, sendVars, VariablesOK

LEMMA ConnectCallback ==
    ASSUME NEW t \in Threads, VariablesOK, onConnect(t)
    PROVE  /\ Others(t) /\ ListenerKept /\ UNCHANGED <<stream, shared>> /\ mIsConnected' = TRUE
           /\ note[t] = "onConnect"
           /\ \/ note'[t] = "none" /\ pc'[t] \in {"recv", "loop"}
              \/ note'[t] = "handleRoster" /\ pc'[t] = "callback"
BY HandledEffect, NotifyEffect DEF onConnect, ListenerKept, sendVars, VariablesOK

LEMMA RosterCallback ==
    ASSUME NEW t \in Threads, VariablesOK, handleRoster(t)
    PROVE  /\ Others(t) /\ ListenerKept /\ UNCHANGED <<stream, shared, mIsConnected>>
           /\ note[t] = "handleRoster" /\ note'[t] = "none" /\ pc'[t] \in {"recv", "loop"}
BY HandledEffect DEF handleRoster, ListenerKept, sendVars, VariablesOK

LEMMA DisconnectCallback ==
    ASSUME NEW t \in Threads, VariablesOK, onDisconnect(t)
    PROVE  /\ Others(t) /\ ListenerKept /\ UNCHANGED <<stream, shared>> /\ mIsConnected' = FALSE
           /\ note[t] \in ConnectionError /\ note'[t] = "none" /\ pc'[t] \in {"loop", "idle"}
BY GotoEffect DEF onDisconnect, ListenerKept, sendVars, VariablesOK

LEMMA ThreadStepsEffect ==
    ASSUME NEW t \in Threads, VariablesOK, ThreadSteps(t)
    PROVE  Others(t) /\ ListenerKept /\ UNCHANGED <<process, mListenerThread, appPc, spawned, account, sentTo>>
<1>1. CASE Acts(t) /\ Quiet
  BY <1>1, ActsEffect DEF Quiet
<1>2. CASE SignalTlsConnect(t)
  BY <1>2, TlsCallback DEF SignalTlsConnect, Emit, UseSignals
<1>3. CASE SignalConnect(t)
  BY <1>3, ConnectCallback DEF SignalConnect, Emit, UseSignals
<1>4. CASE SignalRoster(t)
  BY <1>4, RosterCallback DEF SignalRoster, Emit, UseSignals
<1>5. CASE SignalDisconnect(t)
  BY <1>5, DisconnectCallback DEF SignalDisconnect, Emit, UseSignals
<1>6. CASE DisconnectThrows(t)
  BY <1>6 DEF DisconnectThrows, Others, ListenerKept, threadVars, sendVars
<1>7. QED
  BY <1>1, <1>2, <1>3, <1>4, <1>5, <1>6 DEF ThreadSteps

-----------------------------------------------------------------------------
(* Two calls of connect at most, and the second never gets past line 27.   *)
LEMMA StageStep ==
    ASSUME ClientTypeOK, StageOK, SharingNeedsTwo, ClientStep PROVE StageOK'
<1> USE DEF StageOK, Stages
<1>1. ASSUME NEW user \in Users, ConnectSetup(user) PROVE StageOK'
  BY <1>1 DEF ConnectSetup, Setup
<1>2. ASSUME NEW t \in Threads, ConnectSpawn(t) PROVE StageOK'
  BY <1>2 DEF ConnectSpawn, CallOpenConnection
<1>3. ASSUME NEW t \in Threads, ConnectAssign(t) PROVE StageOK'
  BY <1>3, NoThreadAssumption DEF ConnectAssign, vars
<1>4. ASSUME NEW empty \in BOOLEAN, SendMessage(empty) PROVE StageOK'
  BY <1>4 DEF SendMessage, SendMessageTest, clientVars
<1>5. CASE SendMessageWrite
  BY <1>5 DEF SendMessageWrite, SendMessageSend
<1>6. CASE Destroying
  BY <1>6 DEF Destroying, Aged, Gone
<1>7. ASSUME NEW t \in spawned, ThreadSteps(t) PROVE StageOK'
  <2>1. UNCHANGED <<appPc, mListenerThread, mClient, spawned, lifetime>>
    BY <1>7, ThreadStepsEffect DEF ClientTypeOK, ListenerKept
  <2>2. QED
    BY <2>1
<1>8. CASE Terminate
  BY <1>8 DEF Terminate, vars
<1>9. CASE Quiet /\ UNCHANGED vars
  BY <1>9 DEF Quiet, vars, threadVars, sendVars
<1>10. QED
  BY <1>1, <1>2, <1>3, <1>4, <1>5, <1>6, <1>7, <1>8, <1>9 DEF ClientStep, ApplicationSteps

(* As long as connect was called once there is one thread.                 *)
LEMMA OneThread ==
    ASSUME StageOK, mClient <= 1, NEW t \in spawned, NEW u \in spawned
    PROVE  t = u
BY DEF StageOK, Stages

LEMMA StartedStep ==
    ASSUME ClientTypeOK, PlacesOK, ThreadsStarted, ClientStep PROVE ThreadsStarted'
<1> USE DEF ThreadsStarted
<1>0. VariablesOK /\ spawned \subseteq Threads /\ throwing \subseteq spawned
  BY DEF ClientTypeOK
<1>1. ASSUME NEW user \in Users, ConnectSetup(user) PROVE ThreadsStarted'
  BY <1>1 DEF ConnectSetup, Setup, threadVars
<1>2. ASSUME NEW t \in Threads, ConnectSpawn(t) PROVE ThreadsStarted'
  BY <1>0, <1>2 DEF ConnectSpawn, CallOpenConnection, VariablesOK, ThreadsOK
<1>3. ASSUME NEW t \in Threads, ConnectAssign(t) PROVE ThreadsStarted'
  BY <1>3 DEF ConnectAssign, vars, threadVars
<1>4. ASSUME NEW empty \in BOOLEAN, SendMessage(empty) PROVE ThreadsStarted'
  BY <1>4 DEF SendMessage, SendMessageTest, clientVars, threadVars
<1>5. CASE SendMessageWrite
  BY <1>5 DEF SendMessageWrite, SendMessageSend, threadVars
<1>6. CASE Destroying
  BY <1>6 DEF Destroying, Aged, threadVars
<1>7. ASSUME NEW t \in spawned, ThreadSteps(t) PROVE ThreadsStarted'
  <2>1. t \in Threads /\ Others(t) /\ spawned' = spawned
    BY <1>0, <1>7, ThreadStepsEffect
  <2>2. \A u \in Threads \ spawned' : pc'[u] = "idle"
    BY <2>1 DEF Others
  <2>3. Delivering(t)
    BY <2>1 DEF Delivering
  <2>4. CASE DisconnectThrows(t)
    BY <1>0, <2>2, <2>4 DEF DisconnectThrows, threadVars
  <2>5. CASE Acts(t) /\ Quiet
    <3>1. t \notin throwing
      BY <1>0, <2>1, <2>5, ActsNotInCallback DEF ConnectionError
    <3>2. Delivering(t)'
      BY <1>0, <2>1, <2>3, <2>5, ActsDelivering
    <3>3. QED
      BY <1>0, <2>1, <2>2, <2>5, <3>1, <3>2 DEF Others, Delivering, Quiet
  <2>6. CASE SignalTlsConnect(t) \/ SignalConnect(t) \/ SignalRoster(t) \/ SignalDisconnect(t)
    <3>1. t \notin throwing /\ throwing' = throwing
      BY <2>6 DEF SignalTlsConnect, SignalConnect, SignalRoster, SignalDisconnect, Emit, UseSignals,
                  onTLSConnect, onConnect, handleRoster, ConnectionError
    <3>2. Delivering(t)'
      BY <1>0, <2>1, <2>6, TlsCallback, ConnectCallback, RosterCallback, DisconnectCallback
         DEF SignalTlsConnect, SignalConnect, SignalRoster, SignalDisconnect, Delivering
    <3>3. QED
      BY <1>0, <2>1, <2>2, <3>1, <3>2 DEF Others, Delivering
  <2>7. QED
    BY <1>7, <2>4, <2>5, <2>6 DEF ThreadSteps
<1>8. CASE Terminate
  BY <1>8 DEF Terminate, vars, threadVars
<1>9. CASE Quiet /\ UNCHANGED vars
  BY <1>9 DEF Quiet, vars, threadVars, sendVars
<1>10. QED
  BY <1>1, <1>2, <1>3, <1>4, <1>5, <1>6, <1>7, <1>8, <1>9 DEF ClientStep, ApplicationSteps

-----------------------------------------------------------------------------
(* A thread comes to be in a client with another one only by calling the   *)
(* client that mClient points to.                                          *)
LEMMA ActsSharing ==
    ASSUME NEW t \in Threads, VariablesOK, Acts(t), ~shared, shared'
    PROVE  \E u \in Threads \ {t} : inside[u] = mClient
<1>1. ThreadsOK
  BY DEF VariablesOK
<1>2. CASE Connect(t) \/ Loop(t)
  BY <1>1, <1>2, EnterEffect DEF Connect, Loop
<1>3. QED
  BY <1>2 DEF Acts, NetworkStep, OpenConnection, RecvNotConnected, SocketOpened,
              SocketRefused, TlsHandshake, Authenticated, RosterAnswer, Stanza, StreamEnd,
              Receives

(* For that two threads must have been started. *)
LEMMA SharingStep ==
    ASSUME ClientTypeOK, PlacesOK, StageOK, ThreadsStarted, SharingNeedsTwo, ClientStep
    PROVE  SharingNeedsTwo'
<1> USE DEF SharingNeedsTwo
<1>0. VariablesOK /\ spawned \subseteq Threads
  BY DEF ClientTypeOK
<1>1. ASSUME NEW user \in Users, ConnectSetup(user) PROVE SharingNeedsTwo'
  BY <1>1 DEF ConnectSetup, Setup
<1>2. ASSUME NEW t \in Threads, ConnectSpawn(t) PROVE SharingNeedsTwo'
  BY <1>2 DEF ConnectSpawn, CallOpenConnection
<1>3. ASSUME NEW t \in Threads, ConnectAssign(t) PROVE SharingNeedsTwo'
  BY <1>3 DEF ConnectAssign, vars
<1>4. ASSUME NEW empty \in BOOLEAN, SendMessage(empty) PROVE SharingNeedsTwo'
  BY <1>4 DEF SendMessage, SendMessageTest, clientVars
<1>5. CASE SendMessageWrite
  BY <1>5 DEF SendMessageWrite, SendMessageSend
<1>6. CASE Destroying
  BY <1>6 DEF Destroying, Aged, Gone
<1>7. ASSUME NEW t \in spawned, ThreadSteps(t) PROVE SharingNeedsTwo'
  <2>1. t \in Threads /\ UNCHANGED <<appPc, mListenerThread>>
    BY <1>0, <1>7, ThreadStepsEffect
  <2>2. CASE shared' = shared
    BY <2>1, <2>2
  <2>3. CASE Acts(t) /\ ~shared /\ shared'
    <3>1. PICK u \in Threads \ {t} : inside[u] = mClient
      BY <1>0, <2>1, <2>3, ActsSharing
    <3>2. mClient \in Nat /\ mClient # 0
      BY <1>0, MaxSetupsAssumption DEF VariablesOK, StageOK, Stages
    <3>3. u \in spawned
      BY <3>1, <3>2 DEF PlacesOK, Outside, ThreadsStarted
    <3>4. QED
      BY <2>1, <3>1, <3>3 DEF StageOK, Stages
  <2>4. shared' = shared \/ Acts(t)
    BY <1>0, <1>7, <2>1, TlsCallback, ConnectCallback, RosterCallback, DisconnectCallback
       DEF ThreadSteps, SignalTlsConnect, SignalConnect, SignalRoster, SignalDisconnect,
           DisconnectThrows
  <2>5. QED
    BY <1>0, <2>1, <2>2, <2>3, <2>4 DEF VariablesOK
<1>8. CASE Terminate
  BY <1>8 DEF Terminate, vars
<1>9. CASE Quiet /\ UNCHANGED vars
  BY <1>9 DEF Quiet, vars, threadVars, sendVars
<1>10. QED
  BY <1>1, <1>2, <1>3, <1>4, <1>5, <1>6, <1>7, <1>8, <1>9 DEF ClientStep, ApplicationSteps

-----------------------------------------------------------------------------
(* A thread that is past the opening of the socket does not come back to   *)
(* it, and brings no stream back into the clear.                           *)
LEMMA ActsPastClear ==
    ASSUME NEW t \in Threads, VariablesOK, PlacesOK, pc[t] \notin Before, Acts(t)
    PROVE  /\ pc'[t] \notin Before
           /\ \A c \in Clients : stream'[c] \in Clear => stream'[c] = stream[c]
<1> USE DEF Before, Clear
<1>1. ThreadsOK
  BY DEF VariablesOK
<1>2. CASE Loop(t)
  BY <1>2, LoopEffect
<1>3. CASE RecvNotConnected(t)
  BY <1>1, <1>3, GotoEffect DEF RecvNotConnected
<1>4. CASE TlsHandshake(t)
  BY <1>1, <1>4, NotifyEffect, ReceivesEffect DEF TlsHandshake
<1>5. CASE Authenticated(t)
  BY <1>1, <1>5, HandledEffect, ReceivesEffect DEF Authenticated
<1>6. CASE RosterAnswer(t)
  BY <1>1, <1>6, NotifyEffect, ReceivesEffect DEF RosterAnswer
<1>7. CASE Stanza(t)
  BY <1>1, <1>7, HandledEffect, ReceivesEffect DEF Stanza
<1>8. ASSUME NEW e \in EndReasons, StreamEnd(t, e)
      PROVE  pc'[t] \notin Before /\ \A c \in Clients : stream'[c] \in Clear => stream'[c] = stream[c]
  BY <1>1, <1>8, NotifyEffect, ReceivesEffect DEF StreamEnd
<1>9. QED
  BY <1>2, <1>3, <1>4, <1>5, <1>6, <1>7, <1>8
     DEF Acts, NetworkStep, OpenConnection, Connect, SocketOpened, SocketRefused

LEMMA NegotiatedStep ==
    ASSUME ClientTypeOK, PlacesOK, StageOK, ThreadsStarted, Negotiated, SignalsInOrder, ClientStep
    PROVE  Negotiated'
<1> USE DEF Negotiated, Gone
<1>0. VariablesOK /\ spawned \subseteq Threads
  BY DEF ClientTypeOK
<1>1. ASSUME NEW user \in Users, ConnectSetup(user) PROVE Negotiated'
  <2>1. ~sending /\ UNCHANGED <<sending, spawned, mIsConnected, threadVars, stream>>
        /\ mClient' = mClient + 1 /\ appPc = "idle" /\ appPc' = "spawn"
    BY <1>1 DEF ConnectSetup, Setup, sendVars
  <2>2. mClient' <= 1 => mClient <= 1
    BY <2>1 DEF StageOK, Stages
  <2>3. QED
    BY <2>1, <2>2 DEF threadVars
<1>2. ASSUME NEW t \in Threads, ConnectSpawn(t) PROVE Negotiated'
  <2>1. UNCHANGED <<sending, mIsConnected, mClient, stream>> /\ appPc = "spawn" /\ spawned' # {}
    BY <1>2 DEF ConnectSpawn, CallOpenConnection, sendVars
  <2>2. mClient <= 1 => ~mIsConnected
    BY <2>1 DEF StageOK, Stages
  <2>3. QED
    BY <2>1, <2>2
<1>3. ASSUME NEW t \in Threads, ConnectAssign(t) PROVE Negotiated'
  BY <1>3 DEF ConnectAssign, vars, threadVars, sendVars
<1>4. ASSUME NEW empty \in BOOLEAN, SendMessage(empty) PROVE Negotiated'
  BY <1>4 DEF SendMessage, SendMessageTest, clientVars, threadVars
<1>5. CASE SendMessageWrite
  BY <1>5 DEF SendMessageWrite, SendMessageSend, threadVars
<1>6. CASE Destroying
  BY <1>6 DEF Destroying, Aged, threadVars, sendVars
<1>7. ASSUME NEW t \in spawned, ThreadSteps(t) PROVE Negotiated'
  <2>1. /\ t \in Threads /\ Others(t)
        /\ UNCHANGED <<appPc, spawned, mClient, sending>>
    BY <1>0, <1>7, ThreadStepsEffect DEF ListenerKept
  <2>2. (sending => appPc = "idle")' /\ spawned' # {}
    BY <2>1
  <2>3. ASSUME mClient <= 1 PROVE \A u \in Threads \ {t} : pc'[u] \notin Before
    <3>1. \A u \in Threads \ {t} : u \notin spawned
      BY <2>3, OneThread
    <3>2. QED
      BY <2>1, <3>1 DEF ThreadsStarted, Others, Before
  <2>4. CASE Acts(t) /\ Quiet
    <3>1. mIsConnected' = mIsConnected
      BY <1>0, <2>1, <2>4, ActsEffect
    <3>2. QED
      BY <1>0, <2>1, <2>2, <2>3, <2>4, <3>1, ActsPastClear
  <2>5. CASE SignalTlsConnect(t)
    <3>1. pc'[t] \notin Before /\ stream' = stream /\ note[t] = "onTLSConnect"
      BY <1>0, <2>1, <2>5, TlsCallback DEF SignalTlsConnect, Before
    <3>2. mClient <= 1 /\ ~Gone => \A c \in Clients : stream'[c] \notin Clear
      BY <2>1, <3>1 DEF SignalsInOrder, ThreadInOrder, Streams, Clear
    <3>3. QED
      BY <2>1, <2>2, <2>3, <3>1, <3>2
  <2>6. CASE SignalConnect(t)
    <3>1. pc'[t] \notin Before /\ stream' = stream /\ note[t] = "onConnect"
      BY <1>0, <2>1, <2>6, ConnectCallback DEF SignalConnect, Before
    <3>2. mClient <= 1 /\ ~Gone => \A c \in Clients : stream'[c] \notin Clear
      BY <2>1, <3>1 DEF SignalsInOrder, ThreadInOrder, Streams, Clear
    <3>3. QED
      BY <2>1, <2>2, <2>3, <3>1, <3>2
  <2>7. CASE SignalRoster(t)
    <3>1. pc'[t] \notin Before /\ stream' = stream /\ mIsConnected' = mIsConnected
      BY <1>0, <2>1, <2>7, RosterCallback DEF SignalRoster, Before
    <3>2. QED
      BY <2>1, <2>2, <2>3, <3>1
  <2>8. CASE SignalDisconnect(t)
    <3>1. pc'[t] \notin Before /\ stream' = stream /\ mIsConnected' = FALSE
      BY <1>0, <2>1, <2>8, DisconnectCallback DEF SignalDisconnect, Before
    <3>2. QED
      BY <2>1, <2>2, <2>3, <3>1
  <2>9. CASE DisconnectThrows(t)
    BY <2>1, <2>2, <2>9 DEF DisconnectThrows, threadVars
  <2>10. QED
    BY <1>7, <2>4, <2>5, <2>6, <2>7, <2>8, <2>9 DEF ThreadSteps
<1>8. CASE Terminate
  BY <1>8 DEF Terminate, vars, threadVars, sendVars
<1>9. CASE Quiet /\ UNCHANGED vars
  BY <1>9 DEF Quiet, vars, threadVars, sendVars
<1>10. QED
  BY <1>1, <1>2, <1>3, <1>4, <1>5, <1>6, <1>7, <1>8, <1>9 DEF ClientStep, ApplicationSteps

-----------------------------------------------------------------------------
(* The order of the signals. Of the first connection there is one thread,  *)
(* so that its place and its stream tell what has been signalled.          *)
FirstConnection(t) ==
    /\ VariablesOK /\ PlacesOK /\ SocketsOK /\ ThreadsStarted /\ mClient = 1
    /\ \A u \in Threads \ {t} : u \notin spawned
    /\ ThreadInOrder(t) /\ \A c \in Clients : StreamInOrder(c)

(* The other clients have no stream, before the step and after it. *)
LEMMA OneStream ==
    ASSUME NEW t \in Threads, FirstConnection(t), inside[t] # 0
    PROVE  inside[t] = 1 /\ 1 \in Clients /\ \A c \in Clients : c # 1 => stream[c] = "down"
<1>1. inside[t] = 1
  BY DEF FirstConnection, VariablesOK, ThreadsOK, PlacesOK
<1>2. \A c \in Clients : c # 1 => c > mClient
  BY MaxSetupsAssumption DEF FirstConnection, Clients
<1>3. QED
  BY <1>1, <1>2, MaxSetupsAssumption DEF FirstConnection, SocketsOK, Clients

(* What the server sends leads from one place in the order to the next.    *)
LEMMA ReceivesInOrder ==
    ASSUME NEW t \in Threads, FirstConnection(t), heard' = heard,
           TlsHandshake(t) \/ Authenticated(t) \/ RosterAnswer(t) \/ Stanza(t)
           \/ \E e \in EndReasons : StreamEnd(t, e)
    PROVE  ThreadInOrder(t)' /\ \A c \in Clients : StreamInOrder(c)'
<1> USE DEF ThreadInOrder, StreamInOrder, Streams, Before, Clear, Offline, StreamStates
<1>1. VariablesOK /\ ThreadsOK /\ PlacesOK
  BY DEF FirstConnection, VariablesOK
<1>2. pc[t] = "recv"
  BY DEF TlsHandshake, Authenticated, RosterAnswer, Stanza, StreamEnd, Receives
<1>3. inside[t] = 1 /\ 1 \in Clients /\ \A c \in Clients : c # 1 => stream[c] = "down"
  BY <1>1, <1>2, OneStream DEF PlacesOK, Outside
<1>4. /\ StreamInOrder(1) /\ Said' = Said
      /\ stream[1] = "online" => Said \in {"connect", "roster"}
  BY <1>2, <1>3 DEF FirstConnection, Said
<1> HIDE DEF Said
<1>5. CASE TlsHandshake(t)
  BY <1>1, <1>3, <1>4, <1>5, ReceivesEffect, NotifyEffect DEF TlsHandshake, ConnectionError
<1>6. CASE Authenticated(t)
  <2>1. pc'[t] \in {"recv", "loop"} /\ note'[t] = "none"
    BY <1>1, <1>6, HandledEffect DEF Authenticated
  <2>2. /\ stream[1] \in {"plain", "secure"} /\ stream'[1] = "authed"
        /\ \A c \in Clients : c # 1 => stream'[c] = "down"
    BY <1>1, <1>3, <1>6, ReceivesEffect DEF Authenticated
  <2>3. QED
    BY <1>4, <2>1, <2>2 DEF ConnectionError
<1>7. CASE RosterAnswer(t)
  BY <1>1, <1>3, <1>4, <1>7, ReceivesEffect, NotifyEffect DEF RosterAnswer, ConnectionError
<1>8. CASE Stanza(t)
  <2>1. pc'[t] \in {"recv", "loop"} /\ note'[t] = "none"
    BY <1>1, <1>8, HandledEffect DEF Stanza
  <2>2. stream'[1] = stream[1] /\ \A c \in Clients : c # 1 => stream'[c] = "down"
    BY <1>1, <1>3, <1>8, ReceivesEffect DEF Stanza
  <2>3. QED
    BY <1>1, <1>3, <1>4, <2>1, <2>2 DEF ConnectionError, VariablesOK
<1>9. ASSUME NEW e \in EndReasons, StreamEnd(t, e)
      PROVE  ThreadInOrder(t)' /\ \A c \in Clients : StreamInOrder(c)'
  <2>1. e \in ConnectionError
    BY ReasonsAssumption
  <2>2. Said # "disconnect"
    BY <1>1, <1>3, <1>4, <1>9, ReceivesEffect DEF StreamEnd, Open
  <2>3. pc'[t] = "callback" /\ note'[t] = e /\ \A c \in Clients : stream'[c] = "down"
    BY <1>1, <1>3, <1>9, ReceivesEffect, NotifyEffect DEF StreamEnd
  <2>4. QED
    BY <1>4, <2>1, <2>2, <2>3 DEF ConnectionError
<1>10. QED
  BY <1>5, <1>6, <1>7, <1>8, <1>9

(* Up to the opening of the socket nothing has been signalled. *)
LEMMA OpeningInOrder ==
    ASSUME NEW t \in Threads, FirstConnection(t), heard' = heard,
           OpenConnection(t) \/ Connect(t) \/ SocketOpened(t)
           \/ \E e \in RefusalReasons : SocketRefused(t, e)
    PROVE  ThreadInOrder(t)' /\ \A c \in Clients : StreamInOrder(c)'
<1> USE DEF ThreadInOrder, StreamInOrder, Streams, Before, Clear, Offline, StreamStates
<1>1. VariablesOK /\ ThreadsOK /\ PlacesOK
  BY DEF FirstConnection, VariablesOK
<1>2. Said = "none" /\ Said' = Said
  BY DEF FirstConnection, OpenConnection, Connect, SocketOpened, SocketRefused, Said
<1> HIDE DEF Said
<1>3. \A c \in Clients : StreamInOrder(c)'
  BY <1>2
<1>4. CASE OpenConnection(t)
  <2>1. pc[t] = "entry" /\ stream' = stream
    BY <1>4 DEF OpenConnection
  <2>2. note[t] = "none" /\ Streams({"down"})
    BY <1>1, <2>1 DEF FirstConnection, ThreadsStarted
  <2>3. note'[t] = "none" /\ pc'[t] \in {"connect", "idle"}
    BY <1>1, <1>4, <2>2, GotoEffect DEF OpenConnection, ThreadsOK
  <2>4. QED
    BY <1>2, <1>3, <2>1, <2>2, <2>3 DEF ConnectionError
<1>5. CASE Connect(t)
  <2>1. mClient = 1 /\ 1 \in Clients /\ Streams({"down"})
    BY <1>5, MaxSetupsAssumption DEF FirstConnection, Connect, Clients
  <2> SUFFICES ASSUME ~Goto(t, "idle") PROVE ThreadInOrder(t)'
    <3>1. CASE Goto(t, "idle")
      <4>1. pc'[t] = "idle" /\ note'[t] = "none"
        BY <1>1, <1>5, <3>1, GotoEffect DEF Connect, FirstConnection, ThreadsStarted
      <4>2. QED
        BY <1>3, <4>1 DEF ConnectionError
    <3>2. QED
      BY <1>3, <3>1
  <2>2. Enter(t, "connecting", mClient, blocking[t]) /\ stream' = [stream EXCEPT ![1] = "connecting"]
    BY <1>5, <2>1 DEF Connect
  <2>3. note'[t] = "none" /\ pc'[t] = "connecting"
    BY <1>1, <2>2, EnterEffect
  <2>4. \A c \in Clients : stream'[c] \in {"down", "connecting"}
    BY <1>1, <2>1, <2>2 DEF VariablesOK
  <2>5. QED
    BY <1>2, <1>3, <2>3, <2>4 DEF ConnectionError
<1>6. CASE SocketOpened(t)
  <2>1. pc[t] = "connecting" /\ stream' = [stream EXCEPT ![inside[t]] = "plain"]
    BY <1>6 DEF SocketOpened
  <2>2. note'[t] = "none" /\ pc'[t] \in {"recv", "loop"}
    BY <1>1, <1>6, HandledEffect DEF SocketOpened
  <2>3. Streams({"down", "connecting"})
    BY <2>1 DEF FirstConnection
  <2>4. \A c \in Clients : stream'[c] \in {"down", "connecting", "plain"}
    BY <1>1, <2>1, <2>3 DEF VariablesOK
  <2>5. QED
    BY <1>2, <1>3, <2>2, <2>4 DEF ConnectionError
<1>7. ASSUME NEW e \in RefusalReasons, SocketRefused(t, e) PROVE ThreadInOrder(t)'
  <2>1. e \in ConnectionError
    BY ReasonsAssumption
  <2>2. /\ note'[t] = e /\ pc'[t] = "refused" /\ pc[t] = "connecting"
        /\ stream' = [stream EXCEPT ![inside[t]] = "down"]
    BY <1>1, <1>7, NotifyEffect DEF SocketRefused
  <2>3. inside[t] = 1 /\ 1 \in Clients /\ \A c \in Clients : c # 1 => stream[c] = "down"
    BY <1>1, <2>2, OneStream DEF PlacesOK, Outside
  <2>4. \A c \in Clients : stream'[c] = "down"
    BY <1>1, <2>2, <2>3 DEF VariablesOK
  <2>5. QED
    BY <1>2, <2>1, <2>2, <2>4 DEF ConnectionError
<1>8. QED
  BY <1>3, <1>4, <1>5, <1>6, <1>7

LEMMA ActsInOrder ==
    ASSUME NEW t \in Threads, FirstConnection(t), heard' = heard, Acts(t)
    PROVE  ThreadInOrder(t)' /\ \A c \in Clients : StreamInOrder(c)'
<1>1. ThreadsOK /\ ThreadInOrder(t) /\ (\A c \in Clients : StreamInOrder(c)) /\ Said' = Said
  BY DEF FirstConnection, VariablesOK, Said
<1>2. CASE Loop(t) \/ RecvNotConnected(t)
  <2>1. note'[t] = "none" /\ pc'[t] \notin Before /\ stream' = stream
    <3>1. CASE Loop(t)
      BY <3>1, LoopEffect DEF FirstConnection, Before
    <3>2. CASE RecvNotConnected(t)
      BY <1>1, <3>2, GotoEffect DEF RecvNotConnected, Before
    <3>3. QED
      BY <1>2, <3>1, <3>2
  <2>2. QED
    BY <1>1, <1>2, <2>1
       DEF ThreadInOrder, StreamInOrder, Streams, Loop, RecvNotConnected, ConnectionError, Before
<1>3. QED
  BY <1>2, OpeningInOrder, ReceivesInOrder DEF Acts, NetworkStep

(* A signal is the last one that was said. *)
LEMMA EmitSaid ==
    ASSUME ClientTypeOK, NEW s \in {"tls", "connect", "roster", "disconnect"}, ~Gone, Emit(s)
    PROVE  Said' = s
<1>1. heard' = Append(heard, s)
  BY DEF Emit
<1>2. heard \in Seq({"tls", "connect", "roster", "disconnect"})
  BY DEF ClientTypeOK
<1>3. heard' # <<>> /\ heard'[Len(heard')] = s
  BY <1>1, <1>2, AppendProperties
<1>4. QED
  BY <1>3 DEF Said

LEMMA CallbacksInOrder ==
    ASSUME NEW t \in Threads, ClientTypeOK, FirstConnection(t), ~Gone,
           SignalTlsConnect(t) \/ SignalConnect(t) \/ SignalRoster(t) \/ SignalDisconnect(t)
    PROVE  ThreadInOrder(t)' /\ \A c \in Clients : StreamInOrder(c)'
<1> USE DEF ThreadInOrder, StreamInOrder, Streams, Before, Clear, Offline, StreamStates
<1>1. VariablesOK /\ ThreadInOrder(t) /\ \A c \in Clients : StreamInOrder(c)
  BY DEF FirstConnection
<1>2. CASE SignalTlsConnect(t)
  <2>1. Said' = "tls"
    BY <1>2, EmitSaid DEF SignalTlsConnect
  <2>2. QED
    BY <1>1, <1>2, <2>1, TlsCallback DEF SignalTlsConnect, ConnectionError
<1>3. CASE SignalConnect(t)
  <2>1. Said' = "connect"
    BY <1>3, EmitSaid DEF SignalConnect
  <2>2. QED
    BY <1>1, <1>3, <2>1, ConnectCallback DEF SignalConnect, ConnectionError
<1>4. CASE SignalRoster(t)
  <2>1. Said' = "roster"
    BY <1>4, EmitSaid DEF SignalRoster
  <2>2. QED
    BY <1>1, <1>4, <2>1, RosterCallback DEF SignalRoster, ConnectionError
<1>5. CASE SignalDisconnect(t)
  <2>1. Said' = "disconnect"
    BY <1>5, EmitSaid DEF SignalDisconnect
  <2>2. QED
    BY <1>1, <1>5, <2>1, DisconnectCallback DEF SignalDisconnect, ConnectionError
<1>6. QED
  BY <1>2, <1>3, <1>4, <1>5

(* A step that leaves the threads, the streams and the signals alone. *)
LEMMA KeptInOrder ==
    ASSUME SignalsInOrder, UNCHANGED <<pc, note, stream, heard>>,
           mClient' <= 1 /\ ~Gone' => mClient <= 1 /\ ~Gone, spawned' = {} => spawned = {}
    PROVE  SignalsInOrder'
BY DEF SignalsInOrder, ThreadInOrder, StreamInOrder, Streams, Said

LEMMA OrderStep ==
    ASSUME ClientTypeOK, PlacesOK, SocketsOK, StageOK, ThreadsStarted, SignalsInOrder, ClientStep
    PROVE  SignalsInOrder'
<1>0. VariablesOK /\ spawned \subseteq Threads
  BY DEF ClientTypeOK
<1>1. ASSUME NEW user \in Users, ConnectSetup(user) PROVE SignalsInOrder'
  <2>1. /\ UNCHANGED <<pc, note, stream, heard, spawned>> /\ mClient' = mClient + 1
        /\ appPc = "idle"
    BY <1>1 DEF ConnectSetup, Setup, threadVars
  <2>2. mClient' <= 1 => mClient <= 1 /\ ~Gone
    BY <2>1 DEF StageOK, Stages, Gone
  <2>3. QED
    BY <2>1, <2>2, KeptInOrder
<1>2. ASSUME NEW t \in Threads, ConnectSpawn(t) PROVE SignalsInOrder'
  <2> SUFFICES ASSUME mClient' <= 1, ~Gone' PROVE SignalsInOrder'
    BY DEF SignalsInOrder
  <2>1. /\ appPc = "spawn" /\ UNCHANGED <<mClient, note, stream, heard>> /\ spawned' # {}
    BY <1>2 DEF ConnectSpawn, CallOpenConnection
  <2>2. spawned = {} /\ mClient <= 1 /\ ~Gone
    BY <2>1 DEF StageOK, Stages, Gone
  <2>3. Said' = "none" /\ Streams({"down"}) /\ \A c \in Clients : StreamInOrder(c)
    BY <2>1, <2>2 DEF SignalsInOrder, Said
  <2>4. \A u \in Threads : note'[u] = "none"
    BY <2>1, <2>2 DEF ThreadsStarted
  <2>5. QED
    BY <2>1, <2>3, <2>4
       DEF SignalsInOrder, ThreadInOrder, StreamInOrder, Streams, Offline, StreamStates,
           ConnectionError
<1>3. ASSUME NEW t \in Threads, ConnectAssign(t) PROVE SignalsInOrder'
  BY <1>3, KeptInOrder DEF ConnectAssign, Gone, vars, threadVars
<1>4. ASSUME NEW empty \in BOOLEAN, SendMessage(empty) PROVE SignalsInOrder'
  BY <1>4, KeptInOrder DEF SendMessage, Gone, SendMessageTest, clientVars, threadVars
<1>5. CASE SendMessageWrite
  BY <1>5, KeptInOrder DEF SendMessageWrite, Gone, SendMessageSend, threadVars
<1>6. CASE Destroying
  BY <1>6, KeptInOrder DEF Destroying, Aged, Gone, threadVars
<1>7. ASSUME NEW t \in spawned, ThreadSteps(t) PROVE SignalsInOrder'
  <2> SUFFICES ASSUME mClient' <= 1, ~Gone' PROVE SignalsInOrder'
    BY DEF SignalsInOrder
  <2>1. t \in Threads /\ Others(t) /\ UNCHANGED <<mClient, spawned, appPc>> /\ ~Gone
    BY <1>0, <1>7, ThreadStepsEffect DEF ListenerKept, Gone
  <2>2. mClient = 1 /\ \A u \in Threads \ {t} : u \notin spawned
    BY <2>1, OneThread DEF StageOK, Stages
  <2>3. FirstConnection(t)
    BY <1>0, <2>1, <2>2 DEF FirstConnection, SignalsInOrder
  <2>4. CASE ThreadInOrder(t)' /\ \A c \in Clients : StreamInOrder(c)'
    <3>1. \A u \in Threads \ {t} : pc'[u] = "idle" /\ note'[u] = "none"
      BY <2>1, <2>2 DEF Others, ThreadsStarted
    <3>2. \A u \in Threads \ {t} : ThreadInOrder(u)'
      BY <3>1 DEF ThreadInOrder, Before, ConnectionError
    <3>3. QED
      BY <2>1, <2>4, <3>2 DEF SignalsInOrder
  <2>5. CASE Acts(t) /\ Quiet
    BY <2>1, <2>3, <2>4, <2>5, ActsInOrder DEF Quiet
  <2>6. CASE DisconnectThrows(t)
    BY <2>6, KeptInOrder DEF DisconnectThrows, Gone, threadVars
  <2>7. QED
    BY <1>7, <2>1, <2>3, <2>4, <2>5, <2>6, CallbacksInOrder DEF ThreadSteps
<1>8. CASE Terminate
  BY <1>8, KeptInOrder DEF Terminate, Gone, vars, threadVars
<1>9. CASE Quiet /\ UNCHANGED vars
  BY <1>9, KeptInOrder DEF Quiet, Gone, vars, threadVars, sendVars
<1>10. QED
  BY <1>1, <1>2, <1>3, <1>4, <1>5, <1>6, <1>7, <1>8, <1>9 DEF ClientStep, ApplicationSteps

(* A signal adds itself to what was heard, and takes nothing away.         *)
LEMMA EmitHeard ==
    ASSUME ClientTypeOK, NEW s \in {"tls", "connect", "roster", "disconnect"}, ~Gone, Emit(s)
    PROVE  \A r : Heard(r)' <=> Heard(r) \/ r = s
<1> DEFINE S == {"tls", "connect", "roster", "disconnect"}
<1>1. heard \in Seq(S) /\ heard' = Append(heard, s)
  BY DEF ClientTypeOK, Emit, UseSignals
<1>2. Len(heard) \in Nat /\ DOMAIN heard = 1 .. Len(heard)
      /\ DOMAIN heard' = 1 .. Len(heard) + 1
  BY <1>1
<1>3. /\ heard'[Len(heard) + 1] = s
      /\ \A i \in 1 .. Len(heard) : heard'[i] = heard[i]
  BY <1>1, AppendProperties
<1>4. QED
  BY <1>2, <1>3 DEF Heard

(* Of the first connection a callback signals what may follow.             *)
MaySay(s) ==
    \/ s = "tls" /\ Said = "none"
    \/ s = "connect" /\ Said \in {"none", "tls"}
    \/ s = "roster" /\ Said = "connect"
    \/ s = "disconnect" /\ Said # "disconnect"

LEMMA HeardStep ==
    ASSUME ClientTypeOK, StageOK, SignalsInOrder, HeardInOrder, ClientStep
    PROVE  HeardInOrder'
<1> SUFFICES ASSUME mClient' <= 1, ~Gone' PROVE HeardInOrder'
  BY DEF HeardInOrder
<1>0. VariablesOK /\ spawned \subseteq Threads
  BY DEF ClientTypeOK
<1>a. ~Gone
  <2>1. ASSUME NEW t \in spawned, ThreadSteps(t) PROVE ~Gone
    BY <1>0, <2>1, ThreadStepsEffect DEF Gone
  <2>2. QED
    BY <2>1
       DEF ClientStep, ApplicationSteps, ConnectSetup, ConnectSpawn, ConnectAssign, SendMessage,
           SendMessageWrite, SendMessageSend, Destroying, Quiet, Terminate, clientVars, Gone
<1>1. CASE heard' = heard
  <2>1. mClient <= 1
    <3>1. mClient' = mClient \/ mClient' = mClient + 1
      <4>1. ASSUME NEW t \in spawned, ThreadSteps(t) PROVE mClient' = mClient
        BY <1>0, <4>1, ThreadStepsEffect DEF ListenerKept
      <4>2. QED
        BY <4>1 DEF ClientStep, ApplicationSteps, ConnectSetup, Setup, ConnectSpawn,
              CallOpenConnection, ConnectAssign, SendMessage, SendMessageTest,
              SendMessageWrite, SendMessageSend, Destroying, Aged, Terminate, vars
    <3>2. QED
      BY <3>1 DEF StageOK, Stages
  <2>2. QED
    BY <1>a, <1>1, <2>1 DEF HeardInOrder, Heard, Said
<1>2. ASSUME NEW s \in {"tls", "connect", "roster", "disconnect"}, Emit(s), MaySay(s), mClient <= 1
      PROVE  HeardInOrder'
  <2>1. Said' = s /\ \A r : Heard(r)' <=> Heard(r) \/ r = s
    BY <1>a, <1>2, EmitSaid, EmitHeard
  <2>2. Said = "connect" => Heard("connect")
    <3>1. heard # <<>> => Len(heard) \in DOMAIN heard
      <4>1. heard \in Seq({"tls", "connect", "roster", "disconnect"})
        BY DEF ClientTypeOK
      <4>2. QED
        BY <4>1
    <3>2. QED
      BY <3>1 DEF Said, Heard
  <2>3. QED
    BY <1>a, <1>2, <2>1, <2>2 DEF HeardInOrder, MaySay
<1>3. ASSUME NEW t \in spawned, ThreadSteps(t) PROVE HeardInOrder'
  <2>1. mClient <= 1 /\ ThreadInOrder(t)
    BY <1>0, <1>a, <1>3, ThreadStepsEffect DEF ListenerKept, SignalsInOrder
  <2>2. CASE SignalTlsConnect(t)
    BY <1>2, <2>1, <2>2 DEF SignalTlsConnect, onTLSConnect, ThreadInOrder, MaySay
  <2>3. CASE SignalConnect(t)
    BY <1>2, <2>1, <2>3 DEF SignalConnect, onConnect, ThreadInOrder, MaySay
  <2>4. CASE SignalRoster(t)
    BY <1>2, <2>1, <2>4 DEF SignalRoster, handleRoster, ThreadInOrder, MaySay
  <2>5. CASE SignalDisconnect(t)
    BY <1>2, <2>1, <2>5 DEF SignalDisconnect, onDisconnect, ThreadInOrder, MaySay
  <2>6. QED
    BY <1>1, <1>3, <2>2, <2>3, <2>4, <2>5 DEF ThreadSteps, DisconnectThrows, Quiet
<1>4. QED
  BY <1>1, <1>3
     DEF ClientStep, ApplicationSteps, ConnectSetup, ConnectSpawn, ConnectAssign, SendMessage,
         SendMessageWrite, Destroying, Quiet, Terminate, clientVars

-----------------------------------------------------------------------------
(* Types, and the two invariants that the others are for.                  *)
LEMMA SetupMakesAClient ==
    ASSUME VariablesOK, Setup PROVE mClient' \in Clients
BY MaxSetupsAssumption DEF VariablesOK, Setup, Clients

LEMMA EmitType ==
    ASSUME NEW S, heard \in Seq(S), NEW s \in S, Emit(s) PROVE heard' \in Seq(S)
BY AppendProperties DEF Emit

LEMMA ClientTypeStep ==
    ASSUME ClientTypeOK, PlacesOK, SocketsOK, ClientStep PROVE ClientTypeOK'
<1>0. VariablesOK' /\ VariablesOK /\ spawned \subseteq Threads
  BY ListenerPart DEF ClientTypeOK
<1> USE DEF ClientTypeOK
<1>1. ASSUME NEW user \in Users, ConnectSetup(user) PROVE ClientTypeOK'
  <2>1. mClient' \in Clients
    BY <1>1, SetupMakesAClient DEF ConnectSetup
  <2>2. account' \in [Clients -> [username : Users, password : Users] \cup {NoAccount}]
    BY <1>1, <2>1 DEF ConnectSetup
  <2>3. QED
    BY <1>0, <1>1, <2>2 DEF ConnectSetup
<1>2. ASSUME NEW t \in Threads, ConnectSpawn(t) PROVE ClientTypeOK'
  BY <1>0, <1>2 DEF ConnectSpawn
<1>3. ASSUME NEW t \in Threads, ConnectAssign(t) PROVE ClientTypeOK'
  BY <1>0, <1>3 DEF ConnectAssign
<1>4. CASE UNCHANGED clientVars
  BY <1>0, <1>4 DEF clientVars
<1>5. CASE SendMessageWrite
  BY <1>0, <1>5 DEF SendMessageWrite
<1>6. ASSUME NEW s \in {"tls", "connect", "roster", "disconnect"}, Emit(s) PROVE ClientTypeOK'
  <2>1. heard' \in Seq({"tls", "connect", "roster", "disconnect"})
    BY <1>6, EmitType
  <2>2. misused' \in BOOLEAN
    BY <1>6 DEF Emit, UseSignals, Gone
  <2>3. QED
    BY <1>0, <1>6, <2>1, <2>2 DEF Emit, UseSignals
<1>7. ASSUME NEW t \in spawned, DisconnectThrows(t) PROVE ClientTypeOK'
  BY <1>0, <1>7 DEF DisconnectThrows
<1>8. CASE Terminate
  BY <1>0, <1>8 DEF Terminate
<1>9. CASE Destroying
  BY <1>0, <1>9 DEF Destroying
<1>10. CASE Quiet
  BY <1>0, <1>10 DEF Quiet, Gone
<1>11. QED
  BY <1>1, <1>2, <1>3, <1>4, <1>5, <1>6, <1>7, <1>8, <1>9, <1>10
     DEF ClientStep, ApplicationSteps, SendMessage, ThreadSteps, SignalTlsConnect,
         SignalConnect, SignalRoster, SignalDisconnect

(* sendMessage writes on the first client's stream, which it has found past *)
(* the clear.                                                               *)
LEMMA ClearStep ==
    ASSUME ClientTypeOK, PlacesOK, StageOK, Negotiated, NeverSentInTheClear, ClientStep
    PROVE  NeverSentInTheClear'
<1> USE DEF NeverSentInTheClear
<1>1. CASE SendMessageWrite
  <2>1. sending /\ sent' = stream[mClient]
    BY <1>1 DEF SendMessageWrite, SendMessageSend
  <2>2. mClient = 1 /\ mClient \in Clients
    BY <2>1, MaxSetupsAssumption DEF Negotiated, StageOK, Stages, PlacesOK, Clients
  <2>3. QED
    BY <2>1, <2>2 DEF Negotiated, Clear, Gone
<1>2. ASSUME NEW empty \in BOOLEAN, SendMessage(empty) PROVE NeverSentInTheClear'
  BY <1>2 DEF SendMessage, SendMessageTest
<1>3. ASSUME NEW t \in spawned, ThreadSteps(t) PROVE NeverSentInTheClear'
  BY <1>3, ThreadStepsEffect DEF ClientTypeOK, ListenerKept
<1>4. CASE sent' = sent
  BY <1>4
<1>5. QED
  BY <1>1, <1>2, <1>3, <1>4
     DEF ClientStep, ApplicationSteps, ConnectSetup, Setup, ConnectSpawn, CallOpenConnection,
         ConnectAssign, Destroying, Aged, Terminate, vars, sendVars

(* ~XmppListener is only reached before the first connect, and only a      *)
(* thread that still runs uses the signals.                                *)
LEMMA DestroyedStep ==
    ASSUME StageOK' PROVE DestroyedWithoutThread'
BY DEF StageOK, Stages, DestroyedWithoutThread

LEMMA MembersStep ==
    ASSUME ClientTypeOK, StageOK, MembersOK, ClientStep PROVE MembersOK'
<1> USE DEF MembersOK
<1>1. spawned # {} /\ Gone => appPc = "destroyThread" /\ mListenerThread # NoThread
  BY DEF StageOK, Stages, Gone
<1>2. ASSUME NEW t \in spawned, ThreadSteps(t) PROVE MembersOK'
  <2>1. UNCHANGED <<appPc, mListenerThread>>
    BY <1>2, ThreadStepsEffect DEF ClientTypeOK
  <2>2. misused' = misused \/ misused' = (misused \/ Gone)
    BY <1>2 DEF ThreadSteps, Quiet, SignalTlsConnect, SignalConnect, SignalRoster,
                SignalDisconnect, DisconnectThrows, Emit, UseSignals
  <2>3. QED
    BY <1>1, <1>2, <2>1, <2>2
<1>3. CASE spawned # {} /\ Quiet
  BY <1>1, <1>3 DEF Quiet
<1>4. CASE Destroying
  BY <1>4 DEF Destroying, Gone
<1>5. QED
  BY <1>2, <1>3, <1>4
     DEF ClientStep, ApplicationSteps, ConnectSetup, ConnectSpawn, ConnectAssign, SendMessage,
         SendMessageWrite, Terminate, clientVars

-----------------------------------------------------------------------------
(* The invariant. *)
LEMMA InitClientInv == ClientInit => ClientInv
<1> SUFFICES ASSUME ClientInit PROVE ClientInv
  OBVIOUS
<1>1. VariablesOK /\ PlacesOK /\ SocketsOK
  BY InitIInv DEF ClientInit, IInv
<1>2. heard = <<>> /\ heard \in Seq({"tls", "connect", "roster", "disconnect"})
  BY DEF ClientInit
<1>3. ClientTypeOK
  BY <1>1, <1>2 DEF ClientInit, ClientTypeOK
<1>4. StageOK /\ ThreadsStarted /\ SharingNeedsTwo /\ Negotiated
      /\ NeverSentInTheClear /\ DestroyedWithoutThread /\ MembersOK
  BY DEF ClientInit, Init, StageOK, Stages, MembersOK, ThreadsStarted, SharingNeedsTwo, Negotiated,
         NeverSentInTheClear, DestroyedWithoutThread
<1>5. SignalsInOrder /\ HeardInOrder
  BY <1>2 DEF ClientInit, Init, SignalsInOrder, HeardInOrder, Heard, ThreadInOrder, StreamInOrder, Said, Streams,
              Before, Clear, ConnectionError
<1>6. QED
  BY <1>1, <1>3, <1>4, <1>5 DEF ClientInv

LEMMA StepClientInv == ClientInv /\ ClientStep => ClientInv'
BY ListenerPart, ClientTypeStep, StageStep, StartedStep, SharingStep, NegotiatedStep, OrderStep,
   HeardStep, ClearStep, DestroyedStep, MembersStep DEF ClientInv

LEMMA StutterClientInv == ClientInv /\ UNCHANGED allVars => ClientInv'
<1> SUFFICES ASSUME ClientInv, UNCHANGED allVars PROVE ClientInv'
  OBVIOUS
<1>1. UNCHANGED <<vars, threadVars, sendVars, clientVars>>
  BY DEF allVars, vars
<1>2. VariablesOK' /\ PlacesOK' /\ SocketsOK'
  BY <1>1, TypeStep, PlacesStep, SocketsStep DEF ClientInv, ClientTypeOK
<1>3. ClientTypeOK'
  BY <1>1, <1>2 DEF ClientInv, ClientTypeOK, clientVars
<1>4. StageOK' /\ ThreadsStarted' /\ SharingNeedsTwo' /\ Negotiated'
      /\ NeverSentInTheClear' /\ DestroyedWithoutThread' /\ MembersOK'
  BY <1>1 DEF ClientInv, StageOK, Stages, MembersOK, ThreadsStarted, SharingNeedsTwo, Negotiated, Gone,
              vars, threadVars, sendVars, clientVars, NeverSentInTheClear, DestroyedWithoutThread
<1>5. SignalsInOrder' /\ HeardInOrder'
  BY <1>1, KeptInOrder DEF ClientInv, HeardInOrder, Heard, Said, Gone, vars, threadVars, clientVars
<1>6. QED
  BY <1>2, <1>3, <1>4, <1>5 DEF ClientInv

LEMMA SpecClientInv == ClientSpec => []ClientInv
<1>1. ClientInv /\ [ClientNext]_allVars => ClientInv'
  BY StepsOfClient, StepClientInv, StutterClientInv DEF ClientInv
<1>2. QED
  BY InitClientInv, <1>1, PTL DEF ClientSpec

-----------------------------------------------------------------------------
(* The variables of XmppClient keep their types, however often connect and *)
(* sendMessage are called and whatever the listener's threads do.          *)
THEOREM ClientTypeCorrect == ClientSpec => []ClientTypeOK
<1>1. ClientInv => ClientTypeOK
  BY DEF ClientInv
<1>2. QED
  BY <1>1, SpecClientInv, PTL

(* Two threads meet in a gloox client only after a second connect, inside  *)
(* of line 27, whose assignment ends the process.                          *)
THEOREM SharingEndsTheProcess == ClientSpec => []SharingIsFatal
<1>1. ClientInv => SharingIsFatal
  BY DEF ClientInv, SharingNeedsTwo, SharingIsFatal
<1>2. QED
  BY <1>1, SpecClientInv, PTL

(* No message is written before TLS or the login are through. *)
THEOREM NothingInTheClear == ClientSpec => []NeverSentInTheClear
<1>1. ClientInv => NeverSentInTheClear
  BY DEF ClientInv
<1>2. QED
  BY <1>1, SpecClientInv, PTL

(* Who uses a signal or mRoster after their destruction has not long to    *)
(* live: ~XmppClient is between mRoster and mListenerThread, which it      *)
(* cannot destroy without ending the process.                              *)
THEOREM MembersOutliveTheThread == ClientSpec => []DestroyedMembersAreFatal
<1>1. ClientInv => DestroyedMembersAreFatal
  BY DEF ClientInv, MembersOK, DestroyedMembersAreFatal
<1>2. QED
  BY <1>1, SpecClientInv, PTL

(* ~XmppListener, when ~XmppClient gets to it, has no stream to close and  *)
(* so makes no callback into the client that is being destroyed.           *)
THEOREM QuietDestructor == ClientSpec => DestructorIsSilent
<1>1. ClientInv /\ ClientStep => (lifetime' # lifetime => UNCHANGED <<stream, mIsConnected>>)
  <2> SUFFICES ASSUME ClientInv, ClientStep, lifetime' # lifetime
               PROVE  UNCHANGED <<stream, mIsConnected>>
    OBVIOUS
  <2>1. ClientTypeOK /\ VariablesOK /\ spawned \subseteq Threads
    BY DEF ClientInv, ClientTypeOK
  <2>2. ASSUME NEW t \in spawned, ThreadSteps(t) PROVE FALSE
    BY <2>1, <2>2, ThreadStepsEffect DEF ListenerKept
  <2>3. Destroying
    BY <2>2
       DEF ClientStep, ApplicationSteps, ConnectSetup, Setup, ConnectSpawn, CallOpenConnection,
           ConnectAssign, SendMessage, SendMessageTest, SendMessageWrite, SendMessageSend,
           Terminate, vars
  <2>4. QED
    BY <2>3 DEF Destroying, Aged
<1>2. UNCHANGED allVars => lifetime' = lifetime
  BY DEF allVars, vars
<1>3. ClientInv /\ [ClientNext]_allVars =>
        [lifetime' # lifetime => UNCHANGED <<stream, mIsConnected>>]_allVars
  BY <1>1, StepsOfClient DEF ClientInv
<1>4. QED
  BY <1>3, SpecClientInv, PTL DEF ClientSpec, DestructorIsSilent

(* ~XmppListener never runs beside a thread of the listener. *)
THEOREM DestroyedAlone == ClientSpec => []DestroyedWithoutThread
<1>1. ClientInv => DestroyedWithoutThread
  BY DEF ClientInv
<1>2. QED
  BY <1>1, SpecClientInv, PTL

-----------------------------------------------------------------------------
(* XmppClient implements XmppLifecycle. *)
LEMMA Ranks ==
    /\ Lifecycle!Rank("tls") = 1 /\ Lifecycle!Rank("connect") = 2
    /\ Lifecycle!Rank("roster") = 3 /\ Lifecycle!Rank("disconnect") = 4
    /\ Lifecycle!Signals = {"tls", "connect", "roster", "disconnect"}
<1>1. DOMAIN Lifecycle!Order = 1 .. 4
  BY DEF Lifecycle!Order
<1>2. /\ Lifecycle!Order[1] = "tls" /\ Lifecycle!Order[2] = "connect"
      /\ Lifecycle!Order[3] = "roster" /\ Lifecycle!Order[4] = "disconnect"
  BY DEF Lifecycle!Order
<1>3. \A i \in DOMAIN Lifecycle!Order : i = 1 \/ i = 2 \/ i = 3 \/ i = 4
  BY <1>1
<1>4. /\ 1 \in DOMAIN Lifecycle!Order /\ 2 \in DOMAIN Lifecycle!Order
      /\ 3 \in DOMAIN Lifecycle!Order /\ 4 \in DOMAIN Lifecycle!Order
  BY <1>1
<1>5. Lifecycle!Rank("tls") = 1 /\ Lifecycle!Rank("connect") = 2
  BY <1>2, <1>3, <1>4 DEF Lifecycle!Rank
<1>6. Lifecycle!Rank("roster") = 3 /\ Lifecycle!Rank("disconnect") = 4
  BY <1>2, <1>3, <1>4 DEF Lifecycle!Rank
<1>7. Lifecycle!Signals = {"tls", "connect", "roster", "disconnect"}
  BY <1>2, <1>3, <1>4 DEF Lifecycle!Signals
<1>8. QED
  BY <1>5, <1>6, <1>7

(* What comes last in the signals so far decides what may follow. *)
LEMMA Follows ==
    ASSUME ClientTypeOK
    PROVE  /\ Said = "none" => Lifecycle!MayFollow("tls")
           /\ Said \in {"none", "tls"} => Lifecycle!MayFollow("connect")
           /\ Said = "connect" => Lifecycle!MayFollow("roster")
           /\ Said # "disconnect" => Lifecycle!MayFollow("disconnect")
<1>1. heard # <<>> => Said \in {"tls", "connect", "roster", "disconnect"}
  <2> DEFINE S == {"tls", "connect", "roster", "disconnect"}
  <2>1. heard \in Seq(S)
    BY DEF ClientTypeOK
  <2>2. heard # <<>> => Len(heard) \in Nat \ {0}
    BY <2>1, EmptySeq
  <2>3. heard # <<>> => heard[Len(heard)] \in S
    BY <2>1, <2>2, ElementOfSeq
  <2>4. QED
    BY <2>3 DEF Said
<1>2. QED
  BY <1>1, Ranks DEF Lifecycle!MayFollow, Said

(* A signal is one that the specification allows at this point. *)
LEMMA SignalsAllowed ==
    ASSUME ClientInv, NEW t \in spawned, process = "running",
           NEW s \in {"tls", "connect", "roster", "disconnect"}, Emit(s),
           \/ s = "tls" /\ note[t] = "onTLSConnect"
           \/ s = "connect" /\ note[t] = "onConnect"
           \/ s = "roster" /\ note[t] = "handleRoster"
           \/ s = "disconnect" /\ note[t] \in ConnectionError,
           UNCHANGED mClient
    PROVE  Lifecycle!Signal(s) \/ UNCHANGED <<Life, heard>>
<1>1. ClientTypeOK /\ StageOK /\ SignalsInOrder /\ t \in Threads
  BY DEF ClientInv, ClientTypeOK
<1>2. mClient \in {1, 2}
  BY <1>1 DEF StageOK, Stages
<1>3. /\ heard' = Append(heard, s) \/ (Gone /\ heard' = heard)
      /\ Life' = Life
  BY DEF Emit, UseSignals, Life, Gone
<1>4. CASE mClient = 1 /\ ~Gone
  <2>1. Life = "started"
    BY <1>4 DEF Life
  <2>2. ThreadInOrder(t)
    BY <1>1, <1>4 DEF SignalsInOrder
  <2>3. Lifecycle!MayFollow(s)
    BY <1>1, <2>2, Follows DEF ThreadInOrder
  <2>4. QED
    BY <1>3, <2>1, <2>3 DEF Lifecycle!Signal
<1>5. CASE mClient = 2 \/ Gone
  <2>1. Life = "doomed"
    BY <1>2, <1>5 DEF Life
  <2>2. QED
    BY <1>3, <2>1 DEF Lifecycle!Signal
<1>6. QED
  BY <1>2, <1>4, <1>5

LEMMA LifecycleStep ==
    ASSUME ClientInv, ClientStep
    PROVE  Lifecycle!Next \/ UNCHANGED <<Life, heard>>
<1>0. ClientTypeOK /\ VariablesOK /\ StageOK /\ process = "running"
      /\ spawned \subseteq Threads
  BY DEF ClientInv, ClientTypeOK, ClientStep
<1>1. ASSUME NEW user \in Users, ConnectSetup(user) PROVE Lifecycle!Next
  <2>1. mClient' = mClient + 1 /\ UNCHANGED <<heard, process>> /\ appPc = "idle" /\ appPc' = "spawn"
    BY <1>1 DEF ConnectSetup, Setup
  <2>2. mClient = 0 \/ mClient = 1
    BY <1>0, <2>1 DEF StageOK, Stages
  <2>3. Lifecycle!Connect
    BY <1>0, <2>1, <2>2 DEF Lifecycle!Connect, Life, Gone
  <2>4. QED
    BY <2>3 DEF Lifecycle!Next
<1>2. CASE Destroying
  <2>1. UNCHANGED <<mClient, heard, process>> /\ Gone'
    BY <1>2 DEF Destroying, Aged, Gone
  <2>2. CASE Gone \/ mClient = 2
    BY <2>1, <2>2 DEF Life
  <2>3. CASE ~Gone /\ mClient \in {0, 1}
    <3>1. Lifecycle!Destroy
      BY <1>0, <2>1, <2>3 DEF Lifecycle!Destroy, Life
    <3>2. QED
      BY <3>1 DEF Lifecycle!Next
  <2>4. QED
    BY <1>0, <2>2, <2>3 DEF StageOK, Stages
<1>3. CASE spawned # {} /\ Terminate
  <2>1. mClient \in {1, 2} /\ process' = "terminated" /\ heard' = heard
    BY <1>0, <1>3 DEF StageOK, Stages, Terminate, vars
  <2>2. Lifecycle!Terminate
    BY <1>0, <2>1 DEF Lifecycle!Terminate, Life
  <2>3. QED
    BY <2>2 DEF Lifecycle!Next
<1>4. ASSUME NEW t \in spawned, ThreadSteps(t)
      PROVE  Lifecycle!Next \/ UNCHANGED <<Life, heard>>
  <2>1. UNCHANGED <<mClient, process>> /\ Gone' = Gone
    BY <1>0, <1>4, ThreadStepsEffect DEF ListenerKept, Gone
  <2>2. ASSUME NEW s \in {"tls", "connect", "roster", "disconnect"}, Lifecycle!Signal(s)
        PROVE  Lifecycle!Next
    BY <2>2, Ranks DEF Lifecycle!Next
  <2>3. CASE SignalTlsConnect(t)
    BY <1>0, <2>1, <2>2, <2>3, SignalsAllowed DEF SignalTlsConnect, onTLSConnect
  <2>4. CASE SignalConnect(t)
    BY <1>0, <2>1, <2>2, <2>4, SignalsAllowed DEF SignalConnect, onConnect
  <2>5. CASE SignalRoster(t)
    BY <1>0, <2>1, <2>2, <2>5, SignalsAllowed DEF SignalRoster, handleRoster
  <2>6. CASE SignalDisconnect(t)
    BY <1>0, <2>1, <2>2, <2>6, SignalsAllowed DEF SignalDisconnect, onDisconnect
  <2>7. CASE heard' = heard
    BY <2>1, <2>7 DEF Life
  <2>8. QED
    BY <1>4, <2>3, <2>4, <2>5, <2>6, <2>7 DEF ThreadSteps, DisconnectThrows, Quiet
<1>5. CASE UNCHANGED <<mClient, process, heard>> /\ Gone' = Gone
  BY <1>5 DEF Life
<1>6. ASSUME NEW t \in Threads, ConnectSpawn(t) \/ ConnectAssign(t)
      PROVE  UNCHANGED <<mClient, process, heard>> /\ Gone' = Gone
  BY <1>6 DEF ConnectSpawn, CallOpenConnection, ConnectAssign, Gone, vars
<1>7. ASSUME NEW empty \in BOOLEAN, SendMessage(empty) \/ SendMessageWrite
      PROVE  UNCHANGED <<mClient, process, heard>> /\ Gone' = Gone
  BY <1>7 DEF SendMessage, SendMessageTest, SendMessageWrite, SendMessageSend, Gone, clientVars
<1>8. ASSUME Quiet, UNCHANGED vars
      PROVE  UNCHANGED <<mClient, process, heard>> /\ Gone' = Gone
  BY <1>8 DEF Quiet, Gone, vars
<1>9. QED
  BY <1>1, <1>2, <1>3, <1>4, <1>5, <1>6, <1>7, <1>8 DEF ClientStep, ApplicationSteps

LEMMA LifecycleInit == ClientInit => Lifecycle!Init
BY DEF ClientInit, Init, Lifecycle!Init, Life, Gone

(* Every behaviour of an XmppClient is one that XmppLifecycle allows: the  *)
(* signals of its one connection come at most once each and in order,      *)
(* nothing follows the termination, and a client whose connect was called  *)
(* twice ends in no other way.                                             *)
THEOREM FollowsLifecycle == ClientSpec => ImplementsLifecycle
<1>1. ClientInv /\ [ClientNext]_allVars => [Lifecycle!Next]_(Lifecycle!vars)
  <2>1. UNCHANGED allVars => UNCHANGED <<Life, heard>>
    BY DEF allVars, vars, clientVars, Life, Gone
  <2>2. QED
    BY <2>1, StepsOfClient, LifecycleStep DEF ClientInv, Lifecycle!vars
<1>2. QED
  BY <1>1, LifecycleInit, SpecClientInv, PTL DEF ClientSpec, ImplementsLifecycle, Lifecycle!Spec
=============================================================================
