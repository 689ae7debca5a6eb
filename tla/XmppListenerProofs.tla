------------------------- MODULE XmppListenerProofs -------------------------
(***************************************************************************)
(* Proofs about XmppListener for every number of threads and of calls of   *)
(* setup, and for every set of reasons that gloox may give.                *)
(***************************************************************************)
EXTENDS XmppListener, TLAPS

Outside == {"idle", "entry", "connect", "loop"}

(* A thread is inside a client that setup has made, or inside none; where  *)
(* the code dereferences mClient the pointer has been set.                 *)
PlacesOK ==
    /\ \A t \in Threads :
          /\ pc[t] \in Outside <=> inside[t] = 0
          /\ inside[t] <= mClient
          /\ pc[t] \in {"connect", "loop"} => mClient # 0
          /\ pc[t] = "callback" => note[t] # "none"
    /\ sending => mClient # 0

(* The socket of a client that setup has not made yet is closed; one that  *)
(* is being opened has a thread that opens it.                             *)
SocketsOK ==
    /\ \A c \in Clients : c > mClient => stream[c] = "down"
    /\ \A c \in Clients : stream[c] = "connecting" =>
          \E t \in Threads : pc[t] = "connecting" /\ inside[t] = c

(* As long as no two threads have met in a client, none are in one         *)
(* together, and a thread finds the stream as it left it.                  *)
AloneOK ==
    ~shared =>
        /\ \A t, u \in Threads : t # u /\ inside[t] # 0 => inside[t] # inside[u]
        /\ \A t \in Threads :
              /\ pc[t] = "connecting" => stream[inside[t]] = "connecting"
              /\ pc[t] = "callback" /\ note[t] \in {"onTLSConnect", "onConnect"} =>
                    stream[inside[t]] \in Raised

IInv ==
    VariablesOK /\ PlacesOK /\ SocketsOK /\ AloneOK /\ FlagHasAStream /\ CurrentStreamServed
-----------------------------------------------------------------------------
(* The helpers of the actions keep the thread variables well typed. *)
LEMMA GotoTypes ==
    ASSUME NEW t \in Threads, NEW place \in Places, ThreadsOK, Goto(t, place)
    PROVE  ThreadsOK'
  BY MaxSetupsAssumption DEF ThreadsOK, Goto, Places

LEMMA EnterTypes ==
    ASSUME NEW t \in Threads, NEW place \in Places, NEW c \in 0 .. MaxSetups,
           NEW block \in BOOLEAN, ThreadsOK, Enter(t, place, c, block), shared \in BOOLEAN
    PROVE  ThreadsOK' /\ shared' \in BOOLEAN
  BY DEF ThreadsOK, Enter, Places

LEMMA NotifyTypes ==
    ASSUME NEW t \in Threads, NEW place \in Places, NEW n \in Notifications,
           ThreadsOK, Notify(t, place, n)
    PROVE  ThreadsOK'
  BY DEF ThreadsOK, Notify, Places

LEMMA HandledTypes ==
    ASSUME NEW t \in Threads, ThreadsOK, Handled(t)
    PROVE  ThreadsOK'
  BY GotoTypes DEF ThreadsOK, Handled, Places

(* The client a thread is inside of has a stream, and so has mClient. *)
LEMMA ReceivesTypes ==
    ASSUME NEW t \in Threads, NEW from, NEW to \in StreamStates, VariablesOK, Receives(t, from, to)
    PROVE  /\ mIsConnected' \in BOOLEAN /\ mClient' \in 0 .. MaxSetups
           /\ stream' \in [Clients -> StreamStates] /\ sending' \in BOOLEAN
           /\ sent' \in {"none", "rejected"} \cup StreamStates
           /\ lifetime' \in Lifetimes /\ shared' \in BOOLEAN
  BY DEF VariablesOK, Receives, sendVars

-----------------------------------------------------------------------------
(* Every step keeps the type invariant. *)
LEMMA TypeStep == VariablesOK /\ PlacesOK /\ [Next]_vars => VariablesOK'
<1> SUFFICES ASSUME VariablesOK, PlacesOK, [Next]_vars PROVE VariablesOK'
  OBVIOUS
<1> USE MaxSetupsAssumption DEF VariablesOK, threadVars, sendVars
<1>1. CASE Setup
  BY <1>1 DEF Setup, ThreadsOK
<1>2. ASSUME NEW t \in Threads, NEW toggle \in BOOLEAN, CallOpenConnection(t, toggle) PROVE VariablesOK'
  BY <1>2 DEF CallOpenConnection, ThreadsOK, Places
<1>3. ASSUME NEW empty \in BOOLEAN, SendMessageTest(empty) PROVE VariablesOK'
  BY <1>3 DEF SendMessageTest, ThreadsOK
<1>4. CASE SendMessageSend
  <2>1. mClient \in Clients
    BY <1>4 DEF SendMessageSend, PlacesOK, Clients
  <2>2. sent' \in StreamStates
    BY <1>4, <2>1 DEF SendMessageSend
  <2>3. QED
    BY <1>4, <2>2 DEF SendMessageSend, ThreadsOK
<1>5. CASE DestructorDisconnect
  BY <1>5 DEF DestructorDisconnect, StreamStates, Lifetimes, ThreadsOK
<1>6. ASSUME NEW t \in Threads, OpenConnection(t) PROVE VariablesOK'
  <2>1. ThreadsOK'
    BY <1>6, GotoTypes DEF OpenConnection, ThreadsOK, Places
  <2>2. QED
    BY <1>6, <2>1 DEF OpenConnection
<1>7. ASSUME NEW t \in Threads, Connect(t) PROVE VariablesOK'
  <2>1. ThreadsOK' /\ shared' \in BOOLEAN
    <3>1. CASE Enter(t, "connecting", mClient, blocking[t])
      BY <3>1, EnterTypes DEF ThreadsOK, Places
    <3>2. CASE Goto(t, "loop") /\ UNCHANGED shared
      BY <3>2, GotoTypes DEF Places
    <3>3. CASE Goto(t, "idle") /\ UNCHANGED shared
      BY <3>3, GotoTypes DEF Places
    <3>4. QED
      BY <1>7, <3>1, <3>2, <3>3 DEF Connect
  <2>2. stream' \in [Clients -> StreamStates]
    BY <1>7 DEF Connect, StreamStates
  <2>3. QED
    BY <1>7, <2>1, <2>2 DEF Connect
<1>8. ASSUME NEW t \in Threads, SocketOpened(t) PROVE VariablesOK'
  <2>1. ThreadsOK'
    BY <1>8, HandledTypes DEF SocketOpened
  <2>2. QED
    BY <1>8, <2>1 DEF SocketOpened, StreamStates
<1>9. ASSUME NEW t \in Threads, NEW e \in RefusalReasons, SocketRefused(t, e) PROVE VariablesOK'
  <2>1. ThreadsOK'
    BY <1>9, NotifyTypes, ReasonsAssumption DEF SocketRefused, Notifications, Places
  <2>2. QED
    BY <1>9, <2>1 DEF SocketRefused, StreamStates
<1>10. ASSUME NEW t \in Threads, Loop(t) PROVE VariablesOK'
  <2>1. ThreadsOK' /\ shared' \in BOOLEAN
    <3>1. CASE Enter(t, "recv", mClient, FALSE)
      BY <3>1, EnterTypes DEF Places
    <3>2. CASE Goto(t, "idle") /\ UNCHANGED shared
      BY <3>2, GotoTypes DEF Places
    <3>3. QED
      BY <1>10, <3>1, <3>2 DEF Loop
  <2>2. QED
    BY <1>10, <2>1 DEF Loop
<1>11. ASSUME NEW t \in Threads, RecvNotConnected(t) PROVE VariablesOK'
  <2>1. ThreadsOK'
    BY <1>11, GotoTypes DEF RecvNotConnected, Places
  <2>2. QED
    BY <1>11, <2>1 DEF RecvNotConnected
<1>12. ASSUME NEW t \in Threads, TlsHandshake(t) PROVE VariablesOK'
  <2>1. ThreadsOK'
    BY <1>12, NotifyTypes DEF TlsHandshake, Notifications, Places
  <2>2. QED
    BY <1>12, <2>1, ReceivesTypes DEF TlsHandshake, StreamStates
<1>13. ASSUME NEW t \in Threads, Authenticated(t) PROVE VariablesOK'
  <2>1. ThreadsOK'
    BY <1>13, HandledTypes DEF Authenticated
  <2>2. QED
    BY <1>13, <2>1, ReceivesTypes DEF Authenticated, StreamStates
<1>14. ASSUME NEW t \in Threads, RosterAnswer(t) PROVE VariablesOK'
  <2>1. ThreadsOK'
    BY <1>14, NotifyTypes DEF RosterAnswer, Notifications, Places
  <2>2. QED
    BY <1>14, <2>1, ReceivesTypes DEF RosterAnswer, StreamStates
<1>15. ASSUME NEW t \in Threads, Stanza(t) PROVE VariablesOK'
  <2>1. ThreadsOK'
    BY <1>15, HandledTypes DEF Stanza
  <2>2. QED
    BY <1>15, <2>1, ReceivesTypes DEF Stanza, StreamStates
<1>16. ASSUME NEW t \in Threads, NEW e \in EndReasons, StreamEnd(t, e) PROVE VariablesOK'
  <2>1. ThreadsOK'
    BY <1>16, NotifyTypes, ReasonsAssumption DEF StreamEnd, Notifications, Places
  <2>2. QED
    BY <1>16, <2>1, ReceivesTypes DEF StreamEnd, StreamStates
<1>17. ASSUME NEW t \in Threads, onTLSConnect(t) PROVE VariablesOK'
  <2>1. ThreadsOK'
    BY <1>17, HandledTypes DEF onTLSConnect
  <2>2. QED
    BY <1>17, <2>1 DEF onTLSConnect
<1>18. ASSUME NEW t \in Threads, onConnect(t) PROVE VariablesOK'
  <2>1. ThreadsOK'
    BY <1>18, HandledTypes, NotifyTypes DEF onConnect, Notifications, Places
  <2>2. QED
    BY <1>18, <2>1 DEF onConnect
<1>19. ASSUME NEW t \in Threads, handleRoster(t) PROVE VariablesOK'
  <2>1. ThreadsOK'
    BY <1>19, HandledTypes DEF handleRoster
  <2>2. QED
    BY <1>19, <2>1 DEF handleRoster
<1>20. ASSUME NEW t \in Threads, onDisconnect(t) PROVE VariablesOK'
  <2>1. ThreadsOK'
    BY <1>20, GotoTypes DEF onDisconnect, Places
  <2>2. QED
    BY <1>20, <2>1 DEF onDisconnect
<1>21. CASE UNCHANGED vars
  BY <1>21 DEF vars, ThreadsOK
<1>22. CASE DestructorDelete
  BY <1>22 DEF DestructorDelete, ThreadsOK, Lifetimes
<1>23. CASE UseDeleted
  BY <1>23 DEF UseDeleted, ThreadsOK, Lifetimes
<1>24. QED
  BY <1>1, <1>2, <1>3, <1>4, <1>5, <1>6, <1>7, <1>8, <1>9, <1>10, <1>11, <1>12, <1>13,
     <1>14, <1>15, <1>16, <1>17, <1>18, <1>19, <1>20, <1>21, <1>22, <1>23
     DEF Next, Application, ThreadStep, NetworkStep, Callback

(* What the helpers do to the thread that takes the step, and that they    *)
(* leave the others alone.                                                 *)
Others(t) ==
    \A u \in Threads \ {t} : pc'[u] = pc[u] /\ inside'[u] = inside[u] /\ note'[u] = note[u]

LEMMA GotoEffect ==
    ASSUME NEW t \in Threads, NEW place, ThreadsOK, Goto(t, place)
    PROVE  pc'[t] = place /\ inside'[t] = 0 /\ note'[t] = "none" /\ Others(t)
  BY DEF ThreadsOK, Goto, Others

LEMMA EnterEffect ==
    ASSUME NEW t \in Threads, NEW place, NEW c, NEW block, ThreadsOK, Enter(t, place, c, block)
    PROVE  /\ pc'[t] = place /\ inside'[t] = c /\ note'[t] = "none" /\ Others(t)
           /\ shared' = (shared \/ \E u \in Threads \ {t} : inside[u] = c)
  BY DEF ThreadsOK, Enter, Others

LEMMA NotifyEffect ==
    ASSUME NEW t \in Threads, NEW place, NEW n, ThreadsOK, Notify(t, place, n)
    PROVE  pc'[t] = place /\ inside'[t] = inside[t] /\ note'[t] = n /\ Others(t)
  BY DEF ThreadsOK, Notify, Others

LEMMA HandledEffect ==
    ASSUME NEW t \in Threads, ThreadsOK, Handled(t)
    PROVE  /\ \/ pc'[t] = "recv" /\ inside'[t] = inside[t]
              \/ pc'[t] = "loop" /\ inside'[t] = 0
           /\ note'[t] = "none" /\ Others(t)
  BY DEF ThreadsOK, Handled, Goto, Others

LEMMA ReceivesEffect ==
    ASSUME NEW t \in Threads, NEW from, NEW to, VariablesOK, PlacesOK, Receives(t, from, to)
    PROVE  /\ pc[t] = "recv" /\ inside[t] \in Clients /\ stream[inside[t]] \in from
           /\ stream' \in [Clients -> StreamStates \cup {to}]
           /\ stream'[inside[t]] = to
           /\ \A c \in Clients : c # inside[t] => stream'[c] = stream[c]
           /\ mClient' = mClient /\ mIsConnected' = mIsConnected /\ sending' = sending
           /\ shared' = shared
  BY MaxSetupsAssumption
     DEF VariablesOK, ThreadsOK, PlacesOK, Receives, Clients, Outside, Places, sendVars

(* Every step keeps PlacesOK. *)
LEMMA PlacesStep == VariablesOK /\ PlacesOK /\ [Next]_vars => PlacesOK'
<1> SUFFICES ASSUME VariablesOK, PlacesOK, [Next]_vars PROVE PlacesOK'
  OBVIOUS
<1> USE DEF VariablesOK, ThreadsOK, Places, PlacesOK, Outside, threadVars, sendVars
<1>1. CASE Setup
  BY <1>1 DEF Setup
<1>2. ASSUME NEW t \in Threads, NEW toggle \in BOOLEAN, CallOpenConnection(t, toggle) PROVE PlacesOK'
  BY <1>2 DEF CallOpenConnection
<1>3. ASSUME NEW empty \in BOOLEAN, SendMessageTest(empty) PROVE PlacesOK'
  BY <1>3 DEF SendMessageTest
<1>4. CASE SendMessageSend
  BY <1>4 DEF SendMessageSend
<1>5. CASE DestructorDisconnect
  BY <1>5 DEF DestructorDisconnect
<1>6. ASSUME NEW t \in Threads, OpenConnection(t) PROVE PlacesOK'
  BY <1>6 DEF OpenConnection, Goto
<1>7. ASSUME NEW t \in Threads, Connect(t) PROVE PlacesOK'
  BY <1>7 DEF Connect, Goto, Enter
<1>8. ASSUME NEW t \in Threads, SocketOpened(t) PROVE PlacesOK'
  BY <1>8 DEF SocketOpened, Handled, Goto
<1>9. ASSUME NEW t \in Threads, NEW e \in RefusalReasons, SocketRefused(t, e) PROVE PlacesOK'
  BY <1>9 DEF SocketRefused, Notify
<1>10. ASSUME NEW t \in Threads, Loop(t) PROVE PlacesOK'
  BY <1>10 DEF Loop, Goto, Enter
<1>11. ASSUME NEW t \in Threads, RecvNotConnected(t) PROVE PlacesOK'
  BY <1>11 DEF RecvNotConnected, Goto
<1>12. ASSUME NEW t \in Threads, TlsHandshake(t) PROVE PlacesOK'
  BY <1>12 DEF TlsHandshake, Receives, Notify
<1>13. ASSUME NEW t \in Threads, Authenticated(t) PROVE PlacesOK'
  BY <1>13 DEF Authenticated, Receives, Handled, Goto
<1>14. ASSUME NEW t \in Threads, RosterAnswer(t) PROVE PlacesOK'
  BY <1>14 DEF RosterAnswer, Receives, Notify
<1>15. ASSUME NEW t \in Threads, Stanza(t) PROVE PlacesOK'
  BY <1>15 DEF Stanza, Receives, Handled, Goto
<1>16. ASSUME NEW t \in Threads, NEW e \in EndReasons, StreamEnd(t, e) PROVE PlacesOK'
  BY <1>16, ReasonsAssumption DEF StreamEnd, Receives, Notify, ConnectionError
<1>17. ASSUME NEW t \in Threads, onTLSConnect(t) PROVE PlacesOK'
  BY <1>17 DEF onTLSConnect, Handled, Goto
<1>18. ASSUME NEW t \in Threads, onConnect(t) PROVE PlacesOK'
  BY <1>18 DEF onConnect, Handled, Goto, Notify
<1>19. ASSUME NEW t \in Threads, handleRoster(t) PROVE PlacesOK'
  BY <1>19 DEF handleRoster, Handled, Goto
<1>20. ASSUME NEW t \in Threads, onDisconnect(t) PROVE PlacesOK'
  BY <1>20 DEF onDisconnect, Goto
<1>21. CASE UNCHANGED vars
  BY <1>21 DEF vars
<1>22. CASE DestructorDelete
  BY <1>22 DEF DestructorDelete
<1>23. CASE UseDeleted
  BY <1>23 DEF UseDeleted
<1>24. QED
  BY <1>1, <1>2, <1>3, <1>4, <1>5, <1>6, <1>7, <1>8, <1>9, <1>10, <1>11, <1>12, <1>13,
     <1>14, <1>15, <1>16, <1>17, <1>18, <1>19, <1>20, <1>21, <1>22, <1>23
     DEF Next, Application, ThreadStep, NetworkStep, Callback


(* Every step keeps SocketsOK. *)
LEMMA SocketsStep == VariablesOK /\ PlacesOK /\ SocketsOK /\ [Next]_vars => SocketsOK'
<1> SUFFICES ASSUME VariablesOK, PlacesOK, SocketsOK, [Next]_vars PROVE SocketsOK'
  OBVIOUS
<1> USE MaxSetupsAssumption DEF VariablesOK, ThreadsOK, Places, PlacesOK, Outside, threadVars, sendVars, SocketsOK, Clients, Open
<1>1. CASE Setup
  BY <1>1 DEF Setup
<1>2. ASSUME NEW t \in Threads, NEW toggle \in BOOLEAN, CallOpenConnection(t, toggle) PROVE SocketsOK'
  BY <1>2 DEF CallOpenConnection
<1>3. ASSUME NEW empty \in BOOLEAN, SendMessageTest(empty) PROVE SocketsOK'
  BY <1>3 DEF SendMessageTest
<1>4. CASE SendMessageSend
  BY <1>4 DEF SendMessageSend
<1>5. CASE DestructorDisconnect
  BY <1>5 DEF DestructorDisconnect
<1>6. ASSUME NEW t \in Threads, OpenConnection(t) PROVE SocketsOK'
  BY <1>6 DEF OpenConnection, Goto
<1>7. ASSUME NEW t \in Threads, Connect(t) PROVE SocketsOK'
  <2>1. CASE Enter(t, "connecting", mClient, blocking[t])
    <3>1. Enter(t, "connecting", mClient, blocking[t]) /\ mClient' = mClient /\ sending' = sending
      BY <1>7, <2>1 DEF Connect
    <3>2. \A c \in Clients : c # mClient => stream'[c] = stream[c]
      BY <1>7 DEF Connect
    <3>3. pc'[t] = "connecting" /\ inside'[t] = mClient /\ Others(t)
      BY <3>1, EnterEffect
    <3>4. ASSUME NEW c \in Clients, stream'[c] = "connecting"
          PROVE  \E u \in Threads : pc'[u] = "connecting" /\ inside'[u] = c
      <4>1. CASE c = mClient
        BY <3>3, <4>1
      <4>2. CASE c # mClient
        <5>1. PICK u \in Threads : pc[u] = "connecting" /\ inside[u] = c
          BY <3>2, <3>4, <4>2
        <5>2. u # t
          BY <1>7, <5>1 DEF Connect
        <5>3. QED
          BY <3>3, <5>1, <5>2 DEF Others
      <4>3. QED
        BY <4>1, <4>2
    <3>5. QED
      BY <3>1, <3>2, <3>4
  <2>2. ASSUME NEW place \in {"loop", "idle"}, Goto(t, place), stream' = stream PROVE SocketsOK'
    <3>1. mClient' = mClient /\ pc[t] = "connect"
      BY <1>7 DEF Connect
    <3>2. Others(t)
      BY <2>2, GotoEffect
    <3>3. QED
      BY <2>2, <3>1, <3>2 DEF Others
  <2>3. QED
    BY <1>7, <2>1, <2>2 DEF Connect
<1>8. ASSUME NEW t \in Threads, SocketOpened(t) PROVE SocketsOK'
  BY <1>8 DEF SocketOpened, Handled, Goto
<1>9. ASSUME NEW t \in Threads, NEW e \in RefusalReasons, SocketRefused(t, e) PROVE SocketsOK'
  BY <1>9 DEF SocketRefused, Notify
<1>10. ASSUME NEW t \in Threads, Loop(t) PROVE SocketsOK'
  BY <1>10 DEF Loop, Goto, Enter
<1>11. ASSUME NEW t \in Threads, RecvNotConnected(t) PROVE SocketsOK'
  BY <1>11 DEF RecvNotConnected, Goto
<1>12. ASSUME NEW t \in Threads, TlsHandshake(t) PROVE SocketsOK'
  BY <1>12 DEF TlsHandshake, Receives, Notify
<1>13. ASSUME NEW t \in Threads, Authenticated(t) PROVE SocketsOK'
  BY <1>13 DEF Authenticated, Receives, Handled, Goto
<1>14. ASSUME NEW t \in Threads, RosterAnswer(t) PROVE SocketsOK'
  BY <1>14 DEF RosterAnswer, Receives, Notify
<1>15. ASSUME NEW t \in Threads, Stanza(t) PROVE SocketsOK'
  BY <1>15 DEF Stanza, Receives, Handled, Goto
<1>16. ASSUME NEW t \in Threads, NEW e \in EndReasons, StreamEnd(t, e) PROVE SocketsOK'
  BY <1>16 DEF StreamEnd, Receives, Notify
<1>17. ASSUME NEW t \in Threads, onTLSConnect(t) PROVE SocketsOK'
  BY <1>17 DEF onTLSConnect, Handled, Goto
<1>18. ASSUME NEW t \in Threads, onConnect(t) PROVE SocketsOK'
  BY <1>18 DEF onConnect, Handled, Goto, Notify
<1>19. ASSUME NEW t \in Threads, handleRoster(t) PROVE SocketsOK'
  BY <1>19 DEF handleRoster, Handled, Goto
<1>20. ASSUME NEW t \in Threads, onDisconnect(t) PROVE SocketsOK'
  BY <1>20 DEF onDisconnect, Goto
<1>21. CASE UNCHANGED vars
  BY <1>21 DEF vars
<1>22. CASE DestructorDelete
  BY <1>22 DEF DestructorDelete
<1>23. CASE UseDeleted
  BY <1>23 DEF UseDeleted
<1>24. QED
  BY <1>1, <1>2, <1>3, <1>4, <1>5, <1>6, <1>7, <1>8, <1>9, <1>10, <1>11, <1>12, <1>13,
     <1>14, <1>15, <1>16, <1>17, <1>18, <1>19, <1>20, <1>21, <1>22, <1>23
     DEF Next, Application, ThreadStep, NetworkStep, Callback


(* Every step keeps AloneOK. *)
LEMMA AloneStep == VariablesOK /\ PlacesOK /\ AloneOK /\ [Next]_vars => AloneOK'
<1> SUFFICES ASSUME VariablesOK, PlacesOK, AloneOK, [Next]_vars PROVE AloneOK'
  OBVIOUS
<1> USE DEF VariablesOK, ThreadsOK, Places, PlacesOK, Outside, threadVars, sendVars, AloneOK, Clients, Open, Raised
<1>1. CASE Setup
  BY <1>1 DEF Setup
<1>2. ASSUME NEW t \in Threads, NEW toggle \in BOOLEAN, CallOpenConnection(t, toggle) PROVE AloneOK'
  BY <1>2 DEF CallOpenConnection
<1>3. ASSUME NEW empty \in BOOLEAN, SendMessageTest(empty) PROVE AloneOK'
  BY <1>3 DEF SendMessageTest
<1>4. CASE SendMessageSend
  BY <1>4 DEF SendMessageSend
<1>5. CASE DestructorDisconnect
  <2>1. UNCHANGED <<pc, inside, note>> /\ (shared => shared')
    BY <1>5 DEF DestructorDisconnect
  <2>2. ~shared' => \A u \in Threads : inside[u] \in Clients => stream'[inside[u]] = stream[inside[u]]
    BY <1>5 DEF DestructorDisconnect
  <2>3. \A u \in Threads : pc[u] \in {"connecting", "callback"} => inside[u] \in Clients
    BY MaxSetupsAssumption
  <2>4. QED
    BY <2>1, <2>2, <2>3
<1>6. ASSUME NEW t \in Threads, OpenConnection(t) PROVE AloneOK'
  BY <1>6 DEF OpenConnection, Goto
<1>7. ASSUME NEW t \in Threads, Connect(t) PROVE AloneOK'
  <2>1. CASE /\ Enter(t, "connecting", mClient, blocking[t])
             /\ stream' = [stream EXCEPT ![mClient] = "connecting"]
    <3>1. Enter(t, "connecting", mClient, blocking[t]) /\ mClient \in Clients
      BY <1>7, <2>1 DEF Connect
    <3>2. stream' = [stream EXCEPT ![mClient] = "connecting"]
      BY <2>1
    <3>3. /\ pc'[t] = "connecting" /\ inside'[t] = mClient /\ Others(t)
          /\ shared' = (shared \/ \E u \in Threads \ {t} : inside[u] = mClient)
      BY <3>1, EnterEffect, SMTT(30)
    <3>4. CASE ~shared'
      <4>1. ~shared /\ \A u \in Threads \ {t} : inside[u] # mClient /\ inside'[u] # mClient
        BY <3>3, <3>4 DEF Others
      <4>2. \A u \in Threads \ {t} : inside'[u] \in Clients => stream'[inside'[u]] = stream[inside[u]]
        BY <3>2, <3>3, <4>1 DEF Others
      <4>3. \A u \in Threads \ {t} : pc'[u] \in {"connecting", "callback"} => inside'[u] \in Clients
        BY <3>3 DEF Others
      <4>4. stream'[inside'[t]] = "connecting"
        BY <3>1, <3>2, <3>3
      <4>5. \A u, v \in Threads : u # v /\ inside'[u] # 0 => inside'[u] # inside'[v]
        BY <3>3, <4>1 DEF Others
      <4>6. ASSUME NEW u \in Threads \ {t}
            PROVE  /\ pc'[u] = "connecting" => stream'[inside'[u]] = "connecting"
                   /\ pc'[u] = "callback" /\ note'[u] \in {"onTLSConnect", "onConnect"} =>
                         stream'[inside'[u]] \in Raised
        BY <3>3, <4>1, <4>2, <4>3 DEF Others
      <4>7. QED
        BY <3>3, <4>4, <4>5, <4>6
    <3>5. QED
      BY <3>4
  <2>2. ASSUME NEW place \in {"loop", "idle"}, Goto(t, place), UNCHANGED <<stream, shared>>
        PROVE  AloneOK'
    BY <2>2, GotoEffect DEF Others
  <2>3. QED
    BY <1>7, <2>1, <2>2 DEF Connect
<1>8. ASSUME NEW t \in Threads, SocketOpened(t) PROVE AloneOK'
  <2>1. /\ Handled(t) /\ pc[t] = "connecting" /\ shared' = shared
        /\ stream' = [stream EXCEPT ![inside[t]] = "plain"]
    BY <1>8 DEF SocketOpened
  <2>2. /\ \/ pc'[t] = "recv" /\ inside'[t] = inside[t]
           \/ pc'[t] = "loop" /\ inside'[t] = 0
        /\ note'[t] = "none" /\ Others(t)
    BY <2>1, HandledEffect
  <2>3. ~shared => \A u \in Threads \ {t} :
                      inside[u] # inside[t] /\ stream'[inside[u]] = stream[inside[u]]
    BY <2>1
  <2>4. ~shared => \A u, v \in Threads : u # v /\ inside'[u] # 0 => inside'[u] # inside'[v]
    BY <2>2 DEF Others
  <2>5. QED
    BY <2>1, <2>2, <2>3, <2>4 DEF Others
<1>9. ASSUME NEW t \in Threads, NEW e \in RefusalReasons, SocketRefused(t, e) PROVE AloneOK'
  BY <1>9 DEF SocketRefused, Notify
<1>10. ASSUME NEW t \in Threads, Loop(t) PROVE AloneOK'
  <2>1. CASE Enter(t, "recv", mClient, FALSE) /\ stream' = stream
    <3>1. /\ pc'[t] = "recv" /\ inside'[t] = mClient /\ Others(t)
          /\ shared' = (shared \/ \E u \in Threads \ {t} : inside[u] = mClient)
      BY <2>1 DEF Enter, Others
    <3>2. ~shared' => \A u \in Threads \ {t} : inside'[u] = inside[u] /\ inside[u] # mClient
      BY <3>1 DEF Others
    <3>3. ~shared' => \A u, v \in Threads : u # v /\ inside'[u] # 0 => inside'[u] # inside'[v]
      BY <3>1, <3>2
    <3>4. ASSUME NEW u \in Threads, ~shared'
          PROVE  /\ pc'[u] = "connecting" => stream'[inside'[u]] = "connecting"
                 /\ pc'[u] = "callback" /\ note'[u] \in {"onTLSConnect", "onConnect"} =>
                       stream'[inside'[u]] \in Raised
      BY <2>1, <3>1, <3>4 DEF Others
    <3>5. QED
      BY <3>3, <3>4
  <2>2. CASE Goto(t, "idle") /\ stream' = stream /\ shared' = shared
    BY <2>2, GotoEffect, SMTT(30) DEF Others
  <2>3. QED
    BY <1>10, <2>1, <2>2 DEF Loop
<1>11. ASSUME NEW t \in Threads, RecvNotConnected(t) PROVE AloneOK'
  BY <1>11 DEF RecvNotConnected, Goto
<1>12. ASSUME NEW t \in Threads, TlsHandshake(t) PROVE AloneOK'
  <2>1. Receives(t, {"plain"}, "secure") /\ Notify(t, "callback", "onTLSConnect")
    BY <1>12 DEF TlsHandshake
  <2>2. pc'[t] = "callback" /\ inside'[t] = inside[t] /\ note'[t] = "onTLSConnect" /\ Others(t)
    BY <2>1, NotifyEffect
  <2>3. QED
    BY <2>1, <2>2, ReceivesEffect DEF Others
<1>13. ASSUME NEW t \in Threads, Authenticated(t) PROVE AloneOK'
  <2>1. Receives(t, {"plain", "secure"}, "authed") /\ Handled(t)
    BY <1>13 DEF Authenticated
  <2>2. /\ \/ pc'[t] = "recv" /\ inside'[t] = inside[t]
           \/ pc'[t] = "loop" /\ inside'[t] = 0
        /\ note'[t] = "none" /\ Others(t)
    BY <2>1, HandledEffect
  <2>3. /\ inside[t] \in Clients /\ shared' = shared
        /\ \A c \in Clients : c # inside[t] => stream'[c] = stream[c]
    BY <2>1, ReceivesEffect
  <2>4. ~shared => \A u \in Threads \ {t} : inside[u] # inside[t]
    BY <2>3
  <2>5. ~shared => \A u \in Threads \ {t} :
                      inside[u] \in Clients => stream'[inside[u]] = stream[inside[u]]
    BY <2>3, <2>4
  <2>6. \A u \in Threads : pc[u] \in {"connecting", "callback"} => inside[u] \in Clients
    BY MaxSetupsAssumption
  <2>7. ~shared => \A u, v \in Threads : u # v /\ inside'[u] # 0 => inside'[u] # inside'[v]
    BY <2>2 DEF Others
  <2>8. QED
    BY <2>2, <2>3, <2>5, <2>6, <2>7 DEF Others
<1>14. ASSUME NEW t \in Threads, RosterAnswer(t) PROVE AloneOK'
  <2>1. Receives(t, {"authed"}, "online") /\ Notify(t, "callback", "onConnect")
    BY <1>14 DEF RosterAnswer
  <2>2. pc'[t] = "callback" /\ inside'[t] = inside[t] /\ note'[t] = "onConnect" /\ Others(t)
    BY <2>1, NotifyEffect
  <2>3. QED
    BY <2>1, <2>2, ReceivesEffect DEF Others
<1>15. ASSUME NEW t \in Threads, Stanza(t) PROVE AloneOK'
  <2>1. PICK s \in {"authed", "online"} : Receives(t, {s}, s) /\ Handled(t)
    BY <1>15 DEF Stanza
  <2>2. /\ \/ pc'[t] = "recv" /\ inside'[t] = inside[t]
           \/ pc'[t] = "loop" /\ inside'[t] = 0
        /\ note'[t] = "none" /\ Others(t)
    BY <2>1, HandledEffect
  <2>3. /\ inside[t] \in Clients /\ shared' = shared
        /\ \A c \in Clients : c # inside[t] => stream'[c] = stream[c]
    BY <2>1, ReceivesEffect
  <2>4. ~shared => \A u \in Threads \ {t} : inside[u] # inside[t]
    BY <2>3
  <2>5. ~shared => \A u \in Threads \ {t} :
                      inside[u] \in Clients => stream'[inside[u]] = stream[inside[u]]
    BY <2>3, <2>4
  <2>6. \A u \in Threads : pc[u] \in {"connecting", "callback"} => inside[u] \in Clients
    BY MaxSetupsAssumption
  <2>7. ~shared => \A u, v \in Threads : u # v /\ inside'[u] # 0 => inside'[u] # inside'[v]
    BY <2>2 DEF Others
  <2>8. QED
    BY <2>2, <2>3, <2>5, <2>6, <2>7 DEF Others
<1>16. ASSUME NEW t \in Threads, NEW e \in EndReasons, StreamEnd(t, e) PROVE AloneOK'
  <2>1. Receives(t, Open, "down") /\ Notify(t, "callback", e)
    BY <1>16 DEF StreamEnd
  <2>2. pc'[t] = "callback" /\ inside'[t] = inside[t] /\ note'[t] = e /\ Others(t)
    BY <2>1, NotifyEffect
  <2>3. e \notin {"onTLSConnect", "onConnect"}
    BY ReasonsAssumption DEF ConnectionError
  <2>4. inside[t] # 0 /\ shared' = shared
    BY <2>1, ReceivesEffect
  <2>5. ~shared => \A u \in Threads \ {t} : inside'[u] = inside[u] /\ inside[u] # inside[t]
    BY <2>2, <2>4 DEF Others
  <2>6. ASSUME NEW u \in Threads \ {t}, ~shared
        PROVE  /\ pc'[u] = "connecting" => stream'[inside'[u]] = "connecting"
               /\ pc'[u] = "callback" /\ note'[u] \in {"onTLSConnect", "onConnect"} =>
                     stream'[inside'[u]] \in Raised
    <3>1. pc[u] \in {"connecting", "callback"} => inside[u] \in Clients /\ inside[u] # inside[t]
      BY <2>5, <2>6
    <3>2. pc[u] \in {"connecting", "callback"} => stream'[inside[u]] = stream[inside[u]]
      BY <2>1, <3>1, ReceivesEffect
    <3>3. QED
      BY <2>2, <2>5, <2>6, <3>1, <3>2 DEF Others
  <2>7. ~shared => \A u, v \in Threads : u # v /\ inside'[u] # 0 => inside'[u] # inside'[v]
    <3>1. \A u \in Threads : inside'[u] = inside[u]
      BY <2>2 DEF Others
    <3>2. QED
      BY <3>1
  <2>8. QED
    BY <2>2, <2>3, <2>4, <2>6, <2>7
<1>17. ASSUME NEW t \in Threads, onTLSConnect(t) PROVE AloneOK'
  <2>1. Handled(t) /\ shared' = shared /\ stream' = stream /\ mClient' = mClient
    BY <1>17 DEF onTLSConnect
  <2>2. /\ \/ pc'[t] = "recv" /\ inside'[t] = inside[t]
           \/ pc'[t] = "loop" /\ inside'[t] = 0
        /\ note'[t] = "none" /\ Others(t)
    BY <2>1, HandledEffect
  <2>3. ~shared => \A u, v \in Threads : u # v /\ inside'[u] # 0 => inside'[u] # inside'[v]
    BY <2>2 DEF Others
  <2>4. ASSUME NEW u \in Threads, ~shared
        PROVE  /\ pc'[u] = "connecting" => stream'[inside'[u]] = "connecting"
               /\ pc'[u] = "callback" /\ note'[u] \in {"onTLSConnect", "onConnect"} =>
                     stream'[inside'[u]] \in Raised
    BY <2>1, <2>2, <2>4 DEF Others
  <2>5. QED
    BY <2>1, <2>3, <2>4
<1>18. ASSUME NEW t \in Threads, onConnect(t) PROVE AloneOK'
  BY <1>18, SMTT(30) DEF onConnect, Handled, Goto, Notify
<1>19. ASSUME NEW t \in Threads, handleRoster(t) PROVE AloneOK'
  <2>1. Handled(t) /\ shared' = shared /\ stream' = stream /\ mClient' = mClient
    BY <1>19 DEF handleRoster
  <2>2. /\ \/ pc'[t] = "recv" /\ inside'[t] = inside[t]
           \/ pc'[t] = "loop" /\ inside'[t] = 0
        /\ note'[t] = "none" /\ Others(t)
    BY <2>1, HandledEffect
  <2>3. ~shared => \A u, v \in Threads : u # v /\ inside'[u] # 0 => inside'[u] # inside'[v]
    BY <2>2 DEF Others
  <2>4. ASSUME NEW u \in Threads, ~shared
        PROVE  /\ pc'[u] = "connecting" => stream'[inside'[u]] = "connecting"
               /\ pc'[u] = "callback" /\ note'[u] \in {"onTLSConnect", "onConnect"} =>
                     stream'[inside'[u]] \in Raised
    BY <2>1, <2>2, <2>4 DEF Others
  <2>5. QED
    BY <2>1, <2>3, <2>4
<1>20. ASSUME NEW t \in Threads, onDisconnect(t) PROVE AloneOK'
  <2>1. Others(t) /\ inside'[t] = 0 /\ pc'[t] \in {"loop", "idle"}
    BY <1>20, GotoEffect DEF onDisconnect
  <2>2. UNCHANGED <<stream, shared>>
    BY <1>20 DEF onDisconnect
  <2>3. QED
    BY <2>1, <2>2 DEF Others
<1>21. CASE UNCHANGED vars
  BY <1>21 DEF vars
<1>22. CASE DestructorDelete
  BY <1>22 DEF DestructorDelete
<1>23. CASE UseDeleted
  BY <1>23 DEF UseDeleted
<1>24. QED
  BY <1>1, <1>2, <1>3, <1>4, <1>5, <1>6, <1>7, <1>8, <1>9, <1>10, <1>11, <1>12, <1>13,
     <1>14, <1>15, <1>16, <1>17, <1>18, <1>19, <1>20, <1>21, <1>22, <1>23
     DEF Next, Application, ThreadStep, NetworkStep, Callback


(* Every step keeps FlagHasAStream. *)
LEMMA FlagStep == VariablesOK /\ PlacesOK /\ AloneOK /\ FlagHasAStream /\ [Next]_vars => FlagHasAStream'
<1> SUFFICES ASSUME VariablesOK, PlacesOK, AloneOK, FlagHasAStream, [Next]_vars PROVE FlagHasAStream'
  OBVIOUS
<1> USE DEF VariablesOK, ThreadsOK, Places, PlacesOK, Outside, threadVars, sendVars, AloneOK, FlagHasAStream, Clients, Open, Raised, Ending
<1>1. CASE Setup
  BY <1>1 DEF Setup
<1>2. ASSUME NEW t \in Threads, NEW toggle \in BOOLEAN, CallOpenConnection(t, toggle) PROVE FlagHasAStream'
  BY <1>2 DEF CallOpenConnection
<1>3. ASSUME NEW empty \in BOOLEAN, SendMessageTest(empty) PROVE FlagHasAStream'
  BY <1>3 DEF SendMessageTest
<1>4. CASE SendMessageSend
  BY <1>4 DEF SendMessageSend
<1>5. CASE DestructorDisconnect
  BY <1>5 DEF DestructorDisconnect
<1>6. ASSUME NEW t \in Threads, OpenConnection(t) PROVE FlagHasAStream'
  BY <1>6 DEF OpenConnection, Goto
<1>7. ASSUME NEW t \in Threads, Connect(t) PROVE FlagHasAStream'
  <2>1. pc[t] = "connect" /\ Others(t) /\ mIsConnected' = mIsConnected /\ (shared => shared')
    BY <1>7, GotoEffect, EnterEffect DEF Connect
  <2>2. \A u \in Threads : Ending(u) => Ending(u)'
    BY <2>1 DEF Others
  <2>3. \A c \in Clients : stream[c] \in Raised => stream'[c] \in Raised
    BY <1>7 DEF Connect
  <2>4. QED
    BY <2>1, <2>2, <2>3
<1>8. ASSUME NEW t \in Threads, SocketOpened(t) PROVE FlagHasAStream'
  <2>1. pc[t] = "connecting" /\ Handled(t) /\ UNCHANGED <<mIsConnected, shared>>
    BY <1>8 DEF SocketOpened
  <2>2. \A u \in Threads : Ending(u) => Ending(u)'
    BY <2>1, HandledEffect DEF Others
  <2>3. ~shared => stream[inside[t]] = "connecting"
    BY <2>1
  <2>4. \A c \in Clients : c # inside[t] => stream'[c] = stream[c]
    BY <1>8 DEF SocketOpened
  <2>5. QED
    BY <2>1, <2>2, <2>3, <2>4
<1>9. ASSUME NEW t \in Threads, NEW e \in RefusalReasons, SocketRefused(t, e) PROVE FlagHasAStream'
  BY <1>9 DEF SocketRefused, Notify
<1>10. ASSUME NEW t \in Threads, Loop(t) PROVE FlagHasAStream'
  BY <1>10 DEF Loop, Goto, Enter
<1>11. ASSUME NEW t \in Threads, RecvNotConnected(t) PROVE FlagHasAStream'
  BY <1>11 DEF RecvNotConnected, Goto
<1>12. ASSUME NEW t \in Threads, TlsHandshake(t) PROVE FlagHasAStream'
  BY <1>12 DEF TlsHandshake, Receives, Notify
<1>13. ASSUME NEW t \in Threads, Authenticated(t) PROVE FlagHasAStream'
  BY <1>13 DEF Authenticated, Receives, Handled, Goto
<1>14. ASSUME NEW t \in Threads, RosterAnswer(t) PROVE FlagHasAStream'
  BY <1>14 DEF RosterAnswer, Receives, Notify
<1>15. ASSUME NEW t \in Threads, Stanza(t) PROVE FlagHasAStream'
  BY <1>15 DEF Stanza, Receives, Handled, Goto
<1>16. ASSUME NEW t \in Threads, NEW e \in EndReasons, StreamEnd(t, e) PROVE FlagHasAStream'
  <2>1. Notify(t, "callback", e)
    BY <1>16 DEF StreamEnd
  <2>2. pc'[t] = "callback" /\ note'[t] = e
    BY <2>1, NotifyEffect, SMTT(30)
  <2>3. QED
    BY <2>2, ReasonsAssumption
<1>17. ASSUME NEW t \in Threads, onTLSConnect(t) PROVE FlagHasAStream'
  BY <1>17 DEF onTLSConnect, Handled, Goto
<1>18. ASSUME NEW t \in Threads, onConnect(t) PROVE FlagHasAStream'
  BY <1>18 DEF onConnect, Handled, Goto, Notify
<1>19. ASSUME NEW t \in Threads, handleRoster(t) PROVE FlagHasAStream'
  <2>1. Handled(t) /\ UNCHANGED <<mIsConnected, stream, shared>>
    BY <1>19 DEF handleRoster
  <2>2. \A u \in Threads : Ending(u) => Ending(u)'
    <3>1. ~Ending(t)
      BY <1>19 DEF handleRoster, ConnectionError
    <3>2. Others(t)
      BY <2>1, HandledEffect
    <3>3. QED
      BY <3>1, <3>2 DEF Others
  <2>3. QED
    BY <2>1, <2>2
<1>20. ASSUME NEW t \in Threads, onDisconnect(t) PROVE FlagHasAStream'
  BY <1>20 DEF onDisconnect, Goto
<1>21. CASE UNCHANGED vars
  BY <1>21 DEF vars
<1>22. CASE DestructorDelete
  BY <1>22 DEF DestructorDelete
<1>23. CASE UseDeleted
  BY <1>23 DEF UseDeleted
<1>24. QED
  BY <1>1, <1>2, <1>3, <1>4, <1>5, <1>6, <1>7, <1>8, <1>9, <1>10, <1>11, <1>12, <1>13,
     <1>14, <1>15, <1>16, <1>17, <1>18, <1>19, <1>20, <1>21, <1>22, <1>23
     DEF Next, Application, ThreadStep, NetworkStep, Callback


(* Every step keeps CurrentStreamServed. *)
LEMMA ServedStep == VariablesOK /\ PlacesOK /\ SocketsOK /\ CurrentStreamServed /\ [Next]_vars => CurrentStreamServed'
<1> SUFFICES ASSUME VariablesOK, PlacesOK, SocketsOK, CurrentStreamServed, [Next]_vars PROVE CurrentStreamServed'
  OBVIOUS
<1> USE DEF VariablesOK, ThreadsOK, Places, PlacesOK, Outside, threadVars, sendVars, SocketsOK, CurrentStreamServed, Clients, Open, Ending, Serving
<1>1. CASE Setup
  <2>1. mClient + 1 \in Clients /\ mClient + 1 > mClient
    BY <1>1, MaxSetupsAssumption DEF Setup
  <2>2. mClient' = mClient + 1 /\ stream' = stream
    BY <1>1 DEF Setup
  <2>3. stream'[mClient'] = "down"
    BY <2>1, <2>2
  <2>4. QED
    BY <2>3
<1>2. ASSUME NEW t \in Threads, NEW toggle \in BOOLEAN, CallOpenConnection(t, toggle) PROVE CurrentStreamServed'
  BY <1>2 DEF CallOpenConnection
<1>3. ASSUME NEW empty \in BOOLEAN, SendMessageTest(empty) PROVE CurrentStreamServed'
  BY <1>3 DEF SendMessageTest
<1>4. CASE SendMessageSend
  BY <1>4 DEF SendMessageSend
<1>5. CASE DestructorDisconnect
  BY <1>5 DEF DestructorDisconnect
<1>6. ASSUME NEW t \in Threads, OpenConnection(t) PROVE CurrentStreamServed'
  BY <1>6 DEF OpenConnection, Goto
<1>7. ASSUME NEW t \in Threads, Connect(t) PROVE CurrentStreamServed'
  <2>1. pc[t] = "connect" /\ mClient' = mClient /\ mClient # 0
    BY <1>7 DEF Connect
  <2>2. CASE Enter(t, "connecting", mClient, blocking[t])
    BY <2>1, <2>2, EnterEffect
  <2>3. ASSUME NEW place \in {"loop", "idle"}, Goto(t, place), stream' = stream
        PROVE  CurrentStreamServed'
    <3>1. Others(t) /\ ~Serving(t)
      BY <2>1, <2>3, GotoEffect
    <3>2. \A u \in Threads : Serving(u) => Serving(u)'
      BY <2>1, <3>1 DEF Others
    <3>3. QED
      BY <2>1, <2>3, <3>2
  <2>4. QED
    BY <1>7, <2>2, <2>3 DEF Connect
<1>8. ASSUME NEW t \in Threads, SocketOpened(t) PROVE CurrentStreamServed'
  BY <1>8 DEF SocketOpened, Handled, Goto
<1>9. ASSUME NEW t \in Threads, NEW e \in RefusalReasons, SocketRefused(t, e) PROVE CurrentStreamServed'
  BY <1>9 DEF SocketRefused, Notify
<1>10. ASSUME NEW t \in Threads, Loop(t) PROVE CurrentStreamServed'
  <2>1. CASE Enter(t, "recv", mClient, FALSE) /\ UNCHANGED mClient
    <3>1. pc'[t] = "recv" /\ inside'[t] = mClient
      BY <2>1 DEF Enter
    <3>2. QED
      BY <2>1, <3>1
  <2>2. CASE stream[mClient] \notin Open /\ Goto(t, "idle") /\ UNCHANGED <<mClient, stream>>
    <3>1. ASSUME mClient # 0, stream[mClient] # "down" PROVE CurrentStreamServed'
      <4>1. mClient \in Clients
        BY <3>1
      <4>2. stream[mClient] = "connecting"
        BY <2>2, <3>1, <4>1 DEF StreamStates
      <4>3. PICK u \in Threads : pc[u] = "connecting" /\ inside[u] = mClient
        BY <4>1, <4>2
      <4>4. u # t
        BY <1>10, <4>3 DEF Loop
      <4>5. QED
        BY <2>2, <4>3, <4>4, GotoEffect DEF Others
    <3>2. QED
      BY <2>2, <3>1
  <2>3. QED
    BY <1>10, <2>1, <2>2 DEF Loop
<1>11. ASSUME NEW t \in Threads, RecvNotConnected(t) PROVE CurrentStreamServed'
  <2>1. /\ pc[t] = "recv" /\ stream[inside[t]] \notin Open /\ UNCHANGED <<mClient, stream>>
        /\ Goto(t, IF blocking[t] THEN "loop" ELSE "idle")
    BY <1>11 DEF RecvNotConnected
  <2>2. Others(t)
    BY <2>1, GotoEffect
  <2>3. ASSUME mClient # 0, stream[mClient] # "down" PROVE CurrentStreamServed'
    <3>1. mClient \in Clients
      BY <2>3
    <3>2. CASE inside[t] = mClient
      <4>1. stream[mClient] = "connecting"
        BY <2>1, <2>3, <3>1, <3>2 DEF StreamStates
      <4>2. PICK u \in Threads : pc[u] = "connecting" /\ inside[u] = mClient
        BY <3>1, <4>1
      <4>3. QED
        BY <2>1, <2>2, <4>2 DEF Others
    <3>3. CASE inside[t] # mClient
      <4>1. PICK u \in Threads : Serving(u)
        BY <2>3
      <4>2. u # t
        BY <2>1, <3>3, <4>1
      <4>3. QED
        BY <2>1, <2>2, <4>1, <4>2 DEF Others
    <3>4. QED
      BY <3>2, <3>3
  <2>4. QED
    BY <2>1, <2>3
<1>12. ASSUME NEW t \in Threads, TlsHandshake(t) PROVE CurrentStreamServed'
  <2>1. Receives(t, {"plain"}, "secure") /\ Notify(t, "callback", "onTLSConnect")
    BY <1>12 DEF TlsHandshake
  <2>2. pc'[t] = "callback" /\ inside'[t] = inside[t] /\ note'[t] = "onTLSConnect" /\ Others(t)
    BY <2>1, NotifyEffect
  <2>3. "onTLSConnect" \notin ConnectionError
    BY DEF ConnectionError
  <2>4. pc[t] = "recv" /\ mClient' = mClient
    BY <2>1, ReceivesEffect
  <2>5. \A u \in Threads : Serving(u) => Serving(u)'
    BY <2>2, <2>3, <2>4 DEF Others
  <2>6. mClient # 0 /\ stream'[mClient] # "down" => stream[mClient] # "down"
    BY <2>1, ReceivesEffect, SMTT(30)
  <2>7. QED
    BY <2>4, <2>5, <2>6
<1>13. ASSUME NEW t \in Threads, Authenticated(t) PROVE CurrentStreamServed'
  BY <1>13 DEF Authenticated, Receives, Handled, Goto
<1>14. ASSUME NEW t \in Threads, RosterAnswer(t) PROVE CurrentStreamServed'
  <2>1. Receives(t, {"authed"}, "online") /\ Notify(t, "callback", "onConnect")
    BY <1>14 DEF RosterAnswer
  <2>2. pc'[t] = "callback" /\ inside'[t] = inside[t] /\ note'[t] = "onConnect" /\ Others(t)
    BY <2>1, NotifyEffect
  <2>3. "onConnect" \notin ConnectionError
    BY DEF ConnectionError
  <2>4. pc[t] = "recv" /\ mClient' = mClient
    BY <2>1, ReceivesEffect
  <2>5. \A u \in Threads : Serving(u) => Serving(u)'
    BY <2>2, <2>3, <2>4 DEF Others
  <2>6. mClient # 0 /\ stream'[mClient] # "down" => stream[mClient] # "down"
    BY <2>1, ReceivesEffect, SMTT(30)
  <2>7. QED
    BY <2>4, <2>5, <2>6
<1>15. ASSUME NEW t \in Threads, Stanza(t) PROVE CurrentStreamServed'
  BY <1>15, SMTT(30) DEF Stanza, Receives, Handled, Goto
<1>16. ASSUME NEW t \in Threads, NEW e \in EndReasons, StreamEnd(t, e) PROVE CurrentStreamServed'
  BY <1>16 DEF StreamEnd, Receives, Notify
<1>17. ASSUME NEW t \in Threads, onTLSConnect(t) PROVE CurrentStreamServed'
  <2>1. pc[t] = "callback" /\ Handled(t) /\ UNCHANGED <<mClient, stream>>
    BY <1>17 DEF onTLSConnect
  <2>2. Others(t) /\ (pc'[t] = "loop" \/ (pc'[t] = "recv" /\ inside'[t] = inside[t]))
    BY <2>1, HandledEffect
  <2>3. \A u \in Threads : Serving(u) => Serving(u)'
    BY <2>1, <2>2 DEF Others
  <2>4. QED
    BY <2>1, <2>3
<1>18. ASSUME NEW t \in Threads, onConnect(t) PROVE CurrentStreamServed'
  <2>1. pc[t] = "callback" /\ UNCHANGED <<mClient, stream>>
    BY <1>18 DEF onConnect
  <2>2. CASE Handled(t)
    <3>1. Others(t) /\ (pc'[t] = "loop" \/ (pc'[t] = "recv" /\ inside'[t] = inside[t]))
      BY <2>2, HandledEffect
    <3>2. \A u \in Threads : Serving(u) => Serving(u)'
      BY <2>1, <3>1 DEF Others
    <3>3. QED
      BY <2>1, <3>2
  <2>3. CASE Notify(t, "callback", "handleRoster")
    <3>1. pc'[t] = "callback" /\ inside'[t] = inside[t] /\ note'[t] = "handleRoster" /\ Others(t)
      BY <2>3, NotifyEffect
    <3>2. "handleRoster" \notin ConnectionError
      BY DEF ConnectionError
    <3>3. \A u \in Threads : Serving(u) => Serving(u)'
      BY <2>1, <3>1, <3>2 DEF Others
    <3>4. QED
      BY <2>1, <3>3
  <2>4. QED
    BY <1>18, <2>2, <2>3 DEF onConnect
<1>19. ASSUME NEW t \in Threads, handleRoster(t) PROVE CurrentStreamServed'
  <2>1. pc[t] = "callback" /\ Handled(t) /\ UNCHANGED <<mClient, stream>>
    BY <1>19 DEF handleRoster
  <2>2. Others(t) /\ (pc'[t] = "loop" \/ (pc'[t] = "recv" /\ inside'[t] = inside[t]))
    BY <2>1, HandledEffect
  <2>3. \A u \in Threads : Serving(u) => Serving(u)'
    BY <2>1, <2>2 DEF Others
  <2>4. QED
    BY <2>1, <2>3
<1>20. ASSUME NEW t \in Threads, onDisconnect(t) PROVE CurrentStreamServed'
  <2>1. /\ pc[t] \in {"callback", "refused"} /\ note[t] \in ConnectionError
        /\ UNCHANGED <<mClient, stream>>
    BY <1>20 DEF onDisconnect
  <2>2. Others(t)
    BY <1>20, GotoEffect DEF onDisconnect
  <2>3. ~Serving(t)
    BY <2>1
  <2>4. \A u \in Threads : Serving(u) => Serving(u)'
    BY <2>1, <2>2, <2>3 DEF Others
  <2>5. QED
    BY <2>1, <2>4
<1>21. CASE UNCHANGED vars
  BY <1>21 DEF vars
<1>22. CASE DestructorDelete
  BY <1>22 DEF DestructorDelete
<1>23. CASE UseDeleted
  BY <1>23 DEF UseDeleted
<1>24. QED
  BY <1>1, <1>2, <1>3, <1>4, <1>5, <1>6, <1>7, <1>8, <1>9, <1>10, <1>11, <1>12, <1>13,
     <1>14, <1>15, <1>16, <1>17, <1>18, <1>19, <1>20, <1>21, <1>22, <1>23
     DEF Next, Application, ThreadStep, NetworkStep, Callback


-----------------------------------------------------------------------------
LEMMA InitIInv == Init => IInv
<1> SUFFICES ASSUME Init PROVE IInv
  OBVIOUS
<1>1. VariablesOK
  <2>1. 0 \in 0 .. MaxSetups
    BY MaxSetupsAssumption
  <2>2. ThreadsOK
    BY <2>1 DEF Init, ThreadsOK, Places
  <2>3. stream \in [Clients -> StreamStates]
    BY DEF Init, StreamStates
  <2>4. QED
    BY <2>1, <2>2, <2>3 DEF Init, VariablesOK, Lifetimes
<1>2. PlacesOK /\ SocketsOK
  BY MaxSetupsAssumption DEF Init, PlacesOK, Outside, SocketsOK
<1>3. AloneOK /\ FlagHasAStream /\ CurrentStreamServed
  BY DEF Init, AloneOK, FlagHasAStream, CurrentStreamServed
<1>4. QED
  BY <1>1, <1>2, <1>3 DEF IInv

LEMMA StepIInv == IInv /\ [Next]_vars => IInv'
  BY TypeStep, PlacesStep, SocketsStep, AloneStep, FlagStep, ServedStep DEF IInv

LEMMA SpecIInv == Spec => []IInv
  BY InitIInv, StepIInv, PTL DEF Spec

(* The variables keep their types, and wherever openConnection, sendMessage *)
(* and a callback dereference a client, the pointer is not null.            *)
LEMMA PointersAreSet == IInv => TypeOK
  BY DEF IInv, TypeOK, VariablesOK, ThreadsOK, PlacesOK, PointersOK, Outside

THEOREM TypeCorrect == Spec => []TypeOK
  BY SpecIInv, PointersAreSet, PTL

(* Whoever sees isConnected() true sees it for a reason: without two       *)
(* threads in one client a stream is open or its onDisconnect is on the    *)
(* way, for any number of threads, setups and reconnections.               *)
THEOREM FlagIsExplained == Spec => []FlagHasAStream
  BY SpecIInv, PTL DEF IInv

(* No interleaving leaves the open stream of the current client unread. *)
THEOREM StreamIsServed == Spec => []CurrentStreamServed
  BY SpecIInv, PTL DEF IInv
=============================================================================
