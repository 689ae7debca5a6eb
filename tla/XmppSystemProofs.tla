-------------------------- MODULE XmppSystemProofs --------------------------
(***************************************************************************)
(* Proofs about XmppSystem: what keeps the callbacks of an XmppClient      *)
(* apart, for every number of threads, of calls of connect and of contacts.*)
(***************************************************************************)
EXTENDS XmppSystem, XmppClientProofs

SystemTypeOK ==
    /\ handler \in [Threads -> {"none", "roster", "presence", "message", "session"}]
    /\ iter \in [Threads -> {"none", "entry", "end", "invalid"}]
    /\ mRoster \subseteq Contacts
    /\ rosterOf \in 0 .. MaxSetups
    /\ sessionOf \in 0 .. mClient
    /\ leaked \in BOOLEAN

(* A callback runs on a thread that connect has started, where gloox calls *)
(* it; an iterator is held only by the two callbacks that look a peer up.  *)
CallbacksPlaced ==
    \A t \in Threads :
        /\ ~Free(t) => t \in spawned
        /\ handler[t] = "roster" => note[t] = "handleRoster" /\ pc[t] = "callback"
        /\ handler[t] \in {"presence", "message", "session"} => pc[t] = "recv"
        /\ iter[t] # "none" => handler[t] \in {"presence", "message"}

(* Until connect is called a second time what the callbacks share belongs  *)
(* to the first connection; until ~XmppClient destroys the roster no       *)
(* iterator is lost and the connection has not been reported as lost.      *)
FirstConnectionOnly ==
    mClient <= 1 =>
        /\ mRoster # {} => rosterOf = 1
        /\ ~leaked
        /\ ~Gone => \A t \in Threads :
              /\ iter[t] # "invalid"
              /\ iter[t] = "entry" => rosterOf = inside[t]
              /\ ~Free(t) => Said # "disconnect"
              /\ handler[t] = "presence" => Said \in {"connect", "roster"}

SystemInv == ClientInv /\ SystemTypeOK /\ CallbacksPlaced /\ FirstConnectionOnly

-----------------------------------------------------------------------------
(* The steps of the system: one of the application or the end of the       *)
(* process, one of a thread outside of a callback, or one of a callback.   *)
OutsideStep ==
    (ApplicationSteps \/ (spawned # {} /\ Terminate)) /\ UNCHANGED callbackVars

FreeStep(t) ==
    ThreadSteps(t) /\ Free(t) /\ note[t] # "handleRoster" /\ UNCHANGED callbackVars

LEMMA StepsOfSystem ==
    ASSUME SystemInv, SystemNext
    PROVE  \/ OutsideStep
           \/ DestroyRoster /\ Destroying
           \/ \E t \in spawned :
                 \/ FreeStep(t) \/ CallbackBegin(t) \/ PresenceEnd(t) \/ MessageEnd(t)
                 \/ \E users \in SUBSET Contacts : RosterEnd(t, users)
                 \/ \E u \in Contacts : SessionEnd(t, u)
<1>1. CASE ClientApplication /\ UNCHANGED callbackVars
  BY <1>1, StepsOfApplication DEF SystemInv, ClientInv, OutsideStep
<1>2. ASSUME NEW t \in spawned, Elsewhere(t) PROVE OutsideStep \/ FreeStep(t)
  BY <1>2, StepsOfThread DEF Elsewhere, OutsideStep, FreeStep
<1>3. ASSUME NEW t \in spawned, UndefinedIterator(t) PROVE OutsideStep
  BY <1>3 DEF UndefinedIterator, OutsideStep
<1>4. CASE DestroyRoster
  BY <1>4 DEF DestroyRoster, DestroyMembers, Destroying, Aged, SystemInv, ClientInv, ClientTypeOK,
              VariablesOK, vars
<1>5. QED
  BY <1>1, <1>2, <1>3, <1>4 DEF SystemNext, CallbackEnd

(* To the client each is a step of its own, or none. *)
LEMMA ClientPart ==
    ASSUME SystemInv, SystemNext PROVE ClientStep \/ UNCHANGED allVars
<1>0. process = "running" /\ Exists
  BY DEF SystemNext
<1>1. CASE OutsideStep
  BY <1>0, <1>1 DEF OutsideStep, ClientStep
<1>2. ASSUME NEW t \in spawned, FreeStep(t) PROVE ClientStep
  BY <1>0, <1>2 DEF FreeStep, ClientStep
<1>3. ASSUME NEW t \in spawned, CallbackBegin(t) PROVE UNCHANGED allVars
  BY <1>3 DEF CallbackBegin, RosterBegin, SessionBegin, PresenceBegin, MessageBegin
<1>4. ASSUME NEW t \in spawned, NEW users \in SUBSET Contacts, RosterEnd(t, users) PROVE ClientStep
  BY <1>0, <1>4 DEF RosterEnd, ClientStep, ThreadSteps
<1>5. ASSUME NEW t \in spawned, NEW u \in Contacts, SessionEnd(t, u) PROVE UNCHANGED allVars
  BY <1>5 DEF SessionEnd
<1>6. ASSUME NEW t \in spawned, PresenceEnd(t) \/ MessageEnd(t)
      PROVE  ClientStep
  <2>1. Quiet
    BY <1>6 DEF PresenceEnd, MessageEnd, UseSignals, Quiet
  <2>2. Acts(t) \/ UNCHANGED vars
    BY <1>6 DEF PresenceEnd, MessageEnd, StanzaDone, Acts, NetworkStep
  <2>3. QED
    BY <1>0, <2>1, <2>2 DEF ClientStep, ThreadSteps
<1>7. CASE Destroying
  BY <1>0, <1>7 DEF ClientStep, ApplicationSteps
<1>8. QED
  BY <1>1, <1>2, <1>3, <1>4, <1>5, <1>6, <1>7, StepsOfSystem

LEMMA SystemClientStep == SystemInv /\ [SystemNext]_systemVars => ClientInv'
<1>1. SystemInv /\ SystemNext => ClientInv'
  BY ClientPart, StepClientInv, StutterClientInv DEF SystemInv
<1>2. SystemInv /\ UNCHANGED systemVars => ClientInv'
  BY StutterClientInv DEF SystemInv, systemVars
<1>3. QED
  BY <1>1, <1>2

-----------------------------------------------------------------------------
(* What every step leaves in the order of things: the clients are numbered *)
(* upwards, no thread that was started is forgotten, and a thread that is  *)
(* at a callback stays there while other threads go on.                    *)
LEMMA ClientGrows ==
    ASSUME ClientTypeOK, StageOK, ClientStep
    PROVE  mClient <= mClient' /\ spawned \subseteq spawned'
<1>0. VariablesOK /\ spawned \subseteq Threads
  BY DEF ClientTypeOK
<1>1. ASSUME NEW t \in spawned, ThreadSteps(t) PROVE UNCHANGED <<mClient, spawned>>
  BY <1>0, <1>1, ThreadStepsEffect DEF ListenerKept
<1>2. (mClient' = mClient \/ mClient' = mClient + 1) /\ spawned \subseteq spawned'
  BY <1>1
     DEF ClientStep, ApplicationSteps, ConnectSetup, Setup, ConnectSpawn, CallOpenConnection,
         ConnectAssign, SendMessage, SendMessageTest, SendMessageWrite, SendMessageSend,
         Destroying, Aged, Quiet, Terminate, clientVars, vars
<1>3. mClient \in Nat
  BY <1>0, MaxSetupsAssumption DEF VariablesOK
<1>4. QED
  BY <1>2, <1>3

(* The application moves no thread that was started.                       *)
LEMMA ApplicationKeepsThreads ==
    ASSUME ClientTypeOK, ApplicationSteps \/ Terminate
    PROVE  /\ \A t \in spawned : pc'[t] = pc[t] /\ note'[t] = note[t] /\ inside'[t] = inside[t]
           /\ heard' = heard /\ (Gone => Gone')
<1>0. ThreadsOK /\ spawned \subseteq Threads
  BY DEF ClientTypeOK, VariablesOK
<1>1. ASSUME NEW u \in Threads, ConnectSpawn(u)
      PROVE  /\ \A t \in spawned : pc'[t] = pc[t] /\ note'[t] = note[t] /\ inside'[t] = inside[t]
             /\ heard' = heard /\ (Gone => Gone')
  BY <1>0, <1>1 DEF Gone, ConnectSpawn, CallOpenConnection, ThreadsOK
<1>2. QED
  BY <1>1
     DEF ApplicationSteps, ConnectSetup, Setup, ConnectAssign, SendMessage, SendMessageTest,
         SendMessageWrite, SendMessageSend, Destroying, Aged, Gone, Terminate, clientVars, vars, threadVars

-----------------------------------------------------------------------------
(* A callback's own steps, by what they do to what the callbacks share.    *)
LEMMA SystemTypeStep ==
    ASSUME SystemInv, SystemNext PROVE SystemTypeOK'
<1> USE DEF SystemTypeOK
<1>0. SystemTypeOK /\ ClientTypeOK /\ VariablesOK /\ StageOK /\ PlacesOK /\ spawned \subseteq Threads
  BY DEF SystemInv, ClientInv, ClientTypeOK
<1>1. mClient \in Nat /\ mClient' \in Nat /\ mClient <= mClient'
  <2>1. mClient \in Nat
    BY <1>0, MaxSetupsAssumption DEF VariablesOK
  <2>2. mClient' \in Nat
    <3>1. VariablesOK'
      BY SystemClientStep DEF ClientInv, ClientTypeOK
    <3>2. QED
      BY <3>1, MaxSetupsAssumption DEF VariablesOK
  <2>3. CASE ClientStep
    BY <1>0, <2>1, <2>2, <2>3, ClientGrows
  <2>4. CASE UNCHANGED allVars
    BY <2>1, <2>4 DEF allVars, vars
  <2>5. QED
    BY <2>1, <2>2, <2>3, <2>4, ClientPart
<1>2. sessionOf \in 0 .. mClient'
  BY <1>0, <1>1
<1>3. CASE UNCHANGED callbackVars
  BY <1>0, <1>2, <1>3 DEF callbackVars
<1>4. ASSUME NEW t \in spawned PROVE t \in Threads /\ inside[t] \in 0 .. MaxSetups /\ inside[t] <= mClient
  BY <1>0, <1>4 DEF VariablesOK, ThreadsOK, PlacesOK
<1>5. ASSUME NEW t \in spawned, RosterBegin(t) PROVE SystemTypeOK'
  BY <1>0, <1>2, <1>4, <1>5, MaxSetupsAssumption DEF RosterBegin, Begin, Invalidated
<1>6. ASSUME NEW t \in spawned, NEW users \in SUBSET Contacts, RosterEnd(t, users) PROVE SystemTypeOK'
  BY <1>0, <1>2, <1>4, <1>6 DEF RosterEnd, End, Invalidated
<1>7. ASSUME NEW t \in spawned, NEW u \in Contacts, PresenceBegin(t, u) \/ MessageBegin(t, u) PROVE SystemTypeOK'
  BY <1>0, <1>2, <1>4, <1>7 DEF PresenceBegin, MessageBegin, Begin, Lookup
<1>8. ASSUME NEW t \in spawned, PresenceEnd(t) \/ MessageEnd(t) PROVE SystemTypeOK'
  BY <1>0, <1>2, <1>4, <1>8 DEF PresenceEnd, MessageEnd, End, Drop
<1>9. ASSUME NEW t \in spawned, SessionBegin(t) PROVE SystemTypeOK'
  BY <1>0, <1>2, <1>4, <1>9 DEF SessionBegin, Begin
<1>10. ASSUME NEW t \in spawned, NEW u \in Contacts, SessionEnd(t, u) PROVE SystemTypeOK'
  <2>1. mClient' = mClient
    BY <1>10 DEF SessionEnd, allVars, vars
  <2>2. inside[t] \in 0 .. mClient'
    BY <1>1, <1>4, <2>1
  <2>3. QED
    BY <1>0, <1>4, <1>10, <2>2 DEF SessionEnd, Lookup
<1>11. CASE DestroyRoster
  BY <1>0, <1>2, <1>11 DEF DestroyRoster, Invalidated
<1>12. QED
  BY <1>3, <1>5, <1>6, <1>7, <1>8, <1>9, <1>10, <1>11, StepsOfSystem
     DEF OutsideStep, FreeStep, CallbackBegin

(* Where a callback begins and ends. A thread that is in one stays where   *)
(* it is until its callback ends.                                          *)
LEMMA PlacedStep ==
    ASSUME SystemInv, SystemNext PROVE CallbacksPlaced'
<1> USE DEF CallbacksPlaced, Free
<1>0. /\ SystemTypeOK /\ CallbacksPlaced /\ ClientTypeOK /\ VariablesOK /\ StageOK
      /\ spawned \subseteq Threads
  BY DEF SystemInv, ClientInv, ClientTypeOK
<1>1. spawned \subseteq spawned'
  <2>1. CASE ClientStep
    BY <1>0, <2>1, ClientGrows
  <2>2. CASE UNCHANGED allVars
    BY <2>2 DEF allVars, clientVars
  <2>3. QED
    BY <2>1, <2>2, ClientPart
<1>2. CASE OutsideStep
  BY <1>0, <1>1, <1>2, ApplicationKeepsThreads DEF OutsideStep, callbackVars
<1>3. ASSUME NEW t \in spawned, FreeStep(t) PROVE CallbacksPlaced'
  BY <1>0, <1>1, <1>3, ThreadStepsEffect DEF FreeStep, Others, callbackVars
<1>4. ASSUME NEW t \in spawned, RosterBegin(t) PROVE CallbacksPlaced'
  BY <1>0, <1>1, <1>4 DEF RosterBegin, Begin, Invalidated, SystemTypeOK, allVars, vars, threadVars
<1>5. ASSUME NEW t \in spawned, SessionBegin(t) PROVE CallbacksPlaced'
  BY <1>0, <1>1, <1>5
     DEF SessionBegin, Begin, Receiving, SystemTypeOK, allVars, vars, threadVars
<1>6. ASSUME NEW t \in spawned, NEW u \in Contacts, PresenceBegin(t, u) \/ MessageBegin(t, u)
      PROVE  CallbacksPlaced'
  BY <1>0, <1>1, <1>6 DEF PresenceBegin, MessageBegin, Begin, Receiving, Lookup, SystemTypeOK,
                          allVars, vars, threadVars
<1>7. ASSUME NEW t \in spawned, NEW u \in Contacts, SessionEnd(t, u) PROVE CallbacksPlaced'
  BY <1>0, <1>1, <1>7 DEF SessionEnd, Lookup, SystemTypeOK, allVars, vars, threadVars
<1>8. ASSUME NEW t \in spawned, NEW users \in SUBSET Contacts, RosterEnd(t, users)
      PROVE  CallbacksPlaced'
  <2>1. ThreadSteps(t)
    BY <1>8 DEF RosterEnd, ThreadSteps
  <2>2. Others(t)
    BY <1>0, <2>1, ThreadStepsEffect
  <2>3. QED
    BY <1>0, <1>1, <1>8, <2>2 DEF RosterEnd, End, Invalidated, Others, SystemTypeOK
<1>9. ASSUME NEW t \in spawned, PresenceEnd(t) \/ MessageEnd(t) PROVE CallbacksPlaced'
  <2>1. Others(t)
    <3>1. CASE Stanza(t)
      BY <1>0, <3>1, ActsEffect DEF Acts, NetworkStep
    <3>2. CASE UNCHANGED vars
      BY <3>2 DEF vars, threadVars, Others
    <3>3. QED
      BY <1>9, <3>1, <3>2 DEF PresenceEnd, MessageEnd, StanzaDone
  <2>2. QED
    BY <1>0, <1>1, <1>9, <2>1 DEF PresenceEnd, MessageEnd, End, Drop, Others, SystemTypeOK
<1>10. CASE DestroyRoster /\ Destroying
  BY <1>0, <1>10 DEF DestroyRoster, Destroying, Aged, Invalidated, SystemTypeOK, threadVars
<1>11. QED
  BY <1>2, <1>3, <1>4, <1>5, <1>6, <1>7, <1>8, <1>9, <1>10, StepsOfSystem DEF CallbackBegin

-----------------------------------------------------------------------------
(* While connect was called once, nobody but the thread of the step is in  *)
(* a callback.                                                             *)
LEMMA OneCallback ==
    ASSUME SystemInv, mClient <= 1, NEW t \in spawned
    PROVE  \A u \in Threads \ {t} : Free(u) /\ iter[u] = "none"
BY OneThread DEF SystemInv, ClientInv, SystemTypeOK, CallbacksPlaced, Free

(* What a callback that begins finds: a roster of its own connection, and  *)
(* a connection that has been reported, or may be reported next.           *)
LEMMA FoundAtBegin ==
    ASSUME SystemInv, mClient <= 1, NEW t \in spawned
    PROVE  /\ pc[t] \in {"recv", "callback"} => inside[t] = 1
           /\ ~Gone =>
                 /\ Receiving(t, {"authed", "online"}) => Said # "disconnect"
                 /\ Receiving(t, {"online"}) => Said \in {"connect", "roster"}
                 /\ note[t] = "handleRoster" => Said = "connect"
<1>0. /\ t \in Threads /\ VariablesOK /\ PlacesOK
      /\ ~Gone => ThreadInOrder(t) /\ \A c \in Clients : StreamInOrder(c)
  BY DEF SystemInv, ClientInv, ClientTypeOK, SignalsInOrder
<1>1. pc[t] \in {"recv", "callback"} => inside[t] = 1 /\ inside[t] \in Clients
  <2>1. inside[t] \in Nat /\ inside[t] <= mClient
    BY <1>0 DEF VariablesOK, ThreadsOK, PlacesOK
  <2>2. pc[t] \in {"recv", "callback"} => inside[t] # 0
    BY <1>0 DEF PlacesOK, Outside
  <2>3. mClient \in Nat
    BY <1>0, MaxSetupsAssumption DEF VariablesOK
  <2>4. QED
    BY <2>1, <2>2, <2>3, MaxSetupsAssumption DEF Clients
<1>2. QED
  BY <1>0, <1>1 DEF Receiving, ThreadInOrder, StreamInOrder, Streams, Offline

LEMMA FirstConnectionStep ==
    ASSUME SystemInv, SystemNext PROVE FirstConnectionOnly'
<1> SUFFICES ASSUME mClient' <= 1 PROVE FirstConnectionOnly'
  BY DEF FirstConnectionOnly
<1> USE DEF FirstConnectionOnly
<1>0. /\ SystemTypeOK /\ CallbacksPlaced /\ FirstConnectionOnly
      /\ ClientTypeOK /\ VariablesOK /\ StageOK /\ PlacesOK /\ spawned \subseteq Threads
  BY DEF SystemInv, ClientInv, ClientTypeOK
<1>1. mClient <= 1 /\ mClient \in 0 .. 1
  <2>1. mClient \in Nat /\ mClient' \in Nat
    <3>1. VariablesOK'
      BY SystemClientStep DEF ClientInv, ClientTypeOK
    <3>2. QED
      BY <1>0, <3>1, MaxSetupsAssumption DEF VariablesOK
  <2>2. mClient <= mClient'
    BY <1>0, <2>1, ClientPart, ClientGrows DEF allVars, vars
  <2>3. QED
    BY <2>1, <2>2
<1>a. ASSUME NEW t \in spawned, ThreadSteps(t) PROVE Gone' = Gone
  BY <1>0, <1>a, ThreadStepsEffect DEF Gone
<1>2. CASE OutsideStep
  <2>1. heard' = heard /\ (Gone => Gone') /\ \A t \in spawned : inside'[t] = inside[t]
    BY <1>0, <1>2, ApplicationKeepsThreads DEF OutsideStep
  <2>2. \A t \in Threads : iter[t] = "entry" => t \in spawned
    BY <1>0 DEF CallbacksPlaced, Free
  <2>3. QED
    BY <1>0, <1>1, <1>2, <2>1, <2>2 DEF OutsideStep, callbackVars, Free, Said
<1>3. ASSUME NEW t \in spawned, FreeStep(t) PROVE FirstConnectionOnly'
  BY <1>0, <1>1, <1>a, <1>3, OneCallback DEF FreeStep, callbackVars, Free, CallbacksPlaced
<1>4. ASSUME NEW t \in spawned, CallbackBegin(t) PROVE FirstConnectionOnly'
  <2>1. /\ t \in Threads /\ Said' = Said /\ inside' = inside /\ leaked' = leaked
        /\ iter[t] = "none" /\ Gone' = Gone
    BY <1>0, <1>4
       DEF CallbackBegin, RosterBegin, SessionBegin, PresenceBegin, MessageBegin, Begin, Free,
           CallbacksPlaced, Said, Gone, allVars, vars, threadVars, clientVars
  <2>2. \A u \in Threads \ {t} : Free(u) /\ iter[u] = "none"
    BY <1>1, OneCallback
  <2>3. CASE RosterBegin(t)
    BY <1>0, <1>1, <2>1, <2>2, <2>3, FoundAtBegin
       DEF RosterBegin, Begin, Invalidated, SystemTypeOK, Free
  <2>4. CASE SessionBegin(t)
    BY <1>0, <1>1, <2>1, <2>2, <2>4, FoundAtBegin DEF SessionBegin, Begin, SystemTypeOK, Free
  <2>5. ASSUME NEW u \in Contacts, PresenceBegin(t, u) PROVE FirstConnectionOnly'
    BY <1>0, <1>1, <2>1, <2>2, <2>5, FoundAtBegin
       DEF PresenceBegin, Begin, Lookup, SystemTypeOK, Free, Receiving
  <2>6. ASSUME NEW u \in Contacts, MessageBegin(t, u) PROVE FirstConnectionOnly'
    BY <1>0, <1>1, <2>1, <2>2, <2>6, FoundAtBegin
       DEF MessageBegin, Begin, Lookup, SystemTypeOK, Free, Receiving
  <2>7. QED
    BY <1>4, <2>3, <2>4, <2>5, <2>6 DEF CallbackBegin
<1>5. ASSUME NEW t \in spawned, PresenceEnd(t) \/ MessageEnd(t) PROVE FirstConnectionOnly'
  <2>1. /\ t \in Threads /\ Gone' = Gone
        /\ \A u \in Threads \ {t} : Free(u) /\ iter[u] = "none"
    BY <1>0, <1>1, <1>5, OneCallback DEF PresenceEnd, MessageEnd, UseSignals, Gone
  <2>2. QED
    BY <1>0, <1>1, <1>5, <2>1 DEF PresenceEnd, MessageEnd, End, Drop, SystemTypeOK, Free
<1>6. ASSUME NEW t \in spawned, NEW users \in SUBSET Contacts, RosterEnd(t, users)
      PROVE  FirstConnectionOnly'
  <2>1. /\ t \in Threads /\ Gone' = Gone
        /\ \A u \in Threads \ {t} : Free(u) /\ iter[u] = "none"
    BY <1>0, <1>1, <1>a, <1>6, OneCallback DEF RosterEnd, ThreadSteps
  <2>2. iter[t] = "none" /\ pc[t] = "callback"
    BY <1>0, <1>6, <2>1 DEF RosterEnd, End, CallbacksPlaced, Free
  <2>3. inside[t] = 1
    BY <1>1, <2>2, FoundAtBegin
  <2>4. QED
    BY <1>0, <1>1, <1>6, <2>1, <2>2, <2>3 DEF RosterEnd, End, Invalidated, SystemTypeOK, Free
<1>7. ASSUME NEW t \in spawned, NEW u \in Contacts, SessionEnd(t, u) PROVE FirstConnectionOnly'
  <2>1. /\ t \in Threads /\ Said' = Said /\ inside' = inside
        /\ pc[t] = "recv" /\ ~Free(t) /\ Gone' = Gone
    BY <1>0, <1>7 DEF SessionEnd, CallbacksPlaced, Free, Said, Gone, allVars, vars, threadVars, clientVars
  <2>2. \A v \in Threads \ {t} : Free(v) /\ iter[v] = "none"
    BY <1>1, OneCallback
  <2>3. inside[t] = 1 /\ mClient = 1
    <3>1. inside[t] = 1
      BY <1>1, <2>1, FoundAtBegin
    <3>2. QED
      BY <1>0, <1>1, <2>1, <3>1 DEF PlacesOK
  <2>4. ~leaked'
    BY <1>0, <1>1, <1>7, <2>3 DEF SessionEnd, SystemTypeOK
  <2>5. QED
    BY <1>0, <1>1, <1>7, <2>1, <2>2, <2>3, <2>4 DEF SessionEnd, Lookup, SystemTypeOK, Free
<1>8. CASE DestroyRoster /\ Destroying
  BY <1>0, <1>1, <1>8 DEF DestroyRoster, Destroying, Gone
<1>9. QED
  BY <1>2, <1>3, <1>4, <1>5, <1>6, <1>7, <1>8, StepsOfSystem

-----------------------------------------------------------------------------
LEMMA InitSystemInv == SystemInit => SystemInv
<1> SUFFICES ASSUME SystemInit PROVE SystemInv
  OBVIOUS
<1>1. ClientInv
  BY InitClientInv DEF SystemInit
<1>2. mClient = 0
  BY DEF SystemInit, ClientInit, Init
<1>3. SystemTypeOK
  <2>1. 0 \in 0 .. mClient /\ 0 \in 0 .. MaxSetups
    BY <1>2, MaxSetupsAssumption
  <2>2. QED
    BY <2>1 DEF SystemInit, SystemTypeOK
<1>4. CallbacksPlaced /\ FirstConnectionOnly
  BY DEF SystemInit, CallbacksPlaced, FirstConnectionOnly, Free
<1>5. QED
  BY <1>1, <1>3, <1>4 DEF SystemInv

LEMMA StutterSystemInv == SystemInv /\ UNCHANGED systemVars => SystemInv'
<1> SUFFICES ASSUME SystemInv, UNCHANGED systemVars PROVE SystemInv'
  OBVIOUS
<1>1. ClientInv'
  BY SystemClientStep
<1>2. UNCHANGED <<vars, threadVars, clientVars, callbackVars>>
  BY DEF systemVars, allVars, vars
<1>3. SystemTypeOK' /\ CallbacksPlaced'
  BY <1>2 DEF SystemInv, SystemTypeOK, CallbacksPlaced, Free, vars, threadVars, clientVars, callbackVars
<1>4. FirstConnectionOnly'
  BY <1>2 DEF SystemInv, FirstConnectionOnly, Free, Said, Gone, vars, threadVars, clientVars, callbackVars
<1>5. QED
  BY <1>1, <1>3, <1>4 DEF SystemInv

LEMMA SpecSystemInv == SystemSpec => []SystemInv
<1>1. SystemInv /\ [SystemNext]_systemVars => SystemInv'
  <2>1. SystemInv /\ SystemNext => SystemInv'
    BY SystemClientStep, SystemTypeStep, PlacedStep, FirstConnectionStep DEF SystemInv
  <2>2. QED
    BY <2>1, StutterSystemInv
<1>2. QED
  BY InitSystemInv, <1>1, PTL DEF SystemSpec

-----------------------------------------------------------------------------
(* Short of the end that a second connect and the destructor bring there   *)
(* is one connection, and no thread beside the destructor.                 *)
LEMMA NotDoomed ==
    ASSUME ClientInv, ~Doomed
    PROVE  mClient <= 1 /\ (Gone => spawned = {})
BY DEF ClientInv, StageOK, Stages, Gone, Doomed

LEMMA InUse ==
    ASSUME SystemInv, NEW t \in Threads, ~Free(t) \/ iter[t] # "none"
    PROVE  t \in spawned
BY DEF SystemInv, CallbacksPlaced, Free

(* Two threads are in callbacks of one XmppClient only when a second       *)
(* connect is about to end the process, for every number of contacts.      *)
THEOREM NoConcurrentCallbacks == SystemSpec => []CallbacksExclusive
<1>1. SystemInv => CallbacksExclusive
  <2> SUFFICES ASSUME SystemInv, ~Doomed, NEW t \in Threads, NEW u \in Threads, ~Free(t), ~Free(u)
               PROVE  t = u
    BY DEF CallbacksExclusive
  <2>1. mClient <= 1
    BY NotDoomed DEF SystemInv
  <2>2. QED
    BY <2>1, OneThread DEF SystemInv, ClientInv, CallbacksPlaced
<1>2. QED
  BY <1>1, SpecSystemInv, PTL

(* Neither handleRoster clears the map nor ~XmppClient destroys it under   *)
(* an iterator that handleRosterPresence or handleMessage still uses,      *)
(* short of the end of the process.                                        *)
THEOREM IteratorsStayValid == SystemSpec => []IteratorsValid
<1>1. SystemInv => IteratorsValid
  BY NotDoomed, InUse DEF SystemInv, FirstConnectionOnly, IteratorsValid
<1>2. QED
  BY <1>1, SpecSystemInv, PTL

(* The peer that a presence or a message finds is of its own connection.   *)
THEOREM PeersOfOwnConnection == SystemSpec => []PeersOfThisConnection
<1>1. SystemInv => PeersOfThisConnection
  BY NotDoomed, InUse DEF SystemInv, FirstConnectionOnly, PeersOfThisConnection
<1>2. QED
  BY <1>1, SpecSystemInv, PTL

(* handleMessageSession finds the session it replaces in the list of the   *)
(* client that mClient points to.                                          *)
THEOREM SessionsDisposed == SystemSpec => []NoSessionLeaks
<1>1. SystemInv => NoSessionLeaks
  BY NotDoomed DEF SystemInv, FirstConnectionOnly, NoSessionLeaks
<1>2. QED
  BY <1>1, SpecSystemInv, PTL

(* The callbacks that bring a presence run between the connect signal and  *)
(* the disconnect signal, all of them before the latter.                   *)
THEOREM SignalsWhileConnected == SystemSpec => []SignalledWhileConnected
<1>1. SystemInv => SignalledWhileConnected
  <2> SUFFICES ASSUME SystemInv, ~Doomed, NEW t \in Threads, ~Free(t)
               PROVE  /\ \A i \in DOMAIN heard : heard[i] # "disconnect"
                      /\ handler[t] = "presence" => \E i \in DOMAIN heard : heard[i] = "connect"
    BY DEF SignalledWhileConnected
  <2>1. mClient <= 1 /\ ~Gone
    BY NotDoomed, InUse DEF SystemInv
  <2>2. Said # "disconnect" /\ (handler[t] = "presence" => Said \in {"connect", "roster"})
    BY <2>1 DEF SystemInv, FirstConnectionOnly
  <2>3. ~Heard("disconnect") /\ (Said = "roster" => Heard("connect"))
    BY <2>1, <2>2 DEF SystemInv, ClientInv, HeardInOrder
  <2>4. Said = "connect" => Heard("connect")
    <3> SUFFICES ASSUME Said = "connect" PROVE Heard("connect")
      OBVIOUS
    <3>1. heard # <<>> /\ heard[Len(heard)] = "connect"
      BY DEF Said
    <3>2. heard \in Seq({"tls", "connect", "roster", "disconnect"})
      BY DEF SystemInv, ClientInv, ClientTypeOK
    <3>3. Len(heard) \in DOMAIN heard
      BY <3>1, <3>2
    <3>4. QED
      BY <3>1, <3>3 DEF Heard
  <2>5. QED
    BY <2>2, <2>3, <2>4 DEF Heard
<1>2. QED
  BY <1>1, SpecSystemInv, PTL

(* With its callbacks split up the client still implements XmppLifecycle.  *)
THEOREM SystemFollowsLifecycle == SystemSpec => ImplementsLifecycle
<1>1. SystemInit => Lifecycle!Init
  BY LifecycleInit DEF SystemInit
<1>2. SystemInv /\ [SystemNext]_systemVars => [Lifecycle!Next]_(Lifecycle!vars)
  <2>1. ASSUME SystemInv, ClientStep PROVE [Lifecycle!Next]_(Lifecycle!vars)
    BY <2>1, LifecycleStep DEF SystemInv, Lifecycle!vars
  <2>2. ASSUME UNCHANGED allVars PROVE UNCHANGED Lifecycle!vars
    BY <2>2 DEF allVars, vars, clientVars, Lifecycle!vars, Life, Gone
  <2>3. UNCHANGED systemVars => UNCHANGED allVars
    BY DEF systemVars
  <2>4. QED
    BY <2>1, <2>2, <2>3, ClientPart
<1>3. QED
  BY <1>1, <1>2, SpecSystemInv, PTL DEF SystemSpec, ImplementsLifecycle, Lifecycle!Spec
=============================================================================
