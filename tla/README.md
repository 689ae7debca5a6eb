# Cinder-XMPP: a formal model

TLA+ models of the C++ wrapper in `src/src` (`XmppListener`, `XmppClient`,
`XmppPeer`) around the gloox XMPP library and of the code that gloox's headers
contain, the TLC configurations that check them on small instances, and TLAPS
proofs of every safety property that the passing runs check and of both
refinements, for all values of the constants.

## 1. The system

The repository has two parts: 546 lines of wrapper in `src/src`, and the
headers and a prebuilt binary of gloox 1.0.3. The source of gloox, of Cinder
and of the C++ library is not there. The headers are long, but they are
declarations and documentation: what they contain as code, apart from getters
and setters without a branch, is a few hundred lines.

| Component | State | Operations | Called by |
|---|---|---|---|
| `XmppListener`, connection | `mIsConnected`, `mClient` | `setup`, `openConnection`, `sendMessage`, destructor; callbacks `onConnect`, `onTLSConnect`, `onDisconnect`, `handleRoster` | the application or `XmppClient`; gloox, on the thread inside `connect`/`recv` |
| `XmppListener`, sessions | `mSession`, two filters | `handleMessageSession`, `handleMessage` | gloox, same thread |
| `XmppClient` | `mListener`, `mListenerThread`, `mRoster`, six signals | `connect`, `sendMessage`, destructor; the callbacks forwarded by the listener | the application; the listener, on the listener thread |
| `XmppPeer` | username, connected, status | `setStatus`, `presenceToStatus` | `XmppClient` |
| gloox, inline code | lists of listeners and of owned pointers; the extensions of a `Resource` | `ForEach`, `clearList`, `clearMap`; `setExtensions`, `clone`; `long2string` | gloox itself |
| gloox, binary | a stream, a session list and a roster per `gloox::Client` | `connect`, `recv`, `send`, `disconnect`, `disposeMessageSession` | `XmppListener` |

How they interact: `XmppClient::connect` calls `setup`, which overwrites
`mClient`, and starts a `std::thread` in `openConnection`; the object of that
thread goes to `mListenerThread`, replacing the one before. `openConnection`
connects and then receives in a loop. Everything the server does comes back
on that thread as a callback of gloox to the listener and from the listener to
its delegate, where it becomes a signal, or, for a disconnection with a reason,
an exception. The application's thread reads `mIsConnected` and `mClient` at
the same time, in `sendMessage`, `setup`, `isConnected` and the destructor.
There is no lock anywhere in the wrapper.

What is hard, and so what the properties are about (`hazards` in
`PROJECT.json` has each one with its line):

- check-then-act on `mIsConnected` and `mClient` in `openConnection`
  (XmppListener.cpp:54) and `sendMessage` (:149), against callbacks and `setup`;
- the receive loop reads `mClient` again before each `recv` (:57);
- the flag is raised before the login, at TLS (:80), and cleared only by
  `onDisconnect` (:73);
- life times: the leaked old client (:39), the session the wrapper and gloox
  both point to (:16-23, :116), the thread object that is never joined
  (XmppClient.cpp:17, :27), the members that are destroyed under the running
  thread (XmppClient.h:115-123), the exceptions nobody catches (:46-74);
- two rosters that are kept in step by one callback out of eight
  (XmppListener.h:70-83), keyed differently (XmppClient.cpp:105);
- iterators and pointers looked up in one line and used in another, with
  nothing but the rarity of a second thread to protect them
  (XmppClient.cpp:90, :117; XmppListener.cpp:116-123);
- gloox's loops, which call out while they walk a list (util.h:90, :150), and
  copies of extensions that two owners delete (resource.h:55, :92).

What makes each component correct: *connection* — the flag tells the truth up
to a callback in flight, an open stream of the current client always has a
reader, `openConnection` returns when the stream is gone; *sessions* — no message
is lost, nothing is freed twice or used afterwards, every session passes on
what it should, `mSession` does not dangle; *client* — signals in order, no use
of the listener after its destruction, no message on a stream that still
negotiates in the clear; *roster* — what
the client says of a peer is what gloox knows of it; *callbacks* — those of
different threads never meet, and those of one connection see its own roster and
session; *gloox's loops and copies* — nobody is forgotten or called twice for one
registration, and each object is deleted once.

## 2. The modules

| Module | Models | Extends / uses |
|---|---|---|
| `XmppListener` | the connection side of `XmppListener.cpp`, for any set of threads | |
| `XmppLifecycle` | abstract: accepted connects and the order of signals | |
| `XmppClient` | `XmppClient.cpp:12-83, 125-133` around the listener | extends `XmppListener`; implements `XmppLifecycle` |
| `XmppSessions` | `handleMessageSession` against gloox's session lists | |
| `XmppPeer` | the value class `XmppPeer` as operators | |
| `XmppRoster` | `XmppClient.cpp:85-123` beside gloox's roster | extends `XmppPeer` |
| `XmppContacts` | abstract: the contacts an application has been told of | implemented by `XmppRoster` |
| `XmppSystem` | the callbacks of one client on its listener threads | extends `XmppClient` |
| `GlooxLists` | `util::ForEach`, `clearList`, `clearMap` | |
| `GlooxUtil` | `util::long2string` | |
| `GlooxExtensions` | `Resource::setExtensions` and the `clone()` functions | |
| `GlooxInline` | these three side by side | extends them |
| `XmppListenerProofs`, `XmppSessionsProofs` | theorems about their modules | `XmppListener`, `XmppSessions` |
| `XmppClientProofs` | theorems about `XmppClient`, and that it implements `XmppLifecycle` | extends `XmppClient` and `XmppListenerProofs` |
| `XmppRosterProofs` | theorems about `XmppRoster` and `XmppPeer`, and that they implement `XmppContacts` | `XmppRoster` |
| `XmppSystemProofs` | theorems about `XmppSystem`, and that it implements `XmppLifecycle` | extends `XmppSystem` and `XmppClientProofs` |
| `GlooxListsProofs`, `GlooxUtilProofs`, `GlooxExtensionsProofs` | theorems about the three parts of `GlooxInline` | `GlooxInline` |
| `MC*` | values of the constants for TLC | |

### XmppListener

Variables named as in the code are the code's members. The others are the state
of each gloox client (`stream`), where each thread stands (`pc`, `inside`,
`blocking`, `note`), a `sendMessage` in progress (`sending`, `sent`), and the
history `shared`: two threads have been inside one client.

Each access to a shared member that another thread can separate from the next
is a step of its own: `openConnection` is `CallOpenConnection`,
`OpenConnection` (the test, line 54), `Connect` (55) and `Loop` (57-58);
`sendMessage` is `SendMessageTest` (149) and `SendMessageSend` (152); the
destructor is `DestructorDisconnect` (16) and `DestructorDelete` (23). A
callback is one step: it assigns the flag and returns. `mIsConnected` is a plain
`bool` accessed by two threads without synchronisation, formally a data race;
the model gives it the outcomes of the platforms the block supports, where an
aligned byte is read and written whole, in any interleaving.

`mClient` is the number of the last client that `setup` allocated, so that a
replaced client stays in the model with its stream and its thread.

The destructor waits for nothing and may run at any time. Line 16 closes the
current client's stream, if it has one, and calls `onDisconnect`; the threads run
on, between the two lines and after them. `lifetime` says how far it has got. A
thread, or a `sendMessage`, that takes a further step after line 23 uses freed
memory (`UseDeleted`), and there the model ends.

What gloox does is external and kept to what the wrapper can see:

- a stream is *down*, *connecting*, *plain*, *secure*, *authed* or *online*;
- `connect` on a client that is not *down* returns true at once, or else opens a
  socket, or returns false at once without a notification (a user name that makes
  no JID); `recv` on a client without a socket returns `ConnNotConnected`;
- `connect(true)` receives until the stream ends, `connect(false)` and `recv()`
  handle one portion of data;
- at the end of a stream gloox closes the socket before it notifies, so the
  stream is *down* while `onDisconnect` is on its way;
- after the end of a stream, `recv` returns the reason or `ConnNoError`: both
  are allowed.

### XmppClient

Every action of the listener is reused with the client's part conjoined: the
callback `onConnect` of the listener and the signal of the client are one step,
as in the code (the delegate is called from inside). `connect` is three steps:
`setup`, the new thread (which runs at once), and the assignment to
`mListenerThread`. `XmppClient::connect` passes `this` for the parameter
`bool toggle`: it converts to true, so the thread is in `connect(true)`. An
exception is a step that marks the thread as `throwing` and a later `Uncaught`,
since between the two the other threads run on.

`~XmppClient` has an empty body and destroys its members from the last to the
first while the listener thread runs: `DestroyMembers` (the signals and `mRoster`,
XmppClient.h:118-123), `DestroyThread` (`mListenerThread`, :117: `std::terminate`
if there is a thread, finished or not) and `DestroyListener` (`mListener`, :116, the
two lines of `~XmppListener`). In the interval after the first step (`Gone`)
callbacks still come. One that emits a destroyed signal ends the process
(`CrashInSignal`) or goes on, with or without calling a slot (`Emit`), and is
remembered in `misused`.

`Login` lets a user in whose password the server accepts; that is the only thing
the model knows of accounts.

### XmppSessions

The thread of each client runs `handleMessageSession` line by line: `DisposeOld`
(116) reads `mClient` and `mSession`, `FreeOld` is the deletion inside of it,
`Assign` (118), `RegisterHandler` (119), `RegisterEventFilter` (120-121) and
`RegisterStateFilter` (122-123) use `mSession` as it is by then, and `Deliver`
is gloox passing on the message. Other clients' threads and `setup` may run
between any two. A session is a number, with its target, the client whose list it
is in, the number of times it was released and its `hooks`: which of messages,
events and chat states it passes to the listener. `lost`, `misuse` and
`overlapped` are history: a text without a handler, a use after the release, and
two threads that were handling a message at once. Each access to a session list is
atomic in the model; gloox locks some and not all of them.

### XmppPeer and XmppRoster

Both enumerations are numbers because the code casts between them.
`handleRosterPresence` for a username without an entry dereferences `end()`,
which is undefined: the model chooses between a crash and a signal with an
arbitrary peer (`outcome`), and in the latter case goes on.

gloox's roster (`gRoster`, `gPresence`) is changed by pushes and presences, the
client's (`mRoster`) only by `handleRoster` and, in place, by
`handleRosterPresence`.

`XmppContacts` is what is left when JIDs, resources, pushes and the flag of a
peer are hidden: one roster signal at most, a contact whose status is the one last
signalled, a presence of a stranger that may crash, and messages that come with
the contact as it is at that moment. `XmppRoster` implements it with
`contacts` the statuses of `mRoster` and `told` and `named` what the last signals
carried.

### XmppSystem

The other modules look at one kind of callback each. `XmppSystem` puts them on the
threads of `XmppClient`: while a thread is in `recv` on a stream that is far enough,
it may enter the roster, presence, message or session callback (`RosterBegin`,
`PresenceBegin`, `MessageBegin`, `SessionBegin`) and leaves it in a later step.
Between the two it holds what it has looked up (`iter`), and every other thread
runs on. The contents that the other modules are about are left out: `mRoster` is
the set of usernames with an entry, and `rosterOf` and `sessionOf` name the
connection whose roster and session they are. `DestroyRoster` is the step of
`~XmppClient` that takes `mRoster` away: an iterator held across it is invalid, and
so is what a callback looks up afterwards. A thread inside a callback does
nothing else (`Elsewhere`). The slots an application connects are not modelled:
`XmppClient` has no operation that one could not also call from elsewhere.

### GlooxLists, GlooxUtil, GlooxExtensions, GlooxInline

`GlooxLists` is the loops of util.h over a list or map whose elements, called in
each round, may add nodes and remove any of them. Removing a node invalidates
exactly the iterators to it, as for a `std::list` or `std::map`. A list grows at its
end, a map (`clearMap`) wherever the key of the new entry belongs, also before the
iterator. A node is one registration: a listener that a callback removes and
registers again comes back as another node. It is in the container once, so
`Without`, which takes out one element, is `erase` as well as `remove`.

`GlooxUtil` is the loop of `long2string` on integers of `Width` bits. Division
and remainder round towards zero, and the negation of the smallest integer is
either of the two results a compiler may produce. A character is its code,
`value % base + '0'`: above nine it is one of `:` to `?`. What a character is worth
as a digit (`DigitValue`) is the reader's side, in the properties.

`GlooxExtensions` describes each class of extension by the pointers it owns and
by what its `clone()` does with them: copies them, takes them over (`shares`) or
follows them without a test (`needs`). A presence brings extensions with any
choice of pointers set, `setExtensions` clones them one by one, the presence and
the resource delete theirs. `m_expireat` of an `AMP` is the date of a rule, a pointer
in a union that the compiler's copy of the rule takes over. Destructors, and the
copy constructor of the lists' elements, are in the binary; they are taken to delete
what the class owns, as the documentation of `FeatureNeg` (featureneg.h) and of
`Disco::Items` (disco.h:296) says. A list of pointers counts as one pointer. The
resource stands for whoever keeps clones: which stanza a class may come in is left
open.

The three share no state. `GlooxInline` is their disjoint sum: in a behaviour one
of them runs and the others rest.

## 3. What is checked

`CHECK_DEADLOCK FALSE` is in every configuration: an application may stop
calling, a destroyed or terminated process takes no step, and the bounds end
behaviours.

| Run | Bounds | Shows |
|---|---|---|
| `listener` | 2 threads, 2 clients, fair scheduling | `TypeOK`, `FlagHasAStream`, `CurrentStreamServed`, `FlagFallsAfterStream`, `OpenConnectionReturns` |
| `client` | 2 connects, 2 users, fair scheduling | `SharingIsFatal`, `NeverSentInTheClear`, `DestroyedWithoutThread`, `DestroyedMembersAreFatal`, `DestructorIsSilent`, `FailureIsFatal`, `SecondConnectIsFatal` |
| `system` | 2 connects, 1 user, 1 contact | `CallbacksExclusive`, `IteratorsValid`, `PeersOfThisConnection`, `NoSessionLeaks`, `SignalledWhileConnected`, `ImplementsLifecycle` |
| `sessions` | 2 clients, 3 sessions, 1 sender with 2 resources, 2 types | `TypeOK`, `NothingLost`, `NoDoubleFree`, `NoUseAfterFree`, `SessionNotDangling`, `LiveSessionsHooked`, `OneSessionPerListener` |
| `roster` | 3 JIDs of 2 usernames, 4 kinds of presence | `TypeOK`, `ConnectedIsOnline`, `PublishedArePeers`, `UndefinedNeedsPush`, `MessageNamesItsSender`, `ImplementsContacts` |
| `inline` | 4 nodes; 8 bits, bases 0 to 18; 3 extensions sent | `UndefinedIsSelfInflicted`, `OncePerRegistration`, `NobodyForgotten`, `ClearedForGood`; `ReadsBack`; `CopiesAreDefined`, `ObjectsAreOwned`, `CopiesAreComplete` |
| `client_password` | as `client` | violated: `LogsInWithPassword` |
| `client_address` | as `client` | violated: `AddressedToServer` |
| `sessions_replaced` | as `sessions`, with 2 senders | violated: `OneSession` |
| `roster_push` | as `roster` | violated: `PresenceHasAPeer` |
| `inline_base` | as `inline`, no extensions | violated: `ReadsBackInEveryBase` |
| `inline_extensions` | as `inline`, 2 extensions sent | violated: `LastPresenceOnly` |

`TypeOK` of the listener and of the sessions also says that no pointer is null
where the code dereferences it without a test of its own: `mClient` at
XmppListener.cpp:55, 58 and 152, `mSession` at 119 to 123.

Why these bounds are enough to mean something. Two threads and two clients give
every pair of steps of the code an interleaving: the thread that serves the old
client beside one that serves the new, two threads in one client, and a callback of
each in flight. The proofs of section 4 remove the bounds of every run for all but the
four liveness properties. A third `connect` of an `XmppClient` changes nothing: it
needs the second to return, and it does not. Three sessions let a session be
opened, replaced, and its replacement replaced; a session is looked up by its
sender, resource and type, and two resources and two types of one sender give every
way in which a message can fit one and not another (a second sender adds nothing
but sessions that never fit). In `system` one contact is enough for an entry that is
there, is not there, or is taken away. Four nodes are one before the iterator, the
one at it, the one after it and one that is added. 8 bits hold every digit of
every base and a carry; nothing in `long2string` depends on the width but the
smallest integer. Three extensions are two in one presence and one in the next, or
one in each of three. Of the presences, 0 stands for the
five that are online (the code compares with 5 only), 5 is the boundary, 7 is the
error gloox keeps to itself, 8 is the one beyond the cast; 6 is `Probe`, which
gloox answers itself.

Some properties are weaker than one would like, and say so in their definition:

- `FlagHasAStream` excepts listeners on which two threads have been inside one
  gloox client. The exception is needed: there a late `onConnect` overtakes
  `onDisconnect` and the flag stays up for good. `SharingIsFatal` shows that an
  `XmppClient` reaches that state only in a process that the second `connect` is
  about to end.
- `ConnectedIsOnline` excepts usernames that were heard of from two places, those
  of two resources of one contact among them, and those whose item a push removed.
  What the application is told of these is in `ImplementsContacts`.
- `NothingLost`, `NoDoubleFree`, `NoUseAfterFree` and `LiveSessionsHooked` of
  `XmppSessions` except listeners on which two threads have handled messages at
  once (`overlapped`): there one thread disposes of, or hooks, the session of the
  other, and each of the four fails. `SessionNotDangling` needs no such exception.
- The properties of `XmppSystem` except a process that is *doomed*: a second
  `connect` has begun, or the destructor of a client that was connected, and both end
  in `std::terminate`. They say that this is the one thing that keeps the callbacks
  of two connections apart, and `mRoster` from being used after its destruction.
- `DestructorIsSilent` is about the `~XmppListener` that `~XmppClient` gets to. A
  stand-alone listener can be destroyed under an open stream and under a running
  thread; the model of `XmppListener` has both, and of what follows it says nothing.
  `FlagFallsAfterStream` and `OpenConnectionReturns` end with the deletion.
- `DestroyedMembersAreFatal` and `IteratorsValid` do not say that nothing destroyed
  is used, for it is: they say that no process outlives it.
- `NeverSentInTheClear` is about streams that still negotiate. One that the server
  authenticated without TLS counts as *authed*, and messages on it are as clear as
  the login was.
- `CopiesAreDefined` and `ObjectsAreOwned` except four extensions: an `AMP` with a
  date, a `Disco::Items` and a `FeatureNeg` with content, whose clones share a
  pointer with the original (amp.h:226, disco.h:328, featureneg.h:76), and a
  registration query that has no OOB, whose clone follows a null pointer
  (registration.h:220). `CopiesAreComplete` says what a resource does keep, all
  extensions since it came online; that resource.h:77 promises the last presence
  only is `LastPresenceOnly`, which fails.
- `ReadsBack` excepts the smallest integer, and the bases above ten, where it fails:
  `ReadsBackInEveryBase`.
- `ClearedForGood` says exactly what clearing leaves: what destructors have added
  behind the iterator. In a list that is only what the last destructor adds.
- `UndefinedIsSelfInflicted` names the changes a callback may not make: removing
  its own node and, for a destructor, the node after it.

### The disagreements

`PROJECT.json` lists six findings, each with the run that shows it: the username
used as the password, the empty server in every address, the session of a replaced
client that is never disposed of, the dereference of `end()` for a contact that came
by a push, the characters of `long2string` in the bases above ten, and the
extensions of earlier presences that a resource keeps. The wrapper reaches the first
four and the last; nothing in the repository passes `long2string` a base. The
copies that share a pointer are in the exceptions above: no line of the repository
says what they should do, and the wrapper sends and keeps none of them.

### Fairness

`listener` assumes weak fairness of the steps a thread takes by itself
(`ThreadStep`: the tests, the calls, the callbacks), because the operating system
runs every runnable thread. It assumes nothing of the network, which need not
answer, nor of the application. `client` adds the steps of the application's
thread inside `connect` and `~XmppClient`, which do not wait for anything.
`OpenConnectionReturns` is a promise to a thread that is alone: another may open the
current client again before the first sees the end of its stream, and do so in each
round, so a second thread outside `idle` is an exception in the property.

## 4. What is proved

Every invariant, the action property and both refinements that the passing runs
check are theorems: they hold for every value of the constants that satisfies the
named `ASSUME`s. Those say little more than what kind of thing a constant is:
counts are natural numbers (`MaxSetups` at least 1), the set of JIDs is finite,
`UserOf` maps JIDs to usernames, the reserved values (`NoThread`, `NoNode`,
`NoPeer`, `"unknown"`) are not among the ordinary ones, a reason and a presence are
among those that gloox has, and the classes of extension are those in
`GlooxExtensions`.

Few of the properties are inductive by themselves. Each proof
module states the invariant that is (TLC agreed to each one on the run of its model
before it was proved), shows that `Init` gives it and that each action keeps it,
one step or one lemma per action, and draws the properties from it.

### The listener: `XmppListenerProofs`

| Theorem | Statement |
|---|---|
| `TypeCorrect` | `Spec => []TypeOK` |
| `FlagIsExplained` | `Spec => []FlagHasAStream` |
| `StreamIsServed` | `Spec => []CurrentStreamServed` |

The invariant `IInv` adds

- `PlacesOK`: what a place implies of the other thread variables — a thread at
  `idle`, `entry`, `connect` or `loop` is inside no client and elsewhere inside
  one that `setup` has made, and `mClient` is set where the code dereferences it;
- `SocketsOK`: a client that `setup` has not made yet has no socket, and a socket
  that is being opened has a thread that opens it. A second thread that finds the
  client *connecting* may therefore leave;
- `AloneOK`: unless `shared`, no two threads are inside the same client, and a
  thread finds the stream as it left it: *connecting* while it opens the socket, and
  at TLS or beyond while it delivers `onTLSConnect` or `onConnect`. This is what
  keeps a late `onConnect` from raising the flag over a closed stream.

`TypeOK` follows from the types and `PlacesOK`. `CurrentStreamServed` needs nothing
of the flag: a thread leaves the loop only when the client it has just read has no
open socket, and the destructor closes the stream that it takes from its reader.

### The client and its callbacks: `XmppClientProofs`, `XmppSystemProofs`

| Theorem | Statement |
|---|---|
| `ClientTypeCorrect` | `ClientSpec => []ClientTypeOK` |
| `SharingEndsTheProcess` | `ClientSpec => []SharingIsFatal` |
| `NothingInTheClear` | `ClientSpec => []NeverSentInTheClear` |
| `DestroyedAlone` | `ClientSpec => []DestroyedWithoutThread` |
| `MembersOutliveTheThread` | `ClientSpec => []DestroyedMembersAreFatal` |
| `QuietDestructor` | `ClientSpec => DestructorIsSilent` |
| `FollowsLifecycle` | `ClientSpec => ImplementsLifecycle` |
| `NoConcurrentCallbacks` | `SystemSpec => []CallbacksExclusive` |
| `IteratorsStayValid` | `SystemSpec => []IteratorsValid` |
| `PeersOfOwnConnection` | `SystemSpec => []PeersOfThisConnection` |
| `SessionsDisposed` | `SystemSpec => []NoSessionLeaks` |
| `SignalsWhileConnected` | `SystemSpec => []SignalledWhileConnected` |
| `SystemFollowsLifecycle` | `SystemSpec => ImplementsLifecycle` |

`MaxSetups` and the number of threads are free, but `StageOK` lists how far
`connect` gets: the assignment of line 27 is never completed a second time, so
there are at most two clients, whatever the bound, and before the second call one
thread. All else is said of the time before that:

- `Negotiated`: a raised flag, or a `sendMessage` that has passed its test, means
  that the thread is past the opening of the socket and no stream is in the clear.
  Neither follows from the other alone: the flag is read in one step and the message
  sent in another.
- `SignalsInOrder` and `HeardInOrder`: the last signal determines, and is
  determined by, where the thread and the stream are (no signal before the socket is
  open, `connect` or `roster` while the stream is online, nothing after
  `disconnect`). `XmppLifecycle` has no threads and no streams, so a step of the
  client maps to one of it only because of this.
- `ThreadsStarted`: only started threads are anywhere, and one that throws is in a
  callback whose reason throws.

The destructor's part follows from `StageOK`: `~XmppClient` gets past
`mListenerThread` only if no thread was ever started, and then no client has a
stream that could be closed and nobody calls back (`MembersStep`, `DestroyedStep`).
`MembersOutliveTheThread` is the interval before: whatever callbacks use there, the
next step of the destructor ends the process.

`SystemInv` is this invariant, with `CallbacksPlaced` (a callback runs where gloox
calls it) and `FirstConnectionOnly` (the roster, the iterators and the session are
those of the first connection). `CallbacksExclusive` then follows from `StageOK`:
until the process is doomed there is one thread. `IteratorsValid` has the interval
of the destructor in it: `DestroyRoster` invalidates the iterators of a process that
is doomed from that step on, or of one without threads, where there are none.

The lemmas `StepsOfApplication`, `StepsOfThread` and `StepsOfSystem` say that each
step of the larger specification is one of the smaller, or one of a few that it
adds. Through them the proofs about the listener serve the client, and those of the
client serve the system.

### The roster: `XmppRosterProofs`

| Theorem | Statement |
|---|---|
| `RosterTypeCorrect` | `Spec => []TypeOK` |
| `PublishedHavePeers` | `Spec => []PublishedArePeers` |
| `UndefinedWasUnpublished` | `Spec => []UndefinedNeedsPush` |
| `MessageNamesSender` | `Spec => []MessageNamesItsSender` |
| `ConnectedPeersAreOnline` | `Spec => []ConnectedIsOnline` |
| `FollowsContacts` | `Spec => ImplementsContacts` |

`IInv` adds `PeersAreNamed` (a peer carries the username it is kept under, which
`MessageNamesItsSender` rests on) and `QuietUntilAnswered` (no presence is
signalled before the roster request is answered: otherwise a later `handleRoster`
could publish the user whose peer was undefined). The lemmas `CastIsAStatus`,
`SetStatusAgrees` and `NewPeerAgrees` are facts about `XmppPeer`, `HandleRosterEffect`
and `HandleRosterPresenceEffect` about the two handlers.

`OnlineInv` is for `ConnectedIsOnline`: `EmptyUntilAnswered` (no peer is older than
the first presence), `KnownWereSeen` (gloox has presences only of resources it
heard of) and `PeersAreOnline`, the property with its first exception stated as
two different places instead of a cardinality, which is why `seen` has to be
finite. The refinement of `XmppContacts` has one lemma per signal
(`AnswerIsLoad`, `PresenceIsPresence`, `MessageIsMessage`); what they need of the
invariant is that a peer's status is one, so that `contacts` never takes a peer for
a stranger.

### The sessions: `XmppSessionsProofs`

| Theorem | Statement |
|---|---|
| `SessionTypeCorrect` | `Spec => []TypeOK` |
| `MessagesArrive` | `Spec => []NothingLost` |
| `ReleasedOnce` | `Spec => []NoDoubleFree` |
| `UsedWhileAlive` | `Spec => []NoUseAfterFree` |
| `SessionStaysValid` | `Spec => []SessionNotDangling` |
| `SessionsReport` | `Spec => []LiveSessionsHooked` |
| `OneSessionAlive` | `Spec => []OneSessionPerListener` |

`SessionInv` has

- `NumbersOK`: a callback has a session that gloox has opened, for a client that
  `setup` has made;
- `UnassignedOK`: a session that its thread has not stored in `mSession` is alive,
  no other thread stores it, and none is about to delete it. This holds also where
  callbacks overlap, and with it `SessionNotDangling`, for any number of threads
  that delete one session and store theirs in any order;
- `AloneOK`: unless `overlapped`, one thread is in a callback, and at each line it
  is known which session `mSession` points to, that it is alive and which hooks it
  has;
- `FirstClientOK`: before a second `setup`, a session that is alive is in
  `mSession`, or is about to be stored there by the thread that disposes of the
  old one.

`LiveSessionsHooked` is part of the invariant: `NothingLost` needs that a session
left by an earlier callback was left with all its hooks.

### The code in gloox's headers: `GlooxListsProofs`, `GlooxUtilProofs`, `GlooxExtensionsProofs`

| Theorem | Statement |
|---|---|
| `UndefinedWhenRemoved` | `InlineSpec => []UndefinedIsSelfInflicted` |
| `CalledOnce` | `InlineSpec => []OncePerRegistration` |
| `EverybodyNotified` | `InlineSpec => []NobodyForgotten` |
| `NothingLeftBehind` | `InlineSpec => []ClearedForGood` |
| `LoopReadsBack` | `InlineSpec => []ReadsBack` |
| `DeletionIsDefined` | `InlineSpec => []CopiesAreDefined` |
| `NothingLeaks` | `InlineSpec => []ObjectsAreOwned` |
| `NothingDropped` | `InlineSpec => []CopiesAreComplete` |

*Lists.* `HeldOK` says that a node is in the list once and that what the loop holds
on to is in it unless a callback took it out. `ForEachOK` says which positions have
been called: those before the iterator, and its own while the function runs.
`ClearOK` says that before the iterator there are only the node whose destructor
runs and what destructors have added there, and behind it nothing of the sort. The
lemmas `FollowingIs`, `WithoutIs`, `InsertIs` and `AddIs` describe `++it`, `erase`
and the two insertions by positions.

*`long2string`.* The invariant `Continues` is about a reader of the digits that are
there: started with what is left of `value` it ends with the magnitude. A round puts
a digit in front and leaves the quotient, and the reader that starts with the
quotient has the old `value` after one digit (`OneMoreDigit`). No powers of the base
are needed. That `Meaning`, which is recursive, is what this reader computes
(`MeaningIs`) is an induction over the digits. That the characters are digits
(`DigitIs`) is where the base has to be at most ten. The library's induction theorems
take an operator as a parameter and cannot be used, so it is done by the smallest
position at which the two would differ (`LeastNumber`, from `WFMin`).

*Extensions.* `OwnersOK` says that, unless one was `risky`, an extension holds
objects with its own number and no two extensions have the same number, so no
object has two owners and the heap is what the two lists hold; `ProgressOK` says
what the loop of `setExtensions` has copied so far, of all presences since the
resource came online.

### Only model-checked

The four liveness properties, `FlagFallsAfterStream`, `OpenConnectionReturns`,
`FailureIsFatal` and `SecondConnectIsFatal`: TLAPS proves no liveness under fairness
and no `ENABLED`. That nothing follows the termination, and that a client whose
`connect` was called twice ends in no other way, is safety: it is in `XmppLifecycle`
and so in `FollowsLifecycle`. What the `violation` runs show is a counterexample and
needs no proof.

## 5. What is not modelled

- gloox beyond what is said above: its parsing, TLS, SASL, its mutexes, and the
  features the wrapper does not use (pubsub, MUC, vCard, ...). Its source is
  absent. 23,000 of the repository's 23,900 lines are its headers, and nearly all of
  them are comments, declarations, enumerations, and one-line getters and setters: a
  model of a declaration would be a guess. The functions in them that decide or
  loop are modelled, those of features the wrapper does not use only where their
  `clone()` decides who owns what.
- The log handler: it writes a line and is never registered, since nobody passes
  `enableLogging`.
- `handleMessageEvent`, `handleChatState`, `handlePresence` and the two
  subscription requests, which do nothing.
- What the message filters do with an event or a chat state: their handlers are
  empty. That they are registered is modelled (`hooks`).
- `XmppPeer::setConnected`, `setUsername`, `statusString` and the comparison
  operators, which nothing in the repository calls.
- What application code does inside a signal.
- What happens after a stand-alone `XmppListener` has been deleted under a thread
  that is still in `openConnection`. The listener has no operation that ends one, and
  it is the application that must wait; the model goes as far as the first use of the
  freed object (`UseDeleted`).
- The destruction of the sessions under a running callback: `Destroy` of
  `XmppSessions` waits for the callbacks, since an `XmppClient` never gets there
  with a thread (`DestroyedWithoutThread`).

## 6. Plan

Done: all the modules of section 2, the runs of section 3 and the proofs of
section 4. The model covers what the code allows, and every safety property that a
passing run checks is proved.

Left:

1. The safety half of the liveness properties: for `FlagFallsAfterStream`, that
   while the flag is up over a closed stream a step of the thread that will clear it
   stays possible; for `OpenConnectionReturns`, that each round of the loop brings
   the thread nearer to its end. Their conclusions stay with TLC.
2. `GlooxExtensions` for classes with a list of pointers of any length, instead of
   one pointer that stands for the list.
