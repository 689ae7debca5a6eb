----------------------------- MODULE GlooxLists -----------------------------
(***************************************************************************)
(* The loops of src/include/gloox/util.h over containers of pointers:      *)
(* ForEach, with which gloox notifies its listeners, and clearList and     *)
(* clearMap, with which it deletes what it owns. All call out in every     *)
(* round, to a member function or to a destructor, which may change the    *)
(* container they walk. A node is one registration of a listener, or one   *)
(* entry of a map: who is put in again after a removal gets another node.  *)
(***************************************************************************)
EXTENDS Naturals, Sequences

CONSTANTS
    Nodes,   \* the nodes of the list or map
    NoNode   \* no node; also the end() iterator

ASSUME NoNodeAssumption == NoNode \notin Nodes

VARIABLES
    list,       \* the nodes in the container, in its order
    loop,       \* "none", "forEach", "clearList", "clearMap", "done", "cleared" or
                \* "undefined"
    it,         \* the node at it
    current,    \* the node whose function or destructor is running
    called,     \* the nodes whose turn has come, in order
    dead,       \* the nodes that callbacks have taken out of the list
    missed,     \* history: the nodes that destructors added behind the iterator
    suspect     \* history: a callback removed a node the loop holds on to

loopVars == <<loop, it, current, called>>
listVars == <<list, loopVars, dead, missed, suspect>>

In(seq) == {seq[i] : i \in DOMAIN seq}
Used == In(list) \cup In(called) \cup dead
Clearing == loop \in {"clearList", "clearMap"}

ListsInit ==
    /\ list = <<>>
    /\ loop = "none"
    /\ it = NoNode
    /\ current = NoNode
    /\ called = <<>>
    /\ dead = {}
    /\ missed = {}
    /\ suspect = FALSE

-----------------------------------------------------------------------------
First(seq) == IF seq = <<>> THEN NoNode ELSE Head(seq)
Following(x) ==
    LET next == {i \in 2 .. Len(list) : list[i - 1] = x}
    IN  IF next = {} THEN NoNode ELSE list[CHOOSE i \in next : TRUE]
Without(seq, x) ==
    LET i == CHOOSE i \in DOMAIN seq : seq[i] = x
    IN  SubSeq(seq, 1, i - 1) \o SubSeq(seq, i + 1, Len(seq))

(* x comes after the first p nodes. *)
Inserted(seq, p, x) == SubSeq(seq, 1, p) \o <<x>> \o SubSeq(seq, p + 1, Len(seq))

Undefined ==
    /\ loop' = "undefined"
    /\ current' = NoNode
    /\ UNCHANGED <<list, it, called, dead, missed, suspect>>

Start(kind) ==
    /\ loop = "none"
    /\ loop' = kind
    /\ it' = First(list)
    /\ UNCHANGED <<list, current, called, dead, missed, suspect>>

Finish ==
    /\ loop = "forEach" \/ Clearing
    /\ current = NoNode /\ it = NoNode
    /\ loop' = IF loop = "forEach" THEN "done" ELSE "cleared"
    /\ UNCHANGED <<list, it, current, called, dead, missed, suspect>>

(* Mutant of Call: the iterator is advanced here too. *)
CallAdvances ==
    /\ loop = "forEach" /\ current = NoNode /\ it \in In(list)
    /\ current' = it
    /\ it' = Following(it)
    /\ called' = Append(called, it)
    /\ UNCHANGED <<list, loop, dead, missed, suspect>>

(* ForEach: the function is called on the node at the iterator.            *)
Call ==
    /\ loop = "forEach" /\ current = NoNode /\ it \in In(list)
    /\ current' = it
    /\ called' = Append(called, it)
    /\ UNCHANGED <<list, loop, it, dead, missed, suspect>>

(* Mutant of CallReturns: after a change the walk starts again. *)
CallReturnsRestarts ==
    /\ loop = "forEach" /\ current # NoNode
    /\ it' = IF dead = {} THEN Following(it) ELSE First(list)
    /\ current' = NoNode
    /\ UNCHANGED <<list, loop, called, dead, missed, suspect>>

(* ++it, which needs the node that the function was called on.             *)
CallReturns ==
    /\ loop = "forEach" /\ current # NoNode
    /\ IF current \in In(list)
       THEN it' = Following(it) /\ current' = NoNode
            /\ UNCHANGED <<list, loop, called, dead, missed, suspect>>
       ELSE Undefined

(* Mutant of Delete: it is advanced after the erasure, from a dead node. *)
DeleteInPlace ==
    /\ Clearing /\ current = NoNode /\ it \in In(list)
    /\ current' = it
    /\ called' = Append(called, it)
    /\ UNCHANGED <<list, loop, it, dead, missed, suspect>>

(* clearList and clearMap: it2 = it++, and the destructor of *it2. *)
Delete ==
    /\ Clearing /\ current = NoNode /\ it \in In(list)
    /\ current' = it
    /\ it' = Following(it)
    /\ called' = Append(called, it)
    /\ UNCHANGED <<list, loop, dead, missed, suspect>>

(* Mutant of DeleteReturns: the node is not erased. *)
DeleteKeeps ==
    /\ Clearing /\ current # NoNode
    /\ IF current \in In(list)
       THEN current' = NoNode /\ UNCHANGED <<list, loop, it, called, dead, missed, suspect>>
       ELSE Undefined

(* The erasure of it2. *)
DeleteReturns ==
    /\ Clearing /\ current # NoNode
    /\ IF current \in In(list)
       THEN /\ list' = Without(list, current)
            /\ current' = NoNode
            /\ UNCHANGED <<loop, it, called, dead, missed, suspect>>
       ELSE Undefined

(* The next round dereferences an iterator whose node is gone. *)
Dereference ==
    /\ loop = "forEach" \/ Clearing
    /\ current = NoNode /\ it \notin In(list) \cup {NoNode}
    /\ Undefined

(* What the owner does before, and a callback meanwhile. A map puts a node *)
(* where its key belongs, the lists of listeners and extensions at the end.*)
CallingOut == loop = "none" \/ current # NoNode

Add(x, p) ==
    /\ CallingOut /\ x \notin Used
    /\ loop = "clearMap" \/ p = Len(list)
    /\ list' = Inserted(list, p, x)
    /\ missed' = IF Clearing /\ ~\E j \in 1 .. p : list[j] = it THEN missed \cup {x} ELSE missed
    /\ UNCHANGED <<loopVars, dead, suspect>>

Remove(x) ==
    /\ CallingOut /\ loop # "none" /\ x \in In(list)
    /\ list' = Without(list, x)
    /\ dead' = dead \cup {x}
    /\ suspect' = (suspect \/ x = current \/ (Clearing /\ x = it))
    /\ UNCHANGED <<loopVars, missed>>

ListsNext ==
    \/ \E kind \in {"forEach", "clearList", "clearMap"} : Start(kind)
    \/ Call \/ CallReturns \/ Delete \/ DeleteReturns \/ Dereference \/ Finish
    \/ \E x \in Nodes : Remove(x) \/ \E p \in 0 .. Len(list) : Add(x, p)

-----------------------------------------------------------------------------
(* Properties.                                                             *)

(* A callback may add nodes and remove any node but its own and, from a    *)
(* destructor, the one after it: no other change makes the loop use a node *)
(* that is gone.                                                           *)
UndefinedIsSelfInflicted == loop = "undefined" => suspect

(* A listener is notified once for each time it is registered, and an      *)
(* entry is deleted once, whatever is added and removed on the way: only   *)
(* one that a callback has removed and registered again is notified again. *)
OncePerRegistration == \A i, j \in DOMAIN called : called[i] = called[j] => i = j

(* When ForEach ends, every listener in the list has been notified, those  *)
(* that callbacks have added too.                                          *)
NobodyForgotten == loop = "done" => In(list) \subseteq In(called)

(* When clearList or clearMap ends, nothing that was deleted is left, but  *)
(* all that destructors have added where the iterator had passed already:  *)
(* for clearList, after it had reached the end.                            *)
ClearedForGood == loop = "cleared" => In(list) = missed \ dead
=============================================================================
