-------------------------- MODULE GlooxExtensions --------------------------
(***************************************************************************)
(* The stanza extensions that a gloox Resource keeps of its presences      *)
(* (src/include/gloox/resource.h): setExtensions clones what the presence  *)
(* carries, the presence deletes its own, the resource deletes the clones. *)
(* What clone() does with each pointer of an extension decides whether     *)
(* both may do so. The resource stands for whoever keeps clones: clone()   *)
(* is public, and every class is tried here whatever stanza carries it.    *)
(***************************************************************************)
EXTENDS Naturals, Sequences

CONSTANTS
    Classes,       \* the classes of extension that presences carry
    MaxExtensions  \* bound: extensions sent in a behaviour

ASSUME MaxExtensionsAssumption == MaxExtensions \in Nat

(* A class by the pointers it owns (a list of pointers is one), those that *)
(* its clone() takes over as they are, and those it dereferences untested. *)
(* An AMP's rules are copied member by member, and one with the condition  *)
(* 'expire-at' owns its date by a pointer; the items of a DiscoItems are   *)
(* owned by it (disco.h:296) and its copy is memberwise.                   *)
Copying(pointers) == [owns |-> pointers, shares |-> {}, needs |-> {}]

Nickname    == Copying({})
AMP         == [Copying({"m_rules", "m_expireat"}) EXCEPT !.shares = {"m_expireat"}]
DiscoItems  == [Copying({"m_items"}) EXCEPT !.shares = {"m_items"}]
Command     == Copying({"m_notes", "m_form"})
SI          == Copying({"m_tag1", "m_tag2"})
PrivateXML  == Copying({"m_privateXML"})
MUC         == Copying({"m_password", "m_historySince"})
MUCUser     == Copying({"m_jid", "m_actor", "m_thread", "m_reason", "m_newNick",
                        "m_password", "m_alternate"})
MUCOwner    == Copying({"m_form"})
PubSubOwner == Copying({"m_form"})
SearchQuery == Copying({"m_form", "m_srl"})
Registration == [Copying({"m_form", "m_oob"}) EXCEPT !.needs = {"m_oob"}]
FeatureNeg   == [Copying({"m_form"}) EXCEPT !.shares = {"m_form"}]

ClassOf == [Nickname |-> Nickname, AMP |-> AMP, DiscoItems |-> DiscoItems, Command |-> Command,
            SI |-> SI, PrivateXML |-> PrivateXML, MUC |-> MUC, MUCUser |-> MUCUser,
            MUCOwner |-> MUCOwner, PubSubOwner |-> PubSubOwner, SearchQuery |-> SearchQuery,
            Registration |-> Registration, FeatureNeg |-> FeatureNeg]

ASSUME ClassesAssumption == Classes \subseteq DOMAIN ClassOf

VARIABLES
    stanza,    \* the extensions of the presence being handled
    resource,  \* m_extensions of the resource
    place,     \* where setExtensions is in stanza; 0 outside of it
    made,      \* the number of extensions created
    sent,      \* history: the number of extensions sent
    received,  \* history: the extensions of all presences of the resource
    last,      \* history: those of its last presence
    risky,     \* history: one was sent whose clone() does not copy what it has
    heap,      \* the objects allocated and not deleted
    defined    \* FALSE after a null pointer was followed or an object deleted twice

extensionVars == <<stanza, resource, place, made, sent, received, last, risky, heap, defined>>

(* An extension: its number, its class and the object behind each pointer  *)
(* that is not null, as <<creator, pointer>>.                              *)
Parts(x) == {x.points[p] : p \in DOMAIN x.points}
Alike(x, y) == x.class = y.class /\ DOMAIN x.points = DOMAIN y.points
Objects(seq) == UNION {Parts(seq[i]) : i \in DOMAIN seq}

(* clone() takes a pointer over, or follows one that is null. *)
Risky(x) ==
    \/ ClassOf[x.class].shares \cap DOMAIN x.points # {}
    \/ ~ ClassOf[x.class].needs \subseteq DOMAIN x.points

Fresh(id, class, present) ==
    [id |-> id, class |-> class, points |-> [p \in present |-> <<id, p>>]]

ExtensionsInit ==
    /\ stanza = <<>>
    /\ resource = <<>>
    /\ place = 0
    /\ made = 0
    /\ sent = 0
    /\ received = <<>>
    /\ last = <<>>
    /\ risky = FALSE
    /\ heap = {}
    /\ defined = TRUE

-----------------------------------------------------------------------------
(* The parser's choice: no pointer set, one of them, or all; there is no   *)
(* date without a rule.                                                    *)
Choices(class) ==
    LET owns == ClassOf[class].owns
    IN  {P \in {{}, owns} \cup {{p} : p \in owns} : "m_expireat" \in P => "m_rules" \in P}
Contents == UNION {[class : {c}, present : Choices(c)] : c \in Classes}

Presence ==
    /\ defined /\ place = 0 /\ stanza = <<>>
    /\ \E n \in 0 .. MaxExtensions - sent :
        \E x \in [1 .. n -> Contents] :
            /\ stanza' = [i \in 1 .. n |-> Fresh(made + i, x[i].class, x[i].present)]
            /\ received' = received \o stanza'
            /\ last' = stanza'
            /\ made' = made + n
            /\ sent' = sent + n
            /\ risky' = (risky \/ \E i \in 1 .. n : Risky(stanza'[i]))
            /\ heap' = heap \cup Objects(stanza')
    /\ place' = 1
    /\ UNCHANGED <<resource, defined>>

(* Mutants of clone(): every pointer is taken over; a pointer is left out. *)
CloneShallow(x, id) == [x EXCEPT !.id = id]

CloneForgets(x, id) == Fresh(id, x.class, {p \in DOMAIN x.points : p # "m_newNick"})

clone(x, id) ==
    [Fresh(id, x.class, DOMAIN x.points) EXCEPT
        !.points = [p \in DOMAIN x.points |->
            IF p \in ClassOf[x.class].shares THEN x.points[p] ELSE @[p]]]

(* One round of the loop of setExtensions. *)
setExtensions ==
    /\ defined /\ place \in DOMAIN stanza
    /\ LET x == stanza[place]
       IN  IF ClassOf[x.class].needs \subseteq DOMAIN x.points
           THEN /\ resource' = Append(resource, clone(x, made + 1))
                /\ made' = made + 1
                /\ heap' = heap \cup Parts(clone(x, made + 1))
                /\ place' = place + 1
                /\ UNCHANGED defined
           ELSE defined' = FALSE /\ UNCHANGED <<resource, made, place, heap>>
    /\ UNCHANGED <<stanza, sent, received, last, risky>>

(* util::clearList on a list of extensions: each destructor deletes what   *)
(* its pointers lead to.                                                   *)
clearList(seq) ==
    /\ heap' = heap \ Objects(seq)
    /\ defined' = (Objects(seq) \subseteq heap
                   /\ \A i, j \in DOMAIN seq :
                        i # j => Parts(seq[i]) \cap Parts(seq[j]) = {})

(* The presence has been handled: the stanza deletes its extensions.       *)
StanzaDone ==
    /\ defined /\ place = Len(stanza) + 1
    /\ clearList(stanza)
    /\ stanza' = <<>>
    /\ place' = 0
    /\ UNCHANGED <<resource, made, sent, received, last, risky>>

(* Mutant of ResourceDone: the clones are not deleted. *)
ResourceDoneLeaks ==
    /\ defined /\ place = 0
    /\ resource' = <<>>
    /\ received' = <<>>
    /\ last' = <<>>
    /\ UNCHANGED <<stanza, place, made, sent, risky, heap, defined>>

(* ~Resource, when the contact's resource goes offline.                    *)
ResourceDone ==
    /\ defined /\ place = 0
    /\ clearList(resource)
    /\ resource' = <<>>
    /\ received' = <<>>
    /\ last' = <<>>
    /\ UNCHANGED <<stanza, place, made, sent, risky>>

ExtensionsNext == Presence \/ setExtensions \/ StanzaDone \/ ResourceDone

-----------------------------------------------------------------------------
(* Properties.                                                             *)

(* No object is deleted twice and no null pointer followed, whichever      *)
(* pointers an extension has and in whatever order presence and resource   *)
(* end. Four extensions are excepted: an AMP with a date, a DiscoItems and *)
(* a FeatureNeg with anything in them, whose clones hold what the original *)
(* holds (amp.h:226, disco.h:328, featureneg.h:76), and a registration     *)
(* query without the optional OOB (registration.h:196, 220).               *)
CopiesAreDefined == defined \/ risky

(* What the resource keeps stays usable after the presence is gone, and    *)
(* nothing leaks: the objects that are there are those that an extension   *)
(* holds. The same four are excepted.                                      *)
ObjectsAreOwned == heap = Objects(stanza) \cup Objects(resource) \/ risky

(* The resource keeps a copy of every extension of every presence since it *)
(* came online, in the order in which they came, each with all pointers    *)
(* that it had, and nothing else.                                          *)
CopiesAreComplete ==
    place = 0 => /\ Len(resource) = Len(received)
                 /\ \A i \in DOMAIN received : Alike(received[i], resource[i])

(* It keeps those "that were sent with the last presence stanza by the     *)
(* resource" (resource.h:77-78), and no older ones.                        *)
LastPresenceOnly ==
    place = 0 => /\ Len(resource) = Len(last)
                 /\ \A i \in DOMAIN last : Alike(last[i], resource[i])
=============================================================================
