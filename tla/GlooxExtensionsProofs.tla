----------------------- MODULE GlooxExtensionsProofs -----------------------
(***************************************************************************)
(* Proofs about GlooxExtensions, for any number of extensions: presences   *)
(* and resources may both delete what they hold, and the resource has a    *)
(* copy of everything that it was sent.                                    *)
(***************************************************************************)
EXTENDS GlooxInline, SequenceTheorems, TLAPS

Pointers == UNION {ClassOf[c].owns : c \in Classes}
Extensions ==
    [id : Nat, class : Classes, points : UNION {[P -> Nat \X Pointers] : P \in SUBSET Pointers}]

ExtensionsTypeOK ==
    /\ stanza \in Seq(Extensions)
    /\ resource \in Seq(Extensions)
    /\ received \in Seq(Extensions)
    /\ place \in 0 .. Len(stanza) + 1
    /\ made \in Nat
    /\ sent \in Nat
    /\ risky \in BOOLEAN
    /\ defined \in BOOLEAN

(* The resource has copies of what was received, but for those extensions  *)
(* of the presence that setExtensions has not reached.                     *)
Left == IF place = 0 THEN 0 ELSE Len(stanza) - (place - 1)

ProgressOK ==
    /\ place = 0 => stanza = <<>>
    /\ Len(received) = Len(resource) + Left
    /\ \A i \in 1 .. Len(resource) : Alike(received[i], resource[i])
    /\ place # 0 => \A i \in place .. Len(stanza) :
                       received[Len(resource) + i - (place - 1)] = stanza[i]

(* Unless clone() shares a pointer: an extension holds objects of its own  *)
(* and no other has its number, so nobody else holds them.                 *)
HoldsItsOwn(x) == \A p \in DOMAIN x.points : x.points[p] = <<x.id, p>>

Distinct(seq) == \A i, j \in DOMAIN seq : seq[i].id = seq[j].id => i = j

OwnersOK ==
    risky \/
        /\ defined
        /\ \A i \in DOMAIN stanza : ~Risky(stanza[i])
        /\ \A i \in DOMAIN stanza : HoldsItsOwn(stanza[i]) /\ stanza[i].id <= made
        /\ \A i \in DOMAIN resource : HoldsItsOwn(resource[i]) /\ resource[i].id <= made
        /\ Distinct(stanza) /\ Distinct(resource)
        /\ \A i \in DOMAIN stanza, j \in DOMAIN resource : stanza[i].id # resource[j].id
        /\ heap = Objects(stanza) \cup Objects(resource)

ExtensionsInv == ExtensionsTypeOK /\ ProgressOK /\ OwnersOK

-----------------------------------------------------------------------------
(* What the operators do. *)
LEMMA FreshIs ==
    ASSUME NEW id \in Nat, NEW class \in Classes, NEW present \in SUBSET Pointers
    PROVE  /\ Fresh(id, class, present) \in Extensions
           /\ Fresh(id, class, present).id = id
           /\ Fresh(id, class, present).class = class
           /\ DOMAIN Fresh(id, class, present).points = present
           /\ HoldsItsOwn(Fresh(id, class, present))
<1>1. [p \in present |-> <<id, p>>] \in [present -> Nat \X Pointers]
  OBVIOUS
<1>2. QED
  BY <1>1 DEF Fresh, Extensions, HoldsItsOwn

LEMMA ExtensionIs ==
    ASSUME NEW x \in Extensions
    PROVE  /\ x.id \in Nat /\ x.class \in Classes /\ DOMAIN x.points \in SUBSET Pointers
           /\ \A p \in DOMAIN x.points : x.points[p] \in Nat \X Pointers
BY DEF Extensions

LEMMA CloneIs ==
    ASSUME NEW x \in Extensions, NEW id \in Nat
    PROVE  /\ clone(x, id) \in Extensions /\ clone(x, id).id = id /\ Alike(x, clone(x, id))
           /\ ~Risky(x) => HoldsItsOwn(clone(x, id))
<1> DEFINE present == DOMAIN x.points
           points == [p \in present |->
                        IF p \in ClassOf[x.class].shares THEN x.points[p] ELSE <<id, p>>]
<1>1. clone(x, id) = [id |-> id, class |-> x.class, points |-> points]
  <2> DEFINE fresh == [p \in present |-> <<id, p>>]
             copies(f) == [p \in present |-> IF p \in ClassOf[x.class].shares THEN x.points[p] ELSE f[p]]
  <2>1. Fresh(id, x.class, present) = [id |-> id, class |-> x.class, points |-> fresh]
    BY DEF Fresh
  <2>2. clone(x, id) = [Fresh(id, x.class, present) EXCEPT
                           !.points = copies(Fresh(id, x.class, present).points)]
    BY DEF clone
  <2>3. clone(x, id) = [id |-> id, class |-> x.class, points |-> copies(fresh)]
    <3> HIDE DEF fresh, copies
    <3>1. Fresh(id, x.class, present).points = fresh
      BY <2>1
    <3>2. clone(x, id) = [Fresh(id, x.class, present) EXCEPT !.points = copies(fresh)]
      BY <2>2, <3>1
    <3>3. QED
      BY <2>1, <3>2
  <2>4. copies(fresh) = points
    OBVIOUS
  <2>5. QED
    BY <2>3, <2>4
<1>2. /\ x.class \in Classes /\ present \in SUBSET Pointers
      /\ \A p \in present : x.points[p] \in Nat \X Pointers
  BY ExtensionIs
<1>3. points \in [present -> Nat \X Pointers]
  BY <1>2
<1>4. ~Risky(x) => \A p \in present : points[p] = <<id, p>>
  BY DEF Risky
<1>5. QED
  BY <1>1, <1>2, <1>3, <1>4 DEF Extensions, Alike, HoldsItsOwn

(* Two extensions that hold objects of their own share none.               *)
LEMMA OwnObjects ==
    ASSUME NEW x, NEW y, HoldsItsOwn(x), HoldsItsOwn(y), x.id # y.id
    PROVE  Parts(x) \cap Parts(y) = {}
BY DEF HoldsItsOwn, Parts

LEMMA ObjectsAre ==
    \A seq, o : o \in Objects(seq) <=> \E i \in DOMAIN seq : o \in Parts(seq[i])
BY DEF Objects

(* Deleting a list of extensions that hold objects of their own, of which  *)
(* nobody else has one, is defined and leaves what the others hold.        *)
LEMMA ClearIsSafe ==
    ASSUME NEW seq, NEW rest, clearList(seq), Distinct(seq),
           \A i \in DOMAIN seq : HoldsItsOwn(seq[i]), \A i \in DOMAIN rest : HoldsItsOwn(rest[i]),
           \A i \in DOMAIN seq, j \in DOMAIN rest : seq[i].id # rest[j].id,
           heap = Objects(seq) \cup Objects(rest)
    PROVE  defined' /\ heap' = Objects(rest)
<1>1. \A i, j \in DOMAIN seq : i # j => Parts(seq[i]) \cap Parts(seq[j]) = {}
  BY OwnObjects DEF Distinct
<1>2. \A i \in DOMAIN seq, j \in DOMAIN rest : Parts(seq[i]) \cap Parts(rest[j]) = {}
  BY OwnObjects
<1>3. Objects(seq) \cap Objects(rest) = {}
  BY <1>2, ObjectsAre
<1>4. QED
  BY <1>1, <1>3 DEF clearList

-----------------------------------------------------------------------------
(* What is known of a step that appends, or deletes, at one end.           *)
LEMMA PresenceEffect ==
    ASSUME ExtensionsTypeOK, Presence
    PROVE  \E n \in Nat :
              /\ stanza' \in Seq(Extensions) /\ Len(stanza') = n
              /\ \A i \in 1 .. n : stanza'[i].id = made + i /\ HoldsItsOwn(stanza'[i])
              /\ made' = made + n /\ sent' = sent + n
              /\ risky' <=> risky \/ \E i \in 1 .. n : Risky(stanza'[i])
<1>1. PICK n \in 0 .. MaxExtensions - sent : \E x \in [1 .. n -> Contents] :
            /\ stanza' = [i \in 1 .. n |-> Fresh(made + i, x[i].class, x[i].present)]
            /\ made' = made + n
            /\ sent' = sent + n
            /\ risky' = (risky \/ \E i \in 1 .. n : Risky(stanza'[i]))
  BY DEF Presence
<1>2. PICK x \in [1 .. n -> Contents] :
            /\ stanza' = [i \in 1 .. n |-> Fresh(made + i, x[i].class, x[i].present)]
            /\ made' = made + n
            /\ sent' = sent + n
            /\ risky' = (risky \/ \E i \in 1 .. n : Risky(stanza'[i]))
  BY <1>1
<1>3. n \in Nat
  BY MaxExtensionsAssumption DEF ExtensionsTypeOK
<1>4. \A c \in Contents : c.class \in Classes /\ c.present \in SUBSET Pointers
  BY DEF Contents, Choices, Pointers
<1>5. \A i \in 1 .. n : /\ stanza'[i] \in Extensions /\ stanza'[i].id = made + i
                        /\ HoldsItsOwn(stanza'[i])
  <2> SUFFICES ASSUME NEW i \in 1 .. n
               PROVE  stanza'[i] \in Extensions /\ stanza'[i].id = made + i /\ HoldsItsOwn(stanza'[i])
    OBVIOUS
  <2>1. stanza'[i] = Fresh(made + i, x[i].class, x[i].present) /\ made + i \in Nat
    BY <1>2 DEF ExtensionsTypeOK
  <2>2. x[i] \in Contents
    OBVIOUS
  <2>3. QED
    BY <1>4, <2>1, <2>2, FreshIs
<1>6. stanza' \in Seq(Extensions) /\ Len(stanza') = n
  <2>1. stanza' \in [1 .. n -> Extensions]
    BY <1>2, <1>5
  <2>2. QED
    BY <1>3, <2>1
<1>7. QED
  BY <1>2, <1>3, <1>5, <1>6

(* The loop of setExtensions copies an extension, or follows a null        *)
(* pointer of one.                                                         *)
LEMMA CopyEffect ==
    ASSUME ExtensionsTypeOK, setExtensions
    PROVE  /\ place \in 1 .. Len(stanza)
           /\ UNCHANGED <<stanza, sent, received, last, risky>>
           /\ \/ /\ defined' = defined /\ made' = made + 1 /\ place' = place + 1
                 /\ resource' = Append(resource, clone(stanza[place], made + 1))
                 /\ heap' = heap \cup Parts(clone(stanza[place], made + 1))
              \/ Risky(stanza[place]) /\ UNCHANGED <<resource, made, place, heap>> /\ defined' = FALSE
<1>1. place \in 1 .. Len(stanza)
  BY DEF setExtensions, ExtensionsTypeOK
<1>2. QED
  BY <1>1 DEF setExtensions, Risky

LEMMA AppendIs ==
    ASSUME NEW seq \in Seq(Extensions), NEW x \in Extensions
    PROVE  /\ Append(seq, x) \in Seq(Extensions)
           /\ Len(Append(seq, x)) = Len(seq) + 1
           /\ \A i \in 1 .. Len(seq) : Append(seq, x)[i] = seq[i]
           /\ Append(seq, x)[Len(seq) + 1] = x
           /\ Objects(Append(seq, x)) = Objects(seq) \cup Parts(x)
<1>1. /\ Append(seq, x) \in Seq(Extensions)
      /\ Len(Append(seq, x)) = Len(seq) + 1
      /\ \A i \in 1 .. Len(seq) : Append(seq, x)[i] = seq[i]
      /\ Append(seq, x)[Len(seq) + 1] = x
  BY AppendProperties
<1>2. /\ Len(seq) \in Nat /\ DOMAIN seq = 1 .. Len(seq)
      /\ DOMAIN Append(seq, x) = 1 .. Len(seq) + 1
  BY <1>1
<1>3. \A o : o \in Objects(Append(seq, x)) <=> o \in Objects(seq) \/ o \in Parts(x)
  <2> HIDE DEF Objects
  <2>1. \A i \in 1 .. Len(seq) + 1 : i \in 1 .. Len(seq) \/ i = Len(seq) + 1
    BY <1>2
  <2>2. 1 .. Len(seq) \subseteq 1 .. Len(seq) + 1 /\ Len(seq) + 1 \in 1 .. Len(seq) + 1
    BY <1>2
  <2>3. QED
    BY <1>1, <1>2, <2>1, <2>2, ObjectsAre
<1>4. QED
  BY <1>1, <1>3

-----------------------------------------------------------------------------
(* The steps. *)
LEMMA ExtensionsTypeStep ==
    ASSUME ExtensionsTypeOK, ExtensionsNext PROVE ExtensionsTypeOK'
<1> USE DEF ExtensionsTypeOK
<1>0. Len(stanza) \in Nat /\ <<>> \in Seq(Extensions) /\ Len(<<>>) = 0
  OBVIOUS
<1>1. CASE Presence
  <2>1. PICK n \in Nat : /\ stanza' \in Seq(Extensions) /\ Len(stanza') = n
                         /\ made' = made + n /\ sent' = sent + n
                         /\ risky' \in BOOLEAN
    BY <1>1, PresenceEffect DEF Presence
  <2>2. received' = received \o stanza' /\ place' = 1 /\ UNCHANGED <<resource, defined>>
    BY <1>1 DEF Presence
  <2>3. received' \in Seq(Extensions)
    BY <2>1, <2>2, ConcatProperties
  <2>4. QED
    BY <2>1, <2>2, <2>3
<1>2. CASE setExtensions
  <2>1. stanza[place] \in Extensions /\ made + 1 \in Nat
    BY <1>2, CopyEffect
  <2>2. clone(stanza[place], made + 1) \in Extensions
    BY <2>1, CloneIs
  <2>3. resource' \in Seq(Extensions)
    <3>1. Append(resource, clone(stanza[place], made + 1)) \in Seq(Extensions)
      BY <2>2, AppendProperties
    <3>2. resource' \in {resource, Append(resource, clone(stanza[place], made + 1))}
      BY <1>2, CopyEffect
    <3>3. QED
      BY <3>1, <3>2
  <2>4. place' \in 0 .. Len(stanza') + 1 /\ made' \in Nat /\ defined' \in BOOLEAN
    <3>1. /\ place \in 1 .. Len(stanza) /\ stanza' = stanza /\ defined' \in BOOLEAN
          /\ \/ place' = place /\ made' = made
             \/ place' = place + 1 /\ made' = made + 1
      BY <1>2, CopyEffect
    <3>2. Len(stanza') = Len(stanza)
      BY <3>1
    <3>3. QED
      BY <1>0, <2>1, <3>1, <3>2
  <2>5. QED
    BY <1>2, <2>3, <2>4, CopyEffect
<1>3. CASE StanzaDone
  BY <1>0, <1>3 DEF StanzaDone, clearList
<1>4. CASE ResourceDone
  BY <1>0, <1>4 DEF ResourceDone, clearList
<1>5. QED
  BY <1>1, <1>2, <1>3, <1>4 DEF ExtensionsNext

LEMMA ProgressStep ==
    ASSUME ExtensionsTypeOK, ProgressOK, ExtensionsNext PROVE ProgressOK'
<1>0. /\ Len(stanza) \in Nat /\ Len(resource) \in Nat /\ Len(received) \in Nat /\ place \in Nat
      /\ Len(<<>>) = 0 /\ place \in 0 .. Len(stanza) + 1
  BY DEF ExtensionsTypeOK
<1>1. CASE Presence
  <2>1. PICK n \in Nat : stanza' \in Seq(Extensions) /\ Len(stanza') = n
    BY <1>1, PresenceEffect
  <2>2. /\ place = 0 /\ place' = 1 /\ received' = received \o stanza' /\ resource' = resource
        /\ Len(received) = Len(resource)
    BY <1>0, <1>1 DEF Presence, ProgressOK, Left
  <2>3. /\ Len(received') = Len(received) + n
        /\ \A i \in 1 .. Len(received) + n :
              received'[i] = IF i <= Len(received) THEN received[i] ELSE stanza'[i - Len(received)]
    <3> DEFINE new == stanza'
    <3>1. received \in Seq(Extensions) /\ new \in Seq(Extensions) /\ Len(new) = n
      BY <2>1 DEF ExtensionsTypeOK
    <3>2. received' = received \o new
      BY <2>2
    <3> HIDE DEF new
    <3>3. /\ Len(received \o new) = Len(received) + Len(new)
          /\ \A i \in 1 .. Len(received) + Len(new) :
                (received \o new)[i] = IF i <= Len(received) THEN received[i] ELSE new[i - Len(received)]
      BY <3>1, ConcatProperties
    <3>4. QED
      BY <3>1, <3>2, <3>3 DEF new
  <2>4. \A i \in 1 .. Len(resource) : Alike(received'[i], resource'[i])
    <3>1. \A i \in 1 .. Len(resource) : i \in 1 .. Len(received) + n /\ i <= Len(received)
      BY <1>0, <2>2
    <3>2. QED
      BY <2>2, <2>3, <3>1 DEF ProgressOK
  <2>5. \A i \in 1 .. n : received'[Len(resource) + i - (1 - 1)] = stanza'[i]
    <3>1. \A i \in 1 .. n : /\ Len(resource) + i - (1 - 1) \in 1 .. Len(received) + n
                            /\ ~ (Len(resource) + i - (1 - 1) <= Len(received))
                            /\ (Len(resource) + i - (1 - 1)) - Len(received) = i
      BY <1>0, <2>2
    <3> SUFFICES ASSUME NEW i \in 1 .. n PROVE received'[Len(resource) + i - (1 - 1)] = stanza'[i]
      OBVIOUS
    <3> DEFINE k == Len(resource) + i - (1 - 1)
    <3>2. k \in 1 .. Len(received) + n /\ ~ (k <= Len(received)) /\ k - Len(received) = i
      BY <3>1
    <3> HIDE DEF k
    <3>3. received'[k] = stanza'[k - Len(received)]
      BY <2>3, <3>2
    <3>4. QED
      BY <3>2, <3>3 DEF k
  <2>6. Left' = n
    BY <2>1, <2>2 DEF Left
  <2>7. QED
    BY <2>1, <2>2, <2>3, <2>4, <2>5, <2>6 DEF ProgressOK
<1>2. CASE setExtensions
  <2>1. /\ place \in 1 .. Len(stanza) /\ UNCHANGED <<stanza, received>>
        /\ \/ /\ place' = place + 1
              /\ resource' = Append(resource, clone(stanza[place], made + 1))
           \/ UNCHANGED <<resource, place>>
    BY <1>2, CopyEffect
  <2>2. CASE UNCHANGED <<resource, place>>
    BY <2>1, <2>2 DEF ProgressOK, Left
  <2>3. CASE place' = place + 1 /\ resource' = Append(resource, clone(stanza[place], made + 1))
    <3> DEFINE copy == clone(stanza[place], made + 1)
    <3>1. stanza[place] \in Extensions /\ made + 1 \in Nat /\ resource \in Seq(Extensions)
      BY <2>1 DEF ExtensionsTypeOK
    <3>2. copy \in Extensions /\ Alike(stanza[place], copy)
      BY <3>1, CloneIs
    <3>3. /\ Len(resource') = Len(resource) + 1
          /\ \A i \in 1 .. Len(resource) : resource'[i] = resource[i]
          /\ resource'[Len(resource) + 1] = copy
      BY <2>3, <3>1, <3>2, AppendIs
    <3> HIDE DEF copy
    <3>4. received[Len(resource) + 1] = stanza[place]
      <4>1. received[Len(resource) + place - (place - 1)] = stanza[place]
        BY <1>0, <2>1 DEF ProgressOK
      <4>2. Len(resource) + place - (place - 1) = Len(resource) + 1
        BY <1>0
      <4>3. QED
        BY <4>1, <4>2
    <3>5. \A i \in 1 .. Len(resource') : Alike(received'[i], resource'[i])
      <4>1. \A i \in 1 .. Len(resource') : i \in 1 .. Len(resource) \/ i = Len(resource) + 1
        BY <1>0, <3>3
      <4>2. QED
        BY <2>1, <3>2, <3>3, <3>4, <4>1 DEF ProgressOK
    <3>6. ASSUME NEW i \in place' .. Len(stanza')
          PROVE  received'[Len(resource') + i - (place' - 1)] = stanza'[i]
      <4>1. i \in place .. Len(stanza) /\ place # 0
        BY <1>0, <2>1, <2>3, <3>6
      <4>2. Len(resource') + i - (place' - 1) = Len(resource) + i - (place - 1)
        BY <1>0, <2>3, <3>3, <4>1
      <4>3. QED
        BY <2>1, <4>1, <4>2 DEF ProgressOK
    <3>7. place' # 0 /\ Left' = Left - 1 /\ Left \in Int
      BY <1>0, <2>1, <2>3 DEF Left
    <3>8. Len(received') = Len(resource') + Left'
      BY <1>0, <2>1, <3>3, <3>7 DEF ProgressOK
    <3>9. QED
      BY <3>5, <3>6, <3>7, <3>8 DEF ProgressOK
  <2>4. QED
    BY <2>1, <2>2, <2>3
<1>3. CASE StanzaDone
  <2>1. place = Len(stanza) + 1 /\ stanza' = <<>> /\ place' = 0 /\ UNCHANGED <<resource, received>>
    BY <1>3 DEF StanzaDone
  <2>2. Left = 0 /\ Left' = 0
    BY <1>0, <2>1 DEF Left
  <2>3. QED
    BY <1>0, <2>1, <2>2 DEF ProgressOK
<1>4. CASE ResourceDone
  <2>1. /\ place = 0 /\ resource' = <<>> /\ received' = <<>> /\ UNCHANGED <<stanza, place>>
    BY <1>4 DEF ResourceDone
  <2>2. Left' = 0
    BY <2>1 DEF Left
  <2>3. QED
    BY <1>0, <2>1, <2>2 DEF ProgressOK
<1>5. QED
  BY <1>1, <1>2, <1>3, <1>4 DEF ExtensionsNext

LEMMA OwnersStep ==
    ASSUME ExtensionsTypeOK, ProgressOK, OwnersOK, ExtensionsNext PROVE OwnersOK'
<1> SUFFICES ASSUME ~risky' PROVE OwnersOK'
  BY DEF OwnersOK
<1>0. /\ Len(stanza) \in Nat /\ Len(resource) \in Nat /\ made \in Nat
      /\ DOMAIN stanza = 1 .. Len(stanza) /\ DOMAIN resource = 1 .. Len(resource)
      /\ \A i \in DOMAIN stanza : stanza[i] \in Extensions /\ stanza[i].id \in Nat
      /\ \A i \in DOMAIN resource : resource[i] \in Extensions /\ resource[i].id \in Nat
  BY ExtensionIs DEF ExtensionsTypeOK
<1>e. Objects(<<>>) = {} /\ DOMAIN <<>> = {}
  BY DEF Objects
<1>p. ~risky =>
        /\ defined
        /\ \A i \in DOMAIN stanza : ~Risky(stanza[i])
        /\ \A i \in DOMAIN stanza : HoldsItsOwn(stanza[i]) /\ stanza[i].id <= made
        /\ \A i \in DOMAIN resource : HoldsItsOwn(resource[i]) /\ resource[i].id <= made
        /\ Distinct(stanza) /\ Distinct(resource)
        /\ \A i \in DOMAIN stanza, j \in DOMAIN resource : stanza[i].id # resource[j].id
        /\ heap = Objects(stanza) \cup Objects(resource)
  BY DEF OwnersOK
<1>1. CASE Presence
  <2>1. PICK n \in Nat :
            /\ stanza' \in Seq(Extensions) /\ Len(stanza') = n
            /\ \A i \in 1 .. n : stanza'[i].id = made + i /\ HoldsItsOwn(stanza'[i])
            /\ made' = made + n
            /\ risky' <=> risky \/ \E i \in 1 .. n : Risky(stanza'[i])
    BY <1>1, PresenceEffect
  <2>2. /\ stanza = <<>> /\ heap' = heap \cup Objects(stanza')
        /\ UNCHANGED <<resource, defined>>
    BY <1>1 DEF Presence
  <2>3. DOMAIN stanza' = 1 .. n
    BY <2>1
  <2>4. heap' = Objects(stanza') \cup Objects(resource')
    BY <1>e, <1>p, <2>1, <2>2
  <2>5. Distinct(stanza')
    BY <1>0, <2>1, <2>3 DEF Distinct
  <2>6. \A i \in DOMAIN stanza' : stanza'[i].id <= made' /\ stanza'[i].id > made
    BY <1>0, <2>1, <2>3
  <2>7. \A j \in DOMAIN resource : resource[j].id <= made /\ resource[j].id <= made'
    BY <1>0, <1>p, <2>1
  <2>8. \A i \in DOMAIN stanza', j \in DOMAIN resource : stanza'[i].id # resource[j].id
    BY <1>0, <2>6, <2>7
  <2>9. QED
    BY <1>p, <2>1, <2>2, <2>3, <2>4, <2>5, <2>6, <2>7, <2>8 DEF OwnersOK
<1>2. CASE setExtensions
  <2> DEFINE copy == clone(stanza[place], made + 1)
  <2>1. ~risky /\ place \in DOMAIN stanza /\ UNCHANGED stanza
    BY <1>0, <1>2, CopyEffect
  <2>2. /\ defined' = defined /\ made' = made + 1 /\ resource' = Append(resource, copy)
        /\ heap' = heap \cup Parts(copy)
    BY <1>p, <1>2, <2>1, CopyEffect
  <2>3. copy \in Extensions /\ copy.id = made + 1 /\ HoldsItsOwn(copy)
    <3>1. stanza[place] \in Extensions /\ ~Risky(stanza[place]) /\ made + 1 \in Nat
      BY <1>0, <1>p, <2>1
    <3>2. QED
      BY <3>1, CloneIs
  <2> HIDE DEF copy
  <2>4. /\ resource' \in Seq(Extensions) /\ Len(resource') = Len(resource) + 1
        /\ \A i \in 1 .. Len(resource) : resource'[i] = resource[i]
        /\ resource'[Len(resource) + 1] = copy
        /\ Objects(resource') = Objects(resource) \cup Parts(copy)
    BY <2>2, <2>3, AppendIs DEF ExtensionsTypeOK
  <2>5. DOMAIN resource' = 1 .. Len(resource) + 1
    BY <2>4
  <2>6. \A i \in DOMAIN resource' :
            \/ i \in DOMAIN resource /\ resource'[i] = resource[i]
            \/ i = Len(resource) + 1 /\ resource'[i] = copy
    <3>1. \A i \in DOMAIN resource' : i \in DOMAIN resource \/ i = Len(resource) + 1
      BY <1>0, <2>5
    <3>2. \A i \in DOMAIN resource : resource'[i] = resource[i]
      BY <1>0, <2>4
    <3>3. QED
      BY <2>4, <3>1, <3>2
  <2>7. \A i \in DOMAIN resource' : HoldsItsOwn(resource'[i]) /\ resource'[i].id <= made'
    BY <1>0, <1>p, <2>1, <2>2, <2>3, <2>6
  <2>8. Distinct(resource')
    BY <1>0, <1>p, <2>1, <2>3, <2>6 DEF Distinct
  <2>9. \A i \in DOMAIN stanza, j \in DOMAIN resource' : stanza[i].id # resource'[j].id
    BY <1>0, <1>p, <2>1, <2>3, <2>6
  <2>10. heap' = Objects(stanza) \cup Objects(resource')
    BY <1>p, <2>1, <2>2, <2>4
  <2>11. \A i \in DOMAIN stanza : stanza[i].id <= made'
    BY <1>0, <1>p, <2>1, <2>2
  <2>12. QED
    BY <1>p, <2>1, <2>2, <2>7, <2>8, <2>9, <2>10, <2>11 DEF OwnersOK
<1>3. CASE StanzaDone
  <2>1. /\ clearList(stanza) /\ stanza' = <<>> /\ UNCHANGED <<resource, made, risky>>
    BY <1>3 DEF StanzaDone
  <2>2. defined' /\ heap' = Objects(resource)
    BY <1>p, <2>1, ClearIsSafe
  <2>3. QED
    BY <1>e, <1>p, <2>1, <2>2 DEF OwnersOK, Distinct
<1>4. CASE ResourceDone
  <2>1. /\ clearList(resource) /\ resource' = <<>> /\ UNCHANGED <<stanza, made, risky>>
    BY <1>4 DEF ResourceDone
  <2>2. heap = Objects(resource) \cup Objects(stanza)
    BY <1>p, <2>1
  <2>3. defined' /\ heap' = Objects(stanza)
    BY <1>p, <2>1, <2>2, ClearIsSafe
  <2>4. QED
    BY <1>e, <1>p, <2>1, <2>3 DEF OwnersOK, Distinct
<1>5. QED
  BY <1>1, <1>2, <1>3, <1>4 DEF ExtensionsNext

-----------------------------------------------------------------------------
(* The invariant, and what follows from it. *)
LEMMA AlwaysExtensionsInv == InlineSpec => []ExtensionsInv
<1>1. InlineInit => ExtensionsInv
  <2> SUFFICES ASSUME InlineInit PROVE ExtensionsInv
    OBVIOUS
  <2>1. Len(<<>>) = 0 /\ DOMAIN <<>> = {} /\ Objects(<<>>) = {} /\ <<>> \in Seq(Extensions)
    BY DEF Objects
  <2>2. ExtensionsTypeOK
    <3>1. stanza = <<>> /\ resource = <<>> /\ received = <<>> /\ place = 0
      BY DEF InlineInit, ExtensionsInit
    <3>2. Len(stanza) = 0 /\ place \in 0 .. Len(stanza) + 1
      BY <3>1
    <3>3. QED
      BY <2>1, <3>1, <3>2 DEF InlineInit, ExtensionsInit, ExtensionsTypeOK
  <2>3. ProgressOK
    <3>1. /\ stanza = <<>> /\ resource = <<>> /\ received = <<>> /\ place = 0
      BY DEF InlineInit, ExtensionsInit
    <3>2. Len(resource) = 0 /\ Len(received) = 0 /\ Left = 0
      BY <3>1 DEF Left
    <3>3. QED
      BY <3>1, <3>2 DEF ProgressOK
  <2>4. OwnersOK
    BY <2>1 DEF InlineInit, ExtensionsInit, OwnersOK, Distinct
  <2>5. QED
    BY <2>2, <2>3, <2>4 DEF ExtensionsInv
<1>2. ASSUME ExtensionsInv, [InlineNext]_<<listVars, utilVars, extensionVars>> PROVE ExtensionsInv'
  <2>1. CASE ExtensionsNext
    BY <1>2, <2>1, ExtensionsTypeStep, ProgressStep, OwnersStep DEF ExtensionsInv
  <2>2. CASE UNCHANGED extensionVars
    BY <1>2, <2>2 DEF ExtensionsInv, ExtensionsTypeOK, ProgressOK, Left, OwnersOK, extensionVars
  <2>3. QED
    BY <1>2, <2>1, <2>2 DEF InlineNext, ExtensionsRest
<1>3. QED
  BY <1>1, <1>2, PTL DEF InlineSpec

(* Whatever presences carry, and in whatever order they and the resource   *)
(* end: only an extension whose clone() shares a pointer that is set (an   *)
(* AMP's date, the items of a DiscoItems, a FeatureNeg's form) or follows  *)
(* one that is null makes their deletion undefined.                        *)
THEOREM DeletionIsDefined == InlineSpec => []CopiesAreDefined
<1>1. ExtensionsInv => CopiesAreDefined
  BY DEF ExtensionsInv, OwnersOK, CopiesAreDefined
<1>2. QED
  BY <1>1, AlwaysExtensionsInv, PTL

(* With the same exceptions the objects that exist are those that the      *)
(* presence and the resource hold: nothing leaks, nothing dangles.         *)
THEOREM NothingLeaks == InlineSpec => []ObjectsAreOwned
<1>1. ExtensionsInv => ObjectsAreOwned
  BY DEF ExtensionsInv, OwnersOK, ObjectsAreOwned
<1>2. QED
  BY <1>1, AlwaysExtensionsInv, PTL

(* The resource keeps a copy of every extension of every presence since it *)
(* came online, in their order and with every pointer, and nothing else.   *)
THEOREM NothingDropped == InlineSpec => []CopiesAreComplete
<1>1. ASSUME ExtensionsInv PROVE CopiesAreComplete
  <2>1. /\ DOMAIN received = 1 .. Len(received) /\ Len(resource) \in Nat
        /\ \A i \in 1 .. Len(resource) : Alike(received[i], resource[i])
    BY <1>1 DEF ExtensionsInv, ExtensionsTypeOK, ProgressOK
  <2>2. place = 0 => Len(received) = Len(resource)
    BY <1>1, <2>1 DEF ExtensionsInv, ProgressOK, Left
  <2>3. QED
    BY <2>1, <2>2 DEF CopiesAreComplete
<1>2. QED
  BY <1>1, AlwaysExtensionsInv, PTL
=============================================================================
