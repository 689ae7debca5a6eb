-------------------------- MODULE GlooxListsProofs --------------------------
(***************************************************************************)
(* Proofs about GlooxLists, for lists of any length and any number of      *)
(* additions and removals while ForEach, clearList or clearMap is walking. *)
(***************************************************************************)
EXTENDS GlooxInline, SequenceTheorems, TLAPS

Kinds == {"forEach", "clearList", "clearMap"}
Loops == {"none", "done", "cleared", "undefined"} \cup Kinds
Walking == loop = "forEach" \/ Clearing

ListsTypeOK ==
    /\ list \in Seq(Nodes)
    /\ called \in Seq(Nodes)
    /\ loop \in Loops
    /\ it \in Nodes \cup {NoNode}
    /\ current \in Nodes \cup {NoNode}

Unique(seq) == \A i, j \in 1 .. Len(seq) : seq[i] = seq[j] => i = j

(* A node is in the list once, and what the loop holds on to was in it; a  *)
(* node that is gone is held only after a callback has removed it.         *)
HeldOK ==
    /\ Unique(list) /\ Unique(called)
    /\ ~Walking => current = NoNode
    /\ In(list) \cap dead = {}
    /\ loop = "none" => called = <<>> /\ it = NoNode /\ missed = {}
    /\ current # NoNode => current \in In(called)
    /\ Walking => it \in In(list) \cup dead \cup {NoNode}
    /\ Walking /\ ~suspect => it \in In(list) \cup {NoNode} /\ current \in In(list) \cup {NoNode}
    /\ loop = "undefined" => suspect

(* ForEach: the nodes before the iterator have been called, and the one at *)
(* it if its function is running.                                          *)
ForEachOK ==
    /\ loop = "forEach" =>
          /\ current # NoNode => it = current
          /\ it = NoNode => In(list) \subseteq In(called)
          /\ \A p, j \in 1 .. Len(list) : list[p] = it =>
                (list[j] \in In(called) <=> j < p \/ (j = p /\ current # NoNode))
    /\ loop = "done" => In(list) \subseteq In(called)

(* clearList and clearMap: before the iterator there is the node whose      *)
(* destructor is running, and what destructors have added there.           *)
ClearOK ==
    /\ Clearing =>
          /\ In(list) \cap In(called) \subseteq {current}
          /\ missed \subseteq In(list) \cup dead
          /\ missed \cap In(called) = {}
          /\ it = NoNode => In(list) \subseteq missed \cup {current}
          /\ \A p, j \in 1 .. Len(list) : list[p] = it =>
                (list[j] \in missed \cup {current} <=> j < p)
    /\ loop = "cleared" => In(list) = missed \ dead

ListsInv == ListsTypeOK /\ HeldOK /\ ForEachOK /\ ClearOK

-----------------------------------------------------------------------------
(* What the operators do. *)
LEMMA InIs ==
    ASSUME NEW seq \in Seq(Nodes)
    PROVE  /\ \A y : y \in In(seq) <=> \E i \in 1 .. Len(seq) : seq[i] = y
           /\ In(seq) \subseteq Nodes /\ Len(seq) \in Nat
BY DEF In

LEMMA FollowingIs ==
    ASSUME list \in Seq(Nodes), Unique(list), NEW p \in 1 .. Len(list)
    PROVE  Following(list[p]) = IF p = Len(list) THEN NoNode ELSE list[p + 1]
<1> DEFINE next == {i \in 2 .. Len(list) : list[i - 1] = list[p]}
<1>1. Len(list) \in Nat
  OBVIOUS
<1>2. \A i \in next : i = p + 1
  BY <1>1 DEF Unique
<1>3. p # Len(list) => p + 1 \in next
  BY <1>1
<1>4. p = Len(list) => next = {}
  BY <1>1, <1>2
<1>5. p # Len(list) => (CHOOSE i \in next : TRUE) = p + 1
  <2> HIDE DEF next
  <2>1. QED
    BY <1>2, <1>3
<1>6. Following(list[p]) = IF next = {} THEN NoNode ELSE list[CHOOSE i \in next : TRUE]
  BY DEF Following
<1>7. QED
  <2> HIDE DEF next
  <2>1. QED
    BY <1>3, <1>4, <1>5, <1>6

LEMMA WithoutIs ==
    ASSUME NEW seq \in Seq(Nodes), Unique(seq), NEW k \in 1 .. Len(seq)
    PROVE  /\ Without(seq, seq[k]) \in Seq(Nodes)
           /\ Len(Without(seq, seq[k])) = Len(seq) - 1
           /\ \A j \in 1 .. Len(seq) - 1 :
                 Without(seq, seq[k])[j] = seq[IF j < k THEN j ELSE j + 1]
           /\ Unique(Without(seq, seq[k]))
           /\ In(Without(seq, seq[k])) = In(seq) \ {seq[k]}
<1> DEFINE new == Without(seq, seq[k])
           n == Len(seq)
           front == SubSeq(seq, 1, k - 1)
           back == SubSeq(seq, k + 1, n)
<1>1. n \in Nat /\ DOMAIN seq = 1 .. n
  OBVIOUS
<1>2. (CHOOSE i \in DOMAIN seq : seq[i] = seq[k]) = k
  BY <1>1 DEF Unique
<1>3. new = SubSeq(seq, 1, k - 1) \o SubSeq(seq, k + 1, n)
  BY <1>2 DEF Without
<1>4. /\ front \in Seq(Nodes) /\ Len(front) = k - 1
      /\ \A j \in 1 .. k - 1 : front[j] = seq[j]
  <2>1. \A i \in 1 .. k - 1 : seq[i] \in Nodes
    BY <1>1
  <2>2. 1 \in Int /\ k - 1 \in Int
    BY <1>1
  <2>3. QED
    BY <1>1, <2>1, <2>2, SubSeqProperties
<1>5. /\ back \in Seq(Nodes) /\ Len(back) = n - k
      /\ \A j \in 1 .. n - k : back[j] = seq[j + k]
  <2>1. \A i \in k + 1 .. n : seq[i] \in Nodes
    BY <1>1
  <2>2. k + 1 \in Int /\ n \in Int
    BY <1>1
  <2>3. /\ back \in Seq(Nodes) /\ Len(back) = IF k + 1 <= n THEN n - (k + 1) + 1 ELSE 0
        /\ \A i \in 1 .. n - (k + 1) + 1 : back[i] = seq[k + 1 + i - 1]
    BY <2>1, <2>2, SubSeqProperties
  <2> HIDE DEF back
  <2>4. n - (k + 1) + 1 = n - k /\ \A j \in 1 .. n - k : k + 1 + j - 1 = j + k
    BY <1>1
  <2>5. Len(back) = n - k
    <3>1. CASE k + 1 <= n
      BY <2>3, <2>4, <3>1
    <3>2. CASE ~ (k + 1 <= n)
      <4>1. Len(back) = 0
        BY <2>3, <3>2
      <4>2. k = n
        <5>1. k \in Int /\ k <= n /\ n \in Int
          BY <1>1
        <5> HIDE DEF n
        <5>2. QED
          BY <3>2, <5>1
      <4>3. QED
        BY <1>1, <4>1, <4>2
    <3>3. QED
      BY <3>1, <3>2
  <2>6. ASSUME NEW j \in 1 .. n - k PROVE back[j] = seq[j + k]
    BY <2>3, <2>4
  <2>7. QED
    BY <2>3, <2>5, <2>6
<1> HIDE DEF front, back
<1>6. /\ new \in Seq(Nodes) /\ Len(new) = n - 1
      /\ \A j \in 1 .. n - 1 : new[j] = seq[IF j < k THEN j ELSE j + 1]
  <2>1. /\ new \in Seq(Nodes) /\ Len(new) = (k - 1) + (n - k)
        /\ \A j \in 1 .. (k - 1) + (n - k) :
              new[j] = IF j <= k - 1 THEN front[j] ELSE back[j - (k - 1)]
    <3>1. new = front \o back
      BY <1>3 DEF front, back
    <3> HIDE DEF new
    <3>2. /\ front \o back \in Seq(Nodes) /\ Len(front \o back) = Len(front) + Len(back)
          /\ \A j \in 1 .. Len(front) + Len(back) :
                (front \o back)[j] = IF j <= Len(front) THEN front[j] ELSE back[j - Len(front)]
      BY <1>4, <1>5, ConcatProperties
    <3>3. QED
      BY <1>4, <1>5, <3>1, <3>2
  <2>2. (k - 1) + (n - k) = n - 1
    BY <1>1
  <2>3. ASSUME NEW j \in 1 .. n - 1 PROVE new[j] = seq[IF j < k THEN j ELSE j + 1]
    <3> HIDE DEF new
    <3>1. CASE j < k
      BY <1>1, <1>4, <2>1, <2>2, <3>1
    <3>2. CASE ~ (j < k)
      <4>1. j - (k - 1) \in 1 .. n - k /\ j - (k - 1) + k = j + 1 /\ ~ (j <= k - 1)
        BY <1>1, <3>2
      <4>2. QED
        BY <1>5, <2>1, <2>2, <3>2, <4>1
    <3>3. QED
      BY <3>1, <3>2
  <2>4. QED
    BY <2>1, <2>2, <2>3
<1> HIDE DEF new
<1>7. Unique(new)
  BY <1>1, <1>6 DEF Unique
<1>8. \A y : y \in In(new) <=> y \in In(seq) /\ y # seq[k]
  <2>1. ASSUME NEW j \in 1 .. n - 1 PROVE new[j] \in In(seq) /\ new[j] # seq[k]
    BY <1>1, <1>6, InIs DEF Unique
  <2>2. ASSUME NEW i \in 1 .. n, i # k PROVE \E j \in 1 .. n - 1 : new[j] = seq[i]
    <3>1. CASE i < k
      BY <1>1, <1>6, <3>1
    <3>2. CASE i > k
      <4>1. i - 1 \in 1 .. n - 1 /\ ~ (i - 1 < k) /\ i - 1 + 1 = i
        BY <1>1, <3>2
      <4>2. QED
        BY <1>6, <4>1
    <3>3. QED
      BY <1>1, <2>2, <3>1, <3>2
  <2>3. /\ \A y : y \in In(new) <=> \E j \in 1 .. n - 1 : new[j] = y
        /\ \A y : y \in In(seq) <=> \E i \in 1 .. n : seq[i] = y
    BY <1>6, InIs
  <2>4. QED
    BY <2>1, <2>2, <2>3
<1>9. QED
  BY <1>6, <1>7, <1>8 DEF new

LEMMA AddIs ==
    ASSUME NEW seq \in Seq(Nodes), Unique(seq), NEW x \in Nodes, x \notin In(seq)
    PROVE  /\ Append(seq, x) \in Seq(Nodes)
           /\ Len(Append(seq, x)) = Len(seq) + 1
           /\ \A j \in 1 .. Len(seq) : Append(seq, x)[j] = seq[j]
           /\ Append(seq, x)[Len(seq) + 1] = x
           /\ Unique(Append(seq, x))
           /\ In(Append(seq, x)) = In(seq) \cup {x}
<1> DEFINE new == Append(seq, x)
           n == Len(seq)
<1>1. /\ new \in Seq(Nodes) /\ Len(new) = n + 1 /\ n \in Nat
      /\ \A j \in 1 .. n : new[j] = seq[j]
      /\ new[n + 1] = x
  BY AppendProperties
<1>2. \A j \in 1 .. n + 1 : j \in 1 .. n \/ j = n + 1
  BY <1>1
<1>3. \A j \in 1 .. n : seq[j] # x
  BY InIs
<1> HIDE DEF new
<1>4. Unique(new)
  BY <1>1, <1>2, <1>3 DEF Unique
<1>5. \A y : y \in In(new) <=> y \in In(seq) \/ y = x
  BY <1>1, <1>2, InIs
<1>6. QED
  BY <1>1, <1>4, <1>5 DEF new

LEMMA InsertIs ==
    ASSUME NEW seq \in Seq(Nodes), Unique(seq), NEW x \in Nodes, x \notin In(seq),
           NEW p \in 0 .. Len(seq)
    PROVE  /\ Inserted(seq, p, x) \in Seq(Nodes)
           /\ Len(Inserted(seq, p, x)) = Len(seq) + 1
           /\ \A j \in 1 .. Len(seq) + 1 :
                 Inserted(seq, p, x)[j] = IF j <= p THEN seq[j]
                                          ELSE IF j = p + 1 THEN x ELSE seq[j - 1]
           /\ Unique(Inserted(seq, p, x))
           /\ In(Inserted(seq, p, x)) = In(seq) \cup {x}
<1> DEFINE new == Inserted(seq, p, x)
           n == Len(seq)
           front == SubSeq(seq, 1, p)
           back == SubSeq(seq, p + 1, n)
           begin == front \o <<x>>
<1>1. n \in Nat /\ p \in Int /\ 0 <= p /\ p <= n
  OBVIOUS
<1>2. front \in Seq(Nodes) /\ Len(front) = p /\ \A j \in 1 .. p : front[j] = seq[j]
  <2>1. \A i \in 1 .. p : seq[i] \in Nodes
    BY <1>1
  <2>2. QED
    BY <1>1, <2>1, SubSeqProperties
<1>3. back \in Seq(Nodes) /\ Len(back) = n - p /\ \A j \in 1 .. n - p : back[j] = seq[j + p]
  <2>1. \A i \in p + 1 .. n : seq[i] \in Nodes
    BY <1>1
  <2>2. p + 1 \in Int /\ n \in Int
    BY <1>1
  <2>3. /\ back \in Seq(Nodes) /\ Len(back) = IF p + 1 <= n THEN n - (p + 1) + 1 ELSE 0
        /\ \A i \in 1 .. n - (p + 1) + 1 : back[i] = seq[p + 1 + i - 1]
    BY <2>1, <2>2, SubSeqProperties
  <2> HIDE DEF back, n
  <2>4. n - (p + 1) + 1 = n - p /\ \A j \in 1 .. n - p : p + 1 + j - 1 = j + p
    BY <1>1
  <2>5. Len(back) = n - p
    <3>1. CASE p + 1 <= n
      BY <2>3, <2>4, <3>1
    <3>2. CASE ~ (p + 1 <= n)
      <4>1. p = n
        BY <1>1, <3>2
      <4>2. QED
        BY <1>1, <2>3, <3>2, <4>1
    <3>3. QED
      BY <3>1, <3>2
  <2>6. QED
    BY <2>3, <2>4, <2>5
<1> HIDE DEF front, back
<1>4. /\ begin \in Seq(Nodes) /\ Len(begin) = p + 1 /\ begin[p + 1] = x
      /\ \A j \in 1 .. p : begin[j] = seq[j]
  <2>1. <<x>> \in Seq(Nodes) /\ Len(<<x>>) = 1 /\ <<x>>[1] = x
    OBVIOUS
  <2>2. /\ begin \in Seq(Nodes) /\ Len(begin) = p + 1
        /\ \A j \in 1 .. p + 1 : begin[j] = IF j <= p THEN front[j] ELSE <<x>>[j - p]
    BY <1>2, <2>1, ConcatProperties
  <2> HIDE DEF begin
  <2>3. p + 1 \in 1 .. p + 1 /\ ~ (p + 1 <= p) /\ p + 1 - p = 1
    BY <1>1
  <2>4. \A j \in 1 .. p : j \in 1 .. p + 1 /\ j <= p
    BY <1>1
  <2>5. QED
    BY <1>2, <2>1, <2>2, <2>3, <2>4
<1> HIDE DEF begin
<1>5. /\ new \in Seq(Nodes) /\ Len(new) = n + 1
      /\ \A j \in 1 .. n + 1 : new[j] = IF j <= p + 1 THEN begin[j] ELSE back[j - (p + 1)]
  <2>1. new = begin \o back
    BY DEF Inserted, begin, front, back
  <2>2. p + 1 + (n - p) = n + 1
    BY <1>1
  <2> HIDE DEF new
  <2>3. /\ begin \o back \in Seq(Nodes) /\ Len(begin \o back) = Len(begin) + Len(back)
        /\ \A j \in 1 .. Len(begin) + Len(back) :
              (begin \o back)[j] = IF j <= Len(begin) THEN begin[j] ELSE back[j - Len(begin)]
    BY <1>3, <1>4, ConcatProperties
  <2>4. QED
    BY <1>3, <1>4, <2>1, <2>2, <2>3
<1> HIDE DEF new
<1>6. ASSUME NEW j \in 1 .. n + 1
      PROVE  new[j] = IF j <= p THEN seq[j] ELSE IF j = p + 1 THEN x ELSE seq[j - 1]
  <2>1. CASE j <= p
    <3>1. j \in 1 .. p /\ j <= p + 1
      BY <1>1, <2>1
    <3>2. QED
      BY <1>4, <1>5, <2>1, <3>1
  <2>2. CASE j = p + 1
    <3>1. ~ (j <= p) /\ j <= p + 1
      BY <1>1, <2>2
    <3>2. QED
      BY <1>4, <1>5, <2>2, <3>1
  <2>3. CASE ~ (j <= p) /\ j # p + 1
    <3>1. j - (p + 1) \in 1 .. n - p /\ j - (p + 1) + p = j - 1 /\ ~ (j <= p + 1)
      BY <1>1, <2>3
    <3>2. QED
      BY <1>3, <1>5, <2>3, <3>1
  <2>4. QED
    BY <2>1, <2>2, <2>3
<1>7. \A j \in 1 .. n : seq[j] # x
  BY InIs
<1>8. Unique(new)
  <2> SUFFICES ASSUME NEW i \in 1 .. n + 1, NEW j \in 1 .. n + 1, new[i] = new[j] PROVE i = j
    BY <1>5 DEF Unique
  <2>1. /\ i <= p => i \in 1 .. n
        /\ j <= p => j \in 1 .. n
        /\ ~ (i <= p) /\ i # p + 1 => i - 1 \in 1 .. n /\ i - 1 > p
        /\ ~ (j <= p) /\ j # p + 1 => j - 1 \in 1 .. n /\ j - 1 > p
    BY <1>1
  <2>2. \A a, b \in 1 .. n : seq[a] = seq[b] => a = b
    BY DEF Unique
  <2>3. /\ new[i] = IF i <= p THEN seq[i] ELSE IF i = p + 1 THEN x ELSE seq[i - 1]
        /\ new[j] = IF j <= p THEN seq[j] ELSE IF j = p + 1 THEN x ELSE seq[j - 1]
    BY <1>6
  <2>4. CASE i = p + 1
    <3>0. ~ (p + 1 <= p)
      BY <1>1
    <3>1. new[i] = x
      BY <2>3, <2>4, <3>0
    <3>2. QED
      BY <1>1, <1>7, <2>1, <2>3, <2>4, <3>1
  <2>5. CASE j = p + 1
    <3>0. ~ (p + 1 <= p)
      BY <1>1
    <3>1. new[j] = x
      BY <2>3, <2>5, <3>0
    <3>2. QED
      BY <1>1, <1>7, <2>1, <2>3, <2>5, <3>1
  <2>6. CASE i # p + 1 /\ j # p + 1
    <3> DEFINE old(k) == IF k <= p THEN k ELSE k - 1
    <3>1. /\ new[i] = seq[old(i)] /\ old(i) \in 1 .. n
          /\ new[j] = seq[old(j)] /\ old(j) \in 1 .. n
      BY <2>1, <2>3, <2>6
    <3>2. old(i) = old(j)
      BY <2>2, <3>1
    <3>3. QED
      BY <1>1, <2>1, <2>6, <3>2
  <2>7. QED
    BY <2>4, <2>5, <2>6
<1>9. \A y : y \in In(new) <=> y \in In(seq) \/ y = x
  <2>1. /\ \A y : y \in In(new) <=> \E j \in 1 .. n + 1 : new[j] = y
        /\ \A y : y \in In(seq) <=> \E i \in 1 .. n : seq[i] = y
    BY <1>5, InIs
  <2>2. ASSUME NEW j \in 1 .. n + 1 PROVE new[j] \in In(seq) \/ new[j] = x
    <3>1. (j <= p => j \in 1 .. n) /\ (~ (j <= p) /\ j # p + 1 => j - 1 \in 1 .. n)
      BY <1>1
    <3>2. QED
      BY <1>6, <2>1, <3>1
  <2>3. ASSUME NEW i \in 1 .. n PROVE \E j \in 1 .. n + 1 : new[j] = seq[i]
    <3>1. CASE i <= p
      <4>1. i \in 1 .. n + 1
        BY <1>1
      <4>2. QED
        BY <1>6, <3>1, <4>1
    <3>2. CASE ~ (i <= p)
      <4>1. i + 1 \in 1 .. n + 1 /\ ~ (i + 1 <= p) /\ i + 1 # p + 1 /\ i + 1 - 1 = i
        BY <1>1, <3>2
      <4>2. QED
        BY <1>6, <4>1
    <3>3. QED
      BY <3>1, <3>2
  <2>4. new[p + 1] = x /\ p + 1 \in 1 .. n + 1
    <3>1. p + 1 \in 1 .. n + 1 /\ ~ (p + 1 <= p)
      BY <1>1
    <3>2. QED
      BY <1>6, <3>1
  <2>5. QED
    BY <2>1, <2>2, <2>3, <2>4
<1>10. QED
  BY <1>5, <1>6, <1>8, <1>9 DEF new

-----------------------------------------------------------------------------
(* The steps, one lemma for each. *)
LEMMA StartStep ==
    ASSUME ListsInv, NEW kind \in Kinds, Start(kind) PROVE ListsInv'
<1>1. /\ loop = "none" /\ loop' = kind /\ it' = First(list) /\ current = NoNode /\ called = <<>>
      /\ UNCHANGED <<list, current, called, dead, missed, suspect>>
  BY DEF ListsInv, HeldOK, Start, Walking, Clearing, Kinds
<1>2. list \in Seq(Nodes) /\ Len(list) \in Nat /\ (list # <<>> => Head(list) = list[1] /\ Len(list) >= 1)
  BY DEF ListsInv, ListsTypeOK
<1>3. In(list) \subseteq Nodes /\ \A y : y \in In(list) <=> \E i \in 1 .. Len(list) : list[i] = y
  BY <1>2, InIs
<1>4. \/ it' = NoNode /\ In(list) = {}
      \/ it' = list[1] /\ it' \in In(list) /\ 1 \in 1 .. Len(list)
  <2>1. CASE list = <<>>
    BY <1>1, <2>1 DEF First, In
  <2>2. CASE list # <<>>
    BY <1>1, <1>2, <1>3, <2>2 DEF First
  <2>3. QED
    BY <2>1, <2>2
<1>5. In(called) = {}
  BY <1>1 DEF In
<1>6. ListsTypeOK'
  BY <1>1, <1>3, <1>4 DEF ListsInv, ListsTypeOK, Loops
<1>7. HeldOK'
  <2>1. ~Walking /\ loop' \notin {"none", "undefined"} /\ In(list') = In(list)
    BY <1>1 DEF Walking, Clearing, Kinds
  <2>2. QED
    BY <1>1, <1>4, <2>1 DEF ListsInv, HeldOK, Unique
<1>8. ForEachOK'
  BY <1>1, <1>2, <1>3, <1>4, <1>5, NoNodeAssumption DEF ListsInv, HeldOK, Unique, ForEachOK, Kinds
<1>9. ClearOK'
  <2>1. missed = {} /\ NoNode \notin In(list)
    BY <1>1, <1>3, NoNodeAssumption DEF ListsInv, HeldOK
  <2>2. \A p \in 1 .. Len(list) : list[p] = it' => p = 1
    BY <1>1, <1>2, <1>3, <1>4, <2>1 DEF ListsInv, HeldOK, Unique
  <2>3. \A j \in 1 .. Len(list) : ~ (j < 1) /\ list[j] # NoNode
    BY <1>2, <1>3, <2>1
  <2>4. it' = NoNode => In(list) = {}
    BY <1>4, <2>1
  <2>5. QED
    BY <1>1, <1>5, <2>1, <2>2, <2>3, <2>4 DEF ClearOK, Clearing, Kinds
<1>10. QED
  BY <1>6, <1>7, <1>8, <1>9 DEF ListsInv

(* Call and Delete take up the node at the iterator for the first time.    *)
LEMMA TurnIs ==
    ASSUME ListsInv, Walking, current = NoNode, it \in In(list),
           called' = Append(called, it)
    PROVE  /\ it \in Nodes /\ it # NoNode
           /\ called' \in Seq(Nodes) /\ Unique(called') /\ In(called') = In(called) \cup {it}
           /\ \E p \in 1 .. Len(list) : list[p] = it
<1>1. /\ list \in Seq(Nodes) /\ called \in Seq(Nodes) /\ Unique(list) /\ Unique(called)
  BY DEF ListsInv, ListsTypeOK, HeldOK
<1>2. it \in Nodes /\ it # NoNode
  BY <1>1, InIs, NoNodeAssumption
<1>3. PICK p \in 1 .. Len(list) : list[p] = it
  BY <1>1, InIs
<1>4. it \notin In(called)
  <2>1. CASE loop = "forEach"
    BY <1>1, <1>3, <2>1, InIs DEF ListsInv, ForEachOK
  <2>2. CASE Clearing
    BY <1>2, <2>2 DEF ListsInv, ClearOK
  <2>3. QED
    BY <2>1, <2>2 DEF Walking
<1>5. QED
  BY <1>1, <1>2, <1>3, <1>4, AddIs

LEMMA CallStep ==
    ASSUME ListsInv, Call PROVE ListsInv'
<1>1. /\ loop = "forEach" /\ current = NoNode /\ it \in In(list) /\ current' = it
      /\ called' = Append(called, it)
      /\ UNCHANGED <<list, loop, it, dead, missed, suspect>>
  BY DEF Call
<1>2. /\ it \in Nodes /\ it # NoNode
      /\ called' \in Seq(Nodes) /\ Unique(called') /\ In(called') = In(called) \cup {it}
  BY <1>1, TurnIs DEF Walking
<1>3. ListsTypeOK' /\ HeldOK'
  BY <1>1, <1>2 DEF ListsInv, ListsTypeOK, HeldOK, Walking, Clearing
<1>4. \A p, j \in 1 .. Len(list) : list[p] = it => (list[j] \in In(called') <=> j < p \/ j = p)
  BY <1>1, <1>2 DEF ListsInv, ForEachOK, HeldOK, Unique
<1>5. ForEachOK' /\ ClearOK'
  BY <1>1, <1>2, <1>4 DEF ListsInv, ForEachOK, ClearOK, Clearing
<1>6. QED
  BY <1>3, <1>5 DEF ListsInv

LEMMA DeleteStep ==
    ASSUME ListsInv, Delete PROVE ListsInv'
<1>1. /\ Clearing /\ Clearing' /\ current = NoNode /\ it \in In(list) /\ current' = it
      /\ it' = Following(it) /\ called' = Append(called, it)
      /\ loop # "forEach" /\ loop # "none" /\ loop \notin {"done", "cleared", "undefined"}
      /\ UNCHANGED <<list, loop, dead, missed, suspect>>
  BY DEF Delete, Clearing
<1>2. /\ it \in Nodes /\ it # NoNode
      /\ called' \in Seq(Nodes) /\ Unique(called') /\ In(called') = In(called) \cup {it}
  BY <1>1, TurnIs DEF Walking
<1>3. /\ list \in Seq(Nodes) /\ Unique(list) /\ In(list) \subseteq Nodes /\ Len(list) \in Nat
      /\ \A y : y \in In(list) <=> \E i \in 1 .. Len(list) : list[i] = y
      /\ NoNode \notin In(list)
  BY InIs, NoNodeAssumption DEF ListsInv, ListsTypeOK, HeldOK
<1>4. PICK p \in 1 .. Len(list) : list[p] = it
  BY <1>1, <1>3
<1>5. it' = IF p = Len(list) THEN NoNode ELSE list[p + 1]
  BY <1>1, <1>3, <1>4, FollowingIs
<1>6. \A j \in 1 .. Len(list) : list[j] \in missed \cup {it} <=> j <= p
  <2>1. \A j \in 1 .. Len(list) : list[j] \in missed \cup {current} <=> j < p
    BY <1>1, <1>4 DEF ListsInv, ClearOK
  <2>2. \A j \in 1 .. Len(list) : list[j] # current /\ (list[j] = it <=> j = p)
    BY <1>1, <1>3, <1>4 DEF Unique
  <2>3. QED
    BY <1>3, <1>4, <2>1, <2>2
<1>7. it' \in In(list) \cup {NoNode}
  <2>1. p # Len(list) => p + 1 \in 1 .. Len(list)
    BY <1>3, <1>4
  <2>2. QED
    BY <1>3, <1>5, <2>1
<1>8. ListsTypeOK' /\ HeldOK'
  BY <1>1, <1>2, <1>3, <1>7 DEF ListsInv, ListsTypeOK, HeldOK, Walking
<1>9. /\ In(list) \cap In(called') \subseteq {it}
      /\ missed \subseteq In(list) \cup dead
      /\ missed \cap In(called') = {}
  <2>1. it \notin missed
    <3>1. list[p] \in missed \cup {current} <=> p < p
      BY <1>1, <1>4 DEF ListsInv, ClearOK
    <3>2. QED
      BY <1>3, <1>4, <3>1
  <2>2. QED
    BY <1>1, <1>2, <1>3, <2>1 DEF ListsInv, ClearOK
<1>10. it' = NoNode => In(list) \subseteq missed \cup {it}
  <2>1. it' = NoNode => p = Len(list)
    <3>1. p # Len(list) => p + 1 \in 1 .. Len(list)
      BY <1>3, <1>4
    <3>2. QED
      BY <1>3, <1>5, <3>1
  <2>2. QED
    BY <1>3, <1>6, <2>1
<1>11. ASSUME NEW q \in 1 .. Len(list), NEW j \in 1 .. Len(list), list[q] = it'
       PROVE  list[j] \in missed \cup {it} <=> j < q
  <2>1. q = p + 1
    <3>1. p # Len(list)
      BY <1>3, <1>5, <1>11
    <3>2. p + 1 \in 1 .. Len(list) /\ list[p + 1] = list[q]
      BY <1>3, <1>4, <1>5, <1>11, <3>1
    <3>3. QED
      BY <1>3, <3>2 DEF Unique
  <2>2. QED
    BY <1>3, <1>6, <2>1
<1>12. ForEachOK' /\ ClearOK'
  BY <1>1, <1>9, <1>10, <1>11 DEF ForEachOK, ClearOK
<1>13. QED
  BY <1>8, <1>12 DEF ListsInv

(* An iterator whose node is gone is used only after a callback took it.   *)
LEMMA UndefinedStep ==
    ASSUME ListsInv, suspect, Undefined PROVE ListsInv'
<1>1. /\ loop' = "undefined" /\ current' = NoNode
      /\ UNCHANGED <<list, it, called, dead, missed, suspect>>
  BY DEF Undefined
<1>2. ListsTypeOK' /\ HeldOK'
  BY <1>1 DEF ListsInv, ListsTypeOK, Loops, HeldOK, Unique, Walking, Clearing
<1>3. ForEachOK' /\ ClearOK'
  BY <1>1 DEF ForEachOK, ClearOK, Clearing
<1>4. QED
  BY <1>2, <1>3 DEF ListsInv

LEMMA CallReturnsStep ==
    ASSUME ListsInv, CallReturns PROVE ListsInv'
<1>1. loop = "forEach" /\ current # NoNode /\ it = current
  BY DEF CallReturns, ListsInv, ForEachOK
<1>2. CASE current \notin In(list)
  <2>1. suspect
    BY <1>1, <1>2 DEF ListsInv, HeldOK, Walking
  <2>2. QED
    BY <1>1, <1>2, <2>1, UndefinedStep DEF CallReturns
<1>3. CASE current \in In(list)
  <2>1. it' = Following(it) /\ current' = NoNode /\ UNCHANGED <<list, loop, called, dead, missed, suspect>>
    BY <1>1, <1>3 DEF CallReturns
  <2>2. /\ list \in Seq(Nodes) /\ Unique(list) /\ In(list) \subseteq Nodes /\ Len(list) \in Nat
        /\ \A y : y \in In(list) <=> \E i \in 1 .. Len(list) : list[i] = y
    BY InIs DEF ListsInv, ListsTypeOK, HeldOK
  <2>3. PICK p \in 1 .. Len(list) : list[p] = it
    BY <1>1, <1>3, <2>2
  <2>4. it' = IF p = Len(list) THEN NoNode ELSE list[p + 1]
    BY <2>1, <2>2, <2>3, FollowingIs
  <2>5. \A j \in 1 .. Len(list) : list[j] \in In(called) <=> j <= p
    BY <1>1, <2>2, <2>3 DEF ListsInv, ForEachOK
  <2>6. CASE p = Len(list)
    <3>1. it' = NoNode /\ In(list) \subseteq In(called) /\ NoNode \notin In(list)
      BY <2>2, <2>4, <2>5, <2>6, NoNodeAssumption
    <3>2. \A j \in 1 .. Len(list) : list[j] # NoNode
      BY <2>2, <3>1
    <3>3. ListsTypeOK' /\ HeldOK'
      BY <1>1, <2>1, <3>1 DEF ListsInv, ListsTypeOK, HeldOK, Unique, Walking, Clearing
    <3>4. ForEachOK' /\ ClearOK'
      BY <1>1, <2>1, <3>1, <3>2 DEF ForEachOK, ClearOK, Clearing
    <3>5. QED
      BY <3>3, <3>4 DEF ListsInv
  <2>7. CASE p # Len(list)
    <3>1. p + 1 \in 1 .. Len(list) /\ it' = list[p + 1] /\ it' \in In(list)
      BY <2>2, <2>4, <2>7
    <3>2. it' \in Nodes /\ it' # NoNode
      BY <2>2, <3>1, NoNodeAssumption
    <3>3. \A q, j \in 1 .. Len(list) : list[q] = it' => (list[j] \in In(called) <=> j < q)
      BY <2>2, <2>5, <3>1 DEF Unique
    <3>4. ListsTypeOK' /\ HeldOK'
      BY <1>1, <2>1, <3>1, <3>2 DEF ListsInv, ListsTypeOK, HeldOK, Unique, Walking, Clearing
    <3>5. ForEachOK' /\ ClearOK'
      BY <1>1, <2>1, <3>2, <3>3 DEF ForEachOK, ClearOK, Clearing
    <3>6. QED
      BY <3>4, <3>5 DEF ListsInv
  <2>8. QED
    BY <2>6, <2>7
<1>4. QED
  BY <1>2, <1>3

LEMMA DeleteReturnsStep ==
    ASSUME ListsInv, DeleteReturns PROVE ListsInv'
<1>1. Clearing /\ Walking /\ current # NoNode
  BY DEF DeleteReturns, Walking
<1>2. CASE current \notin In(list)
  <2>1. suspect
    BY <1>1, <1>2 DEF ListsInv, HeldOK
  <2>2. QED
    BY <1>1, <1>2, <2>1, UndefinedStep DEF DeleteReturns
<1>3. CASE current \in In(list)
  <2>1. /\ list' = Without(list, current) /\ current' = NoNode /\ Clearing' /\ Walking'
        /\ loop # "forEach" /\ loop # "none" /\ loop \notin {"done", "cleared", "undefined"}
        /\ UNCHANGED <<loop, it, called, dead, missed, suspect>>
    BY <1>1, <1>3 DEF DeleteReturns, Clearing, Walking
  <2>2. /\ list \in Seq(Nodes) /\ Unique(list) /\ In(list) \subseteq Nodes /\ Len(list) \in Nat
        /\ \A y : y \in In(list) <=> \E i \in 1 .. Len(list) : list[i] = y
        /\ NoNode \notin In(list)
    BY InIs, NoNodeAssumption DEF ListsInv, ListsTypeOK, HeldOK
  <2>3. PICK k \in 1 .. Len(list) : list[k] = current
    BY <1>3, <2>2
  <2> DEFINE old(j) == IF j < k THEN j ELSE j + 1
  <2>4. /\ list' \in Seq(Nodes) /\ Unique(list') /\ In(list') = In(list) \ {current}
        /\ Len(list') = Len(list) - 1
        /\ \A j \in 1 .. Len(list) - 1 : list'[j] = list[old(j)]
    BY <2>1, <2>2, <2>3, WithoutIs
  <2>5. \A i, j \in 1 .. Len(list) - 1 :
            /\ old(j) \in 1 .. Len(list) /\ old(j) # k
            /\ old(i) < old(j) <=> i < j
    BY <2>2, <2>3
  <2>6. it \in In(list) => it # current
    <3>1. ASSUME it = current PROVE FALSE
      <4>1. list[k] \in missed \cup {current} <=> k < k
        BY <1>1, <2>3, <3>1 DEF ListsInv, ClearOK
      <4>2. QED
        BY <2>2, <2>3, <4>1
    <3>2. QED
      BY <3>1
  <2>7. ListsTypeOK' /\ HeldOK'
    BY <1>1, <2>1, <2>4, <2>6 DEF ListsInv, ListsTypeOK, HeldOK
  <2>8. /\ In(list') \cap In(called) = {}
        /\ it = NoNode => In(list') \subseteq missed
        /\ missed \subseteq In(list') \cup dead
        /\ missed \cap In(called) = {}
    BY <1>1, <2>2, <2>4 DEF ListsInv, ClearOK, HeldOK
  <2>9. ASSUME NEW p \in 1 .. Len(list'), NEW j \in 1 .. Len(list'), list'[p] = it
        PROVE  list'[j] \in missed \cup {NoNode} <=> j < p
    <3>1. p \in 1 .. Len(list) - 1 /\ j \in 1 .. Len(list) - 1
      BY <2>4
    <3>2. /\ list[old(p)] = it /\ list'[j] = list[old(j)]
          /\ old(p) \in 1 .. Len(list) /\ old(j) \in 1 .. Len(list) /\ old(j) # k
          /\ old(j) < old(p) <=> j < p
      BY <2>4, <2>5, <2>9, <3>1
    <3> HIDE DEF old
    <3>3. list[old(j)] \in missed \cup {current} <=> old(j) < old(p)
      BY <1>1, <3>2 DEF ListsInv, ClearOK
    <3>4. list[old(j)] # current /\ list[old(j)] # NoNode
      BY <2>2, <2>3, <3>2 DEF Unique
    <3>5. QED
      BY <3>2, <3>3, <3>4
  <2>10. ForEachOK' /\ ClearOK'
    BY <2>1, <2>8, <2>9 DEF ForEachOK, ClearOK
  <2>11. QED
    BY <2>7, <2>10 DEF ListsInv
<1>4. QED
  BY <1>2, <1>3

LEMMA DereferenceStep ==
    ASSUME ListsInv, Dereference PROVE ListsInv'
<1>1. Walking /\ it \notin In(list) \cup {NoNode} /\ Undefined
  BY DEF Dereference, Walking
<1>2. suspect
  BY <1>1 DEF ListsInv, HeldOK
<1>3. QED
  BY <1>1, <1>2, UndefinedStep

LEMMA FinishStep ==
    ASSUME ListsInv, Finish PROVE ListsInv'
<1>1. /\ Walking /\ current = NoNode /\ it = NoNode
      /\ loop' = IF loop = "forEach" THEN "done" ELSE "cleared"
      /\ UNCHANGED <<list, it, current, called, dead, missed, suspect>>
  BY DEF Finish, Walking
<1>2. ListsTypeOK' /\ HeldOK'
  BY <1>1 DEF ListsInv, ListsTypeOK, Loops, HeldOK, Unique, Walking, Clearing
<1>3. NoNode \notin In(list)
  BY InIs, NoNodeAssumption DEF ListsInv, ListsTypeOK
<1>4. Clearing => In(list) = missed \ dead
  BY <1>1, <1>3 DEF ListsInv, HeldOK, ClearOK
<1>5. ForEachOK' /\ ClearOK'
  BY <1>1, <1>4 DEF ListsInv, ForEachOK, ClearOK, Walking, Clearing
<1>6. QED
  BY <1>2, <1>5 DEF ListsInv

LEMMA AddStep ==
    ASSUME ListsInv, NEW x \in Nodes, NEW p \in 0 .. Len(list), Add(x, p) PROVE ListsInv'
<1>1. /\ loop = "none" \/ current # NoNode
      /\ x \notin In(list) /\ x \notin In(called) /\ x \notin dead
      /\ loop = "clearMap" \/ p = Len(list)
      /\ list' = Inserted(list, p, x)
      /\ missed' = IF Clearing /\ ~\E j \in 1 .. p : list[j] = it THEN missed \cup {x} ELSE missed
      /\ UNCHANGED <<loop, it, current, called, dead, suspect>>
  BY DEF Add, CallingOut, Used, loopVars
<1>2. /\ list \in Seq(Nodes) /\ Unique(list) /\ In(list) \subseteq Nodes /\ Len(list) \in Nat
      /\ \A y : y \in In(list) <=> \E i \in 1 .. Len(list) : list[i] = y
      /\ NoNode \notin In(list) /\ p \in Int /\ 0 <= p /\ p <= Len(list)
  BY InIs, NoNodeAssumption DEF ListsInv, ListsTypeOK, HeldOK
<1>3. /\ list' \in Seq(Nodes) /\ Len(list') = Len(list) + 1 /\ Unique(list')
      /\ \A j \in 1 .. Len(list) + 1 :
            list'[j] = IF j <= p THEN list[j] ELSE IF j = p + 1 THEN x ELSE list[j - 1]
      /\ In(list') = In(list) \cup {x}
  BY <1>1, <1>2, InsertIs
<1>4. x # NoNode /\ x # current
  BY <1>1, NoNodeAssumption DEF ListsInv, HeldOK
<1>5. Walking => x # it
  BY <1>1, <1>4 DEF ListsInv, HeldOK
<1>6. loop = "none" \/ Walking
  BY <1>1 DEF ListsInv, HeldOK
<1>7. ListsTypeOK' /\ HeldOK'
  <2>1. loop = "none" => missed' = {}
    BY <1>1 DEF ListsInv, HeldOK, Clearing
  <2>2. QED
    BY <1>1, <1>3, <1>6, <2>1 DEF ListsInv, ListsTypeOK, HeldOK, Walking, Clearing
<1>8. ForEachOK'
  <2>1. CASE loop = "forEach"
    <3>1. current # NoNode /\ it = current /\ p = Len(list)
      BY <1>1, <2>1 DEF ListsInv, ForEachOK
    <3>2. /\ \A j \in 1 .. Len(list) : list'[j] = list[j]
          /\ list'[Len(list) + 1] = x
      <4>1. \A j \in 1 .. Len(list) : j \in 1 .. Len(list) + 1 /\ j <= p
        BY <1>2, <3>1
      <4>2. Len(list) + 1 \in 1 .. Len(list) + 1 /\ ~ (Len(list) + 1 <= p)
        BY <1>2, <3>1
      <4>3. QED
        BY <1>3, <3>1, <4>1, <4>2
    <3>3. ASSUME NEW q \in 1 .. Len(list'), NEW j \in 1 .. Len(list'), list'[q] = it
          PROVE  list'[j] \in In(called) <=> j < q \/ j = q
      <4>1. q \in 1 .. Len(list) /\ list[q] = it
        BY <1>2, <1>3, <1>5, <2>1, <3>2, <3>3 DEF Walking
      <4>2. CASE j \in 1 .. Len(list)
        BY <2>1, <3>1, <3>2, <4>1, <4>2 DEF ListsInv, ForEachOK
      <4>3. CASE j \notin 1 .. Len(list)
        <5>1. j = Len(list) + 1
          BY <1>2, <1>3, <4>3
        <5>2. QED
          BY <1>1, <1>2, <3>2, <4>1, <5>1
      <4>4. QED
        BY <4>2, <4>3
    <3>4. QED
      BY <1>1, <1>4, <2>1, <3>1, <3>3, NoNodeAssumption DEF ForEachOK
  <2>2. CASE loop # "forEach"
    BY <1>1, <1>6, <2>2 DEF ForEachOK, Walking, Clearing
  <2>3. QED
    BY <2>1, <2>2
<1>9. ClearOK'
  <2>1. CASE Clearing
    <3>1. /\ In(list) \cap In(called) \subseteq {current}
          /\ missed \subseteq In(list) \cup dead /\ missed \cap In(called) = {}
          /\ it = NoNode => In(list) \subseteq missed \cup {current}
          /\ x # it /\ x \notin missed
      BY <1>1, <1>5, <2>1 DEF ListsInv, ClearOK, Walking
    <3>2. missed' \in {missed, missed \cup {x}}
      BY <1>1
    <3>3. it = NoNode => x \in missed'
      <4>1. \A j \in 1 .. p : list[j] \in In(list)
        BY <1>2
      <4>2. QED
        BY <1>1, <1>2, <2>1, <4>1
    <3>4. ASSUME NEW q \in 1 .. Len(list'), NEW j \in 1 .. Len(list'), list'[q] = it
          PROVE  list'[j] \in missed' \cup {current} <=> j < q
      <4> DEFINE back(i) == IF i <= p THEN i ELSE i - 1
      <4>1. q # p + 1 /\ q \in 1 .. Len(list) + 1 /\ j \in 1 .. Len(list) + 1
        <5>1. p + 1 \in 1 .. Len(list) + 1 /\ ~ (p + 1 <= p)
          BY <1>2
        <5>2. QED
          BY <1>3, <3>1, <3>4, <5>1
      <4>2. back(q) \in 1 .. Len(list) /\ list[back(q)] = it
        BY <1>2, <1>3, <3>4, <4>1
      <4>3. (\E i \in 1 .. p : list[i] = it) <=> back(q) <= p
        <5>1. \A i \in 1 .. p : i \in 1 .. Len(list)
          BY <1>2
        <5>2. \A i \in 1 .. Len(list) : list[i] = it => i = back(q)
          BY <1>2, <4>2 DEF Unique
        <5> HIDE DEF back
        <5>3. back(q) <= p => back(q) \in 1 .. p
          BY <1>2, <4>2
        <5>4. QED
          BY <1>2, <4>2, <5>1, <5>2, <5>3
      <4>4. CASE j = p + 1
        <5>1. list'[j] = x
          BY <1>2, <1>3, <4>1, <4>4
        <5>2. x \in missed' <=> ~ (back(q) <= p)
          <6> HIDE DEF back
          <6>1. QED
            BY <1>1, <2>1, <3>1, <4>3
        <5>3. ~ (back(q) <= p) <=> j < q
          BY <1>2, <4>1, <4>4
        <5>4. QED
          BY <1>4, <5>1, <5>2, <5>3
      <4>5. CASE j # p + 1
        <5>1. back(j) \in 1 .. Len(list) /\ list'[j] = list[back(j)]
          BY <1>2, <1>3, <4>1, <4>5
        <5>2. back(j) < back(q) <=> j < q
          BY <1>2, <4>1, <4>5
        <5> HIDE DEF back
        <5>3. list[back(j)] \in missed \cup {current} <=> back(j) < back(q)
          BY <2>1, <4>2, <5>1 DEF ListsInv, ClearOK
        <5>4. list[back(j)] # x
          BY <1>1, <1>2, <5>1
        <5>5. QED
          BY <3>2, <5>1, <5>2, <5>3, <5>4
      <4>6. QED
        BY <4>4, <4>5
    <3>5. /\ In(list') \cap In(called) \subseteq {current}
          /\ missed' \subseteq In(list') \cup dead
          /\ missed' \cap In(called) = {}
          /\ it = NoNode => In(list') \subseteq missed' \cup {current}
      BY <1>1, <1>3, <3>1, <3>2, <3>3
    <3>6. QED
      BY <1>1, <2>1, <3>4, <3>5 DEF ClearOK, Clearing
  <2>2. CASE ~Clearing
    BY <1>1, <1>6, <2>2 DEF ClearOK, Walking, Clearing
  <2>3. QED
    BY <2>1, <2>2
<1>10. QED
  BY <1>7, <1>8, <1>9 DEF ListsInv

LEMMA RemoveStep ==
    ASSUME ListsInv, NEW x \in Nodes, Remove(x) PROVE ListsInv'
<1>1. /\ current # NoNode /\ x \in In(list)
      /\ list' = Without(list, x) /\ dead' = dead \cup {x}
      /\ suspect' = (suspect \/ x = current \/ (Clearing /\ x = it))
      /\ UNCHANGED <<loop, it, current, called, missed>>
  BY DEF Remove, CallingOut, loopVars
<1>2. /\ list \in Seq(Nodes) /\ Unique(list) /\ In(list) \subseteq Nodes /\ Len(list) \in Nat
      /\ \A y : y \in In(list) <=> \E i \in 1 .. Len(list) : list[i] = y
  BY InIs DEF ListsInv, ListsTypeOK, HeldOK
<1>3. PICK k \in 1 .. Len(list) : list[k] = x
  BY <1>1, <1>2
<1> DEFINE old(j) == IF j < k THEN j ELSE j + 1
<1>4. /\ list' \in Seq(Nodes) /\ Len(list') = Len(list) - 1 /\ Unique(list')
      /\ \A j \in 1 .. Len(list) - 1 : list'[j] = list[old(j)]
      /\ In(list') = In(list) \ {x}
  BY <1>1, <1>2, <1>3, WithoutIs
<1>5. \A i, j \in 1 .. Len(list) - 1 :
          /\ old(j) \in 1 .. Len(list)
          /\ old(i) < old(j) <=> i < j
          /\ old(i) = old(j) <=> i = j
  BY <1>2, <1>3
<1>6. Walking
  BY <1>1 DEF ListsInv, HeldOK
<1>7. ListsTypeOK'
  BY <1>1, <1>4 DEF ListsInv, ListsTypeOK
<1>8. HeldOK'
  <2>1. ASSUME ~suspect' PROVE it \in In(list') \cup {NoNode} /\ current \in In(list') \cup {NoNode}
    <3>1. ~suspect /\ x # current /\ (Clearing => x # it)
      BY <1>1, <2>1
    <3>2. loop = "forEach" => it = current
      BY <1>1 DEF ListsInv, ForEachOK
    <3>3. x # it
      BY <1>6, <3>1, <3>2 DEF Walking
    <3>4. QED
      BY <1>4, <1>6, <3>1, <3>3 DEF ListsInv, HeldOK
  <2>2. it \in In(list') \cup dead' \cup {NoNode}
    BY <1>1, <1>4, <1>6 DEF ListsInv, HeldOK
  <2>3. In(list') \cap dead' = {}
    BY <1>1, <1>4 DEF ListsInv, HeldOK
  <2>4. QED
    BY <1>1, <1>4, <1>6, <2>1, <2>2, <2>3 DEF ListsInv, HeldOK, Walking, Clearing
<1>9. ForEachOK'
  <2>1. ASSUME loop = "forEach", NEW p \in 1 .. Len(list'), NEW j \in 1 .. Len(list'), list'[p] = it
        PROVE  list'[j] \in In(called) <=> j < p \/ j = p
    <3>1. p \in 1 .. Len(list) - 1 /\ j \in 1 .. Len(list) - 1
      BY <1>4
    <3>2. /\ list[old(p)] = it /\ list'[j] = list[old(j)]
          /\ old(p) \in 1 .. Len(list) /\ old(j) \in 1 .. Len(list)
      BY <1>4, <1>5, <2>1, <3>1
    <3>3. (old(j) < old(p) <=> j < p) /\ (old(j) = old(p) <=> j = p)
      BY <1>5, <3>1
    <3> HIDE DEF old
    <3>4. list[old(j)] \in In(called) <=> old(j) < old(p) \/ old(j) = old(p)
      BY <1>1, <2>1, <3>2 DEF ListsInv, ForEachOK
    <3>5. QED
      BY <3>2, <3>3, <3>4
  <2>2. loop = "forEach" => it = current
    BY <1>1 DEF ListsInv, ForEachOK
  <2>3. QED
    BY <1>1, <1>6, <2>1, <2>2 DEF ForEachOK, Walking, Clearing
<1>10. ClearOK'
  <2>1. CASE Clearing
    <3>1. /\ In(list') \cap In(called) \subseteq {current}
          /\ missed \subseteq In(list') \cup dead' /\ missed \cap In(called) = {}
          /\ it = NoNode => In(list') \subseteq missed \cup {current}
      BY <1>1, <1>4, <2>1 DEF ListsInv, ClearOK
    <3>2. ASSUME NEW p \in 1 .. Len(list'), NEW j \in 1 .. Len(list'), list'[p] = it
          PROVE  list'[j] \in missed \cup {current} <=> j < p
      <4>1. p \in 1 .. Len(list) - 1 /\ j \in 1 .. Len(list) - 1
        BY <1>4
      <4>2. /\ list[old(p)] = it /\ list'[j] = list[old(j)]
            /\ old(p) \in 1 .. Len(list) /\ old(j) \in 1 .. Len(list)
            /\ old(j) < old(p) <=> j < p
        BY <1>4, <1>5, <3>2, <4>1
      <4> HIDE DEF old
      <4>3. list[old(j)] \in missed \cup {current} <=> old(j) < old(p)
        BY <2>1, <4>2 DEF ListsInv, ClearOK
      <4>4. QED
        BY <4>2, <4>3
    <3>3. QED
      BY <1>1, <2>1, <3>1, <3>2 DEF ClearOK, Clearing
  <2>2. CASE ~Clearing
    BY <1>1, <1>6, <2>2 DEF ClearOK, Walking, Clearing
  <2>3. QED
    BY <2>1, <2>2
<1>11. QED
  BY <1>7, <1>8, <1>9, <1>10 DEF ListsInv

-----------------------------------------------------------------------------
(* The invariant, and what follows from it. *)
LEMMA AlwaysListsInv == InlineSpec => []ListsInv
<1>1. InlineInit => ListsInv
  <2> SUFFICES ASSUME InlineInit PROVE ListsInv
    OBVIOUS
  <2>1. /\ list = <<>> /\ called = <<>> /\ loop = "none" /\ it = NoNode /\ current = NoNode
        /\ dead = {} /\ missed = {} /\ suspect = FALSE
    BY DEF InlineInit, ListsInit
  <2>2. <<>> \in Seq(Nodes) /\ Len(<<>>) = 0
    OBVIOUS
  <2>3. ListsTypeOK
    BY <2>1, <2>2 DEF ListsTypeOK, Loops
  <2>4. HeldOK
    BY <2>1, <2>2 DEF HeldOK, Unique, Walking, Clearing, In
  <2>5. ForEachOK /\ ClearOK
    BY <2>1 DEF ForEachOK, ClearOK, Clearing
  <2>6. QED
    BY <2>3, <2>4, <2>5 DEF ListsInv
<1>2. ASSUME ListsInv, [InlineNext]_<<listVars, utilVars, extensionVars>> PROVE ListsInv'
  <2>1. CASE ListsNext
    BY <1>2, <2>1, StartStep, CallStep, CallReturnsStep, DeleteStep, DeleteReturnsStep,
       DereferenceStep, FinishStep, AddStep, RemoveStep DEF ListsNext, Kinds
  <2>2. CASE UNCHANGED listVars
    <3> USE <2>2 DEF listVars, loopVars
    <3>1. ListsTypeOK' /\ HeldOK'
      BY <1>2 DEF ListsInv, ListsTypeOK, HeldOK, Unique, Walking, Clearing
    <3>2. ForEachOK' /\ ClearOK'
      BY <1>2 DEF ListsInv, ForEachOK, ClearOK, Clearing
    <3>3. QED
      BY <3>1, <3>2 DEF ListsInv
  <2>3. QED
    BY <1>2, <2>1, <2>2 DEF InlineNext, ListsRest
<1>3. QED
  BY <1>1, <1>2, PTL DEF InlineSpec

(* A callback may add nodes to the list and take out others than the one   *)
(* the loop holds on to: no loop then uses an iterator that is gone.       *)
THEOREM UndefinedWhenRemoved == InlineSpec => []UndefinedIsSelfInflicted
<1>1. ListsInv => UndefinedIsSelfInflicted
  BY DEF ListsInv, HeldOK, UndefinedIsSelfInflicted
<1>2. QED
  BY <1>1, AlwaysListsInv, PTL

(* ForEach notifies a listener once for each time it is registered, and    *)
(* clearList and clearMap delete an entry once, whatever is added and      *)
(* removed on the way; who is registered again may be notified again.      *)
THEOREM CalledOnce == InlineSpec => []OncePerRegistration
<1>1. ASSUME ListsInv PROVE OncePerRegistration
  <2>1. called \in Seq(Nodes) /\ Unique(called)
    BY <1>1 DEF ListsInv, ListsTypeOK, HeldOK
  <2>2. QED
    BY <2>1 DEF Unique, OncePerRegistration
<1>2. QED
  BY <1>1, AlwaysListsInv, PTL

(* When ForEach is through, everyone in the list has been notified.        *)
THEOREM EverybodyNotified == InlineSpec => []NobodyForgotten
<1>1. ListsInv => NobodyForgotten
  BY DEF ListsInv, ForEachOK, NobodyForgotten
<1>2. QED
  BY <1>1, AlwaysListsInv, PTL

(* clearList leaves nothing that it has deleted in the list, and only what *)
(* a destructor has added too missed.                                        *)
THEOREM NothingLeftBehind == InlineSpec => []ClearedForGood
<1>1. ListsInv => ClearedForGood
  BY DEF ListsInv, ClearOK, ClearedForGood
<1>2. QED
  BY <1>1, AlwaysListsInv, PTL
=============================================================================
