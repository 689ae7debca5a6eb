--------------------------- MODULE GlooxUtilProofs ---------------------------
(***************************************************************************)
(* Proofs about GlooxUtil, for integers of any width and the bases up to   *)
(* ten: the loop of long2string writes digits of the base, which read back *)
(* as the value.                                                           *)
(***************************************************************************)
EXTENDS GlooxInline, SequenceTheorems, WellFoundedInduction, TLAPS

UtilTypeOK ==
    /\ given \in [value : Int, base : Nat]
    /\ value \in Int
    /\ negative \in BOOLEAN
    /\ output \in Seq(Int)
    /\ pc \in {"call", "sign", "loop", "done"}

(* A reader that starts with what is left of value, instead of zero, and   *)
(* goes on with the digits that are there, ends with the magnitude.        *)
ReadsOn(f, start, digits, b) ==
    /\ f \in [0 .. Len(digits) -> Int]
    /\ f[0] = start
    /\ \A i \in 1 .. Len(digits) : f[i] = b * f[i - 1] + DigitValue(digits[i])

DigitsOnly(digits, b) ==
    \A i \in 1 .. Len(digits) : digits[i] \in Zero .. Zero + 9 /\ DigitValue(digits[i]) < b

Continues == \E f : ReadsOn(f, value, output, given.base) /\ f[Len(output)] = Magnitude

LoopOK ==
    /\ pc \in {"call", "sign"} => output = <<>> /\ ~negative
    /\ pc = "sign" => value = given.value
    /\ pc = "loop" => given.base \in 2 .. 16
    /\ pc = "loop" /\ Supported => value > 0
    /\ pc = "done" /\ Supported => /\ value = 0
                                   /\ output[1] = Zero => given.value = 0
    /\ pc \in {"loop", "done"} /\ Supported =>
          Continues /\ DigitsOnly(output, given.base) /\ (negative <=> given.value < 0)

UtilInv == UtilTypeOK /\ LoopOK

-----------------------------------------------------------------------------
LEMMA LeastNumber ==
    ASSUME NEW T, T \subseteq Nat, T # {}
    PROVE  \E n \in T : \A m \in T : n <= m
<1>1. \E n \in T : \A m \in T : ~ (<<m, n>> \in OpToRel(<, Nat))
  BY WFMin, NatLessThanWellFounded, Zenon
<1>2. PICK n \in T : \A m \in T : ~ (<<m, n>> \in OpToRel(<, Nat))
  BY <1>1
<1>3. \A m \in T : ~ (m < n)
  BY <1>2, Zenon DEF OpToRel
<1>4. QED
  BY <1>3

(* What the digits mean is what any reader that starts with zero ends with.*)
LEMMA MeaningIs ==
    ASSUME NEW digits \in Seq(Int), NEW b \in Nat, NEW f, ReadsOn(f, 0, digits, b)
    PROVE  Meaning(digits, b) = f[Len(digits)]
<1> DEFINE n == Len(digits)
           Computes(g) == g = [i \in 0 .. n |-> IF i = 0 THEN 0 ELSE b * g[i - 1] + DigitValue(digits[i])]
           sum == CHOOSE g : Computes(g)
<1>1. Meaning(digits, b) = sum[n]
  BY DEF Meaning
<1>2. n \in Nat
  OBVIOUS
<1>3. Computes(f)
  <2>1. \A i \in 0 .. n : f[i] = IF i = 0 THEN 0 ELSE b * f[i - 1] + DigitValue(digits[i])
    BY <1>2 DEF ReadsOn
  <2>2. QED
    BY <2>1 DEF ReadsOn
<1>4. Computes(sum)
  <2> HIDE DEF Computes
  <2>1. QED
    BY <1>3
<1>5. \A i \in 0 .. n : sum[i] = f[i]
  <2> DEFINE T == {i \in 0 .. n : sum[i] # f[i]}
  <2> SUFFICES ASSUME T # {} PROVE FALSE
    OBVIOUS
  <2>1. T \subseteq Nat
    BY <1>2
  <2>2. PICK i \in T : \A j \in T : i <= j
    BY <2>1, LeastNumber
  <2>3. /\ sum[i] = IF i = 0 THEN 0 ELSE b * sum[i - 1] + DigitValue(digits[i])
        /\ f[i] = IF i = 0 THEN 0 ELSE b * f[i - 1] + DigitValue(digits[i])
    <3> HIDE DEF sum
    <3>1. QED
      BY <1>3, <1>4
  <2>4. i # 0 => sum[i - 1] = f[i - 1]
    <3> HIDE DEF sum
    <3>1. i \in 0 .. n /\ \A j \in 0 .. n : sum[j] # f[j] => i <= j
      BY <2>2
    <3>2. i # 0 => i - 1 \in 0 .. n /\ ~ (i <= i - 1)
      BY <1>2, <3>1
    <3>3. QED
      BY <3>1, <3>2
  <2>5. QED
    BY <2>3, <2>4
<1>6. QED
  BY <1>1, <1>2, <1>5

LEMMA QuotientIs ==
    ASSUME NEW v \in Int, NEW b \in 2 .. 16
    PROVE  /\ Quotient(v, b) \in Int /\ Remainder(v, b) \in Int
           /\ b * Quotient(v, b) + Remainder(v, b) = v
           /\ v >= 0 => Quotient(v, b) \in Nat
<1>1. Quotient(v, b) \in Int /\ (v >= 0 => Quotient(v, b) \in Nat)
  BY DEF Quotient
<1>2. QED
  BY <1>1 DEF Remainder

(* What the remainder is, and the character that is made of it.            *)
LEMMA DigitIs ==
    ASSUME NEW v \in Nat, NEW b \in 2 .. 10
    PROVE  /\ Remainder(v, b) \in 0 .. b - 1
           /\ Remainder(v, b) + Zero \in Zero .. Zero + 9
           /\ DigitValue(Remainder(v, b) + Zero) = Remainder(v, b)
<1>1. Remainder(v, b) = v - b * (v \div b)
  BY DEF Remainder, Quotient
<1>2. v - b * (v \div b) \in 0 .. b - 1
  OBVIOUS
<1>3. \A r \in 0 .. b - 1 : r + Zero \in Zero .. Zero + 9
  BY DEF Zero
<1>4. \A c \in Zero .. Zero + 9 : DigitValue(c) = c - Zero
  BY DEF DigitValue, Zero
<1>5. \A r \in 0 .. b - 1 : (r + Zero) - Zero = r
  BY DEF Zero
<1> DEFINE r == Remainder(v, b)
<1>6. r \in 0 .. b - 1
  BY <1>1, <1>2
<1> HIDE DEF r
<1>7. r + Zero \in Zero .. Zero + 9 /\ (r + Zero) - Zero = r
  BY <1>3, <1>5, <1>6
<1>8. DigitValue(r + Zero) = r
  <2> DEFINE c == r + Zero
  <2>1. c \in Zero .. Zero + 9 /\ c - Zero = r
    BY <1>7
  <2> HIDE DEF c
  <2>2. DigitValue(c) = r
    BY <1>4, <2>1
  <2>3. QED
    BY <2>2 DEF c
<1>9. QED
  BY <1>6, <1>7, <1>8 DEF r

LEMMA ZeroIs == Zero \in Int /\ DigitValue(Zero) = 0 /\ Zero \in Zero .. Zero + 9
BY DEF DigitValue, Zero

(* A round of the loop puts a digit in front: the reader that starts with  *)
(* the quotient has the old value after the first digit.                   *)
LEMMA OneMoreDigit ==
    ASSUME NEW digits \in Seq(Int), NEW b \in Nat, NEW f, NEW v, ReadsOn(f, v, digits, b),
           NEW q \in Int, NEW c \in Int, DigitValue(c) \in Int, b * q + DigitValue(c) = v
    PROVE  \E g : /\ ReadsOn(g, q, <<c>> \o digits, b)
                  /\ g[Len(<<c>> \o digits)] = f[Len(digits)]
<1> DEFINE n == Len(digits)
           more == <<c>> \o digits
           g == [i \in 0 .. n + 1 |-> IF i = 0 THEN q ELSE f[i - 1]]
<1>1. n \in Nat /\ f \in [0 .. n -> Int] /\ f[0] = v
  BY DEF ReadsOn
<1>2. Len(more) = n + 1 /\ more[1] = c /\ \A i \in 2 .. n + 1 : more[i] = digits[i - 1]
  <2>1. <<c>> \in Seq(Int) /\ Len(<<c>>) = 1 /\ <<c>>[1] = c
    OBVIOUS
  <2>2. /\ Len(more) = 1 + n
        /\ \A i \in 1 .. 1 + n : more[i] = IF i <= 1 THEN <<c>>[i] ELSE digits[i - 1]
    BY <2>1, ConcatProperties
  <2>3. QED
    BY <1>1, <2>1, <2>2
<1>3. g \in [0 .. n + 1 -> Int] /\ g[0] = q /\ g[n + 1] = f[n]
  BY <1>1
<1>4. \A i \in 1 .. n + 1 : g[i] = f[i - 1]
  BY <1>1
<1>5. ASSUME NEW i \in 1 .. n + 1 PROVE g[i] = b * g[i - 1] + DigitValue(more[i])
  <2> HIDE DEF g, more
  <2>1. CASE i = 1
    BY <1>1, <1>2, <1>3, <1>4, <2>1
  <2>2. CASE i # 1
    <3>1. i - 1 \in 1 .. n /\ i \in 2 .. n + 1 /\ i - 1 \in 1 .. n + 1
      BY <1>1, <2>2
    <3>2. f[i - 1] = b * f[i - 1 - 1] + DigitValue(digits[i - 1])
      BY <3>1 DEF ReadsOn
    <3>3. g[i] = f[i - 1] /\ g[i - 1] = f[i - 1 - 1] /\ more[i] = digits[i - 1]
      BY <1>2, <1>4, <3>1
    <3>4. QED
      BY <3>2, <3>3
  <2>3. QED
    BY <2>1, <2>2
<1>6. ReadsOn(g, q, more, b) /\ g[Len(more)] = f[n]
  <2> HIDE DEF g, more
  <2>1. QED
    BY <1>2, <1>3, <1>5 DEF ReadsOn
<1>7. QED
  BY <1>6

LEMMA OneDigitMore ==
    ASSUME NEW digits \in Seq(Int), NEW b \in Nat, DigitsOnly(digits, b),
           NEW c \in Int, c \in Zero .. Zero + 9, DigitValue(c) < b
    PROVE  DigitsOnly(<<c>> \o digits, b)
<1> DEFINE n == Len(digits)
           more == <<c>> \o digits
<1>1. <<c>> \in Seq(Int) /\ Len(<<c>>) = 1 /\ <<c>>[1] = c /\ n \in Nat
  OBVIOUS
<1>2. /\ Len(more) = 1 + n
      /\ \A i \in 1 .. 1 + n : more[i] = IF i <= 1 THEN <<c>>[i] ELSE digits[i - 1]
  BY <1>1, ConcatProperties
<1> HIDE DEF more
<1>3. \A i \in 1 .. 1 + n : (i = 1 /\ i <= 1) \/ (~ (i <= 1) /\ i - 1 \in 1 .. n)
  BY <1>1
<1>4. \A i \in 1 .. 1 + n : more[i] = c \/ \E j \in 1 .. n : more[i] = digits[j]
  BY <1>1, <1>2, <1>3
<1>5. DigitsOnly(more, b)
  BY <1>2, <1>4 DEF DigitsOnly
<1>6. QED
  BY <1>5 DEF more

-----------------------------------------------------------------------------
LEMMA UtilStep ==
    ASSUME UtilInv, UtilNext PROVE UtilInv'
<1>0. UtilTypeOK /\ LoopOK /\ value \in Int /\ given.value \in Int /\ given.base \in Nat /\ output \in Seq(Int)
  BY DEF UtilInv, UtilTypeOK
<1>1. ASSUME NEW v \in Long, NEW b \in Bases, long2string(v, b) PROVE UtilInv'
  <2>1. v \in Int /\ b \in Nat
    BY BasesAssumption DEF Long
  <2>2. UtilTypeOK'
    BY <1>0, <1>1, <2>1 DEF long2string, UtilTypeOK
  <2>3. LoopOK'
    BY <1>0, <1>1 DEF long2string, LoopOK
  <2>4. QED
    BY <2>2, <2>3 DEF UtilInv
<1>2. CASE Shortcut
  <2>1. /\ pc = "sign" /\ pc' = "done" /\ output' = <<Zero>> /\ UNCHANGED <<given, value, negative>>
        /\ given.base \notin 2 .. 16 \/ value = 0
    BY <1>2 DEF Shortcut
  <2>2. UtilTypeOK'
    BY <1>0, <2>1, ZeroIs DEF UtilTypeOK
  <2>3. Supported' => value = 0 /\ given.value = 0 /\ ~negative
    BY <1>0, <2>1 DEF Supported, LoopOK
  <2>4. value = 0 /\ given.value = 0 => Continues'
    <3> DEFINE f == [i \in 0 .. 1 |-> 0]
    <3>1. Len(output') = 1 /\ DigitValue(output'[1]) = 0
      BY <2>1, ZeroIs
    <3>2. f \in [0 .. 1 -> Int] /\ f[0] = 0 /\ f[1] = 0
      OBVIOUS
    <3>3. given.base * 0 + 0 = 0
      BY <1>0
    <3>4. ReadsOn(f, 0, output', given.base) /\ f[Len(output')] = 0
      BY <3>1, <3>2, <3>3 DEF ReadsOn
    <3>5. given.value = 0 => Magnitude' = 0
      BY <2>1 DEF Magnitude
    <3>6. QED
      BY <2>1, <3>4, <3>5 DEF Continues
  <2>5. given.base \in 2 .. 10 => DigitsOnly(output', given.base)
    BY <2>1, ZeroIs DEF DigitsOnly
  <2>6. Supported' => given.base \in 2 .. 10
    BY <2>1 DEF Supported
  <2>7. LoopOK'
    BY <1>0, <2>1, <2>3, <2>4, <2>5, <2>6 DEF LoopOK
  <2>8. QED
    BY <2>2, <2>7 DEF UtilInv
<1>3. CASE Sign
  <2>1. /\ pc = "sign" /\ pc' = "loop" /\ UNCHANGED <<given, output>>
        /\ value = given.value /\ output = <<>> /\ value # 0
        /\ given.base \in 2 .. 16
        /\ negative' = (value < 0)
        /\ value' \in IF value < 0 THEN Negations(value) ELSE {value}
    BY <1>0, <1>3 DEF Sign, LoopOK
  <2>2. UtilTypeOK'
    BY <1>0, <2>1 DEF UtilTypeOK, Negations
  <2>3. Supported => value' = Magnitude /\ value' > 0
    BY <1>0, <2>1 DEF Supported, Negations, Magnitude
  <2>4. Supported => Continues'
    <3> DEFINE f == [i \in 0 .. 0 |-> value']
    <3>1. value' \in Int
      BY <2>2 DEF UtilTypeOK
    <3>2. Len(output') = 0 /\ 0 .. 0 = {0} /\ 1 .. 0 = {}
      BY <2>1
    <3>3. ReadsOn(f, value', output', given.base) /\ f[Len(output')] = value'
      BY <3>1, <3>2 DEF ReadsOn
    <3>4. QED
      BY <2>1, <2>3, <3>3 DEF Continues, Magnitude
  <2>5. DigitsOnly(output', given'.base)
    <3>1. Len(output') = 0 /\ 1 .. 0 = {}
      BY <2>1
    <3>2. QED
      BY <3>1 DEF DigitsOnly
  <2>6. LoopOK'
    BY <2>1, <2>3, <2>4, <2>5 DEF LoopOK, Supported
  <2>7. QED
    BY <2>2, <2>6 DEF UtilInv
<1>4. CASE Digit
  <2> DEFINE q == Quotient(value, given.base)
             r == Remainder(value, given.base)
  <2>1. /\ pc = "loop" /\ UNCHANGED <<given, negative>>
        /\ output' = <<r + Zero>> \o output /\ value' = q
        /\ pc' = IF q > 0 THEN "loop" ELSE "done"
    BY <1>4 DEF Digit
  <2>2. given.base \in 2 .. 16
    BY <1>0, <2>1 DEF LoopOK
  <2>3. q \in Int /\ r \in Int /\ given.base * q + r = value /\ (value >= 0 => q \in Nat)
    BY <1>0, <2>2, QuotientIs
  <2>4. UtilTypeOK'
    <3> HIDE DEF q, r
    <3>1. output' \in Seq(Int)
      BY <1>0, <2>1, <2>3, ZeroIs
    <3>2. QED
      BY <1>0, <2>1, <2>3, <3>1 DEF UtilTypeOK
  <2>5. Supported => value > 0 /\ Continues /\ DigitsOnly(output, given.base) /\ (negative <=> given.value < 0)
    BY <1>0, <2>1 DEF LoopOK
  <2>6. Supported => /\ r \in 0 .. given.base - 1
                     /\ r + Zero \in Zero .. Zero + 9 /\ DigitValue(r + Zero) = r
    <3>1. Supported => value \in Nat /\ given.base \in 2 .. 10
      BY <1>0, <2>5 DEF Supported
    <3>2. QED
      BY <3>1, DigitIs
  <2> HIDE DEF q, r
  <2>7. Supported => q \in Nat
    BY <1>0, <2>3, <2>5
  <2>8. Supported => Continues' /\ DigitsOnly(output', given.base)
    <3> SUFFICES ASSUME Supported PROVE Continues' /\ DigitsOnly(output', given.base)
      OBVIOUS
    <3>1. PICK f : ReadsOn(f, value, output, given.base) /\ f[Len(output)] = Magnitude
      BY <2>5 DEF Continues
    <3> DEFINE c == r + Zero
    <3>2. /\ c \in Int /\ DigitValue(c) \in Int /\ given.base * q + DigitValue(c) = value
          /\ c \in Zero .. Zero + 9 /\ DigitValue(c) < given.base /\ output' = <<c>> \o output
      BY <1>0, <2>1, <2>3, <2>6, ZeroIs
    <3> HIDE DEF c
    <3>3. /\ \E g : /\ ReadsOn(g, q, <<c>> \o output, given.base)
                    /\ g[Len(<<c>> \o output)] = f[Len(output)]
          /\ DigitsOnly(<<c>> \o output, given.base)
      <4> DEFINE b == given.base
      <4>1. b \in Nat /\ q \in Int /\ output \in Seq(Int) /\ ReadsOn(f, value, output, b)
        BY <1>0, <2>3, <3>1
      <4>2. /\ c \in Int /\ DigitValue(c) \in Int /\ b * q + DigitValue(c) = value
            /\ c \in Zero .. Zero + 9 /\ DigitValue(c) < b /\ DigitsOnly(output, b)
        BY <2>5, <3>2
      <4> HIDE DEF b
      <4>3. \E g : ReadsOn(g, q, <<c>> \o output, b) /\ g[Len(<<c>> \o output)] = f[Len(output)]
        BY <4>1, <4>2, OneMoreDigit
      <4>4. DigitsOnly(<<c>> \o output, b)
        BY <4>1, <4>2, OneDigitMore
      <4>5. QED
        BY <4>3, <4>4 DEF b
    <3>4. Magnitude' = Magnitude
      BY <2>1 DEF Magnitude
    <3>5. QED
      BY <2>1, <3>1, <3>2, <3>3, <3>4 DEF Continues
  <2>9. Supported /\ ~ (q > 0) => q = 0 /\ output'[1] # Zero
    <3> SUFFICES ASSUME Supported, ~ (q > 0) PROVE q = 0 /\ output'[1] # Zero
      OBVIOUS
    <3>1. q = 0
      BY <2>7
    <3>2. r > 0
      BY <1>0, <2>3, <2>5, <3>1
    <3>3. output'[1] = r + Zero
      BY <1>0, <2>1, <2>3, ZeroIs
    <3>4. QED
      BY <2>3, <3>1, <3>2, <3>3, ZeroIs
  <2>10. LoopOK'
    BY <2>1, <2>2, <2>5, <2>8, <2>9 DEF LoopOK, Supported
  <2>11. QED
    BY <2>4, <2>10 DEF UtilInv
<1>5. QED
  BY <1>1, <1>2, <1>3, <1>4 DEF UtilNext

(* For every width of a long int, every value of it and every base up to   *)
(* ten: long2string writes digits of the base, which read back as the      *)
(* value, without a leading zero.                                          *)
THEOREM LoopReadsBack == InlineSpec => []ReadsBack
<1>1. InlineInit => UtilInv
  <2> SUFFICES ASSUME InlineInit PROVE UtilInv
    OBVIOUS
  <2>1. UtilTypeOK
    <3>1. given = [value |-> 0, base |-> 10] /\ output = <<>>
      BY DEF InlineInit, UtilInit
    <3>2. given \in [value : Int, base : Nat] /\ output \in Seq(Int)
      BY <3>1
    <3>3. QED
      BY <3>2 DEF InlineInit, UtilInit, UtilTypeOK
  <2>2. LoopOK
    BY DEF InlineInit, UtilInit, LoopOK
  <2>3. QED
    BY <2>1, <2>2 DEF UtilInv
<1>2. ASSUME UtilInv, [InlineNext]_<<listVars, utilVars, extensionVars>> PROVE UtilInv'
  <2>1. CASE UtilNext
    BY <1>2, <2>1, UtilStep
  <2>2. CASE UNCHANGED utilVars
    BY <1>2, <2>2 DEF UtilInv, UtilTypeOK, LoopOK, Supported, Continues, DigitsOnly, Magnitude, utilVars
  <2>3. QED
    BY <1>2, <2>1, <2>2 DEF InlineNext, UtilRests
<1>3. ASSUME UtilInv PROVE ReadsBack
  <2> SUFFICES ASSUME pc = "done", Supported PROVE Reads(given.base)
    BY DEF ReadsBack
  <2>1. /\ output \in Seq(Int) /\ given.base \in Nat /\ value = 0 /\ Continues
        /\ output[1] = Zero => given.value = 0
        /\ negative <=> given.value < 0
        /\ \A i \in DOMAIN output : DigitValue(output[i]) < given.base
    BY <1>3 DEF UtilInv, UtilTypeOK, LoopOK, DigitsOnly
  <2>2. PICK f : ReadsOn(f, 0, output, given.base) /\ f[Len(output)] = Magnitude
    BY <2>1 DEF Continues
  <2>3. Meaning(output, given.base) = Magnitude
    BY <2>1, <2>2, MeaningIs
  <2>4. QED
    BY <2>1, <2>3 DEF Reads
<1>4. QED
  BY <1>1, <1>2, <1>3, PTL DEF InlineSpec
=============================================================================
