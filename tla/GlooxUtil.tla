------------------------------ MODULE GlooxUtil ------------------------------
(***************************************************************************)
(* util::long2string (src/include/gloox/util.h), which linklocalmanager.h  *)
(* uses through int2string: the loop on a signed integer of Width bits.    *)
(***************************************************************************)
EXTENDS Integers, Sequences

CONSTANTS
    Width,   \* bits of a long int
    Bases    \* the bases it is called with

ASSUME WidthAssumption == Width \in Nat \ {0, 1}
ASSUME BasesAssumption == Bases \subseteq Nat

Largest == 2 ^ (Width - 1) - 1
Smallest == -(2 ^ (Width - 1))
Long == Smallest .. Largest

Zero == 48   \* the code of '0'

VARIABLES
    given,    \* the arguments of the call
    value,    \* the parameter, which the loop consumes
    negative, \* the string sign is "-"
    output,   \* the characters so far, by their codes
    pc        \* "call", "sign", "loop" or "done"

utilVars == <<given, value, negative, output, pc>>

UtilInit ==
    /\ given = [value |-> 0, base |-> 10]
    /\ value = 0
    /\ negative = FALSE
    /\ output = <<>>
    /\ pc = "call"

long2string(v, b) ==
    /\ pc = "call"
    /\ given' = [value |-> v, base |-> b]
    /\ value' = v
    /\ pc' = "sign"
    /\ UNCHANGED <<negative, output>>

(* An unsupported base gives "0", as zero does. *)
Shortcut ==
    /\ pc = "sign"
    /\ given.base \notin 2 .. 16 \/ value = 0
    /\ output' = <<Zero>>
    /\ pc' = "done"
    /\ UNCHANGED <<given, value, negative>>

(* -value is undefined when value is the smallest long int: it stays what  *)
(* it is, or the loop is compiled for a value that is not negative and     *)
(* reads the same bits without a sign.                                     *)
Negations(v) == IF v = Smallest THEN {v, -v} ELSE {-v}

Sign ==
    /\ pc = "sign"
    /\ given.base \in 2 .. 16 /\ value # 0
    /\ negative' = (value < 0)
    /\ value' \in IF value < 0 THEN Negations(value) ELSE {value}
    /\ pc' = "loop"
    /\ UNCHANGED <<given, output>>

(* % and / of C round towards zero. *)
Quotient(v, b) == IF v < 0 THEN -((-v) \div b) ELSE v \div b
Remainder(v, b) == v - b * Quotient(v, b)

(* Mutant of Digit: the loop stops a digit early. *)
DigitMissing ==
    /\ pc = "loop"
    /\ output' = <<Remainder(value, given.base) + Zero>> \o output
    /\ value' = Quotient(value, given.base)
    /\ pc' = IF value' > 1 THEN "loop" ELSE "done"
    /\ UNCHANGED <<given, negative>>

(* One round: a character in front, which for a remainder of ten and more *)
(* is one of those that follow '9', and value /= base.                     *)
Digit ==
    /\ pc = "loop"
    /\ output' = <<Remainder(value, given.base) + Zero>> \o output
    /\ value' = Quotient(value, given.base)
    /\ pc' = IF value' > 0 THEN "loop" ELSE "done"
    /\ UNCHANGED <<given, negative>>

UtilNext ==
    \/ \E v \in Long, b \in Bases : long2string(v, b)
    \/ Shortcut \/ Sign \/ Digit

-----------------------------------------------------------------------------
(* Properties.                                                             *)

(* What a character is worth as a digit: 0 to 9, and A to F or a to f.     *)
NoDigit == 16
DigitValue(c) ==
    CASE c \in Zero .. Zero + 9 -> c - Zero
      [] c \in 65 .. 70 -> c - 55
      [] c \in 97 .. 102 -> c - 87
      [] OTHER -> NoDigit

(* What a string means in base b. *)
Meaning(digits, b) ==
    LET sum[i \in 0 .. Len(digits)] ==
            IF i = 0 THEN 0 ELSE b * sum[i - 1] + DigitValue(digits[i])
    IN  sum[Len(digits)]

Magnitude == IF given.value < 0 THEN -given.value ELSE given.value

Reads(b) ==
    /\ \A i \in DOMAIN output : DigitValue(output[i]) < b
    /\ Meaning(output, b) = Magnitude
    /\ negative <=> given.value < 0
    /\ output[1] = Zero => given.value = 0

(* In the bases up to ten the string consists of digits of the base and    *)
(* reads back as the value, without a leading zero and for both signs;     *)
(* only the smallest long int is excepted, whose negation overflows.       *)
Supported == given.base \in 2 .. 10 /\ given.value # Smallest
ReadsBack == pc = "done" /\ Supported => Reads(given.base)

(* It does so in every base that the test at the beginning lets through,   *)
(* as "converts a long int to its string representation" with "base: the   *)
(* integer's base" (util.h:236-239) says.                                  *)
ReadsBackInEveryBase ==
    pc = "done" /\ given.base \in 2 .. 16 /\ given.value # Smallest => Reads(given.base)
=============================================================================
