-------------------------------- MODULE Units --------------------------------
(***************************************************************************)
(* Amounts of ether as texts: string_val_to_bytes and bytes_to_string_val  *)
(* of rpc_api.c, which in3_toWei and in3_fromWei use.  A text is a number  *)
(* with or without a dot, and a unit behind it or given apart.             *)
(***************************************************************************)
EXTENDS Integers, Sequences, SequencesExt

CONSTANTS Base,      \* of the digits: 10
          LongText,  \* from this length on a number is not read with atoll: 20
          Units,     \* UNITS: from names to their exponents
          UnitLen,   \* the length of a name
          NoUnit

Invalid == -1

Value(ds) == FoldLeft(LAMBDA n, d : n * Base + d, 0, ds)
DigitCount(n) == CHOOSE k \in 1..n + 1 : n < Base^k /\ (k = 1 \/ n >= Base^(k - 1))

(* encode(ENC_DECIMAL) *)
Decimal(n) == [i \in 1..DigitCount(n) |-> (n \div Base^(DigitCount(n) - i)) % Base]

Text(whole, dot, frac, unit) == [whole |-> whole, dot |-> dot, frac |-> frac, unit |-> unit]
LengthOf(t) == Len(t.whole) + Len(t.frac) + (IF t.dot THEN 1 ELSE 0) + (IF t.unit = NoUnit THEN 0 ELSE UnitLen)

-----------------------------------------------------------------------------
(* The number without its unit is copied with strncpy, which does not end it: *)
(* atoll may read one more digit, unless it stops at the dot.                 *)
Atoll(t) ==
  {Value(t.whole)} \cup (IF t.unit = NoUnit \/ t.dot THEN {} ELSE {Value(Append(t.whole, d)) : d \in 0..Base - 1})

(* Mutant: all the digits behind the dot are taken. *)
AllDigits(t, exp) == (IF t.dot /\ t.whole = <<0>> THEN <<>> ELSE t.whole) \o [i \in 1..exp |-> IF i <= Len(t.frac) THEN t.frac[i] ELSE 0]
                       \o SubSeq(t.frac, exp + 1, Len(t.frac))

(* The text with the dot moved to the right. *)
Shifted(t, exp) == (IF t.dot /\ t.whole = <<0>> THEN <<>> ELSE t.whole) \o [i \in 1..exp |-> IF i <= Len(t.frac) THEN t.frac[i] ELSE 0]

string_val_to_bytes(t, given) ==
  LET unit == IF given = NoUnit THEN t.unit ELSE given
      exp == IF unit = NoUnit THEN 0 ELSE Units[unit]
  IN  CASE t = Text(<<0>>, FALSE, <<>>, NoUnit) -> {0}
        [] unit # NoUnit /\ unit \notin DOMAIN Units -> {Invalid}
        [] OTHER -> IF exp = 0 /\ LengthOf(t) < LongText THEN Atoll(t) ELSE {Value(Shifted(t, exp))}

in3_toWei(t, unit) == IF unit = NoUnit THEN {Invalid} ELSE string_val_to_bytes(t, unit)

-----------------------------------------------------------------------------
Dot == Base
Zeros(n) == [i \in 1..n |-> 0]

WithDot(ds, exp) ==
  LET p == IF Len(ds) <= exp THEN Zeros(exp - Len(ds) + 1) \o ds ELSE ds
  IN  SubSeq(p, 1, Len(p) - exp) \o <<Dot>> \o SubSeq(p, Len(p) - exp + 1, Len(p))

(* Mutant: the dot does not end the loop. *)
TrimmedOn(s) ==
  LET kept == CHOOSE k \in 0..Len(s) : (k = 0 \/ s[k] \notin {0, Dot}) /\ \A i \in k + 1..Len(s) : s[i] \in {0, Dot}
  IN  SubSeq(s, 1, kept)

(* Zeros at the end, and the dot when nothing is left behind it. *)
Trimmed(s) ==
  LET kept == CHOOSE k \in 1..Len(s) : s[k] # 0 /\ \A i \in k + 1..Len(s) : s[i] = 0
  IN  SubSeq(s, 1, IF s[kept] = Dot THEN kept - 1 ELSE kept)

(* All digits when there are -1; without an exponent the last one is cut off  *)
(* then, as it is for no digits.                                              *)
bytes_to_string_val(n, exp, digits) ==
  LET s == IF exp = 0 THEN Decimal(n) ELSE WithDot(Decimal(n), exp)
  IN  CASE digits = -1 /\ exp > 0 -> Trimmed(s)
        [] digits = 0 -> SubSeq(s, 1, Len(s) - exp - 1)
        [] OTHER -> IF digits < exp THEN SubSeq(s, 1, Len(s) - exp + digits) ELSE s

in3_fromWei(n, unit, digits) == IF unit \notin DOMAIN Units THEN <<Invalid>> ELSE bytes_to_string_val(n, Units[unit], digits)

-----------------------------------------------------------------------------
Parsed(s) ==
  IF \E i \in DOMAIN s : s[i] = Dot
  THEN LET i == CHOOSE j \in DOMAIN s : s[j] = Dot IN Text(SubSeq(s, 1, i - 1), TRUE, SubSeq(s, i + 1, Len(s)), NoUnit)
  ELSE Text(s, FALSE, <<>>, NoUnit)

(* What in3_fromWei writes in3_toWei reads: all of it, or cut off after the   *)
(* digits the user wants, in every unit but wei.                              *)
WeiRoundTrips(n, unit, digits) ==
  LET exp == Units[unit]
      kept == IF digits \in 0..exp THEN n - (n % Base^(exp - digits)) ELSE n
  IN  exp > 0 => in3_toWei(Parsed(in3_fromWei(n, unit, digits)), unit) = {kept}

(* A text is worth its number times the unit, rounded down. *)
TextIsWorth(t, unit) ==
  LET exp == IF unit = NoUnit THEN IF t.unit = NoUnit THEN 0 ELSE Units[t.unit] ELSE Units[unit]
  IN  exp > 0 \/ t.unit = NoUnit \/ t.dot =>
        string_val_to_bytes(t, unit) = {Value(t.whole) * Base^exp + (Value(t.frac) * Base^exp) \div Base^Len(t.frac)}
=============================================================================
