------------------------------ MODULE MicroUsd ------------------------------
(* usdToMicros and microsToUsdString: a decimal text to an integer of its    *)
(* smallest unit and back, digit by digit.  The number of digits of the unit *)
(* is a parameter (six in the code).                                         *)
EXTENDS Integers, Sequences

CONSTANTS UnitDigits,  \* digits of the unit after the point
          MaxDigits,   \* digits of an input after the point (bound)
          IntParts, Digits

ASSUME MoneyAssumption ==
  /\ UnitDigits \in Nat /\ MaxDigits \in Nat /\ UnitDigits <= MaxDigits
  /\ IntParts \subseteq Nat /\ Digits \subseteq 0 .. 9

VARIABLES
  usd,     \* the input: sign, integer part, digits of the fraction
  micros   \* what usdToMicros gave for it
moneyVars == <<usd, micros>>

TenTo[n \in Nat] == IF n = 0 THEN 1 ELSE 10 * TenTo[n - 1]

PerUsd == TenTo[UnitDigits]
Input  == [negative : BOOLEAN, int : IntParts,
           frac : UNION {[1 .. n -> Digits] : n \in 0 .. MaxDigits}]

\* The number that a list of digits writes, its first digits read first.
Value(ds) ==
  LET upTo[i \in 0 .. Len(ds)] == IF i = 0 THEN 0 ELSE 10 * upTo[i - 1] + ds[i]
  IN upTo[Len(ds)]

Zeros(n)   == [i \in 1 .. n |-> 0]
Padded(in) == SubSeq(in.frac \o Zeros(UnitDigits + 1), 1, UnitDigits + 1)

\* The digit after the unit decides; a fraction that is full carries over.
MutantCarry(frac) == IF frac = PerUsd - 1 THEN [int |-> 0, frac |-> 0] ELSE [int |-> 0, frac |-> frac + 1]
Carry(frac) ==
  IF frac + 1 = PerUsd THEN [int |-> 1, frac |-> 0] ELSE [int |-> 0, frac |-> frac + 1]

UsdToMicros(in) ==
  LET digits == Padded(in)
      cut    == Value(SubSeq(digits, 1, UnitDigits))
      part   == IF digits[UnitDigits + 1] >= 5 THEN Carry(cut) ELSE [int |-> 0, frac |-> cut]
      sum    == (in.int + part.int) * PerUsd + part.frac
  IN IF in.negative THEN -sum ELSE sum

\* microsToUsdString, which writes every digit of the unit
UsdOf(m) ==
  LET abs == IF m < 0 THEN -m ELSE m IN
  [negative |-> m < 0, int |-> abs \div PerUsd,
   frac |-> [i \in 1 .. UnitDigits |-> ((abs % PerUsd) \div TenTo[UnitDigits - i]) % 10]]

MoneyInit == usd \in Input /\ micros = 0

\* A value enters the ledger.
Convert == micros' = UsdToMicros(usd) /\ UNCHANGED usd

\* Its text is read again.
Reread == micros # 0 /\ usd' = UsdOf(micros) /\ UNCHANGED micros

MoneyNext == Convert \/ Reread

MoneySpec == MoneyInit /\ [][MoneyNext]_moneyVars

-----------------------------------------------------------------------------
\* The input in units of its own last digit.
Exact(in) ==
  LET value == in.int * TenTo[MaxDigits] + Value(in.frac) * TenTo[MaxDigits - Len(in.frac)]
  IN IF in.negative THEN -value ELSE value

MoneyTypeOK ==
  /\ micros \in Int
  /\ usd.negative \in BOOLEAN /\ usd.int \in Nat /\ \A i \in DOMAIN usd.frac : usd.frac[i] \in 0 .. 9

\* The conversion is the nearest integer to the decimal value, a tie going away
\* from zero, for every length of the fraction, across the carry into the integer
\* part and on either side of zero; and an amount that was written out is read
\* back as it was.
MicrosExact ==
  LET scale == TenTo[MaxDigits - UnitDigits]
      off   == UsdToMicros(usd) * scale - Exact(usd)
  IN /\ -scale <= 2 * off /\ 2 * off <= scale
     /\ 2 * off = scale => ~usd.negative
     /\ 2 * off = -scale => usd.negative
     /\ UsdToMicros(UsdOf(micros)) = micros
=============================================================================
