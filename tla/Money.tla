-------------------------------- MODULE Money --------------------------------
(***************************************************************************)
(* Money: an amount in hundredths with a currency.  A text is a sequence   *)
(* of characters.                                                          *)
(***************************************************************************)
EXTENDS MachineInteger, SequencesExt, FiniteSetsExt

CONSTANT Currencies

Amounts == MachineIntegers

Results == [error : {"none", "invalid", "mismatch", "overflow"}, amount : Amounts]

Ok(n)      == [error |-> "none", amount |-> Signed(n)]
Fails(why) == [error |-> why, amount |-> 0]

-----------------------------------------------------------------------------
(* Parse and String.                                                       *)

Space == " "
Point == "."
Minus == "-"

Numerals == <<"0", "1", "2", "3", "4", "5", "6", "7", "8", "9">>
Digits   == Range(Numerals)

DigitValue(d) == CHOOSE i \in 0 .. 9 : Numerals[i + 1] = d

Number(digits) ==
    LET value[n \in 0 .. Len(digits)] ==
          IF n = 0 THEN 0 ELSE 10 * value[n - 1] + DigitValue(digits[n])
    IN  value[Len(digits)]

TrimSpace(text) ==
    LET inside == {i \in DOMAIN text : text[i] # Space} IN
    IF inside = {} THEN << >> ELSE SubSeq(text, Min(inside), Max(inside))

Points(text) == {i \in DOMAIN text : text[i] = Point}

Whole(text) ==
    IF Points(text) = {} THEN text ELSE SubSeq(text, 1, Min(Points(text)) - 1)

Fraction(text) ==
    IF Points(text) = {} THEN << >> ELSE SubSeq(text, Min(Points(text)) + 1, Len(text))

\* Digits, then at most a point and two more digits; no sign and no exponent.
WellFormed(text) ==
    /\ Cardinality(Points(text)) <= 1
    /\ Whole(text) # << >>
    /\ Len(Fraction(text)) <= 2
    /\ Range(Whole(text)) \cup Range(Fraction(text)) \subseteq Digits

Hundredths(text) ==
    CASE Len(Fraction(text)) = 0 -> <<"0", "0">>
      [] Len(Fraction(text)) = 1 -> Append(Fraction(text), "0")
      [] OTHER -> Fraction(text)

\* Fault: the hundredths of the greatest amount are forgotten.
WholeTooLarge(text) == Number(Whole(text)) > MaxInt \div 100

TooLarge(text) ==
    \/ Number(Whole(text)) > MaxInt
    \/ Number(Whole(text)) > MaxInt \div 100
    \/ /\ Number(Whole(text)) = MaxInt \div 100
       /\ Number(Hundredths(text)) > MaxInt % 100

Parse(amount) ==
    LET text == TrimSpace(amount) IN
    IF ~WellFormed(text) THEN Fails("invalid")
    ELSE IF TooLarge(text) THEN Fails("overflow")
    ELSE Ok(Number(Whole(text)) * 100 + Number(Hundredths(text)))

Numeral(n) == Numerals[n + 1]

NumberText(number) ==
    LET text[n \in 0 .. number] ==
          IF n < 10 THEN <<Numeral(n)>>
          ELSE Append(text[n \div 10], Numeral(n % 10))
    IN  text[number]

\* Fault: hundredths below ten lose their zero.
StringUnpadded(amount) ==
    LET value == IF amount < 0 THEN -amount ELSE amount
        sign  == IF amount < 0 THEN <<Minus>> ELSE << >>
    IN  sign \o NumberText(value \div 100) \o <<Point>> \o NumberText(value % 100)

\* The least amount, which has no opposite, is written out in the code.
String(amount) ==
    LET value == IF amount < 0 THEN -amount ELSE amount
        sign  == IF amount < 0 THEN <<Minus>> ELSE << >>
    IN  sign \o NumberText(value \div 100)
             \o <<Point, Numeral((value % 100) \div 10), Numeral(value % 10)>>

-----------------------------------------------------------------------------
(* Arithmetic.                                                             *)

\* Fault: a sum that changes sign goes unnoticed.
SumUnchecked(m, n) == Ok(m + n)

Sum(m, n) ==
    IF \/ n > 0 /\ m > MaxInt - n
       \/ n < 0 /\ m < MinInt - n
    THEN Fails("overflow")
    ELSE Ok(m + n)

Add(m, n) == IF m.currency # n.currency THEN Fails("mismatch") ELSE Sum(m.amount, n.amount)

\* The least amount cannot be subtracted, whatever it is subtracted from.
Sub(m, n) ==
    IF m.currency # n.currency THEN Fails("mismatch")
    ELSE IF n.amount = MinInt THEN Fails("overflow")
    ELSE Sum(m.amount, -n.amount)

Negate(m) == IF m.amount = MinInt THEN Fails("overflow") ELSE Ok(-m.amount)

Compare(m, n) ==
    IF m.currency # n.currency THEN Fails("mismatch")
    ELSE Ok(IF m.amount < n.amount THEN -1 ELSE IF m.amount > n.amount THEN 1 ELSE 0)
=============================================================================
