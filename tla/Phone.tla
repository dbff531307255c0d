------------------------------- MODULE Phone -------------------------------
(***************************************************************************)
(* phone.parse.  A text is a sequence of characters: 0 to 9, a digit of    *)
(* another script (Python's \d matches it, and no area code contains it),  *)
(* and anything else.  A number is its ten national digits.                *)
(***************************************************************************)
EXTENDS Integers, Sequences

CONSTANTS
    None,           \* Python's None
    CanadianNpas    \* CANADIAN_NPAS

OtherDigit == 10
NoDigit == 11

\* re.sub(r"\D+", ""): the digits among the first n characters, then all of them.
DigitsAmong(raw) ==
    LET kept[n \in 0 .. Len(raw)] ==
            IF n = 0 THEN <<>>
            ELSE IF raw[n] = NoDigit THEN kept[n - 1] ELSE Append(kept[n - 1], raw[n])
    IN  kept
Digits(raw) == DigitsAmong(raw)[Len(raw)]

\* A fault of the code: the country code is never taken off.
NationalAsGiven(digits) == digits
National(digits) == IF Len(digits) = 11 /\ digits[1] = 1 THEN Tail(digits) ELSE digits

Parse(raw) == LET digits == National(Digits(raw))
              IN  IF Len(digits) = 10 THEN digits ELSE None

\* The fields of ParsedPhone: "+1" and the digits; npa and nxx, which together
\* are the key of the exchanges table; and the membership of npa.
E164(number) == <<NoDigit, 1>> \o number
Exchange(number) == SubSeq(number, 1, 6)
IsCanadian(number) == SubSeq(number, 1, 3) \in CanadianNpas
=============================================================================
