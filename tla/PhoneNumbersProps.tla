-------------------------- MODULE PhoneNumbersProps --------------------------
(* What normalisation must satisfy, over every short spelling. *)
EXTENDS PhoneNumbers

CONSTANTS
  Digits, MaxTyped,     \* the digits that occur, and how many are typed
  NationalLength        \* of a national number: 10

\* A national number behind its country code is of a length that is accepted.
ASSUME NumbersAssumption ==
  /\ Digits \subseteq Nat /\ MaxTyped \in Nat /\ NationalLength \in Nat \ {0}
  /\ MinPlausible <= Len(CountryCode) + NationalLength
  /\ Len(CountryCode) + NationalLength <= MaxDigits

VARIABLE typed

NumbersInit == typed = [plus |-> FALSE, digits |-> <<>>]
TypePlus == typed.digits = <<>> /\ typed' = [typed EXCEPT !.plus = TRUE]
TypeDigit == \E d \in Digits : /\ Len(typed.digits) < MaxTyped
                               /\ typed' = [typed EXCEPT !.digits = Append(@, d)]
NumbersNext == TypePlus \/ TypeDigit
NumbersSpec == NumbersInit /\ [][NumbersNext]_typed

Plain(digits) == [plus |-> FALSE, digits |-> digits]
Plus(digits) == [plus |-> TRUE, digits |-> digits]

SpellingsOf(n) ==
  {Plain(n), Plain(Trunk \o n), Plain(CountryCode \o n), Plus(CountryCode \o n),
   Plain(<<0, 0>> \o CountryCode \o n)}

\* A stored number is stored as itself again, and every way to dial a national
\* number is stored as one: "they only match if they are stored one way".  Of the
\* numbers that begin like the country code this is not so: see NumbersMatch.
StoredOneWay ==
  LET e == Normalize(typed)
      n == typed.digits
  IN  /\ e # Invalid => Normalize(Plus(e)) = e
      /\ (/\ ~typed.plus /\ Len(n) = NationalLength /\ Head(n) # 0
          /\ ~IsPrefix(CountryCode, n))
           => {Normalize(s) : s \in SpellingsOf(n)} = {CountryCode \o n}

\* "Guard against double-prefixing a number that merely starts with the country
\* code (e.g. Indian numbers beginning `91...`)" (_plausible), which is there so
\* that these too are stored one way.
NumbersMatch ==
  (~typed.plus /\ Len(typed.digits) = NationalLength /\ Head(typed.digits) # 0)
    => {Normalize(s) : s \in SpellingsOf(typed.digits)} = {CountryCode \o typed.digits}
=============================================================================
