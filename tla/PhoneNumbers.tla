---------------------------- MODULE PhoneNumbers ----------------------------
(***************************************************************************)
(* services/phone.py: how the spellings of a telephone number are brought  *)
(* into one form.  A spelling is what is left of the text once everything  *)
(* but digits and a leading + is dropped; a number in E.164 is the digits  *)
(* after its +.                                                            *)
(***************************************************************************)
EXTENDS Integers, Sequences, SequencesExt

CONSTANTS
  CountryCode, Trunk,        \* default_country_code and its trunk prefix
  MinPlausible, MaxDigits,   \* _plausible: 10 and 15
  MinDigits                  \* _E164: 7

\* The trunk prefix is a zero, or the country code again (the 1 of North America),
\* or there is none (_TRUNK_PREFIXES).
ASSUME PhoneNumbersAssumption ==
  /\ CountryCode \in Seq(Nat) /\ CountryCode # <<>> /\ Head(CountryCode) # 0
  /\ Trunk \in {<<>>, <<0>>, CountryCode}
  /\ MinDigits \in Nat /\ MinPlausible \in Nat /\ MaxDigits \in Nat
  /\ MinDigits <= MinPlausible /\ MinPlausible <= MaxDigits

Invalid == <<>>       \* InvalidPhoneNumber; None from try_normalize

Without(prefix, digits) == SubSeq(digits, Len(prefix) + 1, Len(digits))
Plausible(digits) == Len(digits) >= MinPlausible /\ Len(digits) <= MaxDigits

NationalKeepsTrunk(digits) ==                    \* variant: the trunk prefix kept
  IF IsPrefix(CountryCode, digits) /\ Plausible(digits) THEN digits ELSE CountryCode \o digits

\* A national number; one that begins like the country code may be whole already.
National(digits) ==
  LET bare == IF IsPrefix(Trunk, digits) /\ Len(digits) > Len(Trunk)
                THEN Without(Trunk, digits) ELSE digits
  IN  IF IsPrefix(CountryCode, bare) /\ Plausible(bare) THEN bare ELSE CountryCode \o bare

Normalize(spelling) ==
  LET digits == spelling.digits
      candidate == IF spelling.plus THEN digits
                   ELSE IF IsPrefix(<<0, 0>>, digits) THEN Without(<<0, 0>>, digits)
                   ELSE National(digits)
  IN  IF /\ digits # <<>> \/ spelling.plus
         /\ Len(candidate) >= MinDigits /\ Len(candidate) <= MaxDigits /\ Head(candidate) # 0
        THEN candidate ELSE Invalid
=============================================================================
