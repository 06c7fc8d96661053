--------------------------- MODULE RecordingMatch ---------------------------
(***************************************************************************)
(* How the handset pairs recordings with call-log entries                  *)
(* (mobile/src/lib/callLogSync.ts).  A call is a record with the fields    *)
(* `at` (startedAt) and `num` (its digits); a recording is a record with   *)
(* the same fields, read from its file name, where either may be missing.  *)
(* Nothing else of them is looked at.                                      *)
(***************************************************************************)
EXTENDS Integers, Sequences

CONSTANTS
  MatchWindow,    \* MATCH_WINDOW_MS
  SuffixDigits,   \* digits compared: 9
  ShortDigits     \* fewer digits than this are compared whole: 6

ASSUME RecordingMatchAssumption ==
  /\ MatchWindow \in Nat
  /\ ShortDigits \in Nat \ {0} /\ SuffixDigits \in Nat
  /\ ShortDigits <= SuffixDigits

NoTime == -1      \* recordedAt = null

NoNumber == <<>>  \* customerNumber = null, or a string without digits

Least(a, b) == IF a < b THEN a ELSE b

LastDigits(a, n) == SubSeq(a, Len(a) - n + 1, Len(a))

\* Numbers agree on the last SuffixDigits digits both have.
SameNumberWhole(a, b) == a # NoNumber /\ a = b      \* variant: no suffix

SameNumber(a, b) ==
  LET n == Least(SuffixDigits, Least(Len(a), Len(b)))
  IN  /\ a # NoNumber /\ b # NoNumber
      /\ IF n < ShortDigits THEN a = b ELSE LastDigits(a, n) = LastDigits(b, n)

Distance(c, r) == IF c.at < r.at THEN r.at - c.at ELSE c.at - r.at

Fits(c, r) ==
  /\ r.at # NoTime
  /\ SameNumber(r.num, c.num)
  /\ Distance(c, r) <= MatchWindow

\* The nearest of the recordings R that fit call c; the older one at a tie,
\* because the scan lists the oldest first.
Nearest(c, R) ==
  CHOOSE r \in R :
    \A o \in R : \/ Distance(c, r) < Distance(c, o)
                 \/ Distance(c, r) = Distance(c, o) /\ r.at <= o.at

TakenBy(m) == {p[2] : p \in m}

FreeAmongAll(m, R) == R                  \* variant: takenRecordings forgotten
Free(m, R) == R \ TakenBy(m)

OfferNearestOnly(m, c, R) ==             \* variant: taken ones tested too late
  LET fitting == {r \in R : Fits(c, r)}
  IN  IF fitting = {} \/ Nearest(c, fitting) \notin Free(m, R) THEN m
      ELSE m \cup {<<c, Nearest(c, fitting)>>}

OfferTo(m, c, R) ==
  LET fitting == {r \in Free(m, R) : Fits(c, r)}
  IN  IF fitting = {} THEN m ELSE m \cup {<<c, Nearest(c, fitting)>>}

\* The call that is offered a recording after all the others of S.
Latest(S) == CHOOSE c \in S : \A d \in S : d.at <= c.at

\* Calls in the order they started, each taking its nearest free recording.
Match(C, R) ==
  LET matched[S \in SUBSET C] ==
        IF S = {} THEN {} ELSE OfferTo(matched[S \ {Latest(S)}], Latest(S), R)
  IN  matched[C]
=============================================================================
