------------------------- MODULE RecordingMatchProps -------------------------
(* What the matching must satisfy, over every small input. *)
EXTENDS RecordingMatch, FiniteSets

CONSTANTS
  Times,     \* the instants calls and recordings may carry
  Numbers,   \* the digit sequences they may carry
  MaxCalls, MaxRecordings

ASSUME MatchInputs ==
  /\ Times \subseteq Nat /\ Numbers \subseteq Seq(Nat)
  /\ MaxCalls \in Nat /\ MaxRecordings \in Nat

VARIABLES calls, recordings
matchVars == <<calls, recordings>>

\* prepareBatch lets no call through without a usable number.
Calls == [at : Times, num : {n \in Numbers : Len(n) >= ShortDigits}]
Recordings == [at : Times \cup {NoTime}, num : Numbers \cup {NoNumber}]

MatchInit == calls = {} /\ recordings = {}

AddCall == \E c \in Calls \ calls :
  Cardinality(calls) < MaxCalls /\ calls' = calls \cup {c} /\ UNCHANGED recordings

AddRecording == \E r \in Recordings \ recordings :
  Cardinality(recordings) < MaxRecordings /\ recordings' = recordings \cup {r} /\ UNCHANGED calls

MatchNext == AddCall \/ AddRecording
MatchSpec == MatchInit /\ [][MatchNext]_matchVars

Matched == Match(calls, recordings)

\* A recording is given to one call, a call gets one recording, and no audio is
\* attached that could not be of the call: "attaching audio to the wrong call
\* would put one customer's words under another customer's name"
\* (matchRecordingsToCalls).
MatchIsSound ==
  /\ \A p, q \in Matched : p[1] = q[1] <=> p[2] = q[2]
  /\ \A p \in Matched : p[2].num # NoNumber /\ Fits(p[1], p[2])

\* No call is left without audio while a recording that fits it is left over;
\* and a recording and a call that fit each other and nothing else are paired,
\* whatever the formatting of the two numbers.
MatchIsComplete ==
  \A c \in calls, r \in recordings :
    LET alone == /\ \A d \in calls : Fits(d, r) => d = c
                 /\ \A s \in recordings : Fits(c, s) => s = r
    IN  Fits(c, r) => /\ \E p \in Matched : p[1] = c \/ p[2] = r
                      /\ alone => <<c, r>> \in Matched

\* Writing a number with a prefix (a country code, a trunk zero) does not change
\* what it matches: numbers agree when their last SuffixDigits digits do
\* (sameNumber).
PrefixIgnored ==
  \A c \in calls, r \in recordings :
    (/\ r.at # NoTime /\ Distance(c, r) <= MatchWindow
     /\ Len(r.num) >= SuffixDigits /\ Len(c.num) >= SuffixDigits
     /\ LastDigits(r.num, SuffixDigits) = LastDigits(c.num, SuffixDigits))
      => \E p \in Matched : p[1] = c \/ p[2] = r
=============================================================================
