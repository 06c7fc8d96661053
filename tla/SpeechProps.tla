----------------------------- MODULE SpeechProps -----------------------------
(***************************************************************************)
(* What the way from audio to transcript must satisfy, over all small      *)
(* recordings: the chunks the speech model hears and the turns the         *)
(* diarizer hears.                                                         *)
(***************************************************************************)
EXTENDS Speech

CONSTANTS
  Chunks, Turns,     \* what either model may hear
  MaxHeard,          \* how many of each
  Timelines,         \* the sentiment timelines of an analysis
  Earlier            \* the transcripts a call may already have

ASSUME SpeechInputs ==
  /\ Chunks \subseteq [start : Nat, end : Nat \cup {NoEnd}, text : STRING]
  /\ Turns \subseteq [start : Nat, end : Nat, who : STRING]
  /\ \A tl \in Timelines :
       tl \in Seq([at : Nat, label : {"very_negative", "negative", "neutral", "positive",
                                     "very_positive"}])

VARIABLES heard, turns
speechVars == <<heard, turns>>

SpeechInit == heard = <<>> /\ turns = <<>>

\* The models emit in the order of the audio, as far as it goes.
HearWords ==
  \E c \in Chunks :
    /\ Len(heard) < MaxHeard /\ heard' = Append(heard, c) /\ UNCHANGED turns
    /\ Len(heard) > 0 => heard[Len(heard)].start <= c.start

HearTurn ==
  \E t \in Turns :
    /\ Len(turns) < MaxHeard /\ turns' = Append(turns, t) /\ UNCHANGED heard

SpeechNext == HearWords \/ HearTurn
SpeechSpec == SpeechInit /\ [][SpeechNext]_speechVars

Stored == RunTranscription(<<>>, heard, turns)
Swapped == [i \in DOMAIN Stored |->
              [Stored[i] EXCEPT !.speaker = CASE @ = "agent" -> "customer"
                                              [] @ = "customer" -> "agent" [] OTHER -> @]]

\* The place among the texts heard of the one in chunk i.
Nth(i) == Cardinality({j \in 1..i : heard[j].text # NoText})
AllHeard == Nth(Len(heard))

TextsAsHeard(segments) ==
  /\ Len(segments) = AllHeard
  /\ \A i \in DOMAIN heard :
       heard[i].text # NoText => segments[Nth(i)].text = heard[i].text

TimesAsHeard(segments) ==
  \A i \in DOMAIN heard :
    heard[i].text # NoText => segments[Nth(i)].start = heard[i].start

\* When nothing is heard the transcript of an earlier run stays.  Otherwise the
\* transcript is in the order of its times, no segment ends before it begins, and
\* nothing that was said is dropped or said twice; and when no time sent is one the
\* adapter takes for seconds, it is what was heard in the order it was heard, word
\* for word and time for time (parse_payload).
TranscriptInOrder ==
  \A e \in Earlier :
    LET q == RunTranscription(e, heard, turns)
    IN  IF AllHeard = 0 THEN q = e
        ELSE /\ \A i, j \in DOMAIN q : i < j => q[i].start <= q[j].start
             /\ \A i \in DOMAIN q : q[i].start <= q[i].end
             /\ \A x \in {c.text : c \in Chunks} \ {NoText} :
                  Cardinality({i \in DOMAIN q : q[i].text = x})
                    = Cardinality({i \in DOMAIN heard : heard[i].text = x})
             /\ (\A i \in DOMAIN heard : heard[i].start \notin 1..(SecondsBelow - 1))
                  => TextsAsHeard(q) /\ TimesAsHeard(q)

\* What is said first comes first in the transcript: "no real segment starts 30 ms into
\* a call on a whole number" (STT_CONTRACT.md), so no time that is sent as milliseconds
\* is taken for seconds (_to_ms).  A chunk at 480 ms is.
FirstSaidFirst == TextsAsHeard(Stored)

\* The talk ratio is a share, and the customer's share is the rest: swapping the
\* speakers turns it round, so speech of nobody known counts on neither side
\* (talk_ratio).
TalkIsShared ==
  LET r == TalkRatio(Stored)
      q == TalkRatio(Swapped)
  IN  0 <= r[1] /\ r[1] <= r[2] /\ q = <<r[2] - r[1], r[2]>>

\* A point of the sentiment timeline lands in one segment, the last that had begun by
\* then.  A segment has the label of the last point that landed in it, and where none
\* did it keeps what an earlier analysis of the transcript gave it
\* (_apply_segment_sentiment).
PointsColourTheirSegment ==
  \A first, tl \in Timelines :
    LET before == ApplySentiment(Stored, Uncoloured(Stored), first)
        colours == ApplySentiment(Stored, before, tl)
        lands(p) == {i \in DOMAIN Stored :
                       /\ Stored[i].start <= p.at
                       /\ i < Len(Stored) => p.at < Stored[i + 1].start}
    IN  \A i \in DOMAIN Stored :
          LET own == {k \in DOMAIN tl : i \in lands(tl[k])}
          IN  colours[i] = IF own = {} THEN before[i] ELSE tl[Max(own)].label

\* Running the analysis again replaces the colours of the run before (pipeline.py:
\* "re-running one replaces its own output and leaves everything else alone").  Those
\* of segments in which no point lands stay.
ColoursReplaced ==
  \A first, tl \in Timelines :
    LET none == Uncoloured(Stored)
    IN  ApplySentiment(Stored, ApplySentiment(Stored, none, first), tl)
          = ApplySentiment(Stored, none, tl)

\* What is drawn from a transcript is about that transcript.
InsightsFitTranscript == TalkIsShared /\ PointsColourTheirSegment
=============================================================================
