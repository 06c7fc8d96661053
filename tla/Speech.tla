------------------------------- MODULE Speech -------------------------------
(***************************************************************************)
(* From audio to transcript: what the Whisper service makes of the chunks  *)
(* and turns its models hear (whisper_service/main.py, models.py), how the *)
(* adapter reads the answer (llm/stt/shared_model.py), and what the        *)
(* pipeline works out from the segments (llm/stopwords.py,                 *)
(* services/pipeline.py).  Times are milliseconds unless said otherwise.   *)
(***************************************************************************)
EXTENDS Integers, Sequences, SequencesExt, FiniteSets, FiniteSetsExt, Functions

CONSTANT SecondsBelow    \* an int below this is taken for seconds: 1000
ASSUME SpeechAssumption == SecondsBelow \in Nat

NoSpeaker == "none"
NoText == ""

-----------------------------------------------------------------------------
(* The service.  A chunk is [start, end, text], a turn [start, end, who];  *)
(* end is NoEnd when Whisper could not tell.                               *)
NoEnd == -1

\* A chunk without text is dropped, one without an end becomes empty in time.
ChunkOf(c) == [c EXCEPT !.end = IF @ = NoEnd THEN c.start ELSE @]
TranscribeChunks(heard) ==
  FoldLeft(LAMBDA chunks, c : IF c.text = NoText THEN chunks ELSE Append(chunks, ChunkOf(c)),
           <<>>, heard)

FirstTurn(turns) ==
  CHOOSE i \in DOMAIN turns :
    \A j \in DOMAIN turns : turns[i].start < turns[j].start
                            \/ (turns[i].start = turns[j].start /\ i <= j)

\* Who speaks first is the agent.
RolesFor(turns) ==
  [who \in {turns[i].who : i \in DOMAIN turns} |->
     IF who = turns[FirstTurn(turns)].who THEN "agent" ELSE "customer"]

Overlap(t, c) == Min({c.end, t.end}) - Max({c.start, t.start})

SpeakerFor(turns, c) ==
  LET hit  == {i \in DOMAIN turns : Overlap(turns[i], c) > 0}
      best == {i \in hit : \A j \in hit : Overlap(turns[i], c) >= Overlap(turns[j], c)}
  IN  IF hit = {} THEN "unknown" ELSE RolesFor(turns)[turns[Min(best)].who]

\* _run_pipeline: the segments of the answer.  With `diarize` off, or nobody
\* heard, every speaker is unknown.
ServiceSegments(heard, turns) ==
  LET chunks == TranscribeChunks(heard)
  IN  [i \in DOMAIN chunks |->
         [start |-> chunks[i].start, end |-> chunks[i].end, text |-> chunks[i].text,
          speaker |-> SpeakerFor(turns, chunks[i])]]

-----------------------------------------------------------------------------
(* The adapter.  A time on the wire is an int, as the service sends.       *)

ToMs(n) == IF n < SecondsBelow THEN n * 1000 ELSE n

\* A label is one of the words the adapter knows, or has digits in it.  Those of
\* Channels stand for all labels with digits; of these zero is the agent's, and any
\* other number the customer's, a third speaker's and a party's own included.
AgentWords == {"agent", "rep", "representative", "operator", "caller_a", "local"}
CustomerWords == {"customer", "client", "caller", "callee", "remote", "caller_b"}
Zeros == {"speaker_00", "0"}
Channels == Zeros \cup {"speaker_01", "1", "speaker_02", "2"}

MapSpeaker(label) ==
  IF label \in AgentWords \cup Zeros THEN "agent"
  ELSE IF label \in CustomerWords \cup Channels THEN "customer" ELSE "unknown"

Adapt(s) ==
  [start |-> ToMs(s.start), end |-> Max({ToMs(s.start), ToMs(s.end)}), text |-> s.text,
   speaker |-> MapSpeaker(s.speaker)]

PlaceInFront(sorted, s) ==                        \* variant: before its equals
  InsertAt(sorted, Cardinality({i \in DOMAIN sorted : sorted[i].start < s.start}) + 1, s)

\* Python's sort is stable: a segment goes behind those that start no later.
Place(sorted, s) ==
  InsertAt(sorted, Cardinality({i \in DOMAIN sorted : sorted[i].start <= s.start}) + 1, s)

ByStart(segments) == FoldLeft(Place, <<>>, segments)

\* A segment without text is dropped.
Adapted(sent) ==
  FoldLeft(LAMBDA kept, s : IF s.text = NoText THEN kept ELSE Append(kept, Adapt(s)), <<>>, sent)

ParsePayload(sent) == ByStart(Adapted(sent))

\* What is stored after stage 1 has run on a recording that is heard this way.  When
\* no usable text comes back the adapter raises, and an earlier transcript stays.
RunTranscription(earlier, heard, turns) ==
  LET segments == ParsePayload(ServiceSegments(heard, turns))
  IN  IF segments = <<>> THEN earlier ELSE segments

-----------------------------------------------------------------------------
(* The pipeline.                                                           *)

SpokenBy(segments, speakers) ==
  SumFunction([i \in {i \in DOMAIN segments : segments[i].speaker \in speakers} |->
                 Max({0, segments[i].end - segments[i].start})])

SpokenWithUnknown(segments, speaker) ==           \* variant: unknown counts as customer
  SpokenBy(segments, {speaker} \cup (IF speaker = "agent" THEN {} ELSE {"unknown"}))

Spoken(segments, speaker) == SpokenBy(segments, {speaker})

Words(segments, speaker) == Cardinality({i \in DOMAIN segments : segments[i].speaker = speaker})

\* Share of the time; of the words when there are no usable times; else none.
\* Each text is one word here.
TalkRatio(segments) ==
  LET ms    == Spoken(segments, "agent") + Spoken(segments, "customer")
      words == Words(segments, "agent") + Words(segments, "customer")
  IN  IF ms > 0 THEN <<Spoken(segments, "agent"), ms>>
      ELSE IF words > 0 THEN <<Words(segments, "agent"), words>> ELSE <<0, 0>>

\* analyse_segments: texts by speaker, and all of them.
TextsBySpeaker(segments) ==
  LET said(who) == SelectSeq(segments, LAMBDA s : s.speaker = who)
      speakers  == {segments[i].speaker : i \in DOMAIN segments}
  IN  [who \in speakers \cup {"totals"} |->
         LET S == IF who = "totals" THEN segments ELSE said(who)
         IN  [i \in DOMAIN S |-> S[i].text]]

\* _apply_segment_sentiment: each point colours the last segment that began at
\* or before it; a later point paints over an earlier one.
LastBegun(segments, at) ==
  {i \in DOMAIN segments : /\ segments[i].start <= at
                           /\ \A j \in DOMAIN segments : segments[j].start <= at => j <= i}

Painted(segments, colours, p) ==
  [i \in DOMAIN segments |-> IF i \in LastBegun(segments, p.at) THEN p.label ELSE colours[i]]

\* Segments are stored without a colour; one that no point lands in keeps what it had.
Uncoloured(segments) == [i \in DOMAIN segments |-> "none"]

ApplySentiment(segments, colours, timeline) ==
  FoldLeft(LAMBDA now, p : Painted(segments, now, p), colours, timeline)
=============================================================================
