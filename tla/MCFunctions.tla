----------------------------- MODULE MCFunctions -----------------------------
(***************************************************************************)
(* The pure parts of the system over all small inputs: each behaviour      *)
(* builds inputs of one subject and leaves the other subjects at their     *)
(* first.                                                                  *)
(***************************************************************************)
EXTENDS RecordingMatchProps, FiguresProps, SpeechProps, PhoneNumbersProps, TLC

VARIABLE subject
inputs == <<subject, calls, recordings, figuresVars, speechVars, typed>>

Init ==
  /\ subject \in {"match", "figures", "speech", "numbers"}
  /\ MatchInit /\ FiguresInit /\ SpeechInit /\ NumbersInit

Matching == subject = "match" /\ MatchNext /\ UNCHANGED <<subject, figuresVars, speechVars, typed>>
Counting ==
  subject = "figures" /\ FiguresNext /\ UNCHANGED <<subject, calls, recordings, speechVars, typed>>
Listening ==
  subject = "speech" /\ SpeechNext /\ UNCHANGED <<subject, calls, recordings, figuresVars, typed>>
Typing ==
  subject = "numbers" /\ NumbersNext /\ UNCHANGED <<subject, calls, recordings, figuresVars, speechVars>>

Next == Matching \/ Counting \/ Listening \/ Typing
Spec == Init /\ [][Next]_inputs

-----------------------------------------------------------------------------
FiveInstants == 0..4
\* A number, the same with a prefix, its end, and one digit.
LocalAndPrefixed == {<<1, 2, 3>>, <<9, 1, 2, 3>>, <<2, 3>>, <<3>>}

Row(agent, number, direction, status, duration, expected, recorded) ==
  [id |-> 0, at |-> 0, agent |-> agent, number |-> number, direction |-> direction,
   status |-> status, duration |-> duration, expected |-> expected, recorded |-> recorded]

\* A recorded call, a missed one, and one recorded against the policy.
ThreeShapes ==
  <<Row("ann", "n1", "inbound", "completed", 60, TRUE, TRUE),
    Row("bob", "n1", "inbound", "missed", 0, TRUE, FALSE),
    Row("ann", "n2", "outbound", "completed", 30, FALSE, TRUE)>>

TwoVerdicts ==
  {[score |-> 4, sentiment |-> "positive", satisfied |-> "yes", risks |-> <<>>,
    fillers |-> [agent |-> [um |-> 2]]],
   [score |-> -2, sentiment |-> "negative", satisfied |-> "no",
    risks |-> <<[kind |-> "churn", severity |-> "high"], [kind |-> "churn", severity |-> "low"]>>,
    fillers |-> <<>>]}

\* The missed call is ann's too, and has taken the recording of her call back.
WithRecordedMissed == [ThreeShapes EXCEPT ![2].agent = "ann", ![2].recorded = TRUE]

Task(call, assignee, status, due) ==
  [call |-> call, assignee |-> assignee, status |-> status, due |-> due]

OtherTables ==
  [calls |-> {}, analyses |-> <<>>,
   agents |-> {[name |-> s, active |-> TRUE, status |-> s] :
                 s \in {"available", "on_call", "wrap_up", "break", "offline"}}
              \cup {[name |-> "left", active |-> FALSE, status |-> "available"]},
   items |-> {Task(1, "ann", "open", 3), Task(1, "bob", "in_progress", NoInstant),
              Task(3, "ann", "done", 3)},
   numbers |-> {[e164 |-> "n1", enabled |-> TRUE]},
   jobs |-> {[call |-> 1, status |-> "failed"]},
   transcripts |-> {3},
   leads |-> {[call |-> 3, category |-> "sales", at |-> 3]}]

\* With days of two hours and weeks of four: spans on both sides of every
\* boundary, ends left out, and ends in the wrong order.
Requests ==
  [days : {2}, start : {NoInstant, 1, 12}, end : {NoInstant, 4, 20}]
SomeInstants == {1, 3, 4, 9, 19}

\* Within the first second and after it, a chunk without an end, and silence.
HeardChunks ==
  {[start |-> s, end |-> e, text |-> t] :
     s \in {0, 480, 1500}, e \in {NoEnd, 900, 1700}, t \in {"one", "two"}}
    \cup {[start |-> 480, end |-> 900, text |-> NoText]}
HeardTurns ==
  {[start |-> s, end |-> e, who |-> w] : s \in {0, 800}, e \in {900, 2000}, w \in {"A", "B"}}
\* A call transcribed for the first time, and one that has a transcript.
NoneOrOne ==
  {<<>>, <<[start |-> 3000, end |-> 3400, text |-> "before", speaker |-> "agent"]>>}
SomeTimelines ==
  {<<[at |-> 0, label |-> "negative"], [at |-> 1600, label |-> "positive"]>>,
   <<[at |-> 500000, label |-> "positive"], [at |-> 100, label |-> "negative"]>>}

India == <<9>>
TrunkZero == <<0>>
SomeDigits == {0, 1, 9}
=============================================================================
