---------------------------- MODULE ConsentProofs ----------------------------
(***************************************************************************)
(* Theorems about Consent for any numbers, policies, PATCHes in flight and *)
(* instants.                                                               *)
(***************************************************************************)
EXTENDS ConsentProps, FiniteSetTheorems, TLAPS

-----------------------------------------------------------------------------
(* The policies *)

PoliciesInv ==
  /\ \A n \in DOMAIN policies : DOMAIN policies[n] = {"enabled", "inbound", "outbound", "consent"}
  /\ DOMAIN patches = Admins

\* What the policies' own handlers and the rest of the system do to them.
OfficeStep == CreatePolicy \/ DeletePolicy \/ LoadPolicy \/ WritePolicy \/ UNCHANGED <<policies, patches>>

LEMMA OfficeSteps == [ConsentNext]_consentVars => OfficeStep
BY DEF ConsentNext, consentVars, OfficeStep, Administer, EditNumber, FlipDirection, CheckPolicy,
       CheckAnswered, CheckFails, ToggleConsent, StartRecording, Started, StopAndSave, Discard,
       LogOnly, Finish, LogCall, Enqueue, Done, FinishFails, Leave, Abandon, Restart, office

\* A write puts nothing into a row but what the PATCH was sent.
LEMMA WriteOne ==
  ASSUME PoliciesInv, NEW a \in Admins, patches[a] # Nothing,
         policies' = [policies EXCEPT ![patches[a].number] =
                        Written(@, patches[a].held, patches[a].change)],
         NEW n \in DOMAIN policies
  PROVE  /\ DOMAIN policies' = DOMAIN policies
         /\ DOMAIN policies'[n] = DOMAIN policies[n]
         /\ \/ policies'[n].enabled = policies[n].enabled
            \/ /\ n = patches[a].number /\ "enabled" \in DOMAIN patches[a].change
               /\ policies'[n].enabled = patches[a].change.enabled
<1> DEFINE p == patches[a]
<1>1. CASE n # p.number
  BY <1>1
<1>2. CASE n = p.number
  <2>1. policies'[n] = Written(policies[n], p.held, p.change)
    BY <1>2
  <2>2. "enabled" \in DOMAIN policies[n]
    BY DEF PoliciesInv
  <2>3. /\ DOMAIN Written(policies[n], p.held, p.change) = DOMAIN policies[n]
        /\ \/ Written(policies[n], p.held, p.change)["enabled"] = policies[n]["enabled"]
           \/ /\ "enabled" \in DOMAIN p.change
              /\ Written(policies[n], p.held, p.change)["enabled"] = p.change["enabled"]
    BY <2>2 DEF Written
  <2> QED BY <1>2, <2>1, <2>3
<1> QED BY <1>1, <1>2

LEMMA PoliciesInvariant == ConsentSpec => []PoliciesInv
<1>1. ConsentInit => PoliciesInv
  <2> SUFFICES ASSUME ConsentInit PROVE PoliciesInv
    OBVIOUS
  <2>1. PICK S \in SUBSET Customers : policies \in [S \cup {Own} -> OwnRows \cup CustomerRows]
    BY DEF ConsentInit
  <2>2. \A row \in OwnRows \cup CustomerRows : DOMAIN row = {"enabled", "inbound", "outbound", "consent"}
    BY ConsentAssumption
  <2> QED BY <2>1, <2>2 DEF ConsentInit, PoliciesInv
<1>2. PoliciesInv /\ [ConsentNext]_consentVars => PoliciesInv'
  <2> SUFFICES ASSUME PoliciesInv, OfficeStep PROVE PoliciesInv'
    BY OfficeSteps
  <2>1. CASE CreatePolicy
    <3>1. PICK k \in (Customers \cup {Own}) \ DOMAIN policies, row \in OwnRows \cup CustomerRows :
            policies' = [x \in DOMAIN policies \cup {k} |-> IF x = k THEN row ELSE policies[x]]
      BY <2>1 DEF CreatePolicy
    <3>2. DOMAIN row = {"enabled", "inbound", "outbound", "consent"}
      BY ConsentAssumption
    <3>3. UNCHANGED patches
      BY <2>1 DEF CreatePolicy
    <3> QED BY <3>1, <3>2, <3>3 DEF PoliciesInv
  <2>2. CASE DeletePolicy
    BY <2>2 DEF DeletePolicy, PoliciesInv
  <2>3. CASE LoadPolicy
    BY <2>3 DEF LoadPolicy, PoliciesInv
  <2>4. CASE WritePolicy
    <3>1. PICK a \in Admins :
            /\ patches[a] # Nothing
            /\ policies' = [policies EXCEPT ![patches[a].number] =
                              Written(@, patches[a].held, patches[a].change)]
            /\ patches' = [patches EXCEPT ![a] = Nothing]
      BY <2>4 DEF WritePolicy
    <3>2. \A n \in DOMAIN policies : DOMAIN policies'[n] = DOMAIN policies[n]
      BY <3>1, WriteOne
    <3> QED BY <3>1, <3>2 DEF PoliciesInv
  <2>5. CASE UNCHANGED <<policies, patches>>
    BY <2>5 DEF PoliciesInv
  <2> QED BY <2>1, <2>2, <2>3, <2>4, <2>5 DEF OfficeStep
<1> QED BY <1>1, <1>2, PTL DEF ConsentSpec

\* An opt-out is undone only by a PATCH that says so, or by a new row, whatever
\* PATCHes of other fields were loaded before it.
THEOREM OptOutsStay == ConsentSpec => OnlyOptInsRecord
<1>1. PoliciesInv /\ [ConsentNext]_consentVars
        => [\A n \in DOMAIN policies' :
              policies'[n].enabled /\ (Has(n) => ~policies[n].enabled) => SwitchedOn(n)]_consentVars
  <2> SUFFICES ASSUME PoliciesInv, OfficeStep, NEW n \in DOMAIN policies',
                      policies'[n].enabled, Has(n) => ~policies[n].enabled
               PROVE  SwitchedOn(n)
    BY OfficeSteps
  <2>1. CASE ~Has(n)
    BY <2>1 DEF SwitchedOn
  <2>2. CASE Has(n)
    <3>1. n \in DOMAIN policies /\ policies'[n] # policies[n]
      BY <2>2 DEF Has
    <3>2. WritePolicy
      BY <3>1 DEF OfficeStep, CreatePolicy, DeletePolicy, LoadPolicy
    <3>3. PICK a \in Admins :
            /\ patches[a] # Nothing
            /\ policies' = [policies EXCEPT ![patches[a].number] =
                              Written(@, patches[a].held, patches[a].change)]
            /\ patches' = [patches EXCEPT ![a] = Nothing]
      BY <3>2 DEF WritePolicy
    <3>4. /\ n = patches[a].number /\ "enabled" \in DOMAIN patches[a].change
          /\ policies'[n].enabled = patches[a].change.enabled
      BY <2>2, <3>1, <3>3, WriteOne
    <3>5. patches'[a] = Nothing
      BY <3>3 DEF PoliciesInv
    <3> QED BY <3>3, <3>4, <3>5 DEF SwitchedOn
  <2> QED BY <2>1, <2>2
<1> QED BY <1>1, PoliciesInvariant, PTL DEF ConsentSpec, OnlyOptInsRecord

-----------------------------------------------------------------------------
(* The call screen *)

ScreenShaped ==
  /\ DOMAIN screen = {"phase", "number", "direction", "policy", "consent", "started"}
  /\ screen.policy # Nothing =>
       DOMAIN screen.policy = {"record", "required", "number", "direction", "announced"}
  /\ saving # Nothing =>
       DOMAIN saving = {"step", "here", "call", "number", "direction", "consent", "edited", "take"}

Begun == recorder \in {"starting", "on"}

\* The decision on show is for the number and direction on show, and consent was
\* announced if it has to be.
ShownIsDecided ==
  screen.policy # Nothing =>
    /\ edited \/ (screen.policy.number = screen.number /\ screen.policy.direction = screen.direction)
    /\ screen.policy.required /\ screen.consent => screen.policy.announced

\* While a question is open no decision is on show, so no take can begin.
AskedIsShown ==
  check # Nothing =>
    /\ screen.policy = Nothing
    /\ edited \/ (check.number = screen.number /\ check.direction = screen.direction)
    /\ Begun => edited

Permitted(policy, number, direction, consent) ==
  /\ policy.record /\ policy.number = number /\ policy.direction = direction
  /\ policy.required => policy.announced
  /\ consent

TakeIsDecided ==
  /\ Begun => edited \/ Permitted(take.policy, screen.number, screen.direction, screen.consent)
  /\ saving # Nothing /\ saving.take # Nothing =>
       saving.edited \/ Permitted(saving.take.policy, saving.number, saving.direction, saving.consent)

DecisionInv == ScreenShaped /\ ShownIsDecided /\ AskedIsShown /\ TakeIsDecided

LEMMA InitDecision == ConsentInit => DecisionInv
BY DEF ConsentInit, Fresh, DecisionInv, ScreenShaped, ShownIsDecided, AskedIsShown, TakeIsDecided, Begun

\* What finish holds stays as it is but for its step, its call, or its screen.
SavingGoesOn ==
  \/ saving' = Nothing
  \/ /\ saving # Nothing /\ DOMAIN saving' = DOMAIN saving
     /\ saving'.take = saving.take /\ saving'.edited = saving.edited
     /\ saving'.number = saving.number /\ saving'.direction = saving.direction
     /\ saving'.consent = saving.consent

LEMMA SavingUpdates ==
  ASSUME DecisionInv, saving # Nothing
  PROVE  /\ saving' = [saving EXCEPT !.here = FALSE] => SavingGoesOn
         /\ saving' = [saving EXCEPT !.step = "queued"] => SavingGoesOn
         /\ \A ref : saving' = [saving EXCEPT !.step = "logged", !.call = ref] => SavingGoesOn
BY DEF DecisionInv, ScreenShaped, SavingGoesOn

\* A step that leaves screen, question, recorder and take alone.
LEMMA ScreenRests ==
  ASSUME DecisionInv, SavingGoesOn \/ UNCHANGED saving,
         UNCHANGED <<screen, check, recorder, take, edited>>
  PROVE  DecisionInv'
<1>1. ScreenShaped'
  BY DEF DecisionInv, ScreenShaped, SavingGoesOn
<1>2. ShownIsDecided' /\ AskedIsShown'
  BY DEF DecisionInv, ShownIsDecided, AskedIsShown, Begun
<1>3. TakeIsDecided'
  BY DEF DecisionInv, TakeIsDecided, Begun, SavingGoesOn, Permitted
<1> QED BY <1>1, <1>2, <1>3 DEF DecisionInv

\* A screen that is new knows nothing and has begun nothing.
LEMMA AbandonDecision ==
  ASSUME DecisionInv, SavingGoesOn \/ UNCHANGED saving,
         screen' = Fresh, check' = Nothing, recorder' \notin {"starting", "on"}
  PROVE  DecisionInv'
<1>1. ScreenShaped'
  BY DEF DecisionInv, ScreenShaped, SavingGoesOn, Fresh
<1>2. ShownIsDecided' /\ AskedIsShown'
  BY DEF ShownIsDecided, AskedIsShown, Fresh
<1>3. TakeIsDecided'
  BY DEF DecisionInv, TakeIsDecided, Begun, SavingGoesOn, Permitted
<1> QED BY <1>1, <1>2, <1>3 DEF DecisionInv

LEMMA EditDecision ==
  ASSUME DecisionInv, EditNumber \/ FlipDirection
  PROVE  DecisionInv'
<1>1. /\ UNCHANGED <<check, recorder, take, saving>>
      /\ DOMAIN screen' = DOMAIN screen
      /\ screen'.policy \in {screen.policy, Nothing}
      /\ screen'.consent = screen.consent
  BY DEF EditNumber, FlipDirection, Flipped, DecisionInv, ScreenShaped
<1>2. /\ edited => edited'
      /\ InFlight => edited'
      /\ screen'.policy # Nothing => edited'
  <2>1. CASE EditNumber
    BY <2>1 DEF EditNumber, DecisionInv, ScreenShaped
  <2>2. CASE FlipDirection
    <3>1. screen'.policy = Nothing
      BY <2>2 DEF FlipDirection, Flipped, DecisionInv, ScreenShaped
    <3> QED BY <2>2, <3>1 DEF FlipDirection
  <2> QED BY <2>1, <2>2
<1>3. ScreenShaped'
  BY <1>1 DEF DecisionInv, ScreenShaped
<1>4. ShownIsDecided' /\ AskedIsShown'
  BY <1>1, <1>2 DEF DecisionInv, ShownIsDecided, AskedIsShown, InFlight, Begun
<1>5. TakeIsDecided'
  BY <1>1, <1>2 DEF DecisionInv, TakeIsDecided, Begun, InFlight, Permitted
<1> QED BY <1>3, <1>4, <1>5 DEF DecisionInv

LEMMA CheckDecision ==
  ASSUME DecisionInv, CheckPolicy
  PROVE  DecisionInv'
<1>1. /\ UNCHANGED <<recorder, take, saving>>
      /\ check' = [number |-> screen.number, direction |-> screen.direction]
      /\ edited' = Begun
  BY DEF CheckPolicy, Begun
<1>2. /\ DOMAIN screen' = DOMAIN screen
      /\ screen'.policy = Nothing
      /\ screen'.number = screen.number /\ screen'.direction = screen.direction
  BY DEF CheckPolicy, DecisionInv, ScreenShaped
<1>3. ScreenShaped'
  BY <1>1, <1>2 DEF DecisionInv, ScreenShaped
<1>4. ShownIsDecided' /\ AskedIsShown'
  BY <1>1, <1>2 DEF ShownIsDecided, AskedIsShown, Begun
<1>5. TakeIsDecided'
  BY <1>1, <1>2 DEF DecisionInv, TakeIsDecided, Begun, Permitted
<1> QED BY <1>3, <1>4, <1>5 DEF DecisionInv

LEMMA AnswerDecision ==
  ASSUME DecisionInv, CheckAnswered
  PROVE  DecisionInv'
<1> DEFINE d == Decide(check.number, check.direction)
<1>1. /\ UNCHANGED <<recorder, take, saving, edited>> /\ check' = Nothing /\ check # Nothing
  BY DEF CheckAnswered
<1>2. /\ DOMAIN d = {"record", "required", "number", "direction", "announced"}
      /\ d.number = check.number /\ d.direction = check.direction
  BY DEF Decide
<1>3. screen' = [screen EXCEPT !.policy = d, !.consent = ~d.required, !.phase = "ready"]
  BY DEF CheckAnswered
<1> HIDE DEF d
<1>4. /\ DOMAIN screen' = DOMAIN screen
      /\ screen'.policy = d /\ screen'.consent = ~d.required
      /\ screen'.number = screen.number /\ screen'.direction = screen.direction
  BY <1>3 DEF DecisionInv, ScreenShaped
<1>5. ScreenShaped'
  BY <1>1, <1>2, <1>4 DEF DecisionInv, ScreenShaped
<1>6. ShownIsDecided' /\ AskedIsShown'
  BY <1>1, <1>2, <1>4 DEF DecisionInv, ShownIsDecided, AskedIsShown
<1>7. TakeIsDecided'
  BY <1>1, <1>4 DEF DecisionInv, AskedIsShown, TakeIsDecided, Begun, Permitted
<1> QED BY <1>5, <1>6, <1>7 DEF DecisionInv

LEMMA ToggleDecision ==
  ASSUME DecisionInv, ToggleConsent
  PROVE  DecisionInv'
<1>1. /\ UNCHANGED <<check, recorder, take, saving>> /\ screen.policy # Nothing
      /\ edited => edited'
      /\ InFlight => edited'
  BY DEF ToggleConsent, Decided
<1>2. /\ DOMAIN screen' = DOMAIN screen
      /\ DOMAIN screen'.policy = DOMAIN screen.policy
      /\ screen'.policy.number = screen.policy.number
      /\ screen'.policy.direction = screen.policy.direction
      /\ screen'.number = screen.number /\ screen'.direction = screen.direction
      /\ screen'.policy.announced = ~screen.consent /\ screen'.consent = ~screen.consent
  BY <1>1 DEF ToggleConsent, DecisionInv, ScreenShaped
<1>3. ScreenShaped'
  BY <1>1, <1>2 DEF DecisionInv, ScreenShaped
<1>4. ShownIsDecided' /\ AskedIsShown'
  BY <1>1, <1>2 DEF DecisionInv, ShownIsDecided, AskedIsShown, InFlight
<1>5. TakeIsDecided'
  BY <1>1 DEF DecisionInv, TakeIsDecided, Begun, InFlight, Permitted
<1> QED BY <1>3, <1>4, <1>5 DEF DecisionInv

LEMMA StartDecision ==
  ASSUME DecisionInv, StartRecording \/ Started
  PROVE  DecisionInv'
<1>1. /\ UNCHANGED <<check, saving, edited>>
      /\ DOMAIN screen' = DOMAIN screen
      /\ screen'.policy = screen.policy /\ screen'.consent = screen.consent
      /\ screen'.number = screen.number /\ screen'.direction = screen.direction
  BY DEF StartRecording, Started, DecisionInv, ScreenShaped
<1>2. ScreenShaped' /\ ShownIsDecided'
  BY <1>1 DEF DecisionInv, ScreenShaped, ShownIsDecided
<1>3. AskedIsShown'
  <2>1. CASE StartRecording
    BY <1>1, <2>1 DEF StartRecording, Decided, DecisionInv, AskedIsShown
  <2>2. CASE Started
    BY <1>1, <2>2 DEF Started, Begun, DecisionInv, AskedIsShown
  <2> QED BY <2>1, <2>2
<1>4. TakeIsDecided'
  <2>1. CASE StartRecording
    <3>1. take'.policy = screen.policy /\ screen.policy # Nothing /\ screen.policy.record /\ screen.consent
      BY <2>1 DEF StartRecording, Decided, CanRecord
    <3>2. edited \/ Permitted(take'.policy, screen.number, screen.direction, screen.consent)
      BY <3>1 DEF DecisionInv, ShownIsDecided, Permitted
    <3> QED BY <1>1, <3>2 DEF DecisionInv, TakeIsDecided, Begun, Permitted
  <2>2. CASE Started
    <3>1. Begun' => Begun /\ take' = take
      BY <2>2 DEF Started, Begun
    <3> QED BY <1>1, <3>1 DEF DecisionInv, TakeIsDecided, Permitted
  <2> QED BY <2>1, <2>2
<1> QED BY <1>2, <1>3, <1>4 DEF DecisionInv

LEMMA FinishDecision ==
  ASSUME DecisionInv, NEW withRecording \in BOOLEAN, Finish(withRecording)
  PROVE  DecisionInv'
<1>1. /\ UNCHANGED <<check, edited>>
      /\ DOMAIN screen' = DOMAIN screen
      /\ screen'.policy = screen.policy /\ screen'.consent = screen.consent
      /\ screen'.number = screen.number /\ screen'.direction = screen.direction
  BY DEF Finish, DecisionInv, ScreenShaped
<1>2. /\ DOMAIN saving' = {"step", "here", "call", "number", "direction", "consent", "edited", "take"}
      /\ saving'.number = screen.number /\ saving'.direction = screen.direction
      /\ saving'.consent = screen.consent /\ saving'.edited = edited
      /\ saving'.take # Nothing => recorder = "on" /\ saving'.take = take
      /\ Begun' => Begun /\ take' = take
  BY DEF Finish, Begun
<1>3. ScreenShaped' /\ ShownIsDecided'
  BY <1>1, <1>2 DEF DecisionInv, ScreenShaped, ShownIsDecided
<1>4. AskedIsShown'
  BY <1>1, <1>2 DEF DecisionInv, AskedIsShown
<1>5. TakeIsDecided'
  BY <1>1, <1>2 DEF DecisionInv, TakeIsDecided, Begun, Permitted
<1> QED BY <1>3, <1>4, <1>5 DEF DecisionInv

LEMMA FailsDecision ==
  ASSUME DecisionInv, FinishFails
  PROVE  DecisionInv'
<1>1. UNCHANGED <<check, recorder, take, edited>> /\ saving' = Nothing
  BY DEF FinishFails
<1>2. /\ DOMAIN screen' = DOMAIN screen
      /\ screen'.policy = screen.policy /\ screen'.consent = screen.consent
      /\ screen'.number = screen.number /\ screen'.direction = screen.direction
  BY DEF FinishFails, DecisionInv, ScreenShaped
<1>3. ScreenShaped' /\ ShownIsDecided'
  BY <1>1, <1>2 DEF DecisionInv, ScreenShaped, ShownIsDecided
<1>4. AskedIsShown'
  BY <1>1, <1>2 DEF DecisionInv, AskedIsShown, Begun
<1>5. TakeIsDecided'
  BY <1>1, <1>2 DEF DecisionInv, TakeIsDecided, Begun, Permitted
<1> QED BY <1>3, <1>4, <1>5 DEF DecisionInv

LEMMA DecisionInvariant == ConsentSpec => []DecisionInv
<1>1. DecisionInv /\ [ConsentNext]_consentVars => DecisionInv'
  <2> SUFFICES ASSUME DecisionInv, [ConsentNext]_consentVars PROVE DecisionInv'
    OBVIOUS
  <2>1. CASE UNCHANGED <<screen, check, recorder, take, saving, edited>>
    BY <2>1, ScreenRests
  <2>2. CASE Administer \/ WritePolicy
    BY <2>1, <2>2 DEF Administer, WritePolicy
  <2>3. CASE EditNumber \/ FlipDirection
    BY <2>3, EditDecision
  <2>4. CASE CheckPolicy
    BY <2>4, CheckDecision
  <2>5. CASE CheckAnswered
    BY <2>5, AnswerDecision
  <2>6. CASE CheckFails
    <3>1. check' = Nothing /\ UNCHANGED <<screen, recorder, take, saving, edited>>
      BY <2>6 DEF CheckFails
    <3> QED BY <3>1 DEF DecisionInv, ScreenShaped, ShownIsDecided, AskedIsShown, TakeIsDecided, Begun, Permitted
  <2>7. CASE ToggleConsent
    BY <2>7, ToggleDecision
  <2>8. CASE StartRecording \/ Started
    BY <2>8, StartDecision
  <2>9. CASE StopAndSave \/ Discard \/ LogOnly
    BY <2>9, FinishDecision DEF StopAndSave, Discard, LogOnly
  <2>10. CASE LogCall \/ Enqueue
    <3>1. SavingGoesOn
      BY <2>10, SavingUpdates DEF LogCall, Enqueue
    <3> QED BY <2>10, <3>1, ScreenRests DEF LogCall, Enqueue
  <2>11. CASE FinishFails
    BY <2>11, FailsDecision
  <2>12. CASE Done \/ Leave \/ Restart
    <3>1. SavingGoesOn \/ UNCHANGED saving
      BY <2>12, SavingUpdates DEF Done, Leave, Restart, SavingGoesOn
    <3>2. screen' = Fresh /\ check' = Nothing /\ recorder' \notin {"starting", "on"}
      BY <2>12 DEF Done, Leave, Restart, Abandon
    <3> QED BY <3>1, <3>2, AbandonDecision
  <2> QED
    BY <2>1, <2>2, <2>3, <2>4, <2>5, <2>6, <2>7, <2>8, <2>9, <2>10, <2>11, <2>12
       DEF ConsentNext, consentVars
<1> QED BY InitDecision, <1>1, PTL DEF ConsentSpec

\* A take that runs or is queued was decided upon for its own number and direction,
\* and announced where it has to be, unless something was edited after the decision.
THEOREM TakesAreDecided == ConsentSpec => []RecordedAsDecided
<1>1. DecisionInv => RecordedAsDecided
  <2> SUFFICES ASSUME DecisionInv PROVE RecordedAsDecided
    OBVIOUS
  <2>1. ASSUME Queued
        PROVE  saving.edited \/ /\ saving.take.policy.record
                                /\ saving.take.policy.number = saving.number
                                /\ saving.take.policy.direction = saving.direction
                                /\ saving.take.policy.required => saving.take.policy.announced
                                /\ saving.consent
    BY <2>1 DEF Queued, DecisionInv, TakeIsDecided, Permitted
  <2>2. ASSUME recorder = "on"
        PROVE  edited \/ /\ take.policy.record
                         /\ take.policy.number = screen.number /\ take.policy.direction = screen.direction
                         /\ take.policy.required => take.policy.announced
    BY <2>2 DEF DecisionInv, TakeIsDecided, Begun, Permitted
  <2> QED BY <2>1, <2>2 DEF RecordedAsDecided
<1> QED BY <1>1, DecisionInvariant, PTL

-----------------------------------------------------------------------------
(* The call a take belongs to *)

Logged == saving # Nothing /\ saving.step \in {"logged", "queued"}
Stopping == saving # Nothing /\ saving.step = "stopping"

\* Few references are in use, so that new Date() always finds another.
RefsAreFew ==
  /\ ~Logged => \E x : DOMAIN calls \subseteq {x}
  /\ Logged /\ saving.here /\ recorder # "on" =>
       \E x, y : DOMAIN calls \subseteq {x, y} /\ screen.started \in {x, y, Nothing}

\* The screen that has taken the place of one that is still saving asks nothing and
\* begins nothing.
NewScreenWaits ==
  saving # Nothing /\ ~saving.here => check = Nothing /\ screen.policy = Nothing /\ ~Begun

\* No call has been logged under the reference of a take that is not finished, unless
\* an earlier finish has done so, and then it is never saved.
TakeIsUnlogged ==
  /\ recorder = "on" /\ screen.phase = "recording" /\ saving = Nothing =>
       screen.started \notin DOMAIN calls
  /\ Stopping /\ saving.take # Nothing /\ saving.here => screen.started \notin DOMAIN calls

TakeIsLogged ==
  Logged /\ saving.take # Nothing =>
    /\ saving.call \in DOMAIN calls
    /\ calls[saving.call].number = saving.number
    /\ calls[saving.call].direction = saving.direction

SavingSteps == saving # Nothing => saving.step \in {"stopping", "logged", "queued"}

CallsInv ==
  ScreenShaped /\ SavingSteps /\ RefsAreFew /\ NewScreenWaits /\ TakeIsUnlogged /\ TakeIsLogged

LEMMA TwoTimesLeaveOne ==
  ASSUME NEW x, NEW y
  PROVE  \E t \in Times : t # x /\ t # y
<1> SUFFICES ASSUME Times \subseteq {x, y} PROVE FALSE
  OBVIOUS
<1>1. IsFiniteSet({x}) /\ Cardinality({x}) = 1
  BY FS_Singleton
<1>2. {x, y} = {x} \cup {y}
  OBVIOUS
<1>3. IsFiniteSet({x, y}) /\ Cardinality({x, y}) <= 2
  BY <1>1, <1>2, FS_AddElement
<1>4. IsFiniteSet(Times) /\ Cardinality(Times) <= Cardinality({x, y})
  BY <1>3, FS_Subset
<1>5. Cardinality(Times) \in Nat /\ Cardinality({x, y}) \in Nat
  BY <1>3, <1>4, FS_CardinalityType
<1> QED BY <1>3, <1>4, <1>5, ConsentAssumption

LEMMA NowIsNew ==
  ASSUME NEW x, NEW y, DOMAIN calls \subseteq {x, y}, screen.started \in {x, y, Nothing}
  PROVE  Now \in Times /\ Now # screen.started /\ Now \notin DOMAIN calls
<1>1. PICK t \in Times : t # x /\ t # y
  BY TwoTimesLeaveOne
<1>2. t # screen.started /\ t \notin DOMAIN calls
  BY <1>1, ConsentAssumption
<1> QED BY <1>2 DEF Now

LEMMA NowIsNewUnlogged ==
  ASSUME RefsAreFew, ~Logged
  PROVE  Now \in Times /\ Now # screen.started /\ Now \notin DOMAIN calls
<1>1. PICK x : DOMAIN calls \subseteq {x}
  BY DEF RefsAreFew
<1>2. DOMAIN calls \subseteq {x, screen.started} /\ screen.started \in {x, screen.started, Nothing}
  BY <1>1
<1> QED BY <1>2, NowIsNew

LEMMA InitCalls == ConsentInit => CallsInv
<1> SUFFICES ASSUME ConsentInit PROVE CallsInv
  OBVIOUS
<1>1. saving = Nothing /\ calls = <<>> /\ recorder = "off"
  BY DEF ConsentInit
<1>2. ScreenShaped
  BY InitDecision DEF DecisionInv
<1> QED BY <1>1, <1>2 DEF CallsInv, SavingSteps, RefsAreFew, NewScreenWaits, TakeIsUnlogged, TakeIsLogged,
                          Logged, Stopping

\* A step that touches neither the calls nor what is being saved nor the reference,
\* and begins no take.
LEMMA CallsRest ==
  ASSUME CallsInv, ScreenShaped', UNCHANGED <<calls, saving>>, screen'.started = screen.started,
         screen'.phase = "recording" => screen.phase = "recording",
         recorder' = "on" <=> recorder = "on",
         saving # Nothing /\ ~saving.here => check' = Nothing /\ screen'.policy = Nothing /\ ~Begun'
  PROVE  CallsInv'
<1>1. SavingSteps' /\ RefsAreFew' /\ NewScreenWaits' /\ TakeIsLogged'
  BY DEF CallsInv, SavingSteps, RefsAreFew, NewScreenWaits, TakeIsLogged, Logged
<1>2. TakeIsUnlogged'
  BY DEF CallsInv, TakeIsUnlogged, Stopping
<1> QED BY <1>1, <1>2 DEF CallsInv

LEMMA ControlsCalls ==
  ASSUME CallsInv, ScreenShaped',
         \/ EditNumber \/ FlipDirection \/ CheckPolicy \/ CheckAnswered \/ CheckFails
         \/ ToggleConsent \/ StartRecording
  PROVE  CallsInv'
<1>0. ScreenShaped
  BY DEF CallsInv
<1>1. UNCHANGED <<calls, saving>> /\ (recorder' = "on" <=> recorder = "on")
  BY DEF EditNumber, FlipDirection, CheckPolicy, CheckAnswered, CheckFails, ToggleConsent, StartRecording
<1>2. screen'.started = screen.started /\ (screen'.phase = "recording" => screen.phase = "recording")
  BY <1>0 DEF EditNumber, FlipDirection, Flipped, CheckPolicy, CheckAnswered, CheckFails, ToggleConsent,
              StartRecording, ScreenShaped
<1>3. ASSUME saving # Nothing, ~saving.here
      PROVE  check' = Nothing /\ screen'.policy = Nothing /\ ~Begun'
  <2>1. check = Nothing /\ screen.policy = Nothing /\ ~Begun
    BY <1>3 DEF CallsInv, NewScreenWaits
  <2>2. FlipDirection \/ CheckFails
    BY <1>3, <2>1 DEF EditNumber, CheckPolicy, CheckAnswered, ToggleConsent, StartRecording, Patience, Decided
  <2> QED BY <1>0, <2>1, <2>2 DEF FlipDirection, Flipped, CheckFails, Begun, ScreenShaped
<1> QED BY <1>1, <1>2, <1>3, CallsRest

LEMMA StartedCalls ==
  ASSUME CallsInv, ScreenShaped', Started
  PROVE  CallsInv'
<1>0. ScreenShaped
  BY DEF CallsInv
<1>1. CASE recorder' = "off" /\ UNCHANGED <<screen, check, saving, calls>>
  BY <1>0, <1>1, CallsRest DEF Started, Begun, CallsInv, NewScreenWaits
<1>2. CASE recorder' = "on" /\ screen' = [screen EXCEPT !.phase = "recording", !.started = StartedAt(Now)]
  <2>1. UNCHANGED <<check, saving, calls>> /\ recorder = "starting"
    BY DEF Started
  <2>2. screen'.started = Now
    BY <1>0, <1>2 DEF ScreenShaped, StartedAt
  <2>3. saving # Nothing => saving.here
    BY <2>1 DEF CallsInv, NewScreenWaits, Begun
  <2>4. Now \notin DOMAIN calls
    <3>1. CASE Logged
      <4>1. PICK x, y : DOMAIN calls \subseteq {x, y} /\ screen.started \in {x, y, Nothing}
        BY <2>1, <2>3, <3>1 DEF CallsInv, RefsAreFew, Logged
      <4> QED BY <4>1, NowIsNew
    <3>2. CASE ~Logged
      BY <3>2, NowIsNewUnlogged DEF CallsInv
    <3> QED BY <3>1, <3>2
  <2>5. SavingSteps' /\ RefsAreFew' /\ NewScreenWaits' /\ TakeIsLogged'
    BY <1>2, <2>1, <2>3 DEF CallsInv, SavingSteps, RefsAreFew, NewScreenWaits, TakeIsLogged, Logged
  <2>6. TakeIsUnlogged'
    BY <2>1, <2>2, <2>4 DEF TakeIsUnlogged, Stopping
  <2> QED BY <2>5, <2>6 DEF CallsInv
<1> QED BY <1>1, <1>2 DEF Started

LEMMA FinishCalls ==
  ASSUME CallsInv, ScreenShaped', StopAndSave \/ Discard \/ LogOnly
  PROVE  CallsInv'
<1>0. ScreenShaped
  BY DEF CallsInv
<1>1. PICK withRecording \in BOOLEAN :
        Finish(withRecording) /\ (withRecording => screen.phase = "recording")
  BY DEF StopAndSave, Discard, LogOnly
<1>2. /\ saving = Nothing /\ UNCHANGED <<check, calls>>
      /\ saving' # Nothing /\ saving'.step = "stopping" /\ saving'.here
      /\ saving'.take # Nothing => recorder = "on" /\ screen.phase = "recording"
  BY <1>1 DEF Finish, Nothing
<1>3. screen'.started = screen.started
  BY <1>0, <1>1 DEF Finish, ScreenShaped
<1>4. SavingSteps' /\ RefsAreFew' /\ NewScreenWaits' /\ TakeIsLogged'
  BY <1>2 DEF CallsInv, SavingSteps, RefsAreFew, NewScreenWaits, TakeIsLogged, Logged
<1>5. TakeIsUnlogged'
  BY <1>2, <1>3 DEF CallsInv, TakeIsUnlogged
<1> QED BY <1>4, <1>5 DEF CallsInv

LEMMA LogCallCalls ==
  ASSUME CallsInv, ScreenShaped', LogCall
  PROVE  CallsInv'
<1>0. ScreenShaped
  BY DEF CallsInv
<1> DEFINE ref == IF screen.started = Nothing \/ ~saving.here THEN Now ELSE screen.started
<1>1. /\ saving # Nothing /\ saving.step = "stopping"
      /\ UNCHANGED <<screen, check, recorder, take, edited>>
      /\ calls' = IF ref \in DOMAIN calls THEN calls
                  ELSE [r \in DOMAIN calls \cup {ref} |->
                          IF r = ref THEN [number |-> saving.number, direction |-> saving.direction]
                          ELSE calls[r]]
      /\ saving' = [saving EXCEPT !.step = "logged", !.call = ref]
  BY DEF LogCall
<1>2. Now \notin DOMAIN calls
  BY <1>1, NowIsNewUnlogged DEF CallsInv, Logged
<1>3. PICK x : DOMAIN calls \subseteq {x}
  BY <1>1 DEF CallsInv, RefsAreFew, Logged
<1>4. saving.take # Nothing => ref \notin DOMAIN calls
  BY <1>1, <1>2 DEF CallsInv, TakeIsUnlogged, Stopping
<1>5. screen.started = Nothing \/ ~saving.here \/ screen.started = ref
  OBVIOUS
<1> HIDE DEF ref
<1>6. /\ saving' # Nothing /\ saving'.step = "logged" /\ saving'.call = ref
      /\ saving'.here = saving.here /\ saving'.take = saving.take
      /\ saving'.number = saving.number /\ saving'.direction = saving.direction
  BY <1>0, <1>1 DEF ScreenShaped, Nothing
<1>7. DOMAIN calls' = DOMAIN calls \cup {ref}
  BY <1>1
<1>8. SavingSteps' /\ TakeIsUnlogged'
  BY <1>6 DEF SavingSteps, TakeIsUnlogged, Stopping
<1>9. RefsAreFew'
  <2>1. DOMAIN calls' \subseteq {x, ref}
    BY <1>3, <1>7
  <2>2. saving.here => screen'.started \in {x, ref, Nothing}
    BY <1>1, <1>5
  <2> QED BY <1>6, <2>1, <2>2 DEF RefsAreFew, Logged
<1>10. NewScreenWaits'
  BY <1>1, <1>6 DEF CallsInv, NewScreenWaits, Begun
<1>11. TakeIsLogged'
  <2>1. ref \notin DOMAIN calls =>
          calls'[ref] = [number |-> saving.number, direction |-> saving.direction]
    BY <1>1
  <2> QED BY <1>4, <1>6, <1>7, <2>1 DEF TakeIsLogged
<1> QED BY <1>8, <1>9, <1>10, <1>11 DEF CallsInv

LEMMA EnqueueCalls ==
  ASSUME CallsInv, ScreenShaped', Enqueue
  PROVE  CallsInv'
<1>1. /\ saving # Nothing /\ saving.step = "logged"
      /\ UNCHANGED <<screen, check, recorder, calls>>
      /\ saving' = [saving EXCEPT !.step = "queued"]
  BY DEF Enqueue
<1>2. /\ saving' # Nothing /\ saving'.step = "queued" /\ saving'.call = saving.call
      /\ saving'.here = saving.here /\ saving'.take = saving.take
      /\ saving'.number = saving.number /\ saving'.direction = saving.direction
  BY <1>1 DEF CallsInv, ScreenShaped, Nothing
<1>3. SavingSteps' /\ RefsAreFew' /\ NewScreenWaits'
  BY <1>1, <1>2 DEF CallsInv, SavingSteps, RefsAreFew, NewScreenWaits, Logged, Begun
<1>4. TakeIsUnlogged' /\ TakeIsLogged'
  BY <1>1, <1>2 DEF CallsInv, TakeIsUnlogged, TakeIsLogged, Logged, Stopping
<1> QED BY <1>3, <1>4 DEF CallsInv

LEMMA FailsCalls ==
  ASSUME CallsInv, ScreenShaped', FinishFails
  PROVE  CallsInv'
<1>0. ScreenShaped
  BY DEF CallsInv
<1>1. /\ saving # Nothing /\ saving' = Nothing /\ UNCHANGED recorder
      /\ DOMAIN calls' \subseteq {screen.started}
  BY DEF FinishFails, Restrict
<1>2. recorder' # "on" \/ screen'.phase # "recording"
  <2>1. CASE saving.here
    BY <1>0, <2>1 DEF FinishFails, ScreenShaped
  <2>2. CASE ~saving.here
    BY <1>1, <2>2 DEF CallsInv, NewScreenWaits, Begun
  <2> QED BY <2>1, <2>2
<1> QED BY <1>1, <1>2 DEF CallsInv, SavingSteps, RefsAreFew, NewScreenWaits, TakeIsUnlogged, TakeIsLogged,
                          Logged, Stopping

LEMMA LeaveCalls ==
  ASSUME CallsInv, ScreenShaped', Done \/ Leave \/ Restart
  PROVE  CallsInv'
<1>1. screen' = Fresh /\ check' = Nothing /\ ~Begun'
  BY DEF Done, Leave, Restart, Abandon, Begun
<1>2. CASE saving' = Nothing
  <2>1. calls' = <<>>
    <3>1. saving # Nothing => [saving EXCEPT !.here = FALSE] # Nothing
      <4>1. saving # Nothing => "here" \in DOMAIN [saving EXCEPT !.here = FALSE]
        BY DEF CallsInv, ScreenShaped
      <4>2. "here" \notin DOMAIN Nothing
        BY DEF Nothing
      <4> QED BY <4>1, <4>2
    <3> QED BY <1>2, <3>1 DEF Done, Leave, Restart
  <2> QED BY <1>1, <1>2, <2>1 DEF CallsInv, SavingSteps, RefsAreFew, NewScreenWaits, TakeIsUnlogged,
                                  TakeIsLogged, Logged, Stopping, Begun
<1>3. CASE saving' # Nothing
  <2>1. /\ saving # Nothing /\ saving' = [saving EXCEPT !.here = FALSE]
        /\ calls' = Restrict(calls, DOMAIN calls \cap {saving.call})
    BY <1>3 DEF Done, Leave, Restart
  <2>2. /\ ~saving'.here /\ saving'.step = saving.step /\ saving'.call = saving.call
        /\ saving'.take = saving.take
        /\ saving'.number = saving.number /\ saving'.direction = saving.direction
    BY <2>1 DEF CallsInv, ScreenShaped
  <2>3. /\ DOMAIN calls' \subseteq {saving.call}
        /\ saving.call \in DOMAIN calls =>
             saving.call \in DOMAIN calls' /\ calls'[saving.call] = calls[saving.call]
    BY <2>1 DEF Restrict
  <2>4. SavingSteps' /\ RefsAreFew' /\ NewScreenWaits' /\ TakeIsUnlogged'
    BY <1>1, <1>3, <2>1, <2>2, <2>3
       DEF CallsInv, SavingSteps, RefsAreFew, NewScreenWaits, TakeIsUnlogged, Stopping, Logged, Fresh
  <2>5. TakeIsLogged'
    BY <1>3, <2>1, <2>2, <2>3 DEF CallsInv, TakeIsLogged, Logged
  <2> QED BY <2>4, <2>5 DEF CallsInv
<1> QED BY <1>2, <1>3

LEMMA CallsInvariant == ConsentSpec => []CallsInv
<1>1. CallsInv /\ ScreenShaped' /\ [ConsentNext]_consentVars => CallsInv'
  <2> SUFFICES ASSUME CallsInv, ScreenShaped', [ConsentNext]_consentVars PROVE CallsInv'
    OBVIOUS
  <2>1. CASE UNCHANGED consentVars \/ Administer \/ WritePolicy
    <3>1. UNCHANGED <<screen, check, recorder, saving, calls>>
      BY <2>1 DEF consentVars, Administer, WritePolicy
    <3> QED BY <3>1, CallsRest DEF CallsInv, NewScreenWaits, Begun
  <2> QED
    BY <2>1, ControlsCalls, StartedCalls, FinishCalls, LogCallCalls, EnqueueCalls, FailsCalls, LeaveCalls
       DEF ConsentNext
<1>2. DecisionInv => ScreenShaped
  BY DEF DecisionInv
<1> QED BY InitCalls, <1>1, <1>2, DecisionInvariant, PTL DEF ConsentSpec

\* A take is queued for a call that was logged with its own number and direction,
\* whatever failed, was begun again or was left before.
THEOREM TakesBelong == ConsentSpec => []TakeBelongsToItsCall
<1>1. CallsInv => TakeBelongsToItsCall
  BY DEF CallsInv, TakeIsLogged, Logged, TakeBelongsToItsCall, Queued
<1> QED BY <1>1, CallsInvariant, PTL
=============================================================================
