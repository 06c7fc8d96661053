------------------------------- MODULE Consent -------------------------------
(***************************************************************************)
(* May this call be recorded?  Administrators keep a policy per number     *)
(* (api/v1/policies.py), the server decides from two of them               *)
(* (services/policies.py), and the handset's call screen (app/call.tsx)    *)
(* asks, has the announcement confirmed, records (lib/recorder.ts), logs   *)
(* the call and queues the take.                                           *)
(*                                                                         *)
(* The screen's handlers await the server and the microphone, and the      *)
(* agent may use whatever control is shown meanwhile.  A PATCH is loaded   *)
(* in one step and written in another, as in Insights.                     *)
(***************************************************************************)
EXTENDS Integers, FiniteSets, Functions, Patch

CONSTANTS
  Own,           \* the agent's number
  Customers,     \* the numbers agents call
  OwnRows, CustomerRows,   \* the policies administrators enter
  Changes,       \* what a PATCH sets: field -> value
  Admins,        \* their requests in flight
  MaxAdmin,      \* what administrators do, all told
  Times          \* what new Date() may say

Nothing == [none |-> TRUE]

ASSUME ConsentAssumption ==
  /\ Own \notin Customers /\ MaxAdmin \in Nat
  /\ OwnRows \cup CustomerRows \subseteq
       [enabled : BOOLEAN, inbound : BOOLEAN, outbound : BOOLEAN, consent : BOOLEAN]
  /\ Cardinality(Times) >= 3 /\ Nothing \notin Times

Shown == {"outbound", "inbound"}                  \* the directions the screen offers
Directions == Shown \cup {"unknown"}

VARIABLES
  policies,     \* phone_number_policies: number -> row
  patches,      \* admin -> the PATCH it is in: [number, held, change]
  admin,        \* how often administrators have acted, before and since
  screen,       \* the call screen: [phase, number, direction, policy, consent, started]
  check,        \* the question checkPolicy awaits the answer of
  recorder,     \* "off", "starting", "on", or "left": begun by a screen that is gone
  take,         \* what the running take was begun under, or Nothing
  saving,       \* what finish holds: [step, screen's values, the take]
  calls,        \* the server's calls whose external_ref the handset may still send:
                \* when it was -> [number, direction]
  edited        \* history: the screen changed under a question, a start or an answer

consentVars == <<policies, patches, admin, screen, check, recorder, take, saving, calls, edited>>
office == <<policies, patches, admin>>

Fresh == [phase |-> "setup", number |-> CHOOSE n \in Customers : TRUE,
          direction |-> "outbound", policy |-> Nothing, consent |-> FALSE, started |-> Nothing]

\* The agent's number has been given a policy, and some customers have.
ConsentInit ==
  /\ \E S \in SUBSET Customers :
       policies \in {p \in [S \cup {Own} -> OwnRows \cup CustomerRows] :
                       p[Own] \in OwnRows /\ \A n \in S : p[n] \in CustomerRows}
  /\ patches = [a \in Admins |-> Nothing] /\ admin \in 0..MaxAdmin
  /\ screen = Fresh /\ check = Nothing /\ recorder = "off" /\ take = Nothing
  /\ saving = Nothing /\ calls = <<>> /\ edited = FALSE

-----------------------------------------------------------------------------
(* The policies.                                                           *)

Has(n) == n \in DOMAIN policies
OptedOut(c) == Has(c) /\ ~policies[c].enabled
Allowed(row, d) ==
  CASE d = "unknown" -> row.inbound \/ row.outbound
    [] d = "inbound" -> row.inbound
    [] OTHER -> row.outbound

\* decide: the customer's refusal first, then the agent's number; no row, no recording.
Records(c, d) == ~OptedOut(c) /\ Has(Own) /\ policies[Own].enabled /\ Allowed(policies[Own], d)
ConsentRequired(c) ==
  IF OptedOut(c) THEN policies[c].consent ELSE Has(Own) => policies[Own].consent
Decide(c, d) == [record |-> Records(c, d), required |-> ConsentRequired(c),
                 number |-> c, direction |-> d, announced |-> FALSE]

\* A second row for a number is refused.
CreatePolicy ==
  \E n \in (Customers \cup {Own}) \ DOMAIN policies :
    /\ \E row \in IF n = Own THEN OwnRows ELSE CustomerRows :
         policies' = [x \in DOMAIN policies \cup {n} |-> IF x = n THEN row ELSE policies[x]]
    /\ UNCHANGED patches

\* The UPDATE of a row that is gone fails.
DeletePolicy ==
  \E n \in DOMAIN policies :
    /\ policies' = [x \in DOMAIN policies \ {n} |-> policies[x]]
    /\ patches' = [a \in Admins |->
                     IF patches[a] # Nothing /\ patches[a].number = n THEN Nothing ELSE patches[a]]

LoadPolicy ==
  \E a \in Admins, n \in DOMAIN policies, change \in Changes :
    /\ patches[a] = Nothing
    /\ patches' = [patches EXCEPT ![a] = [number |-> n, held |-> policies[n], change |-> change]]
    /\ UNCHANGED policies

WritePolicy ==
  \E a \in Admins :
    /\ patches[a] # Nothing
    /\ LET p == patches[a]
       IN  policies' = [policies EXCEPT ![p.number] = Written(@, p.held, p.change)]
    /\ patches' = [patches EXCEPT ![a] = Nothing]
    /\ UNCHANGED <<admin, screen, check, recorder, take, saving, calls, edited>>

Administer ==
  /\ admin < MaxAdmin /\ admin' = admin + 1
  /\ CreatePolicy \/ DeletePolicy \/ LoadPolicy
  /\ UNCHANGED <<screen, check, recorder, take, saving, calls, edited>>

-----------------------------------------------------------------------------
(* The call screen.                                                        *)

Editable == screen.phase \in {"setup", "ready"}
Decided == screen.policy # Nothing /\ screen.phase # "recording"   \* the decision's card shows
InFlight == check # Nothing \/ recorder \in {"starting", "on"}

\* While a finish is under way the agent may flip, confirm, start and leave, but asks
\* and types nothing new: the bound Patience.
Patience == saving = Nothing

\* Any edit: the decision on show, and what is in flight, stay as they are.
EditNumber ==
  /\ Patience /\ Editable
  /\ \E n \in Customers \ {screen.number} : screen' = [screen EXCEPT !.number = n]
  /\ edited' = (edited \/ InFlight \/ screen.policy # Nothing)
  /\ UNCHANGED <<office, check, recorder, take, saving, calls>>

FlippedKeepsPolicy(d) == [screen EXCEPT !.direction = d, !.phase = "setup"]   \* variant
Flipped(d) == [screen EXCEPT !.direction = d, !.policy = Nothing, !.phase = "setup"]

FlipDirection ==
  /\ screen.phase # "recording"
  /\ \E d \in Shown : screen' = Flipped(d)
  /\ edited' = (edited \/ InFlight)
  /\ UNCHANGED <<office, check, recorder, take, saving, calls>>

CheckPolicy ==
  /\ Patience /\ screen.phase # "recording" /\ check = Nothing
  /\ check' = [number |-> screen.number, direction |-> screen.direction]
  /\ screen' = [screen EXCEPT !.policy = Nothing]
  /\ edited' = (recorder \in {"starting", "on"})
  /\ UNCHANGED <<office, recorder, take, saving, calls>>

CheckAnswered ==
  /\ check # Nothing
  /\ LET d == Decide(check.number, check.direction)
     IN  screen' = [screen EXCEPT !.policy = d, !.consent = ~d.required, !.phase = "ready"]
  /\ check' = Nothing
  /\ UNCHANGED <<office, recorder, take, saving, calls, edited>>

CheckFails ==
  /\ check # Nothing /\ check' = Nothing
  /\ UNCHANGED <<office, screen, recorder, take, saving, calls, edited>>

\* The switch: "I read this out and the customer agreed".
ToggleConsent ==
  /\ Decided /\ screen.policy.record /\ screen.policy.required
  /\ screen' = [screen EXCEPT !.consent = ~@, !.policy.announced = ~screen.consent]
  /\ edited' = (edited \/ InFlight)
  /\ UNCHANGED <<office, check, recorder, take, saving, calls>>

CanRecord == screen.policy.record /\ screen.consent

\* A second start fails, the microphone being taken.
StartRecording ==
  /\ Decided /\ CanRecord /\ recorder = "off"
  /\ recorder' = "starting"
  /\ take' = [policy |-> screen.policy, consent |-> screen.consent,
              number |-> screen.number, direction |-> screen.direction]
  /\ UNCHANGED <<office, screen, check, saving, calls, edited>>

StartedOnce(now) == IF screen.started = Nothing THEN now ELSE screen.started  \* variant
StartedAt(now) == now

\* new Date() differs from every earlier one: here, from those still in use.
Now == CHOOSE t \in Times : t # screen.started /\ t \notin DOMAIN calls

Started ==
  /\ recorder = "starting"
  /\ \/ /\ recorder' = "on"
        /\ screen' = [screen EXCEPT !.phase = "recording", !.started = StartedAt(Now)]
        /\ UNCHANGED take
     \/ /\ recorder' = "off" /\ take' = Nothing        \* no permission, no microphone
        /\ UNCHANGED screen
  /\ UNCHANGED <<office, check, saving, calls, edited>>

-----------------------------------------------------------------------------
(* finish.  It goes on with the values of the render its button was in,    *)
(* but for startedAt, a ref.  The recorder lets go of the take at once.    *)

Finish(withRecording) ==
  /\ saving = Nothing
  /\ saving' = [step |-> "stopping", here |-> TRUE, call |-> Nothing,
                number |-> screen.number, direction |-> screen.direction,
                consent |-> screen.consent, edited |-> edited,
                take |-> IF withRecording /\ recorder = "on" THEN take ELSE Nothing]
  /\ IF recorder = "on" THEN recorder' = "off" /\ take' = Nothing ELSE UNCHANGED <<recorder, take>>
  /\ screen' = [screen EXCEPT !.phase = "saving"]
  /\ UNCHANGED <<office, check, calls, edited>>

StopAndSave == screen.phase = "recording" /\ Finish(TRUE)
Discard == screen.phase = "recording" /\ Finish(FALSE)
LogOnly == Decided /\ ~screen.policy.record /\ screen.phase # "saving" /\ Finish(FALSE)

\* log_call.  A reference it has seen is answered with the call made of it.
LogCall ==
  /\ saving # Nothing /\ saving.step = "stopping"
  /\ LET ref == IF screen.started = Nothing \/ ~saving.here THEN Now ELSE screen.started
     IN  /\ calls' = IF ref \in DOMAIN calls THEN calls
                     ELSE [r \in DOMAIN calls \cup {ref} |->
                             IF r = ref THEN [number |-> saving.number, direction |-> saving.direction]
                             ELSE calls[r]]
         /\ saving' = [saving EXCEPT !.step = "logged", !.call = ref]
  /\ UNCHANGED <<office, screen, check, recorder, take, edited>>

Enqueue ==
  /\ saving # Nothing /\ saving.step = "logged"
  /\ saving' = [saving EXCEPT !.step = "queued"]
  /\ UNCHANGED <<office, screen, check, recorder, take, calls, edited>>

\* The stop, the request, its answer or the queue fails.  Nothing holds the take now.
FinishFails ==
  /\ saving # Nothing /\ saving.step # "queued" /\ saving' = Nothing
  /\ screen' = IF saving.here THEN [screen EXCEPT !.phase = "ready"] ELSE screen
  /\ calls' = Restrict(calls, DOMAIN calls \cap {screen.started})
  /\ UNCHANGED <<office, check, recorder, take, edited>>

\* A screen that goes cancels its take; one still starting is then recorded for nobody.
Abandon ==
  /\ screen' = Fresh /\ check' = Nothing /\ edited' = FALSE /\ take' = Nothing
  /\ recorder' = CASE recorder = "on" -> "off" [] recorder = "starting" -> "left" [] OTHER -> recorder
  /\ UNCHANGED office

\* The take is queued; the screen gives way to the list of uploads.
Done ==
  /\ saving # Nothing /\ saving.step = "queued" /\ saving' = Nothing
  /\ calls' = <<>>
  /\ Abandon

Leave ==
  /\ saving' = IF saving = Nothing THEN Nothing ELSE [saving EXCEPT !.here = FALSE]
  /\ calls' = IF saving = Nothing THEN <<>> ELSE Restrict(calls, DOMAIN calls \cap {saving.call})
  /\ Abandon

\* The app is killed and opened again.
Restart ==
  /\ screen' = Fresh /\ check' = Nothing /\ edited' = FALSE
  /\ recorder' = "off" /\ take' = Nothing /\ saving' = Nothing /\ calls' = <<>>
  /\ UNCHANGED office

ConsentNext ==
  \/ Administer \/ WritePolicy
  \/ EditNumber \/ FlipDirection \/ CheckPolicy \/ CheckAnswered \/ CheckFails
  \/ ToggleConsent \/ StartRecording \/ Started
  \/ StopAndSave \/ Discard \/ LogOnly \/ LogCall \/ Enqueue \/ Done \/ FinishFails
  \/ Leave \/ Restart

ConsentSpec == ConsentInit /\ [][ConsentNext]_consentVars
=============================================================================
