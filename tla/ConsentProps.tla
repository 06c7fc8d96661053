---------------------------- MODULE ConsentProps ----------------------------
(* What must hold of the policies and of the takes made under them. *)
EXTENDS Consent

\* A take is in the hands of the upload queue.
Queued == saving # Nothing /\ saving.step = "queued" /\ saving.take # Nothing

\* A take that runs or is queued was decided upon by the server for its own number
\* and direction, and announced where that decision asks for it (call.tsx:19-23),
\* whatever else the agent touched - except that the code does not keep up with a
\* number changed after the decision, nor with changes during a question or a start.
RecordedAsDecided ==
  /\ Queued =>
       saving.edited \/ /\ saving.take.policy.record
                        /\ saving.take.policy.number = saving.number
                        /\ saving.take.policy.direction = saving.direction
                        /\ saving.take.policy.required => saving.take.policy.announced
                        /\ saving.consent
  /\ recorder = "on" =>
       edited \/ /\ take.policy.record
                 /\ take.policy.number = screen.number /\ take.policy.direction = screen.direction
                 /\ take.policy.required => take.policy.announced

\* A queued take is attached to a call logged with its own number and direction, also
\* after answers that were lost, takes begun again and screens left in between.
TakeBelongsToItsCall ==
  Queued => /\ calls[saving.call].number = saving.number
            /\ calls[saving.call].direction = saving.direction

\* A number that is not to be recorded comes to be recorded only by a step that
\* switches it on: a PATCH of another field, held across the moment it was switched
\* off, does not switch it on again (update_policy).
SwitchedOn(n) ==
  \/ ~Has(n) /\ policies'[n].enabled
  \/ \E a \in Admins : /\ patches[a] # Nothing /\ patches'[a] = Nothing
                       /\ patches[a].number = n
                       /\ "enabled" \in DOMAIN patches[a].change /\ patches[a].change.enabled

OnlyOptInsRecord ==
  [][\A n \in DOMAIN policies' :
       policies'[n].enabled /\ (Has(n) => ~policies[n].enabled) => SwitchedOn(n)]_consentVars

\* "Recording never starts until the policy for the number says so and the consent
\* announcement has been made" (recorder.ts:36-37).
RecordingPermitted ==
  recorder \in {"starting", "on"} =>
    /\ take.policy.record /\ (take.policy.required => take.policy.announced)
    /\ take.policy.number = take.number /\ take.policy.direction = take.direction
=============================================================================
