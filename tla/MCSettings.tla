----------------------------- MODULE MCSettings -----------------------------
(* What supervisors and administrators set, against what is done under it *)
(* meanwhile: the settings against the analyses of a call, the recording  *)
(* policies against each other's edits, and the policies against the call *)
(* screen.  One of the three per behaviour. *)
EXTENDS InsightsProps, ConsentProps, TLC

VARIABLE subject

LowerCase == [n \in Names \cup Answers |-> n]
SomeScales == {<<1, 2>>, <<4, 5>>}

Policy(enabled, inbound, outbound, consent) ==
  [enabled |-> enabled, inbound |-> inbound, outbound |-> outbound, consent |-> consent]
SomeOwnRows == {Policy(TRUE, FALSE, TRUE, TRUE)}
SomeCustomerRows == {Policy(FALSE, TRUE, TRUE, TRUE)}
SomeChanges == {[enabled |-> FALSE], [enabled |-> TRUE], [consent |-> FALSE]}

\* The screen meets policies that stay as they are.
SettingsInit ==
  /\ subject \in {"insights", "policies", "screen"}
  /\ Init /\ ConsentInit
  /\ subject # "screen" => DOMAIN policies = {Own}
  /\ admin = IF subject = "screen" THEN MaxAdmin ELSE 0

SettingsNext ==
  /\ UNCHANGED subject
  /\ \/ subject = "insights" /\ Next /\ UNCHANGED consentVars
     \/ subject = "policies" /\ (Administer \/ WritePolicy) /\ UNCHANGED vars
     \/ subject = "screen" /\ ConsentNext /\ UNCHANGED vars

SettingsSpec == SettingsInit /\ [][SettingsNext]_<<subject, vars, consentVars>>

Sym == Permutations(CategoryIds) \cup Permutations(Editors)
         \cup Permutations(Admins)
=============================================================================
