------------------------------ MODULE MCRoster ------------------------------
(* Handsets that report while dashboards come and go, dashboards whose tokens *)
(* expire meanwhile, and handsets that are paired and unpaired while they     *)
(* report: one of the three per behaviour. *)
EXTENDS RosterProps

VARIABLE subject

RosterRunInit ==
  /\ subject \in {"presence", "tokens", "pairing"}
  /\ RosterInit
  /\ subject # "pairing" => \A h \in Handsets : handsets[h] # None
  /\ subject = "presence" => \A b \in Dashboards : tokens[b] = "good"
  /\ subject = "pairing" => Len(devices) = 1 /\ \A b \in Dashboards : tokens[b] = "refused"

\* Without pairing everyone reports; without dashboards no one is told; and a token
\* matters only to a dashboard that is closed, whatever is told to the others.
RosterRunNext ==
  /\ UNCHANGED subject
  /\ \/ subject = "presence" /\ (StatusNext \/ SocketNext) /\ UNCHANGED tokens
     \/ subject = "tokens" /\ SocketNext
     \/ subject = "pairing" /\ (PairingNext \/ Authenticate \/ Commit \/ Answer)

RosterRunSpec ==
  RosterRunInit /\ [][RosterRunNext]_<<subject, rosterVars>> /\ RosterFairness
=============================================================================
