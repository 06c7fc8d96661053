---------------------------- MODULE RosterProps -----------------------------
(* What must hold of pairing, presence and the dashboards. *)
EXTENDS Roster

\* Once a change of status that nothing overlapped has been told, every connected
\* dashboard shows the roster as it is (presence.py:7-9).  Nothing is claimed of two
\* changes at once, whose counts may arrive in the other order and stay.
LoneChangeIsShown ==
  lone /\ (\A r \in Requests : ~Telling(r)) =>
    \A b \in Dashboards : browsers[b].state = "open" => browsers[b].shown = version

\* An agent who is online has a handset paired, unless an administrator took it away
\* or reports overlapped the unpairing: unpair revokes and goes offline in one commit.
OnlineIsPaired ==
  \A a \in Agents \ excused :
    agents[a].status # "offline" =>
      \E d \in DOMAIN devices : devices[d].agent = a /\ ~devices[d].revoked

\* A code that has given a device is used up: it never passes the test again, and what
\* it still gives goes to requests that had passed before (pair_device tests the code
\* in one step and marks it in a later one).
CodesAreSpent ==
  [][/\ \A r \in Requests :
          requests'[r] # requests[r] /\ requests'[r].step = "read" =>
            \A d \in DOMAIN devices : devices[d].code # requests'[r].code
     /\ \A d \in DOMAIN devices' \ DOMAIN devices :
          \E r \in Requests : /\ Step(r, "read") /\ requests[r].code = devices'[d].code
                              /\ requests'[r].step # "read"]_rosterVars

\* "Mint a one-time code for an agent to type into the mobile app" (auth.py): a code
\* gives one device.  It gives two to requests that both read it unused.
OneDevicePerCode ==
  \A d, e \in DOMAIN devices : devices[d].code # None /\ devices[d].code = devices[e].code => d = e

\* A dashboard that is left open is connected again and again for as long as its token
\* is renewed again and again, whatever sockets and servers break.  Nothing the socket
\* does renews it.
DashboardsReconnect ==
  \A b \in Dashboards : []<>(tokens[b] = "good") => []<>(browsers[b].state = "open")
=============================================================================
