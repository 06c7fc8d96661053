------------------------------- MODULE Roster -------------------------------
(***************************************************************************)
(* Who is at work, and who may say so: agents pair handsets by one-time    *)
(* codes (api/v1/auth.py, mobile lib/session.tsx), handsets report their   *)
(* agent's status (api/v1/mobile.py, services/presence.py), and every      *)
(* change is broadcast to the dashboards that hold a socket (api/v1/ws.py, *)
(* web lib/realtime.ts).                                                   *)
(*                                                                         *)
(* A request loads its rows when it authenticates and commits later; the   *)
(* counts a dashboard is sent were taken at some version of the roster,    *)
(* and the model sends that version for them.                              *)
(***************************************************************************)
EXTENDS Integers, FiniteSets, Sequences, SequencesExt, Functions, Patch

CONSTANTS
  Agents, Handsets, Codes, Dashboards,
  Requests,      \* requests in flight
  Statuses,      \* what an agent may report: AgentStatus
  MaxVersion,    \* changes of the roster
  MaxFaults      \* broken sockets, requests and servers

ASSUME RosterAssumption ==
  /\ "offline" \in Statuses /\ MaxVersion \in Nat \ {0} /\ MaxFaults \in Nat
  /\ IsFiniteSet(Handsets) /\ IsFiniteSet(Requests) /\ 0 \notin Codes

None == 0
NoRequest == [step |-> "none"]

VARIABLES
  agents,       \* agent -> [status, active]
  version,      \* how often the counts may have changed
  codes,        \* pairing_codes: code -> [agent, used, expired]
  devices,      \* in the order they were paired: [agent, revoked, code]
  handsets,     \* handset -> the device whose token it keeps, or None
  requests,     \* the requests the API is working on
  browsers,     \* dashboard -> [state, snap, shown]: its socket and its view
  tokens,       \* dashboard -> the access token it keeps: "good", "expired", "refused"
  hub,          \* PresenceHub._connections
  faults,
  lone,         \* history: nothing overlapped the last change
  excused       \* history: agents whose status no unpairing could settle

people == <<agents, version>>
pairing == <<codes, devices, handsets>>
sockets == <<browsers, tokens, hub>>
rosterVars == <<people, pairing, requests, sockets, faults, lone, excused>>

Closed == [state |-> "closed", snap |-> 0, shown |-> 0]

\* Some handsets have been paired already.
RosterInit ==
  /\ agents = [a \in Agents |-> [status |-> "offline", active |-> TRUE]] /\ version = 1
  /\ codes = <<>>
  /\ \E S \in SUBSET Handsets : \E of \in [S -> Agents] :
       LET order == SetToSeq(S)
       IN  /\ devices = [i \in DOMAIN order |-> [agent |-> of[order[i]], revoked |-> FALSE, code |-> None]]
           /\ handsets = [h \in Handsets |-> IF h \in S THEN CHOOSE i \in DOMAIN order : order[i] = h
                                             ELSE None]
  /\ requests = [r \in Requests |-> NoRequest]
  /\ browsers = [b \in Dashboards |-> Closed] /\ hub = {}
  /\ tokens \in [Dashboards -> {"good", "refused"}]      \* refused: of a user who is no staff
  /\ faults = 0 /\ lone = TRUE /\ excused = {}

Set(r, req) == requests' = [requests EXCEPT ![r] = req]
Step(r, step) == requests[r].step = step

-----------------------------------------------------------------------------
(* Pairing.                                                                *)

CreatePairingCode ==
  /\ \E c \in Codes \ DOMAIN codes, a \in Agents :
       codes' = [x \in DOMAIN codes \cup {c} |->
                   IF x = c THEN [agent |-> a, used |-> FALSE, expired |-> FALSE] ELSE codes[x]]
  /\ UNCHANGED <<people, devices, handsets, requests, sockets, faults, lone, excused>>

CodeExpires ==
  /\ \E c \in DOMAIN codes : ~codes[c].expired /\ codes' = [codes EXCEPT ![c].expired = TRUE]
  /\ UNCHANGED <<people, devices, handsets, requests, sockets, faults, lone, excused>>

\* pair_device tests the code it has read ...
PairRead ==
  /\ \E r \in Requests, h \in Handsets, c \in DOMAIN codes :
       /\ Step(r, "none") /\ handsets[h] = None
       /\ ~codes[c].used /\ ~codes[c].expired /\ agents[codes[c].agent].active
       /\ Set(r, [step |-> "read", handset |-> h, code |-> c])
  /\ UNCHANGED <<people, pairing, sockets, faults, lone, excused>>

UsedForgotten(c) == codes                         \* variant: used_at is not set
UsedUp(c) == [codes EXCEPT ![c].used = TRUE]

\* ... and in one commit adds the device and sets used_at.
PairCommit ==
  /\ \E r \in Requests :
       /\ Step(r, "read")
       /\ LET c == requests[r].code
          IN  /\ devices' = Append(devices, [agent |-> codes[c].agent, revoked |-> FALSE, code |-> c])
              /\ codes' = UsedUp(c)
       /\ Set(r, [requests[r] EXCEPT !.step = "paired", !.code = Len(devices) + 1])
  /\ UNCHANGED <<people, handsets, sockets, faults, lone, excused>>

\* The handset saves its token; or the answer is lost, or the app killed first.
PairAnswered ==
  /\ \E r \in Requests :
       /\ Step(r, "paired") /\ Set(r, NoRequest)
       /\ \/ handsets' = [handsets EXCEPT ![requests[r].handset] = requests[r].code]
          \/ UNCHANGED handsets
  /\ UNCHANGED <<people, codes, devices, sockets, faults, lone, excused>>

\* The agent's status stays as it is, and no one is told.
RevokeDevice ==
  /\ \E d \in DOMAIN devices :
       /\ ~devices[d].revoked
       /\ devices' = [devices EXCEPT ![d].revoked = TRUE]
       /\ excused' = excused \cup {devices[d].agent}
  /\ UNCHANGED <<people, codes, handsets, requests, sockets, faults, lone>>

\* deactivate_agent, and update_agent with is_active.  No one is told.
SwitchAgent ==
  /\ version < MaxVersion /\ version' = version + 1
  /\ \E a \in Agents : agents' = [agents EXCEPT ![a].active = ~@]
  /\ lone' = FALSE
  /\ UNCHANGED <<pairing, requests, sockets, faults, excused>>

Valid(h) ==
  /\ handsets[h] # None /\ ~devices[handsets[h]].revoked
  /\ agents[devices[handsets[h]].agent].active

\* At startup a refused token is forgotten; unpairing forgets it whatever the
\* server answers, or though it does not.
ForgetToken ==
  /\ \E h \in Handsets : handsets[h] # None /\ handsets' = [handsets EXCEPT ![h] = None]
  /\ UNCHANGED <<people, codes, devices, requests, sockets, faults, lone, excused>>

-----------------------------------------------------------------------------
(* Status reports and unpairing.                                           *)

Telling(r) == requests[r].step \in {"committed", "counted", "sending"}

\* get_current_device.  Handsets do not wait for one report to be answered before
\* they send the next.
Authenticate ==
  /\ \E r \in Requests, h \in Handsets, kind \in {"status", "unpair"}, want \in Statuses :
       /\ Step(r, "none") /\ Valid(h) /\ (kind = "unpair" => want = "offline")
       /\ LET a == devices[handsets[h]].agent
              same == {q \in Requests : Step(q, "loaded") /\ requests[q].agent = a}
          IN  requests' = [q \in Requests |->
                IF q = r THEN [step |-> "loaded", kind |-> kind, agent |-> a,
                               device |-> handsets[h], held |-> agents[a], want |-> want,
                               counted |-> version, alone |-> same = {}]
                ELSE IF q \in same THEN [requests[q] EXCEPT !.alone = FALSE] ELSE requests[q]]
  /\ UNCHANGED <<people, pairing, sockets, faults, lone, excused>>

\* variant: unpair only revokes
UnpairSilently(req) == IF req.kind = "unpair" THEN req.held.status ELSE req.want
StatusSet(req) == req.want

\* set_status commits, for unpair together with revoked_at.
Commit ==
  /\ \E r \in Requests :
       /\ Step(r, "loaded")
       /\ LET req == requests[r]
              new == Written(agents[req.agent], req.held, [status |-> StatusSet(req)])
          IN  /\ agents' = [agents EXCEPT ![req.agent] = new]
              /\ new # agents[req.agent] => version < MaxVersion
              /\ version' = IF new # agents[req.agent] THEN version + 1 ELSE version
              /\ devices' = IF req.kind = "unpair" THEN [devices EXCEPT ![req.device].revoked = TRUE]
                            ELSE devices
              /\ excused' = IF req.kind = "status" THEN excused
                            ELSE IF req.alone THEN excused \ {req.agent} ELSE excused \cup {req.agent}
       /\ Set(r, [step |-> "committed", counted |-> requests[r].counted])
       /\ lone' = /\ \A q \in Requests \ {r} : ~Telling(q)
                  /\ \A b \in Dashboards : browsers[b].state \in {"closed", "open"}
  /\ UNCHANGED <<codes, handsets, sockets, faults>>

CountedAtLoad(req) == req.counted                 \* variant: counted before the commit
Counted(req) == version

\* The broadcast of agent.status only makes pages reload.  Then the snapshot ...
Count ==
  /\ \E r \in Requests :
       /\ Step(r, "committed")
       /\ Set(r, [step |-> "counted", counted |-> Counted(requests[r])])
  /\ UNCHANGED <<people, pairing, sockets, faults, lone, excused>>

\* ... the copy of the connections, under the lock ...
CopyTargets ==
  /\ \E r \in Requests :
       /\ Step(r, "counted")
       /\ Set(r, [step |-> "sending", counted |-> requests[r].counted, targets |-> hub])
  /\ UNCHANGED <<people, pairing, sockets, faults, lone, excused>>

\* ... and one send after the other.
Send ==
  /\ \E r \in Requests :
       /\ Step(r, "sending")
       /\ \E b \in requests[r].targets :
            /\ browsers' = [browsers EXCEPT ![b].shown = requests[r].counted]
            /\ Set(r, [requests[r] EXCEPT !.targets = @ \ {b}])
  /\ UNCHANGED <<people, pairing, tokens, hub, faults, lone, excused>>

\* Without a dashboard the three come to nothing.
Answer ==
  /\ \E r \in Requests :
       /\ \/ Step(r, "sending") /\ requests[r].targets = {}
          \/ Step(r, "committed") /\ hub = {}
       /\ Set(r, NoRequest)
  /\ UNCHANGED <<people, pairing, sockets, faults, lone, excused>>

-----------------------------------------------------------------------------
(* Dashboards.                                                             *)

\* A token lives for an hour; a socket that is open stays open.
TokenExpires(b) ==
  /\ tokens[b] = "good" /\ tokens' = [tokens EXCEPT ![b] = "expired"]
  /\ UNCHANGED <<people, pairing, requests, browsers, hub, faults, lone, excused>>

\* Only a request of the page that is answered 401 has it renewed (api.ts); when that
\* fails the tokens are dropped and the socket is tried with the old one.
TokenRenewed(b) ==
  /\ tokens[b] = "expired"
  /\ \E t \in {"good", "refused"} : tokens' = [tokens EXCEPT ![b] = t]
  /\ UNCHANGED <<people, pairing, requests, browsers, hub, faults, lone, excused>>

\* dashboard_socket counts, then connects, then sends.  With any other token it closes
\* the socket before that, and the dashboard stays closed until its next attempt.
Handshake(b) ==
  /\ browsers[b].state = "closed" /\ tokens[b] = "good"
  /\ browsers' = [browsers EXCEPT ![b].state = "counted", ![b].snap = version]
  /\ UNCHANGED <<people, pairing, requests, tokens, hub, faults, lone, excused>>

Connect(b) ==
  /\ browsers[b].state = "counted"
  /\ browsers' = [browsers EXCEPT ![b].state = "connected"]
  /\ hub' = hub \cup {b}
  /\ UNCHANGED <<people, pairing, requests, tokens, faults, lone, excused>>

SendState(b) ==
  /\ browsers[b].state = "connected"
  /\ browsers' = [browsers EXCEPT ![b] = [state |-> "open", snap |-> 0, shown |-> @.snap]]
  /\ UNCHANGED <<people, pairing, requests, tokens, hub, faults, lone, excused>>

GivenUp == "gone"                                 \* variant: connects only once
Reconnecting == "closed"

Lost(S) == [b \in Dashboards |->
              IF b \in S /\ browsers[b].state # "closed"
                THEN [browsers[b] EXCEPT !.state = Reconnecting, !.snap = 0] ELSE browsers[b]]

\* The browser keeps what it shows and will reconnect; what is sent into the dead
\* socket reaches no one, and takes it out of the hub.
Break ==
  /\ faults < MaxFaults /\ faults' = faults + 1
  /\ \E b \in Dashboards :
       /\ browsers[b].state # "closed" /\ browsers' = Lost({b}) /\ hub' = hub \ {b}
       /\ requests' = [r \in Requests |->
                         IF Step(r, "sending") THEN [requests[r] EXCEPT !.targets = @ \ {b}]
                         ELSE requests[r]]
  /\ UNCHANGED <<people, pairing, tokens, lone, excused>>

\* A request fails between two of its steps.
RequestDies ==
  /\ faults < MaxFaults /\ faults' = faults + 1
  /\ \E r \in Requests : /\ ~Step(r, "none") /\ Set(r, NoRequest)
                         /\ lone' = (lone /\ ~Telling(r))
  /\ UNCHANGED <<people, pairing, sockets, excused>>

ServerRestarts ==
  /\ faults < MaxFaults /\ faults' = faults + 1
  /\ requests' = [r \in Requests |-> NoRequest]
  /\ browsers' = Lost(Dashboards) /\ hub' = {}
  /\ lone' = (lone /\ \A r \in Requests : ~Telling(r))
  /\ UNCHANGED <<people, pairing, tokens, excused>>

PairingNext ==
  CreatePairingCode \/ CodeExpires \/ PairRead \/ PairCommit \/ PairAnswered
    \/ RevokeDevice \/ ForgetToken
StatusNext == SwitchAgent \/ Authenticate \/ Commit \/ Count \/ CopyTargets \/ Send \/ Answer
SocketNext ==
  \/ \E b \in Dashboards : Handshake(b) \/ Connect(b) \/ SendState(b)
  \/ \E b \in Dashboards : TokenExpires(b) \/ TokenRenewed(b)
  \/ Break \/ RequestDies \/ ServerRestarts

RosterNext == PairingNext \/ StatusNext \/ SocketNext

\* The browser tries again within half a minute of the last attempt, so it does while
\* a token that lives for an hour is good; the server's handler runs.
RosterFairness ==
  \A b \in Dashboards :
    SF_rosterVars(Handshake(b)) /\ WF_rosterVars(Connect(b)) /\ WF_rosterVars(SendState(b))

RosterSpec == RosterInit /\ [][RosterNext]_rosterVars /\ RosterFairness
=============================================================================
