---------------------------- MODULE RosterProofs ----------------------------
(***************************************************************************)
(* Theorems about Roster for any agents, handsets, codes, dashboards and   *)
(* requests in flight, any number of changes and of faults.                *)
(***************************************************************************)
EXTENDS RosterProps, FiniteSetTheorems, SequenceTheorems, TLAPS

-----------------------------------------------------------------------------
(* Shapes *)

Device == [agent : Agents, revoked : BOOLEAN, code : Codes \cup {None}]

\* A request, given the devices and the codes there are.
RequestShaped(q, paired, known) ==
  \/ q = NoRequest
  \/ q.step = "read" /\ DOMAIN q = {"step", "handset", "code"} /\ q.handset \in Handsets /\ q.code \in known
  \/ /\ q.step = "paired" /\ DOMAIN q = {"step", "handset", "code"}
     /\ q.handset \in Handsets /\ q.code \in DOMAIN paired
  \/ /\ q.step = "loaded"
     /\ DOMAIN q = {"step", "kind", "agent", "device", "held", "want", "counted", "alone"}
     /\ q.kind \in {"status", "unpair"} /\ (q.kind = "unpair" => q.want = "offline")
     /\ q.device \in DOMAIN paired /\ paired[q.device].agent = q.agent
     /\ DOMAIN q.held = {"status", "active"}
  \/ q.step \in {"committed", "counted"} /\ DOMAIN q = {"step", "counted"}
  \/ q.step = "sending" /\ DOMAIN q = {"step", "counted", "targets"}

PeopleShaped == DOMAIN agents = Agents /\ \A a \in Agents : DOMAIN agents[a] = {"status", "active"}

PairingShaped ==
  /\ devices \in Seq(Device)
  /\ DOMAIN codes \subseteq Codes
  /\ \A c \in DOMAIN codes : DOMAIN codes[c] = {"agent", "used", "expired"} /\ codes[c].agent \in Agents
  /\ DOMAIN handsets = Handsets /\ \A h \in Handsets : handsets[h] = None \/ handsets[h] \in DOMAIN devices

RequestsShaped ==
  DOMAIN requests = Requests /\ \A r \in Requests : RequestShaped(requests[r], devices, DOMAIN codes)

RosterShaped == PeopleShaped /\ PairingShaped /\ RequestsShaped

LEMMA ListedOnce ==
  ASSUME NEW S, IsFiniteSet(S)
  PROVE  /\ SetToSeq(S) \in [1..Cardinality(S) -> S] /\ Cardinality(S) \in Nat
         /\ \A x \in S : \E i \in 1..Cardinality(S) : SetToSeq(S)[i] = x
<1> DEFINE D == 1..Cardinality(S)
           order == SetToSeq(S)
<1>1. Cardinality(S) \in Nat /\ ExistsBijection(D, S)
  BY FS_CardinalityType
<1>2. PICK f : f \in Bijection(D, S)
  BY <1>1 DEF ExistsBijection
<1>3. f \in [D -> S] /\ IsInjective(f)
  BY <1>2 DEF Bijection, Injection, IsInjective
<1>4. order \in [D -> S] /\ IsInjective(order)
  BY <1>3 DEF SetToSeq
<1>5. order \in Injection(D, S)
  BY <1>4 DEF Injection, IsInjective
<1>6. IsFiniteSet(D) /\ Cardinality(D) = Cardinality(S)
  BY <1>1, FS_Interval
<1>7. order \in Surjection(D, S)
  BY <1>1, <1>5, <1>6, FS_Injection, FS_CardinalityType
<1> QED BY <1>1, <1>4, <1>7 DEF Surjection

LEMMA InitShaped == RosterInit => RosterShaped
<1> SUFFICES ASSUME RosterInit PROVE RosterShaped
  OBVIOUS
<1>0. PICK S \in SUBSET Handsets : \E of \in [S -> Agents] :
        /\ devices = [i \in DOMAIN SetToSeq(S) |-> [agent |-> of[SetToSeq(S)[i]], revoked |-> FALSE, code |-> None]]
        /\ handsets = [h \in Handsets |-> IF h \in S THEN CHOOSE i \in DOMAIN SetToSeq(S) : SetToSeq(S)[i] = h
                                          ELSE None]
  BY DEF RosterInit
<1>1. PICK of \in [S -> Agents] :
        /\ devices = [i \in DOMAIN SetToSeq(S) |-> [agent |-> of[SetToSeq(S)[i]], revoked |-> FALSE, code |-> None]]
        /\ handsets = [h \in Handsets |-> IF h \in S THEN CHOOSE i \in DOMAIN SetToSeq(S) : SetToSeq(S)[i] = h
                                          ELSE None]
  BY <1>0
<1>2. IsFiniteSet(S)
  BY RosterAssumption, FS_Subset
<1> DEFINE order == SetToSeq(S)
           n == Cardinality(S)
<1>3. order \in [1..n -> S] /\ n \in Nat /\ \A x \in S : \E i \in 1..n : order[i] = x
  BY <1>2, ListedOnce
<1>4. devices \in [1..n -> Device]
  BY <1>1, <1>3 DEF Device
<1>5. devices \in Seq(Device) /\ DOMAIN devices = 1..n
  BY <1>3, <1>4
<1>6. \A h \in Handsets : handsets[h] = None \/ handsets[h] \in DOMAIN devices
  BY <1>1, <1>3, <1>5
<1>7. DOMAIN agents = Agents /\ \A a \in Agents : DOMAIN agents[a] = {"status", "active"}
  BY DEF RosterInit
<1>8. DOMAIN codes = {} /\ DOMAIN handsets = Handsets
  BY <1>1 DEF RosterInit
<1>9. RequestsShaped
  BY DEF RosterInit, RequestShaped, RequestsShaped
<1> QED BY <1>5, <1>6, <1>7, <1>8, <1>9 DEF RosterShaped, PeopleShaped, PairingShaped

\* What a request refers to stays, as devices and codes only grow in number.
Kept(before, after) ==
  /\ DOMAIN before \subseteq DOMAIN after
  /\ \A d \in DOMAIN before : after[d].agent = before[d].agent

LEMMA RequestKept ==
  ASSUME NEW q, NEW before, NEW after, NEW known, NEW more,
         RequestShaped(q, before, known), Kept(before, after), known \subseteq more
  PROVE  RequestShaped(q, after, more)
BY DEF RequestShaped, Kept

LEMMA RequestsRest ==
  ASSUME RequestsShaped, Kept(devices, devices'), DOMAIN codes \subseteq DOMAIN codes',
         DOMAIN requests' = Requests,
         \A r \in Requests : \/ requests'[r] = requests[r]
                             \/ RequestShaped(requests'[r], devices', DOMAIN codes')
  PROVE  RequestsShaped'
BY RequestKept DEF RequestsShaped

LEMMA DevicesAppend ==
  ASSUME NEW s \in Seq(Device), NEW d \in Device
  PROVE  /\ Append(s, d) \in Seq(Device) /\ Kept(s, Append(s, d))
         /\ DOMAIN Append(s, d) = DOMAIN s \cup {Len(s) + 1} /\ Len(s) + 1 \notin DOMAIN s
         /\ Append(s, d)[Len(s) + 1] = d
         /\ \A i \in DOMAIN s : Append(s, d)[i] = s[i]
<1>1. Append(s, d) \in Seq(Device) /\ Len(Append(s, d)) = Len(s) + 1
  BY AppendProperties
<1>2. Len(s) \in Nat /\ DOMAIN s = 1..Len(s) /\ DOMAIN Append(s, d) = 1..(Len(s) + 1)
  BY <1>1, LenProperties
<1>3. /\ Append(s, d)[Len(s) + 1] = d
      /\ \A i \in 1..Len(s) : Append(s, d)[i] = s[i]
  BY AppendProperties
<1> QED BY <1>1, <1>2, <1>3 DEF Kept

Revoked(s, d) == [s EXCEPT ![d].revoked = TRUE]

LEMMA DevicesRevoked ==
  ASSUME NEW s \in Seq(Device), NEW d \in DOMAIN s
  PROVE  /\ Revoked(s, d) \in Seq(Device) /\ Kept(s, Revoked(s, d)) /\ DOMAIN Revoked(s, d) = DOMAIN s
         /\ \A i \in DOMAIN s : /\ Revoked(s, d)[i].code = s[i].code
                                /\ Revoked(s, d)[i].agent = s[i].agent
                                /\ i # d => Revoked(s, d)[i] = s[i]
<1> DEFINE t == Revoked(s, d)
<1>1. \A i \in DOMAIN s : s[i] \in Device
  BY ElementOfSeq, LenProperties
<1>2. Len(s) \in Nat /\ DOMAIN s = 1..Len(s)
  BY LenProperties
<1>3. DOMAIN t = DOMAIN s /\ t = [i \in DOMAIN s |-> t[i]] /\ \A i \in DOMAIN s : t[i] = IF i = d THEN [s[i] EXCEPT !.revoked = TRUE] ELSE s[i]
  BY DEF Revoked
<1> HIDE DEF t
<1>4. ASSUME NEW i \in DOMAIN s
      PROVE  t[i] \in Device /\ t[i].agent = s[i].agent /\ t[i].code = s[i].code
  <2>1. s[i] \in [agent : Agents, revoked : BOOLEAN, code : Codes \cup {None}]
    BY <1>1 DEF Device
  <2>2. t[i] = s[i] \/ t[i] = [s[i] EXCEPT !.revoked = TRUE]
    BY <1>3
  <2> QED BY <2>1, <2>2 DEF Device
<1>5. t = [i \in 1..Len(s) |-> t[i]]
  BY <1>2, <1>3
<1>6. t \in Seq(Device)
  BY <1>2, <1>3, <1>4, <1>5
<1>7. /\ Kept(s, t)
      /\ \A i \in DOMAIN s : t[i].code = s[i].code /\ t[i].agent = s[i].agent /\ (i # d => t[i] = s[i])
  BY <1>3, <1>4 DEF Kept
<1> QED BY <1>3, <1>6, <1>7 DEF t

\* Who is paired, and by which codes, is changed by these steps.
LEMMA PairingShape ==
  ASSUME RosterShaped, PairingNext
  PROVE  RosterShaped'
<1>0. PeopleShaped'
  BY DEF PairingNext, CreatePairingCode, CodeExpires, PairRead, PairCommit, PairAnswered, RevokeDevice,
         ForgetToken, people, RosterShaped, PeopleShaped
<1>1. CASE CreatePairingCode
  <2>1. PICK c \in Codes \ DOMAIN codes, a \in Agents :
          codes' = [x \in DOMAIN codes \cup {c} |->
                      IF x = c THEN [agent |-> a, used |-> FALSE, expired |-> FALSE] ELSE codes[x]]
    BY <1>1 DEF CreatePairingCode
  <2>2. UNCHANGED <<devices, handsets, requests>>
    BY <1>1 DEF CreatePairingCode
  <2>3. PairingShaped'
    BY <2>1, <2>2 DEF RosterShaped, PairingShaped
  <2>4. RequestsShaped'
    BY <2>1, <2>2, RequestsRest DEF RosterShaped, RequestsShaped, Kept
  <2> QED BY <1>0, <2>3, <2>4 DEF RosterShaped
<1>2. CASE CodeExpires
  <2>1. PICK c \in DOMAIN codes : codes' = [codes EXCEPT ![c].expired = TRUE]
    BY <1>2 DEF CodeExpires
  <2>2. UNCHANGED <<devices, handsets, requests>>
    BY <1>2 DEF CodeExpires
  <2>3. PairingShaped'
    BY <2>1, <2>2 DEF RosterShaped, PairingShaped
  <2>4. RequestsShaped'
    BY <2>1, <2>2, RequestsRest DEF RosterShaped, RequestsShaped, Kept
  <2> QED BY <1>0, <2>3, <2>4 DEF RosterShaped
<1>3. CASE PairRead
  <2>1. PICK r \in Requests, h \in Handsets, c \in DOMAIN codes :
          requests' = [requests EXCEPT ![r] = [step |-> "read", handset |-> h, code |-> c]]
    BY <1>3 DEF PairRead, Set
  <2>2. UNCHANGED <<devices, codes, handsets>>
    BY <1>3 DEF PairRead, pairing
  <2>3. PairingShaped'
    BY <2>2 DEF RosterShaped, PairingShaped
  <2>4. RequestShaped([step |-> "read", handset |-> h, code |-> c], devices', DOMAIN codes')
    BY <2>2 DEF RequestShaped
  <2>5. RequestsShaped'
    BY <2>1, <2>2, <2>4, RequestsRest DEF RosterShaped, RequestsShaped, Kept
  <2> QED BY <1>0, <2>3, <2>5 DEF RosterShaped
<1>4. CASE PairCommit
  <2>1. PICK r \in Requests :
          /\ Step(r, "read")
          /\ devices' = Append(devices, [agent |-> codes[requests[r].code].agent, revoked |-> FALSE,
                                         code |-> requests[r].code])
          /\ codes' = UsedUp(requests[r].code)
          /\ requests' = [requests EXCEPT ![r] = [requests[r] EXCEPT !.step = "paired", !.code = Len(devices) + 1]]
    BY <1>4 DEF PairCommit, Set
  <2>2. UNCHANGED handsets
    BY <1>4 DEF PairCommit
  <2>3. /\ DOMAIN requests[r] = {"step", "handset", "code"} /\ requests[r].handset \in Handsets
        /\ requests[r].code \in DOMAIN codes
    BY <2>1 DEF RosterShaped, RequestsShaped, RequestShaped, Step, NoRequest
  <2>4. [agent |-> codes[requests[r].code].agent, revoked |-> FALSE, code |-> requests[r].code] \in Device
    BY <2>3 DEF RosterShaped, PairingShaped, Device
  <2>5. /\ devices' \in Seq(Device) /\ Kept(devices, devices')
        /\ DOMAIN devices' = DOMAIN devices \cup {Len(devices) + 1}
    BY <2>1, <2>4, DevicesAppend DEF RosterShaped, PairingShaped
  <2>6. DOMAIN codes' = DOMAIN codes
    BY <2>1 DEF UsedUp
  <2>7. PairingShaped'
    BY <2>1, <2>2, <2>5 DEF RosterShaped, PairingShaped, UsedUp
  <2>8. RequestShaped(requests'[r], devices', DOMAIN codes')
    <3>1. /\ requests'[r].step = "paired" /\ DOMAIN requests'[r] = {"step", "handset", "code"}
          /\ requests'[r].handset = requests[r].handset /\ requests'[r].code = Len(devices) + 1
      BY <2>1, <2>3 DEF RosterShaped, RequestsShaped
    <3> QED BY <2>3, <2>5, <3>1 DEF RequestShaped
  <2>9. RequestsShaped'
    BY <2>1, <2>5, <2>6, <2>8, RequestsRest DEF RosterShaped, RequestsShaped
  <2> QED BY <1>0, <2>7, <2>9 DEF RosterShaped
<1>5. CASE PairAnswered
  <2>1. PICK r \in Requests :
          /\ Step(r, "paired") /\ requests' = [requests EXCEPT ![r] = NoRequest]
          /\ \/ handsets' = [handsets EXCEPT ![requests[r].handset] = requests[r].code]
             \/ UNCHANGED handsets
    BY <1>5 DEF PairAnswered, Set
  <2>2. UNCHANGED <<devices, codes>>
    BY <1>5 DEF PairAnswered
  <2>3. requests[r].code \in DOMAIN devices
    BY <2>1 DEF RosterShaped, RequestsShaped, RequestShaped, Step, NoRequest
  <2>4. PairingShaped'
    BY <2>1, <2>2, <2>3 DEF RosterShaped, PairingShaped
  <2>5. RequestsShaped'
    BY <2>1, <2>2, RequestsRest DEF RosterShaped, RequestsShaped, RequestShaped, Kept
  <2> QED BY <1>0, <2>4, <2>5 DEF RosterShaped
<1>6. CASE RevokeDevice
  <2>1. PICK d \in DOMAIN devices : devices' = Revoked(devices, d)
    BY <1>6 DEF RevokeDevice, Revoked
  <2>2. UNCHANGED <<codes, handsets, requests>>
    BY <1>6 DEF RevokeDevice
  <2>3. devices' \in Seq(Device) /\ Kept(devices, devices') /\ DOMAIN devices' = DOMAIN devices
    BY <2>1, DevicesRevoked DEF RosterShaped, PairingShaped
  <2>4. PairingShaped'
    BY <2>2, <2>3 DEF RosterShaped, PairingShaped
  <2>5. RequestsShaped'
    BY <2>2, <2>3, RequestsRest DEF RosterShaped, RequestsShaped
  <2> QED BY <1>0, <2>4, <2>5 DEF RosterShaped
<1>7. CASE ForgetToken
  <2>1. UNCHANGED <<devices, codes, requests>> /\ \E h \in Handsets : handsets' = [handsets EXCEPT ![h] = None]
    BY <1>7 DEF ForgetToken
  <2>2. PairingShaped'
    BY <2>1 DEF RosterShaped, PairingShaped
  <2>3. RequestsShaped'
    BY <2>1 DEF RosterShaped, RequestsShaped
  <2> QED BY <1>0, <2>2, <2>3 DEF RosterShaped
<1> QED BY <1>1, <1>2, <1>3, <1>4, <1>5, <1>6, <1>7 DEF PairingNext

\* A step that leaves people and pairing alone, and puts nothing in a request but a
\* word of how far it has come.
Told(q) ==
  \/ q = NoRequest
  \/ q.step \in {"committed", "counted"} /\ DOMAIN q = {"step", "counted"}
  \/ q.step = "sending" /\ DOMAIN q = {"step", "counted", "targets"}

LEMMA RequestsTold ==
  ASSUME RosterShaped,
         \/ Count \/ CopyTargets \/ Send \/ Answer \/ Break \/ RequestDies \/ ServerRestarts
         \/ \E b \in Dashboards : Handshake(b) \/ Connect(b) \/ SendState(b)
                                        \/ TokenExpires(b) \/ TokenRenewed(b)
  PROVE  /\ DOMAIN requests' = Requests
         /\ \A r \in Requests : requests'[r] = requests[r] \/ Told(requests'[r])
<1>0. DOMAIN requests = Requests
  BY DEF RosterShaped, RequestsShaped
<1>1. CASE Count \/ CopyTargets
  BY <1>0, <1>1 DEF Count, CopyTargets, Set, Told
<1>2. CASE Send
  <2>1. PICK r \in Requests :
          /\ Step(r, "sending")
          /\ \E b : requests' = [requests EXCEPT ![r] = [requests[r] EXCEPT !.targets = @ \ {b}]]
    BY <1>2 DEF Send, Set
  <2>2. DOMAIN requests[r] = {"step", "counted", "targets"}
    BY <2>1 DEF RosterShaped, RequestsShaped, RequestShaped, Step, NoRequest
  <2>3. Told(requests'[r])
    BY <1>0, <2>1, <2>2 DEF Told, Step
  <2> QED BY <1>0, <2>1, <2>3
<1>3. CASE Answer \/ RequestDies \/ ServerRestarts
  BY <1>0, <1>3 DEF Answer, RequestDies, ServerRestarts, Set, Told
<1>4. CASE Break
  <2>1. PICK b \in Dashboards : requests' = [r \in Requests |->
                       IF Step(r, "sending") THEN [requests[r] EXCEPT !.targets = @ \ {b}]
                       ELSE requests[r]]
    BY <1>4 DEF Break
  <2>2. \A r \in Requests : Step(r, "sending") => DOMAIN requests[r] = {"step", "counted", "targets"}
    BY DEF RosterShaped, RequestsShaped, RequestShaped, Step, NoRequest
  <2> QED BY <2>1, <2>2 DEF Told, Step
<1>5. CASE \E b \in Dashboards : Handshake(b) \/ Connect(b) \/ SendState(b)
  BY <1>0, <1>5 DEF Handshake, Connect, SendState
<1>6. CASE \E b \in Dashboards : TokenExpires(b) \/ TokenRenewed(b)
  BY <1>0, <1>6 DEF TokenExpires, TokenRenewed
<1> QED BY <1>1, <1>2, <1>3, <1>4, <1>5, <1>6

LEMMA TellingShape ==
  ASSUME RosterShaped, UNCHANGED <<agents, pairing>>, DOMAIN requests' = Requests,
         \A r \in Requests : requests'[r] = requests[r] \/ Told(requests'[r])
  PROVE  RosterShaped'
<1>1. PeopleShaped' /\ PairingShaped'
  BY DEF RosterShaped, PeopleShaped, PairingShaped, pairing
<1>2. \A r \in Requests : \/ requests'[r] = requests[r]
                          \/ RequestShaped(requests'[r], devices', DOMAIN codes')
  BY DEF Told, RequestShaped
<1>3. RequestsShaped'
  BY <1>2, RequestsRest DEF RosterShaped, RequestsShaped, Kept, pairing
<1> QED BY <1>1, <1>3 DEF RosterShaped

LEMMA AuthenticateSteps ==
  ASSUME RosterShaped, Authenticate, NEW q \in Requests
  PROVE  requests'[q] = requests[q] \/ (requests'[q].step = "loaded" /\ requests[q].step \in {"none", "loaded"})
<1>1. PICK r \in Requests, h \in Handsets, kind \in {"status", "unpair"}, want \in Statuses :
        /\ Step(r, "none") /\ Valid(h) /\ (kind = "unpair" => want = "offline")
        /\ LET a == devices[handsets[h]].agent
               same == {p \in Requests : Step(p, "loaded") /\ requests[p].agent = a}
           IN  requests' = [p \in Requests |->
                 IF p = r THEN [step |-> "loaded", kind |-> kind, agent |-> a,
                                device |-> handsets[h], held |-> agents[a], want |-> want,
                                counted |-> version, alone |-> same = {}]
                 ELSE IF p \in same THEN [requests[p] EXCEPT !.alone = FALSE] ELSE requests[p]]
  BY DEF Authenticate
<1>2. CASE q = r
  BY <1>1, <1>2 DEF Step
<1>3. CASE q # r
  <2>1. \/ requests'[q] = requests[q]
        \/ Step(q, "loaded") /\ requests'[q] = [requests[q] EXCEPT !.alone = FALSE]
    BY <1>1, <1>3
  <2>2. Step(q, "loaded") => {"step", "alone"} \subseteq DOMAIN requests[q]
    BY DEF RosterShaped, RequestsShaped, RequestShaped, Step, NoRequest
  <2> QED BY <2>1, <2>2 DEF Step
<1> QED BY <1>2, <1>3

LEMMA AuthenticateShape ==
  ASSUME RosterShaped, Authenticate
  PROVE  RosterShaped'
<1>1. PICK r \in Requests, h \in Handsets, kind \in {"status", "unpair"}, want \in Statuses :
        /\ Step(r, "none") /\ Valid(h) /\ (kind = "unpair" => want = "offline")
        /\ LET a == devices[handsets[h]].agent
               same == {q \in Requests : Step(q, "loaded") /\ requests[q].agent = a}
           IN  requests' = [q \in Requests |->
                 IF q = r THEN [step |-> "loaded", kind |-> kind, agent |-> a,
                                device |-> handsets[h], held |-> agents[a], want |-> want,
                                counted |-> version, alone |-> same = {}]
                 ELSE IF q \in same THEN [requests[q] EXCEPT !.alone = FALSE] ELSE requests[q]]
  BY DEF Authenticate
<1> DEFINE a == devices[handsets[h]].agent
<1>2. UNCHANGED <<agents, devices, codes, handsets>>
  <2>1. UNCHANGED <<people, pairing>>
    BY DEF Authenticate
  <2> QED BY <2>1 DEF people, pairing
<1>3. handsets[h] \in DOMAIN devices /\ a \in Agents
  <2>1. handsets[h] \in DOMAIN devices
    BY <1>1 DEF Valid, RosterShaped, PairingShaped
  <2>2. devices[handsets[h]] \in Device
    BY <2>1, ElementOfSeq, LenProperties DEF RosterShaped, PairingShaped
  <2> QED BY <2>1, <2>2 DEF Device
<1>4. RequestShaped(requests'[r], devices', DOMAIN codes')
  <2>1. /\ requests'[r].step = "loaded"
        /\ DOMAIN requests'[r] = {"step", "kind", "agent", "device", "held", "want", "counted", "alone"}
        /\ requests'[r].kind = kind /\ requests'[r].want = want
        /\ requests'[r].device = handsets[h] /\ requests'[r].agent = a
        /\ requests'[r].held = agents[a]
    BY <1>1
  <2> QED BY <1>1, <1>2, <1>3, <2>1 DEF RequestShaped, RosterShaped, PeopleShaped
<1>5. ASSUME NEW q \in Requests, q # r
      PROVE  requests'[q] = requests[q] \/ RequestShaped(requests'[q], devices', DOMAIN codes')
  <2>1. CASE requests'[q] = requests[q]
    BY <2>1
  <2>2. CASE Step(q, "loaded") /\ requests'[q] = [requests[q] EXCEPT !.alone = FALSE]
    <3>1. RequestShaped(requests[q], devices, DOMAIN codes)
      BY DEF RosterShaped, RequestsShaped
    <3>2. /\ requests[q].step = "loaded"
          /\ DOMAIN requests[q] = {"step", "kind", "agent", "device", "held", "want", "counted", "alone"}
      BY <2>2, <3>1 DEF Step, RequestShaped, NoRequest
    <3>3. /\ DOMAIN requests'[q] = DOMAIN requests[q]
          /\ \A f \in DOMAIN requests[q] \ {"alone"} : requests'[q][f] = requests[q][f]
      BY <2>2
    <3>4. /\ requests'[q].step = "loaded" /\ requests'[q].kind = requests[q].kind
          /\ requests'[q].want = requests[q].want /\ requests'[q].device = requests[q].device
          /\ requests'[q].agent = requests[q].agent /\ requests'[q].held = requests[q].held
      BY <3>2, <3>3
    <3> QED BY <1>2, <3>1, <3>2, <3>3, <3>4 DEF RequestShaped, NoRequest
  <2> QED BY <1>1, <1>5, <2>1, <2>2
<1>6. DOMAIN requests' = Requests
  BY <1>1
<1>7. RequestsShaped'
  BY <1>2, <1>4, <1>5, <1>6, RequestsRest DEF RosterShaped, Kept
<1>8. PeopleShaped' /\ PairingShaped'
  BY <1>2 DEF RosterShaped, PeopleShaped, PairingShaped
<1> QED BY <1>7, <1>8 DEF RosterShaped

LEMMA CommitShape ==
  ASSUME RosterShaped, Commit
  PROVE  RosterShaped'
<1>1. PICK r \in Requests :
        /\ Step(r, "loaded")
        /\ agents' = [agents EXCEPT ![requests[r].agent] =
                        Written(agents[requests[r].agent], requests[r].held, [status |-> StatusSet(requests[r])])]
        /\ devices' = IF requests[r].kind = "unpair" THEN Revoked(devices, requests[r].device) ELSE devices
        /\ requests' = [requests EXCEPT ![r] = [step |-> "committed", counted |-> requests[r].counted]]
  BY DEF Commit, Set, Revoked
<1>2. UNCHANGED <<codes, handsets>>
  BY DEF Commit
<1>3. requests[r].device \in DOMAIN devices
  BY <1>1 DEF RosterShaped, RequestsShaped, RequestShaped, Step, NoRequest
<1>4. PeopleShaped'
  <2> DEFINE new == Written(agents[requests[r].agent], requests[r].held, [status |-> StatusSet(requests[r])])
  <2>1. DOMAIN new = DOMAIN agents[requests[r].agent]
    BY DEF Written
  <2>2. agents' = [agents EXCEPT ![requests[r].agent] = new]
    BY <1>1
  <2> HIDE DEF new
  <2> QED BY <2>1, <2>2 DEF RosterShaped, PeopleShaped
<1>5. devices' \in Seq(Device) /\ Kept(devices, devices') /\ DOMAIN devices' = DOMAIN devices
  <2>1. devices' = devices \/ devices' = Revoked(devices, requests[r].device)
    BY <1>1
  <2>2. devices \in Seq(Device) /\ Kept(devices, devices)
    BY DEF RosterShaped, PairingShaped, Kept
  <2> QED BY <1>3, <2>1, <2>2, DevicesRevoked
<1>6. PairingShaped'
  BY <1>2, <1>5 DEF RosterShaped, PairingShaped
<1>7. RequestShaped([step |-> "committed", counted |-> requests[r].counted], devices', DOMAIN codes')
  BY DEF RequestShaped
<1>8. RequestsShaped'
  BY <1>1, <1>2, <1>5, <1>7, RequestsRest DEF RosterShaped, RequestsShaped
<1> QED BY <1>4, <1>6, <1>8 DEF RosterShaped

LEMMA ShapeInvariant == RosterSpec => []RosterShaped
<1>1. RosterShaped /\ [RosterNext]_rosterVars => RosterShaped'
  <2> SUFFICES ASSUME RosterShaped, [RosterNext]_rosterVars PROVE RosterShaped'
    OBVIOUS
  <2>0. DOMAIN requests = Requests
    BY DEF RosterShaped, RequestsShaped
  <2>1. CASE UNCHANGED rosterVars
    BY <2>0, <2>1, TellingShape DEF rosterVars, people
  <2>2. CASE SwitchAgent
    <3>1. PeopleShaped' /\ UNCHANGED <<pairing, requests>>
      BY <2>2 DEF SwitchAgent, RosterShaped, PeopleShaped
    <3> QED BY <3>1 DEF RosterShaped, PairingShaped, RequestsShaped, pairing
  <2>3. CASE Count \/ CopyTargets \/ Send \/ Answer \/ Break \/ RequestDies \/ ServerRestarts
             \/ \E b \in Dashboards : Handshake(b) \/ Connect(b) \/ SendState(b)
                                        \/ TokenExpires(b) \/ TokenRenewed(b)
    <3>1. UNCHANGED <<agents, pairing>>
      BY <2>3 DEF Count, CopyTargets, Send, Answer, Break, RequestDies, ServerRestarts, Handshake, Connect,
                  SendState, TokenExpires, TokenRenewed, people
    <3> QED BY <2>3, <3>1, RequestsTold, TellingShape
  <2> QED
    BY <2>1, <2>2, <2>3, PairingShape, AuthenticateShape, CommitShape
       DEF RosterNext, StatusNext, SocketNext
<1> QED BY InitShaped, <1>1, PTL DEF RosterSpec

-----------------------------------------------------------------------------
(* Who is online *)

\* A report that no other of its agent overlaps holds the status of the row.
AloneIsFresh ==
  \A r \in Requests : Step(r, "loaded") /\ requests[r].alone =>
    /\ requests[r].held.status = agents[requests[r].agent].status
    /\ \A q \in Requests \ {r} : Step(q, "loaded") => requests[q].agent # requests[r].agent

\* A report under way comes from a device that is paired.
ReportsArePaired ==
  \A r \in Requests : Step(r, "loaded") /\ requests[r].agent \notin excused =>
    ~devices[requests[r].device].revoked

OnlineInv == RosterShaped /\ AloneIsFresh /\ ReportsArePaired /\ OnlineIsPaired

LEMMA LoadedShape ==
  ASSUME RosterShaped, NEW r \in Requests, Step(r, "loaded")
  PROVE  /\ DOMAIN requests[r] = {"step", "kind", "agent", "device", "held", "want", "counted", "alone"}
         /\ requests[r].kind \in {"status", "unpair"}
         /\ requests[r].kind = "unpair" => requests[r].want = "offline"
         /\ requests[r].device \in DOMAIN devices /\ devices[requests[r].device].agent = requests[r].agent
         /\ requests[r].agent \in Agents
<1>1. RequestShaped(requests[r], devices, DOMAIN codes)
  BY DEF RosterShaped, RequestsShaped
<1>2. /\ DOMAIN requests[r] = {"step", "kind", "agent", "device", "held", "want", "counted", "alone"}
      /\ requests[r].kind \in {"status", "unpair"}
      /\ requests[r].kind = "unpair" => requests[r].want = "offline"
      /\ requests[r].device \in DOMAIN devices /\ devices[requests[r].device].agent = requests[r].agent
  BY <1>1 DEF RequestShaped, Step, NoRequest
<1>3. devices[requests[r].device] \in Device
  BY <1>2, ElementOfSeq, LenProperties DEF RosterShaped, PairingShaped
<1> QED BY <1>2, <1>3 DEF Device

\* A step that begins no report, revokes nothing and changes no status.
LEMMA OnlineRests ==
  ASSUME OnlineInv, RosterShaped', excused \subseteq excused',
         DOMAIN devices \subseteq DOMAIN devices', \A d \in DOMAIN devices : devices'[d] = devices[d],
         \A a \in Agents : agents'[a].status = agents[a].status,
         \A r \in Requests : requests'[r] = requests[r] \/ requests'[r].step # "loaded"
  PROVE  OnlineInv'
<1>1. AloneIsFresh'
  BY LoadedShape DEF OnlineInv, AloneIsFresh, Step
<1>2. ReportsArePaired'
  BY LoadedShape DEF OnlineInv, ReportsArePaired, Step
<1>3. OnlineIsPaired'
  BY DEF OnlineInv, OnlineIsPaired
<1> QED BY <1>1, <1>2, <1>3 DEF OnlineInv

LEMMA PairingOnline ==
  ASSUME OnlineInv, RosterShaped', PairingNext
  PROVE  OnlineInv'
<1>0. UNCHANGED agents /\ DOMAIN requests = Requests
  BY DEF PairingNext, CreatePairingCode, CodeExpires, PairRead, PairCommit, PairAnswered, RevokeDevice,
         ForgetToken, people, OnlineInv, RosterShaped, RequestsShaped
<1>1. CASE CreatePairingCode \/ CodeExpires \/ ForgetToken
  BY <1>0, <1>1, OnlineRests DEF CreatePairingCode, CodeExpires, ForgetToken
<1>2. CASE PairRead
  <2>1. UNCHANGED <<devices, excused>>
    BY <1>2 DEF PairRead, pairing
  <2>2. \A r \in Requests : requests'[r] = requests[r] \/ requests'[r].step # "loaded"
    BY <1>0, <1>2 DEF PairRead, Set
  <2> QED BY <1>0, <2>1, <2>2, OnlineRests
<1>3. CASE PairAnswered
  <2>1. UNCHANGED <<devices, excused>>
    BY <1>3 DEF PairAnswered
  <2>2. \A r \in Requests : requests'[r] = requests[r] \/ requests'[r].step # "loaded"
    BY <1>0, <1>3 DEF PairAnswered, Set, NoRequest
  <2> QED BY <1>0, <2>1, <2>2, OnlineRests
<1>4. CASE PairCommit
  <2>1. PICK r \in Requests :
          /\ Step(r, "read")
          /\ devices' = Append(devices, [agent |-> codes[requests[r].code].agent, revoked |-> FALSE,
                                         code |-> requests[r].code])
          /\ requests' = [requests EXCEPT ![r] = [requests[r] EXCEPT !.step = "paired", !.code = Len(devices) + 1]]
    BY <1>4 DEF PairCommit, Set
  <2>2. /\ DOMAIN requests[r] = {"step", "handset", "code"} /\ requests[r].code \in DOMAIN codes
    BY <2>1 DEF OnlineInv, RosterShaped, RequestsShaped, RequestShaped, Step, NoRequest
  <2>3. [agent |-> codes[requests[r].code].agent, revoked |-> FALSE, code |-> requests[r].code] \in Device
    BY <2>2 DEF OnlineInv, RosterShaped, PairingShaped, Device
  <2>4. DOMAIN devices \subseteq DOMAIN devices' /\ \A d \in DOMAIN devices : devices'[d] = devices[d]
    BY <2>1, <2>3, DevicesAppend DEF OnlineInv, RosterShaped, PairingShaped
  <2>5. \A q \in Requests : requests'[q] = requests[q] \/ requests'[q].step # "loaded"
    <3>1. requests'[r].step = "paired"
      BY <1>0, <2>1, <2>2
    <3> QED BY <2>1, <3>1
  <2>6. UNCHANGED excused
    BY <1>4 DEF PairCommit
  <2> QED BY <1>0, <2>4, <2>5, <2>6, OnlineRests
<1>5. CASE RevokeDevice
  <2>1. PICK d \in DOMAIN devices :
          devices' = Revoked(devices, d) /\ excused' = excused \cup {devices[d].agent}
    BY <1>5 DEF RevokeDevice, Revoked
  <2>2. /\ DOMAIN devices' = DOMAIN devices
        /\ \A i \in DOMAIN devices : /\ devices'[i].agent = devices[i].agent
                                     /\ i # d => devices'[i] = devices[i]
    <3>1. devices \in Seq(Device)
      BY DEF OnlineInv, RosterShaped, PairingShaped
    <3>2. /\ DOMAIN Revoked(devices, d) = DOMAIN devices
          /\ \A i \in DOMAIN devices : /\ Revoked(devices, d)[i].agent = devices[i].agent
                                       /\ i # d => Revoked(devices, d)[i] = devices[i]
      BY <3>1, DevicesRevoked
    <3> QED BY <2>1, <3>2
  <2>3. UNCHANGED requests
    BY <1>5 DEF RevokeDevice
  <2>4. AloneIsFresh'
    BY <1>0, <2>3 DEF OnlineInv, AloneIsFresh, Step
  <2>5. ReportsArePaired'
    BY <2>1, <2>2, <2>3, LoadedShape DEF OnlineInv, ReportsArePaired, Step
  <2>6. OnlineIsPaired'
    BY <1>0, <2>1, <2>2 DEF OnlineInv, OnlineIsPaired
  <2> QED BY <2>4, <2>5, <2>6 DEF OnlineInv
<1> QED BY <1>1, <1>2, <1>3, <1>4, <1>5 DEF PairingNext

LEMMA AuthenticateOnline ==
  ASSUME OnlineInv, RosterShaped', Authenticate
  PROVE  OnlineInv'
<1>0. UNCHANGED <<agents, devices, codes, handsets, excused>>
  <2>1. UNCHANGED <<people, pairing, excused>>
    BY DEF Authenticate
  <2> QED BY <2>1 DEF people, pairing
<1>1. PICK r \in Requests, h \in Handsets, kind \in {"status", "unpair"}, want \in Statuses :
        /\ Step(r, "none") /\ Valid(h) /\ (kind = "unpair" => want = "offline")
        /\ LET a == devices[handsets[h]].agent
               same == {q \in Requests : Step(q, "loaded") /\ requests[q].agent = a}
           IN  requests' = [q \in Requests |->
                 IF q = r THEN [step |-> "loaded", kind |-> kind, agent |-> a,
                                device |-> handsets[h], held |-> agents[a], want |-> want,
                                counted |-> version, alone |-> same = {}]
                 ELSE IF q \in same THEN [requests[q] EXCEPT !.alone = FALSE] ELSE requests[q]]
  BY DEF Authenticate
<1> DEFINE a == devices[handsets[h]].agent
           same == {q \in Requests : Step(q, "loaded") /\ requests[q].agent = a}
<1>2. /\ requests'[r].agent = a /\ requests'[r].device = handsets[h] /\ requests'[r].held = agents[a]
      /\ requests'[r].alone = (same = {})
  BY <1>1
<1>3. \A q \in Requests \ {r} :
        requests'[q] = IF q \in same THEN [requests[q] EXCEPT !.alone = FALSE] ELSE requests[q]
  BY <1>1
<1>4. ASSUME NEW q \in Requests, q # r, Step(q, "loaded")'
      PROVE  /\ Step(q, "loaded") /\ requests'[q].agent = requests[q].agent
             /\ requests'[q].device = requests[q].device /\ requests'[q].held = requests[q].held
             /\ requests'[q].alone => requests[q].alone /\ requests[q].agent # a
  <2>1. CASE q \in same
    <3>1. DOMAIN requests[q] = {"step", "kind", "agent", "device", "held", "want", "counted", "alone"}
      BY <2>1, LoadedShape DEF OnlineInv
    <3>2. requests'[q] = [requests[q] EXCEPT !.alone = FALSE]
      BY <1>3, <1>4, <2>1
    <3>3. /\ requests'[q].agent = requests[q].agent /\ requests'[q].device = requests[q].device
          /\ requests'[q].held = requests[q].held /\ ~requests'[q].alone
      BY <3>1, <3>2
    <3> QED BY <2>1, <3>3
  <2>2. CASE q \notin same
    <3>1. requests'[q] = requests[q]
      BY <1>3, <1>4, <2>2
    <3> QED BY <1>4, <2>2, <3>1 DEF Step
  <2> QED BY <2>1, <2>2
<1>5. requests'[r].alone => \A q \in Requests \ {r} : Step(q, "loaded")' => requests'[q].agent # a
  BY <1>2, <1>4
<1> HIDE DEF a, same
<1>6. AloneIsFresh'
  <2> SUFFICES ASSUME NEW p \in Requests, Step(p, "loaded")', requests'[p].alone
               PROVE  /\ requests'[p].held.status = agents'[requests'[p].agent].status
                      /\ \A q \in Requests \ {p} : Step(q, "loaded")' => requests'[q].agent # requests'[p].agent
    BY DEF AloneIsFresh
  <2>1. CASE p = r
    BY <1>0, <1>2, <1>5, <2>1
  <2>2. CASE p # r
    BY <1>0, <1>2, <1>4, <2>2 DEF OnlineInv, AloneIsFresh
  <2> QED BY <2>1, <2>2
<1>7. ReportsArePaired'
  <2>1. ~devices[handsets[h]].revoked
    BY <1>1 DEF Valid
  <2> QED BY <1>0, <1>2, <1>4, <2>1 DEF OnlineInv, ReportsArePaired
<1>8. OnlineIsPaired'
  BY <1>0 DEF OnlineInv, OnlineIsPaired
<1> QED BY <1>6, <1>7, <1>8 DEF OnlineInv

LEMMA CommitOnline ==
  ASSUME OnlineInv, RosterShaped', Commit
  PROVE  OnlineInv'
<1>1. PICK r \in Requests :
        /\ Step(r, "loaded")
        /\ agents' = [agents EXCEPT ![requests[r].agent] =
                        Written(agents[requests[r].agent], requests[r].held, [status |-> requests[r].want])]
        /\ devices' = IF requests[r].kind = "unpair" THEN Revoked(devices, requests[r].device) ELSE devices
        /\ requests' = [requests EXCEPT ![r] = [step |-> "committed", counted |-> requests[r].counted]]
        /\ excused' = IF requests[r].kind = "status" THEN excused
                      ELSE IF requests[r].alone THEN excused \ {requests[r].agent}
                      ELSE excused \cup {requests[r].agent}
  BY DEF Commit, Set, Revoked, StatusSet
<1> DEFINE req == requests[r]
           row == agents[req.agent]
<1>2. /\ req.kind \in {"status", "unpair"} /\ (req.kind = "unpair" => req.want = "offline")
      /\ req.device \in DOMAIN devices /\ devices[req.device].agent = req.agent /\ req.agent \in Agents
  BY <1>1, LoadedShape DEF OnlineInv
<1>3. \A b \in Agents \ {req.agent} : agents'[b] = agents[b]
  BY <1>1
<1>4. /\ agents'[req.agent].status \in {row.status, req.want}
      /\ req.want # req.held.status => agents'[req.agent].status = req.want
      /\ req.want = req.held.status => agents'[req.agent].status = row.status
  <2>1. agents'[req.agent] = Written(row, req.held, [status |-> req.want])
    BY <1>1, <1>2 DEF OnlineInv, RosterShaped, PeopleShaped
  <2>2. "status" \in DOMAIN row
    BY <1>2 DEF OnlineInv, RosterShaped, PeopleShaped
  <2> QED BY <2>1, <2>2 DEF Written
<1>5. /\ DOMAIN devices' = DOMAIN devices
      /\ \A d \in DOMAIN devices :
           /\ devices'[d].agent = devices[d].agent
           /\ d # req.device \/ req.kind = "status" => devices'[d] = devices[d]
  <2>1. devices \in Seq(Device)
    BY DEF OnlineInv, RosterShaped, PairingShaped
  <2>2. CASE req.kind = "unpair"
    <3>1. /\ DOMAIN Revoked(devices, req.device) = DOMAIN devices
          /\ \A d \in DOMAIN devices : /\ Revoked(devices, req.device)[d].agent = devices[d].agent
                                       /\ d # req.device => Revoked(devices, req.device)[d] = devices[d]
      BY <1>2, <2>1, DevicesRevoked
    <3>2. devices' = Revoked(devices, req.device)
      BY <1>1, <2>2
    <3> QED BY <2>2, <3>1, <3>2
  <2>3. CASE req.kind = "status"
    BY <1>1, <2>3
  <2> QED BY <1>2, <2>2, <2>3
<1>6. \A q \in Requests : Step(q, "loaded")' => q # r /\ Step(q, "loaded") /\ requests'[q] = requests[q]
  <2>1. requests'[r].step = "committed"
    BY <1>1 DEF OnlineInv, RosterShaped, RequestsShaped
  <2> QED BY <1>1, <2>1 DEF Step
<1>7. AloneIsFresh'
  <2> SUFFICES ASSUME NEW p \in Requests, Step(p, "loaded")', requests'[p].alone
               PROVE  /\ requests'[p].held.status = agents'[requests'[p].agent].status
                      /\ \A q \in Requests \ {p} : Step(q, "loaded")' => requests'[q].agent # requests'[p].agent
    BY DEF AloneIsFresh
  <2>1. p # r /\ Step(p, "loaded") /\ requests'[p] = requests[p] /\ requests[p].agent \in Agents
    BY <1>6, LoadedShape DEF OnlineInv
  <2>2. requests[p].agent # req.agent
    BY <1>1, <2>1 DEF OnlineInv, AloneIsFresh
  <2> QED BY <1>3, <1>6, <2>1, <2>2 DEF OnlineInv, AloneIsFresh
<1>8. ReportsArePaired'
  <2> SUFFICES ASSUME NEW p \in Requests, Step(p, "loaded")', requests'[p].agent \notin excused'
               PROVE  ~devices'[requests'[p].device].revoked
    BY DEF ReportsArePaired
  <2>1. /\ p # r /\ Step(p, "loaded") /\ requests'[p] = requests[p]
        /\ requests[p].device \in DOMAIN devices /\ devices[requests[p].device].agent = requests[p].agent
    BY <1>6, LoadedShape DEF OnlineInv
  <2>2. CASE req.kind = "status"
    BY <1>1, <1>5, <2>1, <2>2 DEF OnlineInv, ReportsArePaired
  <2>3. CASE req.kind = "unpair"
    <3>1. requests[p].agent # req.agent
      BY <1>1, <2>1, <2>3 DEF OnlineInv, AloneIsFresh
    <3> QED BY <1>1, <1>2, <1>5, <2>1, <2>3, <3>1 DEF OnlineInv, ReportsArePaired
  <2> QED BY <1>2, <2>2, <2>3
<1>9. OnlineIsPaired'
  <2> SUFFICES ASSUME NEW b \in Agents, b \notin excused', agents'[b].status # "offline"
               PROVE  \E d \in DOMAIN devices' : devices'[d].agent = b /\ ~devices'[d].revoked
    BY DEF OnlineIsPaired
  <2>1. CASE b # req.agent
    <3>1. b \notin excused
      BY <1>1, <2>1
    <3>2. PICK d \in DOMAIN devices : devices[d].agent = b /\ ~devices[d].revoked
      BY <1>3, <2>1, <3>1 DEF OnlineInv, OnlineIsPaired
    <3> QED BY <1>2, <1>5, <2>1, <3>2
  <2>2. CASE b = req.agent
    <3>1. req.kind = "status"
      <4>1. SUFFICES ASSUME req.kind = "unpair" PROVE FALSE
        BY <1>2
      <4>2. req.alone
        BY <1>1, <2>2, <4>1
      <4>3. req.held.status = row.status
        BY <1>1, <4>2 DEF OnlineInv, AloneIsFresh
      <4> QED BY <1>2, <1>4, <2>2, <4>1, <4>3
    <3>2. ~devices[req.device].revoked
      BY <1>1, <2>2, <3>1 DEF OnlineInv, ReportsArePaired
    <3> QED BY <1>2, <1>5, <2>2, <3>1, <3>2
  <2> QED BY <2>1, <2>2
<1> QED BY <1>7, <1>8, <1>9 DEF OnlineInv

\* No agent is left online without a handset: unpairing takes the status with it,
\* whatever is under way elsewhere.
THEOREM OnlineArePaired == RosterSpec => []OnlineIsPaired
<1>1. RosterInit /\ RosterShaped => OnlineInv
  BY DEF RosterInit, OnlineInv, AloneIsFresh, ReportsArePaired, OnlineIsPaired, Step, NoRequest
<1>2. OnlineInv /\ RosterShaped' /\ [RosterNext]_rosterVars => OnlineInv'
  <2> SUFFICES ASSUME OnlineInv, RosterShaped', [RosterNext]_rosterVars PROVE OnlineInv'
    OBVIOUS
  <2>0. DOMAIN requests = Requests
    BY DEF OnlineInv, RosterShaped, RequestsShaped
  <2>1. CASE UNCHANGED rosterVars
    BY <2>1, OnlineRests DEF rosterVars, people, pairing
  <2>2. CASE SwitchAgent
    <3>1. UNCHANGED <<devices, requests, excused>>
      BY <2>2 DEF SwitchAgent, pairing
    <3>2. PICK a \in Agents : agents' = [agents EXCEPT ![a].active = ~agents[a].active]
      BY <2>2 DEF SwitchAgent
    <3>3. \A b \in Agents : agents'[b].status = agents[b].status
      <4> SUFFICES ASSUME NEW b \in Agents PROVE agents'[b].status = agents[b].status
        OBVIOUS
      <4>1. DOMAIN agents = Agents /\ DOMAIN agents[b] = {"status", "active"}
        BY DEF OnlineInv, RosterShaped, PeopleShaped
      <4>2. agents'[b] = agents[b] \/ agents'[b] = [agents[b] EXCEPT !.active = ~agents[b].active]
        BY <3>2, <4>1
      <4>3. [agents[b] EXCEPT !.active = ~agents[b].active]["status"] = agents[b]["status"]
        BY <4>1
      <4> QED BY <4>2, <4>3
    <3> QED BY <3>1, <3>3, OnlineRests
  <2>3. CASE Count \/ CopyTargets \/ Send \/ Answer \/ Break \/ RequestDies \/ ServerRestarts
             \/ \E b \in Dashboards : Handshake(b) \/ Connect(b) \/ SendState(b)
                                        \/ TokenExpires(b) \/ TokenRenewed(b)
    <3>1. UNCHANGED <<agents, devices, excused>>
      BY <2>3 DEF Count, CopyTargets, Send, Answer, Break, RequestDies, ServerRestarts, Handshake, Connect,
                  SendState, TokenExpires, TokenRenewed, people, pairing
    <3>2. \A r \in Requests : requests'[r] = requests[r] \/ requests'[r].step # "loaded"
      BY <2>0, <2>3, RequestsTold DEF OnlineInv, Told, NoRequest
    <3> QED BY <3>1, <3>2, OnlineRests
  <2> QED
    BY <2>1, <2>2, <2>3, PairingOnline, AuthenticateOnline, CommitOnline DEF RosterNext, StatusNext, SocketNext
<1> QED BY InitShaped, <1>1, <1>2, ShapeInvariant, PTL DEF RosterSpec, OnlineInv

-----------------------------------------------------------------------------
(* What a code gives *)

Paired(c) == {d \in DOMAIN devices : devices[d].code = c}

\* A code that is not used has given nothing.
SpentInv == \A c \in Codes : (c \in DOMAIN codes /\ codes[c].used) \/ Paired(c) = {}

\* No device more, and no code that is less used.
LEMMA SpentRests ==
  ASSUME SpentInv, DOMAIN devices' = DOMAIN devices,
         \A d \in DOMAIN devices : devices'[d].code = devices[d].code,
         \A c \in DOMAIN codes : c \in DOMAIN codes' /\ codes'[c].used = codes[c].used
  PROVE  SpentInv'
BY DEF SpentInv, Paired

\* A request begins to pair only by a code that has given nothing, and a device is given
\* only to a request that was pairing.
SpentStep ==
  /\ \A r \in Requests :
       requests'[r] # requests[r] /\ requests'[r].step = "read" =>
         \A d \in DOMAIN devices : devices[d].code # requests'[r].code
  /\ \A d \in DOMAIN devices' \ DOMAIN devices :
       \E r \in Requests : /\ Step(r, "read") /\ requests[r].code = devices'[d].code
                           /\ requests'[r].step # "read"

LEMMA NothingGiven ==
  ASSUME DOMAIN devices' = DOMAIN devices,
         \A r \in Requests : requests'[r] = requests[r] \/ requests'[r].step # "read"
  PROVE  SpentStep
BY DEF SpentStep

LEMMA CommitSpent ==
  ASSUME RosterShaped, SpentInv, PairCommit
  PROVE  SpentInv' /\ SpentStep
<1>1. PICK r \in Requests :
        /\ Step(r, "read")
        /\ devices' = Append(devices, [agent |-> codes[requests[r].code].agent, revoked |-> FALSE,
                                       code |-> requests[r].code])
        /\ codes' = [codes EXCEPT ![requests[r].code].used = TRUE]
        /\ requests' = [requests EXCEPT ![r] = [requests[r] EXCEPT !.step = "paired", !.code = Len(devices) + 1]]
  BY DEF PairCommit, Set, UsedUp
<1> DEFINE k == requests[r].code
           n == Len(devices) + 1
           new == [agent |-> codes[k].agent, revoked |-> FALSE, code |-> k]
<1>2. /\ DOMAIN requests = Requests /\ DOMAIN requests[r] = {"step", "handset", "code"}
      /\ k \in DOMAIN codes /\ k \in Codes
  BY <1>1 DEF RosterShaped, RequestsShaped, PairingShaped, RequestShaped, Step, NoRequest
<1>3. DOMAIN codes[k] = {"agent", "used", "expired"} /\ new \in Device
  BY <1>2 DEF RosterShaped, PairingShaped, Device
<1>4. /\ DOMAIN devices' = DOMAIN devices \cup {n} /\ n \notin DOMAIN devices
      /\ devices'[n] = new /\ \A d \in DOMAIN devices : devices'[d] = devices[d]
  BY <1>1, <1>3, DevicesAppend DEF RosterShaped, PairingShaped
<1>5. requests'[r].step = "paired" /\ \A q \in Requests \ {r} : requests'[q] = requests[q]
  BY <1>1, <1>2
<1>6. /\ DOMAIN codes' = DOMAIN codes /\ codes'[k].used
      /\ \A c \in DOMAIN codes \ {k} : codes'[c] = codes[c]
  BY <1>1, <1>2, <1>3
<1>7. new.code = k
  OBVIOUS
<1> HIDE DEF new, n
<1>8. SpentInv'
  <2>1. ASSUME NEW c \in Codes, c # k PROVE Paired(c)' = Paired(c)
    BY <1>4, <1>7, <2>1 DEF Paired
  <2> QED BY <1>2, <1>6, <2>1 DEF SpentInv
<1>9. SpentStep
  BY <1>1, <1>4, <1>5, <1>7 DEF SpentStep
<1> QED BY <1>8, <1>9

LEMMA ReadSpent ==
  ASSUME RosterShaped, SpentInv, PairRead
  PROVE  SpentInv' /\ SpentStep
<1>1. PICK r \in Requests, h \in Handsets, c \in DOMAIN codes :
        /\ ~codes[c].used
        /\ requests' = [requests EXCEPT ![r] = [step |-> "read", handset |-> h, code |-> c]]
  BY DEF PairRead, Set
<1>2. UNCHANGED <<devices, codes>>
  BY DEF PairRead, pairing
<1>3. Paired(c) = {}
  BY <1>1 DEF SpentInv, RosterShaped, PairingShaped
<1>4. requests'[r].code = c /\ \A q \in Requests \ {r} : requests'[q] = requests[q]
  BY <1>1 DEF RosterShaped, RequestsShaped
<1>5. SpentInv'
  BY <1>2 DEF SpentInv, Paired
<1>6. SpentStep
  BY <1>2, <1>3, <1>4 DEF SpentStep, Paired
<1> QED BY <1>5, <1>6

\* A one-time code that has given a device gives no more to any request that comes to
\* it later: only those that had tested it before the first was given can still be.
THEOREM CodesGiveOnce == RosterSpec => CodesAreSpent
<1>1. RosterInit /\ RosterShaped => SpentInv
  <2>1. RosterInit => \A d \in DOMAIN devices : devices[d].code = None
    BY DEF RosterInit
  <2> QED BY <2>1, RosterAssumption DEF SpentInv, Paired, None
<1>2. RosterShaped /\ SpentInv /\ [RosterNext]_rosterVars => SpentInv' /\ SpentStep
  <2> SUFFICES ASSUME RosterShaped, SpentInv, [RosterNext]_rosterVars PROVE SpentInv' /\ SpentStep
    OBVIOUS
  <2>0. DOMAIN requests = Requests
    BY DEF RosterShaped, RequestsShaped
  <2>1. ASSUME DOMAIN devices' = DOMAIN devices,
               \A d \in DOMAIN devices : devices'[d].code = devices[d].code,
               \A r \in Requests : requests'[r] = requests[r] \/ requests'[r].step # "read",
               \A c \in DOMAIN codes : c \in DOMAIN codes' /\ codes'[c].used = codes[c].used
        PROVE  SpentInv' /\ SpentStep
    BY <2>1, SpentRests, NothingGiven
  <2>2. CASE CreatePairingCode
    BY <2>1, <2>2 DEF CreatePairingCode
  <2>3. CASE CodeExpires
    <3>1. PICK c \in DOMAIN codes : codes' = [codes EXCEPT ![c].expired = TRUE]
      BY <2>3 DEF CodeExpires
    <3>2. \A k \in DOMAIN codes : k \in DOMAIN codes' /\ codes'[k].used = codes[k].used
      BY <3>1 DEF RosterShaped, PairingShaped
    <3>3. UNCHANGED <<devices, requests>>
      BY <2>3 DEF CodeExpires
    <3> QED BY <2>1, <3>2, <3>3
  <2>4. CASE PairAnswered \/ ForgetToken
    BY <2>0, <2>1, <2>4 DEF PairAnswered, ForgetToken, Set, NoRequest
  <2>5. CASE RevokeDevice
    <3>1. PICK d \in DOMAIN devices : devices' = Revoked(devices, d)
      BY <2>5 DEF RevokeDevice, Revoked
    <3>2. devices \in Seq(Device)
      BY DEF RosterShaped, PairingShaped
    <3>3. DOMAIN devices' = DOMAIN devices /\ \A i \in DOMAIN devices : devices'[i].code = devices[i].code
      BY <3>1, <3>2, DevicesRevoked
    <3>4. UNCHANGED <<codes, requests>>
      BY <2>5 DEF RevokeDevice
    <3> QED BY <2>1, <3>3, <3>4
  <2>6. CASE SwitchAgent \/ UNCHANGED rosterVars
    BY <2>1, <2>6 DEF SwitchAgent, rosterVars, pairing
  <2>7. CASE Authenticate
    <3>1. UNCHANGED <<people, pairing>>
      BY <2>7 DEF Authenticate
    <3>2. \A q \in Requests : requests'[q] = requests[q] \/ requests'[q].step # "read"
      BY <2>7, AuthenticateSteps
    <3> QED BY <2>1, <3>1, <3>2 DEF pairing
  <2>8. CASE Commit
    <3>1. PICK r \in Requests :
            /\ Step(r, "loaded")
            /\ devices' = IF requests[r].kind = "unpair" THEN Revoked(devices, requests[r].device) ELSE devices
            /\ requests' = [requests EXCEPT ![r] = [step |-> "committed", counted |-> requests[r].counted]]
      BY <2>8 DEF Commit, Set, Revoked
    <3>2. devices \in Seq(Device) /\ requests[r].device \in DOMAIN devices
      BY <3>1, LoadedShape DEF RosterShaped, PairingShaped
    <3>3. DOMAIN devices' = DOMAIN devices /\ \A i \in DOMAIN devices : devices'[i].code = devices[i].code
      BY <3>1, <3>2, DevicesRevoked
    <3>4. \A q \in Requests : requests'[q] = requests[q] \/ requests'[q].step # "read"
      BY <2>0, <3>1
    <3>5. UNCHANGED codes
      BY <2>8 DEF Commit
    <3> QED BY <2>1, <3>3, <3>4, <3>5
  <2>9. CASE Count \/ CopyTargets \/ Send \/ Answer \/ Break \/ RequestDies \/ ServerRestarts
             \/ \E b \in Dashboards : Handshake(b) \/ Connect(b) \/ SendState(b)
                                        \/ TokenExpires(b) \/ TokenRenewed(b)
    <3>1. UNCHANGED <<codes, devices>>
      BY <2>9 DEF Count, CopyTargets, Send, Answer, Break, RequestDies, ServerRestarts, Handshake, Connect,
                  SendState, TokenExpires, TokenRenewed, pairing
    <3>2. \A r \in Requests : requests'[r] = requests[r] \/ requests'[r].step # "read"
      BY <2>9, RequestsTold DEF Told, NoRequest
    <3> QED BY <2>1, <3>1, <3>2
  <2> QED
    BY <2>2, <2>3, <2>4, <2>5, <2>6, <2>7, <2>8, <2>9, ReadSpent, CommitSpent
       DEF RosterNext, PairingNext, StatusNext, SocketNext
<1>3. SpentStep => [SpentStep]_rosterVars
  OBVIOUS
<1> QED BY InitShaped, <1>1, <1>2, <1>3, ShapeInvariant, PTL DEF RosterSpec, CodesAreSpent, SpentStep

-----------------------------------------------------------------------------
(* What dashboards show *)

SocketsShaped ==
  /\ DOMAIN browsers = Dashboards
  /\ \A b \in Dashboards : DOMAIN browsers[b] = {"state", "snap", "shown"}
  /\ \A b \in Dashboards : browsers[b].state \in {"connected", "open"} => b \in hub

\* The dashboard has the counts of the roster as it is, or will be sent them.
WillShow(b) ==
  \/ browsers[b].shown = version
  \/ \E r \in Requests : \/ requests[r].step \in {"committed", "counted"}
                         \/ Step(r, "sending") /\ b \in requests[r].targets

LoneTold ==
  lone =>
    /\ \A r, q \in Requests : Telling(r) /\ Telling(q) => r = q
    /\ \A r \in Requests : requests[r].step \in {"counted", "sending"} => requests[r].counted = version
    /\ \A b \in Dashboards : browsers[b].state \in {"counted", "connected"} => browsers[b].snap = version
    /\ \A b \in Dashboards : browsers[b].state = "open" => WillShow(b)

ShownInv == SocketsShaped /\ LoneTold

\* A step of requests that are not told of, between rosters that are the same.
LEMMA ShownRests ==
  ASSUME ShownInv, UNCHANGED <<version, browsers, hub>>, lone' => lone,
         \A r \in Requests : requests'[r] = requests[r] \/ (~Telling(r) /\ ~Telling(r)')
  PROVE  ShownInv'
<1>1. SocketsShaped'
  BY DEF ShownInv, SocketsShaped
<1>2. \A b \in Dashboards : WillShow(b) => WillShow(b)'
  BY DEF WillShow, Telling, Step
<1>3. LoneTold'
  BY <1>2 DEF ShownInv, LoneTold, Telling
<1> QED BY <1>1, <1>3 DEF ShownInv

LEMMA ReportShown ==
  ASSUME RosterShaped, ShownInv, PairingNext \/ Authenticate \/ SwitchAgent
  PROVE  ShownInv'
<1>0. DOMAIN requests = Requests
  BY DEF RosterShaped, RequestsShaped
<1>1. UNCHANGED <<browsers, hub>>
  <2>1. UNCHANGED sockets
    BY DEF PairingNext, CreatePairingCode, CodeExpires, PairRead, PairCommit, PairAnswered, RevokeDevice,
           ForgetToken, Authenticate, SwitchAgent
  <2> QED BY <2>1 DEF sockets
<1>2. CASE SwitchAgent
  BY <1>1, <1>2 DEF SwitchAgent, ShownInv, SocketsShaped, LoneTold
<1>3. CASE PairingNext
  <2>1. UNCHANGED <<version, lone>>
    BY <1>3 DEF PairingNext, CreatePairingCode, CodeExpires, PairRead, PairCommit, PairAnswered, RevokeDevice,
           ForgetToken, people
  <2>2. CASE PairCommit
    <3>1. PICK r \in Requests :
            /\ Step(r, "read")
            /\ requests' = [requests EXCEPT ![r] = [requests[r] EXCEPT !.step = "paired", !.code = Len(devices) + 1]]
      BY <2>2 DEF PairCommit, Set
    <3>2. DOMAIN requests[r] = {"step", "handset", "code"}
      BY <3>1 DEF RosterShaped, RequestsShaped, RequestShaped, Step, NoRequest
    <3>3. requests'[r].step = "paired"
      BY <1>0, <3>1, <3>2
    <3> QED BY <1>1, <2>1, <3>1, <3>3, ShownRests DEF Telling, Step
  <2>3. CASE PairRead \/ PairAnswered
    BY <1>0, <1>1, <2>1, <2>3, ShownRests DEF PairRead, PairAnswered, Set, Telling, Step, NoRequest
  <2>4. CASE CreatePairingCode \/ CodeExpires \/ RevokeDevice \/ ForgetToken
    BY <1>1, <2>1, <2>4, ShownRests DEF CreatePairingCode, CodeExpires, RevokeDevice, ForgetToken
  <2> QED BY <1>3, <2>2, <2>3, <2>4 DEF PairingNext
<1>4. CASE Authenticate
  <2>1. UNCHANGED <<version, lone>>
    <3>1. UNCHANGED <<people, lone>>
      BY <1>4 DEF Authenticate
    <3> QED BY <3>1 DEF people
  <2>2. \A r \in Requests : requests'[r] = requests[r] \/ (~Telling(r) /\ ~Telling(r)')
    BY <1>4, AuthenticateSteps DEF Telling
  <2> QED BY <1>1, <2>1, <2>2, ShownRests
<1> QED BY <1>2, <1>3, <1>4

LEMMA TellingShown ==
  ASSUME RosterShaped, ShownInv, Commit \/ Count \/ CopyTargets \/ Send \/ Answer
  PROVE  ShownInv'
<1>0. DOMAIN requests = Requests
  BY DEF RosterShaped, RequestsShaped
<1>1. CASE Commit
  <2>1. PICK r \in Requests :
          /\ requests' = [requests EXCEPT ![r] = [step |-> "committed", counted |-> requests[r].counted]]
          /\ lone' => /\ \A q \in Requests \ {r} : ~Telling(q)
                      /\ \A b \in Dashboards : browsers[b].state \in {"closed", "open"}
    BY <1>1 DEF Commit, Set
  <2>2. UNCHANGED <<browsers, hub>>
    BY <1>1 DEF Commit, sockets
  <2>3. requests'[r].step = "committed" /\ \A q \in Requests \ {r} : requests'[q] = requests[q]
    BY <1>0, <2>1
  <2>4. \A b \in Dashboards : WillShow(b)'
    BY <2>3 DEF WillShow
  <2>5. LoneTold'
    BY <2>1, <2>2, <2>3, <2>4 DEF LoneTold, Telling
  <2> QED BY <2>2, <2>5 DEF ShownInv, SocketsShaped
<1>2. CASE Count
  <2>1. PICK r \in Requests :
          /\ Step(r, "committed")
          /\ requests' = [requests EXCEPT ![r] = [step |-> "counted", counted |-> version]]
    BY <1>2 DEF Count, Set, Counted
  <2>2. UNCHANGED <<version, browsers, hub, lone>>
    BY <1>2 DEF Count, people, sockets
  <2>3. /\ requests'[r].step = "counted" /\ requests'[r].counted = version
        /\ \A q \in Requests \ {r} : requests'[q] = requests[q]
    BY <1>0, <2>1
  <2>4. \A b \in Dashboards : WillShow(b)'
    BY <2>3 DEF WillShow
  <2>5. LoneTold'
    BY <2>1, <2>2, <2>3, <2>4 DEF ShownInv, LoneTold, Telling, Step
  <2> QED BY <2>2, <2>5 DEF ShownInv, SocketsShaped
<1>3. CASE CopyTargets
  <2>1. PICK r \in Requests :
          /\ Step(r, "counted")
          /\ requests' = [requests EXCEPT ![r] = [step |-> "sending", counted |-> requests[r].counted, targets |-> hub]]
    BY <1>3 DEF CopyTargets, Set
  <2>2. UNCHANGED <<version, browsers, hub, lone>>
    BY <1>3 DEF CopyTargets, people, sockets
  <2>3. /\ requests'[r].step = "sending" /\ requests'[r].counted = requests[r].counted
        /\ requests'[r].targets = hub
        /\ \A q \in Requests \ {r} : requests'[q] = requests[q]
    BY <1>0, <2>1
  <2>4. \A b \in Dashboards : browsers[b].state = "open" => WillShow(b)'
    BY <2>3 DEF WillShow, ShownInv, SocketsShaped, Step
  <2>5. LoneTold'
    BY <2>1, <2>2, <2>3, <2>4 DEF ShownInv, LoneTold, Telling, Step
  <2> QED BY <2>2, <2>5 DEF ShownInv, SocketsShaped
<1>4. CASE Send
  <2>1. PICK r \in Requests :
          /\ Step(r, "sending")
          /\ \E b \in requests[r].targets :
               /\ browsers' = [browsers EXCEPT ![b].shown = requests[r].counted]
               /\ requests' = [requests EXCEPT ![r] = [requests[r] EXCEPT !.targets = @ \ {b}]]
    BY <1>4 DEF Send, Set
  <2>2. PICK b \in requests[r].targets :
          /\ browsers' = [browsers EXCEPT ![b].shown = requests[r].counted]
          /\ requests' = [requests EXCEPT ![r] = [requests[r] EXCEPT !.targets = @ \ {b}]]
    BY <2>1
  <2>3. UNCHANGED <<version, hub, lone>>
    BY <1>4 DEF Send, people
  <2>4. DOMAIN requests[r] = {"step", "counted", "targets"}
    BY <2>1 DEF RosterShaped, RequestsShaped, RequestShaped, Step, NoRequest
  <2>5. /\ requests'[r].step = "sending" /\ requests'[r].counted = requests[r].counted
        /\ requests'[r].targets = requests[r].targets \ {b}
        /\ \A q \in Requests \ {r} : requests'[q] = requests[q]
    BY <1>0, <2>1, <2>2, <2>4 DEF Step
  <2>6. SocketsShaped' /\ \A d \in Dashboards :
          /\ browsers'[d].state = browsers[d].state /\ browsers'[d].snap = browsers[d].snap
          /\ browsers'[d].shown = IF d = b THEN requests[r].counted ELSE browsers[d].shown
    BY <2>2, <2>3 DEF ShownInv, SocketsShaped
  <2>7. LoneTold'
    <3> SUFFICES ASSUME lone' PROVE LoneTold'
      BY DEF LoneTold
    <3>1. requests[r].counted = version
      BY <2>1, <2>3 DEF ShownInv, LoneTold, Step
    <3>2. \A d \in Dashboards : browsers'[d].state = "open" => WillShow(d)'
      <4> SUFFICES ASSUME NEW d \in Dashboards, browsers'[d].state = "open" PROVE WillShow(d)'
        OBVIOUS
      <4>1. CASE d = b
        BY <2>3, <2>6, <3>1, <4>1 DEF WillShow
      <4>2. CASE d # b
        <5>1. WillShow(d)
          BY <2>3, <2>6 DEF ShownInv, LoneTold
        <5>2. browsers'[d].shown = browsers[d].shown
          BY <2>6, <4>2
        <5> QED BY <2>1, <2>3, <2>5, <4>2, <5>1, <5>2 DEF WillShow, Step
      <4> QED BY <4>1, <4>2
    <3>3. \A p, q \in Requests : Telling(p)' /\ Telling(q)' => p = q
      BY <2>1, <2>3, <2>5 DEF ShownInv, LoneTold, Telling, Step
    <3> QED BY <2>3, <2>5, <2>6, <3>1, <3>2, <3>3 DEF ShownInv, LoneTold
  <2> QED BY <2>6, <2>7 DEF ShownInv
<1>5. CASE Answer
  <2>1. PICK r \in Requests :
          /\ \/ Step(r, "sending") /\ requests[r].targets = {}
             \/ Step(r, "committed") /\ hub = {}
          /\ requests' = [requests EXCEPT ![r] = NoRequest]
    BY <1>5 DEF Answer, Set
  <2>2. UNCHANGED <<version, browsers, hub, lone>>
    BY <1>5 DEF Answer, people, sockets
  <2>3. requests'[r] = NoRequest /\ \A q \in Requests \ {r} : requests'[q] = requests[q]
    BY <1>0, <2>1
  <2>4. lone => \A b \in Dashboards : browsers[b].state = "open" => WillShow(b)'
    <3> SUFFICES ASSUME lone, NEW b \in Dashboards, browsers[b].state = "open" PROVE WillShow(b)'
      OBVIOUS
    <3>1. hub # {}
      BY DEF ShownInv, SocketsShaped
    <3>2. WillShow(b) /\ \A q \in Requests : Telling(q) => q = r
      BY <2>1 DEF ShownInv, LoneTold, Telling, Step
    <3> QED BY <2>1, <2>2, <2>3, <3>1, <3>2 DEF WillShow, Telling, Step
  <2>5. LoneTold'
    BY <2>2, <2>3, <2>4 DEF ShownInv, LoneTold, Telling, NoRequest
  <2> QED BY <2>2, <2>5 DEF ShownInv, SocketsShaped
<1> QED BY <1>1, <1>2, <1>3, <1>4, <1>5

LEMMA DashboardShown ==
  ASSUME ShownInv, NEW b \in Dashboards, Handshake(b) \/ Connect(b) \/ SendState(b)
  PROVE  ShownInv'
<1>1. UNCHANGED <<version, requests, lone>>
  BY DEF Handshake, Connect, SendState, people
<1>2. \A d \in Dashboards \ {b} : browsers'[d] = browsers[d]
  BY DEF Handshake, Connect, SendState, ShownInv, SocketsShaped
<1>3. hub \subseteq hub'
  BY DEF Handshake, Connect, SendState
<1>4. /\ DOMAIN browsers' = Dashboards /\ DOMAIN browsers'[b] = {"state", "snap", "shown"}
      /\ \/ browsers'[b].state = "counted" /\ browsers'[b].snap = version
         \/ browsers'[b].state = "connected" /\ browsers[b].state = "counted"
              /\ browsers'[b].snap = browsers[b].snap /\ b \in hub'
         \/ browsers'[b].state = "open" /\ browsers[b].state = "connected"
              /\ browsers'[b].shown = browsers[b].snap /\ b \in hub'
  BY DEF Handshake, Connect, SendState, ShownInv, SocketsShaped
<1>5. SocketsShaped'
  BY <1>2, <1>3, <1>4 DEF ShownInv, SocketsShaped
<1>6. \A d \in Dashboards \ {b} : WillShow(d) => WillShow(d)'
  BY <1>1, <1>2 DEF WillShow, Step
<1>7. LoneTold'
  <2> SUFFICES ASSUME lone' PROVE LoneTold'
    BY DEF LoneTold
  <2>1. \A d \in Dashboards : browsers'[d].state \in {"counted", "connected"} => browsers'[d].snap = version
    BY <1>1, <1>2, <1>4 DEF ShownInv, LoneTold
  <2>2. browsers'[b].state = "open" => browsers'[b].shown = version
    BY <1>1, <1>4 DEF ShownInv, LoneTold
  <2>3. \A d \in Dashboards : browsers'[d].state = "open" => WillShow(d)'
    BY <1>1, <1>2, <1>6, <2>2 DEF ShownInv, LoneTold, WillShow
  <2> QED BY <1>1, <2>1, <2>3 DEF ShownInv, LoneTold, Telling
<1> QED BY <1>5, <1>7 DEF ShownInv

LEMMA FaultsShown ==
  ASSUME RosterShaped, ShownInv, Break \/ RequestDies \/ ServerRestarts
  PROVE  ShownInv'
<1>0. DOMAIN requests = Requests
  BY DEF RosterShaped, RequestsShaped
<1>1. CASE Break
  <2>1. PICK b \in Dashboards :
          /\ browsers[b].state # "closed" /\ browsers' = Lost({b}) /\ hub' = hub \ {b}
          /\ requests' = [r \in Requests |->
                            IF Step(r, "sending") THEN [requests[r] EXCEPT !.targets = @ \ {b}]
                            ELSE requests[r]]
    BY <1>1 DEF Break
  <2>2. UNCHANGED <<version, lone>>
    BY <1>1 DEF Break, people
  <2>3. /\ DOMAIN browsers' = Dashboards /\ \A d \in Dashboards \ {b} : browsers'[d] = browsers[d]
        /\ DOMAIN browsers'[b] = {"state", "snap", "shown"} /\ browsers'[b].state = "closed"
    BY <2>1 DEF Lost, Reconnecting, ShownInv, SocketsShaped
  <2>4. SocketsShaped'
    BY <2>1, <2>3 DEF ShownInv, SocketsShaped
  <2>5. \A r \in Requests :
          \/ ~Step(r, "sending") /\ requests'[r] = requests[r]
          \/ /\ Step(r, "sending") /\ requests'[r].step = "sending"
             /\ requests'[r].counted = requests[r].counted /\ requests'[r].targets = requests[r].targets \ {b}
    <3>1. \A r \in Requests : Step(r, "sending") => DOMAIN requests[r] = {"step", "counted", "targets"}
      BY DEF RosterShaped, RequestsShaped, RequestShaped, Step, NoRequest
    <3> QED BY <2>1, <3>1 DEF Step
  <2>6. \A d \in Dashboards \ {b} : WillShow(d) => WillShow(d)'
    <3> SUFFICES ASSUME NEW d \in Dashboards \ {b}, WillShow(d) PROVE WillShow(d)'
      OBVIOUS
    <3>1. CASE browsers[d].shown = version
      BY <2>2, <2>3, <3>1 DEF WillShow
    <3>2. ASSUME NEW r \in Requests,
                 requests[r].step \in {"committed", "counted"} \/ (Step(r, "sending") /\ d \in requests[r].targets)
          PROVE  WillShow(d)'
      BY <2>5, <3>2 DEF WillShow, Step
    <3> QED BY <3>1, <3>2 DEF WillShow
  <2>7. \A r \in Requests : Telling(r)' = Telling(r) /\ requests'[r].step = requests[r].step
    BY <2>5 DEF Telling, Step
  <2>8. LoneTold'
    <3> SUFFICES ASSUME lone' PROVE LoneTold'
      BY DEF LoneTold
    <3>1. \A r \in Requests : requests'[r].step \in {"counted", "sending"} => requests'[r].counted = version
      BY <2>2, <2>5, <2>7 DEF ShownInv, LoneTold
    <3>2. \A d \in Dashboards : /\ browsers'[d].state \in {"counted", "connected"} => browsers'[d].snap = version
                                /\ browsers'[d].state = "open" => WillShow(d)'
      BY <2>2, <2>3, <2>6 DEF ShownInv, LoneTold
    <3> QED BY <2>2, <2>7, <3>1, <3>2 DEF ShownInv, LoneTold
  <2> QED BY <2>4, <2>8 DEF ShownInv
<1>2. CASE RequestDies
  <2>1. PICK r \in Requests : /\ requests' = [requests EXCEPT ![r] = NoRequest]
                              /\ lone' = (lone /\ ~Telling(r))
    BY <1>2 DEF RequestDies, Set
  <2>2. UNCHANGED <<version, browsers, hub>>
    BY <1>2 DEF RequestDies, people, sockets
  <2>3. CASE ~lone'
    BY <2>2, <2>3 DEF ShownInv, SocketsShaped, LoneTold
  <2>4. CASE lone'
    <3>1. lone /\ ~Telling(r)
      BY <2>1, <2>4
    <3>2. requests'[r] = NoRequest /\ \A q \in Requests \ {r} : requests'[q] = requests[q]
      BY <1>0, <2>1
    <3> QED BY <2>2, <3>1, <3>2, ShownRests DEF Telling, NoRequest
  <2> QED BY <2>3, <2>4
<1>3. CASE ServerRestarts
  <2>1. /\ requests' = [r \in Requests |-> NoRequest] /\ browsers' = Lost(Dashboards)
    BY <1>3 DEF ServerRestarts
  <2>2. DOMAIN browsers' = Dashboards /\ \A b \in Dashboards :
          DOMAIN browsers'[b] = {"state", "snap", "shown"} /\ browsers'[b].state = "closed"
    BY <2>1 DEF Lost, Reconnecting, ShownInv, SocketsShaped
  <2> QED BY <2>1, <2>2 DEF ShownInv, SocketsShaped, LoneTold, Telling, NoRequest
<1> QED BY <1>1, <1>2, <1>3

\* Dashboards that were told of a change that nothing overlapped show the roster as
\* it is, however sockets, requests and servers fail.
THEOREM LoneChangesAreShown == RosterSpec => []LoneChangeIsShown
<1>1. RosterInit => ShownInv
  BY DEF RosterInit, ShownInv, SocketsShaped, LoneTold, Telling, Closed, NoRequest
<1>2. RosterShaped /\ RosterShaped' /\ ShownInv /\ [RosterNext]_rosterVars => ShownInv'
  <2> SUFFICES ASSUME RosterShaped, ShownInv, [RosterNext]_rosterVars PROVE ShownInv'
    OBVIOUS
  <2>1. CASE UNCHANGED rosterVars
    BY <2>1, ShownRests DEF rosterVars, people, sockets
  <2>2. CASE \E b \in Dashboards : TokenExpires(b) \/ TokenRenewed(b)
    BY <2>2, ShownRests DEF TokenExpires, TokenRenewed, people
  <2> QED
    BY <2>1, <2>2, ReportShown, TellingShown, DashboardShown, FaultsShown
       DEF RosterNext, StatusNext, SocketNext
<1>3. ShownInv => LoneChangeIsShown
  BY DEF ShownInv, LoneTold, WillShow, LoneChangeIsShown, Telling, Step
<1> QED BY InitShaped, <1>1, <1>2, <1>3, ShapeInvariant, PTL DEF RosterSpec
=============================================================================
