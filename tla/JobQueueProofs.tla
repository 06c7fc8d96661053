--------------------------- MODULE JobQueueProofs ---------------------------
(***************************************************************************)
(* Theorems about JobQueue for every set of jobs, passes and requests.     *)
(* The type invariant needs no condition.  Everything else needs Exclusive *)
(* (no run outlasts its lease, identities are not shared, enqueue is not   *)
(* entered twice at once) and follows from QueueInv, which is inductive    *)
(* under it.                                                               *)
(***************************************************************************)
EXTENDS JobQueueProps, TLAPS

\* An absent, a fresh and a flushed row are rows.
LEMMA RowsAreRows ==
  /\ Absent \in Row
  /\ Fresh \in Row
  /\ \A a, b, c \in Row : Flush(a, b, c) \in Row
BY DEF Absent, Fresh, Row, Status, Flush, Column

-----------------------------------------------------------------------------
(* Type correctness *)

LEMMA InitTypeOK == Init => TypeOK
BY JobQueueAssumption, RowsAreRows DEF Init, TypeOK, NoRequest

LEMMA ScheduleType ==
  ASSUME TypeOK, NEW S \in SUBSET Jobs, ScheduleNow(S) \/ Unschedule(S)
  PROVE  earlier' \subseteq Jobs \X Jobs
BY DEF TypeOK, ScheduleNow, Unschedule, Due

LEMMA EnqueueType ==
  ASSUME TypeOK, NEW r \in Requests, Enqueue(r)
  PROVE  TypeOK'
<1>1. ASSUME NEW j \in Jobs, EnqueueRead(r, j) PROVE TypeOK'
  BY <1>1 DEF EnqueueRead, TypeOK, queueVars, passVars
<1>2. CASE EnqueueRearm(r)
  <2> DEFINE j == req[r].job
             new == Flush(req[r].seen, Fresh, row[j])
  <2>1. j \in Jobs /\ req[r].seen \in Row
    BY <1>2 DEF EnqueueRearm, InEnqueue, TypeOK, NoRequest
  <2>2. new \in Row
    BY <2>1, RowsAreRows DEF TypeOK
  <2>3. earlier' \subseteq Jobs \X Jobs
    <3>1. CASE new.status = "queued"
      BY <1>2, <2>1, <3>1, ScheduleType DEF EnqueueRearm
    <3>2. CASE new.status # "queued"
      BY <1>2, <3>2 DEF EnqueueRearm, TypeOK
    <3> QED BY <3>1, <3>2
  <2>4. row' \in [Jobs -> Row] /\ stale' \subseteq Jobs
    BY <1>2, <2>1, <2>2 DEF EnqueueRearm, TypeOK
  <2>5. reclaims' \in [Jobs -> Nat] /\ req' \in [Requests -> [job : Jobs, seen : Row] \cup {NoRequest}]
    BY <1>2 DEF EnqueueRearm, TypeOK
  <2> QED
    BY <1>2, <2>3, <2>4, <2>5 DEF EnqueueRearm, TypeOK, passVars
<1>3. CASE EnqueueInsert(r)
  <2> DEFINE j == req[r].job
  <2>1. j \in Jobs
    BY <1>3 DEF EnqueueInsert, InEnqueue, TypeOK, NoRequest
  <2>2. CASE row[j].status = "absent"
    <3>1. earlier' \subseteq Jobs \X Jobs
      BY <1>3, <2>1, <2>2, ScheduleType DEF EnqueueInsert
    <3>2. row' \in [Jobs -> Row]
      BY <1>3, <2>1, <2>2, RowsAreRows DEF EnqueueInsert, TypeOK
    <3> QED BY <1>3, <3>1, <3>2 DEF EnqueueInsert, TypeOK, passVars
  <2>3. CASE row[j].status # "absent"
    BY <1>3, <2>1, <2>3 DEF EnqueueInsert, TypeOK, passVars
  <2> QED BY <2>2, <2>3
<1>4. CASE EnqueueRollback(r)
  BY <1>4 DEF EnqueueRollback, TypeOK, queueVars, passVars
<1> QED BY <1>1, <1>2, <1>3, <1>4 DEF Enqueue

\* The write that ends a run, whatever outcome it carries.
LEMMA RunJobWriteType ==
  ASSUME TypeOK, NEW p \in Passes, NEW j \in Jobs, NEW new \in Row, RunJobWrite(p, j, new)
  PROVE  TypeOK'
<1> DEFINE written == Flush(loaded[p][j], new, row[j])
<1>1. written \in Row
  BY RowsAreRows DEF TypeOK
<1>2. earlier' \subseteq Jobs \X Jobs
  <2>1. CASE Unschedule({j})
    BY <2>1, ScheduleType
  <2>2. CASE UNCHANGED earlier
    BY <2>2 DEF TypeOK
  <2> QED BY <2>1, <2>2 DEF RunJobWrite
<1>3. row' \in [Jobs -> Row] /\ stale' \subseteq Jobs
  BY <1>1 DEF RunJobWrite, TypeOK
<1>4. run' \in [Passes -> [Jobs -> {"none", "collected", "running"}]] /\ loaded' \in [Passes -> [Jobs -> Row]]
  BY RowsAreRows DEF RunJobWrite, TypeOK
<1> QED
  BY <1>2, <1>3, <1>4 DEF RunJobWrite, TypeOK

\* What mark_succeeded writes is a row.
LEMMA OutcomeIsRow ==
  ASSUME TypeOK, NEW p \in Passes, NEW j \in Jobs
  PROVE  [loaded[p][j] EXCEPT !.status = "succeeded", !.owner = NoOne] \in Row
<1> SUFFICES ASSUME NEW x \in Row PROVE [x EXCEPT !.status = "succeeded", !.owner = NoOne] \in Row
  BY DEF TypeOK
<1> QED BY DEF Row, Status

LEMMA RunEndsType ==
  ASSUME TypeOK, NEW p \in Passes, NEW j \in Jobs, RunEnds(p, j)
  PROVE  TypeOK'
<1>1. CASE MarkSucceeded(p, j)
  BY <1>1, RunJobWriteType, OutcomeIsRow DEF MarkSucceeded
<1>2. CASE RunFails(p, j)
  BY <1>2, RowsAreRows DEF RunFails, TypeOK, queueVars
<1> QED BY <1>1, <1>2 DEF RunEnds

LEMMA PassStepType ==
  ASSUME TypeOK, NEW p \in Passes, PassStep(p)
  PROVE  TypeOK'
<1>1. CASE ReclaimStale(p)
  <2>0. Reclaimable \subseteq Jobs
    BY DEF Reclaimable, TypeOK
  <2>1. earlier' \subseteq Jobs \X Jobs
    BY <1>1, <2>0, ScheduleType DEF ReclaimStale, TypeOK
  <2>2. row' \in [Jobs -> Row]
    <3>1. \A x \in Row : [x EXCEPT !.status = "queued", !.owner = NoOne] \in Row
      BY DEF Row, Status
    <3>2. \A j \in Jobs : [row[j] EXCEPT !.status = "queued", !.owner = NoOne] \in Row
      BY <3>1 DEF TypeOK
    <3> QED BY <1>1, <3>2 DEF ReclaimStale, Reclaimable, TypeOK
  <2>3. reclaims' \in [Jobs -> Nat]
    <3>1. \A j \in Jobs : reclaims[j] \in Nat /\ reclaims[j] + 1 \in Nat
      BY DEF TypeOK
    <3> QED BY <1>1, <3>1 DEF ReclaimStale, Reclaimable
  <2> QED BY <1>1, <2>1, <2>2, <2>3 DEF ReclaimStale, Reclaimable, TypeOK, passVars
<1>2. CASE ClaimSelect(p)
  BY <1>2 DEF ClaimSelect, FirstDue, Due, TypeOK, queueVars
<1>3. CASE ClaimTake(p)
  <2>1. Won(p) \subseteq Jobs
    BY DEF Won, TypeOK
  <2>2. earlier' \subseteq Jobs \X Jobs
    BY <1>3, <2>1, ScheduleType DEF ClaimTake, Won, TakenRow
  <2>3. row' \in [Jobs -> Row]
    <3>1. \A j \in Jobs : [status |-> "running", attempts |-> row[j].attempts + 1,
                            owner |-> WorkerOf[p]] \in Row
      BY JobQueueAssumption DEF TypeOK, Row, Status
    <3> QED BY <1>3, <3>1 DEF ClaimTake, Won, TakenRow, TypeOK
  <2> QED BY <1>3, <2>2, <2>3 DEF ClaimTake, Won, TakenRow, TypeOK
<1>4. CASE ClaimCollect(p)
  <2>1. Claimed(p) \subseteq Jobs
    BY DEF Claimed, TypeOK
  <2>2. waits' \in [Passes -> SUBSET Jobs]
    BY <1>4, <2>1 DEF ClaimCollect, TypeOK
  <2>3. run' \in [Passes -> [Jobs -> {"none", "collected", "running"}]]
    <3>1. \A j \in Jobs : run[p][j] \in {"none", "collected", "running"}
      BY DEF TypeOK
    <3> QED BY <1>4, <3>1 DEF ClaimCollect, TypeOK
  <2>4. pc' \in [Passes -> {"idle", "selected", "taken"}] /\ cand' \in [Passes -> SUBSET Jobs]
    BY <1>4 DEF ClaimCollect, TypeOK
  <2> QED BY <1>4, <2>2, <2>3, <2>4 DEF ClaimCollect, TypeOK, queueVars
<1>5. ASSUME NEW j \in Jobs, RunJobLoad(p, j) PROVE TypeOK'
  BY <1>5 DEF RunJobLoad, TypeOK, queueVars
<1>6. ASSUME NEW j \in Jobs, RunEnds(p, j) PROVE TypeOK'
  BY <1>6, RunEndsType
<1> QED BY <1>1, <1>2, <1>3, <1>4, <1>5, <1>6 DEF PassStep

LEMMA EnvironmentType ==
  ASSUME TypeOK
  PROVE  /\ \A j \in Jobs : LockAges(j) => TypeOK'
         /\ \A w \in Workers : Crash(w) \/ WorkerExits(w) \/ RequestStop(w) => TypeOK'
<1>2. ASSUME NEW j \in Jobs, LockAges(j) PROVE TypeOK'
  BY <1>2 DEF LockAges, TypeOK, passVars
<1>3. ASSUME NEW w \in Workers, Crash(w) \/ WorkerExits(w) PROVE TypeOK'
  <2>1. ProcessGone(w) /\ faults' \in Nat
    BY <1>3 DEF Crash, WorkerExits, TypeOK
  <2>2. /\ pc' \in [Passes -> {"idle", "selected", "taken"}]
        /\ cand' \in [Passes -> SUBSET Jobs]
        /\ waits' \in [Passes -> SUBSET Jobs]
    BY <2>1 DEF ProcessGone, TypeOK
  <2>3. run' \in [Passes -> [Jobs -> {"none", "collected", "running"}]]
    BY <2>1 DEF ProcessGone, TypeOK
  <2>4. loaded' \in [Passes -> [Jobs -> Row]]
    BY <2>1, RowsAreRows DEF ProcessGone, TypeOK
  <2> QED BY <2>1, <2>2, <2>3, <2>4 DEF ProcessGone, TypeOK, queueVars
<1>4. ASSUME NEW w \in Workers, RequestStop(w) PROVE TypeOK'
  BY <1>4 DEF RequestStop, TypeOK, queueVars, passVars
<1> QED BY <1>2, <1>3, <1>4

LEMMA NextTypeOK == TypeOK /\ [Next]_vars => TypeOK'
<1> SUFFICES ASSUME TypeOK, [Next]_vars PROVE TypeOK'
  OBVIOUS
<1>1. CASE Next
  BY <1>1, EnqueueType, PassStepType, EnvironmentType DEF Next
<1>2. CASE UNCHANGED vars
  BY <1>2 DEF vars, queueVars, passVars, TypeOK
<1> QED BY <1>1, <1>2

\* Every variable keeps its type, under every interleaving and every fault.
THEOREM TypeCorrect == Spec => []TypeOK
BY InitTypeOK, NextTypeOK, PTL DEF Spec

-----------------------------------------------------------------------------
(* The inductive invariant, one lemma per action *)

LEMMA InitQueueInv == Init => QueueInv
<1> SUFFICES ASSUME Init PROVE QueueInv
  OBVIOUS
<1>1. TypeOK
  BY InitTypeOK
<1>2. RowsWellFormed
  BY DEF Init, RowsWellFormed, Absent
<1>3. PassesOwnTheirRows /\ LoadedCopyCurrent
  BY DEF Init, PassesOwnTheirRows, LoadedCopyCurrent
<1>4. SeenRowCurrent
  BY DEF Init, SeenRowCurrent, InEnqueue
<1>5. AttemptsBudget
  BY JobQueueAssumption DEF Init, AttemptsBudget, Absent
<1> QED BY <1>1, <1>2, <1>3, <1>4, <1>5 DEF QueueInv

\* An action that leaves the table, the passes and the requests alone.
LEMMA FrameQueueInv ==
  ASSUME QueueInv, UNCHANGED <<queueVars, passVars, req, reclaims>>, TypeOK'
  PROVE  QueueInv'
<1>1. RowsWellFormed' /\ AttemptsBudget'
  BY DEF QueueInv, RowsWellFormed, AttemptsBudget, queueVars
<1>2. PassesOwnTheirRows' /\ LoadedCopyCurrent'
  BY DEF QueueInv, PassesOwnTheirRows, LoadedCopyCurrent, Claimed, queueVars, passVars
<1>3. SeenRowCurrent'
  BY DEF QueueInv, SeenRowCurrent, InEnqueue, queueVars
<1> QED BY <1>1, <1>2, <1>3 DEF QueueInv

LEMMA EnqueueReadInv ==
  ASSUME QueueInv, NEW r \in Requests, NEW j \in Jobs, EnqueueRead(r, j), TypeOK'
  PROVE  QueueInv'
<1>1. RowsWellFormed' /\ AttemptsBudget'
  BY DEF QueueInv, RowsWellFormed, AttemptsBudget, EnqueueRead, queueVars
<1>2. PassesOwnTheirRows' /\ LoadedCopyCurrent'
  BY DEF QueueInv, PassesOwnTheirRows, LoadedCopyCurrent, Claimed, EnqueueRead, queueVars, passVars
<1>3. SeenRowCurrent'
  <2> SUFFICES ASSUME NEW s \in Requests, InEnqueue(s)'
               PROVE  /\ req'[s].seen.owner = NoOne
                      /\ req'[s].seen.status # "running"
                      /\ req'[s].seen.status # "queued" => row'[req'[s].job] = req'[s].seen
    BY DEF SeenRowCurrent
  <2>1. CASE s = r
    <3>1. req'[r] = [job |-> j, seen |-> row[j]] /\ row' = row
      BY DEF EnqueueRead, QueueInv, TypeOK, queueVars
    <3>2. row[j].status # "running" /\ row[j].owner = NoOne
      BY DEF EnqueueRead, QueueInv, RowsWellFormed
    <3> QED BY <2>1, <3>1, <3>2
  <2>2. CASE s # r
    <3>1. req'[s] = req[s] /\ row' = row
      BY <2>2 DEF EnqueueRead, QueueInv, TypeOK, queueVars
    <3> QED BY <3>1 DEF QueueInv, SeenRowCurrent, InEnqueue
  <2> QED BY <2>1, <2>2
<1> QED BY <1>1, <1>2, <1>3 DEF QueueInv

\* What a re-arm can do to its row: nothing but zero the attempts when the row
\* has been claimed, otherwise leave it idle.
LEMMA RearmWrites ==
  ASSUME QueueInv, NEW r \in Requests, EnqueueRearm(r)
  PROVE  LET j == req[r].job  new == Flush(req[r].seen, Fresh, row[j])
         IN  /\ j \in Jobs
             /\ new \in Row
             /\ row' = [row EXCEPT ![j] = new]
             /\ new.owner = row[j].owner
             /\ row[j].status = "running" <=> new.status = "running"
             /\ new.status # "queued" => new.status = row[j].status
             /\ new.attempts \in {0, row[j].attempts}
             /\ new.attempts = row[j].attempts =>
                  row[j].attempts = 0 \/ row[j].status = new.status
<1> DEFINE j == req[r].job
           seen == req[r].seen
           new == Flush(seen, Fresh, row[j])
<1>1. j \in Jobs /\ seen \in Row /\ row[j] \in Row
  BY DEF EnqueueRearm, InEnqueue, QueueInv, TypeOK, NoRequest
<1>2. seen.owner = NoOne /\ seen.status # "running" /\ (seen.status # "queued" => row[j] = seen)
  BY DEF EnqueueRearm, QueueInv, SeenRowCurrent
<1>3. new \in Row
  BY <1>1, RowsAreRows
<1>4. /\ new.status = (IF seen.status # "queued" THEN "queued" ELSE row[j].status)
      /\ new.attempts = (IF seen.attempts # 0 THEN 0 ELSE row[j].attempts)
      /\ new.owner = (IF seen.owner # NoOne THEN NoOne ELSE row[j].owner)
  BY DEF Flush, Column, Fresh
<1>5. row' = [row EXCEPT ![j] = new]
  BY DEF EnqueueRearm
<1>6. new.owner = row[j].owner /\ new.attempts \in {0, row[j].attempts}
  BY <1>2, <1>4
<1>7. /\ row[j].status = "running" <=> new.status = "running"
      /\ new.status # "queued" => new.status = row[j].status
  BY <1>2, <1>4
<1>8. new.attempts = row[j].attempts => row[j].attempts = 0 \/ row[j].status = new.status
  BY <1>2, <1>4
<1> QED BY <1>1, <1>3, <1>5, <1>6, <1>7, <1>8

LEMMA EnqueueRearmInv ==
  ASSUME QueueInv, Exclusive, NEW r \in Requests, EnqueueRearm(r), TypeOK'
  PROVE  QueueInv'
<1> DEFINE j == req[r].job
           new == Flush(req[r].seen, Fresh, row[j])
<1>1. /\ j \in Jobs
      /\ new \in Row
      /\ row[j] \in Row
      /\ row' = [row EXCEPT ![j] = new]
      /\ new.owner = row[j].owner
      /\ row[j].status = "running" <=> new.status = "running"
      /\ new.status # "queued" => new.status = row[j].status
      /\ new.attempts \in {0, row[j].attempts}
      /\ new.attempts = row[j].attempts => row[j].attempts = 0 \/ row[j].status = new.status
  BY RearmWrites DEF QueueInv, TypeOK
<1>2. row'[j] = new /\ \A i \in Jobs : i # j => row'[i] = row[i]
  BY <1>1 DEF QueueInv, TypeOK
<1>3. stale' \subseteq stale
  BY DEF EnqueueRearm
<1>5. RowsWellFormed'
  <2>1. \A i \in Jobs : row'[i].status = "running" <=> row'[i].owner # NoOne
    BY <1>1, <1>2 DEF QueueInv, RowsWellFormed
  <2>2. \A i \in stale' : row'[i].status = "running"
    BY <1>1, <1>2, <1>3 DEF QueueInv, RowsWellFormed, TypeOK
  <2> QED BY <2>1, <2>2 DEF RowsWellFormed
<1>6. PassesOwnTheirRows'
  <2>1. UNCHANGED <<pc, cand, run>>
    BY DEF EnqueueRearm, passVars
  <2>2. \A i \in Jobs : row'[i].owner = row[i].owner
    BY <1>1, <1>2
  <2>3. \A i \in Jobs : row'[i].status = "running" <=> row[i].status = "running"
    BY <1>1, <1>2
  <2> QED BY <2>1, <2>2, <2>3, <1>3 DEF QueueInv, PassesOwnTheirRows, Claimed, TypeOK
<1>7. LoadedCopyCurrent'
  BY DEF EnqueueRearm, passVars, QueueInv, LoadedCopyCurrent
<1>8. SeenRowCurrent'
  <2>1. \A s \in Requests : ~InEnqueue(s)'
    BY DEF EnqueueRearm, Exclusive, InEnqueue, QueueInv, TypeOK
  <2> QED BY <2>1 DEF SeenRowCurrent
<1>9. AttemptsBudget'
  <2>1. reclaims' = [reclaims EXCEPT ![j] = IF new.attempts = 0 THEN 0 ELSE @]
    BY DEF EnqueueRearm
  <2>2. reclaims \in [Jobs -> Nat]
    BY DEF QueueInv, TypeOK
  <2>3. ASSUME NEW i \in Jobs
        PROVE  /\ row'[i].attempts <= reclaims'[i] + 1
               /\ row'[i].status = "queued" => row'[i].attempts <= reclaims'[i]
    <3>1. CASE i = j /\ new.attempts = 0
      BY <1>1, <1>2, <2>1, <2>2, <3>1
    <3>2. CASE i = j /\ new.attempts # 0
      <4>1. row'[i].attempts = row[i].attempts /\ row'[i].status = row[i].status
        BY <1>1, <1>2, <3>2
      <4>2. reclaims'[i] = reclaims[i]
        BY <2>1, <2>2, <3>2
      <4> QED BY <4>1, <4>2 DEF QueueInv, AttemptsBudget
    <3>3. CASE i # j
      BY <1>2, <2>1, <2>2, <3>3 DEF QueueInv, AttemptsBudget
    <3> QED BY <3>1, <3>2, <3>3
  <2> QED BY <2>3 DEF AttemptsBudget
<1> QED BY <1>5, <1>6, <1>7, <1>8, <1>9 DEF QueueInv

LEMMA EnqueueInsertInv ==
  ASSUME QueueInv, Exclusive, NEW r \in Requests, EnqueueInsert(r), TypeOK'
  PROVE  QueueInv'
<1> DEFINE j == req[r].job
<1>1. j \in Jobs
  BY DEF EnqueueInsert, InEnqueue, QueueInv, TypeOK, NoRequest
<1>2. SeenRowCurrent'
  <2>1. \A s \in Requests : ~InEnqueue(s)'
    BY DEF EnqueueInsert, Exclusive, InEnqueue, QueueInv, TypeOK
  <2> QED BY <2>1 DEF SeenRowCurrent
<1>3. CASE row[j].status # "absent"
  <2>1. UNCHANGED <<queueVars, passVars, reclaims>>
    BY <1>3 DEF EnqueueInsert, queueVars
  <2>2. RowsWellFormed' /\ AttemptsBudget'
    BY <2>1 DEF QueueInv, RowsWellFormed, AttemptsBudget, queueVars
  <2>3. PassesOwnTheirRows' /\ LoadedCopyCurrent'
    BY <2>1 DEF QueueInv, PassesOwnTheirRows, LoadedCopyCurrent, Claimed, queueVars, passVars
  <2> QED BY <1>2, <2>2, <2>3 DEF QueueInv
<1>4. CASE row[j].status = "absent"
  <2>1. /\ row' = [row EXCEPT ![j] = Fresh]
        /\ UNCHANGED <<stale, pc, cand, run, loaded, reclaims>>
    BY <1>4 DEF EnqueueInsert, passVars
  <2>2. row'[j] = Fresh /\ \A i \in Jobs : i # j => row'[i] = row[i]
    BY <1>1, <2>1 DEF QueueInv, TypeOK
  <2>3. row[j].owner = NoOne
    BY <1>1, <1>4 DEF QueueInv, RowsWellFormed
  <2>4. RowsWellFormed'
    BY <1>1, <1>4, <2>1, <2>2 DEF QueueInv, RowsWellFormed, TypeOK, Fresh
  <2>5. PassesOwnTheirRows'
    <3>1. \A i \in Jobs : row'[i].owner = row[i].owner
      BY <2>2, <2>3 DEF Fresh
    <3>2. \A i \in Jobs : row'[i].status = "running" <=> row[i].status = "running"
      BY <1>4, <2>2 DEF Fresh
    <3> QED BY <2>1, <3>1, <3>2 DEF QueueInv, PassesOwnTheirRows, Claimed, TypeOK
  <2>6. LoadedCopyCurrent'
    <3>1. \A p \in Passes : run[p][j] = "none"
      BY <1>1, <1>4 DEF QueueInv, PassesOwnTheirRows
    <3> QED BY <2>1, <2>2, <3>1 DEF QueueInv, LoadedCopyCurrent
  <2>7. AttemptsBudget'
    <3>1. reclaims \in [Jobs -> Nat]
      BY DEF QueueInv, TypeOK
    <3>2. /\ row'[j].attempts <= reclaims[j] + 1
          /\ row'[j].attempts <= reclaims[j]
      BY <1>1, <2>2, <3>1 DEF Fresh
    <3> QED BY <2>1, <2>2, <3>2 DEF QueueInv, AttemptsBudget
  <2> QED BY <1>2, <2>4, <2>5, <2>6, <2>7 DEF QueueInv
<1> QED BY <1>3, <1>4

\* An action that leaves every row and every enqueue alone keeps what they say
\* of each other.
LEMMA SeenFrame ==
  ASSUME QueueInv, UNCHANGED <<row, req>>
  PROVE  SeenRowCurrent'
BY DEF QueueInv, SeenRowCurrent, InEnqueue

\* An idle row is not held, so what enqueue read of it stays true when only
\* queued or running rows are written.
LEMMA SeenKept ==
  ASSUME QueueInv, UNCHANGED req,
         \A j \in Jobs : row[j].status \notin {"queued", "running"} => row'[j] = row[j]
  PROVE  SeenRowCurrent'
<1> SUFFICES ASSUME NEW r \in Requests, InEnqueue(r)
             PROVE  /\ req[r].seen.owner = NoOne
                    /\ req[r].seen.status # "running"
                    /\ req[r].seen.status # "queued" => row'[req[r].job] = req[r].seen
  BY DEF SeenRowCurrent, InEnqueue
<1>1. req[r].job \in Jobs
  BY DEF InEnqueue, QueueInv, TypeOK, NoRequest
<1>2. /\ req[r].seen.owner = NoOne
      /\ req[r].seen.status # "running"
      /\ req[r].seen.status # "queued" => row[req[r].job] = req[r].seen
  BY DEF QueueInv, SeenRowCurrent
<1> QED BY <1>1, <1>2

LEMMA ClaimSelectInv ==
  ASSUME QueueInv, NEW p \in Passes, ClaimSelect(p), TypeOK'
  PROVE  QueueInv'
<1>1. UNCHANGED <<row, stale, run, loaded, req, reclaims>>
  BY DEF ClaimSelect, queueVars
<1>2. RowsWellFormed' /\ AttemptsBudget' /\ LoadedCopyCurrent' /\ SeenRowCurrent'
  BY <1>1, SeenFrame DEF QueueInv, RowsWellFormed, AttemptsBudget, LoadedCopyCurrent
<1>3. PassesOwnTheirRows'
  <2>1. /\ pc'[p] = "selected" /\ cand'[p] \subseteq Due
        /\ \A q \in Passes : q # p => pc'[q] = pc[q] /\ cand'[q] = cand[q]
    BY DEF ClaimSelect, FirstDue, QueueInv, TypeOK
  <2>2. \A j \in cand'[p] : run[p][j] = "none"
    BY <2>1 DEF Due, QueueInv, RowsWellFormed, PassesOwnTheirRows, TypeOK
  <2>3. \A j \in cand'[p] : row[j].owner # WorkerOf[p]
    <3>1. \A j \in Due : j \in Jobs /\ row[j].owner = NoOne
      BY DEF Due, QueueInv, RowsWellFormed, TypeOK
    <3>2. WorkerOf[p] # NoOne
      BY JobQueueAssumption
    <3> QED BY <2>1, <3>1, <3>2
  <2>4. \A q \in Passes : q # p => Claimed(q)' = Claimed(q)
    BY <1>1, <2>1 DEF Claimed
  <2> QED BY <1>1, <2>1, <2>2, <2>3, <2>4 DEF QueueInv, PassesOwnTheirRows
<1> QED BY <1>2, <1>3 DEF QueueInv

LEMMA ClaimTakeInv ==
  ASSUME QueueInv, Exclusive, NEW p \in Passes, ClaimTake(p), TypeOK'
  PROVE  QueueInv'
<1>1. /\ \A j \in Jobs : j \notin Won(p) => row'[j] = row[j]
      /\ \A j \in Jobs : j \in Won(p) =>
           /\ row[j].status = "queued"
           /\ row'[j] = [status |-> "running", attempts |-> row[j].attempts + 1,
                         owner |-> WorkerOf[p]]
  BY DEF ClaimTake, Won, TakenRow, QueueInv, TypeOK
<1>2. /\ UNCHANGED <<stale, cand, run, loaded, req, reclaims>>
      /\ pc[p] = "selected"
      /\ pc' = [pc EXCEPT ![p] = "taken"]
  BY DEF ClaimTake, Won, TakenRow, Unschedule
<1>3. WorkerOf[p] \in Workers /\ WorkerOf[p] # NoOne
  BY JobQueueAssumption
<1>4. \A j \in Won(p) : j \notin stale /\ row[j].owner = NoOne /\ \A q \in Passes : run[q][j] = "none"
  BY DEF Won, QueueInv, RowsWellFormed, PassesOwnTheirRows, TypeOK
<1>5. RowsWellFormed'
  <2>1. ASSUME NEW j \in Jobs PROVE row'[j].status = "running" <=> row'[j].owner # NoOne
    <3>1. CASE j \in Won(p)
      <4>1. row'[j] = [status |-> "running", attempts |-> row[j].attempts + 1,
                       owner |-> WorkerOf[p]]
        BY <1>1, <3>1
      <4> QED BY <1>3, <4>1
    <3>2. CASE j \notin Won(p)
      BY <1>1, <3>2 DEF QueueInv, RowsWellFormed
    <3> QED BY <3>1, <3>2
  <2>2. \A j \in stale' : row'[j].status = "running"
    BY <1>1, <1>2, <1>4 DEF QueueInv, RowsWellFormed, TypeOK
  <2> QED BY <2>1, <2>2 DEF RowsWellFormed
<1>6. PassesOwnTheirRows'
  <2> SUFFICES ASSUME NEW q \in Passes
               PROVE  /\ pc'[q] # "idle" => \A j \in cand'[q] : run'[q][j] = "none"
                      /\ pc'[q] = "selected" => \A j \in cand'[q] : row'[j].owner # WorkerOf[q]
                      /\ pc'[q] = "taken" => \A j \in Claimed(q)' : j \notin stale'
                      /\ \A j \in Jobs : run'[q][j] # "none" =>
                           row'[j].status = "running" /\ row'[j].owner = WorkerOf[q] /\ j \notin stale'
    BY DEF PassesOwnTheirRows
  <2>1. pc'[q] # "idle" => \A j \in cand'[q] : run'[q][j] = "none"
    BY <1>2 DEF QueueInv, PassesOwnTheirRows, TypeOK
  <2>2. pc'[q] = "selected" => \A j \in cand'[q] : row'[j].owner # WorkerOf[q]
    <3>1. CASE q = p
      BY <1>2, <3>1 DEF QueueInv, TypeOK
    <3>2. CASE q # p
      <4>1. \A j \in Won(p) : row'[j].owner = WorkerOf[p]
        BY <1>1 DEF Won, QueueInv, TypeOK
      <4>2. WorkerOf[p] # WorkerOf[q]
        BY <3>2 DEF Exclusive
      <4>3. pc'[q] = pc[q] /\ cand'[q] = cand[q] /\ cand[q] \subseteq Jobs
        BY <1>2, <3>2 DEF QueueInv, TypeOK
      <4>4. pc[q] = "selected" => \A j \in cand[q] : row[j].owner # WorkerOf[q]
        BY DEF QueueInv, PassesOwnTheirRows
      <4>5. \A j \in Jobs : row'[j].owner \in {row[j].owner, WorkerOf[p]}
        BY <1>1, <4>1
      <4> QED BY <4>2, <4>3, <4>4, <4>5
    <3> QED BY <3>1, <3>2
  <2>3. pc'[q] = "taken" => \A j \in Claimed(q)' : j \notin stale'
    <3> SUFFICES ASSUME pc'[q] = "taken", NEW j \in Claimed(q)' PROVE j \notin stale
      BY <1>2
    <3>1. CASE j \in Won(p)
      BY <1>4, <3>1
    <3>2. CASE j \notin Won(p)
      <4>1. j \in Jobs /\ j \in cand[q] /\ row[j].status = "running" /\ row[j].owner = WorkerOf[q]
        BY <1>1, <1>2, <3>2 DEF Claimed, QueueInv, TypeOK
      <4>2. q # p
        BY <1>2, <4>1 DEF QueueInv, PassesOwnTheirRows
      <4> QED BY <1>2, <4>1, <4>2 DEF QueueInv, PassesOwnTheirRows, Claimed, TypeOK
    <3> QED BY <3>1, <3>2
  <2>4. \A j \in Jobs : run'[q][j] # "none" =>
           row'[j].status = "running" /\ row'[j].owner = WorkerOf[q] /\ j \notin stale'
    BY <1>1, <1>2, <1>4 DEF QueueInv, PassesOwnTheirRows
  <2> QED BY <2>1, <2>2, <2>3, <2>4
<1>7. LoadedCopyCurrent'
  <2>1. \A q \in Passes, j \in Jobs : run'[q][j] = "running" => run[q][j] = "running" /\ row'[j] = row[j]
    BY <1>1, <1>2, <1>4
  <2> QED BY <1>2, <2>1 DEF QueueInv, LoadedCopyCurrent
<1>8. SeenRowCurrent'
  BY <1>1, <1>2, SeenKept
<1>9. AttemptsBudget'
  <2>1. \A j \in Jobs : row[j].attempts \in Nat /\ reclaims[j] \in Nat
    BY DEF QueueInv, TypeOK, Row
  <2>2. ASSUME NEW j \in Jobs
        PROVE  /\ row'[j].attempts <= reclaims'[j] + 1
               /\ row'[j].status = "queued" => row'[j].attempts <= reclaims'[j]
    <3>1. CASE j \in Won(p)
      <4>1. row[j].attempts <= reclaims[j]
        BY <1>1, <3>1 DEF QueueInv, AttemptsBudget
      <4>2. row'[j] = [status |-> "running", attempts |-> row[j].attempts + 1,
                       owner |-> WorkerOf[p]]
        BY <1>1, <3>1
      <4> QED BY <1>2, <2>1, <4>1, <4>2, JobQueueAssumption
    <3>2. CASE j \notin Won(p)
      BY <1>1, <1>2, <3>2 DEF QueueInv, AttemptsBudget
    <3> QED BY <3>1, <3>2
  <2> QED BY <2>2 DEF AttemptsBudget
<1> QED BY <1>5, <1>6, <1>7, <1>8, <1>9 DEF QueueInv

LEMMA ClaimCollectInv ==
  ASSUME QueueInv, NEW p \in Passes, ClaimCollect(p), TypeOK'
  PROVE  QueueInv'
<1>1. /\ UNCHANGED <<row, stale, loaded, req, reclaims>>
      /\ pc[p] = "taken"
      /\ pc' = [pc EXCEPT ![p] = "idle"]
      /\ cand' = [cand EXCEPT ![p] = {}]
      /\ run' = [run EXCEPT ![p] =
                   [j \in Jobs |-> IF j \in Claimed(p) THEN "collected" ELSE run[p][j]]]
  BY DEF ClaimCollect, queueVars
<1>2. RowsWellFormed' /\ AttemptsBudget' /\ SeenRowCurrent'
  BY <1>1, SeenFrame DEF QueueInv, RowsWellFormed, AttemptsBudget
<1>3. \A q \in Passes, j \in Jobs :
         run'[q][j] = IF q # p THEN run[q][j]
                      ELSE IF j \in Claimed(p) THEN "collected" ELSE run[p][j]
  BY <1>1 DEF QueueInv, TypeOK
<1>4. LoadedCopyCurrent'
  <2>1. \A q \in Passes, j \in Jobs : run'[q][j] = "running" => run[q][j] = "running"
    BY <1>3
  <2> QED BY <1>1, <2>1 DEF QueueInv, LoadedCopyCurrent
<1>5. PassesOwnTheirRows'
  <2> SUFFICES ASSUME NEW q \in Passes
               PROVE  /\ pc'[q] # "idle" => \A j \in cand'[q] : run'[q][j] = "none"
                      /\ pc'[q] = "selected" => \A j \in cand'[q] : row'[j].owner # WorkerOf[q]
                      /\ pc'[q] = "taken" => \A j \in Claimed(q)' : j \notin stale'
                      /\ \A j \in Jobs : run'[q][j] # "none" =>
                           row'[j].status = "running" /\ row'[j].owner = WorkerOf[q] /\ j \notin stale'
    BY DEF PassesOwnTheirRows
  <2>1. CASE q = p
    <3>1. pc'[q] = "idle"
      BY <1>1, <2>1 DEF QueueInv, TypeOK
    <3>2. \A j \in Jobs : run'[q][j] # "none" => j \in Claimed(p) \/ run[q][j] # "none"
      BY <1>3, <2>1
    <3>3. \A j \in Claimed(p) : row[j].status = "running" /\ row[j].owner = WorkerOf[p] /\ j \notin stale
      BY <1>1 DEF Claimed, QueueInv, PassesOwnTheirRows
    <3>4. \A j \in Jobs : run[p][j] # "none" =>
             row[j].status = "running" /\ row[j].owner = WorkerOf[p] /\ j \notin stale
      BY DEF QueueInv, PassesOwnTheirRows
    <3> QED BY <1>1, <2>1, <3>1, <3>2, <3>3, <3>4
  <2>2. CASE q # p
    <3>1. pc'[q] = pc[q] /\ cand'[q] = cand[q] /\ \A j \in Jobs : run'[q][j] = run[q][j]
      BY <1>1, <1>3, <2>2 DEF QueueInv, TypeOK
    <3>2. Claimed(q)' = Claimed(q)
      BY <1>1, <3>1 DEF Claimed
    <3>3. cand[q] \subseteq Jobs
      BY DEF QueueInv, TypeOK
    <3> QED BY <1>1, <3>1, <3>2, <3>3 DEF QueueInv, PassesOwnTheirRows
  <2> QED BY <2>1, <2>2
<1> QED BY <1>2, <1>4, <1>5 DEF QueueInv

LEMMA RunJobLoadInv ==
  ASSUME QueueInv, NEW p \in Passes, NEW j \in Jobs, RunJobLoad(p, j), TypeOK'
  PROVE  QueueInv'
<1>1. /\ UNCHANGED <<row, stale, pc, cand, req, reclaims>>
      /\ run[p][j] = "collected"
      /\ run' = [run EXCEPT ![p][j] = "running"]
      /\ loaded' = [loaded EXCEPT ![p][j] = row[j]]
  BY DEF RunJobLoad, queueVars
<1>2. RowsWellFormed' /\ AttemptsBudget' /\ SeenRowCurrent'
  BY <1>1, SeenFrame DEF QueueInv, RowsWellFormed, AttemptsBudget
<1>3. \A q \in Passes, i \in Jobs : run'[q][i] # "none" => run[q][i] # "none"
  BY <1>1 DEF QueueInv, TypeOK
<1>4. PassesOwnTheirRows'
  <2>1. \A q \in Passes : Claimed(q)' = Claimed(q)
    BY <1>1 DEF Claimed
  <2> QED BY <1>1, <1>3, <2>1 DEF QueueInv, PassesOwnTheirRows
<1>5. LoadedCopyCurrent'
  <2> SUFFICES ASSUME NEW q \in Passes, NEW i \in Jobs, run'[q][i] = "running"
               PROVE  /\ loaded'[q][i].status = "running"
                      /\ loaded'[q][i].owner # NoOne
    BY <1>1 DEF LoadedCopyCurrent
  <2>1. CASE q = p /\ i = j
    <3>1. loaded'[q][i] = row[j]
      BY <1>1, <2>1 DEF QueueInv, TypeOK
    <3>2. row[j].status = "running" /\ row[j].owner = WorkerOf[p]
      BY <1>1 DEF QueueInv, PassesOwnTheirRows
    <3>3. WorkerOf[p] # NoOne
      BY JobQueueAssumption
    <3> QED BY <2>1, <3>1, <3>2, <3>3
  <2>2. CASE ~(q = p /\ i = j)
    <3>1. loaded'[q][i] = loaded[q][i] /\ run'[q][i] = run[q][i]
      BY <1>1, <2>2 DEF QueueInv, TypeOK
    <3> QED BY <3>1 DEF QueueInv, LoadedCopyCurrent
  <2> QED BY <2>1, <2>2
<1> QED BY <1>2, <1>4, <1>5 DEF QueueInv

Done(j) == [status |-> "succeeded", attempts |-> row[j].attempts, owner |-> NoOne]

\* What the write that ends a run does under the invariant: the row leaves
\* RUNNING, its lock cleared, its attempts as they were.
LEMMA RunJobWrites ==
  ASSUME QueueInv, NEW p \in Passes, NEW j \in Jobs, MarkSucceeded(p, j)
  PROVE  /\ row[j].status = "running"
         /\ row' = [row EXCEPT ![j] = Done(j)]
         /\ stale' = stale \ {j}
<1> DEFINE old == loaded[p][j]
           new == [old EXCEPT !.status = "succeeded", !.owner = NoOne]
<1>1. run[p][j] = "running"
  BY DEF MarkSucceeded, RunJobWrite
<1>2. row[j].status = "running" /\ old.status = "running" /\ old.owner # NoOne
  BY <1>1 DEF QueueInv, PassesOwnTheirRows, LoadedCopyCurrent
<1>3. old \in Row
  BY DEF QueueInv, TypeOK
<1>4. new.status = "succeeded" /\ new.owner = NoOne /\ new.attempts = old.attempts
  BY <1>3 DEF Row
<1>5. Flush(old, new, row[j]) = Done(j)
  BY <1>2, <1>4 DEF Flush, Column, Done
<1>6. row' = [row EXCEPT ![j] = Done(j)]
  BY <1>5 DEF MarkSucceeded, RunJobWrite
<1>7. stale' = stale \ {j}
  BY <1>5 DEF MarkSucceeded, RunJobWrite, Locked, Done
<1> QED BY <1>2, <1>6, <1>7

LEMMA MarkSucceededInv ==
  ASSUME QueueInv, Exclusive, NEW p \in Passes, NEW j \in Jobs,
         MarkSucceeded(p, j), TypeOK'
  PROVE  QueueInv'
<1>1. /\ row[j].status = "running"
      /\ row' = [row EXCEPT ![j] = Done(j)]
      /\ stale' = stale \ {j}
  BY RunJobWrites
<1>2. /\ run[p][j] = "running"
      /\ run' = [run EXCEPT ![p][j] = "none"]
      /\ loaded' = [loaded EXCEPT ![p][j] = Absent]
      /\ UNCHANGED <<pc, cand, req, reclaims>>
  BY DEF MarkSucceeded, RunJobWrite
<1>3. row'[j] = Done(j) /\ \A i \in Jobs : i # j => row'[i] = row[i]
  BY <1>1 DEF QueueInv, TypeOK
<1>4. Done(j).status = "succeeded" /\ Done(j).owner = NoOne /\ Done(j).attempts = row[j].attempts
  BY DEF Done
<1>5. row[j].owner = WorkerOf[p]
  BY <1>2 DEF QueueInv, PassesOwnTheirRows, TypeOK
<1>6. \A q \in Passes, i \in Jobs : run'[q][i] # "none" =>
         run[q][i] # "none" /\ i # j /\ run'[q][i] = run[q][i] /\ loaded'[q][i] = loaded[q][i]
  <2> SUFFICES ASSUME NEW q \in Passes, NEW i \in Jobs, run'[q][i] # "none"
               PROVE  run[q][i] # "none" /\ i # j /\ run'[q][i] = run[q][i] /\ loaded'[q][i] = loaded[q][i]
    OBVIOUS
  <2>1. ~(q = p /\ i = j)
    BY <1>2 DEF QueueInv, TypeOK
  <2>2. run'[q][i] = run[q][i] /\ loaded'[q][i] = loaded[q][i]
    BY <1>2, <2>1 DEF QueueInv, TypeOK
  <2>3. i # j
    <3> SUFFICES ASSUME i = j PROVE FALSE
      OBVIOUS
    <3>1. row[j].owner = WorkerOf[q]
      BY <2>2 DEF QueueInv, PassesOwnTheirRows
    <3> QED BY <1>5, <2>1, <3>1 DEF Exclusive
  <2> QED BY <2>2, <2>3
<1>7. RowsWellFormed'
  <2>1. \A i \in Jobs : row'[i].status = "running" <=> row'[i].owner # NoOne
    BY <1>3, <1>4 DEF QueueInv, RowsWellFormed
  <2>2. \A i \in stale' : row'[i].status = "running"
    BY <1>1, <1>3 DEF QueueInv, RowsWellFormed, TypeOK
  <2> QED BY <2>1, <2>2 DEF RowsWellFormed
<1>8. PassesOwnTheirRows'
  <2> SUFFICES ASSUME NEW q \in Passes
               PROVE  /\ pc'[q] # "idle" => \A i \in cand'[q] : run'[q][i] = "none"
                      /\ pc'[q] = "selected" => \A i \in cand'[q] : row'[i].owner # WorkerOf[q]
                      /\ pc'[q] = "taken" => \A i \in Claimed(q)' : i \notin stale'
                      /\ \A i \in Jobs : run'[q][i] # "none" =>
                           row'[i].status = "running" /\ row'[i].owner = WorkerOf[q] /\ i \notin stale'
    BY DEF PassesOwnTheirRows
  <2>1. pc'[q] # "idle" => \A i \in cand'[q] : run'[q][i] = "none"
    BY <1>2, <1>6 DEF QueueInv, PassesOwnTheirRows
  <2>2. pc'[q] = "selected" => \A i \in cand'[q] : row'[i].owner # WorkerOf[q]
    <3>1. WorkerOf[q] # NoOne
      BY JobQueueAssumption
    <3>2. cand[q] \subseteq Jobs
      BY DEF QueueInv, TypeOK
    <3> QED BY <1>2, <1>3, <1>4, <3>1, <3>2 DEF QueueInv, PassesOwnTheirRows
  <2>3. pc'[q] = "taken" => \A i \in Claimed(q)' : i \notin stale'
    <3>1. Claimed(q)' \subseteq Claimed(q)
      <4> SUFFICES ASSUME NEW i \in Claimed(q)' PROVE i \in Claimed(q)
        OBVIOUS
      <4>1. i \in cand[q] /\ i \in Jobs /\ row'[i].status = "running" /\ row'[i].owner = WorkerOf[q]
        BY <1>2 DEF Claimed, QueueInv, TypeOK
      <4>2. i # j
        BY <1>3, <1>4, <4>1
      <4> QED BY <1>3, <4>1, <4>2 DEF Claimed
    <3> QED BY <1>1, <1>2, <3>1 DEF QueueInv, PassesOwnTheirRows
  <2>4. \A i \in Jobs : run'[q][i] # "none" =>
           row'[i].status = "running" /\ row'[i].owner = WorkerOf[q] /\ i \notin stale'
    BY <1>1, <1>3, <1>6 DEF QueueInv, PassesOwnTheirRows
  <2> QED BY <2>1, <2>2, <2>3, <2>4
<1>9. LoadedCopyCurrent'
  <2> SUFFICES ASSUME NEW q \in Passes, NEW i \in Jobs, run'[q][i] = "running"
               PROVE  /\ loaded'[q][i].status = "running"
                      /\ loaded'[q][i].owner # NoOne
    BY DEF LoadedCopyCurrent
  <2>1. run[q][i] = "running" /\ i # j /\ loaded'[q][i] = loaded[q][i]
    BY <1>6
  <2> QED BY <2>1 DEF QueueInv, LoadedCopyCurrent
<1>10. SeenRowCurrent'
  BY <1>1, <1>2, <1>3, SeenKept
<1>11. AttemptsBudget'
  <2>1. row[j].attempts <= reclaims[j] + 1
    BY DEF QueueInv, AttemptsBudget
  <2>3. ASSUME NEW i \in Jobs
        PROVE  /\ row'[i].attempts <= reclaims'[i] + 1
               /\ row'[i].status = "queued" => row'[i].attempts <= reclaims'[i]
    <3>1. CASE i = j
      BY <1>2, <1>3, <1>4, <2>1, <3>1
    <3>2. CASE i # j
      BY <1>2, <1>3, <3>2 DEF QueueInv, AttemptsBudget
    <3> QED BY <3>1, <3>2
  <2> QED BY <2>3 DEF AttemptsBudget
<1> QED BY <1>7, <1>8, <1>9, <1>10, <1>11 DEF QueueInv

\* An action that only takes runs and claims away and leaves the rows alone.
LEMMA DropInv ==
  ASSUME QueueInv, TypeOK',
         UNCHANGED <<row, stale, req, reclaims>>,
         \A q \in Passes : pc'[q] = "idle" \/ (pc'[q] = pc[q] /\ cand'[q] = cand[q]),
         \A q \in Passes, i \in Jobs :
           \/ run'[q][i] = "none"
           \/ run'[q][i] = run[q][i] /\ loaded'[q][i] = loaded[q][i]
  PROVE  QueueInv'
<1>1. RowsWellFormed' /\ AttemptsBudget' /\ SeenRowCurrent'
  BY SeenFrame DEF QueueInv, RowsWellFormed, AttemptsBudget
<1>2. LoadedCopyCurrent'
  BY DEF QueueInv, LoadedCopyCurrent
<1>3. PassesOwnTheirRows'
  <2> SUFFICES ASSUME NEW q \in Passes
               PROVE  /\ pc'[q] # "idle" => \A i \in cand'[q] : run'[q][i] = "none"
                      /\ pc'[q] = "selected" => \A i \in cand'[q] : row'[i].owner # WorkerOf[q]
                      /\ pc'[q] = "taken" => \A i \in Claimed(q)' : i \notin stale'
                      /\ \A i \in Jobs : run'[q][i] # "none" =>
                           row'[i].status = "running" /\ row'[i].owner = WorkerOf[q] /\ i \notin stale'
    BY DEF PassesOwnTheirRows
  <2>1. pc'[q] # "idle" => pc'[q] = pc[q] /\ cand'[q] = cand[q] /\ Claimed(q)' = Claimed(q)
    BY DEF Claimed
  <2>2. \A i \in Jobs : run'[q][i] # "none" => run[q][i] # "none"
    OBVIOUS
  <2>3. cand[q] \subseteq Jobs
    BY DEF QueueInv, TypeOK
  <2> QED BY <2>1, <2>2, <2>3 DEF QueueInv, PassesOwnTheirRows
<1> QED BY <1>1, <1>2, <1>3 DEF QueueInv

LEMMA RunEndsInv ==
  ASSUME QueueInv, Exclusive, NEW p \in Passes, NEW j \in Jobs, RunEnds(p, j), TypeOK'
  PROVE  QueueInv'
<1>1. CASE MarkSucceeded(p, j)
  BY <1>1, MarkSucceededInv
<1>2. CASE RunFails(p, j)
  <2>1. UNCHANGED <<row, stale, req, reclaims, pc, cand>>
    BY <1>2 DEF RunFails, queueVars
  <2>2. \A q \in Passes, i \in Jobs :
           \/ run'[q][i] = "none"
           \/ run'[q][i] = run[q][i] /\ loaded'[q][i] = loaded[q][i]
    BY <1>2 DEF RunFails, QueueInv, TypeOK
  <2> QED BY <2>1, <2>2, DropInv
<1> QED BY <1>1, <1>2 DEF RunEnds

\* Every row with an expired lease is RUNNING, so the status test of
\* reclaim_stale excludes none of them.
LEMMA ReclaimableIsStale ==
  ASSUME QueueInv
  PROVE  Reclaimable = stale
BY DEF Reclaimable, QueueInv, RowsWellFormed

LEMMA ReclaimStaleInv ==
  ASSUME QueueInv, NEW p \in Passes, ReclaimStale(p), TypeOK'
  PROVE  QueueInv'
<1>1. /\ \A j \in Jobs : j \notin stale => row'[j] = row[j] /\ reclaims'[j] = reclaims[j]
      /\ \A j \in Jobs : j \in stale => reclaims'[j] = reclaims[j] + 1
      /\ stale' = {}
      /\ UNCHANGED <<pc, cand, run, loaded, req>>
  BY ReclaimableIsStale DEF ReclaimStale, passVars
<1>2. ASSUME NEW j \in Jobs, j \in stale
      PROVE  /\ row[j].status = "running"
             /\ row'[j].status = "queued" /\ row'[j].owner = NoOne
             /\ row'[j].attempts = row[j].attempts
  <2>1. \A x \in Row : LET y == [x EXCEPT !.status = "queued", !.owner = NoOne]
                       IN  y.status = "queued" /\ y.owner = NoOne /\ y.attempts = x.attempts
    BY DEF Row
  <2>2. row'[j] = [row[j] EXCEPT !.status = "queued", !.owner = NoOne]
    BY <1>2, ReclaimableIsStale DEF ReclaimStale
  <2>3. row[j] \in Row
    BY DEF QueueInv, TypeOK
  <2>4. row[j].status = "running"
    BY <1>2 DEF QueueInv, RowsWellFormed
  <2> QED BY <2>1, <2>2, <2>3, <2>4
<1>3. RowsWellFormed'
  <2>1. \A j \in Jobs : row'[j].status = "running" <=> row'[j].owner # NoOne
    BY <1>1, <1>2 DEF QueueInv, RowsWellFormed
  <2> QED BY <1>1, <2>1 DEF RowsWellFormed
<1>4. LoadedCopyCurrent'
  <2>1. \A q \in Passes, j \in Jobs : run[q][j] = "running" => j \notin stale
    BY DEF QueueInv, PassesOwnTheirRows
  <2> QED BY <1>1, <2>1 DEF QueueInv, LoadedCopyCurrent
<1>5. PassesOwnTheirRows'
  <2> SUFFICES ASSUME NEW q \in Passes
               PROVE  /\ pc[q] # "idle" => \A j \in cand[q] : run[q][j] = "none"
                      /\ pc[q] = "selected" => \A j \in cand[q] : row'[j].owner # WorkerOf[q]
                      /\ \A j \in Jobs : run[q][j] # "none" =>
                           row'[j].status = "running" /\ row'[j].owner = WorkerOf[q]
    BY <1>1 DEF PassesOwnTheirRows
  <2>1. pc[q] # "idle" => \A j \in cand[q] : run[q][j] = "none"
    BY DEF QueueInv, PassesOwnTheirRows
  <2>2. pc[q] = "selected" => \A j \in cand[q] : row'[j].owner # WorkerOf[q]
    <3>1. WorkerOf[q] # NoOne
      BY JobQueueAssumption
    <3>2. cand[q] \subseteq Jobs
      BY DEF QueueInv, TypeOK
    <3> QED BY <1>1, <1>2, <3>1, <3>2 DEF QueueInv, PassesOwnTheirRows
  <2>3. \A j \in Jobs : run[q][j] # "none" =>
           row'[j].status = "running" /\ row'[j].owner = WorkerOf[q]
    BY <1>1, <1>2 DEF QueueInv, PassesOwnTheirRows
  <2> QED BY <2>1, <2>2, <2>3
<1>6. SeenRowCurrent'
  BY <1>1, <1>2, SeenKept
<1>7. AttemptsBudget'
  <2>1. \A j \in Jobs : row[j].attempts \in Nat /\ reclaims[j] \in Nat
    BY DEF QueueInv, TypeOK, Row
  <2>2. ASSUME NEW j \in Jobs
        PROVE  /\ row'[j].attempts <= reclaims'[j] + 1
               /\ row'[j].status = "queued" => row'[j].attempts <= reclaims'[j]
    <3>1. row[j].attempts <= reclaims[j] + 1
      BY DEF QueueInv, AttemptsBudget
    <3>2. CASE j \in stale
      <4>1. row'[j].attempts = row[j].attempts /\ reclaims'[j] = reclaims[j] + 1
        BY <1>1, <1>2, <3>2
      <4> QED BY <2>1, <3>1, <4>1, JobQueueAssumption
    <3>3. CASE j \notin stale
      BY <1>1, <3>3 DEF QueueInv, AttemptsBudget
    <3> QED BY <3>2, <3>3
  <2> QED BY <2>2 DEF AttemptsBudget
<1> QED BY <1>3, <1>4, <1>5, <1>6, <1>7 DEF QueueInv

LEMMA LockAgesInv ==
  ASSUME QueueInv, Exclusive, NEW j \in Jobs, LockAges(j), TypeOK'
  PROVE  QueueInv'
<1>1. /\ UNCHANGED <<row, pc, cand, run, loaded, req, reclaims>>
      /\ stale' = stale \cup {j}
      /\ row[j].status = "running"
      /\ ~Held(j)
  BY DEF LockAges, Locked, passVars, Exclusive
<1>2. RowsWellFormed' /\ LoadedCopyCurrent' /\ SeenRowCurrent' /\ AttemptsBudget'
  BY <1>1, SeenFrame DEF QueueInv, RowsWellFormed, LoadedCopyCurrent, AttemptsBudget
<1>3. PassesOwnTheirRows'
  <2>1. \A q \in Passes : Claimed(q)' = Claimed(q)
    BY <1>1 DEF Claimed
  <2> QED BY <1>1, <2>1 DEF QueueInv, PassesOwnTheirRows, Held, Holds
<1> QED BY <1>2, <1>3 DEF QueueInv

LEMMA EnvironmentInv ==
  ASSUME QueueInv, Exclusive, TypeOK'
  PROVE  /\ \A j \in Jobs : LockAges(j) => QueueInv'
         /\ \A w \in Workers : Crash(w) \/ WorkerExits(w) \/ RequestStop(w) => QueueInv'
<1>2. ASSUME NEW j \in Jobs, LockAges(j) PROVE QueueInv'
  BY <1>2, LockAgesInv
<1>3. ASSUME NEW w \in Workers, Crash(w) \/ WorkerExits(w) PROVE QueueInv'
  <2>0. ProcessGone(w)
    BY <1>3 DEF Crash, WorkerExits
  <2>1. UNCHANGED <<row, stale, req, reclaims>>
    BY <2>0 DEF ProcessGone, queueVars
  <2>2. \A q \in Passes : pc'[q] = "idle" \/ (pc'[q] = pc[q] /\ cand'[q] = cand[q])
    BY <2>0 DEF ProcessGone
  <2>3. \A q \in Passes, i \in Jobs :
           \/ run'[q][i] = "none"
           \/ run'[q][i] = run[q][i] /\ loaded'[q][i] = loaded[q][i]
    BY <2>0 DEF ProcessGone
  <2> QED BY <2>1, <2>2, <2>3, DropInv
<1>4. ASSUME NEW w \in Workers, RequestStop(w) PROVE QueueInv'
  BY <1>4, FrameQueueInv DEF RequestStop
<1> QED BY <1>2, <1>3, <1>4

LEMMA NextQueueInv == Exclusive /\ QueueInv /\ [Next]_vars => QueueInv'
<1> SUFFICES ASSUME Exclusive, QueueInv, [Next]_vars PROVE QueueInv'
  OBVIOUS
<1>1. TypeOK'
  BY NextTypeOK DEF QueueInv
<1>2. ASSUME NEW r \in Requests, Enqueue(r) PROVE QueueInv'
  <2>1. ASSUME NEW j \in Jobs, EnqueueRead(r, j) PROVE QueueInv'
    BY <1>1, <2>1, EnqueueReadInv
  <2>2. CASE EnqueueRearm(r)
    BY <1>1, <2>2, EnqueueRearmInv
  <2>3. CASE EnqueueInsert(r)
    BY <1>1, <2>3, EnqueueInsertInv
  <2>4. CASE EnqueueRollback(r)
    <3>1. UNCHANGED <<row, stale, pc, cand, run, loaded, reclaims>>
      BY <2>4 DEF EnqueueRollback, queueVars, passVars
    <3>2. \A s \in Requests : ~InEnqueue(s)'
      BY <2>4 DEF EnqueueRollback, Exclusive, InEnqueue, QueueInv, TypeOK
    <3>3. RowsWellFormed' /\ LoadedCopyCurrent' /\ AttemptsBudget'
      BY <3>1 DEF QueueInv, RowsWellFormed, LoadedCopyCurrent, AttemptsBudget
    <3>4. PassesOwnTheirRows'
      BY <3>1 DEF QueueInv, PassesOwnTheirRows, Claimed
    <3> QED BY <1>1, <3>2, <3>3, <3>4 DEF QueueInv, SeenRowCurrent
  <2> QED BY <1>2, <2>1, <2>2, <2>3, <2>4 DEF Enqueue
<1>3. ASSUME NEW p \in Passes, PassStep(p) PROVE QueueInv'
  BY <1>1, <1>3, ReclaimStaleInv, ClaimSelectInv, ClaimTakeInv, ClaimCollectInv,
     RunJobLoadInv, RunEndsInv DEF PassStep
<1>4. CASE UNCHANGED vars
  BY <1>1, <1>4, FrameQueueInv DEF vars
<1> QED BY <1>1, <1>2, <1>3, <1>4, EnvironmentInv DEF Next

\* Under Exclusive the table, the claims, the runs and the half-done enqueues
\* always agree with each other.
THEOREM QueueInvariant == Exclusive => (Spec => []QueueInv)
<1> SUFFICES ASSUME Exclusive PROVE Spec => []QueueInv
  OBVIOUS
<1>1. QueueInv /\ [Next]_vars => QueueInv'
  BY NextQueueInv
<1> QED BY <1>1, InitQueueInv, PTL DEF Spec

-----------------------------------------------------------------------------
(* What follows from the invariant *)

\* A pass holds only rows that are RUNNING in its name.
LEMMA HeldRowsAreOwned ==
  ASSUME QueueInv, NEW p \in Passes, NEW j \in Jobs, Holds(p, j)
  PROVE  row[j].status = "running" /\ row[j].owner = WorkerOf[p]
BY DEF Holds, Claimed, QueueInv, PassesOwnTheirRows

LEMMA OneHolder == Exclusive /\ QueueInv => OneRunPerJob
BY HeldRowsAreOwned DEF OneRunPerJob, Holders, Exclusive

\* No stage of a call is ever executed by two passes at once.
THEOREM ClaimIsExclusive == Exclusive => (Spec => []OneRunPerJob)
<1> SUFFICES ASSUME Exclusive PROVE Spec => []OneRunPerJob
  OBVIOUS
<1>1. QueueInv => OneRunPerJob
  BY OneHolder
<1> QED BY <1>1, QueueInvariant, PTL

\* Starts are counted and asked for, whatever crashes, fails or is reclaimed.
THEOREM AttemptsAreBounded == Exclusive => (Spec => []AttemptsBudget)
<1> SUFFICES ASSUME Exclusive PROVE Spec => []AttemptsBudget
  OBVIOUS
<1>1. QueueInv => AttemptsBudget
  BY DEF QueueInv
<1> QED BY <1>1, QueueInvariant, PTL

\* Only an enqueue moves a row that is over.
LEMMA OverStep ==
  ASSUME QueueInv, [Next]_vars, NEW j \in Jobs,
         row[j].status = "succeeded", row'[j] # row[j]
  PROVE  \E r \in Requests : req[r].job = j /\ req'[r] = NoRequest
<1>1. ASSUME NEW r \in Requests, EnqueueRearm(r)
      PROVE  req[r].job = j /\ req'[r] = NoRequest
  BY <1>1 DEF EnqueueRearm, QueueInv, TypeOK
<1>2. ASSUME NEW r \in Requests, EnqueueInsert(r) PROVE FALSE
  BY <1>2 DEF EnqueueInsert, QueueInv, TypeOK
<1>3. ASSUME NEW p \in Passes, ClaimTake(p) PROVE FALSE
  BY <1>3 DEF ClaimTake, Won, TakenRow, QueueInv, TypeOK
<1>4. ASSUME NEW p \in Passes, ReclaimStale(p) PROVE FALSE
  BY <1>4 DEF ReclaimStale, Reclaimable, QueueInv, RowsWellFormed
<1>5. ASSUME NEW p \in Passes, NEW i \in Jobs, NEW new, RunJobWrite(p, i, new) PROVE FALSE
  <2>1. i # j
    BY <1>5 DEF RunJobWrite, QueueInv, PassesOwnTheirRows
  <2> QED BY <1>5, <2>1 DEF RunJobWrite, QueueInv, TypeOK
<1>6. ASSUME NEW p \in Passes, NEW i \in Jobs, RunEnds(p, i) PROVE FALSE
  BY <1>5, <1>6 DEF RunEnds, MarkSucceeded, RunFails, queueVars
<1>7. CASE UNCHANGED row
  BY <1>7
<1>8. \/ UNCHANGED row
      \/ \E r \in Requests : EnqueueRearm(r) \/ EnqueueInsert(r)
      \/ \E p \in Passes : ClaimTake(p) \/ ReclaimStale(p) \/ \E i \in Jobs : RunEnds(p, i)
  BY DEF Next, Enqueue, PassStep, EnqueueRead, EnqueueRollback, ClaimSelect, ClaimCollect,
         RunJobLoad, LockAges, Crash, WorkerExits, ProcessGone, RequestStop, vars, queueVars
<1> QED BY <1>1, <1>2, <1>3, <1>4, <1>6, <1>7, <1>8

\* A job that succeeded stays so until somebody enqueues it.
THEOREM OverIsFinal == Exclusive => (Spec => OverUntilRearmed)
<1> SUFFICES ASSUME Exclusive PROVE Spec => OverUntilRearmed
  OBVIOUS
<1>1. QueueInv /\ [Next]_vars =>
        [\A j \in Jobs :
           row[j].status = "succeeded" /\ row'[j] # row[j]
             => \E r \in Requests : req[r].job = j /\ req'[r] = NoRequest]_vars
  BY OverStep
<1> QED BY <1>1, QueueInvariant, PTL DEF Spec, OverUntilRearmed

-----------------------------------------------------------------------------
(* Shutting down: while nothing has failed every row that is RUNNING has a  *)
(* pass that is waiting for it.                                             *)

Attends(p, j) ==
  \/ run[p][j] # "none" /\ j \in waits[p]
  \/ pc[p] = "taken" /\ j \in cand[p]

AttendedRow(j) == \E p \in Passes : WorkerOf[p] = row[j].owner /\ Attends(p, j)

Unfailed == failures + faults = 0

Attended ==
  /\ \A p \in Passes : pc[p] # "idle" => waits[p] = {}
  /\ Unfailed => \A j \in Jobs : row[j].status = "running" => AttendedRow(j)

\* Rows stay as they are, or are not RUNNING, and no pass stops attending.
LEMMA RowsLeft ==
  ASSUME QueueInv, Attended, Unfailed' => Unfailed, UNCHANGED <<pc, waits>>,
         \A p \in Passes, j \in Jobs : Attends(p, j) => Attends(p, j)',
         \A j \in Jobs : row'[j].status = "running" => row[j].status = "running" /\ row'[j].owner = row[j].owner
  PROVE  Attended'
BY DEF Attended, AttendedRow, Unfailed

LEMMA EnqueueAttended ==
  ASSUME QueueInv, Attended, NEW r \in Requests, Enqueue(r)
  PROVE  Attended'
<1>1. UNCHANGED <<pc, cand, waits, run, failures, faults>>
  BY DEF Enqueue, EnqueueRead, EnqueueRearm, EnqueueInsert, EnqueueRollback, passVars
<1>2. \A j \in Jobs : row'[j].status = "running" => row[j].status = "running" /\ row'[j].owner = row[j].owner
  <2>1. CASE EnqueueRearm(r)
    BY <2>1, RearmWrites DEF QueueInv, TypeOK
  <2>2. CASE EnqueueInsert(r)
    BY <2>2 DEF EnqueueInsert, Fresh, QueueInv, TypeOK
  <2>3. CASE UNCHANGED row
    BY <2>3
  <2> QED BY <2>1, <2>2, <2>3 DEF Enqueue, EnqueueRead, EnqueueRollback, queueVars
<1> QED BY <1>1, <1>2, RowsLeft DEF Attends, Unfailed

LEMMA ClaimAttended ==
  ASSUME QueueInv, Attended, NEW p \in Passes, ClaimSelect(p) \/ ClaimTake(p) \/ ClaimCollect(p)
  PROVE  Attended'
<1>1. CASE ClaimSelect(p)
  <2>1. /\ pc[p] = "idle" /\ waits[p] = {} /\ UNCHANGED <<row, waits, run, failures, faults>>
        /\ \A q \in Passes \ {p} : pc'[q] = pc[q] /\ cand'[q] = cand[q]
    BY <1>1 DEF ClaimSelect, Busy, QueueInv, TypeOK, queueVars
  <2>2. \A q \in Passes, j \in Jobs : Attends(q, j) => Attends(q, j)'
    BY <2>1 DEF Attends
  <2> QED BY <2>1, <2>2 DEF Attended, AttendedRow, Unfailed
<1>2. CASE ClaimTake(p)
  <2>1. /\ pc[p] = "selected" /\ pc' = [pc EXCEPT ![p] = "taken"] /\ UNCHANGED <<cand, waits, run, failures, faults>>
        /\ row' = [j \in Jobs |-> IF j \in Won(p) THEN TakenRow(p, j) ELSE row[j]]
    BY <1>2 DEF ClaimTake
  <2>2. pc'[p] = "taken" /\ \A q \in Passes \ {p} : pc'[q] = pc[q]
    BY <2>1 DEF QueueInv, TypeOK
  <2>3. \A q \in Passes, j \in Jobs : Attends(q, j) => Attends(q, j)'
    BY <2>1, <2>2 DEF Attends
  <2>4. ASSUME NEW j \in Jobs, row'[j].status = "running", Unfailed' PROVE AttendedRow(j)'
    <3>1. CASE j \in Won(p)
      <4>1. row'[j].owner = WorkerOf[p] /\ j \in cand[p]
        BY <2>1, <3>1 DEF TakenRow, Won
      <4> QED BY <2>1, <2>2, <4>1 DEF AttendedRow, Attends
    <3>2. CASE j \notin Won(p)
      BY <2>1, <2>3, <2>4, <3>2 DEF Attended, AttendedRow, Unfailed
    <3> QED BY <3>1, <3>2
  <2> QED BY <2>1, <2>2, <2>4 DEF Attended, Unfailed
<1>3. CASE ClaimCollect(p)
  <2>1. /\ pc[p] = "taken" /\ UNCHANGED <<row, failures, faults>>
        /\ pc'[p] = "idle" /\ waits'[p] = Claimed(p)
        /\ \A q \in Passes \ {p} : pc'[q] = pc[q] /\ cand'[q] = cand[q] /\ waits'[q] = waits[q] /\ run'[q] = run[q]
        /\ \A j \in Claimed(p) : j \in Jobs => run'[p][j] = "collected"
    BY <1>3 DEF ClaimCollect, QueueInv, TypeOK, queueVars
  <2>2. ASSUME NEW j \in Jobs, row[j].status = "running", NEW q \in Passes, WorkerOf[q] = row[j].owner, Attends(q, j)
        PROVE  Attends(q, j)'
    <3>1. CASE q = p
      <4>1. j \in Claimed(p)
        BY <2>1, <2>2, <3>1 DEF Attends, Attended, Claimed
      <4> QED BY <2>1, <3>1, <4>1 DEF Attends
    <3>2. CASE q # p
      BY <2>1, <2>2, <3>2 DEF Attends
    <3> QED BY <3>1, <3>2
  <2>3. \A q \in Passes : pc'[q] # "idle" => waits'[q] = {}
    BY <2>1 DEF Attended
  <2> QED BY <2>1, <2>2, <2>3 DEF Attended, AttendedRow, Unfailed
<1> QED BY <1>1, <1>2, <1>3

LEMMA RunAttended ==
  ASSUME QueueInv, Attended, NEW p \in Passes, NEW j \in Jobs, RunJobLoad(p, j) \/ RunEnds(p, j)
  PROVE  Attended'
<1>1. CASE RunJobLoad(p, j)
  <2>1. UNCHANGED <<row, pc, cand, waits, failures, faults>> /\ \A q \in Passes, i \in Jobs : run[q][i] # "none" => run'[q][i] # "none"
    BY <1>1 DEF RunJobLoad, QueueInv, TypeOK, queueVars
  <2> QED BY <2>1, RowsLeft DEF Attends, Unfailed
<1>2. CASE MarkSucceeded(p, j)
  <2>1. /\ UNCHANGED <<pc, cand, failures, faults>>
        /\ \A q \in Passes : waits'[q] \subseteq waits[q]
        /\ \A q \in Passes, i \in Jobs \ {j} :
             (i \in waits[q] => i \in waits'[q]) /\ run'[q][i] = run[q][i] /\ row'[i] = row[i]
    BY <1>2 DEF MarkSucceeded, RunJobWrite, QueueInv, TypeOK
  <2>2. row'[j].status # "running"
    BY <1>2, RunJobWrites DEF Done, QueueInv, TypeOK
  <2> QED BY <2>1, <2>2 DEF Attended, AttendedRow, Attends, Unfailed
<1>3. CASE RunFails(p, j)
  <2>1. ~Unfailed'
    BY <1>3 DEF RunFails, Unfailed, QueueInv, TypeOK
  <2>2. UNCHANGED pc /\ \A q \in Passes : waits'[q] \subseteq waits[q]
    BY <1>3 DEF RunFails, QueueInv, TypeOK
  <2> QED BY <2>1, <2>2 DEF Attended
<1> QED BY <1>1, <1>2, <1>3 DEF RunEnds

LEMMA EnvironmentAttended ==
  ASSUME QueueInv, Attended
  PROVE  /\ \A p \in Passes : ReclaimStale(p) => Attended'
         /\ \A j \in Jobs : LockAges(j) => Attended'
         /\ \A w \in Workers : Crash(w) \/ WorkerExits(w) \/ RequestStop(w) => Attended'
<1>1. ASSUME NEW p \in Passes, ReclaimStale(p) PROVE Attended'
  <2>1. /\ UNCHANGED <<pc, cand, waits, run, failures, faults>>
        /\ \A j \in Jobs : row'[j].status = "running" => row'[j] = row[j]
    <3>1. \A j \in Jobs : [row[j] EXCEPT !.status = "queued", !.owner = NoOne].status = "queued"
      BY DEF QueueInv, TypeOK, Row
    <3> QED BY <1>1, <3>1 DEF ReclaimStale, passVars
  <2> QED BY <2>1, RowsLeft DEF Attends, Unfailed
<1>2. ASSUME NEW j \in Jobs, LockAges(j) PROVE Attended'
  <2>1. UNCHANGED <<row, pc, cand, waits, run>> /\ (Unfailed' => Unfailed)
    BY <1>2 DEF LockAges, passVars, Unfailed, QueueInv, TypeOK
  <2> QED BY <2>1, RowsLeft DEF Attends, Unfailed
<1>3. ASSUME NEW w \in Workers, RequestStop(w) PROVE Attended'
  <2>1. UNCHANGED <<row, pc, cand, waits, run, failures, faults>>
    BY <1>3 DEF RequestStop, queueVars, passVars
  <2> QED BY <2>1, RowsLeft DEF Attends, Unfailed
<1>4. ASSUME NEW w \in Workers, Crash(w) \/ WorkerExits(w) PROVE Attended'
  <2>1. /\ UNCHANGED row
        /\ \A p \in Passes : WorkerOf[p] = w => pc'[p] = "idle"
        /\ \A p \in Passes : WorkerOf[p] # w =>
             pc'[p] = pc[p] /\ cand'[p] = cand[p] /\ waits'[p] = waits[p] /\ run'[p] = run[p]
    BY <1>4 DEF Crash, WorkerExits, ProcessGone, queueVars
  <2>2. \A p \in Passes : pc'[p] # "idle" => waits'[p] = {}
    BY <2>1 DEF Attended
  <2>3. CASE Crash(w)
    <3>1. ~Unfailed'
      BY <2>3 DEF Crash, ProcessGone, Unfailed, QueueInv, TypeOK
    <3> QED BY <2>2, <3>1 DEF Attended
  <2>4. CASE WorkerExits(w)
    <3>1. UNCHANGED <<failures, faults>> /\ \A p \in Passes : WorkerOf[p] = w => pc[p] = "idle" /\ waits[p] = {}
      BY <2>4 DEF WorkerExits, ProcessGone, Busy
    <3>2. \A p \in Passes, j \in Jobs : Attends(p, j) => WorkerOf[p] # w /\ Attends(p, j)'
      BY <2>1, <3>1 DEF Attends
    <3> QED BY <2>1, <2>2, <3>1, <3>2 DEF Attended, AttendedRow, Unfailed
  <2> QED BY <1>4, <2>3, <2>4
<1> QED BY <1>1, <1>2, <1>3, <1>4

LEMMA NextAttended == QueueInv /\ Attended /\ [Next]_vars => Attended'
<1> SUFFICES ASSUME QueueInv, Attended, [Next]_vars PROVE Attended'
  OBVIOUS
<1>1. CASE UNCHANGED vars
  BY <1>1, RowsLeft DEF vars, queueVars, passVars, Attends, Unfailed
<1> QED BY <1>1, EnqueueAttended, ClaimAttended, RunAttended, EnvironmentAttended DEF Next, PassStep

\* A worker that was asked to stop and is idle has left no row RUNNING in its
\* name, unless a run failed, crashed or overran.
THEOREM StopIsClean == Exclusive => (Spec => []StopLeavesNoLock)
<1> SUFFICES ASSUME Exclusive PROVE Spec => []StopLeavesNoLock
  OBVIOUS
<1>1. Init => Attended
  BY DEF Init, Attended, Absent
<1>2. Attended => StopLeavesNoLock
  BY DEF Attended, AttendedRow, Attends, Unfailed, StopLeavesNoLock, Busy
<1> QED BY QueueInvariant, NextAttended, <1>1, <1>2, PTL DEF Spec

-----------------------------------------------------------------------------
(* The queue implements JobLifecycle: every step moves each job along the   *)
(* lifecycle or leaves it where it is.                                      *)

\* The lifecycle step of job j, written out over the refinement mapping.
Moves(j, s, t, H, G) ==
  \/ s = t /\ H = G
  \/ H = {} /\ G = {} /\ s \in {"absent", "queued", "running", "succeeded"} /\ t = "queued"
  \/ s = "queued" /\ t = "running" /\ H = {} /\ \E p \in Passes : G = {p}
  \/ s = "running" /\ H # {} /\ G = {} /\ t \in {"succeeded", "running"}

JobMoves(j) == Moves(j, row[j].status, row'[j].status, Holders(j), Holders(j)')

\* Nothing about j that its holders depend on changed.
LEMMA HoldersFrame ==
  ASSUME NEW j \in Jobs,
         row'[j].status = row[j].status, row'[j].owner = row[j].owner,
         \A q \in Passes : /\ run'[q][j] # "none" <=> run[q][j] # "none"
                           /\ (pc'[q] = "taken" /\ j \in cand'[q]) <=> (pc[q] = "taken" /\ j \in cand[q])
  PROVE  JobMoves(j)
<1>1. \A q \in Passes : Holds(q, j)' <=> Holds(q, j)
  BY DEF Holds, Claimed
<1>2. Holders(j)' = Holders(j)
  BY <1>1 DEF Holders
<1> QED BY <1>2 DEF JobMoves, Moves

\* A row that is not RUNNING has no holder.
LEMMA IdleRowUnheld ==
  ASSUME QueueInv, NEW j \in Jobs, row[j].status # "running"
  PROVE  Holders(j) = {}
BY HeldRowsAreOwned DEF Holders

\* Letting go of a job: all its holders, which is at most one, drop it.
LEMMA LetGo ==
  ASSUME QueueInv, NEW j \in Jobs, Holders(j) # {},
         \A q \in Passes : ~Holds(q, j)',
         row'[j].status \in {"succeeded", "running"}
  PROVE  JobMoves(j)
<1>1. row[j].status = "running"
  BY HeldRowsAreOwned DEF Holders
<1>2. Holders(j)' = {}
  BY DEF Holders
<1> QED BY <1>1, <1>2 DEF JobMoves, Moves

LEMMA EnqueueMoves ==
  ASSUME QueueInv, QueueInv', NEW r \in Requests, Enqueue(r), NEW j \in Jobs
  PROVE  JobMoves(j)
<1>1. UNCHANGED <<pc, cand, run>>
  BY DEF Enqueue, EnqueueRead, EnqueueRearm, EnqueueInsert, EnqueueRollback, passVars
<1>2. CASE row'[j] = row[j]
  BY <1>1, <1>2, HoldersFrame
<1>3. CASE EnqueueRearm(r) /\ row'[j] # row[j]
  <2>1. /\ row'[j].owner = row[j].owner
        /\ row[j].status = "running" <=> row'[j].status = "running"
        /\ row'[j].status # "queued" => row'[j].status = row[j].status
    BY <1>3, RearmWrites DEF QueueInv, TypeOK
  <2>2. CASE row'[j].status = "queued"
    <3>1. Holders(j) = {}
      BY <2>1, <2>2, IdleRowUnheld
    <3>2. Holders(j)' = {}
      <4>1. \A q \in Passes : Holds(q, j)' => Holds(q, j)
        BY <1>1, <2>1, <2>2 DEF Holds, Claimed
      <4> QED BY <3>1, <4>1 DEF Holders
    <3>3. row[j].status \in Status
      BY DEF QueueInv, TypeOK, Row
    <3> QED BY <2>2, <3>1, <3>2, <3>3 DEF JobMoves, Moves, Status
  <2>3. CASE row'[j].status # "queued"
    BY <1>1, <2>1, <2>3, HoldersFrame
  <2> QED BY <2>2, <2>3
<1>4. CASE EnqueueInsert(r) /\ row'[j] # row[j]
  <2>1. row[j].status = "absent" /\ row'[j] = Fresh
    BY <1>4 DEF EnqueueInsert, QueueInv, TypeOK
  <2>2. Holders(j) = {}
    BY <2>1, IdleRowUnheld
  <2>3. Holders(j)' = {}
    <3>1. \A q \in Passes : ~Holds(q, j)'
      <4>1. \A q \in Passes : run[q][j] = "none"
        BY <2>1 DEF QueueInv, PassesOwnTheirRows
      <4> QED BY <1>1, <2>1, <4>1 DEF Holds, Claimed, Fresh
    <3> QED BY <3>1 DEF Holders
  <2> QED BY <2>1, <2>2, <2>3 DEF JobMoves, Moves, Fresh
<1>5. row' = row \/ EnqueueRearm(r) \/ EnqueueInsert(r)
  BY DEF Enqueue, EnqueueRead, EnqueueRollback, queueVars
<1> QED BY <1>2, <1>3, <1>4, <1>5

LEMMA ClaimTakeMoves ==
  ASSUME QueueInv, QueueInv', Exclusive, NEW p \in Passes, ClaimTake(p), NEW j \in Jobs
  PROVE  JobMoves(j)
<1>1. /\ pc[p] = "selected"
      /\ pc' = [pc EXCEPT ![p] = "taken"]
      /\ UNCHANGED <<cand, run>>
  BY DEF ClaimTake, Won, TakenRow
<1>2. \A q \in Passes : pc'[q] = IF q = p THEN "taken" ELSE pc[q]
  BY <1>1 DEF QueueInv, TypeOK
<1>3. CASE j \in Won(p)
  <2>1. row'[j] = [status |-> "running", attempts |-> row[j].attempts + 1, owner |-> WorkerOf[p]]
    BY <1>3 DEF ClaimTake, Won, TakenRow
  <2>2. row'[j].status = "running" /\ row'[j].owner = WorkerOf[p]
    BY <2>1
  <2>3. row[j].status = "queued" /\ j \in cand[p]
    BY <1>3 DEF Won
  <2>4. Holders(j) = {}
    BY <2>3, IdleRowUnheld
  <2>5. Holds(p, j)'
    BY <1>1, <1>2, <2>2, <2>3 DEF Holds, Claimed
  <2>6. Holders(j)' = {p}
    <3>1. ASSUME NEW q \in Passes, Holds(q, j)' PROVE q = p
      <4>1. row'[j].owner = WorkerOf[q]
        BY <3>1 DEF Holds, Claimed, QueueInv, PassesOwnTheirRows
      <4> QED BY <2>2, <4>1 DEF Exclusive
    <3> QED BY <2>5, <3>1 DEF Holders
  <2> QED BY <2>2, <2>3, <2>4, <2>6 DEF JobMoves, Moves
<1>4. CASE j \notin Won(p)
  <2>1. row'[j] = row[j]
    BY <1>4 DEF ClaimTake, Won, TakenRow
  <2>2. Holds(p, j)' <=> Holds(p, j)
    <3>1. ~(j \in cand[p] /\ row[j].owner = WorkerOf[p])
      BY <1>1 DEF QueueInv, PassesOwnTheirRows
    <3> QED BY <1>1, <2>1, <3>1 DEF Holds, Claimed
  <2>3. \A q \in Passes : Holds(q, j)' <=> Holds(q, j)
    <3> SUFFICES ASSUME NEW q \in Passes, q # p PROVE Holds(q, j)' <=> Holds(q, j)
      BY <2>2
    <3>1. pc'[q] = pc[q]
      BY <1>2
    <3> QED BY <1>1, <2>1, <3>1 DEF Holds, Claimed
  <2>4. Holders(j)' = Holders(j)
    BY <2>3 DEF Holders
  <2> QED BY <2>1, <2>4 DEF JobMoves, Moves
<1> QED BY <1>3, <1>4

LEMMA ClaimCollectMoves ==
  ASSUME QueueInv, NEW p \in Passes, ClaimCollect(p), NEW j \in Jobs
  PROVE  JobMoves(j)
<1>1. /\ row' = row
      /\ pc[p] = "taken"
      /\ pc' = [pc EXCEPT ![p] = "idle"]
      /\ cand' = [cand EXCEPT ![p] = {}]
      /\ run' = [run EXCEPT ![p] =
                   [i \in Jobs |-> IF i \in Claimed(p) THEN "collected" ELSE run[p][i]]]
  BY DEF ClaimCollect, queueVars
<1>2. /\ pc'[p] = "idle" /\ run'[p][j] = (IF j \in Claimed(p) THEN "collected" ELSE run[p][j])
      /\ \A q \in Passes : q # p => pc'[q] = pc[q] /\ cand'[q] = cand[q] /\ run'[q][j] = run[q][j]
  BY <1>1 DEF QueueInv, TypeOK
<1>3. Holds(p, j)' <=> Holds(p, j)
  <2> QED BY <1>1, <1>2 DEF Holds
<1>4. \A q \in Passes : q # p => (Holds(q, j)' <=> Holds(q, j))
  BY <1>1, <1>2 DEF Holds, Claimed
<1>5. Holders(j)' = Holders(j)
  BY <1>3, <1>4 DEF Holders
<1> QED BY <1>1, <1>5 DEF JobMoves, Moves

\* A run ends with its row untouched or succeeded and without a lock.
LEMMA RunEndsWrites ==
  ASSUME QueueInv, NEW p \in Passes, NEW j \in Jobs, RunEnds(p, j)
  PROVE  row'[j] = row[j] \/ (row'[j].status = "succeeded" /\ row'[j].owner = NoOne)
<1>1. CASE MarkSucceeded(p, j)
  BY <1>1, RunJobWrites DEF Done, QueueInv, TypeOK
<1>2. CASE RunFails(p, j)
  BY <1>2 DEF RunFails, queueVars
<1> QED BY <1>1, <1>2 DEF RunEnds

LEMMA RunEndsMoves ==
  ASSUME QueueInv, Exclusive, NEW p \in Passes, NEW i \in Jobs, RunEnds(p, i), NEW j \in Jobs
  PROVE  JobMoves(j)
<1>1. /\ run[p][i] = "running"
      /\ run' = [run EXCEPT ![p][i] = "none"]
      /\ UNCHANGED <<pc, cand>>
      /\ \E x : row' = [row EXCEPT ![i] = x]
  <2>1. CASE RunFails(p, i)
    <3>1. row' = [row EXCEPT ![i] = row[i]]
      BY <2>1 DEF RunFails, queueVars, QueueInv, TypeOK
    <3> QED BY <2>1, <3>1 DEF RunFails
  <2>2. CASE MarkSucceeded(p, i)
    BY <2>2 DEF MarkSucceeded, RunJobWrite
  <2> QED BY <2>1, <2>2 DEF RunEnds
<1>2. CASE j # i
  <2>1. row'[j] = row[j] /\ \A q \in Passes : run'[q][j] = run[q][j]
    BY <1>1, <1>2 DEF QueueInv, TypeOK
  <2> QED BY <1>1, <2>1, HoldersFrame
<1>3. CASE j = i
  <2>1. row[i].status = "running" /\ row[i].owner = WorkerOf[p] /\ (pc[p] # "idle" => i \notin cand[p])
    BY <1>1 DEF QueueInv, PassesOwnTheirRows, TypeOK
  <2>2. row'[i].status \in {"succeeded", "running"}
    BY <2>1, RunEndsWrites
  <2>3. Holders(i) # {}
    BY <1>1 DEF Holds, Holders
  <2>4. \A q \in Passes : ~Holds(q, i)'
    <3> SUFFICES ASSUME NEW q \in Passes PROVE ~Holds(q, i)'
      OBVIOUS
    <3>1. CASE q = p
      <4>1. run'[p][i] = "none" /\ (pc'[p] # "idle" => i \notin cand'[p])
        BY <1>1, <2>1 DEF QueueInv, TypeOK
      <4> QED BY <3>1, <4>1 DEF Holds, Claimed
    <3>2. CASE q # p
      <4>1. WorkerOf[q] # row[i].owner /\ WorkerOf[q] # NoOne
        BY <2>1, <3>2, JobQueueAssumption DEF Exclusive
      <4>2. WorkerOf[q] # row'[i].owner
        BY <4>1, RunEndsWrites
      <4>3. run'[q][i] = "none"
        <5>1. ~Holds(q, i)
          BY <4>1, HeldRowsAreOwned
        <5>2. run'[q][i] = run[q][i]
          BY <1>1, <3>2 DEF QueueInv, TypeOK
        <5> QED BY <5>1, <5>2 DEF Holds
      <4> QED BY <4>2, <4>3 DEF Holds, Claimed
    <3> QED BY <3>1, <3>2
  <2> QED BY <1>3, <2>2, <2>3, <2>4, LetGo
<1> QED BY <1>2, <1>3

LEMMA ReclaimStaleMoves ==
  ASSUME QueueInv, NEW p \in Passes, ReclaimStale(p), NEW j \in Jobs
  PROVE  JobMoves(j)
<1>1. UNCHANGED <<pc, cand, run>>
  BY DEF ReclaimStale, Reclaimable, passVars
<1>2. CASE j \notin stale
  <2>1. row'[j] = row[j]
    BY <1>2, ReclaimableIsStale DEF ReclaimStale
  <2> QED BY <1>1, <2>1, HoldersFrame
<1>3. CASE j \in stale
  <2>1. row[j] \in Row
    BY DEF QueueInv, TypeOK
  <2>2. row'[j] = [row[j] EXCEPT !.status = "queued", !.owner = NoOne]
    BY <1>3, ReclaimableIsStale DEF ReclaimStale
  <2>3. row'[j].status = "queued"
    BY <2>1, <2>2 DEF Row
  <2>4. row[j].status = "running"
    BY <1>3 DEF QueueInv, RowsWellFormed
  <2>5. \A q \in Passes : ~Holds(q, j)
    BY <1>3 DEF Holds, QueueInv, PassesOwnTheirRows
  <2>6. \A q \in Passes : ~Holds(q, j)'
    BY <1>1, <2>3, <2>5 DEF Holds, Claimed
  <2>7. Holders(j) = {} /\ Holders(j)' = {}
    BY <2>5, <2>6 DEF Holders
  <2> QED BY <2>3, <2>4, <2>7 DEF JobMoves, Moves
<1> QED BY <1>2, <1>3

LEMMA ProcessGoneMoves ==
  ASSUME QueueInv, Exclusive, NEW w \in Workers, ProcessGone(w), NEW j \in Jobs
  PROVE  JobMoves(j)
<1>1. row' = row
  BY DEF ProcessGone, queueVars
<1>2. \A q \in Passes :
        IF WorkerOf[q] = w THEN pc'[q] = "idle" /\ run'[q][j] = "none"
                           ELSE pc'[q] = pc[q] /\ cand'[q] = cand[q] /\ run'[q][j] = run[q][j]
  BY DEF ProcessGone
<1>3. \A q \in Passes : Holds(q, j)' <=> (Holds(q, j) /\ WorkerOf[q] # w)
  BY <1>1, <1>2 DEF Holds, Claimed
<1>4. CASE \E q \in Passes : Holds(q, j) /\ WorkerOf[q] = w
  <2>1. PICK q \in Passes : Holds(q, j) /\ WorkerOf[q] = w
    BY <1>4
  <2>2. row[j].status = "running" /\ row[j].owner = w
    BY <2>1, HeldRowsAreOwned
  <2>3. \A u \in Passes : ~Holds(u, j)'
    BY <1>3, <2>2, HeldRowsAreOwned
  <2>4. Holders(j) # {}
    BY <2>1 DEF Holders
  <2> QED BY <1>1, <2>2, <2>3, <2>4, LetGo
<1>5. CASE ~\E q \in Passes : Holds(q, j) /\ WorkerOf[q] = w
  <2>1. Holders(j)' = Holders(j)
    BY <1>3, <1>5 DEF Holders
  <2> QED BY <1>1, <2>1 DEF JobMoves, Moves
<1> QED BY <1>4, <1>5

LEMMA NextMoves ==
  ASSUME QueueInv, QueueInv', Exclusive, [Next]_vars, NEW j \in Jobs
  PROVE  JobMoves(j)
<1>1. ASSUME UNCHANGED <<row, pc, cand, run>> PROVE JobMoves(j)
  BY <1>1, HoldersFrame
<1>2. ASSUME NEW p \in Passes, PassStep(p) PROVE JobMoves(j)
  <2>1. ASSUME NEW i \in Jobs, RunJobLoad(p, i) PROVE JobMoves(j)
    <3>1. row' = row /\ pc' = pc /\ cand' = cand
      BY <2>1 DEF RunJobLoad, queueVars
    <3>2. \A q \in Passes : run'[q][j] # "none" <=> run[q][j] # "none"
      BY <2>1 DEF RunJobLoad, QueueInv, TypeOK
    <3> QED BY <3>1, <3>2, HoldersFrame
  <2>2. CASE ClaimSelect(p)
    <3>1. row' = row /\ run' = run /\ pc[p] = "idle"
      BY <2>2 DEF ClaimSelect, queueVars, Busy
    <3>2. \A q \in Passes : (pc'[q] = "taken" /\ j \in cand'[q]) <=> (pc[q] = "taken" /\ j \in cand[q])
      BY <2>2, <3>1 DEF ClaimSelect, QueueInv, TypeOK
    <3> QED BY <3>1, <3>2, HoldersFrame
  <2> QED BY <1>2, <2>1, <2>2, ReclaimStaleMoves, ClaimTakeMoves, ClaimCollectMoves, RunEndsMoves DEF PassStep
<1>3. ASSUME NEW i \in Jobs, LockAges(i) PROVE JobMoves(j)
  BY <1>1, <1>3 DEF LockAges, passVars
<1>4. ASSUME NEW w \in Workers, Crash(w) \/ WorkerExits(w) \/ RequestStop(w) PROVE JobMoves(j)
  BY <1>1, <1>4, ProcessGoneMoves DEF Crash, WorkerExits, RequestStop, queueVars, passVars
<1>5. CASE UNCHANGED vars
  BY <1>1, <1>5 DEF vars, queueVars, passVars
<1> QED BY <1>2, <1>3, <1>4, <1>5, EnqueueMoves DEF Next

LEMMA InitRefines == Init => Lifecycle!Init
<1> SUFFICES ASSUME Init PROVE Lifecycle!Init
  OBVIOUS
<1>1. \A j \in Jobs : row[j].status = "absent"
  BY DEF Init, Absent
<1>2. \A j \in Jobs : Holders(j) = {}
  BY DEF Init, Holders, Holds
<1> QED BY <1>1, <1>2 DEF Lifecycle!Init

LEMMA NextRefines ==
  ASSUME QueueInv, QueueInv', Exclusive, [Next]_vars
  PROVE  Lifecycle!Next
<1> SUFFICES ASSUME NEW j \in Jobs PROVE Lifecycle!JobStep(j) \/ Lifecycle!Stays(j)
  BY DEF Lifecycle!Next
<1>1. JobMoves(j)
  BY NextMoves
<1> QED
  BY <1>1 DEF JobMoves, Moves, Lifecycle!JobStep, Lifecycle!Stays, Lifecycle!Arm, Lifecycle!Start,
              Lifecycle!Finish, Lifecycle!Lose, Lifecycle!Reclaim, Lifecycle!Unheld, Lifecycle!Becomes

\* The table, the claims, the leases and the crashes together implement the
\* lifecycle of a job.
THEOREM QueueRefinesLifecycle == Exclusive => (Spec => ImplementsLifecycle)
<1> SUFFICES ASSUME Exclusive PROVE Spec => ImplementsLifecycle
  OBVIOUS
<1>1. QueueInv /\ QueueInv' /\ [Next]_vars => [Lifecycle!Next]_(Lifecycle!vars)
  BY NextRefines
<1> QED BY <1>1, InitRefines, QueueInvariant, PTL DEF Spec, ImplementsLifecycle, Lifecycle!Spec
=============================================================================
