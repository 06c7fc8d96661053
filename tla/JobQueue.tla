------------------------------ MODULE JobQueue ------------------------------
(***************************************************************************)
(* The database-backed job queue (backend/app/services/queue.py) together  *)
(* with the worker that drains it (backend/app/worker.py).                 *)
(*                                                                         *)
(* A job is one row of processing_jobs: there is exactly one row for each  *)
(* (call, stage).  A PASS is one call of Worker.run_once: reclaim, claim,  *)
(* then a gather of one _run_job per claimed row.  A worker process runs   *)
(* its passes one after the other, except behind the /worker-tick endpoint *)
(* of main.py, where ticks that overlap share one Worker and hence one     *)
(* worker_id: WorkerOf says which identity a pass uses, and is injective   *)
(* exactly when no two ticks overlap.                                      *)
(*                                                                         *)
(* Each action is one database transaction (or one read) as the code sends *)
(* it; everything the code awaits between two of them may interleave.  An  *)
(* ORM object writes back only the columns that differ from the values it  *)
(* loaded, which is what Flush says.                                       *)
(***************************************************************************)
EXTENDS Naturals, FiniteSets

CONSTANTS
  Jobs,          \* the (call, stage) rows
  Passes,        \* slots for passes that may be in progress together
  Workers,       \* worker identities, the values of locked_by
  WorkerOf,      \* the identity a pass claims under
  Requests,      \* API handlers or stages that may be inside enqueue together
  NoOne,         \* locked_by = NULL
  BatchSize,     \* settings.worker_batch_size
  MaxAttempts,   \* processing_jobs.max_attempts
  MayOverrun,    \* may a live run outlast STALE_LOCK_AFTER
  MayStop,       \* the workers that may be asked to shut down
  MaxFailures,   \* bound: runs that fail
  MaxFaults,     \* bound: crashes and overruns
  MaxEnqueues    \* bound: calls of enqueue that find a row to change

ASSUME JobQueueAssumption ==
  /\ WorkerOf \in [Passes -> Workers]
  /\ NoOne \notin Workers \cup Jobs
  /\ BatchSize \in Nat \ {0}
  /\ MaxAttempts \in Nat \ {0}
  /\ MayOverrun \in BOOLEAN
  /\ MayStop \subseteq Workers
  /\ MaxFailures \in Nat
  /\ MaxFaults \in Nat
  /\ MaxEnqueues \in Nat

VARIABLES
  row,        \* the table: status, attempts and locked_by of every job
  earlier,    \* pairs of queued rows ordered by scheduled_at
  stale,      \* RUNNING rows whose locked_at is older than STALE_LOCK_AFTER
  pc,         \* where each pass is inside claim
  cand,       \* the ids the pass selected
  waits,      \* the _run_job calls the pass's gather still waits for
  run,        \* run[p][j]: the _run_job of j started by pass p
  loaded,     \* loaded[p][j]: the row as that _run_job's session loaded it
  req,        \* the enqueue call each request is inside
  stopping,   \* workers whose stop event is set
  reclaims,   \* history: reclaims of a job since its attempts were zeroed
  failures,   \* bound counter
  faults,     \* bound counter
  enqueues    \* bound counter

queueVars == <<row, earlier, stale>>
passVars  == <<pc, cand, waits, run, loaded>>
vars == <<queueVars, passVars, req, stopping, reclaims, failures, faults, enqueues>>

-----------------------------------------------------------------------------
(* The table *)

\* FAILED is written by mark_failed alone, and no run gets that far (RunFails).
Status == {"absent", "queued", "running", "succeeded"}

Row == [status : Status, attempts : Nat, owner : Workers \cup {NoOne}]

Absent == [status |-> "absent", attempts |-> 0, owner |-> NoOne]

Fresh == [status |-> "queued", attempts |-> 0, owner |-> NoOne]

\* What a flush leaves in the table: an ORM object that loaded `seen` and was
\* assigned `new` updates only the columns on which the two differ.
Column(seen, new, cur) == IF seen # new THEN new ELSE cur

Flush(seen, new, cur) ==
  [status   |-> Column(seen.status, new.status, cur.status),
   attempts |-> Column(seen.attempts, new.attempts, cur.attempts),
   owner    |-> Column(seen.owner, new.owner, cur.owner)]

\* A row reclaim_stale can ever select: RUNNING, with locked_at set.
Locked(r) == r.status = "running" /\ r.owner # NoOne

\* The rows a claim may select.  Nothing enqueues with a delay and no backoff is
\* ever written, so scheduled_at of a QUEUED row has passed.
Due == {j \in Jobs : row[j].status = "queued"}

\* Rows S get scheduled_at = now: after every row already due, and level with
\* each other.
ScheduleNow(S) ==
  earlier' = {e \in earlier : e[1] \notin S /\ e[2] \notin S} \cup ((Due \ S) \X S)

\* Rows S are not due any more: claimed or finished.
Unschedule(S) == earlier' = {e \in earlier : e[1] \notin S /\ e[2] \notin S}

-----------------------------------------------------------------------------
(* enqueue: a read of the existing row, then the write that re-arms or     *)
(* inserts it and commits with the caller's transaction.                   *)

NoRequest == [job |-> NoOne, seen |-> Absent]

InEnqueue(r) == req[r] # NoRequest

\* select(ProcessingJob); a RUNNING row is returned untouched.
EnqueueRead(r, j) ==
  /\ ~InEnqueue(r)
  /\ enqueues < MaxEnqueues
  /\ row[j].status # "running"
  /\ req' = [req EXCEPT ![r] = [job |-> j, seen |-> row[j]]]
  /\ enqueues' = enqueues + 1
  /\ UNCHANGED <<queueVars, passVars, stopping, reclaims, failures, faults>>

\* The existing row is re-armed: status QUEUED, attempts 0, lock cleared,
\* scheduled now - each column written only if it differs from what was read.
EnqueueRearm(r) ==
  LET j   == req[r].job
      new == Flush(req[r].seen, Fresh, row[j])
  IN  /\ InEnqueue(r)
      /\ req[r].seen.status # "absent"
      /\ row' = [row EXCEPT ![j] = new]
      /\ IF new.status = "queued" THEN ScheduleNow({j})
                                  ELSE UNCHANGED earlier
      /\ stale' = IF Locked(new) THEN stale ELSE stale \ {j}
      /\ reclaims' = [reclaims EXCEPT ![j] = IF new.attempts = 0 THEN 0 ELSE @]
      /\ req' = [req EXCEPT ![r] = NoRequest]
      /\ UNCHANGED <<passVars, stopping, failures, faults, enqueues>>

\* No row was read: one is inserted.  If another transaction inserted it in
\* the meantime the unique constraint fails the insert and the caller with it.
EnqueueInsert(r) ==
  LET j == req[r].job
  IN  /\ InEnqueue(r)
      /\ req[r].seen.status = "absent"
      /\ IF row[j].status = "absent"
           THEN row' = [row EXCEPT ![j] = Fresh] /\ ScheduleNow({j})
           ELSE UNCHANGED <<row, earlier>>
      /\ req' = [req EXCEPT ![r] = NoRequest]
      /\ UNCHANGED <<stale, passVars, stopping, reclaims, failures, faults, enqueues>>

\* A later step of the caller's transaction fails, and enqueue's write with it.
EnqueueRollback(r) ==
  /\ InEnqueue(r)
  /\ req' = [req EXCEPT ![r] = NoRequest]
  /\ UNCHANGED <<queueVars, passVars, stopping, reclaims, failures, faults, enqueues>>

-----------------------------------------------------------------------------
(* claim: select candidates, update those still QUEUED, select them back.  *)

Busy(p) == pc[p] # "idle" \/ waits[p] # {}

\* The first BatchSize due rows in the order of scheduled_at.
FirstDue(S) ==
  /\ S \subseteq Due
  /\ Cardinality(S) <= BatchSize
  /\ Cardinality(S) < BatchSize => S = Due
  /\ \A i \in Due \ S, j \in S : <<i, j>> \notin earlier

ClaimSelect(p) ==
  /\ ~Busy(p)
  /\ WorkerOf[p] \notin stopping
  /\ Due # {}
  /\ \E S \in SUBSET Due :
       /\ FirstDue(S)
       /\ cand' = [cand EXCEPT ![p] = S]
  /\ pc' = [pc EXCEPT ![p] = "selected"]
  /\ UNCHANGED <<queueVars, waits, run, loaded, req, stopping, reclaims, failures, faults, enqueues>>

\* WHERE id IN candidates AND status = 'queued'
WonUnguarded(p) == cand[p]                 \* variant: the status test dropped

Won(p) == {j \in cand[p] : row[j].status = "queued"}

TakenRowCountingDown(p, j) ==              \* variant: attempts left, not made
  [status |-> "running", attempts |-> row[j].attempts - 1, owner |-> WorkerOf[p]]

TakenRow(p, j) ==
  [status |-> "running", attempts |-> row[j].attempts + 1, owner |-> WorkerOf[p]]

\* The UPDATE of the rows still QUEUED, and its commit.
ClaimTake(p) ==
  /\ pc[p] = "selected"
  /\ row' = [j \in Jobs |-> IF j \in Won(p) THEN TakenRow(p, j) ELSE row[j]]
  /\ Unschedule(Won(p))
  /\ pc' = [pc EXCEPT ![p] = "taken"]
  /\ UNCHANGED <<stale, cand, waits, run, loaded, req, stopping, reclaims, failures, faults, enqueues>>

\* The candidates that are RUNNING under this worker's name.
ClaimedByAnyone(p) == {j \in cand[p] : row[j].status = "running"}  \* variant

ClaimedUnlessStopping(p) ==      \* variant: the stop event tested after the claim
  {j \in cand[p] : /\ row[j].status = "running"
                   /\ row[j].owner = WorkerOf[p]
                   /\ WorkerOf[p] \notin stopping}

Claimed(p) ==
  {j \in cand[p] : row[j].status = "running" /\ row[j].owner = WorkerOf[p]}

\* The second select, and the gather that starts one _run_job for each row.
ClaimCollect(p) ==
  /\ pc[p] = "taken"
  /\ run' = [run EXCEPT ![p] =
               [j \in Jobs |-> IF j \in Claimed(p) THEN "collected" ELSE run[p][j]]]
  /\ waits' = [waits EXCEPT ![p] = Claimed(p)]
  /\ pc' = [pc EXCEPT ![p] = "idle"]
  /\ cand' = [cand EXCEPT ![p] = {}]
  /\ UNCHANGED <<queueVars, loaded, req, stopping, reclaims, failures, faults, enqueues>>

-----------------------------------------------------------------------------
(* _run_job: load the row, run the stage, write the outcome back.          *)

RunJobLoad(p, j) ==
  /\ run[p][j] = "collected"
  /\ run' = [run EXCEPT ![p][j] = "running"]
  /\ loaded' = [loaded EXCEPT ![p][j] = row[j]]
  /\ UNCHANGED <<queueVars, pc, cand, waits, req, stopping, reclaims, failures, faults, enqueues>>

\* The run's session writes `new` over what it loaded and the run is over.
RunJobWrite(p, j, new) ==
  LET written == Flush(loaded[p][j], new, row[j])
  IN  /\ run[p][j] = "running"
      /\ row' = [row EXCEPT ![j] = written]
      /\ run' = [run EXCEPT ![p][j] = "none"]
      /\ loaded' = [loaded EXCEPT ![p][j] = Absent]
      /\ waits' = [waits EXCEPT ![p] = @ \ {j}]
      /\ stale' = IF Locked(written) THEN stale ELSE stale \ {j}
      /\ IF written.status = "queued" THEN UNCHANGED earlier ELSE Unschedule({j})
      /\ UNCHANGED <<pc, cand, req, stopping, reclaims, failures, faults, enqueues>>

MarkSucceeded(p, j) ==
  RunJobWrite(p, j, [loaded[p][j] EXCEPT !.status = "succeeded", !.owner = NoOne])

\* The stage raised, or the commit of its outcome did.  _run_job rolls the
\* session back, which expires every attribute of `job`; the next read of one
\* (job.id in the log call or in mark_failed, job.attempts there) is an implicit
\* query the async session refuses.  So mark_failed raises before its commit,
\* with attempts left or not, retryable or not, and the row stays as it was.
\* gather passes the first exception on without cancelling the other calls: the
\* pass is over, and they run on beside the passes that follow.
RunFails(p, j) ==
  /\ failures < MaxFailures
  /\ run[p][j] = "running"
  /\ run' = [run EXCEPT ![p][j] = "none"]
  /\ loaded' = [loaded EXCEPT ![p][j] = Absent]
  /\ waits' = [waits EXCEPT ![p] = IF j \in @ THEN {} ELSE @]
  /\ failures' = failures + 1
  /\ UNCHANGED <<queueVars, pc, cand, req, stopping, reclaims, faults, enqueues>>

-----------------------------------------------------------------------------
(* Time, maintenance, failures, shutdown                                   *)

\* Pass p holds j: it took it and has not finished with it.
Holds(p, j) ==
  \/ run[p][j] # "none"
  \/ pc[p] = "taken" /\ j \in Claimed(p)

Held(j) == \E p \in Passes : Holds(p, j)

\* Thirty minutes pass since locked_at.  A live run seldom lasts that
\* long, but may: a client's timeout bounds one read or one attempt, not the
\* call, and the process may be suspended.
LockAges(j) ==
  /\ Locked(row[j])
  /\ j \notin stale
  /\ IF Held(j) THEN MayOverrun /\ faults < MaxFaults /\ faults' = faults + 1
                ELSE UNCHANGED faults
  /\ stale' = stale \cup {j}
  /\ UNCHANGED <<row, earlier, passVars, req, stopping, reclaims, failures, enqueues>>

\* WHERE status = 'running' AND locked_at < cutoff
StaleAndUnspent ==               \* variant: exhausted rows are left alone
  {j \in stale : row[j].status = "running" /\ row[j].attempts < MaxAttempts}

EveryRunning == {j \in Jobs : Locked(row[j])}      \* variant: no cutoff

Reclaimable == {j \in stale : row[j].status = "running"}

\* reclaim_stale, run by _maintenance at the start of a pass.
ReclaimStale(p) ==
  /\ ~Busy(p)
  /\ WorkerOf[p] \notin stopping
  /\ Reclaimable # {}
  /\ row' = [j \in Jobs |-> IF j \in Reclaimable
                              THEN [row[j] EXCEPT !.status = "queued", !.owner = NoOne]
                              ELSE row[j]]
  /\ ScheduleNow(Reclaimable)
  /\ stale' = stale \ Reclaimable
  /\ reclaims' = [j \in Jobs |-> IF j \in Reclaimable THEN reclaims[j] + 1 ELSE reclaims[j]]
  /\ UNCHANGED <<passVars, req, stopping, failures, faults, enqueues>>

\* The process of worker w is gone, its passes and runs with it; the rows they
\* hold stay RUNNING.
ProcessGone(w) ==
  LET ofW == {p \in Passes : WorkerOf[p] = w}
  IN  /\ pc' = [p \in Passes |-> IF p \in ofW THEN "idle" ELSE pc[p]]
      /\ cand' = [p \in Passes |-> IF p \in ofW THEN {} ELSE cand[p]]
      /\ waits' = [p \in Passes |-> IF p \in ofW THEN {} ELSE waits[p]]
      /\ run' = [p \in Passes |-> IF p \in ofW THEN [j \in Jobs |-> "none"] ELSE run[p]]
      /\ loaded' = [p \in Passes |-> IF p \in ofW THEN [j \in Jobs |-> Absent] ELSE loaded[p]]
      /\ UNCHANGED <<queueVars, req, stopping, reclaims, failures, enqueues>>

Alive(p) == Busy(p) \/ \E j \in Jobs : run[p][j] # "none"

Crash(w) ==
  /\ faults < MaxFaults
  /\ \E p \in Passes : WorkerOf[p] = w /\ Alive(p)
  /\ faults' = faults + 1
  /\ ProcessGone(w)

\* After a stop the loop ends with the pass in progress, and asyncio.run cancels
\* the calls a raising gather left behind.
WorkerExits(w) ==
  /\ w \in stopping
  /\ \E p \in Passes : WorkerOf[p] = w /\ Alive(p)
  /\ \A p \in Passes : WorkerOf[p] = w => ~Busy(p)
  /\ ProcessGone(w)
  /\ UNCHANGED faults

\* request_stop: no further pass starts; the one in progress runs to its end.
RequestStop(w) ==
  /\ w \in MayStop \ stopping
  /\ stopping' = stopping \cup {w}
  /\ UNCHANGED <<queueVars, passVars, req, reclaims, failures, faults, enqueues>>

-----------------------------------------------------------------------------

Init ==
  /\ row = [j \in Jobs |-> Absent]
  /\ earlier = {}
  /\ stale = {}
  /\ pc = [p \in Passes |-> "idle"]
  /\ cand = [p \in Passes |-> {}]
  /\ waits = [p \in Passes |-> {}]
  /\ run = [p \in Passes |-> [j \in Jobs |-> "none"]]
  /\ loaded = [p \in Passes |-> [j \in Jobs |-> Absent]]
  /\ req = [r \in Requests |-> NoRequest]
  /\ stopping = {}
  /\ reclaims = [j \in Jobs |-> 0]
  /\ failures = 0
  /\ faults = 0
  /\ enqueues = 0

Enqueue(r) ==
  \/ \E j \in Jobs : EnqueueRead(r, j)
  \/ EnqueueRearm(r)
  \/ EnqueueInsert(r)
  \/ EnqueueRollback(r)

RunEnds(p, j) == MarkSucceeded(p, j) \/ RunFails(p, j)

PassStep(p) ==
  \/ ReclaimStale(p)
  \/ ClaimSelect(p)
  \/ ClaimTake(p)
  \/ ClaimCollect(p)
  \/ \E j \in Jobs : RunJobLoad(p, j) \/ RunEnds(p, j)

Next ==
  \/ \E r \in Requests : Enqueue(r)
  \/ \E p \in Passes : PassStep(p)
  \/ \E j \in Jobs : LockAges(j)
  \/ \E w \in Workers : Crash(w) \/ WorkerExits(w) \/ RequestStop(w)

Spec == Init /\ [][Next]_vars

\* A worker polls for ever, so its passes make progress; a stage ends because
\* every provider call it awaits gives up in the end; clocks advance.  Maintenance
\* runs only at the start of a pass that begins ten minutes after the last:
\* never continuously enabled, but again and again.
Fairness ==
  /\ \A p \in Passes :
       /\ SF_vars(ReclaimStale(p))
       /\ WF_vars(ClaimSelect(p))
       /\ WF_vars(ClaimTake(p))
       /\ WF_vars(ClaimCollect(p))
       /\ \A j \in Jobs : WF_vars(RunJobLoad(p, j)) /\ WF_vars(RunEnds(p, j))
  /\ \A j \in Jobs : WF_vars(LockAges(j) /\ ~Held(j))
  /\ \A r \in Requests : WF_vars(EnqueueRearm(r)) /\ WF_vars(EnqueueInsert(r))

FairSpec == Spec /\ Fairness
=============================================================================
