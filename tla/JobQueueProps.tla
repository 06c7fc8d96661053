--------------------------- MODULE JobQueueProps ---------------------------
(* What the queue is relied on for, stated over JobQueue. *)
EXTENDS JobQueue

\* Every variable holds a value of the shape the code gives it.
TypeOK ==
  /\ row \in [Jobs -> Row]
  /\ earlier \subseteq Jobs \X Jobs
  /\ stale \subseteq Jobs
  /\ pc \in [Passes -> {"idle", "selected", "taken"}]
  /\ cand \in [Passes -> SUBSET Jobs]
  /\ waits \in [Passes -> SUBSET Jobs]
  /\ run \in [Passes -> [Jobs -> {"none", "collected", "running"}]]
  /\ loaded \in [Passes -> [Jobs -> Row]]
  /\ req \in [Requests -> [job : Jobs, seen : Row] \cup {NoRequest}]
  /\ stopping \subseteq Workers
  /\ reclaims \in [Jobs -> Nat]
  /\ failures \in Nat
  /\ faults \in Nat
  /\ enqueues \in Nat

\* The passes that execute j, or have taken it and are about to.
Holders(j) == {p \in Passes : Holds(p, j)}

\* "Two workers racing for the same row cannot both win": a stage of a call is
\* never executed by two passes at once (queue.claim).
OneRunPerJob == \A j \in Jobs : \A p, q \in Holders(j) : p = q

\* Every start was asked for: a job is started once for the enqueue that armed
\* it and once more for each time reclaim_stale took it back, whatever copies of
\* the row are written over each other (queue.claim).  It is no bound on the
\* number of starts, because nothing bounds the reclaims (AttemptsWithinMax).
AttemptsBudget ==
  \A j \in Jobs :
    /\ row[j].attempts <= reclaims[j] + 1
    /\ row[j].status = "queued" => row[j].attempts <= reclaims[j]

\* A job that succeeded is not started again by a late worker, a reclaim or a
\* claim that was under way: only the enqueue that re-arms it (queue.enqueue)
\* changes it.
OverUntilRearmed ==
  [][\A j \in Jobs :
       row[j].status = "succeeded" /\ row'[j] # row[j]
         => \E r \in Requests : req[r].job = j /\ req'[r] = NoRequest]_vars

\* A worker asked to stop finishes what it has: when it is idle no row is left
\* RUNNING in its name, unless a run of some worker failed, crashed or overran
\* (Worker.run).
StopLeavesNoLock ==
  \A w \in stopping :
    (failures + faults = 0 /\ \A p \in Passes : WorkerOf[p] = w => ~Busy(p))
      => \A j \in Jobs : ~(row[j].status = "running" /\ row[j].owner = w)

\* If only finitely many runs fail and workers crash, every job that is queued
\* succeeds in the end: it is not lost with the worker that held it or the run
\* that could not report, and not starved by the batch limit.  A stage that
\* fails every time is reclaimed for ever and never over.
QueuedJobsSettle ==
  \A j \in Jobs : row[j].status = "queued" ~> row[j].status = "succeeded"

\* The queue implements the lifecycle of a job (JobLifecycle).
Lifecycle == INSTANCE JobLifecycle WITH
  phase  <- [j \in Jobs |-> row[j].status],
  holder <- [j \in Jobs |-> Holders(j)]

ImplementsLifecycle == Lifecycle!Spec

-----------------------------------------------------------------------------
(* When the queue can be relied on, and why: the conditions under which the *)
(* properties above are theorems, and the invariant that carries them.      *)

\* No run outlasts its lease, no two passes share an identity, and enqueue is
\* not entered twice at once.
Exclusive ==
  /\ ~MayOverrun
  /\ \A p, q \in Passes : WorkerOf[p] = WorkerOf[q] => p = q
  /\ \A r, s \in Requests : r = s

\* A row carries a lock exactly while it is RUNNING; rows with an expired lease
\* are locked.
RowsWellFormed ==
  /\ \A j \in Jobs : row[j].status = "running" <=> row[j].owner # NoOne
  /\ \A j \in stale : row[j].status = "running"

\* A pass never selects what it still runs (calls a raising gather left behind
\* go on during its claim), does not own what it selected until it takes it, and
\* owns what it took or runs, lease fresh.
PassesOwnTheirRows ==
  \A p \in Passes :
    /\ pc[p] # "idle" => \A j \in cand[p] : run[p][j] = "none"
    /\ pc[p] = "selected" => \A j \in cand[p] : row[j].owner # WorkerOf[p]
    /\ pc[p] = "taken" => \A j \in Claimed(p) : j \notin stale
    /\ \A j \in Jobs : run[p][j] # "none" =>
         row[j].status = "running" /\ row[j].owner = WorkerOf[p] /\ j \notin stale

\* The copy a run works from still names its lock.
LoadedCopyCurrent ==
  \A p \in Passes, j \in Jobs : run[p][j] = "running" =>
    /\ loaded[p][j].status = "running"
    /\ loaded[p][j].owner # NoOne

\* What enqueue read is idle, and unless it was waiting nothing else moves it.
SeenRowCurrent ==
  \A r \in Requests : InEnqueue(r) =>
    LET j == req[r].job  seen == req[r].seen
    IN  /\ seen.owner = NoOne
        /\ seen.status # "running"
        /\ seen.status # "queued" => row[j] = seen

QueueInv ==
  /\ TypeOK
  /\ RowsWellFormed
  /\ PassesOwnTheirRows
  /\ LoadedCopyCurrent
  /\ SeenRowCurrent
  /\ AttemptsBudget

-----------------------------------------------------------------------------
(* What the code, its comments and its documents say and the code does not do *)

\* "Failures retry with backoff ...; a ProviderError marked non-retryable parks
\* immediately": a run that ends leaves its row queued or over, never RUNNING,
\* when its process is alive.
FailureReleasesRow ==
  [][\A p \in Passes, j \in Jobs :
       RunFails(p, j) => row'[j].status # "running"]_vars

\* mark_failed: "Reschedule with backoff, or park the job once attempts are
\* exhausted": a job is not started more often than max_attempts.  A stage that
\* keeps failing is, since only reclaim_stale moves it and does not count.
AttemptsWithinMax == \A j \in Jobs : row[j].attempts <= MaxAttempts
=============================================================================
