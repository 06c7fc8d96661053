----------------------------- MODULE MCJobQueue -----------------------------
(* Instances of JobQueueProps for TLC. *)
EXTENDS JobQueueProps, TLC

CONSTANTS j1, j2, p1, p2, r1, w1, w2

TwoJobs == {j1, j2}
OneJob == {j1}
TwoPasses == {p1, p2}
OneRequest == {r1}
TwoWorkers == {w1, w2}
OneWorker == {w1}

\* Two worker processes, each running its passes one after the other.
OwnIdentity == p1 :> w1 @@ p2 :> w2

\* Two ticks of /internal/worker/tick in the same process.
SharedIdentity == p1 :> w1 @@ p2 :> w1

Nobody == {}
OnlyW1 == {w1}
=============================================================================
