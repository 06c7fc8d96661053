---------------------------- MODULE JobLifecycle ----------------------------
(***************************************************************************)
(* What the queue promises for one (call, stage), with the table, the      *)
(* three statements of claim, the leases and the worker processes left     *)
(* out: a job is absent, queued, running or over; whoever executes it      *)
(* executes it alone; it leaves `running` only through the success its     *)
(* executor reports or, once the executor is gone, through a reclaim; and  *)
(* a job that is over stays over until somebody enqueues it again.         *)
(*                                                                         *)
(* One step may move several jobs, because a claim takes a batch and a     *)
(* crash drops everything its process held.                                *)
(***************************************************************************)
CONSTANTS Jobs, Passes

VARIABLES
  phase,    \* phase[j]: the status of the row
  holder    \* holder[j]: the passes executing j

vars == <<phase, holder>>

Unheld(j) == holder[j] = {} /\ holder'[j] = {}

Becomes(j, from, to) == phase[j] \in from /\ phase'[j] = to

\* enqueue on an idle row: inserted, re-armed, or re-armed while waiting.
Arm(j) == Unheld(j) /\ Becomes(j, {"absent", "queued", "succeeded"}, "queued")

\* claim: a queued job gets one executor.
Start(j) ==
  /\ Becomes(j, {"queued"}, "running")
  /\ holder[j] = {}
  /\ \E p \in Passes : holder'[j] = {p}

\* mark_succeeded: the executor reports and lets go.
Finish(j) ==
  /\ holder[j] # {}
  /\ holder'[j] = {}
  /\ Becomes(j, {"running"}, "succeeded")

\* The executor crashed, or failed and could not report; the row does not know.
Lose(j) ==
  /\ holder[j] # {}
  /\ holder'[j] = {}
  /\ Becomes(j, {"running"}, "running")

\* reclaim_stale
Reclaim(j) == Unheld(j) /\ Becomes(j, {"running"}, "queued")

JobStep(j) == Arm(j) \/ Start(j) \/ Finish(j) \/ Lose(j) \/ Reclaim(j)

Stays(j) == phase'[j] = phase[j] /\ holder'[j] = holder[j]

Init ==
  /\ phase = [j \in Jobs |-> "absent"]
  /\ holder = [j \in Jobs |-> {}]

Next == \A j \in Jobs : JobStep(j) \/ Stays(j)

Spec == Init /\ [][Next]_vars
=============================================================================
