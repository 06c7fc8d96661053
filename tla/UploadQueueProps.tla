-------------------------- MODULE UploadQueueProps --------------------------
(* What the handset's upload queue is relied on for, over UploadQueue. *)
EXTENDS UploadQueue

\* "A recording survives the app being killed" and its file "is deleted only
\* once the server has accepted it": a recording whose enqueue returned is on
\* disk with its file until the server stored it or the agent deleted it,
\* whatever drains overlap and whenever the app is killed.
SavedNotLost ==
  \A i \in Items :
    op[i] \in {"saved", "removing"} /\ i \notin accepted \cup discarded
      => Has(disk, i) /\ i \in file \cup cleaned

\* No recording is on the list twice, and what is on disk lags behind the list by
\* writes that are under way, and by nothing else: no change is left in memory only,
\* where a kill would undo it.
\* (A backoff is stored as the time it ends, so its passing needs no write.)
DiskFollows ==
  LET last == IF writes = <<>> THEN disk ELSE writes[Len(writes)].queue
      Key(q) == [k \in DOMAIN q |-> [q[k] EXCEPT !.when = IF @ = "never" THEN @ ELSE "now"]]
  IN  /\ Key(last) = Key(queue)
      /\ \A k, l \in DOMAIN queue : queue[k].item = queue[l].item => k = l

Stuck(i) == \E k \in DOMAIN queue : queue[k].item = i /\ queue[k].when = "never"

\* An upload is not retried for ever and not forgotten: a recording whose
\* enqueue returned is in the end accepted, deleted by the agent, or on the
\* list as stuck.
SavedSettles ==
  \A i \in Items :
    op[i] = "saved" ~> i \in accepted \cup discarded \/ Stuck(i)

-----------------------------------------------------------------------------
(* What the documents and comments say and the code does not do            *)

\* "The original file in the recordings folder is never modified or deleted."
OriginalsKept == Originals \subseteq file
=============================================================================
