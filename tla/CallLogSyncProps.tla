-------------------------- MODULE CallLogSyncProps --------------------------
(* What reporting the call log is relied on for, stated over CallLogSync. *)
EXTENDS CallLogSync

\* The cursor and the ledger pass only entries that are on the server or whose
\* report was seen to fail: neither the end of a batch, nor a kill, nor another
\* sync's older cursor or ledger, nor a new pairing makes a call be skipped
\* (syncCallLog).
SkippedOnlyIfFailed ==
  \A e \in logged :
    Reportable(e) /\ (e.at <= cursor \/ e \in ToSet(synced))
      => Reported(e) \/ e \in failed

\* A recording the importer's ledger takes off the offer is on the upload
\* queue, so no kill between the two loses its audio (reportCall).
ImportedIsQueued == \A r \in imported : \E e \in Entries : <<e, r>> \in queued

\* Every call the phone logged is in the end on the server or its report was
\* seen to fail: nothing stalls the cursor and nothing is passed over, with
\* batches full of entries that are not reportable, kills, resets, a trimmed
\* ledger and overlapping syncs - as long as rows are written in the order of
\* their times (syncCallLog; "resuming from the newest seen entry loses
\* nothing", CallLogModule.kt).
CallsReported ==
  \A e \in Entries :
    Reportable(e) => (e \in logged ~> Reported(e) \/ e \in failed)

-----------------------------------------------------------------------------
(* What the documents and comments say and the code does not do            *)

\* "The cursor only advances past what was actually read, so an interrupted
\* sync resumes rather than skipping"; "a phone that cannot record still
\* reports every call": between syncs no call older than the cursor is missing.
NothingSkipped ==
  (\A s \in Syncs : sync[s].at = "idle")
    => \A e \in logged : Reportable(e) /\ e.at <= cursor => Reported(e)

\* "The app remembers which calls and recordings it has already sent, so a sync
\* never reports the same call twice": as long as that memory is not cleared, no
\* report fails and nothing is killed - whatever has happened were pairings - the
\* server has one row for a call-log entry (syncCallLog, callPayload).  It has two if
\* a pairing comes after the report and before the ledger is saved.
CallsReportedOnce ==
  troubles = device - 1 => \A ref, other \in calls : ref[2] = other[2] => ref = other
=============================================================================
