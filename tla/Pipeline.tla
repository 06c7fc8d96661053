------------------------------ MODULE Pipeline ------------------------------
(***************************************************************************)
(* One call on its way through the backend: the handset uploads its audio  *)
(* (api/v1/mobile.py), stage 1 turns it into a transcript and stage 2 into *)
(* an analysis (services/pipeline.py), an administrator may re-run either  *)
(* (api/v1/calls.py), and the retention purge deletes the audio in the end *)
(* (services/retention.py).                                                *)
(*                                                                         *)
(* The two stages are jobs of the queue.  Here a job is what JobLifecycle  *)
(* says of it - JobQueue shows that the queue's statements implement that  *)
(* - and what a run does between its claim and its outcome is spelled out. *)
(*                                                                         *)
(* The content of an audio file is the upload it came with; a transcript   *)
(* is the audio it was made from and an edition number; an analysis is the *)
(* edition it was made from.                                               *)
(***************************************************************************)
EXTENDS Naturals, FiniteSets

CONSTANTS
  Uploads,      \* the upload requests for this call, each with its own audio
  Keys,         \* the storage keys build_key can give this call
  KeyOf,        \* the key of each upload: it depends on month and mime type
  NoAudio,      \* nothing stored under a key
  NoKey,        \* storage_key = NULL
  MayOverlap,   \* may a request or a purge begin while another is under way
  MaxReprocess, \* bound: reprocess requests
  MaxFaults     \* bound: failures and crashes of any kind

ASSUME PipelineAssumption ==
  /\ KeyOf \in [Uploads -> Keys]
  /\ NoAudio \notin Uploads
  /\ NoKey \notin Keys
  /\ MayOverlap \in BOOLEAN
  /\ MaxReprocess \in Nat
  /\ MaxFaults \in Nat

VARIABLES
  upload,       \* where each upload request is
  seen,         \* the recording row each request read
  blob,         \* the storage backend: key to audio
  unaccepted,   \* history: uploads that stored a file since the row was last written
  rec,          \* the call's recording row
  text,         \* the call's transcript row
  insight,      \* the edition the call's analysis was made from, 0 for none
  job,          \* status of the job of each stage
  run,          \* where the run of each stage is
  tKey,         \* transcription: the key it read from the row
  tAudio,       \* transcription: the audio it fetched
  aEdition,     \* analysis: the edition it read
  purge,        \* where the purge is, and the row it selected
  missed,       \* history: stages enqueued while RUNNING and not read since
  reprocesses,  \* bound counter
  faults        \* bound counter

uploadVars == <<upload, seen, unaccepted>>
jobVars    == <<job, missed>>
runVars    == <<run, tKey, tAudio, aEdition>>
vars == <<uploadVars, blob, rec, text, insight, jobVars, runVars, purge,
          reprocesses, faults>>

Stages == {"transcribe", "analyze"}

-----------------------------------------------------------------------------
(* Rows and jobs *)

NoRecording == [status |-> "absent", key |-> NoKey, audio |-> NoAudio, expiry |-> "never"]

NoText == [edition |-> 0, audio |-> NoAudio, blank |-> TRUE]

\* A flush writes the columns that differ from what the session had read.
Column(old, new, cur) == IF old # new THEN new ELSE cur

Flush(old, new, cur) ==
  [status |-> Column(old.status, new.status, cur.status),
   key    |-> Column(old.key, new.key, cur.key),
   audio  |-> Column(old.audio, new.audio, cur.audio),
   expiry |-> Column(old.expiry, new.expiry, cur.expiry)]

\* queue.enqueue leaves a RUNNING row alone and re-arms or inserts any other.
RearmsUnfinished(s) == job[s] \notin {"running", "succeeded"}  \* variant
RearmsAlways(s) == s \in Stages                                \* variant

Rearms(s) == job[s] # "running"

Enqueue(s) ==
  /\ job' = [job EXCEPT ![s] = IF Rearms(s) THEN "queued" ELSE @]
  /\ missed' = IF job[s] = "running" THEN missed \cup {s} ELSE missed

Fault == faults < MaxFaults /\ faults' = faults + 1

-----------------------------------------------------------------------------
(* POST /mobile/calls/{id}/recording: the blob first, then one transaction. *)

Uploading(u) == upload[u] \in {"put", "read"}

MayBegin == MayOverlap \/ (purge.at = "idle" /\ \A u \in Uploads : ~Uploading(u))

\* storage.put replaces what is stored under the key.
UploadPut(u) ==
  /\ upload[u] = "idle"
  /\ MayBegin
  /\ blob' = [blob EXCEPT ![KeyOf[u]] = u]
  /\ unaccepted' = unaccepted \cup {u}
  /\ upload' = [upload EXCEPT ![u] = "put"]
  /\ UNCHANGED <<seen, rec, text, insight, jobVars, runVars, purge, reprocesses, faults>>

UploadRead(u) ==
  /\ upload[u] = "put"
  /\ seen' = [seen EXCEPT ![u] = rec]
  /\ upload' = [upload EXCEPT ![u] = "read"]
  /\ UNCHANGED <<blob, unaccepted, rec, text, insight, jobVars, runVars, purge, reprocesses, faults>>

\* purge_after is new with every upload, or NULL when the retention is 0.
UploadedRow(u, expiry) ==
  [status |-> "stored", key |-> KeyOf[u], audio |-> u, expiry |-> expiry]

\* uploaded_at and purge_after always differ from the values read, so expiry is
\* written whatever it was; the other columns only if they changed.
UploadCommit(u) ==
  /\ upload[u] = "read"
  /\ IF seen[u].status = "absent" /\ rec.status # "absent"
       THEN /\ upload' = [upload EXCEPT ![u] = "aborted"]  \* uq_recordings_call
            /\ UNCHANGED <<rec, unaccepted, jobVars>>
       ELSE /\ upload' = [upload EXCEPT ![u] = "done"]
            /\ \E expiry \in {"never", "later"} :
                 rec' = [Flush(seen[u], UploadedRow(u, expiry), rec) EXCEPT !.expiry = expiry]
            /\ unaccepted' = {}
            /\ Enqueue("transcribe")
  /\ seen' = [seen EXCEPT ![u] = NoRecording]
  /\ UNCHANGED <<blob, text, insight, runVars, purge, reprocesses, faults>>

\* The handler fails between the put and the commit, or its process dies.
UploadAbort(u) ==
  /\ Uploading(u)
  /\ Fault
  /\ upload' = [upload EXCEPT ![u] = "aborted"]
  /\ seen' = [seen EXCEPT ![u] = NoRecording]
  /\ UNCHANGED <<blob, unaccepted, rec, text, insight, jobVars, runVars, purge, reprocesses>>

\* POST /calls/{id}/reprocess.  has_recording is set by the first upload and
\* never cleared; a transcript, once there, is never deleted.
Reprocess(s) ==
  /\ reprocesses < MaxReprocess
  /\ IF s = "transcribe" THEN rec.status # "absent" ELSE text.edition # 0
  /\ Enqueue(s)
  /\ reprocesses' = reprocesses + 1
  /\ UNCHANGED <<uploadVars, blob, rec, text, insight, runVars, purge, faults>>

-----------------------------------------------------------------------------
(* A run of a stage, from its claim to its outcome *)

Claim(s) ==
  /\ job[s] = "queued"
  /\ job' = [job EXCEPT ![s] = "running"]
  /\ run' = [run EXCEPT ![s] = "started"]
  /\ UNCHANGED <<uploadVars, blob, rec, text, insight, missed, tKey, tAudio,
                 aEdition, purge, reprocesses, faults>>

\* The stage raises.  _run_job rolls back, which expires the job, and mark_failed
\* raises in its turn: whatever the error was, nothing is written and the row
\* stays RUNNING until the lock is stale (JobQueue!RunFails).
EndFailed(s) ==
  /\ run' = [run EXCEPT ![s] = "none"]
  /\ UNCHANGED <<job, tKey, tAudio, aEdition>>

\* run_transcription reads the call and its recording.
TranscribeRead ==
  /\ run["transcribe"] = "started"
  /\ IF rec.status = "stored" /\ rec.key # NoKey
       THEN /\ run' = [run EXCEPT !["transcribe"] = "read"]
            /\ tKey' = rec.key
            /\ UNCHANGED <<job, tAudio, aEdition>>
       ELSE EndFailed("transcribe")
  /\ missed' = missed \ {"transcribe"}
  /\ UNCHANGED <<uploadVars, blob, rec, text, insight, purge, reprocesses, faults>>

\* storage.get: a missing file is NotFound.
TranscribeFetch ==
  /\ run["transcribe"] = "read"
  /\ IF blob[tKey] # NoAudio
       THEN /\ run' = [run EXCEPT !["transcribe"] = "fetched"]
            /\ tAudio' = blob[tKey]
            /\ UNCHANGED <<job, tKey, aEdition>>
       ELSE EndFailed("transcribe")
  /\ UNCHANGED <<uploadVars, blob, rec, text, insight, missed, purge, reprocesses, faults>>

\* The provider has answered: the transcript and its segments are replaced and
\* stage 2 is enqueued in the same transaction.
TranscribePersist ==
  /\ run["transcribe"] = "fetched"
  /\ \E blank \in BOOLEAN :
       text' = [edition |-> text.edition + 1, audio |-> tAudio, blank |-> blank]
  /\ Enqueue("analyze")
  /\ run' = [run EXCEPT !["transcribe"] = "persisted"]
  /\ UNCHANGED <<uploadVars, blob, rec, insight, tKey, tAudio, aEdition, purge,
                 reprocesses, faults>>

\* run_analysis reads the transcript with its segments.
AnalyzeRead ==
  /\ run["analyze"] = "started"
  /\ IF text.edition # 0 /\ ~text.blank
       THEN /\ run' = [run EXCEPT !["analyze"] = "read"]
            /\ aEdition' = text.edition
            /\ UNCHANGED <<job, tKey, tAudio>>
       ELSE EndFailed("analyze")
  /\ missed' = missed \ {"analyze"}
  /\ UNCHANGED <<uploadVars, blob, rec, text, insight, purge, reprocesses, faults>>

\* The provider has answered: analysis, action items, lead and the sentiment
\* of the segments are written.
AnalyzePersist ==
  /\ run["analyze"] = "read"
  /\ insight' = aEdition
  /\ run' = [run EXCEPT !["analyze"] = "persisted"]
  /\ UNCHANGED <<uploadVars, blob, rec, text, jobVars, tKey, tAudio, aEdition, purge,
                 reprocesses, faults>>

\* If the segments were replaced in the meantime, an update of one that is gone
\* fails the flush.
AnalyzeSegmentsGone ==
  /\ run["analyze"] = "read"
  /\ aEdition # text.edition
  /\ EndFailed("analyze")
  /\ UNCHANGED <<uploadVars, blob, rec, text, insight, missed, purge, reprocesses, faults>>

Succeed(s) ==
  /\ run[s] = "persisted"
  /\ job' = [job EXCEPT ![s] = "succeeded"]
  /\ run' = [run EXCEPT ![s] = "none"]
  /\ UNCHANGED <<uploadVars, blob, rec, text, insight, missed, tKey, tAudio,
                 aEdition, purge, reprocesses, faults>>

\* A provider, the database or the storage fails the run, the write of its
\* outcome fails, or its process dies: the row is none the wiser.
RunLost(s) ==
  /\ run[s] # "none"
  /\ Fault
  /\ EndFailed(s)
  /\ UNCHANGED <<uploadVars, blob, rec, text, insight, missed, purge, reprocesses>>

\* queue.reclaim_stale, once the lock has expired
Orphaned(s) == job[s] = "running" /\ run[s] = "none"

Reclaim(s) ==
  /\ Orphaned(s)
  /\ job' = [job EXCEPT ![s] = "queued"]
  /\ UNCHANGED <<uploadVars, blob, rec, text, insight, missed, runVars, purge,
                 reprocesses, faults>>

-----------------------------------------------------------------------------
(* Retention *)

NoPurge == [at |-> "idle", seen |-> NoRecording]

\* purge_after passes.
Expire ==
  /\ rec.expiry = "later"
  /\ rec' = [rec EXCEPT !.expiry = "passed"]
  /\ UNCHANGED <<uploadVars, blob, text, insight, jobVars, runVars, purge, reprocesses, faults>>

ExpiresOneDay == rec.status = "stored" /\ rec.expiry # "never"   \* variant
Expired == rec.status = "stored" /\ rec.expiry = "passed"

PurgeSelect ==
  /\ purge.at = "idle"
  /\ MayBegin
  /\ Expired
  /\ purge' = [at |-> "selected", seen |-> rec]
  /\ UNCHANGED <<uploadVars, blob, rec, text, insight, jobVars, runVars, reprocesses, faults>>

PurgeDelete ==
  /\ purge.at = "selected"
  /\ blob' = [blob EXCEPT ![purge.seen.key] = NoAudio]
  /\ purge' = [purge EXCEPT !.at = "deleted"]
  /\ UNCHANGED <<uploadVars, rec, text, insight, jobVars, runVars, reprocesses, faults>>

\* A row whose delete fails is skipped.
SkippedAsDeleted == [purge EXCEPT !.at = "deleted"]      \* variant: no `continue`
Skipped == NoPurge

PurgeDeleteFails ==
  /\ purge.at = "selected"
  /\ Fault
  /\ purge' = Skipped
  /\ UNCHANGED <<uploadVars, blob, rec, text, insight, jobVars, runVars, reprocesses>>

PurgedKeepingKey == [purge.seen EXCEPT !.status = "purged"]      \* variant
Purged == [purge.seen EXCEPT !.status = "purged", !.key = NoKey]

PurgeCommit ==
  /\ purge.at = "deleted"
  /\ rec' = Flush(purge.seen, Purged, rec)
  /\ purge' = NoPurge
  /\ UNCHANGED <<uploadVars, blob, text, insight, jobVars, runVars, reprocesses, faults>>

\* The worker dies, or the one commit for the whole batch fails.
PurgeLost ==
  /\ purge.at # "idle"
  /\ Fault
  /\ purge' = NoPurge
  /\ UNCHANGED <<uploadVars, blob, rec, text, insight, jobVars, runVars, reprocesses>>

-----------------------------------------------------------------------------

Init ==
  /\ upload = [u \in Uploads |-> "idle"]
  /\ seen = [u \in Uploads |-> NoRecording]
  /\ blob = [k \in Keys |-> NoAudio]
  /\ unaccepted = {}
  /\ rec = NoRecording
  /\ text = NoText
  /\ insight = 0
  /\ job = [s \in Stages |-> "absent"]
  /\ run = [s \in Stages |-> "none"]
  /\ tKey = NoKey
  /\ tAudio = NoAudio
  /\ aEdition = 0
  /\ purge = NoPurge
  /\ missed = {}
  /\ reprocesses = 0
  /\ faults = 0

UploadStep(u) == UploadPut(u) \/ UploadRead(u) \/ UploadCommit(u) \/ UploadAbort(u)

StageStep ==
  \/ TranscribeRead \/ TranscribeFetch \/ TranscribePersist
  \/ AnalyzeRead \/ AnalyzePersist \/ AnalyzeSegmentsGone

JobStep(s) ==
  \/ Claim(s) \/ Succeed(s) \/ RunLost(s) \/ Reclaim(s) \/ Reprocess(s)

PurgeStep ==
  \/ Expire \/ PurgeSelect \/ PurgeDelete \/ PurgeDeleteFails \/ PurgeCommit \/ PurgeLost

Next ==
  \/ \E u \in Uploads : UploadStep(u)
  \/ StageStep
  \/ \E s \in Stages : JobStep(s)
  \/ PurgeStep

Spec == Init /\ [][Next]_vars

\* Workers keep polling, so queued jobs are claimed and expired locks taken
\* back; a run goes on until it ends.  Nothing makes a run succeed.
Fairness ==
  /\ WF_vars(TranscribeRead) /\ WF_vars(TranscribeFetch) /\ WF_vars(TranscribePersist)
  /\ WF_vars(AnalyzeRead) /\ WF_vars(AnalyzePersist)
  /\ \A s \in Stages : WF_vars(Claim(s)) /\ WF_vars(Succeed(s)) /\ WF_vars(Reclaim(s))

FairSpec == Spec /\ Fairness
=============================================================================
