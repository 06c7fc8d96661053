---------------------------- MODULE PipelineProps ----------------------------
(* What the processing of a call is relied on for, stated over Pipeline. *)
EXTENDS Pipeline

Recordings ==
  [status : {"absent", "stored", "purged"}, key : Keys \cup {NoKey},
   audio : Uploads \cup {NoAudio}, expiry : {"never", "later", "passed"}]

\* Every variable holds a value of the shape the code gives it; a row names a
\* storage key exactly while it is STORED.
TypeOK ==
  /\ upload \in [Uploads -> {"idle", "put", "read", "done", "aborted"}]
  /\ seen \in [Uploads -> Recordings]
  /\ blob \in [Keys -> Uploads \cup {NoAudio}]
  /\ unaccepted \subseteq Uploads
  /\ rec \in Recordings
  /\ rec.key # NoKey <=> rec.status = "stored"
  /\ text \in [edition : Nat, audio : Uploads \cup {NoAudio}, blank : BOOLEAN]
  /\ insight \in Nat
  /\ job \in [Stages -> {"absent", "queued", "running", "succeeded"}]
  /\ run \in [Stages -> {"none", "started", "read", "fetched", "persisted"}]
  /\ tKey \in Keys \cup {NoKey}
  /\ tAudio \in Uploads \cup {NoAudio}
  /\ aEdition \in Nat
  /\ purge \in [at : {"idle", "selected", "deleted"}, seen : Recordings]
  /\ missed \subseteq Stages
  /\ reprocesses \in Nat
  /\ faults \in Nat

\* The audio a reader of the row may find: what was accepted last or, since a
\* file is stored before the request that brought it is recorded, the audio of
\* a request that came after it and has not been accepted.
RowAudio == {rec.audio} \cup unaccepted

\* Nothing is between its first write and its commit.
Quiet == purge.at = "idle" /\ \A u \in Uploads : ~Uploading(u)

\* Once an upload is accepted there is audio under the key its row names until
\* its own retention is over, and it is the audio of that upload or of a request
\* that came after it: no earlier purge, no failed request and no worker takes
\* it away or brings back older audio.  A later request that fails between the
\* file and the row may have replaced it (StoredAudioAccepted)
\* (upload_recording, purge_expired_recordings).
AcceptedAudioKept ==
  Quiet /\ rec.status # "absent" /\ rec.expiry # "passed"
    => rec.status = "stored" /\ blob[rec.key] \in RowAudio \ {NoAudio}

\* "Re-uploading the same call replaces the stored audio and re-runs processing"
\* (upload_recording): once no request is under way, the audio stored for a row is
\* that of the upload whose size, checksum and retention the row has, and for which
\* transcription was enqueued.  It fails when a request stores its file and aborts.
StoredAudioAccepted ==
  Quiet /\ rec.status = "stored" => blob[rec.key] \in {rec.audio, NoAudio}

\* Retention is effective: a recording marked PURGED has left no audio behind
\* in the storage, unless a request put some there and then failed
\* (purge_expired_recordings).
PurgedAudioGone ==
  Quiet /\ rec.status = "purged" /\ (\A u \in Uploads : upload[u] # "aborted")
    => \A k \in Keys : blob[k] = NoAudio

\* A transcription that succeeded is of the audio that was last accepted, or of
\* a request that stored its file after that and was not accepted - never of
\* audio an accepted upload has replaced, and never of what a request left that
\* failed before it, whatever was uploaded, failed or crashed while it ran -
\* unless an upload found the job RUNNING and no run has read the row since
\* (run_transcription, queue.enqueue).
TranscriptCurrent ==
  job["transcribe"] = "succeeded" /\ "transcribe" \notin missed
    => text.audio \in RowAudio

\* An analysis that succeeded is of the transcript the call has, although the
\* transcript may be replaced while the insight model runs - unless stage 1
\* found the job RUNNING and no run has read the transcript since
\* (run_analysis, _persist_transcript).
InsightCurrent ==
  job["analyze"] = "succeeded" /\ "analyze" \notin missed
    => insight = text.edition

\* The jobs of the two stages keep to the lifecycle the queue implements.
Lifecycle == INSTANCE JobLifecycle WITH
  Jobs <- Stages, Passes <- {"worker"}, phase <- job,
  holder <- [s \in Stages |-> IF run[s] = "none" THEN {} ELSE {"worker"}]

JobsKeepLifecycle == Lifecycle!Spec

\* After an accepted upload, the call comes to have a transcript of the audio
\* the row stands for (RowAudio) and an analysis of that transcript, although
\* runs fail, processes die and further uploads arrive, finitely often, and no
\* failure is ever written to the row.  Exceptions: nothing was said, in which
\* case stage 2 fails for ever; the retention of the audio is over; an enqueue
\* was swallowed by a RUNNING job (upload_recording, run_transcription,
\* run_analysis, reclaim_stale).
UploadsAnalyzed ==
  \A u \in Uploads :
    upload[u] = "done" ~>
      \/ /\ text.edition # 0 /\ text.audio \in RowAudio
         /\ text.blank \/ insight = text.edition
      \/ rec.expiry = "passed"
      \/ missed # {}
=============================================================================
