--------------------------- MODULE PipelineProofs ---------------------------
(***************************************************************************)
(* Theorems about Pipeline for any number of uploads, reprocess requests   *)
(* and faults.  They name what they rest on: that requests and the purge   *)
(* take turns, and that the uploads of a call share its key.               *)
(***************************************************************************)
EXTENDS PipelineProps, TLAPS

TakeTurns == ~MayOverlap

OneKey == \A u, v \in Uploads : KeyOf[u] = KeyOf[v]

-----------------------------------------------------------------------------
(* Types and turns *)

RowShapes ==
  /\ upload \in [Uploads -> {"idle", "put", "read", "done", "aborted"}]
  /\ seen \in [Uploads -> Recordings]
  /\ blob \in [Keys -> Uploads \cup {NoAudio}]
  /\ unaccepted \subseteq Uploads
  /\ rec \in Recordings
  /\ purge \in [at : {"idle", "selected", "deleted"}, seen : Recordings]
  /\ reprocesses \in Nat
  /\ faults \in Nat

ProductShapes ==
  /\ text \in [edition : Nat, audio : Uploads \cup {NoAudio}, blank : BOOLEAN]
  /\ insight \in Nat

JobShapes ==
  /\ job \in [Stages -> {"absent", "queued", "running", "succeeded"}]
  /\ missed \subseteq Stages

RunShapes ==
  /\ run \in [Stages -> {"none", "started", "read", "fetched", "persisted"}]
  /\ tKey \in Keys \cup {NoKey}
  /\ run["transcribe"] = "read" => tKey \in Keys
  /\ tAudio \in Uploads \cup {NoAudio}
  /\ aEdition \in Nat

Shapes == RowShapes /\ ProductShapes /\ JobShapes /\ RunShapes

\* Requests and the purge take turns, so what they read is still so when they write.
Turns ==
  /\ rec.key # NoKey <=> rec.status = "stored"
  /\ \A u, v \in Uploads : Uploading(u) /\ Uploading(v) => u = v
  /\ \A u \in Uploads : Uploading(u) => purge.at = "idle" /\ blob[KeyOf[u]] = u
  /\ \A u \in Uploads : upload[u] = "read" =>
       seen[u].status = rec.status /\ seen[u].key = rec.key /\ seen[u].audio = rec.audio
  /\ purge.at # "idle" => purge.seen = rec /\ rec.status = "stored" /\ rec.expiry = "passed"

\* Only a purge takes audio away, and only audio whose retention is over.
AudioKept ==
  /\ rec.status = "stored" => rec.audio # NoAudio
  /\ rec.status = "stored" /\ rec.expiry # "passed" => blob[rec.key] \in RowAudio \ {NoAudio}
  /\ rec.status = "purged" => rec.expiry = "passed"

PipelineInv == Shapes /\ Turns /\ AudioKept

LEMMA InitPipeline == Init => PipelineInv
<1> SUFFICES ASSUME Init PROVE PipelineInv
  OBVIOUS
<1>1. NoRecording \in Recordings
  BY DEF NoRecording, Recordings
<1>2. NoText \in [edition : Nat, audio : Uploads \cup {NoAudio}, blank : BOOLEAN]
  BY DEF NoText
<1>3. Shapes
  BY <1>1, <1>2 DEF Init, Shapes, RowShapes, ProductShapes, JobShapes, RunShapes, NoPurge, Stages
<1>4. Turns /\ AudioKept
  BY DEF Init, Turns, AudioKept, RowAudio, NoPurge, Uploading, NoRecording
<1> QED BY <1>3, <1>4 DEF PipelineInv

\* The workers touch neither recording, requests nor purge.
AudioRests == UNCHANGED <<upload, seen, unaccepted, blob, unaccepted, rec, purge>>

LEMMA EnqueueShape ==
  ASSUME JobShapes, NEW s \in Stages, Enqueue(s)
  PROVE  JobShapes'
BY DEF JobShapes, Enqueue

LEMMA EndShape ==
  ASSUME JobShapes, RunShapes, NEW s \in Stages, EndFailed(s)
  PROVE  /\ job' \in [Stages -> {"absent", "queued", "running", "succeeded"}]
         /\ RunShapes'
BY DEF JobShapes, RunShapes, EndFailed

LEMMA StageShapes ==
  ASSUME Shapes, StageStep \/ \E s \in Stages : JobStep(s)
  PROVE  Shapes' /\ AudioRests
<1> USE DEF Shapes
<1>0. "transcribe" \in Stages /\ "analyze" \in Stages
  BY DEF Stages
<1>1. AudioRests
  BY DEF StageStep, JobStep, TranscribeRead, TranscribeFetch, TranscribePersist, AnalyzeRead, AnalyzePersist,
         AnalyzeSegmentsGone, Claim, Succeed, RunLost, Reclaim, Reprocess, uploadVars, AudioRests
<1>2. RowShapes'
  <2>1. ASSUME StageStep PROVE UNCHANGED <<reprocesses, faults>>
    BY <2>1 DEF StageStep, TranscribeRead, TranscribeFetch, TranscribePersist, AnalyzeRead, AnalyzePersist,
                AnalyzeSegmentsGone
  <2>2. ASSUME NEW s \in Stages, JobStep(s) PROVE reprocesses' \in Nat /\ faults' \in Nat
    <3>1. CASE Claim(s) \/ Succeed(s) \/ Reclaim(s)
      BY <3>1 DEF Claim, Succeed, Reclaim, RowShapes
    <3>2. CASE RunLost(s)
      BY <3>2 DEF RunLost, RowShapes, Fault
    <3>3. CASE Reprocess(s)
      BY <3>3 DEF Reprocess, RowShapes
    <3> QED BY <2>2, <3>1, <3>2, <3>3 DEF JobStep
  <2> QED BY <1>1, <2>1, <2>2 DEF AudioRests, RowShapes
<1>3. CASE TranscribeRead
  <2>1. UNCHANGED <<text, insight>> /\ missed' \subseteq missed
    BY <1>3 DEF TranscribeRead
  <2>2. CASE EndFailed("transcribe")
    BY <1>0, <1>1, <1>2, <2>1, <2>2, EndShape DEF ProductShapes, JobShapes
  <2>3. CASE /\ run' = [run EXCEPT !["transcribe"] = "read"] /\ tKey' = rec.key
             /\ UNCHANGED <<job, tAudio, aEdition>> /\ rec.key # NoKey
    <3>1. rec.key \in Keys
      BY <2>3 DEF RowShapes, Recordings
    <3> QED BY <1>1, <1>2, <2>1, <2>3, <3>1 DEF ProductShapes, JobShapes, RunShapes
  <2> QED BY <1>3, <2>2, <2>3 DEF TranscribeRead
<1>4. CASE TranscribeFetch
  <2>1. UNCHANGED <<text, insight, missed>>
    BY <1>4 DEF TranscribeFetch
  <2>2. CASE EndFailed("transcribe")
    BY <1>0, <1>1, <1>2, <2>1, <2>2, EndShape DEF ProductShapes, JobShapes
  <2>3. CASE /\ blob[tKey] # NoAudio /\ run' = [run EXCEPT !["transcribe"] = "fetched"]
             /\ tAudio' = blob[tKey] /\ UNCHANGED <<job, tKey, aEdition>>
    BY <1>0, <1>1, <1>2, <1>4, <2>1, <2>3 DEF ProductShapes, JobShapes, RunShapes, RowShapes, TranscribeFetch
  <2> QED BY <1>4, <2>2, <2>3 DEF TranscribeFetch
<1>5. CASE TranscribePersist
  <2>1. ProductShapes'
    BY <1>5 DEF TranscribePersist, ProductShapes, RunShapes
  <2>2. JobShapes'
    BY <1>0, <1>5, EnqueueShape DEF TranscribePersist
  <2>3. RunShapes'
    BY <1>0, <1>5 DEF TranscribePersist, RunShapes
  <2> QED BY <1>1, <1>2, <2>1, <2>2, <2>3
<1>6. CASE AnalyzeRead
  <2>1. UNCHANGED <<text, insight>> /\ missed' \subseteq missed
    BY <1>6 DEF AnalyzeRead
  <2>2. CASE EndFailed("analyze")
    BY <1>0, <1>1, <1>2, <2>1, <2>2, EndShape DEF ProductShapes, JobShapes
  <2>3. CASE /\ run' = [run EXCEPT !["analyze"] = "read"] /\ aEdition' = text.edition
             /\ UNCHANGED <<job, tKey, tAudio>>
    BY <1>0, <1>1, <1>2, <2>1, <2>3 DEF ProductShapes, JobShapes, RunShapes
  <2> QED BY <1>6, <2>2, <2>3 DEF AnalyzeRead
<1>7. CASE AnalyzePersist
  BY <1>0, <1>1, <1>2, <1>7 DEF AnalyzePersist, ProductShapes, JobShapes, RunShapes, jobVars
<1>8. CASE AnalyzeSegmentsGone
  <2>1. UNCHANGED <<text, insight, missed>> /\ EndFailed("analyze")
    BY <1>8 DEF AnalyzeSegmentsGone
  <2> QED BY <1>0, <1>1, <1>2, <2>1, EndShape DEF ProductShapes, JobShapes
<1>9. ASSUME NEW s \in Stages, Claim(s) \/ Succeed(s) \/ Reclaim(s) \/ RunLost(s) PROVE Shapes'
  <2>1. ProductShapes'
    BY <1>9 DEF Claim, Succeed, Reclaim, RunLost, ProductShapes
  <2>2. JobShapes' /\ RunShapes'
    BY <1>0, <1>9 DEF Claim, Succeed, Reclaim, RunLost, EndFailed, JobShapes, RunShapes, jobVars, runVars
  <2> QED BY <1>1, <1>2, <2>1, <2>2
<1>10. ASSUME NEW s \in Stages, Reprocess(s) PROVE Shapes'
  <2>1. UNCHANGED <<text, insight, runVars>> /\ Enqueue(s)
    BY <1>10 DEF Reprocess
  <2> QED BY <1>1, <1>2, <2>1, EnqueueShape DEF ProductShapes, RunShapes, runVars
<1> QED
  BY <1>1, <1>3, <1>4, <1>5, <1>6, <1>7, <1>8, <1>9, <1>10 DEF StageStep, JobStep

LEMMA StagePipeline ==
  ASSUME PipelineInv, StageStep \/ \E s \in Stages : JobStep(s)
  PROVE  PipelineInv'
<1>1. Shapes' /\ AudioRests
  BY StageShapes DEF PipelineInv
<1> QED BY <1>1 DEF PipelineInv, Turns, AudioKept, RowAudio, AudioRests, Uploading

LEMMA CommitWrites ==
  ASSUME PipelineInv, NEW u \in Uploads, UploadCommit(u)
  PROVE  /\ UNCHANGED <<blob, text, insight, run, tKey, tAudio, aEdition, purge, reprocesses, faults>>
         /\ seen' = [seen EXCEPT ![u] = NoRecording]
         /\ \/ upload' = [upload EXCEPT ![u] = "aborted"] /\ UNCHANGED <<rec, unaccepted, job, missed>>
            \/ /\ upload' = [upload EXCEPT ![u] = "done"] /\ Enqueue("transcribe") /\ unaccepted' = {}
               /\ rec'.status = "stored" /\ rec'.key = KeyOf[u] /\ rec'.audio = u
               /\ rec'.expiry \in {"never", "later"} /\ rec' \in Recordings
<1>1. /\ UNCHANGED <<blob, text, insight, run, tKey, tAudio, aEdition, purge, reprocesses, faults>>
      /\ seen' = [seen EXCEPT ![u] = NoRecording]
  BY DEF UploadCommit, runVars
<1>2. CASE upload' = [upload EXCEPT ![u] = "aborted"] /\ UNCHANGED <<rec, unaccepted, jobVars>>
  BY <1>1, <1>2 DEF jobVars
<1>3. ASSUME NEW expiry \in {"never", "later"},
             rec' = [Flush(seen[u], UploadedRow(u, expiry), rec) EXCEPT !.expiry = expiry]
      PROVE  /\ rec'.status = "stored" /\ rec'.key = KeyOf[u] /\ rec'.audio = u
             /\ rec'.expiry = expiry /\ rec' \in Recordings
  <2>1. seen[u].status = rec.status /\ seen[u].key = rec.key /\ seen[u].audio = rec.audio
    BY DEF UploadCommit, PipelineInv, Turns
  <2>2. KeyOf[u] \in Keys
    BY PipelineAssumption
  <2>3. rec' = [status |-> "stored", key |-> KeyOf[u], audio |-> u, expiry |-> expiry]
    BY <1>3, <2>1 DEF Flush, UploadedRow, Column
  <2> QED BY <2>2, <2>3 DEF Recordings
<1>4. CASE /\ upload' = [upload EXCEPT ![u] = "done"] /\ Enqueue("transcribe") /\ unaccepted' = {}
           /\ \E expiry \in {"never", "later"} :
                rec' = [Flush(seen[u], UploadedRow(u, expiry), rec) EXCEPT !.expiry = expiry]
  BY <1>1, <1>3, <1>4
<1> QED BY <1>2, <1>4 DEF UploadCommit

LEMMA UploadPipeline ==
  ASSUME TakeTurns, PipelineInv, NEW u \in Uploads, UploadStep(u)
  PROVE  PipelineInv'
<1>0. NoRecording \in Recordings /\ KeyOf[u] \in Keys /\ u # NoAudio
  BY PipelineAssumption DEF NoRecording, Recordings
<1>1. CASE UploadPut(u)
  <2>1. purge.at = "idle" /\ \A v \in Uploads : ~Uploading(v)
    BY <1>1 DEF UploadPut, MayBegin, TakeTurns
  <2>2. /\ blob' = [blob EXCEPT ![KeyOf[u]] = u] /\ upload' = [upload EXCEPT ![u] = "put"]
        /\ unaccepted' = unaccepted \cup {u}
        /\ UNCHANGED <<seen, rec, text, insight, job, missed, run, tKey, tAudio, aEdition, purge,
                       reprocesses, faults>>
    BY <1>1 DEF UploadPut, jobVars, runVars
  <2>3. Shapes'
    BY <1>0, <2>2 DEF PipelineInv, Shapes, RowShapes, ProductShapes, JobShapes, RunShapes
  <2>4. \A v \in Uploads : Uploading(v)' => v = u
    BY <2>1, <2>2 DEF PipelineInv, Shapes, RowShapes, ProductShapes, JobShapes, RunShapes, Uploading
  <2>5. /\ blob'[KeyOf[u]] = u
        /\ \A k \in Keys : blob[k] \in RowAudio \ {NoAudio} => blob'[k] \in RowAudio' \ {NoAudio}
    BY <1>0, <2>2 DEF PipelineInv, Shapes, RowShapes, RowAudio
  <2>6. Turns'
    BY <2>1, <2>2, <2>4, <2>5 DEF PipelineInv, Turns, Shapes, RowShapes, ProductShapes, JobShapes, RunShapes, Uploading
  <2>7. AudioKept'
    BY <2>2, <2>5 DEF PipelineInv, AudioKept, Turns, Shapes, RowShapes, ProductShapes, JobShapes, RunShapes, Recordings
  <2> QED BY <2>3, <2>6, <2>7 DEF PipelineInv
<1>2. CASE UploadRead(u)
  <2>1. /\ seen' = [seen EXCEPT ![u] = rec] /\ upload' = [upload EXCEPT ![u] = "read"] /\ upload[u] = "put"
        /\ UNCHANGED <<blob, unaccepted, rec, text, insight, job, missed, run, tKey, tAudio, aEdition, purge,
                       reprocesses, faults>>
    BY <1>2 DEF UploadRead, jobVars, runVars
  <2>2. Shapes'
    BY <2>1 DEF PipelineInv, Shapes, RowShapes, ProductShapes, JobShapes, RunShapes
  <2>3. Turns' /\ AudioKept'
    BY <2>1 DEF PipelineInv, Turns, AudioKept, RowAudio, Shapes, RowShapes, ProductShapes, JobShapes, RunShapes, Uploading
  <2> QED BY <2>2, <2>3 DEF PipelineInv
<1>3. CASE UploadCommit(u)
  <2>1. Shapes'
    <3>1. "transcribe" \in Stages
      BY DEF Stages
    <3>2. JobShapes'
      BY <1>3, <3>1, CommitWrites, EnqueueShape DEF PipelineInv, Shapes, JobShapes
    <3>3. RowShapes'
      BY <1>0, <1>3, CommitWrites DEF PipelineInv, Shapes, RowShapes
    <3> QED BY <1>3, <3>2, <3>3, CommitWrites DEF PipelineInv, Shapes, ProductShapes, RunShapes
  <2>2. upload[u] = "read" /\ purge.at = "idle" /\ blob[KeyOf[u]] = u
    BY <1>3 DEF UploadCommit, PipelineInv, Turns, Uploading
  <2>3. \A v \in Uploads : ~Uploading(v)'
    BY <1>3, <2>2, CommitWrites DEF PipelineInv, Turns, Shapes, RowShapes, ProductShapes, JobShapes, RunShapes, Uploading
  <2>4. Turns'
    <3>1. rec'.key # NoKey <=> rec'.status = "stored"
      BY <1>0, <1>3, CommitWrites, PipelineAssumption DEF PipelineInv, Turns
    <3>2. purge' = purge
      BY <1>3, CommitWrites
    <3> QED BY <2>2, <2>3, <3>1, <3>2 DEF Turns, Uploading
  <2>5. AudioKept'
    BY <1>0, <1>3, <2>2, CommitWrites DEF PipelineInv, AudioKept, RowAudio
  <2> QED BY <2>1, <2>4, <2>5 DEF PipelineInv
<1>4. CASE UploadAbort(u)
  <2>1. /\ upload' = [upload EXCEPT ![u] = "aborted"] /\ seen' = [seen EXCEPT ![u] = NoRecording]
        /\ UNCHANGED <<blob, unaccepted, rec, text, insight, job, missed, run, tKey, tAudio, aEdition, purge,
                       reprocesses>> /\ faults' = faults + 1
    BY <1>4 DEF UploadAbort, Fault, jobVars, runVars
  <2>2. Shapes'
    BY <1>0, <2>1 DEF PipelineInv, Shapes, RowShapes, ProductShapes, JobShapes, RunShapes
  <2>3. Turns' /\ AudioKept'
    BY <2>1 DEF PipelineInv, Turns, AudioKept, RowAudio, Shapes, RowShapes, ProductShapes, JobShapes, RunShapes, Uploading
  <2> QED BY <2>2, <2>3 DEF PipelineInv
<1> QED BY <1>1, <1>2, <1>3, <1>4 DEF UploadStep

LEMMA PurgePipeline ==
  ASSUME TakeTurns, PipelineInv, PurgeStep
  PROVE  PipelineInv'
<1>0. NoPurge \in [at : {"idle", "selected", "deleted"}, seen : Recordings]
  BY DEF NoPurge, NoRecording, Recordings
<1>1. CASE Expire
  <2>1. /\ rec.expiry = "later" /\ rec' = [rec EXCEPT !.expiry = "passed"]
        /\ UNCHANGED <<upload, seen, unaccepted, blob, text, insight, job, missed, run, tKey, tAudio, aEdition, purge,
                       reprocesses, faults>>
    BY <1>1 DEF Expire, uploadVars, jobVars, runVars
  <2>2. /\ rec' \in Recordings /\ rec'.status = rec.status /\ rec'.key = rec.key /\ rec'.audio = rec.audio
        /\ rec'.expiry = "passed"
    BY <2>1 DEF PipelineInv, Shapes, RowShapes, ProductShapes, JobShapes, RunShapes, Recordings
  <2>3. Shapes' /\ Turns' /\ AudioKept'
    BY <2>1, <2>2 DEF PipelineInv, Shapes, RowShapes, ProductShapes, JobShapes, RunShapes, Turns, AudioKept, RowAudio, Uploading
  <2> QED BY <2>3 DEF PipelineInv
<1>2. CASE PurgeSelect
  <2>1. \A u \in Uploads : ~Uploading(u)
    BY <1>2 DEF PurgeSelect, MayBegin, TakeTurns
  <2>2. /\ purge' = [at |-> "selected", seen |-> rec] /\ rec.status = "stored" /\ rec.expiry = "passed"
        /\ UNCHANGED <<upload, seen, unaccepted, blob, rec, text, insight, job, missed, run, tKey, tAudio, aEdition,
                       reprocesses, faults>>
    BY <1>2 DEF PurgeSelect, Expired, uploadVars, jobVars, runVars
  <2>3. Shapes' /\ Turns' /\ AudioKept'
    BY <2>1, <2>2 DEF PipelineInv, Shapes, RowShapes, ProductShapes, JobShapes, RunShapes, Turns, AudioKept, RowAudio, Uploading
  <2> QED BY <2>3 DEF PipelineInv
<1>3. CASE PurgeDelete
  <2>1. /\ purge.at = "selected" /\ blob' = [blob EXCEPT ![purge.seen.key] = NoAudio]
        /\ purge' = [purge EXCEPT !.at = "deleted"]
        /\ UNCHANGED <<upload, seen, unaccepted, rec, text, insight, job, missed, run, tKey, tAudio, aEdition,
                       reprocesses, faults>>
    BY <1>3 DEF PurgeDelete, uploadVars, jobVars, runVars
  <2>2. /\ purge.seen = rec /\ rec.status = "stored" /\ rec.expiry = "passed"
        /\ \A u \in Uploads : ~Uploading(u)
    BY <2>1 DEF PipelineInv, Turns
  <2>3. purge'.at = "deleted" /\ purge'.seen = purge.seen
    BY <2>1 DEF PipelineInv, Shapes, RowShapes, ProductShapes, JobShapes, RunShapes
  <2>4. Shapes'
    BY <2>1, <2>2 DEF PipelineInv, Shapes, RowShapes, ProductShapes, JobShapes, RunShapes
  <2>5. Turns'
    BY <2>1, <2>2, <2>3 DEF PipelineInv, Turns, Uploading
  <2>6. AudioKept'
    BY <2>1, <2>2 DEF PipelineInv, AudioKept, RowAudio
  <2> QED BY <2>4, <2>5, <2>6 DEF PipelineInv
<1>4. CASE PurgeCommit
  <2>1. /\ purge.at = "deleted" /\ rec' = Flush(purge.seen, Purged, rec) /\ purge' = NoPurge
        /\ UNCHANGED <<upload, seen, unaccepted, blob, text, insight, job, missed, run, tKey, tAudio, aEdition,
                       reprocesses, faults>>
    BY <1>4 DEF PurgeCommit, uploadVars, jobVars, runVars
  <2>2. /\ purge.seen = rec /\ rec.status = "stored" /\ rec.expiry = "passed"
        /\ \A u \in Uploads : ~Uploading(u)
    BY <2>1 DEF PipelineInv, Turns
  <2>3. rec' = [status |-> "purged", key |-> NoKey, audio |-> rec.audio, expiry |-> "passed"]
    BY <2>1, <2>2 DEF Flush, Column, Purged, PipelineInv, Shapes, RowShapes, ProductShapes, JobShapes, RunShapes, Recordings
  <2>4. Shapes'
    BY <1>0, <2>1, <2>3 DEF PipelineInv, Shapes, RowShapes, ProductShapes, JobShapes, RunShapes, Recordings
  <2>5. Turns' /\ AudioKept'
    BY <2>1, <2>2, <2>3 DEF Turns, AudioKept, RowAudio, Uploading, NoPurge
  <2> QED BY <2>4, <2>5 DEF PipelineInv
<1>5. CASE PurgeDeleteFails \/ PurgeLost
  <2>1. /\ purge' = NoPurge /\ faults' = faults + 1
        /\ UNCHANGED <<upload, seen, unaccepted, blob, rec, text, insight, job, missed, run, tKey, tAudio, aEdition,
                       reprocesses>>
    BY <1>5 DEF PurgeDeleteFails, PurgeLost, Fault, Skipped, uploadVars, jobVars, runVars
  <2>2. Shapes'
    BY <1>0, <2>1 DEF PipelineInv, Shapes, RowShapes, ProductShapes, JobShapes, RunShapes
  <2>3. Turns' /\ AudioKept'
    BY <2>1 DEF PipelineInv, Turns, AudioKept, RowAudio, Uploading, NoPurge
  <2> QED BY <2>2, <2>3 DEF PipelineInv
<1> QED BY <1>1, <1>2, <1>3, <1>4, <1>5 DEF PurgeStep

LEMMA NextPipeline == TakeTurns /\ PipelineInv /\ [Next]_vars => PipelineInv'
<1> SUFFICES ASSUME TakeTurns, PipelineInv, [Next]_vars PROVE PipelineInv'
  OBVIOUS
<1>1. CASE UNCHANGED vars
  BY <1>1 DEF vars, uploadVars, jobVars, runVars, PipelineInv, Shapes, RowShapes, ProductShapes, JobShapes, RunShapes, Turns, AudioKept, RowAudio, Uploading
<1> QED BY <1>1, StagePipeline, UploadPipeline, PurgePipeline DEF Next

LEMMA PipelineAlways == TakeTurns => (Spec => []PipelineInv)
<1> SUFFICES ASSUME TakeTurns PROVE Spec => []PipelineInv
  OBVIOUS
<1>1. PipelineInv /\ [Next]_vars => PipelineInv'
  BY NextPipeline
<1> QED BY InitPipeline, <1>1, PTL DEF Spec

\* Requests and purges that take turns leave every variable in shape, and a row
\* names a storage key exactly while it is STORED.
THEOREM PipelineTypeCorrect == TakeTurns => (Spec => []TypeOK)
<1>1. PipelineInv => TypeOK
  BY DEF PipelineInv, Shapes, RowShapes, ProductShapes, JobShapes, RunShapes, Turns, TypeOK
<1> QED BY PipelineAlways, <1>1, PTL

\* Audio that was accepted can be played until its own retention is over, whatever
\* fails, dies or is uploaded in between.
THEOREM AudioIsKept == TakeTurns => (Spec => []AcceptedAudioKept)
<1>1. PipelineInv => AcceptedAudioKept
  BY DEF PipelineInv, Shapes, RowShapes, AudioKept, AcceptedAudioKept, RowAudio, Recordings
<1> QED BY PipelineAlways, <1>1, PTL
-----------------------------------------------------------------------------
(* What the storage holds *)

\* Uploads of one key leave audio under that key only, what lies there is the
\* audio of the row or of a request that came after it, and what an accepted
\* upload left there is the audio of the row.
BlobsOwned ==
  /\ \A k \in Keys : blob[k] # NoAudio =>
       /\ KeyOf[blob[k]] = k /\ upload[blob[k]] # "idle" /\ blob[k] \in RowAudio
       /\ upload[blob[k]] = "done" => rec.status = "stored" /\ rec.audio = blob[k]
  /\ rec.key # NoKey => \E u \in Uploads : rec.key = KeyOf[u]
  /\ purge.at = "deleted" => blob[rec.key] = NoAudio

LEMMA UploadBlobs ==
  ASSUME OneKey, TakeTurns, PipelineInv, BlobsOwned, NEW u \in Uploads, UploadStep(u)
  PROVE  BlobsOwned'
<1>0. /\ KeyOf[u] \in Keys /\ u # NoAudio /\ \A k \in Keys : blob[k] # NoAudio => blob[k] \in Uploads
      /\ \A v \in Uploads : KeyOf[v] = KeyOf[u]
  BY PipelineAssumption DEF PipelineInv, Shapes, RowShapes, OneKey
<1>1. CASE UploadPut(u)
  <2>1. /\ blob' = [blob EXCEPT ![KeyOf[u]] = u] /\ upload' = [upload EXCEPT ![u] = "put"]
        /\ unaccepted' = unaccepted \cup {u} /\ UNCHANGED <<rec, purge>> /\ purge.at = "idle"
    BY <1>1 DEF UploadPut, MayBegin, TakeTurns
  <2>2. ASSUME NEW k \in Keys, blob'[k] # NoAudio PROVE k = KeyOf[u] /\ blob'[k] = u
    BY <1>0, <2>1, <2>2 DEF BlobsOwned, RowAudio, PipelineInv, Shapes, RowShapes
  <2>3. upload'[u] = "put"
    BY <2>1 DEF PipelineInv, Shapes, RowShapes
  <2> QED BY <1>0, <2>1, <2>2, <2>3 DEF BlobsOwned, RowAudio
<1>2. CASE UploadRead(u) \/ UploadAbort(u)
  <2>1. /\ \E to \in {"read", "aborted"} : upload' = [upload EXCEPT ![u] = to]
        /\ UNCHANGED <<blob, unaccepted, rec, purge>>
    BY <1>2 DEF UploadRead, UploadAbort
  <2> QED BY <1>0, <2>1 DEF BlobsOwned, RowAudio, PipelineInv, Shapes, RowShapes
<1>3. CASE UploadCommit(u)
  <2>1. purge.at = "idle" /\ blob[KeyOf[u]] = u
    BY <1>3 DEF UploadCommit, PipelineInv, Turns, Uploading
  <2>2. \A k \in Keys : blob[k] # NoAudio => k = KeyOf[u] /\ blob[k] = u
    BY <1>0, <2>1 DEF BlobsOwned, RowAudio
  <2>3. UNCHANGED <<blob, purge>>
    BY <1>3, CommitWrites
  <2>4. upload'[u] # "idle" /\ (upload'[u] = "done" => rec'.status = "stored" /\ rec'.audio = u)
    BY <1>3, CommitWrites DEF PipelineInv, Shapes, RowShapes
  <2>5. rec'.key # NoKey => \E v \in Uploads : rec'.key = KeyOf[v]
    BY <1>3, CommitWrites DEF BlobsOwned
  <2>6. u \in RowAudio'
    BY <1>0, <1>3, <2>1, CommitWrites DEF BlobsOwned, RowAudio
  <2> QED BY <1>0, <2>1, <2>2, <2>3, <2>4, <2>5, <2>6 DEF BlobsOwned
<1> QED BY <1>1, <1>2, <1>3 DEF UploadStep

LEMMA PurgeBlobs ==
  ASSUME OneKey, TakeTurns, PipelineInv, BlobsOwned, PurgeStep
  PROVE  BlobsOwned'
<1>0. \A k \in Keys : blob[k] # NoAudio => blob[k] \in Uploads
  BY DEF PipelineInv, Shapes, RowShapes
<1>1. CASE Expire
  <2>1. rec' = [rec EXCEPT !.expiry = "passed"] /\ UNCHANGED <<upload, blob, unaccepted, purge>>
    BY <1>1 DEF Expire, uploadVars
  <2>2. rec'.status = rec.status /\ rec'.key = rec.key /\ rec'.audio = rec.audio
    BY <2>1 DEF PipelineInv, Shapes, RowShapes, Recordings
  <2> QED BY <2>1, <2>2 DEF BlobsOwned, RowAudio
<1>2. CASE PurgeSelect \/ PurgeDeleteFails \/ PurgeLost
  <2>1. purge'.at \in {"idle", "selected"} /\ UNCHANGED <<upload, blob, unaccepted, rec>>
    BY <1>2 DEF PurgeSelect, PurgeDeleteFails, PurgeLost, Skipped, NoPurge, uploadVars
  <2> QED BY <2>1 DEF BlobsOwned, RowAudio
<1>3. CASE PurgeDelete
  <2>1. blob' = [blob EXCEPT ![purge.seen.key] = NoAudio] /\ UNCHANGED <<upload, unaccepted, rec>> /\ purge.at = "selected"
    BY <1>3 DEF PurgeDelete, uploadVars
  <2>2. purge.seen = rec /\ rec.key \in Keys
    BY <2>1 DEF PipelineInv, Turns, Shapes, RowShapes, Recordings
  <2>3. blob'[rec.key] = NoAudio /\ \A k \in Keys : blob'[k] # NoAudio => blob'[k] = blob[k]
    BY <2>1, <2>2 DEF PipelineInv, Shapes, RowShapes
  <2> QED BY <2>1, <2>3 DEF BlobsOwned, RowAudio
<1>4. CASE PurgeCommit
  <2>1. purge.at = "deleted" /\ rec' = Flush(purge.seen, Purged, rec) /\ purge' = NoPurge /\ UNCHANGED <<upload, blob, unaccepted>>
    BY <1>4 DEF PurgeCommit, uploadVars
  <2>2. purge.seen = rec /\ rec.key # NoKey /\ blob[rec.key] = NoAudio
    BY <2>1 DEF PipelineInv, Turns, BlobsOwned
  <2>3. \A k \in Keys : blob[k] = NoAudio
    BY <1>0, <2>2 DEF BlobsOwned, RowAudio, OneKey
  <2>4. rec'.key = NoKey
    BY <2>1, <2>2 DEF Flush, Column, Purged, PipelineInv, Shapes, RowShapes, Recordings
  <2> QED BY <2>1, <2>3, <2>4 DEF BlobsOwned, RowAudio, NoPurge
<1> QED BY <1>1, <1>2, <1>3, <1>4 DEF PurgeStep

LEMMA BlobsAlways == OneKey /\ TakeTurns => (Spec => []BlobsOwned)
<1> SUFFICES ASSUME OneKey, TakeTurns PROVE Spec => []BlobsOwned
  OBVIOUS
<1>1. Init => BlobsOwned
  BY DEF Init, BlobsOwned, NoPurge, NoRecording
<1>2. BlobsOwned /\ PipelineInv /\ [Next]_vars => BlobsOwned'
  <2> SUFFICES ASSUME BlobsOwned, PipelineInv, [Next]_vars PROVE BlobsOwned'
    OBVIOUS
  <2>1. CASE UNCHANGED vars
    BY <2>1 DEF vars, uploadVars, BlobsOwned, RowAudio
  <2>2. CASE StageStep \/ \E s \in Stages : JobStep(s)
    BY <2>2, StageShapes DEF PipelineInv, AudioRests, BlobsOwned, RowAudio
  <2> QED BY <2>1, <2>2, UploadBlobs, PurgeBlobs DEF Next
<1>3. Spec => []PipelineInv
  BY PipelineAlways
<1> QED BY <1>1, <1>2, <1>3, PTL DEF Spec

\* A recording marked PURGED has left no audio behind, for uploads of one key
\* and requests that take turns, unless a request failed between put and commit.
THEOREM PurgeIsEffective == OneKey /\ TakeTurns => (Spec => []PurgedAudioGone)
<1> SUFFICES ASSUME OneKey, TakeTurns PROVE Spec => []PurgedAudioGone
  OBVIOUS
<1>1. PipelineInv /\ BlobsOwned => PurgedAudioGone
  BY DEF PipelineInv, Shapes, RowShapes, BlobsOwned, PurgedAudioGone, Quiet, Uploading
<1> QED BY PipelineAlways, BlobsAlways, <1>1, PTL
-----------------------------------------------------------------------------
(* What a run has read is still so when its outcome counts *)

RunsHoldJobs == \A s \in Stages : run[s] # "none" => job[s] = "running"

TranscriptFresh ==
  "transcribe" \notin missed =>
    /\ run["transcribe"] = "fetched" => tAudio \in RowAudio
    /\ run["transcribe"] = "persisted" \/ job["transcribe"] = "succeeded" => text.audio \in RowAudio

InsightFresh ==
  "analyze" \notin missed =>
    /\ run["analyze"] = "read" => aEdition = text.edition
    /\ run["analyze"] = "persisted" \/ job["analyze"] = "succeeded" => insight = text.edition

Fresh == RunsHoldJobs /\ TranscriptFresh /\ InsightFresh

\* An enqueue marks what runs as missed and re-arms everything else.
LEMMA EnqueueStales ==
  ASSUME Shapes, RunsHoldJobs, NEW s \in Stages, Enqueue(s), UNCHANGED run
  PROVE  /\ RunsHoldJobs'
         /\ s \notin missed' => run'[s] = "none" /\ job'[s] = "queued"
         /\ \A o \in Stages \ {s} : job'[o] = job[o] /\ (o \in missed' <=> o \in missed)
BY DEF Shapes, JobShapes, RunShapes, RunsHoldJobs, Enqueue, Rearms

\* The end of a run that failed, or of its process.
LEMMA EndStales ==
  ASSUME Shapes, RunsHoldJobs, NEW s \in Stages, EndFailed(s)
  PROVE  /\ RunsHoldJobs'
         /\ run[s] # "none" => run'[s] = "none" /\ job'[s] = "running"
         /\ \A o \in Stages \ {s} : run'[o] = run[o] /\ job'[o] = job[o]
         /\ UNCHANGED <<tAudio, aEdition>>
BY DEF Shapes, JobShapes, RunShapes, RunsHoldJobs, EndFailed

LEMMA StagesAreTwo ==
  /\ "transcribe" \in Stages /\ "analyze" \in Stages
  /\ \A s \in Stages : s = "transcribe" \/ s = "analyze"
BY DEF Stages

LEMMA StageFresh ==
  ASSUME Shapes, BlobsOwned, Fresh, StageStep
  PROVE  Fresh'
<1> USE DEF Shapes, Fresh
<1>0. UNCHANGED <<rec, unaccepted>>
  BY StageShapes DEF AudioRests
<1>1. CASE TranscribeRead
  <2>1. UNCHANGED <<text, insight>> /\ missed' = missed \ {"transcribe"} /\ run["transcribe"] = "started"
    BY <1>1 DEF TranscribeRead
  <2>2. CASE EndFailed("transcribe")
    BY <1>0, <2>1, <2>2, EndStales, StagesAreTwo DEF TranscriptFresh, InsightFresh, RowAudio
  <2>3. CASE /\ run' = [run EXCEPT !["transcribe"] = "read"] /\ UNCHANGED <<job, tAudio, aEdition>>
    BY <1>0, <1>1, <2>1, <2>3, StagesAreTwo
    DEF TranscribeRead, RunsHoldJobs, TranscriptFresh, InsightFresh, RowAudio, RunShapes
  <2> QED BY <1>1, <2>2, <2>3 DEF TranscribeRead
<1>2. CASE TranscribeFetch
  <2>1. UNCHANGED <<text, insight, missed>> /\ run["transcribe"] = "read"
    BY <1>2 DEF TranscribeFetch
  <2>2. CASE EndFailed("transcribe")
    BY <1>0, <2>1, <2>2, EndStales, StagesAreTwo DEF TranscriptFresh, InsightFresh, RowAudio
  <2>3. CASE /\ blob[tKey] # NoAudio /\ run' = [run EXCEPT !["transcribe"] = "fetched"]
             /\ tAudio' = blob[tKey] /\ UNCHANGED <<job, tKey, aEdition>>
    <3>1. tKey \in Keys
      BY <1>2 DEF TranscribeFetch, RunShapes
    <3>2. (tAudio \in RowAudio)'
      BY <1>0, <2>3, <3>1 DEF BlobsOwned, RowAudio
    <3> QED BY <1>0, <1>2, <2>1, <2>3, <3>2, StagesAreTwo
            DEF TranscribeFetch, RunsHoldJobs, TranscriptFresh, InsightFresh, RowAudio, RunShapes
  <2> QED BY <1>2, <2>2, <2>3 DEF TranscribeFetch
<1>3. CASE TranscribePersist
  <2>1. /\ run["transcribe"] = "fetched" /\ Enqueue("analyze") /\ text'.audio = tAudio
        /\ run' = [run EXCEPT !["transcribe"] = "persisted"]
        /\ UNCHANGED <<insight, tKey, tAudio, aEdition>>
    BY <1>3 DEF TranscribePersist
  <2>2. /\ job["transcribe"] = "running" /\ run'["transcribe"] = "persisted" /\ run'["analyze"] = run["analyze"]
    BY <2>1, StagesAreTwo DEF RunsHoldJobs, RunShapes
  <2>3. /\ job'["transcribe"] = job["transcribe"] /\ ("transcribe" \in missed' <=> "transcribe" \in missed)
        /\ job["analyze"] = "running" => job'["analyze"] = "running" /\ "analyze" \in missed'
        /\ job["analyze"] # "running" => job'["analyze"] = "queued"
    BY <2>1, StagesAreTwo DEF Enqueue, Rearms, JobShapes
  <2>4. RunsHoldJobs'
    BY <2>1, <2>2, <2>3, StagesAreTwo DEF RunsHoldJobs
  <2>5. TranscriptFresh'
    BY <1>0, <2>1, <2>2, <2>3 DEF TranscriptFresh, RowAudio
  <2>6. InsightFresh'
    BY <2>2, <2>3, StagesAreTwo DEF InsightFresh, RunsHoldJobs
  <2> QED BY <2>4, <2>5, <2>6
<1>4. CASE AnalyzeRead
  <2>1. UNCHANGED <<text, insight>> /\ missed' = missed \ {"analyze"} /\ run["analyze"] = "started"
    BY <1>4 DEF AnalyzeRead
  <2>2. CASE EndFailed("analyze")
    BY <1>0, <2>1, <2>2, EndStales, StagesAreTwo DEF TranscriptFresh, InsightFresh, RowAudio
  <2>3. CASE /\ run' = [run EXCEPT !["analyze"] = "read"] /\ aEdition' = text.edition
             /\ UNCHANGED <<job, tKey, tAudio>>
    BY <1>0, <2>1, <2>3, StagesAreTwo
    DEF RunsHoldJobs, TranscriptFresh, InsightFresh, RowAudio, RunShapes
  <2> QED BY <1>4, <2>2, <2>3 DEF AnalyzeRead
<1>5. CASE AnalyzePersist
  BY <1>0, <1>5, StagesAreTwo
  DEF AnalyzePersist, RunsHoldJobs, TranscriptFresh, InsightFresh, RowAudio, RunShapes, jobVars
<1>6. CASE AnalyzeSegmentsGone
  <2>1. UNCHANGED <<text, insight, missed>> /\ EndFailed("analyze") /\ run["analyze"] = "read"
    BY <1>6 DEF AnalyzeSegmentsGone
  <2> QED BY <1>0, <2>1, EndStales, StagesAreTwo DEF TranscriptFresh, InsightFresh, RowAudio
<1> QED BY <1>1, <1>2, <1>3, <1>4, <1>5, <1>6 DEF StageStep

LEMMA JobFresh ==
  ASSUME Shapes, Fresh, NEW s \in Stages, JobStep(s)
  PROVE  Fresh'
<1> USE DEF Shapes, Fresh
<1>0. UNCHANGED <<rec, unaccepted>>
  BY StageShapes DEF AudioRests
<1>1. UNCHANGED <<text, insight>>
  BY DEF JobStep, Claim, Succeed, RunLost, Reclaim, Reprocess
<1>2. CASE Claim(s) \/ Succeed(s) \/ Reclaim(s)
  <2>1. /\ UNCHANGED <<tAudio, aEdition, missed>>
        /\ \E j \in {"running", "succeeded", "queued"} : job' = [job EXCEPT ![s] = j]
        /\ \/ run' = [run EXCEPT ![s] = "started"] /\ job'[s] = "running"
           \/ run' = [run EXCEPT ![s] = "none"] /\ run[s] = "persisted"
           \/ UNCHANGED run /\ run[s] = "none" /\ job'[s] = "queued"
    BY <1>2 DEF Claim, Succeed, Reclaim, Orphaned, JobShapes, runVars
  <2> QED BY <1>0, <1>1, <2>1, StagesAreTwo
          DEF RunsHoldJobs, TranscriptFresh, InsightFresh, RowAudio, RunShapes, JobShapes
<1>3. CASE RunLost(s)
  <2>1. UNCHANGED missed /\ EndFailed(s) /\ run[s] # "none"
    BY <1>3 DEF RunLost
  <2> QED BY <1>0, <1>1, <2>1, EndStales, StagesAreTwo DEF TranscriptFresh, InsightFresh, RowAudio
<1>5. CASE Reprocess(s)
  <2>1. Enqueue(s) /\ UNCHANGED <<run, tKey, tAudio, aEdition>>
    BY <1>5 DEF Reprocess, runVars
  <2> QED BY <1>0, <1>1, <2>1, EnqueueStales, StagesAreTwo DEF TranscriptFresh, InsightFresh, RowAudio
<1> QED BY <1>2, <1>3, <1>5 DEF JobStep

LEMMA AudioFresh ==
  ASSUME PipelineInv, Fresh, PurgeStep \/ \E u \in Uploads : UploadStep(u)
  PROVE  Fresh'
<1> USE DEF Fresh
<1>1. ASSUME NEW u \in Uploads, UploadCommit(u) PROVE Fresh'
  <2>1. UNCHANGED <<text, insight, run, tAudio, aEdition>>
    BY <1>1, CommitWrites
  <2>2. CASE UNCHANGED <<rec, unaccepted, job, missed>>
    BY <2>1, <2>2 DEF RunsHoldJobs, TranscriptFresh, InsightFresh, RowAudio
  <2>3. CASE Enqueue("transcribe")
    BY <2>1, <2>3, EnqueueStales, StagesAreTwo DEF PipelineInv, TranscriptFresh, InsightFresh
  <2> QED BY <1>1, <2>2, <2>3, CommitWrites
<1>2. ASSUME NEW u \in Uploads, UploadPut(u) \/ UploadRead(u) \/ UploadAbort(u) PROVE Fresh'
  <2>1. /\ UNCHANGED <<rec, text, insight, job, missed, run, tAudio, aEdition>>
        /\ unaccepted \subseteq unaccepted'
    BY <1>2 DEF UploadPut, UploadRead, UploadAbort, jobVars, runVars
  <2> QED BY <2>1 DEF RunsHoldJobs, TranscriptFresh, InsightFresh, RowAudio
<1>3. CASE PurgeStep
  <2>1. UNCHANGED <<unaccepted, text, insight, job, missed, run, tAudio, aEdition>>
    BY <1>3 DEF PurgeStep, Expire, PurgeSelect, PurgeDelete, PurgeDeleteFails, PurgeCommit, PurgeLost,
                uploadVars, jobVars, runVars
  <2>2. rec'.audio = rec.audio
    <3>1. CASE Expire
      BY <3>1 DEF Expire, PipelineInv, Shapes, RowShapes, Recordings
    <3>2. CASE PurgeCommit
      BY <3>2 DEF PurgeCommit, Flush, Column, Purged, PipelineInv, Shapes, RowShapes, Recordings
    <3> QED BY <1>3, <3>1, <3>2 DEF PurgeStep, PurgeSelect, PurgeDelete, PurgeDeleteFails, PurgeLost
  <2> QED BY <2>1, <2>2 DEF RunsHoldJobs, TranscriptFresh, InsightFresh, RowAudio
<1> QED BY <1>1, <1>2, <1>3 DEF UploadStep

LEMMA FreshAlways == OneKey /\ TakeTurns => (Spec => []Fresh)
<1> SUFFICES ASSUME OneKey, TakeTurns PROVE Spec => []Fresh
  OBVIOUS
<1>1. Init => Fresh
  BY StagesAreTwo DEF Init, Fresh, RunsHoldJobs, TranscriptFresh, InsightFresh
<1>2. Fresh /\ PipelineInv /\ BlobsOwned /\ [Next]_vars => Fresh'
  <2> SUFFICES ASSUME Fresh, PipelineInv, BlobsOwned, [Next]_vars PROVE Fresh'
    OBVIOUS
  <2>1. CASE UNCHANGED vars
    BY <2>1 DEF vars, uploadVars, jobVars, runVars, Fresh, RunsHoldJobs, TranscriptFresh, InsightFresh, RowAudio
  <2> QED BY <2>1, StageFresh, JobFresh, AudioFresh DEF Next, PipelineInv
<1>3. Spec => []PipelineInv
  BY PipelineAlways
<1>4. Spec => []BlobsOwned
  BY BlobsAlways
<1> QED BY <1>1, <1>2, <1>3, <1>4, PTL DEF Spec

\* A transcription that succeeded is of the audio accepted last, unless an
\* upload found its job RUNNING, for uploads of one key that take turns.
THEOREM TranscriptsAreCurrent == OneKey /\ TakeTurns => (Spec => []TranscriptCurrent)
<1> SUFFICES ASSUME OneKey, TakeTurns PROVE Spec => []TranscriptCurrent
  OBVIOUS
<1>1. Fresh => TranscriptCurrent
  BY DEF Fresh, TranscriptFresh, TranscriptCurrent
<1> QED BY FreshAlways, <1>1, PTL

\* An analysis that succeeded is of the transcript the call has, unless stage 1
\* found its job RUNNING, for uploads of one key that take turns.
THEOREM InsightsAreCurrent == OneKey /\ TakeTurns => (Spec => []InsightCurrent)
<1> SUFFICES ASSUME OneKey, TakeTurns PROVE Spec => []InsightCurrent
  OBVIOUS
<1>1. Fresh => InsightCurrent
  BY DEF Fresh, InsightFresh, InsightCurrent
<1> QED BY FreshAlways, <1>1, PTL
-----------------------------------------------------------------------------
(* The stages keep to the lifecycle of a job, whoever else is at work      *)

StagesInv ==
  /\ job \in [Stages -> {"absent", "queued", "running", "succeeded"}]
  /\ run \in [Stages -> {"none", "started", "read", "fetched", "persisted"}]
  /\ RunsHoldJobs

\* A step of the lifecycle, said of the row and the run of a stage.
Moved(s) ==
  \/ job'[s] = job[s] /\ (run'[s] = "none" <=> run[s] = "none")
  \/ run[s] = "none" /\ run'[s] = "none" /\ job'[s] = "queued"
  \/ run[s] = "none" /\ run'[s] # "none" /\ job[s] = "queued" /\ job'[s] = "running"
  \/ /\ run[s] # "none" /\ run'[s] = "none" /\ job[s] = "running"
     /\ job'[s] \in {"running", "succeeded"}

StagesMove == StagesInv' /\ \A s \in Stages : Moved(s)

\* An enqueue moves one row, if nobody runs it; a run that goes on moves none.
LEMMA EnqueueMoves ==
  ASSUME StagesInv, NEW s \in Stages, Enqueue(s),
         UNCHANGED run \/ \E r \in Stages : /\ run[r] # "none"
                                            /\ run' = [run EXCEPT ![r] = "persisted"]
  PROVE  StagesMove
BY DEF StagesInv, RunsHoldJobs, Enqueue, Rearms, StagesMove, Moved

LEMMA RunMoves ==
  ASSUME StagesInv, NEW s \in Stages, run[s] # "none",
         \/ UNCHANGED job /\ \E at \in {"none", "read", "fetched", "persisted"} :
                               run' = [run EXCEPT ![s] = at]
         \/ job' = [job EXCEPT ![s] = "succeeded"] /\ run' = [run EXCEPT ![s] = "none"]
  PROVE  StagesMove
<1>1. /\ \E to \in {"running", "succeeded"} : job' = [job EXCEPT ![s] = to]
      /\ \E at \in {"none", "read", "fetched", "persisted"} : run' = [run EXCEPT ![s] = at]
      /\ run'[s] # "none" => job'[s] = "running"
  BY DEF StagesInv, RunsHoldJobs
<1> QED BY <1>1 DEF StagesInv, RunsHoldJobs, StagesMove, Moved

LEMMA NextMoves == StagesInv /\ [Next]_vars => StagesMove
<1> SUFFICES ASSUME StagesInv, [Next]_vars PROVE StagesMove
  OBVIOUS
<1>0. CASE UNCHANGED <<job, run>>
  BY <1>0 DEF StagesInv, RunsHoldJobs, StagesMove, Moved
<1>1. CASE TranscribePersist
  <2>1. /\ Enqueue("analyze") /\ run["transcribe"] # "none"
        /\ run' = [run EXCEPT !["transcribe"] = "persisted"]
    BY <1>1 DEF TranscribePersist
  <2> QED BY <2>1, EnqueueMoves, StagesAreTwo
<1>2. CASE StageStep /\ ~TranscribePersist
  <2>1. ASSUME TranscribeRead \/ TranscribeFetch PROVE StagesMove
    BY <2>1, RunMoves, StagesAreTwo DEF TranscribeRead, TranscribeFetch, EndFailed
  <2>2. ASSUME AnalyzeRead \/ AnalyzePersist \/ AnalyzeSegmentsGone PROVE StagesMove
    BY <2>2, RunMoves, StagesAreTwo DEF AnalyzeRead, AnalyzePersist, AnalyzeSegmentsGone, EndFailed, jobVars
  <2> QED BY <1>2, <2>1, <2>2 DEF StageStep
<1>3. ASSUME NEW s \in Stages, JobStep(s) PROVE StagesMove
  <2>1. CASE Claim(s)
    <3>1. run[s] = "none" /\ job[s] = "queued"
      BY <2>1 DEF Claim, StagesInv, RunsHoldJobs
    <3> QED BY <2>1, <3>1 DEF Claim, StagesInv, RunsHoldJobs, StagesMove, Moved
  <2>2. CASE Succeed(s) \/ RunLost(s)
    BY <2>2, RunMoves DEF Succeed, RunLost, EndFailed
  <2>3. CASE Reclaim(s)
    BY <2>3 DEF Reclaim, Orphaned, runVars, StagesInv, RunsHoldJobs, StagesMove, Moved
  <2>4. CASE Reprocess(s)
    BY <2>4, EnqueueMoves DEF Reprocess, runVars
  <2> QED BY <1>3, <2>1, <2>2, <2>3, <2>4 DEF JobStep
<1>4. ASSUME NEW u \in Uploads, UploadStep(u) PROVE StagesMove
  <2>1. UNCHANGED run
    BY <1>4 DEF UploadStep, UploadPut, UploadRead, UploadCommit, UploadAbort, runVars
  <2>2. UNCHANGED job \/ Enqueue("transcribe")
    BY <1>4 DEF UploadStep, UploadPut, UploadRead, UploadCommit, UploadAbort, jobVars
  <2> QED BY <1>0, <2>1, <2>2, EnqueueMoves, StagesAreTwo
<1>5. CASE PurgeStep
  BY <1>0, <1>5 DEF PurgeStep, Expire, PurgeSelect, PurgeDelete, PurgeDeleteFails, PurgeCommit,
                    PurgeLost, jobVars, runVars
<1>6. CASE UNCHANGED vars
  BY <1>0, <1>6 DEF vars, jobVars, runVars
<1> QED BY <1>1, <1>2, <1>3, <1>4, <1>5, <1>6 DEF Next

LEMMA MovesAreSteps ==
  ASSUME StagesInv, StagesMove, NEW s \in Stages
  PROVE  Lifecycle!JobStep(s) \/ Lifecycle!Stays(s)
BY DEF StagesInv, StagesMove, Moved, Lifecycle!JobStep, Lifecycle!Stays, Lifecycle!Arm, Lifecycle!Start,
       Lifecycle!Finish, Lifecycle!Lose, Lifecycle!Reclaim, Lifecycle!Unheld, Lifecycle!Becomes

\* Uploads, reprocessing, failures, dead workers and reclaims move the jobs of the two
\* stages only as the queue's lifecycle allows, with uploads and purges that overlap too.
THEOREM StagesKeepLifecycle == Spec => JobsKeepLifecycle
<1>1. Init => StagesInv /\ Lifecycle!Init
  BY DEF Init, StagesInv, RunsHoldJobs, Lifecycle!Init
<1>2. StagesInv /\ [Next]_vars => StagesInv' /\ [Lifecycle!Next]_(Lifecycle!vars)
  <2> SUFFICES ASSUME StagesInv, [Next]_vars
               PROVE  StagesInv' /\ Lifecycle!Next
    OBVIOUS
  <2>1. StagesMove
    BY NextMoves
  <2> QED BY <2>1, MovesAreSteps DEF StagesMove, Lifecycle!Next
<1> QED BY <1>1, <1>2, PTL DEF Spec, JobsKeepLifecycle, Lifecycle!Spec
=============================================================================
