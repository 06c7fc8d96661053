# Specifications of tele-lytics

tele-lytics records or collects the calls of phone agents, uploads the audio,
transcribes and analyses it, and shows a dashboard. These TLA+ modules model
the parts of it where several things happen at once or stop halfway: the job
queue and its workers, the way of one call through the backend, what is stored
about a call while supervisors edit settings, recording policies and the call
screen, pairing and presence, the handset's upload queue, the synchronisation of
the phone's call log, and as pure operators the dashboard's figures, the way
from audio to transcript and the normal form of phone numbers. Paths below are
relative to the repository.

    tlc -workers 2 -config MCJobQueue_queue.cfg MCJobQueue.tla
    tlapm JobQueueProofs.tla

`PROJECT.json` lists the runs with the property each checks, the mutants that
show each property can fail, the lines of code every definition stands for, the
disagreements found, the hazards, and the theorems.

## 1. The system

| part | state it keeps | operations | talks to |
|---|---|---|---|
| Job queue `services/queue.py` | `processing_jobs`: one row per (call, stage) with status, attempts, schedule and lock | enqueue, claim, mark_succeeded, mark_failed, reclaim_stale | API handlers and stage 1 enqueue; workers claim |
| Worker `worker.py` | one ORM session per run, stop event, time of last maintenance | run, run_once, _run_job, _maintenance | queue, pipeline, retention |
| Tick endpoint `main.py` | one module-level `Worker` | POST /internal/worker/tick = one pass | called by `backend/worker/index.ts` |
| Pipeline `services/pipeline.py` | transcript, segments, analysis, action items, lead of a call | run_transcription, run_analysis | storage, model providers, queue |
| Mobile API `api/v1/mobile.py` | calls, recordings, agent status | log_call, upload_recording, policy, status, unpair | storage, queue, presence |
| Calls API `api/v1/calls.py` | – | reprocess, reads | queue |
| Retention `services/retention.py` | `recordings.status`, `purge_after` | purge_expired_recordings | storage |
| Storage `services/storage.py` | files under keys | put, get, delete, build_key | – |
| Presence `services/presence.py`, `api/v1/ws.py` | sockets per organisation; `agents.status` | set_status, broadcast, snapshot | dashboards (`web/src/lib/realtime.ts`) |
| Auth and pairing `api/v1/auth.py`, `core/deps.py` | users, pairing codes, devices, tokens | login, refresh, pair, revoke | handsets, web |
| Policies `services/policies.py`, `api/v1/policies.py` | recording policies per number | decide, create, update, delete | handsets |
| Settings `api/v1/settings.py` | categories, rating parameters | create, update, delete | the pipeline reads the rows |
| Agents, tasks, leads `api/v1/*` | agents, action items, leads | lists, updates, deactivation | the pipeline replaces the rows |
| Figures `services/metrics.py`, `timerange.py` | – | overview, charts, breakdowns, leaderboard | reads every table |
| Upload queue `mobile/src/lib/uploadQueue.ts` | array in memory, its copy in AsyncStorage, the audio files | enqueue, drain, attempt, fail, remove, retryNow | mobile API |
| Call-log sync `mobile/src/lib/callLogService.ts`, `callLogSync.ts`, `CallLogModule.kt` | cursor and ledger of reported ids | syncCallLog, resetSyncState | call log, importer's ledger, mobile API, upload queue |
| Importer and parser `importer.ts`, `callRecordings.ts` | ledger of imported files | scan, parse, markImported | recordings folder |
| Recorder and call screen `recorder.ts`, `app/call.tsx` | the take in progress, the decision, the typed number | checkPolicy, start, finish | mobile API, upload queue |
| Handset session `session.tsx` | the paired session in secure storage | startup, pair, setStatus, unpair | mobile API |
| Speech `llm/stt/shared_model.py`, `src/whisper_service` | – | chunks and turns to segments | the pipeline stores them |
| Analysis providers, prompts, pages, migrations | none that matters here | – | – |

What is hard in it, and what makes each part correct:

* **Queue and workers.** Two workers race for a row; a worker dies holding
  one; a lease runs out; an upload re-arms a job while it runs; every write goes
  through an ORM object loaded earlier, which writes back only the columns it
  changed. Correct: at most one run of a job at a time, bounded attempts,
  no job lost or run again after it is over, nothing waiting for ever.
* **A call in the backend.** Upload, two stages, re-upload, reprocess and purge
  work on the same rows and files; storage and database are not one
  transaction. Correct: accepted audio stays until its retention is over
  and goes then; transcript and analysis are of the current audio.
* **Insights and settings.** A run holds categories and parameters while the
  provider works, a PATCH holds a row while others write. Correct: one active
  default category and so no unclassified analysis, a re-run replaces and does not
  add, a score lies in the scale it was given in, which is stored with it.
* **Policies and the call screen.** Every control stays usable while its handler
  awaits. Correct: nothing is recorded against the decision for its own number,
  a take is attached to its own call, an opt-out stays.
* **Pairing and presence.** Requests hold rows, broadcasts hold copies of a list
  of sockets and counts that were taken earlier. Correct: a code gives one device,
  an agent without a handset is offline, a dashboard shows what is.
* **Upload queue.** Drains overlap, the app is killed, answers are lost.
  Correct: no recording is lost before the server has it, and each one settles.
* **Call-log sync.** Cursor, two ledgers, server and upload queue are five
  places written one after the other; syncs overlap; reports fail. Correct:
  each call reported, once, with its own audio.
* **Pure parts.** A figure is computed in several places, each with its own
  filter and ends; speech models answer with gaps and overlaps; a number has many
  spellings. Correct: the places agree, transcripts are in order, one number is
  stored one way.

## 2. Modules

| module | models | composed with |
|---|---|---|
| `JobLifecycle` | what the queue promises: absent, queued, running, over, and who holds a job | – |
| `JobQueue` | `queue.py` and `worker.py` statement by statement | implements `JobLifecycle` (`JobQueueProps`) |
| `Pipeline` | one call: upload, stages, reprocess, reclaim, purge | its jobs keep to `JobLifecycle` (`PipelineProps`) |
| `Patch` | what an ORM flush writes of a row it loaded before | `Insights`, `Consent`, `Roster` |
| `Insights` | what stage 2 stores, settings, tasks and lead | – |
| `Consent` | recording policies, the call screen, the recorder | – |
| `Roster` | pairing, sessions, statuses, broadcasts, dashboards | – |
| `UploadQueue` | the handset's upload queue | – |
| `RecordingMatch` | `matchRecordingsToCalls` as an operator | used by `CallLogSync` |
| `CallLogSync` | `syncCallLog`, `reportCall`, and `log_call` on the server | relies on what `SavedNotLost` says of an enqueue that returned |
| `Figures` | every aggregate and list of the dashboard over the tables | – |
| `Speech` | from what the models hear to stored segments, talk ratio and sentiment | – |
| `PhoneNumbers` | `phone.normalize` | – |
| `*Props` | the properties of the module they are named after | |
| `*Proofs` | its theorems (section 6); `FunctionsProofs` holds those of `RecordingMatch`, `Figures`, `Speech` and `PhoneNumbers` | extend the `Props` |
| `MC*` | the small sets of each run; `MCSettings`, `MCRoster` and `MCFunctions` put several subjects into one run, one per behaviour | |

The parts meet through what each promises. `JobQueue` implements `JobLifecycle`
(checked and proved), and `Pipeline` uses jobs as `JobLifecycle` describes them
(checked and proved: `JobsKeepLifecycle`), so the pipeline need not carry the three
statements of a claim. `Insights` takes the run of stage 2 from where `Pipeline` leaves it: there
an analysis is the edition of the transcript it is of, here it is rows. `CallLogSync`
treats the enqueue of a recording as one step that is durable when it returns,
which is `SavedNotLost` of `UploadQueue`.

### JobQueue

`row[j]` is the table row (status, attempts, locked_by). `earlier` and `stale` stand
for the timestamps: the order of `scheduled_at` among queued rows, all of which are
due, and rows locked for more than 30 minutes. Each pass has `pc`, `cand`
(the ids selected), `waits` (the runs its gather waits for), `run` and `loaded`
(the ORM copy each run works from); `req` is what each enqueue read. `reclaims`,
`failures` and `faults` count.

| action | code |
|---|---|
| EnqueueRead, EnqueueRearm, EnqueueInsert, EnqueueRollback | `queue.enqueue` and the caller's commit |
| ClaimSelect, ClaimTake, ClaimCollect | the three statements of `queue.claim` |
| RunJobLoad, MarkSucceeded | `Worker._run_job`, `mark_succeeded` |
| RunFails | the failure path of `_run_job`: rollback, then `mark_failed`, which raises; the gather ends and its siblings go on |
| LockAges | time |
| ReclaimStale | `_maintenance` |
| Crash, RequestStop, WorkerExits | the process |

`Flush` is how SQLAlchemy writes: only columns whose value differs from the one
loaded. The status test of the claim's UPDATE is in `Won`, the identity test of
its second SELECT in `Claimed`. A failure has one outcome only: `rollback()` expires
every attribute of the job, `mark_failed` reads one of them, retryable or not, and an
async session refuses the implicit query, so nothing is written. The row stays RUNNING
until it is reclaimed; the backoff, the test of `max_attempts` and the status FAILED
are never reached and not in the model (run `rollback`, and section 4).

Two simplifications: a pass may reclaim whenever it is not inside a claim (the
code does so at most every ten minutes; `stale` and the interval are both
"some time later"), and a pass slot holds at most one run of a row, which would
only matter if an overrun and a failed run came together, as no run
combines.

### Pipeline

`upload[u]` and `seen[u]` follow one request, `blob` is the storage, `rec` the
recording row, `text` the transcript (audio it is of, edition, blank or not),
`insight` the edition the analysis is of, `job` and `run` the two stages,
`purge` the retention pass. An audio file is the upload it came with; `rec.audio` is
the upload whose size, checksum and duration the row has. `unaccepted` is history: the
uploads that stored their file since the row was last written and were not accepted.

Upload is three steps (put, read, commit with enqueue), a run of a stage is its
claim, its reads, its provider call and its persist, the purge is select,
delete, commit; each can fail or be lost between any two. A run of a stage that fails
leaves its job RUNNING, as one whose worker died does (`RunLost`). `missed` records that
an enqueue hit a RUNNING job, so that the properties can say precisely when the
code keeps step and when it does not. Not told apart here: checksums, the audit
log. An analysis that began on a transcript that was replaced may end either way
(`AnalyzePersist`, `AnalyzeSegmentsGone`): it depends on whether it updates a
segment row that is gone. Two runs of one stage at a time are left to `JobQueue`.
`MayOverlap` lets requests and the purge begin while another is under way.

### Patch and Insights

`Written(row, held, change)` is a PATCH that loaded `held` and now writes `change`: of
the columns it sets, those that differ from `held` go into the row as it is by then.

`run` holds what a stage-2 run read (`cats`, `params`) while the provider works;
`edit[e]` is a request of a supervisor between its load and its write. An id stands for
a row; names are compared through `Lower`. A provider answers any of the names
`Answers`, told or invented, and any list of scores, within a scale or not, for any of
the parameters, once, twice or not at all.

| action | code |
|---|---|
| CreateCategory, DeleteCategory, CreateParam, DeleteParam | the handlers of `settings.py`; a foreign key sets the category of an analysis to NULL |
| LoadCategory, LoadParam, LoadTask, LoadLead, Write | the PATCH handlers of `settings.py`, `tasks.py`, `leads.py` up to their guard, and their flush |
| Start, Answered, Unstorable | `run_analysis`: what it reads, `_persist_analysis` with `_resolve_category`, `_match_ratings`, tasks and lead, and every way to store nothing |

### Consent

The office has `policies` and PATCHes in flight; the handset has `screen`, the open
question (`check`), `recorder`, the running `take`, and what `finish` holds
(`saving`); the server has `calls` by external_ref. `edited` is history: something
changed under a decision, a question or a start. A take has the decision it was begun
under.

| action | code |
|---|---|
| CreatePolicy, DeletePolicy, LoadPolicy, WritePolicy | `api/v1/policies.py` |
| CheckPolicy, CheckAnswered, CheckFails | `checkPolicy`, with `decide` on the server |
| EditNumber, FlipDirection, ToggleConsent | the controls and what each resets |
| StartRecording, Started | `recorder.start`, and the rest of the handler |
| StopAndSave, Discard, LogOnly, LogCall, Enqueue, FinishFails, Done | `finish` await by await, with `log_call`'s answer to a reference it has seen |
| Leave, Restart | the screen's unmount, and a kill |

The bound `Patience`: while a `finish` is under way the agent asks and types nothing
new. `Times` needs three values, so that `new Date()` can always be another.

### Roster

`agents[a]` is [status, active]; `version` counts changes of what dashboards are told,
and what a dashboard shows is the version its counts were taken at. A request goes
loaded, committed, counted, sending; a browser closed, counted, connected, open, with a
token that is good, expired, or refused (of a user who is no staff, or dropped when a
renewal failed).

| action | code |
|---|---|
| CreatePairingCode, CodeExpires, PairRead, PairCommit, PairAnswered | pairing in `auth.py` and `session.tsx`; an answer may be lost |
| RevokeDevice, SwitchAgent | an administrator |
| ForgetToken | startup with a refused token, and unpairing on the handset |
| Authenticate, Commit, Count, CopyTargets, Send, Answer | `get_current_device`, `set_status` (for unpair with `revoked_at`), the snapshot, `PresenceHub.broadcast` |
| Handshake, Connect, SendState | `dashboard_socket` and the browser's reconnect; only a good token gets past the first |
| TokenExpires, TokenRenewed | the hour of `create_token`; `refreshAccessToken`, which a page's request calls and the socket does not |
| Break, RequestDies, ServerRestarts | the network and the process |

`lone` and `excused` are history. `Commit` is bounded by `MaxVersion`.

### UploadQueue

An action is what JavaScript does between two awaits. `writes` are the
`AsyncStorage.setItem` calls not done yet; who awaits one goes on after it.
`drain` tests `draining`, awaits twice and only then sets it (DrainCheck,
DrainStart), so drains overlap. `Kill` restores the array from disk. Startup is not
a separate step: AsyncStorage serves the first read before any later write.

### RecordingMatch and CallLogSync

`Match` is the greedy pairing; numbers are digit sequences compared on their last
`SuffixDigits` digits. `CallLogSync` has the call log and the folder (`logged`,
`saved`), what AsyncStorage holds (`cursor`, `synced`, `imported`), the `device` id of
the session, the server's rows by their external_ref (`calls`, a device id with a
call-log id), what was queued (`queued`), and for every sync its local
variables. `log_call` is two statements (LogCallRead, LogCallInsert) with the
unique constraint on the reference. `Pair` unpairs the handset and pairs it again.
Not modelled: the limit of the importer's own ledger, the
deletion of an original after its upload (that is run `original`), a handler
that outlives its client's timeout, and two calls of one millisecond.

### Figures, Speech, PhoneNumbers

`Figures` has one operator per query: `Overview`, `Timeseries`,
`SentimentBreakdown`, `Leaderboard`, `FillerCounts`, `RiskSummary`,
`CoverageByNumber`, `AgentStats`, `Summary`, `ListCalls`, `BoardTasks`, `Leads`, with
`ResolveRange` and `BucketRange`; an average is a pair <<sum, count>>. `Speech` goes
from `TranscribeChunks` and `RolesFor` (the Whisper service) through `ParsePayload`
(the adapter) and `RunTranscription`, which stores them or keeps what was there, to
`TalkRatio`, `TextsBySpeaker` and `ApplySentiment`, which paints over the colours the
segments have. `PhoneNumbers`
has numbers as digit sequences; lengths are constants scaled down in the run. Their
`Props` modules build inputs step by step, so that one run reaches every
combination.

## 3. Runs

Passing runs and what their bounds let happen:

| run | checks | bounds |
|---|---|---|
| `queue` | TypeOK, QueueInv, OneRunPerJob, AttemptsBudget, StopLeavesNoLock, OverUntilRearmed, ImplementsLifecycle, QueuedJobsSettle | 2 jobs, 2 workers, batch 2, max_attempts 2, 2 failed runs, 1 crash, 2 enqueues, one worker may stop |
| `call` | TypeOK, AcceptedAudioKept, PurgedAudioGone, TranscriptCurrent, InsightCurrent, JobsKeepLifecycle, UploadsAnalyzed | 2 uploads under one key, 1 reprocess, 1 failure or death, requests and purge take turns |
| `settings` | EveryReplyHasCategory, AlwaysClassified, RerunReplaces, ScoresKeepTheirScale; OnlyOptInsRecord; RecordedAsDecided, TakeBelongsToItsCall | 2 categories, answers that name one of them or neither, 1 parameter of 2 scales, 2 scores of which either may be outside, 2 editors, 2 runs, 3 acts; 2 administrators, 3 acts, 2 customers; every control of the screen, no bound on steps |
| `roster` | LoneChangeIsShown, OnlineIsPaired, CodesAreSpent, DashboardsReconnect | 1 agent, 2 handsets, 1 code, 1 dashboard, 2 requests, 2 changes of the roster, 1 fault; a token that expires and is renewed without a bound |
| `uploads` | SavedNotLost, DiskFollows | 2 recordings, 2 drains, 2 attempts, 1 kill |
| `uploads_live` | SavedSettles | 1 recording, 2 drains, 2 attempts, 1 kill, 1 tap, 1 file removed by the OS |
| `calllog` | SkippedOnlyIfFailed, ImportedIsQueued, CallsReported | 2 calls, a row between them that is not reported, 1 recording that fits both; 2 syncs, batch 1, ledger 1; 1 failure, kill, reset or new pairing |
| `functions` | MatchIsSound, MatchIsComplete, PrefixIgnored; FiguresAgree, ChartHasNoHoles; TranscriptInOrder, InsightsFitTranscript; StoredOneWay | 2 calls and 2 recordings, 5 instants, 4 numbers; 3 calls at 5 instants with 2 kinds of analysis, 9 windows; 2 chunks and 2 turns, with and without an earlier transcript, and two analyses; every spelling of up to 7 digits of 3 |

Why these suffice: the claims are about one row, one call, one recording; a
second one is there to compete with it (for the batch, the ledger, the one
write queue), and the actors are two because every race in this code is
between a step and one other actor's step. One fault and one repetition
reach each state a fault can leave behind; two failed runs exhaust `max_attempts`.
In `queue`, two enqueues either queue both jobs or
queue and re-arm one. In `call` a second key is left out: the code forgets the first
one (section 4). In `settings` two categories make the default and one that can be
renamed to it, deleted or switched off; three acts load an edit, change what
it holds and change it again. In `roster` the two requests are the two that race, and
two changes are enough for a broadcast to overtake another. Where a property is
proved (section 6), more of everything is covered by the theorem.

The counters `MaxFailures`, `MaxFaults`, `MaxEnqueues`, `MaxReprocess`, `MaxKills`, `MaxByHand`,
`MaxCleaned`, `MaxTroubles`, `MaxRuns`, `MaxActs`, `MaxAdmin`, `MaxVersion` only bound
how often something acts. In the pairing, a window of 1 among 5 instants has pairs
inside, at the edge of and outside it, and calls whose windows do and do not share a
recording; the scaled digits (3 compared, fewer than 2 whole) keep the four cases of
`sameNumber`. In the figures, days have two hours and weeks four, so that windows lie
on both sides of every boundary. Numbers have four national digits, one of country
code and one of trunk prefix.

Where the system may come to rest (all jobs over, all calls reported, every act
spent) deadlock checking is off; the liveness properties say what must have happened
by then. Symmetry is used in `uploads`, `settings` and `permitted`, which check no
liveness.

Runs that end in a violation, each for a sentence of the repository that
the code does not keep (`findings` in PROJECT.json quotes both):

| run | property | what happens |
|---|---|---|
| `rollback` | FailureReleasesRow | `mark_failed` after `rollback()` raises; the row stays RUNNING until the lease ends |
| `original` | OriginalsKept | the upload deletes the agent's own file |
| `skipped` | NothingSkipped | the cursor passes a failed report |
| `permitted` | RecordingPermitted | the number is edited after the decision, and the other number's call is recorded |

## 4. Mutants, and limits of what holds

Each property of each passing run has a mutant: a mapped definition and a
variant of it defined just above (marked "variant") with a plausible mistake,
under which the run fails. Examples: the status test dropped from the claim
(`WonUnguarded`), a reclaim that leaves exhausted rows alone so they wait for ever
(`StaleAndUnspent`), the file deleted before the answer (`FileDeletedFirst`), a
recording marked as imported before it is queued (`MarkableEarly`), the default
category deletable (`DeletableAny`), a PATCH that writes the whole row it loaded
(`WrittenWhole`), a decision kept when the direction is flipped
(`FlippedKeepsPolicy`), counts taken before the commit (`CountedAtLoad`), segments
of one time put in the wrong order (`PlaceInFront`), a default category taken to be
the first (`AllOf`).

The code has further departures from what its texts lead one to expect. The first are
stated in the `Props` modules, each with the words it comes from. They do not hold, and
no run has them: added as an INVARIANT to the cfg named (with its `Spec`, for `settings`
`SettingsSpec` and for `roster` `RosterRunSpec`), TLC shows what happens.

| property | cfg | what happens | the words |
|---|---|---|---|
| AttemptsWithinMax | `queue` | nothing but `reclaim_stale` moves a job that failed, and it does not look at `max_attempts` (queue.py:188-203): a stage that keeps failing runs every 30 minutes for ever | queue.py:158 |
| StoredAudioAccepted | `call` | a re-upload that fails between `storage.put` (mobile.py:195) and its commit has replaced the accepted audio, of which the row still has size, checksum and duration | mobile.py:169-170 |
| CallsReportedOnce | `calllog` | the reference of a call contains the device id (callLogSync.ts:225); after a new pairing an entry that is not yet in the saved ledger is reported under another one and stored twice | settings.tsx:43-44 |
| ScoresInScale | `settings` | a score outside its scale is stored as answered (pipeline.py:393) | llm/schemas.py:164 |
| OneDevicePerCode | `roster` | two requests read the code before either marks it used (auth.py:213, :235) and both get a device | auth.py:178, API.md:18, test_auth.py:60 |
| MissedCallsExcluded | `functions`, `Shapes <- WithRecordedMissed` | the agents page averages over analysed calls, missed ones included (agents.py:88); the leaderboard does not | README.md:124 |
| FirstSaidFirst | `functions` | the Whisper service sends whole milliseconds, and one below 1000 is taken for seconds (shared_model.py:54): 480 ms is stored behind 1500 ms | STT_CONTRACT.md:103-105 |
| ColoursReplaced | `functions` | a second analysis of a transcript leaves labels of the first on segments in which none of its points lands (pipeline.py:449) | pipeline.py:7-8 |

The passing properties next to them say what does hold: AttemptsBudget,
AcceptedAudioKept (the accepted audio or that of a later, failed request), SkippedOnlyIfFailed,
ScoresKeepTheirScale, CodesAreSpent (what a code still gives goes to requests that read
it before), FiguresAgree (which compares the two averages where exactly the connected
calls are analysed), TranscriptInOrder (which speaks of the order heard where no time is
misread), InsightsFitTranscript.

The next group is in the models, kept out of the passing runs by a
constant or excepted by the wording of a property; each can be seen by changing the
constant or dropping the exception:

* overlapping ticks share one worker identity, on which `claim` rests: with
  `SharedIdentity` for `WorkerOf` in `MCJobQueue`, OneRunPerJob fails;
* a live run may outlast the 30 minutes of its lease (`MayOverrun`), since nothing
  renews `locked_at`; its row is then handed out again;
* audio uploaded while the call's earlier audio is being transcribed is stored but
  not transcribed: `enqueue` leaves a RUNNING row alone (queue.py:66), while
  mobile.py:169-170 says that re-uploading re-runs processing (`missed`);
* with `MayOverlap`, a purge that selected a recording before it was uploaded again
  deletes what was just accepted, and AcceptedAudioKept fails;
* `build_key` gives a re-upload in another month or format another key; the first
  file stays and no purge will find it;
* a call-log row written late with an earlier date is not read (`MayBeLate`);
* a pairing answer that is lost leaves a device no handset has;
* the two average lengths of an agent, on the agents page and on the leaderboard, differ
  also where every call was answered, if some are not analysed;
* where a window ends on a boundary of its buckets the chart has one empty point more
  than the window has buckets (metrics.py:332);
* audio of a request that was not accepted may be transcribed (`RowAudio`), once a
  re-upload overwrote the file and failed;
* QueuedJobsSettle and UploadsAnalyzed need failures to end: see AttemptsWithinMax;
* a dashboard whose page makes no request for an hour keeps knocking with an expired
  token (realtime.ts:51); DashboardsReconnect assumes that it is renewed;
* changes that overlap may reach a dashboard in the other order and stay, and so may
  a snapshot taken before the socket joined the hub (presence.py:8-9 says no client is
  ever permanently stale);
* a status report in flight beside an unpairing leaves the agent online, with no
  handset to change it (`excused`); revoking a device does not touch the status;
* two supervisors who each change one end of a scale can leave min above max: each
  is tested against the row as loaded;
* an edit equal to the value its request loaded is not written, so an administrator's
  "off" may be lost under another's "on";
* ten-digit numbers that begin like the country code are stored two ways
  (`NumbersMatch` in PhoneNumbersProps; phone.py:52, :60-63);
* rows of one call-log millisecond on both sides of the LIMIT.

The last group is below the grain of the models:

* a direction, number or consent edited during a question or a start is not taken
  into account; a log-only retry is given a new reference each time and so may log the
  call twice, and one after a failed `finish` may reuse the earlier reference; a
  `finish` that fails has let go of the take;
* leaving the screen while `recorder.start()` awaits leaves the microphone on (the
  recorder state `"left"`);
* the status shown optimistically by the handset is not corrected: session.tsx:92-93
  speaks of a heartbeat no part of the app sends;
* the upload queue saves its list before it deletes a file; a kill in between leaves
  the file; an entry whose file is gone stays on the list;
* the pairing serves the earlier call first, so it may take a recording that is closer
  to the later one ("goes to the closer one" in callLogSync.ts);
* the policy is not asked again before a queued recording is uploaded;
* the purge takes 200 rows in no stated order;
* overlapping PATCHes of a task can leave `completed_at` at odds with its status;
  categories and parameters whose names differ only in case are taken for each other.

## 5. Fairness

* `JobQueue`: every step of a pass that began, every run, the passing of
  leases, and the commit of an enqueue. The worker loop polls for
  ever and every provider call ends, with a result or an error, of which only
  `MaxFailures` are errors; `RequestStop` is not
  fair, and at most one of the two workers stops, because a queue without workers
  settles nothing. A lease is only required to end for a row nobody holds.
  Maintenance is strongly fair: it happens between passes, again and again.
* `Pipeline`: stages proceed, queued jobs are claimed, orphaned ones reclaimed -
  what `JobQueue` shows. Uploads and faults are not fair.
* `UploadQueue`: writes and requests end (there is a timeout), the 60-second sweep
  comes, and the handset is not offline at every sweep (strong fairness of
  DrainStart, which an offline sweep disables).
* `CallLogSync`: the agent keeps opening the home screen and every await
  returns. A report that failed is not required to be repeated: `skipped` shows why.
* `Roster`: the browser's reconnect timer and the server's handshake run (`Connect`,
  `SendState`). `Handshake` is strongly fair: the browser tries again at least every 30
  seconds, and a token is good for an hour from when it is renewed, so of the times it
  is good none passes without an attempt. That it is renewed is not assumed but
  a premise of the property; nothing else is fair.

## 6. Proofs

Each theorem holds for every value of the constants, that is for any number of
jobs, workers, agents, handsets, syncs, editors, and any number of faults.

| module | theorems | assumed |
|---|---|---|
| `JobQueueProofs` | TypeCorrect | – |
| | QueueInvariant, ClaimIsExclusive, AttemptsAreBounded, OverIsFinal, StopIsClean, QueueRefinesLifecycle | `Exclusive` |
| `PipelineProofs` | StagesKeepLifecycle | – |
| | PipelineTypeCorrect, AudioIsKept | `TakeTurns` |
| | PurgeIsEffective, TranscriptsAreCurrent, InsightsAreCurrent | `TakeTurns`, `OneKey` |
| `InsightsProofs` | InsightsInvariant, RepliesHaveACategory, AnalysesAreClassified, RerunsReplace, RatingsKeepTheirScale | – |
| `ConsentProofs` | OptOutsStay, TakesAreDecided, TakesBelong | – |
| `RosterProofs` | OnlineArePaired, CodesGiveOnce, LoneChangesAreShown | – |
| `UploadQueueProofs` | SavedIsNotLost, DiskOnlyLags | – |
| `CallLogSyncProofs` | ImportedAreQueued | – |
| | OnlyFailuresAreSkipped | `InOrder` |
| `FunctionsProofs` | MatchingSound, MatchingComplete, PrefixesIgnored | – |
| | NumbersStoredOneWay | – |
| | ChartsHaveNoHoles, FiguresAgreeEverywhere | – |
| | TranscriptsKeepOrder, InsightsAreOfTheTranscript | – |

The ASSUMEs of the modules say what the sets are (finite, disjoint, natural numbers),
for `Figures` also that tables are finite, that labels and statuses are of their
enumerations (`db/enums.py`) and that the cap on buckets leaves room for the longest
window; TLC evaluates each in a run.

The assumptions say where the code needs its surroundings. `Exclusive`: no run
outlasts its lease, no two passes share an identity, one enqueue at a time.
`TakeTurns`: no upload or reprocess and no purge is between its first write and its
commit while another is (`~MayOverlap`). `OneKey`: all uploads of the call are stored
under one key. `InOrder`: call-log rows come in the order of their times, no two
have the same, and times are bounded. Section 4 says what happens otherwise.

**JobQueue.** `OneRunPerJob` is not inductive. That nobody else holds j follows from:
a holder owns the row, that is, `row[j].owner` is its identity. That in turn is stable
only because the row is not stale (else it could be reclaimed), because whoever
claims it finds it QUEUED and so not RUNNING, and because the copies others write back
from are current. `QueueInv` says just this:

* `RowsWellFormed` - RUNNING rows and only they carry a lock; stale rows are RUNNING;
* `PassesOwnTheirRows` - a pass does not own or run what it selected, and owns, with a
  fresh lease, what it took or runs;
* `LoadedCopyCurrent` - the copy a run writes back from names its lock, so that
  what `mark_succeeded` clears is written;
* `SeenRowCurrent` - what an enqueue read is the row still, unless it was waiting
  and was claimed since;
* `AttemptsBudget`.

For the refinement, `phase` is the status and `holder` the set of holding passes; each
step of the queue moves every job by a step of `JobLifecycle` or leaves it. `StopIsClean`
needs the converse of ownership as well (`Attended`: while no run has failed and no
worker crashed, a RUNNING row is one its worker took or runs). `AttemptsBudget` counts
starts against reclaims and says nothing of `max_attempts`, which the code does not keep.

**Pipeline.** `PipelineInv` is the shapes, `Turns` (what a request or the purge read is
still so when it writes) and `AudioKept` (a STORED row whose retention is not over has a
file, of its own audio or of a request since; a PURGED one was over). `BlobsOwned` says that storage holds only what the row
refers to or a request put there. `Fresh` says that what a run fetched is not
superseded unless its enqueue was missed; a re-arm makes the job QUEUED, so the claim of a
finished job being current can only be made by a run that read after it.
`StagesKeepLifecycle` needs of all this only where the jobs are (`StagesInv`), so it
holds whether or not requests and the purge overlap.

**Insights.** `InsightsInv`: that there is one active default is kept because
`is_default` is never written after creation, the default cannot be deleted, and
a PATCH in flight that switches a row off holds one that is not the default
(`SwitchOffSafe`). A run holds one default as it was read (`RunHasDefault`), so
`_resolve_category` never comes back empty, whatever has happened to the tables since;
an answer whose category was deleted meanwhile fails at the foreign key and stores
nothing. That a rating keeps its scale needs the shape of what a run holds only.

**Consent.** `DecisionInv`: the decision on show is for the number and direction on
show or something was edited (`ShownIsDecided`); while a question is open none is on
show, so no take begins (`AskedIsShown`). `CallsInv`: the reference of an unfinished take
has not been logged (`TakeIsUnlogged`), so `log_call` makes a row of its own for it,
and it is that row (`TakeIsLogged`); for this `new Date()` must find a time that is not
in use, of which there are at most two (`RefsAreFew`).

**Roster.** `OnlineInv`: a report nobody overlaps holds the status of the row
(`AloneIsFresh`), so the difference an unpairing writes is the difference to the row; a
report under way comes from a paired device unless excused. `SpentInv`: a code that has
given a device is marked used, whatever was read before. `ShownInv`: after a
lone change a dashboard has the current counts, or a request in flight will send them.

**UploadQueue.** What is on disk is not what is in memory, and a kill may come after any
write, so `QueueInv` speaks of every list there is: memory, disk and the writes under
way. No item is twice in one of them (`ListsInv`), which is why `Without` may take one
entry out where the code filters; the newest is the list in memory. A recording that is
neither stored nor deleted is on every list, or, while its enqueue has not returned, on
every one from a write on that its enqueue still awaits (`Listed`). A drain that has an
answer in hand, or is removing, holds an entry the server has stored (`DrainInv`); this
is what makes an entry and a file go only then, whatever other drains do.

**CallLogSync.** `SyncInv`: what is imported,
in a ledger in hand, or about to be marked, is queued. `SkipInv`: everything behind a
cursor, stored or in a sync's hand, is on the server or failed (`Passed`), the same of the
ledgers, and a batch leaves no gap between the cursor it was read from and its newest row.

**The pure parts.** `FunctionsProofs` proves them for inputs of any size. Folds are
recursive functions that nothing says exist, so a proof about one has two halves. The
first is the equation: induction over the size of the input gives a function that
satisfies the recursion (`SubsetRecursion`, `LoopRuns`) and that there is only one
(`OneSum`), so the fold is it. The second is the property, by induction over a finite set
(`SubsetInduction`) or along a loop. The library's induction theorems take an operator,
which no prover here can instantiate; these take the set of the numbers or subsets with
the property instead, and rest on `LeastNumber`.

* *Pairing.* What the loop has built is `Paired` after every call: nobody has a
  recording twice, pairs fit, and a call without one has none left that fits
  (`OfferKeepsPaired`). PrefixIgnored then needs only that a prefix does not
  change the last `SuffixDigits` digits.
* *Numbers.* A stored number begins with the country code and is long enough, so that
  `normalize` leaves it alone; each spelling is one case of `National`.
* *Charts.* A floor is a number of whole lengths (`FloorBelow`), so between the first
  and the last there are as many lengths as buckets, and the cap is not met
  (`BucketsTile`).
* *Figures.* `SumByKey` and `CountByKey` say that what is added or counted key by key is
  what is added or counted at once. Every agreement is an instance: the key is the bucket,
  the agent, the number, the sentiment, the kind of risk, or the status of an agent. For
  pages (`PageIsRanked`): a call that began alone is on the page that begins at or before
  the number of calls newer than it and ends after it, whichever way ties fall. Windows
  that meet partition the calls, hence the sums (`SumUnion`), hence the risks, because a
  flag names its call.
* *Speech.* Each pass keeps every text as often as it was (`KeepsTexts`,
  `AdaptedKeepsTexts`, `SortKeepsTexts`), and insertion keeps order (`PlaceKeepsOrder`);
  in an ordered transcript one segment contains an instant or none does, which is why a
  point colours what it lands in (`LastBegunLands`). Where no time is misread the k-th
  text heard is the k-th segment: the starts are in order already, and equal ones are
  put behind each other as they come.

The proofs changed three definitions. In `Match` the order of two calls of one time was
not a function of the calls, so nothing followed from one round about the next; `Latest`
now fixes it. The
assumption on `MaxBuckets` had no room for a window that begins late in its first bucket,
so a chart could have had a hole at the end. And sums were written as folds over sets with
an operator parameter, about which nothing can be proved; they are sums of functions now.

Model-checked only: all liveness, that is QueuedJobsSettle, UploadsAnalyzed,
SavedSettles, CallsReported and DashboardsReconnect (fairness and ENABLED are beyond the
prover). Every invariant and action property of a passing run is a theorem. No module
uses RECURSIVE.

## 7. Not modelled

* Wording and layout: pages, prompts, due-date phrases, filler lists and file-name
  parsing (its result, a time and a number either of which may be missing, is an input of
  `RecordingMatch`). They have no state and are best tested by examples.
* Model providers, their HTTP clients and the mock provider: outcomes only.
* Dashboard logins, users and roles, beyond the state of a dashboard's token: they keep
  no state that meets the rest. Creating an agent and editing its name, number or team: single writes.
* Retention across calls: the limit of 200 rows and their order.
* The container's alarm loop (`backend/worker/index.ts`): one more source of passes.
* `importRecording` and `importAll` of the importer, which nothing calls.
* The status the handset shows before the server has answered.
* Migrations, seeds, configuration; the constraints the models rely on are cited where
  they act.

## 8. Plan

Done: every part with state that section 1 names as hard, the pure parts behind the
dashboard, and the theorems of section 6. Left, in the order of what it would add:

1. An abstract specification of the handset's queue (saved, stored, given up), which
   `UploadQueue` refines and `CallLogSync` relies on.
2. `Exclusive` and `TakeTurns` taken apart: which theorems need which part.
3. Retention over several calls, with rows whose delete fails against the limit.
4. `Pipeline` with several keys per call, and the files no row refers to.
