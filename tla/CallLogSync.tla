----------------------------- MODULE CallLogSync -----------------------------
(***************************************************************************)
(* Reporting the phone's call log (mobile/src/lib/callLogService.ts): read  *)
(* the entries newer than a cursor, skip those in the ledger of reported    *)
(* ids, pair the rest with recordings in the dialler's folder, report each  *)
(* to POST /mobile/calls and queue its audio, then save the ledger and      *)
(* advance the cursor.                                                      *)
(*                                                                          *)
(* An action is what happens between two awaits, or one statement of the    *)
(* server's handler.  Nothing stops a second sync from starting: the home   *)
(* screen and the tracking screen both do.  The app may be killed between   *)
(* any two steps.                                                           *)
(***************************************************************************)
EXTENDS RecordingMatch, FiniteSets, SequencesExt

CONSTANTS
  Entries,      \* call-log rows: [id, at, num, kind]
  Recordings,   \* files of the recordings folder: [file, at, num]
  Syncs,        \* slots for syncCallLog calls under way together
  BatchSize,    \* BATCH_SIZE
  LedgerLimit,  \* LEDGER_LIMIT
  MayBeLate,    \* may a row be written after rows of calls that began later
  MaxTroubles   \* bound: requests and scans that fail, kills, new pairings,
                \* "Report every call again"

ASSUME CallLogSyncAssumption ==
  /\ \A e \in Entries : e.at \in Nat \ {0} /\ e.kind \in {"call", "other"}
  /\ BatchSize \in Nat \ {0} /\ LedgerLimit \in Nat \ {0}
  /\ MayBeLate \in BOOLEAN
  /\ MaxTroubles \in Nat

VARIABLES
  logged,     \* rows the call log has
  saved,      \* recordings the folder has
  cursor,     \* CURSOR_KEY; 0 stands for the start of the first window
  synced,     \* SYNCED_KEY: reported rows, oldest first
  imported,   \* the importer's ledger: recordings not offered again
  device,     \* device_id of the session: a new one with every pairing
  calls,      \* the external_ref of each Call row on the server
  queued,     \* pairs of a call and the recording queued for upload to it
  sync,       \* what each sync holds in its local variables
  failed,     \* history: entries whose report failed
  troubles    \* bound counter

phone == <<logged, saved, device>>
storage == <<cursor, synced, imported>>
vars == <<phone, storage, calls, queued, sync, failed, troubles>>

-----------------------------------------------------------------------------
(* The call log and the local variables of a sync                          *)

\* isReportable and hasUsableNumber
Reportable(e) == e.kind = "call" /\ Len(e.num) >= ShortDigits

UnreadFrom(c) == {e \in logged : e.at >= c}      \* variant: DATE >= ?
Unread(c) == {e \in logged : e.at > c}

\* ORDER BY date ASC LIMIT: rows of one instant come in any order.
IsFirst(B, S) ==
  /\ B \subseteq S
  /\ Cardinality(B) = Least(BatchSize, Cardinality(S))
  /\ \A e \in B, f \in S \ B : e.at <= f.at

NewestLogged(B, c) ==                            \* variant: the newest there is
  LET T == {c} \cup {e.at : e \in logged} IN CHOOSE t \in T : \A u \in T : u <= t

\* newestTimestamp(entries, cursor)
Newest(B, c) ==
  LET T == {c} \cup {e.at : e \in B} IN CHOOSE t \in T : \A u \in T : u <= t

Trouble == troubles < MaxTroubles /\ troubles' = troubles + 1

None == [id |-> 0]

NoSync == [at |-> "idle", device |-> 0, cursor |-> 0, batch |-> {}, synced |-> <<>>, todo |-> {},
           matched |-> {}, call |-> None, may |-> FALSE, ledger |-> {}]

\* callPayload: external_ref is log-<device>-<row id>, uq_calls_org_external_ref
\* admits one row for each.
Ref(s) == <<sync[s].device, sync[s].call>>

\* The server has a row for the entry, reported as whatever device.
Reported(e) == \E ref \in calls : ref[2] = e

WithAudio(s) == {p[1] : p \in sync[s].matched}

AudioOf(s) == (CHOOSE p \in sync[s].matched : p[1] = sync[s].call)[2]

\* Calls with a recording are reported first, each group in order of time.
Upcoming(s, c) ==
  /\ c \in sync[s].todo
  /\ \A o \in sync[s].todo :
       IF (o \in WithAudio(s)) = (c \in WithAudio(s)) THEN c.at <= o.at
                                                      ELSE c \in WithAudio(s)

Remembered(q, e) == IF e \in ToSet(q) THEN q ELSE Append(q, e)

\* [...ids].slice(-LEDGER_LIMIT)
AllIds(q) == q                                   \* variant: never trimmed
LastIds(q) == SubSeq(q, Len(q) - Least(LedgerLimit, Len(q)) + 1, Len(q))

-----------------------------------------------------------------------------
(* syncCallLog up to the reports                                           *)

SyncStart(s) ==
  /\ sync[s].at = "idle"
  /\ sync' = [sync EXCEPT ![s].at = "started", ![s].device = device,
                          ![s].cursor = cursor]
  /\ UNCHANGED <<phone, storage, calls, queued, failed, troubles>>

\* CallLog.getEntries; a sync that reads nothing returns.
SyncQuery(s) ==
  /\ sync[s].at = "started"
  /\ LET unread == Unread(sync[s].cursor)
     IN  IF unread = {}
           THEN sync' = [sync EXCEPT ![s] = NoSync]
           ELSE \E B \in SUBSET unread :
                  /\ IsFirst(B, unread)
                  /\ sync' = [sync EXCEPT ![s].at = "read", ![s].batch = B]
  /\ UNCHANGED <<phone, storage, calls, queued, failed, troubles>>

\* readSynced and prepareBatch
SyncPrepare(s) ==
  /\ sync[s].at = "read"
  /\ sync' = [sync EXCEPT
       ![s].at = "prepared",
       ![s].synced = synced,
       ![s].todo = {e \in sync[s].batch : Reportable(e) /\ e \notin ToSet(synced)}]
  /\ UNCHANGED <<phone, storage, calls, queued, failed, troubles>>

\* scanRecordingFolder and matchRecordingsToCalls
SyncMatch(s) ==
  /\ sync[s].at = "prepared"
  /\ sync' = [sync EXCEPT ![s].at = "reporting",
                          ![s].matched = Match(sync[s].todo, saved \ imported)]
  /\ UNCHANGED <<phone, storage, calls, queued, failed, troubles>>

\* Without access to the folder every call is reported without audio.
SyncMatchFails(s) ==
  /\ sync[s].at = "prepared"
  /\ Trouble
  /\ sync' = [sync EXCEPT ![s].at = "reporting"]
  /\ UNCHANGED <<phone, storage, calls, queued, failed>>

-----------------------------------------------------------------------------
(* reportCall, and log_call on the server                                  *)

\* A call with a recording asks the policy whether its audio may be sent.
ReportCall(s) ==
  /\ sync[s].at = "reporting"
  /\ \E c \in sync[s].todo :
       /\ Upcoming(s, c)
       /\ \E may \in (IF c \in WithAudio(s) THEN BOOLEAN ELSE {FALSE}) :
            sync' = [sync EXCEPT ![s].at = "posting", ![s].call = c, ![s].may = may]
  /\ UNCHANGED <<phone, storage, calls, queued, failed, troubles>>

\* log_call looks external_ref up; an existing row is the answer.
LogCallRead(s) ==
  /\ sync[s].at = "posting"
  /\ sync' = [sync EXCEPT ![s].at = IF Ref(s) \in calls THEN "answered" ELSE "inserting"]
  /\ UNCHANGED <<phone, storage, calls, queued, failed, troubles>>

\* reportCall returns: true puts the row in this sync's ledger.
ReportReturns(s, ok) ==
  /\ sync' = [sync EXCEPT ![s].at = "reporting", ![s].call = None, ![s].may = FALSE,
                          ![s].ledger = {}, ![s].todo = @ \ {sync[s].call},
                          ![s].synced = IF ok THEN Remembered(@, sync[s].call) ELSE @]
  /\ failed' = IF ok THEN failed ELSE failed \cup {sync[s].call}

\* A row inserted since is a conflict, and the report fails.
LogCallInsert(s) ==
  /\ sync[s].at = "inserting"
  /\ IF Ref(s) \in calls
       THEN ReportReturns(s, FALSE) /\ UNCHANGED calls
       ELSE /\ calls' = calls \cup {Ref(s)}
            /\ sync' = [sync EXCEPT ![s].at = "answered"]
            /\ UNCHANGED failed
  /\ UNCHANGED <<phone, storage, queued, troubles>>

\* No connection, no device token, a timeout, a refusal or a lost answer.
ReportFails(s) ==
  /\ sync[s].at \in {"posting", "inserting", "answered"}
  /\ Trouble
  /\ ReportReturns(s, FALSE)
  /\ UNCHANGED <<phone, storage, calls, queued>>

ReportWithoutAudio(s) ==
  /\ sync[s].at = "answered"
  /\ ~sync[s].may
  /\ ReportReturns(s, TRUE)
  /\ UNCHANGED <<phone, storage, calls, queued, troubles>>

\* uploadQueue.enqueue has returned: the entry is on disk.
QueueAudio(s) ==
  /\ sync[s].at = "answered"
  /\ sync[s].may
  /\ queued' = queued \cup {<<sync[s].call, AudioOf(s)>>}
  /\ sync' = [sync EXCEPT ![s].at = "queued"]
  /\ UNCHANGED <<phone, storage, calls, failed, troubles>>

MarkableEarly(s) == sync[s].at \in {"answered", "queued"} /\ sync[s].may   \* variant
Markable(s) == sync[s].at = "queued"

\* markImported reads the importer's ledger and writes it back.
MarkRead(s) ==
  /\ Markable(s)
  /\ sync' = [sync EXCEPT ![s].at = "marking", ![s].ledger = imported]
  /\ UNCHANGED <<phone, storage, calls, queued, failed, troubles>>

MarkWrite(s) ==
  /\ sync[s].at = "marking"
  /\ imported' = sync[s].ledger \cup {AudioOf(s)}
  /\ ReportReturns(s, TRUE)
  /\ UNCHANGED <<phone, cursor, synced, calls, queued, troubles>>

-----------------------------------------------------------------------------
(* The end of a sync, and the world around it                              *)

SyncSave(s) ==
  /\ sync[s].at = "reporting" /\ sync[s].todo = {}
  /\ synced' = LastIds(sync[s].synced)
  /\ sync' = [sync EXCEPT ![s].at = "saved"]
  /\ UNCHANGED <<phone, cursor, imported, calls, queued, failed, troubles>>

SyncAdvance(s) ==
  /\ sync[s].at = "saved"
  /\ cursor' = Newest(sync[s].batch, sync[s].cursor)
  /\ sync' = [sync EXCEPT ![s] = NoSync]
  /\ UNCHANGED <<phone, synced, imported, calls, queued, failed, troubles>>

\* A row carries the time its call began and its duration, so it is written
\* when the call ends.
CallLogged(e) ==
  /\ e \notin logged
  /\ MayBeLate \/ \A o \in logged : o.at <= e.at
  /\ logged' = logged \cup {e}
  /\ UNCHANGED <<saved, device, storage, calls, queued, sync, failed, troubles>>

RecordingSaved(r) ==
  /\ r \notin saved
  /\ saved' = saved \cup {r}
  /\ UNCHANGED <<logged, device, storage, calls, queued, sync, failed, troubles>>

\* The handset is unpaired and paired again.  The credentials are replaced, and
\* nothing else that is stored; a sync under way goes on with the id it was given.
Pair ==
  /\ Trouble
  /\ device' = device + 1
  /\ UNCHANGED <<logged, saved, storage, calls, queued, sync, failed>>

Kill ==
  /\ Trouble
  /\ \E s \in Syncs : sync[s].at # "idle"
  /\ sync' = [s \in Syncs |-> NoSync]
  /\ UNCHANGED <<phone, storage, calls, queued, failed>>

\* Settings, "Report every call again": two removals, done independently.
ResetSyncState ==
  /\ Trouble
  /\ cursor' = 0 /\ synced' = <<>>
  /\ UNCHANGED <<phone, imported, calls, queued, sync, failed>>

ResetLedger ==
  /\ Trouble
  /\ imported' = {}
  /\ UNCHANGED <<phone, cursor, synced, calls, queued, sync, failed>>

-----------------------------------------------------------------------------

Init ==
  /\ logged = {} /\ saved = {}
  /\ cursor = 0 /\ synced = <<>> /\ imported = {}
  /\ device = 1
  /\ calls = {}
  /\ queued = {}
  /\ sync = [s \in Syncs |-> NoSync]
  /\ failed = {}
  /\ troubles = 0

ReportStep(s) ==
  \/ ReportCall(s) \/ LogCallRead(s) \/ LogCallInsert(s)
  \/ ReportWithoutAudio(s) \/ QueueAudio(s) \/ MarkRead(s) \/ MarkWrite(s)

SyncStep(s) ==
  \/ SyncStart(s) \/ SyncQuery(s) \/ SyncPrepare(s) \/ SyncMatch(s)
  \/ ReportStep(s) \/ SyncSave(s) \/ SyncAdvance(s)

Next ==
  \/ \E s \in Syncs : SyncStep(s) \/ SyncMatchFails(s) \/ ReportFails(s)
  \/ \E e \in Entries : CallLogged(e)
  \/ \E r \in Recordings : RecordingSaved(r)
  \/ Pair \/ Kill \/ ResetSyncState \/ ResetLedger

Spec == Init /\ [][Next]_vars

\* The agent keeps opening the home screen, and every await of a sync returns.
Fairness == \A s \in Syncs : WF_vars(SyncStep(s))

FairSpec == Spec /\ Fairness
=============================================================================
