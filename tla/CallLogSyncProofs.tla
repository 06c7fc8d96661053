-------------------------- MODULE CallLogSyncProofs --------------------------
(***************************************************************************)
(* Theorems about CallLogSync for any call log, any recordings, any number *)
(* of syncs at once, any batch and ledger size and any number of troubles. *)
(***************************************************************************)
EXTENDS CallLogSyncProps, SequenceTheorems, WellFoundedInduction, TLAPS

-----------------------------------------------------------------------------
(* What a step does to the local variables of the syncs                    *)

IsSync(x) ==
  x = [at |-> x.at, device |-> x.device, cursor |-> x.cursor, batch |-> x.batch, synced |-> x.synced, todo |-> x.todo,
       matched |-> x.matched, call |-> x.call, may |-> x.may, ledger |-> x.ledger]

SyncsShaped == sync = [s \in Syncs |-> sync[s]] /\ \A s \in Syncs : IsSync(sync[s])

\* A report has returned: the sync goes on with the next call.
Returned(x, ok) ==
  [x EXCEPT !.at = "reporting", !.call = None, !.may = FALSE, !.ledger = {}, !.todo = @ \ {x.call},
            !.synced = IF ok THEN Remembered(@, x.call) ELSE @]

Edits(s, x) ==
  /\ sync'[s] = x
  /\ \A o \in Syncs \ {s} : sync'[o] = sync[o]
  /\ SyncsShaped'

LEMMA NoSyncShaped == IsSync(NoSync)
BY DEF IsSync, NoSync

LEMMA PrepareEdits ==
  ASSUME SyncsShaped, NEW s \in Syncs
  PROVE  /\ SyncStart(s) => Edits(s, [sync[s] EXCEPT !.at = "started", !.device = device, !.cursor = cursor])
         /\ SyncQuery(s) =>
              \/ Edits(s, NoSync)
              \/ \E B \in SUBSET Unread(sync[s].cursor) :
                   /\ IsFirst(B, Unread(sync[s].cursor))
                   /\ Edits(s, [sync[s] EXCEPT !.at = "read", !.batch = B])
         /\ SyncPrepare(s) =>
              Edits(s, [sync[s] EXCEPT !.at = "prepared", !.synced = synced,
                          !.todo = {e \in sync[s].batch : Reportable(e) /\ e \notin ToSet(synced)}])
         /\ SyncMatch(s) => \E m : Edits(s, [sync[s] EXCEPT !.at = "reporting", !.matched = m])
         /\ SyncMatchFails(s) => Edits(s, [sync[s] EXCEPT !.at = "reporting"])
<1> USE DEF SyncsShaped, IsSync, Edits
<1>1. ASSUME SyncStart(s) PROVE Edits(s, [sync[s] EXCEPT !.at = "started", !.device = device, !.cursor = cursor])
  BY <1>1 DEF SyncStart
<1>2. ASSUME SyncQuery(s)
      PROVE  \/ Edits(s, NoSync)
             \/ \E B \in SUBSET Unread(sync[s].cursor) :
                  /\ IsFirst(B, Unread(sync[s].cursor))
                  /\ Edits(s, [sync[s] EXCEPT !.at = "read", !.batch = B])
  <2>1. CASE sync' = [sync EXCEPT ![s] = NoSync]
    BY <2>1, NoSyncShaped
  <2>2. ASSUME NEW B \in SUBSET Unread(sync[s].cursor), IsFirst(B, Unread(sync[s].cursor)),
               sync' = [sync EXCEPT ![s].at = "read", ![s].batch = B]
        PROVE  Edits(s, [sync[s] EXCEPT !.at = "read", !.batch = B])
    BY <2>2
  <2> HIDE DEF Edits
  <2> QED BY <1>2, <2>1, <2>2 DEF SyncQuery
<1>3. ASSUME SyncPrepare(s)
      PROVE  Edits(s, [sync[s] EXCEPT !.at = "prepared", !.synced = synced,
                         !.todo = {e \in sync[s].batch : Reportable(e) /\ e \notin ToSet(synced)}])
  BY <1>3 DEF SyncPrepare
<1>4. ASSUME SyncMatch(s) PROVE \E m : Edits(s, [sync[s] EXCEPT !.at = "reporting", !.matched = m])
  BY <1>4 DEF SyncMatch
<1>5. ASSUME SyncMatchFails(s) PROVE Edits(s, [sync[s] EXCEPT !.at = "reporting"])
  BY <1>5 DEF SyncMatchFails
<1> HIDE DEF Edits
<1> QED BY <1>1, <1>2, <1>3, <1>4, <1>5

LEMMA ReportEdits ==
  ASSUME SyncsShaped, NEW s \in Syncs
  PROVE  /\ ReportCall(s) =>
              \E c \in sync[s].todo, may \in BOOLEAN :
                Edits(s, [sync[s] EXCEPT !.at = "posting", !.call = c, !.may = may])
         /\ LogCallRead(s) =>
              Edits(s, [sync[s] EXCEPT !.at = IF Ref(s) \in calls THEN "answered" ELSE "inserting"])
         /\ \A ok \in BOOLEAN : ReportReturns(s, ok) => Edits(s, Returned(sync[s], ok))
         /\ QueueAudio(s) => Edits(s, [sync[s] EXCEPT !.at = "queued"])
         /\ MarkRead(s) => Edits(s, [sync[s] EXCEPT !.at = "marking", !.ledger = imported])
         /\ SyncSave(s) => Edits(s, [sync[s] EXCEPT !.at = "saved"])
         /\ SyncAdvance(s) => Edits(s, NoSync)
         /\ sync' = [sync EXCEPT ![s].at = "answered"] => Edits(s, [sync[s] EXCEPT !.at = "answered"])
<1> USE DEF SyncsShaped, IsSync, Edits
<1>1. ASSUME ReportCall(s)
      PROVE  \E c \in sync[s].todo, may \in BOOLEAN :
               Edits(s, [sync[s] EXCEPT !.at = "posting", !.call = c, !.may = may])
  <2>1. ASSUME NEW c, NEW may, sync' = [sync EXCEPT ![s].at = "posting", ![s].call = c, ![s].may = may]
        PROVE  Edits(s, [sync[s] EXCEPT !.at = "posting", !.call = c, !.may = may])
    BY <2>1
  <2> HIDE DEF Edits
  <2> QED BY <1>1, <2>1 DEF ReportCall
<1>2. ASSUME LogCallRead(s)
      PROVE  Edits(s, [sync[s] EXCEPT !.at = IF Ref(s) \in calls THEN "answered" ELSE "inserting"])
  BY <1>2 DEF LogCallRead
<1>3. ASSUME NEW ok \in BOOLEAN, ReportReturns(s, ok) PROVE Edits(s, Returned(sync[s], ok))
  BY <1>3 DEF ReportReturns, Returned
<1>4. ASSUME QueueAudio(s) PROVE Edits(s, [sync[s] EXCEPT !.at = "queued"])
  BY <1>4 DEF QueueAudio
<1>5. ASSUME MarkRead(s) PROVE Edits(s, [sync[s] EXCEPT !.at = "marking", !.ledger = imported])
  BY <1>5 DEF MarkRead
<1>6. ASSUME SyncSave(s) PROVE Edits(s, [sync[s] EXCEPT !.at = "saved"])
  BY <1>6 DEF SyncSave
<1>7. ASSUME SyncAdvance(s) PROVE Edits(s, NoSync)
  BY <1>7, NoSyncShaped DEF SyncAdvance
<1>8. ASSUME sync' = [sync EXCEPT ![s].at = "answered"] PROVE Edits(s, [sync[s] EXCEPT !.at = "answered"])
  BY <1>8
<1> HIDE DEF Edits
<1> QED BY <1>1, <1>2, <1>3, <1>4, <1>5, <1>6, <1>7, <1>8
-----------------------------------------------------------------------------
(* What a sync works on, and recordings that are taken off the offer       *)

Reporting == {"posting", "inserting", "answered", "queued", "marking"}

Backed(r) == \E e \in Entries : <<e, r>> \in queued

SyncOwns(s) ==
  /\ sync[s].batch \subseteq logged
  /\ sync[s].todo \subseteq sync[s].batch
  /\ sync[s].at \in {"idle", "started"} => sync[s].batch = {}
  /\ sync[s].at \in Reporting => sync[s].call \in sync[s].todo
  /\ sync[s].at \in {"queued", "marking"} => <<sync[s].call, AudioOf(s)>> \in queued
  /\ \A r \in sync[s].ledger : Backed(r)

SyncInv ==
  /\ SyncsShaped
  /\ logged \subseteq Entries
  /\ \A r \in imported : Backed(r)
  /\ \A s \in Syncs : SyncOwns(s)

LEMMA BystanderOwns ==
  ASSUME NEW o \in Syncs, SyncOwns(o), sync'[o] = sync[o], logged \subseteq logged', queued \subseteq queued'
  PROVE  SyncOwns(o)'
BY DEF SyncOwns, Backed, AudioOf

LEMMA IdleOwns == ASSUME NEW s \in Syncs, sync[s] = NoSync PROVE SyncOwns(s)
BY DEF SyncOwns, NoSync, Reporting

LEMMA ReturnOwns ==
  ASSUME SyncInv, NEW s \in Syncs, NEW ok \in BOOLEAN, ReportReturns(s, ok), UNCHANGED <<logged, queued>>
  PROVE  SyncsShaped' /\ SyncOwns(s)' /\ \A o \in Syncs \ {s} : sync'[o] = sync[o]
<1>1. Edits(s, Returned(sync[s], ok))
  BY ReportEdits DEF SyncInv
<1>2. IsSync(sync[s]) /\ SyncOwns(s)
  BY DEF SyncInv, SyncsShaped
<1>3. /\ sync'[s].at = "reporting" /\ sync'[s].batch = sync[s].batch /\ sync'[s].ledger = {}
      /\ sync'[s].todo \subseteq sync[s].todo
  BY <1>1, <1>2 DEF Edits, Returned, IsSync
<1> QED BY <1>1, <1>2, <1>3 DEF Edits, SyncOwns, Reporting

LEMMA PrepareOwns ==
  ASSUME SyncInv, NEW s \in Syncs,
         SyncStart(s) \/ SyncQuery(s) \/ SyncPrepare(s) \/ SyncMatch(s) \/ SyncMatchFails(s)
  PROVE  SyncsShaped' /\ SyncOwns(s)' /\ \A o \in Syncs \ {s} : sync'[o] = sync[o]
<1>0. IsSync(sync[s]) /\ SyncOwns(s) /\ SyncsShaped
  BY DEF SyncInv, SyncsShaped
<1>1. UNCHANGED <<logged, queued>>
  BY DEF SyncStart, SyncQuery, SyncPrepare, SyncMatch, SyncMatchFails, phone
<1>2. CASE SyncQuery(s) /\ Edits(s, NoSync)
  BY <1>2, IdleOwns DEF Edits, SyncOwns, NoSync, Reporting
<1>3. ASSUME NEW x, Edits(s, x), x.at \notin Reporting, x.ledger = sync[s].ledger,
             x.batch \subseteq logged, x.todo \subseteq x.batch, x.at \in {"idle", "started"} => x.batch = {}
      PROVE  SyncsShaped' /\ SyncOwns(s)' /\ \A o \in Syncs \ {s} : sync'[o] = sync[o]
  BY <1>0, <1>1, <1>3 DEF Edits, SyncOwns, Reporting, Backed
<1>4. CASE SyncStart(s)
  <2>1. Edits(s, [sync[s] EXCEPT !.at = "started", !.device = device, !.cursor = cursor]) /\ sync[s].at = "idle"
    BY <1>0, <1>4, PrepareEdits DEF SyncStart
  <2> QED BY <1>0, <1>3, <2>1 DEF IsSync, SyncOwns, Reporting
<1>5. CASE SyncQuery(s) /\ ~Edits(s, NoSync)
  <2>1. PICK B \in SUBSET Unread(sync[s].cursor) : Edits(s, [sync[s] EXCEPT !.at = "read", !.batch = B])
    BY <1>0, <1>5, PrepareEdits
  <2>2. sync[s].todo = {}
    BY <1>0, <1>5 DEF SyncQuery, SyncOwns
  <2> QED BY <1>0, <1>3, <2>1, <2>2 DEF IsSync, Reporting, Unread
<1>6. CASE SyncPrepare(s)
  <2>1. Edits(s, [sync[s] EXCEPT !.at = "prepared", !.synced = synced,
                    !.todo = {e \in sync[s].batch : Reportable(e) /\ e \notin ToSet(synced)}])
    BY <1>0, <1>6, PrepareEdits
  <2> QED BY <1>0, <1>3, <2>1 DEF IsSync, Reporting, SyncOwns
<1>7. CASE SyncMatch(s) \/ SyncMatchFails(s)
  <2>1. CASE SyncMatch(s)
    <3>1. PICK m : Edits(s, [sync[s] EXCEPT !.at = "reporting", !.matched = m])
      BY <1>0, <2>1, PrepareEdits
    <3> QED BY <1>0, <1>3, <3>1 DEF IsSync, Reporting, SyncOwns
  <2>2. CASE SyncMatchFails(s)
    <3>1. Edits(s, [sync[s] EXCEPT !.at = "reporting"])
      BY <1>0, <2>2, PrepareEdits
    <3> QED BY <1>0, <1>3, <3>1 DEF IsSync, Reporting, SyncOwns
  <2> QED BY <1>7, <2>1, <2>2
<1> QED BY <1>2, <1>4, <1>5, <1>6, <1>7

LEMMA ReportOwns ==
  ASSUME SyncInv, NEW s \in Syncs, ReportStep(s) \/ ReportFails(s) \/ SyncSave(s) \/ SyncAdvance(s)
  PROVE  SyncsShaped' /\ SyncOwns(s)' /\ \A o \in Syncs \ {s} : sync'[o] = sync[o]
<1>0. IsSync(sync[s]) /\ SyncOwns(s) /\ SyncsShaped
  BY DEF SyncInv, SyncsShaped
<1>1. UNCHANGED logged /\ queued \subseteq queued'
  BY DEF ReportStep, ReportCall, LogCallRead, LogCallInsert, ReportFails, ReportWithoutAudio, QueueAudio, MarkRead,
         MarkWrite, SyncSave, SyncAdvance, phone
<1>2. ASSUME NEW ok \in BOOLEAN, ReportReturns(s, ok), UNCHANGED queued
      PROVE  SyncsShaped' /\ SyncOwns(s)' /\ \A o \in Syncs \ {s} : sync'[o] = sync[o]
  BY <1>1, <1>2, ReturnOwns
<1>3. ASSUME NEW x, Edits(s, x), x.at \notin {"idle", "started"}, x.batch = sync[s].batch, x.todo = sync[s].todo,
             \A r \in x.ledger : Backed(r), x.matched = sync[s].matched,
             x.at \in Reporting => x.call \in x.todo,
             x.at \in {"queued", "marking"} => x.call = sync[s].call /\ <<sync[s].call, AudioOf(s)>> \in queued'
      PROVE  SyncsShaped' /\ SyncOwns(s)' /\ \A o \in Syncs \ {s} : sync'[o] = sync[o]
  <2>1. SyncsShaped' /\ sync'[s] = x /\ \A o \in Syncs \ {s} : sync'[o] = sync[o]
    BY <1>3 DEF Edits
  <2>2. \A r \in x.ledger : Backed(r)'
    BY <1>1, <1>3 DEF Backed
  <2>3. x.at \in {"queued", "marking"} => <<x.call, AudioOf(s)'>> \in queued'
    BY <1>3, <2>1 DEF AudioOf
  <2> QED BY <1>0, <1>1, <1>3, <2>1, <2>2, <2>3 DEF SyncOwns
<1>4. CASE ReportCall(s)
  <2>1. PICK c \in sync[s].todo, may \in BOOLEAN :
          Edits(s, [sync[s] EXCEPT !.at = "posting", !.call = c, !.may = may])
    BY <1>0, <1>4, ReportEdits
  <2> QED BY <1>0, <1>3, <2>1 DEF IsSync, SyncOwns
<1>5. CASE LogCallRead(s)
  <2>1. Edits(s, [sync[s] EXCEPT !.at = IF Ref(s) \in calls THEN "answered" ELSE "inserting"])
        /\ sync[s].at = "posting"
    BY <1>0, <1>5, ReportEdits DEF LogCallRead
  <2> QED BY <1>0, <1>3, <2>1 DEF IsSync, SyncOwns, Reporting
<1>6. CASE LogCallInsert(s)
  <2>1. CASE ReportReturns(s, FALSE)
    BY <1>2, <1>6, <2>1 DEF LogCallInsert
  <2>2. CASE sync' = [sync EXCEPT ![s].at = "answered"]
    <3>1. Edits(s, [sync[s] EXCEPT !.at = "answered"]) /\ sync[s].at = "inserting"
      BY <1>0, <1>6, <2>2, ReportEdits DEF LogCallInsert
    <3> QED BY <1>0, <1>3, <3>1 DEF IsSync, SyncOwns, Reporting
  <2> QED BY <1>6, <2>1, <2>2 DEF LogCallInsert
<1>7. CASE ReportFails(s) \/ ReportWithoutAudio(s)
  BY <1>2, <1>7 DEF ReportFails, ReportWithoutAudio
<1>8. CASE QueueAudio(s)
  <2>1. /\ Edits(s, [sync[s] EXCEPT !.at = "queued"])
        /\ sync[s].at = "answered" /\ <<sync[s].call, AudioOf(s)>> \in queued'
    BY <1>0, <1>8, ReportEdits DEF QueueAudio
  <2> QED BY <1>0, <1>3, <2>1 DEF IsSync, SyncOwns, Reporting
<1>9. CASE MarkRead(s)
  <2>1. Edits(s, [sync[s] EXCEPT !.at = "marking", !.ledger = imported]) /\ sync[s].at = "queued"
    BY <1>0, <1>9, ReportEdits DEF MarkRead, Markable
  <2>2. \A r \in imported : Backed(r)
    BY DEF SyncInv
  <2> QED BY <1>0, <1>1, <1>3, <2>1, <2>2 DEF IsSync, SyncOwns, Reporting
<1>10. CASE MarkWrite(s)
  BY <1>2, <1>10 DEF MarkWrite
<1>11. CASE SyncSave(s)
  <2>1. Edits(s, [sync[s] EXCEPT !.at = "saved"])
    BY <1>0, <1>11, ReportEdits
  <2> QED BY <1>0, <1>3, <2>1 DEF IsSync, SyncOwns, Reporting
<1>12. CASE SyncAdvance(s)
  <2>1. Edits(s, NoSync)
    BY <1>0, <1>12, ReportEdits
  <2> QED BY <2>1, IdleOwns DEF Edits, SyncOwns, NoSync, Reporting
<1> QED BY <1>4, <1>5, <1>6, <1>7, <1>8, <1>9, <1>10, <1>11, <1>12 DEF ReportStep

LEMMA NextSyncInv == SyncInv /\ [Next]_vars => SyncInv'
<1> SUFFICES ASSUME SyncInv, [Next]_vars PROVE SyncInv'
  OBVIOUS
<1>1. ASSUME NEW s \in Syncs, SyncStep(s) \/ SyncMatchFails(s) \/ ReportFails(s) PROVE SyncInv'
  <2>1. SyncsShaped' /\ SyncOwns(s)' /\ \A o \in Syncs \ {s} : sync'[o] = sync[o]
    BY <1>1, PrepareOwns, ReportOwns DEF SyncStep
  <2>2. UNCHANGED logged /\ queued \subseteq queued'
    BY <1>1 DEF SyncStep, ReportStep, SyncStart, SyncQuery, SyncPrepare, SyncMatch, SyncMatchFails, ReportCall,
      LogCallRead, LogCallInsert, ReportFails, ReportWithoutAudio, QueueAudio, MarkRead, MarkWrite, SyncSave,
      SyncAdvance, phone
  <2>3. \A r \in imported' : r \in imported \/ Backed(r)
    <3>1. CASE MarkWrite(s)
      <4>1. imported' = sync[s].ledger \cup {AudioOf(s)} /\ sync[s].at = "marking"
        BY <3>1 DEF MarkWrite
      <4>2. <<sync[s].call, AudioOf(s)>> \in queued /\ sync[s].call \in Entries
        BY <4>1 DEF SyncInv, SyncOwns, Reporting
      <4> QED BY <4>1, <4>2 DEF SyncInv, SyncOwns, Backed
    <3>2. CASE ~MarkWrite(s)
      BY <1>1, <3>2 DEF SyncStep, ReportStep, SyncStart, SyncQuery, SyncPrepare, SyncMatch, SyncMatchFails,
        ReportCall, LogCallRead, LogCallInsert, ReportFails, ReportWithoutAudio, QueueAudio, MarkRead, SyncSave,
        SyncAdvance, storage
    <3> QED BY <3>1, <3>2
  <2>4. \A r \in imported' : Backed(r)'
    BY <2>2, <2>3 DEF SyncInv, Backed
  <2> QED BY <2>1, <2>2, <2>4, BystanderOwns DEF SyncInv
<1>2. CASE Kill
  <2>1. sync' = [s \in Syncs |-> NoSync] /\ UNCHANGED <<logged, imported, queued>>
    BY <1>2 DEF Kill, phone, storage
  <2>2. SyncsShaped' /\ \A s \in Syncs : SyncOwns(s)'
    BY <2>1, NoSyncShaped DEF SyncsShaped, SyncOwns, NoSync, Reporting
  <2> QED BY <2>1, <2>2 DEF SyncInv, Backed
<1>3. CASE \/ Pair \/ ResetSyncState \/ ResetLedger \/ UNCHANGED vars
           \/ \E e \in Entries : CallLogged(e)
           \/ \E r \in Recordings : RecordingSaved(r)
  <2>1. UNCHANGED <<sync, queued>> /\ logged \subseteq logged' /\ logged' \subseteq Entries /\ imported' \subseteq imported
    BY <1>3 DEF Pair, ResetSyncState, ResetLedger, CallLogged, RecordingSaved, vars, phone, storage, SyncInv
  <2>2. SyncsShaped' /\ \A s \in Syncs : SyncOwns(s)'
    BY <2>1, BystanderOwns DEF SyncInv, SyncsShaped
  <2> QED BY <2>1, <2>2 DEF SyncInv, Backed
<1> QED BY <1>1, <1>2, <1>3 DEF Next

LEMMA InitSyncInv == Init => SyncInv
BY NoSyncShaped, IdleOwns DEF Init, SyncInv, SyncsShaped

\* A recording the importer does not offer again is on the upload queue, with
\* any number of syncs at once, killed or reset at any step.
THEOREM ImportedAreQueued == Spec => []ImportedIsQueued
<1>1. SyncInv => ImportedIsQueued
  BY DEF SyncInv, ImportedIsQueued, Backed
<1> QED BY InitSyncInv, NextSyncInv, <1>1, PTL DEF Spec
-----------------------------------------------------------------------------
(* What the cursor and the ledger have passed                              *)

\* Rows are written in the order of their times, no two bear the same time, and
\* times are bounded.
InOrder ==
  /\ ~MayBeLate
  /\ \A e, f \in Entries : e.at = f.at => e = f
  /\ \E m \in Nat : \A e \in Entries : e.at <= m

LEMMA GreatestExists ==
  ASSUME NEW T \in SUBSET Nat, T # {}, NEW m \in Nat, \A t \in T : t <= m
  PROVE  \E t \in T : \A u \in T : u <= t
<1> DEFINE Bounds == {n \in Nat : \A t \in T : t <= n}
<1>1. \E n \in Bounds : \A k \in Bounds : ~(k < n)
  <2>1. Bounds \subseteq Nat /\ m \in Bounds
    OBVIOUS
  <2> HIDE DEF Bounds
  <2>2. PICK n \in Bounds : \A k \in Bounds : ~(<<k, n>> \in OpToRel(<, Nat))
    BY <2>1, NatLessThanWellFounded, WFMin
  <2>3. \A k \in Bounds : ~(k < n)
    BY <2>1, <2>2 DEF OpToRel
  <2> QED BY <2>3, Zenon
<1>2. PICK n \in Bounds : \A k \in Bounds : ~(k < n)
  BY <1>1
<1>3. n \in T
  <2> SUFFICES ASSUME n \notin T PROVE FALSE
    OBVIOUS
  <2>1. \A t \in T : t < n
    BY <1>2
  <2>2. PICK u \in T : u \in Nat /\ u < n
    BY <2>1
  <2>3. n \in Nat /\ n # 0
    BY <1>2, <2>2
  <2>4. n - 1 \in Nat /\ \A t \in T : t <= n - 1
    BY <2>1, <2>3
  <2> QED BY <1>2, <2>3, <2>4
<1> QED BY <1>2, <1>3

LEMMA NewestBounds ==
  ASSUME InOrder, NEW B \in SUBSET Entries, NEW c \in Nat
  PROVE  /\ Newest(B, c) \in {c} \cup {e.at : e \in B}
         /\ c <= Newest(B, c) /\ \A e \in B : e.at <= Newest(B, c)
<1> DEFINE T == {c} \cup {e.at : e \in B}
<1>1. T \in SUBSET Nat
  BY CallLogSyncAssumption
<1>2. PICK m \in Nat : \A e \in Entries : e.at <= m
  BY DEF InOrder
<1>3. \E k \in Nat : \A t \in T : t <= k
  <2>1. CASE c <= m
    BY <1>1, <1>2, <2>1
  <2>2. CASE m < c
    BY <1>1, <1>2, <2>2, CallLogSyncAssumption
  <2> QED BY <2>1, <2>2
<1>4. \E t \in T : \A u \in T : u <= t
  BY <1>1, <1>3, GreatestExists
<1>5. Newest(B, c) = CHOOSE t \in T : \A u \in T : u <= t
  BY DEF Newest
<1>6. Newest(B, c) \in T /\ \A u \in T : u <= Newest(B, c)
  BY <1>4, <1>5
<1> QED BY <1>6

\* What the step makes of the server's rows.
Lands(e) == \E ref \in calls' : ref[2] = e

Sound(e) == Reportable(e) => Reported(e) \/ e \in failed

Passed(c) ==
  /\ c \in Nat
  /\ c = 0 \/ \E o \in logged : o.at = c
  /\ \A e \in logged : e.at <= c => Sound(e)

LedgerSound(q) == q \in Seq(Entries) /\ \A e \in ToSet(q) : Sound(e)

SyncSound(s) ==
  /\ Passed(sync[s].cursor)
  /\ LedgerSound(sync[s].synced)
  /\ \A e \in logged, b \in sync[s].batch : e.at <= b.at => e.at <= sync[s].cursor \/ e \in sync[s].batch
  /\ sync[s].at \in {"prepared", "reporting", "saved"} \cup Reporting =>
       \A e \in sync[s].batch : Reportable(e) => e \in sync[s].todo \/ Sound(e)
  /\ sync[s].at = "saved" => sync[s].todo = {}
  /\ sync[s].at \in {"answered", "queued", "marking"} => Reported(sync[s].call)

SkipInv == Passed(cursor) /\ LedgerSound(synced) /\ \A s \in Syncs : SyncSound(s)

\* The ledger of a sync after a report, and what LastIds keeps of it.
LEMMA RememberedSound ==
  ASSUME NEW q, LedgerSound(q), NEW e \in Entries, Sound(e)
  PROVE  LedgerSound(Remembered(q, e))
<1>1. CASE e \in ToSet(q)
  BY <1>1 DEF Remembered
<1>2. CASE e \notin ToSet(q)
  <2>1. Remembered(q, e) = Append(q, e) /\ q \in Seq(Entries)
    BY <1>2 DEF Remembered, LedgerSound
  <2>2. Append(q, e) \in Seq(Entries) /\ ToSet(Append(q, e)) \subseteq ToSet(q) \cup {e}
    BY <2>1, AppendProperties DEF ToSet
  <2> QED BY <2>1, <2>2 DEF LedgerSound
<1> QED BY <1>1, <1>2

LEMMA LastIdsSound ==
  ASSUME NEW q, LedgerSound(q)
  PROVE  LedgerSound(LastIds(q))
<1> DEFINE m == Len(q) - Least(LedgerLimit, Len(q)) + 1
           n == Len(q)
<1>1. q \in Seq(Entries) /\ n \in Nat /\ m \in Int /\ 1 <= m
  BY CallLogSyncAssumption DEF LedgerSound, Least
<1>2. \A i \in m .. n : q[i] \in Entries /\ q[i] \in ToSet(q)
  BY <1>1 DEF ToSet
<1>3. /\ SubSeq(q, m, n) \in Seq(Entries)
      /\ Len(SubSeq(q, m, n)) = IF m <= n THEN n - m + 1 ELSE 0
      /\ \A i \in 1 .. n - m + 1 : SubSeq(q, m, n)[i] = q[m + i - 1]
  <2> HIDE DEF m, n
  <2> QED BY <1>1, <1>2, SubSeqProperties
<1>4. ToSet(SubSeq(q, m, n)) \subseteq ToSet(q)
  <2> SUFFICES ASSUME NEW i \in DOMAIN SubSeq(q, m, n) PROVE SubSeq(q, m, n)[i] \in ToSet(q)
    BY DEF ToSet
  <2> HIDE DEF m, n
  <2>1. m <= n /\ i \in 1 .. n - m + 1 /\ m + i - 1 \in m .. n
    BY <1>1, <1>3
  <2> QED BY <1>2, <1>3, <2>1
<1> QED BY <1>3, <1>4 DEF LedgerSound, LastIds

\* What was sound stays so: rows are not deleted and failures not forgotten.
SoundStays ==
  /\ UNCHANGED logged
  /\ \A e \in Entries : (Sound(e) => Sound(e)') /\ (Reported(e) => Reported(e)')

LEMMA LedgerStays ==
  ASSUME SoundStays, NEW q, LedgerSound(q)
  PROVE  LedgerSound(q)'
<1>1. \A e \in ToSet(q) : e \in Entries
  BY DEF LedgerSound, ToSet
<1> QED BY <1>1 DEF LedgerSound, SoundStays

LEMMA BystanderSound ==
  ASSUME SyncInv, SoundStays, NEW s \in Syncs, SyncSound(s), sync'[s] = sync[s]
  PROVE  SyncSound(s)'
<1>0. /\ sync[s].batch \subseteq Entries /\ logged' = logged
      /\ sync[s].at \in Reporting => sync[s].call \in Entries
  BY DEF SyncInv, SyncOwns, SoundStays
<1>1. Passed(sync[s].cursor)'
  BY DEF SyncInv, SoundStays, SyncSound, Passed
<1>4. LedgerSound(sync[s].synced)'
  <2>1. \A e \in ToSet(sync[s].synced) : e \in Entries
    BY DEF SyncSound, LedgerSound, ToSet
  <2> QED BY <2>1 DEF SoundStays, SyncSound, LedgerSound
<1>2. sync[s].at \in {"prepared", "reporting", "saved"} \cup Reporting =>
        \A e \in sync[s].batch : Reportable(e) => e \in sync[s].todo \/ Sound(e)'
  BY <1>0 DEF SyncSound, SoundStays
<1>3. sync[s].at \in {"answered", "queued", "marking"} => Lands(sync[s].call)
  BY <1>0 DEF SyncSound, SoundStays, Reporting, Reported, Lands
<1> QED BY <1>0, <1>1, <1>2, <1>3, <1>4 DEF SyncSound, Reporting, Reported, Lands

LEMMA IdleSound == ASSUME NEW s \in Syncs, sync[s] = NoSync, logged \subseteq Entries PROVE SyncSound(s)
<1>1. Passed(0)
  BY CallLogSyncAssumption DEF Passed
<1>2. LedgerSound(<<>>)
  BY DEF LedgerSound, ToSet
<1> QED BY <1>1, <1>2 DEF SyncSound, NoSync, Reporting

\* The entries up to the newest of a batch are those up to its cursor and those
\* of the batch.
LEMMA BatchClosed ==
  ASSUME SyncInv, InOrder, NEW c \in Nat, NEW B \in SUBSET Unread(c), IsFirst(B, Unread(c))
  PROVE  \A e \in logged, b \in B : e.at <= b.at => e.at <= c \/ e \in B
<1> SUFFICES ASSUME NEW e \in logged, NEW b \in B, e.at <= b.at, ~(e.at <= c), e \notin B PROVE FALSE
  OBVIOUS
<1>1. e \in Entries /\ b \in Entries /\ e.at \in Nat /\ b.at \in Nat
  BY CallLogSyncAssumption DEF SyncInv, Unread
<1>2. e \in Unread(c) \ B
  BY <1>1 DEF Unread
<1>3. b.at <= e.at
  BY <1>2 DEF IsFirst
<1> QED BY <1>1, <1>3 DEF InOrder

LEMMA SyncKeepsSound ==
  ASSUME SyncInv, NEW s \in Syncs, SyncStep(s) \/ SyncMatchFails(s) \/ ReportFails(s)
  PROVE  SoundStays
<1>1. UNCHANGED logged
  BY DEF SyncStep, ReportStep, SyncStart, SyncQuery, SyncPrepare, SyncMatch, SyncMatchFails, ReportCall,
    LogCallRead, LogCallInsert, ReportFails, ReportWithoutAudio, QueueAudio, MarkRead, MarkWrite, SyncSave,
    SyncAdvance, phone
<1>2. failed \subseteq failed'
  BY DEF SyncStep, ReportStep, SyncStart, SyncQuery, SyncPrepare, SyncMatch, SyncMatchFails, ReportCall,
    LogCallRead, LogCallInsert, ReportFails, ReportWithoutAudio, QueueAudio, MarkRead, MarkWrite, SyncSave,
    SyncAdvance, ReportReturns
<1>3. calls \subseteq calls'
  BY DEF SyncStep, ReportStep, SyncStart, SyncQuery, SyncPrepare, SyncMatch, SyncMatchFails, ReportCall,
    LogCallRead, LogCallInsert, ReportFails, ReportWithoutAudio, QueueAudio, MarkRead, MarkWrite, SyncSave,
    SyncAdvance
<1> QED BY <1>1, <1>2, <1>3 DEF SoundStays, Sound, Reported

\* What the new local variables x of a sync have to satisfy.
Keeps(x) ==
  /\ Passed(x.cursor)
  /\ LedgerSound(x.synced)
  /\ \A e \in logged, b \in x.batch : e.at <= b.at => e.at <= x.cursor \/ e \in x.batch
  /\ x.at \in {"prepared", "reporting", "saved"} \cup Reporting =>
       \A e \in x.batch : Reportable(e) => e \in x.todo \/ Sound(e)'
  /\ x.at = "saved" => x.todo = {}
  /\ x.at \in {"answered", "queued", "marking"} => Lands(x.call)

LEMMA EditSound ==
  ASSUME SyncInv, SoundStays, NEW s \in Syncs, NEW x, Edits(s, x), Keeps(x)
  PROVE  SyncSound(s)'
<1> USE DEF Keeps
<1>1. sync'[s] = x /\ logged' = logged
  BY DEF Edits, SoundStays
<1>2. Passed(x.cursor)'
  BY DEF SyncInv, SoundStays, Passed
<1>3. LedgerSound(x.synced)'
  <2>1. \A e \in ToSet(x.synced) : e \in Entries
    BY DEF LedgerSound, ToSet
  <2> QED BY <2>1 DEF SoundStays, LedgerSound
<1>4. Passed(sync[s].cursor)' /\ LedgerSound(sync[s].synced)'
  BY <1>1, <1>2, <1>3 DEF Passed, LedgerSound
<1> QED BY <1>1, <1>4 DEF SyncSound, Reporting, Reported, Lands

LEMMA PrepareSound ==
  ASSUME SyncInv, SkipInv, InOrder, SoundStays, NEW s \in Syncs,
         SyncStart(s) \/ SyncQuery(s) \/ SyncPrepare(s) \/ SyncMatch(s) \/ SyncMatchFails(s)
  PROVE  SyncSound(s)'
<1>0. IsSync(sync[s]) /\ SyncOwns(s) /\ SyncsShaped /\ SyncSound(s)
  BY DEF SyncInv, SyncsShaped, SkipInv
<1>1. logged' = logged /\ logged \subseteq Entries
  BY DEF SoundStays, SyncInv
<1>2. CASE Edits(s, NoSync)
  BY <1>1, <1>2, CallLogSyncAssumption DEF Edits, SyncSound, Passed, LedgerSound, NoSync, Reporting, ToSet
<1>3. CASE SyncStart(s)
  <2> DEFINE x == [sync[s] EXCEPT !.at = "started", !.device = device, !.cursor = cursor]
  <2>1. Edits(s, x) /\ sync[s].batch = {}
    BY <1>0, <1>3, PrepareEdits DEF SyncStart, SyncOwns
  <2>2. x.at = "started" /\ x.cursor = cursor /\ x.synced = sync[s].synced /\ x.batch = sync[s].batch
    BY <1>0 DEF IsSync
  <2> HIDE DEF x
  <2>3. Keeps(x)
    BY <1>0, <2>1, <2>2 DEF Keeps, SyncSound, SkipInv, Reporting
  <2> QED BY <2>1, <2>3, EditSound
<1>4. CASE SyncQuery(s) /\ ~Edits(s, NoSync)
  <2>1. PICK B \in SUBSET Unread(sync[s].cursor) :
          IsFirst(B, Unread(sync[s].cursor)) /\ Edits(s, [sync[s] EXCEPT !.at = "read", !.batch = B])
    BY <1>0, <1>4, PrepareEdits
  <2> DEFINE x == [sync[s] EXCEPT !.at = "read", !.batch = B]
  <2>2. x.at = "read" /\ x.cursor = sync[s].cursor /\ x.synced = sync[s].synced /\ x.batch = B
    BY <1>0 DEF IsSync
  <2> HIDE DEF x
  <2>3. \A e \in logged, b \in B : e.at <= b.at => e.at <= sync[s].cursor \/ e \in B
    <3>1. sync[s].cursor \in Nat
      BY <1>0 DEF SyncSound, Passed
    <3> QED BY <2>1, <3>1, BatchClosed
  <2>4. Keeps(x)
    BY <1>0, <2>2, <2>3 DEF Keeps, SyncSound, Reporting
  <2> QED BY <2>1, <2>4, EditSound DEF x
<1>5. CASE SyncPrepare(s)
  <2> DEFINE x == [sync[s] EXCEPT !.at = "prepared", !.synced = synced,
                     !.todo = {e \in sync[s].batch : Reportable(e) /\ e \notin ToSet(synced)}]
  <2>1. Edits(s, x)
    BY <1>0, <1>5, PrepareEdits
  <2>2. /\ x.at = "prepared" /\ x.cursor = sync[s].cursor /\ x.synced = synced /\ x.batch = sync[s].batch
        /\ x.todo = {e \in sync[s].batch : Reportable(e) /\ e \notin ToSet(synced)}
    BY <1>0 DEF IsSync
  <2> HIDE DEF x
  <2>3. \A e \in sync[s].batch : e \in ToSet(synced) => Sound(e)'
    BY <1>0, <1>1 DEF SkipInv, LedgerSound, SoundStays, SyncOwns
  <2>4. Keeps(x)
    BY <1>0, <2>2, <2>3 DEF Keeps, SyncSound, SkipInv, Reporting
  <2> QED BY <2>1, <2>4, EditSound
<1>6. CASE SyncMatch(s) \/ SyncMatchFails(s)
  <2>1. sync[s].at = "prepared"
    BY <1>6 DEF SyncMatch, SyncMatchFails
  <2>2. \A e \in sync[s].batch : Reportable(e) => e \in sync[s].todo \/ Sound(e)'
    BY <1>0, <1>1, <2>1 DEF SyncSound, SoundStays, SyncOwns
  <2>3. ASSUME NEW x, Edits(s, x), x.at = "reporting", x.cursor = sync[s].cursor, x.synced = sync[s].synced,
               x.batch = sync[s].batch, x.todo = sync[s].todo
        PROVE  SyncSound(s)'
    <3>1. Keeps(x)
      BY <1>0, <2>2, <2>3 DEF Keeps, SyncSound
    <3> QED BY <2>3, <3>1, EditSound
  <2>4. CASE SyncMatch(s)
    <3>1. PICK m : Edits(s, [sync[s] EXCEPT !.at = "reporting", !.matched = m])
      BY <1>0, <2>4, PrepareEdits
    <3> QED BY <1>0, <2>3, <3>1 DEF IsSync
  <2>5. CASE SyncMatchFails(s)
    <3>1. Edits(s, [sync[s] EXCEPT !.at = "reporting"])
      BY <1>0, <2>5, PrepareEdits
    <3> QED BY <1>0, <2>3, <3>1 DEF IsSync
  <2> QED BY <1>6, <2>4, <2>5
<1> QED BY <1>0, <1>2, <1>3, <1>4, <1>5, <1>6

LEMMA ReturnSound ==
  ASSUME SyncInv, SkipInv, SoundStays, NEW s \in Syncs, sync[s].at \in Reporting,
         NEW ok \in BOOLEAN, ReportReturns(s, ok), ok => Reported(sync[s].call)
  PROVE  SyncSound(s)'
<1> DEFINE x == Returned(sync[s], ok)
<1>9. PICK c \in Entries : c = sync[s].call
  BY DEF SyncInv, SyncOwns
<1>0. IsSync(sync[s]) /\ SyncOwns(s) /\ SyncSound(s) /\ Edits(s, x)
  BY ReportEdits DEF SyncInv, SyncsShaped, SkipInv
<1>1. /\ x.at = "reporting" /\ x.cursor = sync[s].cursor /\ x.batch = sync[s].batch
      /\ x.todo = sync[s].todo \ {c} /\ x.synced = (IF ok THEN Remembered(sync[s].synced, c) ELSE sync[s].synced)
  BY <1>0, <1>9 DEF IsSync, Returned
<1> HIDE DEF x
<1>2. LedgerSound(x.synced)
  <2>1. ok => Sound(c)
    BY <1>9 DEF Sound
  <2> QED BY <1>0, <1>1, <2>1, RememberedSound DEF SyncSound
<1>3. Sound(c)'
  <2>1. CASE ok
    BY <1>9, <2>1 DEF SoundStays, Sound
  <2>2. CASE ~ok
    BY <1>9, <2>2 DEF ReportReturns, Sound
  <2> QED BY <2>1, <2>2
<1>4. \A e \in sync[s].batch : Reportable(e) => e \in sync[s].todo \/ Sound(e)'
  BY <1>0 DEF SyncSound, SoundStays, SyncOwns, SyncInv
<1>5. \A e \in x.batch : Reportable(e) => e \in x.todo \/ Sound(e)'
  BY <1>1, <1>3, <1>4
<1>6. Keeps(x)
  BY <1>0, <1>1, <1>2, <1>5 DEF Keeps, SyncSound
<1> QED BY <1>0, <1>6, EditSound

LEMMA ReportSound ==
  ASSUME SyncInv, SkipInv, SoundStays, NEW s \in Syncs,
         ReportStep(s) \/ ReportFails(s) \/ SyncSave(s) \/ SyncAdvance(s)
  PROVE  SyncSound(s)'
<1>0. IsSync(sync[s]) /\ SyncOwns(s) /\ SyncsShaped /\ SyncSound(s)
  BY DEF SyncInv, SyncsShaped, SkipInv
<1>1. ASSUME NEW ok \in BOOLEAN, ReportReturns(s, ok), sync[s].at \in Reporting, ok => Reported(sync[s].call)
      PROVE  SyncSound(s)'
  BY <1>1, ReturnSound
<1>2. ASSUME NEW x, Edits(s, x), x.cursor = sync[s].cursor, x.synced = sync[s].synced,
             x.batch = sync[s].batch, x.todo = sync[s].todo, sync[s].at \in {"reporting"} \cup Reporting,
             x.at = "saved" => sync[s].todo = {},
             x.at \in {"answered", "queued", "marking"} => Lands(x.call)
      PROVE  SyncSound(s)'
  <2>1. \A e \in sync[s].batch : Reportable(e) => e \in sync[s].todo \/ Sound(e)'
    BY <1>0, <1>2 DEF SyncSound, SoundStays, SyncOwns, SyncInv
  <2>2. Keeps(x)
    BY <1>0, <1>2, <2>1 DEF Keeps, SyncSound
  <2> QED BY <1>2, <2>2, EditSound
<1>3. CASE ReportCall(s)
  <2>1. PICK c \in sync[s].todo, may \in BOOLEAN :
          Edits(s, [sync[s] EXCEPT !.at = "posting", !.call = c, !.may = may])
    BY <1>0, <1>3, ReportEdits
  <2>2. sync[s].at = "reporting"
    BY <1>3 DEF ReportCall
  <2> QED BY <1>0, <1>2, <2>1, <2>2 DEF IsSync
<1>4. CASE LogCallRead(s)
  <2> DEFINE x == [sync[s] EXCEPT !.at = IF Ref(s) \in calls THEN "answered" ELSE "inserting"]
  <2>1. Edits(s, x) /\ sync[s].at = "posting"
    BY <1>0, <1>4, ReportEdits DEF LogCallRead
  <2>2. sync[s].call \in Entries /\ UNCHANGED calls
    BY <1>0, <1>4, <2>1 DEF SyncInv, SyncOwns, Reporting, LogCallRead
  <2>3. x.at \in {"answered", "queued", "marking"} => Lands(x.call)
    BY <1>0, <2>2 DEF IsSync, Ref, Lands
  <2>4. /\ x.cursor = sync[s].cursor /\ x.synced = sync[s].synced /\ x.batch = sync[s].batch
        /\ x.todo = sync[s].todo /\ x.at # "saved"
    BY <1>0 DEF IsSync
  <2> HIDE DEF x
  <2> QED BY <1>2, <2>1, <2>3, <2>4 DEF Reporting
<1>5. CASE LogCallInsert(s)
  <2>0. sync[s].at = "inserting" /\ sync[s].call \in Entries
    BY <1>0, <1>5 DEF LogCallInsert, SyncInv, SyncOwns, Reporting
  <2>1. CASE ReportReturns(s, FALSE)
    BY <1>1, <2>0, <2>1 DEF Reporting
  <2>2. CASE sync' = [sync EXCEPT ![s].at = "answered"] /\ Ref(s) \notin calls
    <3> DEFINE x == [sync[s] EXCEPT !.at = "answered"]
    <3>1. Edits(s, x)
      BY <1>0, <2>2, ReportEdits
    <3>2. /\ x.cursor = sync[s].cursor /\ x.synced = sync[s].synced /\ x.batch = sync[s].batch
          /\ x.todo = sync[s].todo /\ x.at # "saved" /\ x.call = sync[s].call
      BY <1>0 DEF IsSync
    <3> HIDE DEF x
    <3>3. Lands(sync[s].call)
      BY <1>5, <2>0, <2>2 DEF LogCallInsert, Ref, Lands
    <3> QED BY <1>2, <2>0, <3>1, <3>2, <3>3 DEF Reporting
  <2> QED BY <1>5, <2>1, <2>2 DEF LogCallInsert
<1>6. CASE ReportFails(s)
  BY <1>1, <1>6 DEF ReportFails, Reporting
<1>7. CASE ReportWithoutAudio(s) \/ MarkWrite(s)
  <2>1. sync[s].at \in {"answered", "marking"} /\ ReportReturns(s, TRUE)
    BY <1>7 DEF ReportWithoutAudio, MarkWrite
  <2> QED BY <1>0, <1>1, <2>1 DEF SyncSound, Reporting
<1>8. CASE QueueAudio(s) \/ MarkRead(s)
  <2>1. /\ sync[s].at \in {"answered", "queued"} /\ UNCHANGED calls
        /\ \/ Edits(s, [sync[s] EXCEPT !.at = "queued"])
           \/ Edits(s, [sync[s] EXCEPT !.at = "marking", !.ledger = imported])
    BY <1>0, <1>8, ReportEdits DEF QueueAudio, MarkRead, Markable
  <2>2. Lands(sync[s].call)
    BY <1>0, <2>1 DEF SyncSound, Reported, Lands
  <2> QED BY <1>0, <1>2, <2>1, <2>2 DEF IsSync, Reporting
<1>9. CASE SyncSave(s)
  <2>1. Edits(s, [sync[s] EXCEPT !.at = "saved"]) /\ sync[s].at = "reporting" /\ sync[s].todo = {}
    BY <1>0, <1>9, ReportEdits DEF SyncSave
  <2> QED BY <1>0, <1>2, <2>1 DEF IsSync
<1>10. CASE SyncAdvance(s)
  <2>1. Edits(s, NoSync)
    BY <1>0, <1>10, ReportEdits
  <2>2. logged' \subseteq Entries
    BY DEF SoundStays, SyncInv
  <2> QED BY <2>1, <2>2, CallLogSyncAssumption
          DEF Edits, SyncSound, Passed, LedgerSound, NoSync, Reporting, ToSet
<1> QED BY <1>3, <1>4, <1>5, <1>6, <1>7, <1>8, <1>9, <1>10 DEF ReportStep

LEMMA LoggedSound ==
  ASSUME SyncInv, SkipInv, InOrder, NEW e \in Entries, CallLogged(e)
  PROVE  SkipInv'
<1>1. /\ e \notin logged /\ logged' = logged \cup {e} /\ \A o \in logged : o.at <= e.at
      /\ UNCHANGED <<cursor, synced, calls, sync, failed>>
  BY DEF CallLogged, InOrder, storage
<1>2. \A o \in logged : o \in Entries /\ o.at < e.at
  BY <1>1, CallLogSyncAssumption DEF InOrder, SyncInv
<1>3. \A c \in Nat : Passed(c) => Passed(c)'
  BY <1>1, <1>2, CallLogSyncAssumption DEF Passed, Sound, Reported
<1>4. Passed(cursor)'
  BY <1>1, <1>3 DEF SkipInv, Passed
<1>5. LedgerSound(synced)'
  BY <1>1 DEF SkipInv, LedgerSound, Sound, Reported
<1>6. ASSUME NEW s \in Syncs PROVE SyncSound(s)'
  <2>0. SyncSound(s) /\ sync[s].batch \subseteq logged /\ sync'[s] = sync[s]
    BY <1>1 DEF SkipInv, SyncInv, SyncOwns
  <2>1. Passed(sync[s].cursor)'
    BY <1>1, <1>3, <2>0 DEF SyncSound, Passed
  <2>2. LedgerSound(sync[s].synced)'
    BY <1>1, <2>0 DEF SyncSound, LedgerSound, Sound, Reported
  <2>3. \A o \in logged', b \in sync[s].batch : o.at <= b.at => o.at <= sync[s].cursor \/ o \in sync[s].batch
    BY <1>1, <1>2, <2>0, CallLogSyncAssumption DEF SyncSound
  <2> QED BY <1>1, <2>0, <2>1, <2>2, <2>3 DEF SyncSound, Sound, Reported
<1> QED BY <1>4, <1>5, <1>6 DEF SkipInv

LEMMA NextSkipInv == InOrder /\ SyncInv /\ SkipInv /\ [Next]_vars => SkipInv'
<1> SUFFICES ASSUME InOrder, SyncInv, SkipInv, [Next]_vars PROVE SkipInv'
  OBVIOUS
<1>1. ASSUME NEW s \in Syncs, SyncStep(s) \/ SyncMatchFails(s) \/ ReportFails(s) PROVE SkipInv'
  <2>1. SoundStays
    BY <1>1, SyncKeepsSound
  <2>2. SyncSound(s)'
    BY <1>1, <2>1, PrepareSound, ReportSound DEF SyncStep
  <2>3. \A o \in Syncs \ {s} : sync'[o] = sync[o]
    BY <1>1, PrepareOwns, ReportOwns DEF SyncStep
  <2>4. \A o \in Syncs \ {s} : SyncSound(o)'
    BY <2>1, <2>3, BystanderSound DEF SkipInv
  <2>5. Passed(cursor)'
    <3>1. CASE SyncAdvance(s)
      <4>1. cursor' = Newest(sync[s].batch, sync[s].cursor) /\ sync[s].at = "saved"
        BY <3>1 DEF SyncAdvance
      <4>2. /\ SyncSound(s) /\ sync[s].batch \subseteq logged /\ sync[s].todo = {} /\ logged \subseteq Entries
            /\ logged' = logged
        BY <2>1, <4>1 DEF SkipInv, SyncSound, SyncInv, SyncOwns, SoundStays
      <4>3. /\ Newest(sync[s].batch, sync[s].cursor) \in {sync[s].cursor} \cup {e.at : e \in sync[s].batch}
            /\ sync[s].cursor \in Nat
        BY <4>2, NewestBounds DEF SyncSound, Passed
      <4>4. cursor' \in Nat /\ (cursor' = 0 \/ \E o \in logged : o.at = cursor')
        BY <4>1, <4>2, <4>3, CallLogSyncAssumption DEF SyncSound, Passed
      <4>5. \A e \in logged : e.at <= cursor' => Sound(e)
        BY <4>1, <4>2, <4>3 DEF SyncSound, Passed, Sound
      <4> QED BY <2>1, <4>2, <4>4, <4>5 DEF Passed, SoundStays
    <3>2. CASE ~SyncAdvance(s)
      <4>1. cursor' = cursor
        BY <1>1, <3>2 DEF SyncStep, ReportStep, SyncStart, SyncQuery, SyncPrepare, SyncMatch, SyncMatchFails,
          ReportCall, LogCallRead, LogCallInsert, ReportFails, ReportWithoutAudio, QueueAudio, MarkRead, MarkWrite,
          SyncSave, storage
      <4> QED BY <2>1, <4>1 DEF SkipInv, Passed, SoundStays, SyncInv
    <3> QED BY <3>1, <3>2
  <2>6. LedgerSound(synced)'
    <3>1. \E q : LedgerSound(q) /\ synced' = q
      <4>1. CASE SyncSave(s)
        BY <4>1, LastIdsSound DEF SyncSave, SkipInv, SyncSound
      <4>2. CASE ~SyncSave(s)
        BY <1>1, <4>2 DEF SyncStep, ReportStep, SyncStart, SyncQuery, SyncPrepare, SyncMatch, SyncMatchFails,
          ReportCall, LogCallRead, LogCallInsert, ReportFails, ReportWithoutAudio, QueueAudio, MarkRead, MarkWrite,
          SyncAdvance, storage, SkipInv
      <4> QED BY <4>1, <4>2
    <3>2. PICK q : LedgerSound(q) /\ synced' = q
      BY <3>1
    <3> QED BY <2>1, <3>2, LedgerStays DEF LedgerSound
  <2> QED BY <2>2, <2>4, <2>5, <2>6 DEF SkipInv
<1>2. ASSUME NEW e \in Entries, CallLogged(e) PROVE SkipInv'
  BY <1>2, LoggedSound
<1>3. CASE Kill
  <2>1. sync' = [s \in Syncs |-> NoSync] /\ UNCHANGED <<logged, cursor, synced, calls, failed>>
    BY <1>3 DEF Kill, phone, storage
  <2>2. \A s \in Syncs : SyncSound(s)'
    <3>1. Passed(0)' /\ LedgerSound(<<>>)'
      BY <2>1, CallLogSyncAssumption DEF SyncInv, Passed, LedgerSound, ToSet
    <3> QED BY <2>1, <3>1 DEF SyncSound, Passed, LedgerSound, NoSync, Reporting
  <2> QED BY <2>1, <2>2 DEF SkipInv, Passed, LedgerSound, Sound, Reported
<1>4. CASE ResetSyncState
  <2>1. cursor' = 0 /\ synced' = <<>> /\ UNCHANGED <<logged, calls, sync, failed>>
    BY <1>4 DEF ResetSyncState, phone
  <2>2. Passed(cursor)' /\ LedgerSound(synced)'
    BY <2>1, CallLogSyncAssumption DEF SyncInv, Passed, LedgerSound, ToSet
  <2> QED BY <2>1, <2>2 DEF SkipInv, SyncSound, Passed, LedgerSound, Sound, Reported
<1>5. CASE Pair \/ ResetLedger \/ UNCHANGED vars \/ \E r \in Recordings : RecordingSaved(r)
  <2>1. UNCHANGED <<logged, cursor, synced, calls, sync, failed>>
    BY <1>5 DEF Pair, ResetLedger, RecordingSaved, vars, phone, storage
  <2> QED BY <2>1 DEF SkipInv, SyncSound, Passed, LedgerSound, Sound, Reported
<1> QED BY <1>1, <1>2, <1>3, <1>4, <1>5 DEF Next

\* With rows written in the order of their times, the cursor and the ledger pass
\* only calls that are on the server or whose report was seen to fail, however
\* syncs overlap and whatever kills or resets them.
THEOREM OnlyFailuresAreSkipped == InOrder => (Spec => []SkippedOnlyIfFailed)
<1> SUFFICES ASSUME InOrder PROVE Spec => []SkippedOnlyIfFailed
  OBVIOUS
<1>1. Init => SkipInv
  BY CallLogSyncAssumption, IdleSound
  DEF Init, SkipInv, SyncSound, Passed, LedgerSound, NoSync, Reporting, ToSet
<1>2. SyncInv /\ SkipInv /\ [Next]_vars => SyncInv' /\ SkipInv'
  BY NextSyncInv, NextSkipInv
<1>3. SkipInv /\ SyncInv => SkippedOnlyIfFailed
  BY DEF SkipInv, SyncInv, Passed, LedgerSound, SkippedOnlyIfFailed, Sound
<1> QED BY InitSyncInv, <1>1, <1>2, <1>3, PTL DEF Spec
=============================================================================
