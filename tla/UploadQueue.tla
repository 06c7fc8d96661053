---------------------------- MODULE UploadQueue ----------------------------
(***************************************************************************)
(* The handset's durable upload queue (mobile/src/lib/uploadQueue.ts): an  *)
(* array in memory, written to AsyncStorage on every change, drained when  *)
(* there is a connection.                                                  *)
(*                                                                         *)
(* JavaScript runs one turn at a time: an action is what happens between   *)
(* two awaits.  A write to AsyncStorage is issued in the turn that changes *)
(* the array and takes effect later, in the order of issue; who issued it  *)
(* goes on when it is done.  drain() tests `draining` two awaits before it *)
(* sets it, so more than one drain may be under way.  The app may be       *)
(* killed between any two turns; the queue is then loaded from disk.       *)
(***************************************************************************)
EXTENDS Naturals, Sequences, FiniteSets, SequencesExt

CONSTANTS
  Items,              \* the recordings that may be queued
  Originals,          \* those queued under their path in the recordings folder
  Drains,             \* slots for drain() calls under way together
  Nobody,             \* a write nobody waits for
  MaxUploadAttempts,  \* MAX_UPLOAD_ATTEMPTS
  MaxKills,           \* bound: the app is killed
  MaxByHand,          \* bound: taps on "Retry" and "Delete"
  MaxCleaned          \* bound: files removed by the OS

ASSUME UploadQueueAssumption ==
  /\ Originals \subseteq Items
  /\ Items \cap Drains = {} /\ Nobody \notin Items \cup Drains
  /\ MaxUploadAttempts \in Nat \ {0}
  /\ MaxKills \in Nat /\ MaxByHand \in Nat /\ MaxCleaned \in Nat

VARIABLES
  queue,      \* the array in memory
  disk,       \* what AsyncStorage holds
  writes,     \* setItem calls issued and not done, oldest first
  file,       \* recordings whose file is on the handset
  op,         \* what became of each recording's enqueue, and its removal by hand
  at,         \* where each drain() is
  todo,       \* the entries each drain() has still to attempt
  draining,   \* the flag
  accepted,   \* recordings the server has stored
  discarded,  \* recordings deleted by hand
  cleaned,    \* recordings whose file the OS removed
  kills,      \* bound counter
  byHand      \* bound counter

memory == <<queue, writes, at, todo, draining>>
handset == <<disk, file>>
history == <<accepted, discarded, cleaned>>
vars == <<memory, handset, op, history, kills, byHand>>

-----------------------------------------------------------------------------
(* Entries: nextAttemptAt is past, in the future, or MAX_SAFE_INTEGER.     *)

Entry == [item : Items, attempts : Nat, when : {"now", "later", "never"}]

Has(q, i) == \E k \in DOMAIN q : q[k].item = i

\* queue.filter by id: no id is on the list twice (DiskFollows), so one entry goes.
Without(q, i) ==
  IF Has(q, i) THEN RemoveAt(q, CHOOSE k \in DOMAIN q : q[k].item = i) ELSE q

\* queue.map: the entry of i, if it is still there, gets new values.
Change(q, i, Edit(_)) ==
  [k \in DOMAIN q |-> IF q[k].item = i THEN Edit(q[k]) ELSE q[k]]

PersistStale(q, by) ==               \* variant: saved before it is changed
  /\ queue' = q
  /\ writes' = Append(writes, [by |-> by, queue |-> queue])

\* this.queue = q; await this.persist()
Persist(q, by) ==
  /\ queue' = q
  /\ writes' = Append(writes, [by |-> by, queue |-> q])

Waiting(by) == \E k \in DOMAIN writes : writes[k].by = by

\* AsyncStorage finishes the oldest write.
WriteDone ==
  /\ writes # <<>>
  /\ disk' = Head(writes).queue
  /\ writes' = Tail(writes)
  /\ UNCHANGED <<queue, at, todo, draining, file, op, history, kills, byHand>>

-----------------------------------------------------------------------------
(* enqueue, remove and retryNow as the screens call them                   *)

Enqueue(i) ==
  /\ op[i] = "recorded"
  /\ Persist(Append(queue, [item |-> i, attempts |-> 0, when |-> "now"]), i)
  /\ op' = [op EXCEPT ![i] = "saving"]
  /\ UNCHANGED <<handset, at, todo, draining, history, kills, byHand>>

EnqueueReturns(i) ==
  /\ op[i] = "saving"
  /\ ~Waiting(i)
  /\ op' = [op EXCEPT ![i] = "saved"]
  /\ UNCHANGED <<memory, handset, history, kills, byHand>>

UserRemoves(i) ==
  /\ byHand < MaxByHand
  /\ op[i] = "saved" /\ Has(queue, i)
  /\ Persist(Without(queue, i), i)
  /\ op' = [op EXCEPT ![i] = "removing"]
  /\ discarded' = discarded \cup {i}
  /\ byHand' = byHand + 1
  /\ UNCHANGED <<handset, at, todo, draining, accepted, cleaned, kills>>

UserRemoveDeletes(i) ==
  /\ op[i] = "removing"
  /\ ~Waiting(i)
  /\ file' = file \ {i}
  /\ op' = [op EXCEPT ![i] = "saved"]
  /\ UNCHANGED <<memory, disk, history, kills, byHand>>

RetryNow(i) ==
  /\ byHand < MaxByHand
  /\ Has(queue, i)
  /\ Persist(Change(queue, i, LAMBDA e : [e EXCEPT !.when = "now"]), Nobody)
  /\ byHand' = byHand + 1
  /\ UNCHANGED <<handset, op, at, todo, draining, history, kills>>

-----------------------------------------------------------------------------
(* drain: at the interval, on a connection, on enqueue, on pull-to-refresh  *)

\* The test of `draining`, then await load() and await NetInfo.fetch().
DrainCheck(d) ==
  /\ at[d] = "idle"
  /\ ~draining
  /\ at' = [at EXCEPT ![d] = "checked"]
  /\ UNCHANGED <<queue, writes, todo, draining, handset, op, history, kills, byHand>>

DrainOffline(d) ==
  /\ at[d] = "checked"
  /\ at' = [at EXCEPT ![d] = "idle"]
  /\ UNCHANGED <<queue, writes, todo, draining, handset, op, history, kills, byHand>>

DrainStart(d) ==
  /\ at[d] = "checked"
  /\ draining' = TRUE
  /\ todo' = [todo EXCEPT ![d] = SelectSeq(queue, LAMBDA e : e.when = "now")]
  /\ at' = [at EXCEPT ![d] = "working"]
  /\ UNCHANGED <<queue, writes, handset, op, history, kills, byHand>>

Current(d) == Head(todo[d])

\* The loop: an entry removed meanwhile is skipped, the next one is attempted.
DrainSkip(d) ==
  /\ at[d] = "working" /\ todo[d] # <<>>
  /\ ~Has(queue, Current(d).item)
  /\ todo' = [todo EXCEPT ![d] = Tail(@)]
  /\ UNCHANGED <<queue, writes, at, draining, handset, op, history, kills, byHand>>

DrainEnd(d) ==
  /\ at[d] = "working" /\ todo[d] = <<>>
  /\ draining' = FALSE
  /\ at' = [at EXCEPT ![d] = "idle"]
  /\ UNCHANGED <<queue, writes, todo, handset, op, history, kills, byHand>>

\* attempt: await getInfoAsync, then the upload if the file is there.
AttemptSend(d) ==
  /\ at[d] = "working" /\ todo[d] # <<>>
  /\ Has(queue, Current(d).item)
  /\ Current(d).item \in file
  /\ at' = [at EXCEPT ![d] = "sending"]
  /\ UNCHANGED <<queue, writes, todo, draining, handset, op, history, kills, byHand>>

\* fail() counts from the attempts the drain saw when it started.
Exhausted(attempts, permanent) == permanent \/ attempts >= MaxUploadAttempts

FailUncounted(q, i, attempts, permanent) ==      \* variant: attempts not written back
  Change(q, i, LAMBDA e : [e EXCEPT
    !.when = IF Exhausted(attempts, permanent) THEN "never" ELSE "later"])

FailRequeued(q, i, attempts, permanent) ==       \* variant: put back at the end
  Append(q, [item |-> i, attempts |-> attempts,
             when |-> IF Exhausted(attempts, permanent) THEN "never" ELSE "later"])

Failed(q, i, attempts, permanent) ==
  Change(q, i, LAMBDA e : [e EXCEPT
    !.attempts = attempts,
    !.when = IF Exhausted(attempts, permanent) THEN "never" ELSE "later"])

Fail(d, permanent) ==
  /\ Persist(Failed(queue, Current(d).item, Current(d).attempts + 1, permanent), d)
  /\ at' = [at EXCEPT ![d] = "settling"]
  /\ UNCHANGED <<todo, draining, handset, op, history, kills, byHand>>

AttemptMissing(d) ==
  /\ at[d] = "working" /\ todo[d] # <<>>
  /\ Has(queue, Current(d).item)
  /\ Current(d).item \notin file
  /\ Fail(d, TRUE)

\* The server stores the recording; its answer is still to come.
ServerAccepts(d) ==
  /\ at[d] = "sending"
  /\ accepted' = accepted \cup {Current(d).item}
  /\ at' = [at EXCEPT ![d] = "answered"]
  /\ UNCHANGED <<queue, writes, todo, draining, handset, op, discarded, cleaned, kills, byHand>>

\* A refusal, no connection or a timeout - or the answer of an upload that was
\* accepted is lost, which looks like a network failure and is retryable.
AttemptFails(d) ==
  \/ at[d] = "sending" /\ \E permanent \in BOOLEAN : Fail(d, permanent)
  \/ at[d] = "answered" /\ Fail(d, FALSE)

\* remove(): the entry goes first, the file when that is on disk.
AttemptSucceeds(d) ==
  /\ at[d] = "answered"
  /\ Persist(Without(queue, Current(d).item), d)
  /\ at' = [at EXCEPT ![d] = IF Has(queue, Current(d).item) THEN "removing" ELSE "settling"]
  /\ UNCHANGED <<todo, draining, handset, op, history, kills, byHand>>

FileDeletedFirst(d) == at[d] \in {"sending", "removing"}    \* variant
FileUnneeded(d) == at[d] = "removing" /\ ~Waiting(d)

AttemptDeletes(d) ==
  /\ FileUnneeded(d)
  /\ file' = file \ {Current(d).item}
  /\ at' = [at EXCEPT ![d] = "settling"]
  /\ UNCHANGED <<queue, writes, todo, draining, disk, op, history, kills, byHand>>

AttemptDone(d) ==
  /\ at[d] = "settling"
  /\ ~Waiting(d)
  /\ todo' = [todo EXCEPT ![d] = Tail(@)]
  /\ at' = [at EXCEPT ![d] = "working"]
  /\ UNCHANGED <<queue, writes, draining, handset, op, history, kills, byHand>>

-----------------------------------------------------------------------------
(* Time, the OS and the end of the process                                 *)

BackoffElapses(i) ==
  /\ \E k \in DOMAIN queue : queue[k].item = i /\ queue[k].when = "later"
  /\ queue' = Change(queue, i, LAMBDA e : [e EXCEPT !.when = "now"])
  /\ UNCHANGED <<disk, file, writes, op, at, todo, draining, history, kills, byHand>>

OsCleans(i) ==
  /\ i \in file \ Originals
  /\ Cardinality(cleaned) < MaxCleaned
  /\ file' = file \ {i}
  /\ cleaned' = cleaned \cup {i}
  /\ UNCHANGED <<memory, disk, op, accepted, discarded, kills, byHand>>

\* The app is killed and started again.  Writes not done are lost; a backoff on
\* disk is a time, which may have passed by then.
Kill ==
  /\ kills < MaxKills
  /\ queue' = disk
  /\ writes' = <<>>
  /\ at' = [d \in Drains |-> "idle"]
  /\ todo' = [d \in Drains |-> <<>>]
  /\ draining' = FALSE
  /\ op' = [i \in Items |->
              CASE op[i] = "saving" -> IF Has(disk, i) THEN "saved" ELSE "lost"
                [] op[i] = "removing" -> "saved"
                [] OTHER -> op[i]]
  /\ kills' = kills + 1
  /\ UNCHANGED <<handset, history, byHand>>

-----------------------------------------------------------------------------

Init ==
  /\ queue = <<>> /\ disk = <<>> /\ writes = <<>>
  /\ file = Items
  /\ op = [i \in Items |-> "recorded"]
  /\ at = [d \in Drains |-> "idle"]
  /\ todo = [d \in Drains |-> <<>>]
  /\ draining = FALSE
  /\ accepted = {} /\ discarded = {} /\ cleaned = {}
  /\ kills = 0 /\ byHand = 0

ScreenStep(i) ==
  \/ Enqueue(i) \/ EnqueueReturns(i)
  \/ UserRemoves(i) \/ UserRemoveDeletes(i) \/ RetryNow(i)

AttemptStep(d) ==
  \/ AttemptSend(d) \/ AttemptMissing(d)
  \/ ServerAccepts(d) \/ AttemptFails(d) \/ AttemptSucceeds(d)
  \/ AttemptDeletes(d) \/ AttemptDone(d)

DrainStep(d) ==
  \/ DrainCheck(d) \/ DrainOffline(d) \/ DrainStart(d) \/ DrainSkip(d) \/ DrainEnd(d)
  \/ AttemptStep(d)

Next ==
  \/ WriteDone
  \/ \E i \in Items : ScreenStep(i) \/ BackoffElapses(i) \/ OsCleans(i)
  \/ \E d \in Drains : DrainStep(d)
  \/ Kill

Spec == Init /\ [][Next]_vars

\* Writes and requests end (a request has a timeout), the sweep comes every
\* minute, backoffs pass, and the handset is not offline at every sweep.
Fairness ==
  /\ WF_vars(WriteDone)
  /\ \A i \in Items : WF_vars(EnqueueReturns(i)) /\ WF_vars(BackoffElapses(i))
  /\ \A d \in Drains : /\ WF_vars(DrainCheck(d))
                       /\ SF_vars(DrainStart(d))
                       /\ WF_vars(DrainSkip(d)) /\ WF_vars(DrainEnd(d))
                       /\ WF_vars(AttemptStep(d))

FairSpec == Spec /\ Fairness
=============================================================================
