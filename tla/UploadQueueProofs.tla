-------------------------- MODULE UploadQueueProofs --------------------------
(***************************************************************************)
(* No saved recording is lost: theorems about the handset's upload queue,  *)
(* for any recordings, any drains at once, and any number of kills, taps   *)
(* and files removed by the OS.                                            *)
(***************************************************************************)
EXTENDS UploadQueueProps, SequenceTheorems, TLAPS

-----------------------------------------------------------------------------
(* Lists of entries                                                        *)

\* Entries whose count of attempts is in A.
Listable(A) == [item : Items, attempts : A, when : {"now", "later", "never"}]

Unique(q) == \A k, l \in DOMAIN q : q[k].item = q[l].item => k = l

SameItems(q, r) == \A j \in Items : Has(q, j) <=> Has(r, j)

LEMMA AppendedList ==
  ASSUME NEW A, NEW q \in Seq(Listable(A)), NEW e \in Listable(A)
  PROVE  /\ Append(q, e) \in Seq(Listable(A))
         /\ \A j \in Items : Has(Append(q, e), j) <=> Has(q, j) \/ j = e.item
         /\ Unique(q) /\ ~Has(q, e.item) => Unique(Append(q, e))
<1> DEFINE r == Append(q, e)
<1>1. /\ r \in Seq(Listable(A)) /\ Len(r) = Len(q) + 1
      /\ \A k \in 1..Len(q) : r[k] = q[k]
      /\ r[Len(q) + 1] = e
  BY AppendProperties
<1>2. Len(q) \in Nat /\ DOMAIN q = 1..Len(q) /\ DOMAIN r = 1..(Len(q) + 1)
  BY <1>1
<1> HIDE DEF r
<1>3. ASSUME NEW j \in Items PROVE Has(r, j) <=> Has(q, j) \/ j = e.item
  <2>1. ASSUME Has(r, j) PROVE Has(q, j) \/ j = e.item
    <3>1. PICK k \in 1..(Len(q) + 1) : r[k].item = j
      BY <1>2, <2>1 DEF Has
    <3>2. CASE k = Len(q) + 1
      BY <1>1, <3>1, <3>2
    <3>3. CASE k \in 1..Len(q)
      BY <1>1, <1>2, <3>1, <3>3 DEF Has
    <3> QED BY <1>2, <3>2, <3>3
  <2>2. ASSUME Has(q, j) PROVE Has(r, j)
    <3>1. PICK k \in 1..Len(q) : q[k].item = j
      BY <1>2, <2>2 DEF Has
    <3>2. k \in 1..(Len(q) + 1) /\ r[k].item = j
      BY <1>1, <1>2, <3>1
    <3> QED BY <1>2, <3>2 DEF Has
  <2>3. ASSUME j = e.item PROVE Has(r, j)
    BY <1>1, <1>2, <2>3 DEF Has
  <2> QED BY <2>1, <2>2, <2>3
<1>4. ASSUME Unique(q), ~Has(q, e.item) PROVE Unique(r)
  <2>1. ASSUME NEW k \in 1..(Len(q) + 1), NEW l \in 1..(Len(q) + 1),
               r[k].item = r[l].item
        PROVE  k = l
    <3>1. \A m \in 1..Len(q) : r[m].item # e.item
      BY <1>1, <1>2, <1>4 DEF Has
    <3>2. \A m \in 1..(Len(q) + 1) : m \in 1..Len(q) \/ m = Len(q) + 1
      BY <1>2
    <3>3. CASE k \in 1..Len(q) /\ l \in 1..Len(q)
      BY <1>1, <1>2, <1>4, <2>1, <3>3 DEF Unique
    <3>4. CASE k = Len(q) + 1 \/ l = Len(q) + 1
      BY <1>1, <2>1, <3>1, <3>2, <3>4
    <3> QED BY <3>2, <3>3, <3>4
  <2> QED BY <1>2, <2>1 DEF Unique
<1> QED BY <1>1, <1>3, <1>4 DEF r

LEMMA OneRemoved ==
  ASSUME NEW S, NEW q \in Seq(S), NEW n \in 1..Len(q)
  PROVE  /\ RemoveAt(q, n) \in Seq(S) /\ Len(RemoveAt(q, n)) = Len(q) - 1
         /\ \A k \in 1..(Len(q) - 1) :
              RemoveAt(q, n)[k] = IF k < n THEN q[k] ELSE q[k + 1]
<1> DEFINE u == SubSeq(q, 1, n - 1)
           v == SubSeq(q, n + 1, Len(q))
<1>1. Len(q) \in Nat /\ n \in Nat /\ n - 1 \in Int /\ n + 1 \in Int
  OBVIOUS
<1>2. \A k \in 1..Len(q) : q[k] \in S
  OBVIOUS
<1>3. /\ u \in Seq(S) /\ Len(u) = n - 1
      /\ \A k \in 1..(n - 1) : u[k] = q[k]
  <2>1. \A k \in 1..(n - 1) : q[k] \in S
    BY <1>1, <1>2
  <2>2. /\ u \in Seq(S)
        /\ Len(u) = IF 1 <= n - 1 THEN n - 1 - 1 + 1 ELSE 0
        /\ \A k \in 1..(n - 1 - 1 + 1) : u[k] = q[1 + k - 1]
    BY <1>1, <2>1, SubSeqProperties
  <2> HIDE DEF u
  <2> QED BY <1>1, <2>2
<1>4. /\ v \in Seq(S) /\ Len(v) = Len(q) - n
      /\ \A k \in 1..(Len(q) - n) : v[k] = q[n + k]
  <2>1. \A k \in (n + 1)..Len(q) : q[k] \in S
    BY <1>1, <1>2
  <2>2. /\ v \in Seq(S)
        /\ Len(v) = IF n + 1 <= Len(q) THEN Len(q) - (n + 1) + 1 ELSE 0
        /\ \A k \in 1..(Len(q) - (n + 1) + 1) : v[k] = q[n + 1 + k - 1]
    BY <1>1, <2>1, SubSeqProperties
  <2> HIDE DEF v
  <2> QED BY <1>1, <2>2
<1>5. RemoveAt(q, n) = u \o v
  BY DEF RemoveAt
<1> HIDE DEF u, v
<1>6. /\ u \o v \in Seq(S) /\ Len(u \o v) = Len(u) + Len(v)
      /\ \A k \in 1..(Len(u) + Len(v)) :
           (u \o v)[k] = IF k <= Len(u) THEN u[k] ELSE v[k - Len(u)]
  BY <1>3, <1>4, ConcatProperties
<1>7. ASSUME NEW k \in 1..(Len(q) - 1)
      PROVE  (u \o v)[k] = IF k < n THEN q[k] ELSE q[k + 1]
  <2>1. CASE k < n
    BY <1>1, <1>3, <1>4, <1>6, <2>1
  <2>2. CASE ~(k < n)
    <3>1. k - Len(u) \in 1..(Len(q) - n) /\ n + (k - Len(u)) = k + 1
      BY <1>1, <1>3, <2>2
    <3>2. (u \o v)[k] = v[k - Len(u)]
      BY <1>1, <1>3, <1>4, <1>6, <2>2
    <3> QED BY <1>4, <2>2, <3>1, <3>2
  <2> QED BY <2>1, <2>2
<1> QED BY <1>1, <1>3, <1>4, <1>5, <1>6, <1>7

LEMMA ShortenedList ==
  ASSUME NEW A, NEW q \in Seq(Listable(A)), NEW i
  PROVE  /\ Without(q, i) \in Seq(Listable(A))
         /\ \A j : Has(Without(q, i), j) => Has(q, j)
         /\ \A j : j # i /\ Has(q, j) => Has(Without(q, i), j)
         /\ Unique(q) => Unique(Without(q, i)) /\ ~Has(Without(q, i), i)
<1>1. CASE ~Has(q, i)
  BY <1>1 DEF Without
<1>2. CASE Has(q, i)
  <2> DEFINE n == CHOOSE k \in DOMAIN q : q[k].item = i
             r == RemoveAt(q, n)
  <2>0. Len(q) \in Nat /\ DOMAIN q = 1..Len(q)
    OBVIOUS
  <2>1. n \in 1..Len(q) /\ q[n].item = i
    <3>1. \E k \in DOMAIN q : q[k].item = i
      BY <1>2 DEF Has
    <3>2. n \in DOMAIN q /\ q[n].item = i
      BY <3>1
    <3> QED BY <2>0, <3>2
  <2>2. Without(q, i) = r
    BY <1>2 DEF Without
  <2> HIDE DEF n
  <2>3. /\ r \in Seq(Listable(A)) /\ Len(r) = Len(q) - 1
        /\ \A k \in 1..Len(r) : r[k] = IF k < n THEN q[k] ELSE q[k + 1]
    BY <2>1, OneRemoved
  <2>4. DOMAIN r = 1..Len(r) /\ Len(r) \in Nat
    BY <2>3
  <2> HIDE DEF r
  <2>5. ASSUME NEW k \in 1..Len(q), k # n PROVE \E l \in 1..Len(r) : r[l] = q[k]
    <3>1. CASE k < n
      <4>1. k \in 1..Len(r) /\ r[k] = q[k]
        BY <2>0, <2>1, <2>3, <3>1
      <4> QED BY <4>1
    <3>2. CASE k > n
      <4>1. k - 1 \in 1..Len(r) /\ ~(k - 1 < n) /\ (k - 1) + 1 = k
        BY <2>0, <2>1, <2>3, <3>2
      <4>2. r[k - 1] = q[k]
        BY <2>3, <4>1
      <4> QED BY <4>1, <4>2
    <3>3. k < n \/ k > n
      BY <2>0, <2>1, <2>5
    <3> QED BY <3>1, <3>2, <3>3
  <2>6. ASSUME NEW k \in 1..Len(r) PROVE \E l \in 1..Len(q) : l # n /\ r[k] = q[l]
    <3>1. CASE k < n
      <4>1. k \in 1..Len(q) /\ k # n /\ r[k] = q[k]
        BY <2>0, <2>1, <2>3, <3>1
      <4> QED BY <4>1
    <3>2. CASE ~(k < n)
      <4>1. k + 1 \in 1..Len(q) /\ k + 1 # n /\ r[k] = q[k + 1]
        BY <2>0, <2>1, <2>3, <3>2
      <4> QED BY <4>1
    <3> QED BY <3>1, <3>2
  <2>7. ASSUME NEW j, Has(r, j) PROVE Has(q, j)
    BY <2>0, <2>4, <2>6, <2>7 DEF Has
  <2>8. ASSUME NEW j, j # i, Has(q, j) PROVE Has(r, j)
    <3>1. PICK k \in 1..Len(q) : q[k].item = j
      BY <2>0, <2>8 DEF Has
    <3>2. PICK l \in 1..Len(r) : r[l] = q[k]
      BY <2>1, <2>5, <2>8, <3>1
    <3> QED BY <2>4, <3>1, <3>2 DEF Has
  <2>9. ASSUME Unique(q) PROVE Unique(r) /\ ~Has(r, i)
    <3>1. \A k, l \in 1..Len(q) : q[k].item = q[l].item => k = l
      BY <2>0, <2>9 DEF Unique
    <3>2. ~Has(r, i)
      BY <2>1, <2>4, <2>6, <3>1 DEF Has
    <3>3. ASSUME NEW k \in 1..Len(r), NEW l \in 1..Len(r), r[k].item = r[l].item
          PROVE  k = l
      <4> DEFINE up(m) == IF m < n THEN m ELSE m + 1
      <4>1. \A m \in 1..Len(r) : up(m) \in 1..Len(q) /\ r[m] = q[up(m)]
        BY <2>0, <2>1, <2>3
      <4>2. up(k) = up(l)
        <5> HIDE DEF up
        <5> QED BY <3>1, <3>3, <4>1
      <4> QED BY <2>1, <4>2
    <3> QED BY <2>4, <3>2, <3>3 DEF Unique
  <2> QED BY <2>2, <2>3, <2>7, <2>8, <2>9
<1> QED BY <1>1, <1>2

LEMMA ChangedList ==
  ASSUME NEW A, NEW q \in Seq(Listable(A)), NEW r,
         r = [k \in DOMAIN q |-> r[k]],
         \A k \in DOMAIN q : r[k] \in Listable(A) /\ r[k].item = q[k].item
  PROVE  r \in Seq(Listable(A)) /\ SameItems(r, q) /\ (Unique(q) => Unique(r))
<1>1. r \in [1..Len(q) -> Listable(A)] /\ Len(q) \in Nat
  OBVIOUS
<1>2. r \in Seq(Listable(A)) /\ DOMAIN r = DOMAIN q
  BY <1>1, IsASeq
<1> QED BY <1>2 DEF SameItems, Has, Unique

LEMMA LargerList ==
  ASSUME NEW A, NEW B, A \subseteq B, NEW q \in Seq(Listable(A))
  PROVE  q \in Seq(Listable(B))
<1>1. Listable(A) \subseteq Listable(B)
  BY DEF Listable
<1> QED BY <1>1, SeqMonotonic

-----------------------------------------------------------------------------
(* The inductive invariant                                                 *)

Everyone == Items \cup Drains \cup {Nobody}

Writable(A) == [by : Everyone, queue : Seq(Listable(A))]

\* A is the counts of attempts met so far.
Lists(A) ==
  /\ queue \in Seq(Listable(A)) /\ disk \in Seq(Listable(A))
  /\ writes \in Seq(Writable(A))

Newest == IF writes = <<>> THEN disk ELSE writes[Len(writes)].queue

Key(q) == [k \in DOMAIN q |-> [q[k] EXCEPT !.when = IF @ = "never" THEN @ ELSE "now"]]

\* Every list there is holds an item once; the newest is the one in memory.
ListsInv ==
  /\ \E A : Lists(A)
  /\ Unique(queue) /\ Unique(disk)
  /\ \A l \in DOMAIN writes : Unique(writes[l].queue)
  /\ Key(Newest) = Key(queue)

PlacesInv ==
  /\ op \in [Items -> {"recorded", "saving", "saved", "removing", "lost"}]
  /\ at \in [Drains -> {"idle", "checked", "working", "sending", "answered",
                        "removing", "settling"}]
  /\ DOMAIN todo = Drains

Unlisted(i) ==
  /\ ~Has(queue, i) /\ ~Has(disk, i)
  /\ \A l \in DOMAIN writes : ~Has(writes[l].queue, i)

\* Whichever write the app is killed after, i is on disk, or its enqueue has not
\* returned by then.
Listed(i) ==
  /\ Has(queue, i)
  /\ \A l \in DOMAIN writes :
       \/ Has(writes[l].queue, i)
       \/ op[i] = "saving" /\ \E k \in DOMAIN writes : k > l /\ writes[k].by = i
  /\ Has(disk, i) \/ (op[i] = "saving" /\ Waiting(i))

ItemInv(i) ==
  /\ op[i] = "recorded" => Unlisted(i)
  /\ op[i] = "removing" => i \in discarded
  /\ i \notin accepted \cup discarded =>
       /\ i \in file \cup cleaned
       /\ op[i] \in {"saving", "saved"} => Listed(i)

\* An entry goes, and its file, only for a recording the server has stored.
DrainInv(d) == at[d] \in {"answered", "removing"} => Current(d).item \in accepted

QueueInv ==
  /\ PlacesInv /\ ListsInv
  /\ \A i \in Items : ItemInv(i)
  /\ \A d \in Drains : DrainInv(d)

LEMMA InitQueueInv == Init => QueueInv
<1> SUFFICES ASSUME Init PROVE QueueInv
  OBVIOUS
<1> USE DEF Init
<1>1. PlacesInv
  BY DEF PlacesInv
<1>2. Lists({})
  BY DEF Lists
<1>3. Unique(queue) /\ Unique(disk) /\ \A l \in DOMAIN writes : Unique(writes[l].queue)
  BY DEF Unique
<1>4. Key(Newest) = Key(queue)
  BY DEF Newest
<1>5. ASSUME NEW i \in Items PROVE ItemInv(i)
  BY DEF ItemInv, Unlisted, Has
<1>6. ASSUME NEW d \in Drains PROVE DrainInv(d)
  BY DEF DrainInv
<1> QED BY <1>1, <1>2, <1>3, <1>4, <1>5, <1>6 DEF QueueInv, ListsInv

-----------------------------------------------------------------------------
(* Steps that save a changed list                                          *)

LEMMA Persisted ==
  ASSUME NEW A, writes \in Seq(Writable(A)), NEW q \in Seq(Listable(A)),
         NEW by \in Everyone, Persist(q, by)
  PROVE  /\ queue' = q
         /\ writes' \in Seq(Writable(A))
         /\ Len(writes) \in Nat /\ DOMAIN writes = 1..Len(writes)
         /\ Len(writes') = Len(writes) + 1 /\ DOMAIN writes' = 1..(Len(writes) + 1)
         /\ \A l \in 1..Len(writes) : writes'[l] = writes[l]
         /\ writes'[Len(writes) + 1].by = by
         /\ writes'[Len(writes) + 1].queue = q
<1> DEFINE w == [by |-> by, queue |-> q]
<1>1. w \in Writable(A)
  BY DEF Writable
<1>2. queue' = q /\ writes' = Append(writes, w)
  BY DEF Persist
<1>3. /\ Append(writes, w) \in Seq(Writable(A))
      /\ Len(Append(writes, w)) = Len(writes) + 1
      /\ \A l \in 1..Len(writes) : Append(writes, w)[l] = writes[l]
      /\ Append(writes, w)[Len(writes) + 1] = w
  BY <1>1, AppendProperties
<1>4. w.by = by /\ w.queue = q
  OBVIOUS
<1> HIDE DEF w
<1> QED BY <1>2, <1>3, <1>4

LEMMA PersistLists ==
  ASSUME ListsInv, NEW B, NEW q \in Seq(Listable(B)), Unique(q),
         NEW by \in Everyone, Persist(q, by), disk' = disk
  PROVE  ListsInv'
<1>1. PICK A : Lists(A)
  BY DEF ListsInv
<1> DEFINE C == A \cup B
<1>2. /\ q \in Seq(Listable(C)) /\ disk \in Seq(Listable(C))
  BY <1>1, LargerList DEF Lists
<1>3. writes \in Seq(Writable(C))
  <2>1. \A r \in Seq(Listable(A)) : r \in Seq(Listable(C))
    BY LargerList
  <2>2. Writable(A) \subseteq Writable(C)
    BY <2>1 DEF Writable
  <2> QED BY <1>1, <2>2, SeqMonotonic DEF Lists
<1> HIDE DEF C
<1>4. /\ queue' = q
      /\ writes' \in Seq(Writable(C))
      /\ Len(writes) \in Nat /\ DOMAIN writes = 1..Len(writes)
      /\ Len(writes') = Len(writes) + 1 /\ DOMAIN writes' = 1..(Len(writes) + 1)
      /\ \A l \in 1..Len(writes) : writes'[l] = writes[l]
      /\ writes'[Len(writes) + 1].queue = q
  BY <1>2, <1>3, Persisted
<1>5. Lists(C)'
  BY <1>2, <1>4 DEF Lists
<1>6. \A l \in DOMAIN writes' : Unique(writes'[l].queue)
  <2> SUFFICES ASSUME NEW l \in 1..(Len(writes) + 1) PROVE Unique(writes'[l].queue)
    BY <1>4
  <2>1. CASE l \in 1..Len(writes)
    <3>1. Unique(writes[l].queue) /\ writes'[l] = writes[l]
      BY <1>4, <2>1 DEF ListsInv
    <3> QED BY <3>1
  <2>2. CASE l = Len(writes) + 1
    BY <1>4, <2>2
  <2> QED BY <1>4, <2>1, <2>2
<1>7. Newest' = queue'
  <2>1. writes' # <<>>
    BY <1>4
  <2> QED BY <1>4, <2>1 DEF Newest
<1>8. Unique(queue') /\ Unique(disk')
  BY <1>4 DEF ListsInv
<1>9. Key(Newest)' = Key(queue)'
  BY <1>7
<1> QED BY <1>5, <1>6, <1>8, <1>9 DEF ListsInv

\* A recording the new list keeps is as well kept as before.
LEMMA PersistListed ==
  ASSUME ListsInv, NEW B, NEW q \in Seq(Listable(B)), NEW by \in Everyone,
         Persist(q, by), disk' = disk,
         NEW i \in Items, op'[i] = op[i]
  PROVE  /\ Unlisted(i) /\ ~Has(q, i) => Unlisted(i)'
         /\ Listed(i) /\ Has(q, i) => Listed(i)'
<1>1. PICK A : Lists(A)
  BY DEF ListsInv
<1> DEFINE C == A \cup B
<1>2. q \in Seq(Listable(C))
  BY LargerList
<1>3. writes \in Seq(Writable(C))
  <2>1. \A r \in Seq(Listable(A)) : r \in Seq(Listable(C))
    BY LargerList
  <2>2. Writable(A) \subseteq Writable(C)
    BY <2>1 DEF Writable
  <2> QED BY <1>1, <2>2, SeqMonotonic DEF Lists
<1> HIDE DEF C
<1>4. /\ queue' = q
      /\ Len(writes) \in Nat /\ DOMAIN writes = 1..Len(writes)
      /\ DOMAIN writes' = 1..(Len(writes) + 1)
      /\ \A l \in 1..Len(writes) : writes'[l] = writes[l]
      /\ writes'[Len(writes) + 1].queue = q
  BY <1>2, <1>3, Persisted
<1>5. \A l \in 1..(Len(writes) + 1) : l \in 1..Len(writes) \/ l = Len(writes) + 1
  BY <1>4
<1>6. 1..Len(writes) \subseteq 1..(Len(writes) + 1)
  BY <1>4
<1>7. ASSUME Unlisted(i), ~Has(q, i) PROVE Unlisted(i)'
  <2>1. \A l \in 1..(Len(writes) + 1) : ~Has(writes'[l].queue, i)
    BY <1>4, <1>5, <1>7 DEF Unlisted
  <2>2. ~Has(queue', i) /\ ~Has(disk', i)
    BY <1>4, <1>7 DEF Unlisted
  <2> QED BY <1>4, <2>1, <2>2 DEF Unlisted
<1>8. ASSUME Listed(i), Has(q, i) PROVE Listed(i)'
  <2>1. ASSUME NEW l \in 1..(Len(writes) + 1)
        PROVE  \/ Has(writes'[l].queue, i)
               \/ op'[i] = "saving" /\ \E k \in DOMAIN writes' : k > l /\ writes'[k].by = i
    <3>1. CASE l = Len(writes) + 1
      BY <1>4, <1>8, <3>1
    <3>2. CASE l \in 1..Len(writes)
      <4>1. \/ Has(writes[l].queue, i)
            \/ op[i] = "saving" /\ \E k \in 1..Len(writes) : k > l /\ writes[k].by = i
        BY <1>4, <1>8, <3>2 DEF Listed
      <4> QED BY <1>4, <1>6, <3>2, <4>1
    <3> QED BY <1>5, <3>1, <3>2
  <2>2. Has(disk', i) \/ (op'[i] = "saving" /\ Waiting(i)')
    BY <1>4, <1>6, <1>8 DEF Listed, Waiting
  <2>3. Has(queue', i)
    BY <1>4, <1>8
  <2> QED BY <1>4, <2>1, <2>2, <2>3 DEF Listed
<1> QED BY <1>7, <1>8

LEMMA PersistItem ==
  ASSUME ListsInv, NEW B, NEW q \in Seq(Listable(B)), NEW by \in Everyone,
         Persist(q, by), UNCHANGED <<disk, file, cleaned>>,
         accepted \subseteq accepted', discarded \subseteq discarded',
         NEW i \in Items, ItemInv(i), op'[i] = op[i],
         Has(q, i) => Has(queue, i),
         i \notin accepted' \cup discarded' /\ Has(queue, i) => Has(q, i)
  PROVE  ItemInv(i)'
<1>1. /\ Unlisted(i) /\ ~Has(q, i) => Unlisted(i)'
      /\ Listed(i) /\ Has(q, i) => Listed(i)'
  BY PersistListed
<1>2. Unlisted(i) => ~Has(q, i)
  BY DEF Unlisted
<1>3. Listed(i) /\ i \notin accepted' \cup discarded' => Has(q, i)
  BY DEF Listed
<1> QED BY <1>1, <1>2, <1>3 DEF ItemInv

LEMMA SameLists ==
  ASSUME ListsInv, UNCHANGED <<queue, disk, writes>>
  PROVE  ListsInv'
<1>1. Newest' = Newest /\ Key(Newest)' = Key(Newest) /\ Key(queue)' = Key(queue)
  BY DEF Newest, Key
<1> QED BY <1>1 DEF ListsInv, Lists, Unique

LEMMA SameItem ==
  ASSUME UNCHANGED <<queue, disk, writes, op>>, NEW i \in Items, ItemInv(i),
         accepted \subseteq accepted', discarded \subseteq discarded',
         i \notin accepted' \cup discarded' => i \in file' \cup cleaned'
  PROVE  ItemInv(i)'
BY DEF ItemInv, Unlisted, Listed, Has, Waiting

LEMMA SameDrain ==
  ASSUME NEW d \in Drains, DrainInv(d), accepted \subseteq accepted',
         at'[d] = at[d], todo'[d] = todo[d]
  PROVE  DrainInv(d)'
BY DEF DrainInv, Current

-----------------------------------------------------------------------------
(* The steps of the screens                                                *)

LEMMA EnqueueQueue ==
  ASSUME QueueInv, NEW i \in Items, Enqueue(i)
  PROVE  QueueInv'
<1> DEFINE e == [item |-> i, attempts |-> 0, when |-> "now"]
           q == Append(queue, e)
<1>1. PICK A : Lists(A)
  BY DEF QueueInv, ListsInv
<1> DEFINE B == A \cup {0}
<1>2. queue \in Seq(Listable(B))
  BY <1>1, LargerList DEF Lists
<1>3. e \in Listable(B) /\ e.item = i
  BY DEF Listable
<1>4. /\ op[i] = "recorded" /\ Persist(q, i)
      /\ op' = [op EXCEPT ![i] = "saving"]
      /\ UNCHANGED <<disk, file, at, todo, accepted, discarded, cleaned>>
  BY DEF Enqueue, handset, history
<1> HIDE DEF B, e
<1>5. /\ q \in Seq(Listable(B))
      /\ \A j \in Items : Has(q, j) <=> Has(queue, j) \/ j = i
      /\ Unique(queue) /\ ~Has(queue, i) => Unique(q)
  BY <1>2, <1>3, AppendedList
<1> HIDE DEF q
<1>6. Unlisted(i) /\ PlacesInv /\ ListsInv
  BY <1>4 DEF QueueInv, ItemInv
<1>7. i \in Everyone
  BY DEF Everyone
<1>8. ListsInv'
  BY <1>4, <1>5, <1>6, <1>7, PersistLists DEF Unlisted, ListsInv
<1>9. PlacesInv'
  BY <1>4, <1>6 DEF PlacesInv
<1>10. ASSUME NEW j \in Items PROVE ItemInv(j)'
  <2>1. CASE j # i
    <3>1. op'[j] = op[j]
      BY <1>4, <1>6, <2>1 DEF PlacesInv
    <3>2. ItemInv(j)
      BY DEF QueueInv
    <3> QED BY <1>4, <1>5, <1>6, <1>7, <2>1, <3>1, <3>2, PersistItem
  <2>2. CASE j = i
    <3>1. op'[i] = "saving"
      BY <1>4, <1>6 DEF PlacesInv
    <3>2. PICK C : Lists(C)
      BY DEF QueueInv, ListsInv
    <3> DEFINE D == C \cup B
    <3>3. writes \in Seq(Writable(D)) /\ q \in Seq(Listable(D))
      <4>1. \A r \in Seq(Listable(C)) : r \in Seq(Listable(D))
        BY LargerList
      <4>2. Writable(C) \subseteq Writable(D)
        BY <4>1 DEF Writable
      <4>3. q \in Seq(Listable(D))
        BY <1>5, LargerList
      <4> QED BY <3>2, <4>2, <4>3, SeqMonotonic DEF Lists
    <3> HIDE DEF D
    <3>4. /\ queue' = q
          /\ Len(writes) \in Nat
          /\ DOMAIN writes' = 1..(Len(writes) + 1)
          /\ writes'[Len(writes) + 1].by = i
          /\ writes'[Len(writes) + 1].queue = q
      BY <1>4, <1>7, <3>3, Persisted
    <3>5. Has(q, i)
      BY <1>5
    <3>6. ASSUME NEW l \in DOMAIN writes'
          PROVE  \/ Has(writes'[l].queue, i)
                 \/ \E k \in DOMAIN writes' : k > l /\ writes'[k].by = i
      <4>1. CASE l = Len(writes) + 1
        BY <3>4, <3>5, <4>1
      <4>2. CASE l < Len(writes) + 1
        BY <3>4, <4>2
      <4> QED BY <3>4, <4>1, <4>2
    <3>7. Waiting(i)'
      BY <3>4 DEF Waiting
    <3>8. Listed(i)'
      BY <3>1, <3>4, <3>5, <3>6, <3>7 DEF Listed
    <3>9. ItemInv(i)
      BY DEF QueueInv
    <3> QED BY <1>4, <2>2, <3>1, <3>8, <3>9 DEF ItemInv
  <2> QED BY <2>1, <2>2
<1>11. ASSUME NEW d \in Drains PROVE DrainInv(d)'
  BY <1>4, SameDrain DEF QueueInv
<1> QED BY <1>8, <1>9, <1>10, <1>11 DEF QueueInv

LEMMA EnqueueReturnsQueue ==
  ASSUME QueueInv, NEW i \in Items, EnqueueReturns(i)
  PROVE  QueueInv'
<1>1. /\ op[i] = "saving" /\ ~Waiting(i)
      /\ op' = [op EXCEPT ![i] = "saved"]
      /\ UNCHANGED <<queue, writes, disk, file, at, todo, accepted, discarded, cleaned>>
  BY DEF EnqueueReturns, memory, handset, history
<1>2. ListsInv'
  BY <1>1, SameLists DEF QueueInv
<1>3. PlacesInv'
  BY <1>1 DEF QueueInv, PlacesInv
<1>4. ASSUME NEW j \in Items PROVE ItemInv(j)'
  <2>1. ItemInv(j)
    BY DEF QueueInv
  <2>2. CASE j # i
    <3>1. op'[j] = op[j]
      BY <1>1, <2>2 DEF QueueInv, PlacesInv
    <3>2. (Unlisted(j) => Unlisted(j)') /\ (Listed(j) => Listed(j)')
      BY <1>1, <3>1 DEF Unlisted, Listed, Has, Waiting
    <3> QED BY <1>1, <2>1, <3>1, <3>2 DEF ItemInv
  <2>3. CASE j = i
    <3>1. op'[i] = "saved"
      BY <1>1 DEF QueueInv, PlacesInv
    <3>2. Listed(i) => Listed(i)'
      <4>1. \A k \in DOMAIN writes : writes[k].by # i
        BY <1>1 DEF Waiting
      <4> QED BY <1>1, <4>1 DEF Listed, Has
    <3> QED BY <1>1, <2>1, <2>3, <3>1, <3>2 DEF ItemInv
  <2> QED BY <2>2, <2>3
<1>5. ASSUME NEW d \in Drains PROVE DrainInv(d)'
  BY <1>1, SameDrain DEF QueueInv
<1> QED BY <1>2, <1>3, <1>4, <1>5 DEF QueueInv

LEMMA UserRemovesQueue ==
  ASSUME QueueInv, NEW i \in Items, UserRemoves(i)
  PROVE  QueueInv'
<1> DEFINE q == Without(queue, i)
<1>1. /\ Persist(q, i)
      /\ op' = [op EXCEPT ![i] = "removing"]
      /\ discarded' = discarded \cup {i}
      /\ UNCHANGED <<disk, file, at, todo, accepted, cleaned>>
  BY DEF UserRemoves, handset
<1>2. PICK A : queue \in Seq(Listable(A))
  BY DEF QueueInv, ListsInv, Lists
<1>3. /\ q \in Seq(Listable(A))
      /\ \A j : Has(q, j) => Has(queue, j)
      /\ \A j : j # i /\ Has(queue, j) => Has(q, j)
      /\ Unique(queue) => Unique(q) /\ ~Has(q, i)
  BY <1>2, ShortenedList
<1> HIDE DEF q
<1>4. i \in Everyone
  BY DEF Everyone
<1>5. ListsInv'
  BY <1>1, <1>3, <1>4, PersistLists DEF QueueInv, ListsInv
<1>6. PlacesInv'
  BY <1>1 DEF QueueInv, PlacesInv
<1>7. ASSUME NEW j \in Items PROVE ItemInv(j)'
  <2>1. ItemInv(j) /\ ListsInv
    BY DEF QueueInv
  <2>2. CASE j # i
    <3>1. op'[j] = op[j]
      BY <1>1, <2>2 DEF QueueInv, PlacesInv
    <3> QED BY <1>1, <1>3, <1>4, <2>1, <2>2, <3>1, PersistItem
  <2>3. CASE j = i
    <3>1. op'[i] = "removing" /\ i \in discarded'
      BY <1>1 DEF QueueInv, PlacesInv
    <3> QED BY <2>3, <3>1 DEF ItemInv
  <2> QED BY <2>2, <2>3
<1>8. ASSUME NEW d \in Drains PROVE DrainInv(d)'
  BY <1>1, SameDrain DEF QueueInv
<1> QED BY <1>5, <1>6, <1>7, <1>8 DEF QueueInv

LEMMA UserRemoveDeletesQueue ==
  ASSUME QueueInv, NEW i \in Items, UserRemoveDeletes(i)
  PROVE  QueueInv'
<1>1. /\ op[i] = "removing"
      /\ file' = file \ {i}
      /\ op' = [op EXCEPT ![i] = "saved"]
      /\ UNCHANGED <<queue, writes, disk, at, todo, accepted, discarded, cleaned>>
  BY DEF UserRemoveDeletes, memory, history
<1>2. ListsInv'
  BY <1>1, SameLists DEF QueueInv
<1>3. PlacesInv'
  BY <1>1 DEF QueueInv, PlacesInv
<1>4. ASSUME NEW j \in Items PROVE ItemInv(j)'
  <2>1. ItemInv(j)
    BY DEF QueueInv
  <2>2. CASE j # i
    <3>1. op'[j] = op[j]
      BY <1>1, <2>2 DEF QueueInv, PlacesInv
    <3>2. (Unlisted(j) => Unlisted(j)') /\ (Listed(j) => Listed(j)')
      BY <1>1, <3>1 DEF Unlisted, Listed, Has, Waiting
    <3> QED BY <1>1, <2>1, <2>2, <3>1, <3>2 DEF ItemInv
  <2>3. CASE j = i
    <3>1. op'[i] = "saved" /\ i \in discarded
      BY <1>1, <2>1, <2>3 DEF QueueInv, PlacesInv, ItemInv
    <3> QED BY <1>1, <2>3, <3>1 DEF ItemInv
  <2> QED BY <2>2, <2>3
<1>5. ASSUME NEW d \in Drains PROVE DrainInv(d)'
  BY <1>1, SameDrain DEF QueueInv
<1> QED BY <1>2, <1>3, <1>4, <1>5 DEF QueueInv


\* A new list in the same step as other changes, of the same recordings or without
\* those that are stored: RetryNow, fail() and remove().
LEMMA PersistQueue ==
  ASSUME QueueInv, NEW B, NEW q \in Seq(Listable(B)), Unique(q), NEW by \in Everyone,
         Persist(q, by), UNCHANGED <<disk, file, op, accepted, discarded, cleaned>>,
         \A j \in Items : Has(q, j) => Has(queue, j),
         \A j \in Items \ accepted : Has(queue, j) => Has(q, j)
  PROVE  ListsInv' /\ \A i \in Items : ItemInv(i)'
<1>1. ListsInv'
  BY PersistLists DEF QueueInv
<1>2. ASSUME NEW i \in Items PROVE ItemInv(i)'
  BY PersistItem DEF QueueInv
<1> QED BY <1>1, <1>2

LEMMA RetryNowQueue ==
  ASSUME QueueInv, NEW i \in Items, RetryNow(i)
  PROVE  QueueInv'
<1> DEFINE q == [k \in DOMAIN queue |->
                   IF queue[k].item = i THEN [queue[k] EXCEPT !.when = "now"] ELSE queue[k]]
<1>1. Persist(q, Nobody) /\ UNCHANGED <<disk, file, op, at, todo, accepted, discarded, cleaned>>
  BY DEF RetryNow, Change, handset, history
<1>2. PICK A : queue \in Seq(Listable(A))
  BY DEF QueueInv, ListsInv, Lists
<1>3. \A k \in DOMAIN queue : q[k] \in Listable(A) /\ q[k].item = queue[k].item
  <2>1. \A k \in DOMAIN queue : queue[k] \in Listable(A)
    BY <1>2
  <2> QED BY <2>1 DEF Listable
<1>4. q = [k \in DOMAIN queue |-> q[k]]
  OBVIOUS
<1> HIDE DEF q
<1>5. q \in Seq(Listable(A)) /\ SameItems(q, queue) /\ (Unique(queue) => Unique(q))
  BY <1>2, <1>3, <1>4, ChangedList
<1>6. Nobody \in Everyone
  BY DEF Everyone
<1>7. ListsInv' /\ \A j \in Items : ItemInv(j)'
  BY <1>1, <1>5, <1>6, PersistQueue DEF SameItems, QueueInv, ListsInv
<1>8. PlacesInv'
  BY <1>1 DEF QueueInv, PlacesInv
<1>9. ASSUME NEW d \in Drains PROVE DrainInv(d)'
  BY <1>1, SameDrain DEF QueueInv
<1> QED BY <1>7, <1>8, <1>9 DEF QueueInv

-----------------------------------------------------------------------------
(* The steps of a drain                                                    *)

\* The drain goes to a place where no entry of its is stored and still listed.
LEMMA DrainMoves ==
  ASSUME QueueInv, NEW d \in Drains, NEW p \in {"idle", "checked", "working", "sending", "settling"},
         at' = [at EXCEPT ![d] = p],
         DOMAIN todo' = Drains, \A c \in Drains \ {d} : todo'[c] = todo[c],
         op' = op, accepted' = accepted
  PROVE  PlacesInv' /\ \A c \in Drains : DrainInv(c)'
<1>1. /\ at'[d] = p /\ \A c \in Drains \ {d} : at'[c] = at[c]
  BY DEF QueueInv, PlacesInv
<1>2. PlacesInv'
  BY DEF QueueInv, PlacesInv
<1>3. ASSUME NEW c \in Drains PROVE DrainInv(c)'
  BY <1>1 DEF QueueInv, DrainInv, Current
<1> QED BY <1>2, <1>3

LEMMA DrainQueue ==
  ASSUME QueueInv, NEW d \in Drains,
         \/ DrainCheck(d) \/ DrainOffline(d) \/ DrainStart(d) \/ DrainSkip(d)
         \/ DrainEnd(d) \/ AttemptSend(d) \/ AttemptDone(d)
  PROVE  QueueInv'
<1>1. UNCHANGED <<queue, writes, disk, file, op, accepted, discarded, cleaned>>
  BY DEF DrainCheck, DrainOffline, DrainStart, DrainSkip, DrainEnd, AttemptSend,
         AttemptDone, handset, history
<1>2. ListsInv'
  BY <1>1, SameLists DEF QueueInv
<1>3. ASSUME NEW i \in Items PROVE ItemInv(i)'
  <2>1. i \notin accepted \cup discarded => i \in file \cup cleaned
    BY DEF QueueInv, ItemInv
  <2> QED BY <1>1, <2>1, SameItem DEF QueueInv
<1>4. /\ DOMAIN todo' = Drains
      /\ \A c \in Drains \ {d} : todo'[c] = todo[c]
  BY DEF QueueInv, PlacesInv, DrainCheck, DrainOffline, DrainStart, DrainSkip, DrainEnd,
         AttemptSend, AttemptDone
<1>5. PlacesInv' /\ \A c \in Drains : DrainInv(c)'
  <2>1. CASE at' = at
    <3>1. at[d] = "working"
      BY <2>1 DEF QueueInv, PlacesInv, DrainCheck, DrainOffline, DrainStart, DrainSkip,
                  DrainEnd, AttemptSend, AttemptDone
    <3>2. at' = [at EXCEPT ![d] = "working"]
      BY <2>1, <3>1 DEF QueueInv, PlacesInv
    <3> QED BY <1>1, <1>4, <3>2, DrainMoves
  <2>2. CASE \E p \in {"idle", "checked", "working", "sending", "settling"} :
               at' = [at EXCEPT ![d] = p]
    BY <1>1, <1>4, <2>2, DrainMoves
  <2> QED BY <2>1, <2>2 DEF DrainCheck, DrainOffline, DrainStart, DrainSkip, DrainEnd,
                            AttemptSend, AttemptDone
<1> QED BY <1>2, <1>3, <1>5 DEF QueueInv

LEMMA FailQueue ==
  ASSUME QueueInv, NEW d \in Drains, NEW permanent \in BOOLEAN, Fail(d, permanent)
  PROVE  QueueInv'
<1> DEFINE i == Current(d).item
           n == Current(d).attempts + 1
           w == IF Exhausted(n, permanent) THEN "never" ELSE "later"
           q == [k \in DOMAIN queue |->
                   IF queue[k].item = i
                     THEN [queue[k] EXCEPT !.attempts = n, !.when = w] ELSE queue[k]]
<1>1. /\ Persist(q, d)
      /\ at' = [at EXCEPT ![d] = "settling"]
      /\ UNCHANGED <<todo, disk, file, op, accepted, discarded, cleaned>>
  BY DEF Fail, Failed, Change, handset, history
<1>2. PICK A : queue \in Seq(Listable(A))
  BY DEF QueueInv, ListsInv, Lists
<1> HIDE DEF i, n
<1> DEFINE B == A \cup {n}
<1>3. queue \in Seq(Listable(B))
  BY <1>2, LargerList
<1>4. \A k \in DOMAIN queue : q[k] \in Listable(B) /\ q[k].item = queue[k].item
  <2>1. \A k \in DOMAIN queue : queue[k] \in Listable(B)
    BY <1>3
  <2>2. n \in B /\ w \in {"now", "later", "never"}
    OBVIOUS
  <2> HIDE DEF w, B
  <2> QED BY <2>1, <2>2 DEF Listable
<1>5. q = [k \in DOMAIN queue |-> q[k]]
  OBVIOUS
<1> HIDE DEF q, B
<1>6. q \in Seq(Listable(B)) /\ SameItems(q, queue) /\ (Unique(queue) => Unique(q))
  BY <1>3, <1>4, <1>5, ChangedList
<1>7. d \in Everyone
  BY DEF Everyone
<1>8. ListsInv' /\ \A j \in Items : ItemInv(j)'
  BY <1>1, <1>6, <1>7, PersistQueue DEF SameItems, QueueInv, ListsInv
<1>9. PlacesInv' /\ \A c \in Drains : DrainInv(c)'
  <2>1. DOMAIN todo' = Drains /\ \A c \in Drains \ {d} : todo'[c] = todo[c]
    BY <1>1 DEF QueueInv, PlacesInv
  <2> QED BY <1>1, <2>1, DrainMoves
<1> QED BY <1>8, <1>9 DEF QueueInv

LEMMA ServerAcceptsQueue ==
  ASSUME QueueInv, NEW d \in Drains, ServerAccepts(d)
  PROVE  QueueInv'
<1>1. /\ at[d] = "sending" /\ at' = [at EXCEPT ![d] = "answered"]
      /\ accepted' = accepted \cup {Current(d).item}
      /\ UNCHANGED <<queue, writes, disk, file, op, todo, discarded, cleaned>>
  BY DEF ServerAccepts, handset
<1>2. ListsInv'
  BY <1>1, SameLists DEF QueueInv
<1>3. PlacesInv'
  BY <1>1 DEF QueueInv, PlacesInv
<1>4. ASSUME NEW i \in Items PROVE ItemInv(i)'
  <2>1. i \notin accepted \cup discarded => i \in file \cup cleaned
    BY DEF QueueInv, ItemInv
  <2> QED BY <1>1, <2>1, SameItem DEF QueueInv
<1>5. ASSUME NEW c \in Drains PROVE DrainInv(c)'
  <2>1. CASE c = d
    BY <1>1, <2>1 DEF DrainInv, Current
  <2>2. CASE c # d
    <3>1. at'[c] = at[c]
      BY <1>1, <2>2 DEF QueueInv, PlacesInv
    <3> QED BY <1>1, <3>1, SameDrain DEF QueueInv
  <2> QED BY <2>1, <2>2
<1> QED BY <1>2, <1>3, <1>4, <1>5 DEF QueueInv

LEMMA AttemptSucceedsQueue ==
  ASSUME QueueInv, NEW d \in Drains, AttemptSucceeds(d)
  PROVE  QueueInv'
<1> DEFINE i == Current(d).item
           q == Without(queue, i)
<1>1. /\ at[d] = "answered" /\ Persist(q, d)
      /\ UNCHANGED <<todo, disk, file, op, accepted, discarded, cleaned>>
  BY DEF AttemptSucceeds, handset, history
<1>2. PICK p \in {"removing", "settling"} : at' = [at EXCEPT ![d] = p]
  BY DEF AttemptSucceeds
<1>3. i \in accepted
  BY <1>1 DEF QueueInv, DrainInv
<1>4. PICK A : queue \in Seq(Listable(A))
  BY DEF QueueInv, ListsInv, Lists
<1>5. /\ q \in Seq(Listable(A))
      /\ \A j : Has(q, j) => Has(queue, j)
      /\ \A j : j # i /\ Has(queue, j) => Has(q, j)
      /\ Unique(queue) => Unique(q)
  BY <1>4, ShortenedList
<1> HIDE DEF q
<1>6. d \in Everyone
  BY DEF Everyone
<1>7. ListsInv' /\ \A j \in Items : ItemInv(j)'
  BY <1>1, <1>3, <1>5, <1>6, PersistQueue DEF QueueInv, ListsInv
<1>8. PlacesInv'
  BY <1>1, <1>2 DEF QueueInv, PlacesInv
<1>9. ASSUME NEW c \in Drains PROVE DrainInv(c)'
  <2>1. CASE c = d
    BY <1>1, <1>3, <2>1 DEF DrainInv, Current
  <2>2. CASE c # d
    <3>1. at'[c] = at[c]
      BY <1>2, <2>2 DEF QueueInv, PlacesInv
    <3> QED BY <1>1, <3>1, SameDrain DEF QueueInv
  <2> QED BY <2>1, <2>2
<1> QED BY <1>7, <1>8, <1>9 DEF QueueInv

LEMMA AttemptDeletesQueue ==
  ASSUME QueueInv, NEW d \in Drains, AttemptDeletes(d)
  PROVE  QueueInv'
<1>1. /\ at[d] = "removing"
      /\ file' = file \ {Current(d).item}
      /\ at' = [at EXCEPT ![d] = "settling"]
      /\ UNCHANGED <<queue, writes, disk, op, todo, accepted, discarded, cleaned>>
  BY DEF AttemptDeletes, FileUnneeded, history
<1>2. Current(d).item \in accepted
  BY <1>1 DEF QueueInv, DrainInv
<1>3. ListsInv'
  BY <1>1, SameLists DEF QueueInv
<1>4. ASSUME NEW i \in Items PROVE ItemInv(i)'
  <2>1. i \notin accepted \cup discarded => i \in file \cup cleaned
    BY DEF QueueInv, ItemInv
  <2> QED BY <1>1, <1>2, <2>1, SameItem DEF QueueInv
<1>5. PlacesInv' /\ \A c \in Drains : DrainInv(c)'
  <2>1. DOMAIN todo' = Drains /\ \A c \in Drains \ {d} : todo'[c] = todo[c]
    BY <1>1 DEF QueueInv, PlacesInv
  <2> QED BY <1>1, <2>1, DrainMoves
<1> QED BY <1>3, <1>4, <1>5 DEF QueueInv


-----------------------------------------------------------------------------
(* AsyncStorage, time, the OS and the end of the process                   *)

LEMMA WriteDoneQueue ==
  ASSUME QueueInv, WriteDone
  PROVE  QueueInv'
<1>1. /\ writes # <<>> /\ disk' = Head(writes).queue /\ writes' = Tail(writes)
      /\ UNCHANGED <<queue, at, todo, file, op, accepted, discarded, cleaned>>
  BY DEF WriteDone, history
<1>2. PICK A : Lists(A)
  BY DEF QueueInv, ListsInv
<1> DEFINE n == Len(writes)
<1>3. /\ writes' \in Seq(Writable(A)) /\ Len(writes') = n - 1
      /\ \A l \in 1..(n - 1) : writes'[l] = writes[l + 1]
      /\ disk' = writes[1].queue
      /\ n \in Nat /\ n >= 1 /\ DOMAIN writes = 1..n
  BY <1>1, <1>2, HeadTailProperties, LenProperties DEF Lists
<1>4. DOMAIN writes' = 1..(n - 1)
  BY <1>3
<1> HIDE DEF n
<1>5. /\ 1 \in 1..n
      /\ \A l \in 1..(n - 1) : l + 1 \in 1..n
      /\ \A k \in 1..n : k = 1 \/ (k - 1 \in 1..(n - 1) /\ (k - 1) + 1 = k)
  BY <1>3
<1>6. ListsInv'
  <2>1. Lists(A)'
    <3>1. writes[1] \in Writable(A)
      BY <1>2, <1>3, <1>5, ElementOfSeq DEF Lists, n
    <3> QED BY <1>1, <1>2, <1>3, <3>1 DEF Lists, Writable
  <2>2. Unique(queue') /\ Unique(disk')
    BY <1>1, <1>3, <1>5 DEF QueueInv, ListsInv
  <2>3. \A l \in DOMAIN writes' : Unique(writes'[l].queue)
    BY <1>3, <1>4, <1>5 DEF QueueInv, ListsInv
  <2>4. Newest' = Newest
    <3>1. CASE n = 1
      <4>1. writes' = <<>>
        BY <1>3, <3>1, EmptySeq
      <4> QED BY <1>1, <1>3, <3>1, <4>1 DEF Newest, n
    <3>2. CASE n # 1
      <4>1. n - 1 \in 1..(n - 1) /\ (n - 1) + 1 = n
        BY <1>3, <3>2
      <4>2. writes' # <<>>
        BY <1>4, <4>1
      <4>3. writes'[n - 1] = writes[n]
        BY <1>3, <4>1
      <4> QED BY <1>1, <1>3, <4>2, <4>3 DEF Newest, n
    <3> QED BY <3>1, <3>2
  <2>5. Key(Newest)' = Key(queue)'
    BY <1>1, <2>4 DEF QueueInv, ListsInv, Key
  <2> QED BY <2>1, <2>2, <2>3, <2>5 DEF ListsInv
<1>7. PlacesInv'
  BY <1>1 DEF QueueInv, PlacesInv
<1>8. ASSUME NEW i \in Items PROVE ItemInv(i)'
  <2>1. ItemInv(i)
    BY DEF QueueInv
  <2>2. Unlisted(i) => Unlisted(i)'
    BY <1>1, <1>3, <1>4, <1>5 DEF Unlisted, Has
  <2>3. ASSUME Listed(i) PROVE Listed(i)'
    <3>1. ASSUME NEW l \in 1..(n - 1)
          PROVE  \/ Has(writes'[l].queue, i)
                 \/ op'[i] = "saving" /\ \E k \in DOMAIN writes' : k > l /\ writes'[k].by = i
      <4>1. CASE Has(writes[l + 1].queue, i)
        BY <1>3, <4>1
      <4>2. CASE op[i] = "saving" /\ \E k \in 1..n : k > l + 1 /\ writes[k].by = i
        <5>1. PICK k \in 1..n : k > l + 1 /\ writes[k].by = i
          BY <4>2
        <5>2. k - 1 \in 1..(n - 1) /\ k - 1 > l /\ (k - 1) + 1 = k
          BY <1>3, <5>1
        <5>3. writes'[k - 1].by = i
          BY <1>3, <5>1, <5>2
        <5> QED BY <1>1, <1>4, <4>2, <5>2, <5>3
      <4> QED BY <1>3, <1>5, <2>3, <4>1, <4>2 DEF Listed
    <3>2. Has(disk', i) \/ (op'[i] = "saving" /\ Waiting(i)')
      <4>1. CASE Has(writes[1].queue, i)
        BY <1>3, <4>1
      <4>2. CASE op[i] = "saving" /\ \E k \in 1..n : k > 1 /\ writes[k].by = i
        <5>1. PICK k \in 1..n : k > 1 /\ writes[k].by = i
          BY <4>2
        <5>2. k - 1 \in 1..(n - 1) /\ (k - 1) + 1 = k
          BY <1>3, <5>1
        <5>3. writes'[k - 1].by = i
          BY <1>3, <5>1, <5>2
        <5> QED BY <1>1, <1>4, <4>2, <5>2, <5>3 DEF Waiting
      <4> QED BY <1>3, <1>5, <2>3, <4>1, <4>2 DEF Listed
    <3>3. Has(queue', i)
      BY <1>1, <2>3 DEF Listed
    <3> QED BY <1>4, <3>1, <3>2, <3>3 DEF Listed
  <2> QED BY <1>1, <2>1, <2>2, <2>3 DEF ItemInv
<1>9. ASSUME NEW d \in Drains PROVE DrainInv(d)'
  BY <1>1, SameDrain DEF QueueInv
<1> QED BY <1>6, <1>7, <1>8, <1>9 DEF QueueInv

LEMMA BackoffElapsesQueue ==
  ASSUME QueueInv, NEW i \in Items, BackoffElapses(i)
  PROVE  QueueInv'
<1> DEFINE q == [k \in DOMAIN queue |->
                   IF queue[k].item = i THEN [queue[k] EXCEPT !.when = "now"] ELSE queue[k]]
<1>1. /\ queue' = q
      /\ \E k \in DOMAIN queue : queue[k].item = i /\ queue[k].when = "later"
      /\ UNCHANGED <<writes, disk, file, op, at, todo, accepted, discarded, cleaned>>
  BY DEF BackoffElapses, Change, history
<1>2. PICK A : Lists(A)
  BY DEF QueueInv, ListsInv
<1>3. \A k \in DOMAIN queue : queue[k] \in Listable(A)
  BY <1>2 DEF Lists
<1>4. \A k \in DOMAIN queue : q[k] \in Listable(A) /\ q[k].item = queue[k].item
  BY <1>3 DEF Listable
<1>5. q = [k \in DOMAIN queue |-> q[k]]
  OBVIOUS
\* Only the entry in backoff changes: i is listed once.
<1>6. Key(q) = Key(queue)
  <2>1. PICK j \in DOMAIN queue : queue[j].item = i /\ queue[j].when = "later"
    BY <1>1
  <2>2. \A k \in DOMAIN queue : queue[k].item = i => queue[k].when # "never"
    BY <2>1 DEF QueueInv, ListsInv, Unique
  <2>3. ASSUME NEW k \in DOMAIN queue
        PROVE  [q[k] EXCEPT !.when = IF @ = "never" THEN @ ELSE "now"]
                 = [queue[k] EXCEPT !.when = IF @ = "never" THEN @ ELSE "now"]
    <3>1. CASE queue[k].item = i
      <4>1. queue[k] \in Listable(A) /\ queue[k].when # "never"
        BY <1>3, <2>2, <3>1
      <4>2. q[k] = [queue[k] EXCEPT !.when = "now"]
        BY <3>1
      <4> HIDE DEF q
      <4> QED BY <4>1, <4>2 DEF Listable
    <3>2. CASE queue[k].item # i
      BY <3>2
    <3> QED BY <3>1, <3>2
  <2> QED BY <2>3 DEF Key
<1> HIDE DEF q
<1>7. q \in Seq(Listable(A)) /\ SameItems(q, queue) /\ (Unique(queue) => Unique(q))
  BY <1>2, <1>4, <1>5, ChangedList DEF Lists
<1>8. ListsInv'
  <2>1. Lists(A)'
    BY <1>1, <1>2, <1>7 DEF Lists
  <2>2. Key(Newest)' = Key(queue)'
    BY <1>1, <1>6 DEF QueueInv, ListsInv, Newest, Key
  <2> QED BY <1>1, <1>7, <2>1, <2>2 DEF QueueInv, ListsInv
<1>9. PlacesInv'
  BY <1>1 DEF QueueInv, PlacesInv
<1>10. ASSUME NEW j \in Items PROVE ItemInv(j)'
  <2>1. Has(queue', j) <=> Has(queue, j)
    BY <1>1, <1>7 DEF SameItems
  <2>2. (Unlisted(j) => Unlisted(j)') /\ (Listed(j) => Listed(j)')
    BY <1>1, <2>1 DEF Unlisted, Listed, Waiting
  <2> QED BY <1>1, <2>2 DEF QueueInv, ItemInv
<1>11. ASSUME NEW d \in Drains PROVE DrainInv(d)'
  BY <1>1, SameDrain DEF QueueInv
<1> QED BY <1>8, <1>9, <1>10, <1>11 DEF QueueInv

LEMMA OsCleansQueue ==
  ASSUME QueueInv, NEW i \in Items, OsCleans(i)
  PROVE  QueueInv'
<1>1. /\ file' = file \ {i} /\ cleaned' = cleaned \cup {i}
      /\ UNCHANGED <<queue, writes, disk, op, at, todo, accepted, discarded>>
  BY DEF OsCleans, memory
<1>2. ListsInv'
  BY <1>1, SameLists DEF QueueInv
<1>3. PlacesInv'
  BY <1>1 DEF QueueInv, PlacesInv
<1>4. ASSUME NEW j \in Items PROVE ItemInv(j)'
  <2>1. j \notin accepted \cup discarded => j \in file \cup cleaned
    BY DEF QueueInv, ItemInv
  <2> QED BY <1>1, <2>1, SameItem DEF QueueInv
<1>5. ASSUME NEW d \in Drains PROVE DrainInv(d)'
  BY <1>1, SameDrain DEF QueueInv
<1> QED BY <1>2, <1>3, <1>4, <1>5 DEF QueueInv

LEMMA KillQueue ==
  ASSUME QueueInv, Kill
  PROVE  QueueInv'
<1>1. /\ queue' = disk /\ writes' = <<>>
      /\ at' = [d \in Drains |-> "idle"] /\ todo' = [d \in Drains |-> <<>>]
      /\ op' = [i \in Items |->
                  CASE op[i] = "saving" -> IF Has(disk, i) THEN "saved" ELSE "lost"
                    [] op[i] = "removing" -> "saved"
                    [] OTHER -> op[i]]
      /\ UNCHANGED <<disk, file, accepted, discarded, cleaned>>
  BY DEF Kill, handset, history
<1>2. ListsInv'
  <2>1. PICK A : Lists(A)
    BY DEF QueueInv, ListsInv
  <2>2. Lists(A)'
    BY <1>1, <2>1 DEF Lists
  <2>3. \A l \in DOMAIN writes' : Unique(writes'[l].queue)
    BY <1>1
  <2>4. Unique(queue') /\ Unique(disk')
    BY <1>1 DEF QueueInv, ListsInv
  <2>5. Key(Newest)' = Key(queue)'
    BY <1>1 DEF Newest, Key
  <2> QED BY <2>2, <2>3, <2>4, <2>5 DEF ListsInv
<1>3. PlacesInv'
  BY <1>1 DEF QueueInv, PlacesInv
<1>4. ASSUME NEW i \in Items PROVE ItemInv(i)'
  <2>1. ItemInv(i) /\ op[i] \in {"recorded", "saving", "saved", "removing", "lost"}
    BY DEF QueueInv, PlacesInv
  <2>2. op'[i] = CASE op[i] = "saving" -> IF Has(disk, i) THEN "saved" ELSE "lost"
                   [] op[i] = "removing" -> "saved"
                   [] OTHER -> op[i]
    BY <1>1
  <2>3. /\ op'[i] = "recorded" => op[i] = "recorded"
        /\ op'[i] # "removing" /\ op'[i] # "saving"
        /\ op'[i] = "saved" => \/ op[i] = "saving" /\ Has(disk, i)
                               \/ op[i] = "removing" \/ op[i] = "saved"
    BY <2>1, <2>2
  <2>4. Unlisted(i) => Unlisted(i)'
    BY <1>1 DEF Unlisted
  <2>5. Has(disk, i) => Listed(i)'
    BY <1>1 DEF Listed
  <2>6. op[i] = "saved" /\ Listed(i) => Has(disk, i)
    BY DEF Listed
  <2> QED BY <1>1, <2>1, <2>3, <2>4, <2>5, <2>6 DEF ItemInv
<1>5. ASSUME NEW d \in Drains PROVE DrainInv(d)'
  BY <1>1 DEF DrainInv
<1> QED BY <1>2, <1>3, <1>4, <1>5 DEF QueueInv

-----------------------------------------------------------------------------
(* The theorems                                                            *)

LEMMA NextQueueInv == QueueInv /\ [Next]_vars => QueueInv'
<1> SUFFICES ASSUME QueueInv, [Next]_vars PROVE QueueInv'
  OBVIOUS
<1>1. CASE WriteDone
  BY <1>1, WriteDoneQueue
<1>2. CASE \E i \in Items : ScreenStep(i)
  BY <1>2, EnqueueQueue, EnqueueReturnsQueue, UserRemovesQueue, UserRemoveDeletesQueue,
     RetryNowQueue DEF ScreenStep
<1>3. CASE \E i \in Items : BackoffElapses(i) \/ OsCleans(i)
  BY <1>3, BackoffElapsesQueue, OsCleansQueue
<1>4. ASSUME NEW d \in Drains, DrainStep(d) PROVE QueueInv'
  <2>1. CASE AttemptMissing(d)
    BY <2>1, FailQueue DEF AttemptMissing
  <2>2. CASE AttemptFails(d)
    BY <2>2, FailQueue DEF AttemptFails
  <2>3. CASE ServerAccepts(d) \/ AttemptSucceeds(d) \/ AttemptDeletes(d)
    BY <2>3, ServerAcceptsQueue, AttemptSucceedsQueue, AttemptDeletesQueue
  <2> QED BY <1>4, <2>1, <2>2, <2>3, DrainQueue DEF DrainStep, AttemptStep
<1>5. CASE Kill
  BY <1>5, KillQueue
<1>6. CASE UNCHANGED vars
  <2>1. UNCHANGED <<queue, writes, disk, file, op, at, todo, accepted, discarded, cleaned>>
    BY <1>6 DEF vars, memory, handset, history
  <2>2. ListsInv'
    BY <2>1, SameLists DEF QueueInv
  <2>3. ASSUME NEW i \in Items PROVE ItemInv(i)'
    <3>1. i \notin accepted \cup discarded => i \in file \cup cleaned
      BY DEF QueueInv, ItemInv
    <3> QED BY <2>1, <3>1, SameItem DEF QueueInv
  <2>4. ASSUME NEW d \in Drains PROVE DrainInv(d)'
    BY <2>1, SameDrain DEF QueueInv
  <2>5. PlacesInv'
    BY <2>1 DEF QueueInv, PlacesInv
  <2> QED BY <2>2, <2>3, <2>4, <2>5 DEF QueueInv
<1> QED BY <1>1, <1>2, <1>3, <1>4, <1>5, <1>6 DEF Next

\* Whatever drains overlap and whenever the app is killed, a recording whose
\* enqueue returned is on disk with its file until the server stored it or the
\* agent deleted it (uploadQueue.ts: persist before the file goes, and remove only
\* after an answer).
THEOREM SavedIsNotLost == Spec => []SavedNotLost
<1>1. QueueInv => SavedNotLost
  <2> SUFFICES ASSUME QueueInv, NEW i \in Items, op[i] \in {"saved", "removing"},
                      i \notin accepted \cup discarded
               PROVE  Has(disk, i) /\ i \in file \cup cleaned
    BY DEF SavedNotLost
  <2>1. ItemInv(i)
    BY DEF QueueInv
  <2> QED BY <2>1 DEF ItemInv, Listed
<1> QED BY <1>1, InitQueueInv, NextQueueInv, PTL DEF Spec

\* The list holds no recording twice, and every change of it is written: the
\* newest write, or the disk, is the list in memory up to backoffs that passed.
THEOREM DiskOnlyLags == Spec => []DiskFollows
<1>1. QueueInv => DiskFollows
  BY DEF QueueInv, ListsInv, DiskFollows, Newest, Key, Unique
<1> QED BY <1>1, InitQueueInv, NextQueueInv, PTL DEF Spec
=============================================================================
