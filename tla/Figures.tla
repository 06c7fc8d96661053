------------------------------ MODULE Figures ------------------------------
(***************************************************************************)
(* The figures of the dashboard and of the agent's home screen, as         *)
(* functions of the tables they are computed from: services/metrics.py,    *)
(* services/timerange.py, services/presence.py, api/v1/agents.py,          *)
(* api/v1/calls.py, api/v1/tasks.py, api/v1/leads.py and api/v1/mobile.py. *)
(*                                                                         *)
(* A database `db` is a record of tables of one organisation: calls,       *)
(* agents, items and leads are sets of rows, numbers the policies' rows,   *)
(* jobs a set of rows, and analyses a function from the ids of analysed    *)
(* calls.  An average is kept as <<sum, count>>, unrounded.                *)
(***************************************************************************)
EXTENDS Integers, FiniteSets, Sequences, FiniteSetsExt, Functions

CONSTANTS
  Day, Week,               \* lengths in hours: 24 and 168; weeks begin at 0
  HourlyUpTo, DailyUpTo,   \* default_bucket: 2 and 90 days, in hours
  MaxRange,                \* MAX_RANGE_DAYS, in hours
  MaxBuckets               \* _bucket_range: 1000

\* The cap on buckets leaves room for the longest window of every length, one that
\* begins late in its first bucket included.
ASSUME FiguresAssumption ==
  /\ Day \in Nat \ {0} /\ Week \in Nat \ {0} /\ Week % Day = 0
  /\ HourlyUpTo \in Nat /\ DailyUpTo \in Nat /\ MaxRange \in Nat
  /\ MaxBuckets \in Nat
  /\ HourlyUpTo + 1 <= MaxBuckets
  /\ DailyUpTo + Day <= MaxBuckets * Day
  /\ MaxRange + Week <= MaxBuckets * Week

NoInstant == -1
NoDuration == -1
NoMean == <<0, 0>>
SentimentOrder == {"very_negative", "negative", "neutral", "positive", "very_positive"}
OnlineStatuses == {"available", "on_call", "wrap_up", "break"}
Waiting == {"open", "in_progress"}

Mean(f(_), S) == <<SumFunction([s \in S |-> f(s)]), Cardinality(S)>>
IfNonZero(m) == IF m[1] = 0 THEN NoMean ELSE m    \* `if avg else None`
Tally(S, f(_)) == [x \in {f(s) : s \in S} |-> Cardinality({s \in S : f(s) = x})]
At(counts, x) == IF x \in DOMAIN counts THEN counts[x] ELSE 0

-----------------------------------------------------------------------------
(* Windows and buckets of time. *)

ResolveRange(now, days, start, end) ==
  LET till == IF end = NoInstant THEN now ELSE end
      from == IF start = NoInstant THEN till - days * Day ELSE start
      hi   == Max({from, till})
      lo   == Min({from, till})
  IN  [from |-> IF hi - lo > MaxRange THEN hi - MaxRange ELSE lo, till |-> hi]

DefaultBucket(w) ==
  CASE w.till - w.from <= HourlyUpTo -> "hour"
    [] w.till - w.from > HourlyUpTo /\ w.till - w.from <= DailyUpTo -> "day"
    [] OTHER -> "week"

BucketLength == [hour |-> 1, day |-> Day, week |-> Week]
Floor(t, bucket) == t - (t % BucketLength[bucket])

BucketRangeOpen(w, bucket) ==              \* variant: the last bucket left out
  {t \in {Floor(w.from, bucket) + k * BucketLength[bucket] : k \in 0..(MaxBuckets - 1)} :
      t < Floor(w.till, bucket)}

BucketRange(w, bucket) ==
  {t \in {Floor(w.from, bucket) + k * BucketLength[bucket] : k \in 0..(MaxBuckets - 1)} :
      t <= Floor(w.till, bucket)}

InRange(db, w) == {c \in db.calls : w.from <= c.at /\ c.at < w.till}

Analysed(db, C) == {c \in C : c.id \in DOMAIN db.analyses}   \* the join on Analysis
Verdicts(db, C, v) == {c \in Analysed(db, C) : db.analyses[c.id].satisfied = v}

\* avg() passes over NULL, and missed calls are made NULL.
DurationMean(C) ==
  IfNonZero(Mean(LAMBDA c : c.duration,
                 {c \in C : c.status # "missed" /\ c.duration # NoDuration}))

TalkSeconds(C) == SumFunction([c \in C |-> Max({c.duration, 0})])
Rate(part, whole) == IF whole = 0 THEN NoMean ELSE <<part, whole>>

-----------------------------------------------------------------------------
(* The overview. *)

StatusCounts(db) == Tally({a \in db.agents : a.active}, LAMBDA a : a.status)

\* Live presence is computed in two places, by two formulas.
OverviewPresence(db) ==
  LET counts == StatusCounts(db)
  IN  [total   |-> SumFunction(counts),
       on_call |-> At(counts, "on_call"),
       online  |-> SumFunction(counts) - At(counts, "offline")]

Snapshot(db) ==
  LET counts == StatusCounts(db)
  IN  [total   |-> SumFunction(counts),
       on_call |-> At(counts, "on_call"),
       online  |-> SumFunction([s \in OnlineStatuses |-> At(counts, s)])]

RisksOf(db, C) ==            \* one row per flag
  UNION {{[call |-> c.id, nr |-> i, flag |-> db.analyses[c.id].risks[i]] :
            i \in DOMAIN db.analyses[c.id].risks} : c \in Analysed(db, C)}

OpenItems(db) == {i \in db.items : i.status \in Waiting}

Overview(db, w, now) ==
  LET C == InRange(db, w)
      A == Analysed(db, C)
      yes == Cardinality(Verdicts(db, C, "yes"))
      no  == Cardinality(Verdicts(db, C, "no"))
      expected == Cardinality({c \in C : c.expected})
      recorded == Cardinality({c \in C : c.recorded})
  IN [calls       |-> Cardinality(C),
      inbound     |-> Cardinality({c \in C : c.direction = "inbound"}),
      outbound    |-> Cardinality({c \in C : c.direction = "outbound"}),
      missed      |-> Cardinality({c \in C : c.status = "missed"}),
      talk        |-> TalkSeconds(C),
      duration    |-> DurationMean(C),
      recorded    |-> recorded,
      coverage    |-> IF expected = 0 THEN NoMean ELSE <<Min({recorded, expected}), expected>>,
      presence    |-> OverviewPresence(db),
      numbers     |-> Cardinality(db.numbers),
      recording_numbers |-> Cardinality({n \in db.numbers : n.enabled}),
      analysed    |-> Cardinality(A),
      sentiment   |-> Mean(LAMBDA c : db.analyses[c.id].score, A),
      satisfied   |-> yes,
      unsatisfied |-> no,
      unknown     |-> Max({0, Cardinality(A) - yes - no}),
      satisfaction |-> Rate(yes, yes + no),
      open_tasks  |-> Cardinality(OpenItems(db)),
      overdue     |-> Cardinality({i \in OpenItems(db) : i.due # NoInstant /\ i.due < now}),
      queued      |-> Cardinality({j \in db.jobs : j.status = "queued"}),
      running     |-> Cardinality({j \in db.jobs : j.status = "running"}),
      failed      |-> Cardinality({j \in db.jobs : j.status = "failed"}),
      risks       |-> Cardinality(RisksOf(db, C))]

-----------------------------------------------------------------------------
(* The charts. *)

PointOf(db, C) ==
  [calls       |-> Cardinality(C),
   talk        |-> TalkSeconds(C),
   recorded    |-> Cardinality({c \in C : c.recorded}),
   analysed    |-> Cardinality(Analysed(db, C)),
   satisfied   |-> Cardinality(Verdicts(db, C, "yes")),
   unsatisfied |-> Cardinality(Verdicts(db, C, "no")),
   sentiment   |-> Mean(LAMBDA c : db.analyses[c.id].score, Analysed(db, C))]

TimeseriesInBuckets(db, w, bucket) ==      \* variant: a row outside is dropped
  [t \in BucketRange(w, bucket) |->
     PointOf(db, {c \in InRange(db, w) : Floor(c.at, bucket) = t})]

\* A call whose bucket lies past the cap gets a bucket of its own.
Timeseries(db, w, bucket) ==
  [t \in BucketRange(w, bucket) \cup {Floor(c.at, bucket) : c \in InRange(db, w)} |->
     PointOf(db, {c \in InRange(db, w) : Floor(c.at, bucket) = t})]

SentimentBreakdown(db, w) ==
  LET counts == Tally(Analysed(db, InRange(db, w)), LAMBDA c : db.analyses[c.id].sentiment)
  IN  [label \in SentimentOrder |->
         [count |-> At(counts, label), share |-> Rate(At(counts, label), SumFunction(counts))]]

\* The rows a LIMIT after ORDER BY count DESC may keep; ties go either way.
Tops(counts, limit) ==
  {T \in SUBSET DOMAIN counts :
     /\ Cardinality(T) = Min({limit, Cardinality(DOMAIN counts)})
     /\ \A x \in T, y \in DOMAIN counts \ T : counts[x] >= counts[y]}

OpenItemsOf(db, agent) == Cardinality({i \in OpenItems(db) : i.assignee = agent})

AgentRow(db, C, agent) ==
  LET own == {c \in C : c.agent = agent}
      yes == Cardinality(Verdicts(db, own, "yes"))
      no  == Cardinality(Verdicts(db, own, "no"))
  IN [calls        |-> Cardinality(own),
      sentiment    |-> Mean(LAMBDA c : db.analyses[c.id].score, Analysed(db, own)),
      satisfaction |-> Rate(yes, yes + no),
      duration     |-> DurationMean(own),
      open_tasks   |-> OpenItemsOf(db, agent)]

Leaderboard(db, w, T) == [agent \in T |-> AgentRow(db, InRange(db, w), agent)]
LeaderboardTops(db, w, limit) == Tops(Tally(InRange(db, w), LAMBDA c : c.agent), limit)

\* Counter over every analysis of the window, for one speaker.
FillerCounts(db, w, speaker) ==
  LET A == {c \in Analysed(db, InRange(db, w)) : speaker \in DOMAIN db.analyses[c.id].fillers}
      said(c) == db.analyses[c.id].fillers[speaker]
  IN  [term \in UNION {DOMAIN said(c) : c \in A} |->
         SumFunction([c \in A |-> At(said(c), term)])]

RiskSummary(db, w) ==
  LET R == RisksOf(db, InRange(db, w))
  IN  [kind \in {r.flag.kind : r \in R} |->
         [count |-> Cardinality({r \in R : r.flag.kind = kind}),
          high  |-> Cardinality({r \in R : r.flag.kind = kind
                                           /\ r.flag.severity \in {"high", "urgent"}})]]

CoverageByNumber(db, w, T) ==
  [n \in T |->
     LET C == {c \in InRange(db, w) : c.number = n}
         P == {p \in db.numbers : p.e164 = n}
     IN [calls      |-> Cardinality(C),
         recorded   |-> Cardinality({c \in C : c.recorded}),
         coverage   |-> Rate(Cardinality({c \in C : c.recorded}), Cardinality(C)),
         enabled    |-> \E p \in P : p.enabled,
         configured |-> P # {}]]
CoverageTops(db, w, limit) == Tops(Tally(InRange(db, w), LAMBDA c : c.number), limit)

-----------------------------------------------------------------------------
(* Lists. *)

\* The agents page: the sentiment, duration and verdicts only of analysed calls.
AgentStats(db, agent, w, today) ==
  LET own == {c \in InRange(db, w) : c.agent = agent}
      A   == Analysed(db, own)
      yes == Cardinality(Verdicts(db, own, "yes"))
      no  == Cardinality(Verdicts(db, own, "no"))
  IN [calls        |-> Cardinality(own),
      calls_today  |-> Cardinality({c \in db.calls : c.agent = agent /\ c.at >= today}),
      sentiment    |-> Mean(LAMBDA c : db.analyses[c.id].score, A),
      duration     |-> IfNonZero(Mean(LAMBDA c : c.duration, {c \in A : c.duration # NoDuration})),
      satisfaction |-> Rate(yes, yes + no),
      open_tasks   |-> OpenItemsOf(db, agent)]

\* The agent's home screen.
Summary(db, agent, today) ==
  LET own == {c \in db.calls : c.agent = agent}
      C   == {c \in own : c.at >= today}
  IN [calls       |-> Cardinality(C),
      talk        |-> TalkSeconds(C),
      recorded    |-> Cardinality({c \in C : c.recorded}),
      sentiment   |-> Mean(LAMBDA c : db.analyses[c.id].score, Analysed(db, C)),
      outstanding |-> Cardinality({c \in own : c.expected /\ ~c.recorded})]

ProcessingStatus(db, c) ==
  CASE c.id \in DOMAIN db.analyses -> "complete"
    [] c.id \notin DOMAIN db.analyses /\ (\E j \in db.jobs : j.call = c.id /\ j.status = "failed")
         -> "failed"
    [] OTHER -> IF c.id \in db.transcripts THEN "analysing"
                ELSE IF c.recorded THEN "transcribing" ELSE "no_recording"

\* The calls table.  "any" is a filter that was not given.  Calls that began at
\* the same time have no order among them: a page may be any of Pages.
Pages(C, limit, offset) ==
  {P \in SUBSET C :
     \E Newer \in SUBSET (C \ P) :
       /\ Cardinality(Newer) = Min({offset, Cardinality(C)})
       /\ Cardinality(P) = Min({limit, Cardinality(C) - Cardinality(Newer)})
       /\ \A n \in Newer, p \in P : n.at >= p.at
       /\ \A p \in P, o \in C \ (P \cup Newer) : p.at >= o.at}

Listed(db, w, f) ==
  {c \in InRange(db, w) :
     /\ f.agent \in {"any", c.agent}
     /\ f.status \in {"any", c.status}
     /\ f.satisfied # "any" => c \in Verdicts(db, {c}, f.satisfied)}

ListedRow(db, c) ==
  [status     |-> ProcessingStatus(db, c),
   analysed   |-> c.id \in DOMAIN db.analyses,
   open_tasks |-> Cardinality({i \in OpenItems(db) : i.call = c.id})]

ListCalls(db, w, f, limit, offset) ==
  {[total |-> Cardinality(Listed(db, w, f)), items |-> [c \in P |-> ListedRow(db, c)]] :
     P \in Pages(Listed(db, w, f), limit, offset)}

\* The task board: open work unless a status is asked for, dated before undated.
BoardTasks(db, status, assignee, overdueOnly, now) ==
  {i \in db.items :
     /\ IF status = "any" THEN i.status \in Waiting ELSE i.status = status
     /\ assignee \in {"any", i.assignee}
     /\ overdueOnly => i.due # NoInstant /\ i.due < now}

Leads(db, w, call, category) ==
  {l \in db.leads :
     /\ IF call = "any" THEN w.from <= l.at /\ l.at < w.till ELSE l.call = call
     /\ category \in {"any", l.category}}
=============================================================================
