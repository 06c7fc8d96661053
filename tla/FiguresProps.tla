---------------------------- MODULE FiguresProps ----------------------------
(***************************************************************************)
(* What the dashboard's figures must satisfy, over a table of calls that   *)
(* is filled in and analysed row by row.                                   *)
(***************************************************************************)
EXTENDS Figures

CONSTANTS
  Instants,          \* when a call may begin
  Shapes,            \* the other columns of the calls, by id
  Verdicts0,         \* what an analysis may say
  Rest,              \* the other tables: agents, items, numbers, jobs, transcripts, leads
  Now, Asked         \* the clock, and the ?days, ?start and ?end of the requests

\* A row of calls; its id and time are filled in when it is logged.
CallRows ==
  [id : Nat, at : Nat, agent : STRING, number : STRING, direction : {"inbound", "outbound", "unknown"},
   status : {"ringing", "in_progress", "completed", "missed", "failed"},
   duration : Nat \cup {NoDuration}, expected : BOOLEAN, recorded : BOOLEAN]
RiskFlags == [kind : STRING, severity : STRING]

\* Instants count from the epoch, tables are finite and have their columns, and a
\* label or a status is one of its enumeration.
ASSUME FiguresInputs ==
  /\ Instants \subseteq Nat /\ Now \in Nat
  /\ Asked \subseteq [days : Nat, start : Nat \cup {NoInstant}, end : Nat \cup {NoInstant}]
  /\ \A id \in DOMAIN Shapes : id \in Nat /\ Shapes[id] \in CallRows
  /\ \A v \in Verdicts0 :
       /\ v.score \in Int /\ v.sentiment \in SentimentOrder /\ v.risks \in Seq(RiskFlags)
       /\ \A who \in DOMAIN v.fillers : \A term \in DOMAIN v.fillers[who] : v.fillers[who][term] \in Nat
  /\ {"calls", "analyses", "agents", "items", "leads"} \subseteq DOMAIN Rest
  /\ IsFiniteSet(Rest.items) /\ IsFiniteSet(Rest.leads) /\ IsFiniteSet(Rest.agents)
  /\ \A a \in Rest.agents : a.status \in OnlineStatuses \cup {"offline"}
  /\ \A l \in Rest.leads : l.at \in Nat

VARIABLES db, asked       \* the tables, and the request being answered
figuresVars == <<db, asked>>

Unasked == [days |-> 0, start |-> NoInstant, end |-> NoInstant]
FiguresInit == db = [Rest EXCEPT !.calls = {}, !.analyses = <<>>] /\ asked = Unasked

Known == {c.id : c \in db.calls}

LogCall ==
  \E id \in DOMAIN Shapes \ Known, t \in Instants :
    /\ asked = Unasked /\ UNCHANGED asked
    /\ db' = [db EXCEPT !.calls = @ \cup {[Shapes[id] EXCEPT !.id = id, !.at = t]}]

Analyse ==
  \E c \in db.calls, v \in Verdicts0 :
    /\ asked = Unasked /\ UNCHANGED asked
    /\ c.recorded /\ c.id \notin DOMAIN db.analyses
    /\ db' = [db EXCEPT
                !.analyses = [id \in DOMAIN @ \cup {c.id} |-> IF id = c.id THEN v ELSE @[id]]]

Ask == asked = Unasked /\ asked' \in Asked /\ UNCHANGED db

FiguresNext == LogCall \/ Analyse \/ Ask
FiguresSpec == FiguresInit /\ [][FiguresNext]_figuresVars

Window == ResolveRange(Now, asked.days, asked.start, asked.end)
Total(chart, f(_)) == SumFunction([x \in DOMAIN chart |-> f(chart[x])])
AnyCall == [agent |-> "any", status |-> "any", satisfied |-> "any"]

SumsToOverview(chart, over) ==
  /\ Total(chart, LAMBDA p : p.calls) = over.calls
  /\ Total(chart, LAMBDA p : p.talk) = over.talk
  /\ Total(chart, LAMBDA p : p.recorded) = over.recorded
  /\ Total(chart, LAMBDA p : p.analysed) = over.analysed
  /\ Total(chart, LAMBDA p : p.satisfied) = over.satisfied
  /\ Total(chart, LAMBDA p : p.sentiment[1]) = over.sentiment[1]

\* Paging through the calls table shows a call exactly once, on the page its
\* time gives it, unless another call began at the same time; and no page is short
\* before the last.
PagesCover ==
  \A limit \in 1..2 :
    LET C == Listed(db, Window, AnyCall)
        pages(k) == ListCalls(db, Window, AnyCall, limit, k * limit)
        alone == {c \in C : \A d \in C : d.at = c.at => d = c}
    IN  /\ \A c \in alone : \E k \in 0..Cardinality(C) :
             \A j \in 0..Cardinality(C) : \A p \in pages(j) : c \in DOMAIN p.items <=> j = k
        /\ \A k \in 0..Cardinality(C) : \A p \in pages(k) :
             Cardinality(DOMAIN p.items) = Max({0, Min({limit, p.total - k * limit})})

\* Windows that meet share no call and leave none out: what is counted in the one
\* and in the other adds up to what is counted in both (resolve_range: "an
\* inclusive-start, exclusive-end UTC window").
WindowsAdjoin ==
  \A m \in {t \in Instants : Window.from <= t /\ t <= Window.till} :
    LET first == [Window EXCEPT !.till = m]
        then  == [Window EXCEPT !.from = m]
        Adds(f(_)) == f(first) + f(then) = f(Window)
    IN  /\ Adds(LAMBDA w : Overview(db, w, Now).calls)
        /\ Adds(LAMBDA w : Overview(db, w, Now).risks)
        /\ Adds(LAMBDA w : At(FillerCounts(db, w, "agent"), "um"))
        /\ Adds(LAMBDA w : Cardinality(Leads(db, w, "any", "any")))

\* The charts of any bucket, the sentiment breakdown, the leaderboard, the numbers
\* and the risks add up to the overview of the same window.
ChartsAddUp ==
  LET over == Overview(db, Window, Now)
      agents == {c.agent : c \in InRange(db, Window)}
      numbers == {c.number : c \in InRange(db, Window)}
  IN  /\ \A b \in DOMAIN BucketLength : SumsToOverview(Timeseries(db, Window, b), over)
      /\ Total(SentimentBreakdown(db, Window), LAMBDA p : p.count) = over.analysed
      /\ Total(Leaderboard(db, Window, agents), LAMBDA p : p.calls) = over.calls
      /\ Total(CoverageByNumber(db, Window, numbers), LAMBDA p : p.recorded) = over.recorded
      /\ Total(RiskSummary(db, Window), LAMBDA p : p.count) = over.risks

\* The lists show as many rows as the overview counts, the verdicts leave no
\* analysed call out, and both counts of who is online agree.
ListsAgree ==
  LET over == Overview(db, Window, Now)
  IN  /\ Cardinality(Listed(db, Window, AnyCall)) = over.calls
      /\ Cardinality(Listed(db, Window, [AnyCall EXCEPT !.status = "missed"])) = over.missed
      /\ Cardinality(Listed(db, Window, [AnyCall EXCEPT !.satisfied = "no"])) = over.unsatisfied
      /\ over.satisfied + over.unsatisfied + over.unknown = over.analysed
      /\ over.presence = Snapshot(db)
      /\ Cardinality(BoardTasks(db, "any", "any", FALSE, Now)) = over.open_tasks
      /\ Cardinality(BoardTasks(db, "any", "any", TRUE, Now)) = over.overdue

OnlyConnectedAnalysed(agent) ==
  \A c \in InRange(db, Window) :
    c.agent = agent => (c.id \in DOMAIN db.analyses <=> c.status # "missed")

\* The agents page repeats the leaderboard, whoever leads a board has the most calls,
\* and the agents' home screens add up to the overview of a window up to now.  The
\* page averages the length of the analysed calls, the board of all but the missed
\* ones: the two lengths are one where these are the same calls, and need not be
\* elsewhere.
AgentsAgree ==
  LET agents == {c.agent : c \in InRange(db, Window)}
      numbers == {c.number : c \in InRange(db, Window)}
      board == Leaderboard(db, Window, agents)
      lines == CoverageByNumber(db, Window, numbers)
  IN  /\ \A g \in agents :
           LET s == AgentStats(db, g, Window, Window.from)
           IN  /\ s.calls = board[g].calls /\ s.sentiment = board[g].sentiment
               /\ s.satisfaction = board[g].satisfaction /\ s.open_tasks = board[g].open_tasks
               /\ OnlyConnectedAnalysed(g) => s.duration = board[g].duration
      /\ \A T \in LeaderboardTops(db, Window, 1) :
           \A g \in T, h \in agents : board[g].calls >= board[h].calls
      /\ \A T \in CoverageTops(db, Window, 1) :
           \A n \in T, o \in numbers : lines[n].calls >= lines[o].calls
      /\ (\A t \in Instants : t < Window.till)
           => Total([g \in agents |-> Summary(db, g, Window.from)], LAMBDA p : p.calls)
                = Overview(db, Window, Now).calls

\* Two places that show one thing show one number: the chart, the sentiment
\* breakdown, the leaderboard, the numbers and the calls table add up to the
\* overview of the same window whatever the buckets, the agents page repeats the
\* leaderboard, its average length where all connected calls and no others are
\* analysed, the agents' home screens add up to the overview of the day, the task
\* board holds what is counted as open, both counts of who is online agree, paging
\* leaves out no call and windows that meet share none.
FiguresAgree ==
  asked # Unasked => ChartsAddUp /\ ListsAgree /\ AgentsAgree /\ PagesCover /\ WindowsAdjoin

\* With the bucket the dashboard picks for itself the chart has a point for every
\* hour, day or week in which an instant of the window lies, so the cap on buckets is
\* never met.  Besides these it has at most one point, for the bucket that begins
\* where the window ends (_bucket_range runs to the end inclusive, the window ends
\* before it), and that one counts nothing.  No request reaches back further than
\* MAX_RANGE_DAYS, whatever its ends and in whatever order they are given.
ChartHasNoHoles ==
  asked # Unasked =>
    LET w == Window
        b == DefaultBucket(w)
        chart == Timeseries(db, w, b)
        within == {Floor(t, b) : t \in w.from..(w.till - 1)}
    IN  /\ w.from <= w.till /\ w.till - w.from <= MaxRange
        /\ (asked.start # NoInstant /\ asked.end # NoInstant)
             => w = ResolveRange(Now, asked.days, asked.end, asked.start)
        /\ DOMAIN chart = within \cup {Floor(w.till, b)}
        /\ \A t \in DOMAIN chart \ within :
             (w.from < w.till => t = w.till) /\ chart[t] = PointOf(db, {})

\* No average length depends on the missed calls (README.md: "Average call length
\* excludes missed calls").  On the agents page it does, when missed calls have an
\* analysis.
MissedCallsExcluded ==
  asked # Unasked =>
    LET answered == [db EXCEPT !.calls = {c \in @ : c.status # "missed"}]
        agents == {c.agent : c \in InRange(answered, Window)}
    IN  /\ Overview(db, Window, Now).duration = Overview(answered, Window, Now).duration
        /\ \A g \in agents :
             AgentStats(db, g, Window, 0).duration = AgentStats(answered, g, Window, 0).duration
=============================================================================
