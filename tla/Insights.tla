------------------------------ MODULE Insights ------------------------------
(***************************************************************************)
(* What stage 2 stores about one call - its category, ratings, tasks and   *)
(* lead (services/pipeline.py from line 179 on) - while supervisors edit   *)
(* what it is built from and work on what it produced: the categories and  *)
(* rating parameters (api/v1/settings.py), the tasks (api/v1/tasks.py) and *)
(* the lead (api/v1/leads.py).                                             *)
(*                                                                         *)
(* A run reads the categories and parameters, waits for the provider with  *)
(* them in hand, and stores everything in one transaction.  A PATCH loads  *)
(* a row in one step and writes in another the columns that differ from    *)
(* what it loaded, as the ORM does.                                        *)
(***************************************************************************)
EXTENDS Integers, FiniteSets, Sequences, SequencesExt, Functions, Patch

CONSTANTS
  CategoryIds, ParamIds,
  Names,         \* the names rows may have
  Answers,       \* the category names a provider may answer
  Lower,         \* name -> what they are compared as: .strip().lower()
  Scales,        \* the <<scale_min, scale_max>> supervisors enter
  Scores,        \* the scores a provider gives
  Editors,       \* supervisors' requests in flight
  MaxRuns,       \* analyses of the call
  MaxActs        \* what supervisors do, all told

None == "none"

ASSUME InsightsAssumption ==
  /\ IsFiniteSet(CategoryIds) /\ None \notin CategoryIds /\ Lower \in [Names \cup Answers -> STRING]
  /\ Scales \subseteq Int \X Int /\ Scores \subseteq Int /\ MaxRuns \in Nat /\ MaxActs \in Nat

NoRow == [edition |-> 0]     \* of analyses and leads
Waiting == {"open", "in_progress"}
TaskStatuses == Waiting \cup {"done", "dismissed"}

VARIABLES
  categories,   \* call_categories: id -> [name, active, default]
  params,       \* rating_parameters: id -> [name, active, min, max]
  analysis,     \* the call's row of analyses, or NoRow
  tasks,        \* its action_items: [id, edition, status, done]
  lead,         \* its row of leads, or NoRow
  run,          \* stage 2: what it holds while the provider works
  runs,         \* how many have begun
  edit,         \* editor -> the PATCH it is in: [kind, id, held, change]
  acts          \* how often supervisors have acted

vars == <<categories, params, analysis, tasks, lead, run, runs, edit, acts>>
records == <<analysis, tasks, lead>>
settings == <<categories, params>>

Idle == [step |-> "idle", cats |-> <<>>, params |-> <<>>]
NoEdit == [kind |-> None]

\* The migration and the seed give every organisation its default category.
Init ==
  /\ \E c \in CategoryIds, n \in Names :
       categories = [x \in {c} |-> [name |-> n, active |-> TRUE, default |-> TRUE]]
  /\ params = <<>>
  /\ analysis = NoRow /\ tasks = {} /\ lead = NoRow
  /\ run = Idle /\ runs = 0
  /\ edit = [e \in Editors |-> NoEdit] /\ acts = 0

NamesOf(table) == {table[id].name : id \in DOMAIN table}
Put(table, id, row) == [x \in DOMAIN table \cup {id} |-> IF x = id THEN row ELSE table[x]]
Drop(table, id) == [x \in DOMAIN table \ {id} |-> table[x]]

-----------------------------------------------------------------------------
(* Settings.  The unique key on (org_id, name) makes looking for the name  *)
(* and inserting it one step in effect.                                    *)

CreateCategory ==
  \E id \in CategoryIds \ DOMAIN categories, n \in Names \ NamesOf(categories) :
    /\ categories' = Put(categories, id, [name |-> n, active |-> TRUE, default |-> FALSE])
    /\ UNCHANGED <<params, records, run, runs, edit>>

CreateParam ==
  \E id \in ParamIds \ DOMAIN params, n \in Names \ NamesOf(params), s \in Scales :
    /\ s[1] < s[2]
    /\ params' = Put(params, id, [name |-> n, active |-> TRUE, min |-> s[1], max |-> s[2]])
    /\ UNCHANGED <<categories, records, run, runs, edit>>

DeletableAny(c) == TRUE                           \* variant: the default may go
Deletable(c) == ~categories[c].default

\* ON DELETE SET NULL; the name stays with the analysis.
DeleteCategory ==
  \E id \in DOMAIN categories :
    /\ Deletable(id)
    /\ categories' = Drop(categories, id)
    /\ analysis' = IF analysis # NoRow /\ analysis.category = id
                     THEN [analysis EXCEPT !.category = None] ELSE analysis
    /\ UNCHANGED <<params, tasks, lead, run, runs, edit>>

DeleteParam ==
  \E id \in DOMAIN params :
    /\ params' = Drop(params, id)
    /\ UNCHANGED <<categories, records, run, runs, edit>>

-----------------------------------------------------------------------------
(* PATCH.                                                                  *)

Begin(e, kind, id, held, change) ==
  /\ edit[e] = NoEdit
  /\ edit' = [edit EXCEPT ![e] = [kind |-> kind, id |-> id, held |-> held, change |-> change]]
  /\ UNCHANGED <<settings, records, run, runs>>

LoadCategory(e) ==
  \E id \in DOMAIN categories :
    \/ \E n \in Names : Begin(e, "category", id, categories[id], [name |-> n])
    \/ \E b \in BOOLEAN : /\ ~(categories[id].default /\ ~b)       \* BadRequest
                          /\ Begin(e, "category", id, categories[id], [active |-> b])

\* scale_min < scale_max is tested on the row as it was loaded.
LoadParam(e) ==
  \E id \in DOMAIN params :
    \/ \E s \in Scales :
         \/ s[1] < s[2] /\ Begin(e, "param", id, params[id], [min |-> s[1], max |-> s[2]])
         \/ s[1] < params[id].max /\ Begin(e, "param", id, params[id], [min |-> s[1]])
         \/ params[id].min < s[2] /\ Begin(e, "param", id, params[id], [max |-> s[2]])
    \/ \E b \in BOOLEAN : Begin(e, "param", id, params[id], [active |-> b])

\* completed_at follows the status, except to "dismissed".
LoadTask(e) ==
  \E t \in tasks, s \in TaskStatuses :
    Begin(e, "task", t.id, t,
          [status |-> s, done |-> IF s = "done" THEN TRUE
                                  ELSE IF s \in Waiting THEN FALSE ELSE t.done])

LoadLead(e) ==
  /\ lead # NoRow
  /\ \E s \in {"new", "contacted", "dismissed"} : Begin(e, "lead", None, lead, [status |-> s])

\* The row is gone, or its new name is taken: the request fails, nothing is written.
WriteCategory(w) ==
  LET row == Written(categories[w.id], w.held, w.change)
  IN  categories' = IF w.id \in DOMAIN categories
                       /\ row.name \notin NamesOf(Drop(categories, w.id))
                      THEN Put(categories, w.id, row) ELSE categories

WriteParam(w) ==
  params' = IF w.id \in DOMAIN params
              THEN Put(params, w.id, Written(params[w.id], w.held, w.change)) ELSE params

WriteTask(w) ==
  tasks' = {IF t.id = w.id THEN Written(t, w.held, w.change) ELSE t : t \in tasks}

Write(e) ==
  /\ edit[e] # NoEdit
  /\ edit' = [edit EXCEPT ![e] = NoEdit]
  /\ UNCHANGED <<run, runs, analysis>>
  /\ \/ edit[e].kind = "category" /\ WriteCategory(edit[e]) /\ UNCHANGED <<params, tasks, lead>>
     \/ edit[e].kind = "param" /\ WriteParam(edit[e]) /\ UNCHANGED <<categories, tasks, lead>>
     \/ edit[e].kind = "task" /\ WriteTask(edit[e]) /\ UNCHANGED <<settings, lead>>
     \/ /\ edit[e].kind = "lead"
        /\ lead' = Written(lead, edit[e].held, edit[e].change)
        /\ UNCHANGED <<settings, tasks>>

-----------------------------------------------------------------------------
(* A run of stage 2.                                                       *)

ActiveIn(table) == {id \in DOMAIN table : table[id].active}

\* sort_order decides the order; here it may be any.
Start ==
  /\ run.step = "idle" /\ runs < MaxRuns
  /\ \E order \in SetToSeqs(ActiveIn(categories)) :
       run' = [step |-> "asking",
               cats |-> [i \in DOMAIN order |-> [id |-> order[i], row |-> categories[order[i]]]],
               params |-> [id \in ActiveIn(params) |-> params[id]]]
  /\ runs' = runs + 1
  /\ UNCHANGED <<settings, records, edit>>

First(S, cats) == cats[CHOOSE i \in S : \A j \in S : i <= j]
Named(name, cats) == {i \in DOMAIN cats : Lower[cats[i].row.name] = Lower[name]}
Defaults(cats) == {i \in DOMAIN cats : cats[i].row.default}
AllOf(cats) == DOMAIN cats                        \* variant: the first is the default

Fallbacks(cats) == Defaults(cats)

\* The first of that name, else the first default one, else the first.
ResolveCategory(name, cats) ==
  IF Named(name, cats) # {} THEN First(Named(name, cats), cats)
  ELSE IF Fallbacks(cats) # {} THEN First(Fallbacks(cats), cats)
  ELSE IF cats # <<>> THEN cats[1] ELSE [id |-> None, row |-> [name |-> name]]

ScaleTold(id) == run.params[id]
ScaleNow(id) == IF id \in DOMAIN params THEN params[id] ELSE run.params[id]  \* variant

\* Entries <<parameter, score>>: a parameter may be left out or scored twice, and a
\* score is any float.  An entry for no parameter told is dropped.  Names that differ
\* only in case would be taken for each other.
Replies == SUBSET {<<id, score>> : id \in DOMAIN run.params, score \in Scores}

ScaleOf(id) == ScaleTold(id)

MatchRatings(r) ==
  {[param |-> e[1], score |-> e[2], min |-> ScaleOf(e[1]).min, max |-> ScaleOf(e[1]).max] :
     e \in r}

TasksKept(old) == old                             \* variant: never deleted
TasksReplaced(old) == IF analysis = NoRow THEN old ELSE {}

\* _persist_analysis.  The tasks of the last run go, the lead keeps the status a
\* person gave it.
Persist(name, ratings, found) ==
  LET category == ResolveCategory(name, run.cats)
  IN  /\ category.id \in DOMAIN categories \cup {None}     \* else: Unstorable
      /\ analysis' = [category |-> category.id, name |-> category.row.name,
                      ratings |-> ratings, edition |-> runs]
      /\ tasks' = TasksReplaced(tasks)
                    \cup {[id |-> <<runs, i>>, edition |-> runs, status |-> "open", done |-> FALSE] :
                            i \in 1..found}
      /\ lead' = [status |-> IF lead = NoRow THEN "new" ELSE lead.status, edition |-> runs]

Answered ==
  /\ run.step = "asking"
  /\ \E name \in Answers, r \in Replies, found \in 0..1 : Persist(name, MatchRatings(r), found)
  /\ run' = Idle
  /\ UNCHANGED <<settings, runs, edit>>

\* The category the run settled on has been deleted since it read it, and the
\* foreign key refuses the flush; or the provider, the database or the process
\* fails.  Nothing is stored.
Unstorable ==
  /\ run.step = "asking"
  /\ run' = Idle
  /\ UNCHANGED <<settings, records, runs, edit>>

Supervise ==
  /\ acts < MaxActs /\ acts' = acts + 1
  /\ \/ CreateCategory \/ CreateParam \/ DeleteCategory \/ DeleteParam
     \/ \E e \in Editors : LoadCategory(e) \/ LoadParam(e) \/ LoadTask(e) \/ LoadLead(e)

Carry ==
  /\ UNCHANGED acts
  /\ (\E e \in Editors : Write(e)) \/ Start \/ Answered \/ Unstorable

Next == Supervise \/ Carry
Spec == Init /\ [][Next]_vars
=============================================================================
