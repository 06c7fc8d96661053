---------------------------- MODULE InsightsProps ----------------------------
(* What must hold of the insights stored about a call. *)
EXTENDS Insights

HasCategoryFor(name) ==
  \E i \in DOMAIN run.cats :
    /\ ResolveCategory(name, run.cats) = run.cats[i]
    /\ \/ Lower[run.cats[i].row.name] = Lower[name]
       \/ /\ run.cats[i].row.default
          /\ \A j \in DOMAIN run.cats : Lower[run.cats[j].row.name] # Lower[name]

\* "Exactly one active row per org carries `is_default=True`" (CallCategory), and so
\* the run in flight has a category for whatever the provider will answer: the one it
\* names if the run was told of it, else the default (_resolve_category).
EveryReplyHasCategory ==
  /\ Cardinality({c \in DOMAIN categories : categories[c].default /\ categories[c].active}) = 1
  /\ run.step = "asking" => \A name \in Answers : HasCategoryFor(name)

Same(old, new) == old # NoRow /\ new # NoRow /\ old.edition = new.edition

\* A reply that names nothing configured "degrades to the default rather than leaving
\* the call unclassified" (_resolve_category): no analysis is stored without a category
\* that is there, whatever the provider answers and whatever is renamed, deactivated or
\* deleted while it works, and only with the deletion of its category does it lose it.
CategoryKept ==
  /\ analysis' # NoRow /\ ~Same(analysis, analysis') => analysis'.category \in DOMAIN categories'
  /\ Same(analysis, analysis') =>
       analysis'.category = IF analysis.category \in DOMAIN categories' THEN analysis.category ELSE None

AlwaysClassified == [][CategoryKept]_vars

\* "A re-run replaces them rather than duplicating the same commitments"
\* (_persist_analysis): the tasks and the lead are those of the analysis that is
\* stored, however runs, failures and edits in flight interleave.
RerunReplaces ==
  /\ analysis = NoRow <=> lead = NoRow
  /\ analysis = NoRow => tasks = {}
  /\ analysis # NoRow => /\ lead.edition = analysis.edition
                         /\ \A t \in tasks : t.edition = analysis.edition

\* "Past scores are snapshotted" (delete_rating_parameter): a rating is stored with the
\* scale the provider was told, also when a supervisor has changed or deleted the
\* parameter meanwhile, and edits of the parameter never reach it.
RatingsSnapshotted ==
  IF Same(analysis, analysis') THEN analysis'.ratings = analysis.ratings
  ELSE analysis' # NoRow =>
         \A r \in analysis'.ratings :
           /\ r.param \in DOMAIN run.params
           /\ r.min = run.params[r.param].min /\ r.max = run.params[r.param].max

ScoresKeepTheirScale == [][RatingsSnapshotted]_vars

\* What CustomParameterScore says of a score, "Within the parameter's stated scale"
\* (llm/schemas.py), and the prompt asks for: a stored score lies in the scale stored
\* with it, where that has an inside.  The code does not see to it (_match_ratings).
ScoresInScale ==
  analysis # NoRow =>
    \A r \in analysis.ratings : r.min <= r.max => r.min <= r.score /\ r.score <= r.max
=============================================================================
