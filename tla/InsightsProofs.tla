--------------------------- MODULE InsightsProofs ---------------------------
(***************************************************************************)
(* Theorems about Insights for any categories, parameters, names, scales,  *)
(* scores, number of PATCHes in flight, of runs and of edits.              *)
(***************************************************************************)
EXTENDS InsightsProps, FiniteSetTheorems, WellFoundedInduction, TLAPS

\* The rows have the columns they should have.
RowsWellFormed ==
  /\ DOMAIN categories \subseteq CategoryIds
  /\ \A c \in DOMAIN categories : DOMAIN categories[c] = {"name", "active", "default"}
  /\ analysis # NoRow => DOMAIN analysis = {"category", "name", "ratings", "edition"}
  /\ \A t \in tasks : DOMAIN t = {"id", "edition", "status", "done"}
  /\ lead # NoRow => DOMAIN lead = {"status", "edition"}

\* What the PATCHes in flight can still write.
CategoryEdits ==
  {[name |-> n] : n \in Names} \cup {[active |-> b] : b \in BOOLEAN}

EditsWellFormed ==
  /\ DOMAIN edit = Editors
  /\ \A e \in Editors :
       /\ edit[e].kind = "category" => edit[e].change \in CategoryEdits
       /\ edit[e].kind = "task" => DOMAIN edit[e].change = {"status", "done"}
       /\ edit[e].kind = "lead" => DOMAIN edit[e].change = {"status"} /\ lead # NoRow

\* One category is the default, and it is active.
OneDefault ==
  \E d \in DOMAIN categories :
    /\ categories[d].default /\ categories[d].active
    /\ \A c \in DOMAIN categories : categories[c].default => c = d

\* A PATCH that switches a category off holds one that is not the default, and so it
\* stays: is_default is set when a category is made and never again.
SwitchOffSafe ==
  \A e \in Editors :
    edit[e].kind = "category" /\ edit[e].change = [active |-> FALSE] /\ edit[e].id \in DOMAIN categories
      => ~categories[edit[e].id].default

\* A run holds a list of categories with a default one among them.
RunHasDefault ==
  run.step = "asking" =>
    /\ DOMAIN run.cats \in SUBSET Nat
    /\ \A i \in DOMAIN run.cats : run.cats[i].id \in CategoryIds
    /\ \E d \in DOMAIN run.cats : run.cats[d].row.default

CategoryThere == analysis # NoRow => analysis.category \in DOMAIN categories \cup {None}

\* What is stored is of an earlier run than the one in flight.
RunsGoUp ==
  /\ runs \in Nat
  /\ analysis # NoRow => /\ analysis.edition \in 0..runs
                         /\ run.step = "asking" => analysis.edition # runs

InsightsInv ==
  /\ RowsWellFormed /\ EditsWellFormed /\ OneDefault /\ SwitchOffSafe /\ RunHasDefault
  /\ CategoryThere /\ RerunReplaces /\ RunsGoUp

LEMMA InitInv == Init => InsightsInv
<1> SUFFICES ASSUME Init PROVE InsightsInv
  OBVIOUS
<1>1. PICK d \in CategoryIds, n \in Names :
        categories = [x \in {d} |-> [name |-> n, active |-> TRUE, default |-> TRUE]]
  BY DEF Init
<1>2. RowsWellFormed /\ OneDefault
  BY <1>1 DEF Init, RowsWellFormed, OneDefault
<1>3. EditsWellFormed /\ SwitchOffSafe
  BY DEF Init, EditsWellFormed, SwitchOffSafe, NoEdit, None
<1>4. RunHasDefault /\ CategoryThere /\ RerunReplaces /\ RunsGoUp
  BY DEF Init, RunHasDefault, Idle, CategoryThere, RerunReplaces, RunsGoUp
<1> QED BY <1>2, <1>3, <1>4 DEF InsightsInv

-----------------------------------------------------------------------------
(* Settings *)

LEMMA CreateCategoryInv == InsightsInv /\ CreateCategory => InsightsInv'
<1> SUFFICES ASSUME InsightsInv, CreateCategory PROVE InsightsInv'
  OBVIOUS
<1>1. PICK id \in CategoryIds \ DOMAIN categories, n \in Names :
        categories' = Put(categories, id, [name |-> n, active |-> TRUE, default |-> FALSE])
  BY DEF CreateCategory
<1>2. UNCHANGED <<params, records, run, runs, edit>>
  BY DEF CreateCategory
<1>3. /\ DOMAIN categories' = DOMAIN categories \cup {id}
      /\ categories'[id] = [name |-> n, active |-> TRUE, default |-> FALSE]
      /\ \A c \in DOMAIN categories : categories'[c] = categories[c]
  BY <1>1 DEF Put
<1>4. RowsWellFormed'
  BY <1>2, <1>3 DEF InsightsInv, RowsWellFormed, records
<1>5. OneDefault'
  BY <1>3 DEF InsightsInv, OneDefault
<1>6. EditsWellFormed' /\ SwitchOffSafe'
  BY <1>2, <1>3 DEF InsightsInv, EditsWellFormed, SwitchOffSafe, records
<1>7. RunHasDefault' /\ CategoryThere' /\ RerunReplaces' /\ RunsGoUp'
  BY <1>2, <1>3 DEF InsightsInv, RunHasDefault, CategoryThere, RerunReplaces, RunsGoUp, records
<1> QED BY <1>4, <1>5, <1>6, <1>7 DEF InsightsInv

LEMMA DeleteCategoryInv == InsightsInv /\ DeleteCategory => InsightsInv'
<1> SUFFICES ASSUME InsightsInv, DeleteCategory PROVE InsightsInv'
  OBVIOUS
<1>1. PICK id \in DOMAIN categories :
        /\ ~categories[id].default
        /\ categories' = Drop(categories, id)
        /\ analysis' = IF analysis # NoRow /\ analysis.category = id
                         THEN [analysis EXCEPT !.category = None] ELSE analysis
  BY DEF DeleteCategory, Deletable
<1>2. UNCHANGED <<params, tasks, lead, run, runs, edit>>
  BY DEF DeleteCategory
<1>3. /\ DOMAIN categories' = DOMAIN categories \ {id}
      /\ \A c \in DOMAIN categories' : categories'[c] = categories[c]
  BY <1>1 DEF Drop
<1>4. /\ analysis = NoRow => analysis' = NoRow
      /\ analysis # NoRow =>
           /\ analysis' # NoRow /\ DOMAIN analysis' = DOMAIN analysis
           /\ analysis'.edition = analysis.edition /\ analysis'.ratings = analysis.ratings
           /\ (analysis'.category = None \/ analysis'.category # id)
           /\ analysis'.category \in {analysis.category, None}
  BY <1>1 DEF InsightsInv, RowsWellFormed, NoRow
<1>5. RowsWellFormed'
  BY <1>2, <1>3, <1>4 DEF InsightsInv, RowsWellFormed
<1>6. OneDefault'
  BY <1>1, <1>3 DEF InsightsInv, OneDefault
<1>7. EditsWellFormed' /\ SwitchOffSafe'
  BY <1>2, <1>3 DEF InsightsInv, EditsWellFormed, SwitchOffSafe
<1>8. RunHasDefault'
  BY <1>2 DEF InsightsInv, RunHasDefault
<1>9. CategoryThere'
  BY <1>3, <1>4 DEF InsightsInv, CategoryThere
<1>10. RerunReplaces'
  BY <1>2, <1>4 DEF InsightsInv, RerunReplaces
<1>11. RunsGoUp'
  BY <1>2, <1>4 DEF InsightsInv, RunsGoUp
<1> QED BY <1>5, <1>6, <1>7, <1>8, <1>9, <1>10, <1>11 DEF InsightsInv

\* Rating parameters take part in none of this: a run holds its own copies.
LEMMA ParamsApart ==
  ASSUME InsightsInv, UNCHANGED <<categories, records, run, runs, edit>>
  PROVE  InsightsInv'
BY DEF InsightsInv, RowsWellFormed, EditsWellFormed, OneDefault, SwitchOffSafe, RunHasDefault,
       CategoryThere, RerunReplaces, RunsGoUp, records

-----------------------------------------------------------------------------
(* PATCH *)

LEMMA BeginInv ==
  ASSUME InsightsInv, NEW e \in Editors, NEW kind, NEW id, NEW held, NEW change,
         Begin(e, kind, id, held, change),
         kind = "category" =>
           /\ change \in CategoryEdits
           /\ change = [active |-> FALSE] /\ id \in DOMAIN categories => ~categories[id].default,
         kind = "task" => DOMAIN change = {"status", "done"},
         kind = "lead" => DOMAIN change = {"status"} /\ lead # NoRow
  PROVE  InsightsInv'
<1>1. /\ DOMAIN edit' = DOMAIN edit
      /\ \A x \in DOMAIN edit : x # e => edit'[x] = edit[x]
      /\ e \in DOMAIN edit =>
           edit'[e].kind = kind /\ edit'[e].id = id /\ edit'[e].change = change
  BY DEF Begin
<1>2. UNCHANGED <<settings, records, run, runs>>
  BY DEF Begin
<1>3. EditsWellFormed'
  BY <1>1, <1>2 DEF InsightsInv, EditsWellFormed, records
<1>4. SwitchOffSafe'
  BY <1>1, <1>2 DEF InsightsInv, EditsWellFormed, SwitchOffSafe, settings
<1>5. RowsWellFormed' /\ OneDefault' /\ RunHasDefault' /\ CategoryThere'
  BY <1>2 DEF InsightsInv, RowsWellFormed, OneDefault, RunHasDefault, CategoryThere, settings, records
<1>6. RerunReplaces' /\ RunsGoUp'
  BY <1>2 DEF InsightsInv, RerunReplaces, RunsGoUp, records
<1> QED BY <1>3, <1>4, <1>5, <1>6 DEF InsightsInv

LEMMA LoadInv ==
  ASSUME InsightsInv, NEW e \in Editors,
         LoadCategory(e) \/ LoadParam(e) \/ LoadTask(e) \/ LoadLead(e)
  PROVE  InsightsInv'
<1>1. ASSUME NEW id \in DOMAIN categories, NEW n \in Names,
             Begin(e, "category", id, categories[id], [name |-> n])
      PROVE  InsightsInv'
  <2>1. [name |-> n] \in CategoryEdits /\ [name |-> n] # [active |-> FALSE]
    BY DEF CategoryEdits
  <2> QED BY <1>1, <2>1, BeginInv
<1>2. ASSUME NEW id \in DOMAIN categories, NEW b \in BOOLEAN, ~(categories[id].default /\ ~b),
             Begin(e, "category", id, categories[id], [active |-> b])
      PROVE  InsightsInv'
  <2>1. [active |-> b] \in CategoryEdits
    BY DEF CategoryEdits
  <2>2. [active |-> b] = [active |-> FALSE] => ~categories[id].default
    BY <1>2
  <2> QED BY <1>2, <2>1, <2>2, BeginInv
<1>3. ASSUME NEW id, NEW held, NEW change, Begin(e, "param", id, held, change)
      PROVE  InsightsInv'
  BY <1>3, BeginInv
<1>4. ASSUME NEW id, NEW held, NEW change, Begin(e, "task", id, held, change),
             DOMAIN change = {"status", "done"}
      PROVE  InsightsInv'
  BY <1>4, BeginInv
<1>5. ASSUME lead # NoRow, NEW s, Begin(e, "lead", None, lead, [status |-> s])
      PROVE  InsightsInv'
  BY <1>5, BeginInv
<1>6. CASE LoadCategory(e)
  BY <1>1, <1>2, <1>6 DEF LoadCategory
<1>7. CASE LoadParam(e)
  BY <1>3, <1>7 DEF LoadParam
<1>8. CASE LoadTask(e)
  BY <1>4, <1>8 DEF LoadTask
<1>9. CASE LoadLead(e)
  BY <1>5, <1>9 DEF LoadLead
<1> QED BY <1>6, <1>7, <1>8, <1>9

\* What is left of the PATCHes when one of them has ended.
LEMMA WriteEnds ==
  ASSUME InsightsInv, NEW e \in Editors, Write(e)
  PROVE  /\ DOMAIN edit' = Editors
         /\ \A x \in Editors : \/ edit'[x].kind = None
                               \/ edit'[x] = edit[x]
         /\ UNCHANGED <<run, runs, analysis>>
BY DEF InsightsInv, EditsWellFormed, Write, NoEdit

LEMMA WriteCategoryInv ==
  ASSUME InsightsInv, NEW e \in Editors, Write(e), edit[e].kind = "category"
  PROVE  InsightsInv'
<1> DEFINE w == edit[e]
           row == Written(categories[w.id], w.held, w.change)
<1>1. WriteCategory(w) /\ UNCHANGED <<params, tasks, lead>>
  BY DEF Write
<1>2. /\ DOMAIN categories' = DOMAIN categories
      /\ \A c \in DOMAIN categories : categories'[c] = categories[c] \/ (c = w.id /\ categories'[c] = row)
  <2>1. CASE categories' = categories
    BY <2>1
  <2>2. CASE w.id \in DOMAIN categories /\ categories' = Put(categories, w.id, row)
    BY <2>2 DEF Put
  <2> QED BY <1>1, <2>1, <2>2 DEF WriteCategory
<1>3. ASSUME w.id \in DOMAIN categories
      PROVE  /\ DOMAIN row = {"name", "active", "default"}
             /\ row.default = categories[w.id].default
             /\ categories[w.id].default /\ categories[w.id].active => row.active
  <2>1. DOMAIN categories[w.id] = {"name", "active", "default"}
    BY <1>3 DEF InsightsInv, RowsWellFormed
  <2>2. w.change \in CategoryEdits
    BY DEF InsightsInv, EditsWellFormed
  <2>3. /\ DOMAIN row = DOMAIN categories[w.id]
        /\ \A f \in DOMAIN categories[w.id] :
             /\ f \notin DOMAIN w.change => row[f] = categories[w.id][f]
             /\ row[f] = categories[w.id][f] \/ (f \in DOMAIN w.change /\ row[f] = w.change[f])
    BY DEF Written
  <2>4. ASSUME NEW n \in Names, w.change = [name |-> n]
        PROVE  /\ DOMAIN row = {"name", "active", "default"}
               /\ row.default = categories[w.id].default
               /\ categories[w.id].default /\ categories[w.id].active => row.active
    <3>1. DOMAIN w.change = {"name"}
      BY <2>4
    <3> QED BY <2>1, <2>3, <3>1
  <2>5. ASSUME NEW b \in BOOLEAN, w.change = [active |-> b]
        PROVE  /\ DOMAIN row = {"name", "active", "default"}
               /\ row.default = categories[w.id].default
               /\ categories[w.id].default /\ categories[w.id].active => row.active
    <3>1. categories[w.id].default => b
      BY <1>3, <2>5 DEF InsightsInv, SwitchOffSafe
    <3> QED BY <2>1, <2>3, <2>5, <3>1
  <2> QED BY <2>2, <2>4, <2>5 DEF CategoryEdits
<1>4. RowsWellFormed'
  BY <1>1, <1>2, <1>3, WriteEnds DEF InsightsInv, RowsWellFormed
<1>5. OneDefault'
  BY <1>2, <1>3 DEF InsightsInv, OneDefault
<1>6. EditsWellFormed' /\ SwitchOffSafe'
  BY <1>1, <1>2, <1>3, WriteEnds DEF InsightsInv, EditsWellFormed, SwitchOffSafe, None
<1>7. RunHasDefault' /\ CategoryThere' /\ RerunReplaces' /\ RunsGoUp'
  BY <1>1, <1>2, WriteEnds DEF InsightsInv, RunHasDefault, CategoryThere, RerunReplaces, RunsGoUp
<1> QED BY <1>4, <1>5, <1>6, <1>7 DEF InsightsInv

LEMMA WriteTaskInv ==
  ASSUME InsightsInv, NEW e \in Editors, Write(e), edit[e].kind = "task"
  PROVE  InsightsInv'
<1> DEFINE w == edit[e]
<1>1. WriteTask(w) /\ UNCHANGED <<settings, lead>>
  BY DEF Write
<1>2. ASSUME NEW t \in tasks'
      PROVE  \E old \in tasks : DOMAIN t = DOMAIN old /\ t.edition = old.edition
  <2>1. PICK old \in tasks : t = IF old.id = w.id THEN Written(old, w.held, w.change) ELSE old
    BY <1>1 DEF WriteTask
  <2>2. "edition" \in DOMAIN old /\ "edition" \notin DOMAIN w.change
    BY DEF InsightsInv, RowsWellFormed, EditsWellFormed
  <2>3. /\ DOMAIN Written(old, w.held, w.change) = DOMAIN old
        /\ Written(old, w.held, w.change).edition = old.edition
    BY <2>2 DEF Written
  <2> QED BY <2>1, <2>3
<1>3. RowsWellFormed'
  BY <1>1, <1>2, WriteEnds DEF InsightsInv, RowsWellFormed, settings
<1>4. EditsWellFormed' /\ SwitchOffSafe'
  BY <1>1, WriteEnds DEF InsightsInv, EditsWellFormed, SwitchOffSafe, None, settings
<1>5. OneDefault' /\ RunHasDefault' /\ CategoryThere' /\ RunsGoUp'
  BY <1>1, WriteEnds DEF InsightsInv, OneDefault, RunHasDefault, CategoryThere, RunsGoUp, settings
<1>6. RerunReplaces'
  BY <1>1, <1>2, WriteEnds DEF InsightsInv, RerunReplaces
<1> QED BY <1>3, <1>4, <1>5, <1>6 DEF InsightsInv

LEMMA WriteLeadInv ==
  ASSUME InsightsInv, NEW e \in Editors, Write(e), edit[e].kind = "lead"
  PROVE  InsightsInv'
<1> DEFINE w == edit[e]
<1>1. lead' = Written(lead, w.held, w.change) /\ UNCHANGED <<settings, tasks>>
  BY DEF Write
<1>2. lead # NoRow /\ DOMAIN lead = {"status", "edition"} /\ DOMAIN w.change = {"status"}
  BY DEF InsightsInv, RowsWellFormed, EditsWellFormed
<1>3. DOMAIN lead' = {"status", "edition"} /\ lead'.edition = lead.edition
  BY <1>1, <1>2 DEF Written
<1>4. lead' # NoRow
  BY <1>3 DEF NoRow
<1>5. RowsWellFormed' /\ EditsWellFormed'
  BY <1>1, <1>3, <1>4, WriteEnds DEF InsightsInv, RowsWellFormed, EditsWellFormed, None, settings
<1>6. OneDefault' /\ SwitchOffSafe' /\ RunHasDefault' /\ CategoryThere' /\ RunsGoUp'
  BY <1>1, WriteEnds
     DEF InsightsInv, OneDefault, SwitchOffSafe, RunHasDefault, CategoryThere, RunsGoUp, None, settings
<1>7. RerunReplaces'
  BY <1>1, <1>2, <1>3, <1>4, WriteEnds DEF InsightsInv, RerunReplaces
<1> QED BY <1>5, <1>6, <1>7 DEF InsightsInv

LEMMA WriteParamInv ==
  ASSUME InsightsInv, NEW e \in Editors, Write(e), edit[e].kind = "param"
  PROVE  InsightsInv'
<1>1. UNCHANGED <<categories, tasks, lead>>
  BY DEF Write
<1>2. RowsWellFormed' /\ EditsWellFormed' /\ SwitchOffSafe'
  BY <1>1, WriteEnds DEF InsightsInv, RowsWellFormed, EditsWellFormed, SwitchOffSafe, None
<1>3. OneDefault' /\ RunHasDefault' /\ CategoryThere' /\ RunsGoUp' /\ RerunReplaces'
  BY <1>1, WriteEnds DEF InsightsInv, OneDefault, RunHasDefault, CategoryThere, RunsGoUp, RerunReplaces
<1> QED BY <1>2, <1>3 DEF InsightsInv

-----------------------------------------------------------------------------
(* A run of stage 2 *)

\* A sequence that lists a finite set once leaves no element out.
LEMMA ListsAll ==
  ASSUME NEW S, IsFiniteSet(S), NEW order \in SetToSeqs(S)
  PROVE  /\ \A i \in DOMAIN order : order[i] \in S
         /\ DOMAIN order \in SUBSET Nat
         /\ \A x \in S : \E i \in DOMAIN order : order[i] = x
<1> DEFINE D == 1..Cardinality(S)
<1>1. order \in [D -> S] /\ \A i, j \in D : i # j => order[i] # order[j]
  BY DEF SetToSeqs
<1>2. order \in Injection(D, S)
  BY <1>1 DEF Injection, IsInjective
<1>3. Cardinality(S) \in Nat
  BY FS_CardinalityType
<1>4. IsFiniteSet(D) /\ Cardinality(D) = Cardinality(S)
  BY <1>3, FS_Interval
<1>5. order \in Surjection(D, S)
  BY <1>2, <1>4, FS_Injection
<1> QED BY <1>1, <1>5 DEF Surjection

LEMMA StartInv == InsightsInv /\ Start => InsightsInv'
<1> SUFFICES ASSUME InsightsInv, Start PROVE InsightsInv'
  OBVIOUS
<1>1. UNCHANGED <<settings, records, edit>>
  BY DEF Start
<1>2. PICK order \in SetToSeqs(ActiveIn(categories)) :
        run' = [step |-> "asking",
                cats |-> [i \in DOMAIN order |-> [id |-> order[i], row |-> categories[order[i]]]],
                params |-> [id \in ActiveIn(params) |-> params[id]]]
  BY DEF Start
<1>3. RunHasDefault'
  <2>1. PICK d \in DOMAIN categories : categories[d].default /\ categories[d].active
    BY DEF InsightsInv, OneDefault
  <2>2. IsFiniteSet(ActiveIn(categories))
    BY InsightsAssumption, FS_Subset DEF InsightsInv, RowsWellFormed, ActiveIn
  <2>3. d \in ActiveIn(categories) /\ ActiveIn(categories) \subseteq CategoryIds
    BY <2>1 DEF ActiveIn, InsightsInv, RowsWellFormed
  <2>4. /\ DOMAIN order \in SUBSET Nat /\ \A i \in DOMAIN order : order[i] \in CategoryIds
        /\ \E k \in DOMAIN order : order[k] = d
    BY <2>2, <2>3, ListsAll
  <2>5. /\ DOMAIN run'.cats = DOMAIN order
        /\ \A i \in DOMAIN order : run'.cats[i].id = order[i] /\ run'.cats[i].row = categories[order[i]]
    BY <1>2
  <2> QED BY <2>1, <2>4, <2>5 DEF RunHasDefault
<1>4. RowsWellFormed' /\ EditsWellFormed' /\ OneDefault' /\ SwitchOffSafe'
  BY <1>1 DEF InsightsInv, RowsWellFormed, EditsWellFormed, OneDefault, SwitchOffSafe, settings, records
<1>5. CategoryThere' /\ RerunReplaces'
  BY <1>1 DEF InsightsInv, CategoryThere, RerunReplaces, settings, records
<1>6. RunsGoUp'
  BY <1>1 DEF InsightsInv, RunsGoUp, Start, records
<1> QED BY <1>3, <1>4, <1>5, <1>6 DEF InsightsInv

LEMMA AnsweredInv == InsightsInv /\ Answered => InsightsInv'
<1> SUFFICES ASSUME InsightsInv, Answered PROVE InsightsInv'
  OBVIOUS
<1>1. UNCHANGED <<settings, runs, edit>> /\ run' = Idle
  BY DEF Answered
<1>2. PICK name \in Answers, r \in Replies, found \in 0..1 : Persist(name, MatchRatings(r), found)
  BY DEF Answered
<1> DEFINE category == ResolveCategory(name, run.cats)
<1> HIDE DEF category
<1>3. /\ category.id \in DOMAIN categories \cup {None}
      /\ analysis' = [category |-> category.id, name |-> category.row.name,
                      ratings |-> MatchRatings(r), edition |-> runs]
      /\ tasks' = TasksReplaced(tasks)
                    \cup {[id |-> <<runs, i>>, edition |-> runs, status |-> "open", done |-> FALSE] :
                            i \in 1..found}
      /\ lead' = [status |-> IF lead = NoRow THEN "new" ELSE lead.status, edition |-> runs]
  BY <1>2 DEF Persist, category
<1>4. /\ analysis' # NoRow /\ DOMAIN analysis' = {"category", "name", "ratings", "edition"}
      /\ lead' # NoRow /\ DOMAIN lead' = {"status", "edition"}
      /\ analysis'.edition = runs /\ lead'.edition = runs
  BY <1>3 DEF NoRow
<1>5. \A t \in tasks' : DOMAIN t = {"id", "edition", "status", "done"} /\ t.edition = runs
  <2>1. TasksReplaced(tasks) = {}
    BY DEF TasksReplaced, InsightsInv, RerunReplaces
  <2> QED BY <1>3, <2>1
<1>6. RowsWellFormed' /\ EditsWellFormed'
  BY <1>1, <1>4, <1>5 DEF InsightsInv, RowsWellFormed, EditsWellFormed, settings
<1>7. OneDefault' /\ SwitchOffSafe' /\ RunHasDefault'
  BY <1>1 DEF InsightsInv, OneDefault, SwitchOffSafe, RunHasDefault, Idle, settings
<1>8. CategoryThere' /\ RerunReplaces'
  BY <1>1, <1>3, <1>4, <1>5 DEF InsightsInv, CategoryThere, RerunReplaces, settings
<1>9. RunsGoUp'
  BY <1>1, <1>4 DEF InsightsInv, RunsGoUp, Idle
<1> QED BY <1>6, <1>7, <1>8, <1>9 DEF InsightsInv

LEMMA UnstorableInv == InsightsInv /\ Unstorable => InsightsInv'
BY DEF InsightsInv, Unstorable, RowsWellFormed, EditsWellFormed, OneDefault, SwitchOffSafe,
       RunHasDefault, CategoryThere, RerunReplaces, RunsGoUp, Idle, settings, records

-----------------------------------------------------------------------------
(* The theorems *)

\* InsightsInv is inductive.
THEOREM InsightsInvariant == Spec => []InsightsInv
<1>1. InsightsInv /\ [Next]_vars => InsightsInv'
  <2> SUFFICES ASSUME InsightsInv, [Next]_vars PROVE InsightsInv'
    OBVIOUS
  <2>1. CASE UNCHANGED vars
    BY <2>1 DEF InsightsInv, RowsWellFormed, EditsWellFormed, OneDefault, SwitchOffSafe,
                RunHasDefault, CategoryThere, RerunReplaces, RunsGoUp, vars
  <2>2. CASE CreateCategory
    BY <2>2, CreateCategoryInv
  <2>3. CASE DeleteCategory
    BY <2>3, DeleteCategoryInv
  <2>4. CASE CreateParam \/ DeleteParam
    BY <2>4, ParamsApart DEF CreateParam, DeleteParam
  <2>5. ASSUME NEW e \in Editors, LoadCategory(e) \/ LoadParam(e) \/ LoadTask(e) \/ LoadLead(e)
        PROVE  InsightsInv'
    BY <2>5, LoadInv
  <2>6. ASSUME NEW e \in Editors, Write(e) PROVE InsightsInv'
    <3>1. edit[e].kind \in {"category", "param", "task", "lead"}
      BY <2>6 DEF Write
    <3> QED BY <2>6, <3>1, WriteCategoryInv, WriteParamInv, WriteTaskInv, WriteLeadInv
  <2>7. CASE Start
    BY <2>7, StartInv
  <2>8. CASE Answered
    BY <2>8, AnsweredInv
  <2>9. CASE Unstorable
    BY <2>9, UnstorableInv
  <2> QED
    BY <2>1, <2>2, <2>3, <2>4, <2>5, <2>6, <2>7, <2>8, <2>9 DEF Next, Supervise, Carry
<1> QED BY InitInv, <1>1, PTL DEF Spec

\* Of the places in a list that answer to a description the first is the one taken.
LEMMA FirstIsOne ==
  ASSUME NEW cats, NEW S \in SUBSET DOMAIN cats, DOMAIN cats \in SUBSET Nat, S # {}
  PROVE  \E i \in S : First(S, cats) = cats[i]
<1>1. \E i \in S : \A j \in S : i <= j
  <2>1. PICK i \in S : \A j \in S : <<j, i>> \notin OpToRel(<, Nat)
    BY WFMin, NatLessThanWellFounded, Zenon
  <2>2. \A j \in S : j \in Nat /\ ~(j < i)
    BY <2>1 DEF OpToRel
  <2> QED BY <2>2
<1> QED BY <1>1 DEF First

LEMMA HasCategory ==
  ASSUME InsightsInv, run.step = "asking", NEW name PROVE HasCategoryFor(name)
<1>1. /\ DOMAIN run.cats \in SUBSET Nat
      /\ \E d \in DOMAIN run.cats : run.cats[d].row.default
  BY DEF InsightsInv, RunHasDefault
<1>2. CASE Named(name, run.cats) # {}
  <2>1. PICK i \in Named(name, run.cats) : First(Named(name, run.cats), run.cats) = run.cats[i]
    BY <1>1, <1>2, FirstIsOne DEF Named
  <2> QED BY <1>2, <2>1 DEF HasCategoryFor, ResolveCategory, Named
<1>3. CASE Named(name, run.cats) = {}
  <2>1. Fallbacks(run.cats) # {} /\ Fallbacks(run.cats) \in SUBSET DOMAIN run.cats
    BY <1>1 DEF Fallbacks, Defaults
  <2>2. PICK i \in Fallbacks(run.cats) : First(Fallbacks(run.cats), run.cats) = run.cats[i]
    BY <1>1, <2>1, FirstIsOne
  <2>3. i \in DOMAIN run.cats /\ run.cats[i].row.default
    BY <2>2 DEF Fallbacks, Defaults
  <2>4. ResolveCategory(name, run.cats) = run.cats[i]
    BY <1>3, <2>1, <2>2 DEF ResolveCategory
  <2>5. \A j \in DOMAIN run.cats : Lower[run.cats[j].row.name] # Lower[name]
    BY <1>3 DEF Named
  <2> QED BY <2>3, <2>4, <2>5 DEF HasCategoryFor
<1> QED BY <1>2, <1>3

\* However settings are edited there is one active default category, and every run has
\* a category for whatever the provider may answer: the one named, else the default.
THEOREM RepliesHaveACategory == Spec => []EveryReplyHasCategory
<1>1. InsightsInv => EveryReplyHasCategory
  <2> SUFFICES ASSUME InsightsInv PROVE EveryReplyHasCategory
    OBVIOUS
  <2>1. Cardinality({c \in DOMAIN categories : categories[c].default /\ categories[c].active}) = 1
    <3>1. PICK d : {c \in DOMAIN categories : categories[c].default /\ categories[c].active} = {d}
      BY DEF InsightsInv, OneDefault
    <3> QED BY <3>1, FS_Singleton
  <2> QED BY <2>1, HasCategory DEF EveryReplyHasCategory
<1> QED BY <1>1, InsightsInvariant, PTL

\* What a step does to the stored analysis, its category and its ratings.
LEMMA AnalysisSteps ==
  ASSUME InsightsInv, [Next]_vars PROVE CategoryKept /\ RatingsSnapshotted
<1>1. CASE Answered
  <2>1. run.step = "asking" /\ UNCHANGED <<settings, runs>>
    BY <1>1 DEF Answered
  <2>2. PICK name \in Answers, r \in Replies, found \in 0..1 : Persist(name, MatchRatings(r), found)
    BY <1>1 DEF Answered
  <2> DEFINE category == ResolveCategory(name, run.cats)
  <2>3. PICK i \in DOMAIN run.cats : category = run.cats[i]
    BY <2>1, HasCategory DEF HasCategoryFor
  <2>4. run.cats[i].id \in CategoryIds
    BY <2>1 DEF InsightsInv, RunHasDefault
  <2> HIDE DEF category
  <2>5. /\ category.id \in DOMAIN categories \cup {None}
        /\ analysis' = [category |-> category.id, name |-> category.row.name,
                        ratings |-> MatchRatings(r), edition |-> runs]
    BY <2>2 DEF Persist, category
  <2>6. analysis'.category \in DOMAIN categories' /\ analysis'.edition = runs
    BY <2>1, <2>3, <2>4, <2>5, InsightsAssumption DEF settings, None
  <2>7. ~Same(analysis, analysis')
    BY <2>1, <2>6 DEF InsightsInv, RunsGoUp, Same
  <2>8. \A x \in MatchRatings(r) : /\ x.param \in DOMAIN run.params
                                   /\ x.min = run.params[x.param].min
                                   /\ x.max = run.params[x.param].max
    BY DEF MatchRatings, Replies, ScaleOf, ScaleTold
  <2>9. analysis'.ratings = MatchRatings(r)
    BY <2>5
  <2>10. CategoryKept
    BY <2>6, <2>7 DEF CategoryKept
  <2>11. RatingsSnapshotted
    BY <2>7, <2>8, <2>9 DEF RatingsSnapshotted
  <2> QED BY <2>10, <2>11
<1>2. CASE DeleteCategory
  <2>1. PICK id \in DOMAIN categories :
          /\ categories' = Drop(categories, id)
          /\ analysis' = IF analysis # NoRow /\ analysis.category = id
                           THEN [analysis EXCEPT !.category = None] ELSE analysis
    BY <1>2 DEF DeleteCategory
  <2>2. DOMAIN categories' = DOMAIN categories \ {id}
    BY <2>1 DEF Drop
  <2>3. None \notin DOMAIN categories
    BY InsightsAssumption DEF InsightsInv, RowsWellFormed, None
  <2>4. CASE analysis = NoRow
    BY <2>1, <2>4 DEF CategoryKept, RatingsSnapshotted, Same
  <2>5. CASE analysis # NoRow
    <3>1. /\ analysis' # NoRow /\ analysis'.edition = analysis.edition
          /\ analysis'.ratings = analysis.ratings
          /\ analysis'.category = IF analysis.category = id THEN None ELSE analysis.category
      BY <2>1, <2>5 DEF InsightsInv, RowsWellFormed, NoRow
    <3>2. analysis.category \in DOMAIN categories \cup {None}
      BY <2>5 DEF InsightsInv, CategoryThere
    <3> QED BY <2>2, <2>3, <2>5, <3>1, <3>2 DEF CategoryKept, RatingsSnapshotted, Same
  <2> QED BY <2>4, <2>5
<1>3. ASSUME analysis' = analysis, DOMAIN categories \in SUBSET DOMAIN categories',
             DOMAIN categories' \in SUBSET CategoryIds
      PROVE  CategoryKept /\ RatingsSnapshotted
  <2>1. None \notin DOMAIN categories'
    BY <1>3, InsightsAssumption DEF None
  <2>2. analysis # NoRow => analysis.category \in DOMAIN categories \cup {None}
    BY DEF InsightsInv, CategoryThere
  <2> QED BY <1>3, <2>1, <2>2 DEF CategoryKept, RatingsSnapshotted, Same
<1>4. DOMAIN categories \in SUBSET CategoryIds
  BY DEF InsightsInv, RowsWellFormed
<1>5. CASE CreateCategory
  <2>1. /\ analysis' = analysis /\ DOMAIN categories \in SUBSET DOMAIN categories'
        /\ DOMAIN categories' \in SUBSET CategoryIds
    BY <1>4, <1>5 DEF CreateCategory, Put, records
  <2> QED BY <1>3, <2>1
<1>6. ASSUME NEW e \in Editors, Write(e) PROVE CategoryKept /\ RatingsSnapshotted
  <2>1. analysis' = analysis
    BY <1>6 DEF Write
  <2>2. DOMAIN categories' = DOMAIN categories
    BY <1>6 DEF Write, WriteCategory, Put, settings
  <2> QED BY <1>3, <1>4, <2>1, <2>2
<1>7. ASSUME UNCHANGED <<categories, analysis>> PROVE CategoryKept /\ RatingsSnapshotted
  BY <1>3, <1>4, <1>7
<1>8. ASSUME NEW e \in Editors, LoadCategory(e) \/ LoadParam(e) \/ LoadTask(e) \/ LoadLead(e)
      PROVE  UNCHANGED <<categories, analysis>>
  BY <1>8 DEF LoadCategory, LoadParam, LoadTask, LoadLead, Begin, settings, records
<1>9. CASE CreateParam \/ DeleteParam \/ Start \/ Unstorable \/ UNCHANGED vars
  BY <1>7, <1>9 DEF CreateParam, DeleteParam, Start, Unstorable, settings, records, vars
<1> QED BY <1>1, <1>2, <1>5, <1>6, <1>7, <1>8, <1>9 DEF Next, Supervise, Carry

\* No analysis is stored without a category that is there, and it loses it only when a
\* supervisor deletes it.
THEOREM AnalysesAreClassified == Spec => AlwaysClassified
<1>1. InsightsInv /\ [Next]_vars => [CategoryKept]_vars
  BY AnalysisSteps
<1> QED BY <1>1, InsightsInvariant, PTL DEF Spec, AlwaysClassified

\* Tasks and lead are those of the analysis that is stored.
THEOREM RerunsReplace == Spec => []RerunReplaces
<1>1. InsightsInv => RerunReplaces
  BY DEF InsightsInv
<1> QED BY <1>1, InsightsInvariant, PTL

\* A rating is stored with the scale the provider was told, and no edit reaches it.
THEOREM RatingsKeepTheirScale == Spec => ScoresKeepTheirScale
<1>1. InsightsInv /\ [Next]_vars => [RatingsSnapshotted]_vars
  BY AnalysisSteps
<1> QED BY <1>1, InsightsInvariant, PTL DEF Spec, ScoresKeepTheirScale
=============================================================================
