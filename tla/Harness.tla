------------------------------- MODULE Harness -------------------------------
(***************************************************************************)
(* The evaluation harness from an agent's tool calls to the published      *)
(* numbers: eval/agents.py and mcp/auth.py (which tool may be called with  *)
(* which token), eval/runner.py (cells of the matrix, rows, the results    *)
(* file and its summary), and analysis/ (metrics, taxonomy, classifier,    *)
(* charts), which read the file.                                           *)
(*                                                                         *)
(* The agent is a language model behind inspect_solver and external: it    *)
(* calls any of its tools and answers as it likes.  The repository has no  *)
(* loop over the matrix yet, so cells run in any order.  Costs are units,  *)
(* a quotient is a pair of numerator and denominator, and models and seeds *)
(* are left out, because nothing is aggregated by them.                    *)
(***************************************************************************)
EXTENDS Integers, Sequences, SequencesExt

CONSTANTS
  Categories,  \* of tasks, among lookup, transactional, multi_hop
  Conditions,  \* among clean, degraded, adversarial
  Costs,       \* what a cell may cost
  MaxRows,     \* bound: cells that are run
  MaxRuns      \* bound: runs of the harness on one results file

ASSUME HarnessAssumption ==
  /\ Categories \subseteq {"lookup", "transactional", "multi_hop"}
  /\ Conditions \subseteq {"clean", "degraded", "adversarial"}
  /\ Costs \subseteq Nat
  /\ MaxRows \in Nat
  /\ MaxRuns \in Nat

VARIABLES
  cell,    \* <<the cell being run>>, or <<>>
  reply,   \* what the last tool call of the cell returned
  rows,    \* the run's rows, in memory
  file,    \* the whole rows in the results file
  torn,    \* whether a part of a row is behind them
  made,    \* history: rows made by all runs
  runNo    \* history: the number of the run

vars == <<cell, reply, rows, file, torn, made, runNo>>

Variants == {"A", "B"}

Cell == [variant : Variants, category : Categories, condition : Conditions,
         token : {"A", "B", "unknown", ""}]

Init ==
  /\ cell = <<>>
  /\ reply = "none"
  /\ rows = <<>>
  /\ file = <<>> /\ torn = FALSE
  /\ made = 0
  /\ runNo = 1

-------------------------------------------------------------------------------
\* variant_a_tools and variant_b_tools: the store a tool asks, or the engine.
StoreOf ==
  [get_customer                  |-> "customers",
   get_customer_tier_history     |-> "customer_tier_changes",
   get_order                     |-> "orders",
   list_orders_for_customer      |-> "orders",
   get_order_items               |-> "order_items",
   get_stock                     |-> "inventory",
   get_return                    |-> "returns",
   list_returns_for_order        |-> "returns",
   get_ticket                    |-> "support_tickets",
   list_tickets_for_customer     |-> "support_tickets",
   list_payment_events_for_order |-> "payment_events",
   get_view                      |-> "engine"]

Tools(variant) ==
  IF variant = "B" THEN {"get_view"} ELSE DOMAIN StoreOf \ {"get_view"}

\* Mutated: the items of an order ask for a scope of their own.
ScopeOfItems ==
  [customers             |-> "customers:read",
   customer_tier_changes |-> "customers:read",
   orders                |-> "orders:read",
   order_items           |-> "order_items:read",
   inventory             |-> "inventory:read",
   returns               |-> "returns:read",
   support_tickets       |-> "support:read",
   payment_events        |-> "payments:read",
   engine                |-> "context:read"]

\* _STORE_SPECS and CONTEXT_SCOPE: the scope a call needs.
ScopeOf ==
  [customers             |-> "customers:read",
   customer_tier_changes |-> "customers:read",
   orders                |-> "orders:read",
   order_items           |-> "orders:read",
   inventory             |-> "inventory:read",
   returns               |-> "returns:read",
   support_tickets       |-> "support:read",
   payment_events        |-> "payments:read",
   engine                |-> "context:read"]

\* config/variant_a.yaml and variant_b.yaml: a registry knows one token.
Granted(variant) ==
  IF variant = "A"
  THEN {"customers:read", "orders:read", "inventory:read", "returns:read",
        "support:read", "payments:read"}
  ELSE {"context:read"}

\* TokenRegistry.check, by the registry of the variant: its three errors are one.
Authorised(variant, token, scope) ==
  /\ token # ""
  /\ token = variant
  /\ scope \in Granted(variant)

-------------------------------------------------------------------------------
\* A cell starts: variant A gets a fresh bundle under the condition.
Begin(c) ==
  /\ cell = <<>>
  /\ made < MaxRows
  /\ cell' = <<c>>
  /\ reply' = "none"
  /\ UNCHANGED <<rows, file, torn, made, runNo>>

\* A tool call is refused, or fails when a condition made a source fail, or answers.
Call(tool) ==
  /\ cell # <<>>
  /\ tool \in Tools(cell[1].variant)
  /\ IF ~Authorised(cell[1].variant, cell[1].token, ScopeOf[StoreOf[tool]])
     THEN reply' = "auth_error"
     ELSE \/ reply' = "data"
          \/ /\ cell[1].variant = "A" /\ cell[1].condition # "clean"
             /\ reply' = "source_error"
  /\ UNCHANGED <<cell, rows, file, torn, made, runNo>>

\* What an agent may answer: nothing that can be graded (no answer, or an id the snapshot
\* does not have), or an entity with the right or a wrong value.
Answers == {"ungraded", "right", "wrong"}

\* Mutated: an answer that cannot be graded fails without a category.
GradeUnnamed(category, answer) ==
  CASE answer = "right"    -> [correct |-> TRUE,  failure |-> "none"]
    [] answer = "ungraded" -> [correct |-> FALSE, failure |-> "none"]
    [] answer = "wrong"    -> [correct |-> FALSE, failure |-> "missed_join"]

\* The graders of tasks.py, as far as a row shows them.
GradeResult(category, answer) ==
  CASE answer = "right"    -> [correct |-> TRUE,  failure |-> "none"]
    [] answer = "ungraded" -> [correct |-> FALSE, failure |-> "reasoning_error"]
    [] answer = "wrong"    ->
         [correct |-> FALSE,
          failure |-> IF category = "lookup" THEN "temporal_misalignment" ELSE "missed_join"]

\* make_row; no and run are history.
MakeRow(c, grade, cost) ==
  [variant   |-> c.variant,
   category  |-> c.category,
   condition |-> c.condition,
   correct   |-> grade.correct,
   failure   |-> IF grade.correct THEN "none" ELSE grade.failure,
   cost      |-> cost,
   no        |-> Len(rows) + 1,
   run       |-> runNo]

\* The agent answers, grade_run grades, and the row is kept.
Finish(answer, cost) ==
  /\ cell # <<>>
  /\ rows' = Append(rows, MakeRow(cell[1], GradeResult(cell[1].category, answer), cost))
  /\ made' = made + 1
  /\ cell' = <<>>
  /\ reply' = "none"
  /\ UNCHANGED <<file, torn, runNo>>

\* Mutated: the file is opened for appending.
EmitResultsAppending ==
  /\ cell = <<>>
  /\ file' = file \o rows /\ torn' = FALSE
  /\ UNCHANGED <<cell, reply, rows, made, runNo>>

\* emit_results: opened with "w", written row by row, and closed.
EmitResults ==
  /\ cell = <<>>
  /\ file' = rows /\ torn' = FALSE
  /\ UNCHANGED <<cell, reply, rows, made, runNo>>

\* emit_results, killed when n rows have left the buffer and perhaps a part of the next;
\* the harness runs again on the same file.
EmitKilled(n) ==
  /\ cell = <<>>
  /\ runNo < MaxRuns
  /\ n \in 0..Len(rows)
  /\ file' = SubSeq(rows, 1, n)
  /\ torn' \in {FALSE, n < Len(rows)}
  /\ runNo' = runNo + 1
  /\ rows' = <<>>
  /\ UNCHANGED <<cell, reply, made>>

\* `arb eval` without --execute: it emits no rows, into the file it is given.
DryRun ==
  /\ cell = <<>>
  /\ file' = <<>> /\ torn' = FALSE
  /\ UNCHANGED <<cell, reply, rows, made, runNo>>

\* The harness ends, or is killed in a cell, and runs again on the same results file.
NextRun ==
  /\ runNo < MaxRuns
  /\ runNo' = runNo + 1
  /\ cell' = <<>> /\ reply' = "none"
  /\ rows' = <<>>
  /\ UNCHANGED <<file, torn, made>>

Next ==
  \/ \E c \in Cell : Begin(c)
  \/ \E tool \in DOMAIN StoreOf : Call(tool)
  \/ \E answer \in Answers, cost \in Costs : Finish(answer, cost)
  \/ EmitResults
  \/ \E n \in 0..MaxRows : EmitKilled(n)
  \/ DryRun
  \/ NextRun

Spec == Init /\ [][Next]_vars

-------------------------------------------------------------------------------
\* What reads the file.  Quotients are pairs, and Nan is the float.
Nan == <<>>

\* load_runs: it raises at a line that is not a whole row.
Loads == ~torn

\* _filter: the rows with a value in a field, as they come.
Chosen(rs, field, value) ==
  FoldLeft(LAMBDA kept, r : IF r[field] = value THEN Append(kept, r) ELSE kept, <<>>, rs)

Correct(rs)   == Chosen(rs, "correct", TRUE)
Failed(rs)    == Chosen(rs, "correct", FALSE)
Of(rs, v)     == Chosen(rs, "variant", v)
Under(rs, c)  == Chosen(rs, "condition", c)
TotalCost(rs) == FoldLeft(LAMBDA sum, r : sum + r.cost, 0, rs)

\* metrics: success_rate, cost_per_correct and cost_per_correct_degraded (their points).
SuccessRate(rs)   == IF rs = <<>> THEN Nan ELSE <<Len(Correct(rs)), Len(rs)>>
CostPerCorrect(rs) ==
  IF Correct(rs) = <<>> THEN Nan ELSE <<TotalCost(rs), Len(Correct(rs))>>
CostPerCorrectDegraded(rs) == CostPerCorrect(Under(rs, "degraded"))

\* chart_cost_per_correct: the bar of a variant under a condition.
CostBar(rs, v, c) ==
  LET ci == CostPerCorrect(Under(Of(rs, v), c))
  IN IF ci = Nan THEN <<0, 1>> ELSE ci

\* Mutated: a category that the graders use is missing.
CategoriesNoJoin ==
  <<"temporal_misalignment", "tool_selection_error", "schema_mismatch",
    "source_timeout", "reasoning_error", "ambiguous_result", "auth_denied">>

\* taxonomy: CATEGORIES, failure_histogram; classifier: reclassify.
CATEGORIES ==
  <<"temporal_misalignment", "tool_selection_error", "missed_join", "schema_mismatch",
    "source_timeout", "reasoning_error", "ambiguous_result", "auth_denied">>

FailureCategories == {CATEGORIES[i] : i \in DOMAIN CATEGORIES}

FailureHistogram(rs) ==
  [c \in FailureCategories |-> Len(Chosen(Failed(rs), "failure", c))]

Reclassify(rs) ==
  [i \in DOMAIN rs |-> [rs[i] EXCEPT !.failure = IF rs[i].correct THEN "none" ELSE @]]

\* runner.summarise divides by at least one.
AtLeastOne(n) == IF n = 0 THEN 1 ELSE n

\* Mutated: the degraded cost is divided by all correct answers.
SummariseMixed(rs) ==
  [n                         |-> Len(rs),
   success_rate              |-> <<Len(Correct(rs)), Len(rs)>>,
   cost_per_correct          |-> <<TotalCost(rs), AtLeastOne(Len(Correct(rs)))>>,
   cost_per_correct_degraded |->
     IF Under(rs, "degraded") = <<>> THEN Nan
     ELSE <<TotalCost(Under(rs, "degraded")), AtLeastOne(Len(Correct(rs)))>>,
   failures                  |->
     [f \in {Failed(rs)[i].failure : i \in DOMAIN Failed(rs)} |->
        Len(Chosen(Failed(rs), "failure", f))],
   by_variant                |->
     [v \in {rs[i].variant : i \in DOMAIN rs} |->
        [n |-> Len(Of(rs, v)), success_rate |-> SuccessRate(Of(rs, v))]]]

\* runner.summarise of at least one row.
Summarise(rs) ==
  [n                         |-> Len(rs),
   success_rate              |-> <<Len(Correct(rs)), Len(rs)>>,
   cost_per_correct          |-> <<TotalCost(rs), AtLeastOne(Len(Correct(rs)))>>,
   cost_per_correct_degraded |->
     LET deg == Under(rs, "degraded")
     IN IF deg = <<>> THEN Nan ELSE <<TotalCost(deg), AtLeastOne(Len(Correct(deg)))>>,
   failures                  |->
     [f \in {Failed(rs)[i].failure : i \in DOMAIN Failed(rs)} |->
        Len(Chosen(Failed(rs), "failure", f))],
   by_variant                |->
     [v \in {rs[i].variant : i \in DOMAIN rs} |->
        [n |-> Len(Of(rs, v)), success_rate |-> SuccessRate(Of(rs, v))]]]

-------------------------------------------------------------------------------
Row == [variant : Variants, category : Categories, condition : Conditions,
        correct : BOOLEAN, failure : FailureCategories \cup {"none"}, cost : Costs,
        no : Nat, run : Nat]

\* Types; a row has a failure of the taxonomy exactly when it is not correct.
TypeOK ==
  /\ cell = <<>> \/ \E c \in Cell : cell = <<c>>
  /\ reply \in {"none", "data", "source_error", "auth_error"}
  /\ rows \in Seq(Row)
  /\ \A i \in DOMAIN rows : rows[i].correct <=> rows[i].failure = "none"
  /\ file \in Seq(Row) /\ torn \in BOOLEAN
  /\ made \in Nat
  /\ runNo \in Nat

\* "auth_denied ... should never legitimately fire" (methodology.md, section 2): a call is
\* refused exactly when the agent has not got its own variant's token, for every tool of
\* the toolset, and so a token opens all of one variant and nothing of the other.
AuthIsExact ==
  [][\A tool \in DOMAIN StoreOf :
       Call(tool) => (reply' = "auth_error" <=> cell[1].token # cell[1].variant)]_vars

\* The whole rows in the results file are the first rows of one run in their order, however
\* often the harness has written to it and wherever a writer was killed: a part of one run,
\* perhaps with a torn line behind it that makes the file unreadable, never of two.
FileIsOneRun ==
  \A i \in DOMAIN file : file[i].run = file[1].run /\ file[i].no = i

SumOver(hist) == FoldLeft(LAMBDA sum, c : sum + hist[c], 0, CATEGORIES)

\* The taxonomy accounts for every failure in a file that can be read: the categories sum up to the failures, over
\* all rows and for each variant, and the classifier moves none of them.
TaxonomyAddsUp ==
  Loads => \A rs \in {file, Of(file, "A"), Of(file, "B")} :
    /\ SumOver(FailureHistogram(rs)) = Len(rs) - Len(Correct(rs))
    /\ FailureHistogram(Reclassify(rs)) = FailureHistogram(rs)

\* The harness and the notebook publish the same numbers of the same rows: success,
\* failures by category, and the costs wherever an answer was correct; the chart's bars
\* are those costs too.
SummariesAgree ==
  LET s == Summarise(file)
      hist == FailureHistogram(file)
      deg == Under(file, "degraded")
  IN Loads /\ file # <<>> =>
       /\ s.success_rate = SuccessRate(file)
       /\ \A c \in FailureCategories :
            hist[c] = IF c \in DOMAIN s.failures THEN s.failures[c] ELSE 0
       /\ Correct(file) # <<>> => s.cost_per_correct = CostPerCorrect(file)
       /\ Correct(deg) # <<>> =>
            /\ s.cost_per_correct_degraded = CostPerCorrectDegraded(file)
            /\ \A v \in Variants : deg = Of(deg, v) =>
                 CostBar(file, v, "degraded") = s.cost_per_correct_degraded

\* "Standardised across the harness and the results notebook: cost_per_correct"
\* (methodology.md, section 3): the harness and the notebook say the same of any rows.
CostIsStandardised ==
  Loads /\ file # <<>> => Summarise(file).cost_per_correct = CostPerCorrect(file)
===============================================================================
