---------------------------- MODULE HarnessProofs ----------------------------
(***************************************************************************)
(* Theorems about Harness, for all task categories, conditions and costs   *)
(* and any number of cells and runs.                                       *)
(***************************************************************************)
EXTENDS Harness, TLAPS

\* A prefix of a sequence.
LEMMA Prefix ==
  ASSUME NEW S, NEW s \in Seq(S), NEW n \in 0..Len(s)
  PROVE  /\ SubSeq(s, 1, n) \in Seq(S)
         /\ Len(SubSeq(s, 1, n)) = n
         /\ \A i \in 1..n : SubSeq(s, 1, n)[i] = s[i]
OBVIOUS

HasEight(s) == DOMAIN s = 1..8

\* The categories by their names.
LEMMA EightCategories ==
  /\ HasEight(CATEGORIES)
  /\ FailureCategories =
       {"temporal_misalignment", "tool_selection_error", "missed_join", "schema_mismatch",
        "source_timeout", "reasoning_error", "ambiguous_result", "auth_denied"}
<1>1. DOMAIN CATEGORIES = {1, 2, 3, 4, 5, 6, 7, 8}
  BY DEF CATEGORIES
<1>2. FailureCategories =
        {CATEGORIES[1], CATEGORIES[2], CATEGORIES[3], CATEGORIES[4],
         CATEGORIES[5], CATEGORIES[6], CATEGORIES[7], CATEGORIES[8]}
  BY <1>1 DEF FailureCategories
<1> QED
  BY <1>1, <1>2 DEF CATEGORIES, HasEight

\* A graded row has a failure of the taxonomy exactly when it is not correct.
LEMMA GradedRow ==
  ASSUME NEW c \in Cell, NEW answer \in Answers, NEW cost \in Costs,
         Len(rows) \in Nat, runNo \in Nat
  PROVE  LET row == MakeRow(c, GradeResult(c.category, answer), cost)
         IN /\ row \in Row
            /\ row.correct <=> row.failure = "none"
            /\ row.no = Len(rows) + 1 /\ row.run = runNo
<1> DEFINE grade == GradeResult(c.category, answer)
<1>1. /\ grade.correct \in BOOLEAN
      /\ grade.failure \in FailureCategories \cup {"none"}
      /\ ~grade.correct => grade.failure # "none"
  BY EightCategories DEF GradeResult, Answers
<1>2. /\ c.variant \in Variants /\ c.category \in Categories /\ c.condition \in Conditions
  BY DEF Cell
<1> DEFINE row == MakeRow(c, grade, cost)
<1>3. /\ row.variant = c.variant /\ row.category = c.category
      /\ row.condition = c.condition /\ row.correct = grade.correct
      /\ row.failure = IF grade.correct THEN "none" ELSE grade.failure
      /\ row.cost = cost /\ row.no = Len(rows) + 1 /\ row.run = runNo
  BY DEF MakeRow
<1>4. row \in Row
  <2> HIDE DEF grade
  <2> QED BY <1>1, <1>2 DEF MakeRow, Row
<1>5. row.correct <=> row.failure = "none"
  <2> HIDE DEF grade, row
  <2> QED BY <1>1, <1>3
<1> QED BY <1>3, <1>4, <1>5

LEMMA InitTypes == Init => TypeOK
<1> SUFFICES ASSUME Init PROVE TypeOK
  OBVIOUS
<1>1. torn \in BOOLEAN
  BY Zenon DEF Init
<1> QED
  BY <1>1 DEF Init, TypeOK

LEMMA NextTypes == TypeOK /\ [Next]_vars => TypeOK'
<1> SUFFICES ASSUME TypeOK, [Next]_vars PROVE TypeOK'
  OBVIOUS
<1>1. ASSUME NEW c \in Cell, Begin(c) PROVE TypeOK'
  BY <1>1 DEF Begin, TypeOK
<1>2. ASSUME NEW tool \in DOMAIN StoreOf, Call(tool) PROVE TypeOK'
  <2>1. reply' \in {"data", "source_error", "auth_error"}
    BY <1>2 DEF Call
  <2> QED BY <1>2, <2>1 DEF Call, TypeOK
<1>3. ASSUME NEW answer \in Answers, NEW cost \in Costs, Finish(answer, cost) PROVE TypeOK'
  <2> DEFINE row == MakeRow(cell[1], GradeResult(cell[1].category, answer), cost)
  <2>1. cell[1] \in Cell
    BY <1>3 DEF Finish, TypeOK
  <2>2. rows \in Seq(Row) /\ Len(rows) \in Nat /\ runNo \in Nat
    BY DEF TypeOK
  <2>3. row \in Row /\ (row.correct <=> row.failure = "none")
    BY <2>1, <2>2, GradedRow
  <2>4. rows' = Append(rows, row)
    BY <1>3 DEF Finish
  <2> HIDE DEF row
  <2>5. /\ rows' \in Seq(Row)
        /\ \A i \in DOMAIN rows' : rows'[i].correct <=> rows'[i].failure = "none"
    BY <2>2, <2>3, <2>4 DEF TypeOK
  <2> QED BY <1>3, <2>5 DEF Finish, TypeOK
<1>4. CASE EmitResults
  <2>1. torn' \in BOOLEAN
    BY <1>4, Zenon DEF EmitResults
  <2> QED BY <1>4, <2>1 DEF EmitResults, TypeOK
<1>8. ASSUME NEW n \in 0..MaxRows, EmitKilled(n) PROVE TypeOK'
  <2>1. file' \in Seq(Row)
    BY <1>8, Prefix DEF EmitKilled, TypeOK
  <2>2. torn' \in BOOLEAN
    <3>1. (n < Len(rows)) \in BOOLEAN
      OBVIOUS
    <3>2. torn' \in {FALSE, n < Len(rows)}
      BY <1>8, Zenon DEF EmitKilled
    <3> QED BY <3>1, <3>2, Zenon
  <2>3. rows' = <<>> /\ runNo' \in Nat
    BY <1>8 DEF EmitKilled, TypeOK
  <2>4. cell' = <<>> /\ reply' = reply /\ made' = made
    BY <1>8 DEF EmitKilled
  <2>5. rows' \in Seq(Row) /\ \A i \in DOMAIN rows' : rows'[i].correct <=> rows'[i].failure = "none"
    BY <2>3
  <2> QED BY <2>1, <2>2, <2>3, <2>4, <2>5 DEF TypeOK
<1>5. CASE DryRun
  <2>1. torn' \in BOOLEAN
    BY <1>5, Zenon DEF DryRun
  <2> QED BY <1>5, <2>1 DEF DryRun, TypeOK
<1>6. CASE NextRun
  BY <1>6 DEF NextRun, TypeOK
<1>7. CASE UNCHANGED vars
  BY <1>7 DEF vars, TypeOK
<1> QED BY <1>1, <1>2, <1>3, <1>4, <1>5, <1>6, <1>7, <1>8 DEF Next

\* The state keeps its types: no row is ungraded and none has an unknown failure.
THEOREM TypeCorrect == Spec => []TypeOK
BY InitTypes, NextTypes, PTL DEF Spec

\* The scopes of variant A's tools are those its token grants; the engine's is B's.
LEMMA ScopesMatch ==
  ASSUME NEW variant \in Variants, NEW tool \in Tools(variant)
  PROVE  ScopeOf[StoreOf[tool]] \in Granted(variant)
<1>1. CASE variant = "B"
  <2>1. tool = "get_view"
    BY <1>1 DEF Tools
  <2> QED BY <1>1, <2>1 DEF ScopeOf, StoreOf, Granted
<1>2. CASE variant = "A"
  <2>1. tool \in DOMAIN StoreOf /\ tool # "get_view"
    BY <1>2 DEF Tools
  <2>2. StoreOf[tool] \in {"customers", "customer_tier_changes", "orders", "order_items",
                           "inventory", "returns", "support_tickets", "payment_events"}
    BY <2>1 DEF StoreOf
  <2> QED BY <1>2, <2>2 DEF ScopeOf, Granted
<1> QED BY <1>1, <1>2 DEF Variants

\* Every tool of a variant opens with the variant's token and with no other.
THEOREM TokensFit == Spec => AuthIsExact
<1>1. TypeOK /\ [Next]_vars
        => [\A tool \in DOMAIN StoreOf :
              Call(tool) => (reply' = "auth_error" <=> cell[1].token # cell[1].variant)]_vars
  <2> SUFFICES ASSUME TypeOK, NEW tool \in DOMAIN StoreOf, Call(tool)
               PROVE  reply' = "auth_error" <=> cell[1].token # cell[1].variant
    OBVIOUS
  <2>1. cell[1] \in Cell /\ tool \in Tools(cell[1].variant)
    BY DEF Call, TypeOK
  <2>2. cell[1].variant \in Variants /\ cell[1].variant # ""
    BY <2>1 DEF Cell, Variants
  <2>3. ScopeOf[StoreOf[tool]] \in Granted(cell[1].variant)
    BY <2>1, <2>2, ScopesMatch
  <2>4. Authorised(cell[1].variant, cell[1].token, ScopeOf[StoreOf[tool]])
          <=> cell[1].token = cell[1].variant
    BY <2>2, <2>3 DEF Authorised
  <2>5. CASE cell[1].token = cell[1].variant
    <3>1. reply' \in {"data", "source_error"}
      BY <2>4, <2>5 DEF Call
    <3> QED BY <2>5, <3>1
  <2>6. CASE cell[1].token # cell[1].variant
    <3>1. reply' = "auth_error"
      BY <2>4, <2>6 DEF Call
    <3> QED BY <2>6, <3>1
  <2> QED BY <2>5, <2>6
<1> QED BY <1>1, TypeCorrect, PTL DEF Spec, AuthIsExact

-------------------------------------------------------------------------------
\* The rows in memory are numbered and of this run, as are those in the file of its run.
RowsAreNumbered == \A i \in DOMAIN rows : rows[i].run = runNo /\ rows[i].no = i

LEMMA NextFile ==
  ASSUME TypeOK, RowsAreNumbered, FileIsOneRun, [Next]_vars
  PROVE  RowsAreNumbered' /\ FileIsOneRun'
<1>1. ASSUME UNCHANGED <<rows, file, runNo>>
      PROVE  RowsAreNumbered' /\ FileIsOneRun'
  BY <1>1 DEF RowsAreNumbered, FileIsOneRun
<1>2. ASSUME NEW answer \in Answers, NEW cost \in Costs, Finish(answer, cost)
      PROVE  RowsAreNumbered' /\ FileIsOneRun'
  <2> DEFINE row == MakeRow(cell[1], GradeResult(cell[1].category, answer), cost)
  <2>1. row.no = Len(rows) + 1 /\ row.run = runNo
    BY DEF MakeRow
  <2>2. rows' = Append(rows, row) /\ runNo' = runNo /\ file' = file
    BY <1>2 DEF Finish
  <2>3. rows \in Seq(Row)
    BY DEF TypeOK
  <2> HIDE DEF row
  <2>4. DOMAIN rows' = DOMAIN rows \cup {Len(rows) + 1}
    BY <2>2, <2>3
  <2>5. /\ \A i \in DOMAIN rows : rows'[i] = rows[i]
        /\ rows'[Len(rows) + 1] = row
    BY <2>2, <2>3
  <2> QED BY <2>1, <2>2, <2>4, <2>5 DEF RowsAreNumbered, FileIsOneRun
<1>9. CASE EmitResults
  <2>1. file' = rows /\ rows' = rows /\ runNo' = runNo
    BY <1>9 DEF EmitResults
  <2>2. rows \in Seq(Row)
    BY DEF TypeOK
  <2>3. \A i \in DOMAIN rows : 1 \in DOMAIN rows
    BY <2>2
  <2> QED BY <2>1, <2>3 DEF RowsAreNumbered, FileIsOneRun
<1>3. ASSUME NEW n \in 0..MaxRows, EmitKilled(n)
      PROVE  RowsAreNumbered' /\ FileIsOneRun'
  <2>1. /\ n \in 0..Len(rows) /\ file' = SubSeq(rows, 1, n)
        /\ rows' = <<>>
    BY <1>3 DEF EmitKilled
  <2>2. rows \in Seq(Row) /\ DOMAIN rows = 1..Len(rows) /\ Len(rows) \in Nat
    BY DEF TypeOK
  <2>3. /\ file' \in Seq(Row) /\ Len(file') = n
        /\ \A i \in 1..n : file'[i] = rows[i]
    BY <2>1, <2>2, Prefix
  <2>4. DOMAIN file' = 1..n
    BY <2>3
  <2>5. \A i \in 1..n : file'[i].run = runNo /\ file'[i].no = i
    BY <2>1, <2>2, <2>3 DEF RowsAreNumbered
  <2>6. FileIsOneRun'
    <3>1. ASSUME NEW i \in DOMAIN file'
          PROVE  file'[i].run = file'[1].run /\ file'[i].no = i
      <4>1. i \in 1..n /\ 1 \in 1..n
        BY <2>1, <2>4, <3>1
      <4> QED BY <2>5, <4>1
    <3> QED BY <3>1 DEF FileIsOneRun
  <2> QED BY <2>1, <2>6 DEF RowsAreNumbered
<1>4. CASE DryRun
  BY <1>4 DEF DryRun, RowsAreNumbered, FileIsOneRun
<1>5. CASE NextRun
  BY <1>5 DEF NextRun, RowsAreNumbered, FileIsOneRun
<1>6. ASSUME NEW c \in Cell, Begin(c)
      PROVE  UNCHANGED <<rows, file, runNo>>
  BY <1>6 DEF Begin
<1>7. ASSUME NEW tool \in DOMAIN StoreOf, Call(tool)
      PROVE  UNCHANGED <<rows, file, runNo>>
  BY <1>7 DEF Call
<1>8. UNCHANGED vars => UNCHANGED <<rows, file, runNo>>
  BY DEF vars
<1> QED BY <1>1, <1>2, <1>3, <1>4, <1>5, <1>6, <1>7, <1>8, <1>9 DEF Next

\* The results file holds the first rows of one run, however often it is written and
\* wherever a writer was killed.
THEOREM ResultsAreOneRun == Spec => []FileIsOneRun
<1>1. Init => RowsAreNumbered /\ FileIsOneRun
  BY DEF Init, RowsAreNumbered, FileIsOneRun
<1>2. TypeOK /\ RowsAreNumbered /\ FileIsOneRun /\ [Next]_vars
        => RowsAreNumbered' /\ FileIsOneRun'
  BY NextFile
<1> QED BY <1>1, <1>2, TypeCorrect, PTL DEF Spec

-------------------------------------------------------------------------------
\* A choice of rows is a fold, and so is a sum over the categories.
ChooseOne(test, kept, r) == IF r[test[1]] = test[2] THEN Append(kept, r) ELSE kept
Choosing == INSTANCE Folding WITH op <- ChooseOne

AddOne(hist, sum, c) == sum + hist[c]
Adding == INSTANCE Folding WITH op <- AddOne

LEMMA ChosenIsFold ==
  \A rs, field, value : Chosen(rs, field, value) = Choosing!Folded(<<field, value>>, <<>>, rs)
BY DEF Chosen, FoldLeft, MapThenFoldSet, Max, ChooseOne,
       Choosing!Folded, Choosing!FoldLeft, Choosing!MapThenFoldSet, Choosing!Max

LEMMA ChosenNone == \A field, value : Chosen(<<>>, field, value) = <<>>
BY ChosenIsFold, Choosing!FoldEmpty

LEMMA ChosenOneMore ==
  \A field, value, r, S : \A rs \in Seq(S) :
    Chosen(Append(rs, r), field, value) =
      IF r[field] = value THEN Append(Chosen(rs, field, value), r) ELSE Chosen(rs, field, value)
<1> SUFFICES ASSUME NEW field, NEW value, NEW r, NEW S, NEW rs \in Seq(S)
             PROVE  Chosen(Append(rs, r), field, value) =
                      IF r[field] = value THEN Append(Chosen(rs, field, value), r)
                      ELSE Chosen(rs, field, value)
  OBVIOUS
<1>1. PICK test : test = <<field, value>>
  OBVIOUS
<1>2. \A t, base : Choosing!Folded(t, base, Append(rs, r)) =
                     ChooseOne(t, Choosing!Folded(t, base, rs), r)
  BY Choosing!FoldSnoc
<1>3. Choosing!Folded(test, <<>>, Append(rs, r)) =
        ChooseOne(test, Choosing!Folded(test, <<>>, rs), r)
  BY <1>2
<1>4. test[1] = field /\ test[2] = value
  BY <1>1
<1> QED
  BY <1>1, <1>3, <1>4, ChosenIsFold DEF ChooseOne

\* Rows that are chosen are rows of the kind, with the value.
LEMMA ChosenAre ==
  \A field, value, S : \A rs \in Seq(S) :
    Chosen(rs, field, value) \in Seq({r \in S : r[field] = value})
<1> SUFFICES ASSUME NEW field, NEW value, NEW S
             PROVE  \A rs \in Seq(S) :
                      Chosen(rs, field, value) \in Seq({r \in S : r[field] = value})
  OBVIOUS
<1> DEFINE V == {r \in S : r[field] = value}
           T == {rs \in Seq(S) : Chosen(rs, field, value) \in Seq(V)}
<1>1. <<>> \in T
  <2>1. \A Q : <<>> \in Seq(Q)
    OBVIOUS
  <2>2. PICK Q : Q = V
    OBVIOUS
  <2>3. Chosen(<<>>, field, value) \in Seq(Q)
    BY <2>1, ChosenNone
  <2> HIDE DEF V
  <2> QED
    BY <2>1, <2>2, <2>3
<1>2. ASSUME NEW rs \in Seq(S), NEW r \in S, rs \in T PROVE Append(rs, r) \in T
  <2>1. Chosen(rs, field, value) \in Seq(V)
    BY <1>2
  <2>2. r[field] = value => r \in V
    OBVIOUS
  <2>3. Append(rs, r) \in Seq(S)
    OBVIOUS
  <2>4. Chosen(Append(rs, r), field, value) \in Seq(V)
    <3> HIDE DEF V
    <3> QED
      BY <2>1, <2>2, ChosenOneMore
  <2> QED
    BY <2>3, <2>4
<1> HIDE DEF T
<1>3. Seq(S) \subseteq T
  BY <1>1, <1>2, Choosing!AllSeqs
<1> QED
  BY <1>3 DEF T

LEMMA ChosenStay ==
  \A field, value, S : \A rs \in Seq(S) : Chosen(rs, field, value) \in Seq(S)
<1> SUFFICES ASSUME NEW field, NEW value, NEW S, NEW rs \in Seq(S)
             PROVE  Chosen(rs, field, value) \in Seq(S)
  OBVIOUS
<1>1. PICK V : V = {r \in S : r[field] = value}
  OBVIOUS
<1>2. Chosen(rs, field, value) \in Seq(V) /\ V \subseteq S
  BY <1>1, ChosenAre
<1> QED
  BY <1>2

\* Two choices may be made in either order.
LEMMA ChoicesCommute ==
  \A f, u, g, v, S : \A rs \in Seq(S) :
    Chosen(Chosen(rs, f, u), g, v) = Chosen(Chosen(rs, g, v), f, u)
<1> SUFFICES ASSUME NEW f, NEW u, NEW g, NEW v, NEW S
             PROVE  \A rs \in Seq(S) :
                      Chosen(Chosen(rs, f, u), g, v) = Chosen(Chosen(rs, g, v), f, u)
  OBVIOUS
<1> DEFINE T == {rs \in Seq(S) :
                   Chosen(Chosen(rs, f, u), g, v) = Chosen(Chosen(rs, g, v), f, u)}
<1>1. <<>> \in T
  BY ChosenNone
<1>2. ASSUME NEW rs \in Seq(S), NEW r \in S, rs \in T PROVE Append(rs, r) \in T
  <2>1. PICK x : x = Chosen(rs, f, u)
    OBVIOUS
  <2>2. PICK y : y = Chosen(rs, g, v)
    OBVIOUS
  <2>3. x \in Seq(S) /\ y \in Seq(S) /\ Append(rs, r) \in Seq(S)
    BY <2>1, <2>2, ChosenStay
  <2>4. Chosen(x, g, v) = Chosen(y, f, u)
    BY <1>2, <2>1, <2>2
  <2>5. Chosen(Append(rs, r), f, u) = IF r[f] = u THEN Append(x, r) ELSE x
    BY <2>1, ChosenOneMore
  <2>6. Chosen(Append(rs, r), g, v) = IF r[g] = v THEN Append(y, r) ELSE y
    BY <2>2, ChosenOneMore
  <2>7. Chosen(Append(x, r), g, v) = IF r[g] = v THEN Append(Chosen(x, g, v), r) ELSE Chosen(x, g, v)
    BY <2>3, ChosenOneMore
  <2>8. Chosen(Append(y, r), f, u) = IF r[f] = u THEN Append(Chosen(y, f, u), r) ELSE Chosen(y, f, u)
    BY <2>3, ChosenOneMore
  <2>9. Chosen(Chosen(Append(rs, r), f, u), g, v) = Chosen(Chosen(Append(rs, r), g, v), f, u)
    BY <2>4, <2>5, <2>6, <2>7, <2>8
  <2> QED
    BY <2>3, <2>9
<1> HIDE DEF T
<1>3. Seq(S) \subseteq T
  BY <1>1, <1>2, Choosing!AllSeqs
<1> QED
  BY <1>3 DEF T

-------------------------------------------------------------------------------
\* The sum over the categories.
LEMMA SumOfEight ==
  ASSUME NEW hist \in [FailureCategories -> Nat]
  PROVE  SumOver(hist) =
           hist["temporal_misalignment"] + hist["tool_selection_error"] + hist["missed_join"]
           + hist["schema_mismatch"] + hist["source_timeout"] + hist["reasoning_error"]
           + hist["ambiguous_result"] + hist["auth_denied"]
<1>1. SumOver(hist) = Adding!Folded(hist, 0, CATEGORIES)
  BY DEF SumOver, FoldLeft, MapThenFoldSet, Max, AddOne,
         Adding!Folded, Adding!FoldLeft, Adding!MapThenFoldSet, Adding!Max
<1>2. Adding!HasLength(CATEGORIES, 8)
  BY EightCategories DEF HasEight, Adding!HasLength
<1>5. PICK h : Adding!GoesThrough(hist, 0, CATEGORIES, 8, h)
  BY <1>2, Adding!Unfolding
<1>3. /\ Adding!Folded(hist, 0, CATEGORIES) = h[8]
      /\ h[0] = 0
      /\ \A k \in 1..8 : h[k] = AddOne(hist, h[k - 1], CATEGORIES[k])
  BY <1>5 DEF Adding!GoesThrough
<1>4. /\ h[1] = h[0] + hist[CATEGORIES[1]]
      /\ h[2] = h[1] + hist[CATEGORIES[2]]
      /\ h[3] = h[2] + hist[CATEGORIES[3]]
      /\ h[4] = h[3] + hist[CATEGORIES[4]]
      /\ h[5] = h[4] + hist[CATEGORIES[5]]
      /\ h[6] = h[5] + hist[CATEGORIES[6]]
      /\ h[7] = h[6] + hist[CATEGORIES[7]]
      /\ h[8] = h[7] + hist[CATEGORIES[8]]
  <2> HIDE DEF CATEGORIES
  <2>1. \A k \in 1..8 : h[k] = h[k - 1] + hist[CATEGORIES[k]]
    BY <1>3 DEF AddOne
  <2> QED
    BY <2>1
<1>6. \A c \in FailureCategories : hist[c] \in Nat
  OBVIOUS
<1> QED
  BY <1>1, <1>3, <1>4, <1>6, EightCategories DEF CATEGORIES

\* One failure more in a category is one more in the sum.
LEMMA SumGrows ==
  ASSUME NEW hist \in [FailureCategories -> Nat], NEW c \in FailureCategories
  PROVE  /\ SumOver(hist) \in Nat
         /\ SumOver([hist EXCEPT ![c] = @ + 1]) = SumOver(hist) + 1
<1>1. PICK more : more = [hist EXCEPT ![c] = @ + 1]
  OBVIOUS
<1>2. more \in [FailureCategories -> Nat]
  BY <1>1
<1>3. /\ \A d \in FailureCategories : hist[d] \in Nat
      /\ \A d \in FailureCategories : more[d] = IF d = c THEN hist[d] + 1 ELSE hist[d]
  BY <1>1
<1>4. PICK one : one = [d \in FailureCategories |-> IF d = c THEN 1 ELSE 0]
  OBVIOUS
<1>6. /\ one \in [FailureCategories -> Nat]
      /\ \A d \in FailureCategories : one[d] = IF d = c THEN 1 ELSE 0
  BY <1>4
<1>7. SumOver(one) = 1
  BY <1>6, SumOfEight, EightCategories
<1>8. SumOver(more) = SumOver(hist) + SumOver(one)
  <2>1. \A d \in FailureCategories :
          hist[d] \in Nat /\ one[d] \in Nat /\ more[d] = hist[d] + one[d]
    BY <1>3, <1>6
  <2> QED
    BY <1>2, <1>6, <2>1, SumOfEight, EightCategories
<1>5. SumOver(hist) \in Nat
  BY <1>3, SumOfEight, EightCategories
<1> QED
  BY <1>1, <1>5, <1>7, <1>8

-------------------------------------------------------------------------------
\* The rows of a run: a failure of the taxonomy exactly when they are not correct.
GradedRows == {r \in Row : r.correct <=> r.failure = "none"}

LEMMA HistogramNone ==
  /\ FailureHistogram(<<>>) = [c \in FailureCategories |-> 0]
  /\ SumOver(FailureHistogram(<<>>)) = 0
<1>1. FailureHistogram(<<>>) = [c \in FailureCategories |-> 0]
  <2>1. Failed(<<>>) = <<>>
    BY ChosenNone DEF Failed
  <2>2. \A c \in FailureCategories : Len(Chosen(Failed(<<>>), "failure", c)) = 0
    BY <2>1, ChosenNone
  <2> QED
    BY <2>2 DEF FailureHistogram
<1>2. PICK hist : hist = FailureHistogram(<<>>)
  OBVIOUS
<1>3. hist \in [FailureCategories -> Nat] /\ \A c \in FailureCategories : hist[c] = 0
  BY <1>1, <1>2
<1> QED
  BY <1>1, <1>2, <1>3, SumOfEight, EightCategories

\* One row more counts in its category when it failed, and nowhere when it did not.
LEMMA HistogramOneMore ==
  ASSUME NEW rs \in Seq(GradedRows), NEW r \in GradedRows
  PROVE  /\ FailureHistogram(rs) \in [FailureCategories -> Nat]
         /\ FailureHistogram(Append(rs, r)) =
              IF r.correct THEN FailureHistogram(rs)
              ELSE [FailureHistogram(rs) EXCEPT ![r.failure] = @ + 1]
<1>1. PICK failed : failed = Failed(rs)
  OBVIOUS
<1>2. failed \in Seq(GradedRows)
  BY <1>1, ChosenStay DEF Failed
<1>3. PICK of : of = [c \in FailureCategories |-> Chosen(failed, "failure", c)]
  OBVIOUS
<1>4. \A c \in FailureCategories : of[c] \in Seq(GradedRows)
  BY <1>2, <1>3, ChosenStay
<1>5. FailureHistogram(rs) = [c \in FailureCategories |-> Len(of[c])]
  BY <1>1, <1>3 DEF FailureHistogram
<1>6. FailureHistogram(rs) \in [FailureCategories -> Nat]
  BY <1>4, <1>5
<1>9. Failed(Append(rs, r)) = IF r["correct"] = FALSE THEN Append(failed, r) ELSE failed
  <2>1. PICK no : no = FALSE
    OBVIOUS
  <2>2. Chosen(Append(rs, r), "correct", no) =
          IF r["correct"] = no THEN Append(Chosen(rs, "correct", no), r)
          ELSE Chosen(rs, "correct", no)
    BY ChosenOneMore
  <2> QED
    BY <1>1, <2>1, <2>2 DEF Failed
<1>7. CASE r.correct
  <2>1. r["correct"] # FALSE
    BY <1>7
  <2>2. Failed(Append(rs, r)) = failed
    BY <1>9, <2>1
  <2> QED
    BY <1>1, <1>6, <1>7, <2>2 DEF FailureHistogram
<1>8. CASE ~r.correct
  <2>1. r["correct"] = FALSE /\ r["failure"] = r.failure
    BY <1>8 DEF GradedRows, Row
  <2>2. Failed(Append(rs, r)) = Append(failed, r)
    BY <1>9, <2>1
  <2>3. \A c \in FailureCategories :
          Chosen(Append(failed, r), "failure", c) =
            IF r.failure = c THEN Append(of[c], r) ELSE of[c]
    BY <1>2, <1>3, <2>1, ChosenOneMore
  <2>4. \A c \in FailureCategories :
          Len(Chosen(Append(failed, r), "failure", c)) =
            IF r.failure = c THEN Len(of[c]) + 1 ELSE Len(of[c])
    BY <1>4, <2>3
  <2>5. FailureHistogram(Append(rs, r)) =
          [c \in FailureCategories |-> IF r.failure = c THEN Len(of[c]) + 1 ELSE Len(of[c])]
    BY <2>2, <2>4 DEF FailureHistogram
  <2>6. PICK hist : hist = FailureHistogram(rs)
    OBVIOUS
  <2>7. DOMAIN hist = FailureCategories /\ \A c \in FailureCategories : hist[c] = Len(of[c])
    BY <1>5, <2>6
  <2>8. [hist EXCEPT ![r.failure] = @ + 1] =
          [c \in FailureCategories |-> IF r.failure = c THEN Len(of[c]) + 1 ELSE Len(of[c])]
    BY <1>5, <2>6, <2>7
  <2> QED
    BY <1>6, <1>8, <2>5, <2>6, <2>8
<1> QED
  BY <1>6, <1>7, <1>8

\* The categories sum up to the rows that are not correct.
LEMMA HistogramAddsUp ==
  \A rs \in Seq(GradedRows) : SumOver(FailureHistogram(rs)) = Len(rs) - Len(Correct(rs))
<1> DEFINE T == {rs \in Seq(GradedRows) :
                   SumOver(FailureHistogram(rs)) = Len(rs) - Len(Correct(rs))}
<1>1. <<>> \in T
  <2>1. Correct(<<>>) = <<>>
    BY ChosenNone DEF Correct
  <2>2. SumOver(FailureHistogram(<<>>)) = Len(<<>>) - Len(<<>>)
    BY HistogramNone
  <2> QED
    BY <2>1, <2>2
<1>2. ASSUME NEW rs \in Seq(GradedRows), NEW r \in GradedRows, rs \in T
      PROVE  Append(rs, r) \in T
  <2>1. PICK good : good = Correct(rs)
    OBVIOUS
  <2>2. good \in Seq(GradedRows)
    BY <2>1, ChosenStay DEF Correct
  <2>3. Append(rs, r) \in Seq(GradedRows) /\ Len(Append(rs, r)) = Len(rs) + 1
    OBVIOUS
  <2>4. PICK hist : hist = FailureHistogram(rs)
    OBVIOUS
  <2>5. hist \in [FailureCategories -> Nat] /\ SumOver(hist) = Len(rs) - Len(good)
    BY <1>2, <2>1, <2>4, HistogramOneMore
  <2>8. Correct(Append(rs, r)) = IF r["correct"] = TRUE THEN Append(good, r) ELSE good
    <3>1. PICK yes : yes = TRUE
      OBVIOUS
    <3>2. Chosen(Append(rs, r), "correct", yes) =
            IF r["correct"] = yes THEN Append(Chosen(rs, "correct", yes), r)
            ELSE Chosen(rs, "correct", yes)
      BY ChosenOneMore
    <3> QED
      BY <2>1, <3>1, <3>2 DEF Correct
  <2>9. Len(rs) \in Nat /\ Len(good) \in Nat
    BY <2>2
  <2>6. CASE r.correct
    <3>1. r["correct"] = TRUE
      BY <2>6 DEF GradedRows, Row
    <3>2. Correct(Append(rs, r)) = Append(good, r)
      BY <2>8, <3>1
    <3>3. FailureHistogram(Append(rs, r)) = hist
      BY <2>4, <2>6, HistogramOneMore
    <3>4. Len(Append(good, r)) = Len(good) + 1
      BY <2>2
    <3> QED
      BY <2>3, <2>5, <2>9, <3>2, <3>3, <3>4
  <2>7. CASE ~r.correct
    <3>1. r["correct"] # TRUE /\ r.failure \in FailureCategories
      BY <2>7 DEF GradedRows, Row
    <3>2. Correct(Append(rs, r)) = good
      BY <2>8, <3>1
    <3>3. FailureHistogram(Append(rs, r)) = [hist EXCEPT ![r.failure] = @ + 1]
      BY <2>4, <2>7, HistogramOneMore
    <3>4. SumOver(FailureHistogram(Append(rs, r))) = SumOver(hist) + 1
      BY <2>5, <3>1, <3>3, SumGrows
    <3> QED
      BY <2>3, <2>5, <2>9, <3>2, <3>4
  <2> QED
    BY <2>6, <2>7
<1> HIDE DEF T
<1>3. Seq(GradedRows) \subseteq T
  BY <1>1, <1>2, Choosing!AllSeqs
<1> QED
  BY <1>3 DEF T

\* The classifier changes no graded row.
LEMMA ReclassifyKeeps == \A rs \in Seq(GradedRows) : Reclassify(rs) = rs
<1> SUFFICES ASSUME NEW rs \in Seq(GradedRows) PROVE Reclassify(rs) = rs
  OBVIOUS
<1>1. ASSUME NEW i \in DOMAIN rs
      PROVE  [rs[i] EXCEPT !.failure = IF rs[i].correct THEN "none" ELSE @] = rs[i]
  <2>1. PICK r : r = rs[i]
    OBVIOUS
  <2>2. r \in GradedRows
    BY <2>1
  <2>3. [r EXCEPT !.failure = IF r.correct THEN "none" ELSE @] = r
    BY <2>2 DEF GradedRows, Row
  <2> QED
    BY <2>1, <2>3
<1>2. rs = [i \in DOMAIN rs |-> rs[i]]
  OBVIOUS
<1> QED
  BY <1>1, <1>2 DEF Reclassify

-------------------------------------------------------------------------------
\* The rows in memory and in the file are graded rows.
FileIsGraded == rows \in Seq(GradedRows) /\ file \in Seq(GradedRows)

LEMMA NextGraded ==
  ASSUME TypeOK, TypeOK', FileIsGraded, [Next]_vars
  PROVE  FileIsGraded'
<1>1. rows' \in Seq(GradedRows)
  <2>1. PICK rs : rs = rows'
    OBVIOUS
  <2>2. rs \in Seq(Row) /\ \A i \in DOMAIN rs : rs[i].correct <=> rs[i].failure = "none"
    BY <2>1 DEF TypeOK
  <2>3. rs \in Seq(GradedRows)
    BY <2>2 DEF GradedRows
  <2> QED
    BY <2>1, <2>3
<1>2. file' \in Seq(GradedRows)
  <2>1. ASSUME NEW n \in 0..MaxRows, EmitKilled(n) PROVE file' \in Seq(GradedRows)
    <3>1. n \in 0..Len(rows) /\ file' = SubSeq(rows, 1, n)
      BY <2>1 DEF EmitKilled
    <3> QED
      BY <3>1, Prefix DEF FileIsGraded
  <2>2. CASE DryRun
    BY <2>2 DEF DryRun
  <2>3. CASE UNCHANGED file
    BY <2>3 DEF FileIsGraded
  <2>4. CASE EmitResults
    BY <2>4 DEF EmitResults, FileIsGraded
  <2> QED
    BY <2>1, <2>2, <2>3, <2>4 DEF Next, Begin, Call, Finish, NextRun, vars
<1> QED
  BY <1>1, <1>2 DEF FileIsGraded

LEMMA FileGraded == Spec => []FileIsGraded
<1>1. Init => FileIsGraded
  BY DEF Init, FileIsGraded
<1>2. TypeOK /\ TypeOK' /\ FileIsGraded /\ [Next]_vars => FileIsGraded'
  BY NextGraded
<1> QED
  BY <1>1, <1>2, TypeCorrect, PTL DEF Spec

\* The taxonomy accounts for every failure in the file, and the classifier moves none.
THEOREM TaxonomyIsComplete == Spec => []TaxonomyAddsUp
<1>1. FileIsGraded => TaxonomyAddsUp
  <2> SUFFICES ASSUME FileIsGraded PROVE TaxonomyAddsUp
    OBVIOUS
  <2>1. ASSUME NEW rs \in {file, Of(file, "A"), Of(file, "B")}
        PROVE  /\ SumOver(FailureHistogram(rs)) = Len(rs) - Len(Correct(rs))
               /\ FailureHistogram(Reclassify(rs)) = FailureHistogram(rs)
    <3>1. rs \in Seq(GradedRows)
      BY ChosenStay DEF FileIsGraded, Of
    <3>2. Reclassify(rs) = rs
      BY <3>1, ReclassifyKeeps
    <3> QED
      BY <3>1, <3>2, HistogramAddsUp
  <2> QED
    BY <2>1 DEF TaxonomyAddsUp
<1> QED
  BY <1>1, FileGraded, PTL

-------------------------------------------------------------------------------
\* A category that no failed row has counts no row.
LEMMA UnnamedCountsNone ==
  ASSUME NEW rs \in Seq(GradedRows), NEW c,
         c \notin {rs[i].failure : i \in DOMAIN rs}
  PROVE  Len(Chosen(rs, "failure", c)) = 0
<1>1. PICK S : S = {rs[i] : i \in DOMAIN rs}
  OBVIOUS
<1>2. rs \in Seq(S)
  BY <1>1
<1>3. {r \in S : r["failure"] = c} = {}
  <2>1. ASSUME NEW r \in S PROVE r["failure"] # c
    <3>1. PICK i \in DOMAIN rs : r = rs[i]
      BY <1>1
    <3>2. r["failure"] = rs[i].failure
      BY <3>1 DEF GradedRows, Row
    <3> QED
      BY <3>2
  <2> QED
    BY <2>1
<1>4. PICK none : none = {}
  OBVIOUS
<1>5. Chosen(rs, "failure", c) \in Seq(none)
  BY <1>2, <1>3, <1>4, ChosenAre
<1> QED
  BY <1>4, <1>5

\* Rows that are correct are counted by a positive number.
LEMMA SomeAreCorrect ==
  ASSUME NEW rs \in Seq(GradedRows), Correct(rs) # <<>>
  PROVE  AtLeastOne(Len(Correct(rs))) = Len(Correct(rs))
<1>1. PICK good : good = Correct(rs)
  OBVIOUS
<1>2. good \in Seq(GradedRows) /\ good # <<>>
  BY <1>1, ChosenStay DEF Correct
<1>3. Len(good) # 0
  BY <1>2
<1> QED
  BY <1>1, <1>3 DEF AtLeastOne

\* The harness and the notebook publish the same numbers of any file that can be read.
THEOREM PublishedNumbers == Spec => []SummariesAgree
<1>1. FileIsGraded => SummariesAgree
  <2> SUFFICES ASSUME FileIsGraded, file # <<>> PROVE SummariesAgree
    BY DEF SummariesAgree
  <2>1. PICK rs \in Seq(GradedRows) : rs = file
    BY DEF FileIsGraded
  <2>2. PICK deg : deg = Under(rs, "degraded")
    OBVIOUS
  <2>3. PICK failed : failed = Failed(rs)
    OBVIOUS
  <2>4. deg \in Seq(GradedRows) /\ failed \in Seq(GradedRows)
    BY <2>2, <2>3, ChosenStay DEF Under, Failed
  <2>5. PICK s : s = Summarise(rs)
    OBVIOUS
  <2>6. /\ s.success_rate = <<Len(Correct(rs)), Len(rs)>>
        /\ s.cost_per_correct = <<TotalCost(rs), AtLeastOne(Len(Correct(rs)))>>
        /\ s.cost_per_correct_degraded =
             IF deg = <<>> THEN Nan ELSE <<TotalCost(deg), AtLeastOne(Len(Correct(deg)))>>
        /\ s.failures = [f \in {failed[i].failure : i \in DOMAIN failed} |->
                           Len(Chosen(failed, "failure", f))]
    BY <2>2, <2>3, <2>5 DEF Summarise
  <2>7. s.success_rate = SuccessRate(rs)
    BY <2>1, <2>6 DEF SuccessRate
  <2>8. ASSUME NEW c \in FailureCategories
        PROVE  FailureHistogram(rs)[c] = IF c \in DOMAIN s.failures THEN s.failures[c] ELSE 0
    <3>1. FailureHistogram(rs)[c] = Len(Chosen(failed, "failure", c))
      BY <2>3 DEF FailureHistogram
    <3>2. CASE c \in {failed[i].failure : i \in DOMAIN failed}
      BY <2>6, <3>1, <3>2
    <3>3. CASE c \notin {failed[i].failure : i \in DOMAIN failed}
      BY <2>4, <2>6, <3>1, <3>3, UnnamedCountsNone
    <3> QED
      BY <3>2, <3>3
  <2>10. Correct(rs) # <<>> => s.cost_per_correct = CostPerCorrect(rs)
    BY <2>6, SomeAreCorrect DEF CostPerCorrect
  <2>11. ASSUME Correct(deg) # <<>>
         PROVE  /\ s.cost_per_correct_degraded = CostPerCorrect(deg)
                /\ CostPerCorrect(deg) # Nan
    <3>1. deg # <<>>
      <4>1. Correct(<<>>) = <<>>
        BY ChosenNone DEF Correct
      <4> QED
        BY <2>11, <4>1
    <3>2. CostPerCorrect(deg) = <<TotalCost(deg), Len(Correct(deg))>>
      BY <2>11 DEF CostPerCorrect
    <3>3. CostPerCorrect(deg) # Nan
      BY <3>2 DEF Nan
    <3> QED
      BY <2>4, <2>6, <2>11, <3>1, <3>2, <3>3, SomeAreCorrect
  <2>12. ASSUME Correct(deg) # <<>>, NEW v \in Variants, deg = Of(deg, v)
         PROVE  CostBar(rs, v, "degraded") = s.cost_per_correct_degraded
    <3>1. Under(Of(rs, v), "degraded") = deg
      BY <2>2, <2>12, ChoicesCommute DEF Under, Of
    <3> QED
      BY <2>11, <2>12, <3>1 DEF CostBar
  <2>13. CostPerCorrectDegraded(rs) = CostPerCorrect(deg)
    BY <2>2 DEF CostPerCorrectDegraded
  <2> QED
    BY <2>1, <2>2, <2>5, <2>7, <2>8, <2>10, <2>11, <2>12, <2>13 DEF SummariesAgree
<1> QED
  BY <1>1, FileGraded, PTL
===============================================================================
