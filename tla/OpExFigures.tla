---------------------------- MODULE OpExFigures -----------------------------
(***************************************************************************)
(* The lines of operating expense: what forms put into them, and what the  *)
(* calculation makes of them.  The amounts by month that the P&L reads are *)
(* rows of a table of their own, written by forms and, for lines that take *)
(* a share of revenue, by the calculation.                                 *)
(***************************************************************************)
EXTENDS Amounts, FiniteSets

CONSTANTS
  LineNames,    \* lines the version may have
  Unset,        \* a column or row without a value
  SectionOf,    \* line -> section
  CategoryOf,   \* line -> IFRS category
  OpExAmounts,  \* amounts a form may hold
  OpExRates,    \* rates a form may hold
  LineForms,    \* lines a form may hold
  FormMonths,   \* months a form changes
  ActiveForms   \* sets of months a form may hold; {} is the whole year

VARIABLES
  lines,     \* VersionOpExLineItem by name
  monthly,   \* MonthlyOpEx: monthly[l][m], or Unset
  answered   \* totals by section the last calculation answered with

opex == <<lines, monthly, answered>>

Modes == {"FLAT", "SEASONAL", "ANNUAL_SPREAD", "PERCENT_OF_REVENUE"}
NoRows == [m \in Months |-> Unset]
ValueOr(x, default) == IF x = Unset THEN default ELSE x

-----------------------------------------------------------------------------
(* Amounts by month.                                                       *)

ActiveMonths(l) == IF lines[l].active = {} THEN Months ELSE lines[l].active
StoredAmount(l, m) == ValueOr(monthly[l][m], 0)

\* The last active month takes what rounding the others leaves.
SpreadOver(l, m) ==
  LET total == ValueOr(lines[l].annual, 0)
      n == Cardinality(ActiveMonths(l))
      part == HalfUp(total, n)
  IN IF m = Max(ActiveMonths(l)) THEN total - part * (n - 1) ELSE part

Resolved(l, m, revenue) ==
  IF lines[l].mode = "PERCENT_OF_REVENUE"
  THEN HalfUp(revenue[m] * ValueOr(lines[l].rate, 0), One)
  ELSE IF m \notin ActiveMonths(l) THEN 0
  ELSE CASE lines[l].mode = "FLAT" /\ m \notin lines[l].custom -> ValueOr(lines[l].flat, 0)
         [] lines[l].mode = "ANNUAL_SPREAD" -> SpreadOver(l, m)
         [] OTHER -> StoredAmount(l, m)

SectionTotal(section, revenue) ==
  SumOver([l \in DOMAIN lines |-> SumOver([m \in Months |-> Resolved(l, m, revenue)], Months)],
      {l \in DOMAIN lines : SectionOf[l] = section})

\* Lines whose amounts the calculation stores.
FromRevenue == {l \in DOMAIN lines : lines[l].mode = "PERCENT_OF_REVENUE" /\ lines[l].rate # Unset}

\* Only the shares of revenue are stored; the other amounts resolved serve
\* the answer.
ComputeOpEx(revenue) ==
  /\ monthly' = [l \in DOMAIN lines |->
       IF l \in FromRevenue THEN [m \in Months |-> Resolved(l, m, revenue)] ELSE monthly[l]]
  /\ answered' = [s \in {"OPERATING", "NON_OPERATING"} |-> SectionTotal(s, revenue)]
  /\ UNCHANGED lines

-----------------------------------------------------------------------------
(* The forms.                                                              *)

\* What a form that leaves everything out asks for.
Defaults ==
  [mode |-> "SEASONAL", active |-> {}, annual |-> Unset, flat |-> Unset,
   custom |-> {}, rate |-> Unset]

WithLine(l, form) ==
  /\ lines' = [k \in DOMAIN lines \cup {l} |-> IF k = l THEN form ELSE lines[k]]
  /\ monthly' = [k \in DOMAIN lines \cup {l} |->
                   IF k \in DOMAIN lines THEN monthly[k] ELSE NoRows]
  /\ UNCHANGED answered

\* A line is created, or replaced as a whole.
PutLine == \E l \in LineNames, form \in LineForms : WithLine(l, form)

\* The page saves a comment as a line of which it sends the texts and the
\* amounts by month only.
SaveComment == \E l \in DOMAIN lines : WithLine(l, Defaults)

PutMonth ==
  /\ \E l \in DOMAIN lines, m \in FormMonths, a \in OpExAmounts :
       monthly' = [monthly EXCEPT ![l][m] = a]
  /\ UNCHANGED <<lines, answered>>

\* A change of one column.
PatchLine ==
  /\ \E l \in DOMAIN lines :
       \/ \E mode \in Modes : lines' = [lines EXCEPT ![l].mode = mode]
       \/ \E set \in ActiveForms : lines' = [lines EXCEPT ![l].active = set]
       \/ \E a \in OpExAmounts :
            \/ lines' = [lines EXCEPT ![l].flat = a]
            \/ lines' = [lines EXCEPT ![l].annual = a]
  /\ UNCHANGED <<monthly, answered>>

\* A change that marks nothing: names and categories are left out here.
PatchUnmarked ==
  /\ \E l \in DOMAIN lines :
       \/ \E rate \in OpExRates : lines' = [lines EXCEPT ![l].rate = rate]
       \/ \E set \in SUBSET FormMonths : lines' = [lines EXCEPT ![l].custom = set]
  /\ UNCHANGED <<monthly, answered>>

\* Its rows go with it.
DeleteLine ==
  /\ \E l \in DOMAIN lines :
       /\ lines' = [k \in DOMAIN lines \ {l} |-> lines[k]]
       /\ monthly' = [k \in DOMAIN lines \ {l} |-> monthly[k]]
  /\ UNCHANGED answered

EditOpEx == PutLine \/ SaveComment \/ PutMonth \/ PatchLine \/ DeleteLine
=============================================================================
