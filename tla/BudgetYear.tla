----------------------------- MODULE BudgetYear -----------------------------
(***************************************************************************)
(* A draft version in figures: forms change enrollment, prices, staff and  *)
(* expenses; calculations, in the order the stale modules allow, turn them *)
(* into amounts by month and at last into the profit and loss account.     *)
(* CalcPipeline says when figures are up to date, this module what they    *)
(* are and what must hold of them.                                         *)
(***************************************************************************)
EXTENDS PnlFigures

CONSTANTS
  FeeForms,       \* fees sent along: parts of a fee grid
  ItemForms,      \* items of other revenue sent along
  SettingForms,   \* revenue settings a form may hold
  People,         \* employees as a form may enter them
  CategoryForms,  \* cost assumptions a form may hold
  TermForms,      \* staffing settings a form may hold
  GroupForms,     \* groups of the lycee a form may hold
  ProfileForms,   \* service profiles as a form may override them
  Starts          \* what a version may start with, besides its pupils

-----------------------------------------------------------------------------
(* What the forms let through.                                             *)

FeeGrid(f) ==
  DOMAIN f \subseteq Cells /\ \A c \in DOMAIN f : f[c].tuition \in Int /\ f[c].dai \in Int

Distributed(i) ==
  \/ i.method \in {"ACADEMIC_10", "YEAR_ROUND_12"}
  \/ /\ i.method = "CUSTOM_WEIGHTS"
     /\ i.weights \in [Months -> Int] /\ SumOver(i.weights, Months) > 0
  \/ i.method = "SPECIFIC_PERIOD" /\ i.months \in Seq(Months) \ {<<>>}
NamesDiffer(f) == \A i, j \in f : i.name = j.name => i = j
ItemList(f) ==
  /\ IsFiniteSet(f)
  /\ \A i \in f :
       /\ i.annual \in Int /\ Distributed(i)
       /\ i.name \notin DerivedNames /\ i.category # "Rental Income"

Setting(s) ==
  /\ s.dpi \in Int /\ s.dossier \in Int /\ s.primary \in Int /\ s.secondary \in Int
  /\ s.flatDiscount \in Int /\ \A x \in DOMAIN ExamGrade : s.exam[x] \in Int

Employee(e) ==
  /\ e.salary \in Int /\ e.housing \in Int /\ e.transport \in Int /\ e.premium \in Int
  /\ e.augmentation \in Int /\ e.hired.month \in Int /\ e.hired.day \in Int
CostList(f) == IsFiniteSet(f) /\ \A c \in f : c.value \in Int
Term(t) == t.ajeer \in Int /\ t.first \in Int /\ t.additional \in Int /\ t.target \in Int
GroupList(f) == \A k \in DOMAIN f : f[k].count \in Int /\ f[k].hours \in Int
\* Every profile of a rule that counts hours has some.
ProfileList(f) ==
  \A i \in DOMAIN TeachingRules :
    TeachingRules[i].driver # "SECTION" =>
      f[TeachingRules[i].profile].weeklyHours \in Nat \ {0}

Cell == Int \cup {Unset}
ExpenseLine ==
  [mode : Modes, active : SUBSET Months, annual : Cell, flat : Cell,
   custom : SUBSET Months, rate : Cell]
ExpenseTable(l, rows) ==
  /\ IsFiniteSet(DOMAIN l) /\ DOMAIN l \subseteq LineNames
  /\ l \in [DOMAIN l -> ExpenseLine] /\ rows \in [DOMAIN l -> [Months -> Cell]]

ASSUME RatesAssumption ==
  /\ Vat \in Int /\ Gosi \in Int
  /\ Primary \subseteq Grades /\ Secondary \subseteq Grades
  /\ IsFiniteSet(DOMAIN ExamGrade) /\ \A x \in DOMAIN ExamGrade : ExamGrade[x] \in Grades
  /\ IsFiniteSet(DOMAIN TeachingRules) /\ DOMAIN TeachingRules \subseteq Nat
  /\ \A i \in DOMAIN TeachingRules :
       TeachingRules[i].grade \in Grades /\ TeachingRules[i].hours \in Int
  /\ None \notin ShownCategories

ASSUME FormsAssumption ==
  /\ \A f \in FeeForms : FeeGrid(f)
  /\ \A f \in ItemForms : ItemList(f)
  /\ \A f \in SettingForms : Setting(f)
  /\ \A e \in People : Employee(e)
  /\ \A f \in CategoryForms : CostList(f)
  /\ \A f \in TermForms : Term(f)
  /\ \A f \in GroupForms : GroupList(f)
  /\ \A f \in ProfileForms : ProfileList(f)
  /\ OpExAmounts \subseteq Cell /\ OpExRates \subseteq Cell /\ LineForms \subseteq ExpenseLine
  /\ FormMonths \subseteq Months /\ ActiveForms \subseteq SUBSET Months
  /\ \A s \in Starts :
       /\ FeeGrid(s.fees) /\ ItemList(s.items) /\ NamesDiffer(s.items) /\ Setting(s.settings)
       /\ IsFiniteSet(s.staff) /\ \A e \in s.staff : Employee(e)
       /\ CostList(s.categories) /\ Term(s.terms) /\ GroupList(s.groups)
       /\ ProfileList(s.profiles) /\ ExpenseTable(s.lines, s.monthly)

-----------------------------------------------------------------------------
budget == <<enrollmentVars, pricing, staffing, opex, statements>>

Modules == {"ENROLLMENT", "REVENUE", "STAFFING", "OPEX", "PNL"}

-----------------------------------------------------------------------------
(* Forms.                                                                  *)

PricesMarks == {"REVENUE", "OPEX", "PNL"}

\* Fees sent along are added or changed; a calculation finds out whether
\* they agree with those that were there.
PutFees ==
  /\ \E f \in FeeForms :
       fees' = [c \in DOMAIN fees \cup DOMAIN f |-> IF c \in DOMAIN f THEN f[c] ELSE fees[c]]
  /\ Sent(PricesMarks)
  /\ UNCHANGED <<enrollment, items, settings, staffing, opex, statements>>

\* Items sent along have names of their own and are added or changed; no
\* form removes one.
PutItems ==
  /\ \E f \in ItemForms :
       /\ NamesDiffer(f)
       /\ items' = {i \in items : \A j \in f : i.name # j.name} \cup f
  /\ Sent(PricesMarks)
  /\ UNCHANGED <<enrollment, fees, settings, staffing, opex, statements>>

EditSettings ==
  /\ settings' \in SettingForms
  /\ Sent({"REVENUE", "PNL"})
  /\ UNCHANGED <<enrollment, fees, items, staffing, opex, statements>>

\* Whatever the staffing forms change, the account keeps its mark as it is.
StaffSent == Sent({"STAFFING"}) /\ UNCHANGED <<enrollment, pricing, opex, booked, pnl>>
SettingSent == StaffSent /\ UNCHANGED <<staff, payroll>>

CreateEmployee ==
  /\ \E p \in People : (\A e \in staff : e.id # p.id) /\ staff' = staff \cup {p}
  /\ StaffSent /\ UNCHANGED <<categories, terms, groups, profiles, payroll>>

UpdateEmployee ==
  /\ \E e \in staff, p \in People : e.id = p.id /\ staff' = (staff \ {e}) \cup {p}
  /\ StaffSent /\ UNCHANGED <<categories, terms, groups, profiles, payroll>>

\* The rows of what an employee cost go with him.
DeleteEmployee ==
  /\ \E e \in staff :
       /\ staff' = staff \ {e}
       /\ payroll' = IF payroll = None THEN None
                     ELSE [pay |-> Restrict(payroll.pay, {x \in DOMAIN payroll.pay : x.id # e.id}),
                           byCategory |-> payroll.byCategory]
  /\ StaffSent /\ UNCHANGED <<categories, terms, groups, profiles>>

\* Rows of a form of settings are replaced by those sent.
PutCategories ==
  categories' \in CategoryForms /\ UNCHANGED <<terms, groups, profiles>> /\ SettingSent
PutTerms ==
  terms' \in TermForms /\ UNCHANGED <<categories, groups, profiles>> /\ SettingSent
PutGroups ==
  groups' \in GroupForms /\ UNCHANGED <<categories, terms, profiles>> /\ SettingSent
PutProfiles ==
  profiles' \in ProfileForms /\ UNCHANGED <<categories, terms, groups>> /\ SettingSent

EditExpenses ==
  /\ EditOpEx
  /\ Sent({"OPEX", "PNL"})
  /\ UNCHANGED <<enrollment, pricing, staffing, statements>>

EditExpensesUnmarked ==
  /\ PatchUnmarked
  /\ Sent({})
  /\ UNCHANGED <<enrollment, pricing, staffing, statements>>

EditPupils == EditEnrollment /\ UNCHANGED <<pricing, staffing, opex, statements>>

-----------------------------------------------------------------------------
(* Calculations.                                                           *)

Clean(modules) == modules \cap stale = {}

\* It removes its own mark; the marks of what depends on it are there
\* already, left by the forms.
Pupils == CalculateEnrollment /\ UNCHANGED <<pricing, staffing, opex, statements>>

\* Mutant: revenue removes its own mark and leaves that of staffing as it is.
CalculateRevenueAlone ==
  /\ Clean({"ENROLLMENT"}) /\ Derivable
  /\ booked' = Revenue
  /\ stale' = (stale \ {"REVENUE"}) \cup {"OPEX", "PNL"}
  /\ UNCHANGED <<enrollment, edits, pricing, staffing, opex, payroll, pnl>>
CalculateRevenue ==
  /\ Clean({"ENROLLMENT"}) /\ Derivable
  /\ booked' = Revenue
  /\ stale' = (stale \ {"REVENUE"}) \cup {"STAFFING", "OPEX", "PNL"}
  /\ UNCHANGED <<enrollment, edits, pricing, staffing, opex, payroll, pnl>>

CalculateStaffing ==
  /\ StaffKnown
  /\ payroll' = StaffCost
  /\ stale' = (stale \ {"STAFFING"}) \cup {"PNL"}
  /\ UNCHANGED <<enrollment, edits, pricing, staffing, opex, booked, pnl>>

MonthlyRevenue ==
  [m \in Months |-> NetTuition(TuitionCells, m) + AmountOf(InMonth(booked.other, m))]

CalculateOpEx ==
  /\ Clean({"REVENUE"})
  /\ ComputeOpEx(MonthlyRevenue)
  /\ stale' = (stale \ {"OPEX"}) \cup {"PNL"}
  /\ UNCHANGED <<enrollment, edits, pricing, staffing, statements>>

CalculatePnl ==
  /\ Clean({"REVENUE", "STAFFING", "OPEX"})
  /\ \A m \in Months : KeysDiffer(LinesIn(m))
  /\ pnl' = Pnl
  /\ stale' = stale \ {"PNL"}
  /\ UNCHANGED <<enrollment, edits, pricing, staffing, opex, booked, payroll>>

-----------------------------------------------------------------------------
Init ==
  /\ EnrollmentInit
  /\ stale = Modules
  /\ \E s \in Starts :
       /\ fees = s.fees /\ items = s.items /\ settings = s.settings
       /\ staff = s.staff /\ categories = s.categories
       /\ terms = s.terms /\ groups = s.groups /\ profiles = s.profiles
       /\ lines = s.lines /\ monthly = s.monthly
  /\ answered = [s \in {"OPERATING", "NON_OPERATING"} |-> 0]
  /\ booked = None /\ payroll = None /\ pnl = None

Next ==
  \/ EditPupils \/ PutFees \/ PutItems \/ EditSettings
  \/ CreateEmployee \/ UpdateEmployee \/ DeleteEmployee
  \/ PutCategories \/ PutTerms \/ PutGroups \/ PutProfiles
  \/ EditExpenses \/ EditExpensesUnmarked
  \/ Pupils \/ CalculateRevenue \/ CalculateStaffing \/ CalculateOpEx \/ CalculatePnl

Spec == Init /\ [][Next]_budget

-----------------------------------------------------------------------------
(* Properties.                                                             *)

\* The pupils of a grade who are not new are shared out among nationalities
\* so that none keeps more than it has and all together are as many as the
\* cohort retains, whatever rounding and caps did to the shares.
NewPupilsAddUp ==
  Derivable =>
    \A g \in Grades \ {PS} :
      LET stay == StayersOf(g)  now == DetailHeads("AY2", g) IN
      /\ \A n \in Nationalities : 0 <= stay[n] /\ stay[n] <= now[n]
      /\ Heads(stay) = Stayers(g)

\* Booked revenue adds up: an item brings its annual amount over the year,
\* unless its months list one twice or rows of two items share a name; net
\* tuition of a cell is gross less discount within one unit of rounding.
ItemRows(i) == {r \in booked.other : r.name = i.name}
Billable(i) == i.method = "SPECIFIC_PERIOD" => IsInjective(i.months)
RevenueAddsUp ==
  "REVENUE" \notin stale =>
    /\ \A i \in items \cup DerivedItems : Billable(i) => AmountOf(ItemRows(i)) = i.annual
    /\ \A c \in TuitionCells :
         LET year(part) == SumOver(part, DOMAIN part)
             t == booked.tuition[c]
             rest == year(t.gross) - year(t.discount) - year(t.net)
         IN -1 <= rest /\ rest <= 1

\* An account shown up to date, what staff costs included, is made of the
\* amounts the tables hold, each of them once:
\* what is left before zakat is the revenue that has an executive category,
\* less the full cost of staff (within two units for what rounding does to
\* the parts of a row), less every line of expense, finance income added.
\* The one exception is lines whose category does not fit their section,
\* which nothing but a change of the category refuses: an operating line of
\* finance is deducted twice, any other line of a category the account does
\* not know not at all.
\* Lines add up to the subtotals, and zakat and net profit to the profit.
ShownRevenue(m) ==
  NetTuition(TuitionCells, m) + AmountOf({r \in InMonth(booked.other, m) : r.executive # None})
FullStaffCost(m) ==
  PayIn(DOMAIN payroll.pay, m, LAMBDA r : r.total)
  + CategoriesIn(m)
FullExpense(m) ==
  SumOver([l \in DOMAIN lines |->
         IF CategoryOf[l] = "Finance Income" THEN -StoredAmount(l, m) ELSE StoredAmount(l, m)],
      DOMAIN lines)
DeductedTwice ==
  {l \in DOMAIN lines : SectionOf[l] = "OPERATING" /\ CategoryOf[l] \in Finance}
InNoLine ==
  {l \in DOMAIN lines : SectionOf[l] # "OPERATING" /\ CategoryOf[l] \notin Special \cup Finance}
Deducted(m) == FullExpense(m) + SpentOn(DeductedTwice, m) - SpentOn(InNoLine, m)
LineTotal(m, sections) ==
  AmountOf({l \in pnl[m].lines : l.section \in sections})
AccountAddsUp ==
  Clean({"STAFFING", "PNL"}) =>
    \A m \in Months :
      LET s == pnl[m].summary
          off == s.beforeZakat - (ShownRevenue(m) - FullStaffCost(m) - Deducted(m))
          slack == 2 * Cardinality(DOMAIN payroll.pay)
          taken == s.zakat + s.net - s.beforeZakat
      IN /\ -slack <= off /\ off <= slack
         /\ 0 <= taken /\ taken <= 1
         /\ s.revenue = LineTotal(m, {"REVENUE_CONTRACTS", "RENTAL_INCOME"})
         /\ s.staff = LineTotal(m, {"STAFF_COSTS"})
         /\ s.operating = s.revenue - s.staff - LineTotal(m, {"OTHER_OPEX"} \cup Special)
         /\ s.finance = LineTotal(m, {"Finance Income"}) - LineTotal(m, {"Finance Costs"})

\* Calculations read what others and forms have stored, and each module has
\* but one mark: with none of those of pupils, prices, staff and account
\* set, to calculate any of them again would store what is stored, in
\* whatever order forms and calculations came, refused ones included.
CleanBudgetIsCurrent ==
  /\ EnrollmentIsStable
  /\ "REVENUE" \notin stale => booked = Revenue
  /\ Clean({"REVENUE", "STAFFING"}) => payroll = StaffCost
  /\ Clean({"STAFFING", "PNL"}) => pnl = Pnl
=============================================================================
