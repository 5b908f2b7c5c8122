----------------------------- MODULE PnlFigures -----------------------------
(***************************************************************************)
(* The profit and loss account of a version, made from the rows the other  *)
(* calculations have stored: for every month the lines, the subtotals they *)
(* are shown under, and the summary the dashboard reads.  Headers and      *)
(* separators, which hold no amount, are left out.                         *)
(***************************************************************************)
EXTENDS RevenueFigures, StaffFigures, OpExFigures

CONSTANT KeyOf(_)  \* safeKey: what is left of a name as a key

VARIABLES
  booked,   \* rows of revenue: those of Revenue, or None
  payroll,  \* rows of staff: those of StaffCost, or None
  pnl       \* the account, or None

statements == <<booked, payroll, pnl>>

-----------------------------------------------------------------------------
(* What there is in a month of the tables.                                 *)

AmountIn(share, m) == IF m \in DOMAIN share THEN share[m] ELSE 0
NetIn(m) == [c \in DOMAIN booked.tuition |-> AmountIn(booked.tuition[c].net, m)]
NetTuition(cells, m) == SumOver(NetIn(m), cells)
TuitionCells == DOMAIN booked.tuition
AmountOf(rows) == SumOver([r \in rows |-> r.amount], rows)
InMonth(rows, m) == {r \in rows : r.month = m}

ShownCategories == {"REGISTRATION_FEES", "ACTIVITIES_SERVICES", "EXAMINATION_FEES"}
Shown(category) == {r \in booked.other : r.executive = category}
\* No form offers this category of other revenue.
Rent == {r \in booked.other : r.category = "Rental Income"}

Existing == {e \in DOMAIN payroll.pay : e.status # "New"}
New == DOMAIN payroll.pay \ Existing
PayIn(group, m, Part(_)) == SumOver([e \in group |-> Part(payroll.pay[e][m])], group)
CategoriesIn(m) ==
  SumOver([c \in DOMAIN payroll.byCategory |-> payroll.byCategory[c][m]], DOMAIN payroll.byCategory)
BasePay(row) == row.gross - row.housing - row.transport - row.premium - row.hsa
\* Mutant: what new staff costs is taken with the charges, which are shown
\* for everybody below.
NewPayWithCharges(row) == row.total
NewPay(row) == row.gross

Special == {"Depreciation", "Impairment"}
Finance == {"Finance Income", "Finance Costs"}
OperatingLines == {l \in DOMAIN lines : SectionOf[l] = "OPERATING" /\ CategoryOf[l] \notin Special}
LinesOf(category) == {l \in DOMAIN lines : CategoryOf[l] = category}
SpentOn(set, m) == SumOver([l \in DOMAIN lines |-> StoredAmount(l, m)], set)

-----------------------------------------------------------------------------
(* Lines of a month, by section, category and name.                        *)

Line(section, category, name, amount) ==
  [section |-> section, category |-> category, name |-> name, amount |-> amount]

TuitionLines(m) ==
  {Line("REVENUE_CONTRACTS", "TUITION_FEES", <<"Tuition", g>>,
        NetTuition({c \in TuitionCells : c[2] = g}, m)) :
     g \in {c[2] : c \in TuitionCells}}

\* A line for every name that has a row in some month.
Named(section, category, rows, m) ==
  {Line(section, category, n, AmountOf({r \in rows : r.month = m /\ r.name = n})) :
     n \in {r.name : r \in rows}}
OtherLines(m) ==
  Named("RENTAL_INCOME", "RENTAL_INCOME", Rent, m) \cup
  UNION {Named("REVENUE_CONTRACTS", x, Shown(x), m) : x \in ShownCategories}

PayLine(name, amount) == Line("STAFF_COSTS", "LOCAL_SALARIES", <<name>>, amount)
ChargeLine(name, amount) == Line("STAFF_COSTS", "EMPLOYER_CHARGES", <<name>>, amount)
StaffLines(m) ==
  {PayLine("BASE_SALARIES", PayIn(Existing, m, BasePay)),
   PayLine("HOUSING", PayIn(Existing, m, LAMBDA r : r.housing)),
   PayLine("TRANSPORT", PayIn(Existing, m, LAMBDA r : r.transport)),
   PayLine("RESPONSIBILITY", PayIn(Existing, m, LAMBDA r : r.premium)),
   PayLine("HSA", PayIn(Existing, m, LAMBDA r : r.hsa)),
   PayLine("NEW_POSITIONS", PayIn(New, m, NewPay)),
   ChargeLine("GOSI", PayIn(Existing \cup New, m, LAMBDA r : r.gosi)),
   ChargeLine("EOS", PayIn(Existing \cup New, m, LAMBDA r : r.award)),
   ChargeLine("AJEER_EXISTING", PayIn(Existing, m, LAMBDA r : r.ajeer)),
   ChargeLine("AJEER_NEW", PayIn(New, m, LAMBDA r : r.ajeer))}
  \cup {Line("STAFF_COSTS", "ADDITIONAL_COSTS", <<c>>, payroll.byCategory[c][m]) :
          c \in DOMAIN payroll.byCategory}

\* A line of expense that has a row in some month.
HasRows(l) == \E m \in Months : monthly[l][m] # Unset
OpExLines(section, set, m) ==
  {Line(section, CategoryOf[l], <<l>>, StoredAmount(l, m)) : l \in {k \in set : HasRows(k)}}
ExpenseLines(m) ==
  OpExLines("OTHER_OPEX", OperatingLines, m)
  \cup UNION {OpExLines(x, LinesOf(x), m) : x \in Special \cup Finance}

LinesIn(m) == TuitionLines(m) \cup OtherLines(m) \cup StaffLines(m) \cup ExpenseLines(m)

\* A section and category hold one line of a key; to store two is an error.
KeysDiffer(set) ==
  Cardinality({<<l.section, l.category, KeyOf(l.name)>> : l \in set}) = Cardinality(set)

-----------------------------------------------------------------------------
(* Subtotals, taken from the tables and not from the lines.                *)

TotalRevenue(m) ==
  NetTuition(TuitionCells, m) + AmountOf(InMonth(Rent, m))
  + SumOver([x \in ShownCategories |-> AmountOf(InMonth(Shown(x), m))], ShownCategories)
StaffTotal(m) == AmountOf(StaffLines(m))
FinanceNet(m) == SpentOn(LinesOf("Finance Income"), m) - SpentOn(LinesOf("Finance Costs"), m)
OperatingProfit(m) ==
  TotalRevenue(m) - StaffTotal(m) - SpentOn(OperatingLines, m)
  - SpentOn(LinesOf("Depreciation"), m) - SpentOn(LinesOf("Impairment"), m)
BeforeZakat(m) == OperatingProfit(m) + FinanceNet(m)

\* A fortieth of a profit, month by month; it and what is left are rounded
\* each by itself.
Summary(m) ==
  [revenue |-> TotalRevenue(m), staff |-> StaffTotal(m),
   opex |-> SpentOn(OperatingLines, m), finance |-> FinanceNet(m),
   operating |-> OperatingProfit(m), beforeZakat |-> BeforeZakat(m),
   zakat |-> IF BeforeZakat(m) > 0 THEN HalfUp(BeforeZakat(m), 40) ELSE 0,
   net |-> IF BeforeZakat(m) > 0 THEN HalfUp(39 * BeforeZakat(m), 40) ELSE BeforeZakat(m)]

Pnl == [m \in Months |-> [lines |-> LinesIn(m), summary |-> Summary(m)]]
=============================================================================
