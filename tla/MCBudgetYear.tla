---------------------------- MODULE MCBudgetYear ----------------------------
(***************************************************************************)
(* An instance of BudgetYear for TLC: three grades, two tariffs, rates in  *)
(* twentieths.  A new version and a clone with its detail; numbers chosen  *)
(* so that shares, halves and caps occur.                                  *)
(***************************************************************************)
EXTENDS BudgetYear, TLC

MCFallback == [n \in Nationalities |->
  CASE n = "Francais" -> 7 [] n = "Nationaux" -> 9 [] OTHER -> 4]
Split(f, n, a) == [m \in Nationalities |->
  CASE m = "Francais" -> f [] m = "Nationaux" -> n [] OTHER -> a]

CappedRules == [threshold |-> 21, retentionWeight |-> 12, targetWeight |-> 12]
OpenRules == [threshold |-> 25, retentionWeight |-> 20, targetWeight |-> 8]
MCRules == {CappedRules, OpenRules}

NewDraft ==
  [history |-> [k \in {} |-> <<None, None, None>>], ay1 |-> <<5, 7, 0>>,
   split1 |-> <<None, None, None>>, room |-> 3, rules |-> CappedRules,
   detail |-> [c \in {} |-> 0]]
ClonedDetail ==
  [c \in Cells |->
     CASE c[1] = "AY1" /\ c[4] = "Plein" -> IF c[3] = "Francais" THEN 3 ELSE 2
       [] c[1] = "AY2" /\ c[4] = "Plein" -> IF c[3] = "Francais" THEN 1 ELSE 3
       [] c[4] = "RP" /\ c[3] = "Autres" -> 1
       [] OTHER -> 0]
ClonedDraft ==
  [history |-> <<<<6, 8, None>>, <<7, 6, 5>>, <<None, 5, 4>>, <<6, 5, 4>>>>,
   ay1 |-> <<8, 8, 8>>,
   split1 |-> <<[heads |-> Split(3, 3, 2), weights |-> Split(8, 7, 5)],
                [heads |-> Split(0, 0, 0), weights |-> Split(0, 0, 0)], None>>,
   room |-> 3, rules |-> OpenRules, detail |-> ClonedDetail]

MCDrafts == {NewDraft, ClonedDraft}
MCAcademy == <<"Academy", "1">>
MCActive == {{}, {2, 3}}
AllScopes == {Years \X Grades, {<<"AY2", 2>>}}

Fees ==
  [c \in {x \in Cells : x[2] # 3 \/ x[4] = "Plein"} |->
     [tuition |-> IF c[4] = "Plein" THEN 1003 + c[2] ELSE 750, dai |-> 31]]
ManualItems ==
  {[name |-> <<"Bus", "1">>, annual |-> 101, category |-> "Activities & Services",
    method |-> "ACADEMIC_10", months |-> <<>>, weights |-> <<>>],
   [name |-> <<"Photos", "1">>, annual |-> 47, category |-> "Other Revenue",
    method |-> "CUSTOM_WEIGHTS", months |-> <<>>,
    weights |-> <<0, 3, 3, 0, 0, 0, 0, 0, 1, 0, 0, 0>>],
   [name |-> <<"Academy", "1">>, annual |-> 50, category |-> "Activities & Services",
    method |-> "YEAR_ROUND_12", months |-> <<>>, weights |-> <<>>]}
TwiceListed ==
  {[name |-> <<"Trip", "1">>, annual |-> 9, category |-> "Activities & Services",
    method |-> "SPECIFIC_PERIOD", months |-> <<4, 4, 5>>, weights |-> <<>>]}
MCItems == {ManualItems, TwiceListed}
DearerGrade ==
  [c \in {x \in Cells : x[1] = "AY2" /\ x[2] = 3 /\ x[3] = "Nationaux"} |->
     [tuition |-> 1201, dai |-> 31]]
MCFees == {Fees, DearerGrade}
MCSetting(flat) ==
  [dpi |-> 21, dossier |-> 11, exam |-> [x \in {"BAC", "DNB"} |-> 13], primary |-> 3,
   secondary |-> 5, flatDiscount |-> flat]
MCSettings == {MCSetting(0), MCSetting(1)}
MCExam == [x \in {"BAC", "DNB"} |-> IF x = "BAC" THEN 3 ELSE 2]

Person(id, status, mode, saudi, ajeer, salary, month) ==
  [id |-> id, status |-> status, costMode |-> mode, teaching |-> id = 1, saudi |-> saudi,
   ajeer |-> ajeer, salary |-> salary, housing |-> 11, transport |-> 3, premium |-> 1,
   augmentation |-> 1, profile |-> IF id = 1 THEN "PE" ELSE None,
   hired |-> [month |-> month, day |-> IF id = 2 THEN 30 ELSE 16]]
FullStaff ==
  {Person(1, "Existing", "LOCAL_PAYROLL", TRUE, FALSE, 47, -60),
   Person(2, "New", "LOCAL_PAYROLL", FALSE, TRUE, 33, 8)}
MixedStaff ==
  {Person(1, "New", "LOCAL_PAYROLL", FALSE, TRUE, 47, 3),
   Person(2, "Existing", "AEFE_RECHARGE", FALSE, TRUE, 33, -20),
   Person(3, "Existing", "NO_LOCAL_COST", FALSE, TRUE, 33, -20)}
MCPeople ==
  {Person(2, "Departed", "LOCAL_PAYROLL", FALSE, TRUE, 33, -20),
   Person(3, "Existing", "LOCAL_PAYROLL", FALSE, TRUE, 33, -20)}
Costs(category, mode, value, exclude) ==
  [category |-> category, mode |-> mode, value |-> value, excludeSummer |-> exclude]
TwoCosts ==
  {Costs("formation", "PERCENT_OF_PAYROLL", 1, FALSE),
   Costs("remplacements", "AMOUNT_PER_FTE", 31, TRUE)}
FlatCost == {Costs("formation", "FLAT_ANNUAL", 100, TRUE)}
MCCategories == {TwoCosts, {}}
MCTerm == [ajeer |-> 95, first |-> 5, additional |-> 4, target |-> 30]
MCTerms == {[ajeer |-> 40, first |-> 7, additional |-> 3, target |-> 13]}
MCGroup == [k \in {<<3, "FR">>} |-> [count |-> 2, hours |-> 3]]
MCGroups == {[k \in {} |-> MCTerm]}
MCProfile(weekly, owed) == [p \in {"PE"} |-> [weeklyHours |-> weekly, hsa |-> owed]]
MCProfiles == {MCProfile(18, FALSE)}
MCTeaching ==
  <<[grade |-> 1, discipline |-> "ASEM", type |-> "STRUCTURAL", driver |-> "SECTION",
     hours |-> 0, profile |-> "PE"],
    [grade |-> 2, discipline |-> "FR", type |-> "STRUCTURAL", driver |-> "HOURS",
     hours |-> 5, profile |-> "PE"],
    [grade |-> 3, discipline |-> "FR", type |-> "STRUCTURAL", driver |-> "GROUP",
     hours |-> 4, profile |-> "PE"]>>
MCBand == [g \in Grades |-> IF g = 1 THEN "MATERNELLE" ELSE "ELEMENTAIRE"]

\* Fees and Gain have categories that do not fit their sections.
MCLines == {"Rent", "Fees", "Wear", "Loan", "Gain"}
MCSection == [l \in MCLines |-> IF l \in {"Rent", "Fees"} THEN "OPERATING" ELSE "NON_OPERATING"]
MCCategory == [l \in MCLines |->
  CASE l = "Rent" -> "Rent & Utilities" [] l = "Fees" -> "Finance Costs"
    [] l = "Wear" -> "Depreciation" [] l = "Loan" -> "Finance Income"
    [] OTHER -> "Other General"]
SpreadLine == [Defaults EXCEPT !.mode = "ANNUAL_SPREAD", !.annual = 100, !.active = {1, 2, 9}]
ShareLine == [Defaults EXCEPT !.mode = "PERCENT_OF_REVENUE", !.rate = 1]
MCLineForms == {SpreadLine, ShareLine}
MCLinesAtStart ==
  [l \in MCLines |-> CASE l = "Rent" -> SpreadLine [] l = "Fees" -> ShareLine [] OTHER -> Defaults]
MCMonthlyAtStart ==
  [l \in MCLines |-> [m \in Months |-> IF l = "Fees" THEN None ELSE 7 * m]]
MCStart(flat, people, costs) ==
  [fees |-> Fees, items |-> ManualItems, settings |-> MCSetting(flat), staff |-> people,
   categories |-> costs, terms |-> MCTerm, groups |-> MCGroup,
   profiles |-> MCProfile(24, TRUE), lines |-> MCLinesAtStart, monthly |-> MCMonthlyAtStart]
MCStarts == {MCStart(0, FullStaff, TwoCosts), MCStart(1, MixedStaff, FlatCost)}
MCOverrides == UNION {{Split(n, 0, 0), Split(1, n - 1, 0)} : n \in 1..16}
MCKeyOf(n) == n
MCAdjustments == {-1}
=============================================================================
