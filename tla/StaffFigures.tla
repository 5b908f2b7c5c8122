---------------------------- MODULE StaffFigures ----------------------------
(***************************************************************************)
(* What the staff of a version costs, month by month: pay, charges, the    *)
(* accrual of the end-of-service award, and the costs that go by category, *)
(* some of them with the teachers the enrollment calls for.  A figure is   *)
(* computed exactly and rounded once, when it is stored.                   *)
(***************************************************************************)
EXTENDS EnrollmentYear

CONSTANTS
  Gosi,       \* GOSI_RATE, in parts of One
  LeapYear,   \* whether the fiscal year has a 29 February
  TeachingRules,  \* DhgRule, in order: grade, discipline, type, driver, hours, profile
  Band        \* grade -> band

VARIABLES
  staff,       \* employees
  categories,  \* VersionStaffingCostAssumption
  terms,       \* VersionStaffingSettings: ajeer, and an overtime hour's first, additional, target
  groups,      \* <<grade, discipline>> -> count and hours: VersionLyceeGroupAssumption
  profiles     \* profile -> weekly hours and whether overtime is owed, overrides of the
               \* version included

staffing == <<staff, categories, terms, groups, profiles>>
Stored(num, den) == HalfUp(num, den)

-----------------------------------------------------------------------------
(* End of service.  The month of hire is numbered on from those of the     *)
(* fiscal year, zero and below before it; the 31st counts as the 30th.     *)

LongMonths == {0, 1, 3, 5, 7, 8, 10, 12}
LastDay(m, hired) ==
  IF m = 2 THEN IF LeapYear THEN 29 ELSE 28
  ELSE IF m \in LongMonths /\ hired.day < 30 THEN 31 ELSE 30
\* Days served at the end of month m; month 0 is December of the year before.
Served(m, hired) == 30 * (m - hired.month) + LastDay(m, hired) - hired.day

\* The award so far, in 720ths: half a month a year for five years, then a
\* whole one.
Award(base, days) ==
  IF days <= 0 THEN 0
  ELSE IF days <= 1800 THEN base * days
  ELSE base * 1800 + 2 * base * (days - 1800)
AwardBase(e) == e.salary + e.housing + e.transport + e.premium
AwardAt(e, m) == Award(AwardBase(e), Served(m, e.hired))
Accrual(e, m) == AtLeast(AwardAt(e, m) - AwardAt(e, m - 1), 0)

-----------------------------------------------------------------------------
(* A month of an employee, in parts of One.                                *)

FirstMonth(e) == IF e.status = "New" THEN 9 ELSE 1
Paid(e, m) == e.costMode = "LOCAL_PAYROLL" /\ m >= FirstMonth(e)
Raise(e, m) == IF m >= 9 THEN One + e.augmentation ELSE One

HsaPerMonth ==
  Stored(terms.first * One + AtLeast(terms.target - One, 0) * terms.additional, One)
OwedHsa(e) == e.costMode = "LOCAL_PAYROLL" /\ e.profile # None
HsaOf(e, m) ==
  IF ~OwedHsa(e) THEN 0
  ELSE IF ~profiles[e.profile].hsa \/ (e.teaching /\ m \in {7, 8}) THEN 0
  ELSE HsaPerMonth * One
Gross(e, m) == AwardBase(e) * Raise(e, m) + HsaOf(e, m)

GosiRate(e) == IF e.saudi THEN Gosi ELSE 0
AjeerOf(e) == IF e.ajeer /\ ~e.saudi THEN terms.ajeer ELSE 0

NothingPaid ==
  [gross |-> 0, housing |-> 0, transport |-> 0, premium |-> 0, hsa |-> 0,
   gosi |-> 0, ajeer |-> 0, award |-> 0, total |-> 0]

CostOf(e, m) ==
  IF ~Paid(e, m) THEN NothingPaid
  ELSE [gross |-> Stored(Gross(e, m), One),
        housing |-> Stored(e.housing * Raise(e, m), One),
        transport |-> Stored(e.transport * Raise(e, m), One),
        premium |-> Stored(e.premium * Raise(e, m), One),
        hsa |-> Stored(HsaOf(e, m), One),
        gosi |-> Stored(Gross(e, m) * GosiRate(e), One * One),
        ajeer |-> Stored(AjeerOf(e), 12),
        award |-> Stored(Accrual(e, m), 720),
        total |-> Stored(Gross(e, m) * 720 * (One + GosiRate(e))
                           + (AjeerOf(e) * 60 + Accrual(e, m)) * One * One,
                         720 * One * One)]

Employed == {e \in staff : e.status # "Departed"}
\* Staff without a local cost have no rows.
OnTheBooks == {e \in Employed : e.costMode # "NO_LOCAL_COST"}
PayrollOf(m) ==
  LET paid == {e \in Employed : Paid(e, m)} IN SumOver([e \in paid |-> Gross(e, m)], paid)

-----------------------------------------------------------------------------
(* Teachers called for by the pupils of AY2, in parts of One.              *)

Called(r) == Or(AY2(r.grade), 0) > 0
Group(r) == <<r.grade, r.discipline>>
Units(r) ==
  IF r.driver # "GROUP" THEN Sections(AY2(r.grade), room[r.grade])
  ELSE IF Group(r) \in DOMAIN groups THEN groups[Group(r)].count ELSE 0
Hours(r) ==
  CASE r.driver = "SECTION" -> 0
    [] r.driver = "HOURS" -> Units(r) * r.hours
    [] OTHER -> Units(r) * (IF Group(r) \in DOMAIN groups THEN groups[Group(r)].hours
                            ELSE r.hours)

Place(r) == <<Band[r.grade], r.discipline, r.type>>
Active == {i \in DOMAIN TeachingRules : Called(TeachingRules[i])}
PlacesCalled == {Place(TeachingRules[i]) : i \in Active}
AtPlace(p) == {i \in Active : Place(TeachingRules[i]) = p}
\* The first of the rules of a line says how it is counted.
Leading(p) == TeachingRules[Min(AtPlace(p))]
RequiredFte(p) ==
  IF Leading(p).driver = "SECTION"
  THEN One * SumOver([i \in AtPlace(p) |-> Units(TeachingRules[i])], AtPlace(p))
  ELSE HalfUp(One * SumOver([i \in AtPlace(p) |-> Hours(TeachingRules[i])], AtPlace(p)),
              profiles[Leading(p).profile].weeklyHours)
TotalFte == SumOver([p \in PlacesCalled |-> RequiredFte(p)], PlacesCalled)

Parts(c) == IF c.excludeSummer THEN 10 ELSE 12
CategoryCost(c, m) ==
  IF c.excludeSummer /\ m \in {7, 8} THEN 0
  ELSE CASE c.mode = "FLAT_ANNUAL" -> Stored(c.value, Parts(c))
         [] c.mode = "PERCENT_OF_PAYROLL" -> Stored(PayrollOf(m) * c.value, One * One)
         [] OTHER -> Stored(c.value * TotalFte, One * Parts(c))

StaffCost ==
  [pay |-> [e \in OnTheBooks |-> [m \in Months |-> CostOf(e, m)]],
   byCategory |-> [c \in {d.category : d \in categories} |->
      LET d == CHOOSE x \in categories : x.category = c
      IN [m \in Months |-> CategoryCost(d, m)]]]

\* What must be there for the calculation to start.
StaffKnown == Employed # {} /\ \E g \in Grades : AY2(g) # None
=============================================================================
