--------------------------- MODULE EnrollmentYear ---------------------------
(***************************************************************************)
(* The enrollment of a draft version: the pupils of the year that ends     *)
(* (AY1) and of the one that starts (AY2), grade by grade.  Forms write    *)
(* AY1, the parameters of the cohorts, overrides and the detail that       *)
(* revenue bills; a calculation derives AY2, its nationalities and the     *)
(* sections it needs, and stores them beside what was typed in.  Grades    *)
(* are numbered along GRADE_PROGRESSION; pupils of grade g come from g-1.  *)
(***************************************************************************)
EXTENDS Amounts, SequencesExt

CONSTANTS
  LastGrade,      \* TERM; PS is grade 1
  Tariffs,        \* tariffs, "Plein" among them
  None,           \* a row or a column that is not there
  Fallback,       \* nationality -> share, where no AY1 rows are known
  DefaultIntake,  \* defaultAy2Intake of PS, or None
  Plafond,        \* plafondPct
  Sizes,          \* headcounts a form may hold
  Rates,          \* retention rates a form may hold
  Adjustments,    \* manual adjustments a form may hold
  RuleForms,      \* planning rules a form may hold
  Rooms,          \* class sizes a form may hold
  Overrides,      \* splits of a grade a form may hold
  DetailScopes,   \* sets of (year, grade) whose detail is sent together
  Drafts,         \* what a version may start with: history, AY1, its split, rules, detail
  MaxEdits        \* forms sent, at most

Grades == 1..LastGrade
PS == 1
Years == {"AY1", "AY2"}
Nationalities == {"Francais", "Nationaux", "Autres"}
Cells == Years \X Grades \X Nationalities \X Tariffs

Trio == [Nationalities -> Int]
Heads(c) == c["Francais"] + c["Nationaux"] + c["Autres"]
Nobody == [n \in Nationalities |-> 0]

Rules == [threshold : Int, retentionWeight : 0..One, targetWeight : 0..One]
Counted == [Nationalities -> Nat]
CohortRows == [rate : Int, adjustment : Int, retained : Int \cup {None}]
SplitRows == [heads : Trio, overridden : BOOLEAN]
ModelRows == [heads : Counted, weights : Counted]

ASSUME EnrollmentAssumption ==
  /\ LastGrade \in Nat \ {0} /\ MaxEdits \in Nat /\ IsFiniteSet(Tariffs)
  /\ None \notin Int /\ None \notin CohortRows /\ None \notin SplitRows
  /\ Fallback \in Counted
  /\ DefaultIntake \in Nat \cup {None}
  /\ Sizes \subseteq Nat /\ Rates \subseteq 0..One /\ Adjustments \subseteq Int
  /\ Overrides \subseteq Counted /\ RuleForms \subseteq Rules
  /\ Rooms \subseteq Nat \ {0} /\ Plafond \in Nat

\* What a version starts with comes from tables of the same types.
ASSUME DraftsAssumption ==
  \A d \in Drafts :
    /\ DOMAIN d.history \subseteq Nat
    /\ \A k \in DOMAIN d.history : d.history[k] \in [Grades -> Nat \cup {None}]
    /\ d.ay1 \in [Grades -> Nat \cup {None}]
    /\ d.split1 \in [Grades -> ModelRows \cup {None}]
    /\ d.rules \in Rules /\ d.room \in Nat \ {0}
    /\ \A c \in DOMAIN d.detail : d.detail[c] \in Nat

VARIABLES
  heads,     \* heads[y, g]: EnrollmentHeadcount, or None
  cohort,    \* cohort[g]: CohortParameter, or None
  rules,     \* the planning rules of the version
  split1,    \* split1[g]: NationalityBreakdown of AY1, or None
  split2,    \* split2[g]: NationalityBreakdown of AY2, or None
  detail,    \* detail[c]: EnrollmentDetail; no row counts as nobody
  room,      \* room[g]: the class size of the version
  capacity,  \* capacity[y, g]: DhgRequirement, or None
  history,   \* history[k]: AY1 of the actual version k years back, where there is one;
             \* nothing is imported meanwhile (for that see EditHistory of CalcPipeline)
  stale,     \* BudgetVersion.staleModules
  edits      \* forms sent

enrollment == <<heads, cohort, rules, split1, split2, detail, room, capacity, history>>
enrollmentVars == <<enrollment, stale, edits>>

Or(x, default) == IF x = None THEN default ELSE x
CapAt(x, limit) == IF x > limit THEN limit ELSE x
AtLeast(x, limit) == IF x < limit THEN limit ELSE x
AY1(g) == heads[<<"AY1", g>>]
AY2(g) == heads[<<"AY2", g>>]

-----------------------------------------------------------------------------
(* What the years before say of a grade.                                   *)

\* The years back in which both the grade and, a year earlier, its feeder
\* were counted; the three latest weigh in.
Observed(g) ==
  {k \in DOMAIN history :
     /\ k + 1 \in DOMAIN history
     /\ history[k][g] # None /\ history[k + 1][g - 1] # None
     /\ history[k + 1][g - 1] > 0}
Rest(years) == years \ {Min(years)}

\* The smoothed ratio of a grade to its feeder, in parts of One, or None.
TrendRatio(g) ==
  LET one == Observed(g)  two == Rest(one)  three == Rest(two)
      to(years) == history[Min(years)][g]
      from(years) == history[Min(years) + 1][g - 1]
      w == rules.retentionWeight
  IN IF one = {} THEN None
     ELSE IF two = {} THEN HalfUp(to(one) * One, from(one))
     ELSE IF three = {}
     THEN HalfUp(w * to(one) * from(two) + (One - w) * to(two) * from(one),
                 from(one) * from(two))
     ELSE HalfUp(3 * w * to(one) * from(two) * from(three)
                   + (One - w) * (2 * to(two) * from(one) * from(three)
                                    + to(three) * from(one) * from(two)),
                 3 * from(one) * from(two) * from(three))

\* The headcount the two latest years counted lead to, or None.
Target(g) ==
  LET of(years) == IF years = {} THEN None ELSE history[Min(years)][g]
      latest == of(DOMAIN history)
      before == IF DOMAIN history = {} THEN None ELSE of(Rest(DOMAIN history))
      w == rules.targetWeight
  IN IF latest = None THEN before
     ELSE IF before = None THEN latest
     ELSE HalfUp(latest * w + before * (One - w), One)

-----------------------------------------------------------------------------
(* The calculation.                                                        *)

\* A grade that overflows its feeder is taken at the rate in the form; that
\* of PS is not used.
Overflows(g) == TrendRatio(g) # None /\ TrendRatio(g) > rules.threshold
DefaultRate(g) ==
  IF g = PS THEN 0
  ELSE IF Overflows(g) THEN One
  ELSE CapAt(Or(TrendRatio(g), One), One)
Rate(g) == IF cohort[g] = None THEN DefaultRate(g) ELSE cohort[g].rate
Adjustment(g) == IF cohort[g] = None THEN 0 ELSE cohort[g].adjustment

\* The AY2 of PS stays what was stored, typed in or calculated.
Intake == Or(AY2(PS), Or(DefaultIntake, Or(AY1(PS), 0)))

Applied(g) ==
  IF Overflows(g) THEN Rate(g) ELSE CapAt(Or(TrendRatio(g), Rate(g)), One)
Retained(g) == IF g = PS THEN 0 ELSE HalfUp(Or(AY1(g - 1), 0) * Applied(g), One)
Laterals(g) == IF g = PS THEN 0 ELSE AtLeast(Or(Target(g), 0) - Retained(g), 0)
NewHeads(g) ==
  IF g = PS THEN Intake ELSE AtLeast(Retained(g) + Laterals(g) + Adjustment(g), 0)

\* The row keeps what the form holds, and the default where there was none.
NewCohort(g) ==
  [rate |-> Rate(g), adjustment |-> Adjustment(g), retained |-> Retained(g)]

\* The first largest bucket, in the order of the rows.
Largest(c) ==
  IF c["Francais"] >= c["Nationaux"] /\ c["Francais"] >= c["Autres"] THEN "Francais"
  ELSE IF c["Nationaux"] >= c["Autres"] THEN "Nationaux" ELSE "Autres"

\* Mutant: what rounding gains or loses is left.
ReconciledNot(c, total) == c
\* ... absorbs what rounding gains or loses.
Reconciled(c, total) == [c EXCEPT ![Largest(c)] = c[Largest(c)] + (total - Heads(c))]

ByWeights(total, w) == [n \in Nationalities |-> HalfUp(total * w[n], One)]
ByHeads(total, c) == [n \in Nationalities |-> HalfUp(total * c[n], Heads(c))]
WeightsOf(c) ==
  IF Heads(c) = 0 THEN Nobody ELSE [n \in Nationalities |-> HalfUp(One * c[n], Heads(c))]

\* PS is split as its own AY1, another grade as the AY1 of its feeder.
Model(g) == split1[IF g = PS THEN PS ELSE g - 1]
Counts(g, total) ==
  IF Model(g) = None THEN ByWeights(total, Fallback)
  ELSE IF g = PS THEN ByWeights(total, WeightsOf(Model(g).heads))
  ELSE IF Heads(Model(g).heads) > 0 THEN ByHeads(total, Model(g).heads)
  ELSE ByWeights(total, Model(g).weights)

\* A grade without pupils and without a model gets no rows: those stored
\* before, if any, stay.
SplitUp(total, g) ==
  IF total > 0 THEN [heads |-> Reconciled(Counts(g, total), total), overridden |-> FALSE]
  ELSE IF g = PS \/ Model(g) # None THEN [heads |-> Nobody, overridden |-> FALSE]
  ELSE split2[g]
Overridden(g) == IF split2[g] = None THEN FALSE ELSE split2[g].overridden
NewSplit(g) == IF Overridden(g) THEN split2[g] ELSE SplitUp(NewHeads(g), g)

Sections(h, size) == CeilDiv(h, size)
CapacityOf(h, g) ==
  IF h = 0 THEN [heads |-> 0, sections |-> 0, slots |-> 0]
  ELSE [heads |-> h, sections |-> Sections(h, room[g]),
        slots |-> Down(Sections(h, room[g]) * room[g] * Plafond, One) - h]

NewHeadcounts ==
  [k \in Years \X Grades |-> IF k[1] = "AY1" THEN heads[k] ELSE NewHeads(k[2])]
NewCapacity ==
  [k \in Years \X Grades |->
     IF NewHeadcounts[k] = None THEN capacity[k] ELSE CapacityOf(NewHeadcounts[k], k[2])]

\* What a calculation leaves in the tables it writes.
Computed ==
  [heads |-> NewHeadcounts,
   cohort |-> [g \in Grades |-> NewCohort(g)],
   split2 |-> [g \in Grades |-> NewSplit(g)],
   capacity |-> NewCapacity]

CalculateEnrollment ==
  /\ heads' = Computed.heads /\ cohort' = Computed.cohort
  /\ split2' = Computed.split2 /\ capacity' = Computed.capacity
  /\ stale' = stale \ {"ENROLLMENT"}
  /\ UNCHANGED <<rules, split1, detail, room, history, edits>>

-----------------------------------------------------------------------------
(* The forms.  The set-up wizard writes the rows of several of them and    *)
(* calculates in the same transaction: what these do one after another.    *)

EnrollmentMarks == {"ENROLLMENT", "REVENUE", "STAFFING", "PNL"}
DetailMarks == {"REVENUE", "STAFFING", "PNL"}

Sent(marks) == edits < MaxEdits /\ edits' = edits + 1 /\ stale' = stale \cup marks

\* A form sets the rate and the adjustment and keeps what was calculated.
Parameters(g, rate, adjustment) ==
  [rate |-> rate, adjustment |-> adjustment,
   retained |-> IF cohort[g] = None THEN None ELSE cohort[g].retained]

PutHeadcount ==
  /\ \E y \in Years, g \in Grades, h \in Sizes : heads' = [heads EXCEPT ![<<y, g>>] = h]
  /\ Sent(EnrollmentMarks)
  /\ UNCHANGED <<cohort, rules, split1, split2, detail, room, capacity, history>>

PutCohort ==
  /\ \E g \in Grades, rate \in Rates, a \in Adjustments :
       cohort' = [cohort EXCEPT ![g] = Parameters(g, rate, a)]
  /\ Sent(EnrollmentMarks)
  /\ UNCHANGED <<heads, rules, split1, split2, detail, room, capacity, history>>

PutRules ==
  /\ rules' \in RuleForms
  /\ Sent(EnrollmentMarks)
  /\ UNCHANGED <<heads, cohort, split1, split2, detail, room, capacity, history>>

\* The settings hold the rules and a class size for every grade.
PutSettings ==
  /\ rules' \in RuleForms /\ room' \in [Grades -> Rooms]
  /\ Sent(EnrollmentMarks)
  /\ UNCHANGED <<heads, cohort, split1, split2, detail, capacity, history>>

\* An override says how many of the grade are of each nationality, all
\* three, and they are as many as the grade has.
PutNationalities ==
  /\ \E g \in Grades, c \in Overrides :
       /\ Heads(c) = Or(AY2(g), Or(AY1(g), 0))
       /\ split2' = [split2 EXCEPT ![g] = [heads |-> c, overridden |-> TRUE]]
  /\ Sent(EnrollmentMarks)
  /\ UNCHANGED <<heads, cohort, rules, split1, detail, room, capacity, history>>

\* Dropping an override drops its rows; the next calculation brings others.
ResetNationalities ==
  /\ \E g \in Grades :
       split2' = [split2 EXCEPT ![g] = IF Overridden(g) THEN None ELSE split2[g]]
  /\ Sent(EnrollmentMarks)
  /\ UNCHANGED <<heads, cohort, rules, split1, detail, room, capacity, history>>

\* The cells of a year and a grade sent along add up to its headcount;
\* cells that are not sent keep what they hold.
PutDetail ==
  /\ \E scope \in DetailScopes, n \in Nationalities, t \in Tariffs, few \in BOOLEAN :
       LET total(k) == Or(heads[k], 0)
           some(k) == IF few THEN CapAt(1, total(k)) ELSE total(k)
           sent(c) == /\ <<c[1], c[2]>> \in scope
                      /\ c[3] = n \/ (few /\ c[3] = "Francais")
                      /\ c[4] = IF c[3] = n THEN t ELSE "Plein"
           value(c) == IF c[3] = n THEN some(<<c[1], c[2]>>)
                       ELSE total(<<c[1], c[2]>>) - some(<<c[1], c[2]>>)
       IN /\ few => n # "Francais"
          /\ detail' = [c \in Cells |-> IF sent(c) THEN value(c) ELSE detail[c]]
  /\ Sent(DetailMarks)
  /\ UNCHANGED <<heads, cohort, rules, split1, split2, room, capacity, history>>

-----------------------------------------------------------------------------
EnrollmentInit ==
  \E draft \in Drafts :
    /\ history = draft.history
    /\ split1 = draft.split1
    /\ heads = [k \in Years \X Grades |-> IF k[1] = "AY1" THEN draft.ay1[k[2]] ELSE None]
    /\ rules = draft.rules
    /\ cohort = [g \in Grades |-> None]
    /\ split2 = [g \in Grades |-> None]
    /\ detail = [c \in Cells |-> IF c \in DOMAIN draft.detail THEN draft.detail[c] ELSE 0]
    /\ room = [g \in Grades |-> draft.room]
    /\ capacity = [k \in Years \X Grades |-> None]
    /\ edits = 0

EditEnrollment ==
  \/ PutHeadcount \/ PutCohort \/ PutRules \/ PutSettings
  \/ PutNationalities \/ ResetNationalities \/ PutDetail

-----------------------------------------------------------------------------
(* Properties.                                                             *)

\* An enrollment shown up to date is a fixed point: to calculate it again
\* changes no headcount, parameter, nationality or section, although the
\* calculation reads what it has itself stored (the intake of PS, the rates
\* it filled in, the splits).
EnrollmentIsStable ==
  "ENROLLMENT" \notin stale =>
    /\ heads = Computed.heads /\ cohort = Computed.cohort
    /\ split2 = Computed.split2 /\ capacity = Computed.capacity

\* In an enrollment shown up to date the nationalities of a grade add up to
\* its headcount, unless somebody overrode them, or the grade is empty and
\* rows of a time when it was not have stayed.
SplitsAddUp ==
  "ENROLLMENT" \notin stale =>
    \A g \in Grades :
      split2[g] # None /\ ~Overridden(g) /\ (AY2(g) > 0 \/ g = PS \/ Model(g) # None)
        => Heads(split2[g].heads) = AY2(g)
=============================================================================
