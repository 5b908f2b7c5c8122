---------------------------- MODULE CalcPipeline ----------------------------
(***************************************************************************)
(* The calculation pipeline of one budget version, with every HTTP handler *)
(* taken as one atomic step.                                               *)
(*                                                                         *)
(*   ENROLLMENT --> REVENUE --> OPEX --> PNL                               *)
(*        \----------> STAFFING ----------/                                *)
(*                                                                         *)
(* A version carries an array of stale modules.  A handler that edits an   *)
(* input adds the modules it believes to depend on that input; a           *)
(* calculation removes its own module and adds some of those downstream.   *)
(* Figures are abstracted to where they come from: an output is the tuple  *)
(* of the values it was computed from, so an output equals what the        *)
(* calculation would produce now exactly when no source of it has changed. *)
(***************************************************************************)
EXTENDS Naturals, FiniteSets

CONSTANTS
  MaxRev,       \* how often each input is edited at most
  MaxEdited,    \* how many different inputs are edited at most
  MaxSilent,    \* how many of them without a mark at most
  SilentEdits,  \* the edits that mark nothing stale which users perform
  Origins       \* the ways a version comes to be

Modules == {"ENROLLMENT", "REVENUE", "STAFFING", "OPEX", "PNL"}
Statuses == {"Draft", "Published", "Locked", "Archived"}

\* The inputs whose edits mark nothing stale.
SilentInputs == {"opexRates", "opexLabels", "masterData", "history"}

\* The inputs the engines read, grouped by the marks their edits leave.  The
\* history is the headcounts of the actual versions of earlier years, which
\* every enrollment calculation reads for its trends.
Inputs == {"enrollment", "rules", "detail", "pricing", "staffing",
           "opexLines", "scenario"} \cup SilentInputs

ASSUME PipelineAssumption ==
  /\ MaxRev \in [Inputs -> Nat]
  /\ MaxEdited \in Nat /\ MaxSilent \in Nat
  /\ SilentEdits \subseteq SilentInputs
  /\ Origins \subseteq {"created", "fromSource", "cloned", "imported"}

VARIABLES
  origin,    \* created empty, created from or cloned from another version,
             \* or imported as historical actuals
  status,    \* BudgetVersion.status
  stale,     \* BudgetVersion.staleModules
  rev,       \* how often each input has been edited
  enrOut,    \* AY2 headcounts, cohort outputs, requirements
  revOut,    \* MonthlyRevenue and MonthlyOtherRevenue
  staffOut,  \* MonthlyStaffCost, CategoryMonthlyCost, requirement lines
  opexOut,   \* MonthlyOpEx of the percent-of-revenue lines
  pnlOut     \* MonthlyPnlLine and MonthlyBudgetSummary

outputs == <<enrOut, revOut, staffOut, opexOut, pnlOut>>
vars == <<origin, status, stale, rev, outputs>>

-----------------------------------------------------------------------------
(* What an output is computed from.                                        *)

NoRows == <<"none">>
Copied == <<"copied">>     \* rows copied from another version
Typed(n) == <<"typed", n>> \* rows a user wrote over

HasRows(out) == out # NoRows

\* Rows this version's own calculation has written, edited since or not.
Own(out) == out \notin {NoRows, Copied}

EnrollmentValue(r, rules) ==
  <<"calc", r["enrollment"], rules, r["masterData"], r["history"]>>

RevenueValue == <<"calc", rev["detail"], rev["pricing"], rev["enrollment"], enrOut>>

StaffingValue == <<"calc", enrOut, rev["masterData"], rev["staffing"]>>

OpExValue == <<"calc", rev["opexLines"], rev["opexRates"], revOut>>

PnlValue ==
  <<"calc", revOut, staffOut, opexOut,
    rev["opexLines"], rev["opexLabels"], rev["staffing"]>>

-----------------------------------------------------------------------------
(* The marks of each group of edits.                                       *)

EnrollmentMarksNoRevenue == {"ENROLLMENT", "STAFFING", "PNL"}  \* mutant
EnrollmentMarks == {"ENROLLMENT", "REVENUE", "STAFFING", "PNL"}
RulesMarks == {"ENROLLMENT", "REVENUE", "STAFFING", "PNL"}
DetailMarks == {"REVENUE", "STAFFING", "PNL"}
PricingMarksMisnamed == {"REVENUE", "OPEX", "P&L"}  \* mutant
PricingMarks == {"REVENUE", "OPEX", "PNL"}
RevenueSettingsMarks == {"REVENUE", "PNL"}
OpExMarks == {"OPEX", "PNL"}
ScenarioMarks == {"REVENUE", "STAFFING", "OPEX", "PNL"}

OpExEditable == {"Draft", "Published"}

Edited(i) == [rev EXCEPT ![i] = @ + 1]

\* Bound of the model: only so many of the inputs are ever edited.
WithinBounds ==
  /\ Cardinality({i \in Inputs : rev[i] # 0}) <= MaxEdited
  /\ Cardinality({i \in SilentInputs : rev[i] # 0}) <= MaxSilent

Bump(i) == rev[i] < MaxRev[i] /\ rev' = Edited(i) /\ WithinBounds'

-----------------------------------------------------------------------------
(* What each handler writes.  snap is the array of stale modules the       *)
(* handler read before its transaction: the whole array is written back.   *)

WriteEnrollmentInputs(snap) ==
  /\ Bump("enrollment")
  /\ stale' = snap \cup EnrollmentMarks
  /\ enrOut' \in {enrOut, Typed(rev'["enrollment"])}
  /\ UNCHANGED <<revOut, staffOut, opexOut, pnlOut>>

WritePlanningRules(snap) ==
  /\ Bump("rules")
  /\ stale' = snap \cup RulesMarks
  /\ UNCHANGED outputs

\* POST setup/apply edits the inputs and runs the calculation in one
\* transaction; without rules in its body it calculates with the rules it
\* read with the version.
WriteSetup(snap, rules) ==
  /\ rev["enrollment"] < MaxRev["enrollment"]
  /\ \/ /\ rev' = Edited("enrollment")
        /\ enrOut' = EnrollmentValue(rev', rules)
     \/ /\ rev["rules"] < MaxRev["rules"]
        /\ rev' = [Edited("enrollment") EXCEPT !["rules"] = @ + 1]
        /\ enrOut' = EnrollmentValue(rev', rev'["rules"])
  /\ WithinBounds'
  /\ stale' = (snap \cup EnrollmentMarks) \ {"ENROLLMENT"}
  /\ UNCHANGED <<revOut, staffOut, opexOut, pnlOut>>

WriteDetail(snap) ==
  Bump("detail") /\ stale' = snap \cup DetailMarks /\ UNCHANGED outputs

WritePricing(snap) ==
  Bump("pricing") /\ stale' = snap \cup PricingMarks /\ UNCHANGED outputs

WriteRevenueSettings(snap) ==
  /\ Bump("pricing")
  /\ stale' = snap \cup RevenueSettingsMarks
  /\ UNCHANGED outputs

WriteScenario(snap) ==
  Bump("scenario") /\ stale' = snap \cup ScenarioMarks /\ UNCHANGED outputs

\* Settings and assignments write the array only when the mark is missing
\* from the one they read.
WriteStaffingInputs(snap) ==
  /\ Bump("staffing")
  /\ stale' = IF "STAFFING" \in snap THEN stale ELSE snap \cup {"STAFFING"}
  /\ UNCHANGED outputs

\* Employees are marked by an array_append on the row itself.
WriteEmployee ==
  Bump("staffing") /\ stale' = stale \cup {"STAFFING"} /\ UNCHANGED outputs

\* The employee of a draft is deleted with its cost rows, that of a
\* published version only set to Departed.
DeleteEmployee(seenStatus) ==
  /\ Bump("staffing")
  /\ stale' = stale \cup {"STAFFING"}
  /\ staffOut' \in {staffOut} \cup
       (IF seenStatus = "Draft" /\ HasRows(staffOut)
        THEN {Typed(rev'["staffing"])} ELSE {})
  /\ UNCHANGED <<enrOut, revOut, opexOut, pnlOut>>

\* Line items and their monthly amounts share the table the calculation
\* writes, so an edit may replace calculated amounts.
WriteOpExLines(snap) ==
  /\ Bump("opexLines")
  /\ stale' = snap \cup OpExMarks
  /\ opexOut' \in {opexOut} \cup
       (IF HasRows(opexOut) THEN {Typed(rev'["opexLines"])} ELSE {})
  /\ UNCHANGED <<enrOut, revOut, staffOut, pnlOut>>

\* PATCH of entryMode, activeMonths, flatAmount or annualTotal.
PatchOpExLine(snap) ==
  Bump("opexLines") /\ stale' = snap \cup OpExMarks /\ UNCHANGED outputs

\* PATCH of computeRate alone, PATCH or reorder of category and name, edits
\* of the master data all engines read, and imports of the headcounts of an
\* earlier year: no module of this version is marked.
EditSilently(i) == Bump(i) /\ UNCHANGED <<stale, outputs>>

CommitEnrollment(snap, rules) ==
  /\ enrOut' = EnrollmentValue(rev, rules)
  /\ stale' = snap \ {"ENROLLMENT"}
  /\ UNCHANGED <<rev, revOut, staffOut, opexOut, pnlOut>>

\* Mutant: the calculated module stays among the stale ones.
CommitRevenueStillStale(snap, value) ==
  /\ revOut' = value
  /\ stale' = snap \cup {"STAFFING", "OPEX", "PNL"}
  /\ UNCHANGED <<rev, enrOut, staffOut, opexOut, pnlOut>>

CommitRevenue(snap, value) ==
  /\ revOut' = value
  /\ stale' = (snap \ {"REVENUE"}) \cup {"STAFFING", "OPEX", "PNL"}
  /\ UNCHANGED <<rev, enrOut, staffOut, opexOut, pnlOut>>

CommitStaffing(snap, value) ==
  /\ staffOut' = value
  /\ stale' = (snap \ {"STAFFING"}) \cup {"PNL"}
  /\ UNCHANGED <<rev, enrOut, revOut, opexOut, pnlOut>>

\* Mutant: new OpEx rows do not mark the P&L that sums them up.
CommitOpExNoPnl(snap, value) ==
  /\ opexOut' = value
  /\ stale' = snap \ {"OPEX"}
  /\ UNCHANGED <<rev, enrOut, revOut, staffOut, pnlOut>>

CommitOpEx(snap, value) ==
  /\ opexOut' = value
  /\ stale' = (snap \ {"OPEX"}) \cup {"PNL"}
  /\ UNCHANGED <<rev, enrOut, revOut, staffOut, pnlOut>>

CommitPnl(snap, value) ==
  /\ pnlOut' = value
  /\ stale' = snap \ {"PNL"}
  /\ UNCHANGED <<rev, enrOut, revOut, staffOut, opexOut>>

-----------------------------------------------------------------------------
(* When each handler goes ahead.                                           *)

EnrollmentWritable == status = "Draft" /\ origin # "imported"
DraftOnly == status = "Draft"
OpExWritable == status \in OpExEditable

\* Revenue needs cohort outputs for every grade after PS.
RevenueReady ==
  /\ status = "Draft" /\ origin # "imported"
  /\ "ENROLLMENT" \notin stale /\ HasRows(enrOut)

\* Staffing needs AY2 headcounts but no module to be up to date.  (It also
\* needs an employee, and revenue needs fee settings: taken to be there.)
StaffingReady == status = "Draft" /\ HasRows(enrOut)

OpExReady == status \in OpExEditable /\ "REVENUE" \notin stale

PnlPrerequisitesNoOpEx == {"REVENUE", "STAFFING"}  \* mutant
PnlPrerequisites == {"REVENUE", "STAFFING", "OPEX"}

PnlReady == status \in OpExEditable /\ stale \cap PnlPrerequisites = {}

Transitions ==
  {<<"Draft", "Published">>, <<"Published", "Locked">>, <<"Published", "Draft">>,
   <<"Locked", "Archived">>, <<"Locked", "Draft">>}

-----------------------------------------------------------------------------
\* A new version starts with nothing stale, also when it copies the budget
\* summaries of the version it is created from.  A clone copies the
\* enrollment rows, the OpEx amounts and the summaries, or not, as asked.
Init ==
  /\ origin \in Origins
  /\ status = "Draft"
  /\ rev = [i \in Inputs |-> 0]
  /\ revOut = NoRows /\ staffOut = NoRows
  /\ \/ /\ origin \in {"created", "imported"}
        /\ stale = {}
        /\ enrOut = NoRows /\ opexOut = NoRows /\ pnlOut = NoRows
     \/ /\ origin = "fromSource"
        /\ stale = {}
        /\ enrOut = NoRows /\ opexOut = NoRows /\ pnlOut = Copied
     \/ /\ origin = "cloned"
        /\ stale = {"ENROLLMENT", "STAFFING", "OPEX"}
        /\ enrOut \in {NoRows, Copied}
        /\ opexOut \in {NoRows, Copied}
        /\ pnlOut \in {NoRows, Copied}

EditEnrollmentInputs ==
  EnrollmentWritable /\ WriteEnrollmentInputs(stale) /\ UNCHANGED <<origin, status>>
EditPlanningRules ==
  EnrollmentWritable /\ WritePlanningRules(stale) /\ UNCHANGED <<origin, status>>
SetupApply ==
  EnrollmentWritable /\ WriteSetup(stale, rev["rules"]) /\ UNCHANGED <<origin, status>>
EditDetail == DraftOnly /\ WriteDetail(stale) /\ UNCHANGED <<origin, status>>
EditPricing == DraftOnly /\ WritePricing(stale) /\ UNCHANGED <<origin, status>>
EditRevenueSettings ==
  DraftOnly /\ WriteRevenueSettings(stale) /\ UNCHANGED <<origin, status>>
EditScenario == WriteScenario(stale) /\ UNCHANGED <<origin, status>>
EditStaffingInputs ==
  DraftOnly /\ WriteStaffingInputs(stale) /\ UNCHANGED <<origin, status>>
EditEmployee == DraftOnly /\ WriteEmployee /\ UNCHANGED <<origin, status>>
RemoveEmployee == OpExWritable /\ DeleteEmployee(status) /\ UNCHANGED <<origin, status>>
EditOpExLines == OpExWritable /\ WriteOpExLines(stale) /\ UNCHANGED <<origin, status>>
EditOpExEntryMode == OpExWritable /\ PatchOpExLine(stale) /\ UNCHANGED <<origin, status>>

EditOpExRate ==
  /\ "opexRates" \in SilentEdits /\ OpExWritable
  /\ EditSilently("opexRates") /\ UNCHANGED <<origin, status>>
EditOpExLabels ==
  /\ "opexLabels" \in SilentEdits /\ OpExWritable
  /\ EditSilently("opexLabels") /\ UNCHANGED <<origin, status>>
EditMasterData ==
  /\ "masterData" \in SilentEdits
  /\ EditSilently("masterData") /\ UNCHANGED <<origin, status>>
EditHistory ==
  /\ "history" \in SilentEdits
  /\ EditSilently("history") /\ UNCHANGED <<origin, status>>

CalcEnrollment ==
  /\ EnrollmentWritable
  /\ CommitEnrollment(stale, rev["rules"]) /\ UNCHANGED <<origin, status>>
CalcRevenue ==
  RevenueReady /\ CommitRevenue(stale, RevenueValue) /\ UNCHANGED <<origin, status>>
CalcStaffing ==
  StaffingReady /\ CommitStaffing(stale, StaffingValue) /\ UNCHANGED <<origin, status>>
CalcOpEx == OpExReady /\ CommitOpEx(stale, OpExValue) /\ UNCHANGED <<origin, status>>
CalcPnl == PnlReady /\ CommitPnl(stale, PnlValue) /\ UNCHANGED <<origin, status>>

SetStatus ==
  /\ \E to \in Statuses : <<status, to>> \in Transitions /\ status' = to
  /\ UNCHANGED <<origin, stale, rev, outputs>>

Edit ==
  \/ EditEnrollmentInputs \/ EditPlanningRules \/ SetupApply \/ EditDetail
  \/ EditPricing \/ EditRevenueSettings \/ EditScenario \/ EditStaffingInputs
  \/ EditEmployee \/ RemoveEmployee \/ EditOpExLines \/ EditOpExEntryMode
  \/ EditOpExRate \/ EditOpExLabels \/ EditMasterData \/ EditHistory

Calculate == CalcEnrollment \/ CalcRevenue \/ CalcStaffing \/ CalcOpEx \/ CalcPnl

Next == Edit \/ Calculate \/ SetStatus

Spec == Init /\ [][Next]_vars

\* A planner who keeps recalculating whatever the version shows as stale.
RecalcStale ==
  \/ "ENROLLMENT" \in stale /\ CalcEnrollment
  \/ "REVENUE" \in stale /\ CalcRevenue
  \/ "STAFFING" \in stale /\ CalcStaffing
  \/ "OPEX" \in stale /\ CalcOpEx
  \/ "PNL" \in stale /\ CalcPnl

FairSpec == Spec /\ WF_vars(RecalcStale)

-----------------------------------------------------------------------------
(* Properties.                                                             *)

\* The state has the types the schema gives it.
TypeOK ==
  /\ origin \in Origins
  /\ status \in Statuses
  /\ stale \subseteq Modules
  /\ rev \in [Inputs -> Nat]
  /\ \A i \in Inputs : rev[i] <= MaxRev[i]

EnrollmentCurrent == enrOut = EnrollmentValue(rev, rev["rules"])
RevenueCurrent == revOut = RevenueValue
StaffingCurrent == staffOut = StaffingValue
OpExCurrent == opexOut = OpExValue
PnlCurrent == pnlOut = PnlValue

\* No edit that leaves no mark has been made.
NoneSilent == \A i \in SilentInputs : rev[i] = 0

AllCalculated ==
  Own(enrOut) /\ Own(revOut) /\ Own(staffOut) /\ Own(opexOut) /\ Own(pnlOut)

\* A version that shows nothing as stale, once every module has been
\* calculated, holds the figures that calculating everything again would
\* give: the stale markers the edit and calculate handlers leave suffice,
\* unless one of the edits was silent.
CleanMeansCurrent ==
  /\ stale = {} /\ NoneSilent
  /\ AllCalculated
  => /\ EnrollmentCurrent /\ RevenueCurrent /\ StaffingCurrent
     /\ OpExCurrent /\ PnlCurrent

\* A calculated module is never shown up to date while one it draws on is
\* shown stale, whatever order the edits and calculations came in; so the
\* gates of the revenue, OpEx and P&L handlers never let through a figure
\* built on a flagged one.  Staffing is left out: its handler has no gate.
CleanNeedsCleanUpstream ==
  /\ Own(revOut) /\ "REVENUE" \notin stale => "ENROLLMENT" \notin stale
  /\ Own(pnlOut) /\ "PNL" \notin stale => stale \cap {"REVENUE", "OPEX"} = {}

\* Unless P&L or staffing is shown stale, or an edit was silent, the stored
\* P&L agrees with the revenue, staff cost and OpEx rows of the other pages.
PnlMirrorsModules ==
  NoneSilent /\ Own(pnlOut) /\ stale \cap {"PNL", "STAFFING"} = {} => PnlCurrent

\* Rank of a set of stale modules: recalculating one may flag later ones.
Rank(s) ==
  LET weight(m, w) == IF m \in s THEN w ELSE 0
  IN  weight("ENROLLMENT", 16) + weight("REVENUE", 8) + weight("STAFFING", 2)
      + weight("OPEX", 2) + weight("PNL", 1)

\* Calculating a stale module always brings the version nearer to clean,
\* although three of the handlers put marks back.
RecalculationProgresses ==
  [][RecalcStale => Rank(stale') < Rank(stale)]_vars

\* When the edits are over and the planner does nothing but calculate what
\* is shown stale, the version becomes clean and stays so, provided it is a
\* draft with enrollment rows: the gates and the marks that calculations put
\* back leave neither a deadlock nor a cycle.
RecalculationConverges ==
  /\ <>[][RecalcStale]_vars
  /\ <>[](status = "Draft" /\ origin # "imported" /\ HasRows(enrOut))
  => <>[](stale = {})
=============================================================================
