------------------------- MODULE CalcPipelineProofs -------------------------
(***************************************************************************)
(* What holds of CalcPipeline for every bound on the edits, every way a    *)
(* version comes to be and every set of silent edits; and of the handlers  *)
(* taken apart in PipelineRequests, which implement it as long as requests *)
(* do not overlap.                                                         *)
(***************************************************************************)
EXTENDS PipelineRequests, TLAPS

-----------------------------------------------------------------------------
(* Bounded edits keep the counters within their bounds.                    *)

\* An edit counts one input once, within its bound, and touches no other.
LEMMA BumpType ==
  ASSUME TypeOK, NEW i \in Inputs, Bump(i)
  PROVE  /\ rev' \in [Inputs -> Nat]
         /\ \A j \in Inputs : rev'[j] <= MaxRev[j]
         /\ \A j \in Inputs : j # i => rev'[j] = rev[j]
  <1>1. rev \in [Inputs -> Nat] /\ MaxRev \in [Inputs -> Nat]
    BY PipelineAssumption DEF TypeOK
  <1>2. rev[i] < MaxRev[i] /\ rev' = [rev EXCEPT ![i] = rev[i] + 1]
    BY DEF Bump, Edited
  <1>3. rev' \in [Inputs -> Nat]
    BY <1>1, <1>2
  <1>4. \A j \in Inputs : j # i => rev'[j] = rev[j]
    BY <1>1, <1>2
  <1>5. rev'[i] = rev[i] + 1 /\ rev[i] \in Nat /\ MaxRev[i] \in Nat
    BY <1>1, <1>2
  <1>6. rev'[i] <= MaxRev[i]
    BY <1>2, <1>5
  <1>7. \A j \in Inputs : rev'[j] <= MaxRev[j]
    BY <1>4, <1>6 DEF TypeOK
  <1> QED BY <1>3, <1>4, <1>7

\* The enrollment setup counts the enrollment inputs and perhaps the rules.
LEMMA SetupType ==
  ASSUME TypeOK, NEW s, NEW rules, WriteSetup(s, rules)
  PROVE  /\ rev' \in [Inputs -> Nat]
         /\ \A j \in Inputs : rev'[j] <= MaxRev[j]
         /\ \A j \in Inputs : j \notin {"enrollment", "rules"} => rev'[j] = rev[j]
  <1>1. CASE rev' = Edited("enrollment")
    BY <1>1, PipelineAssumption DEF TypeOK, WriteSetup, Edited, Inputs, SilentInputs
  <1>2. CASE /\ rev["rules"] < MaxRev["rules"]
             /\ rev' = [Edited("enrollment") EXCEPT !["rules"] = @ + 1]
    BY <1>2, PipelineAssumption DEF TypeOK, WriteSetup, Edited, Inputs, SilentInputs
  <1> QED BY <1>1, <1>2 DEF WriteSetup

\* The types of the schema hold of every reachable version: no handler
\* leaves an unknown status or an unknown name among the stale modules.
THEOREM TypeCorrect == Spec => []TypeOK
<1>1. Init => TypeOK
  BY PipelineAssumption DEF Init, TypeOK, Statuses, Modules
<1>2. TypeOK /\ [Next]_vars => TypeOK'
  <2> SUFFICES ASSUME TypeOK, [Next]_vars PROVE TypeOK'
    OBVIOUS
  <2> USE DEF EnrollmentMarks, RulesMarks, DetailMarks, PricingMarks,
          RevenueSettingsMarks, OpExMarks, ScenarioMarks, Modules
  <2>1. CASE EditEnrollmentInputs
    BY <2>1, BumpType DEF EditEnrollmentInputs, WriteEnrollmentInputs, TypeOK, Inputs, SilentInputs
  <2>2. CASE EditPlanningRules
    BY <2>2, BumpType DEF EditPlanningRules, WritePlanningRules, TypeOK, Inputs, SilentInputs
  <2>3. CASE SetupApply
    BY <2>3, SetupType DEF SetupApply, WriteSetup, TypeOK
  <2>4. CASE EditDetail
    BY <2>4, BumpType DEF EditDetail, WriteDetail, TypeOK, Inputs, SilentInputs
  <2>5. CASE EditPricing
    BY <2>5, BumpType DEF EditPricing, WritePricing, TypeOK, Inputs, SilentInputs
  <2>6. CASE EditRevenueSettings
    BY <2>6, BumpType DEF EditRevenueSettings, WriteRevenueSettings, TypeOK, Inputs, SilentInputs
  <2>7. CASE EditScenario
    BY <2>7, BumpType DEF EditScenario, WriteScenario, TypeOK, Inputs, SilentInputs
  <2>8. CASE EditStaffingInputs
    BY <2>8, BumpType DEF EditStaffingInputs, WriteStaffingInputs, TypeOK, Inputs, SilentInputs
  <2>9. CASE EditEmployee
    BY <2>9, BumpType DEF EditEmployee, WriteEmployee, TypeOK, Inputs, SilentInputs
  <2>10. CASE RemoveEmployee
    BY <2>10, BumpType DEF RemoveEmployee, DeleteEmployee, TypeOK, Inputs, SilentInputs
  <2>11. CASE EditOpExLines
    BY <2>11, BumpType DEF EditOpExLines, WriteOpExLines, TypeOK, Inputs, SilentInputs
  <2>12. CASE EditOpExEntryMode
    BY <2>12, BumpType DEF EditOpExEntryMode, PatchOpExLine, TypeOK, Inputs, SilentInputs
  <2>13. CASE EditOpExRate
    BY <2>13, BumpType DEF EditOpExRate, EditSilently, TypeOK, Inputs, SilentInputs
  <2>14. CASE EditOpExLabels
    BY <2>14, BumpType DEF EditOpExLabels, EditSilently, TypeOK, Inputs, SilentInputs
  <2>15. CASE EditMasterData
    BY <2>15, BumpType DEF EditMasterData, EditSilently, TypeOK, Inputs, SilentInputs
  <2>15a. CASE EditHistory
    BY <2>15a, BumpType DEF EditHistory, EditSilently, TypeOK, Inputs, SilentInputs
  <2>16. CASE Calculate
    BY <2>16 DEF Calculate, CalcEnrollment, CommitEnrollment, CalcRevenue, CommitRevenue,
       CalcStaffing, CommitStaffing, CalcOpEx, CommitOpEx, CalcPnl, CommitPnl, TypeOK
  <2>17. CASE SetStatus
    BY <2>17 DEF SetStatus, TypeOK
  <2>18. CASE UNCHANGED vars
    BY <2>18 DEF vars, TypeOK
  <2> QED
    BY <2>1, <2>2, <2>3, <2>4, <2>5, <2>6, <2>7, <2>8, <2>9, <2>10, <2>11, <2>12,
       <2>13, <2>14, <2>15, <2>15a, <2>16, <2>17, <2>18 DEF Next, Edit
<1> QED BY <1>1, <1>2, PTL DEF Spec

-----------------------------------------------------------------------------
(* Marks along the pipeline.                                               *)

\* Whatever the edits and calculations, flagged or silent, no calculated
\* revenue is shown fresh over stale enrollment and no calculated P&L over
\* stale revenue or OpEx.
THEOREM UpstreamClean == Spec => []CleanNeedsCleanUpstream
<1>1. Init => CleanNeedsCleanUpstream
  BY DEF Init, CleanNeedsCleanUpstream, Own
<1>2. CleanNeedsCleanUpstream /\ [Next]_vars => CleanNeedsCleanUpstream'
  <2> SUFFICES ASSUME CleanNeedsCleanUpstream, [Next]_vars
               PROVE  CleanNeedsCleanUpstream'
    OBVIOUS
  <2> USE DEF CleanNeedsCleanUpstream, outputs
  <2>1. CASE EditEnrollmentInputs
    BY <2>1 DEF EditEnrollmentInputs, WriteEnrollmentInputs, EnrollmentMarks
  <2>2. CASE EditPlanningRules
    BY <2>2 DEF EditPlanningRules, WritePlanningRules, RulesMarks
  <2>3. CASE SetupApply
    BY <2>3 DEF SetupApply, WriteSetup, EnrollmentMarks
  <2>4. CASE EditDetail
    BY <2>4 DEF EditDetail, WriteDetail, DetailMarks
  <2>5. CASE EditPricing
    BY <2>5 DEF EditPricing, WritePricing, PricingMarks
  <2>6. CASE EditRevenueSettings
    BY <2>6 DEF EditRevenueSettings, WriteRevenueSettings, RevenueSettingsMarks
  <2>7. CASE EditScenario
    BY <2>7 DEF EditScenario, WriteScenario, ScenarioMarks
  <2>8. CASE EditStaffingInputs
    BY <2>8 DEF EditStaffingInputs, WriteStaffingInputs
  <2>9. CASE EditEmployee
    BY <2>9 DEF EditEmployee, WriteEmployee
  <2>10. CASE RemoveEmployee
    BY <2>10 DEF RemoveEmployee, DeleteEmployee
  <2>11. CASE EditOpExLines
    BY <2>11 DEF EditOpExLines, WriteOpExLines, OpExMarks
  <2>12. CASE EditOpExEntryMode
    BY <2>12 DEF EditOpExEntryMode, PatchOpExLine, OpExMarks
  <2>13. CASE EditOpExRate \/ EditOpExLabels \/ EditMasterData \/ EditHistory
    BY <2>13 DEF EditOpExRate, EditOpExLabels, EditMasterData, EditHistory, EditSilently
  <2>14. CASE CalcEnrollment
    BY <2>14 DEF CalcEnrollment, CommitEnrollment
  <2>15. CASE CalcRevenue
    BY <2>15 DEF CalcRevenue, CommitRevenue, RevenueReady
  <2>16. CASE CalcStaffing
    BY <2>16 DEF CalcStaffing, CommitStaffing
  <2>17. CASE CalcOpEx
    BY <2>17 DEF CalcOpEx, CommitOpEx
  <2>18. CASE CalcPnl
    BY <2>18 DEF CalcPnl, CommitPnl, PnlReady, PnlPrerequisites
  <2>19. CASE SetStatus \/ UNCHANGED vars
    BY <2>19 DEF SetStatus, vars
  <2> QED
    BY <2>1, <2>2, <2>3, <2>4, <2>5, <2>6, <2>7, <2>8, <2>9, <2>10, <2>11, <2>12,
       <2>13, <2>14, <2>15, <2>16, <2>17, <2>18, <2>19 DEF Next, Edit, Calculate
<1> QED BY <1>1, <1>2, PTL DEF Spec

-----------------------------------------------------------------------------
(* While no edit has been silent, a version shown clean is current.        *)
(* CleanMeansCurrent says nothing about a version with stale modules, so   *)
(* it is not inductive: PipelineInv says module by module which missing    *)
(* marks guarantee which figures.                                          *)

\* Enrollment rows copied by a clone stay marked until they are calculated,
\* and revenue is only ever calculated from enrollment rows.
Provenance ==
  /\ enrOut = Copied => "ENROLLMENT" \in stale
  /\ Own(revOut) => HasRows(enrOut)

EnrollmentHolds == Own(enrOut) /\ "ENROLLMENT" \notin stale => EnrollmentCurrent
RevenueHolds == Own(revOut) /\ "REVENUE" \notin stale => RevenueCurrent
\* Staff costs follow enrollment without a gate: they are known to be
\* current only once revenue, whose calculation marks them, is fresh too.
StaffingHolds ==
  /\ Own(staffOut) /\ Own(revOut)
  /\ stale \cap {"REVENUE", "STAFFING"} = {}
  => StaffingCurrent
OpExHolds == Own(opexOut) /\ "OPEX" \notin stale => OpExCurrent

PnlHolds == Own(pnlOut) /\ stale \cap {"PNL", "STAFFING"} = {} => PnlCurrent

PipelineInv ==
  /\ TypeOK /\ CleanNeedsCleanUpstream /\ Provenance
  /\ EnrollmentHolds /\ RevenueHolds /\ StaffingHolds /\ OpExHolds
  /\ PnlHolds

\* Figures that have been calculated differ from copied ones.
LEMMA CalculatedIsOwn ==
  ASSUME NEW r, NEW rules
  PROVE  EnrollmentValue(r, rules) # Copied
  BY DEF EnrollmentValue, Copied

\* The part of the invariant that concerns one version's figures is kept by
\* a step that changes none of them and marks what draws on edited inputs.
LEMMA FiguresUntouched ==
  ASSUME PipelineInv, UNCHANGED outputs, stale \subseteq stale',
         rev["enrollment"] # rev'["enrollment"] =>
           {"ENROLLMENT", "REVENUE", "STAFFING", "PNL"} \subseteq stale',
         rev["rules"] # rev'["rules"] => "ENROLLMENT" \in stale',
         rev["masterData"] = rev'["masterData"], rev["history"] = rev'["history"],
         rev["detail"] # rev'["detail"] => "REVENUE" \in stale',
         rev["pricing"] # rev'["pricing"] => "REVENUE" \in stale',
         rev["staffing"] # rev'["staffing"] => "STAFFING" \in stale',
         rev["opexLines"] # rev'["opexLines"] => {"OPEX", "PNL"} \subseteq stale',
         rev["opexRates"] = rev'["opexRates"],
         rev["opexLabels"] = rev'["opexLabels"]
  PROVE  /\ Provenance' /\ EnrollmentHolds' /\ RevenueHolds' /\ StaffingHolds'
         /\ OpExHolds' /\ PnlHolds'
  <1> USE DEF PipelineInv, outputs, Own, HasRows
  <1>1. Provenance'
    BY DEF Provenance
  <1>2. EnrollmentHolds'
    BY DEF EnrollmentHolds, EnrollmentCurrent, EnrollmentValue
  <1>3. RevenueHolds'
    BY DEF RevenueHolds, RevenueCurrent, RevenueValue
  <1>4. StaffingHolds'
    BY DEF StaffingHolds, StaffingCurrent, StaffingValue
  <1>5. OpExHolds'
    BY DEF OpExHolds, OpExCurrent, OpExValue
  <1>6. PnlHolds'
    BY DEF PnlHolds, PnlCurrent, PnlValue
  <1> QED BY <1>1, <1>2, <1>3, <1>4, <1>5, <1>6

\* A new version, whether empty, copied or imported, starts with it.
LEMMA PipelineInvInit == Init => PipelineInv
  <1> SUFFICES ASSUME Init PROVE PipelineInv
    OBVIOUS
  <1>1. TypeOK
    BY PipelineAssumption DEF Init, TypeOK, Statuses, Modules
  <1>2. CleanNeedsCleanUpstream /\ PnlHolds
    BY DEF Init, CleanNeedsCleanUpstream, PnlHolds, Own
  <1>3. Provenance
    BY DEF Init, Provenance, Own, NoRows, Copied
  <1>4. EnrollmentHolds /\ RevenueHolds /\ StaffingHolds /\ OpExHolds
    BY DEF Init, EnrollmentHolds, RevenueHolds, StaffingHolds, OpExHolds, Own
  <1> QED BY <1>1, <1>2, <1>3, <1>4 DEF PipelineInv

\* The part of the invariant that follows from the figures' provenance.
FiguresHold ==
  /\ Provenance /\ EnrollmentHolds /\ RevenueHolds /\ StaffingHolds
  /\ OpExHolds /\ PnlHolds

\* The edits that change no figure themselves keep it.
LEMMA FlaggedEdits ==
  ASSUME PipelineInv,
         \/ EditPlanningRules \/ EditDetail \/ EditPricing \/ EditRevenueSettings
         \/ EditScenario \/ EditStaffingInputs \/ EditEmployee \/ EditOpExEntryMode
  PROVE  FiguresHold'
  <1> USE DEF Inputs, SilentInputs
  <1>1. TypeOK
    BY DEF PipelineInv
  <1>2. CASE EditPlanningRules
    BY <1>1, <1>2, BumpType, FiguresUntouched
       DEF EditPlanningRules, WritePlanningRules, RulesMarks, FiguresHold
  <1>3. CASE EditDetail
    BY <1>1, <1>3, BumpType, FiguresUntouched
       DEF EditDetail, WriteDetail, DetailMarks, FiguresHold
  <1>4. CASE EditPricing
    BY <1>1, <1>4, BumpType, FiguresUntouched
       DEF EditPricing, WritePricing, PricingMarks, FiguresHold
  <1>5. CASE EditRevenueSettings
    BY <1>1, <1>5, BumpType, FiguresUntouched
       DEF EditRevenueSettings, WriteRevenueSettings, RevenueSettingsMarks, FiguresHold
  <1>6. CASE EditScenario
    BY <1>1, <1>6, BumpType, FiguresUntouched
       DEF EditScenario, WriteScenario, ScenarioMarks, FiguresHold
  <1>7. CASE EditStaffingInputs
    BY <1>1, <1>7, BumpType, FiguresUntouched
       DEF EditStaffingInputs, WriteStaffingInputs, FiguresHold
  <1>8. CASE EditEmployee
    BY <1>1, <1>8, BumpType, FiguresUntouched
       DEF EditEmployee, WriteEmployee, FiguresHold
  <1>9. CASE EditOpExEntryMode
    BY <1>1, <1>9, BumpType, FiguresUntouched
       DEF EditOpExEntryMode, PatchOpExLine, OpExMarks, FiguresHold
  <1> QED BY <1>2, <1>3, <1>4, <1>5, <1>6, <1>7, <1>8, <1>9

\* So do the edits that overwrite calculated rows.
LEMMA OverwritingEdits ==
  ASSUME PipelineInv,
         EditEnrollmentInputs \/ SetupApply \/ RemoveEmployee \/ EditOpExLines
  PROVE  FiguresHold'
  <1> USE DEF FiguresHold, PipelineInv, Inputs, SilentInputs
  <1>1. CASE EditEnrollmentInputs
    <2>1. PICK i : i = "enrollment" /\ Bump(i) /\ stale' = stale \cup EnrollmentMarks
      BY <1>1 DEF EditEnrollmentInputs, WriteEnrollmentInputs
    <2>2. /\ enrOut' \in {enrOut, Typed(rev'["enrollment"])}
          /\ UNCHANGED <<revOut, staffOut, opexOut, pnlOut>>
      BY <1>1 DEF EditEnrollmentInputs, WriteEnrollmentInputs
    <2>3. Provenance'
      BY <2>1, <2>2 DEF Provenance, EnrollmentMarks, Own, HasRows, NoRows, Typed
    <2>4. EnrollmentHolds' /\ RevenueHolds' /\ StaffingHolds' /\ PnlHolds'
      BY <2>1 DEF EnrollmentHolds, RevenueHolds, StaffingHolds, PnlHolds,
                  EnrollmentMarks
    <2>5. OpExHolds'
      BY <2>1, <2>2, BumpType
         DEF OpExHolds, OpExCurrent, OpExValue, Own, EnrollmentMarks
    <2> QED BY <2>3, <2>4, <2>5
  <1>2. CASE SetupApply
    <2>1. /\ stale' = (stale \cup EnrollmentMarks) \ {"ENROLLMENT"}
          /\ UNCHANGED <<revOut, staffOut, opexOut, pnlOut>>
          /\ WriteSetup(stale, rev["rules"])
      BY <1>2 DEF SetupApply, WriteSetup
    <2>2. enrOut' = EnrollmentValue(rev', rev'["rules"])
      <3>1. CASE rev' = Edited("enrollment") /\ enrOut' = EnrollmentValue(rev', rev["rules"])
        BY <3>1 DEF TypeOK, Edited
      <3> QED BY <2>1, <3>1 DEF WriteSetup
    <2>3. Provenance'
      BY <2>1, <2>2, CalculatedIsOwn DEF Provenance, Own, HasRows, EnrollmentValue, NoRows
    <2>4. EnrollmentHolds'
      BY <2>2 DEF EnrollmentHolds, EnrollmentCurrent
    <2>5. RevenueHolds' /\ StaffingHolds' /\ PnlHolds'
      BY <2>1 DEF RevenueHolds, StaffingHolds, PnlHolds, EnrollmentMarks
    <2>6. OpExHolds'
      BY <2>1, SetupType DEF OpExHolds, OpExCurrent, OpExValue, Own, EnrollmentMarks
    <2> QED BY <2>3, <2>4, <2>5, <2>6
  <1>3. CASE RemoveEmployee
    <2>1. /\ Bump("staffing") /\ stale' = stale \cup {"STAFFING"}
          /\ UNCHANGED <<enrOut, revOut, opexOut, pnlOut>>
      BY <1>3 DEF RemoveEmployee, DeleteEmployee
    <2>2. /\ rev'["enrollment"] = rev["enrollment"] /\ rev'["rules"] = rev["rules"]
          /\ rev'["masterData"] = rev["masterData"] /\ rev'["history"] = rev["history"]
          /\ rev'["detail"] = rev["detail"]
          /\ rev'["pricing"] = rev["pricing"] /\ rev'["opexLines"] = rev["opexLines"]
          /\ rev'["opexRates"] = rev["opexRates"]
      BY <2>1, BumpType
    <2>3. Provenance' /\ StaffingHolds' /\ PnlHolds'
      BY <2>1 DEF Provenance, StaffingHolds, PnlHolds, Own, HasRows
    <2>4. EnrollmentHolds' /\ RevenueHolds' /\ OpExHolds'
      BY <2>1, <2>2 DEF EnrollmentHolds, EnrollmentCurrent, EnrollmentValue, RevenueHolds,
         RevenueCurrent, RevenueValue, OpExHolds, OpExCurrent, OpExValue, Own
    <2> QED BY <2>3, <2>4
  <1>4. CASE EditOpExLines
    <2>1. /\ Bump("opexLines") /\ stale' = stale \cup OpExMarks
          /\ UNCHANGED <<enrOut, revOut, staffOut, pnlOut>>
      BY <1>4 DEF EditOpExLines, WriteOpExLines
    <2>2. /\ rev'["enrollment"] = rev["enrollment"] /\ rev'["rules"] = rev["rules"]
          /\ rev'["masterData"] = rev["masterData"] /\ rev'["history"] = rev["history"]
          /\ rev'["detail"] = rev["detail"]
          /\ rev'["pricing"] = rev["pricing"] /\ rev'["staffing"] = rev["staffing"]
      BY <2>1, BumpType
    <2>3. Provenance' /\ OpExHolds' /\ PnlHolds'
      BY <2>1 DEF Provenance, OpExHolds, PnlHolds, Own, HasRows, OpExMarks
    <2>4. EnrollmentHolds' /\ RevenueHolds' /\ StaffingHolds'
      BY <2>1, <2>2 DEF EnrollmentHolds, EnrollmentCurrent, EnrollmentValue, RevenueHolds,
         RevenueCurrent, RevenueValue, StaffingHolds, StaffingCurrent, StaffingValue, Own,
         OpExMarks
    <2> QED BY <2>3, <2>4
  <1> QED BY <1>1, <1>2, <1>3, <1>4

\* A calculation makes its own figure current, and what it may have changed
\* for the others is either marked or, by the invariant, no change at all.
LEMMA Calculations ==
  ASSUME PipelineInv, Calculate
  PROVE  FiguresHold'
  <1> USE DEF FiguresHold, PipelineInv
  <1>1. CASE CalcEnrollment
    <2>1. /\ enrOut' = EnrollmentValue(rev, rev["rules"])
          /\ stale' = stale \ {"ENROLLMENT"}
          /\ UNCHANGED <<rev, revOut, staffOut, opexOut, pnlOut>>
      BY <1>1 DEF CalcEnrollment, CommitEnrollment
    <2>2. Provenance'
      BY <2>1, CalculatedIsOwn DEF Provenance, Own, HasRows, EnrollmentValue, NoRows
    <2>3. EnrollmentHolds'
      BY <2>1 DEF EnrollmentHolds, EnrollmentCurrent, EnrollmentValue
    \* Fresh revenue stands on fresh enrollment, which recalculating keeps.
    <2>4. ASSUME Own(revOut), "REVENUE" \notin stale PROVE enrOut' = enrOut
      BY <2>1, <2>4 DEF CleanNeedsCleanUpstream, Provenance, EnrollmentHolds,
         EnrollmentCurrent, Own, HasRows
    <2>5. RevenueHolds'
      BY <2>1, <2>4 DEF RevenueHolds, RevenueCurrent, RevenueValue, Own
    <2>6. StaffingHolds'
      BY <2>1, <2>4 DEF StaffingHolds, StaffingCurrent, StaffingValue, Own
    <2>7. OpExHolds' /\ PnlHolds'
      BY <2>1 DEF OpExHolds, OpExCurrent, OpExValue, PnlHolds, PnlCurrent,
         PnlValue, Own
    <2> QED BY <2>2, <2>3, <2>5, <2>6, <2>7
  <1>2. CASE CalcRevenue
    <2>1. /\ revOut' = RevenueValue
          /\ stale' = (stale \ {"REVENUE"}) \cup {"STAFFING", "OPEX", "PNL"}
          /\ UNCHANGED <<rev, enrOut, staffOut, opexOut, pnlOut>>
          /\ RevenueReady
      BY <1>2 DEF CalcRevenue, CommitRevenue
    <2>2. Provenance' /\ EnrollmentHolds'
      BY <2>1 DEF Provenance, EnrollmentHolds, EnrollmentCurrent, EnrollmentValue,
         RevenueReady, Own, HasRows
    <2>3. RevenueHolds'
      BY <2>1 DEF RevenueHolds, RevenueCurrent, RevenueValue
    <2>4. StaffingHolds' /\ OpExHolds' /\ PnlHolds'
      BY <2>1 DEF StaffingHolds, OpExHolds, PnlHolds
    <2> QED BY <2>2, <2>3, <2>4
  <1>3. CASE CalcStaffing
    <2>1. /\ staffOut' = StaffingValue
          /\ stale' = (stale \ {"STAFFING"}) \cup {"PNL"}
          /\ UNCHANGED <<rev, enrOut, revOut, opexOut, pnlOut>>
      BY <1>3 DEF CalcStaffing, CommitStaffing
    <2>2. Provenance' /\ EnrollmentHolds' /\ RevenueHolds' /\ OpExHolds'
      BY <2>1 DEF Provenance, EnrollmentHolds, EnrollmentCurrent, EnrollmentValue,
         RevenueHolds, RevenueCurrent, RevenueValue, OpExHolds, OpExCurrent, OpExValue,
         Own, HasRows
    <2>3. StaffingHolds' /\ PnlHolds'
      BY <2>1 DEF StaffingHolds, StaffingCurrent, StaffingValue, PnlHolds
    <2> QED BY <2>2, <2>3
  <1>4. CASE CalcOpEx
    <2>1. /\ opexOut' = OpExValue
          /\ stale' = (stale \ {"OPEX"}) \cup {"PNL"}
          /\ UNCHANGED <<rev, enrOut, revOut, staffOut, pnlOut>>
      BY <1>4 DEF CalcOpEx, CommitOpEx
    <2>2. Provenance' /\ EnrollmentHolds' /\ RevenueHolds' /\ StaffingHolds'
      BY <2>1 DEF Provenance, EnrollmentHolds, EnrollmentCurrent, EnrollmentValue,
         RevenueHolds, RevenueCurrent, RevenueValue, StaffingHolds, StaffingCurrent,
         StaffingValue, Own, HasRows
    <2>3. OpExHolds' /\ PnlHolds'
      BY <2>1 DEF OpExHolds, OpExCurrent, OpExValue, PnlHolds
    <2> QED BY <2>2, <2>3
  <1>5. CASE CalcPnl
    <2>1. /\ pnlOut' = PnlValue
          /\ stale' = stale \ {"PNL"}
          /\ UNCHANGED <<rev, enrOut, revOut, staffOut, opexOut>>
      BY <1>5 DEF CalcPnl, CommitPnl
    <2>2. Provenance' /\ EnrollmentHolds' /\ RevenueHolds' /\ StaffingHolds' /\ OpExHolds'
      BY <2>1 DEF Provenance, EnrollmentHolds, EnrollmentCurrent, EnrollmentValue,
         RevenueHolds, RevenueCurrent, RevenueValue, StaffingHolds, StaffingCurrent,
         StaffingValue, OpExHolds, OpExCurrent, OpExValue, Own, HasRows
    <2>3. PnlHolds'
      BY <2>1 DEF PnlHolds, PnlCurrent, PnlValue
    <2> QED BY <2>2, <2>3
  <1> QED BY <1>1, <1>2, <1>3, <1>4, <1>5 DEF Calculate

\* Every step that leaves the silent inputs alone keeps the invariant.
LEMMA FiguresStep ==
  ASSUME PipelineInv, [Next]_vars,
         ~(EditOpExRate \/ EditOpExLabels \/ EditMasterData \/ EditHistory)
  PROVE  FiguresHold'
  <1>1. CASE SetStatus \/ UNCHANGED vars
    BY <1>1, FiguresUntouched DEF SetStatus, vars, outputs, FiguresHold
  <1> QED
    BY <1>1, FlaggedEdits, OverwritingEdits, Calculations DEF Next, Edit

\* The count of an input's edits never falls, and a silent edit leaves its
\* trace in it.
LEMMA CountsGrow ==
  ASSUME TypeOK, [Next]_vars
  PROVE  /\ NoneSilent' => NoneSilent
         /\ EditOpExRate \/ EditOpExLabels \/ EditMasterData \/ EditHistory => ~NoneSilent'
  <1>1. SilentInputs \subseteq Inputs /\ rev \in [Inputs -> Nat]
    BY DEF SilentInputs, Inputs, TypeOK
  <1>2. ASSUME NEW i \in Inputs, Bump(i)
        PROVE  /\ \A j \in SilentInputs : j # i => rev'[j] = rev[j]
               /\ rev'[i] # 0 /\ rev[i] \in Nat
    BY <1>1, <1>2 DEF Bump, Edited
  <1>3. ASSUME \E i \in Inputs \ SilentInputs : Bump(i)
        PROVE  \A j \in SilentInputs : rev'[j] = rev[j]
    BY <1>2, <1>3
  <1>4. CASE EditOpExRate
    <2>1. Bump("opexRates")
      BY <1>4 DEF EditOpExRate, EditSilently
    <2>2. rev'["opexRates"] # 0
      BY <1>2, <2>1 DEF Inputs, SilentInputs
    <2> QED BY <2>2 DEF NoneSilent, SilentInputs
  <1>5. CASE EditOpExLabels
    <2>1. Bump("opexLabels")
      BY <1>5 DEF EditOpExLabels, EditSilently
    <2>2. rev'["opexLabels"] # 0
      BY <1>2, <2>1 DEF Inputs, SilentInputs
    <2> QED BY <2>2 DEF NoneSilent, SilentInputs
  <1>6. CASE EditMasterData
    <2>1. Bump("masterData")
      BY <1>6 DEF EditMasterData, EditSilently
    <2>2. rev'["masterData"] # 0
      BY <1>2, <2>1 DEF Inputs, SilentInputs
    <2> QED BY <2>2 DEF NoneSilent, SilentInputs
  <1>6a. CASE EditHistory
    <2>1. Bump("history")
      BY <1>6a DEF EditHistory, EditSilently
    <2>2. rev'["history"] # 0
      BY <1>2, <2>1 DEF Inputs, SilentInputs
    <2> QED BY <2>2 DEF NoneSilent, SilentInputs
  <1>7. ASSUME ~(EditOpExRate \/ EditOpExLabels \/ EditMasterData \/ EditHistory)
        PROVE  \A j \in SilentInputs : rev'[j] = rev[j]
    <2>1. CASE \E i \in Inputs \ SilentInputs : Bump(i)
      BY <1>3, <2>1
    <2>2. CASE SetupApply
      BY <2>2, SetupType DEF SetupApply, SilentInputs, Inputs
    <2>3. CASE UNCHANGED rev
      BY <2>3
    <2>4. \/ \E i \in Inputs \ SilentInputs : Bump(i)
          \/ SetupApply \/ UNCHANGED rev
      <3>1. EditEnrollmentInputs => Bump("enrollment")
        BY DEF EditEnrollmentInputs, WriteEnrollmentInputs
      <3>2. EditPlanningRules => Bump("rules")
        BY DEF EditPlanningRules, WritePlanningRules
      <3>3. EditDetail => Bump("detail")
        BY DEF EditDetail, WriteDetail
      <3>4. EditPricing \/ EditRevenueSettings => Bump("pricing")
        BY DEF EditPricing, WritePricing, EditRevenueSettings, WriteRevenueSettings
      <3>5. EditScenario => Bump("scenario")
        BY DEF EditScenario, WriteScenario
      <3>6. EditStaffingInputs \/ EditEmployee \/ RemoveEmployee => Bump("staffing")
        BY DEF EditStaffingInputs, WriteStaffingInputs, EditEmployee, WriteEmployee,
           RemoveEmployee, DeleteEmployee
      <3>7. EditOpExLines \/ EditOpExEntryMode => Bump("opexLines")
        BY DEF EditOpExLines, WriteOpExLines, EditOpExEntryMode, PatchOpExLine
      <3>8. Calculate => UNCHANGED rev
        BY DEF Calculate, CalcEnrollment, CommitEnrollment, CalcRevenue, CommitRevenue,
           CalcStaffing, CommitStaffing, CalcOpEx, CommitOpEx, CalcPnl, CommitPnl
      <3>9. SetStatus \/ UNCHANGED vars => UNCHANGED rev
        BY DEF SetStatus, vars
      <3>10. {"enrollment", "rules", "detail", "pricing", "scenario", "staffing", "opexLines"}
               \subseteq Inputs \ SilentInputs
        BY DEF Inputs, SilentInputs
      <3> QED
        BY <1>7, <3>1, <3>2, <3>3, <3>4, <3>5, <3>6, <3>7, <3>8, <3>9, <3>10 DEF Next, Edit
    <2> QED BY <2>1, <2>2, <2>3, <2>4
  <1> QED BY <1>4, <1>5, <1>6, <1>6a, <1>7 DEF NoneSilent, SilentInputs

\* The invariant holds of every version none of whose edits was silent.
LEMMA PipelineInvariant == Spec => [](NoneSilent => PipelineInv)
  <1> DEFINE Unless == NoneSilent => FiguresHold
  <1>1. Unless /\ TypeOK /\ CleanNeedsCleanUpstream /\ [Next]_vars => Unless'
    <2> SUFFICES ASSUME Unless, TypeOK, CleanNeedsCleanUpstream, [Next]_vars, NoneSilent'
                 PROVE  FiguresHold'
      OBVIOUS
    <2>1. NoneSilent /\ ~(EditOpExRate \/ EditOpExLabels \/ EditMasterData \/ EditHistory)
      BY CountsGrow
    <2>2. PipelineInv
      BY <2>1 DEF FiguresHold, PipelineInv
    <2> QED BY <2>1, <2>2, FiguresStep
  <1>2. Init => Unless
    BY PipelineInvInit DEF FiguresHold, PipelineInv
  <1>3. Unless /\ TypeOK /\ CleanNeedsCleanUpstream => (NoneSilent => PipelineInv)
    BY DEF FiguresHold, PipelineInv
  <1> HIDE DEF Unless
  <1> QED BY <1>1, <1>2, <1>3, TypeCorrect, UpstreamClean, PTL DEF Spec

\* A version that shows no stale module once all five have been calculated
\* holds exactly the figures a complete recalculation would give, unless an
\* edit was made that marks nothing.
THEOREM CleanIsCurrent == Spec => []CleanMeansCurrent
<1>1. (NoneSilent => PipelineInv) => CleanMeansCurrent
  BY DEF PipelineInv, CleanMeansCurrent, AllCalculated, EnrollmentHolds, RevenueHolds,
     StaffingHolds, OpExHolds, PnlHolds
<1> QED BY <1>1, PipelineInvariant, PTL

\* Under the same proviso a P&L that is not shown stale, beside staff costs
\* that are not either, agrees with the rows of the modules it sums up.
THEOREM PnlAgrees == Spec => []PnlMirrorsModules
<1>1. (NoneSilent => PipelineInv) => PnlMirrorsModules
  BY DEF PipelineInv, PnlHolds, PnlMirrorsModules
<1> QED BY <1>1, PipelineInvariant, PTL

-----------------------------------------------------------------------------
(* Progress.                                                               *)

\* Calculating a module that is shown stale lowers the rank of the stale
\* set in every state, reachable or not: no order of recalculations cycles.
THEOREM Progress == Spec => RecalculationProgresses
<1>1. [Next]_vars => [RecalcStale => Rank(stale') < Rank(stale)]_vars
  <2> SUFFICES ASSUME RecalcStale PROVE Rank(stale') < Rank(stale)
    OBVIOUS
  <2> USE DEF Rank
  <2>1. CASE "ENROLLMENT" \in stale /\ CalcEnrollment
    BY <2>1 DEF CalcEnrollment, CommitEnrollment
  <2>2. CASE "REVENUE" \in stale /\ CalcRevenue
    BY <2>2 DEF CalcRevenue, CommitRevenue
  <2>3. CASE "STAFFING" \in stale /\ CalcStaffing
    BY <2>3 DEF CalcStaffing, CommitStaffing
  <2>4. CASE "OPEX" \in stale /\ CalcOpEx
    BY <2>4 DEF CalcOpEx, CommitOpEx
  <2>5. CASE "PNL" \in stale /\ CalcPnl
    BY <2>5 DEF CalcPnl, CommitPnl
  <2> QED BY <2>1, <2>2, <2>3, <2>4, <2>5 DEF RecalcStale
<1> QED BY <1>1, PTL DEF Spec, RecalculationProgresses

-----------------------------------------------------------------------------
(* One request at a time: nothing a request has read can have changed when *)
(* its transaction opens, so that the handlers taken apart at their awaits *)
(* implement the atomic pipeline, and all that is proved of it holds.      *)

\* What a request holds that has just read.
Read(phase, op, value) ==
  [phase |-> phase, op |-> op, status |-> status, stale |-> stale,
   rules |-> rev["rules"], value |-> value]

\* All that a request in flight has read and checked is still the case.
Fresh(q) ==
  \/ q = Idle
  \/ \E op \in Ops :
       /\ Admitted(op)
       /\ \/ op \notin CalcOps /\ q = Read("ready", op, NoRows)
          \/ op \in CalcOps /\ q = Read("reading", op, NoRows)
          \/ /\ op \in CalcOps /\ q = Read("ready", op, ValueNow(op))
             /\ op \in {"calcRevenue", "calcStaffing"} => HasRows(enrOut)

RequestsInv ==
  /\ req = [r \in Requests |-> req[r]]
  /\ \A r \in Requests : Fresh(req[r])

Alone == \A r, q \in Requests : r = q

-----------------------------------------------------------------------------
\* What a request was admitted for decides which guard held.
LEMMA AdmittedGuards ==
  ASSUME NEW op \in Ops, Admitted(op)
  PROVE  /\ op \in EnrollmentOps => EnrollmentWritable
         /\ op \in DraftOps => DraftOnly
         /\ op \in OpExOps => OpExWritable
         /\ op = "calcRevenue" => EnrollmentWritable /\ "ENROLLMENT" \notin stale
         /\ op = "calcStaffing" => DraftOnly
         /\ op = "calcOpEx" => OpExReady
         /\ op = "calcPnl" => PnlReady
BY DEF Admitted, EnrollmentOps, DraftOps, OpExOps, OpenOps

\* An edit whose reads are accurate is the edit of the atomic pipeline.
LEMMA FreshEdits ==
  ASSUME NEW op \in Ops, Admitted(op), op \notin CalcOps,
         Write(Read("ready", op, NoRows)), UNCHANGED <<origin, status>>
  PROVE  Next
  <1> DEFINE q == Read("ready", op, NoRows)
  <1>1. q.op = op /\ q.status = status /\ q.stale = stale /\ q.rules = rev["rules"]
    BY DEF Read
  <1>2. /\ op \in EnrollmentOps => EnrollmentWritable
        /\ op \in DraftOps => DraftOnly
        /\ op \in OpExOps => OpExWritable
    BY AdmittedGuards
  <1>3. Write(q)
    OBVIOUS
  <1> HIDE DEF q
  <1>4. ASSUME op \in EnrollmentOps PROVE Next
    <2>1. \/ WriteEnrollmentInputs(stale) \/ WritePlanningRules(stale)
          \/ WriteSetup(stale, rev["rules"]) \/ CommitEnrollment(stale, rev["rules"])
      BY <1>1, <1>3, <1>4 DEF Write, EnrollmentOps
    <2> QED
      BY <1>2, <1>4, <2>1 DEF Next, Edit, Calculate, EditEnrollmentInputs,
         EditPlanningRules, SetupApply, CalcEnrollment
  <1>5. ASSUME op \in DraftOps PROVE Next
    <2>1. \/ WriteDetail(stale) \/ WritePricing(stale) \/ WriteRevenueSettings(stale)
          \/ WriteStaffingInputs(stale) \/ WriteEmployee
      BY <1>1, <1>3, <1>5 DEF Write, DraftOps
    <2> QED
      BY <1>2, <1>5, <2>1 DEF Next, Edit, EditDetail, EditPricing, EditRevenueSettings,
         EditStaffingInputs, EditEmployee
  <1>6. ASSUME op \in OpExOps PROVE Next
    <2>1. \/ WriteOpExLines(stale) \/ PatchOpExLine(stale) \/ DeleteEmployee(status)
          \/ op = "opexRate" /\ EditSilently("opexRates")
          \/ op = "opexLabels" /\ EditSilently("opexLabels")
      BY <1>1, <1>3, <1>6 DEF Write, OpExOps
    <2> QED
      BY <1>2, <1>6, <2>1, RequestsAssumption DEF Next, Edit, EditOpExLines,
         EditOpExEntryMode, RemoveEmployee, EditOpExRate, EditOpExLabels
  <1>7. ASSUME op \in OpenOps PROVE Next
    <2>1. \/ WriteScenario(stale)
          \/ op \in {"masterData", "history"} /\ EditSilently(op)
      BY <1>1, <1>3, <1>7 DEF Write, OpenOps
    <2> QED
      BY <2>1, RequestsAssumption DEF Next, Edit, EditScenario, EditMasterData,
         EditHistory
  <1> QED BY <1>4, <1>5, <1>6, <1>7, RequestsAssumption DEF CalcOps

\* A calculation from accurate reads is the one of the atomic pipeline.
LEMMA FreshCalculations ==
  ASSUME NEW op \in Ops, Admitted(op), op \in CalcOps,
         op \in {"calcRevenue", "calcStaffing"} => HasRows(enrOut),
         Write(Read("ready", op, ValueNow(op))), UNCHANGED <<origin, status>>
  PROVE  Next
  <1> DEFINE q == Read("ready", op, ValueNow(op))
  <1>1. q.op = op /\ q.stale = stale /\ q.value = ValueNow(op) /\ Write(q)
    BY DEF Read
  <1> HIDE DEF q
  <1>2. \/ op = "calcRevenue" /\ CommitRevenue(stale, RevenueValue)
        \/ op = "calcStaffing" /\ CommitStaffing(stale, StaffingValue)
        \/ op = "calcOpEx" /\ CommitOpEx(stale, OpExValue)
        \/ op = "calcPnl" /\ CommitPnl(stale, PnlValue)
    BY <1>1 DEF Write, CalcOps, ValueNow
  <1>3. CalcRevenue \/ CalcStaffing \/ CalcOpEx \/ CalcPnl
    BY <1>2, AdmittedGuards DEF CalcRevenue, CalcStaffing, CalcOpEx, CalcPnl,
       RevenueReady, StaffingReady, EnrollmentWritable, DraftOnly
  <1> QED BY <1>3 DEF Next, Calculate

\* A change of status that still starts from the status read is one of the
\* atomic pipeline.
LEMMA FreshStatus ==
  ASSUME NEW phase, NEW op, NEW value,
         WriteStatus(Read(phase, op, value)), UNCHANGED origin
  PROVE  Next
BY DEF WriteStatus, Read, Next, SetStatus

\* While the version stays as it is, what was accurate stays so.
LEMMA FreshStays ==
  ASSUME UNCHANGED vars, NEW q, Fresh(q)
  PROVE  Fresh(q)'
  <1>1. /\ UNCHANGED <<origin, status, stale, rev>>
        /\ UNCHANGED <<enrOut, revOut, staffOut, opexOut, pnlOut>>
    BY DEF vars, outputs
  <1>2. \A op : Admitted(op)' <=> Admitted(op)
    BY <1>1 DEF Admitted, EnrollmentWritable, DraftOnly, OpExWritable, OpExReady, PnlReady
  <1>3. UNCHANGED <<RevenueValue, StaffingValue, OpExValue, PnlValue>>
    BY <1>1 DEF RevenueValue, StaffingValue, OpExValue, PnlValue
  <1>4. \A op \in CalcOps : ValueNow(op)' = ValueNow(op)
    BY <1>3 DEF CalcOps, ValueNow
  <1>5. \A phase, op, value : Read(phase, op, value)' = Read(phase, op, value)
    BY <1>1 DEF Read
  <1>6. HasRows(enrOut)' <=> HasRows(enrOut)
    BY <1>1 DEF HasRows
  <1> QED BY <1>2, <1>4, <1>5, <1>6 DEF Fresh

\* A step that reads, or gives up, leaves the version alone, and what the
\* request then holds is accurate.
LEMMA QuietStep ==
  ASSUME RequestsInv, UNCHANGED vars, NEW r \in Requests, NEW q,
         req' = [req EXCEPT ![r] = q], Fresh(q)
  PROVE  RequestsInv'
  <1>1. req' = [s \in Requests |-> req'[s]]
    BY DEF RequestsInv
  <1>2. ASSUME NEW s \in Requests PROVE Fresh(req[s])'
    <2>1. PICK held : held = req'[s]
      OBVIOUS
    <2>2. Fresh(held)
      BY <2>1 DEF RequestsInv
    <2> QED BY <2>1, <2>2, FreshStays
  <1> QED BY <1>1, <1>2 DEF RequestsInv

\* The transaction of the only request in flight is a step of the atomic
\* pipeline.
LEMMA CommitIsAtomic ==
  ASSUME RequestsInv, NEW r \in Requests, Commit(r)
  PROVE  Next
  <1>1. req[r].phase = "ready" /\ UNCHANGED origin
    BY DEF Commit
  <1>2. PICK op \in Ops :
          /\ Admitted(op)
          /\ \/ op \notin CalcOps /\ req[r] = Read("ready", op, NoRows)
             \/ /\ op \in CalcOps /\ req[r] = Read("ready", op, ValueNow(op))
                /\ op \in {"calcRevenue", "calcStaffing"} => HasRows(enrOut)
    BY <1>1 DEF RequestsInv, Fresh, Read, Idle
  <1>3. CASE WriteStatus(req[r])
    BY <1>1, <1>2, <1>3, FreshStatus
  <1>4. CASE Write(req[r]) /\ UNCHANGED status
    <2>1. CASE op \notin CalcOps
      BY <1>1, <1>2, <1>4, <2>1, FreshEdits
    <2>2. CASE op \in CalcOps
      BY <1>1, <1>2, <1>4, <2>2, FreshCalculations
    <2> QED BY <2>1, <2>2
  <1> QED BY <1>3, <1>4 DEF Commit

\* With one request at a time, every step keeps what is held accurate and
\* is a step of the atomic pipeline or leaves the version alone.
LEMMA RequestStep ==
  ASSUME Alone, RequestsInv, [NextRequest]_requestVars
  PROVE  RequestsInv' /\ [Next]_vars
  <1>1. ASSUME NEW r \in Requests, ReadVersion(r)
        PROVE  RequestsInv' /\ UNCHANGED vars
    <2>1. PICK op \in Ops :
            /\ Admitted(op)
            /\ req' = [req EXCEPT ![r] =
                 Read(IF op \in CalcOps THEN "reading" ELSE "ready", op, NoRows)]
      BY <1>1 DEF ReadVersion, Read
    <2>2. Fresh(Read(IF op \in CalcOps THEN "reading" ELSE "ready", op, NoRows))
      BY <2>1 DEF Fresh
    <2> QED BY <1>1, <2>1, <2>2, QuietStep DEF ReadVersion
  <1>2. ASSUME NEW r \in Requests, ReadInputs(r)
        PROVE  RequestsInv' /\ UNCHANGED vars
    <2>1. PICK op \in CalcOps \cap Ops : Admitted(op) /\ req[r] = Read("reading", op, NoRows)
      BY <1>2 DEF ReadInputs, RequestsInv, Fresh, Read, Idle
    <2>2. /\ req[r].op = op /\ req[r].status = status /\ req[r].stale = stale
          /\ req[r].rules = rev["rules"]
      BY <2>1 DEF Read
    <2>3. req' = [req EXCEPT ![r] = Read("ready", op, ValueNow(op))]
      BY <1>2, <2>2 DEF ReadInputs, Read
    <2>4. Fresh(Read("ready", op, ValueNow(op)))
      BY <1>2, <2>1, <2>2 DEF Fresh, ReadInputs
    <2> QED BY <1>2, <2>3, <2>4, QuietStep DEF ReadInputs
  <1>3. ASSUME NEW r \in Requests, Commit(r)
        PROVE  RequestsInv' /\ Next
    <2>1. req' = [req EXCEPT ![r] = Idle]
      BY <1>3 DEF Commit
    <2>2. \A s \in Requests : req'[s] = Idle
      BY <2>1 DEF Alone, RequestsInv
    <2>3. RequestsInv'
      BY <2>1, <2>2 DEF RequestsInv, Fresh
    <2> QED BY <1>3, <2>3, CommitIsAtomic
  <1>4. ASSUME NEW r \in Requests, Abort(r)
        PROVE  RequestsInv' /\ UNCHANGED vars
    BY <1>4, QuietStep DEF Abort, Fresh
  <1>5. CASE UNCHANGED requestVars
    <2>1. UNCHANGED vars /\ UNCHANGED req
      BY <1>5 DEF requestVars
    <2>2. ASSUME NEW s \in Requests PROVE Fresh(req[s])'
      <3>1. PICK held : held = req'[s]
        OBVIOUS
      <3>2. Fresh(held)
        BY <2>1, <3>1 DEF RequestsInv
      <3> QED BY <2>1, <3>1, <3>2, FreshStays
    <2> QED BY <2>1, <2>2 DEF RequestsInv
  <1> QED BY <1>1, <1>2, <1>3, <1>4, <1>5 DEF NextRequest

\* A server that answers one request at a time implements the atomic
\* pipeline, the version's state being mapped to itself.
THEOREM OneRequestIsAtomic ==
  ASSUME Alone
  PROVE  RequestSpec => AtomicPipeline
<1>1. InitRequests => Init /\ RequestsInv
  BY DEF InitRequests, RequestsInv, Fresh
<1>2. RequestsInv /\ [NextRequest]_requestVars => RequestsInv' /\ [Next]_vars
  BY RequestStep
<1> QED BY <1>1, <1>2, PTL DEF RequestSpec, AtomicPipeline, Spec

\* Hence what the marks achieve handler by handler they achieve in such a
\* server: while no edit was silent, what is shown clean is up to date.  The
\* overlap of two requests is the only other way to lose a mark.
THEOREM OneRequestStaysCurrent ==
  ASSUME Alone
  PROVE  RequestSpec => []CleanMeansCurrent
<1> QED BY OneRequestIsAtomic, CleanIsCurrent, PTL DEF AtomicPipeline
=============================================================================
