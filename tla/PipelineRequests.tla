-------------------------- MODULE PipelineRequests --------------------------
(***************************************************************************)
(* The handlers of CalcPipeline as they run in the server: interleaved at  *)
(* every await.  A handler reads the version row, checks its status and    *)
(* stale modules, reads the inputs of its calculation, and only then opens *)
(* the transaction in which it writes rows and overwrites staleModules     *)
(* from the array it read first.  The transaction runs at READ COMMITTED   *)
(* and rereads nothing, so it is one step here.  The queries that read the *)
(* inputs of one calculation are taken as one step as well.                *)
(***************************************************************************)
EXTENDS CalcPipeline

CONSTANTS
  Requests,  \* requests in flight at the same time, at most
  Ops        \* the operations users call

EnrollmentOps == {"enrollmentInputs", "planningRules", "setup", "calcEnrollment"}
DraftOps == {"detail", "pricing", "revenueSettings", "staffingInputs", "employee"}
OpExOps == {"opexLines", "opexEntryMode", "opexRate", "opexLabels", "removeEmployee"}
CalcOps == {"calcRevenue", "calcStaffing", "calcOpEx", "calcPnl"}
OpenOps == {"scenario", "masterData", "history", "setStatus"}

ASSUME RequestsAssumption ==
  /\ Ops \subseteq (EnrollmentOps \cup DraftOps \cup OpExOps \cup CalcOps \cup OpenOps)
  /\ "opexRate" \in Ops => "opexRates" \in SilentEdits
  /\ "opexLabels" \in Ops => "opexLabels" \in SilentEdits
  /\ Ops \cap {"masterData", "history"} \subseteq SilentEdits

VARIABLE req  \* req[r]: what request r is doing and what it has read

requestVars == <<vars, req>>

Idle == [phase |-> "idle"]

InitRequests == Init /\ req = [r \in Requests |-> Idle]

-----------------------------------------------------------------------------
\* Mutant: P&L is calculated whatever is stale.
AdmittedUngated(op) ==
  \/ op \in EnrollmentOps /\ EnrollmentWritable
  \/ op \in DraftOps /\ DraftOnly
  \/ op \in OpExOps \cup {"calcPnl"} /\ OpExWritable
  \/ op = "calcRevenue" /\ EnrollmentWritable /\ "ENROLLMENT" \notin stale
  \/ op = "calcStaffing" /\ DraftOnly
  \/ op = "calcOpEx" /\ OpExReady
  \/ op \in OpenOps

\* The checks on the version row just read.
Admitted(op) ==
  \/ op \in EnrollmentOps /\ EnrollmentWritable
  \/ op \in DraftOps /\ DraftOnly
  \/ op \in OpExOps /\ OpExWritable
  \/ op = "calcRevenue" /\ EnrollmentWritable /\ "ENROLLMENT" \notin stale
  \/ op = "calcStaffing" /\ DraftOnly
  \/ op = "calcOpEx" /\ OpExReady
  \/ op = "calcPnl" /\ PnlReady
  \/ op \in OpenOps

ReadVersion(r) ==
  /\ req[r] = Idle
  /\ \E op \in Ops :
       /\ Admitted(op)
       /\ req' = [req EXCEPT ![r] =
            [phase |-> IF op \in CalcOps THEN "reading" ELSE "ready", op |-> op,
             status |-> status, stale |-> stale, rules |-> rev["rules"],
             value |-> NoRows]]
  /\ UNCHANGED vars

\* What a calculation would produce from the rows as they are.
ValueNow(op) ==
  CASE op = "calcRevenue" -> RevenueValue
    [] op = "calcStaffing" -> StaffingValue
    [] op = "calcOpEx" -> OpExValue
    [] op = "calcPnl" -> PnlValue

ReadInputs(r) ==
  LET q == req[r] IN
  /\ q.phase = "reading"
  /\ q.op \in {"calcRevenue", "calcStaffing"} => HasRows(enrOut)
  /\ req' = [req EXCEPT ![r] =
       [phase |-> "ready", op |-> q.op, status |-> q.status, stale |-> q.stale,
        rules |-> q.rules, value |-> ValueNow(q.op)]]
  /\ UNCHANGED vars

\* The transaction of a request that has read q.
Write(q) ==
  \/ q.op = "enrollmentInputs" /\ WriteEnrollmentInputs(q.stale)
  \/ q.op = "planningRules" /\ WritePlanningRules(q.stale)
  \/ q.op = "setup" /\ WriteSetup(q.stale, q.rules)
  \/ q.op = "detail" /\ WriteDetail(q.stale)
  \/ q.op = "pricing" /\ WritePricing(q.stale)
  \/ q.op = "revenueSettings" /\ WriteRevenueSettings(q.stale)
  \/ q.op = "scenario" /\ WriteScenario(q.stale)
  \/ q.op = "staffingInputs" /\ WriteStaffingInputs(q.stale)
  \/ q.op = "employee" /\ WriteEmployee
  \/ q.op = "removeEmployee" /\ DeleteEmployee(q.status)
  \/ q.op = "opexLines" /\ WriteOpExLines(q.stale)
  \/ q.op = "opexEntryMode" /\ PatchOpExLine(q.stale)
  \/ q.op = "opexRate" /\ EditSilently("opexRates")
  \/ q.op = "opexLabels" /\ EditSilently("opexLabels")
  \/ q.op \in {"masterData", "history"} /\ EditSilently(q.op)
  \/ q.op = "calcEnrollment" /\ CommitEnrollment(q.stale, q.rules)
  \/ q.op = "calcRevenue" /\ CommitRevenue(q.stale, q.value)
  \/ q.op = "calcStaffing" /\ CommitStaffing(q.stale, q.value)
  \/ q.op = "calcOpEx" /\ CommitOpEx(q.stale, q.value)
  \/ q.op = "calcPnl" /\ CommitPnl(q.stale, q.value)

\* The transition was looked up for the status read; the update does not
\* look at the row again.
WriteStatus(q) ==
  /\ q.op = "setStatus"
  /\ \E to \in Statuses : <<q.status, to>> \in Transitions /\ status' = to
  /\ UNCHANGED <<stale, rev, outputs>>

Commit(r) ==
  /\ req[r].phase = "ready"
  /\ \/ Write(req[r]) /\ UNCHANGED status
     \/ WriteStatus(req[r])
  /\ req' = [req EXCEPT ![r] = Idle]
  /\ UNCHANGED origin

\* A later check fails, or the transaction is rolled back.
Abort(r) ==
  /\ req[r] # Idle
  /\ req' = [req EXCEPT ![r] = Idle]
  /\ UNCHANGED vars

NextRequest ==
  \E r \in Requests : ReadVersion(r) \/ ReadInputs(r) \/ Commit(r) \/ Abort(r)

RequestSpec == InitRequests /\ [][NextRequest]_requestVars

-----------------------------------------------------------------------------
(* Properties.                                                             *)

\* One request at a time: the server implements the atomic pipeline.
AtomicPipeline == Spec
=============================================================================
