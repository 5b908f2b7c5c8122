-------------------------- MODULE VersionLifecycle --------------------------
(***************************************************************************)
(* The budget versions of one fiscal year, the actuals imported for it and *)
(* the lock of its fiscal periods, with the requests that change them      *)
(* interleaved at every await.  A handler looks rows up, checks them, and  *)
(* only then opens the transaction that writes, which checks nothing again *)
(* except what the database itself enforces: primary keys, the unique name *)
(* in a fiscal year, and foreign keys that are set to null on delete.      *)
(***************************************************************************)
EXTENDS Naturals

CONSTANTS
  Versions,    \* the version ids the database hands out
  Names,       \* the names users give
  ActualName,  \* the name the import gives: "Actual <year>"
  Grades,      \* the grades an import may have rows for
  Periods,     \* the months of the fiscal year
  Requests,    \* requests in flight at the same time, at most
  Calls,       \* the calls users make
  MaxReverts,  \* how often a version is reverted to draft at most
  Null

CallNames == {"create", "import", "status", "delete", "lock"}

ASSUME LifecycleAssumption ==
  /\ Calls \subseteq CallNames
  /\ MaxReverts \in Nat
  /\ Null \notin Versions

VARIABLES
  version,  \* version[v]: the row of v, as far as the lifecycle goes
  period,   \* period[p]: the row of month p
  req       \* req[r]: what request r is doing and what it has read

vars == <<version, period, req>>

Statuses == {"Draft", "Published", "Locked", "Archived"}
Stamps == {"publishedAt", "lockedAt", "archivedAt"}

Unused == [status |-> "Unused", type |-> "none", name |-> Null, source |-> Null,
           stamps |-> {}, reverts |-> 0, rows |-> {}]
NoPeriod == [status |-> "None", actual |-> Null]
Idle == [phase |-> "idle"]

Live == {v \in Versions : version[v].status \in Statuses}
Actuals == {v \in Live : version[v].type = "Actual"}

-----------------------------------------------------------------------------
(* The state machine of a version.                                         *)

Move(from, to, stamp, clear) == [from |-> from, to |-> to, stamp |-> stamp, clear |-> clear]

\* Mutant: reverting a locked version forgets that it was published.
TransitionsKeepPublishedAt ==
  {Move("Draft", "Published", {"publishedAt"}, {}),
   Move("Published", "Locked", {"lockedAt"}, {}),
   Move("Published", "Draft", {}, {"publishedAt"}),
   Move("Locked", "Archived", {"archivedAt"}, {}),
   Move("Locked", "Draft", {}, {"lockedAt"})}

\* Mutant: a status the schema does not know.
TransitionsMisnamed ==
  {Move("Draft", "Published", {"publishedAt"}, {}),
   Move("Published", "Final", {"lockedAt"}, {})}

Transitions ==
  {Move("Draft", "Published", {"publishedAt"}, {}),
   Move("Published", "Locked", {"lockedAt"}, {}),
   Move("Published", "Draft", {}, {"publishedAt"}),
   Move("Locked", "Archived", {"archivedAt"}, {}),
   Move("Locked", "Draft", {}, {"publishedAt", "lockedAt"})}

IsReverse(m) == m.to = "Draft"

Applied(row, m) ==
  [row EXCEPT !.status = m.to,
              !.stamps = (@ \cup m.stamp) \ m.clear,
              !.reverts = IF IsReverse(m) THEN @ + 1 ELSE @]

-----------------------------------------------------------------------------
(* Creating versions: one transaction each, so one step.                   *)

NameFreeAlways(name) == TRUE  \* mutant: no unique index
NameFree(name) == \A v \in Live : version[v].name # name

Insert(v, type, name, source, rows) ==
  /\ version[v] = Unused
  /\ NameFree(name)
  /\ version' = [version EXCEPT ![v] =
       [status |-> "Draft", type |-> type, name |-> name, source |-> source,
        stamps |-> {}, reverts |-> 0, rows |-> rows]]

\* A budget or forecast, empty or from another one; never an actual.
Create(v, name, source) ==
  /\ "create" \in Calls
  /\ source \in (Live \ Actuals) \cup {Null}
  /\ Insert(v, "Budget", name, source, {})
  /\ UNCHANGED <<period, req>>

\* The clone takes the type of its source, which is not an actual.  The
\* source is read before the transaction, but its type never changes and
\* the foreign key makes the insert fail if it is gone.
Clone(v, name, source) ==
  /\ "create" \in Calls
  /\ source \in Live \ Actuals
  /\ Insert(v, version[source].type, name, source, {})
  /\ UNCHANGED <<period, req>>

-----------------------------------------------------------------------------
(* Importing historical actuals.                                           *)

\* The version row found, if any, has no rows yet.
ImportRead(r) ==
  /\ "import" \in Calls /\ req[r] = Idle
  /\ \E found \in IF Actuals = {} THEN {Null} ELSE Actuals :
       /\ found # Null => version[found].rows = {}
       /\ req' = [req EXCEPT ![r] = [phase |-> "import", found |-> found]]
  /\ UNCHANGED <<version, period>>

\* Rows with unknown grades are skipped, so that none may be left.  A grade
\* a version already has rows for is refused by the unique index.
ImportCommit(r) ==
  /\ req[r].phase = "import"
  /\ \E rows \in SUBSET Grades :
       IF req[r].found = Null
       THEN \E v \in Versions : Insert(v, "Actual", ActualName, Null, rows)
       ELSE /\ req[r].found \in Live
            /\ version[req[r].found].rows \cap rows = {}
            /\ version' = [version EXCEPT ![req[r].found].rows = @ \cup rows]
  /\ req' = [req EXCEPT ![r] = Idle]
  /\ UNCHANGED period

-----------------------------------------------------------------------------
(* Changing the status of a version, and deleting one.                     *)

StatusRead(r, v) ==
  /\ "status" \in Calls /\ req[r] = Idle
  /\ v \in Live
  /\ \E m \in Transitions :
       /\ m.from = version[v].status
       /\ IsReverse(m) => version[v].reverts < MaxReverts
       /\ req' = [req EXCEPT ![r] = [phase |-> "status", id |-> v, move |-> m]]
  /\ UNCHANGED <<version, period>>

\* The update finds the row by its id alone.
StatusCommit(r) ==
  /\ req[r].phase = "status"
  /\ req[r].id \in Live
  /\ version[req[r].id].reverts < MaxReverts \/ ~IsReverse(req[r].move)
  /\ version' = [version EXCEPT ![req[r].id] = Applied(@, req[r].move)]
  /\ req' = [req EXCEPT ![r] = Idle]
  /\ UNCHANGED period

DeleteRead(r, v) ==
  /\ "delete" \in Calls /\ req[r] = Idle
  /\ v \in Live /\ version[v].status = "Draft"
  /\ req' = [req EXCEPT ![r] = [phase |-> "delete", id |-> v]]
  /\ UNCHANGED <<version, period>>

\* The delete finds the row by its id; references to it become null.
DeleteCommit(r) ==
  LET gone == req[r].id IN
  /\ req[r].phase = "delete"
  /\ gone \in Live
  /\ version' = [v \in Versions |->
       IF v = gone THEN [Unused EXCEPT !.status = "Deleted"]
       ELSE IF version[v].source = gone THEN [version[v] EXCEPT !.source = Null]
       ELSE version[v]]
  /\ period' = [p \in Periods |->
       IF period[p].actual = gone THEN [period[p] EXCEPT !.actual = Null]
       ELSE period[p]]
  /\ req' = [req EXCEPT ![r] = Idle]

-----------------------------------------------------------------------------
(* Fiscal periods.                                                         *)

\* The first GET of a fiscal year creates its periods.
SeedPeriods ==
  /\ "lock" \in Calls
  /\ \A p \in Periods : period[p] = NoPeriod
  /\ period' = [p \in Periods |-> [status |-> "Draft", actual |-> Null]]
  /\ UNCHANGED <<version, req>>

LockRead(r, p, v) ==
  /\ "lock" \in Calls /\ req[r] = Idle
  /\ period[p].status # "Locked"
  /\ req' = [req EXCEPT ![r] = [phase |-> "lockPeriod", month |-> p, id |-> v]]
  /\ UNCHANGED <<version, period>>

\* Mutant: any locked version will do.
LockCheckAnyType(r) ==
  /\ req[r].phase = "lockPeriod"
  /\ req[r].id \in Live
  /\ version[req[r].id].status = "Locked"
  /\ req' = [req EXCEPT ![r].phase = "lock"]
  /\ UNCHANGED <<version, period>>

LockCheck(r) ==
  /\ req[r].phase = "lockPeriod"
  /\ req[r].id \in Actuals
  /\ version[req[r].id].status = "Locked"
  /\ req' = [req EXCEPT ![r].phase = "lock"]
  /\ UNCHANGED <<version, period>>

\* The period's row must exist and so must the version referred to.
LockCommit(r) ==
  /\ req[r].phase = "lock"
  /\ period[req[r].month] # NoPeriod
  /\ req[r].id \in Live
  /\ period' = [period EXCEPT ![req[r].month] =
       [status |-> "Locked", actual |-> req[r].id]]
  /\ req' = [req EXCEPT ![r] = Idle]
  /\ UNCHANGED version

\* A later check fails, or the database refuses the transaction.
Abort(r) ==
  /\ req[r] # Idle
  /\ req' = [req EXCEPT ![r] = Idle]
  /\ UNCHANGED <<version, period>>

-----------------------------------------------------------------------------
Init ==
  /\ version = [v \in Versions |-> Unused]
  /\ period = [p \in Periods |-> NoPeriod]
  /\ req = [r \in Requests |-> Idle]

Next ==
  \/ \E v \in Versions, name \in Names, source \in Versions \cup {Null} :
       Create(v, name, source) \/ Clone(v, name, source)
  \/ \E r \in Requests :
       \/ ImportRead(r) \/ ImportCommit(r)
       \/ \E v \in Versions : StatusRead(r, v) \/ DeleteRead(r, v)
       \/ StatusCommit(r) \/ DeleteCommit(r)
       \/ \E p \in Periods, v \in Versions : LockRead(r, p, v)
       \/ LockCheck(r) \/ LockCommit(r)
       \/ Abort(r)
  \/ SeedPeriods

Spec == Init /\ [][Next]_vars

-----------------------------------------------------------------------------
(* Properties.                                                             *)

VersionRows ==
  [status : Statuses \cup {"Unused", "Deleted"}, type : {"none", "Budget", "Actual"},
   name : Names \cup {ActualName, Null}, source : Versions \cup {Null},
   stamps : SUBSET Stamps, reverts : 0..MaxReverts, rows : SUBSET Grades]

PeriodRows == [status : {"None", "Draft", "Locked"}, actual : Versions \cup {Null}]

RequestStates ==
  {Idle}
  \cup [phase : {"import"}, found : Versions \cup {Null}]
  \cup [phase : {"status"}, id : Versions, move : Transitions]
  \cup [phase : {"delete"}, id : Versions]
  \cup [phase : {"lockPeriod", "lock"}, month : Periods, id : Versions]

\* Rows have the columns and values the schema allows.
TypeOK ==
  /\ version \in [Versions -> VersionRows]
  /\ period \in [Periods -> PeriodRows]
  /\ req \in [Requests -> RequestStates]

\* However imports, deletions and creations race, a fiscal year has at most
\* one actual version, so that "the" actuals of the year are well defined.
ActualIsUnique == \A v, w \in Actuals : v = w

\* A period never refers to a version that is gone or is not an actual, and
\* no version claims to come from one that is gone or is an actual: the
\* handlers check this before their transactions, the foreign keys later.
LinksResolve ==
  /\ \A p \in Periods : period[p].actual # Null => period[p].actual \in Actuals
  /\ \A v \in Live : version[v].source # Null => version[v].source \in Live \ Actuals

\* The timestamp of the status a version is in is set, and a draft bears no
\* date of publication, after any number of reversions and also when status
\* changes overlap and are applied to a status they never saw.
StampsTellStatus ==
  \A v \in Live :
    /\ version[v].status = "Draft" => "publishedAt" \notin version[v].stamps
    /\ version[v].status = "Published" => "publishedAt" \in version[v].stamps
    /\ version[v].status = "Locked" => "lockedAt" \in version[v].stamps
    /\ version[v].status = "Archived" => "archivedAt" \in version[v].stamps
=============================================================================
