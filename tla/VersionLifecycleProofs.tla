----------------------- MODULE VersionLifecycleProofs -----------------------
(***************************************************************************)
(* What holds of VersionLifecycle for any number of versions, periods and  *)
(* requests in flight.                                                     *)
(***************************************************************************)
EXTENDS VersionLifecycle, TLAPS

\* A name belongs to one live version, and actuals have the import's name.
NamesUnique == \A v, w \in Live : version[v].name = version[w].name => v = w
ActualsNamed == \A v \in Actuals : version[v].name = ActualName

\* A version checked for a lock is an actual unless it has been deleted:
\* types never change and ids are never used again.
LockTargetsActual ==
  \A r \in Requests :
    req[r].phase = "lock" =>
      req[r].id \in Actuals \/ version[req[r].id].status = "Deleted"

LifecycleInv ==
  TypeOK /\ NamesUnique /\ ActualsNamed /\ LinksResolve /\ LockTargetsActual

-----------------------------------------------------------------------------
\* An insert makes one unused id a live draft and touches no other row.
LEMMA InsertType ==
  ASSUME TypeOK, NEW v \in Versions, NEW type \in {"none", "Budget", "Actual"},
         NEW name \in Names \cup {ActualName}, NEW source, source \in Versions \cup {Null},
         NEW rows \in SUBSET Grades, Insert(v, type, name, source, rows)
  PROVE  /\ version' \in [Versions -> VersionRows]
         /\ v \notin Live
         /\ Live' = Live \cup {v}
         /\ \A w \in Versions : w # v => version'[w] = version[w]
         /\ version'[v].type = type /\ version'[v].name = name
         /\ version'[v].source = source
  <1> DEFINE row == [status |-> "Draft", type |-> type, name |-> name, source |-> source,
                     stamps |-> {}, reverts |-> 0, rows |-> rows]
  <1>1. version[v] = Unused /\ version' = [version EXCEPT ![v] = row]
    BY DEF Insert
  <1>2. row \in VersionRows
    BY LifecycleAssumption DEF VersionRows, Statuses
  <1>3. version' \in [Versions -> VersionRows] /\ version'[v] = row
    BY <1>1, <1>2 DEF TypeOK
  <1>4. \A w \in Versions : w # v => version'[w] = version[w]
    BY <1>1 DEF TypeOK
  <1>5. v \notin Live
    BY <1>1 DEF Live, Unused, Statuses
  <1>6. Live' = Live \cup {v}
    BY <1>3, <1>4 DEF Live, Statuses
  <1> QED BY <1>3, <1>4, <1>5, <1>6

\* The invariant survives the insertion of a budget from a budget or from
\* nothing, and of an actual with the import's name.
LEMMA InsertStep ==
  ASSUME LifecycleInv, NEW v \in Versions, NEW type \in {"none", "Budget", "Actual"},
         NEW name \in Names \cup {ActualName}, NEW source, source \in (Live \ Actuals) \cup {Null},
         NEW rows \in SUBSET Grades, Insert(v, type, name, source, rows),
         type = "Actual" => name = ActualName,
         UNCHANGED period, req' \in [Requests -> RequestStates],
         \A r \in Requests : req'[r].phase = "lock" => req'[r] = req[r]
  PROVE  LifecycleInv'
  <1>1. source \in Versions \cup {Null} /\ TypeOK
    BY DEF Live, LifecycleInv
  <1>2. /\ version' \in [Versions -> VersionRows]
        /\ v \notin Live
        /\ Live' = Live \cup {v}
        /\ \A w \in Versions : w # v => version'[w] = version[w]
        /\ version'[v].type = type /\ version'[v].name = name
        /\ version'[v].source = source
    BY <1>1, InsertType
  <1>3. \A w \in Live : w # v /\ w \in Versions
    BY <1>2 DEF Live
  <1>4. /\ Actuals \subseteq Actuals'
        /\ (Live \ Actuals) \subseteq (Live' \ Actuals')
        /\ \A w \in Actuals' : w \in Actuals \/ (w = v /\ type = "Actual")
    BY <1>2, <1>3 DEF Actuals
  <1>5. TypeOK'
    BY <1>1, <1>2 DEF TypeOK
  <1>6. NamesUnique'
    BY <1>2, <1>3 DEF Insert, NameFree, NamesUnique, LifecycleInv
  <1>7. ActualsNamed'
    BY <1>2, <1>3, <1>4 DEF ActualsNamed, LifecycleInv, Actuals
  <1>8. LinksResolve'
    BY <1>2, <1>3, <1>4 DEF LinksResolve, LifecycleInv
  \* The new row is a draft just inserted: no lock was checked for it.
  <1>9. LockTargetsActual'
    <2> SUFFICES ASSUME NEW r \in Requests, req'[r].phase = "lock"
                 PROVE  req'[r].id \in Actuals' \/ version'[req'[r].id].status = "Deleted"
      BY DEF LockTargetsActual
    <2>1. req'[r] = req[r] /\ req[r] \in RequestStates
      BY DEF LifecycleInv, TypeOK
    <2>2. req[r].id \in Versions
      BY <2>1 DEF RequestStates, Idle
    <2>3. req[r].id \in Actuals \/ version[req[r].id].status = "Deleted"
      BY <2>1 DEF LifecycleInv, LockTargetsActual
    <2>4. version[v].status # "Deleted"
      BY DEF Insert, Unused
    <2> QED BY <2>1, <2>2, <2>3, <2>4, <1>2, <1>4
  <1> QED BY <1>5, <1>6, <1>7, <1>8, <1>9 DEF LifecycleInv

\* A step that only reads keeps the invariant, provided that what it has
\* checked before a lock is an actual.
LEMMA ReadStep ==
  ASSUME LifecycleInv, UNCHANGED <<version, period>>,
         req' \in [Requests -> RequestStates],
         \A r \in Requests :
           req'[r].phase = "lock" => req'[r] = req[r] \/ req'[r].id \in Actuals
  PROVE  LifecycleInv'
  <1>1. Live' = Live /\ Actuals' = Actuals
    BY DEF Live, Actuals
  <1>2. TypeOK'
    BY DEF TypeOK, LifecycleInv
  <1>3. NamesUnique' /\ ActualsNamed' /\ LinksResolve'
    BY <1>1 DEF LifecycleInv, NamesUnique, ActualsNamed, LinksResolve
  <1>4. LockTargetsActual'
    BY <1>1 DEF LifecycleInv, LockTargetsActual
  <1> QED BY <1>2, <1>3, <1>4 DEF LifecycleInv

\* So does a step that changes a live row and leaves it live, with its
\* type, its name and its source, and forgets a request.
LEMMA UpdateStep ==
  ASSUME LifecycleInv, NEW v \in Live, NEW row \in VersionRows,
         row.status \in Statuses,
         row.type = version[v].type, row.name = version[v].name,
         row.source = version[v].source,
         version' = [version EXCEPT ![v] = row], UNCHANGED period,
         NEW r \in Requests, req' = [req EXCEPT ![r] = Idle]
  PROVE  LifecycleInv'
  <1>1. v \in Versions /\ TypeOK
    BY DEF Live, LifecycleInv
  <1>2. /\ version' \in [Versions -> VersionRows]
        /\ version'[v] = row
        /\ \A w \in Versions : w # v => version'[w] = version[w]
    BY <1>1 DEF TypeOK
  <1>3. \A w \in Versions :
          /\ version'[w].type = version[w].type
          /\ version'[w].name = version[w].name
          /\ version'[w].source = version[w].source
    BY <1>2
  <1>4. Live' = Live
    BY <1>2 DEF Live
  <1>5. Actuals' = Actuals
    BY <1>3, <1>4 DEF Actuals, Live
  <1>6. TypeOK'
    BY <1>1, <1>2 DEF TypeOK, RequestStates
  <1>7. NamesUnique' /\ ActualsNamed' /\ LinksResolve'
    BY <1>3, <1>4, <1>5 DEF LifecycleInv, NamesUnique, ActualsNamed, LinksResolve,
       Live, Actuals
  <1>8. LockTargetsActual'
    <2> SUFFICES ASSUME NEW q \in Requests, req'[q].phase = "lock"
                 PROVE  req'[q].id \in Actuals' \/ version'[req'[q].id].status = "Deleted"
      BY DEF LockTargetsActual
    <2>1. req'[q] = req[q] /\ req[q] \in RequestStates
      BY <1>1 DEF TypeOK, Idle
    <2>2. req[q].id \in Versions
      BY <2>1 DEF RequestStates, Idle
    <2>3. req[q].id \in Actuals \/ version[req[q].id].status = "Deleted"
      BY <2>1 DEF LifecycleInv, LockTargetsActual
    <2>4. version[v].status # "Deleted"
      BY DEF Live, Statuses
    <2> QED BY <2>1, <2>2, <2>3, <2>4, <1>2, <1>5
  <1> QED BY <1>6, <1>7, <1>8 DEF LifecycleInv

\* A new year starts without versions, periods and requests.
LEMMA LifecycleInit == Init => LifecycleInv
<1> SUFFICES ASSUME Init PROVE LifecycleInv
  OBVIOUS
<1>1. Live = {} /\ Actuals = {}
  BY DEF Init, Live, Actuals, Unused, Statuses
<1>2. TypeOK
  BY LifecycleAssumption DEF Init, TypeOK, Unused, VersionRows, NoPeriod, PeriodRows,
     RequestStates
<1>3. LinksResolve
  BY <1>1 DEF Init, LinksResolve, NoPeriod
<1> QED
  BY <1>1, <1>2, <1>3 DEF Init, LifecycleInv, NamesUnique, ActualsNamed,
     LockTargetsActual, Idle

\* Deleting a version takes every reference to it away.
LEMMA DeleteStep ==
  ASSUME LifecycleInv, NEW r \in Requests, DeleteCommit(r)
  PROVE  LifecycleInv'
  <1> DEFINE gone == req[r].id
             cleared(row) == [row EXCEPT !.source = Null]
             dead == [Unused EXCEPT !.status = "Deleted"]
  <1>1. /\ gone \in Live /\ gone \in Versions /\ TypeOK
        /\ req' = [req EXCEPT ![r] = Idle]
    BY DEF DeleteCommit, Live, LifecycleInv
  <1>2. version' = [v \in Versions |->
          IF v = gone THEN dead
          ELSE IF version[v].source = gone THEN cleared(version[v]) ELSE version[v]]
    BY DEF DeleteCommit
  <1>3. dead \in VersionRows
    BY LifecycleAssumption DEF Unused, VersionRows
  <1>4. \A v \in Versions : cleared(version[v]) \in VersionRows
    BY <1>1 DEF TypeOK, VersionRows
  <1>5. version' \in [Versions -> VersionRows]
    BY <1>1, <1>2, <1>3, <1>4 DEF TypeOK
  <1>6. \A p \in Periods : [period[p] EXCEPT !.actual = Null] \in PeriodRows
    BY <1>1 DEF TypeOK, PeriodRows
  <1>7. period' \in [Periods -> PeriodRows]
    BY <1>1, <1>6 DEF DeleteCommit, TypeOK
  <1>8. TypeOK'
    BY <1>1, <1>5, <1>7 DEF TypeOK, RequestStates
  <1>9. version'[gone].status = "Deleted"
    BY <1>1, <1>2 DEF Unused
  <1>10. \A v \in Versions : v # gone =>
           /\ version'[v].status = version[v].status
           /\ version'[v].type = version[v].type
           /\ version'[v].name = version[v].name
    BY <1>1, <1>2 DEF TypeOK, VersionRows
  <1>11. Live' = Live \ {gone} /\ Actuals' = Actuals \ {gone}
    BY <1>1, <1>9, <1>10 DEF Live, Actuals, Statuses
  <1>12. NamesUnique' /\ ActualsNamed'
    BY <1>10, <1>11 DEF LifecycleInv, NamesUnique, ActualsNamed, Live, Actuals
  <1>13. LinksResolve'
    <2>1. ASSUME NEW p \in Periods, period'[p].actual # Null
          PROVE  period'[p].actual \in Actuals'
      <3>1. period'[p] = period[p] /\ period[p].actual # gone
        BY <1>1, <2>1 DEF DeleteCommit, TypeOK, PeriodRows
      <3> QED BY <2>1, <3>1, <1>11 DEF LifecycleInv, LinksResolve
    <2>2. ASSUME NEW v \in Live', version'[v].source # Null
          PROVE  version'[v].source \in Live' \ Actuals'
      <3>1. v \in Live /\ v \in Versions /\ v # gone
        BY <1>11 DEF Live
      <3>2. version'[v] = version[v] /\ version[v].source # gone
        BY <1>1, <1>2, <2>2, <3>1 DEF TypeOK, VersionRows
      <3> QED BY <2>2, <3>1, <3>2, <1>11 DEF LifecycleInv, LinksResolve
    <2> QED BY <2>1, <2>2 DEF LinksResolve
  <1>14. LockTargetsActual'
    <2> SUFFICES ASSUME NEW q \in Requests, req'[q].phase = "lock"
                 PROVE  req'[q].id \in Actuals' \/ version'[req'[q].id].status = "Deleted"
      BY DEF LockTargetsActual
    <2>1. req'[q] = req[q] /\ req[q] \in RequestStates
      BY <1>1 DEF TypeOK, Idle
    <2>2. req[q].id \in Versions
      BY <2>1 DEF RequestStates, Idle
    <2>3. req[q].id \in Actuals \/ version[req[q].id].status = "Deleted"
      BY <2>1 DEF LifecycleInv, LockTargetsActual
    <2> QED BY <2>1, <2>2, <2>3, <1>9, <1>10, <1>11
  <1> QED BY <1>8, <1>12, <1>13, <1>14 DEF LifecycleInv

\* Every step of the handlers keeps the invariant.
LEMMA LifecycleStep ==
  ASSUME LifecycleInv, [Next]_vars
  PROVE  LifecycleInv'
  <1>1. TypeOK
    BY DEF LifecycleInv
  <1>2. ASSUME NEW v \in Versions, NEW name \in Names, NEW source \in Versions \cup {Null},
               Create(v, name, source)
        PROVE  LifecycleInv'
    BY <1>1, <1>2, InsertStep DEF Create, TypeOK
  <1>3. ASSUME NEW v \in Versions, NEW name \in Names, NEW source \in Versions \cup {Null},
               Clone(v, name, source)
        PROVE  LifecycleInv'
    <2>1. source \in Live \ Actuals /\ version[source] \in VersionRows
      BY <1>1, <1>3 DEF Clone, TypeOK, Live
    <2>2. version[source].type \in {"none", "Budget"}
      BY <2>1 DEF Actuals, VersionRows
    <2>3. Insert(v, version[source].type, name, source, {}) /\ UNCHANGED <<period, req>>
      BY <1>3 DEF Clone
    <2> QED BY <1>1, <2>1, <2>2, <2>3, InsertStep DEF TypeOK
  <1>4. ASSUME NEW r \in Requests, ImportRead(r)
        PROVE  LifecycleInv'
    <2>1. PICK found \in Versions \cup {Null} :
            req' = [req EXCEPT ![r] = [phase |-> "import", found |-> found]]
      BY <1>4 DEF ImportRead, Actuals, Live
    <2>2. req' \in [Requests -> RequestStates]
      BY <1>1, <2>1 DEF TypeOK, RequestStates
    <2>3. \A q \in Requests : req'[q].phase = "lock" => req'[q] = req[q]
      BY <1>1, <2>1 DEF TypeOK
    <2> QED BY <1>4, <2>2, <2>3, ReadStep DEF ImportRead
  <1>5. ASSUME NEW r \in Requests, ImportCommit(r)
        PROVE  LifecycleInv'
    <2>1. PICK rows \in SUBSET Grades :
            IF req[r].found = Null
            THEN \E v \in Versions : Insert(v, "Actual", ActualName, Null, rows)
            ELSE /\ req[r].found \in Live
                 /\ version' = [version EXCEPT ![req[r].found].rows = @ \cup rows]
      BY <1>5 DEF ImportCommit
    <2>2. /\ req' = [req EXCEPT ![r] = Idle] /\ UNCHANGED period
          /\ req' \in [Requests -> RequestStates]
      BY <1>1, <1>5 DEF ImportCommit, TypeOK, RequestStates
    <2>3. \A q \in Requests : req'[q].phase = "lock" => req'[q] = req[q]
      BY <1>1, <2>2 DEF TypeOK, Idle
    <2>4. CASE req[r].found = Null
      <3>1. PICK v \in Versions : Insert(v, "Actual", ActualName, Null, rows)
        BY <2>1, <2>4
      <3> QED BY <2>2, <2>3, <3>1, InsertStep
    <2>5. CASE req[r].found # Null
      <3> DEFINE v == req[r].found
                 row == [version[v] EXCEPT !.rows = @ \cup rows]
      <3>1. v \in Live /\ version' = [version EXCEPT ![v] = row]
        BY <2>1, <2>5
      <3>2. /\ row \in VersionRows /\ row.status = version[v].status
            /\ row.type = version[v].type /\ row.name = version[v].name
            /\ row.source = version[v].source
        BY <1>1, <3>1 DEF TypeOK, VersionRows, Live
      <3>3. row.status \in Statuses
        BY <3>1, <3>2 DEF Live
      <3> HIDE DEF v, row
      <3> QED BY <2>2, <3>1, <3>2, <3>3, UpdateStep
    <2> QED BY <2>4, <2>5
  <1>6. ASSUME NEW r \in Requests, NEW v \in Versions, StatusRead(r, v) \/ DeleteRead(r, v)
        PROVE  LifecycleInv'
    <2>1. PICK s \in [phase : {"status"}, id : Versions, move : Transitions]
                     \cup [phase : {"delete"}, id : Versions] :
            req' = [req EXCEPT ![r] = s]
      <3>1. CASE StatusRead(r, v)
        BY <3>1 DEF StatusRead
      <3>2. CASE DeleteRead(r, v)
        BY <3>2 DEF DeleteRead
      <3> QED BY <1>6, <3>1, <3>2
    <2>2. req' \in [Requests -> RequestStates]
      BY <1>1, <2>1 DEF TypeOK, RequestStates
    <2>3. \A q \in Requests : req'[q].phase = "lock" => req'[q] = req[q]
      BY <1>1, <2>1 DEF TypeOK
    <2> QED BY <1>6, <2>2, <2>3, ReadStep DEF StatusRead, DeleteRead
  <1>7. ASSUME NEW r \in Requests, StatusCommit(r)
        PROVE  LifecycleInv'
    <2> DEFINE v == req[r].id
               m == req[r].move
               row == Applied(version[v], m)
    <2>1. /\ v \in Live /\ v \in Versions /\ version[v] \in VersionRows
          /\ version[v].reverts < MaxReverts \/ ~IsReverse(m)
          /\ version' = [version EXCEPT ![v] = row]
          /\ req' = [req EXCEPT ![r] = Idle] /\ UNCHANGED period
      BY <1>1, <1>7 DEF StatusCommit, Live, TypeOK
    <2>2. m \in Transitions
      <3>1. req[r] \in RequestStates /\ req[r].phase = "status"
        BY <1>1, <1>7 DEF TypeOK, StatusCommit
      <3> QED BY <3>1 DEF RequestStates, Idle
    <2>3. m.to \in Statuses /\ m.stamp \subseteq Stamps
      BY <2>2 DEF Transitions, Move, Statuses, Stamps
    <2>4. /\ row.status = m.to /\ row.type = version[v].type
          /\ row.name = version[v].name /\ row.source = version[v].source
      BY <2>1 DEF Applied, VersionRows
    <2>5. row \in VersionRows
      <3>1. IF IsReverse(m) THEN version[v].reverts + 1 \in 0..MaxReverts
                            ELSE version[v].reverts \in 0..MaxReverts
        BY <2>1, LifecycleAssumption DEF VersionRows
      <3> QED BY <2>1, <2>3, <3>1 DEF Applied, VersionRows
    <2> HIDE DEF v, m, row
    <2> QED BY <2>1, <2>3, <2>4, <2>5, UpdateStep
  <1>8. ASSUME NEW r \in Requests, NEW p \in Periods, NEW v \in Versions, LockRead(r, p, v)
        PROVE  LifecycleInv'
    <2>1. req' \in [Requests -> RequestStates]
      BY <1>1, <1>8 DEF LockRead, TypeOK, RequestStates
    <2>2. \A q \in Requests : req'[q].phase = "lock" => req'[q] = req[q]
      BY <1>1, <1>8 DEF LockRead, TypeOK
    <2> QED BY <1>8, <2>1, <2>2, ReadStep DEF LockRead
  <1>9. ASSUME NEW r \in Requests, LockCheck(r)
        PROVE  LifecycleInv'
    <2>1. req[r] \in [phase : {"lockPeriod", "lock"}, month : Periods, id : Versions]
      <3>1. req[r] \in RequestStates /\ req[r].phase = "lockPeriod"
        BY <1>1, <1>9 DEF TypeOK, LockCheck
      <3> QED BY <3>1 DEF RequestStates, Idle
    <2>2. [req[r] EXCEPT !.phase = "lock"]
            \in [phase : {"lockPeriod", "lock"}, month : Periods, id : Versions]
      BY <2>1
    <2>3. req' \in [Requests -> RequestStates]
      BY <1>1, <1>9, <2>2 DEF LockCheck, TypeOK, RequestStates
    <2>4. \A q \in Requests : req'[q] = req[q] \/ req'[q].id \in Actuals
      BY <1>1, <1>9, <2>1 DEF LockCheck, TypeOK
    <2> QED BY <1>9, <2>3, <2>4, ReadStep DEF LockCheck
  <1>10. ASSUME NEW r \in Requests, LockCommit(r)
         PROVE  LifecycleInv'
    <2> DEFINE v == req[r].id
               p == req[r].month
    <2>1. req[r] \in [phase : {"lockPeriod", "lock"}, month : Periods, id : Versions]
      <3>1. req[r] \in RequestStates /\ req[r].phase = "lock"
        BY <1>1, <1>10 DEF TypeOK, LockCommit
      <3> QED BY <3>1 DEF RequestStates, Idle
    <2>2. v \in Actuals
      BY <1>10 DEF LockCommit, LifecycleInv, LockTargetsActual, Live, Statuses
    <2>3. /\ period' = [period EXCEPT ![p] = [status |-> "Locked", actual |-> v]]
          /\ req' = [req EXCEPT ![r] = Idle] /\ UNCHANGED version
      BY <1>10 DEF LockCommit
    <2>4. Live' = Live /\ Actuals' = Actuals
      BY <2>3 DEF Live, Actuals
    <2>5. TypeOK'
      BY <1>1, <2>1, <2>3 DEF TypeOK, PeriodRows, RequestStates
    <2>6. LinksResolve'
      BY <1>1, <2>2, <2>3, <2>4 DEF TypeOK, LifecycleInv, LinksResolve
    <2>7. LockTargetsActual'
      BY <1>1, <2>3, <2>4 DEF TypeOK, LifecycleInv, LockTargetsActual, Idle
    <2> QED
      BY <2>3, <2>4, <2>5, <2>6, <2>7 DEF LifecycleInv, NamesUnique, ActualsNamed
  <1>11. ASSUME NEW r \in Requests, Abort(r)
         PROVE  LifecycleInv'
    <2>1. req' \in [Requests -> RequestStates]
      BY <1>1, <1>11 DEF Abort, TypeOK, RequestStates
    <2>2. \A q \in Requests : req'[q].phase = "lock" => req'[q] = req[q]
      BY <1>1, <1>11 DEF Abort, TypeOK, Idle
    <2> QED BY <1>11, <2>1, <2>2, ReadStep DEF Abort
  <1>12. CASE SeedPeriods
    <2>1. Live' = Live /\ Actuals' = Actuals
      BY <1>12 DEF SeedPeriods, Live, Actuals
    <2>2. TypeOK'
      BY <1>1, <1>12 DEF SeedPeriods, TypeOK, PeriodRows
    <2>3. LinksResolve'
      BY <1>12, <2>1 DEF SeedPeriods, LifecycleInv, LinksResolve
    <2> QED
      BY <1>12, <2>1, <2>2, <2>3 DEF SeedPeriods, LifecycleInv, NamesUnique, ActualsNamed,
         LockTargetsActual
  <1>13. CASE UNCHANGED vars
    BY <1>1, <1>13, ReadStep DEF vars, TypeOK
  <1> QED
    BY <1>2, <1>3, <1>4, <1>5, <1>6, <1>7, <1>8, <1>9, <1>10, <1>11, <1>12, <1>13,
       DeleteStep DEF Next

\* So the invariant holds of every reachable state.
LEMMA LifecycleInvariant == Spec => []LifecycleInv
<1> QED BY LifecycleInit, LifecycleStep, PTL DEF Spec

\* The rows keep the types of the schema.
THEOREM LifecycleTypes == Spec => []TypeOK
<1>1. LifecycleInv => TypeOK
  BY DEF LifecycleInv
<1> QED BY <1>1, LifecycleInvariant, PTL

\* However many imports, creations, clones and deletions race, a fiscal
\* year never has two actual versions.
THEOREM OneActual == Spec => []ActualIsUnique
<1>1. LifecycleInv => ActualIsUnique
  BY DEF LifecycleInv, NamesUnique, ActualsNamed, ActualIsUnique, Actuals
<1> QED BY <1>1, LifecycleInvariant, PTL

\* No period refers to a version that is not, or no longer, an actual, and
\* no version to a source that is gone or an actual.
THEOREM NoDanglingLinks == Spec => []LinksResolve
<1>1. LifecycleInv => LinksResolve
  BY DEF LifecycleInv
<1> QED BY <1>1, LifecycleInvariant, PTL

-----------------------------------------------------------------------------
\* The timestamps, row by row.
StampsTell(row) ==
  /\ row.status = "Draft" => "publishedAt" \notin row.stamps
  /\ row.status = "Published" => "publishedAt" \in row.stamps
  /\ row.status = "Locked" => "lockedAt" \in row.stamps
  /\ row.status = "Archived" => "archivedAt" \in row.stamps

LEMMA StampsRowwise == StampsTellStatus <=> \A v \in Live : StampsTell(version[v])
BY DEF StampsTellStatus, StampsTell

\* Whatever status a transition is applied to, the row it leaves bears the
\* timestamps of the status it ends in.
LEMMA AppliedTells ==
  ASSUME NEW row \in VersionRows, NEW m \in Transitions
  PROVE  StampsTell(Applied(row, m))
  <1>1. /\ Applied(row, m).status = m.to
        /\ Applied(row, m).stamps = (row.stamps \cup m.stamp) \ m.clear
    BY DEF Applied, VersionRows
  <1>2. /\ m.to = "Draft" => "publishedAt" \in m.clear
        /\ m.to = "Published" => "publishedAt" \in m.stamp \ m.clear
        /\ m.to = "Locked" => "lockedAt" \in m.stamp \ m.clear
        /\ m.to = "Archived" => "archivedAt" \in m.stamp \ m.clear
    BY DEF Transitions, Move
  <1> QED BY <1>1, <1>2 DEF StampsTell

\* Only status changes touch the status or the timestamps of a live row.
LEMMA StampsStep ==
  ASSUME TypeOK, StampsTellStatus, [Next]_vars
  PROVE  StampsTellStatus'
  <1> SUFFICES ASSUME NEW v \in Live'
               PROVE  StampsTell(version'[v])
    BY DEF StampsTellStatus, StampsTell
  <1>1. v \in Versions /\ version \in [Versions -> VersionRows]
    BY DEF Live, TypeOK
  <1>2. ASSUME v \in Live, version'[v].status = version[v].status,
               version'[v].stamps = version[v].stamps
        PROVE  StampsTell(version'[v])
    BY <1>2, StampsRowwise DEF StampsTell
  <1>3. ASSUME version'[v] = version[v]
        PROVE  StampsTell(version'[v])
    BY <1>2, <1>3 DEF Live
  <1>4. ASSUME NEW w \in Versions, NEW type, NEW name, NEW source, NEW rows,
               Insert(w, type, name, source, rows)
        PROVE  StampsTell(version'[v])
    <2>1. CASE v = w
      BY <1>1, <1>4, <2>1 DEF Insert, StampsTell
    <2>2. CASE v # w
      BY <1>1, <1>3, <1>4, <2>2 DEF Insert
    <2> QED BY <2>1, <2>2
  <1>5. ASSUME NEW w \in Versions, NEW name \in Names, NEW source \in Versions \cup {Null},
               Create(w, name, source) \/ Clone(w, name, source)
        PROVE  StampsTell(version'[v])
    BY <1>4, <1>5 DEF Create, Clone
  <1>6. ASSUME NEW r \in Requests, ImportCommit(r)
        PROVE  StampsTell(version'[v])
    <2>1. CASE req[r].found = Null
      BY <1>4, <1>6, <2>1 DEF ImportCommit
    <2>2. CASE req[r].found # Null
      <3>1. PICK rows \in SUBSET Grades :
              version' = [version EXCEPT ![req[r].found].rows = @ \cup rows]
        BY <1>6, <2>2 DEF ImportCommit
      <3>2. /\ version'[v].status = version[v].status
            /\ version'[v].stamps = version[v].stamps
        BY <1>1, <3>1 DEF VersionRows
      <3> QED BY <1>2, <3>2 DEF Live
    <2> QED BY <2>1, <2>2
  <1>7. ASSUME NEW r \in Requests, StatusCommit(r)
        PROVE  StampsTell(version'[v])
    <2>1. req[r].move \in Transitions
      <3>1. req[r] \in RequestStates /\ req[r].phase = "status"
        BY <1>7 DEF TypeOK, StatusCommit
      <3> QED BY <3>1 DEF RequestStates, Idle
    <2>2. version' = [version EXCEPT ![req[r].id] = Applied(version[req[r].id], req[r].move)]
      BY <1>7 DEF StatusCommit
    <2>3. CASE v = req[r].id
      <3>1. version'[v] = Applied(version[v], req[r].move)
        BY <1>1, <2>2, <2>3
      <3> QED BY <1>1, <2>1, <3>1, AppliedTells
    <2>4. CASE v # req[r].id
      BY <1>1, <1>3, <2>2, <2>4
    <2> QED BY <2>3, <2>4
  <1>8. ASSUME NEW r \in Requests, DeleteCommit(r)
        PROVE  StampsTell(version'[v])
    <2>1. CASE v = req[r].id
      BY <1>1, <1>8, <2>1 DEF DeleteCommit, Live, Statuses, Unused
    <2>2. CASE v # req[r].id
      <3>1. /\ version'[v].status = version[v].status
            /\ version'[v].stamps = version[v].stamps
        BY <1>1, <1>8, <2>2 DEF DeleteCommit, VersionRows
      <3> QED BY <1>2, <3>1 DEF Live
    <2> QED BY <2>1, <2>2
  <1>9. CASE UNCHANGED version
    BY <1>3, <1>9
  <1> QED
    BY <1>5, <1>6, <1>7, <1>8, <1>9 DEF Next, vars, ImportRead, StatusRead, DeleteRead,
       LockRead, LockCheck, LockCommit, Abort, SeedPeriods

\* After any number of reversions, and however status changes overlap, the
\* timestamps of a version agree with the status it is in.
THEOREM StampsAgree == Spec => []StampsTellStatus
<1>1. Init => StampsTellStatus
  <2>1. Init => Live = {}
    BY DEF Init, Live, Unused, Statuses
  <2> QED BY <2>1 DEF StampsTellStatus
<1>2. TypeOK /\ StampsTellStatus /\ [Next]_vars => StampsTellStatus'
  BY StampsStep
<1> QED BY <1>1, <1>2, LifecycleTypes, PTL DEF Spec
=============================================================================
