--------------------------- MODULE StaffingProofs ---------------------------
(***************************************************************************)
(* Proofs about StaffingAssignments, for any number of employees, places,  *)
(* users and commits.  Calculations add at most one suggestion for each    *)
(* employee, none where a row is left, and every change of an employee     *)
(* moves the clock; the rest follows from the keys of the database.  As    *)
(* every commit moves the clock, a request that nothing overtook has read  *)
(* what is stored: its sums of shares are those of the tables.             *)
(***************************************************************************)
EXTENDS StaffingAssignments, SumProofs

\* A calculation has at most one suggestion for an employee.
SuggestionsApart ==
  \A u \in Users : request[u].kind = "calculate" =>
    \A r, o \in request[u].new : r.employee = o.employee => r = o

\* As long as nothing is committed, an employee is as the form to be saved
\* has shown him.
SavesAreCurrent ==
  /\ commits \in Nat
  /\ \A u \in Users : request[u].kind = "save" =>
       /\ request[u].employee \in Employees
       /\ request[u].at \in Nat /\ request[u].at <= commits
       /\ request[u].at = commits => employee[request[u].employee].stamp = request[u].seen

\* Requests, forms and employees are known.
Tables ==
  /\ DOMAIN employee = Employees
  /\ DOMAIN request = Users
  /\ \A u \in Users : form[u] # None => form[u].employee \in Employees
  /\ DOMAIN form = Users

StaffingInv == OneRowPerPlace /\ SuggestionsApart /\ SavesAreCurrent /\ Tables

\* What a transaction does with its request, the clock and the forms.
LEMMA CommitEnds ==
  ASSUME StaffingInv, NEW u \in Users, Commit(u)
  PROVE  /\ commits' = commits + 1 /\ form' = form
         /\ DOMAIN request' = Users
         /\ \A v \in Users : request'[v].kind # "none" => v # u /\ request'[v] = request[v]
  BY DEF Commit, StaffingInv, Tables, Idle

\* The requests still waiting after a step that moves the clock are as
\* they were, and none of them is current.
LEMMA ClockMoves ==
  ASSUME StaffingInv,
         commits' = commits + 1, form' = form, DOMAIN request' = Users,
         DOMAIN employee' = Employees,
         \A v \in Users : request'[v].kind # "none" => request'[v] = request[v]
  PROVE  SuggestionsApart' /\ SavesAreCurrent' /\ Tables'
  BY DEF StaffingInv, SuggestionsApart, SavesAreCurrent, Tables

\* A transaction that fails leaves everything to the others.
LEMMA FailKeeps ==
  ASSUME StaffingInv, NEW u \in Users, Fail(u)
  PROVE  StaffingInv'
  BY DEF Fail, StaffingInv, OneRowPerPlace, SuggestionsApart, SavesAreCurrent, Tables, Idle

\* A check adds its request and changes nothing else.
LEMMA BeginKeeps ==
  ASSUME StaffingInv, NEW u \in Users, NEW q, Begin(u, q),
         q.kind = "calculate" => \A r, o \in q.new : r.employee = o.employee => r = o,
         q.kind = "save" => /\ q.employee \in Employees /\ q.at = commits
                            /\ employee[q.employee].stamp = q.seen
  PROVE  StaffingInv'
  BY DEF Begin, StaffingInv, OneRowPerPlace, SuggestionsApart, SavesAreCurrent, Tables

\* Every step keeps the invariant.
LEMMA StaffingStep ==
  ASSUME StaffingInv, [Next]_vars
  PROVE  StaffingInv'
  <1>1. ASSUME NEW u \in Users, CheckCreate(u) \/ CheckUpdate(u) \/ CheckDelete(u)
        PROVE  StaffingInv'
    <2>1. ASSUME NEW q, Begin(u, q), q.kind # "calculate", q.kind # "save"
          PROVE  StaffingInv'
      BY <2>1, BeginKeeps
    <2>2. CASE CheckCreate(u)
      BY <2>1, <2>2 DEF CheckCreate
    <2>3. CASE CheckUpdate(u)
      BY <2>1, <2>3 DEF CheckUpdate
    <2>4. CASE CheckDelete(u)
      BY <2>1, <2>4 DEF CheckDelete
    <2> QED BY <1>1, <2>2, <2>3, <2>4
  <1>2. ASSUME NEW u \in Users, OpenForm(u)
        PROVE  StaffingInv'
    BY <1>2 DEF OpenForm, StaffingInv, OneRowPerPlace, SuggestionsApart, SavesAreCurrent, Tables
  <1>3. ASSUME NEW u \in Users, CheckSave(u)
        PROVE  StaffingInv'
    <2>1. PICK c \in Contracts :
            Begin(u, [kind |-> "save", employee |-> form[u].employee, to |-> c,
                      seen |-> form[u].stamp, at |-> commits])
      BY <1>3 DEF CheckSave
    <2>2. form[u].employee \in Employees /\ employee[form[u].employee].stamp = form[u].stamp
      BY <1>3 DEF CheckSave, Matches, StaffingInv, Tables
    <2> QED BY <2>1, <2>2, BeginKeeps
  <1>4. ASSUME NEW u \in Users, CheckCalculate(u)
        PROVE  StaffingInv'
    <2> DEFINE new == {Suggestion(e, <<0, e>>) : e \in Suggested}
    <2>1. PICK q : Begin(u, q) /\ q.kind = "calculate" /\ q.new = new
      <3>1. Reading.kind = "calculate" /\ Reading.new = new
        BY DEF Reading
      <3> QED BY <1>4, <3>1 DEF CheckCalculate
    <2>2. \A r, o \in q.new : r.employee = o.employee => r = o
      <3>1. \A e \in Suggested : Suggestion(e, <<0, e>>).employee = e
        BY DEF Suggestion, RowOf
      <3>2. TAKE r, o \in q.new
      <3>3. PICK e \in Suggested : r = Suggestion(e, <<0, e>>)
        BY <2>1
      <3>4. PICK f \in Suggested : o = Suggestion(f, <<0, f>>)
        BY <2>1
      <3>5. r.employee = e /\ o.employee = f
        BY <3>1, <3>3, <3>4
      <3> QED BY <3>3, <3>4, <3>5
    <2>3. q.kind # "save"
      BY <2>1
    <2> QED BY <2>1, <2>2, <2>3, BeginKeeps
  <1>5. ASSUME NEW u \in Users, Create(u)
        PROVE  StaffingInv'
    <2> DEFINE q == request[u]
    <2>1. CASE Fail(u)
      BY <2>1, FailKeeps
    <2>2. CASE /\ CanStore(q.employee, q.place, rows) /\ Commit(u) /\ employee' = employee
               /\ rows' = rows \cup {RowOf(IdOf(q.employee), q.employee, q.place, q.share, "HAND")}
      <3>1. OneRowPerPlace'
        BY <2>2 DEF CanStore, Taken, RowOf, StaffingInv, OneRowPerPlace
      <3>2. SuggestionsApart' /\ SavesAreCurrent' /\ Tables'
        BY <2>2, CommitEnds, ClockMoves DEF StaffingInv, Tables
      <3> QED BY <3>1, <3>2 DEF StaffingInv
    <2> QED BY <1>5, <2>1, <2>2 DEF Create
  <1>6. ASSUME NEW u \in Users, Update(u)
        PROVE  StaffingInv'
    <2> DEFINE q == request[u]
    <2>1. CASE Fail(u)
      BY <2>1, FailKeeps
    <2>2. ASSUME NEW r \in rows, NEW s,
                 CanStore(r.employee, q.place, rows \ {r}), Commit(u), employee' = employee,
                 rows' = (rows \ {r}) \cup {RowOf(r.id, r.employee, q.place, q.share, s)}
          PROVE  StaffingInv'
      <3>1. OneRowPerPlace'
        BY <2>2 DEF CanStore, Taken, RowOf, StaffingInv, OneRowPerPlace
      <3>2. SuggestionsApart' /\ SavesAreCurrent' /\ Tables'
        BY <2>2, CommitEnds, ClockMoves DEF StaffingInv, Tables
      <3> QED BY <3>1, <3>2 DEF StaffingInv
    <2> QED BY <1>6, <2>1, <2>2 DEF Update
  <1>7. ASSUME NEW u \in Users, Delete(u) \/ Save(u)
        PROVE  StaffingInv'
    <2>1. CASE Fail(u)
      BY <2>1, FailKeeps
    <2>2. CASE Commit(u) /\ rows' \subseteq rows /\ DOMAIN employee' = DOMAIN employee
      <3>1. OneRowPerPlace'
        BY <2>2 DEF StaffingInv, OneRowPerPlace
      <3>2. SuggestionsApart' /\ SavesAreCurrent' /\ Tables'
        BY <2>2, CommitEnds, ClockMoves DEF StaffingInv, Tables
      <3> QED BY <3>1, <3>2 DEF StaffingInv
    <2> QED BY <1>7, <2>1, <2>2 DEF Delete, Save
  <1>8. ASSUME NEW u \in Users, Calculate(u)
        PROVE  StaffingInv'
    <2> DEFINE q == request[u]
               fits == {r \in q.new : ~Taken(r.employee, r.place, Kept)}
               stored == {RowOf(IdOf(r.employee), r.employee, r.place, r.share, "AUTO") : r \in fits}
    <2>1. CASE Fail(u)
      BY <2>1, FailKeeps
    <2>2. CASE rows' = Kept \cup stored /\ Commit(u) /\ employee' = employee
      <3>1. \A r, o \in fits : r.employee = o.employee => r = o
        BY <1>8 DEF Calculate, StaffingInv, SuggestionsApart
      <3>2. \A r, o \in stored : r.employee = o.employee => r = o
        BY <3>1 DEF RowOf
      <3>3. \A r \in stored, o \in Kept : ~(r.employee = o.employee /\ r.place = o.place)
        BY DEF Taken, RowOf
      <3>4. \A r, o \in Kept : r.employee = o.employee /\ r.place = o.place => r = o
        BY DEF Kept, StaffingInv, OneRowPerPlace
      <3>5. OneRowPerPlace'
        BY <2>2, <3>2, <3>3, <3>4 DEF OneRowPerPlace
      <3>6. SuggestionsApart' /\ SavesAreCurrent' /\ Tables'
        BY <2>2, CommitEnds, ClockMoves DEF StaffingInv, Tables
      <3> QED BY <3>5, <3>6 DEF StaffingInv
    <2> QED BY <1>8, <2>1, <2>2 DEF Calculate
  <1>9. ASSUME NEW e \in Employees, Hire(e) \/ Dismiss(e)
        PROVE  StaffingInv'
    <2>1. /\ commits' = commits + 1 /\ form' = form /\ request' = request
          /\ DOMAIN employee' = DOMAIN employee /\ rows' \subseteq rows
      BY <1>9 DEF Hire, Dismiss
    <2>2. OneRowPerPlace'
      BY <2>1 DEF StaffingInv, OneRowPerPlace
    <2>3. SuggestionsApart' /\ SavesAreCurrent' /\ Tables'
      BY <2>1, ClockMoves DEF StaffingInv, Tables
    <2> QED BY <2>2, <2>3 DEF StaffingInv
  <1>10. CASE UNCHANGED vars
    BY <1>10 DEF vars, StaffingInv, OneRowPerPlace, SuggestionsApart, SavesAreCurrent, Tables
  <1> QED
    BY <1>1, <1>2, <1>3, <1>4, <1>5, <1>6, <1>7, <1>8, <1>9, <1>10 DEF Next

\* The invariant holds from the start and ever after.
LEMMA StaffingInvariant == Spec => []StaffingInv
<1>1. Init => StaffingInv
  BY DEF Init, StaffingInv, OneRowPerPlace, SuggestionsApart, SavesAreCurrent, Tables, Idle
<1>2. StaffingInv /\ [Next]_vars => StaffingInv'
  BY StaffingStep
<1> QED BY <1>1, <1>2, PTL DEF Spec

\* No race of creations, changes and calculations gives an employee two
\* rows for a place.
THEOREM RowsAreUnique == Spec => []OneRowPerPlace
<1>1. StaffingInv => OneRowPerPlace
  BY DEF StaffingInv
<1> QED BY <1>1, StaffingInvariant, PTL

\* Unless another transaction was committed since the form was compared,
\* the employee saved is the one its user has seen.
THEOREM SavesLoseNothing == Spec => UndisturbedSavesLoseNothing
<1>1. StaffingInv /\ [Next]_vars =>
        \A u \in Users :
          /\ request[u].kind = "save" /\ request[u].at = commits
          /\ commits' = commits + 1 /\ request'[u] = Idle
          => employee[request[u].employee].stamp = request[u].seen
  BY DEF StaffingInv, SavesAreCurrent
<1> QED BY <1>1, StaffingInvariant, PTL DEF UndisturbedSavesLoseNothing, Spec

\* A row somebody entered survives every step but a deletion.
LEMMA HandMadeStep ==
  ASSUME StaffingInv, [Next]_vars, NEW r \in rows, r.source = "HAND"
  PROVE  \/ \E o \in rows' : o.id = r.id
         \/ employee'[r.employee].status = "deleted"
         \/ \E u \in Users : request[u].kind = "delete" /\ request[u].id = r.id
  <1>1. CASE rows \subseteq rows'
    BY <1>1
  <1>2. ASSUME NEW u \in Users, Update(u)
        PROVE  \E o \in rows' : o.id = r.id
    <2>1. CASE Fail(u)
      BY <2>1 DEF Fail
    <2>2. ASSUME NEW x \in rows, NEW s,
                 rows' = (rows \ {x}) \cup {RowOf(x.id, x.employee, request[u].place,
                                                 request[u].share, s)}
          PROVE  \E o \in rows' : o.id = r.id
      <3>1. CASE x = r
        <4> DEFINE o == RowOf(x.id, x.employee, request[u].place, request[u].share, s)
        <4>1. o \in rows'
          BY <2>2
        <4>2. o.id = r.id
          BY <3>1 DEF RowOf
        <4> QED BY <4>1, <4>2
      <3>2. CASE x # r
        <4>1. r \in rows'
          BY <2>2, <3>2
        <4> QED BY <4>1
      <3> QED BY <3>1, <3>2
    <2> QED BY <1>2, <2>1, <2>2 DEF Update
  <1>3. ASSUME NEW u \in Users, Delete(u)
        PROVE  (\E o \in rows' : o.id = r.id) \/ (request[u].kind = "delete" /\ request[u].id = r.id)
    BY <1>3 DEF Delete, Fail
  <1>4. ASSUME NEW u \in Users, Calculate(u)
        PROVE  \E o \in rows' : o.id = r.id
    <2>1. r \in Kept
      BY DEF Kept
    <2>2. Kept \subseteq rows' \/ rows' = rows
      BY <1>4 DEF Calculate, Fail
    <2> QED BY <2>1, <2>2
  <1>5. ASSUME NEW e \in Employees, Dismiss(e)
        PROVE  (\E o \in rows' : o.id = r.id) \/ employee'[r.employee].status = "deleted"
    BY <1>5 DEF Dismiss, StaffingInv, Tables
  <1>6. ASSUME NEW u \in Users,
               \/ CheckCreate(u) \/ CheckUpdate(u) \/ CheckDelete(u) \/ OpenForm(u)
               \/ CheckSave(u) \/ CheckCalculate(u) \/ Create(u) \/ Save(u)
        PROVE  rows \subseteq rows'
    <2>1. CASE CheckCreate(u) \/ CheckUpdate(u) \/ CheckDelete(u)
      BY <2>1 DEF CheckCreate, CheckUpdate, CheckDelete, Begin
    <2>2. CASE OpenForm(u) \/ CheckSave(u) \/ CheckCalculate(u)
      BY <2>2 DEF OpenForm, CheckSave, CheckCalculate, Begin
    <2>3. CASE Create(u) \/ Save(u)
      BY <2>3 DEF Create, Save, Fail
    <2> QED BY <1>6, <2>1, <2>2, <2>3
  <1>7. ASSUME (\E e \in Employees : Hire(e)) \/ UNCHANGED vars
        PROVE  rows \subseteq rows'
    BY <1>7 DEF Hire, vars
  <1>8. CASE \E u \in Users :
             \/ CheckCreate(u) \/ CheckUpdate(u) \/ CheckDelete(u) \/ OpenForm(u)
             \/ CheckSave(u) \/ CheckCalculate(u)
             \/ Create(u) \/ Update(u) \/ Delete(u) \/ Save(u) \/ Calculate(u)
    BY <1>1, <1>2, <1>3, <1>4, <1>6, <1>8
  <1> QED
    BY <1>1, <1>5, <1>7, <1>8 DEF Next

\* Calculations and races never lose an assignment that somebody entered.
THEOREM HandMadeKept == Spec => HandMadeRowsStay
<1>1. StaffingInv /\ [Next]_vars =>
        \A r \in rows : r.source = "HAND" =>
          \/ \E o \in rows' : o.id = r.id
          \/ employee'[r.employee].status = "deleted"
          \/ \E u \in Users : request[u].kind = "delete" /\ request[u].id = r.id
  BY HandMadeStep
<1> QED BY <1>1, StaffingInvariant, PTL DEF HandMadeRowsStay, Spec

-----------------------------------------------------------------------------
(* What the tables hold: types, and sums of shares.                        *)

\* The requests that write hold what their checks let through.
RequestsTyped ==
  \A u \in Users :
    LET q == request[u] IN
    /\ q.kind \in {"create", "update"} => q.place \in Places /\ q.share \in Shares
    /\ q.kind = "create" => q.employee \in Employees
    /\ q.kind = "save" => q.to \in Contracts
    /\ q.kind = "calculate" =>
         /\ IsFiniteSet(q.new)
         /\ \A r \in q.new :
              r.employee \in Employees /\ r.place \in Places /\ r.share \in Nat

\* As long as nothing is committed, a request has read what is stored.
ChecksAreCurrent ==
  \A u \in Users :
    LET q == request[u] IN
    q.kind \in {"create", "update", "calculate"} =>
      /\ q.at \in 0..commits
      /\ q.at = commits =>
           /\ q.kind = "create" => Fits(q.employee, q.share, rows)
           /\ q.kind = "update" =>
                \E r \in rows : r.id = q.id /\ Fits(r.employee, q.share, rows \ {r})
           /\ q.kind = "calculate" => q = Reading

RowsOfThePast == IsFiniteSet(rows) /\ \A r \in rows : r.id[1] <= commits

TablesInv ==
  /\ StaffingTypeOK
  /\ RequestsTyped /\ ChecksAreCurrent /\ RowsOfThePast /\ CoverageMatchesRows

\* A request that does not write leaves the tables alone; it must have read
\* what they hold.
LEMMA BeginKeepsTables ==
  ASSUME StaffingInv, TablesInv, NEW u \in Users, NEW q, Begin(u, q),
         q.kind \in {"create", "update"} => q.place \in Places /\ q.share \in Shares,
         q.kind = "create" => q.employee \in Employees /\ Fits(q.employee, q.share, rows),
         q.kind = "update" => \E r \in rows : r.id = q.id /\ Fits(r.employee, q.share, rows \ {r}),
         q.kind = "save" => q.to \in Contracts,
         q.kind = "calculate" =>
           /\ q = Reading /\ IsFiniteSet(q.new)
           /\ \A r \in q.new :
                r.employee \in Employees /\ r.place \in Places /\ r.share \in Nat,
         q.kind # "delete" => q.at = commits
  PROVE  TablesInv'
<1>1. /\ UNCHANGED <<employee, rows, covered, settled, clean, commits>>
      /\ \A v \in Users : request'[v] = IF v = u THEN q ELSE request[v]
  BY DEF Begin, StaffingInv, Tables
<1>2. StaffingTypeOK' /\ RowsOfThePast' /\ CoverageMatchesRows'
  BY <1>1 DEF TablesInv, StaffingTypeOK, OnTheBooks, RowsOfThePast, CoverageMatchesRows, Present
<1>3. RequestsTyped'
  BY <1>1 DEF TablesInv, RequestsTyped
<1>4. /\ Reading' = Reading
      /\ \A e, s, R : Fits(e, s, R)' = Fits(e, s, R)
  BY <1>1 DEF Reading, Fits, TotalShare, Suggested, Suggestion, Taken, Present, PlaceShare
<1>5. commits \in Nat
  BY StaffingAssumption DEF TablesInv, StaffingTypeOK
<1>6. ChecksAreCurrent'
  <2>1. SUFFICES ASSUME NEW v \in Users,
                        request'[v].kind \in {"create", "update", "calculate"}
                 PROVE  /\ request'[v].at \in 0..commits
                        /\ request'[v].at = commits =>
                             LET s == request'[v] IN
                             /\ s.kind = "create" => Fits(s.employee, s.share, rows)
                             /\ s.kind = "update" =>
                                  \E r \in rows :
                                    r.id = s.id /\ Fits(r.employee, s.share, rows \ {r})
                             /\ s.kind = "calculate" => s = Reading
    BY <1>1, <1>4 DEF ChecksAreCurrent, Fits
  <2>2. CASE v = u
    BY <1>1, <1>5, <2>1, <2>2
  <2>3. CASE v # u
    BY <1>1, <2>1, <2>3 DEF TablesInv, ChecksAreCurrent
  <2> QED BY <2>2, <2>3
<1> QED BY <1>2, <1>3, <1>6 DEF TablesInv

\* What the tables hold stays when nothing but a request or a form changes.
LEMMA QuietKeepsTables ==
  ASSUME StaffingInv, TablesInv,
         UNCHANGED <<employee, rows, covered, settled, clean, commits>>,
         \A v \in Users : request'[v] = Idle \/ request'[v] = request[v]
  PROVE  TablesInv'
<1>1. StaffingTypeOK' /\ RowsOfThePast' /\ CoverageMatchesRows'
  BY DEF TablesInv, StaffingTypeOK, OnTheBooks, RowsOfThePast, CoverageMatchesRows, Present
<1>2. RequestsTyped'
  BY DEF TablesInv, RequestsTyped, Idle
<1>3. /\ Reading' = Reading
      /\ \A e, s, R : Fits(e, s, R)' = Fits(e, s, R)
  BY DEF Reading, Fits, TotalShare, Suggested, Suggestion, Taken, Present, PlaceShare
<1>4. ChecksAreCurrent'
  <2>1. SUFFICES ASSUME NEW v \in Users,
                        request'[v].kind \in {"create", "update", "calculate"}
                 PROVE  /\ request'[v].at \in 0..commits
                        /\ request'[v].at = commits =>
                             LET s == request'[v] IN
                             /\ s.kind = "create" => Fits(s.employee, s.share, rows)
                             /\ s.kind = "update" =>
                                  \E r \in rows :
                                    r.id = s.id /\ Fits(r.employee, s.share, rows \ {r})
                             /\ s.kind = "calculate" => s = Reading
    BY <1>3 DEF ChecksAreCurrent, Fits
  <2>2. request'[v] = request[v]
    BY <2>1 DEF Idle
  <2> QED BY <2>1, <2>2 DEF TablesInv, ChecksAreCurrent
<1> QED BY <1>1, <1>2, <1>4 DEF TablesInv

\* When the clock moves, no request that has read is current any more.
LEMMA ClockOvertakes ==
  ASSUME TablesInv, commits' = commits + 1,
         \A v \in Users : request'[v].kind # "none" => request'[v] = request[v]
  PROVE  RequestsTyped' /\ ChecksAreCurrent'
<1>1. commits \in Nat
  BY StaffingAssumption DEF TablesInv, StaffingTypeOK
<1>2. RequestsTyped'
  BY DEF TablesInv, RequestsTyped
<1>3. ChecksAreCurrent'
  BY <1>1 DEF TablesInv, ChecksAreCurrent
<1> QED BY <1>2, <1>3

\* An edit that moves the clock: the rows it leaves or adds are in order.
LEMMA EditKeepsTables ==
  ASSUME StaffingInv, TablesInv, commits' = commits + 1, commits < MaxCommits, Edited,
         \A v \in Users : request'[v].kind # "none" => request'[v] = request[v],
         IsFiniteSet(rows'),
         \A r \in rows' : r \in RowType /\ OnTheBooks(r.employee)' /\ r.id[1] <= commits',
         \A r, o \in rows' : r.id = o.id => r = o,
         \A e \in Employees :
           /\ employee'[e].status \in Statuses /\ employee'[e].home \in Places \cup {None}
           /\ employee'[e].limit \in Nat /\ employee'[e].stamp \in 0..commits'
  PROVE  TablesInv'
<1>1. commits' \in 0..MaxCommits
  BY StaffingAssumption DEF TablesInv, StaffingTypeOK
<1>2. StaffingTypeOK' /\ RowsOfThePast' /\ CoverageMatchesRows'
  BY <1>1 DEF TablesInv, StaffingTypeOK, RowsOfThePast, CoverageMatchesRows, Edited
<1> QED BY <1>2, ClockOvertakes DEF TablesInv

\* A row that is stored now is of the right type.
LEMMA NewRow ==
  ASSUME TablesInv, commits < MaxCommits, NEW e \in Employees, NEW p \in Places,
         NEW s \in Nat, NEW source \in {"HAND", "AUTO"}
  PROVE  /\ RowOf(IdOf(e), e, p, s, source) \in RowType
         /\ RowOf(IdOf(e), e, p, s, source).id[1] = commits + 1
<1>1. commits + 1 \in 1..MaxCommits
  BY StaffingAssumption DEF TablesInv, StaffingTypeOK
<1>2. IdOf(e) \in RowIds /\ IdOf(e)[1] = commits + 1
  BY <1>1 DEF IdOf, RowIds
<1> QED BY <1>2 DEF RowOf, RowType

\* The shares of an employee, with one row more.
LEMMA ShareAdded ==
  ASSUME NEW R, IsFiniteSet(R), \A r \in R : r.share \in Int,
         NEW n, n \notin R, n.share \in Int, NEW e
  PROVE  /\ TotalShare(e, R) \in Int
         /\ n.employee = e => TotalShare(e, R \cup {n}) = n.share + TotalShare(e, R)
         /\ n.employee # e => TotalShare(e, R \cup {n}) = TotalShare(e, R)
<1> DEFINE S == {r \in R : r.employee = e}
           T == {r \in R \cup {n} : r.employee = e}
           f == ShareOf(R)
           g == ShareOf(R \cup {n})
<1>1. IsFiniteSet(S)
  BY FS_Subset
<1>2. \A r \in S : f[r] \in Int /\ g[r] = f[r]
  BY DEF ShareOf
<1>3. SumOver(f, S) \in Int /\ SumOver(g, S) = SumOver(f, S)
  <2> HIDE DEF S, f, g
  <2> QED BY <1>1, <1>2, SumWhole, SumAgrees
<1>4. CASE n.employee = e
  <2>1. T = S \cup {n} /\ n \in T /\ T \ {n} = S
    BY <1>4
  <2>2. IsFiniteSet(T)
    <3>1. IsFiniteSet(R \cup {n})
      BY FS_AddElement
    <3> QED BY <3>1, FS_Subset
  <2>3. g[n] = n.share /\ \A r \in T : g[r] \in Int
    BY DEF ShareOf
  <2>4. SumOver(g, T) = g[n] + SumOver(g, S)
    <3> HIDE DEF S, T, f, g
    <3> QED BY <2>1, <2>2, <2>3, SumTakesOut
  <2> QED BY <1>3, <1>4, <2>3, <2>4 DEF TotalShare
<1>5. CASE n.employee # e
  <2>1. T = S
    BY <1>5
  <2> QED BY <1>3, <1>5, <2>1 DEF TotalShare
<1> QED BY <1>3, <1>4, <1>5 DEF TotalShare

\* The coverage of a place does not depend on how the rows are numbered.
LEMMA CoverageRenumbered ==
  ASSUME NEW R, IsFiniteSet(R), \A r \in R : r.share \in Int, NEW Q, NEW h, NEW p,
         \A r \in R : /\ h[r] \in Q
                      /\ h[r].share = r.share /\ h[r].place = r.place,
         \A r, o \in R : h[r] = h[o] => r = o,
         \A x \in Q : \E r \in R : h[r] = x
  PROVE  PlaceShare(p, R) = PlaceShare(p, Q)
<1> DEFINE S == {r \in R : r.place = p}
           T == {r \in Q : r.place = p}
           f == ShareOf(R)
           g == ShareOf(Q)
<1>1. IsFiniteSet(S)
  BY FS_Subset
<1>2. \A r \in S : f[r] \in Int /\ h[r] \in T /\ g[h[r]] = f[r]
  BY DEF ShareOf
<1>3. \A r, o \in S : h[r] = h[o] => r = o
  OBVIOUS
<1>4. \A x \in T : \E r \in S : h[r] = x
  OBVIOUS
<1>5. SumOver(f, S) = SumOver(g, T)
  <2> HIDE DEF S, T, f, g
  <2> QED BY <1>1, <1>2, <1>3, <1>4, SumRenamed
<1> QED BY <1>5 DEF PlaceShare

\* Every step keeps the tables in order.
LEMMA TablesStep ==
  ASSUME StaffingInv, TablesInv, [Next]_vars
  PROVE  TablesInv'
<1>0. /\ commits \in Nat /\ \A r \in rows : r \in RowType /\ OnTheBooks(r.employee)
      /\ IsFiniteSet(rows) /\ \A r \in rows : r.id[1] \in Nat /\ r.id[1] <= commits
      /\ FullTime \in Nat
  BY StaffingAssumption DEF TablesInv, StaffingTypeOK, RowsOfThePast, RowType, RowIds
<1>1. ASSUME NEW u \in Users, CheckCreate(u) \/ CheckUpdate(u) \/ CheckDelete(u) \/ CheckSave(u)
      PROVE  TablesInv'
  <2>1. CASE CheckCreate(u)
    <3>1. PICK e \in Employees, p \in Places, s \in Shares :
            Fits(e, s, rows) /\
            Begin(u, [kind |-> "create", employee |-> e, place |-> p, share |-> s, at |-> commits])
      BY <2>1 DEF CheckCreate
    <3> QED BY <3>1, BeginKeepsTables
  <2>2. CASE CheckUpdate(u)
    <3>1. PICK r \in rows, p \in Places, s \in Shares, keep \in BOOLEAN :
            Fits(r.employee, s, rows \ {r}) /\
            Begin(u, [kind |-> "update", id |-> r.id, place |-> p, share |-> s, keep |-> keep,
                      at |-> commits])
      BY <2>2 DEF CheckUpdate
    <3> QED BY <3>1, BeginKeepsTables
  <2>3. CASE CheckDelete(u)
    <3>1. PICK r \in rows : Begin(u, [kind |-> "delete", id |-> r.id, at |-> commits])
      BY <2>3 DEF CheckDelete
    <3> QED BY <3>1, BeginKeepsTables
  <2>4. CASE CheckSave(u)
    <3>1. PICK c \in Contracts :
            Begin(u, [kind |-> "save", employee |-> form[u].employee, to |-> c,
                      seen |-> form[u].stamp, at |-> commits])
      BY <2>4 DEF CheckSave
    <3> QED BY <3>1, BeginKeepsTables
  <2> QED BY <1>1, <2>1, <2>2, <2>3, <2>4
<1>2. ASSUME NEW u \in Users, CheckCalculate(u)
      PROVE  TablesInv'
  <2> DEFINE of == [e \in Employees |-> Suggestion(e, <<0, e>>)]
             new == {of[e] : e \in Suggested}
  <2>1. Reading.kind = "calculate" /\ Reading.at = commits /\ Reading.new = new
    BY DEF Reading, Suggested
  <2>2. IsFiniteSet(new)
    <3>1. Suggested \subseteq Employees /\ IsFiniteSet(Suggested)
      BY StaffingAssumption, FS_Subset DEF Suggested
    <3> HIDE DEF of
    <3> QED BY <3>1, FiniteImage
  <2>3. ASSUME NEW r \in new
        PROVE  r.employee \in Employees /\ r.place \in Places /\ r.share \in Nat
    <3>1. PICK e \in Suggested : r = Suggestion(e, <<0, e>>)
      BY DEF Suggested
    <3>2. /\ e \in Employees /\ employee[e].limit \in Nat /\ employee[e].home # None
          /\ employee[e].home \in Places \cup {None}
      BY DEF Suggested, TablesInv, StaffingTypeOK
    <3>3. Min({employee[e].limit, FullTime}) \in Nat
      <4> DEFINE a == employee[e].limit
      <4>1. \E x \in {a, FullTime} : \A y \in {a, FullTime} : x <= y
        BY <1>0, <3>2
      <4>2. Min({a, FullTime}) \in {a, FullTime}
        BY <4>1 DEF Min
      <4> QED BY <1>0, <3>2, <4>2
    <3> QED BY <3>1, <3>2, <3>3 DEF Suggestion, RowOf
  <2>4. Begin(u, Reading)
    BY <1>2 DEF CheckCalculate
  <2> HIDE DEF new
  <2> QED BY <2>1, <2>2, <2>3, <2>4, BeginKeepsTables
<1>3. ASSUME NEW u \in Users, OpenForm(u) \/ Fail(u)
      PROVE  TablesInv'
  <2>1. UNCHANGED <<employee, rows, covered, settled, clean, commits>>
    BY <1>3 DEF OpenForm, Fail
  <2>2. \A v \in Users : request'[v] = Idle \/ request'[v] = request[v]
    BY <1>3 DEF OpenForm, Fail, StaffingInv, Tables
  <2> QED BY <2>1, <2>2, QuietKeepsTables
<1>4. CASE UNCHANGED vars
  BY <1>4, QuietKeepsTables DEF vars
\* Edits of the rows alone.
<1>5. ASSUME NEW u \in Users, Commit(u), Edited, employee' = employee, IsFiniteSet(rows'),
             \A r \in rows' : r \in RowType /\ OnTheBooks(r.employee) /\ r.id[1] <= commits + 1,
             \A r, o \in rows' : r.id = o.id => r = o
      PROVE  TablesInv'
  <2>1. commits' = commits + 1 /\ commits < MaxCommits
    BY <1>5 DEF Commit
  <2>2. \A v \in Users : request'[v].kind # "none" => request'[v] = request[v]
    BY <1>5, CommitEnds
  <2>3. \A e \in Employees :
          /\ employee'[e].status \in Statuses /\ employee'[e].home \in Places \cup {None}
          /\ employee'[e].limit \in Nat /\ employee'[e].stamp \in 0..commits'
    BY <1>0, <1>5, <2>1 DEF TablesInv, StaffingTypeOK
  <2>4. \A r \in rows' : OnTheBooks(r.employee)'
    BY <1>5 DEF OnTheBooks
  <2> QED BY <1>5, <2>1, <2>2, <2>3, <2>4, EditKeepsTables
<1>6. ASSUME NEW u \in Users, Create(u)
      PROVE  TablesInv'
  <2> DEFINE q == request[u]
             n == RowOf(IdOf(q.employee), q.employee, q.place, q.share, "HAND")
  <2>1. CASE ~Fail(u)
    <3>1. /\ OnTheBooks(q.employee) /\ rows' = rows \cup {n} /\ Commit(u) /\ Edited
          /\ employee' = employee /\ commits < MaxCommits
      BY <1>6, <2>1 DEF Create, CanStore, Commit
    <3>2. /\ q.employee \in Employees /\ q.place \in Places
          /\ q.share \in Nat
      BY <1>6, StaffingAssumption DEF Create, TablesInv, RequestsTyped
    <3>3. n \in RowType /\ n.id[1] = commits + 1 /\ n.employee = q.employee /\ n.share = q.share
      BY <3>1, <3>2, NewRow DEF RowOf
    <3>4. IsFiniteSet(rows')
      BY <1>0, <3>1, FS_AddElement
    <3> HIDE DEF n
    <3>5. \A r \in rows' : r \in RowType /\ OnTheBooks(r.employee) /\ r.id[1] <= commits + 1
      BY <1>0, <3>1, <3>2, <3>3 DEF TablesInv, StaffingTypeOK
    <3>6. \A r, o \in rows' : r.id = o.id => r = o
      BY <1>0, <3>1, <3>3 DEF TablesInv, StaffingTypeOK
    <3> QED BY <1>5, <3>1, <3>4, <3>5, <3>6
  <2> QED BY <1>3, <2>1
<1>7. ASSUME NEW u \in Users, Update(u)
      PROVE  TablesInv'
  <2> DEFINE q == request[u]
  <2>1. CASE ~Fail(u)
    <3>1. PICK r \in rows, s \in {"AUTO", "HAND"} :
            /\ rows' = (rows \ {r}) \cup {RowOf(r.id, r.employee, q.place, q.share, s)}
            /\ Commit(u) /\ Edited /\ employee' = employee
      BY <1>0, <1>7, <2>1 DEF Update, RowType
    <3> DEFINE n == RowOf(r.id, r.employee, q.place, q.share, s)
    <3>2. q.place \in Places /\ q.share \in Nat
      BY <1>7, StaffingAssumption DEF Update, TablesInv, RequestsTyped
    <3>3. n \in RowType /\ n.id = r.id /\ n.employee = r.employee /\ n.share = q.share
      BY <1>0, <3>2 DEF RowType, RowOf
    <3>4. IsFiniteSet(rows')
      BY <1>0, <3>1, FS_AddElement, FS_RemoveElement
    <3> HIDE DEF n
    <3>5. rows' = (rows \ {r}) \cup {n}
      BY <3>1 DEF n
    <3>6. \A x \in rows' : x \in RowType /\ OnTheBooks(x.employee) /\ x.id[1] <= commits + 1
      BY <1>0, <3>2, <3>3, <3>5 DEF TablesInv, StaffingTypeOK
    <3>7. \A x, o \in rows' : x.id = o.id => x = o
      BY <3>3, <3>5 DEF TablesInv, StaffingTypeOK
    <3> QED BY <1>5, <3>1, <3>4, <3>6, <3>7
  <2> QED BY <1>3, <2>1
<1>8. ASSUME NEW u \in Users, Delete(u)
      PROVE  TablesInv'
  <2>1. CASE ~Fail(u)
    <3>1. rows' \subseteq rows /\ Commit(u) /\ Edited /\ employee' = employee
      BY <1>8, <2>1 DEF Delete
    <3>2. IsFiniteSet(rows')
      BY <1>0, <3>1, FS_Subset
    <3>3. \A x \in rows' : x \in RowType /\ OnTheBooks(x.employee) /\ x.id[1] <= commits + 1
      BY <1>0, <3>1 DEF TablesInv, StaffingTypeOK
    <3>4. \A x, o \in rows' : x.id = o.id => x = o
      BY <3>1 DEF TablesInv, StaffingTypeOK
    <3> QED BY <1>5, <3>1, <3>2, <3>3, <3>4
  <2> QED BY <1>3, <2>1
\* Edits of an employee, which take no row but those of one deleted.
<1>9. ASSUME commits' = commits + 1, commits < MaxCommits, Edited,
             \A v \in Users : request'[v].kind # "none" => request'[v] = request[v],
             rows' \subseteq rows, NEW e \in Employees, NEW row,
             employee' = [employee EXCEPT ![e] = row],
             row.status \in Statuses /\ row.home \in Places \cup {None},
             row.limit \in Nat /\ row.stamp \in 0..(commits + 1),
             row.status \in {"active", "departed"} \/ \A r \in rows' : r.employee # e
      PROVE  TablesInv'
  <2>1. DOMAIN employee = Employees
    BY DEF StaffingInv, Tables
  <2>2. \A f \in Employees :
          /\ employee'[f].status \in Statuses /\ employee'[f].home \in Places \cup {None}
          /\ employee'[f].limit \in Nat /\ employee'[f].stamp \in 0..commits'
    BY <1>0, <1>9, <2>1 DEF TablesInv, StaffingTypeOK
  <2>3. \A r \in rows' : r \in RowType /\ OnTheBooks(r.employee)' /\ r.id[1] <= commits'
    BY <1>0, <1>9, <2>1 DEF TablesInv, StaffingTypeOK, OnTheBooks
  <2>4. IsFiniteSet(rows') /\ \A r, o \in rows' : r.id = o.id => r = o
    BY <1>0, <1>9, FS_Subset DEF TablesInv, StaffingTypeOK
  <2> QED BY <1>9, <2>2, <2>3, <2>4, EditKeepsTables
<1>10. ASSUME NEW c \in Contracts
       PROVE  LET row == EmployeeRow(c, commits + 1) IN
              /\ row.status \in {"active", "departed"} /\ row.home \in Places \cup {None}
              /\ row.limit \in Nat /\ row.stamp \in 0..(commits + 1)
              /\ row.status \in Statuses
  BY <1>0, StaffingAssumption DEF EmployeeRow, Statuses
<1>11. ASSUME NEW u \in Users, Save(u)
       PROVE  TablesInv'
  <2> DEFINE q == request[u]
  <2>1. CASE ~Fail(u)
    <3>1. /\ employee' = [employee EXCEPT ![q.employee] = EmployeeRow(q.to, commits + 1)]
          /\ Commit(u) /\ Edited /\ rows' = rows /\ commits < MaxCommits
      BY <1>11, <2>1 DEF Save, Commit
    <3>2. q.to \in Contracts /\ q.employee \in Employees
      BY <1>11 DEF Save, TablesInv, RequestsTyped, StaffingInv, SavesAreCurrent
    <3>3. /\ commits' = commits + 1
          /\ \A v \in Users : request'[v].kind # "none" => request'[v] = request[v]
      BY <3>1, CommitEnds
    <3> QED BY <1>9, <1>10, <3>1, <3>2, <3>3
  <2> QED BY <1>3, <2>1
<1>12. ASSUME NEW e \in Employees, Hire(e)
       PROVE  TablesInv'
  <2>1. PICK c \in Contracts : employee' = [employee EXCEPT ![e] = EmployeeRow(c, commits + 1)]
    BY <1>12 DEF Hire
  <2>2. /\ commits' = commits + 1 /\ commits < MaxCommits /\ Edited
        /\ rows' = rows /\ request' = request
    BY <1>12 DEF Hire
  <2> QED BY <1>9, <1>10, <2>1, <2>2
<1>13. ASSUME NEW e \in Employees, Dismiss(e)
       PROVE  TablesInv'
  <2> DEFINE row == [status |-> "deleted", home |-> employee[e].home,
                     limit |-> employee[e].limit, stamp |-> employee[e].stamp]
  <2>1. /\ commits' = commits + 1 /\ commits < MaxCommits /\ Edited
        /\ rows' = {r \in rows : r.employee # e} /\ request' = request
        /\ employee' = [employee EXCEPT ![e] = row]
    BY <1>13 DEF Dismiss
  <2>2. /\ row.status \in Statuses /\ row.home \in Places \cup {None}
        /\ row.limit \in Nat /\ row.stamp \in 0..(commits + 1)
    BY <1>0 DEF Statuses, TablesInv, StaffingTypeOK
  <2> HIDE DEF row
  <2> QED BY <1>9, <2>1, <2>2
<1>14. ASSUME NEW u \in Users, Calculate(u)
       PROVE  TablesInv'
  <2> DEFINE q == request[u]
             fits == {r \in q.new : ~Taken(r.employee, r.place, Kept)}
             again == [r \in fits |->
                         RowOf(IdOf(r.employee), r.employee, r.place, r.share, "AUTO")]
             stored == {again[r] : r \in fits}
  <2>1. CASE ~Fail(u)
    <3>1. /\ q.kind = "calculate" /\ \A r \in fits : OnTheBooks(r.employee)
          /\ rows' = Kept \cup stored /\ covered' = q.covers
          /\ settled' = (q.at = commits) /\ clean' = (q.at = commits /\ q.clean)
          /\ Commit(u) /\ employee' = employee
      BY <1>14, <2>1 DEF Calculate
    <3>2. commits' = commits + 1 /\ commits < MaxCommits
      BY <3>1 DEF Commit
    <3>3. \A v \in Users : request'[v].kind # "none" => request'[v] = request[v]
      BY <3>1, CommitEnds
    <3>4. IsFiniteSet(q.new) /\ \A r \in q.new :
            r.employee \in Employees /\ r.place \in Places /\ r.share \in Nat
      BY <3>1 DEF TablesInv, RequestsTyped
    <3>5. \A r, o \in fits : r.employee = o.employee => r = o
      BY <3>1 DEF StaffingInv, SuggestionsApart
    <3>6. \A r \in fits : /\ again[r] \in RowType /\ again[r].id = <<commits + 1, r.employee>>
                          /\ again[r].id[1] = commits + 1 /\ again[r].employee = r.employee
                          /\ again[r].place = r.place /\ again[r].share = r.share
                          /\ again[r].source = "AUTO"
      BY <3>2, <3>4, NewRow DEF RowOf, IdOf
    <3>7. IsFiniteSet(rows')
      <4>1. IsFiniteSet(fits)
        BY <3>4, FS_Subset
      <4>2. IsFiniteSet(stored)
        <5> HIDE DEF again, fits
        <5> QED BY <4>1, FiniteImage
      <4>3. IsFiniteSet(Kept)
        BY <1>0, FS_Subset DEF Kept
      <4> QED BY <3>1, <4>2, <4>3, FS_Union
    <3> HIDE DEF again, fits
    <3>8. \A r \in rows' : r \in RowType /\ OnTheBooks(r.employee)' /\ r.id[1] <= commits'
      <4>1. \A r \in Kept : r \in RowType /\ OnTheBooks(r.employee)' /\ r.id[1] <= commits'
        BY <1>0, <3>1, <3>2 DEF Kept, TablesInv, StaffingTypeOK, OnTheBooks
      <4>2. \A r \in stored : r \in RowType /\ OnTheBooks(r.employee)' /\ r.id[1] <= commits'
        BY <1>0, <3>1, <3>2, <3>6 DEF OnTheBooks
      <4> QED BY <3>1, <4>1, <4>2
    <3>9. \A r, o \in rows' : r.id = o.id => r = o
      <4>1. \A r, o \in Kept : r.id = o.id => r = o
        BY DEF Kept, TablesInv, StaffingTypeOK
      <4>2. \A r, o \in stored : r.id = o.id => r = o
        BY <3>5, <3>6
      <4>3. \A r \in Kept, o \in stored : r.id # o.id
        BY <1>0, <3>6 DEF Kept
      <4> QED BY <3>1, <4>1, <4>2, <4>3
    <3>10. StaffingTypeOK' /\ RowsOfThePast'
      <4>1. commits' \in 0..MaxCommits
        BY <1>0, <3>2, StaffingAssumption
      <4>2. \A e \in Employees :
              /\ employee'[e].status \in Statuses /\ employee'[e].home \in Places \cup {None}
              /\ employee'[e].limit \in Nat /\ employee'[e].stamp \in 0..commits'
        BY <1>0, <3>1, <3>2 DEF TablesInv, StaffingTypeOK
      <4>3. settled' \in BOOLEAN /\ clean' \in BOOLEAN
        BY <3>1
      <4> QED BY <3>7, <3>8, <3>9, <4>1, <4>2, <4>3 DEF StaffingTypeOK, RowsOfThePast
    <3>11. CoverageMatchesRows'
      <4> SUFFICES ASSUME q.at = commits, q.clean, NEW p \in Places
                   PROVE  q.covers[p] = PlaceShare(p, Present(rows))'
        BY <3>1 DEF CoverageMatchesRows
      <4> DEFINE new == {Suggestion(e, <<0, e>>) : e \in Suggested}
                 there == Present(rows \cup new)
                 Still == {r \in Kept \cup stored : employee[r.employee].status = "active"}
                 h == [r \in there |-> IF r \in rows THEN r ELSE again[r]]
      <4>1. q = Reading
        BY <3>1 DEF TablesInv, ChecksAreCurrent
      <4>2. /\ q.new = new /\ \A r \in rows : r.source # "AUTO"
            /\ q.covers[p] = PlaceShare(p, there)
        BY <4>1 DEF Reading
      <4>3. Kept = rows
        BY <4>2 DEF Kept
      <4>4. fits = new
        <5>1. ASSUME NEW r \in new
              PROVE  ~Taken(r.employee, r.place, rows)
          <6>1. PICK e \in Suggested : r = Suggestion(e, <<0, e>>)
            OBVIOUS
          <6>2. r.employee = e /\ r.place = employee[e].home
            BY <6>1 DEF Suggestion, RowOf
          <6> QED BY <6>2 DEF Suggested
        <5> QED BY <4>2, <4>3, <5>1 DEF fits
      <4>5. \A r \in new : r.id[1] = 0 /\ r \notin rows
        <5>1. TAKE r \in new
        <5>2. PICK e \in Suggested : r = Suggestion(e, <<0, e>>)
          OBVIOUS
        <5>3. r.id = <<0, e>>
          BY <5>2 DEF Suggestion, RowOf
        <5>4. r.id[1] = 0
          BY <5>3
        <5>5. \A x \in rows : x.id[1] \in 1..MaxCommits
          BY <1>0 DEF RowType, RowIds
        <5> QED BY <5>4, <5>5
      <4>6. rows \cap stored = {}
        BY <1>0, <3>6
      <4>7. IsFiniteSet(there)
        <5>1. IsFiniteSet(rows \cup new)
          BY <1>0, <3>4, <4>2, FS_Union
        <5> QED BY <5>1, FS_Subset DEF Present
      <4>8. Present(rows)' = Still
        BY <3>1 DEF Present
      <4>9. \A r \in rows : r.employee \in Employees /\ r.share \in Int
        BY <1>0 DEF RowType
      <4>10. \A r \in there : r.share \in Int
        BY <1>0, <3>4, <4>2, <4>9 DEF Present
      <4>11. \A r \in there : h[r] \in Still /\ h[r].share = r.share /\ h[r].place = r.place
        BY <3>6, <4>3, <4>4 DEF Present
      <4>12. \A r, o \in there : h[r] = h[o] => r = o
        <5>1. TAKE r, o \in there
        <5>2. CASE r \in rows /\ o \in rows
          BY <5>2
        <5>3. CASE r \notin rows /\ o \notin rows
          <6>1. r \in fits /\ o \in fits
            BY <4>4, <5>3 DEF Present
          <6> QED BY <3>5, <3>6, <5>3, <6>1
        <5>4. CASE r \in rows /\ o \notin rows
          <6>1. o \in fits
            BY <4>4, <5>4 DEF Present
          <6> QED BY <4>6, <5>4, <6>1
        <5>5. CASE r \notin rows /\ o \in rows
          <6>1. r \in fits
            BY <4>4, <5>5 DEF Present
          <6> QED BY <4>6, <5>5, <6>1
        <5> QED BY <5>2, <5>3, <5>4, <5>5
      <4>13. \A x \in Still : \E r \in there : h[r] = x
        <5>1. TAKE x \in Still
        <5>2. CASE x \in rows
          BY <5>2 DEF Present
        <5>3. CASE x \notin rows
          <6>1. PICK r \in fits : x = again[r]
            BY <4>3, <5>3
          <6>2. r \notin rows
            BY <4>4, <4>5
          <6>3. r \in there
            BY <3>6, <4>4, <6>1 DEF Present
          <6> QED BY <6>1, <6>2, <6>3
        <5> QED BY <5>2, <5>3
      <4>14. PlaceShare(p, there) = PlaceShare(p, Still)
        <5> HIDE DEF there, Still, h
        <5> QED BY <4>7, <4>10, <4>11, <4>12, <4>13, CoverageRenumbered
      <4>15. PlaceShare(p, Present(rows))' = PlaceShare(p, Still)
        BY <4>8 DEF PlaceShare
      <4> QED BY <4>2, <4>14, <4>15
    <3> QED BY <3>2, <3>3, <3>10, <3>11, ClockOvertakes DEF TablesInv
  <2> QED BY <1>3, <2>1
<1> QED
  BY <1>1, <1>2, <1>3, <1>4, <1>6, <1>7, <1>8, <1>11, <1>12, <1>13, <1>14 DEF Next

\* The tables are in order from the start and ever after.
LEMMA TablesInvariant == Spec => [](StaffingInv /\ TablesInv)
<1>1. Init => TablesInv
  <2> SUFFICES ASSUME Init PROVE TablesInv
    OBVIOUS
  <2>1. rows = {} /\ settled = FALSE /\ clean = FALSE /\ commits = 0
        /\ \A u \in Users : request[u] = Idle
    BY DEF Init
  <2>2. \A e \in Employees :
          /\ employee[e].status \in Statuses /\ employee[e].home \in Places \cup {None}
          /\ employee[e].limit \in Nat /\ employee[e].stamp \in 0..commits
    <3>1. TAKE e \in Employees
    <3>2. employee[e] = Unborn \/ \E c \in Contracts : employee[e] = EmployeeRow(c, 0)
      BY DEF Init
    <3>3. CASE employee[e] = Unborn
      BY <2>1, <3>3 DEF Unborn, Statuses
    <3>4. ASSUME NEW c \in Contracts, employee[e] = EmployeeRow(c, 0)
          PROVE  /\ employee[e].status \in Statuses /\ employee[e].home \in Places \cup {None}
                 /\ employee[e].limit \in Nat /\ employee[e].stamp \in 0..commits
      <4>1. c.status \in {"active", "departed"} /\ c.home \in Places \cup {None} /\ c.limit \in Nat
        BY StaffingAssumption
      <4> QED BY <2>1, <3>4, <4>1 DEF EmployeeRow, Statuses
    <3> QED BY <3>2, <3>3, <3>4
  <2>3. StaffingTypeOK
    <3>1. \A r \in rows : FALSE
      BY <2>1
    <3>2. settled \in BOOLEAN /\ clean \in BOOLEAN
      BY <2>1, Zenon
    <3>3. commits = 0
      BY <2>1, Zenon
    <3>4. commits \in 0..MaxCommits
      BY <3>3, StaffingAssumption
    <3> QED BY <2>2, <3>1, <3>2, <3>4 DEF StaffingTypeOK
  <2>4. RowsOfThePast
    BY <2>1, FS_EmptySet DEF RowsOfThePast
  <2> QED
    BY <2>1, <2>3, <2>4 DEF TablesInv, RequestsTyped, ChecksAreCurrent, CoverageMatchesRows, Idle
<1>2. StaffingInv /\ TablesInv /\ [Next]_vars => TablesInv'
  BY TablesStep
<1> QED BY <1>1, <1>2, StaffingInvariant, PTL DEF Spec

\* The tables of the staffing keep their types, and no two assignments get
\* one number.
THEOREM StaffingTypes == Spec => []StaffingTypeOK
<1>1. TablesInv => StaffingTypeOK
  BY DEF TablesInv
<1> QED BY <1>1, TablesInvariant, PTL

\* A calculation that nothing overtook stores the coverage of the rows it
\* stores, suggestions included.
THEOREM CoverageIsOfTheRows == Spec => []CoverageMatchesRows
<1>1. TablesInv => CoverageMatchesRows
  BY DEF TablesInv
<1> QED BY <1>1, TablesInvariant, PTL

\* A creation or a change that nothing overtook keeps everybody within his
\* limit, or raises nobody.
LEMMA RaiseStep ==
  ASSUME StaffingInv, TablesInv, [Next]_vars, NEW u \in Users, NEW e \in Employees,
         request[u].kind \in {"create", "update"}, request[u].at = commits,
         request'[u] = Idle, TotalShare(e, rows') > TotalShare(e, rows)
  PROVE  TotalShare(e, rows') <= employee[e].limit
<1> DEFINE q == request[u]
<1>1. /\ IsFiniteSet(rows) /\ \A r \in rows : r.share \in Int
      /\ q.share \in Int /\ q.kind # "none" /\ q # Idle
  <2>1. \A r \in rows : r.share \in Nat
    BY DEF TablesInv, StaffingTypeOK, RowType
  <2>2. q.share \in Nat
    BY StaffingAssumption DEF TablesInv, RequestsTyped
  <2> QED BY <2>1, <2>2 DEF TablesInv, RowsOfThePast, Idle
<1>2. rows' # rows
  <2>1. IsFiniteSet({r \in rows : r.employee = e})
    BY <1>1, FS_Subset
  <2>2. \A r \in {x \in rows : x.employee = e} : ShareOf(rows)[r] \in Int
    BY <1>1 DEF ShareOf
  <2>3. TotalShare(e, rows) \in Int
    <3> DEFINE S == {r \in rows : r.employee = e}
               f == ShareOf(rows)
    <3>1. IsFiniteSet(S) /\ \A r \in S : f[r] \in Int
      BY <2>1, <2>2
    <3>2. TotalShare(e, rows) = SumOver(f, S)
      BY DEF TotalShare
    <3> HIDE DEF f, S
    <3> QED BY <3>1, <3>2, SumWhole
  <2>4. ~(TotalShare(e, rows) > TotalShare(e, rows))
    <3> DEFINE n == TotalShare(e, rows)
    <3>1. n \in Int
      BY <2>3
    <3> HIDE DEF n
    <3>2. ~(n > n)
      BY <3>1
    <3> QED BY <3>2 DEF n
  <2>5. rows' = rows => TotalShare(e, rows') = TotalShare(e, rows)
    OBVIOUS
  <2> QED BY <2>4, <2>5
<1>3. Create(u) \/ Update(u)
  <2>1. DOMAIN request = Users
    BY DEF StaffingInv, Tables
  <2>2. ASSUME NEW v \in Users, NEW x, Begin(v, x)
        PROVE  FALSE
    BY <1>2, <2>2 DEF Begin
  <2>3. ASSUME NEW v \in Users, v # u, request' = [request EXCEPT ![v] = Idle]
        PROVE  FALSE
    BY <1>1, <2>1, <2>3
  <2>4. ASSUME request' = request
        PROVE  FALSE
    BY <1>1, <2>4
  <2>5. ASSUME NEW v \in Users,
               CheckCreate(v) \/ CheckUpdate(v) \/ CheckDelete(v) \/ CheckSave(v) \/ CheckCalculate(v)
        PROVE  FALSE
    BY <2>2, <2>5 DEF CheckCreate, CheckUpdate, CheckDelete, CheckSave, CheckCalculate
  <2>6. ASSUME NEW v \in Users, OpenForm(v)
        PROVE  FALSE
    BY <1>2, <2>6 DEF OpenForm
  <2>7. ASSUME NEW v \in Users, v # u,
               Create(v) \/ Update(v) \/ Delete(v) \/ Save(v) \/ Calculate(v)
        PROVE  FALSE
    BY <2>3, <2>7 DEF Create, Update, Delete, Save, Calculate, Commit, Fail
  <2>8. ~(Delete(u) \/ Save(u) \/ Calculate(u))
    BY DEF Delete, Save, Calculate
  <2>9. ASSUME NEW f \in Employees, Hire(f) \/ Dismiss(f)
        PROVE  FALSE
    BY <2>4, <2>9 DEF Hire, Dismiss
  <2>10. CASE UNCHANGED vars
    BY <2>4, <2>10 DEF vars
  <2> QED BY <2>5, <2>6, <2>7, <2>8, <2>9, <2>10 DEF Next
<1>4. CASE Create(u)
  <2> DEFINE n == RowOf(IdOf(q.employee), q.employee, q.place, q.share, "HAND")
  <2>1. rows' = rows \cup {n}
    BY <1>2, <1>4 DEF Create, Fail
  <2>2. Fits(q.employee, q.share, rows)
    BY <1>4 DEF Create, TablesInv, ChecksAreCurrent
  <2>3. n.share = q.share /\ n.employee = q.employee /\ n \notin rows
    BY <1>2, <2>1 DEF RowOf
  <2> HIDE DEF n
  <2>4. /\ TotalShare(e, rows) \in Int
        /\ n.employee = e => TotalShare(e, rows') = q.share + TotalShare(e, rows)
        /\ n.employee # e => TotalShare(e, rows') = TotalShare(e, rows)
    BY <1>1, <2>1, <2>3, ShareAdded
  <2>5. n.employee = e
    BY <2>4
  <2> QED BY <1>1, <2>2, <2>3, <2>4, <2>5 DEF Fits
<1>5. CASE Update(u)
  <2>1. PICK r \in rows, s \in {"AUTO", "HAND"} :
          r.id = q.id /\ rows' = (rows \ {r}) \cup {RowOf(r.id, r.employee, q.place, q.share, s)}
    BY <1>2, <1>5 DEF Update, Fail, TablesInv, StaffingTypeOK, RowType
  <2> DEFINE n == RowOf(r.id, r.employee, q.place, q.share, s)
             R == rows \ {r}
  <2>2. Fits(r.employee, q.share, R)
    <3>1. PICK o \in rows : o.id = q.id /\ Fits(o.employee, q.share, rows \ {o})
      BY <1>5 DEF Update, TablesInv, ChecksAreCurrent
    <3>2. o = r
      BY <2>1, <3>1 DEF TablesInv, StaffingTypeOK
    <3> QED BY <3>1, <3>2
  <2>3. n.share = q.share /\ n.employee = r.employee /\ n.id = r.id
    BY DEF RowOf
  <2> HIDE DEF n
  <2>4. n \notin R
    BY <2>3 DEF TablesInv, StaffingTypeOK
  <2>5. IsFiniteSet(R) /\ (\A x \in R : x.share \in Int) /\ rows = R \cup {r} /\ r \notin R
    BY <1>1, FS_RemoveElement
  <2>6. rows' = R \cup {n}
    BY <2>1 DEF n
  <2> HIDE DEF R
  <2>7. /\ TotalShare(e, R) \in Int
        /\ n.employee = e => TotalShare(e, rows') = q.share + TotalShare(e, R)
        /\ n.employee # e => TotalShare(e, rows') = TotalShare(e, R)
    BY <1>1, <2>3, <2>4, <2>5, <2>6, ShareAdded
  <2>8. r.employee # e => TotalShare(e, rows) = TotalShare(e, R)
    BY <1>1, <2>5, ShareAdded
  <2>9. n.employee = e
    BY <2>3, <2>7, <2>8
  <2> QED BY <1>1, <2>2, <2>3, <2>7, <2>9 DEF Fits
<1> QED BY <1>3, <1>4, <1>5

\* Only a request that was overtaken takes somebody beyond his limit.
THEOREM RaisesFit == Spec => UndisturbedRaisesFit
<1>1. StaffingInv /\ TablesInv /\ [Next]_vars =>
        \A u \in Users, e \in Employees :
          /\ request[u].kind \in {"create", "update"} /\ request[u].at = commits
          /\ request'[u] = Idle
          /\ TotalShare(e, rows') > TotalShare(e, rows)
          => TotalShare(e, rows') <= employee[e].limit
  BY RaiseStep
<1> QED BY <1>1, TablesInvariant, PTL DEF UndisturbedRaisesFit, Spec
=============================================================================
