------------------------ MODULE StaffingAssignments ------------------------
(***************************************************************************)
(* The employees of a draft version and their assignments: rows that give  *)
(* a share of an employee's time to a place, which is a band and a         *)
(* discipline.  Requests check first and write in a transaction later, so  *)
(* that others commit in between; a calculation reads everything, adds a   *)
(* suggested ("AUTO") row for every teacher without one, and replaces the  *)
(* suggestions stored before.  Shares and limits are counted in units,     *)
(* FullTime of them to a full position.                                    *)
(***************************************************************************)
EXTENDS Naturals, FiniteSets, Sums

CONSTANTS
  Employees,   \* employees there may be
  Places,      \* bands and disciplines that have a requirement line
  Users,       \* requests under way, or forms open, at the same time, at most
  None,        \* no home, no form
  FullTime,    \* units of a full position
  Contracts,   \* what the forms may say of an employee: status, home, limit
  Shares,      \* the shares the forms may send, none at all and several positions too
  MaxCommits   \* transactions committed, at most

ASSUME StaffingAssumption ==
  /\ None \notin Places /\ IsFiniteSet(Employees)
  /\ FullTime \in Nat \ {0}
  /\ Contracts \subseteq [status : {"active", "departed"}, home : Places \cup {None}, limit : Nat]
  /\ Shares \subseteq Nat /\ MaxCommits \in Nat

VARIABLES
  employee,  \* employee[e]: the row of employee e
  rows,      \* the assignments
  covered,   \* covered[p]: the coverage stored with the requirement line of p
  settled,   \* the last commit was a calculation, of data unchanged since it read them
  clean,     \* ... and it had found no suggestion stored by an earlier one
  commits,   \* transactions committed; it also serves as the clock
  request,   \* request[u]: what request u has checked and not yet written
  form       \* form[u]: the employee user u edits, as last loaded

vars == <<employee, rows, covered, settled, clean, commits, request, form>>

Statuses == {"unborn", "active", "departed", "deleted"}
OnTheBooks(e) == employee[e].status \in {"active", "departed"}

\* A teacher has a home band and a discipline, other staff have none; the
\* limit is hourlyPercentage.
EmployeeRow(c, stamp) ==
  [status |-> c.status, home |-> c.home, limit |-> c.limit, stamp |-> stamp]

RowOf(id, e, p, s, source) ==
  [id |-> id, employee |-> e, place |-> p, share |-> s, source |-> source]
IdOf(e) == <<commits + 1, e>>

Idle == [kind |-> "none"]

ShareOf(R) == [r \in R |-> r.share]
TotalShare(e, R) == SumOver(ShareOf(R), {r \in R : r.employee = e})
PlaceShare(p, R) == SumOver(ShareOf(R), {r \in R : r.place = p})
Taken(e, p, R) == \E r \in R : r.employee = e /\ r.place = p

\* Mutant: a row being changed counts towards the limit of its own change ...
FitsNeglecting(e, s, R) == s <= employee[e].limit
\* The shares of e, the new one among them, stay within the limit.
Fits(e, s, R) == TotalShare(e, R) + s <= employee[e].limit

-----------------------------------------------------------------------------
(* Checks: what a request reads before its transaction.                    *)

\* A user who sends a request has no form open any more: a form that stays
\* open meanwhile is that of another user.
Begin(u, q) ==
  /\ request[u] = Idle /\ commits < MaxCommits
  /\ request' = [request EXCEPT ![u] = q]
  /\ form' = [form EXCEPT ![u] = None]
  /\ UNCHANGED <<employee, rows, covered, settled, clean, commits>>

\* POST, one user's or one of those the suggestion dialog sends all at once.
\* The route takes a source too; no page sends one, and the row is MANUAL.
CheckCreate(u) ==
  \E e \in Employees, p \in Places, s \in Shares :
    /\ OnTheBooks(e) /\ employee[e].home # None
    /\ Fits(e, s, rows)
    /\ Begin(u, [kind |-> "create", employee |-> e, place |-> p, share |-> s, at |-> commits])

\* PUT; without a source in its body the row keeps its own.
CheckUpdate(u) ==
  \E r \in rows, p \in Places, s \in Shares, keep \in BOOLEAN :
    /\ Fits(r.employee, s, rows \ {r})
    /\ Begin(u, [kind |-> "update", id |-> r.id, place |-> p, share |-> s, keep |-> keep,
                 at |-> commits])

CheckDelete(u) ==
  \E r \in rows : Begin(u, [kind |-> "delete", id |-> r.id, at |-> commits])

\* The user opens an employee's form, or reloads it.
OpenForm(u) ==
  /\ request[u] = Idle
  /\ \E e \in Employees :
       /\ OnTheBooks(e)
       /\ form' = [form EXCEPT ![u] = [employee |-> e, stamp |-> employee[e].stamp]]
  /\ form' # form
  /\ UNCHANGED <<employee, rows, covered, settled, clean, commits, request>>

\* Mutant: If-Match is not compared.
Unchanged(f) == TRUE
\* If-Match, which the form sends: nobody has saved the employee since.
Matches(f) == employee[f.employee].stamp = f.stamp

CheckSave(u) ==
  LET f == form[u] IN
  /\ f # None
  /\ OnTheBooks(f.employee) /\ Matches(f)
  /\ \E c \in Contracts :
       Begin(u, [kind |-> "save", employee |-> f.employee, to |-> c, seen |-> f.stamp,
                 at |-> commits])

\* Mutant: a suggestion is added beside the row that is there.
SuggestedAgain ==
  {e \in Employees : employee[e].status = "active" /\ employee[e].home # None}

\* The suggestions a calculation adds: the whole working time of each
\* teacher who has no row at home, whatever rows he has elsewhere.
Suggested ==
  {e \in Employees : /\ employee[e].status = "active" /\ employee[e].home # None
                     /\ ~Taken(e, employee[e].home, rows)}
Suggestion(e, id) == RowOf(id, e, employee[e].home, Min({employee[e].limit, FullTime}), "AUTO")

\* The calculation reads, adds its suggestions in memory, and computes the
\* coverage of each place by those who have not departed.
Present(R) == {r \in R : employee[r.employee].status = "active"}
Reading ==
  LET new == {Suggestion(e, <<0, e>>) : e \in Suggested} IN
  [kind |-> "calculate", new |-> new,
   covers |-> [p \in Places |-> PlaceShare(p, Present(rows \cup new))],
   read |-> {e \in Employees : employee[e].status = "active"},
   clean |-> \A r \in rows : r.source # "AUTO",
   at |-> commits]
CheckCalculate(u) == Begin(u, Reading)

-----------------------------------------------------------------------------
(* Commits: the transactions.  Each bumps the clock and ends its request.  *)

Commit(u) ==
  /\ request' = [request EXCEPT ![u] = Idle]
  /\ commits' = commits + 1 /\ commits < MaxCommits
  /\ UNCHANGED form

Edited == settled' = FALSE /\ clean' = FALSE /\ UNCHANGED covered

\* The transaction of u fails, with an error and without effect.
Fail(u) ==
  /\ request' = [request EXCEPT ![u] = Idle]
  /\ UNCHANGED <<employee, rows, covered, settled, clean, commits, form>>

\* Mutant: a second row of an employee for a place is stored.
CanStoreAnyway(e, p, R) == OnTheBooks(e)
\* The foreign key and the unique key allow a row.
CanStore(e, p, R) == OnTheBooks(e) /\ ~Taken(e, p, R)

Create(u) ==
  LET q == request[u] IN
  /\ q.kind = "create"
  /\ \/ /\ CanStore(q.employee, q.place, rows)
        /\ rows' = rows \cup {RowOf(IdOf(q.employee), q.employee, q.place, q.share, "HAND")}
        /\ Commit(u) /\ Edited /\ UNCHANGED employee
     \/ ~CanStore(q.employee, q.place, rows) /\ Fail(u)

Update(u) ==
  LET q == request[u]
      there == {r \in rows : r.id = q.id}
  IN
  /\ q.kind = "update"
  /\ \/ \E r \in there :
          /\ CanStore(r.employee, q.place, rows \ {r})
          /\ rows' = (rows \ {r}) \cup
               {RowOf(r.id, r.employee, q.place, q.share, IF q.keep THEN r.source ELSE "HAND")}
          /\ Commit(u) /\ Edited /\ UNCHANGED employee
     \/ /\ \A r \in there : ~CanStore(r.employee, q.place, rows \ {r})
        /\ Fail(u)

Delete(u) ==
  LET there == {r \in rows : r.id = request[u].id} IN
  /\ request[u].kind = "delete"
  /\ \/ there # {} /\ rows' = rows \ there /\ Commit(u) /\ Edited /\ UNCHANGED employee
     \/ there = {} /\ Fail(u)

\* The update of an employee who has been deleted touches no row, and the
\* request ends with an error after it.
Save(u) ==
  LET q == request[u] IN
  /\ q.kind = "save"
  /\ \/ /\ OnTheBooks(q.employee)
        /\ employee' = [employee EXCEPT ![q.employee] = EmployeeRow(q.to, commits + 1)]
        /\ Commit(u) /\ Edited /\ UNCHANGED rows
     \/ ~OnTheBooks(q.employee) /\ Fail(u)

\* Mutant: the rows of the version are deleted whatever their source.
KeptNone == {}
\* What a calculation leaves of the stored rows.
Kept == {r \in rows : r.source # "AUTO"}

\* Rows of before, but for the suggestions, and the new suggestions, each
\* unless its key is taken by then; an employee deleted meanwhile makes the
\* insertion of his rows fail.
Calculate(u) ==
  LET q == request[u]
      fits == {r \in q.new : ~Taken(r.employee, r.place, Kept)}
  IN
  /\ q.kind = "calculate"
  /\ \/ /\ \A r \in fits : OnTheBooks(r.employee)
        /\ rows' = Kept \cup
             {RowOf(IdOf(r.employee), r.employee, r.place, r.share, "AUTO") : r \in fits}
        /\ covered' = q.covers
        /\ settled' = (q.at = commits)
        /\ clean' = (q.at = commits /\ q.clean)
        /\ Commit(u) /\ UNCHANGED employee
     \/ (\E e \in q.read : ~OnTheBooks(e)) /\ Fail(u)

-----------------------------------------------------------------------------
(* Requests whose checks do not matter to others.                          *)

\* POST of an employee or a vacancy, or the import of a list of them.
Hire(e) ==
  /\ employee[e].status = "unborn" /\ commits < MaxCommits
  /\ \E c \in Contracts : employee' = [employee EXCEPT ![e] = EmployeeRow(c, commits + 1)]
  /\ commits' = commits + 1 /\ Edited
  /\ UNCHANGED <<rows, request, form>>

\* Mutant: the assignments of a deleted employee stay.
DismissAlone(e) ==
  /\ OnTheBooks(e) /\ commits < MaxCommits
  /\ employee' = [employee EXCEPT ![e] =
       [status |-> "deleted", home |-> employee[e].home, limit |-> employee[e].limit,
        stamp |-> employee[e].stamp]]
  /\ commits' = commits + 1 /\ Edited
  /\ UNCHANGED <<rows, request, form>>

\* DELETE of an employee takes his assignments with him.
Dismiss(e) ==
  /\ OnTheBooks(e) /\ commits < MaxCommits
  /\ employee' = [employee EXCEPT ![e] =
       [status |-> "deleted", home |-> employee[e].home, limit |-> employee[e].limit,
        stamp |-> employee[e].stamp]]
  /\ rows' = {r \in rows : r.employee # e}
  /\ commits' = commits + 1 /\ Edited
  /\ UNCHANGED <<request, form>>

-----------------------------------------------------------------------------
Unborn == [status |-> "unborn", home |-> None, limit |-> 0, stamp |-> 0]

\* Some are hired, and nothing is assigned yet.
Init ==
  /\ employee \in [Employees -> {Unborn} \cup {EmployeeRow(c, 0) : c \in Contracts}]
  /\ rows = {}
  /\ covered = [p \in Places |-> 0]
  /\ settled = FALSE /\ clean = FALSE
  /\ commits = 0
  /\ request = [u \in Users |-> Idle]
  /\ form = [u \in Users |-> None]

Next ==
  \/ \E u \in Users :
       \/ CheckCreate(u) \/ CheckUpdate(u) \/ CheckDelete(u) \/ OpenForm(u)
       \/ CheckSave(u) \/ CheckCalculate(u)
       \/ Create(u) \/ Update(u) \/ Delete(u) \/ Save(u) \/ Calculate(u)
  \/ \E e \in Employees : Hire(e) \/ Dismiss(e)

Spec == Init /\ [][Next]_vars

-----------------------------------------------------------------------------
(* Properties.                                                             *)

RowIds == (1..MaxCommits) \X Employees
RowType ==
  [id : RowIds, employee : Employees, place : Places, share : Nat,
   source : {"HAND", "AUTO"}]

\* The tables keep their types, an assignment belongs to an employee on the
\* books, and no two have one number.
StaffingTypeOK ==
  /\ \A e \in Employees :
       /\ employee[e].status \in Statuses /\ employee[e].home \in Places \cup {None}
       /\ employee[e].limit \in Nat /\ employee[e].stamp \in 0..commits
  /\ \A r \in rows : r \in RowType /\ OnTheBooks(r.employee)
  /\ \A r, o \in rows : r.id = o.id => r = o
  /\ settled \in BOOLEAN /\ clean \in BOOLEAN /\ commits \in 0..MaxCommits

\* An employee has one row for a place, whichever of creations, changes and
\* calculations that knew nothing of each other put them there.
OneRowPerPlace ==
  \A r, o \in rows : r.employee = o.employee /\ r.place = o.place => r = o

\* The coverage a calculation stores is that of the assignments it stores:
\* unless there was a suggestion of an earlier calculation (see below), and
\* as long as nothing is committed between its reading and now.
CoverageMatchesRows ==
  settled /\ clean =>
    \A p \in Places : covered[p] = PlaceShare(p, Present(rows))

\* An assignment somebody entered is only ever lost to a deletion.
HandMadeRowsStay ==
  [][\A r \in rows : r.source = "HAND" =>
       \/ \E o \in rows' : o.id = r.id
       \/ employee'[r.employee].status = "deleted"
       \/ \E u \in Users : request[u].kind = "delete" /\ request[u].id = r.id]_vars

\* A request that raises somebody beyond his limit was overtaken: another
\* transaction was committed since it added up his shares.
UndisturbedRaisesFit ==
  [][\A u \in Users, e \in Employees :
       /\ request[u].kind \in {"create", "update"} /\ request[u].at = commits
       /\ request'[u] = Idle
       /\ TotalShare(e, rows') > TotalShare(e, rows)
       => TotalShare(e, rows') <= employee[e].limit]_vars

\* A form that saves an employee over a version its user never saw was
\* overtaken in the same way.
UndisturbedSavesLoseNothing ==
  [][\A u \in Users :
       /\ request[u].kind = "save" /\ request[u].at = commits
       /\ commits' = commits + 1 /\ request'[u] = Idle
       => employee[request[u].employee].stamp = request[u].seen]_vars
=============================================================================
