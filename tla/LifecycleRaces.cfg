SPECIFICATION Spec
CONSTANTS
  Versions = {v1, v2, v3}
  Names = {n1, actual}
  ActualName = actual
  Grades = {g1}
  Periods = {p1}
  Requests = {r1, r2}
  Calls = {"create", "import", "status", "delete", "lock"}
  MaxReverts = 1
  Null = null
INVARIANTS
  TypeOK
  ActualIsUnique
  LinksResolve
  StampsTellStatus
SYMMETRY Interchangeable
CHECK_DEADLOCK FALSE
