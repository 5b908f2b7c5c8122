SPECIFICATION Spec
CONSTANTS
  Employees = {e1, e2}
  Places = {p1, p2}
  Users = {u1, u2}
  None = None
  FullTime = 1
  Contracts <- FewContracts
  Home = p1
  Shares = {0, 2}
  MaxCommits = 3
INVARIANTS
  StaffingTypeOK
  OneRowPerPlace
  CoverageMatchesRows
PROPERTIES
  HandMadeRowsStay
  UndisturbedRaisesFit
  UndisturbedSavesLoseNothing
SYMMETRY Alike
CHECK_DEADLOCK FALSE
