----------------------- MODULE MCStaffingAssignments -----------------------
(***************************************************************************)
(* An instance of StaffingAssignments for TLC: overtime and a departure at *)
(* one place, a teacher with a limit of 0, and a second place to be        *)
(* assigned to; shares of no time at all and of two full positions.        *)
(***************************************************************************)
EXTENDS StaffingAssignments, TLC

CONSTANT Home

FewContracts ==
  {[status |-> "active", home |-> Home, limit |-> 2 * FullTime],
   [status |-> "departed", home |-> Home, limit |-> FullTime],
   [status |-> "active", home |-> Home, limit |-> 0]}

Alike == Permutations(Employees) \cup Permutations(Users)
=============================================================================
