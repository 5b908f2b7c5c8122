----------------------------- MODULE MCMonthGrid -----------------------------
(***************************************************************************)
(* An instance of MonthGrid for TLC: two lines of one version, of a month  *)
(* each, and another version to switch to.                                 *)
(***************************************************************************)
EXTENDS MonthGrid

CONSTANTS rent, water, budget, forecast

TheLines == {rent, water}
TheVersions == {budget, forecast}
TheHomes == [l \in TheLines |-> budget]
=============================================================================
