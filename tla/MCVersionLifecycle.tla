------------------------- MODULE MCVersionLifecycle -------------------------
(***************************************************************************)
(* Instances of VersionLifecycle for TLC.  Version ids, periods, grades    *)
(* and requests are interchangeable.                                       *)
(***************************************************************************)
EXTENDS VersionLifecycle, TLC

Interchangeable ==
  Permutations(Versions) \cup Permutations(Periods) \cup Permutations(Grades)
    \cup Permutations(Requests)
=============================================================================
