--------------------------- MODULE MCCalcPipeline ---------------------------
(***************************************************************************)
(* An instance of CalcPipeline for TLC: how often each input is edited.    *)
(***************************************************************************)
EXTENDS CalcPipeline

MaxRevOnce == [i \in Inputs |-> 1]
=============================================================================
