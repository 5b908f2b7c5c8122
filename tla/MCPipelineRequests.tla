------------------------- MODULE MCPipelineRequests -------------------------
(***************************************************************************)
(* Instances of PipelineRequests for TLC: the requests in flight, the      *)
(* operations they call and how often each input is edited.                *)
(***************************************************************************)
EXTENDS PipelineRequests

Once(edited) == [i \in Inputs |-> IF i \in edited THEN 1 ELSE 0]

MaxRevOnce == Once(Inputs)
MaxRevPricing == Once({"pricing"})

AllOps == EnrollmentOps \cup DraftOps \cup OpExOps \cup CalcOps \cup OpenOps
LostMarkOps == {"pricing", "calcEnrollment"} \cup CalcOps
=============================================================================
