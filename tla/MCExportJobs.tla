---------------------------- MODULE MCExportJobs ----------------------------
(***************************************************************************)
(* An instance of ExportJobs for TLC: its cfg gives the sets model values. *)
(***************************************************************************)
EXTENDS ExportJobs
=============================================================================
