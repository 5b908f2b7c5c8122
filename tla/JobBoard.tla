------------------------------ MODULE JobBoard ------------------------------
(***************************************************************************)
(* What the export service promises: a single worker takes requested jobs, *)
(* one at a time and each a limited number of times; nothing but the       *)
(* worker that holds a job, or a request that could not be queued, decides *)
(* what becomes of it.                                                     *)
(***************************************************************************)
EXTENDS Naturals

CONSTANTS
  Jobs,        \* job identifiers
  NoJob,       \* not one of them
  RetryLimit   \* how often a job is taken again

VARIABLES
  status,   \* status[j]: what a client is told of job j
  held,     \* the job the worker holds, or NoJob
  taken     \* taken[j]: how often job j has been taken

vars == <<status, held, taken>>

Init ==
  /\ status = [j \in Jobs |-> "NONE"]
  /\ held = NoJob
  /\ taken = [j \in Jobs |-> 0]

Request(j) ==
  /\ status[j] = "NONE"
  /\ status' = [status EXCEPT ![j] = "PENDING"]
  /\ UNCHANGED <<held, taken>>

\* The queue does not accept the job.
Reject(j) ==
  /\ status[j] = "PENDING" /\ taken[j] = 0
  /\ status' = [status EXCEPT ![j] = "FAILED"]
  /\ UNCHANGED <<held, taken>>

Take(j) ==
  /\ held = NoJob /\ status[j] # "NONE"
  /\ taken[j] <= RetryLimit
  /\ held' = j
  /\ taken' = [taken EXCEPT ![j] = @ + 1]
  /\ UNCHANGED status

Work ==
  /\ held # NoJob
  /\ \/ status' = [status EXCEPT ![held] = "PROCESSING"]
     \/ /\ status[held] = "PROCESSING"
        /\ status' = [status EXCEPT ![held] = "DONE"]
     \/ status' = [status EXCEPT ![held] = "FAILED"]
  /\ UNCHANGED <<held, taken>>

Drop ==
  /\ held # NoJob
  /\ held' = NoJob
  /\ UNCHANGED <<status, taken>>

Next ==
  \/ \E j \in Jobs : Request(j) \/ Reject(j) \/ Take(j)
  \/ Work \/ Drop

Spec == Init /\ [][Next]_vars
=============================================================================
