----------------------------- MODULE ExportJobs -----------------------------
(***************************************************************************)
(* Export jobs: the dialog that asks for a report and polls, the request   *)
(* that stores the job and enqueues it, the worker that generates the      *)
(* file, the queue that delivers a job again when its worker has died, and *)
(* the versions the reports are about.  One server runs both requests and  *)
(* worker; it may die between any two awaits.                              *)
(***************************************************************************)
EXTENDS Naturals, FiniteSets

CONSTANTS
  MaxJobs,     \* rows of export_jobs, at most
  Dialogs,     \* open export dialogs, at most
  Versions,    \* draft versions
  None,        \* no job, no version, no file
  RetryLimit,  \* how often pg-boss delivers a job again (the library's default)
  MaxFaults    \* servers that die and failures that cannot be stored, at most

ASSUME ExportAssumption ==
  /\ None \notin Nat /\ None \notin Versions
  /\ MaxJobs \in Nat /\ RetryLimit \in Nat /\ MaxFaults \in Nat

VARIABLES
  versions,  \* the draft versions that exist
  job,       \* job[j]: the row of job j, or NoRow
  disk,      \* the files written: <<job, delivery>>
  queue,     \* queue[j]: the entry of job j in pg-boss
  tries,     \* tries[j]: how often job j has been delivered
  worker,    \* what the worker is doing, and for which job
  up,        \* the server runs, and so does its queue
  request,   \* request[d]: the POST of dialog d, as far as the server has got
  dialog,    \* dialog[d]: what dialog d shows
  faults     \* faults so far

vars == <<versions, job, disk, queue, tries, worker, up, request, dialog, faults>>

Jobs == 1..MaxJobs
Statuses == {"PENDING", "PROCESSING", "DONE", "FAILED"}
Settled == {"DONE", "FAILED"}
QueueStates == {"none", "created", "active", "completed", "failed"}
Steps == {"start", "write", "save", "end"}

NoRow == [status |-> "NONE", version |-> None, compared |-> None, file |-> 0]
Row(v, c) == [status |-> "PENDING", version |-> v, compared |-> c, file |-> 0]
Resting == [job |-> None, step |-> "rest"]
NoRequest == [at |-> "none", version |-> None, compared |-> None, job |-> None]
Form == [phase |-> "form", job |-> None, shown |-> "NONE"]

\* The row of job j with another status.
Marked(j, status) ==
  [status |-> status, version |-> job[j].version, compared |-> job[j].compared,
   file |-> job[j].file]

-----------------------------------------------------------------------------
(* The dialog and its request.                                             *)

\* The Export button: not while a report is being generated, nor when one
\* is ready.  The version and the comparison are those of the workspace.
Ask(d) ==
  /\ dialog[d].phase = "form" \/ dialog[d].shown = "FAILED"
  /\ up /\ request[d] = NoRequest
  /\ dialog' = [dialog EXCEPT ![d] = [phase |-> "posting", job |-> None, shown |-> "NONE"]]
  /\ \E v \in versions, c \in versions \cup {None} :
       request' = [request EXCEPT ![d] = [at |-> "checked", version |-> v, compared |-> c,
                                          job |-> None]]
  /\ UNCHANGED <<versions, job, disk, queue, tries, worker, up, faults>>

\* The request of d ends with an error, and the dialog offers its form again.
Refuse(d) ==
  /\ request' = [request EXCEPT ![d] = NoRequest]
  /\ dialog' = [dialog EXCEPT ![d] = IF @.phase = "posting" THEN Form ELSE @]

\* The row is stored, unless a version it refers to has been deleted since.
CreateRow(d) ==
  LET q == request[d] IN
  /\ q.at = "checked"
  /\ {q.version, q.compared} \ {None} \subseteq versions
  /\ \E j \in Jobs :
       /\ job[j] = NoRow /\ \A i \in 1..(j - 1) : job[i] # NoRow
       /\ job' = [job EXCEPT ![j] = Row(q.version, q.compared)]
       /\ request' = [request EXCEPT ![d] = [at |-> "created", version |-> q.version,
                                             compared |-> q.compared, job |-> j]]
  /\ UNCHANGED <<versions, disk, queue, tries, worker, up, dialog, faults>>

CreateFails(d) ==
  /\ request[d].at = "checked"
  /\ ~({request[d].version, request[d].compared} \ {None} \subseteq versions)
  /\ Refuse(d)
  /\ UNCHANGED <<versions, job, disk, queue, tries, worker, up, faults>>

\* The dialog is told the job's number, if it still waits for it.
Accepted(d, j) ==
  /\ request' = [request EXCEPT ![d] = NoRequest]
  /\ dialog' = [dialog EXCEPT ![d] =
       IF @.phase = "posting" THEN [phase |-> "waiting", job |-> j, shown |-> "NONE"] ELSE @]

\* Mutant: the answer is sent although the queue has not taken the job.
EnqueueUnchecked(d) ==
  LET j == request[d].job IN
  /\ request[d].at = "created"
  /\ queue' \in {queue, [queue EXCEPT ![j] = "created"]}
  /\ Accepted(d, j)
  /\ UNCHANGED <<versions, job, disk, tries, worker, up, faults>>

Enqueue(d) ==
  LET j == request[d].job IN
  /\ request[d].at = "created"
  /\ queue' = [queue EXCEPT ![j] = "created"]
  /\ Accepted(d, j)
  /\ UNCHANGED <<versions, job, disk, tries, worker, up, faults>>

\* send returns null: the row is marked and the dialog gets an error.
EnqueueRefused(d) ==
  LET j == request[d].job IN
  /\ request[d].at = "created"
  /\ job' = [job EXCEPT ![j] = Marked(j, "FAILED")]
  /\ Refuse(d)
  /\ UNCHANGED <<versions, disk, queue, tries, worker, up, faults>>

\* send throws, or its answer is lost: the row stays as it is, and nobody
\* waits for it.
EnqueueThrows(d) ==
  /\ request[d].at = "created"
  /\ queue' \in {queue, [queue EXCEPT ![request[d].job] = "created"]}
  /\ Refuse(d)
  /\ UNCHANGED <<versions, job, disk, tries, worker, up, faults>>

\* Polling, every two seconds until the job is done or has failed.
Poll(d) ==
  /\ up /\ dialog[d].phase = "waiting" /\ dialog[d].shown \notin Settled
  /\ dialog' = [dialog EXCEPT ![d] = [phase |-> "waiting", job |-> dialog[d].job,
                                      shown |-> job[dialog[d].job].status]]
  /\ UNCHANGED <<versions, job, disk, queue, tries, worker, up, request, faults>>

\* Leaving the page discards the dialog with what it waits for.  To close
\* it, also by a download, changes nothing: its body stays as it is behind
\* the page, goes on polling, and is shown again as it was.
Leave(d) ==
  /\ dialog[d] # Form
  /\ dialog' = [dialog EXCEPT ![d] = Form]
  /\ UNCHANGED <<versions, job, disk, queue, tries, worker, up, request, faults>>

-----------------------------------------------------------------------------
(* The worker.                                                             *)

At(step) == up /\ worker.step = step
Proceed(step) == worker' = [job |-> worker.job, step |-> step]
SetStatus(status) == job' = [job EXCEPT ![worker.job] = Marked(worker.job, status)]

\* pg-boss hands over one job at a time.  Its row is there: rows of jobs
\* are never deleted.
Fetch(j) ==
  /\ up /\ worker = Resting
  /\ queue[j] = "created"
  /\ queue' = [queue EXCEPT ![j] = "active"]
  /\ tries' = [tries EXCEPT ![j] = @ + 1]
  /\ worker' = [job |-> j, step |-> "start"]
  /\ UNCHANGED <<versions, job, disk, up, request, dialog, faults>>

\* Mutant: the row is not marked when its job is taken.
MarkNothing ==
  /\ At("start") /\ Proceed("write")
  /\ UNCHANGED <<versions, job, disk, queue, tries, up, request, dialog, faults>>

MarkProcessing ==
  /\ At("start") /\ SetStatus("PROCESSING") /\ Proceed("write")
  /\ UNCHANGED <<versions, disk, queue, tries, up, request, dialog, faults>>

\* Mutant: the handler does not await the file, so that pg-boss sees its job
\* complete while it is at work.
WriteFileUnawaited ==
  /\ At("write")
  /\ disk' = disk \cup {<<worker.job, tries[worker.job]>>}
  /\ queue' = [queue EXCEPT ![worker.job] = "completed"]
  /\ Proceed("save")
  /\ UNCHANGED <<versions, job, tries, up, request, dialog, faults>>

\* The data are loaded, the report is generated and written; on the way the
\* row's progress is raised, which only the dialog's text shows.  Every
\* delivery writes a file of its own (its name holds the time).
WriteFile ==
  /\ At("write")
  /\ disk' = disk \cup {<<worker.job, tries[worker.job]>>}
  /\ Proceed("save")
  /\ UNCHANGED <<versions, job, queue, tries, up, request, dialog, faults>>

Finished(j) ==
  [status |-> "DONE", version |-> job[j].version, compared |-> job[j].compared,
   file |-> tries[j]]

\* Mutant: the job is done before its file is written.
SaveDoneEarly ==
  /\ At("write")
  /\ job' = [job EXCEPT ![worker.job] = Finished(worker.job)]
  /\ Proceed("end")
  /\ UNCHANGED <<versions, disk, queue, tries, up, request, dialog, faults>>

SaveDone ==
  /\ At("save")
  /\ job' = [job EXCEPT ![worker.job] = Finished(worker.job)]
  /\ Proceed("end")
  /\ UNCHANGED <<versions, disk, queue, tries, up, request, dialog, faults>>

\* Any step may throw, and the catch block stores the failure.
Throw ==
  /\ \E step \in {"start", "write", "save"} : At(step)
  /\ SetStatus("FAILED") /\ Proceed("end")
  /\ UNCHANGED <<versions, disk, queue, tries, up, request, dialog, faults>>

Complete ==
  /\ At("end")
  /\ queue' = [queue EXCEPT ![worker.job] = "completed"]
  /\ worker' = Resting
  /\ UNCHANGED <<versions, job, disk, tries, up, request, dialog, faults>>

WorkerStep == MarkProcessing \/ WriteFile \/ SaveDone \/ Throw \/ Complete

-----------------------------------------------------------------------------
(* Faults, redelivery and versions.                                        *)

\* Mutant: a job is delivered once.
AgainNever(j) == "failed"

\* pg-boss delivers a job that was not completed again, up to its limit.
Again(j) == IF tries[j] <= RetryLimit THEN "created" ELSE "failed"

\* A step throws, and so does the catch block: pg-boss sees the job fail.
CatchThrows ==
  /\ \E step \in {"start", "write", "save"} : At(step)
  /\ faults < MaxFaults
  /\ queue' = [queue EXCEPT ![worker.job] = Again(worker.job)]
  /\ worker' = Resting
  /\ faults' = faults + 1
  /\ UNCHANGED <<versions, job, disk, tries, up, request, dialog>>

\* The server dies, or stops with work at hand: requests and worker are gone.
Die ==
  /\ up /\ faults < MaxFaults
  /\ up' = FALSE
  /\ worker' = Resting
  /\ request' = [d \in Dialogs |-> NoRequest]
  /\ dialog' = [d \in Dialogs |-> IF dialog[d].phase = "posting" THEN Form ELSE dialog[d]]
  /\ faults' = faults + 1
  /\ UNCHANGED <<versions, job, disk, queue, tries>>

Start ==
  /\ ~up
  /\ up' = TRUE
  /\ UNCHANGED <<versions, job, disk, queue, tries, worker, request, dialog, faults>>

\* An active job nobody works on expires.
Expire(j) ==
  /\ up /\ queue[j] = "active" /\ worker.job # j
  /\ queue' = [queue EXCEPT ![j] = Again(j)]
  /\ UNCHANGED <<versions, job, disk, tries, worker, up, request, dialog, faults>>

\* Mutant: the reference of a job to its version is not enforced.
DeleteVersionAnyway(v) ==
  /\ up /\ v \in versions
  /\ versions' = versions \ {v}
  /\ UNCHANGED <<job, disk, queue, tries, worker, up, request, dialog, faults>>

\* DELETE of a draft: refused by the database while a job refers to it; a
\* comparison with it is set to null.
DeleteVersion(v) ==
  /\ up /\ v \in versions
  /\ \A j \in Jobs : job[j].version # v
  /\ versions' = versions \ {v}
  /\ job' = [j \in Jobs |->
       IF job[j].compared # v THEN job[j]
       ELSE [status |-> job[j].status, version |-> job[j].version, compared |-> None,
             file |-> job[j].file]]
  /\ UNCHANGED <<disk, queue, tries, worker, up, request, dialog, faults>>

-----------------------------------------------------------------------------
Init ==
  /\ versions = Versions
  /\ job = [j \in Jobs |-> NoRow]
  /\ disk = {}
  /\ queue = [j \in Jobs |-> "none"]
  /\ tries = [j \in Jobs |-> 0]
  /\ worker = Resting
  /\ up = TRUE
  /\ request = [d \in Dialogs |-> NoRequest]
  /\ dialog = [d \in Dialogs |-> Form]
  /\ faults = 0

Next ==
  \/ \E d \in Dialogs :
       \/ Ask(d) \/ CreateRow(d) \/ CreateFails(d)
       \/ Enqueue(d) \/ EnqueueRefused(d) \/ EnqueueThrows(d)
       \/ Poll(d) \/ Leave(d)
  \/ \E j \in Jobs : Fetch(j) \/ Expire(j)
  \/ WorkerStep \/ CatchThrows \/ Die \/ Start
  \/ \E v \in Versions : DeleteVersion(v)

Spec == Init /\ [][Next]_vars

\* The worker goes on, pg-boss fetches and expires, the server is restarted
\* and a dialog polls.  Nobody need throw, die, ask or leave.
Fairness ==
  /\ WF_vars(WorkerStep) /\ WF_vars(Start)
  /\ WF_vars(\E j \in Jobs : Fetch(j)) /\ WF_vars(\E j \in Jobs : Expire(j))
  /\ \A d \in Dialogs : WF_vars(Poll(d))

FairSpec == Spec /\ Fairness

-----------------------------------------------------------------------------
(* Properties.                                                             *)

RowType ==
  [status : Statuses \cup {"NONE"}, version : Versions \cup {None},
   compared : Versions \cup {None}, file : 0..(RetryLimit + 1)]

\* Rows, queue entries, requests and dialogs keep their types, and the
\* worker holds the job the queue has delivered to it.
TypeOK ==
  /\ versions \subseteq Versions
  /\ job \in [Jobs -> RowType]
  /\ disk \subseteq Jobs \X (1..(RetryLimit + 1))
  /\ queue \in [Jobs -> QueueStates]
  /\ tries \in [Jobs -> 0..(RetryLimit + 1)]
  /\ worker \in [job : Jobs, step : Steps] \cup {Resting}
  /\ up \in BOOLEAN
  /\ request \in [Dialogs -> [at : {"none", "checked", "created"}, version : Versions \cup {None},
                              compared : Versions \cup {None}, job : Jobs \cup {None}]]
  /\ dialog \in [Dialogs -> [phase : {"form", "posting", "waiting"}, job : Jobs \cup {None},
                             shown : Statuses \cup {"NONE"}]]
  /\ faults \in 0..MaxFaults
  /\ \A j \in Jobs : worker.job = j => queue[j] = "active"

\* A job that is done, or that a dialog shows as ready, has its file on
\* disk, whatever was delivered again meanwhile.
ReadyHasFile ==
  /\ \A j \in Jobs : job[j].status = "DONE" => <<j, job[j].file>> \in disk
  /\ \A d \in Dialogs :
       dialog[d].shown = "DONE" => <<dialog[d].job, job[dialog[d].job].file>> \in disk

\* A dialog only ever waits for a job the queue has taken: one left PENDING
\* by a failed or interrupted request has nobody waiting for it.
NobodyAwaitsAnOrphan ==
  \A d \in Dialogs : dialog[d].phase = "waiting" => queue[dialog[d].job] # "none"

\* The version a report is about stays as long as the job that reports it.
ReportsKeepTheirVersion ==
  \A j \in Jobs : job[j] # NoRow =>
    /\ job[j].version \in versions
    /\ job[j].compared \in versions \cup {None}

\* As long as pg-boss delivers again often enough for the faults there are,
\* every dialog that waits is told the end of its job, or left.
WaitersAreAnswered ==
  \A d \in Dialogs :
    dialog[d].phase = "waiting" ~>
      (dialog[d].phase # "waiting" \/ dialog[d].shown \in Settled)

\* The board of jobs, and the promise that this module keeps.
Board == INSTANCE JobBoard WITH
  NoJob <- None,
  status <- [j \in Jobs |-> job[j].status],
  held <- worker.job,
  taken <- tries

KeepsThePromise == Board!Spec
=============================================================================
