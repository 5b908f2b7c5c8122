-------------------------- MODULE ExportJobsProofs --------------------------
(***************************************************************************)
(* What holds of ExportJobs for any number of jobs, dialogs and versions,  *)
(* any limit of redelivery and any number of faults, and that it keeps the *)
(* promise of JobBoard.                                                    *)
(***************************************************************************)
EXTENDS ExportJobs, TLAPS

\* How often a job has been delivered agrees with its entry in the queue.
DeliveriesCounted ==
  \A j \in Jobs :
    /\ queue[j] = "none" => tries[j] = 0
    /\ queue[j] = "created" => tries[j] <= RetryLimit
    /\ queue[j] = "active" => tries[j] >= 1

\* The worker's job has a row, which the worker has marked; a worker about
\* to store the end of its job has written the file of this delivery.
WorkerKnowsItsJob ==
  worker # Resting =>
    /\ queue[worker.job] = "active"
    /\ worker.step \in {"write", "save"} => job[worker.job].status = "PROCESSING"
    /\ worker.step = "save" => <<worker.job, tries[worker.job]>> \in disk

\* A request is about a version; one that has stored a row is alone with it
\* until it is enqueued.
RequestsOwnTheirJob ==
  \A d \in Dialogs :
    /\ request[d].at = "checked" => request[d].version # None
    /\ request[d].at = "created" =>
         /\ request[d].job \in Jobs
         /\ job[request[d].job].status = "PENDING"
         /\ queue[request[d].job] = "none"
         /\ \A e \in Dialogs \ {d} :
              request[e].at = "created" => request[e].job # request[d].job

\* What is queued or waited for has a row.
QueuedHasRow ==
  /\ \A j \in Jobs : queue[j] # "none" => job[j].status # "NONE"
  /\ \A d \in Dialogs : dialog[d].phase = "waiting" => dialog[d].job \in Jobs
  /\ \A d \in Dialogs : dialog[d].shown = "DONE" => dialog[d].phase = "waiting"

\* A row's file is one that was written.
FilesWritten == \A j \in Jobs : job[j].file # 0 => <<j, job[j].file>> \in disk

\* Only a row that is there refers to versions.
NoRowIsBlank == \A j \in Jobs : job[j].status = "NONE" => job[j] = NoRow

ExportInv ==
  /\ TypeOK /\ ReadyHasFile /\ NobodyAwaitsAnOrphan /\ ReportsKeepTheirVersion
  /\ DeliveriesCounted /\ WorkerKnowsItsJob /\ RequestsOwnTheirJob
  /\ QueuedHasRow /\ FilesWritten /\ NoRowIsBlank
\* Every step of the dialogs, the server, the worker and the queue keeps the
\* invariant.
LEMMA ExportStep ==
  ASSUME ExportInv, [Next]_vars
  PROVE  ExportInv'
  <1> USE ExportAssumption DEF ExportInv, TypeOK, RowType, Jobs, Statuses, QueueStates, Steps,
       NoRow, Row, Resting, NoRequest, Form
  <1>1. ASSUME NEW d \in Dialogs, Ask(d)
        PROVE  ExportInv'
    <2> USE <1>1 DEF Ask
    <2>1. TypeOK'
      BY SMTT(30)
    <2>2. ReadyHasFile'
      BY DEF ReadyHasFile
    <2>3. NobodyAwaitsAnOrphan'
      BY DEF NobodyAwaitsAnOrphan
    <2>4. RequestsOwnTheirJob'
      BY DEF RequestsOwnTheirJob
    <2>5. QueuedHasRow'
      BY DEF QueuedHasRow
    <2>6. UNCHANGED <<ReportsKeepTheirVersion, DeliveriesCounted, WorkerKnowsItsJob,
       FilesWritten, NoRowIsBlank>>
      BY DEF ReportsKeepTheirVersion, DeliveriesCounted, WorkerKnowsItsJob, FilesWritten,
         NoRowIsBlank
    <2> QED BY <2>1, <2>2, <2>3, <2>4, <2>5, <2>6
  <1>2. ASSUME NEW d \in Dialogs, CreateRow(d)
        PROVE  ExportInv'
    <2> USE <1>2 DEF CreateRow
    <2>1. TypeOK'
      OBVIOUS
    <2>2. ReadyHasFile'
      BY DEF ReadyHasFile
    <2>3. ReportsKeepTheirVersion'
      BY DEF ReportsKeepTheirVersion, RequestsOwnTheirJob
    <2>4. WorkerKnowsItsJob'
      BY DEF WorkerKnowsItsJob
    <2>5. RequestsOwnTheirJob'
      BY DEF RequestsOwnTheirJob, QueuedHasRow
    <2>6. QueuedHasRow'
      BY DEF QueuedHasRow
    <2>7. FilesWritten'
      BY DEF FilesWritten
    <2>8. NoRowIsBlank'
      BY DEF NoRowIsBlank
    <2>9. UNCHANGED <<NobodyAwaitsAnOrphan, DeliveriesCounted>>
      BY DEF NobodyAwaitsAnOrphan, DeliveriesCounted
    <2> QED BY <2>1, <2>2, <2>3, <2>4, <2>5, <2>6, <2>7, <2>8, <2>9
  <1>3. ASSUME NEW d \in Dialogs, CreateFails(d)
        PROVE  ExportInv'
    <2> USE <1>3 DEF CreateFails, Refuse
    <2>1. TypeOK'
      OBVIOUS
    <2>2. ReadyHasFile'
      BY DEF ReadyHasFile
    <2>3. NobodyAwaitsAnOrphan'
      BY DEF NobodyAwaitsAnOrphan
    <2>4. RequestsOwnTheirJob'
      BY DEF RequestsOwnTheirJob
    <2>5. QueuedHasRow'
      BY DEF QueuedHasRow
    <2>6. UNCHANGED <<ReportsKeepTheirVersion, DeliveriesCounted, WorkerKnowsItsJob,
       FilesWritten, NoRowIsBlank>>
      BY DEF ReportsKeepTheirVersion, DeliveriesCounted, WorkerKnowsItsJob, FilesWritten,
         NoRowIsBlank
    <2> QED BY <2>1, <2>2, <2>3, <2>4, <2>5, <2>6
  <1>4. ASSUME NEW d \in Dialogs, Enqueue(d)
        PROVE  ExportInv'
    <2> USE <1>4 DEF Enqueue, Accepted
    <2>1. TypeOK'
      BY DEF TypeOK, RequestsOwnTheirJob
    <2>2. ReadyHasFile'
      BY DEF ReadyHasFile
    <2>3. NobodyAwaitsAnOrphan'
      BY DEF NobodyAwaitsAnOrphan, RequestsOwnTheirJob
    <2>4. DeliveriesCounted'
      BY DEF DeliveriesCounted, RequestsOwnTheirJob
    <2>5. WorkerKnowsItsJob'
      BY DEF WorkerKnowsItsJob, RequestsOwnTheirJob
    <2>6. RequestsOwnTheirJob'
      BY DEF RequestsOwnTheirJob
    <2>7. QueuedHasRow'
      BY DEF QueuedHasRow, RequestsOwnTheirJob
    <2>8. UNCHANGED <<ReportsKeepTheirVersion, FilesWritten, NoRowIsBlank>>
      BY DEF ReportsKeepTheirVersion, FilesWritten, NoRowIsBlank
    <2> QED BY <2>1, <2>2, <2>3, <2>4, <2>5, <2>6, <2>7, <2>8
  <1>5. ASSUME NEW d \in Dialogs, EnqueueRefused(d)
        PROVE  ExportInv'
    <2> USE <1>5 DEF EnqueueRefused, Refuse, Marked
    <2>1. TypeOK'
      OBVIOUS
    <2>2. ReadyHasFile'
      BY DEF ReadyHasFile
    <2>3. NobodyAwaitsAnOrphan'
      BY DEF NobodyAwaitsAnOrphan
    <2>4. ReportsKeepTheirVersion'
      BY DEF ReportsKeepTheirVersion, RequestsOwnTheirJob
    <2>5. WorkerKnowsItsJob'
      BY DEF WorkerKnowsItsJob, RequestsOwnTheirJob
    <2>6. RequestsOwnTheirJob'
      BY DEF RequestsOwnTheirJob
    <2>7. QueuedHasRow'
      BY DEF QueuedHasRow
    <2>8. FilesWritten'
      BY DEF FilesWritten
    <2>9. NoRowIsBlank'
      BY DEF NoRowIsBlank
    <2>10. UNCHANGED <<DeliveriesCounted>>
      BY DEF DeliveriesCounted
    <2> QED BY <2>1, <2>2, <2>3, <2>4, <2>5, <2>6, <2>7, <2>8, <2>9, <2>10
  <1>6. ASSUME NEW d \in Dialogs, EnqueueThrows(d)
        PROVE  ExportInv'
    <2> USE <1>6 DEF EnqueueThrows, Refuse
    <2>1. TypeOK'
      BY DEF TypeOK, RequestsOwnTheirJob
    <2>2. ReadyHasFile'
      BY DEF ReadyHasFile
    <2>3. NobodyAwaitsAnOrphan'
      <3>1. \A j \in Jobs : queue[j] # "none" => queue'[j] # "none"
        BY DEF RequestsOwnTheirJob
      <3>2. \A e \in Dialogs : dialog'[e].phase = "waiting" => dialog'[e] = dialog[e]
        OBVIOUS
      <3> QED BY <3>1, <3>2 DEF NobodyAwaitsAnOrphan, QueuedHasRow
    <2>4. DeliveriesCounted'
      BY SMTT(30) DEF DeliveriesCounted, RequestsOwnTheirJob
    <2>5. WorkerKnowsItsJob'
      BY DEF WorkerKnowsItsJob, RequestsOwnTheirJob
    <2>6. RequestsOwnTheirJob'
      BY DEF RequestsOwnTheirJob
    <2>7. QueuedHasRow'
      <3>1. \A j \in Jobs : queue'[j] # "none" => job'[j].status # "NONE"
        BY SMTT(30) DEF QueuedHasRow, RequestsOwnTheirJob
      <3>2. \A e \in Dialogs : dialog'[e].phase = "waiting" => dialog'[e] = dialog[e]
        OBVIOUS
      <3>3. \A e \in Dialogs : dialog'[e].shown = "DONE" => dialog'[e] = dialog[e]
        BY DEF QueuedHasRow
      <3> QED BY <3>1, <3>2, <3>3 DEF QueuedHasRow
    <2>8. UNCHANGED <<ReportsKeepTheirVersion, FilesWritten, NoRowIsBlank>>
      BY DEF ReportsKeepTheirVersion, FilesWritten, NoRowIsBlank
    <2> QED BY <2>1, <2>2, <2>3, <2>4, <2>5, <2>6, <2>7, <2>8
  <1>7. ASSUME NEW d \in Dialogs, Poll(d)
        PROVE  ExportInv'
    <2> USE <1>7 DEF Poll, Settled
    <2>1. TypeOK'
      BY DEF TypeOK, QueuedHasRow
    <2>2. ReadyHasFile'
      BY DEF ReadyHasFile, QueuedHasRow
    <2>3. NobodyAwaitsAnOrphan'
      BY DEF NobodyAwaitsAnOrphan
    <2>4. QueuedHasRow'
      BY DEF QueuedHasRow
    <2>5. UNCHANGED <<ReportsKeepTheirVersion, DeliveriesCounted, WorkerKnowsItsJob,
       RequestsOwnTheirJob, FilesWritten, NoRowIsBlank>>
      BY DEF ReportsKeepTheirVersion, DeliveriesCounted, WorkerKnowsItsJob,
         RequestsOwnTheirJob, FilesWritten, NoRowIsBlank
    <2> QED BY <2>1, <2>2, <2>3, <2>4, <2>5
  <1>8. ASSUME NEW d \in Dialogs, Leave(d)
        PROVE  ExportInv'
    <2> USE <1>8 DEF Leave
    <2>1. TypeOK'
      OBVIOUS
    <2>2. ReadyHasFile'
      BY DEF ReadyHasFile
    <2>3. NobodyAwaitsAnOrphan'
      BY DEF NobodyAwaitsAnOrphan
    <2>4. QueuedHasRow'
      BY DEF QueuedHasRow
    <2>5. UNCHANGED <<ReportsKeepTheirVersion, DeliveriesCounted, WorkerKnowsItsJob,
       RequestsOwnTheirJob, FilesWritten, NoRowIsBlank>>
      BY DEF ReportsKeepTheirVersion, DeliveriesCounted, WorkerKnowsItsJob,
         RequestsOwnTheirJob, FilesWritten, NoRowIsBlank
    <2> QED BY <2>1, <2>2, <2>3, <2>4, <2>5
  <1>9. ASSUME NEW j \in Jobs, Fetch(j)
         PROVE  ExportInv'
    <2> USE <1>9 DEF Fetch
    <2>1. TypeOK'
      <3>1. tries[j] + 1 \in 0..(RetryLimit + 1)
        BY DEF DeliveriesCounted
      <3>2. tries' \in [Jobs -> 0..(RetryLimit + 1)] /\ queue' \in [Jobs -> QueueStates]
        BY <3>1
      <3>3. worker' \in [job : Jobs, step : Steps] /\ worker'.job = j /\ queue'[j] = "active"
        OBVIOUS
      <3> QED BY <3>2, <3>3
    <2>2. NobodyAwaitsAnOrphan'
      BY DEF NobodyAwaitsAnOrphan
    <2>3. DeliveriesCounted'
      BY DEF DeliveriesCounted
    <2>4. WorkerKnowsItsJob'
      BY DEF WorkerKnowsItsJob
    <2>5. RequestsOwnTheirJob'
      BY DEF RequestsOwnTheirJob
    <2>6. QueuedHasRow'
      BY DEF QueuedHasRow
    <2>7. UNCHANGED <<ReadyHasFile, ReportsKeepTheirVersion, FilesWritten, NoRowIsBlank>>
      BY DEF ReadyHasFile, ReportsKeepTheirVersion, FilesWritten, NoRowIsBlank
    <2> QED BY <2>1, <2>2, <2>3, <2>4, <2>5, <2>6, <2>7
  <1>10. ASSUME NEW j \in Jobs, Expire(j)
         PROVE  ExportInv'
    <2> USE <1>10 DEF Expire, Again
    <2>1. TypeOK'
      OBVIOUS
    <2>2. NobodyAwaitsAnOrphan'
      BY DEF NobodyAwaitsAnOrphan
    <2>3. DeliveriesCounted'
      BY DEF DeliveriesCounted
    <2>4. WorkerKnowsItsJob'
      BY DEF WorkerKnowsItsJob
    <2>5. RequestsOwnTheirJob'
      BY DEF RequestsOwnTheirJob
    <2>6. QueuedHasRow'
      BY DEF QueuedHasRow
    <2>7. UNCHANGED <<ReadyHasFile, ReportsKeepTheirVersion, FilesWritten, NoRowIsBlank>>
      BY DEF ReadyHasFile, ReportsKeepTheirVersion, FilesWritten, NoRowIsBlank
    <2> QED BY <2>1, <2>2, <2>3, <2>4, <2>5, <2>6, <2>7
  <1>11. ASSUME MarkProcessing
         PROVE  ExportInv'
    <2> USE <1>11 DEF MarkProcessing, At, SetStatus, Marked, Proceed
    <2>1. TypeOK'
      OBVIOUS
    <2>2. ReadyHasFile'
      BY DEF ReadyHasFile
    <2>3. ReportsKeepTheirVersion'
      <3>1. worker.job \in Jobs /\ job[worker.job] # NoRow
        BY DEF WorkerKnowsItsJob, QueuedHasRow
      <3>2. \A j \in Jobs : /\ job'[j].version = job[j].version
                          /\ job'[j].compared = job[j].compared
                          /\ job'[j] # NoRow => job[j] # NoRow
        BY <3>1
      <3> QED BY <3>2 DEF ReportsKeepTheirVersion
    <2>4. WorkerKnowsItsJob'
      BY DEF WorkerKnowsItsJob
    <2>5. RequestsOwnTheirJob'
      BY DEF RequestsOwnTheirJob
    <2>6. QueuedHasRow'
      BY DEF QueuedHasRow
    <2>7. FilesWritten'
      BY DEF FilesWritten
    <2>8. NoRowIsBlank'
      BY DEF NoRowIsBlank
    <2>9. UNCHANGED <<NobodyAwaitsAnOrphan, DeliveriesCounted>>
      BY DEF NobodyAwaitsAnOrphan, DeliveriesCounted
    <2> QED BY <2>1, <2>2, <2>3, <2>4, <2>5, <2>6, <2>7, <2>8, <2>9
  <1>12. ASSUME WriteFile
         PROVE  ExportInv'
    <2> USE <1>12 DEF WriteFile, At, Proceed
    <2>1. TypeOK'
      BY DEF TypeOK, DeliveriesCounted
    <2>2. ReadyHasFile'
      BY DEF ReadyHasFile
    <2>3. WorkerKnowsItsJob'
      BY DEF WorkerKnowsItsJob
    <2>4. FilesWritten'
      BY DEF FilesWritten
    <2>5. UNCHANGED <<NobodyAwaitsAnOrphan, ReportsKeepTheirVersion, DeliveriesCounted,
       RequestsOwnTheirJob, QueuedHasRow, NoRowIsBlank>>
      BY DEF NobodyAwaitsAnOrphan, ReportsKeepTheirVersion, DeliveriesCounted,
         RequestsOwnTheirJob, QueuedHasRow, NoRowIsBlank
    <2> QED BY <2>1, <2>2, <2>3, <2>4, <2>5
  <1>13. ASSUME SaveDone
         PROVE  ExportInv'
    <2> USE <1>13 DEF SaveDone, At, Finished, Proceed
    <2>1. TypeOK'
      BY SMTT(30)
    <2>2. ReadyHasFile'
      <3>1. worker.job \in Jobs /\ <<worker.job, tries[worker.job]>> \in disk
        BY DEF WorkerKnowsItsJob
      <3>2. \A j \in Jobs : job'[j].file = IF j = worker.job THEN tries[j] ELSE job[j].file
        BY <3>1
      <3>3. \A j \in Jobs \ {worker.job} : job'[j].status = job[j].status
        BY <3>1
      <3>4. \A d \in Dialogs : dialog[d].shown = "DONE" => dialog[d].job \in Jobs
        BY DEF QueuedHasRow
      <3> QED BY <3>1, <3>2, <3>3, <3>4 DEF ReadyHasFile
    <2>3. ReportsKeepTheirVersion'
      <3>1. worker.job \in Jobs /\ job[worker.job] # NoRow
        BY DEF WorkerKnowsItsJob, QueuedHasRow
      <3>2. \A j \in Jobs : /\ job'[j].version = job[j].version
                          /\ job'[j].compared = job[j].compared
                          /\ job'[j] # NoRow => job[j] # NoRow
        BY <3>1
      <3> QED BY <3>2 DEF ReportsKeepTheirVersion
    <2>4. WorkerKnowsItsJob'
      BY DEF WorkerKnowsItsJob
    <2>5. RequestsOwnTheirJob'
      BY DEF RequestsOwnTheirJob
    <2>6. QueuedHasRow'
      BY DEF QueuedHasRow
    <2>7. FilesWritten'
      <3>1. worker.job \in Jobs /\ <<worker.job, tries[worker.job]>> \in disk
        BY DEF WorkerKnowsItsJob
      <3>2. \A j \in Jobs : job'[j].file = IF j = worker.job THEN tries[j] ELSE job[j].file
        BY <3>1
      <3> QED BY <3>1, <3>2 DEF FilesWritten
    <2>8. NoRowIsBlank'
      BY DEF NoRowIsBlank
    <2>9. UNCHANGED <<NobodyAwaitsAnOrphan, DeliveriesCounted>>
      BY DEF NobodyAwaitsAnOrphan, DeliveriesCounted
    <2> QED BY <2>1, <2>2, <2>3, <2>4, <2>5, <2>6, <2>7, <2>8, <2>9
  <1>14. ASSUME Throw
         PROVE  ExportInv'
    <2> USE <1>14 DEF Throw, At, SetStatus, Marked, Proceed
    <2>1. TypeOK'
      OBVIOUS
    <2>2. ReadyHasFile'
      BY DEF ReadyHasFile
    <2>3. ReportsKeepTheirVersion'
      <3>1. worker.job \in Jobs /\ job[worker.job] # NoRow
        BY DEF WorkerKnowsItsJob, QueuedHasRow
      <3>2. \A j \in Jobs : /\ job'[j].version = job[j].version
                          /\ job'[j].compared = job[j].compared
                          /\ job'[j] # NoRow => job[j] # NoRow
        BY <3>1
      <3> QED BY <3>2 DEF ReportsKeepTheirVersion
    <2>4. WorkerKnowsItsJob'
      BY DEF WorkerKnowsItsJob
    <2>5. RequestsOwnTheirJob'
      BY DEF RequestsOwnTheirJob
    <2>6. QueuedHasRow'
      BY DEF QueuedHasRow
    <2>7. FilesWritten'
      BY DEF FilesWritten
    <2>8. NoRowIsBlank'
      BY DEF NoRowIsBlank
    <2>9. UNCHANGED <<NobodyAwaitsAnOrphan, DeliveriesCounted>>
      BY DEF NobodyAwaitsAnOrphan, DeliveriesCounted
    <2> QED BY <2>1, <2>2, <2>3, <2>4, <2>5, <2>6, <2>7, <2>8, <2>9
  <1>15. ASSUME Complete
         PROVE  ExportInv'
    <2> USE <1>15 DEF Complete, At
    <2>1. TypeOK'
      BY SMTT(30)
    <2>2. NobodyAwaitsAnOrphan'
      BY DEF NobodyAwaitsAnOrphan
    <2>3. DeliveriesCounted'
      BY DEF DeliveriesCounted
    <2>4. WorkerKnowsItsJob'
      BY DEF WorkerKnowsItsJob
    <2>5. RequestsOwnTheirJob'
      BY DEF RequestsOwnTheirJob
    <2>6. QueuedHasRow'
      BY DEF QueuedHasRow
    <2>7. UNCHANGED <<ReadyHasFile, ReportsKeepTheirVersion, FilesWritten, NoRowIsBlank>>
      BY DEF ReadyHasFile, ReportsKeepTheirVersion, FilesWritten, NoRowIsBlank
    <2> QED BY <2>1, <2>2, <2>3, <2>4, <2>5, <2>6, <2>7
  <1>16. ASSUME CatchThrows
         PROVE  ExportInv'
    <2> USE <1>16 DEF CatchThrows, At, Again
    <2>1. TypeOK'
      OBVIOUS
    <2>2. NobodyAwaitsAnOrphan'
      BY DEF NobodyAwaitsAnOrphan
    <2>3. DeliveriesCounted'
      BY DEF DeliveriesCounted
    <2>4. WorkerKnowsItsJob'
      BY DEF WorkerKnowsItsJob
    <2>5. RequestsOwnTheirJob'
      BY DEF RequestsOwnTheirJob
    <2>6. QueuedHasRow'
      BY DEF QueuedHasRow
    <2>7. UNCHANGED <<ReadyHasFile, ReportsKeepTheirVersion, FilesWritten, NoRowIsBlank>>
      BY DEF ReadyHasFile, ReportsKeepTheirVersion, FilesWritten, NoRowIsBlank
    <2> QED BY <2>1, <2>2, <2>3, <2>4, <2>5, <2>6, <2>7
  <1>17. ASSUME Die
         PROVE  ExportInv'
    <2> USE <1>17 DEF Die
    <2>1. TypeOK'
      <3>1. request' = [d \in Dialogs |-> NoRequest]
        OBVIOUS
      <3>2. dialog' = [d \in Dialogs |-> IF dialog[d].phase = "posting" THEN Form ELSE dialog[d]]
        OBVIOUS
      <3>3. /\ Form \in [phase : {"form", "posting", "waiting"}, job : Jobs \cup {None},
                       shown : Statuses \cup {"NONE"}]
            /\ NoRequest \in [at : {"none", "checked", "created"},
                            version : Versions \cup {None},
                            compared : Versions \cup {None}, job : Jobs \cup {None}]
        OBVIOUS
      <3>4. /\ worker' = Resting /\ Resting.job \notin Jobs /\ faults' \in 0..MaxFaults
            /\ up' = FALSE /\ UNCHANGED <<versions, job, disk, queue, tries>>
        OBVIOUS
      <3> DEFINE Q == [at : {"none", "checked", "created"}, version : Versions \cup {None},
                       compared : Versions \cup {None}, job : Jobs \cup {None}]
                 D == [phase : {"form", "posting", "waiting"}, job : Jobs \cup {None},
                       shown : Statuses \cup {"NONE"}]
      <3>5. request \in [Dialogs -> Q] /\ dialog \in [Dialogs -> D]
        OBVIOUS
      <3> HIDE <1>17 DEF Form, NoRequest, Resting, Die
      <3>6. request' \in [Dialogs -> Q] /\ dialog' \in [Dialogs -> D]
        <4> HIDE DEF Q, D, ExportInv, TypeOK
        <4> SUFFICES NoRequest \in Q /\ Form \in D
          BY <3>1, <3>2, <3>5
        <4> QED BY <3>3 DEF Q, D
      <3>7. \A j \in Jobs : worker'.job # j
        BY <3>4
      <3>8. worker' \in [job : Jobs, step : Steps] \cup {Resting}
        BY <3>4
      <3> QED BY <3>4, <3>6, <3>7, <3>8
    <2>2. ReadyHasFile'
      BY DEF ReadyHasFile
    <2>3. NobodyAwaitsAnOrphan'
      BY DEF NobodyAwaitsAnOrphan
    <2>4. WorkerKnowsItsJob'
      BY DEF WorkerKnowsItsJob
    <2>5. RequestsOwnTheirJob'
      BY DEF RequestsOwnTheirJob
    <2>6. QueuedHasRow'
      BY DEF QueuedHasRow
    <2>7. UNCHANGED <<ReportsKeepTheirVersion, DeliveriesCounted, FilesWritten,
       NoRowIsBlank>>
      BY DEF ReportsKeepTheirVersion, DeliveriesCounted, FilesWritten, NoRowIsBlank
    <2> QED BY <2>1, <2>2, <2>3, <2>4, <2>5, <2>6, <2>7
  <1>18. ASSUME Start
         PROVE  ExportInv'
    <2> USE <1>18 DEF Start
    <2>1. TypeOK'
      OBVIOUS
    <2>2. UNCHANGED <<ReadyHasFile, NobodyAwaitsAnOrphan, ReportsKeepTheirVersion,
       DeliveriesCounted, WorkerKnowsItsJob, RequestsOwnTheirJob, QueuedHasRow,
       FilesWritten, NoRowIsBlank>>
      BY DEF ReadyHasFile, NobodyAwaitsAnOrphan, ReportsKeepTheirVersion, DeliveriesCounted,
         WorkerKnowsItsJob, RequestsOwnTheirJob, QueuedHasRow, FilesWritten, NoRowIsBlank
    <2> QED BY <2>1, <2>2
  <1>19. ASSUME NEW v \in Versions, DeleteVersion(v)
         PROVE  ExportInv'
    <2> USE <1>19 DEF DeleteVersion
    <2>1. TypeOK'
      OBVIOUS
    <2>2. ReadyHasFile'
      BY DEF ReadyHasFile, QueuedHasRow
    <2>3. ReportsKeepTheirVersion'
      BY DEF ReportsKeepTheirVersion
    <2>4. WorkerKnowsItsJob'
      BY DEF WorkerKnowsItsJob
    <2>5. RequestsOwnTheirJob'
      BY DEF RequestsOwnTheirJob
    <2>6. QueuedHasRow'
      BY DEF QueuedHasRow
    <2>7. FilesWritten'
      BY DEF FilesWritten
    <2>8. NoRowIsBlank'
      BY DEF NoRowIsBlank
    <2>9. UNCHANGED <<NobodyAwaitsAnOrphan, DeliveriesCounted>>
      BY DEF NobodyAwaitsAnOrphan, DeliveriesCounted
    <2> QED BY <2>1, <2>2, <2>3, <2>4, <2>5, <2>6, <2>7, <2>8, <2>9
  <1>20. CASE UNCHANGED vars
    <2> USE <1>20 DEF vars
    <2>1. TypeOK'
      OBVIOUS
    <2>2. ReadyHasFile' /\ NobodyAwaitsAnOrphan' /\ ReportsKeepTheirVersion'
      BY DEF ReadyHasFile, NobodyAwaitsAnOrphan, ReportsKeepTheirVersion
    <2>3. DeliveriesCounted' /\ WorkerKnowsItsJob' /\ RequestsOwnTheirJob'
      BY DEF DeliveriesCounted, WorkerKnowsItsJob, RequestsOwnTheirJob
    <2>4. QueuedHasRow' /\ FilesWritten' /\ NoRowIsBlank'
      BY DEF QueuedHasRow, FilesWritten, NoRowIsBlank
    <2> QED BY <2>1, <2>2, <2>3, <2>4
  <1> QED BY <1>1, <1>2, <1>3, <1>4, <1>5, <1>6, <1>7, <1>8, <1>9, <1>10, <1>11, <1>12,
     <1>13, <1>14, <1>15, <1>16, <1>17, <1>18, <1>19, <1>20 DEF Next, WorkerStep

\* The invariant holds from the start and ever after.
LEMMA ExportInvariant == Spec => []ExportInv
<1>1. Init => ExportInv
  BY ExportAssumption DEF Init, ExportInv, TypeOK, ReadyHasFile, NobodyAwaitsAnOrphan,
     ReportsKeepTheirVersion, DeliveriesCounted, WorkerKnowsItsJob, RequestsOwnTheirJob,
     QueuedHasRow, FilesWritten, NoRowIsBlank, RowType, Jobs, Statuses, QueueStates, NoRow,
     Resting, NoRequest, Form
<1>2. ExportInv /\ [Next]_vars => ExportInv'
  BY ExportStep
<1> QED BY <1>1, <1>2, PTL DEF Spec

\* Rows, queue entries, requests and dialogs keep their types.
THEOREM ExportTypes == Spec => []TypeOK
<1>1. ExportInv => TypeOK
  BY DEF ExportInv
<1> QED BY <1>1, ExportInvariant, PTL

\* A report shown as ready has its file, whatever is delivered again.
THEOREM ReadyReportsHaveFiles == Spec => []ReadyHasFile
<1>1. ExportInv => ReadyHasFile
  BY DEF ExportInv
<1> QED BY <1>1, ExportInvariant, PTL

\* No dialog waits for a job that no queue will deliver.
THEOREM NoOrphanAwaited == Spec => []NobodyAwaitsAnOrphan
<1>1. ExportInv => NobodyAwaitsAnOrphan
  BY DEF ExportInv
<1> QED BY <1>1, ExportInvariant, PTL

\* No report outlives the version it is about.
THEOREM ReportsHaveVersions == Spec => []ReportsKeepTheirVersion
<1>1. ExportInv => ReportsKeepTheirVersion
  BY DEF ExportInv
<1> QED BY <1>1, ExportInvariant, PTL

-----------------------------------------------------------------------------
(* The promise of JobBoard.                                                *)

\* A step of the service is a step of the board, or leaves it alone.
LEMMA BoardStep ==
  ASSUME ExportInv, [Next]_vars
  PROVE  [Board!Next]_Board!vars
  <1> USE ExportAssumption DEF ExportInv, Board!vars
  <1>1. ASSUME NEW d \in Dialogs, CreateRow(d)
        PROVE  \E j \in Jobs : Board!Request(j)
    <2>1. PICK j \in Jobs : /\ job[j] = NoRow
                            /\ job' = [job EXCEPT ![j] = Row(request[d].version, request[d].compared)]
      BY <1>1 DEF CreateRow
    <2>2. [i \in Jobs |-> job'[i].status] = [[i \in Jobs |-> job[i].status] EXCEPT ![j] = "PENDING"]
      BY <2>1 DEF TypeOK, Row
    <2>3. [i \in Jobs |-> job[i].status][j] = "NONE"
      BY <2>1 DEF NoRow
    <2>4. worker'.job = worker.job /\ tries' = tries
      BY <1>1 DEF CreateRow
    <2>5. Board!Request(j)
      BY <2>2, <2>3, <2>4 DEF Board!Request
    <2> QED BY <2>5
  <1>2. ASSUME NEW d \in Dialogs, EnqueueRefused(d)
        PROVE  \E j \in Jobs : Board!Reject(j)
    <2> DEFINE j == request[d].job
    <2>1. j \in Jobs /\ job[j].status = "PENDING" /\ tries[j] = 0
      BY <1>2 DEF EnqueueRefused, RequestsOwnTheirJob, DeliveriesCounted
    <2>2. [i \in Jobs |-> job'[i].status] = [[i \in Jobs |-> job[i].status] EXCEPT ![j] = "FAILED"]
      BY <1>2, <2>1 DEF EnqueueRefused, Marked, TypeOK
    <2> QED BY <1>2, <2>1, <2>2 DEF EnqueueRefused, Board!Reject
  <1>3. ASSUME NEW j \in Jobs, Fetch(j)
        PROVE  Board!Take(j)
    BY <1>3 DEF Fetch, Board!Take, TypeOK, DeliveriesCounted, QueuedHasRow, Resting
  <1>4. ASSUME MarkProcessing \/ SaveDone \/ Throw
        PROVE  Board!Work
    <2>1. worker # Resting /\ worker.job \in Jobs /\ worker.job # None
      BY <1>4 DEF MarkProcessing, SaveDone, Throw, At, Resting, TypeOK, Jobs
    <2>2. worker'.job = worker.job /\ tries' = tries
      BY <1>4 DEF MarkProcessing, SaveDone, Throw, Proceed
    <2>3. PICK s \in {"PROCESSING", "DONE", "FAILED"} :
            /\ s = "DONE" => job[worker.job].status = "PROCESSING"
            /\ [i \in Jobs |-> job'[i].status]
                 = [[i \in Jobs |-> job[i].status] EXCEPT ![worker.job] = s]
      <3>1. CASE MarkProcessing
        BY <2>1, <3>1 DEF MarkProcessing, SetStatus, Marked, TypeOK
      <3>2. CASE SaveDone
        BY <2>1, <3>2 DEF SaveDone, At, Finished, TypeOK, WorkerKnowsItsJob
      <3>3. CASE Throw
        BY <2>1, <3>3 DEF Throw, SetStatus, Marked, TypeOK
      <3> QED BY <1>4, <3>1, <3>2, <3>3
    <2> QED BY <2>1, <2>2, <2>3 DEF Board!Work
  <1>5. ASSUME Complete \/ CatchThrows \/ Die
        PROVE  Board!Drop \/ UNCHANGED Board!vars
    BY <1>5 DEF Complete, CatchThrows, Die, Board!Drop, Resting, TypeOK, Jobs
  <1>6. ASSUME NEW v \in Versions, DeleteVersion(v)
        PROVE  UNCHANGED Board!vars
    BY <1>6 DEF DeleteVersion, TypeOK
  <1>7. ASSUME UNCHANGED <<job, tries>>, worker'.job = worker.job
        PROVE  UNCHANGED Board!vars
    BY <1>7
  <1>8. ASSUME NEW d \in Dialogs,
               \/ Ask(d) \/ CreateFails(d) \/ Enqueue(d) \/ EnqueueThrows(d)
               \/ Poll(d) \/ Leave(d)
        PROVE  UNCHANGED Board!vars
    <2>1. UNCHANGED <<job, tries, worker>>
      BY <1>8 DEF Ask, CreateFails, Enqueue, EnqueueThrows, Poll, Leave
    <2> QED BY <2>1, <1>7
  <1>9. ASSUME \/ Start \/ UNCHANGED vars
               \/ \E j \in Jobs : Expire(j)
        PROVE  UNCHANGED Board!vars
    <2>1. UNCHANGED <<job, tries, worker>>
      BY <1>9 DEF Start, Expire, vars
    <2> QED BY <2>1, <1>7
  <1>10. ASSUME WriteFile
         PROVE  UNCHANGED Board!vars
    BY <1>7, <1>10 DEF WriteFile, Proceed
  <1>11. CASE \E d \in Dialogs :
            \/ Ask(d) \/ CreateRow(d) \/ CreateFails(d)
            \/ Enqueue(d) \/ EnqueueRefused(d) \/ EnqueueThrows(d)
            \/ Poll(d) \/ Leave(d)
    <2> HIDE DEF ExportInv, Board!vars
    <2> QED BY <1>1, <1>2, <1>8, <1>11 DEF Board!Next
  <1>12. CASE \E j \in Jobs : Fetch(j) \/ Expire(j)
    <2> HIDE DEF ExportInv, Board!vars
    <2> QED BY <1>3, <1>9, <1>12 DEF Board!Next
  <1>13. CASE WorkerStep \/ CatchThrows \/ Die \/ Start \/ UNCHANGED vars
    <2> HIDE DEF ExportInv, Board!vars
    <2> QED BY <1>4, <1>5, <1>9, <1>10, <1>13 DEF WorkerStep, Board!Next
  <1>14. CASE \E v \in Versions : DeleteVersion(v)
    <2> HIDE DEF ExportInv, Board!vars
    <2> QED BY <1>6, <1>14
  <1> QED
    BY <1>11, <1>12, <1>13, <1>14 DEF Next

\* Whatever dies, is lost or is delivered again: jobs are taken one at a
\* time, at most RetryLimit + 1 times, and only their worker settles them.
THEOREM PromiseKept == Spec => KeepsThePromise
<1>1. Init => Board!Init
  BY DEF Init, Board!Init, NoRow, Resting
<1> QED BY <1>1, BoardStep, ExportInvariant, PTL DEF Spec, KeepsThePromise, Board!Spec
=============================================================================
