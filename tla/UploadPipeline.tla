--------------------------- MODULE UploadPipeline ---------------------------
(***************************************************************************)
(* Background upload: the route /documents/upload-document                 *)
(* (app/routers/documents.py), the RQ queues (app/tasks/rq_queue.py)       *)
(* and the two worker tasks (app/workers/pdf_jobs.py).  An upload, its job *)
(* and its stored file share one name.  The ingest that the second task    *)
(* ends in is two steps here, its commit and its end; RagStorage has it in *)
(* detail.                                                                 *)
(*                                                                         *)
(* A session that assigns an attribute the value it has last read does not *)
(* write it, whatever the row holds by then: each task remembers which     *)
(* status its session has read.                                            *)
(***************************************************************************)
EXTENDS Naturals, Sequences, FiniteSets

CONSTANTS
    Upload,   \* the uploads made during a behaviour (bounds their number)
    Worker,   \* the RQ worker processes
    Formats,  \* what is uploaded
    Faults    \* which faults the environment injects

AllFaults == {"crash", "timeout", "redis", "parse", "session", "disk"}

\* A text or a PDF with a text layer, a PDF with pages to recognise, or neither.
AllFormats == {"text", "scanned", "other"}

ASSUME FaultsAssumption == Faults \subseteq AllFaults /\ Formats \subseteq AllFormats

VARIABLES
    request,   \* where the HTTP request of an upload is
    format,    \* what was uploaded
    jobs,      \* the ingestion_jobs row, without a row the status is "none"
    stored,    \* the uploads whose file is in the upload directory
    queues,    \* the RQ queues in Redis
    worker,    \* the task each worker runs, and where it is in it
    lost       \* history: uploads of which a task ended without a trace

vars == <<request, format, jobs, stored, queues, worker, lost>>

Queue == {"profile", "fast", "ocr", "legacy"}

Status == {"none", "pending", "running", "completed", "failed"}

\* A task is one of the two functions of pdf_jobs.py with its job.
Task == [run: {"process_uploaded", "process_profiled"}, upload: Upload]

NoTask == [run |-> "none", place |-> "idle"]
Running == [run: {"process_uploaded", "process_profiled"}, upload: Upload,
            place: {"start", "route", "enqueue", "extract", "ingest", "upsert", "progress",
                    "failing"},
            read: Status]

NoJob == [status |-> "none", path |-> FALSE]

Init ==
    /\ request = [u \in Upload |-> "none"]
    /\ format = [u \in Upload |-> "other"]
    /\ jobs = [u \in Upload |-> NoJob]
    /\ stored = {}
    /\ queues = [q \in Queue |-> <<>>]
    /\ worker = [w \in Worker |-> NoTask]
    /\ lost = {}

\* mark_job_failed, whatever the status was.
MarkFailed(u) == jobs' = [jobs EXCEPT ![u].status = "failed"]

-----------------------------------------------------------------------------
(* The request.                                                            *)

CreateJob(u) ==
    /\ request[u] = "none"
    /\ jobs' = [jobs EXCEPT ![u].status = "pending"]
    /\ \E f \in Formats : format' = [format EXCEPT ![u] = f]
    /\ request' = [request EXCEPT ![u] = "created"]
    /\ UNCHANGED <<stored, queues, worker, lost>>

SaveUpload(u) ==
    /\ request[u] = "created"
    /\ stored' = stored \union {u}
    /\ request' = [request EXCEPT ![u] = "saved"]
    /\ UNCHANGED <<format, jobs, queues, worker, lost>>

\* save_upload raises, outside any try block: the directory cannot be made or
\* the file not be written in full.  The client gets a 500, the job stays.
SaveFails(u) ==
    /\ "disk" \in Faults
    /\ request[u] = "created"
    /\ request' = [request EXCEPT ![u] = "500"]
    /\ UNCHANGED <<format, jobs, stored, queues, worker, lost>>

\* The file is larger than PDF_MAX_MB: it is unlinked before the job fails.
TooLarge(u) ==
    /\ request[u] = "saved"
    /\ stored' = stored \ {u}
    /\ request' = [request EXCEPT ![u] = "rejecting"]
    /\ UNCHANGED <<format, jobs, queues, worker, lost>>

\* Mutant: the path is assigned and not committed before the task is enqueued.
StorePathLater(u) ==
    /\ request[u] = "saved"
    /\ request' = [request EXCEPT ![u] = "ready"]
    /\ UNCHANGED <<format, jobs, stored, queues, worker, lost>>

StorePath(u) ==
    /\ request[u] = "saved"
    /\ jobs' = [jobs EXCEPT ![u].path = TRUE]
    /\ request' = [request EXCEPT ![u] = "ready"]
    /\ UNCHANGED <<format, stored, queues, worker, lost>>

Push(q, run, u) == queues' = [queues EXCEPT ![q] = Append(@, [run |-> run, upload |-> u])]

Accept(u) ==
    /\ request[u] = "ready"
    /\ Push("profile", "process_uploaded", u)
    /\ request' = [request EXCEPT ![u] = "202"]
    /\ UNCHANGED <<format, jobs, stored, worker, lost>>

\* enqueue raises; Redis may have taken the task all the same.
EnqueueFails(u) ==
    /\ "redis" \in Faults
    /\ request[u] = "ready"
    /\ Push("profile", "process_uploaded", u) \/ UNCHANGED queues
    /\ request' = [request EXCEPT ![u] = "refusing"]
    /\ UNCHANGED <<format, jobs, stored, worker, lost>>

\* The job is marked failed and the client is told so.
Refuse(u) ==
    /\ request[u] \in {"rejecting", "refusing"}
    /\ MarkFailed(u)
    /\ request' = [request EXCEPT ![u] = IF @ = "rejecting" THEN "413" ELSE "503"]
    /\ UNCHANGED <<format, stored, queues, worker, lost>>

\* The API process dies during the request.
RequestCrash(u) ==
    /\ "crash" \in Faults
    /\ request[u] \in {"created", "saved", "ready", "rejecting", "refusing"}
    /\ request' = [request EXCEPT ![u] = "crashed"]
    /\ UNCHANGED <<format, jobs, stored, queues, worker, lost>>

-----------------------------------------------------------------------------
(* The workers.                                                            *)

At(w, run, place) == worker[w].run = run /\ worker[w].place = place

Goto(w, place) == worker' = [worker EXCEPT ![w].place = place]

\* The worker moves on, and its session has read the status of the job.
GotoReading(w, place, status) ==
    worker' = [worker EXCEPT ![w].place = place, ![w].read = status]

\* Mutant: the worker forgets nothing of the task that ended.
EndTaskKept(w) == worker' = [worker EXCEPT ![w].place = "idle"]

EndTask(w) == worker' = [worker EXCEPT ![w] = NoTask]

\* get_pdf_queues: the order in which the worker looks at the queues.  Nothing
\* is put in the last one, pdf_queue_name, any more.
QueueOrder == <<"profile", "fast", "ocr", "legacy">>

\* The worker takes the oldest task of the first queue that has one.
Dequeue(w) ==
    /\ worker[w] = NoTask
    /\ \E i \in DOMAIN QueueOrder :
          LET q == QueueOrder[i]
          IN /\ queues[q] # <<>>
             /\ \A j \in 1..(i - 1) : queues[QueueOrder[j]] = <<>>
             /\ worker' = [worker EXCEPT ![w] = [run |-> Head(queues[q]).run,
                                                 upload |-> Head(queues[q]).upload,
                                                 place |-> "start", read |-> "none"]]
             /\ queues' = [queues EXCEPT ![q] = Tail(@)]
    /\ UNCHANGED <<request, format, jobs, stored, lost>>

\* mark_job_running, at the start of both tasks, whatever the status was; a
\* job without a stored path is an error.
StartTask(w) ==
    /\ worker[w].place = "start"
    /\ LET u == worker[w].upload
       IN /\ jobs' = [jobs EXCEPT ![u].status = "running"]
          /\ GotoReading(w, IF ~jobs[u].path THEN "failing"
                            ELSE IF worker[w].run = "process_uploaded" THEN "route" ELSE "extract",
                         "running")
    /\ UNCHANGED <<request, format, stored, queues, lost>>

\* The format decides: text and PDF go on, anything else fails, and so does a
\* file that cannot be opened or profiled.  update_job_progress reads the row.
Route(w) ==
    /\ At(w, "process_uploaded", "route")
    /\ LET u == worker[w].upload
       IN \/ /\ u \in stored /\ format[u] # "other"
             /\ GotoReading(w, "enqueue", jobs[u].status)
          \/ /\ u \notin stored \/ format[u] = "other" \/ "parse" \in Faults
             /\ Goto(w, "failing")
    /\ UNCHANGED <<request, format, jobs, stored, queues, lost>>

TargetQueue(u) == IF format[u] = "scanned" THEN "ocr" ELSE "fast"

EnqueueProfiled(w) ==
    /\ At(w, "process_uploaded", "enqueue")
    /\ Push(TargetQueue(worker[w].upload), "process_profiled", worker[w].upload)
    /\ EndTask(w)
    /\ UNCHANGED <<request, format, jobs, stored, lost>>

\* Mutant: a failed enqueue is tried again.
EnqueueProfiledRetried(w) ==
    /\ "redis" \in Faults
    /\ At(w, "process_uploaded", "enqueue")
    /\ Len(queues[TargetQueue(worker[w].upload)]) < 2
    /\ Push(TargetQueue(worker[w].upload), "process_profiled", worker[w].upload)
    /\ UNCHANGED <<request, format, jobs, stored, worker, lost>>

\* enqueue raises, or the timeout interrupts it; Redis may have the task.
EnqueueProfiledFails(w) ==
    /\ Faults \intersect {"redis", "timeout"} # {}
    /\ At(w, "process_uploaded", "enqueue")
    /\ \/ Push(TargetQueue(worker[w].upload), "process_profiled", worker[w].upload)
       \/ UNCHANGED queues
    /\ Goto(w, "failing")
    /\ UNCHANGED <<request, format, jobs, stored, lost>>

\* Reading the text, or extracting a PDF with or without the scanner and then
\* update_job_progress, which reads the row; a text file has none.
Extract(w) ==
    /\ At(w, "process_profiled", "extract")
    /\ LET u == worker[w].upload
       IN \/ /\ u \in stored
             /\ \/ GotoReading(w, "ingest", jobs[u].status)
                \/ format[u] = "text" /\ Goto(w, "ingest")
          \/ (u \notin stored \/ "parse" \in Faults) /\ Goto(w, "failing")
    /\ UNCHANGED <<request, format, jobs, stored, queues, lost>>

\* Mutant: the except clause only re-raises.
FailTaskSilently(w) ==
    /\ worker[w].place = "failing"
    /\ EndTask(w)
    /\ UNCHANGED <<request, format, jobs, stored, queues, lost>>

\* The except clause: mark_job_failed.  A failure of which the session knows is
\* not written again, even if another task is running the job by now.
FailTask(w) ==
    /\ worker[w].place = "failing"
    /\ IF worker[w].read = "failed" THEN UNCHANGED jobs ELSE MarkFailed(worker[w].upload)
    /\ EndTask(w)
    /\ UNCHANGED <<request, format, stored, queues, lost>>

\* mark_job_failed raises too: the session is unusable after a failed flush,
\* or the timeout fires in the except clause.
FailTaskFails(w) ==
    /\ "session" \in Faults
    /\ worker[w].place = "failing"
    /\ EndTask(w)
    /\ lost' = lost \union {worker[w].upload}
    /\ UNCHANGED <<request, format, jobs, stored, queues>>

\* The status after the commit of the document: the ingest assigns "running",
\* which is a change, and written, only to a session that has read a failure.
CommittedStatus(w) ==
    IF worker[w].read = "failed" THEN "running" ELSE jobs[worker[w].upload].status

\* ingest_extracted_document commits a new document with its job.
CommitIngest(w) ==
    /\ At(w, "process_profiled", "ingest")
    /\ jobs' = [jobs EXCEPT ![worker[w].upload].status = CommittedStatus(w)]
    /\ GotoReading(w, "upsert", "running")
    /\ UNCHANGED <<request, format, stored, queues, lost>>

\* Its end: it completes the job, with a new document or with one that was
\* stored before, or raises into the except clause.
Ingest(w) ==
    /\ At(w, "process_profiled", "ingest") \/ At(w, "process_profiled", "upsert")
    /\ LET u == worker[w].upload
       IN \/ /\ jobs' = [jobs EXCEPT ![u].status = "completed"]
             /\ GotoReading(w, "progress", "completed")
          \/ Goto(w, "failing") /\ UNCHANGED jobs
    /\ UNCHANGED <<request, format, stored, queues, lost>>

\* The last update_job_progress of a PDF, and the answer, which reads the
\* document again and raises when another call has deleted it.
LastProgress(w) ==
    /\ At(w, "process_profiled", "progress")
    /\ EndTask(w) \/ Goto(w, "failing")
    /\ UNCHANGED <<request, format, jobs, stored, queues, lost>>

\* RQ's job timeout raises inside the try block.
TaskTimeout(w) ==
    /\ "timeout" \in Faults
    /\ worker[w] # NoTask /\ worker[w].place # "failing"
    /\ Goto(w, "failing")
    /\ UNCHANGED <<request, format, jobs, stored, queues, lost>>

\* The process that runs the task dies; RQ does not run the task again.
WorkerCrash(w) ==
    /\ "crash" \in Faults
    /\ worker[w] # NoTask
    /\ EndTask(w)
    /\ lost' = lost \union {worker[w].upload}
    /\ UNCHANGED <<request, format, jobs, stored, queues>>

-----------------------------------------------------------------------------
RequestStep(u) ==
    \/ SaveUpload(u) \/ SaveFails(u) \/ TooLarge(u) \/ StorePath(u) \/ Accept(u)
    \/ EnqueueFails(u) \/ Refuse(u)

WorkerStep(w) ==
    \/ Dequeue(w) \/ StartTask(w) \/ Route(w) \/ EnqueueProfiled(w) \/ EnqueueProfiledFails(w)
    \/ Extract(w) \/ CommitIngest(w) \/ Ingest(w) \/ LastProgress(w)
    \/ FailTask(w) \/ FailTaskFails(w)

\* Every request has been answered and the workers wait for tasks.
Quiet ==
    /\ \A u \in Upload : request[u] \in {"202", "413", "500", "503", "crashed"}
    /\ \A w \in Worker : worker[w] = NoTask
    /\ \A q \in Queue : queues[q] = <<>>
    /\ UNCHANGED vars

Next ==
    \/ \E u \in Upload : CreateJob(u) \/ RequestStep(u) \/ RequestCrash(u)
    \/ \E w \in Worker : WorkerStep(w) \/ TaskTimeout(w) \/ WorkerCrash(w)
    \/ Quiet

Spec == Init /\ [][Next]_vars

\* The API answers every request it accepted, and every worker keeps working.
FairSpec == /\ Spec
            /\ \A u \in Upload : WF_vars(RequestStep(u))
            /\ \A w \in Worker : WF_vars(WorkerStep(w))

-----------------------------------------------------------------------------
(* Properties.                                                             *)

\* Every variable has its type.
TypeOK ==
    /\ request \in [Upload -> {"none", "created", "saved", "ready", "rejecting", "refusing",
                               "202", "413", "500", "503", "crashed"}]
    /\ format \in [Upload -> AllFormats]
    /\ jobs \in [Upload -> [status: Status, path: BOOLEAN]]
    /\ stored \subseteq Upload
    /\ queues \in [Queue -> Seq(Task)]
    /\ worker \in [Worker -> Running \union {NoTask}]
    /\ lost \subseteq Upload

\* The tasks of an upload for one of the two functions, queued or running.
Queued(run, u) ==
    {at \in Queue \X (1..Cardinality(Upload) + 1) :
        LET tasks == queues[at[1]]
        IN at[2] \in DOMAIN tasks /\ tasks[at[2]] = [run |-> run, upload |-> u]}
InWork(run, u) == {w \in Worker : worker[w] # NoTask /\ worker[w].run = run
                                  /\ worker[w].upload = u}
Tasks(run, u) == Cardinality(Queued(run, u)) + Cardinality(InWork(run, u))

\* A worker that takes a task finds the stored path in the job and the file on
\* disk: both were made durable before Redis could hand the task out.
TasksFindTheirFile ==
    \A u \in Upload, run \in {"process_uploaded", "process_profiled"} :
        Tasks(run, u) > 0 => jobs[u].path /\ u \in stored

\* A document is never extracted and ingested by two tasks, not even after an
\* enqueue that failed for the caller and succeeded in Redis.
OneIngestTaskPerUpload == \A u \in Upload : Tasks("process_profiled", u) <= 1

\* A job that was completed is not run again.  (It may still be marked failed:
\* after its last progress update, or by a request whose enqueue raised.)
CompletedJobsStaySettled ==
    [][\A u \in Upload : jobs[u].status = "completed"
                         => jobs'[u].status \in {"completed", "failed"}]_vars

\* Every upload, accepted or refused, is settled for good at some time,
\* completed or failed.  What leaves a job behind is a death, that of the API
\* during its own request or that of the worker of its own task, a file that
\* could not be saved, and a mark_job_failed that raises too; timeouts, errors
\* of Redis and whatever becomes of other uploads do not.
UploadsSettle ==
    \A u \in Upload : request[u] # "none" ~>
        \/ u \in lost \/ request[u] \in {"crashed", "500"}
        \/ [](jobs[u].status \in {"completed", "failed"})
=============================================================================
