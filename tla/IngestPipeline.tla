--------------------------- MODULE IngestPipeline ---------------------------
(***************************************************************************)
(* Background ingestion from the HTTP request to the index: UploadPipeline *)
(* with the ingest of its second task replaced by the steps of RagStorage. *)
(* The worker that runs process_profiled_document (app/workers/pdf_jobs.py)*)
(* runs the call of RagStorage of the same name; other calls, of other     *)
(* processes, go on beside it.                                             *)
(*                                                                         *)
(* What neither module has alone: the job row has three writers, each with *)
(* a session of its own: the upload route, process_uploaded_document and   *)
(* process_profiled_document.  A row that a session has flushed is locked  *)
(* until that session commits or rolls back, and what a session writes     *)
(* depends on what it has read, not on what the row holds by then.         *)
(***************************************************************************)
EXTENDS RagStorage, Sequences

CONSTANTS
    Worker,           \* the RQ worker processes
    Formats,          \* what is uploaded
    PipelineFaults    \* the faults of UploadPipeline

VARIABLES
    request, format, stored, queues, worker, lost,   \* as in UploadPipeline
    path     \* the uploads whose job has its storage_path

pipelineVars == <<request, format, stored, queues, worker, lost, path>>
allVars == <<vars, pipelineVars>>

\* The columns of the job row that UploadPipeline speaks about.
UploadJob(u) ==
    [status |-> IF call[u].kind = "worker" THEN jobs[u].status ELSE "none", path |-> u \in path]

UploadJobs == [u \in Op |-> UploadJob(u)]

Pipeline == INSTANCE UploadPipeline
            WITH Upload <- Op, Faults <- PipelineFaults, jobs <- UploadJobs

ASSUME PipelineFaultsAssumption ==
    PipelineFaults \subseteq Pipeline!AllFaults /\ Formats \subseteq Pipeline!AllFormats

PipelineInit ==
    /\ Init
    /\ path = {}
    /\ Pipeline!Init

-----------------------------------------------------------------------------
(* The other writers of the job row.                                       *)

\* The ingest flushes the job row with its document and commits it later.
JobRowFree(u) == session[u].rows = NoRow

SetStatus(u, status) ==
    /\ jobs[u] # NoRow /\ JobRowFree(u)
    /\ jobs' = [jobs EXCEPT ![u].status = status]
    /\ UNCHANGED <<pc, call, session, points, documents, vectors, collection, deleted>>

-----------------------------------------------------------------------------
(* The request and the first task.                                         *)

CreateUpload(u) ==
    /\ CreateJob(u)
    /\ UNCHANGED path
    /\ Pipeline!CreateJob(u)

StoreUploadPath(u) ==
    /\ path' = path \union {u}
    /\ UNCHANGED vars
    /\ Pipeline!StorePath(u)

\* Mutant: the route gives the job back, to be tried again.
RefuseUploadForRetry(u) ==
    /\ SetStatus(u, "pending")
    /\ UNCHANGED path
    /\ request[u] \in {"rejecting", "refusing"}
    /\ request' = [request EXCEPT ![u] = "503"]
    /\ UNCHANGED <<format, stored, queues, worker, lost>>

\* The route marks the job failed, also when a worker is running it.
RefuseUpload(u) ==
    /\ SetStatus(u, "failed")
    /\ UNCHANGED path
    /\ Pipeline!Refuse(u)

UploadStep(u) ==
    \/ StoreUploadPath(u) \/ RefuseUpload(u)
    \/ /\ UNCHANGED <<vars, path>>
       /\ \/ Pipeline!SaveUpload(u) \/ Pipeline!SaveFails(u) \/ Pipeline!TooLarge(u)
          \/ Pipeline!Accept(u) \/ Pipeline!EnqueueFails(u)

Runs(w, run) == worker[w] # Pipeline!NoTask /\ worker[w].run = run

StartProfiling(w) ==
    /\ Runs(w, "process_uploaded")
    /\ SetStatus(worker[w].upload, "running")
    /\ UNCHANGED path
    /\ Pipeline!StartTask(w)

\* The except clause of process_uploaded_document, also when Redis has the
\* second task all the same and another worker is running it.  It waits for the
\* row, and leaves the status if its session has read the failure of the route.
FailProfiling(w) ==
    /\ Runs(w, "process_uploaded")
    /\ LET u == worker[w].upload
       IN SetStatus(u, IF worker[w].read = "failed" THEN jobs[u].status ELSE "failed")
    /\ UNCHANGED path
    /\ Pipeline!FailTask(w)

ProfilingStep(w) ==
    \/ StartProfiling(w) \/ FailProfiling(w)
    \/ /\ UNCHANGED <<vars, path>>
       /\ \/ Pipeline!Dequeue(w) \/ Pipeline!Route(w)
          \/ Pipeline!EnqueueProfiled(w) \/ Pipeline!EnqueueProfiledFails(w)
          \/ Runs(w, "process_uploaded") /\ Pipeline!FailTaskFails(w)

-----------------------------------------------------------------------------
(* The second task: what the call of RagStorage does, its worker does.     *)

StartIngest(w) ==
    /\ Runs(w, "process_profiled")
    /\ MarkJobRunning(worker[w].upload)
    /\ UNCHANGED path
    /\ Pipeline!StartTask(w)

ExtractUpload(w) ==
    /\ Runs(w, "process_profiled")
    /\ Extract(worker[w].upload)
    /\ UNCHANGED path
    /\ Pipeline!Extract(w)
    /\ worker'[w].place = IF pc'[worker[w].upload] = "lookup" THEN "ingest" ELSE "failing"

\* Mutant: the worker is wherever its call is.
PlaceOfCall(place) == place

\* Where a worker is while its call is at a place: an exception, from inside a
\* flush or not, takes it to the except clause.
WorkerPlace(place) ==
    CASE place = "answer" -> "progress"
      [] place \in {"failing", "raised"} -> "failing"
      [] place \in {"refresh", "upsert", "complete"} -> "upsert"
      [] OTHER -> "ingest"

\* The status its session has read when the call has come to a place: the
\* ingest has just committed, or has completed the job.
ReadAt(place, read) ==
    CASE place = "refresh" -> "running"
      [] place = "answer" -> "completed"
      [] OTHER -> read

\* The commit writes "running" if the session has read a failure, or leaves
\* the status to whoever wrote it last.
IngestUpload(w) ==
    /\ Runs(w, "process_profiled") /\ worker[w].place \in {"ingest", "upsert"}
    /\ LET u == worker[w].upload
       IN /\ IngestStep(u)
          /\ pc'[u] = "refresh" => jobs'[u].status = Pipeline!CommittedStatus(w)
          /\ worker' = [worker EXCEPT ![w].place = WorkerPlace(pc'[u]),
                                      ![w].read = ReadAt(pc'[u], @)]
    /\ UNCHANGED <<request, format, stored, queues, lost, path>>

AnswerUpload(w) ==
    /\ Pipeline!At(w, "process_profiled", "progress")
    /\ Answer(worker[w].upload)
    /\ UNCHANGED path
    /\ Pipeline!LastProgress(w)
    /\ worker'[w] = Pipeline!NoTask <=> pc'[worker[w].upload] = "returned"

\* Mutant: the except clause rolls back and re-raises.
FailIngestSilently(w) ==
    /\ Pipeline!At(w, "process_profiled", "failing")
    /\ UNCHANGED <<request, format, stored, queues, lost, path>>
    /\ worker' = [worker EXCEPT ![w] = Pipeline!NoTask]
    /\ End(worker[w].upload, "raised")
    /\ UNCHANGED <<call, documents, jobs, vectors, collection, deleted>>

\* mark_job_failed in the session of the ingest.  It raises when that session
\* is unusable after a failed flush, or the document it links to has gone.
FailIngest(w) ==
    /\ Pipeline!At(w, "process_profiled", "failing")
    /\ UNCHANGED path
    /\ LET u == worker[w].upload
       IN \/ /\ pc[u] = "failing"
             /\ MarkJobFailed(u)
             /\ IF session[u].link \in {NoRow, u} \/ Live(session[u].link)
                THEN Pipeline!FailTask(w) ELSE Pipeline!FailTaskFails(w)
          \/ /\ pc[u] = "queued"     \* interrupted before mark_job_running
             /\ SetStatus(u, "failed")
             /\ Pipeline!FailTask(w)
          \/ /\ pc[u] \in {"raised", "queued"}     \* or inside its flush
             /\ UNCHANGED vars
             /\ Pipeline!FailTaskFails(w)

IngestTaskStep(w) ==
    \/ StartIngest(w) \/ ExtractUpload(w) \/ IngestUpload(w) \/ AnswerUpload(w) \/ FailIngest(w)

-----------------------------------------------------------------------------
(* The environment, and the calls of other processes.                      *)

\* Until its second task has begun, a call of RagStorage is not interrupted
\* by what happens to the tasks.
InterruptTask(w) ==
    LET u == worker[w].upload
    IN /\ worker[w] # Pipeline!NoTask
       /\ IF Runs(w, "process_profiled") /\ pc[u] # "queued" THEN Timeout(u) ELSE UNCHANGED vars
       /\ UNCHANGED path
       /\ Pipeline!TaskTimeout(w)

KillTask(w) ==
    LET u == worker[w].upload
    IN /\ worker[w] # Pipeline!NoTask
       /\ IF Runs(w, "process_profiled") /\ pc[u] \in Active THEN Crash(u) ELSE UNCHANGED vars
       /\ UNCHANGED path
       /\ Pipeline!WorkerCrash(w)

\* Reindexes, deletes and synchronous ingests.
OtherStep(op) == call[op].kind # "worker" /\ Step(op) /\ UNCHANGED pipelineVars

OtherCall(op) ==
    /\ request[op] = "none"
    /\ CallIngest(op) \/ CallReindex(op) \/ CallDelete(op)
    /\ UNCHANGED pipelineVars

\* Every request is answered, every call has ended, and no task is left.
PipelineQuiet ==
    /\ \A op \in Op : /\ pc[op] \in Settled \union {"idle", "queued"}
                      /\ request[op] \in {"none", "202", "413", "500", "503", "crashed"}
    /\ \A w \in Worker : worker[w] = Pipeline!NoTask
    /\ \A q \in DOMAIN queues : queues[q] = <<>>
    /\ UNCHANGED allVars

PipelineNext ==
    \/ \E u \in Op : \/ CreateUpload(u) \/ UploadStep(u) \/ OtherCall(u) \/ OtherStep(u)
                     \/ UNCHANGED <<vars, path>> /\ Pipeline!RequestCrash(u)
    \/ \E w \in Worker : ProfilingStep(w) \/ IngestTaskStep(w) \/ InterruptTask(w) \/ KillTask(w)
    \/ PipelineQuiet

PipelineSpec == PipelineInit /\ [][PipelineNext]_allVars

-----------------------------------------------------------------------------
(* Properties.                                                             *)

\* Every variable has its type.
PipelineTypeOK == TypeOK /\ Pipeline!TypeOK /\ path \subseteq Op

\* The steps of the ingest, with their commits and their exceptions, do to the
\* job, the queues and the worker what UploadPipeline says of its two tasks,
\* whoever else has written the job row meanwhile.
ImplementsUploadPipeline == Pipeline!Spec
=============================================================================
