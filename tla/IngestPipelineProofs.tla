------------------------ MODULE IngestPipelineProofs ------------------------
(***************************************************************************)
(* The safety properties of IngestPipeline, from those of its two parts.   *)
(* A step of the composition is a step of RagStorage, or the status of a   *)
(* job that another session writes; and it is a step of UploadPipeline or  *)
(* none of it.  Both need to know where the call of an upload is while its *)
(* tasks are queued and running, which is what the invariant adds to the   *)
(* invariants of the parts.                                                *)
(***************************************************************************)
EXTENDS IngestPipeline, RagStorageRefinementProofs

\* What is proved of UploadPipeline, for the uploads of the composition.
Up == INSTANCE UploadPipelineProofs
      WITH Upload <- Op, Faults <- PipelineFaults, jobs <- UploadJobs

\* A call is the ingest of an upload from its request on.  It has not begun
\* before the request has sent the first task, nor while the first task may
\* still hand over the second, nor while that one is queued.
CallsOK ==
    \A u \in Op :
        /\ request[u] = "none" <=> call[u].kind # "worker"
        /\ call[u].kind = "worker" /\ request[u] \notin Up!Sent => pc[u] = "queued"
        /\ Up!NotHandedOver(u) \/ Up!Enqueued("process_profiled", u) => pc[u] = "queued"

\* Where the call of an upload is while a worker is at a place of its second task.
CallPlaces ==
    [start    |-> {"queued"},
     extract  |-> {"extract"},
     ingest   |-> {"lookup", "dedupe", "insert", "embed", "ensure", "create", "rows"},
     upsert   |-> {"refresh", "upsert", "complete"},
     progress |-> {"answer"},
     failing  |-> {"queued", "failing", "raised"}]

TasksOK ==
    \A w \in Worker, u \in Op : Up!TakenBy(w, "process_profiled", u) =>
        /\ worker[w].place \in DOMAIN CallPlaces
        /\ pc[u] \in CallPlaces[worker[w].place]

\* The inductive invariant: that of each part, and how the parts agree.
CompositeInv == IInv /\ Up!PipelineInv /\ CallsOK /\ TasksOK /\ path \subseteq Op

-----------------------------------------------------------------------------
(* The two parts.                                                          *)

\* The assumption of UploadPipeline, under which its theorems hold here.
LEMMA UploadAssumption ==
    PipelineFaults \subseteq Up!AllFaults /\ Formats \subseteq Up!AllFormats
  BY PipelineFaultsAssumption
     DEF Pipeline!AllFaults, Pipeline!AllFormats, Up!AllFaults, Up!AllFormats

\* What the theorems say of a step of Up is said of a step of Pipeline.
LEMMA SameInit == Pipeline!Init => Up!Init
  BY DEF Pipeline!Init, Pipeline!NoJob, Pipeline!Queue, Pipeline!NoTask,
         Up!Init, Up!NoJob, Up!Queue, Up!NoTask

LEMMA SameRequestStep ==
    ASSUME NEW u \in Op,
           Pipeline!CreateJob(u) \/ Pipeline!RequestStep(u) \/ Pipeline!RequestCrash(u)
    PROVE  Up!CreateJob(u) \/ Up!RequestStep(u) \/ Up!RequestCrash(u)
  BY DEF Pipeline!CreateJob, Pipeline!RequestStep, Pipeline!RequestCrash, Pipeline!SaveUpload,
         Pipeline!SaveFails, Pipeline!TooLarge, Pipeline!StorePath, Pipeline!Accept, Pipeline!EnqueueFails,
         Pipeline!Refuse, Pipeline!Push, Pipeline!MarkFailed,
         Up!CreateJob, Up!RequestStep, Up!RequestCrash, Up!SaveUpload,
         Up!SaveFails, Up!TooLarge, Up!StorePath, Up!Accept, Up!EnqueueFails,
         Up!Refuse, Up!Push, Up!MarkFailed

LEMMA SameWorkerStep ==
    ASSUME NEW w \in Worker,
           Pipeline!WorkerStep(w) \/ Pipeline!TaskTimeout(w) \/ Pipeline!WorkerCrash(w)
    PROVE  Up!WorkerStep(w) \/ Up!TaskTimeout(w) \/ Up!WorkerCrash(w)
  BY DEF Pipeline!WorkerStep, Pipeline!TaskTimeout, Pipeline!WorkerCrash, Pipeline!Dequeue,
         Pipeline!StartTask, Pipeline!Route, Pipeline!EnqueueProfiled, Pipeline!EnqueueProfiledFails,
         Pipeline!Extract, Pipeline!Ingest, Pipeline!LastProgress, Pipeline!FailTask,
         Pipeline!FailTaskFails, Pipeline!At, Pipeline!Goto, Pipeline!EndTask, Pipeline!Push,
         Pipeline!QueueOrder, Pipeline!NoTask, Pipeline!MarkFailed, Pipeline!TargetQueue,
         Pipeline!GotoReading, Pipeline!CommittedStatus, Pipeline!CommitIngest,
         Up!WorkerStep, Up!TaskTimeout, Up!WorkerCrash, Up!Dequeue,
         Up!StartTask, Up!Route, Up!EnqueueProfiled, Up!EnqueueProfiledFails,
         Up!Extract, Up!Ingest, Up!LastProgress, Up!FailTask,
         Up!FailTaskFails, Up!At, Up!Goto, Up!EndTask, Up!Push,
         Up!QueueOrder, Up!NoTask, Up!MarkFailed, Up!TargetQueue,
         Up!GotoReading, Up!CommittedStatus, Up!CommitIngest

LEMMA SameNext == ASSUME [Pipeline!Next]_(Pipeline!vars) PROVE [Up!Next]_(Up!vars)
<1>1. Pipeline!Quiet \/ UNCHANGED Pipeline!vars => UNCHANGED Up!vars
  BY DEF Pipeline!Quiet, Pipeline!vars, Up!vars
<1> QED
  BY <1>1, SameRequestStep, SameWorkerStep DEF Pipeline!Next, Up!Next

\* The invariant of UploadPipeline, step by step.
LEMMA UploadPreserves ==
    ASSUME Up!PipelineInv, [Pipeline!Next]_(Pipeline!vars) PROVE Up!PipelineInv'
  BY SameNext, UploadAssumption, Up!NextPreserves

\* The status of a job written by a session that is not the one of its ingest:
\* running before the ingest has begun, failed at any time.
LEMMA SetStatusPreserves ==
    ASSUME IInv, NEW u \in Op, NEW status, SetStatus(u, status),
           status = "failed" \/ (status = "running" /\ pc[u] = "queued")
    PROVE  IInv'
<1>1. /\ UNCHANGED <<pc, call, session, points, documents, vectors, collection, deleted>>
      /\ jobs[u] \in Job /\ jobs' = [jobs EXCEPT ![u].status = status] /\ status \in JobStatus
  BY DEF SetStatus, IInv, TypeOK, JobStatus
<1>2. /\ jobs'[u] \in Job /\ jobs'[u] # NoRow /\ jobs'[u].status = status
      /\ jobs'[u].ctx = jobs[u].ctx /\ jobs'[u].document = jobs[u].document
      /\ \A o \in Op \ {u} : jobs'[o] = jobs[o]
  BY <1>1, NoRowFacts DEF IInv, TypeOK, Job
<1>3. \A o \in Op : /\ jobs'[o] = NoRow <=> jobs[o] = NoRow
                    /\ jobs'[o].ctx = jobs[o].ctx /\ jobs'[o].document = jobs[o].document
                    /\ o # u => jobs'[o].status = jobs[o].status
  BY <1>1, <1>2, NoRowFacts
<1>4. /\ \A o \in Op : IngestContext(o)' = IngestContext(o)
      /\ \A d : Live(d)' <=> Live(d)
      /\ Known' = Known
      /\ \A o : /\ Target(o)' = Target(o) /\ (Uncommitted(o)' <=> Uncommitted(o))
                /\ (Ingests(o)' <=> Ingests(o))
      /\ \A o, d : TornDelete(o, d)' <=> TornDelete(o, d)
  BY <1>1, <1>3 DEF IngestContext, Live, Known, Target, Uncommitted, Ingests, TornDelete
<1>5. \A o, d \in Op : Unfinished(o, d) => Unfinished(o, d)'
  BY <1>2, <1>3 DEF Unfinished
<1>6. TypeOK'
  BY <1>1, <1>2 DEF IInv, TypeOK
<1>7. PlacesOK' /\ ArgumentsOK'
  BY <1>1, <1>4 DEF IInv, PlacesOK, ArgumentsOK
<1>8. SessionOK'
  BY <1>1, <1>3, <1>4 DEF IInv, SessionOK, TypeOK
<1>9. JobsOK'
  BY <1>1, <1>2, <1>3, <1>4 DEF IInv, JobsOK, Settled
<1>10. DocumentsOK' /\ KeysOK'
  BY <1>1, <1>4 DEF IInv, DocumentsOK, KeysOK
<1>11. OneDocumentPerPayload' /\ RowsImplyCollection'
  BY <1>1, <1>4 DEF IInv, OneDocumentPerPayload, RowsImplyCollection
<1>12. JobsReferToTheirContext'
  BY <1>1, <1>3, <1>4 DEF IInv, JobsReferToTheirContext
<1>13. AccountedBeforeComplete'
  BY <1>1, <1>4, <1>5 DEF IInv, AccountedBeforeComplete
<1>14. TruncatedOnlyUnderFailedJob'
  BY <1>1, <1>2, <1>4 DEF IInv, TruncatedOnlyUnderFailedJob, DocumentsOK
<1>15. SyncIngestIsAllOrNothing'
  BY <1>1, <1>2, <1>3, <1>4 DEF IInv, SyncIngestIsAllOrNothing
<1> QED
  BY <1>6, <1>7, <1>8, <1>9, <1>10, <1>11, <1>12, <1>13, <1>14, <1>15 DEF IInv

-----------------------------------------------------------------------------
(* What a step of RagStorage does to the job and the call of an upload.    *)

\* A call keeps its kind.
LEMMA KindKept ==
    ASSUME IInv, NEW op \in Op, Step(op) \/ Timeout(op) \/ Crash(op)
    PROVE  call'[op].kind = call[op].kind
<1>1. CASE LookupExisting(op)
  BY <1>1 DEF LookupExisting, IInv, TypeOK, Call
<1>2. CASE ~LookupExisting(op)
  BY <1>2
     DEF Step, IngestStep, ReindexStep, DeleteStep, MarkJobRunning, Extract, Dedupe, Insert, Embed,
         EmbedFails, EnsureCollection, CreateCollection, WriteRow, CommitDocument, Refresh, Upsert,
         UpsertFails, Complete, Answer, MarkJobFailed, ReindexCreateJob, ReindexLoad, ReindexDelete,
         DeleteVectors, DeleteCommit, Timeout, Crash
<1> QED
  BY <1>1, <1>2

\* A step of another call leaves the status of a job alone.
LEMMA StatusOfOthers ==
    ASSUME IInv, NEW op \in Op, Step(op) \/ Arrive(op) \/ Timeout(op) \/ Crash(op),
           NEW o \in Op, o # op, jobs[o] # NoRow
    PROVE  jobs'[o].status = jobs[o].status
<1>1. CASE DeleteCommit(op)
  <2>1. jobs[o] \in Job
    BY DEF IInv, TypeOK
  <2>2. jobs'[o] = jobs[o] \/ jobs'[o] = [jobs[o] EXCEPT !.document = NoRow]
    BY <1>1 DEF DeleteCommit
  <2> QED
    BY <2>1, <2>2 DEF Job
<1> QED
  BY <1>1, OthersKept

\* A status that is written as it is.
LEMMA SameStatus ==
    ASSUME IInv, NEW u \in Op, SetStatus(u, jobs[u].status) PROVE UNCHANGED vars
<1>1. jobs[u] \in Job /\ jobs' = [jobs EXCEPT ![u].status = jobs[u].status]
  BY DEF SetStatus, IInv, TypeOK
<1>2. [jobs[u] EXCEPT !.status = jobs[u].status] = jobs[u]
  BY <1>1 DEF Job
<1>3. UNCHANGED jobs
  BY <1>1, <1>2 DEF IInv, TypeOK
<1> QED
  BY <1>3 DEF SetStatus, vars

\* The columns that UploadPipeline speaks about stay, when the statuses of the
\* jobs of uploads and their paths do.
LEMMA UploadJobsKept ==
    ASSUME UNCHANGED path,
           \A u \in Op : /\ call'[u].kind = "worker" <=> call[u].kind = "worker"
                         /\ call[u].kind = "worker" => jobs'[u].status = jobs[u].status
    PROVE  UNCHANGED UploadJobs
  BY DEF UploadJobs, UploadJob

\* A step of the ingest of an upload, between the extraction and the answer: it
\* stays before its commit or after it, commits, completes the job, or leaves
\* through an exception.  Only the commit and the completion may write the status.
LEMMA IngestMoves ==
    ASSUME IInv, NEW u \in Op, call[u].kind = "worker", IngestStep(u),
           pc[u] \in CallPlaces.ingest \union CallPlaces.upsert
    PROVE  /\ pc'[u] \in CallPlaces.ingest \union CallPlaces.upsert \union {"failing", "raised", "answer"}
           /\ pc'[u] \in CallPlaces.ingest => pc[u] \in CallPlaces.ingest
           /\ pc'[u] \in {"upsert", "complete"} => pc[u] \in CallPlaces.upsert
           /\ pc'[u] = "refresh" => pc[u] \in CallPlaces.ingest
           /\ pc'[u] = "answer" => jobs'[u].status = "completed"
           /\ pc'[u] \notin {"answer", "refresh"} => jobs'[u].status = jobs[u].status
<1>1. /\ jobs[u] \in Job /\ ~MarkJobRunning(u) /\ ~Extract(u) /\ ~Answer(u) /\ ~MarkJobFailed(u)
  BY NoRowFacts
     DEF IInv, TypeOK, JobsOK, CallPlaces, MarkJobRunning, Extract, Answer, MarkJobFailed
<1>2. CASE LookupExisting(u) \/ Insert(u) \/ Embed(u) \/ EmbedFails(u)
  BY <1>2 DEF IInv, TypeOK, CallPlaces, LookupExisting, Insert, Embed, EmbedFails, RaiseFromFlush,
              End, Goto
<1>3. CASE EnsureCollection(u) \/ CreateCollection(u) \/ WriteRow(u) \/ Refresh(u)
  BY <1>3 DEF IInv, TypeOK, CallPlaces, EnsureCollection, CreateCollection, WriteRow, Refresh,
              AfterEnsure, Raise, End, Goto
<1>4. CASE Upsert(u) \/ UpsertFails(u)
  BY <1>4 DEF IInv, TypeOK, CallPlaces, Upsert, UpsertFails, Goto
<1>5. CASE Dedupe(u)
  BY <1>5 DEF IInv, TypeOK, CallPlaces, Dedupe, RaiseFromFlush, End, Goto
<1>6. CASE Complete(u)
  BY <1>1, <1>6 DEF IInv, TypeOK, CallPlaces, Complete, Goto, Job
<1>7. CASE CommitDocument(u)
  BY <1>7 DEF IInv, TypeOK, CallPlaces, CommitDocument, Goto
<1> QED
  BY <1>1, <1>2, <1>3, <1>4, <1>5, <1>6, <1>7 DEF IngestStep

-----------------------------------------------------------------------------
(* What the invariant says of a worker and of a request.                   *)

LEMMA TaskOf ==
    ASSUME CompositeInv, NEW w \in Worker, worker[w] # Up!NoTask, NEW u, u = worker[w].upload
    PROVE  /\ u \in Op /\ worker[w].run \in {"process_uploaded", "process_profiled"}
           /\ Up!TakenBy(w, worker[w].run, u) /\ ~Up!Enqueued(worker[w].run, u)
           /\ \A v \in Worker : Up!TakenBy(v, worker[w].run, u) => v = w
           /\ request[u] \in Up!Sent /\ UploadJobs[u].path /\ call[u].kind = "worker"
           /\ worker[w].run = "process_uploaded" /\ worker[w].place # "failing"
              => Up!NotHandedOver(u) /\ pc[u] = "queued"
           /\ worker[w].run = "process_profiled"
              => /\ ~Up!NotHandedOver(u) /\ worker[w].place \in DOMAIN CallPlaces
                 /\ pc[u] \in CallPlaces[worker[w].place]
<1>1. /\ u \in Op /\ worker[w].run \in Up!Run
      /\ Up!TakenBy(w, worker[w].run, u) /\ Up!Exists(worker[w].run, u)
      /\ ~Up!Enqueued(worker[w].run, u)
      /\ \A v \in Worker : Up!TakenBy(v, worker[w].run, u) => v = w
      /\ request[u] \in Up!Sent /\ UploadJobs[u].path
      /\ worker[w].run = "process_uploaded" /\ worker[w].place # "failing" => Up!NotHandedOver(u)
  BY UploadAssumption, Up!TaskOfWorker DEF CompositeInv
<1>2. call[u].kind = "worker"
  BY <1>1 DEF CompositeInv, CallsOK, Up!Sent
<1>3. Up!NotHandedOver(u) => ~Up!Exists("process_profiled", u)
  BY <1>1 DEF CompositeInv, Up!PipelineInv, Up!HandoverOK
<1> QED
  BY <1>1, <1>2, <1>3 DEF CompositeInv, CallsOK, TasksOK, Up!Run

\* An upload whose request has not sent its first task has none.
LEMMA NoTaskBefore ==
    ASSUME CompositeInv, NEW u \in Op, request[u] \notin Up!Sent
    PROVE  /\ \A run \in {"process_uploaded", "process_profiled"} :
                 ~Up!Enqueued(run, u) /\ \A w \in Worker : ~Up!TakenBy(w, run, u)
           /\ ~Up!NotHandedOver(u)
  BY DEF CompositeInv, Up!PipelineInv, Up!RequestsOK, Up!Exists, Up!Run, Up!NotHandedOver

-----------------------------------------------------------------------------
(* How the parts agree after a step.                                       *)

\* No task is put in a queue, taken or moved.
LEMMA TasksKept ==
    ASSUME UNCHANGED <<queues, worker>>
    PROVE  /\ \A run, o : Up!Enqueued(run, o)' <=> Up!Enqueued(run, o)
           /\ \A w, run, o : Up!TakenBy(w, run, o)' <=> Up!TakenBy(w, run, o)
           /\ \A o : Up!NotHandedOver(o)' <=> Up!NotHandedOver(o)
<1>1. /\ \A run, o : Up!Enqueued(run, o)' <=> Up!Enqueued(run, o)
      /\ \A w, run, o : Up!TakenBy(w, run, o)' <=> Up!TakenBy(w, run, o)
  BY DEF Up!Enqueued, Up!Holds, Up!TakenBy
<1> QED
  BY <1>1 DEF Up!NotHandedOver

\* A step of one request or of one call that touches no task.  A call that
\* moves is not yet, or not, the ingest of an upload with a task.
LEMMA RequestKeepsCoupling ==
    ASSUME CompositeInv, NEW u \in Op, UNCHANGED <<queues, worker>>,
           \A o \in Op \ {u} : /\ pc'[o] = pc[o] /\ call'[o].kind = call[o].kind
                               /\ request'[o] = request[o],
           request'[u] = "none" <=> call'[u].kind # "worker",
           call'[u].kind = "worker" /\ request'[u] \notin Up!Sent => pc'[u] = "queued",
           pc'[u] = pc[u] \/ request[u] \notin Up!Sent
    PROVE  CallsOK' /\ TasksOK'
<1>1. /\ Up!Sent' = Up!Sent
      /\ pc'[u] # pc[u] => /\ ~Up!NotHandedOver(u) /\ ~Up!Enqueued("process_profiled", u)
                           /\ \A w \in Worker : ~Up!TakenBy(w, "process_profiled", u)
  BY NoTaskBefore DEF Up!Sent
<1>2. CallsOK'
  BY <1>1, TasksKept DEF CompositeInv, CallsOK
<1>3. TasksOK'
  BY <1>1, TasksKept DEF CompositeInv, TasksOK, CallPlaces
<1> QED
  BY <1>2, <1>3

\* A worker moves on with its task or is done with it, and the call goes with it.
LEMMA WorkerKeepsCoupling ==
    ASSUME CompositeInv, NEW w \in Worker, worker[w] # Up!NoTask, NEW u, u = worker[w].upload,
           UNCHANGED <<request, queues>>,
           \A o \in Op : call'[o].kind = call[o].kind,
           \A o \in Op \ {u} : pc'[o] = pc[o],
           worker[w].run = "process_uploaded" => pc'[u] = pc[u],
           NEW place \in Up!Place,
           \/ Up!EndTask(w)
           \/ /\ Up!Moves(w, place)
              /\ worker[w].place = "failing" => place = "failing"
              /\ worker[w].run = "process_profiled"
                 => place \in DOMAIN CallPlaces /\ pc'[u] \in CallPlaces[place]
    PROVE  CallsOK' /\ TasksOK'
<1>0. Up!TypeOK
  BY DEF CompositeInv, Up!PipelineInv
<1>1. \A run, o : Up!Enqueued(run, o)' <=> Up!Enqueued(run, o)
  BY DEF Up!Enqueued, Up!Holds
<1>2. /\ \A v \in Worker : \A run, o : Up!TakenBy(v, run, o)' => Up!TakenBy(v, run, o)
      /\ \A v \in Worker \ {w} : worker'[v] = worker[v]
      /\ \/ \A run, o : ~Up!TakenBy(w, run, o)'
         \/ /\ worker'[w].place = place
            /\ worker[w].place = "failing" => place = "failing"
            /\ worker[w].run = "process_profiled"
               => place \in DOMAIN CallPlaces /\ pc'[u] \in CallPlaces[place]
  BY <1>0, UploadAssumption, Up!WorkerMoves, Up!WorkerEnds
<1>3. \A o : Up!NotHandedOver(o)' => Up!NotHandedOver(o)
  BY <1>1, <1>2 DEF Up!NotHandedOver
<1>4. /\ u \in Op /\ Up!TakenBy(w, worker[w].run, u) /\ ~Up!Enqueued(worker[w].run, u)
      /\ \A v \in Worker : Up!TakenBy(v, worker[w].run, u) => v = w
      /\ request[u] \in Up!Sent
      /\ worker[w].run = "process_profiled" => ~Up!NotHandedOver(u)
      /\ worker[w].run \in {"process_uploaded", "process_profiled"}
  BY TaskOf
<1>5. CallsOK'
  <2>1. Up!Sent' = Up!Sent
    BY DEF Up!Sent
  <2>2. \A o \in Op : Up!NotHandedOver(o)' \/ Up!Enqueued("process_profiled", o)' => pc'[o] = "queued"
    BY <1>1, <1>3, <1>4 DEF CompositeInv, CallsOK
  <2> QED
    BY <1>4, <2>1, <2>2 DEF CompositeInv, CallsOK
<1>6. TasksOK'
  <2> SUFFICES ASSUME NEW v \in Worker, NEW o \in Op, Up!TakenBy(v, "process_profiled", o)'
               PROVE  worker'[v].place \in DOMAIN CallPlaces /\ pc'[o] \in CallPlaces[worker'[v].place]
    BY DEF TasksOK, CallPlaces
  <2>1. Up!TakenBy(v, "process_profiled", o)
    BY <1>2
  <2>2. CASE v = w
    <3>1. worker[w].run = "process_profiled" /\ o = u
      BY <2>1, <2>2 DEF Up!TakenBy
    <3> QED
      BY <1>2, <2>2, <3>1
  <2>3. CASE v # w
    <3>1. o = u => worker[w].run = "process_uploaded"
      BY <1>4, <2>1, <2>3
    <3> QED
      BY <1>2, <2>1, <2>3, <3>1 DEF CompositeInv, TasksOK
  <2> QED
    BY <2>2, <2>3
<1> QED
  BY <1>5, <1>6

\* A task is put in its queue, by a request or by the first task, for a call
\* that has not begun.
LEMMA PushKeepsCoupling ==
    ASSUME CompositeInv, NEW u \in Op, NEW run \in Up!Run, UNCHANGED <<pc, call, format>>,
           ~Up!Enqueued(run, u), Up!Push(Up!QueueOf(run, u), run, u),
           pc[u] = "queued", request'[u] # "none", call[u].kind = "worker",
           \A o \in Op \ {u} : request'[o] = request[o],
           \A v \in Worker : \A r, o : Up!TakenBy(v, r, o)' =>
               /\ Up!TakenBy(v, r, o)
               /\ \/ worker'[v].place = worker[v].place
                  \/ r = "process_uploaded" /\ worker'[v].place = "failing"
    PROVE  CallsOK' /\ TasksOK'
<1>1. \A r \in Up!Run, o \in Op :
         Up!Enqueued(r, o)' <=> Up!Enqueued(r, o) \/ (r = run /\ o = u)
  BY UploadAssumption, Up!PushedTask DEF CompositeInv, Up!PipelineInv
<1>2. \A o \in Op \ {u} : /\ Up!NotHandedOver(o)' => Up!NotHandedOver(o)
                          /\ Up!Enqueued("process_profiled", o)' => Up!Enqueued("process_profiled", o)
  BY <1>1 DEF Up!NotHandedOver, Up!Run
<1>3. CallsOK'
  <2>1. Up!Sent' = Up!Sent
    BY DEF Up!Sent
  <2> QED
    BY <1>2, <2>1 DEF CompositeInv, CallsOK
<1>4. TasksOK'
  BY DEF CompositeInv, TasksOK, CallPlaces
<1> QED
  BY <1>3, <1>4

\* A worker takes a task out of its queue; the call of a second task has not begun.
LEMMA DequeueKeepsCoupling ==
    ASSUME CompositeInv, NEW w \in Worker, Pipeline!Dequeue(w), UNCHANGED vars
    PROVE  CallsOK' /\ TasksOK'
<1>1. PICK i \in DOMAIN Pipeline!QueueOrder :
         LET q == Pipeline!QueueOrder[i]
         IN /\ queues[q] # <<>>
            /\ worker' = [worker EXCEPT ![w] = [run |-> Head(queues[q]).run,
                                                upload |-> Head(queues[q]).upload,
                                                place |-> "start", read |-> "none"]]
            /\ queues' = [queues EXCEPT ![q] = Tail(@)]
  BY DEF Pipeline!Dequeue
<1>2. PICK q : q = Pipeline!QueueOrder[i]
  OBVIOUS
<1>3. q \in Up!Queue
  BY <1>2 DEF Pipeline!QueueOrder, Up!Queue
<1>4. PICK t : t = Head(queues[q])
  OBVIOUS
<1>5. /\ t.run \in Up!Run /\ t.upload \in Op /\ Up!Enqueued(t.run, t.upload)
      /\ \A r \in Up!Run, o \in Op :
            Up!Enqueued(r, o)' <=> Up!Enqueued(r, o) /\ ~(r = t.run /\ o = t.upload)
  <2>1. UNCHANGED format /\ queues[q] # <<>> /\ queues' = [queues EXCEPT ![q] = Tail(@)]
    BY <1>1, <1>2 DEF Pipeline!Dequeue
  <2> QED
    BY <1>3, <1>4, <2>1, UploadAssumption, Up!TakenTask DEF CompositeInv, Up!PipelineInv
<1>6. /\ \A v \in Worker \ {w} : worker'[v] = worker[v]
      /\ worker'[w] = [run |-> t.run, upload |-> t.upload, place |-> "start", read |-> "none"]
  BY <1>1, <1>2, <1>4 DEF CompositeInv, Up!PipelineInv, Up!TypeOK
<1>7. \A v \in Worker, r \in Up!Run, o \in Op : Up!TakenBy(v, r, o)' =>
         \/ v # w /\ Up!TakenBy(v, r, o) /\ worker'[v] = worker[v]
         \/ v = w /\ r = t.run /\ o = t.upload
  BY <1>6 DEF Up!TakenBy
<1>8. \A o \in Op : Up!NotHandedOver(o)' => Up!NotHandedOver(o)
  BY <1>5, <1>7 DEF Up!NotHandedOver, Up!Run
<1>9. CallsOK'
  <2>1. Up!Sent' = Up!Sent /\ UNCHANGED <<request, pc, call>>
    BY DEF Up!Sent, Pipeline!Dequeue, vars
  <2> QED
    BY <1>5, <1>8, <2>1 DEF CompositeInv, CallsOK, Up!Run
<1>10. TasksOK'
  <2> SUFFICES ASSUME NEW v \in Worker, NEW o \in Op, Up!TakenBy(v, "process_profiled", o)'
               PROVE  worker'[v].place \in DOMAIN CallPlaces /\ pc[o] \in CallPlaces[worker'[v].place]
    BY DEF TasksOK, CallPlaces, vars
  <2>1. CASE v # w
    BY <1>7, <2>1 DEF CompositeInv, TasksOK, Up!Run
  <2>2. CASE v = w
    <3>1. pc[o] = "queued"
      BY <1>5, <1>7, <2>2 DEF CompositeInv, CallsOK, Up!Run
    <3> QED
      BY <1>6, <2>2, <3>1 DEF CallPlaces
  <2> QED
    BY <2>1, <2>2
<1> QED
  BY <1>9, <1>10

-----------------------------------------------------------------------------
(* The steps of the composition.                                           *)

\* What a step is: one that keeps the storage invariant and the agreement of
\* the parts, and a step of UploadPipeline or none of it.
GoodStep ==
    /\ IInv' /\ CallsOK' /\ TasksOK' /\ path' \subseteq Op
    /\ [Pipeline!Next]_(Pipeline!vars)

LEMMA StorageStep ==
    ASSUME IInv, \E op \in Op : Step(op) \/ Arrive(op) \/ Timeout(op) \/ Crash(op)
    PROVE  IInv'
  BY NextPreserves DEF Next

\* The request of an upload.
LEMMA CreateUploadGood == ASSUME CompositeInv, NEW u \in Op, CreateUpload(u) PROVE GoodStep
<1>1. IInv'
  BY StorageStep DEF CompositeInv, CreateUpload, Arrive
<1>2. Pipeline!Next
  BY DEF CreateUpload, Pipeline!Next
<1>3. /\ UNCHANGED <<queues, worker, path>>
      /\ request[u] = "none" /\ request'[u] = "created" /\ call'[u].kind = "worker" /\ pc'[u] = "queued"
      /\ \A o \in Op \ {u} : /\ pc'[o] = pc[o] /\ call'[o].kind = call[o].kind
                             /\ request'[o] = request[o]
  BY DEF CreateUpload, Pipeline!CreateJob, CreateJob, Goto, CompositeInv, IInv, TypeOK,
         Up!PipelineInv, Up!TypeOK
<1>4. CallsOK' /\ TasksOK'
  BY <1>3, RequestKeepsCoupling DEF Up!Sent
<1> QED
  BY <1>1, <1>2, <1>3, <1>4 DEF GoodStep, CompositeInv

\* The steps of a request that enqueue nothing.
LEMMA RequestGood ==
    ASSUME CompositeInv, NEW u \in Op,
           \/ StoreUploadPath(u) \/ RefuseUpload(u)
           \/ /\ UNCHANGED <<vars, path>>
              /\ \/ Pipeline!SaveUpload(u) \/ Pipeline!SaveFails(u) \/ Pipeline!TooLarge(u)
                 \/ Pipeline!RequestCrash(u)
    PROVE  GoodStep
<1>1. IInv'
  BY StutterPreserves, SetStatusPreserves DEF CompositeInv, StoreUploadPath, RefuseUpload
<1>2. Pipeline!Next
  BY DEF StoreUploadPath, RefuseUpload, Pipeline!Next, Pipeline!RequestStep
<1>3. UNCHANGED <<pc, call, queues, worker>>
  BY DEF StoreUploadPath, RefuseUpload, SetStatus, vars, Pipeline!StorePath, Pipeline!Refuse,
         Pipeline!SaveUpload, Pipeline!SaveFails, Pipeline!TooLarge, Pipeline!RequestCrash
<1>4. /\ request[u] # "none" /\ request'[u] # "none"
      /\ request'[u] \notin Up!Sent => request[u] \notin Up!Sent
      /\ \A o \in Op \ {u} : request'[o] = request[o]
  BY DEF StoreUploadPath, RefuseUpload, Pipeline!StorePath, Pipeline!Refuse,
         Pipeline!SaveUpload, Pipeline!SaveFails, Pipeline!TooLarge, Pipeline!RequestCrash, Up!Sent,
         CompositeInv, Up!PipelineInv, Up!TypeOK
<1>5. CallsOK' /\ TasksOK'
  BY <1>3, <1>4, RequestKeepsCoupling DEF CompositeInv, CallsOK
<1>6. path' \subseteq Op
  BY DEF StoreUploadPath, RefuseUpload, CompositeInv
<1> QED
  BY <1>1, <1>2, <1>5, <1>6 DEF GoodStep

\* The request enqueues the first task, or fails to, and Redis may have it.
LEMMA SendGood ==
    ASSUME CompositeInv, NEW u \in Op, UNCHANGED <<vars, path>>,
           Pipeline!Accept(u) \/ Pipeline!EnqueueFails(u)
    PROVE  GoodStep
<1>1. IInv'
  BY StutterPreserves DEF CompositeInv
<1>2. Pipeline!Next
  BY DEF Pipeline!Next, Pipeline!RequestStep
<1>3. /\ UNCHANGED <<pc, call, worker, format>>
      /\ request[u] = "ready" /\ request'[u] # "none" /\ request'[u] \in Up!Sent
      /\ \A o \in Op \ {u} : request'[o] = request[o]
  BY DEF vars, Pipeline!Accept, Pipeline!EnqueueFails, Up!Sent, CompositeInv, Up!PipelineInv, Up!TypeOK
<1>4. call[u].kind = "worker" /\ pc[u] = "queued" /\ ~Up!Enqueued("process_uploaded", u)
  BY <1>3, NoTaskBefore DEF CompositeInv, CallsOK, Up!Sent
<1>5. CASE UNCHANGED queues
  BY <1>1, <1>2, <1>3, <1>4, <1>5, RequestKeepsCoupling DEF GoodStep, CompositeInv
<1>6. CASE Pipeline!Push("profile", "process_uploaded", u)
  <2>1. /\ "process_uploaded" \in Up!Run
        /\ Up!Push(Up!QueueOf("process_uploaded", u), "process_uploaded", u)
    BY <1>6 DEF Up!Run, Up!Push, Up!QueueOf, Pipeline!Push
  <2>2. \A v \in Worker : \A r, o : Up!TakenBy(v, r, o)' =>
           Up!TakenBy(v, r, o) /\ worker'[v].place = worker[v].place
    BY <1>3 DEF Up!TakenBy
  <2>3. CallsOK' /\ TasksOK'
    BY <1>3, <1>4, <2>1, <2>2, PushKeepsCoupling
  <2> QED
    BY <1>1, <1>2, <2>3 DEF GoodStep, CompositeInv
<1> QED
  BY <1>5, <1>6 DEF Pipeline!Accept, Pipeline!EnqueueFails

\* A reindex, a delete or a synchronous ingest of another process.
LEMMA OtherGood == ASSUME CompositeInv, NEW op \in Op, OtherStep(op) \/ OtherCall(op) PROVE GoodStep
<1>1. /\ Step(op) \/ Arrive(op)
      /\ UNCHANGED pipelineVars
      /\ call[op].kind # "worker" /\ call'[op].kind # "worker"
  <2>1. CASE OtherStep(op)
    BY <2>1, KindKept DEF OtherStep, CompositeInv
  <2>2. CASE OtherCall(op)
    BY <2>2 DEF OtherCall, Arrive, CallIngest, CallReindex, CallDelete, CompositeInv, CallsOK, IInv,
                TypeOK
  <2> QED
    BY <2>1, <2>2
<1>2. IInv'
  BY <1>1, StorageStep DEF CompositeInv
<1>3. \A o \in Op \ {op} : /\ pc'[o] = pc[o] /\ call'[o] = call[o]
                           /\ jobs[o] # NoRow => jobs'[o].status = jobs[o].status
  BY <1>1, OthersKept, StatusOfOthers DEF CompositeInv
<1>4. UNCHANGED UploadJobs
  BY <1>1, <1>3, UploadJobsKept DEF pipelineVars, CompositeInv, IInv, JobsOK
<1>5. request[op] = "none" /\ request[op] \notin Up!Sent
  BY <1>1 DEF CompositeInv, CallsOK, Up!Sent
<1>6. CallsOK' /\ TasksOK'
  BY <1>1, <1>3, <1>5, RequestKeepsCoupling DEF pipelineVars
<1> QED
  BY <1>1, <1>2, <1>4, <1>6 DEF GoodStep, CompositeInv, pipelineVars, Pipeline!vars

\* The steps of the first task that hand nothing over, and the steps of a
\* second task that are taken without its call.
LEMMA TaskGood ==
    ASSUME CompositeInv, NEW w \in Worker, UNCHANGED path,
           \/ UNCHANGED vars
           \/ SetStatus(worker[w].upload, "failed")
           \/ /\ SetStatus(worker[w].upload, "running")
              /\ worker[w].run = "process_uploaded" /\ worker[w].place # "failing",
           \/ Pipeline!StartTask(w) /\ Runs(w, "process_uploaded")
           \/ Pipeline!Route(w)
           \/ Pipeline!FailTask(w) \/ Pipeline!FailTaskFails(w) \/ Pipeline!WorkerCrash(w)
           \/ /\ Pipeline!TaskTimeout(w)
              /\ worker[w].run = "process_profiled" => pc[worker[w].upload] = "queued"
    PROVE  GoodStep
<1>0. worker[w] # Up!NoTask
  BY DEF Pipeline!StartTask, Pipeline!Route, Pipeline!FailTask, Pipeline!FailTaskFails,
         Pipeline!WorkerCrash, Pipeline!TaskTimeout, Pipeline!At, Pipeline!NoTask, Up!NoTask
<1>1. PICK u : u = worker[w].upload
  OBVIOUS
<1>2. /\ u \in Op
      /\ worker[w].run = "process_uploaded" /\ worker[w].place # "failing" => pc[u] = "queued"
  BY <1>0, <1>1, TaskOf
<1>3. IInv'
  BY <1>1, <1>2, StutterPreserves, SetStatusPreserves DEF CompositeInv
<1>4. Pipeline!Next
  BY DEF Pipeline!Next, Pipeline!WorkerStep
<1>5. UNCHANGED <<pc, call, request, queues>>
  BY DEF SetStatus, vars, Pipeline!StartTask, Pipeline!Route, Pipeline!FailTask,
         Pipeline!FailTaskFails, Pipeline!WorkerCrash, Pipeline!TaskTimeout
<1>6. \/ Up!EndTask(w)
      \/ \E place \in Up!Place :
            /\ Up!Moves(w, place)
            /\ worker[w].place # "failing"
            /\ worker[w].run = "process_profiled" => place = "failing" /\ pc[u] = "queued"
  <2>1. /\ \A place : Pipeline!Goto(w, place) => Up!Moves(w, place)
        /\ \A place : \A status \in Up!Status :
              Pipeline!GotoReading(w, place, status) => Up!Moves(w, place)
        /\ Pipeline!EndTask(w) => Up!EndTask(w)
    BY DEF Pipeline!Goto, Pipeline!GotoReading, Pipeline!EndTask, Pipeline!NoTask, Up!NoTask,
           Up!Moves, Up!Goto, Up!GotoReading, Up!EndTask
  <2>2. "running" \in Up!Status /\ UploadJobs[u].status \in Up!Status
    BY <1>2 DEF CompositeInv, Up!PipelineInv, Up!TypeOK, Up!Status
  <2>3. CASE Pipeline!StartTask(w) /\ Runs(w, "process_uploaded")
    BY <2>1, <2>2, <2>3 DEF Pipeline!StartTask, Runs, Up!Place
  <2>4. CASE Pipeline!Route(w)
    BY <1>1, <2>1, <2>2, <2>4 DEF Pipeline!Route, Pipeline!At, Up!Place
  <2>5. CASE Pipeline!TaskTimeout(w) /\ (worker[w].run = "process_profiled" => pc[u] = "queued")
    BY <2>1, <2>5 DEF Pipeline!TaskTimeout, Up!Place
  <2>6. CASE Pipeline!FailTask(w) \/ Pipeline!FailTaskFails(w) \/ Pipeline!WorkerCrash(w)
    BY <2>1, <2>6 DEF Pipeline!FailTask, Pipeline!FailTaskFails, Pipeline!WorkerCrash
  <2> QED
    BY <1>1, <2>3, <2>4, <2>5, <2>6
<1>7. CallsOK' /\ TasksOK'
  <2>1. CASE Up!EndTask(w)
    <3>1. "failing" \in Up!Place
      BY DEF Up!Place
    <3> QED
      BY <1>0, <1>1, <1>5, <2>1, <3>1, WorkerKeepsCoupling
  <2>2. ASSUME NEW place \in Up!Place, Up!Moves(w, place), worker[w].place # "failing",
               worker[w].run = "process_profiled" => place = "failing" /\ pc[u] = "queued"
        PROVE  CallsOK' /\ TasksOK'
    <3>1. worker[w].run = "process_profiled"
          => place \in DOMAIN CallPlaces /\ pc'[u] \in CallPlaces[place]
      BY <1>5, <2>2 DEF CallPlaces
    <3> QED
      BY <1>0, <1>1, <1>5, <2>2, <3>1, WorkerKeepsCoupling
  <2> QED
    BY <1>6, <2>1, <2>2
<1> QED
  BY <1>3, <1>4, <1>7 DEF GoodStep, CompositeInv

\* The first task enqueues the second one, or fails to, and Redis may have it.
LEMMA HandoverGood ==
    ASSUME CompositeInv, NEW w \in Worker, UNCHANGED <<vars, path>>,
           Pipeline!EnqueueProfiled(w) \/ Pipeline!EnqueueProfiledFails(w)
    PROVE  GoodStep
<1>0. /\ worker[w] # Up!NoTask
      /\ worker[w].run = "process_uploaded" /\ worker[w].place = "enqueue"
  BY DEF Pipeline!EnqueueProfiled, Pipeline!EnqueueProfiledFails, Pipeline!At, Up!NoTask
<1>1. PICK u : u = worker[w].upload
  OBVIOUS
<1>2. /\ u \in Op /\ pc[u] = "queued" /\ call[u].kind = "worker" /\ Up!NotHandedOver(u)
      /\ request[u] # "none"
  BY <1>0, <1>1, TaskOf DEF Up!Sent
<1>3. IInv'
  BY StutterPreserves DEF CompositeInv
<1>4. Pipeline!Next
  BY DEF Pipeline!Next, Pipeline!WorkerStep
<1>5. UNCHANGED <<pc, call, request, format>>
  BY DEF vars, Pipeline!EnqueueProfiled, Pipeline!EnqueueProfiledFails
<1>6. Up!EndTask(w) \/ Up!Goto(w, "failing")
  BY DEF Pipeline!EnqueueProfiled, Pipeline!EnqueueProfiledFails, Pipeline!EndTask, Pipeline!Goto,
         Pipeline!NoTask, Up!NoTask, Up!EndTask, Up!Goto
<1>7. CASE UNCHANGED queues
  <2>1. CallsOK' /\ TasksOK'
    <3>1. "failing" \in Up!Place /\ (Up!Goto(w, "failing") => Up!Moves(w, "failing"))
      BY DEF Up!Place, Up!Moves
    <3> QED
      BY <1>0, <1>1, <1>5, <1>6, <1>7, <3>1, WorkerKeepsCoupling
  <2> QED
    BY <1>3, <1>4, <2>1 DEF GoodStep, CompositeInv
<1>8. CASE Pipeline!Push(Pipeline!TargetQueue(u), "process_profiled", u)
  <2>1. /\ "process_profiled" \in Up!Run
        /\ Up!Push(Up!QueueOf("process_profiled", u), "process_profiled", u)
    BY <1>8 DEF Up!Run, Up!Push, Up!QueueOf, Up!TargetQueue, Pipeline!Push, Pipeline!TargetQueue
  <2>2. ~Up!Enqueued("process_profiled", u)
    BY <1>2 DEF CompositeInv, Up!PipelineInv, Up!HandoverOK, Up!Exists
  <2>3. Up!TypeOK
    BY DEF CompositeInv, Up!PipelineInv
  <2>4. \A v \in Worker : \A r, o : Up!TakenBy(v, r, o)' =>
           /\ Up!TakenBy(v, r, o)
           /\ \/ worker'[v].place = worker[v].place
              \/ r = "process_uploaded" /\ worker'[v].place = "failing"
    <3>1. CASE Up!EndTask(w)
      BY <2>3, <3>1, UploadAssumption, Up!WorkerEnds
    <3>2. CASE Up!Goto(w, "failing")
      <4>1. /\ \A v \in Worker : \A r, o : Up!TakenBy(v, r, o)' <=> Up!TakenBy(v, r, o)
            /\ \A v \in Worker \ {w} : worker'[v] = worker[v]
            /\ worker'[w].place = "failing"
        BY <1>0, <2>3, <3>2, UploadAssumption, Up!WorkerMoves DEF Up!Moves, Up!Place
      <4>2. \A r, o : Up!TakenBy(w, r, o) => r = "process_uploaded"
        BY <1>0 DEF Up!TakenBy
      <4> QED
        BY <4>1, <4>2
    <3> QED
      BY <1>6, <3>1, <3>2
  <2>5. CallsOK' /\ TasksOK'
    BY <1>2, <1>5, <2>1, <2>2, <2>4, PushKeepsCoupling
  <2> QED
    BY <1>3, <1>4, <2>5 DEF GoodStep, CompositeInv
<1> QED
  BY <1>1, <1>7, <1>8 DEF Pipeline!EnqueueProfiled, Pipeline!EnqueueProfiledFails

LEMMA DequeueGood ==
    ASSUME CompositeInv, NEW w \in Worker, UNCHANGED <<vars, path>>, Pipeline!Dequeue(w)
    PROVE  GoodStep
<1>1. IInv'
  BY StutterPreserves DEF CompositeInv
<1>2. Pipeline!Next
  BY DEF Pipeline!Next, Pipeline!WorkerStep
<1>3. CallsOK' /\ TasksOK'
  BY DequeueKeepsCoupling
<1> QED
  BY <1>1, <1>2, <1>3 DEF GoodStep, CompositeInv

\* The second task and its call move together.
LEMMA CallGood ==
    ASSUME CompositeInv, NEW w \in Worker, worker[w] # Up!NoTask, NEW u, u = worker[w].upload,
           Step(u) \/ Timeout(u) \/ Crash(u),
           worker[w].run = "process_profiled", UNCHANGED <<path, request, queues>>,
           NEW place, place \in {"start", "extract", "ingest", "upsert", "progress", "failing"},
           \/ Up!EndTask(w)
           \/ /\ Up!Moves(w, place)
              /\ worker[w].place # "failing"
              /\ pc'[u] \in CallPlaces[place]
    PROVE  IInv' /\ CallsOK' /\ TasksOK' /\ path' \subseteq Op
<1>1. u \in Op /\ call[u].kind = "worker"
  BY TaskOf
<1>2. IInv'
  BY <1>1, StorageStep DEF CompositeInv
<1>3. /\ \A o \in Op \ {u} : pc'[o] = pc[o] /\ call'[o] = call[o]
      /\ call'[u].kind = call[u].kind
  BY <1>1, OthersKept, KindKept DEF CompositeInv
<1>4. place \in DOMAIN CallPlaces /\ place \in Up!Place
  BY DEF CallPlaces, Up!Place
<1>5. CallsOK' /\ TasksOK'
  BY <1>3, <1>4, WorkerKeepsCoupling
<1> QED
  BY <1>2, <1>5 DEF CompositeInv

LEMMA StartIngestGood == ASSUME CompositeInv, NEW w \in Worker, StartIngest(w) PROVE GoodStep
<1>0. worker[w] # Up!NoTask /\ worker[w].run = "process_profiled" /\ worker[w].place = "start"
  BY DEF StartIngest, Runs, Pipeline!StartTask, Pipeline!NoTask, Up!NoTask
<1>1. PICK u : u = worker[w].upload
  OBVIOUS
<1>2. u \in Op /\ UploadJobs[u].path
  BY <1>0, <1>1, TaskOf
<1>3. Step(u) /\ pc'[u] = "extract"
  BY <1>1, <1>2 DEF StartIngest, MarkJobRunning, Step, IngestStep, Goto, CompositeInv, IInv, TypeOK
<1>4. Up!Moves(w, "extract") /\ UNCHANGED <<path, request, queues>>
  BY <1>0, <1>1, <1>2
     DEF StartIngest, Pipeline!StartTask, Pipeline!GotoReading, Up!GotoReading, Up!Moves, Up!Status
<1>5. Pipeline!Next
  BY DEF StartIngest, Pipeline!Next, Pipeline!WorkerStep
<1> QED
  BY <1>0, <1>1, <1>3, <1>4, <1>5, CallGood DEF GoodStep, CallPlaces

LEMMA ExtractUploadGood == ASSUME CompositeInv, NEW w \in Worker, ExtractUpload(w) PROVE GoodStep
<1>0. worker[w] # Up!NoTask /\ worker[w].run = "process_profiled" /\ worker[w].place = "extract"
  BY DEF ExtractUpload, Runs, Pipeline!Extract, Pipeline!At, Pipeline!NoTask, Up!NoTask
<1>1. PICK u : u = worker[w].upload
  OBVIOUS
<1>2. u \in Op /\ call[u].kind = "worker"
  BY <1>0, <1>1, TaskOf
<1>3. Step(u) /\ pc'[u] \in {"lookup", "failing"}
  BY <1>1, <1>2 DEF ExtractUpload, Extract, Raise, Step, IngestStep, Goto, CompositeInv, IInv, TypeOK
<1>4. /\ Up!Moves(w, "ingest") \/ Up!Moves(w, "failing")
      /\ UNCHANGED <<path, request, queues>>
      /\ worker'[w].place = IF pc'[u] = "lookup" THEN "ingest" ELSE "failing"
  <2>1. UploadJobs[u].status \in Up!Status
    BY <1>2 DEF CompositeInv, Up!PipelineInv, Up!TypeOK
  <2> QED
    BY <1>1, <2>1 DEF ExtractUpload, Pipeline!Extract, Pipeline!Goto, Pipeline!GotoReading, Up!Goto,
                      Up!GotoReading, Up!Moves
<1>5. \A place \in Up!Place : Up!Moves(w, place) => worker'[w].place = place
  BY <1>0, UploadAssumption, Up!WorkerMoves DEF CompositeInv, Up!PipelineInv
<1>6. \E place \in {"ingest", "failing"} : Up!Moves(w, place) /\ pc'[u] \in CallPlaces[place]
  BY <1>3, <1>4, <1>5 DEF CallPlaces, Up!Place
<1>7. Pipeline!Next
  BY DEF ExtractUpload, Pipeline!Next, Pipeline!WorkerStep
<1> QED
  BY <1>0, <1>1, <1>3, <1>4, <1>6, <1>7, CallGood DEF GoodStep

\* Of the steps from the lookup to the completed job, the commit and the last
\* one, a completion or an exception, are steps of UploadPipeline.
LEMMA IngestUploadGood == ASSUME CompositeInv, NEW w \in Worker, IngestUpload(w) PROVE GoodStep
<1>0. /\ worker[w] # Up!NoTask /\ worker[w].run = "process_profiled"
      /\ worker[w].place \in {"ingest", "upsert"}
      /\ Pipeline!At(w, "process_profiled", worker[w].place)
  BY DEF IngestUpload, Runs, Pipeline!At, Pipeline!NoTask, Up!NoTask
<1>1. PICK u : u = worker[w].upload
  OBVIOUS
<1>2. /\ u \in Op /\ call[u].kind = "worker" /\ pc[u] \in CallPlaces[worker[w].place]
      /\ pc[u] \in CallPlaces.ingest \union CallPlaces.upsert
  BY <1>0, <1>1, TaskOf DEF CallPlaces
<1>3. /\ IngestStep(u) /\ UNCHANGED <<request, format, stored, queues, lost, path>>
      /\ pc'[u] = "refresh" => jobs'[u].status = Pipeline!CommittedStatus(w)
      /\ worker' = [worker EXCEPT ![w].place = WorkerPlace(pc'[u]), ![w].read = ReadAt(pc'[u], @)]
  BY <1>1 DEF IngestUpload
<1>4. /\ pc'[u] \in CallPlaces.ingest \union CallPlaces.upsert \union {"failing", "raised", "answer"}
      /\ pc'[u] \in CallPlaces.ingest => pc[u] \in CallPlaces.ingest
      /\ pc'[u] \in {"upsert", "complete"} => pc[u] \in CallPlaces.upsert
      /\ pc'[u] = "refresh" => pc[u] \in CallPlaces.ingest
      /\ pc'[u] = "answer" => jobs'[u].status = "completed"
      /\ pc'[u] \notin {"answer", "refresh"} => jobs'[u].status = jobs[u].status
  BY <1>2, <1>3, IngestMoves DEF CompositeInv
<1>5. /\ worker[w] \in Up!Running /\ worker \in [Worker -> Up!Running \union {Up!NoTask}]
      /\ worker[w].read \in Up!Status
  BY <1>0 DEF CompositeInv, Up!PipelineInv, Up!TypeOK, Up!Running
<1>6. PICK place \in {"ingest", "upsert", "progress", "failing"} :
         /\ place = WorkerPlace(pc'[u]) /\ pc'[u] \in CallPlaces[place]
         /\ place = "progress" <=> pc'[u] = "answer"
         /\ pc'[u] \notin {"answer", "refresh"} =>
               place \in {worker[w].place, "failing"} /\ ReadAt(pc'[u], worker[w].read) = worker[w].read
         /\ pc'[u] = "refresh" => place = "upsert" /\ worker[w].place = "ingest"
  BY <1>0, <1>2, <1>4 DEF CallPlaces, WorkerPlace, ReadAt
<1>7. PICK read : read = ReadAt(pc'[u], worker[w].read)
  OBVIOUS
<1>8. worker' = [worker EXCEPT ![w] = [worker[w] EXCEPT !.place = place, !.read = read]]
  BY <1>3, <1>6, <1>7
<1>9. /\ read \in Up!Status /\ Up!Moves(w, place) /\ Pipeline!GotoReading(w, place, read)
      /\ read = worker[w].read => Pipeline!Goto(w, place)
      /\ read = worker[w].read /\ place = worker[w].place => UNCHANGED worker
  <2>1. read \in Up!Status
    BY <1>5, <1>7 DEF ReadAt, Up!Status
  <2>2. Up!GotoReading(w, place, read) /\ Pipeline!GotoReading(w, place, read)
    BY <1>8 DEF Up!GotoReading, Pipeline!GotoReading
  <2>3. ASSUME read = worker[w].read
        PROVE  [worker[w] EXCEPT !.place = place, !.read = read] = [worker[w] EXCEPT !.place = place]
    BY <1>5, <2>3 DEF Up!Running
  <2>4. ASSUME read = worker[w].read PROVE Pipeline!Goto(w, place)
    BY <1>8, <2>3, <2>4 DEF Pipeline!Goto
  <2>5. ASSUME read = worker[w].read, place = worker[w].place PROVE UNCHANGED worker
    <3>1. [worker[w] EXCEPT !.place = place] = worker[w]
      BY <1>5, <2>5 DEF Up!Running
    <3> QED
      BY <1>5, <1>8, <2>3, <2>5, <3>1
  <2> QED
    BY <2>1, <2>2, <2>4, <2>5 DEF Up!Moves
<1>10. IInv' /\ CallsOK' /\ TasksOK' /\ path' \subseteq Op
  BY <1>0, <1>1, <1>3, <1>6, <1>9, CallGood DEF Step
<1>11. /\ \A o \in Op : call'[o].kind = call[o].kind
       /\ \A o \in Op \ {u} : jobs[o] # NoRow => jobs'[o].status = jobs[o].status
       /\ \A o \in Op : call[o].kind = "worker" => jobs[o] # NoRow
  BY <1>2, <1>3, OthersKept, KindKept, StatusOfOthers DEF CompositeInv, IInv, JobsOK, Step
<1>12. UploadJobs' = [UploadJobs EXCEPT ![u].status = jobs'[u].status]
  BY <1>2, <1>3, <1>11 DEF UploadJobs, UploadJob
<1>13. CASE pc'[u] = "answer"
  <2>1. read = "completed"
    BY <1>7, <1>13 DEF ReadAt
  <2>2. Pipeline!Ingest(w)
    BY <1>0, <1>1, <1>3, <1>4, <1>6, <1>9, <1>12, <1>13, <2>1 DEF Pipeline!Ingest
  <2> QED
    BY <1>10, <2>2 DEF GoodStep, Pipeline!Next, Pipeline!WorkerStep
<1>14. CASE pc'[u] = "refresh"
  <2>1. read = "running"
    BY <1>7, <1>14 DEF ReadAt
  <2>2. Pipeline!CommitIngest(w)
    BY <1>0, <1>1, <1>3, <1>6, <1>9, <1>12, <1>14, <2>1 DEF Pipeline!CommitIngest
  <2> QED
    BY <1>10, <2>2 DEF GoodStep, Pipeline!Next, Pipeline!WorkerStep
<1>15. CASE pc'[u] \notin {"answer", "refresh"}
  <2>1. UNCHANGED UploadJobs
    BY <1>3, <1>4, <1>11, <1>15, UploadJobsKept
  <2>2. CASE place = "failing"
    <3>1. Pipeline!Ingest(w)
      BY <1>0, <1>1, <1>3, <1>6, <1>7, <1>9, <1>15, <2>1, <2>2 DEF Pipeline!Ingest
    <3> QED
      BY <1>10, <3>1 DEF GoodStep, Pipeline!Next, Pipeline!WorkerStep
  <2>3. CASE place = worker[w].place
    BY <1>3, <1>6, <1>7, <1>9, <1>10, <1>15, <2>1, <2>3 DEF GoodStep, Pipeline!vars
  <2> QED
    BY <1>6, <1>15, <2>2, <2>3
<1> QED
  BY <1>13, <1>14, <1>15

LEMMA AnswerUploadGood == ASSUME CompositeInv, NEW w \in Worker, AnswerUpload(w) PROVE GoodStep
<1>0. worker[w] # Up!NoTask /\ worker[w].run = "process_profiled" /\ worker[w].place = "progress"
  BY DEF AnswerUpload, Pipeline!At, Up!NoTask
<1>1. PICK u : u = worker[w].upload
  OBVIOUS
<1>2. u \in Op /\ call[u].kind = "worker"
  BY <1>0, <1>1, TaskOf
<1>3. Step(u) /\ pc'[u] \in {"returned", "failing"}
  BY <1>1, <1>2 DEF AnswerUpload, Answer, Raise, End, Step, IngestStep, Goto, CompositeInv, IInv, TypeOK
<1>4. /\ Up!EndTask(w) \/ Up!Goto(w, "failing")
      /\ UNCHANGED <<path, request, queues>>
      /\ worker'[w] = Up!NoTask <=> pc'[u] = "returned"
  BY <1>1 DEF AnswerUpload, Pipeline!LastProgress, Pipeline!EndTask, Pipeline!Goto, Pipeline!NoTask,
              Up!EndTask, Up!Goto, Up!NoTask
<1>5. Up!Goto(w, "failing") => Up!Moves(w, "failing") /\ worker'[w] # Up!NoTask
  BY <1>0, UploadAssumption, Up!WorkerMoves DEF CompositeInv, Up!PipelineInv, Up!Moves, Up!Place
<1>6. \/ Up!EndTask(w)
      \/ Up!Moves(w, "failing") /\ pc'[u] \in CallPlaces["failing"]
  BY <1>3, <1>4, <1>5 DEF CallPlaces
<1>7. Pipeline!Next
  BY DEF AnswerUpload, Pipeline!Next, Pipeline!WorkerStep
<1> QED
  BY <1>0, <1>1, <1>3, <1>4, <1>6, <1>7, CallGood DEF GoodStep

\* The except clause of the first task.
LEMMA FailProfilingWrites ==
    ASSUME CompositeInv, NEW w \in Worker, FailProfiling(w)
    PROVE  UNCHANGED vars \/ SetStatus(worker[w].upload, "failed")
<1>1. worker[w] # Up!NoTask
  BY DEF FailProfiling, Runs, Pipeline!NoTask, Up!NoTask
<1>2. PICK u \in Op : u = worker[w].upload
  BY <1>1, TaskOf
<1>3. SetStatus(u, jobs[u].status) \/ SetStatus(u, "failed")
  BY <1>2 DEF FailProfiling
<1> QED
  BY <1>2, <1>3, SameStatus DEF CompositeInv

\* The except clause of the second task.
LEMMA FailIngestGood == ASSUME CompositeInv, NEW w \in Worker, FailIngest(w) PROVE GoodStep
<1>0. worker[w] # Up!NoTask /\ worker[w].run = "process_profiled" /\ worker[w].place = "failing"
  BY DEF FailIngest, Pipeline!At, Up!NoTask
<1>1. Pipeline!FailTask(w) \/ Pipeline!FailTaskFails(w)
  BY DEF FailIngest
<1>2. CASE MarkJobFailed(worker[w].upload)
  <2>1. Up!EndTask(w) /\ UNCHANGED <<path, request, queues>>
    BY <1>1 DEF FailIngest, Pipeline!FailTask, Pipeline!FailTaskFails, Pipeline!EndTask,
                Pipeline!NoTask, Up!EndTask, Up!NoTask
  <2>2. Pipeline!Next
    BY <1>1 DEF Pipeline!Next, Pipeline!WorkerStep
  <2> QED
    BY <1>0, <1>2, <2>1, <2>2, CallGood DEF GoodStep, Step, IngestStep
<1>3. CASE UNCHANGED vars \/ SetStatus(worker[w].upload, "failed")
  BY <1>1, <1>3, TaskGood DEF FailIngest
<1> QED
  BY <1>2, <1>3 DEF FailIngest

\* A timeout and a death meet the task and its call.
LEMMA InterruptGood ==
    ASSUME CompositeInv, NEW w \in Worker, InterruptTask(w) \/ KillTask(w)
    PROVE  GoodStep
<1>0. /\ worker[w] # Up!NoTask /\ UNCHANGED path
      /\ Pipeline!TaskTimeout(w) \/ Pipeline!WorkerCrash(w)
      /\ Pipeline!TaskTimeout(w) => worker[w].place # "failing"
  BY DEF InterruptTask, KillTask, Pipeline!NoTask, Up!NoTask, Pipeline!TaskTimeout
<1>1. PICK u : u = worker[w].upload
  OBVIOUS
<1>2. u \in Op
  BY <1>0, <1>1, TaskOf
<1>3. CASE InterruptTask(w) /\ Timeout(u) /\ worker[w].run = "process_profiled"
  <2>1. pc'[u] \in {"failing", "raised"}
    BY <1>2, <1>3 DEF Timeout, RaiseFromFlush, End, Goto, CompositeInv, IInv, TypeOK
  <2>2. Up!Moves(w, "failing") /\ UNCHANGED <<request, queues>> /\ worker[w].place # "failing"
    BY <1>0, <1>3 DEF InterruptTask, Pipeline!TaskTimeout, Pipeline!Goto, Up!Goto, Up!Moves
  <2>3. Pipeline!Next
    BY <1>3 DEF InterruptTask, Pipeline!Next
  <2>4. pc'[u] \in CallPlaces["failing"]
    BY <2>1 DEF CallPlaces
  <2> QED
    BY <1>0, <1>1, <1>3, <2>2, <2>3, <2>4, CallGood DEF GoodStep
<1>4. CASE KillTask(w) /\ Crash(u) /\ worker[w].run = "process_profiled"
  <2>1. Up!EndTask(w) /\ UNCHANGED <<request, queues>>
    BY <1>4 DEF KillTask, Pipeline!WorkerCrash, Pipeline!EndTask, Pipeline!NoTask, Up!EndTask, Up!NoTask
  <2>2. Pipeline!Next
    BY <1>4 DEF KillTask, Pipeline!Next
  <2> QED
    BY <1>0, <1>1, <1>4, <2>1, <2>2, CallGood DEF GoodStep
<1>5. CASE UNCHANGED vars /\ InterruptTask(w)
           /\ ~(Runs(w, "process_profiled") /\ pc[u] # "queued")
  <2>1. worker[w].run = "process_profiled" => pc[worker[w].upload] = "queued"
    BY <1>0, <1>1, <1>5 DEF Runs, Pipeline!NoTask, Up!NoTask
  <2> QED
    BY <1>0, <1>5, <2>1, TaskGood DEF InterruptTask
<1>6. CASE UNCHANGED vars /\ KillTask(w)
  BY <1>0, <1>6, TaskGood DEF KillTask
<1> QED
  BY <1>1, <1>3, <1>4, <1>5, <1>6 DEF InterruptTask, KillTask, Runs

-----------------------------------------------------------------------------
(* The invariant and the refinement.                                       *)

\* Each step, of each part and of both.
LEMMA EveryStepGood == ASSUME CompositeInv, [PipelineNext]_allVars PROVE GoodStep
<1>1. ASSUME NEW u \in Op,
             \/ CreateUpload(u) \/ UploadStep(u) \/ OtherCall(u) \/ OtherStep(u)
             \/ UNCHANGED <<vars, path>> /\ Pipeline!RequestCrash(u)
      PROVE  GoodStep
  BY <1>1, CreateUploadGood, RequestGood, SendGood, OtherGood DEF UploadStep
<1>2. ASSUME NEW w \in Worker, ProfilingStep(w) PROVE GoodStep
  <2>1. CASE StartProfiling(w) \/ FailProfiling(w)
    <3>1. StartProfiling(w) => worker[w].run = "process_uploaded" /\ worker[w].place # "failing"
      BY DEF StartProfiling, Runs, Pipeline!StartTask
    <3>2. FailProfiling(w) => UNCHANGED vars \/ SetStatus(worker[w].upload, "failed")
      BY FailProfilingWrites
    <3> QED
      BY <2>1, <3>1, <3>2, TaskGood DEF StartProfiling, FailProfiling
  <2>2. CASE UNCHANGED <<vars, path>>
             /\ (Pipeline!Route(w) \/ (Runs(w, "process_uploaded") /\ Pipeline!FailTaskFails(w)))
    BY <2>2, TaskGood
  <2> QED
    BY <1>2, <2>1, <2>2, DequeueGood, HandoverGood DEF ProfilingStep
<1>3. ASSUME NEW w \in Worker, IngestTaskStep(w) \/ InterruptTask(w) \/ KillTask(w) PROVE GoodStep
  BY <1>3, StartIngestGood, ExtractUploadGood, IngestUploadGood, AnswerUploadGood, FailIngestGood,
     InterruptGood DEF IngestTaskStep
<1>4. CASE UNCHANGED allVars
  <2>1. UNCHANGED <<vars, path, queues, worker, request, pc, call, lost, stored, format>>
    BY <1>4 DEF allVars, pipelineVars, vars
  <2>2. CallsOK' /\ TasksOK'
    BY <2>1, TasksKept DEF CompositeInv, CallsOK, TasksOK, CallPlaces, Up!Sent
  <2>3. UNCHANGED UploadJobs
    BY <1>4 DEF allVars, pipelineVars, vars, UploadJobs, UploadJob
  <2> QED
    BY <2>1, <2>2, <2>3, StutterPreserves DEF GoodStep, CompositeInv, Pipeline!vars
<1> QED
  BY <1>1, <1>2, <1>3, <1>4 DEF PipelineNext, PipelineQuiet

LEMMA CompositeInit == PipelineInit => CompositeInv
<1> SUFFICES ASSUME PipelineInit PROVE CompositeInv
  OBVIOUS
<1>1. IInv
  BY InitHolds DEF PipelineInit
<1>2. Up!PipelineInv
  BY SameInit, UploadAssumption, Up!InitHolds DEF PipelineInit
<1>3. \A u \in Op : call[u].kind = "none" /\ request[u] = "none"
  BY DEF PipelineInit, Init, NoCall, Pipeline!Init
<1>4. /\ \A run, u : ~Up!Enqueued(run, u)
      /\ \A w \in Worker : \A run, u : ~Up!TakenBy(w, run, u)
  BY DEF PipelineInit, Pipeline!Init, Pipeline!NoTask, Pipeline!Queue, Up!Queue, Up!Enqueued,
         Up!Holds, Up!TakenBy, Up!NoTask
<1>5. CallsOK /\ TasksOK
  BY <1>3, <1>4 DEF CallsOK, TasksOK, Up!NotHandedOver
<1> QED
  BY <1>1, <1>2, <1>5 DEF CompositeInv, PipelineInit

LEMMA CompositeStep == ASSUME CompositeInv, [PipelineNext]_allVars PROVE CompositeInv'
  BY EveryStepGood, UploadPreserves DEF CompositeInv, GoodStep

\* In every reachable state both invariants hold and the parts agree.
THEOREM CompositeInvariant == PipelineSpec => []CompositeInv
<1>1. PipelineInit => CompositeInv
  BY CompositeInit
<1>2. CompositeInv /\ [PipelineNext]_allVars => CompositeInv'
  BY CompositeStep
<1> QED
  BY <1>1, <1>2, PTL DEF PipelineSpec

-----------------------------------------------------------------------------
(* The properties of the composition.                                      *)

\* Every variable of both parts has its type, and only uploads have a path.
THEOREM CompositeTypes == PipelineSpec => []PipelineTypeOK
<1>1. Up!TypeOK => Pipeline!TypeOK
  BY DEF Up!TypeOK, Pipeline!TypeOK, Up!Task, Pipeline!Task, Up!Running, Pipeline!Running,
         Up!Status, Pipeline!Status,
         Up!NoTask, Pipeline!NoTask, Up!Queue, Pipeline!Queue, Up!AllFormats, Pipeline!AllFormats
<1>2. CompositeInv => PipelineTypeOK
  BY <1>1 DEF CompositeInv, IInv, Up!PipelineInv, PipelineTypeOK
<1> QED
  BY <1>2, CompositeInvariant, PTL

\* The loss of vectors is not silent although the route and the first task
\* write the status of a job beside its ingest: what they write is "running"
\* before the ingest has begun and "failed", never "completed".
THEOREM NoSilentLossInPipeline == PipelineSpec => []MissingVectorsAreAccountedFor
<1>1. CompositeInv => MissingVectorsAreAccountedFor
  BY DEF CompositeInv, IInv, AccountedBeforeComplete, MissingVectorsAreAccountedFor
<1> QED
  BY <1>1, CompositeInvariant, PTL

\* Nor do those writers hide a truncated document: the failed job of its worker
\* stays failed.
THEOREM TruncationIsRecordedInPipeline == PipelineSpec => []TruncatedOnlyUnderFailedJob
<1>1. CompositeInv => TruncatedOnlyUnderFailedJob
  BY DEF CompositeInv, IInv
<1> QED
  BY <1>1, CompositeInvariant, PTL

\* The ingest of an upload, with its sessions, flushes and exceptions, is to the
\* job, the queues and the workers two steps of UploadPipeline, its commit and
\* its end.  The commit writes "running" over a failure that its session has read.
THEOREM UploadRefinement == PipelineSpec => ImplementsUploadPipeline
<1>1. PipelineInit => Pipeline!Init
  BY DEF PipelineInit
<1>2. CompositeInv /\ [PipelineNext]_allVars => [Pipeline!Next]_(Pipeline!vars)
  BY EveryStepGood DEF GoodStep
<1> QED
  BY <1>1, <1>2, CompositeInvariant, PTL DEF PipelineSpec, ImplementsUploadPipeline, Pipeline!Spec

-----------------------------------------------------------------------------
(* The composition implements the document store.                          *)

\* A status that is written beside the ingest, and with it the job stays open.
StatusWritten(u) == SetStatus(u, "failed") \/ (SetStatus(u, "running") /\ pc[u] = "queued")

\* What a step of the composition is to the stores.
LEMMA StorageMoves ==
    ASSUME CompositeInv, [PipelineNext]_allVars
    PROVE  [Next]_vars \/ \E u \in Op : StatusWritten(u)
<1>1. ASSUME NEW u \in Op,
             \/ CreateUpload(u) \/ UploadStep(u) \/ OtherCall(u) \/ OtherStep(u)
             \/ UNCHANGED <<vars, path>> /\ Pipeline!RequestCrash(u)
      PROVE  [Next]_vars \/ StatusWritten(u)
  BY <1>1 DEF CreateUpload, UploadStep, StoreUploadPath, RefuseUpload, OtherCall, OtherStep, Next,
              Arrive, StatusWritten
<1>2. ASSUME NEW w \in Worker,
             ProfilingStep(w) \/ IngestTaskStep(w) \/ InterruptTask(w) \/ KillTask(w)
      PROVE  [Next]_vars \/ \E u \in Op : StatusWritten(u)
  <2>1. worker[w] # Up!NoTask \/ UNCHANGED vars
    BY <1>2 DEF ProfilingStep, StartProfiling, FailProfiling, IngestTaskStep, StartIngest,
                ExtractUpload, IngestUpload, AnswerUpload, FailIngest, InterruptTask, KillTask, Runs,
                Pipeline!At, Pipeline!Extract, Pipeline!NoTask, Up!NoTask
  <2>2. CASE worker[w] # Up!NoTask
    <3>1. PICK u \in Op : u = worker[w].upload
      BY <2>2, TaskOf
    <3>2. StartProfiling(w) => pc[u] = "queued"
      BY <2>2, <3>1, TaskOf DEF StartProfiling, Runs, Pipeline!StartTask
    <3>3. CASE ProfilingStep(w)
      <4>1. FailProfiling(w) => UNCHANGED vars \/ SetStatus(u, "failed")
        BY <3>1, FailProfilingWrites
      <4> QED
        BY <3>1, <3>2, <3>3, <4>1 DEF ProfilingStep, StartProfiling, StatusWritten
    <3>4. CASE IngestTaskStep(w)
      BY <3>1, <3>4 DEF IngestTaskStep, StartIngest, ExtractUpload, IngestUpload, AnswerUpload,
                        FailIngest, StatusWritten, Next, Step, IngestStep
    <3>5. CASE InterruptTask(w) \/ KillTask(w)
      BY <3>1, <3>5 DEF InterruptTask, KillTask, Next
    <3> QED
      BY <1>2, <3>3, <3>4, <3>5
  <2> QED
    BY <2>1, <2>2
<1> QED
  BY <1>1, <1>2 DEF PipelineNext, PipelineQuiet, allVars

\* The status of a job is not part of who owns what.
LEMMA StatusKeepsOwnership ==
    ASSUME IInv, OwnershipInv, NEW u \in Op, StatusWritten(u) PROVE OwnershipInv'
<1>1. /\ UNCHANGED <<pc, call, session, points, documents, vectors, collection, deleted>>
      /\ jobs[u] \in Job /\ jobs[u] # NoRow
      /\ \E status \in JobStatus : jobs' = [jobs EXCEPT ![u].status = status]
  BY DEF StatusWritten, SetStatus, IInv, TypeOK, JobStatus
<1>2. \A o \in Op : /\ jobs'[o] # NoRow => jobs[o] # NoRow
                    /\ jobs'[o].document = jobs[o].document
  BY <1>1, NoRowFacts DEF IInv, TypeOK, Job
<1>3. Known' = Known /\ \A o : (Uncommitted(o)' <=> Uncommitted(o)) /\ (Live(o)' <=> Live(o))
  BY <1>1 DEF Known, Uncommitted, Live
<1> QED
  BY <1>1, <1>2, <1>3 DEF OwnershipInv

\* At most it opens the issue of the one document the job is about.
LEMMA StatusStep ==
    ASSUME IInv, IInv', OwnershipInv, NEW u \in Op, StatusWritten(u)
    PROVE  [Store!Next]_MappedLibrary
<1>1. /\ UNCHANGED <<pc, call, documents, vectors, deleted>>
      /\ jobs[u] \in Job /\ jobs[u] # NoRow
      /\ \E status \in {"failed", "running"} : jobs' = [jobs EXCEPT ![u].status = status]
  BY DEF StatusWritten, SetStatus, IInv, TypeOK
<1>2. /\ jobs'[u] # NoRow /\ jobs'[u].status # "completed" /\ jobs'[u].document = jobs[u].document
      /\ \A o \in Op \ {u} : jobs'[o] = jobs[o]
  BY <1>1, NoRowFacts DEF IInv, TypeOK, Job, JobStatus
<1>3. PICK d \in Op : d = IF u \in Known \/ jobs[u].document = NoRow THEN u ELSE jobs[u].document
  BY <1>1 DEF Job
<1>4. \A e \in Op \ {d} : Live(e) => ~Unfinished(u, e)' /\ ~Unfinished(u, e)
  BY <1>1, <1>2, <1>3, NoRowFacts DEF OwnershipInv, Unfinished, Known
<1>5. /\ \A o \in Op \ {u} : \A e \in Op : Unfinished(o, e)' <=> Unfinished(o, e)
      /\ \A o, e \in Op : TornDelete(o, e)' <=> TornDelete(o, e)
  BY <1>1, <1>2 DEF Unfinished, TornDelete
<1>6. \A e \in Op \ {d} : Live(e) => (Issue(e)' <=> Issue(e))
  BY <1>4, <1>5 DEF Issue
<1>7. \A e \in Op \ {d} : MappedLibrary'[e] = MappedLibrary[e]
  BY <1>1, <1>6, SameEntry
<1>8. Issue(d)'
  BY <1>2, <1>3 DEF Issue, Unfinished
<1> QED
  BY <1>1, <1>7, <1>8, EntryChange

\* With the request, the queues and the workers around it, and the status of a
\* job written by three sessions, the service is still a document store: no
\* step changes or brings back a document, drops vectors or closes an issue
\* other than as the store allows.
THEOREM PipelineStoreRefinement == PipelineSpec => ImplementsDocumentStore
<1>1. PipelineInit => Store!Init /\ OwnershipInv
  <2>1. Init => Store!Init
    BY DEF Init, Store!Init, MappedLibrary, Live, Entry, Issue, Unfinished, TornDelete
  <2> QED
    BY <2>1, OwnershipInit DEF PipelineInit
<1>2. CompositeInv /\ CompositeInv' /\ OwnershipInv /\ [PipelineNext]_allVars
      => [Store!Next]_MappedLibrary /\ OwnershipInv'
  BY StorageMoves, StatusKeepsOwnership, StatusStep, StepRefines, OwnershipPreserved DEF CompositeInv
<1> QED
  BY <1>1, <1>2, CompositeInvariant, PTL DEF PipelineSpec, ImplementsDocumentStore, Store!Spec

-----------------------------------------------------------------------------
(* What is proved of the parts holds of the composition.                   *)

\* An upload is extracted and ingested by one task at most, a task that is
\* queued or running finds the path in the job and the file on disk, and a
\* completed job is not run again, with the ingest in all its steps and the job
\* row written by three sessions.
THEOREM UploadsOfThePipeline ==
    PipelineSpec => /\ [](Up!OneIngestTaskPerUpload /\ Up!TasksFindTheirFile)
                    /\ Up!CompletedJobsStaySettled
<1>1. Pipeline!Init => Up!Init
  BY SameInit
<1>2. [Pipeline!Next]_(Pipeline!vars) => [Up!Next]_(Up!vars)
  BY SameNext
<1>3. PipelineSpec => Up!Spec
  BY <1>1, <1>2, UploadRefinement, PTL DEF ImplementsUploadPipeline, Pipeline!Spec, Up!Spec
<1>4. /\ Up!Spec => []Up!OneIngestTaskPerUpload
      /\ Up!Spec => []Up!TasksFindTheirFile
      /\ Up!Spec => Up!CompletedJobsStaySettled
  BY UploadAssumption, Up!OneIngestTask, Up!FilesAreThere, Up!CompletedStays
<1> QED
  BY <1>3, <1>4, PTL

\* The other invariants of RagStorage hold beside the three writers of the job
\* row: one document per payload, jobs that refer to their own context, rows
\* only in a collection that exists, synchronous ingests that leave no gap.
THEOREM StorageOfThePipeline ==
    PipelineSpec => [](OneDocumentPerPayload /\ JobsReferToTheirContext
                       /\ RowsImplyCollection /\ SyncIngestIsAllOrNothing)
<1>1. CompositeInv => OneDocumentPerPayload /\ JobsReferToTheirContext
                      /\ RowsImplyCollection /\ SyncIngestIsAllOrNothing
  BY DEF CompositeInv, IInv
<1> QED
  BY <1>1, CompositeInvariant, PTL

\* From the request to the index, and whatever fails on the way: a document
\* without an open issue is complete and findable, a context has a payload
\* once, and what is removed stays removed.
THEOREM PipelineKeepsItsPromises ==
    PipelineSpec => []StorePromises /\ [][StoreIsStable]_MappedLibrary
  BY PipelineStoreRefinement, StoreKeepsItsPromises, PTL DEF ImplementsDocumentStore
=============================================================================
