----------------------------- MODULE RagStorage -----------------------------
(***************************************************************************)
(* RagStorageService over Postgres and Qdrant                              *)
(* (app/services/storage.py, app/workers/pdf_jobs.py,                      *)
(* app/adapters/qdrant_store.py).                                          *)
(*                                                                         *)
(* Every call of the service is an operation op that runs in a process and *)
(* a SQLAlchemy session of its own, concurrently with the others.  A call  *)
(* creates at most one document row and one job row, so both are named     *)
(* after the call: documents[op] and jobs[op] are the rows that op added.  *)
(* A step is one visible effect: a Postgres transaction, one flush that    *)
(* takes the unique key, one Qdrant request, or one read that is used      *)
(* later.  What a session has flushed and not committed is in session[op]. *)
(***************************************************************************)
EXTENDS Naturals, FiniteSets

CONSTANTS
    Op,              \* the calls made during a behaviour (bounds their number)
    Context,         \* the (tenant_id, scope) pairs
    DefaultContext,  \* the pair a DocumentCreate has when none is given
    Content,         \* payloads up to their checksum (title, source, text, metadata)
    NChunks,         \* the number of chunks a payload is split into
    Kinds,           \* which of the four kinds of call happen
    Faults,          \* which faults the environment injects
    NoRow            \* no row, no link, no value

AllKinds == {"ingest", "worker", "reindex", "delete"}
AllFaults == {"crash", "timeout", "embedding", "vectors"}

ASSUME ContextAssumption == DefaultContext \in Context
ASSUME NChunksAssumption == NChunks \in Nat \ {0}
ASSUME KindsAssumption == Kinds \subseteq AllKinds /\ Faults \subseteq AllFaults
ASSUME NoRowAssumption == NoRow \notin Nat \union Op \union Content
                          /\ NoRow \notin [ctx: Context, content: Content, rows: 0..NChunks]
                          /\ NoRow \notin [status: {"pending", "running", "completed", "failed"},
                                           ctx: Context, document: Op \union {NoRow}]

VARIABLES
    pc,          \* where each call is
    call,        \* its arguments, and the document it reads or changes
    session,     \* rows flushed and the link assigned, not yet committed
    points,      \* the number of Qdrant points the call holds in memory
    documents,   \* Postgres: documents with their document_chunks rows
    jobs,        \* Postgres: ingestion_jobs
    vectors,     \* Qdrant: the number of points stored for a document
    collection,  \* Qdrant: the collection exists
    deleted      \* history: the documents whose row was deleted

vars == <<pc, call, session, points, documents, jobs, vectors, collection, deleted>>

-----------------------------------------------------------------------------
JobStatus == {"pending", "running", "completed", "failed"}
Document == [ctx: Context, content: Content, rows: 0..NChunks]
Job == [status: JobStatus, ctx: Context, document: Op \union {NoRow}]
Call == [kind: AllKinds \union {"none"}, ctx: Context,
         content: Content \union {NoRow}, document: Op \union {NoRow}]
Session == [rows: 0..NChunks \union {NoRow}, link: Op \union {NoRow}]

EmptySession == [rows |-> NoRow, link |-> NoRow]
NoCall == [kind |-> "none", ctx |-> DefaultContext, content |-> NoRow, document |-> NoRow]

\* The places inside the try block of process_profiled_document.
WorkerTry == {"extract", "lookup", "dedupe", "insert", "embed", "ensure", "create",
              "rows", "refresh", "upsert", "complete", "answer"}
Active == WorkerTry \union {"queued", "failing", "rjob", "rload", "rdelete", "ddelete", "dcommit"}
Settled == {"returned", "raised", "crashed"}

Live(d) == documents[d] # NoRow

\* Mutant: the payload's tenant and scope are used even when there is a job.
PayloadContext(op) == call[op].ctx

\* The tenant and scope an ingest works in: the job's when it was given one.
IngestContext(op) == IF jobs[op] # NoRow THEN jobs[op].ctx ELSE call[op].ctx

\* The rows the unique key (tenant_id, scope, checksum) matches.
Existing(ctx, content) ==
    {d \in Op : Live(d) /\ documents[d].ctx = ctx /\ documents[d].content = content}

\* Mutant: the table has no unique constraint.
NoUniqueKey(op) == TRUE

\* No committed row has op's (tenant_id, scope, checksum).
UniqueKeyFree(op) == Existing(IngestContext(op), call[op].content) = {}

\* Another open transaction has flushed a row with op's key: an INSERT of
\* the same key waits for that transaction to end.
KeyHeld(op) ==
    \E o \in Op \ {op} : /\ session[o].rows # NoRow
                         /\ IngestContext(o) = IngestContext(op)
                         /\ call[o].content = call[op].content

\* The document the call works on: the one it was called for, the existing one
\* an ingest has found, or the one it adds.
Target(op) == IF call[op].document = NoRow THEN op ELSE call[op].document

\* A document id a client can know.
Known == {d \in Op : Live(d)} \union deleted

\* The document exists in the context the caller named.
Found(d, ctx) == Live(d) /\ documents[d].ctx = ctx

Init ==
    /\ pc = [op \in Op |-> "idle"]
    /\ call = [op \in Op |-> NoCall]
    /\ session = [op \in Op |-> EmptySession]
    /\ points = [op \in Op |-> 0]
    /\ documents = [op \in Op |-> NoRow]
    /\ jobs = [op \in Op |-> NoRow]
    /\ vectors = [op \in Op |-> 0]
    /\ collection = FALSE
    /\ deleted = {}

-----------------------------------------------------------------------------
(* Control: a call moves on, ends, or leaves through an exception.         *)

Goto(op, place) == pc' = [pc EXCEPT ![op] = place]

\* Mutant: the session of a call that ended keeps its transaction open.
EndWithoutRollback(op, place) ==
    /\ Goto(op, place)
    /\ points' = [points EXCEPT ![op] = 0]
    /\ UNCHANGED session

\* The call ends and its session is closed, which rolls back what it flushed.
End(op, place) ==
    /\ Goto(op, place)
    /\ session' = [session EXCEPT ![op] = EmptySession]
    /\ points' = [points EXCEPT ![op] = 0]

\* An exception where the session is still usable.  The worker's except
\* clause and the try block of reindex_document go on to mark_job_failed in
\* the same session; a synchronous ingest just propagates it.
Raise(op) ==
    IF call[op].kind \in {"worker", "reindex"}
    THEN Goto(op, "failing") /\ UNCHANGED <<session, points>>
    ELSE End(op, "raised")

\* An exception from inside a flush.  The session refuses every further use
\* until it is rolled back, so the worker's mark_job_failed raises too.
RaiseFromFlush(op) == End(op, "raised")

-----------------------------------------------------------------------------
(* Ingest: _ingest_payload, called by the HTTP and MCP routes ("ingest")   *)
(* and by process_profiled_document with a job ("worker").                 *)

CallIngest(op) ==
    /\ "ingest" \in Kinds
    /\ pc[op] = "idle"
    /\ \E ctx \in Context, content \in Content :
          call' = [call EXCEPT ![op] = [kind |-> "ingest", ctx |-> ctx,
                                        content |-> content, document |-> NoRow]]
    /\ Goto(op, "lookup")
    /\ UNCHANGED <<session, points, documents, jobs, vectors, collection, deleted>>

\* The upload route: create_job in the caller's context.  The payload the
\* worker builds later carries the default tenant and scope.
CreateJob(op) ==
    /\ "worker" \in Kinds
    /\ pc[op] = "idle"
    /\ \E ctx \in Context, content \in Content :
          /\ jobs' = [jobs EXCEPT ![op] = [status |-> "pending", ctx |-> ctx, document |-> NoRow]]
          /\ call' = [call EXCEPT ![op] = [kind |-> "worker", ctx |-> DefaultContext,
                                           content |-> content, document |-> NoRow]]
    /\ Goto(op, "queued")
    /\ UNCHANGED <<session, points, documents, vectors, collection, deleted>>

MarkJobRunning(op) ==
    /\ pc[op] = "queued"
    /\ jobs' = [jobs EXCEPT ![op].status = "running"]
    /\ Goto(op, "extract")
    /\ UNCHANGED <<call, session, points, documents, vectors, collection, deleted>>

\* Reading or parsing the stored file, with success or not.
Extract(op) ==
    /\ pc[op] = "extract"
    /\ \/ Goto(op, "lookup") /\ UNCHANGED <<session, points>>
       \/ Raise(op)
    /\ UNCHANGED <<call, documents, jobs, vectors, collection, deleted>>

LookupExisting(op) ==
    /\ pc[op] = "lookup"
    /\ LET existing == Existing(IngestContext(op), call[op].content)
       IN \/ existing = {} /\ Goto(op, "insert") /\ UNCHANGED call
          \/ \E d \in existing : /\ call' = [call EXCEPT ![op].document = d]
                                 /\ Goto(op, "dedupe")
    /\ UNCHANGED <<session, points, documents, jobs, vectors, collection, deleted>>

\* The existing document is returned and the job is completed against it;
\* the foreign key refuses a document deleted since it was read.
Dedupe(op) ==
    /\ pc[op] = "dedupe"
    /\ LET d == call[op].document
           ctx == IF jobs[op] = NoRow THEN documents[d].ctx ELSE jobs[op].ctx
       IN IF Live(d)
          THEN /\ jobs' = [jobs EXCEPT ![op] = [status |-> "completed", ctx |-> ctx,
                                                document |-> d]]
               /\ Goto(op, "answer")
               /\ UNCHANGED <<session, points>>
          ELSE RaiseFromFlush(op) /\ UNCHANGED jobs
    /\ UNCHANGED <<call, documents, vectors, collection, deleted>>

\* add(document) and flush: the unique key is taken, or is already taken.
Insert(op) ==
    /\ pc[op] = "insert"
    /\ ~KeyHeld(op)
    /\ IF UniqueKeyFree(op)
       THEN /\ session' = [session EXCEPT ![op].rows = 0]
            /\ Goto(op, "embed")
            /\ UNCHANGED points
       ELSE RaiseFromFlush(op)
    /\ UNCHANGED <<call, documents, jobs, vectors, collection, deleted>>

\* job.document_id is assigned, the text is chunked and embedded.
Embed(op) ==
    /\ pc[op] = "embed"
    /\ session' = [session EXCEPT ![op].link = op]
    /\ Goto(op, "ensure")
    /\ UNCHANGED <<call, points, documents, jobs, vectors, collection, deleted>>

\* A text with no chunks, or an embedder that fails.
EmbedFails(op) ==
    /\ "embedding" \in Faults
    /\ pc[op] = "embed"
    /\ IF call[op].kind = "worker"
       THEN /\ session' = [session EXCEPT ![op].link = op]
            /\ Goto(op, "failing")
            /\ UNCHANGED points
       ELSE End(op, "raised")
    /\ UNCHANGED <<call, documents, jobs, vectors, collection, deleted>>

AfterEnsure(op) == IF call[op].kind = "reindex" THEN "rdelete" ELSE "rows"

\* Mutant: the check is skipped, as if an earlier answer were cached.
EnsureSkipped(op) ==
    /\ pc[op] = "ensure"
    /\ Goto(op, AfterEnsure(op))
    /\ UNCHANGED <<call, session, points, documents, jobs, vectors, collection, deleted>>

\* ensure_collection: the check, and then the creation, which fails when
\* another call has created the collection in between.  A creation that raises
\* for another reason may have been applied all the same.
EnsureCollection(op) ==
    /\ pc[op] = "ensure"
    /\ \/ Goto(op, IF collection THEN AfterEnsure(op) ELSE "create") /\ UNCHANGED <<session, points>>
       \/ "vectors" \in Faults /\ Raise(op)
    /\ UNCHANGED <<call, documents, jobs, vectors, collection, deleted>>

CreateCollection(op) ==
    /\ pc[op] = "create"
    /\ \/ /\ ~collection
          /\ collection' = TRUE
          /\ Goto(op, AfterEnsure(op)) /\ UNCHANGED <<session, points>>
       \/ /\ collection \/ "vectors" \in Faults
          /\ collection' = TRUE \/ UNCHANGED collection
          /\ Raise(op)
    /\ UNCHANGED <<call, documents, jobs, vectors, deleted>>

\* Mutant: the loop over the chunks runs once too often.
WriteRowTooMany(op) ==
    /\ pc[op] = "rows"
    /\ session[op].rows <= NChunks
    /\ session' = [session EXCEPT ![op].rows = @ + 1]
    /\ points' = [points EXCEPT ![op] = @ + 1]
    /\ UNCHANGED <<pc, call, documents, jobs, vectors, collection, deleted>>

\* Mutant: each point is sent to Qdrant as soon as its row is flushed.
WriteRowAndPoint(op) ==
    /\ pc[op] = "rows"
    /\ session[op].rows < NChunks
    /\ session' = [session EXCEPT ![op].rows = @ + 1]
    /\ points' = [points EXCEPT ![op] = @ + 1]
    /\ vectors' = [vectors EXCEPT ![op] = @ + 1]
    /\ UNCHANGED <<pc, call, documents, jobs, collection, deleted>>

\* One chunk row is added and flushed, its point is built.
WriteRow(op) ==
    /\ pc[op] = "rows"
    /\ session[op].rows < NChunks
    /\ session' = [session EXCEPT ![op].rows = @ + 1]
    /\ points' = [points EXCEPT ![op] = @ + 1]
    /\ UNCHANGED <<pc, call, documents, jobs, vectors, collection, deleted>>

\* Mutant: the commit is inside the loop over the chunks.
SomeRowsWritten(op) == session[op].rows > 0

AllRowsWritten(op) == session[op].rows = NChunks

\* The document row that op's session has flushed.
FlushedDocument(op) == [ctx |-> IngestContext(op), content |-> call[op].content,
                        rows |-> session[op].rows]

\* Mutant: the job is already completed in the commit that stores the rows.
CommittedJobsCompleted(op) ==
    {[status |-> "completed", ctx |-> call[op].ctx, document |-> session[op].link]}

\* The job rows the commit may leave: the one the ingest itself added, or the
\* given job.  The ingest assigns "running" to that one.  A session that has
\* read "running" does not write it, over whatever status another session has
\* written since; one that has read such a status does.
CommittedJobs(op) ==
    IF jobs[op] = NoRow
    THEN {[status |-> "running", ctx |-> call[op].ctx, document |-> session[op].link]}
    ELSE {[jobs[op] EXCEPT !.status = status, !.document = session[op].link] :
             status \in {jobs[op].status, "running"}}

\* Mutant: the rows are added again by the next commit of the session.
CommitDocumentKeepsRows(op) ==
    /\ pc[op] = "rows"
    /\ AllRowsWritten(op)
    /\ documents' = [documents EXCEPT ![op] = FlushedDocument(op)]
    /\ \E job \in CommittedJobs(op) : jobs' = [jobs EXCEPT ![op] = job]
    /\ Goto(op, "refresh")
    /\ UNCHANGED <<call, session, points, vectors, collection, deleted>>

\* Document, chunk rows and a running job become visible together.
CommitDocument(op) ==
    /\ pc[op] = "rows"
    /\ AllRowsWritten(op)
    /\ documents' = [documents EXCEPT ![op] = FlushedDocument(op)]
    /\ \E job \in CommittedJobs(op) : jobs' = [jobs EXCEPT ![op] = job]
    /\ session' = [session EXCEPT ![op] = EmptySession]
    /\ Goto(op, "refresh")
    /\ UNCHANGED <<call, points, vectors, collection, deleted>>

\* refresh(document) raises when the row has been deleted since the commit.
Refresh(op) ==
    /\ pc[op] = "refresh"
    /\ IF Live(op) THEN Goto(op, "upsert") /\ UNCHANGED <<session, points>> ELSE Raise(op)
    /\ UNCHANGED <<call, documents, jobs, vectors, collection, deleted>>

\* upsert_chunks, of an ingest and of a reindex.
Upsert(op) ==
    /\ pc[op] = "upsert"
    /\ vectors' = [vectors EXCEPT ![Target(op)] = points[op]]
    /\ Goto(op, "complete")
    /\ UNCHANGED <<call, session, points, documents, jobs, collection, deleted>>

\* Mutant: the upsert is outside the try block that marks the job failed.
UpsertFailsUnhandled(op) ==
    /\ "vectors" \in Faults
    /\ pc[op] = "upsert"
    /\ End(op, "raised")
    /\ UNCHANGED <<call, documents, jobs, vectors, collection, deleted>>

\* Mutant: an upsert that fails is logged and the job goes on.
UpsertFailureIgnored(op) ==
    /\ "vectors" \in Faults
    /\ pc[op] = "upsert"
    /\ Goto(op, "complete")
    /\ UNCHANGED <<call, session, points, documents, jobs, vectors, collection, deleted>>

\* The request raises; Qdrant may have applied it all the same.
UpsertFails(op) ==
    /\ "vectors" \in Faults
    /\ pc[op] = "upsert"
    /\ \/ vectors' = [vectors EXCEPT ![Target(op)] = points[op]]
       \/ UNCHANGED vectors
    /\ Goto(op, "failing")
    /\ UNCHANGED <<call, session, points, documents, jobs, collection, deleted>>

Complete(op) ==
    /\ pc[op] = "complete"
    /\ jobs' = [jobs EXCEPT ![op].status = "completed"]
    /\ Goto(op, "answer")
    /\ UNCHANGED <<call, session, points, documents, vectors, collection, deleted>>

\* The worker's last update_job_progress, and the answer.  The commit that
\* completed the job has expired the document: it is read again, which raises
\* when it has been deleted, in the worker inside the try block.
Answer(op) ==
    /\ pc[op] = "answer"
    /\ IF Live(Target(op)) THEN End(op, "returned")
       ELSE IF call[op].kind = "worker" THEN Raise(op) ELSE End(op, "raised")
    /\ UNCHANGED <<call, documents, jobs, vectors, collection, deleted>>

\* mark_job_failed in the session of the failed call: its commit also
\* commits the document and the chunk rows that session had flushed.
MarkJobFailed(op) ==
    /\ pc[op] = "failing"
    /\ LET link == session[op].link
           committed == session[op].rows # NoRow
       IN IF link \in {NoRow, op} \/ Live(link)
          THEN /\ jobs' = [jobs EXCEPT ![op].status = "failed",
                                       ![op].document = IF link = NoRow THEN @ ELSE link]
               /\ documents' = IF committed
                               THEN [documents EXCEPT ![op] = FlushedDocument(op)]
                               ELSE documents
          ELSE UNCHANGED <<jobs, documents>>
    /\ End(op, "raised")
    /\ UNCHANGED <<call, vectors, collection, deleted>>

-----------------------------------------------------------------------------
(* Reindex: reindex_document.                                              *)

CallReindex(op) ==
    /\ "reindex" \in Kinds
    /\ pc[op] = "idle"
    /\ \E d \in Known, ctx \in Context :
          /\ call' = [call EXCEPT ![op] = [kind |-> "reindex", ctx |-> ctx,
                                           content |-> NoRow, document |-> d]]
          /\ Goto(op, IF Found(d, ctx) THEN "rjob" ELSE "raised")
    /\ UNCHANGED <<session, points, documents, jobs, vectors, collection, deleted>>

\* _create_job commits a running job; the foreign key refuses a deleted document.
ReindexCreateJob(op) ==
    /\ pc[op] = "rjob"
    /\ LET d == call[op].document
       IN IF Live(d)
          THEN /\ jobs' = [jobs EXCEPT ![op] = [status |-> "running", ctx |-> documents[d].ctx,
                                                document |-> d]]
               /\ Goto(op, "rload")
               /\ UNCHANGED <<session, points>>
          ELSE RaiseFromFlush(op) /\ UNCHANGED jobs
    /\ UNCHANGED <<call, documents, vectors, collection, deleted>>

\* The chunk rows are loaded and embedded, outside the try block: a deleted
\* document, no rows, or an embedder that fails raises with the job running.
ReindexLoad(op) ==
    /\ pc[op] = "rload"
    /\ LET d == call[op].document
       IN \/ /\ Live(d) /\ documents[d].rows > 0
             /\ points' = [points EXCEPT ![op] = documents[d].rows]
             /\ Goto(op, "ensure")
             /\ UNCHANGED session
          \/ /\ \/ ~Live(d)
                \/ Live(d) /\ documents[d].rows = 0
                \/ "embedding" \in Faults
             /\ End(op, "raised")
    /\ UNCHANGED <<call, documents, jobs, vectors, collection, deleted>>

ReindexDelete(op) ==
    /\ pc[op] = "rdelete"
    /\ \/ /\ vectors' = [vectors EXCEPT ![call[op].document] = 0]
          /\ Goto(op, "upsert")
       \/ /\ "vectors" \in Faults
          /\ \/ vectors' = [vectors EXCEPT ![call[op].document] = 0]
             \/ UNCHANGED vectors
          /\ Goto(op, "failing")
    /\ UNCHANGED <<call, session, points, documents, jobs, collection, deleted>>

-----------------------------------------------------------------------------
(* Delete: delete_document.                                                *)

CallDelete(op) ==
    /\ "delete" \in Kinds
    /\ pc[op] = "idle"
    /\ \E d \in Known, ctx \in Context :
          /\ call' = [call EXCEPT ![op] = [kind |-> "delete", ctx |-> ctx,
                                           content |-> NoRow, document |-> d]]
          /\ Goto(op, IF Found(d, ctx) THEN "ddelete" ELSE "returned")
    /\ UNCHANGED <<session, points, documents, jobs, vectors, collection, deleted>>

\* Mutant: the row is deleted although the Qdrant request failed.
DeleteFailureIgnored(op) ==
    /\ pc[op] = "ddelete"
    /\ \/ vectors' = [vectors EXCEPT ![call[op].document] = 0]
       \/ UNCHANGED vectors
    /\ Goto(op, "dcommit")
    /\ UNCHANGED <<call, session, points, documents, jobs, collection, deleted>>

\* The Qdrant request; it raises when the collection does not exist.
DeleteVectors(op) ==
    /\ pc[op] = "ddelete"
    /\ \/ /\ collection
          /\ vectors' = [vectors EXCEPT ![call[op].document] = 0]
          /\ Goto(op, "dcommit") /\ UNCHANGED <<session, points>>
       \/ /\ ~collection \/ "vectors" \in Faults
          /\ \/ collection /\ vectors' = [vectors EXCEPT ![call[op].document] = 0]
             \/ UNCHANGED vectors
          /\ End(op, "raised")
    /\ UNCHANGED <<call, documents, jobs, collection, deleted>>

\* The row and its chunks go, and the jobs that referred to it lose their link.
DeleteCommit(op) ==
    /\ pc[op] = "dcommit"
    /\ LET d == call[op].document
       IN /\ documents' = [documents EXCEPT ![d] = NoRow]
          /\ jobs' = [j \in Op |-> IF jobs[j] # NoRow /\ jobs[j].document = d
                                   THEN [jobs[j] EXCEPT !.document = NoRow] ELSE jobs[j]]
          /\ deleted' = deleted \union {d}
    /\ End(op, "returned")
    /\ UNCHANGED <<call, vectors, collection>>

-----------------------------------------------------------------------------
(* The environment.                                                        *)

\* What job.document_id is assigned before the flush or the commit it is part of.
AssignedLink(op) == IF pc[op] = "embed" THEN op ELSE call[op].document

\* RQ's job timeout raises JobTimeoutException in the worker at any point of
\* the try block: between two statements, or inside a flush.  (In the except
\* clause, or where no try block surrounds it, or inside the flush of
\* mark_job_running, it has the effect of Crash.)
Timeout(op) ==
    /\ "timeout" \in Faults
    /\ call[op].kind = "worker"
    /\ pc[op] \in WorkerTry
    /\ \/ Goto(op, "failing") /\ UNCHANGED <<session, points>>
       \/ /\ pc[op] \in {"embed", "dedupe"}    \* after job.document_id was assigned
          /\ session' = [session EXCEPT ![op].link = AssignedLink(op)]
          /\ Goto(op, "failing")
          /\ UNCHANGED points
       \/ /\ pc[op] \in {"extract", "dedupe", "insert", "rows", "complete", "answer"}
          /\ RaiseFromFlush(op)
    /\ UNCHANGED <<call, documents, jobs, vectors, collection, deleted>>

\* The process dies, the database connection is lost, or a queued task is lost.
Crash(op) ==
    /\ "crash" \in Faults
    /\ pc[op] \in Active
    /\ End(op, "crashed")
    /\ UNCHANGED <<call, documents, jobs, vectors, collection, deleted>>

-----------------------------------------------------------------------------
Arrive(op) == CallIngest(op) \/ CreateJob(op) \/ CallReindex(op) \/ CallDelete(op)

IngestStep(op) ==
    \/ MarkJobRunning(op) \/ Extract(op) \/ LookupExisting(op) \/ Dedupe(op) \/ Insert(op)
    \/ Embed(op) \/ EmbedFails(op) \/ EnsureCollection(op) \/ CreateCollection(op)
    \/ WriteRow(op) \/ CommitDocument(op) \/ Refresh(op) \/ Upsert(op) \/ UpsertFails(op)
    \/ Complete(op) \/ Answer(op) \/ MarkJobFailed(op)

ReindexStep(op) == ReindexCreateJob(op) \/ ReindexLoad(op) \/ ReindexDelete(op)

DeleteStep(op) == DeleteVectors(op) \/ DeleteCommit(op)

\* What the process that runs the call does by itself.
Step(op) == IngestStep(op) \/ ReindexStep(op) \/ DeleteStep(op)

\* Every call has ended and no other arrives.
Quiet == /\ \A op \in Op : pc[op] \in Settled \union {"idle"}
         /\ UNCHANGED vars

Next == \/ \E op \in Op : Arrive(op) \/ Step(op) \/ Timeout(op) \/ Crash(op)
        \/ Quiet

Spec == Init /\ [][Next]_vars

\* A call that was accepted keeps running: the operating system schedules its
\* process and every request it makes is answered, with success or failure.
FairSpec == Spec /\ \A op \in Op : WF_vars(Step(op))

-----------------------------------------------------------------------------
(* Properties.                                                             *)

\* Every variable has its type.
TypeOK ==
    /\ pc \in [Op -> {"idle"} \union Active \union Settled]
    /\ call \in [Op -> Call]
    /\ session \in [Op -> Session]
    /\ points \in [Op -> 0..NChunks]
    /\ documents \in [Op -> Document \union {NoRow}]
    /\ jobs \in [Op -> Job \union {NoRow}]
    /\ vectors \in [Op -> 0..NChunks]
    /\ collection \in BOOLEAN
    /\ deleted \subseteq Op

\* However ingests of the same payload interleave, each with its own lookup
\* made before the others committed, a context holds a payload at most once.
OneDocumentPerPayload ==
    \A d, e \in Op :
        Live(d) /\ Live(e) /\ documents[d].ctx = documents[e].ctx
                /\ documents[d].content = documents[e].content => d = e

\* A job that refers to a document refers to one that exists, in the job's
\* own tenant and scope, whatever was deleted or deduplicated meanwhile.
JobsReferToTheirContext ==
    \A j \in Op : jobs[j] # NoRow /\ jobs[j].document # NoRow
        => Live(jobs[j].document) /\ documents[jobs[j].document].ctx = jobs[j].ctx

\* A job that has not completed and is about document d.
Unfinished(j, d) == /\ jobs[j] # NoRow
                    /\ jobs[j].status # "completed"
                    /\ j = d \/ jobs[j].document = d

\* A delete of d has asked Qdrant to remove the points and has not removed the row.
TornDelete(op, d) == /\ call[op].kind = "delete"
                     /\ call[op].document = d
                     /\ pc[op] \in {"dcommit", "raised", "crashed"}

\* Postgres and Qdrant are written in turn, with no transaction over both.  A
\* stored document that search cannot find in full is never silent: a job
\* about it is still running or failed, or a delete of it stopped half-way.
MissingVectorsAreAccountedFor ==
    \A d \in Op : Live(d) /\ vectors[d] < documents[d].rows
        => \E o \in Op : Unfinished(o, d) \/ TornDelete(o, d)

\* A document stored with fewer chunk rows than its text has chunks comes only
\* from a worker whose job is recorded as failed; no synchronous ingest and
\* no later reindex or deduplication hides that.
TruncatedOnlyUnderFailedJob ==
    \A d \in Op : Live(d) /\ documents[d].rows < NChunks
        => call[d].kind = "worker" /\ jobs[d].status = "failed"

\* Delete and search may use the collection whenever a complete document is
\* stored: rows are only written after ensure_collection.
RowsImplyCollection ==
    \A d \in Op : (Live(d) /\ documents[d].rows > 0) \/ vectors[d] > 0 => collection

\* A synchronous ingest that raised left nothing at all, or a whole document
\* whose failed job says so, or the job of a document that another call
\* deleted meanwhile.
SyncIngestIsAllOrNothing ==
    \A op \in Op : call[op].kind = "ingest" /\ pc[op] = "raised" =>
        \/ jobs[op] = NoRow /\ documents[op] = NoRow
        \/ jobs[op] # NoRow /\ (jobs[op].status = "failed" \/ Target(op) \in deleted)

\* No call waits for ever: the only wait is for another transaction's unique
\* key, and every holder commits, rolls back or dies.
EveryCallEnds == \A op \in Op : pc[op] # "idle" ~> pc[op] \in Settled

-----------------------------------------------------------------------------
(* Statements of the documentation and the tests that the code does not    *)
(* keep; each is refuted by a run of its own.                              *)

\* docs/pdf-ingestion.md: process_profiled_document marks the job completed or
\* failed.  No crash and no timeout is needed to leave one running for ever.
JobSettles ==
    \A j \in Op : (jobs[j] # NoRow /\ jobs[j].status = "running")
                  ~> (jobs[j] # NoRow /\ jobs[j].status \in {"completed", "failed"})

AllEnded == \A op \in Op : pc[op] \in Settled

\* docs/http-api.md: DELETE removes a document and its vectors.
DeletedVectorsAreGone == AllEnded => \A d \in deleted : vectors[d] = 0

\* app/services/storage.py itself refuses a document without chunks, at ingest
\* and again at reindex: none should be stored.
StoredDocumentsHaveChunks == \A d \in Op : Live(d) => documents[d].rows > 0

\* docs/http-api.md: a payload that is already stored in the tenant and scope
\* is answered with the existing document; the call does not fail.
DuplicateReturnsExisting ==
    [][\A op \in Op :
          pc[op] = "insert" /\ Existing(IngestContext(op), call[op].content) # {}
          => pc'[op] # "raised"]_vars
=============================================================================
