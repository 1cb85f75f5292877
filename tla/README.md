# Apcone: a TLA+ model

Apcone is a retrieval service: documents are split into chunks, stored in
PostgreSQL, embedded, and indexed in Qdrant.  This directory holds TLA+ modules
of its core, TLC configurations that check them on small instances, and proofs,
checked by TLAPS, that the most important properties hold for every instance.
`PROJECT.json` lists runs, mutants, the lines of the source that every
definition models, the findings, the hazards and the theorems.

## The system

| Part | State | Operations | Talks to |
| --- | --- | --- | --- |
| `RagStorageService` (`app/services/storage.py`) | rows of `documents`, `document_chunks`, `ingestion_jobs`; a SQLAlchemy session per call | create job, mark running / failed, update progress, ingest, reindex, delete, search, list | PostgreSQL, `QdrantChunkStore`, `ChunkingService`, embedder |
| `QdrantChunkStore` (`app/adapters/qdrant_store.py`) | one collection of points | ensure collection, upsert, delete by filter, search | Qdrant |
| `ChunkingService` (`app/services/chunking.py`) | none | chunk a text | - |
| Upload route and RQ workers (`app/routers/documents.py`, `app/tasks/rq_queue.py`, `app/workers/pdf_jobs.py`) | four Redis queues, of which the last gets nothing any more, the upload directory, the job row | upload-document, `process_uploaded_document`, `process_profiled_document` | storage service, Redis, PDF extraction |
| PDF extraction (`app/services/pdf_processing.py`) and scanner (`scanner_service/server.py`) | the scanner's threads and temporary files | profile, choose strategy, extract, OCR | gRPC, ocrmypdf |
| API keys (`app/services/api_keys.py`, `app/dependencies.py`, `app/mcp/server.py`) | rows of `api_keys` | create, rotate, revoke, verify, authorize | PostgreSQL |
| MCP tools (`app/mcp/tools.py`) | none | search, ingest, reindex, delete, health | storage service |
| CLI, SDK, migrations, embedder, configuration | - | one-shot calls, pure functions | - |

What is hard: PostgreSQL and Qdrant are written in turn with no transaction
over both; every call runs concurrently with all others in a process and a
session of its own, and reads rows that another call deletes or commits before
it uses them; one session is used for the work and for recording that the work
failed; a worker can be interrupted by a timeout or die at any statement; Redis
may have taken a task although `enqueue` raised.

## Modules

| Module | What it is |
| --- | --- |
| `RagStorage` | ingest (HTTP, MCP and worker), reindex and delete over PostgreSQL and Qdrant |
| `RagStorageInvariant` | the inductive invariants of `RagStorage` |
| `RagStorageProofs` | their proof, and the theorems |
| `DocumentStore` | what the service promises: an abstract library of documents |
| `RagStorageRefinement` | the mapping under which `RagStorage` implements `DocumentStore` |
| `RagStorageRefinementProofs` | that it does, for any number of calls, contexts, payloads and chunks |
| `MCRagStorage` | both for TLC, with the symmetry of the calls |
| `Search`, `MCSearch` | searches over Qdrant and PostgreSQL while `RagStorage` goes on |
| `SearchProofs` | its properties, for any number of calls and searches and any queries |
| `Chunking`, `MCChunking` | the chunking loop |
| `ChunkingProofs` | its properties, for every text, size and overlap |
| `UploadPipeline` | the upload route, the queues and the two worker tasks |
| `UploadPipelineProofs` | its safety properties, for any number of uploads and workers |
| `IngestPipeline`, `MCIngestPipeline` | `UploadPipeline` with its ingest step replaced by the steps of `RagStorage` |
| `IngestPipelineProofs` | its safety properties and the two abstractions it implements, for any number of calls and workers |
| `PdfExtraction`, `MCPdfExtraction` | profiling, OCR by the scanner and extraction of PDF files |
| `PdfExtractionProofs` | its safety properties, for files of any length and any thresholds |
| `ApiKeys`, `MCApiKeys` | the keys, and requests that are admitted by them over HTTP and MCP |
| `ApiKeysProofs` | its properties, for any number of keys, secrets, requests and processes |

### RagStorage

A call of the service is an element of `Op`; it adds at most one document and
one job, so `documents[op]` and `jobs[op]` are the rows that op added, or
`NoRow`.  `session[op]` is what the call's SQLAlchemy session has flushed and not
committed: the number of chunk rows under its document row, and the value it
has assigned to `job.document_id`.  `points[op]` counts the points the call
holds in memory, `vectors[d]` the points Qdrant has for document d.  A payload
is a member of `Content` (equal checksum, equal member), a tenant and scope
together are a member of `Context`.

One step is one visible effect: a PostgreSQL transaction, a flush that takes
the unique key, a Qdrant request, or a read whose result is used later.

| Code | Actions |
| --- | --- |
| `POST /documents/ingest`, `/upload`, MCP `ingest` | `CallIngest` |
| upload route, `create_job` | `CreateJob`; the task is in its queue at place `"queued"` |
| `process_profiled_document` before the ingest | `MarkJobRunning`, `Extract` |
| `_ingest_payload` | `LookupExisting`, `Dedupe`, `Insert`, `Embed`, `EmbedFails`, `EnsureCollection`, `CreateCollection`, `WriteRow`, `CommitDocument`, `Refresh`, `Upsert`, `UpsertFails`, `Complete` |
| the answer, and the worker's last progress | `Answer` |
| the `except` clauses | `Raise`, `RaiseFromFlush`, then `MarkJobFailed` |
| `reindex_document` | `CallReindex`, `ReindexCreateJob`, `ReindexLoad`, the shared ensure / upsert / complete, `ReindexDelete` |
| `delete_document` | `CallDelete`, `DeleteVectors`, `DeleteCommit` |
| RQ's job timeout; death of a process or loss of a task | `Timeout`; `Crash` |

Three facts about the libraries matter and are modelled from how the code uses
them.  A session whose flush failed refuses everything until it is rolled back,
so `mark_job_failed` in the same session raises too (`RaiseFromFlush`).  A commit
in a session that is still usable also commits what was flushed before
(`MarkJobFailed`).  An INSERT of a unique key that another open transaction has
inserted waits for that transaction (`KeyHeld`).

A fourth one matters for the status of a job.  A session writes an attribute only
when the value assigned differs from the one it has last read.  The ingest assigns
"running" to the job it was given (storage.py:231): nothing, if its session has read
"running" before, and a change if it has read a failure that another session has
recorded meanwhile, which the commit then overwrites.  `RagStorage` does not say what
was read, so `CommittedJobs` leaves both outcomes open; `IngestPipeline` decides.

Left out: progress percentages, `chunk_count`, timestamps and parser names (no
step of the service depends on them), the text of chunks, and the size check of an existing
collection, which compares two constants of a deployment.  Every payload of a
run has `NChunks` chunks; a payload without chunks is `EmbedFails`, since it
raises at the same place with the same effect.  A Qdrant request is one step
that may be applied although it raised, the creation of the collection included; its
points are not split further.  A timeout inside a flush makes the session unusable like
any other failed flush (`Timeout`); where no `except` clause could help, in
`mark_job_running` or in the `except` clause itself, it has the effect of `Crash`.

### DocumentStore and the refinement

`DocumentStore` has one variable, `library`: for each name `Absent`, `Removed`, or
an entry with its context and payload and three flags.  `whole`: it has all its
chunks.  `findable`: vector search has them all.  `open`: there is a call about it
that has not succeeded.  Its actions say what may happen to an entry: `Store` adds
it with an open issue and not findable (unless it has no chunks), and never a
second one with the same context and payload; `Index` makes it findable, and only
under an open issue; `Unindex` takes its points away and opens one; `Open`; `Close`,
only when it is whole and findable; `Remove`, for good.

The mapping in `RagStorageRefinement` forgets calls, places, sessions and points in
memory.  An entry is the row of `documents`; it is findable when Qdrant has at
least as many points as it has rows; its issue is open while a job about it has
not completed or a delete of it has stopped between Qdrant and PostgreSQL.  So
one step of the service changes at most one entry, in one of the six ways, although
a commit writes three tables and a delete clears the link of every job.

### Search

`Search` extends `RagStorage`: the searches run while calls store, reindex and
delete.  A chunk is `<<d, i>>`; its point in Qdrant has the id of its row, so a chunk
that both reads find is one hit.  A point keeps the tenant and scope it was
written with, also after its document is gone.

| Code | Actions and operators |
| --- | --- |
| `POST /documents/search`, MCP `search_documents` | `CallSearch` |
| `search`: embed the query, `QdrantChunkStore.search`, `_build_filter` | `VectorSearch`, `MatchingPoints`, `Selected` |
| `_lexical_search`, its terms and scores | `MatchingRows`, `Fetched`, `LexicalHits`, `Matches` |
| `search`: the loop that merges the hits, and the sort | `Merged`, `Rank`, in the step `LexicalSearch` |

What a query and a payload have in common is a constant: how many of the query's
words each chunk contains (`matches`), and which chunks the database takes for one that
contains a word (`selected`).  These are more, since a word may have an underscore
(storage.py:583) and the pattern of the `ILIKE` is not escaped (466).  Similarity is left
open: Qdrant may return any matching points up to the limit.  The lexical statement has
a `LIMIT` of three times `top_k` and no `ORDER BY`, so it may return any selected rows up
to that; those without a word are dropped afterwards (473).  Every order of equal
scores that the merge could give is a choice.  `search[s].ready` and
`search[s].gone` record which documents had been ingested and deleted when the
search began; `raced` remembers the documents of which a writer of points overlapped
a delete between its two stores.  The properties say what a caller may rely on
although the two reads see different moments: read your writes (`IngestedIsFound`),
a delete that no writer overlaps is final (`DeletedIsNotFound`), nothing is found
that was never committed (`AnswersWereStored`) or belongs to another tenant
(`AnswersStayInContext`, the one `docs/mcp.md` and `app/mcp/tools.py` promise), and exact terms surface
when the vectors miss them (`ExactTermsSurface`, from `docs/http-api.md`).  The last one
has the exception the code has: when more rows are selected than the statement
fetches, the best one may not be read, even if no other row contains a word.

### Chunking

A text is its length and the positions of its spaces, which is all that the
loop looks at; a chunk is the interval of positions its content occupies.  One
step is one iteration.  The code's search for the last space and its two
stripping loops are given by what they return (`IsEnd`, `IsStripped`,
`IsSkipped`), not by another loop.

### UploadPipeline

The HTTP request, the Redis queues and the workers, with one step per commit,
file operation and queue operation.  The ingest at the end of the second task
is two steps here: the commit of a new document, and the end, with or without it.
Every upload is profiled first; then a text or a PDF with a text layer goes on in
the fast queue, a PDF with pages to recognise in the OCR queue, and any other file
fails.  The workers look at a fourth queue too (`PDF_QUEUE_NAME`), which nothing fills.

| Code | Actions |
| --- | --- |
| `POST /documents/upload-document` | `CreateJob`, `SaveUpload` or `SaveFails`, `TooLarge` or `StorePath`, `Accept` or `EnqueueFails`, `Refuse`, `RequestCrash` |
| RQ | `Dequeue`, `TaskTimeout`, `WorkerCrash` |
| `process_uploaded_document` | `StartTask`, `Route`, `EnqueueProfiled` or `EnqueueProfiledFails` |
| `process_profiled_document` | `StartTask`, `Extract`, `CommitIngest`, `Ingest`, `LastProgress` |
| the `except` clauses of both | `FailTask`, `FailTaskFails` |

A worker's `read` is the status its session has read last: what `mark_job_running`
wrote, or the row as `update_job_progress` found it after profiling or extracting a PDF,
with what others have written meanwhile.  It decides whether the commit of the ingest
writes "running" over a failure (`CommittedStatus`) and whether `mark_job_failed` writes
anything (`FailTask`).

`lost` is a history variable: the uploads of which the task or the failure record was
lost with a process or an unusable session, for which the code has no recovery.
It makes `UploadsSettle` the exact statement of what remains: under every fault of the
model, timeouts and Redis errors included, an upload settles unless it is in `lost`,
its own HTTP process died, or its file could not be saved.  In the last case
(`SaveFails`) the client gets a 500 and the job stays pending, as `save_upload`
(documents.py:201) is outside any `try`.

### IngestPipeline

The composition of `UploadPipeline` and `RagStorage`.  An upload is a call of
`RagStorage`: `CreateUpload` is both modules' `CreateJob`, and from the start of the second
task on the worker runs the call of the same name (`StartIngest`, `ExtractUpload`,
`IngestUpload`, `AnswerUpload`, `FailIngest`).  A timeout or a crash of the worker is one of
the call (`InterruptTask`, `KillTask`).  Synchronous ingests, reindexes and deletes go
on beside it (`OtherCall`, `OtherStep`).

The job row is where the parts meet.  It has three writers: the upload route, the
first task and the second.  Because `enqueue` may raise although Redis has the task,
all three may be at work at once: the route marks a job failed that a worker is
completing, and the first task one that the second is running.  Each has a session of
its own.  A row that the ingest has flushed stays locked until its commit
(`JobRowFree`).  Whether the commit of the document keeps a failure that was recorded
meanwhile depends on what the worker's session has read.  After the extraction of a PDF,
`update_job_progress` reads the row again: a failure it finds becomes "running" with the
commit, and one that is recorded later, or beside the ingest of a text, stays until the
job is completed.  In the same way the first task's `mark_job_failed` writes nothing
when its session has read the failure of the route, even if the second task is running
the job by then (`FailProfiling`).  `IngestUpload` takes the one outcome of
`CommittedJobs` that is the worker's `CommittedStatus`.

The run shows that `UploadPipeline` is a sound summary: the steps of the ingest, with
their commits and their exceptions, implement its `CommitIngest`, `Ingest`,
`FailTask` and `FailTaskFails`, for the columns of the job row that it speaks about
(`ImplementsUploadPipeline`).  The properties of `RagStorage` that speak about jobs still
hold although the row has other writers, and the whole, from the request to the index, is
still a `DocumentStore` (`ImplementsDocumentStore`).

### PdfExtraction

A file is a sequence of pages; a page is what PyMuPDF counts on it (characters,
images, drawings), whether tables are found, whether pdfplumber gets text out of
them, and what OCR makes of it: words, nothing, or no attempt (`--skip-text`).  A text
is the page it speaks of and the reader that produced it.  `extraction[j]` is one run of
`PdfProcessingService.extract` in a worker, `thread[t]` the request a thread of the
scanner works on.

| Code | Actions and operators |
| --- | --- |
| `extract`, `profile_pdf`, `choose_strategy` | `Start`, `ProfilePdf`, `ProfileFails`; `Scanned`, `TableCandidate`, `OcrPages`, `Strategy` |
| `_run_ocr`, `PdfScannerClient.ocr_pdf` | `CallScanner`, `CallFails`, `Deadline` |
| the gRPC server, `OcrPdf`, `_split_sidecar_text` | `TakeRequest`, `Answer`, `AnswerError`; `SplitSidecarText` |
| `_extract_pages`, `_extract_page`, `_summarize_parser` | `ExtractPages`, `ExtractPagesFails`; `OcrText`, `ExtractPage`, `SummarizeParser` |

ocrmypdf is external, and `src/` does not say what it writes into its sidecar file for
pages that were not requested (`--pages`) or that have text (`--skip-text`).  So the
form is left open (`Recognised`): the parts of the pages it worked on, empty where
nothing was recognised, in the order of the file, and a remark for none, some or all
of the pages it skipped; or no file.  The server drops the empty parts and deals the
others to the requested pages by position (`_split_sidecar_text`, server.py:38-45), without
asking what they are parts of, and cuts off what is left over (44).  Two things follow.  A
page without words among the scanned ones shifts the texts after it to other pages.  And
if ocrmypdf writes a part for every page of the file, with a remark for a page it has
skipped, a file that mixes scanned and other pages loses: the remarks about its first
pages become the texts of the scanned ones, also in place of a caption such a page has,
and recognised words beyond the number of requested pages are dropped.  This is no refuted
statement of the run table because it depends on a program outside `src/`; the model
reaches it.  The properties say what holds whatever the sidecar is like.
`RecognisedTextIsKept`: as many parts as there are requested pages come out, the
first ones, each once and in order; only those beyond are lost.  `TextIsOfItsPage`:
if the parts that are not empty begin with those of the requested pages, which is
so in a file of scans with words, the text of a page comes from that page.  The fallback of
`_ocr_text_by_page` for an answer without page texts is left out, since the server
sends at least one for a request that names pages, as every request does.  For
the same reason the client's refusal of an empty answer never fires; it is in
`Answer` all the same.

### ApiKeys

`keys` is the table, with a secret standing for its hash; `admin[a]` is what a
process of the command line has loaded for a rotation; `request[r]` is a request with
the secret it presents, what it needs, and what its process has read.  Sessions
write the columns that changed and not the row they loaded, which is why a
revocation is one step and a rotation two: only the rotation's outcome depends on
what it loaded.  `verify_key` is `VerifyKey` (read and check) followed by `Touch`
(commit the time of use, read again) when the last use is old enough.  Then
`AuthorizeRoute` checks role and context as the HTTP dependencies do, with the
roles the routes name (`RouteRole`), and `AuthorizeTool` as the MCP tools do, on
the claims and with their own roles (`ToolRole`).  `late` is a ghost field: the
secret was dead when the request was sent.

A request that is being verified while its key is revoked may still be granted:
the code does not check again.  What holds, and is proved, is that no request
*sent* after the revocation is.

## Runs

| Run | Bounds | What it shows |
| --- | --- | --- |
| `storage_safety` | 3 calls of all kinds, 2 contexts, 2 payloads of 2 chunks, all faults | `OneDocumentPerPayload`, `JobsReferToTheirContext`, `MissingVectorsAreAccountedFor`, `TruncatedOnlyUnderFailedJob`, `RowsImplyCollection`, `SyncIngestIsAllOrNothing`, `ImplementsDocumentStore` |
| `storage_liveness` | 3 ingests or workers, 1 context, 1 payload, crashes and embedding failures | `EveryCallEnds` |
| `chunking` | texts of up to 13 characters, sizes 3 to 6, overlaps 0 to 9 | `CoversText`, `ChunksFit`, `NeighboursAdvance`, `LoopAdvances` |
| `upload_pipeline` | 2 uploads, 2 workers, all faults | `TasksFindTheirFile`, `OneIngestTaskPerUpload`, `CompletedJobsStaySettled`, `UploadsSettle` |
| `ingest_pipeline` | 2 calls of all kinds, 2 workers, 3 formats, 1 context, 1 payload of 2 chunks, all faults of both modules | `TruncatedOnlyUnderFailedJob`, `ImplementsUploadPipeline`, `ImplementsDocumentStore` (which includes `MissingVectorsAreAccountedFor`) |
| `search` | 1 search among 3 calls (workers, reindexes, deletes), 2 contexts, 1 payload of 4 chunks, 3 queries, one with an underscore, failing Qdrant requests | `AnswersStayInContext`, `AnswersWereStored`, `IngestedIsFound`, `DeletedIsNotFound`, `ExactTermsSurface` |
| `pdf_extraction` | 2 extractions, 1 scanner thread, files of up to 2 pages of six kinds, of 3 pages of three kinds, and one over the page limit, every form of the sidecar, all faults | `RecognisedTextIsKept`, `TextIsOfItsPage`, `LocalPagesKeepTheirText`, `ParserAgreesWithStrategy`, `EveryExtractionEnds` |
| `api_keys` | 1 key, 3 secrets, 2 requests, 2 rotating processes, 3 instants, 3 kinds of rights, 5 kinds of need | `LateRequestsAreRefused`, `GrantsStayWithinRights`, `RevocationIsPermanent`, `DeadSecretsStayDead` |

Why the bounds are enough.  Two calls that meet on one document, and a third
that deletes or repeats it, are the longest interaction the code has: a call
looks at the rows of one document only.  Two chunks tell a partial document
from an empty and a full one; two contexts and two payloads tell each half of
the unique key apart.  Two
extractions and one thread make an abandoned request hold up the next one; three
pages are enough for a text to shift over a page, and for remarks to displace words.  A secret belongs to one key
and nothing relates two keys, so one key with three secrets shows two rotations
in any order.  In the composition
two calls are an upload and whatever meets its document (a second upload, an ingest, a
reindex or a delete), and two workers are the two tasks of one upload at once; a third
call is what `storage_safety` is for.  A search changes nothing, so one search sees all there is to see;
three calls are the writer, the reindex and the delete whose points it may find.
Four chunks are one more than a statement for one hit fetches, and the query with the
underscore selects all four although one contains its word; another has room for two
hits, and one for more than there are chunks.  The proofs remove these bounds for the safety
properties.  Thirteen characters hold four windows of the smallest size; the
proofs remove this bound too.

Four more runs refute a statement of the documentation or of the code's own
checks:

| Run | Statement | How it fails |
| --- | --- | --- |
| `storage_stuck_job` | docs/pdf-ingestion.md: the task marks the job completed or failed | two workers with the same payload: the second one's INSERT fails, its session is unusable, and `mark_job_failed` raises; the job stays running.  A reindex whose document is deleted after its job was created leaves a running job as well |
| `storage_orphans` | docs/http-api.md: DELETE removes a document and its vectors | an ingest upserts after the delete |
| `storage_chunkless` | storage.py refuses documents without chunks, at ingest and at reindex | `mark_job_failed` commits the document row flushed before the exception |
| `storage_duplicate` | docs/http-api.md: a stored payload is answered with the existing document | the other ingest commits between lookup and INSERT: IntegrityError |

## Fairness

`RagStorage!FairSpec` assumes weak fairness of every call's own steps: its
process is scheduled and its requests are answered, with success or failure.
Timeouts and crashes are never assumed.  The one place where a call waits for another
is `Insert`, when `KeyHeld`; `EveryCallEnds` says that this ends.  Weak fairness
suffices although the wait may be entered again: only a call that has not
inserted yet can take the key, each call takes it once, and there are finitely many.

`UploadPipeline!FairSpec` assumes that the API answers the requests it has
accepted and that every worker keeps taking and running tasks.
`UploadsSettle` is checked with every fault switched on; what the code cannot
recover from is in the formula (`lost`, a dead request, an unsaved file), not in the bounds.

`PdfExtraction!Spec` assumes that a worker goes on and that its gRPC deadline
expires, and nothing of the scanner, whose subprocess has no timeout: an
extraction ends even if no thread ever answers.  `ApiKeys` has no liveness
property: clients may stop at any time.

## Proofs

`ChunkingProofs` proves, for every text, every size of at least 3 (the settings
require 200) and every overlap, that no character is lost, that chunks fit,
that each adds text to the one before, and that the loop makes progress.  The
invariant adds two facts to the properties: a window begins at a letter, and
the letters before it are covered, by chunks that end beyond its start by at
most the overlap.  The assumption that sizes are at least 3 is needed: it makes
the clamped overlap smaller than every window that is cut.

`RagStorageProofs` proves the seven invariants of `storage_safety` for any
number of calls, contexts, payloads and chunks, and any set of faults.  The
assumptions are that there is at least one chunk per payload, that the default
context is a context, and that `NoRow` is not a value.  None of the properties
is inductive, because none says where the calls are.  `IInv` adds

- `PlacesOK`, `ArgumentsOK`: which kind of call is where, and on which document;
- `SessionOK`: what a session can hold at each place, and that the points in
  memory are as many as the rows flushed;
- `JobsOK`: when a call has a job, in which status and with which link;
- `DocumentsOK`: a document is visible only past its commit, and the points
  about to be written are all its rows, if it still exists;
- `KeysOK`: a flushed key is free in the table and held once, which is what
  makes `OneDocumentPerPayload` survive the commit;
- `AccountedBeforeComplete`: the strengthening of `MissingVectorsAreAccountedFor`
  that does not count the jobs about to be completed.  A step to `"complete"`
  has just written the points, so no document needs that job as its witness
  when the next step completes it.

There is one lemma per action.  The interesting ones are `CommitDocument` (the
row appears with a running job as the witness of its missing vectors),
`Upsert`, `ReindexDelete` and `DeleteVectors` (who accounts for the vectors that
just went), and `DeleteCommit` (no job keeps a link).

`ApiKeysProofs` proves the four properties of `api_keys` for any number of keys,
secrets, requests and processes, any rights and needs, any length of the
throttling interval and any horizon of time.  The assumptions are that rights
and needs are built from tenants, scopes, roles and operations, and that `None`
is none of the values.  Two lemmas carry the argument.  `StepKeepsRows`: no step
removes a row, changes its rights or its expiry, or takes back a revocation, and
a secret that is new in a row is handed out by that very step.  `DeadStayDead`
follows: a secret that opens nothing now can neither return into a row nor have
its row become usable, since time goes on.  `IInv` adds to the properties that
the secrets in the table were handed out (`KeysOK`), that a rotation's key exists
(`AdminOK`), that a verified request holds the rights of an existing row as they
are in the table (`RequestsOK`), and that the secret of a late request is still
dead (`LateOK`).

**The refinement of `DocumentStore`.**  `RagStorageRefinementProofs` proves
`ImplementsDocumentStore`: every step of every call is one of the six steps of the
library, or leaves it alone.  The mapped library is a function of the documents' names;
the lemmas about entries say which changes of one entry the library allows, and each
action of `RagStorage` is shown to be one of them.  `IInv` does not suffice, because it
does not say whose points Qdrant has.  `OwnershipInv`, proved inductive with it, adds
that points belong to documents that were committed, that a deleted document does not
come back, and that a call whose job is linked to another document adds none of its
own.  Without the first a `CommitDocument` could add an entry that is findable at once.
`StoreKeepsItsPromises` says what the abstraction is worth: every behaviour of
`DocumentStore`, and so of anything that implements it, has a document without an open
issue complete and findable, a payload once in a context, no removed document back and no
stored one changed.

**Search.**  `SearchProofs` proves the type invariant, the four invariants and the action
property of `search`, for any number of calls and searches, any queries and any set of
faults.  `SearchesOnlyRead` comes first: a behaviour of `SearchSpec` is one of `RagStorage`,
so everything proved of `RagStorage` holds beside searches.  The assumption is that
there are finitely many calls (`CallsAssumption`), as a cardinality is compared with `top_k`.
The invariant has three kinds of parts: what Qdrant has of a document that was stored or
deleted, in terms of where the calls are (`ContextInv`, `PointsInv`, `RacedInv`); that
what a search remembers of its first moment stays true; and that its hits agree with what
it remembers (`HitsInv`).  `DeletedIsNotFound` rests on `RacedInv`: between the two stores of
a delete a document has no points, unless a writer of its points is in `raced`.

**UploadPipeline.**  `UploadPipelineProofs` proves its type invariant, its two safety
invariants and `CompletedJobsStaySettled` for any number of uploads and workers and any faults.
A task is in one place at most (`QueuesOK`, `WorkersOK`); the second task of an upload
exists only after the first has handed it over or may have (`HandoverOK`), so that a
failed enqueue that Redis has taken all the same cannot be followed by another one; what
was made durable before a task was enqueued stays (`RequestsOK`); and the tasks of a
completed job are past their work (`CompletedOK`).

**PdfExtraction.**  `PdfExtractionProofs` proves the five invariants of `pdf_extraction` for
files of any length, any thresholds, zero included, any number of extractions and scanner
threads, and any faults.  The state part is short: a response is what the scanner makes of
a sidecar of the extraction's own file, whatever its form, and a result is made of both
(`PdfInv`).
The rest is about lists.  `Select`, the list comprehension of the code, is defined by
recursion; its lemmas (`SelectAppend`, `SelectTwice`, `SelectAscends`,
`PrefixesExtend`) are proved by induction on prefixes.  The induction is that of the
lemma `Induction`: a set that has zero and is closed under successor has all numbers,
which follows from the well-foundedness of `<` without a theorem about operators.
`RecognisedTextIsKept` then says that what the scanner said, selected from the first n
pages of the result, is the list of its first parts, as many as there are requests among
these pages, or all of them (`WordsAreKept`).

**IngestPipeline.**  `IngestPipelineProofs` proves everything the run `ingest_pipeline` checks,
and for the composition the other invariants of `storage_safety` and the safety properties of
`upload_pipeline`, for any number of calls and workers, any contexts, payloads and faults of
both parts.  Its invariant `CompositeInv` is that of `RagStorage` and that of `UploadPipeline`,
for the columns of the job row that the latter speaks about, and how the parts agree:

- `CallsOK`: a call is the ingest of an upload from its request on, and has not begun while
  the first task may still hand over the second or the second is queued;
- `TasksOK`: when a worker is at a place of the second task, the call is at one of the
  places that `CallPlaces` lists for it.

The parts cannot be proved apart, because each is disturbed by the other.  The status of a
job is written beside the ingest by the route and by the first task, so `IInv` may not say
that a call whose job failed has ended; it says instead that the call of a truncated document
has raised (`DocumentsOK`).  By `CallsOK` the first task writes "running" only while the call is
queued, so it overwrites neither a completed status nor the failed one of a truncated document
(`SetStatusPreserves`); "failed" may be written at any time, and the commit of a new document,
which is not truncated, may turn it into "running".  In the other direction a step of
the ingest is to `UploadPipeline` its `CommitIngest`, `Ingest`, `FailTask` or `FailTaskFails`, or
nothing, as the place of the call and that of the worker agree (`IngestMoves`, `IngestUploadGood`).

`UploadPipelineProofs` is used as it is, instantiated with the calls as its uploads and the
projected job rows as its jobs: its step lemmas say what happens to queues and workers, and
once `UploadRefinement` is proved its theorems hold of the composition
(`UploadsOfThePipeline`).  For `PipelineStoreRefinement`, `StorageMoves` says that a step of the
composition is to the two stores a step of `RagStorage` or a status that is written, and
`StatusStep` that the latter at most opens the issue of the one document the job is about.
The assumptions are those of the two parts.

Only model-checked: the liveness properties (`EveryCallEnds`, `UploadsSettle`,
`EveryExtractionEnds`), since the prover has no rule for fairness; and the refuted statements.

## Not modelled

Not modelled because they have no state of their own or run once: the reading
commands of the CLI, the SDK (one HTTP request per method, no retry), the migrations,
the embedder (a function of its text; that it may fail is in `EmbedFails`), schemas,
health routes, configuration and deployment.  `list_documents`, `get_document`, the
chunks of a document and the status of a job are one read each and show what the
table holds at that moment.  PostgreSQL refuses what its constraints refuse and is lost
with a process (`Crash`); a statement or a commit that fails for another reason is not a
fault of the models.

Abstracted within the modules: the progress percentages of a job and the texts
of its errors.  An ingest of a payload whose document is stored but not findable (its job failed or is
still running) is answered with that document and a completed job of its own: what is
missing is then on record in the job of the first call only, and
`MissingVectorsAreAccountedFor` asks for no more.

A death of the API between creating a job and enqueueing its task, or of a worker
in a task, leaves a job that nothing will run, and so does a file that cannot be saved:
the code has no recovery.  The uploads concerned are the exceptions of `UploadsSettle`.
