-------------------------- MODULE RagStorageProofs --------------------------
(***************************************************************************)
(* The properties of RagStorage hold for any number of calls, contexts,    *)
(* payloads and chunks, and under any set of faults.                       *)
(*                                                                         *)
(* RagStorageInvariant!IInv is inductive: one lemma per action shows that  *)
(* the action preserves it, with one step per part.  The properties are    *)
(* parts of it, or follow from one.                                        *)
(***************************************************************************)
EXTENDS RagStorageInvariant, TLAPS

\* No value of the model is taken for "no row".
LEMMA NoRowFacts ==
    /\ NoRow \notin Op /\ NoRow \notin Content /\ NoRow \notin 0..NChunks
    /\ NoRow \notin Document /\ NoRow \notin Job
  BY NoRowAssumption, NChunksAssumption DEF Document, Job, JobStatus

\* The empty database satisfies the invariant.
LEMMA InitHolds == Init => IInv
<1> SUFFICES ASSUME Init PROVE IInv
  OBVIOUS
<1>a. EmptySession \in Session /\ NoCall \in Call /\ 0 \in 0..NChunks
  BY NChunksAssumption, ContextAssumption DEF EmptySession, Session, NoCall, Call, AllKinds
<1>1. TypeOK
  BY <1>a DEF Init, TypeOK
<1>2. \A o \in Op : /\ pc[o] = "idle" /\ call[o] = NoCall /\ session[o] = EmptySession
                    /\ points[o] = 0 /\ jobs[o] = NoRow /\ ~Live(o) /\ vectors[o] = 0
  BY DEF Init, Live
<1>3. PlacesOK /\ ArgumentsOK /\ JobsOK
  BY <1>2 DEF PlacesOK, ArgumentsOK, JobsOK, Ingests, NoCall, BeforeCommit, Settled
<1>4. SessionOK
  BY <1>2, NoRowFacts DEF SessionOK, Uncommitted, EmptySession
<1>5. DocumentsOK
  BY <1>2 DEF Init, DocumentsOK, Known, Ingests
<1>6. KeysOK /\ OneDocumentPerPayload /\ JobsReferToTheirContext
  BY <1>2 DEF KeysOK, Uncommitted, EmptySession, OneDocumentPerPayload, JobsReferToTheirContext
<1>7. AccountedBeforeComplete /\ TruncatedOnlyUnderFailedJob /\ RowsImplyCollection
  BY <1>2 DEF AccountedBeforeComplete, TruncatedOnlyUnderFailedJob, RowsImplyCollection
<1>8. SyncIngestIsAllOrNothing
  BY <1>2 DEF SyncIngestIsAllOrNothing, NoCall
<1> QED
  BY <1>1, <1>3, <1>4, <1>5, <1>6, <1>7, <1>8 DEF IInv

-----------------------------------------------------------------------------
(* One lemma per action.                                                   *)
\* A new ingest has no session, no job and no document.
LEMMA CallIngestPreserves == ASSUME IInv, NEW op \in Op, CallIngest(op) PROVE IInv'
<1>1. TypeOK' /\ PlacesOK' /\ ArgumentsOK'
  BY DEF IInv, CallIngest, Goto, TypeOK, EmptySession, Active, WorkerTry, Settled, Call,
         AllKinds, PlacesOK, Ingests, ArgumentsOK, Known, Live, IngestContext
<1>2. SessionOK' /\ JobsOK' /\ DocumentsOK'
  BY DEF IInv, CallIngest, Goto, TypeOK, PlacesOK, SessionOK, Ingests, Uncommitted, Known,
         Live, EmptySession, JobsOK, BeforeCommit, Settled, DocumentsOK, Target
<1>3. KeysOK' /\ OneDocumentPerPayload' /\ JobsReferToTheirContext' /\
     AccountedBeforeComplete' /\ RowsImplyCollection'
  BY DEF IInv, CallIngest, Goto, TypeOK, KeysOK, SessionOK, Uncommitted, Live,
         IngestContext, EmptySession, OneDocumentPerPayload, JobsReferToTheirContext,
         AccountedBeforeComplete, Unfinished, TornDelete, RowsImplyCollection
<1>4. TruncatedOnlyUnderFailedJob' /\ SyncIngestIsAllOrNothing'
  BY DEF IInv, CallIngest, Goto, TypeOK, TruncatedOnlyUnderFailedJob, DocumentsOK, JobsOK,
         PlacesOK, Known, Live, SyncIngestIsAllOrNothing, Target
<1> QED
  BY <1>1, <1>2, <1>3, <1>4 DEF IInv

\* The new job row is pending and refers to nothing.
LEMMA CreateJobPreserves == ASSUME IInv, NEW op \in Op, CreateJob(op) PROVE IInv'
<1>1. TypeOK'
  <2>1. pc' \in [Op -> {"idle"} \union Active \union Settled]
    BY DEF IInv, CreateJob, Goto, TypeOK, Active, WorkerTry, Settled
  <2>2. call' \in [Op -> Call]
    BY NChunksAssumption, ContextAssumption, NoRowAssumption, NoRowFacts
       DEF IInv, CreateJob, Goto, TypeOK, Call, AllKinds
  <2>3. jobs' \in [Op -> Job \union {NoRow}]
    BY DEF IInv, CreateJob, Goto, TypeOK, JobsOK, Job, JobStatus
  <2> QED
    BY <2>1, <2>2, <2>3 DEF IInv, TypeOK, CreateJob, Goto
<1>2. PlacesOK' /\ ArgumentsOK' /\ SessionOK' /\ DocumentsOK'
  BY DEF IInv, CreateJob, Goto, TypeOK, PlacesOK, Ingests, ArgumentsOK, Known, Live,
         IngestContext, Settled, SessionOK, Uncommitted, EmptySession, DocumentsOK, Target
<1>3. JobsOK'
  BY NChunksAssumption, ContextAssumption, NoRowAssumption, NoRowFacts
     DEF IInv, CreateJob, Goto, TypeOK, PlacesOK, JobsOK, Ingests, BeforeCommit,
         EmptySession, Live, Settled
<1>4. KeysOK' /\ OneDocumentPerPayload' /\ JobsReferToTheirContext' /\
     RowsImplyCollection' /\ SyncIngestIsAllOrNothing'
  BY DEF IInv, CreateJob, Goto, TypeOK, KeysOK, SessionOK, Uncommitted, Live,
         IngestContext, EmptySession, OneDocumentPerPayload, JobsReferToTheirContext,
         RowsImplyCollection, SyncIngestIsAllOrNothing, PlacesOK, Target
<1>5. AccountedBeforeComplete' /\ TruncatedOnlyUnderFailedJob'
  BY DEF IInv, CreateJob, Goto, TypeOK, AccountedBeforeComplete, PlacesOK, JobsOK,
         Unfinished, TornDelete, Live, Ingests, BeforeCommit, TruncatedOnlyUnderFailedJob,
         DocumentsOK, Known
<1> QED
  BY <1>1, <1>2, <1>3, <1>4, <1>5 DEF IInv

\* Only the status of the caller's own job changes.
LEMMA MarkJobRunningPreserves == ASSUME IInv, NEW op \in Op, MarkJobRunning(op) PROVE IInv'
<1>1. TypeOK'
  BY DEF IInv, MarkJobRunning, Goto, TypeOK, EmptySession, Active, WorkerTry, Settled,
         Session, Job, JobStatus, JobsOK, SessionOK, PlacesOK, ArgumentsOK, Uncommitted,
         Ingests, IngestContext, Call, Document
<1>2. PlacesOK' /\ ArgumentsOK' /\ SessionOK' /\ DocumentsOK'
  BY DEF IInv, MarkJobRunning, Goto, TypeOK, PlacesOK, Ingests, ArgumentsOK, Known, Live,
         IngestContext, Settled, SessionOK, Uncommitted, EmptySession, DocumentsOK, Target
<1>3. JobsOK'
  BY NChunksAssumption, ContextAssumption, NoRowAssumption, NoRowFacts
     DEF IInv, MarkJobRunning, Goto, TypeOK, PlacesOK, JobsOK, SessionOK, Ingests,
         Uncommitted, BeforeCommit, EmptySession, Live, Settled, Job
<1>4. KeysOK' /\ OneDocumentPerPayload' /\ JobsReferToTheirContext'
  BY DEF IInv, MarkJobRunning, Goto, TypeOK, KeysOK, SessionOK, Uncommitted, Live,
         IngestContext, EmptySession, OneDocumentPerPayload, JobsReferToTheirContext,
         JobsOK, PlacesOK, ArgumentsOK, Ingests
<1>5. AccountedBeforeComplete'
  <2> SUFFICES ASSUME NEW d \in Op, Live(d)', vectors'[d] < documents'[d].rows
               PROVE  \E o \in Op : (Unfinished(o, d)' /\ pc'[o] # "complete") \/ TornDelete(o, d)'
    BY DEF AccountedBeforeComplete
  <2>1. PICK o \in Op : (Unfinished(o, d) /\ pc[o] # "complete") \/ TornDelete(o, d)
    BY DEF IInv, AccountedBeforeComplete, MarkJobRunning, Live
  <2>2. Unfinished(o, d) => Unfinished(o, d)' /\ pc'[op] # "complete"
    BY NoRowFacts
       DEF IInv, TypeOK, Job, JobStatus, JobsOK, PlacesOK, Unfinished, MarkJobRunning,
           Goto
  <2>3. TornDelete(o, d) => TornDelete(o, d)'
    BY DEF IInv, TypeOK, TornDelete, MarkJobRunning, Goto
  <2> QED
    BY <2>1, <2>2, <2>3 DEF IInv, TypeOK, MarkJobRunning, Goto
<1>6. TruncatedOnlyUnderFailedJob' /\ RowsImplyCollection' /\ SyncIngestIsAllOrNothing'
  BY DEF IInv, MarkJobRunning, Goto, TypeOK, TruncatedOnlyUnderFailedJob, DocumentsOK,
         JobsOK, PlacesOK, Known, Live, RowsImplyCollection, SyncIngestIsAllOrNothing,
         Target
<1> QED
  BY <1>1, <1>2, <1>3, <1>4, <1>5, <1>6 DEF IInv

\* A worker has flushed nothing yet when its file cannot be read.
LEMMA ExtractPreserves == ASSUME IInv, NEW op \in Op, Extract(op) PROVE IInv'
<1>1. TypeOK'
  BY NChunksAssumption, NoRowFacts
     DEF IInv, Extract, Goto, Raise, End, TypeOK, EmptySession, Active, WorkerTry,
         Settled, Session
<1>2. PlacesOK' /\ KeysOK' /\ OneDocumentPerPayload' /\ JobsReferToTheirContext' /\
     TruncatedOnlyUnderFailedJob'
  BY DEF IInv, Extract, Goto, Raise, End, TypeOK, PlacesOK, Ingests, KeysOK, Uncommitted,
         Live, IngestContext, EmptySession, OneDocumentPerPayload,
         JobsReferToTheirContext, TruncatedOnlyUnderFailedJob
<1>3. ArgumentsOK'
  BY DEF IInv, Extract, Goto, Raise, End, TypeOK, PlacesOK, ArgumentsOK, Ingests, Known,
         Live, IngestContext, Settled
<1>4. SessionOK'
  BY DEF IInv, Extract, Goto, Raise, End, TypeOK, PlacesOK, SessionOK, Ingests,
         Uncommitted, Known, Live, EmptySession
<1>5. JobsOK'
  BY DEF IInv, Extract, Goto, Raise, End, TypeOK, PlacesOK, JobsOK, Ingests, BeforeCommit,
         EmptySession, Live, Settled
<1>6. DocumentsOK'
  BY DEF IInv, Extract, Goto, Raise, End, TypeOK, PlacesOK, DocumentsOK, Ingests, Known,
         Live, Target, Settled
<1>7. AccountedBeforeComplete' /\ RowsImplyCollection' /\ SyncIngestIsAllOrNothing'
  BY DEF IInv, Extract, Goto, Raise, End, TypeOK, AccountedBeforeComplete, Unfinished,
         TornDelete, Live, RowsImplyCollection, SyncIngestIsAllOrNothing, PlacesOK, Target
<1> QED
  BY <1>1, <1>2, <1>3, <1>4, <1>5, <1>6, <1>7 DEF IInv

\* The document found is live and in the context of the ingest.
LEMMA LookupExistingPreserves == ASSUME IInv, NEW op \in Op, LookupExisting(op) PROVE IInv'
<1>1. TypeOK' /\ PlacesOK' /\ JobsReferToTheirContext'
  BY DEF IInv, LookupExisting, Goto, Existing, TypeOK, EmptySession, Active, WorkerTry,
         Settled, Call, AllKinds, PlacesOK, ArgumentsOK, Ingests, JobsReferToTheirContext,
         Live
<1>2. ArgumentsOK'
  BY DEF IInv, LookupExisting, Goto, Existing, TypeOK, PlacesOK, ArgumentsOK, DocumentsOK,
         JobsOK, Ingests, Known, Live, IngestContext, BeforeCommit, Settled, Document,
         Call
<1>3. SessionOK' /\ DocumentsOK' /\ OneDocumentPerPayload'
  BY DEF IInv, LookupExisting, Goto, Existing, TypeOK, PlacesOK, SessionOK, Ingests,
         Uncommitted, Known, Live, EmptySession, DocumentsOK, Target, Settled,
         OneDocumentPerPayload
<1>4. JobsOK'
  BY DEF IInv, LookupExisting, Goto, Existing, TypeOK, PlacesOK, ArgumentsOK, SessionOK,
         JobsOK, DocumentsOK, KeysOK, OneDocumentPerPayload, JobsReferToTheirContext,
         AccountedBeforeComplete, TruncatedOnlyUnderFailedJob, RowsImplyCollection,
         SyncIngestIsAllOrNothing, Ingests, Uncommitted, BeforeCommit, Document, Job,
         Call, Session, AllKinds, JobStatus, EmptySession, WorkerTry, Active, Settled,
         Live, IngestContext, Known, Target, Unfinished, TornDelete
<1>5. KeysOK' /\ AccountedBeforeComplete' /\ RowsImplyCollection'
  BY DEF IInv, LookupExisting, Goto, Existing, TypeOK, KeysOK, Uncommitted, Live,
         IngestContext, EmptySession, AccountedBeforeComplete, Unfinished, TornDelete,
         RowsImplyCollection
<1>6. TruncatedOnlyUnderFailedJob' /\ SyncIngestIsAllOrNothing'
  BY DEF IInv, LookupExisting, Goto, Existing, TypeOK, TruncatedOnlyUnderFailedJob,
         DocumentsOK, JobsOK, PlacesOK, Known, Live, SyncIngestIsAllOrNothing, Target
<1> QED
  BY <1>1, <1>2, <1>3, <1>4, <1>5, <1>6 DEF IInv

\* The job is linked to a document that is live in its own context; the
\* call itself owns no document, so it was nobody's witness.
LEMMA DedupePreserves == ASSUME IInv, NEW op \in Op, Dedupe(op) PROVE IInv'
<1>1. TypeOK'
  <2>a. call[op].document \in Op
    BY DEF IInv, Dedupe, TypeOK, PlacesOK, ArgumentsOK, Known, Live
  <2>b. Live(call[op].document) => documents[call[op].document].ctx \in Context
    BY <2>a DEF IInv, TypeOK, Live, Document
  <2>1. pc' \in [Op -> {"idle"} \union Active \union Settled]
    BY DEF IInv, Dedupe, End, RaiseFromFlush, Goto, Live, TypeOK, Active, WorkerTry,
           Settled
  <2>2. session' \in [Op -> Session]
    BY DEF IInv, Dedupe, End, RaiseFromFlush, Goto, Live, TypeOK, Session, EmptySession
  <2>3. points' \in [Op -> 0..NChunks]
    BY NChunksAssumption, NoRowFacts
       DEF IInv, Dedupe, End, RaiseFromFlush, Goto, Live, TypeOK
  <2>4. jobs' \in [Op -> Job \union {NoRow}]
    BY <2>a, <2>b
       DEF IInv, Dedupe, End, RaiseFromFlush, Goto, Live, TypeOK, Job, JobStatus
  <2> QED
    BY <2>1, <2>2, <2>3, <2>4 DEF IInv, TypeOK, Dedupe, End, RaiseFromFlush, Goto, Live
<1>2. PlacesOK' /\ OneDocumentPerPayload' /\ TruncatedOnlyUnderFailedJob' /\
     RowsImplyCollection'
  BY DEF IInv, Dedupe, End, RaiseFromFlush, Goto, Live, TypeOK, PlacesOK, Ingests,
         OneDocumentPerPayload, TruncatedOnlyUnderFailedJob, DocumentsOK, JobsOK, Known,
         RowsImplyCollection
<1>3. ArgumentsOK'
  BY DEF IInv, Dedupe, End, RaiseFromFlush, Goto, Live, TypeOK, PlacesOK, ArgumentsOK,
         Ingests, Known, IngestContext, Settled
<1>4. SessionOK'
  BY DEF IInv, Dedupe, End, RaiseFromFlush, Goto, Live, TypeOK, PlacesOK, SessionOK,
         Ingests, Uncommitted, Known, EmptySession
<1>5. JobsOK'
  BY NoRowFacts
     DEF IInv, Dedupe, End, RaiseFromFlush, Goto, Live, TypeOK, PlacesOK, ArgumentsOK,
         SessionOK, JobsOK, DocumentsOK, KeysOK, OneDocumentPerPayload,
         JobsReferToTheirContext, AccountedBeforeComplete, TruncatedOnlyUnderFailedJob,
         RowsImplyCollection, SyncIngestIsAllOrNothing, Ingests, Uncommitted,
         BeforeCommit, Document, Job, Call, Session, AllKinds, JobStatus, EmptySession,
         WorkerTry, Active, Settled, IngestContext, Known, Target, Unfinished, TornDelete
<1>6. DocumentsOK'
  BY NoRowFacts
     DEF IInv, Dedupe, End, RaiseFromFlush, Goto, Live, TypeOK, PlacesOK, DocumentsOK,
         ArgumentsOK, Ingests, Known, Target, Settled
<1>7. KeysOK'
  BY NoRowFacts
     DEF IInv, Dedupe, End, RaiseFromFlush, Goto, Live, TypeOK, KeysOK, SessionOK,
         Uncommitted, IngestContext, EmptySession
<1>8. JobsReferToTheirContext'
  BY DEF IInv, Dedupe, End, RaiseFromFlush, Goto, Live, TypeOK, JobsReferToTheirContext,
         JobsOK, PlacesOK, ArgumentsOK, IngestContext, Ingests
<1>9. AccountedBeforeComplete'
  <2> SUFFICES ASSUME NEW d \in Op, Live(d)', vectors'[d] < documents'[d].rows
               PROVE  \E o \in Op : (Unfinished(o, d)' /\ pc'[o] # "complete") \/ TornDelete(o, d)'
    BY DEF AccountedBeforeComplete
  <2>1. PICK o \in Op : (Unfinished(o, d) /\ pc[o] # "complete") \/ TornDelete(o, d)
    BY DEF IInv, AccountedBeforeComplete, Dedupe, Live
  <2>2. op # d /\ (jobs[op] # NoRow => jobs[op].document = NoRow)
    BY DEF IInv, TypeOK, PlacesOK, JobsOK, DocumentsOK, Known, Live, Ingests,
           BeforeCommit, Settled, Dedupe
  <2>3. o # op
    BY NoRowFacts, <2>1, <2>2
       DEF IInv, TypeOK, PlacesOK, Ingests, Dedupe, Unfinished, TornDelete
  <2> QED
    BY <2>1, <2>3
       DEF IInv, TypeOK, Unfinished, TornDelete, Dedupe, Goto, RaiseFromFlush, End
<1>10. SyncIngestIsAllOrNothing'
  BY DEF IInv, Dedupe, End, RaiseFromFlush, Goto, Live, SyncIngestIsAllOrNothing,
         PlacesOK, JobsOK, DocumentsOK, ArgumentsOK, Known, Ingests, BeforeCommit, Target,
         TypeOK, Settled
<1> QED
  BY <1>1, <1>2, <1>3, <1>4, <1>5, <1>6, <1>7, <1>8, <1>9, <1>10 DEF IInv

\* The key is free in the table and no other session has flushed it.
LEMMA InsertPreserves == ASSUME IInv, NEW op \in Op, Insert(op) PROVE IInv'
<1>1. TypeOK'
  <2>1. pc' \in [Op -> {"idle"} \union Active \union Settled]
    BY DEF IInv, Insert, Goto, KeyHeld, UniqueKeyFree, Existing, RaiseFromFlush, End,
           TypeOK, Active, WorkerTry, Settled
  <2>2. session' \in [Op -> Session]
    BY NChunksAssumption, NoRowFacts
       DEF IInv, Insert, Goto, KeyHeld, UniqueKeyFree, Existing, RaiseFromFlush, End,
           TypeOK, Session, EmptySession
  <2>3. points' \in [Op -> 0..NChunks]
    BY NChunksAssumption, NoRowFacts
       DEF IInv, Insert, Goto, KeyHeld, UniqueKeyFree, Existing, RaiseFromFlush, End,
           TypeOK
  <2> QED
    BY <2>1, <2>2, <2>3
       DEF IInv, TypeOK, Insert, Goto, KeyHeld, UniqueKeyFree, Existing, RaiseFromFlush,
           End
<1>2. PlacesOK' /\ OneDocumentPerPayload' /\ JobsReferToTheirContext' /\
     TruncatedOnlyUnderFailedJob' /\ RowsImplyCollection'
  BY DEF IInv, Insert, Goto, KeyHeld, UniqueKeyFree, Existing, RaiseFromFlush, End,
         TypeOK, PlacesOK, Ingests, OneDocumentPerPayload, Live, JobsReferToTheirContext,
         TruncatedOnlyUnderFailedJob, RowsImplyCollection
<1>3. ArgumentsOK'
  BY DEF IInv, Insert, Goto, KeyHeld, UniqueKeyFree, Existing, RaiseFromFlush, End,
         TypeOK, PlacesOK, ArgumentsOK, Ingests, Known, Live, IngestContext, Settled
<1>4. SessionOK'
  BY NoRowFacts
     DEF IInv, Insert, Goto, KeyHeld, UniqueKeyFree, Existing, RaiseFromFlush, End,
         TypeOK, PlacesOK, ArgumentsOK, SessionOK, JobsOK, DocumentsOK, Ingests,
         Uncommitted, Known, Live, EmptySession, IngestContext, Session, Settled
<1>5. JobsOK'
  BY DEF IInv, Insert, Goto, KeyHeld, UniqueKeyFree, Existing, RaiseFromFlush, End,
         TypeOK, PlacesOK, JobsOK, Ingests, BeforeCommit, EmptySession, Live, Settled
<1>6. DocumentsOK'
  BY DEF IInv, Insert, Goto, KeyHeld, UniqueKeyFree, Existing, RaiseFromFlush, End,
         TypeOK, PlacesOK, DocumentsOK, Ingests, Known, Live, Target, Settled
<1>7. KeysOK'
  BY DEF IInv, Insert, Goto, KeyHeld, UniqueKeyFree, Existing, RaiseFromFlush, End,
         TypeOK, KeysOK, Uncommitted, Live, IngestContext, EmptySession
<1>8. AccountedBeforeComplete'
  BY DEF IInv, Insert, Goto, KeyHeld, UniqueKeyFree, Existing, RaiseFromFlush, End,
         TypeOK, AccountedBeforeComplete, Unfinished, TornDelete, Live
<1>9. SyncIngestIsAllOrNothing'
  BY DEF IInv, Insert, Goto, KeyHeld, UniqueKeyFree, Existing, RaiseFromFlush, End,
         SyncIngestIsAllOrNothing, PlacesOK, JobsOK, DocumentsOK, ArgumentsOK, Known,
         Live, Ingests, BeforeCommit, Target, TypeOK, Settled
<1> QED
  BY <1>1, <1>2, <1>3, <1>4, <1>5, <1>6, <1>7, <1>8, <1>9 DEF IInv

\* The flushed row is linked to the call's own job.
LEMMA EmbedPreserves == ASSUME IInv, NEW op \in Op, Embed(op) PROVE IInv'
<1>1. TypeOK' /\ PlacesOK' /\ ArgumentsOK' /\ OneDocumentPerPayload'
  BY DEF IInv, Embed, Goto, TypeOK, EmptySession, Active, WorkerTry, Settled, Session,
         PlacesOK, Ingests, ArgumentsOK, Known, Live, IngestContext, OneDocumentPerPayload
<1>2. SessionOK' /\ JobsOK' /\ DocumentsOK'
  BY DEF IInv, Embed, Goto, TypeOK, PlacesOK, SessionOK, Ingests, Uncommitted, Known,
         Live, EmptySession, JobsOK, BeforeCommit, Settled, DocumentsOK, Target
<1>3. KeysOK' /\ JobsReferToTheirContext' /\ AccountedBeforeComplete' /\
     TruncatedOnlyUnderFailedJob' /\ RowsImplyCollection'
  BY DEF IInv, Embed, Goto, TypeOK, KeysOK, Uncommitted, Live, IngestContext,
         EmptySession, JobsReferToTheirContext, AccountedBeforeComplete, Unfinished,
         TornDelete, TruncatedOnlyUnderFailedJob, RowsImplyCollection
<1>4. SyncIngestIsAllOrNothing'
  BY DEF IInv, Embed, Goto, TypeOK, SyncIngestIsAllOrNothing, PlacesOK, Target
<1> QED
  BY <1>1, <1>2, <1>3, <1>4 DEF IInv

\* A worker keeps what it flushed, a synchronous ingest loses it.
LEMMA EmbedFailsPreserves == ASSUME IInv, NEW op \in Op, EmbedFails(op) PROVE IInv'
<1>1. TypeOK'
  BY NChunksAssumption, NoRowFacts
     DEF IInv, EmbedFails, Goto, End, TypeOK, EmptySession, Active, WorkerTry, Settled,
         Session
<1>2. PlacesOK' /\ ArgumentsOK' /\ JobsOK' /\ OneDocumentPerPayload'
  BY DEF IInv, EmbedFails, Goto, End, TypeOK, PlacesOK, Ingests, ArgumentsOK, Known, Live,
         IngestContext, Settled, JobsOK, BeforeCommit, EmptySession, OneDocumentPerPayload
<1>3. SessionOK'
  BY NoRowFacts
     DEF IInv, EmbedFails, Goto, End, TypeOK, PlacesOK, ArgumentsOK, SessionOK, JobsOK,
         DocumentsOK, Ingests, Uncommitted, Known, Live, EmptySession, IngestContext,
         Session, Settled
<1>4. DocumentsOK' /\ JobsReferToTheirContext' /\ AccountedBeforeComplete'
  BY DEF IInv, EmbedFails, Goto, End, TypeOK, PlacesOK, DocumentsOK, Ingests, Known, Live,
         Target, Settled, JobsReferToTheirContext, AccountedBeforeComplete, Unfinished,
         TornDelete
<1>5. KeysOK'
  BY NoRowFacts
     DEF IInv, EmbedFails, Goto, End, TypeOK, KeysOK, SessionOK, Uncommitted, Live,
         IngestContext, EmptySession
<1>6. TruncatedOnlyUnderFailedJob' /\ RowsImplyCollection'
  BY DEF IInv, EmbedFails, Goto, End, TruncatedOnlyUnderFailedJob, Live,
         RowsImplyCollection
<1>7. SyncIngestIsAllOrNothing'
  BY DEF IInv, EmbedFails, Goto, End, SyncIngestIsAllOrNothing, PlacesOK, JobsOK,
         DocumentsOK, ArgumentsOK, Known, Live, Ingests, BeforeCommit, Target, TypeOK,
         Settled
<1> QED
  BY <1>1, <1>2, <1>3, <1>4, <1>5, <1>6, <1>7 DEF IInv

\* Past the check, the collection exists or is about to be created.
LEMMA EnsureCollectionPreserves == ASSUME IInv, NEW op \in Op, EnsureCollection(op) PROVE IInv'
<1>1. TypeOK'
  BY NChunksAssumption, NoRowFacts
     DEF IInv, EnsureCollection, Goto, Raise, End, AfterEnsure, TypeOK, EmptySession,
         Active, WorkerTry, Settled, Session
<1>2. PlacesOK' /\ KeysOK' /\ OneDocumentPerPayload' /\ JobsReferToTheirContext'
  BY DEF IInv, EnsureCollection, Goto, Raise, End, AfterEnsure, TypeOK, PlacesOK, Ingests,
         KeysOK, Uncommitted, Live, IngestContext, EmptySession, OneDocumentPerPayload,
         JobsReferToTheirContext
<1>3. ArgumentsOK'
  BY DEF IInv, EnsureCollection, Goto, Raise, End, AfterEnsure, TypeOK, PlacesOK,
         ArgumentsOK, Ingests, Known, Live, IngestContext, Settled
<1>4. SessionOK'
  BY NoRowFacts
     DEF IInv, EnsureCollection, Goto, Raise, End, AfterEnsure, TypeOK, PlacesOK,
         SessionOK, Ingests, Uncommitted, Known, Live, EmptySession
<1>5. JobsOK'
  BY DEF IInv, EnsureCollection, Goto, Raise, End, AfterEnsure, TypeOK, PlacesOK, JobsOK,
         Ingests, BeforeCommit, EmptySession, Live, Settled
<1>6. DocumentsOK'
  BY DEF IInv, EnsureCollection, Goto, Raise, End, AfterEnsure, TypeOK, PlacesOK,
         DocumentsOK, Ingests, Known, Live, Target, Settled
<1>7. AccountedBeforeComplete' /\ TruncatedOnlyUnderFailedJob' /\ RowsImplyCollection'
  BY DEF IInv, EnsureCollection, Goto, Raise, End, AfterEnsure, TypeOK,
         AccountedBeforeComplete, Unfinished, TornDelete, Live,
         TruncatedOnlyUnderFailedJob, RowsImplyCollection
<1>8. SyncIngestIsAllOrNothing'
  BY DEF IInv, EnsureCollection, Goto, Raise, End, AfterEnsure, SyncIngestIsAllOrNothing,
         PlacesOK, JobsOK, DocumentsOK, ArgumentsOK, Known, Live, Ingests, BeforeCommit,
         Target, TypeOK, Settled
<1> QED
  BY <1>1, <1>2, <1>3, <1>4, <1>5, <1>6, <1>7, <1>8 DEF IInv

\* The collection exists, whoever created it.
LEMMA CreateCollectionPreserves == ASSUME IInv, NEW op \in Op, CreateCollection(op) PROVE IInv'
<1>1. TypeOK'
  <2>1. pc' \in [Op -> {"idle"} \union Active \union Settled]
    BY DEF IInv, CreateCollection, Goto, Raise, End, AfterEnsure, TypeOK, Active,
           WorkerTry, Settled
  <2>2. session' \in [Op -> Session]
    BY DEF IInv, CreateCollection, Goto, Raise, End, AfterEnsure, TypeOK, Session,
           EmptySession
  <2>3. points' \in [Op -> 0..NChunks]
    BY NChunksAssumption, NoRowFacts
       DEF IInv, CreateCollection, Goto, Raise, End, AfterEnsure, TypeOK
  <2>4. collection' \in BOOLEAN
    BY DEF IInv, CreateCollection, Goto, Raise, End, AfterEnsure, TypeOK
  <2> QED
    BY <2>1, <2>2, <2>3, <2>4
       DEF IInv, TypeOK, CreateCollection, Goto, Raise, End, AfterEnsure
<1>2. PlacesOK' /\ KeysOK' /\ OneDocumentPerPayload' /\ JobsReferToTheirContext'
  BY DEF IInv, CreateCollection, Goto, Raise, End, AfterEnsure, TypeOK, PlacesOK, Ingests,
         KeysOK, Uncommitted, Live, IngestContext, EmptySession, OneDocumentPerPayload,
         JobsReferToTheirContext
<1>3. ArgumentsOK'
  BY DEF IInv, CreateCollection, Goto, Raise, End, AfterEnsure, TypeOK, PlacesOK,
         ArgumentsOK, Ingests, Known, Live, IngestContext, Settled
<1>4. SessionOK'
  BY NoRowFacts
     DEF IInv, CreateCollection, Goto, Raise, End, AfterEnsure, TypeOK, PlacesOK,
         SessionOK, Ingests, Uncommitted, Known, Live, EmptySession
<1>5. JobsOK'
  BY DEF IInv, CreateCollection, Goto, Raise, End, AfterEnsure, TypeOK, PlacesOK, JobsOK,
         Ingests, BeforeCommit, EmptySession, Live, Settled
<1>6. DocumentsOK'
  BY DEF IInv, CreateCollection, Goto, Raise, End, AfterEnsure, TypeOK, PlacesOK,
         DocumentsOK, Ingests, Known, Live, Target, Settled
<1>7. AccountedBeforeComplete' /\ TruncatedOnlyUnderFailedJob' /\ RowsImplyCollection'
  BY DEF IInv, CreateCollection, Goto, Raise, End, AfterEnsure, TypeOK,
         AccountedBeforeComplete, Unfinished, TornDelete, Live,
         TruncatedOnlyUnderFailedJob, RowsImplyCollection
<1>8. SyncIngestIsAllOrNothing'
  BY DEF IInv, CreateCollection, Goto, Raise, End, AfterEnsure, SyncIngestIsAllOrNothing,
         PlacesOK, JobsOK, DocumentsOK, ArgumentsOK, Known, Live, Ingests, BeforeCommit,
         Target, TypeOK, Settled
<1> QED
  BY <1>1, <1>2, <1>3, <1>4, <1>5, <1>6, <1>7, <1>8 DEF IInv

\* Rows and points grow together, up to NChunks.
LEMMA WriteRowPreserves == ASSUME IInv, NEW op \in Op, WriteRow(op) PROVE IInv'
<1>1. TypeOK'
  BY NChunksAssumption, NoRowFacts
     DEF IInv, WriteRow, TypeOK, EmptySession, Active, WorkerTry, Settled, Session, Job,
         JobStatus, JobsOK, SessionOK, PlacesOK, ArgumentsOK, Uncommitted, Ingests,
         IngestContext, Call, Document
<1>2. PlacesOK' /\ ArgumentsOK' /\ JobsOK' /\ DocumentsOK' /\ OneDocumentPerPayload'
  BY DEF IInv, WriteRow, TypeOK, PlacesOK, Ingests, ArgumentsOK, Known, Live,
         IngestContext, Settled, JobsOK, BeforeCommit, EmptySession, DocumentsOK, Target,
         OneDocumentPerPayload
<1>3. SessionOK'
  BY NChunksAssumption, NoRowFacts
     DEF IInv, WriteRow, TypeOK, PlacesOK, ArgumentsOK, SessionOK, JobsOK, DocumentsOK,
         Ingests, Uncommitted, Known, Live, EmptySession, IngestContext, Session, Settled
<1>4. KeysOK' /\ JobsReferToTheirContext' /\ AccountedBeforeComplete' /\
     TruncatedOnlyUnderFailedJob' /\ RowsImplyCollection'
  BY DEF IInv, WriteRow, TypeOK, KeysOK, SessionOK, Uncommitted, Live, IngestContext,
         EmptySession, JobsReferToTheirContext, AccountedBeforeComplete, Unfinished,
         TornDelete, TruncatedOnlyUnderFailedJob, RowsImplyCollection
<1>5. SyncIngestIsAllOrNothing'
  BY DEF IInv, WriteRow, TypeOK, SyncIngestIsAllOrNothing, PlacesOK, Target
<1> QED
  BY <1>1, <1>2, <1>3, <1>4, <1>5 DEF IInv

\* The document becomes visible with all its rows and with a running job,
\* which accounts for the vectors that are not written yet.
LEMMA CommitDocumentPreserves == ASSUME IInv, NEW op \in Op, CommitDocument(op) PROVE IInv'
<1>a. PICK job \in CommittedJobs(op) : jobs' = [jobs EXCEPT ![op] = job]
  BY DEF CommitDocument
<1>0. job \in Job /\ job.status # "completed" /\ job.document = op /\ job.ctx = IngestContext(op)
  <2>1. session[op].link = op /\ call[op] \in Call /\ jobs[op] \in Job \union {NoRow}
        /\ pc[op] = "rows"
    BY DEF IInv, TypeOK, PlacesOK, SessionOK, CommitDocument
  <2>2. CASE jobs[op] = NoRow
    BY <1>a, <2>1, <2>2 DEF CommittedJobs, IngestContext, Job, JobStatus, Call
  <2>3. CASE jobs[op] # NoRow
    <3>1. jobs[op].status # "completed"
      BY <2>1, <2>3 DEF IInv, JobsOK, Settled
    <3> QED
      BY <1>a, <2>1, <2>3, <3>1 DEF CommittedJobs, IngestContext, Job, JobStatus
  <2> QED
    BY <2>2, <2>3
<1>1. TypeOK'
  BY <1>a, <1>0 DEF IInv, CommitDocument, Goto, AllRowsWritten, FlushedDocument,
         TypeOK, EmptySession, Active, WorkerTry, Settled, Session, Job, JobStatus,
         JobsOK, SessionOK, PlacesOK, ArgumentsOK, Uncommitted, Ingests, IngestContext,
         Call, Document
<1>2. PlacesOK' /\ SyncIngestIsAllOrNothing'
  BY <1>a, <1>0 DEF IInv, CommitDocument, Goto, AllRowsWritten, FlushedDocument,
         TypeOK, PlacesOK, Ingests, SyncIngestIsAllOrNothing, Target
<1>3. ArgumentsOK'
  BY <1>a, <1>0 DEF IInv, CommitDocument, Goto, AllRowsWritten, FlushedDocument,
         TypeOK, PlacesOK, ArgumentsOK, DocumentsOK, JobsOK, Ingests, Known, Live,
         IngestContext, BeforeCommit, Settled, Document, Call
<1>4. SessionOK'
  BY <1>a, <1>0, NoRowFacts
     DEF IInv, CommitDocument, Goto, AllRowsWritten, FlushedDocument,
         TypeOK, PlacesOK, SessionOK, Ingests, Uncommitted, Known, Live, EmptySession
<1>5. JobsOK'
  <2>1. Ingests(op) /\ call[op].kind # "delete" /\ op \notin Known
    BY DEF IInv, PlacesOK, SessionOK, Ingests, CommitDocument
  <2>2. /\ jobs' = [jobs EXCEPT ![op] = job]
        /\ pc' = [pc EXCEPT ![op] = "refresh"]
        /\ session' = [session EXCEPT ![op] = EmptySession]
        /\ UNCHANGED call
    BY <1>a DEF CommitDocument, Goto
  <2>3. \A d \in Op : d # op => Live(d)' = Live(d)
    BY DEF IInv, TypeOK, CommitDocument, Live
  <2>4. \A o \in Op : call[o].kind = "reindex" => call[o].document # op
    BY <2>1 DEF IInv, ArgumentsOK
  <2>5. \A o \in Op \ {op} : /\ jobs'[o] = jobs[o] /\ pc'[o] = pc[o]
                              /\ session'[o] = session[o] /\ call'[o] = call[o]
    BY <2>2 DEF IInv, TypeOK
  <2>6. /\ jobs'[op] = job /\ jobs'[op] # NoRow /\ pc'[op] = "refresh"
        /\ session'[op] = EmptySession /\ call'[op] = call[op]
        /\ call[op].kind \in {"ingest", "worker"}
    BY <1>0, <2>1, <2>2, NoRowFacts DEF IInv, TypeOK, Ingests
  <2>7. \A o \in Op \ {op} :
        call[o].kind = "reindex" => (Live(call[o].document)' <=> Live(call[o].document))
    <3>1. \A o \in Op : call[o].kind = "reindex" => call[o].document \in Op
      BY DEF IInv, TypeOK, ArgumentsOK, Known
    <3>2. \A d \in Op : d # op => (documents'[d] # NoRow <=> documents[d] # NoRow)
      BY <2>3 DEF Live
    <3> QED
      BY <2>2, <2>4, <3>1, <3>2 DEF Live
  <2> SUFFICES ASSUME NEW o \in Op
      PROVE
        /\ pc'[o] \in {"idle", "rjob"} \/ call'[o].kind = "delete" => jobs'[o] = NoRow
        /\ call'[o].kind = "ingest" /\ pc'[o] \in BeforeCommit => jobs'[o] = NoRow
        /\ call'[o].kind = "worker" => jobs'[o] # NoRow
        /\ call'[o].kind = "worker" /\ (pc'[o] \in BeforeCommit \/ session'[o] # EmptySession)
           => jobs'[o].document = NoRow
        /\ pc'[o] \in {"refresh", "upsert", "complete", "answer", "failing"} => jobs'[o] # NoRow
        /\ call'[o].kind = "reindex"
           /\ pc'[o] \in {"rload", "ensure", "create", "rdelete", "upsert", "complete", "failing"}
           => /\ jobs'[o] # NoRow
              /\ jobs'[o].document = IF Live(call[o].document)' THEN call[o].document ELSE NoRow
        /\ call'[o].kind \in {"ingest", "worker"} /\ pc'[o] \in {"refresh", "upsert", "complete"}
           => jobs'[o].document \in {NoRow, o}
        /\ jobs'[o] # NoRow /\ jobs'[o].status = "completed"
           => pc'[o] \in {"answer", "failing"} \union Settled
    BY <2>2 DEF JobsOK, Ingests, BeforeCommit, Settled, Live, EmptySession
  <2>8. CASE o = op
    BY <1>0, <2>6, <2>8 DEF BeforeCommit
  <2>9. CASE o # op
    <3>1. o \in Op \ {op}
      BY <2>9
    <3> QED
      BY <2>5, <2>7, <3>1 DEF IInv, JobsOK, Ingests
  <2> QED
    BY <2>8, <2>9
<1>6. DocumentsOK'
  <2>1. /\ points[op] = session[op].rows /\ op \notin Known /\ collection
       /\ Ingests(op) /\ call[op].document = NoRow
    BY DEF IInv, PlacesOK, SessionOK, ArgumentsOK, DocumentsOK, Settled, CommitDocument
  <2>2. ASSUME NEW o \in Op, o # op, Target(o) = op,
               pc[o] \in {"ensure", "create", "refresh", "upsert", "rdelete"},
               pc[o] \in {"ensure", "create"} => call[o].kind = "reindex"
        PROVE  FALSE
    BY <2>1, <2>2
       DEF IInv, TypeOK, PlacesOK, ArgumentsOK, DocumentsOK, Ingests, Settled, Target
  <2>3. \A o \in Op : Target(o)' = Target(o)
    BY DEF CommitDocument, Target
  <2>a. FlushedDocument(op) \in Document
    BY <2>1
       DEF IInv, TypeOK, PlacesOK, SessionOK, ArgumentsOK, Uncommitted, Ingests, Document,
           Session, Call, Job, IngestContext, FlushedDocument, CommitDocument
  <2>4. Known' = Known \union {op}
    BY NoRowFacts, <2>a DEF IInv, TypeOK, Known, Live, CommitDocument
  <2>5. FlushedDocument(op).rows = NChunks
    BY DEF CommitDocument, AllRowsWritten, FlushedDocument
  <2>6. ~(documents'[op].rows < NChunks)
    BY <2>5, NChunksAssumption DEF IInv, TypeOK, CommitDocument
  <2> QED
    BY <2>1, <2>2, <2>3, <2>4, <2>6
       DEF IInv, TypeOK, DocumentsOK, Ingests, Live, Target, Settled, CommitDocument,
           FlushedDocument, Goto
<1>7. KeysOK'
  BY <1>a, <1>0, NChunksAssumption, NoRowFacts
     DEF IInv, CommitDocument, Goto, AllRowsWritten, FlushedDocument,
         TypeOK, KeysOK, Uncommitted, Live, IngestContext, EmptySession
<1>8. OneDocumentPerPayload'
  BY <1>a, <1>0, NChunksAssumption, NoRowFacts
     DEF IInv, CommitDocument, Goto, AllRowsWritten, FlushedDocument,
         TypeOK, OneDocumentPerPayload, KeysOK, Uncommitted, Live, IngestContext
<1>9. JobsReferToTheirContext'
  BY <1>a, <1>0, NoRowFacts
     DEF IInv, CommitDocument, Goto, AllRowsWritten, FlushedDocument,
         TypeOK, PlacesOK, ArgumentsOK, SessionOK, JobsOK, DocumentsOK, KeysOK,
         OneDocumentPerPayload, JobsReferToTheirContext, AccountedBeforeComplete,
         TruncatedOnlyUnderFailedJob, RowsImplyCollection, SyncIngestIsAllOrNothing,
         Ingests, Uncommitted, BeforeCommit, Document, Job, Call, Session, AllKinds,
         JobStatus, EmptySession, WorkerTry, Active, Settled, Live, IngestContext, Known,
         Target, Unfinished, TornDelete
<1>10. AccountedBeforeComplete'
  <2> SUFFICES ASSUME NEW d \in Op, Live(d)', vectors'[d] < documents'[d].rows
               PROVE  \E o \in Op : (Unfinished(o, d)' /\ pc'[o] # "complete") \/ TornDelete(o, d)'
    BY DEF AccountedBeforeComplete
  <2>1. CASE d = op
    <3>1. Unfinished(op, d)' /\ pc'[op] # "complete"
      BY <1>a, <1>0, NoRowFacts, <2>1 DEF IInv, TypeOK, Unfinished, CommitDocument, Goto
    <3> QED
      BY <3>1
  <2>2. CASE d # op
    <3>1. PICK o \in Op : (Unfinished(o, d) /\ pc[o] # "complete") \/ TornDelete(o, d)
      BY <2>2 DEF IInv, TypeOK, AccountedBeforeComplete, CommitDocument, Live
    <3>2. jobs[op] # NoRow => jobs[op].document = NoRow
      BY DEF IInv, TypeOK, PlacesOK, JobsOK, Ingests, BeforeCommit, CommitDocument
    <3>3. o # op
      BY NoRowFacts, <2>2, <3>1, <3>2
         DEF IInv, TypeOK, PlacesOK, Ingests, CommitDocument, Unfinished, TornDelete
    <3> QED
      BY <3>1, <3>3 DEF IInv, TypeOK, Unfinished, TornDelete, CommitDocument, Goto
  <2> QED
    BY <2>1, <2>2
<1>11. TruncatedOnlyUnderFailedJob'
  BY <1>a, <1>0, NChunksAssumption, NoRowFacts
     DEF IInv, CommitDocument, Goto, AllRowsWritten, FlushedDocument,
         TypeOK, TruncatedOnlyUnderFailedJob, Live
<1>12. RowsImplyCollection'
  BY <1>a, <1>0 DEF IInv, CommitDocument, Goto, AllRowsWritten, FlushedDocument,
         TypeOK, RowsImplyCollection, DocumentsOK, SessionOK, Uncommitted, Live, Document
<1> QED
  BY <1>1, <1>2, <1>3, <1>4, <1>5, <1>6, <1>7, <1>8, <1>9, <1>10, <1>11, <1>12 DEF IInv

\* A document that is still live goes on with all its points in memory.
LEMMA RefreshPreserves == ASSUME IInv, NEW op \in Op, Refresh(op) PROVE IInv'
<1>1. TypeOK'
  BY NChunksAssumption, NoRowFacts
     DEF IInv, Refresh, Goto, Raise, End, TypeOK, EmptySession, Active, WorkerTry,
         Settled, Session
<1>2. PlacesOK' /\ KeysOK' /\ OneDocumentPerPayload' /\ JobsReferToTheirContext' /\
     TruncatedOnlyUnderFailedJob'
  BY DEF IInv, Refresh, Goto, Raise, End, TypeOK, PlacesOK, Ingests, KeysOK, Uncommitted,
         Live, IngestContext, EmptySession, OneDocumentPerPayload,
         JobsReferToTheirContext, TruncatedOnlyUnderFailedJob
<1>3. ArgumentsOK'
  BY DEF IInv, Refresh, Goto, Raise, End, TypeOK, PlacesOK, ArgumentsOK, Ingests, Known,
         Live, IngestContext, Settled
<1>4. SessionOK'
  BY DEF IInv, Refresh, Goto, Raise, End, TypeOK, PlacesOK, SessionOK, Ingests,
         Uncommitted, Known, Live, EmptySession
<1>5. JobsOK'
  BY DEF IInv, Refresh, Goto, Raise, End, TypeOK, PlacesOK, JobsOK, Ingests, BeforeCommit,
         EmptySession, Live, Settled
<1>6. DocumentsOK'
  BY DEF IInv, Refresh, Goto, Raise, End, TypeOK, PlacesOK, DocumentsOK, Ingests, Known,
         Live, Target, Settled
<1>7. AccountedBeforeComplete' /\ RowsImplyCollection'
  BY DEF IInv, Refresh, Goto, Raise, End, TypeOK, AccountedBeforeComplete, Unfinished,
         TornDelete, Live, RowsImplyCollection
<1>8. SyncIngestIsAllOrNothing'
  BY DEF IInv, Refresh, Goto, Raise, End, SyncIngestIsAllOrNothing, PlacesOK, JobsOK,
         DocumentsOK, ArgumentsOK, Known, Live, Ingests, BeforeCommit, Target, TypeOK,
         Settled
<1> QED
  BY <1>1, <1>2, <1>3, <1>4, <1>5, <1>6, <1>7, <1>8 DEF IInv

\* The points written are all the rows of the document, if it is still live.
LEMMA UpsertPreserves == ASSUME IInv, NEW op \in Op, Upsert(op) PROVE IInv'
<1>1. TypeOK'
  <2>1. pc' \in [Op -> {"idle"} \union Active \union Settled]
    BY DEF IInv, Upsert, Goto, TypeOK, Active, WorkerTry, Settled
  <2>2. vectors' \in [Op -> 0..NChunks]
    BY DEF IInv, Upsert, Goto, TypeOK
  <2> QED
    BY <2>1, <2>2 DEF IInv, TypeOK, Upsert, Goto
<1>2. PlacesOK' /\ ArgumentsOK' /\ SessionOK' /\ JobsOK'
  BY DEF IInv, Upsert, Goto, TypeOK, PlacesOK, Ingests, ArgumentsOK, Known, Live,
         IngestContext, Settled, SessionOK, Uncommitted, EmptySession, JobsOK,
         BeforeCommit
<1>3. DocumentsOK' /\ KeysOK' /\ OneDocumentPerPayload'
  BY DEF IInv, Upsert, Goto, TypeOK, PlacesOK, DocumentsOK, Ingests, Known, Live, Target,
         Settled, KeysOK, Uncommitted, IngestContext, EmptySession, OneDocumentPerPayload
<1>4. JobsReferToTheirContext' /\ TruncatedOnlyUnderFailedJob' /\ RowsImplyCollection'
     /\ SyncIngestIsAllOrNothing'
  BY DEF IInv, Upsert, Goto, JobsReferToTheirContext, Live, TruncatedOnlyUnderFailedJob,
         TypeOK, RowsImplyCollection, DocumentsOK, SessionOK, Uncommitted, Document,
         SyncIngestIsAllOrNothing, PlacesOK, Target
<1>5. AccountedBeforeComplete'
  <2> SUFFICES ASSUME NEW d \in Op, Live(d)', vectors'[d] < documents'[d].rows
               PROVE  \E o \in Op : (Unfinished(o, d)' /\ pc'[o] # "complete") \/ TornDelete(o, d)'
    BY DEF AccountedBeforeComplete
  <2>1. d # Target(op)
    BY DEF IInv, TypeOK, DocumentsOK, Document, Upsert, Live, Target
  <2>2. PICK o \in Op : (Unfinished(o, d) /\ pc[o] # "complete") \/ TornDelete(o, d)
    BY <2>1 DEF IInv, TypeOK, AccountedBeforeComplete, Upsert, Live, Target
  <2>3. jobs[op] # NoRow => jobs[op].document \in {NoRow, Target(op)}
    BY DEF IInv, TypeOK, PlacesOK, ArgumentsOK, JobsOK, Ingests, Settled, Upsert, Target
  <2>4. op # d
    BY <2>1
       DEF IInv, TypeOK, PlacesOK, ArgumentsOK, DocumentsOK, Ingests, Known, Live,
           Settled, Upsert, Target
  <2>5. o # op
    BY NoRowFacts, <2>1, <2>2, <2>3, <2>4 DEF IInv, TypeOK, Upsert, Unfinished, TornDelete
  <2> QED
    BY <2>2, <2>5 DEF IInv, TypeOK, Unfinished, TornDelete, Upsert, Goto
<1> QED
  BY <1>1, <1>2, <1>3, <1>4, <1>5 DEF IInv

\* The job stays unfinished and accounts for what Qdrant has not applied.
LEMMA UpsertFailsPreserves == ASSUME IInv, NEW op \in Op, UpsertFails(op) PROVE IInv'
<1>1. TypeOK' /\ PlacesOK' /\ ArgumentsOK' /\ SessionOK'
  BY DEF IInv, UpsertFails, Goto, TypeOK, EmptySession, Active, WorkerTry, Settled,
         PlacesOK, Ingests, ArgumentsOK, Known, Live, IngestContext, SessionOK,
         Uncommitted
<1>2. JobsOK' /\ DocumentsOK' /\ OneDocumentPerPayload' /\ JobsReferToTheirContext'
  BY DEF IInv, UpsertFails, Goto, TypeOK, PlacesOK, JobsOK, Ingests, BeforeCommit,
         EmptySession, Live, Settled, DocumentsOK, Known, Target, OneDocumentPerPayload,
         JobsReferToTheirContext
<1>3. KeysOK' /\ TruncatedOnlyUnderFailedJob' /\ RowsImplyCollection'
  BY DEF IInv, UpsertFails, Goto, TypeOK, KeysOK, Uncommitted, Live, IngestContext,
         EmptySession, TruncatedOnlyUnderFailedJob, RowsImplyCollection, DocumentsOK,
         SessionOK, Document
<1>4. AccountedBeforeComplete'
  BY DEF IInv, UpsertFails, Goto, TypeOK, AccountedBeforeComplete, PlacesOK, JobsOK,
         SessionOK, DocumentsOK, Unfinished, TornDelete, Live, Known, Ingests,
         Uncommitted, BeforeCommit, Target, Document
<1>5. SyncIngestIsAllOrNothing'
  BY DEF IInv, UpsertFails, Goto, TypeOK, SyncIngestIsAllOrNothing, PlacesOK, Target
<1> QED
  BY <1>1, <1>2, <1>3, <1>4, <1>5 DEF IInv

\* The points have been written: the job is no longer needed as a witness.
LEMMA CompletePreserves == ASSUME IInv, NEW op \in Op, Complete(op) PROVE IInv'
<1>1. TypeOK' /\ PlacesOK' /\ OneDocumentPerPayload' /\ RowsImplyCollection'
  BY DEF IInv, Complete, Goto, TypeOK, EmptySession, Active, WorkerTry, Settled, Job,
         JobStatus, JobsOK, PlacesOK, Ingests, OneDocumentPerPayload, Live,
         RowsImplyCollection
<1>2. ArgumentsOK' /\ SessionOK' /\ DocumentsOK'
  BY DEF IInv, Complete, Goto, TypeOK, PlacesOK, ArgumentsOK, Ingests, Known, Live,
         IngestContext, Settled, SessionOK, Uncommitted, EmptySession, DocumentsOK, Target
<1>3. JobsOK'
  BY NChunksAssumption, ContextAssumption, NoRowAssumption, NoRowFacts
     DEF IInv, Complete, Goto, TypeOK, PlacesOK, JobsOK, SessionOK, Ingests, Uncommitted,
         BeforeCommit, EmptySession, Live, Settled, Job
<1>4. KeysOK' /\ JobsReferToTheirContext'
  BY DEF IInv, Complete, Goto, TypeOK, KeysOK, SessionOK, Uncommitted, Live,
         IngestContext, EmptySession, JobsReferToTheirContext, JobsOK, PlacesOK,
         ArgumentsOK, Ingests
<1>5. AccountedBeforeComplete' /\ TruncatedOnlyUnderFailedJob' /\
     SyncIngestIsAllOrNothing'
  BY DEF IInv, Complete, Goto, TypeOK, AccountedBeforeComplete, Unfinished, TornDelete,
         Live, TruncatedOnlyUnderFailedJob, DocumentsOK, JobsOK, PlacesOK, Known,
         SyncIngestIsAllOrNothing, Target
<1> QED
  BY <1>1, <1>2, <1>3, <1>4, <1>5 DEF IInv

\* The answer changes no row.
LEMMA AnswerPreserves == ASSUME IInv, NEW op \in Op, Answer(op) PROVE IInv'
<1>1. TypeOK'
  <2>1. pc' \in [Op -> {"idle"} \union Active \union Settled]
    BY DEF IInv, Answer, Raise, End, Goto, Target, Live, TypeOK, Active, WorkerTry,
           Settled
  <2>2. session' \in [Op -> Session]
    BY DEF IInv, Answer, Raise, End, Goto, Target, Live, TypeOK, Session, EmptySession
  <2>3. points' \in [Op -> 0..NChunks]
    BY NChunksAssumption, NoRowFacts
       DEF IInv, Answer, Raise, End, Goto, Target, Live, TypeOK
  <2> QED
    BY <2>1, <2>2, <2>3 DEF IInv, TypeOK, Answer, Raise, End, Goto, Target, Live
<1>2. PlacesOK' /\ KeysOK' /\ OneDocumentPerPayload' /\ JobsReferToTheirContext'
  BY DEF IInv, Answer, Raise, End, Goto, Target, Live, TypeOK, PlacesOK, Ingests, KeysOK,
         Uncommitted, IngestContext, EmptySession, OneDocumentPerPayload,
         JobsReferToTheirContext
<1>3. ArgumentsOK'
  BY DEF IInv, Answer, Raise, End, Goto, Target, Live, TypeOK, PlacesOK, ArgumentsOK,
         Ingests, Known, IngestContext, Settled
<1>4. SessionOK'
  BY DEF IInv, Answer, Raise, End, Goto, Target, Live, TypeOK, PlacesOK, SessionOK,
         Ingests, Uncommitted, Known, EmptySession
<1>5. JobsOK'
  BY DEF IInv, Answer, Raise, End, Goto, Target, Live, TypeOK, PlacesOK, JobsOK, Ingests,
         BeforeCommit, EmptySession, Settled
<1>6. DocumentsOK'
  BY DEF IInv, Answer, Raise, End, Goto, Target, Live, TypeOK, PlacesOK, DocumentsOK,
         Ingests, Known, Settled
<1>7. AccountedBeforeComplete' /\ TruncatedOnlyUnderFailedJob' /\ RowsImplyCollection'
  BY DEF IInv, Answer, Raise, End, Goto, Target, Live, TypeOK, AccountedBeforeComplete,
         Unfinished, TornDelete, TruncatedOnlyUnderFailedJob, RowsImplyCollection
<1>8. SyncIngestIsAllOrNothing'
  BY DEF IInv, Answer, Raise, End, Goto, Target, Live, SyncIngestIsAllOrNothing, PlacesOK,
         JobsOK, DocumentsOK, Known, Ingests, BeforeCommit, TypeOK
<1> QED
  BY <1>1, <1>2, <1>3, <1>4, <1>5, <1>6, <1>7, <1>8 DEF IInv

\* What the session of a worker had flushed becomes a document of a failed job.
LEMMA MarkJobFailedPreserves == ASSUME IInv, NEW op \in Op, MarkJobFailed(op) PROVE IInv'
<1>1. TypeOK'
  <2>1. pc' \in [Op -> {"idle"} \union Active \union Settled]
    BY DEF IInv, MarkJobFailed, FlushedDocument, End, Goto, IngestContext, TypeOK, Active,
           WorkerTry, Settled
  <2>2. session' \in [Op -> Session]
    BY DEF IInv, MarkJobFailed, FlushedDocument, End, Goto, IngestContext, TypeOK,
           Session, EmptySession
  <2>3. points' \in [Op -> 0..NChunks]
    BY NChunksAssumption, NoRowFacts
       DEF IInv, MarkJobFailed, FlushedDocument, End, Goto, IngestContext, TypeOK
  <2>4. documents' \in [Op -> Document \union {NoRow}]
    BY DEF IInv, MarkJobFailed, FlushedDocument, End, Goto, IngestContext, TypeOK,
           Document, SessionOK, Uncommitted, Ingests, ArgumentsOK, PlacesOK, JobsOK, Job,
           Call
  <2>5. jobs' \in [Op -> Job \union {NoRow}]
    BY DEF IInv, MarkJobFailed, FlushedDocument, End, Goto, IngestContext, TypeOK, JobsOK,
           Job, JobStatus
  <2> QED
    BY <2>1, <2>2, <2>3, <2>4, <2>5
       DEF IInv, TypeOK, MarkJobFailed, FlushedDocument, End, Goto, IngestContext
<1>2. PlacesOK' /\ OneDocumentPerPayload'
  BY DEF IInv, MarkJobFailed, FlushedDocument, End, Goto, IngestContext, TypeOK, PlacesOK,
         Ingests, OneDocumentPerPayload, KeysOK, Uncommitted, Live
<1>3. ArgumentsOK'
  BY DEF IInv, MarkJobFailed, FlushedDocument, End, Goto, IngestContext, TypeOK, PlacesOK,
         ArgumentsOK, SessionOK, DocumentsOK, JobsOK, Ingests, Uncommitted, Known, Live,
         Settled, Document, Job, Call
<1>4. SessionOK'
  BY NoRowFacts
     DEF IInv, MarkJobFailed, FlushedDocument, End, Goto, IngestContext, TypeOK, PlacesOK,
         SessionOK, Ingests, Uncommitted, Known, Live, EmptySession
<1>5. JobsOK'
  BY NoRowFacts
     DEF IInv, MarkJobFailed, FlushedDocument, End, Goto, IngestContext, TypeOK, PlacesOK,
         ArgumentsOK, SessionOK, JobsOK, DocumentsOK, KeysOK, OneDocumentPerPayload,
         JobsReferToTheirContext, AccountedBeforeComplete, TruncatedOnlyUnderFailedJob,
         RowsImplyCollection, SyncIngestIsAllOrNothing, Ingests, Uncommitted,
         BeforeCommit, Document, Job, Call, Session, AllKinds, JobStatus, EmptySession,
         WorkerTry, Active, Settled, Live, Known, Target, Unfinished, TornDelete
<1>6. DocumentsOK'
  BY DEF IInv, MarkJobFailed, FlushedDocument, End, Goto, IngestContext, TypeOK, PlacesOK,
         DocumentsOK, SessionOK, ArgumentsOK, Ingests, Uncommitted, Known, Live, Target,
         Settled, EmptySession
<1>7. KeysOK'
  BY NoRowFacts
     DEF IInv, MarkJobFailed, FlushedDocument, End, Goto, IngestContext, TypeOK, KeysOK,
         Uncommitted, Live, EmptySession
<1>8. JobsReferToTheirContext'
  BY DEF IInv, MarkJobFailed, FlushedDocument, End, Goto, IngestContext, TypeOK,
         JobsReferToTheirContext, JobsOK, PlacesOK, SessionOK, ArgumentsOK, DocumentsOK,
         Known, Live, Ingests, Uncommitted, Document, Job, BeforeCommit
<1>9. AccountedBeforeComplete'
  <2> SUFFICES ASSUME NEW d \in Op, Live(d)', vectors'[d] < documents'[d].rows
               PROVE  \E o \in Op : (Unfinished(o, d)' /\ pc'[o] # "complete") \/ TornDelete(o, d)'
    BY DEF AccountedBeforeComplete
  <2>1. /\ pc[op] = "failing" /\ pc'[op] = "raised" /\ jobs[op] # NoRow
        /\ call[op].kind # "delete" /\ UNCHANGED <<call, vectors>>
    BY DEF IInv, TypeOK, PlacesOK, JobsOK, Ingests, MarkJobFailed, End, Goto
  <2>2. \A o \in Op \ {op} : /\ pc'[o] = pc[o] /\ jobs'[o] = jobs[o]
                              /\ documents'[o] = documents[o]
    BY DEF IInv, TypeOK, MarkJobFailed, End, Goto
  <2>3. session[op].link # NoRow => jobs[op].document = NoRow
    <3>1. session[op].link # NoRow => call[op].kind = "worker" /\ session[op] # EmptySession
      BY <2>1 DEF IInv, SessionOK, EmptySession
    <3> QED
      BY <3>1 DEF IInv, JobsOK
  <2>4. /\ jobs'[op] # NoRow
        /\ jobs[op].status # "completed" => jobs'[op].status # "completed"
        /\ jobs[op].document # NoRow => jobs'[op].document = jobs[op].document
    <3>1. CASE jobs' = jobs
      BY <2>1, <3>1
    <3>2. CASE jobs' = [jobs EXCEPT ![op].status = "failed",
                                    ![op].document = IF session[op].link = NoRow
                                                     THEN @ ELSE session[op].link]
      <4>1. jobs[op] \in Job
        BY <2>1 DEF IInv, TypeOK
      <4>2. /\ jobs'[op] \in [status : {"failed"}, ctx : Context, document : Op \union {NoRow}]
            /\ session[op].link = NoRow => jobs'[op].document = jobs[op].document
        BY <3>2, <4>1 DEF IInv, TypeOK, Job, Session
      <4>3. jobs'[op] \in Job /\ jobs'[op].status = "failed"
        BY <4>2 DEF Job, JobStatus
      <4> QED
        BY <2>3, <4>2, <4>3, NoRowFacts
    <3> QED
      BY <3>1, <3>2 DEF MarkJobFailed
  <2>5. CASE documents' = documents
    <3>1. PICK o \in Op : (Unfinished(o, d) /\ pc[o] # "complete") \/ TornDelete(o, d)
      BY <2>1, <2>5 DEF IInv, AccountedBeforeComplete, Live
    <3>2. CASE o = op
      <4>1. Unfinished(op, d)
        BY <2>1, <3>1, <3>2 DEF TornDelete
      <4>2. Unfinished(op, d)'
        BY <2>4, <4>1, NoRowFacts DEF Unfinished
      <4> QED
        BY <2>1, <4>2
    <3>3. CASE o # op
      BY <2>1, <2>2, <3>1, <3>3 DEF Unfinished, TornDelete
    <3> QED
      BY <3>2, <3>3
  <2>6. CASE documents' # documents
    <3>1. /\ Uncommitted(op)
          /\ jobs' = [jobs EXCEPT ![op].status = "failed",
                                  ![op].document = IF session[op].link = NoRow
                                                   THEN @ ELSE session[op].link]
      BY <2>6 DEF MarkJobFailed, Uncommitted
    <3>2. jobs'[op].status = "failed"
      BY <2>1, <3>1 DEF IInv, TypeOK, Job
    <3>3. CASE d = op
      BY <2>1, <2>4, <3>2, <3>3 DEF Unfinished
    <3>4. CASE d # op
      <4>1. PICK o \in Op : (Unfinished(o, d) /\ pc[o] # "complete") \/ TornDelete(o, d)
        BY <2>1, <2>2, <3>4 DEF IInv, AccountedBeforeComplete, Live
      <4>2. CASE o = op
        BY <2>1, <2>4, <4>1, <4>2, NoRowFacts DEF Unfinished, TornDelete
      <4>3. CASE o # op
        BY <2>1, <2>2, <4>1, <4>3 DEF Unfinished, TornDelete
      <4> QED
        BY <4>2, <4>3
    <3> QED
      BY <3>3, <3>4
  <2> QED
    BY <2>5, <2>6
<1>10. TruncatedOnlyUnderFailedJob'
  BY DEF IInv, MarkJobFailed, FlushedDocument, End, Goto, IngestContext, TypeOK, PlacesOK,
         ArgumentsOK, SessionOK, JobsOK, DocumentsOK, KeysOK, OneDocumentPerPayload,
         JobsReferToTheirContext, AccountedBeforeComplete, TruncatedOnlyUnderFailedJob,
         RowsImplyCollection, SyncIngestIsAllOrNothing, Ingests, Uncommitted,
         BeforeCommit, Document, Job, Call, Session, AllKinds, JobStatus, EmptySession,
         WorkerTry, Active, Settled, Live, Known, Target, Unfinished, TornDelete
<1>11. RowsImplyCollection'
  BY DEF IInv, MarkJobFailed, FlushedDocument, End, Goto, IngestContext, TypeOK,
         RowsImplyCollection, DocumentsOK, SessionOK, Uncommitted, Live, Document
<1>12. SyncIngestIsAllOrNothing'
  <2>1. \A o \in Op \ {op} : pc'[o] = pc[o] /\ jobs'[o] = jobs[o] /\ documents'[o] = documents[o]
    BY DEF IInv, TypeOK, MarkJobFailed, End, Goto
  <2>2. \A o \in Op : Target(o)' = Target(o)
    BY DEF MarkJobFailed, Target
  <2>3. call[op].kind = "ingest" => jobs'[op] # NoRow /\ jobs'[op].status = "failed"
    BY NoRowFacts
       DEF IInv, TypeOK, Job, JobStatus, PlacesOK, JobsOK, SessionOK, Ingests,
           Uncommitted, MarkJobFailed
  <2> QED
    BY <2>1, <2>2, <2>3 DEF IInv, TypeOK, SyncIngestIsAllOrNothing, MarkJobFailed
<1> QED
  BY <1>1, <1>2, <1>3, <1>4, <1>5, <1>6, <1>7, <1>8, <1>9, <1>10, <1>11, <1>12 DEF IInv

\* A reindex works on a document that was stored.
LEMMA CallReindexPreserves == ASSUME IInv, NEW op \in Op, CallReindex(op) PROVE IInv'
<1>1. TypeOK'
  <2>1. pc' \in [Op -> {"idle"} \union Active \union Settled]
    BY DEF IInv, CallReindex, Goto, Found, TypeOK, Active, WorkerTry, Settled
  <2>2. call' \in [Op -> Call]
    BY DEF IInv, CallReindex, Goto, Found, TypeOK, Call, AllKinds, Known, Live
  <2> QED
    BY <2>1, <2>2 DEF IInv, TypeOK, CallReindex, Goto, Found
<1>2. PlacesOK' /\ ArgumentsOK' /\ SessionOK' /\ KeysOK'
  BY DEF IInv, CallReindex, Goto, Found, TypeOK, PlacesOK, Ingests, ArgumentsOK, Known,
         Live, IngestContext, Settled, SessionOK, Uncommitted, EmptySession, KeysOK
<1>3. JobsOK' /\ DocumentsOK' /\ OneDocumentPerPayload'
  BY DEF IInv, CallReindex, Goto, Found, TypeOK, PlacesOK, JobsOK, Ingests, BeforeCommit,
         EmptySession, Live, Settled, DocumentsOK, Known, Target, OneDocumentPerPayload
<1>4. JobsReferToTheirContext' /\ AccountedBeforeComplete' /\
     TruncatedOnlyUnderFailedJob' /\ RowsImplyCollection'
  BY DEF IInv, CallReindex, Goto, Found, JobsReferToTheirContext, Live, TypeOK,
         AccountedBeforeComplete, Unfinished, TornDelete, TruncatedOnlyUnderFailedJob,
         DocumentsOK, JobsOK, PlacesOK, Known, RowsImplyCollection
<1>5. SyncIngestIsAllOrNothing'
  BY DEF IInv, CallReindex, Goto, Found, TypeOK, SyncIngestIsAllOrNothing, PlacesOK,
         Target
<1> QED
  BY <1>1, <1>2, <1>3, <1>4, <1>5 DEF IInv

\* The new job is in the context of its document.
LEMMA ReindexCreateJobPreserves == ASSUME IInv, NEW op \in Op, ReindexCreateJob(op) PROVE IInv'
<1>1. TypeOK'
  <2>a. call[op].document \in Op
    BY DEF IInv, ReindexCreateJob, TypeOK, PlacesOK, ArgumentsOK, Known, Live
  <2>b. Live(call[op].document) => documents[call[op].document].ctx \in Context
    BY <2>a DEF IInv, TypeOK, Live, Document
  <2>1. pc' \in [Op -> {"idle"} \union Active \union Settled]
    BY DEF IInv, ReindexCreateJob, Goto, RaiseFromFlush, End, TypeOK, Active, WorkerTry,
           Settled
  <2>2. session' \in [Op -> Session]
    BY DEF IInv, ReindexCreateJob, Goto, RaiseFromFlush, End, TypeOK, Session,
           EmptySession
  <2>3. points' \in [Op -> 0..NChunks]
    BY NChunksAssumption, NoRowFacts
       DEF IInv, ReindexCreateJob, Goto, RaiseFromFlush, End, TypeOK
  <2>4. jobs' \in [Op -> Job \union {NoRow}]
    BY <2>a, <2>b
       DEF IInv, ReindexCreateJob, Goto, RaiseFromFlush, End, TypeOK, Job, JobStatus
  <2> QED
    BY <2>1, <2>2, <2>3, <2>4
       DEF IInv, TypeOK, ReindexCreateJob, Goto, RaiseFromFlush, End
<1>2. PlacesOK' /\ KeysOK' /\ OneDocumentPerPayload' /\ JobsReferToTheirContext'
  BY DEF IInv, ReindexCreateJob, Goto, RaiseFromFlush, End, TypeOK, PlacesOK, Ingests,
         KeysOK, SessionOK, Uncommitted, Live, IngestContext, EmptySession,
         OneDocumentPerPayload, JobsReferToTheirContext
<1>3. ArgumentsOK'
  BY DEF IInv, ReindexCreateJob, Goto, RaiseFromFlush, End, TypeOK, PlacesOK, ArgumentsOK,
         Ingests, Known, Live, IngestContext, Settled
<1>4. SessionOK'
  BY DEF IInv, ReindexCreateJob, Goto, RaiseFromFlush, End, TypeOK, PlacesOK, SessionOK,
         Ingests, Uncommitted, Known, Live, EmptySession
<1>5. JobsOK'
  BY NoRowFacts
     DEF IInv, ReindexCreateJob, Goto, RaiseFromFlush, End, TypeOK, PlacesOK, ArgumentsOK,
         SessionOK, JobsOK, DocumentsOK, KeysOK, OneDocumentPerPayload,
         JobsReferToTheirContext, AccountedBeforeComplete, TruncatedOnlyUnderFailedJob,
         RowsImplyCollection, SyncIngestIsAllOrNothing, Ingests, Uncommitted,
         BeforeCommit, Document, Job, Call, Session, AllKinds, JobStatus, EmptySession,
         WorkerTry, Active, Settled, Live, IngestContext, Known, Target, Unfinished,
         TornDelete
<1>6. DocumentsOK'
  BY DEF IInv, ReindexCreateJob, Goto, RaiseFromFlush, End, TypeOK, PlacesOK, DocumentsOK,
         Ingests, Known, Live, Target, Settled
<1>7. AccountedBeforeComplete'
  BY DEF IInv, ReindexCreateJob, Goto, RaiseFromFlush, End, TypeOK,
         AccountedBeforeComplete, PlacesOK, JobsOK, Unfinished, TornDelete, Live, Ingests,
         BeforeCommit
<1>8. TruncatedOnlyUnderFailedJob' /\ RowsImplyCollection' /\ SyncIngestIsAllOrNothing'
  BY DEF IInv, ReindexCreateJob, Goto, RaiseFromFlush, End, TypeOK,
         TruncatedOnlyUnderFailedJob, DocumentsOK, JobsOK, PlacesOK, Known, Live,
         RowsImplyCollection, SyncIngestIsAllOrNothing, Target
<1> QED
  BY <1>1, <1>2, <1>3, <1>4, <1>5, <1>6, <1>7, <1>8 DEF IInv

\* The points in memory are the rows of a live document.
LEMMA ReindexLoadPreserves == ASSUME IInv, NEW op \in Op, ReindexLoad(op) PROVE IInv'
<1>1. TypeOK'
  <2>1. pc' \in [Op -> {"idle"} \union Active \union Settled]
    BY DEF IInv, ReindexLoad, Goto, End, TypeOK, Active, WorkerTry, Settled
  <2>2. session' \in [Op -> Session]
    BY DEF IInv, ReindexLoad, Goto, End, TypeOK, Session, EmptySession
  <2>3. points' \in [Op -> 0..NChunks]
    BY NChunksAssumption, NoRowFacts
       DEF IInv, ReindexLoad, Goto, End, PlacesOK, TypeOK, ArgumentsOK, Known, Live,
           Document
  <2> QED
    BY <2>1, <2>2, <2>3 DEF IInv, TypeOK, ReindexLoad, Goto, End
<1>2. PlacesOK' /\ ArgumentsOK' /\ SessionOK' /\ KeysOK'
  BY DEF IInv, ReindexLoad, Goto, End, TypeOK, PlacesOK, Ingests, ArgumentsOK, Known,
         Live, IngestContext, Settled, SessionOK, Uncommitted, EmptySession, KeysOK
<1>3. JobsOK' /\ DocumentsOK' /\ OneDocumentPerPayload'
  BY DEF IInv, ReindexLoad, Goto, End, TypeOK, PlacesOK, JobsOK, Ingests, BeforeCommit,
         EmptySession, Live, Settled, DocumentsOK, Known, Target, OneDocumentPerPayload
<1>4. JobsReferToTheirContext' /\ AccountedBeforeComplete' /\
     TruncatedOnlyUnderFailedJob' /\ RowsImplyCollection' /\ SyncIngestIsAllOrNothing'
  BY DEF IInv, ReindexLoad, Goto, End, JobsReferToTheirContext, Live, TypeOK,
         AccountedBeforeComplete, Unfinished, TornDelete, TruncatedOnlyUnderFailedJob,
         RowsImplyCollection, SyncIngestIsAllOrNothing, PlacesOK, Target
<1> QED
  BY <1>1, <1>2, <1>3, <1>4 DEF IInv

\* The running job of the reindex accounts for the points it removes.
LEMMA ReindexDeletePreserves == ASSUME IInv, NEW op \in Op, ReindexDelete(op) PROVE IInv'
<1>1. TypeOK'
  BY NChunksAssumption, NoRowFacts
     DEF IInv, ReindexDelete, Goto, TypeOK, EmptySession, Active, WorkerTry, Settled
<1>2. PlacesOK' /\ ArgumentsOK' /\ SessionOK' /\ JobsOK'
  BY DEF IInv, ReindexDelete, Goto, TypeOK, PlacesOK, Ingests, ArgumentsOK, Known, Live,
         IngestContext, Settled, SessionOK, Uncommitted, EmptySession, JobsOK,
         BeforeCommit
<1>3. DocumentsOK'
  BY NoRowFacts
     DEF IInv, ReindexDelete, Goto, TypeOK, PlacesOK, DocumentsOK, ArgumentsOK, Ingests,
         Known, Live, Target, Settled
<1>4. KeysOK' /\ OneDocumentPerPayload' /\ JobsReferToTheirContext' /\
     TruncatedOnlyUnderFailedJob' /\ RowsImplyCollection'
  BY DEF IInv, ReindexDelete, Goto, TypeOK, KeysOK, Uncommitted, Live, IngestContext,
         EmptySession, OneDocumentPerPayload, JobsReferToTheirContext,
         TruncatedOnlyUnderFailedJob, RowsImplyCollection
<1>5. AccountedBeforeComplete'
  <2> SUFFICES ASSUME NEW d \in Op, Live(d)', vectors'[d] < documents'[d].rows
               PROVE  \E o \in Op : (Unfinished(o, d)' /\ pc'[o] # "complete") \/ TornDelete(o, d)'
    BY DEF AccountedBeforeComplete
  <2>1. CASE d = call[op].document
    <3>1. jobs[op] # NoRow /\ jobs[op].status # "completed" /\ jobs[op].document = d
      BY <2>1 DEF IInv, TypeOK, PlacesOK, JobsOK, Settled, Live, ReindexDelete
    <3>2. Unfinished(op, d)' /\ pc'[op] # "complete"
      BY <3>1 DEF IInv, TypeOK, Unfinished, ReindexDelete, Goto
    <3> QED
      BY <3>2
  <2>2. CASE d # call[op].document
    <3>1. PICK o \in Op : (Unfinished(o, d) /\ pc[o] # "complete") \/ TornDelete(o, d)
      BY <2>2 DEF IInv, TypeOK, AccountedBeforeComplete, ReindexDelete, Live
    <3>2. Unfinished(o, d) /\ pc[o] # "complete" => Unfinished(o, d)' /\ pc'[o] # "complete"
      BY DEF IInv, TypeOK, Unfinished, ReindexDelete, Goto
    <3>3. TornDelete(o, d) => TornDelete(o, d)'
      BY DEF IInv, TypeOK, TornDelete, ReindexDelete, Goto
    <3> QED
      BY <3>1, <3>2, <3>3
  <2> QED
    BY <2>1, <2>2
<1>6. SyncIngestIsAllOrNothing'
  BY DEF IInv, ReindexDelete, Goto, TypeOK, SyncIngestIsAllOrNothing, PlacesOK, Target
<1> QED
  BY <1>1, <1>2, <1>3, <1>4, <1>5, <1>6 DEF IInv

\* A delete works on a document that was stored.
LEMMA CallDeletePreserves == ASSUME IInv, NEW op \in Op, CallDelete(op) PROVE IInv'
<1>1. TypeOK'
  <2>1. pc' \in [Op -> {"idle"} \union Active \union Settled]
    BY DEF IInv, CallDelete, Goto, Found, TypeOK, Active, WorkerTry, Settled
  <2>2. call' \in [Op -> Call]
    BY DEF IInv, CallDelete, Goto, Found, TypeOK, Call, AllKinds, Known, Live
  <2> QED
    BY <2>1, <2>2 DEF IInv, TypeOK, CallDelete, Goto, Found
<1>2. PlacesOK' /\ ArgumentsOK' /\ SessionOK' /\ KeysOK'
  BY DEF IInv, CallDelete, Goto, Found, TypeOK, PlacesOK, Ingests, ArgumentsOK, Known,
         Live, IngestContext, Settled, SessionOK, Uncommitted, EmptySession, KeysOK
<1>3. JobsOK' /\ DocumentsOK' /\ OneDocumentPerPayload'
  BY DEF IInv, CallDelete, Goto, Found, TypeOK, PlacesOK, JobsOK, Ingests, BeforeCommit,
         EmptySession, Live, Settled, DocumentsOK, Known, Target, OneDocumentPerPayload
<1>4. JobsReferToTheirContext' /\ AccountedBeforeComplete' /\
     TruncatedOnlyUnderFailedJob' /\ RowsImplyCollection'
  BY DEF IInv, CallDelete, Goto, Found, JobsReferToTheirContext, Live, TypeOK,
         AccountedBeforeComplete, Unfinished, TornDelete, TruncatedOnlyUnderFailedJob,
         DocumentsOK, JobsOK, PlacesOK, Known, RowsImplyCollection
<1>5. SyncIngestIsAllOrNothing'
  BY DEF IInv, CallDelete, Goto, Found, TypeOK, SyncIngestIsAllOrNothing, PlacesOK, Target
<1> QED
  BY <1>1, <1>2, <1>3, <1>4, <1>5 DEF IInv

\* The delete itself accounts for the points it removes, even if it fails.
LEMMA DeleteVectorsPreserves == ASSUME IInv, NEW op \in Op, DeleteVectors(op) PROVE IInv'
<1>1. TypeOK'
  <2>1. pc' \in [Op -> {"idle"} \union Active \union Settled]
    BY DEF IInv, DeleteVectors, Goto, End, TypeOK, Active, WorkerTry, Settled
  <2>2. session' \in [Op -> Session]
    BY DEF IInv, DeleteVectors, Goto, End, TypeOK, Session, EmptySession
  <2>3. points' \in [Op -> 0..NChunks]
    BY NChunksAssumption, NoRowFacts DEF IInv, DeleteVectors, Goto, End, TypeOK
  <2>4. vectors' \in [Op -> 0..NChunks]
    BY NChunksAssumption, NoRowFacts DEF IInv, DeleteVectors, Goto, End, TypeOK
  <2> QED
    BY <2>1, <2>2, <2>3, <2>4 DEF IInv, TypeOK, DeleteVectors, Goto, End
<1>2. PlacesOK' /\ ArgumentsOK' /\ SessionOK' /\ KeysOK'
  BY DEF IInv, DeleteVectors, Goto, End, TypeOK, PlacesOK, Ingests, ArgumentsOK, Known,
         Live, IngestContext, Settled, SessionOK, Uncommitted, EmptySession, KeysOK
<1>3. JobsOK' /\ DocumentsOK' /\ OneDocumentPerPayload'
  BY DEF IInv, DeleteVectors, Goto, End, TypeOK, PlacesOK, JobsOK, Ingests, BeforeCommit,
         EmptySession, Live, Settled, DocumentsOK, Known, Target, OneDocumentPerPayload
<1>4. JobsReferToTheirContext' /\ TruncatedOnlyUnderFailedJob' /\ RowsImplyCollection'
     /\ SyncIngestIsAllOrNothing'
  BY DEF IInv, DeleteVectors, Goto, End, JobsReferToTheirContext, Live,
         TruncatedOnlyUnderFailedJob, RowsImplyCollection, TypeOK,
         SyncIngestIsAllOrNothing, PlacesOK, Target
<1>5. AccountedBeforeComplete'
  BY DEF IInv, DeleteVectors, Goto, End, TypeOK, AccountedBeforeComplete, PlacesOK,
         JobsOK, Unfinished, TornDelete, Live, Ingests, BeforeCommit
<1> QED
  BY <1>1, <1>2, <1>3, <1>4, <1>5 DEF IInv

\* No job keeps a link to the deleted document.
LEMMA DeleteCommitPreserves == ASSUME IInv, NEW op \in Op, DeleteCommit(op) PROVE IInv'
<1>1. TypeOK'
  <2>a. call[op].document \in Op
    BY DEF IInv, DeleteCommit, TypeOK, PlacesOK, ArgumentsOK, Known, Live
  <2>1. pc' \in [Op -> {"idle"} \union Active \union Settled]
    BY DEF IInv, DeleteCommit, Goto, End, TypeOK, Active, WorkerTry, Settled
  <2>2. session' \in [Op -> Session]
    BY DEF IInv, DeleteCommit, Goto, End, TypeOK, Session, EmptySession
  <2>3. points' \in [Op -> 0..NChunks]
    BY NChunksAssumption, NoRowFacts DEF IInv, DeleteCommit, Goto, End, TypeOK
  <2>4. documents' \in [Op -> Document \union {NoRow}]
    BY <2>a DEF IInv, DeleteCommit, Goto, End, TypeOK
  <2>5. jobs' \in [Op -> Job \union {NoRow}]
    BY DEF IInv, DeleteCommit, Goto, End, TypeOK, Job
  <2>6. deleted' \subseteq Op
    BY <2>a DEF IInv, DeleteCommit, Goto, End, TypeOK
  <2> QED
    BY <2>1, <2>2, <2>3, <2>4, <2>5, <2>6 DEF IInv, TypeOK, DeleteCommit, Goto, End
<1>2. PlacesOK' /\ OneDocumentPerPayload' /\ JobsReferToTheirContext' /\
     TruncatedOnlyUnderFailedJob' /\ RowsImplyCollection'
  BY DEF IInv, DeleteCommit, Goto, End, TypeOK, PlacesOK, Ingests, OneDocumentPerPayload,
         Live, JobsReferToTheirContext, TruncatedOnlyUnderFailedJob, RowsImplyCollection
<1>3. ArgumentsOK'
  BY NoRowFacts
     DEF IInv, DeleteCommit, Goto, End, TypeOK, PlacesOK, ArgumentsOK, JobsOK, Ingests,
         Known, Live, IngestContext, BeforeCommit, Settled
<1>4. SessionOK'
  BY DEF IInv, DeleteCommit, Goto, End, TypeOK, PlacesOK, ArgumentsOK, SessionOK, Ingests,
         Uncommitted, Known, Live, EmptySession, IngestContext
<1>5. JobsOK'
  BY NoRowFacts
     DEF IInv, DeleteCommit, Goto, End, TypeOK, PlacesOK, JobsOK, SessionOK, Ingests,
         Uncommitted, BeforeCommit, EmptySession, Settled, Live, Job, JobStatus
<1>6. DocumentsOK'
  BY DEF IInv, DeleteCommit, Goto, End, TypeOK, PlacesOK, DocumentsOK, ArgumentsOK,
         Ingests, Known, Live, Target, Settled
<1>7. KeysOK'
  <2>1. \A o \in Op : IngestContext(o)' = IngestContext(o)
    BY NoRowFacts DEF IInv, TypeOK, IngestContext, Job, DeleteCommit
  <2>2. \A o \in Op : Uncommitted(o)' => Uncommitted(o)
    BY DEF IInv, TypeOK, Uncommitted, EmptySession, DeleteCommit, End, Goto
  <2>3. \A d \in Op : Live(d)' => Live(d) /\ documents'[d] = documents[d]
    BY DEF IInv, TypeOK, Live, DeleteCommit
  <2> QED
    BY <2>1, <2>2, <2>3 DEF IInv, KeysOK, DeleteCommit
<1>8. AccountedBeforeComplete'
  <2> SUFFICES ASSUME NEW d \in Op, Live(d)', vectors'[d] < documents'[d].rows
               PROVE  \E o \in Op : (Unfinished(o, d)' /\ pc'[o] # "complete") \/ TornDelete(o, d)'
    BY DEF AccountedBeforeComplete
  <2> DEFINE c == call[op].document
  <2>1. c \in Op /\ d # c /\ jobs[op] = NoRow
    BY DEF IInv, TypeOK, PlacesOK, ArgumentsOK, JobsOK, Known, Live, DeleteCommit
  <2>2. PICK o \in Op : (Unfinished(o, d) /\ pc[o] # "complete") \/ TornDelete(o, d)
    BY <2>1 DEF IInv, TypeOK, AccountedBeforeComplete, DeleteCommit, Live
  <2>3. o # op
    BY <2>1, <2>2 DEF Unfinished, TornDelete
  <2>4. Unfinished(o, d) => Unfinished(o, d)'
    BY NoRowFacts, <2>1 DEF IInv, TypeOK, Job, Unfinished, DeleteCommit
  <2> QED
    BY <2>2, <2>3, <2>4 DEF IInv, TypeOK, TornDelete, DeleteCommit, End, Goto
<1>9. SyncIngestIsAllOrNothing'
  <2>1. \A o \in Op : /\ Target(o)' = Target(o) /\ call'[o].kind = call[o].kind
                      /\ o # op => pc'[o] = pc[o]
    BY DEF IInv, TypeOK, DeleteCommit, End, Goto, Target
  <2>2. call[op].kind # "ingest"
    BY DEF IInv, PlacesOK, DeleteCommit
  <2>3. \A o \in Op : jobs[o] = NoRow => jobs'[o] = NoRow
    BY DEF DeleteCommit
  <2>4. \A o \in Op : jobs[o] # NoRow => jobs'[o] # NoRow /\ jobs'[o].status = jobs[o].status
    BY NoRowFacts DEF IInv, TypeOK, Job, DeleteCommit
  <2>5. \A o \in Op : documents[o] = NoRow => documents'[o] = NoRow
    BY DEF IInv, TypeOK, DeleteCommit
  <2> QED
    BY <2>1, <2>2, <2>3, <2>4, <2>5
       DEF IInv, TypeOK, SyncIngestIsAllOrNothing, DeleteCommit
<1> QED
  BY <1>1, <1>2, <1>3, <1>4, <1>5, <1>6, <1>7, <1>8, <1>9 DEF IInv

\* The except clause finds what the try block had flushed and assigned.
LEMMA TimeoutPreserves == ASSUME IInv, NEW op \in Op, Timeout(op) PROVE IInv'
<1>1. TypeOK'
  <2>a. pc[op] = "dedupe" => call[op].document \in Op
    BY DEF IInv, TypeOK, ArgumentsOK, Known, Live
  <2>b. pc[op] \in {"embed", "dedupe"} => AssignedLink(op) \in Op
    BY <2>a DEF AssignedLink
  <2>1. pc' \in [Op -> {"idle"} \union Active \union Settled]
    BY DEF IInv, Timeout, Goto, RaiseFromFlush, End, TypeOK, Active, WorkerTry, Settled
  <2>2. session' \in [Op -> Session]
    BY <2>a, <2>b
       DEF IInv, Timeout, Goto, RaiseFromFlush, End, TypeOK, Session, EmptySession
  <2>3. points' \in [Op -> 0..NChunks]
    BY NChunksAssumption, NoRowFacts DEF IInv, Timeout, Goto, RaiseFromFlush, End, TypeOK
  <2> QED
    BY <2>1, <2>2, <2>3 DEF IInv, TypeOK, Timeout, Goto, RaiseFromFlush, End
<1>2. PlacesOK' /\ OneDocumentPerPayload' /\ JobsReferToTheirContext' /\
     AccountedBeforeComplete' /\ TruncatedOnlyUnderFailedJob'
  BY DEF IInv, Timeout, Goto, RaiseFromFlush, End, TypeOK, PlacesOK, Ingests,
         OneDocumentPerPayload, Live, JobsReferToTheirContext, AssignedLink,
         AccountedBeforeComplete, Unfinished, TornDelete, TruncatedOnlyUnderFailedJob
<1>3. ArgumentsOK'
  BY DEF IInv, Timeout, Goto, RaiseFromFlush, End, TypeOK, PlacesOK, ArgumentsOK, Ingests,
         Known, Live, IngestContext, Settled, AssignedLink
<1>4. SessionOK'
  BY NoRowFacts
     DEF IInv, Timeout, Goto, RaiseFromFlush, End, TypeOK, PlacesOK, ArgumentsOK,
         SessionOK, JobsOK, DocumentsOK, Ingests, Uncommitted, Known, Live, EmptySession,
         IngestContext, Session, Settled, AssignedLink
<1>5. JobsOK'
  BY DEF IInv, Timeout, Goto, RaiseFromFlush, End, TypeOK, PlacesOK, ArgumentsOK,
         SessionOK, JobsOK, DocumentsOK, KeysOK, OneDocumentPerPayload,
         JobsReferToTheirContext, AccountedBeforeComplete, TruncatedOnlyUnderFailedJob,
         RowsImplyCollection, SyncIngestIsAllOrNothing, Ingests, Uncommitted,
         BeforeCommit, Document, Job, Call, Session, AllKinds, JobStatus, EmptySession,
         WorkerTry, Active, Settled, Live, IngestContext, Known, Target, Unfinished,
         TornDelete, AssignedLink
<1>6. DocumentsOK'
  <2>1. pc[op] # "raised"
    BY DEF Timeout, WorkerTry
  <2> QED
    BY <2>1
       DEF IInv, Timeout, Goto, RaiseFromFlush, End, TypeOK, PlacesOK, DocumentsOK, Ingests,
           Known, Live, Target, Settled, AssignedLink
<1>7. KeysOK'
  <2>1. \A o \in Op : IngestContext(o)' = IngestContext(o)
    BY DEF IInv, TypeOK, IngestContext, Job, Timeout
  <2>2. \A o \in Op : Uncommitted(o)' => Uncommitted(o)
    BY DEF IInv, TypeOK, Session, Uncommitted, EmptySession, Timeout, RaiseFromFlush, End,
           Goto
  <2>3. \A d \in Op : Live(d)' => Live(d) /\ documents'[d] = documents[d]
    BY DEF IInv, TypeOK, Live, Timeout
  <2> QED
    BY <2>1, <2>2, <2>3 DEF IInv, KeysOK, Timeout
<1>8. RowsImplyCollection' /\ SyncIngestIsAllOrNothing'
  BY DEF IInv, Timeout, Goto, RaiseFromFlush, End, RowsImplyCollection, Live, TypeOK,
         SyncIngestIsAllOrNothing, PlacesOK, Target
<1> QED
  BY <1>1, <1>2, <1>3, <1>4, <1>5, <1>6, <1>7, <1>8 DEF IInv

\* What was flushed and not committed is gone.
LEMMA CrashPreserves == ASSUME IInv, NEW op \in Op, Crash(op) PROVE IInv'
<1>1. TypeOK'
  BY NChunksAssumption, NoRowFacts
     DEF IInv, Crash, Goto, End, TypeOK, EmptySession, Active, WorkerTry, Settled, Session
<1>0. pc[op] # "raised"
  BY DEF Crash, Active, WorkerTry
<1>2. PlacesOK' /\ ArgumentsOK' /\ DocumentsOK' /\ OneDocumentPerPayload' /\
     JobsReferToTheirContext'
  BY <1>0
     DEF IInv, Crash, Goto, End, TypeOK, PlacesOK, Ingests, ArgumentsOK, Known, Live,
         IngestContext, Settled, DocumentsOK, Target, OneDocumentPerPayload,
         JobsReferToTheirContext
<1>3. SessionOK'
  BY NoRowFacts
     DEF IInv, Crash, Goto, End, TypeOK, PlacesOK, SessionOK, Ingests, Uncommitted, Known,
         Live, EmptySession
<1>4. JobsOK'
  BY DEF IInv, Crash, Goto, End, TypeOK, PlacesOK, ArgumentsOK, SessionOK, JobsOK,
         DocumentsOK, KeysOK, OneDocumentPerPayload, JobsReferToTheirContext,
         AccountedBeforeComplete, TruncatedOnlyUnderFailedJob, RowsImplyCollection,
         SyncIngestIsAllOrNothing, Ingests, Uncommitted, BeforeCommit, Document, Job,
         Call, Session, AllKinds, JobStatus, EmptySession, WorkerTry, Active, Settled,
         Live, IngestContext, Known, Target, Unfinished, TornDelete
<1>5. KeysOK' /\ AccountedBeforeComplete' /\ TruncatedOnlyUnderFailedJob' /\
     RowsImplyCollection'
  BY DEF IInv, Crash, Goto, End, TypeOK, KeysOK, Uncommitted, Live, IngestContext,
         EmptySession, AccountedBeforeComplete, Unfinished, TornDelete,
         TruncatedOnlyUnderFailedJob, RowsImplyCollection
<1>6. SyncIngestIsAllOrNothing'
  BY DEF IInv, Crash, Goto, End, TypeOK, SyncIngestIsAllOrNothing, PlacesOK, Target
<1> QED
  BY <1>1, <1>2, <1>3, <1>4, <1>5, <1>6 DEF IInv

-----------------------------------------------------------------------------

\* A step that changes nothing preserves everything.
LEMMA StutterPreserves == ASSUME IInv, UNCHANGED vars PROVE IInv'
<1>1. TypeOK' /\ PlacesOK' /\ ArgumentsOK' /\ SessionOK' /\ JobsOK' /\ DocumentsOK'
  BY DEF vars, IInv, TypeOK, PlacesOK, ArgumentsOK, SessionOK, JobsOK, DocumentsOK,
         Ingests, Uncommitted, Known, Live, IngestContext, Target
<1>2. KeysOK' /\ OneDocumentPerPayload' /\ JobsReferToTheirContext'
  BY DEF vars, IInv, KeysOK, OneDocumentPerPayload, JobsReferToTheirContext,
         Uncommitted, Live, IngestContext
<1>3. AccountedBeforeComplete' /\ TruncatedOnlyUnderFailedJob' /\ RowsImplyCollection'
  BY DEF vars, IInv, AccountedBeforeComplete, TruncatedOnlyUnderFailedJob,
         RowsImplyCollection, Unfinished, TornDelete, Live
<1>4. SyncIngestIsAllOrNothing'
  BY DEF vars, IInv, SyncIngestIsAllOrNothing, Target
<1> QED
  BY <1>1, <1>2, <1>3, <1>4 DEF IInv

\* Every step of every call preserves the invariant.
LEMMA NextPreserves == ASSUME IInv, [Next]_vars PROVE IInv'
<1>1. ASSUME NEW op \in Op, Arrive(op) PROVE IInv'
  BY <1>1, CallIngestPreserves, CreateJobPreserves, CallReindexPreserves,
     CallDeletePreserves DEF Arrive
<1>2. ASSUME NEW op \in Op, IngestStep(op) PROVE IInv'
  BY <1>2, MarkJobRunningPreserves, ExtractPreserves, LookupExistingPreserves,
     DedupePreserves, InsertPreserves, EmbedPreserves, EmbedFailsPreserves,
     EnsureCollectionPreserves, CreateCollectionPreserves, WriteRowPreserves,
     CommitDocumentPreserves, RefreshPreserves, UpsertPreserves, UpsertFailsPreserves,
     CompletePreserves, AnswerPreserves, MarkJobFailedPreserves DEF IngestStep
<1>3. ASSUME NEW op \in Op, ReindexStep(op) \/ DeleteStep(op) PROVE IInv'
  BY <1>3, ReindexCreateJobPreserves, ReindexLoadPreserves, ReindexDeletePreserves,
     DeleteVectorsPreserves, DeleteCommitPreserves DEF ReindexStep, DeleteStep
<1>4. ASSUME NEW op \in Op, Timeout(op) \/ Crash(op) PROVE IInv'
  BY <1>4, TimeoutPreserves, CrashPreserves
<1> QED
  BY <1>1, <1>2, <1>3, <1>4, StutterPreserves DEF Next, Step, Quiet

\* The inductive invariant holds in every reachable state.
THEOREM StorageInvariant == Spec => []IInv
<1>1. Init => IInv
  BY InitHolds
<1>2. IInv /\ [Next]_vars => IInv'
  BY NextPreserves
<1> QED
  BY <1>1, <1>2, PTL DEF Spec

\* Every variable keeps its type.
THEOREM StorageTypes == Spec => []TypeOK
<1>1. IInv => TypeOK
  BY DEF IInv
<1> QED
  BY <1>1, StorageInvariant, PTL

\* However many ingests of a payload race, a context holds it at most once.
THEOREM PayloadsAreUnique == Spec => []OneDocumentPerPayload
<1>1. IInv => OneDocumentPerPayload
  BY DEF IInv
<1> QED
  BY <1>1, StorageInvariant, PTL

\* A job refers only to an existing document of its own tenant and scope.
THEOREM JobLinksAreSound == Spec => []JobsReferToTheirContext
<1>1. IInv => JobsReferToTheirContext
  BY DEF IInv
<1> QED
  BY <1>1, StorageInvariant, PTL

\* A document with missing chunk rows belongs to a worker whose job failed.
THEOREM TruncationIsRecorded == Spec => []TruncatedOnlyUnderFailedJob
<1>1. IInv => TruncatedOnlyUnderFailedJob
  BY DEF IInv
<1> QED
  BY <1>1, StorageInvariant, PTL

\* Stored rows, and stored points, imply that the collection exists.
THEOREM CollectionExists == Spec => []RowsImplyCollection
<1>1. IInv => RowsImplyCollection
  BY DEF IInv
<1> QED
  BY <1>1, StorageInvariant, PTL

\* A synchronous ingest that raised left nothing, a failed job, or the job of a
\* deleted document.
THEOREM FailedIngestsLeaveNoGap == Spec => []SyncIngestIsAllOrNothing
<1>1. IInv => SyncIngestIsAllOrNothing
  BY DEF IInv
<1> QED
  BY <1>1, StorageInvariant, PTL

\* A stored document whose vectors are incomplete has an unfinished job, or a
\* delete of it stopped half-way: the loss is never silent.
THEOREM NoSilentLoss == Spec => []MissingVectorsAreAccountedFor
<1>1. IInv => MissingVectorsAreAccountedFor
  BY DEF IInv, AccountedBeforeComplete, MissingVectorsAreAccountedFor
<1> QED
  BY <1>1, StorageInvariant, PTL

-----------------------------------------------------------------------------
(* OwnershipInv.                                                           *)

\* What an open session has flushed is a document.
LEMMA FlushedIsDocument ==
    ASSUME IInv, NEW op \in Op, Uncommitted(op) PROVE FlushedDocument(op) \in Document
<1>1. /\ call[op] \in Call /\ call[op].content \in Content
      /\ jobs[op] \in Job \union {NoRow} /\ session[op].rows \in 0..NChunks
  BY DEF IInv, TypeOK, Session, SessionOK, ArgumentsOK, Uncommitted
<1>2. IngestContext(op) \in Context
  BY <1>1 DEF IngestContext, Call, Job
<1> QED
  BY <1>1, <1>2 DEF FlushedDocument, Document

\* A document that a client can know stays known.
LEMMA KnownGrows == ASSUME IInv, [Next]_vars PROVE Known \subseteq Known'
<1>1. CASE UNCHANGED vars
  BY <1>1 DEF vars, Known, Live
<1>2. ASSUME NEW op \in Op, CommitDocument(op) PROVE Known \subseteq Known'
  <2>1. FlushedDocument(op) # NoRow
    <3>1. FlushedDocument(op) \in Document
      BY <1>2, FlushedIsDocument DEF CommitDocument, IInv, SessionOK
    <3> QED
      BY <3>1, NoRowFacts
  <2> QED
    BY <1>2, <2>1 DEF IInv, TypeOK, CommitDocument, Known, Live
<1>3. ASSUME NEW op \in Op, MarkJobFailed(op) PROVE Known \subseteq Known'
  <2>1. Uncommitted(op) => FlushedDocument(op) # NoRow
    BY FlushedIsDocument, NoRowFacts
  <2> QED
    BY <1>3, <2>1 DEF IInv, TypeOK, MarkJobFailed, Uncommitted, Known, Live
<1>4. ASSUME NEW op \in Op, DeleteCommit(op) PROVE Known \subseteq Known'
  BY <1>4 DEF IInv, TypeOK, DeleteCommit, Known, Live
<1>5. UNCHANGED <<documents, deleted>> => Known \subseteq Known'
  BY DEF Known, Live
<1>6. CASE \E op \in Op : Arrive(op) \/ ReindexStep(op) \/ DeleteVectors(op) \/ Timeout(op) \/ Crash(op)
  BY <1>5, <1>6
     DEF Arrive, CallIngest, CreateJob, CallReindex, CallDelete, ReindexStep, ReindexCreateJob,
         ReindexLoad, ReindexDelete, DeleteVectors, Timeout, Crash
<1>7. ASSUME NEW op \in Op, IngestStep(op), ~CommitDocument(op), ~MarkJobFailed(op)
      PROVE  Known \subseteq Known'
  BY <1>5, <1>7
     DEF IngestStep, MarkJobRunning, Extract, LookupExisting, Dedupe, Insert, Embed, EmbedFails,
         EnsureCollection, CreateCollection, WriteRow, Refresh, Upsert, UpsertFails, Complete, Answer
<1> QED
  BY <1>1, <1>2, <1>3, <1>4, <1>6, <1>7 DEF Next, Step, DeleteStep, Quiet
LEMMA OwnershipInit == Init => OwnershipInv
  BY NChunksAssumption, NoRowFacts DEF Init, OwnershipInv, EmptySession

\* The points of a document.
LEMMA PointsOfKnown ==
    ASSUME IInv, OwnershipInv, [Next]_vars, NEW d \in Op, vectors'[d] > 0 PROVE d \in Known'
<1>1. CASE vectors'[d] = vectors[d]
  BY <1>1, KnownGrows DEF OwnershipInv
<1>2. ASSUME NEW op \in Op, Upsert(op) \/ UpsertFails(op), vectors'[d] # vectors[d]
      PROVE  d \in Known
  BY <1>2 DEF Upsert, UpsertFails, IInv, TypeOK, DocumentsOK
<1>3. ASSUME NEW op \in Op, ReindexDelete(op) \/ DeleteVectors(op)
      PROVE  vectors'[d] = vectors[d]
  BY <1>3 DEF ReindexDelete, DeleteVectors, IInv, TypeOK
<1>4. ASSUME NEW op \in Op, Arrive(op) \/ Timeout(op) \/ Crash(op) \/ ReindexCreateJob(op)
                            \/ ReindexLoad(op) \/ DeleteCommit(op)
      PROVE  vectors' = vectors
  BY <1>4 DEF Arrive, CallIngest, CreateJob, CallReindex, CallDelete, Timeout, Crash,
              ReindexCreateJob, ReindexLoad, DeleteCommit
<1>5. ASSUME NEW op \in Op, IngestStep(op), ~Upsert(op), ~UpsertFails(op)
      PROVE  vectors' = vectors
  BY <1>5
     DEF IngestStep, MarkJobRunning, Extract, LookupExisting, Dedupe, Insert, Embed, EmbedFails,
         EnsureCollection, CreateCollection, WriteRow, CommitDocument, Refresh, Complete, Answer,
         MarkJobFailed
<1>6. CASE vectors'[d] # vectors[d]
  <2>1. PICK op \in Op : Upsert(op) \/ UpsertFails(op)
    BY <1>3, <1>4, <1>5, <1>6 DEF Next, Step, ReindexStep, DeleteStep, Quiet, vars
  <2>2. d \in Known
    BY <1>2, <1>6, <2>1
  <2> QED
    BY <2>2, KnownGrows
<1> QED
  BY <1>1, <1>6

\* A call that has linked its job to a document that another call added.
LEMMA LinksToOthers ==
    ASSUME IInv, OwnershipInv, NEW op \in Op, Step(op) \/ Arrive(op) \/ Timeout(op) \/ Crash(op),
           session'[op].link \notin {NoRow, op}
    PROVE  op \notin Known' /\ session'[op].rows = NoRow
<1>1. CASE Timeout(op)
  BY <1>1, NoRowFacts
     DEF Timeout, AssignedLink, IInv, TypeOK, OwnershipInv, SessionOK, DocumentsOK, Known, Live,
         Session, EmptySession, Uncommitted, Settled, RaiseFromFlush, End, Goto
<1>2. CASE Arrive(op)
  BY <1>2
     DEF Arrive, CallIngest, CreateJob, CallReindex, CallDelete, OwnershipInv, Known, Live, Uncommitted
<1>3. CASE ReindexStep(op) \/ DeleteVectors(op)
  BY <1>3
     DEF ReindexStep, ReindexCreateJob, ReindexLoad, ReindexDelete, DeleteVectors, OwnershipInv,
         RaiseFromFlush, End, EmptySession, Known, Live, Uncommitted, IInv, TypeOK
<1>4. CASE DeleteCommit(op) \/ Crash(op) \/ MarkJobFailed(op)
  BY <1>4 DEF DeleteCommit, Crash, MarkJobFailed, End, EmptySession, IInv, TypeOK
<1>5. CASE Embed(op) \/ EmbedFails(op) \/ CommitDocument(op)
  BY <1>5 DEF Embed, EmbedFails, CommitDocument, EmptySession, End, IInv, TypeOK, Session
<1>6. CASE IngestStep(op) /\ ~(MarkJobFailed(op) \/ Embed(op) \/ EmbedFails(op) \/ CommitDocument(op))
  BY <1>6
     DEF IngestStep, MarkJobRunning, Extract, LookupExisting, Dedupe, Insert, EnsureCollection,
         CreateCollection, WriteRow, Refresh, Upsert, UpsertFails, Complete, Answer, Raise,
         RaiseFromFlush, End, EmptySession, OwnershipInv, SessionOK, Session, Known, Live, Uncommitted,
         IInv, TypeOK
<1> QED
  BY <1>1, <1>2, <1>3, <1>4, <1>5, <1>6 DEF Step, DeleteStep

\* What a step of one call leaves alone of another.
LEMMA OthersKept ==
    ASSUME IInv, NEW op \in Op, Step(op) \/ Arrive(op) \/ Timeout(op) \/ Crash(op),
           NEW o \in Op, o # op
    PROVE  /\ pc'[o] = pc[o] /\ call'[o] = call[o] /\ session'[o] = session[o]
           /\ points'[o] = points[o]
           /\ ~DeleteCommit(op) => jobs'[o] = jobs[o] /\ documents'[o] = documents[o]
<1>1. CASE Timeout(op) \/ Crash(op) \/ Arrive(op)
  BY <1>1
     DEF IInv, TypeOK, Timeout, Crash, Arrive, CallIngest, CreateJob, CallReindex, CallDelete,
         RaiseFromFlush, End, Goto
<1>2. CASE ReindexStep(op) \/ DeleteStep(op)
  BY <1>2
     DEF IInv, TypeOK, ReindexStep, DeleteStep, ReindexCreateJob, ReindexLoad, ReindexDelete,
         DeleteVectors, DeleteCommit, RaiseFromFlush, End, Goto
<1>3. CASE MarkJobRunning(op) \/ Extract(op) \/ LookupExisting(op) \/ Dedupe(op) \/ Insert(op)
           \/ Embed(op) \/ EmbedFails(op) \/ EnsureCollection(op) \/ CreateCollection(op)
  BY <1>3
     DEF IInv, TypeOK, MarkJobRunning, Extract, LookupExisting, Dedupe, Insert, Embed, EmbedFails,
         EnsureCollection, CreateCollection, Raise, RaiseFromFlush, End, Goto
<1>4. CASE WriteRow(op) \/ CommitDocument(op) \/ Refresh(op) \/ Upsert(op) \/ UpsertFails(op)
           \/ Complete(op) \/ Answer(op) \/ MarkJobFailed(op)
  BY <1>4
     DEF IInv, TypeOK, WriteRow, CommitDocument, Refresh, Upsert, UpsertFails, Complete, Answer,
         MarkJobFailed, Raise, End, Goto
<1> QED
  BY <1>1, <1>2, <1>3, <1>4 DEF Step, IngestStep

\* The job of a call that has added a document is about that document.
LEMMA JobOfAuthor ==
    ASSUME IInv, OwnershipInv, NEW op \in Op, Step(op) \/ Arrive(op) \/ Timeout(op) \/ Crash(op),
           op \in Known', jobs'[op] # NoRow
    PROVE  jobs'[op].document \in {NoRow, op}
<1>1. CASE op \in Known /\ UNCHANGED jobs
  BY <1>1 DEF OwnershipInv
<1>2. CASE CommitDocument(op)
  <2>1. session[op].link = op /\ pc[op] = "rows"
    BY <1>2 DEF IInv, SessionOK, CommitDocument
  <2>2. CASE jobs[op] = NoRow
    BY <1>2, <2>1, <2>2 DEF CommitDocument, CommittedJobs, IInv, TypeOK
  <2>3. CASE jobs[op] # NoRow
    <3>1. PICK status \in {jobs[op].status, "running"} :
             jobs'[op] = [jobs[op] EXCEPT !.status = status, !.document = op]
      BY <1>2, <2>1, <2>3 DEF CommitDocument, CommittedJobs, IInv, TypeOK
    <3>2. jobs[op] \in Job
      BY <2>3 DEF IInv, TypeOK
    <3> QED
      BY <3>1, <3>2 DEF Job
  <2> QED
    BY <2>2, <2>3
<1>3. CASE MarkJobFailed(op)
  <2>1. jobs[op] \in Job /\ jobs[op] # NoRow
    BY <1>3, NoRowFacts DEF IInv, TypeOK, JobsOK, MarkJobFailed
  <2>2. CASE session[op].link \in {NoRow, op} \/ Live(session[op].link)
    <3>1. jobs'[op].document = IF session[op].link = NoRow THEN jobs[op].document
                               ELSE session[op].link
      BY <1>3, <2>1, <2>2 DEF MarkJobFailed, IInv, TypeOK, Job
    <3>2. CASE op \in Known
      BY <2>1, <3>1, <3>2 DEF OwnershipInv
    <3>3. CASE op \notin Known
      <4>1. Uncommitted(op)
        BY <1>3, <3>3 DEF MarkJobFailed, Uncommitted, Known, Live
      <4>2. jobs[op].document = NoRow
        BY <1>3, <4>1 DEF IInv, SessionOK, JobsOK, MarkJobFailed, EmptySession, Uncommitted
      <4> QED
        BY <3>1, <4>1, <4>2 DEF OwnershipInv
    <3> QED
      BY <3>2, <3>3
  <2>3. CASE ~(session[op].link \in {NoRow, op} \/ Live(session[op].link))
    BY <1>1, <1>3, <2>3 DEF MarkJobFailed, Known, Live
  <2> QED
    BY <2>2, <2>3
<1>4. CASE DeleteCommit(op)
  BY <1>4 DEF DeleteCommit, IInv, JobsOK, PlacesOK, TypeOK, Job
<1>5. CASE Dedupe(op) \/ ReindexCreateJob(op)
  BY <1>5 DEF Dedupe, ReindexCreateJob, IInv, PlacesOK, DocumentsOK, Settled, Ingests, Known, Live,
              RaiseFromFlush, End
<1>6. CASE CreateJob(op)
  BY <1>6 DEF CreateJob, IInv, TypeOK
<1>7. CASE MarkJobRunning(op) \/ Complete(op)
  <2>1. jobs[op] \in Job /\ UNCHANGED Known
    BY <1>7 DEF IInv, TypeOK, JobsOK, PlacesOK, MarkJobRunning, Complete, Known, Live
  <2>2. jobs'[op].document = jobs[op].document
    BY <1>7, <2>1 DEF MarkJobRunning, Complete, IInv, TypeOK, Job
  <2> QED
    BY <2>1, <2>2, NoRowFacts DEF OwnershipInv
<1>8. op \in Known \/ CommitDocument(op) \/ MarkJobFailed(op) \/ DeleteCommit(op)
  BY DEF Step, IngestStep, ReindexStep, DeleteStep, Arrive, CallIngest, CreateJob, CallReindex,
         CallDelete, Timeout, Crash, MarkJobRunning, Extract, LookupExisting, Dedupe, Insert, Embed,
         EmbedFails, EnsureCollection, CreateCollection, WriteRow, Refresh, Upsert, UpsertFails,
         Complete, Answer, ReindexCreateJob, ReindexLoad, ReindexDelete, DeleteVectors, Known, Live
<1>9. CASE UNCHANGED jobs /\ ~CommitDocument(op) /\ ~MarkJobFailed(op) /\ ~DeleteCommit(op)
  BY <1>1, <1>8, <1>9
<1> QED
  BY <1>2, <1>3, <1>4, <1>5, <1>6, <1>7, <1>9
     DEF Step, IngestStep, ReindexStep, DeleteStep, Arrive, CallIngest, CallReindex, CallDelete,
         Timeout, Crash, Extract, LookupExisting, Insert, Embed, EmbedFails, EnsureCollection,
         CreateCollection, WriteRow, Refresh, Upsert, UpsertFails, Answer, ReindexLoad,
         ReindexDelete, DeleteVectors

\* A deleted document does not come back.
LEMMA DeletedStays ==
    ASSUME IInv, OwnershipInv, [Next]_vars, NEW d \in deleted' PROVE ~Live(d)'
<1>0. d \in Op
  BY NextPreserves DEF IInv, TypeOK
<1>1. CASE UNCHANGED vars
  BY <1>1 DEF OwnershipInv, vars, Live
<1>2. ASSUME NEW op \in Op, DeleteCommit(op) PROVE ~Live(d)'
  BY <1>0, <1>2, NoRowFacts DEF DeleteCommit, OwnershipInv, IInv, TypeOK, Live
<1>3. CASE UNCHANGED <<documents, deleted>>
  BY <1>3 DEF OwnershipInv, Live
<1>4. ASSUME NEW op \in Op, CommitDocument(op) \/ MarkJobFailed(op),
             ~UNCHANGED <<documents, deleted>>
      PROVE  ~Live(d)'
  <2>1. Uncommitted(op) /\ d \in deleted
    BY <1>4 DEF CommitDocument, MarkJobFailed, IInv, SessionOK, Uncommitted
  <2>2. d # op
    BY <2>1 DEF IInv, SessionOK, Known
  <2> QED
    BY <1>0, <1>4, <2>1, <2>2 DEF CommitDocument, MarkJobFailed, OwnershipInv, IInv, TypeOK, Live
<1> QED
  BY <1>1, <1>2, <1>3, <1>4
     DEF Next, Quiet, Step, IngestStep, ReindexStep, DeleteStep, Arrive, CallIngest, CreateJob,
         CallReindex, CallDelete, Timeout, Crash, MarkJobRunning, Extract, LookupExisting, Dedupe,
         Insert, Embed, EmbedFails, EnsureCollection, CreateCollection, WriteRow, Refresh, Upsert,
         UpsertFails, Complete, Answer, ReindexCreateJob, ReindexLoad, ReindexDelete, DeleteVectors

\* OwnershipInv is inductive relative to IInv.
LEMMA OwnershipPreserved == ASSUME IInv, OwnershipInv, [Next]_vars PROVE OwnershipInv'
<1>1. CASE UNCHANGED vars
  BY <1>1 DEF OwnershipInv, vars, Known, Live, Uncommitted
<1>2. ASSUME NEW op \in Op, Step(op) \/ Arrive(op) \/ Timeout(op) \/ Crash(op)
      PROVE  OwnershipInv'
  <2>1. Known' \subseteq Known \union {op} /\ Known \subseteq Known'
    <3>1. \A o \in Op \ {op} : ~DeleteCommit(op) => documents'[o] = documents[o]
      BY <1>2, OthersKept
    <3>2. ~DeleteCommit(op) => deleted' = deleted
      BY <1>2
         DEF Step, IngestStep, ReindexStep, DeleteStep, Arrive, CallIngest, CreateJob, CallReindex,
             CallDelete, Timeout, Crash, MarkJobRunning, Extract, LookupExisting, Dedupe, Insert,
             Embed, EmbedFails, EnsureCollection, CreateCollection, WriteRow, CommitDocument,
             Refresh, Upsert, UpsertFails, Complete, Answer, MarkJobFailed, ReindexCreateJob,
             ReindexLoad, ReindexDelete, DeleteVectors
    <3>3. DeleteCommit(op) => Known' \subseteq Known
      BY DEF DeleteCommit, IInv, TypeOK, PlacesOK, ArgumentsOK, Known, Live
    <3> QED
      BY <1>2, <3>1, <3>2, <3>3, KnownGrows DEF Next, Known, Live
  <2>2. ASSUME NEW o \in Op, session'[o].link \notin {NoRow, o}
        PROVE  o \notin Known' /\ ~Uncommitted(o)'
    <3>1. CASE o = op
      BY <1>2, <2>2, <3>1, LinksToOthers DEF Uncommitted
    <3>2. CASE o # op
      BY <1>2, <2>1, <2>2, <3>2, OthersKept DEF OwnershipInv, Uncommitted
    <3> QED
      BY <3>1, <3>2
  <2>3. ASSUME NEW o \in Op, o \in Known', jobs'[o] # NoRow
        PROVE  jobs'[o].document \in {NoRow, o}
    <3>1. CASE o = op
      BY <1>2, <2>3, <3>1, JobOfAuthor
    <3>2. CASE o # op /\ ~DeleteCommit(op)
      BY <1>2, <2>1, <2>3, <3>2, OthersKept DEF OwnershipInv
    <3>3. CASE o # op /\ DeleteCommit(op)
      BY <2>1, <2>3, <3>3 DEF DeleteCommit, OwnershipInv, IInv, TypeOK, Job
    <3> QED
      BY <3>1, <3>2, <3>3
  <2> QED
    BY <1>2, <2>2, <2>3, PointsOfKnown, DeletedStays DEF OwnershipInv, Next
<1> QED
  BY <1>1, <1>2 DEF Next, Quiet

\* Points, links and deletions belong to their documents in every reachable
\* state.
THEOREM OwnershipInvariant == Spec => []OwnershipInv
<1>1. Init => OwnershipInv
  BY OwnershipInit
<1>2. IInv /\ OwnershipInv /\ [Next]_vars => OwnershipInv'
  BY OwnershipPreserved
<1> QED
  BY <1>1, <1>2, StorageInvariant, PTL DEF Spec
=============================================================================
