---------------------------- MODULE SearchProofs ----------------------------
(***************************************************************************)
(* The properties of Search for any number of calls and searches, any      *)
(* queries, any number of chunks and any set of faults.                    *)
(*                                                                         *)
(* A search relates what it read at one moment to what was stored at       *)
(* another.  So the invariant says three kinds of things: what Qdrant has  *)
(* of a document that was stored, or deleted, in terms of where the calls  *)
(* are; that what a search remembers of its first moment stays true; and   *)
(* that its hits agree with what it remembers.                             *)
(***************************************************************************)
EXTENDS Search, RagStorageProofs, FiniteSetTheorems

\* A document and the job of its ingest are in the context that was asked for.
ContextInv ==
    \A o \in Op :
        /\ call[o].kind = "ingest" /\ jobs[o] # NoRow => jobs[o].ctx = call[o].ctx
        /\ Live(o) => documents[o].ctx = RequestedContext(o)

\* After its ingest a document has all its points until a call is made that
\* rewrites or removes them.
PointsInv ==
    \A d \in Op : Live(d) /\ ~Disturbed(d) /\ pc[d] \in {"complete", "answer", "returned"}
                  => vectors[d] = documents[d].rows

\* A deleted document has no points and no writer of points, unless a writer
\* was there while it was being deleted.
RacedInv ==
    /\ \A o \in Op : pc[o] = "dcommit"
                     => vectors[call[o].document] = 0 \/ call[o].document \in raced
    /\ \A d \in deleted : vectors[d] > 0 \/ (\E o \in Op : WritesPointsOf(o, d)) => d \in raced

\* H has all chunks of the documents that were ready when search s began, as
\* far as s asks for them.
HasReady(s, H) ==
    \A d \in search[s].ready :
        \/ Disturbed(d) \/ RequestedContext(d) # search[s].ctx \/ ~Selected(s, d)
        \/ {d} \X (1..NChunks) \subseteq H

\* What a search has found and what it remembers.
HitsOK(s) ==
    /\ search[s].place # "idle" => search[s].query \in Query
    /\ search[s].gone \subseteq deleted
    /\ \A d \in search[s].ready : d \in Known /\ (d \in Ingested \/ Disturbed(d))
    /\ \A c \in search[s].hits \union search[s].answer :
          /\ c[1] \in Known /\ RequestedContext(c[1]) = search[s].ctx
          /\ c[1] \in search[s].gone => c[1] \in raced
    /\ search[s].place = "rows"
       => Cardinality(search[s].hits) >= search[s].query.top_k \/ HasReady(s, search[s].hits)
    /\ search[s].place = "answered"
       => Cardinality(search[s].answer) >= search[s].query.top_k \/ HasReady(s, search[s].answer)

HitsInv == \A s \in Search : HitsOK(s)

\* The invariant, inductive together with that of RagStorage.
SearchInv == SearchTypeOK /\ ContextInv /\ PointsInv /\ RacedInv /\ HitsInv

-----------------------------------------------------------------------------
(* Finite sets.                                                            *)

\* The smaller of two numbers.
LEMMA MinOfTwo ==
    ASSUME NEW j \in Nat, NEW k \in Nat PROVE Min({j, k}) = IF j <= k THEN j ELSE k
<1> DEFINE m == IF j <= k THEN j ELSE k
<1>1. m \in {j, k} /\ \A y \in {j, k} : m <= y
  OBVIOUS
<1>2. \A x \in {j, k} : (\A y \in {j, k} : x <= y) => x = m
  OBVIOUS
<1>3. Min({j, k}) = CHOOSE x \in {j, k} : \A y \in {j, k} : x =< y
  BY DEF Min
<1> QED
  BY <1>1, <1>2, <1>3

\* Subsets of a finite set that have its cardinality, up to a limit.
LEMMA Limited ==
    ASSUME NEW S, IsFiniteSet(S), NEW k \in Nat, NEW B \in SUBSET S,
           Cardinality(B) = Min({k, Cardinality(S)})
    PROVE  /\ IsFiniteSet(B) /\ Cardinality(B) \in Nat /\ Cardinality(B) <= k
           /\ Cardinality(B) = k \/ B = S
<1>1. Cardinality(S) \in Nat /\ IsFiniteSet(B) /\ Cardinality(B) \in Nat
  BY FS_CardinalityType, FS_Subset
<1>2. Cardinality(B) = Cardinality(S) => B = S
  BY FS_Subset
<1> QED
  BY <1>1, <1>2, MinOfTwo

\* Chunks, and so whatever is found, are finitely many.
LEMMA ChunksAreFinite == \A S \in SUBSET Chunk : IsFiniteSet(S) /\ Cardinality(S) \in Nat
<1>1. IsFiniteSet(1..NChunks)
  BY FS_Interval, NChunksAssumption
<1>2. IsFiniteSet(Chunk)
  BY <1>1, CallsAssumption, FS_Product DEF Chunk
<1> QED
  BY <1>2, FS_Subset, FS_CardinalityType

\* What Qdrant returns.
LEMMA VectorHits ==
    ASSUME NEW s \in Search, search[s].query \in Query,
           NEW hits \in kSubset(Min({search[s].query.top_k, Cardinality(MatchingPoints(s))}),
                                MatchingPoints(s))
    PROVE  /\ hits \in SUBSET MatchingPoints(s) /\ hits \in SUBSET Chunk
           /\ Cardinality(hits) >= search[s].query.top_k \/ hits = MatchingPoints(s)
<1>1. MatchingPoints(s) \in SUBSET Chunk
  BY DEF MatchingPoints
<1>2. search[s].query.top_k \in Nat
  BY QueryAssumption
<1>3. /\ hits \in SUBSET MatchingPoints(s)
      /\ Cardinality(hits) = Min({search[s].query.top_k, Cardinality(MatchingPoints(s))})
  BY DEF kSubset
<1>4. IsFiniteSet(MatchingPoints(s)) /\ Cardinality(hits) \in Nat
  BY <1>1, <1>3, ChunksAreFinite
<1> QED
  BY <1>1, <1>2, <1>3, <1>4, Limited

\* What PostgreSQL returns.
LEMMA RowHits ==
    ASSUME NEW s \in Search, search[s].query \in Query, NEW lexical \in LexicalHits(s)
    PROVE  /\ lexical \in SUBSET MatchingRows(s) /\ lexical \in SUBSET Chunk
           /\ \A b \in lexical : Matches(s, b) > 0
           /\ Cardinality(MatchingRows(s)) <= 3 * search[s].query.top_k =>
                 \A c \in MatchingRows(s) \ lexical : Matches(s, c) > 0 =>
                    /\ Cardinality(lexical) = search[s].query.top_k
                    /\ \A b \in lexical : Matches(s, b) >= Matches(s, c)
<1>1. MatchingRows(s) \in SUBSET Chunk
  BY DEF MatchingRows
<1>2. search[s].query.top_k \in Nat /\ 3 * search[s].query.top_k \in Nat
  BY QueryAssumption
<1>3. PICK rows \in Fetched(s) :
         lexical \in Best({c \in rows : Matches(s, c) > 0}, search[s].query.top_k,
                         LAMBDA c : Matches(s, c))
  BY DEF LexicalHits
<1> DEFINE kept == {c \in rows : Matches(s, c) > 0}
<1>4. /\ rows \in SUBSET MatchingRows(s)
      /\ Cardinality(rows) = Min({3 * search[s].query.top_k, Cardinality(MatchingRows(s))})
  BY <1>3 DEF Fetched, kSubset
<1>5. /\ lexical \in SUBSET kept
      /\ Cardinality(lexical) = Min({search[s].query.top_k, Cardinality(kept)})
      /\ \A b \in lexical, c \in kept \ lexical : Matches(s, b) >= Matches(s, c)
  BY <1>3 DEF Best
<1>6. /\ IsFiniteSet(MatchingRows(s)) /\ Cardinality(MatchingRows(s)) \in Nat
      /\ IsFiniteSet(rows) /\ IsFiniteSet(kept)
  BY <1>1, <1>4, ChunksAreFinite, FS_Subset
<1>7. Cardinality(MatchingRows(s)) <= 3 * search[s].query.top_k => rows = MatchingRows(s)
  <2>1. Min({3 * search[s].query.top_k, Cardinality(MatchingRows(s))})
        = IF 3 * search[s].query.top_k <= Cardinality(MatchingRows(s))
          THEN 3 * search[s].query.top_k ELSE Cardinality(MatchingRows(s))
    BY <1>2, <1>6, MinOfTwo
  <2>2. Cardinality(MatchingRows(s)) <= 3 * search[s].query.top_k
        => Cardinality(rows) = Cardinality(MatchingRows(s))
    BY <1>2, <1>4, <1>6, <2>1
  <2> QED
    BY <1>4, <1>6, <2>2, FS_Subset
<1>8. Cardinality(lexical) = search[s].query.top_k \/ lexical = kept
  <2> HIDE DEF kept
  <2> QED
    BY <1>2, <1>5, <1>6, Limited
<1> QED
  BY <1>1, <1>4, <1>5, <1>7, <1>8

\* What the merge answers.
LEMMA MergedHits ==
    ASSUME NEW s \in Search, search[s].query \in Query, search[s].hits \in SUBSET Chunk,
           NEW lexical \in SUBSET Chunk, NEW answer \in Merged(s, lexical)
    PROVE  /\ answer \in SUBSET (search[s].hits \union lexical) /\ answer \in SUBSET Chunk
           /\ Cardinality(answer) <= search[s].query.top_k
           /\ \/ Cardinality(answer) = search[s].query.top_k
              \/ answer = search[s].hits \union lexical
           /\ \A b \in answer, c \in (search[s].hits \union lexical) \ answer :
                 Rank(s, lexical, b) >= Rank(s, lexical, c)
<1> DEFINE all == search[s].hits \union lexical
<1>1. search[s].query.top_k \in Nat
  BY QueryAssumption
<1>2. all \in SUBSET Chunk /\ IsFiniteSet(all)
  BY ChunksAreFinite
<1>3. /\ answer \in SUBSET all
      /\ Cardinality(answer) = Min({search[s].query.top_k, Cardinality(all)})
      /\ \A b \in answer, c \in all \ answer : Rank(s, lexical, b) >= Rank(s, lexical, c)
  BY DEF Merged, Best
<1>4. Cardinality(answer) = search[s].query.top_k \/ answer = all
  BY <1>1, <1>2, <1>3, Limited
<1>5. Cardinality(answer) <= search[s].query.top_k
  BY <1>1, <1>2, <1>3, Limited
<1> QED
  BY <1>2, <1>3, <1>4, <1>5

-----------------------------------------------------------------------------
(* What a call keeps.                                                      *)

\* A job row stays, in its tenant and scope.
LEMMA JobContextKept ==
    ASSUME IInv, [Next]_vars, NEW o \in Op, jobs[o] # NoRow
    PROVE  jobs'[o] # NoRow /\ jobs'[o].ctx = jobs[o].ctx
<1>a. jobs[o] \in Job
  BY DEF IInv, TypeOK
<1>b. jobs'[o] \in Job \union {NoRow}
  BY NextPreserves DEF IInv, TypeOK
<1>1. ASSUME NEW op \in Op, Dedupe(op) PROVE jobs'[o] # NoRow /\ jobs'[o].ctx = jobs[o].ctx
  <2>1. CASE o = op /\ Live(call[op].document)
    <3>1. jobs'[o] = [status |-> "completed", ctx |-> jobs[o].ctx,
                      document |-> call[op].document]
      BY <1>1, <2>1 DEF Dedupe, IInv, TypeOK
    <3>2. call[op].document \in Op
      BY <1>1 DEF Dedupe, IInv, TypeOK, ArgumentsOK, Known, Live
    <3>3. jobs'[o] \in Job
      BY <1>a, <3>1, <3>2 DEF Job, JobStatus
    <3> QED
      BY <3>1, <3>3, NoRowFacts
  <2>2. CASE ~(o = op /\ Live(call[op].document))
    <3>1. jobs'[o] = jobs[o]
      BY <1>1, <2>2 DEF Dedupe, IInv, TypeOK
    <3> QED
      BY <3>1
  <2> QED
    BY <2>1, <2>2
<1>2. ASSUME NEW op \in Op, CreateJob(op) \/ ReindexCreateJob(op) PROVE jobs'[o] = jobs[o]
  <2>1. o # op
    BY <1>2 DEF CreateJob, ReindexCreateJob, IInv, JobsOK
  <2> QED
    BY <1>2, <2>1 DEF CreateJob, ReindexCreateJob, IInv, TypeOK
<1>3. ASSUME NEW op \in Op, MarkJobRunning(op) \/ Complete(op)
      PROVE jobs'[o] # NoRow /\ jobs'[o].ctx = jobs[o].ctx
  <2>1. PICK status \in {"running", "completed"} : jobs' = [jobs EXCEPT ![op].status = status]
    BY <1>3 DEF MarkJobRunning, Complete
  <2>2. jobs'[o] \in {[jobs[o] EXCEPT !.status = status], jobs[o]}
    BY <2>1 DEF IInv, TypeOK
  <2>3. jobs'[o] \in Job /\ jobs'[o].ctx = jobs[o].ctx
    BY <1>a, <2>2 DEF Job, JobStatus
  <2> QED
    BY <2>3, NoRowFacts
<1>4. ASSUME NEW op \in Op, CommitDocument(op) PROVE jobs'[o] # NoRow /\ jobs'[o].ctx = jobs[o].ctx
  <2>1. session[op].link = op
    BY <1>4 DEF IInv, SessionOK, CommitDocument
  <2>2. \/ jobs'[o] = jobs[o]
        \/ \E status \in JobStatus :
              jobs'[o] = [jobs[o] EXCEPT !.status = status, !.document = op]
    <3>1. CASE o = op
      <4>1. PICK job \in CommittedJobs(op) : jobs' = [jobs EXCEPT ![op] = job]
        BY <1>4 DEF CommitDocument
      <4>2. jobs'[o] = job
        BY <3>1, <4>1 DEF IInv, TypeOK
      <4> QED
        BY <1>a, <2>1, <3>1, <4>1, <4>2 DEF CommittedJobs, Job, JobStatus
    <3> QED
      BY <1>4, <3>1 DEF CommitDocument, IInv, TypeOK
  <2>3. jobs'[o] \in Job /\ jobs'[o].ctx = jobs[o].ctx
    BY <1>a, <2>2 DEF Job
  <2> QED
    BY <2>3, NoRowFacts
<1>5. ASSUME NEW op \in Op, MarkJobFailed(op) PROVE jobs'[o] # NoRow /\ jobs'[o].ctx = jobs[o].ctx
  <2>1. CASE o = op /\ (session[op].link \in {NoRow, op} \/ Live(session[op].link))
    <3>1. PICK link \in Op \union {NoRow} :
             jobs'[o] = [[jobs[o] EXCEPT !.status = "failed"] EXCEPT !.document = link]
      <4>1. session[op].link \in Op \union {NoRow} /\ jobs[o].document \in Op \union {NoRow}
        BY <1>a DEF IInv, TypeOK, Session, Job
      <4>2. jobs'[o] = [[jobs[o] EXCEPT !.status = "failed"] EXCEPT
                          !.document = IF session[op].link = NoRow THEN jobs[o].document
                                       ELSE session[op].link]
        BY <1>5, <1>a, <2>1 DEF MarkJobFailed, IInv, TypeOK, Job
      <4> QED
        BY <4>1, <4>2
    <3>2. jobs'[o] \in Job /\ jobs'[o].ctx = jobs[o].ctx
      BY <1>a, <3>1 DEF Job, JobStatus
    <3> QED
      BY <3>2, NoRowFacts
  <2>2. CASE ~(o = op /\ (session[op].link \in {NoRow, op} \/ Live(session[op].link)))
    <3>1. jobs'[o] = jobs[o]
      BY <1>5, <2>2 DEF MarkJobFailed, IInv, TypeOK
    <3> QED
      BY <3>1
  <2> QED
    BY <2>1, <2>2
<1>6. ASSUME NEW op \in Op, DeleteCommit(op) PROVE jobs'[o] # NoRow /\ jobs'[o].ctx = jobs[o].ctx
  <2>1. jobs'[o] \in {[jobs[o] EXCEPT !.document = NoRow], jobs[o]}
    BY <1>6 DEF DeleteCommit, IInv, TypeOK
  <2>2. jobs'[o] \in Job /\ jobs'[o].ctx = jobs[o].ctx
    BY <1>a, <2>1 DEF Job
  <2> QED
    BY <2>2, NoRowFacts
<1>7. CASE UNCHANGED jobs
  BY <1>7
<1> QED
  BY <1>1, <1>2, <1>3, <1>4, <1>5, <1>6, <1>7
     DEF Next, Quiet, vars, Step, IngestStep, ReindexStep, DeleteStep, Arrive, CallIngest,
         CallReindex, CallDelete, Timeout, Crash, Extract, LookupExisting, Insert, Embed, EmbedFails,
         EnsureCollection, CreateCollection, WriteRow, Refresh, Upsert, UpsertFails, Answer,
         ReindexLoad, ReindexDelete, DeleteVectors

\* Once a call is made its arguments stay; only a lookup sets the document of
\* an ingest.
LEMMA CallKept ==
    ASSUME IInv, [Next]_vars, NEW o \in Op, pc[o] # "idle"
    PROVE  /\ call'[o].kind = call[o].kind /\ call'[o].ctx = call[o].ctx
           /\ call'[o].content = call[o].content
           /\ call[o].kind \in {"reindex", "delete"} => call'[o] = call[o]
<1>1. ASSUME NEW op \in Op, LookupExisting(op)
      PROVE  /\ call'[o].kind = call[o].kind /\ call'[o].ctx = call[o].ctx
             /\ call'[o].content = call[o].content
             /\ call[o].kind \in {"reindex", "delete"} => call'[o] = call[o]
  <2>1. call[o] \in Call
    BY DEF IInv, TypeOK
  <2>2. call[op].kind \notin {"reindex", "delete"}
    BY <1>1 DEF LookupExisting, IInv, PlacesOK, Ingests
  <2>3. call'[o] = call[o] \/ (o = op /\ \E d \in Op : call'[o] = [call[o] EXCEPT !.document = d])
    BY <1>1 DEF LookupExisting, Existing, IInv, TypeOK
  <2> QED
    BY <2>1, <2>2, <2>3 DEF Call
<1>2. ASSUME NEW op \in Op, Arrive(op) PROVE call'[o] = call[o]
  BY <1>2 DEF Arrive, CallIngest, CreateJob, CallReindex, CallDelete, IInv, TypeOK
<1>3. CASE UNCHANGED call
  BY <1>3
<1> QED
  BY <1>1, <1>2, <1>3
     DEF Next, Quiet, vars, Step, IngestStep, ReindexStep, DeleteStep, Timeout, Crash,
         MarkJobRunning, Extract, Dedupe, Insert, Embed, EmbedFails, EnsureCollection,
         CreateCollection, WriteRow, CommitDocument, Refresh, Upsert, UpsertFails, Complete, Answer,
         MarkJobFailed, ReindexCreateJob, ReindexLoad, ReindexDelete, DeleteVectors, DeleteCommit

\* What was asked for a stored document does not change.
LEMMA DocumentsKept ==
    ASSUME IInv, [Next]_vars, NEW d \in Known
    PROVE  /\ d \in Known' /\ Ingests(d) /\ pc[d] # "idle"
           /\ RequestedContext(d)' = RequestedContext(d)
           /\ call'[d].content = call[d].content
           /\ Disturbed(d) => Disturbed(d)'
<1>1. d \in Op /\ Ingests(d) /\ pc[d] # "idle"
  BY DEF Known, Live, IInv, TypeOK, DocumentsOK, Settled
<1>2. call'[d].kind = call[d].kind /\ call'[d].ctx = call[d].ctx /\ call'[d].content = call[d].content
  BY <1>1, CallKept
<1>3. call[d].kind = "worker" => jobs'[d].ctx = jobs[d].ctx
  BY <1>1, JobContextKept DEF IInv, JobsOK
<1>4. Disturbed(d) => Disturbed(d)'
  <2> SUFFICES ASSUME NEW o \in Op, call[o].kind \in {"reindex", "delete"}, call[o].document = d
               PROVE  Disturbed(d)'
    BY DEF Disturbed
  <2>1. call'[o] = call[o]
    BY CallKept DEF IInv, PlacesOK
  <2> QED
    BY <2>1 DEF Disturbed
<1> QED
  BY <1>1, <1>2, <1>3, <1>4, KnownGrows DEF RequestedContext

-----------------------------------------------------------------------------
(* ContextInv.                                                             *)

LEMMA ContextInit == Init => ContextInv
  BY DEF Init, ContextInv, NoCall, Live

\* An ingest works in the context it was asked to.
LEMMA IngestsWhereAsked ==
    ASSUME IInv, ContextInv, NEW o \in Op, Ingests(o)
    PROVE  IngestContext(o) = RequestedContext(o)
  BY DEF IInv, JobsOK, ContextInv, IngestContext, RequestedContext, Ingests

LEMMA ContextPreserved == ASSUME IInv, ContextInv, [Next]_vars PROVE ContextInv'
<1>1. ASSUME NEW o \in Op, call'[o].kind = "ingest", jobs'[o] # NoRow PROVE jobs'[o].ctx = call'[o].ctx
  <2>1. CASE jobs[o] # NoRow
    <3>1. pc[o] # "idle"
      BY <2>1 DEF IInv, JobsOK
    <3> QED
      BY <1>1, <2>1, <3>1, JobContextKept, CallKept DEF ContextInv
  <2>2. ASSUME jobs[o] = NoRow, NEW op \in Op, Dedupe(op) PROVE jobs'[o].ctx = call'[o].ctx
    <3>1. o = op /\ Live(call[op].document) /\ Ingests(o)
      BY <1>1, <2>2 DEF Dedupe, IInv, TypeOK, PlacesOK
    <3>2. jobs'[o].ctx = documents[call[o].document].ctx /\ call'[o].ctx = call[o].ctx
      BY <2>2, <3>1 DEF Dedupe, IInv, TypeOK
    <3>3. documents[call[o].document].ctx = IngestContext(o)
      BY <2>2, <3>1 DEF Dedupe, IInv, ArgumentsOK
    <3> QED
      BY <2>2, <3>2, <3>3 DEF IngestContext
  <2>3. ASSUME jobs[o] = NoRow, NEW op \in Op, CommitDocument(op) PROVE jobs'[o].ctx = call'[o].ctx
    <3>1. o = op
      BY <1>1, <2>3 DEF CommitDocument, IInv, TypeOK
    <3>2. PICK job \in CommittedJobs(op) : jobs' = [jobs EXCEPT ![op] = job]
      BY <2>3 DEF CommitDocument
    <3>3. jobs'[o] = job
      BY <3>1, <3>2 DEF IInv, TypeOK
    <3> QED
      BY <2>3, <3>1, <3>2, <3>3 DEF CommitDocument, CommittedJobs
  <2>4. ASSUME jobs[o] = NoRow, NEW op \in Op,
               MarkJobRunning(op) \/ Complete(op) \/ MarkJobFailed(op) \/ DeleteCommit(op)
        PROVE  FALSE
    <3>1. pc[op] \in {"queued", "complete", "failing"} => jobs[op] # NoRow
      BY DEF IInv, JobsOK, PlacesOK
    <3>2. jobs'[o] = jobs[o]
      BY <2>4, <3>1 DEF MarkJobRunning, Complete, MarkJobFailed, DeleteCommit, IInv, TypeOK
    <3> QED
      BY <1>1, <2>4, <3>2
  <2>5. ASSUME jobs[o] = NoRow, NEW op \in Op, CreateJob(op) \/ ReindexCreateJob(op)
        PROVE  FALSE
    <3>1. CASE o = op
      BY <1>1, <2>5, <3>1 DEF CreateJob, ReindexCreateJob, IInv, TypeOK, PlacesOK
    <3>2. CASE o # op
      BY <1>1, <2>5, <3>2 DEF CreateJob, ReindexCreateJob, IInv, TypeOK
    <3> QED
      BY <3>1, <3>2
  <2>6. CASE UNCHANGED jobs /\ jobs[o] = NoRow
    BY <1>1, <2>6
  <2> QED
    BY <2>1, <2>2, <2>3, <2>4, <2>5, <2>6
       DEF Next, Quiet, vars, Step, IngestStep, ReindexStep, DeleteStep, Arrive, CallIngest,
           CallReindex, CallDelete, Timeout, Crash, Extract, LookupExisting, Insert, Embed,
           EmbedFails, EnsureCollection, CreateCollection, WriteRow, Refresh, Upsert, UpsertFails,
           Answer, ReindexLoad, ReindexDelete, DeleteVectors
<1>2. ASSUME NEW o \in Op, Live(o)' PROVE documents'[o].ctx = RequestedContext(o)'
  <2>1. CASE documents'[o] = documents[o]
    <3>1. Live(o) /\ o \in Known
      BY <1>2, <2>1 DEF Live, Known
    <3> QED
      BY <2>1, <3>1, DocumentsKept DEF ContextInv
  <2>2. ASSUME NEW op \in Op, CommitDocument(op) \/ MarkJobFailed(op), documents'[o] # documents[o]
        PROVE  documents'[o].ctx = RequestedContext(o)'
    <3>1. o = op /\ Uncommitted(o) /\ Ingests(o) /\ pc[o] # "idle"
      BY <2>2 DEF CommitDocument, MarkJobFailed, IInv, TypeOK, SessionOK, Uncommitted
    <3>2. documents'[o].ctx = IngestContext(o)
      BY <2>2, <3>1 DEF CommitDocument, MarkJobFailed, IInv, TypeOK, FlushedDocument
    <3>3. call'[o].kind = call[o].kind /\ call'[o].ctx = call[o].ctx
      BY <3>1, CallKept
    <3>4. call[o].kind = "worker" => jobs'[o].ctx = jobs[o].ctx
      BY JobContextKept DEF IInv, JobsOK
    <3> QED
      BY <3>1, <3>2, <3>3, <3>4, IngestsWhereAsked DEF RequestedContext
  <2>3. ASSUME NEW op \in Op, DeleteCommit(op) PROVE documents'[o] = documents[o]
    BY <1>2, <2>3 DEF DeleteCommit, IInv, TypeOK, Live
  <2>4. CASE UNCHANGED documents
    BY <2>1, <2>4
  <2> QED
    BY <2>1, <2>2, <2>3, <2>4
       DEF Next, Quiet, vars, Step, IngestStep, ReindexStep, DeleteStep, Arrive, CallIngest, CreateJob,
           CallReindex, CallDelete, Timeout, Crash, MarkJobRunning, Extract, LookupExisting, Dedupe,
           Insert, Embed, EmbedFails, EnsureCollection, CreateCollection, WriteRow, Refresh, Upsert,
           UpsertFails, Complete, Answer, ReindexCreateJob, ReindexLoad, ReindexDelete, DeleteVectors
<1> QED
  BY <1>1, <1>2 DEF ContextInv

-----------------------------------------------------------------------------
(* PointsInv.                                                              *)

\* A call that writes points of a document it has not added disturbs it.
LEMMA WritersDisturb ==
    ASSUME IInv, NEW op \in Op, NEW d \in Op, op # d,
           \/ pc[op] = "upsert" /\ Target(op) = d
           \/ pc[op] \in {"rdelete", "ddelete", "dcommit"} /\ call[op].document = d
    PROVE  Disturbed(d)
<1>1. call[op].document = d /\ call[op].document # NoRow
  BY NoRowFacts DEF Target
<1>2. pc[op] = "upsert" => call[op].kind = "reindex"
  BY <1>1 DEF IInv, PlacesOK, ArgumentsOK, Settled
<1>3. pc[op] # "upsert" => call[op].kind \in {"reindex", "delete"}
  BY DEF IInv, PlacesOK
<1> QED
  BY <1>1, <1>2, <1>3 DEF Disturbed

\* Where a document that is complete has just come from.
LEMMA CompletedBefore ==
    ASSUME IInv, [Next]_vars, NEW d \in Known, pc'[d] \in {"complete", "answer", "returned"}
    PROVE  \/ pc[d] \in {"complete", "answer", "returned"}
           \/ Upsert(d)
<1>0. d \in Op /\ Ingests(d)
  BY DocumentsKept DEF Known, IInv, TypeOK
<1>1. ASSUME NEW op \in Op, Arrive(op) \/ ReindexStep(op) \/ DeleteStep(op) \/ Timeout(op) \/ Crash(op)
      PROVE  pc'[d] \in {pc[d], "failing", "raised", "crashed"}
  BY <1>0, <1>1, OthersKept, DocumentsKept
     DEF IInv, TypeOK, PlacesOK, Ingests, Arrive, CallIngest, CreateJob, CallReindex, CallDelete,
         ReindexStep, ReindexCreateJob, ReindexLoad, ReindexDelete, DeleteStep, DeleteVectors,
         DeleteCommit, Timeout, Crash, Goto, End, RaiseFromFlush
<1>2. ASSUME NEW op \in Op, IngestStep(op), ~Upsert(op), ~Complete(op), ~Answer(op)
      PROVE  pc'[d] \notin {"complete", "answer", "returned"} \/ pc'[d] = pc[d]
  <2>1. CASE op # d
    BY <1>0, <1>2, <2>1, OthersKept DEF Step
  <2>2. CASE op = d
    <3>1. pc[d] # "dedupe"
      BY <1>0 DEF IInv, DocumentsOK, Settled
    <3> QED
      BY <1>0, <1>2, <2>2, <3>1
         DEF IInv, TypeOK, IngestStep, MarkJobRunning, Extract, LookupExisting, Dedupe, Insert, Embed,
             EmbedFails, EnsureCollection, CreateCollection, WriteRow, CommitDocument, Refresh,
             UpsertFails, MarkJobFailed, Goto, End, Raise, RaiseFromFlush, AfterEnsure
  <2> QED
    BY <2>1, <2>2
<1>3. ASSUME NEW op \in Op, Upsert(op) \/ Complete(op) \/ Answer(op), ~Upsert(d)
      PROVE  pc'[d] = pc[d] \/ pc[d] \in {"complete", "answer", "returned"}
  <2>1. CASE op # d
    BY <1>0, <1>3, <2>1, OthersKept DEF Step, IngestStep
  <2>2. CASE op = d
    BY <1>3, <2>2 DEF Complete, Answer
  <2> QED
    BY <2>1, <2>2
<1> QED
  BY <1>1, <1>2, <1>3 DEF Next, Step, Quiet, vars

\* The points of a document that no other call disturbs.
LEMMA PointsKept ==
    ASSUME IInv, [Next]_vars, NEW d \in Op, ~Disturbed(d),
           pc'[d] \in {"complete", "answer", "returned"}, ~Upsert(d)
    PROVE  vectors'[d] = vectors[d]
<1>1. ASSUME NEW op \in Op, Upsert(op) \/ UpsertFails(op) PROVE vectors'[d] = vectors[d]
  <2>1. CASE op = d
    BY <1>1, <2>1 DEF UpsertFails, Goto, IInv, TypeOK
  <2>2. CASE op # d
    <3>1. Target(op) # d
      BY <1>1, <2>2, WritersDisturb DEF Upsert, UpsertFails
    <3> QED
      BY <1>1, <3>1 DEF Upsert, UpsertFails, IInv, TypeOK
  <2> QED
    BY <2>1, <2>2
<1>2. ASSUME NEW op \in Op, ReindexDelete(op) \/ DeleteVectors(op) PROVE vectors'[d] = vectors[d]
  <2>1. call[op].kind \in {"reindex", "delete"}
    BY <1>2 DEF ReindexDelete, DeleteVectors, IInv, PlacesOK
  <2>2. call[op].document # d
    BY <2>1 DEF Disturbed
  <2> QED
    BY <1>2, <2>2 DEF ReindexDelete, DeleteVectors, IInv, TypeOK
<1>3. CASE UNCHANGED vectors
  BY <1>3
<1> QED
  BY <1>1, <1>2, <1>3
     DEF Next, Quiet, vars, Step, IngestStep, ReindexStep, DeleteStep, Arrive, CallIngest, CreateJob,
         CallReindex, CallDelete, Timeout, Crash, MarkJobRunning, Extract, LookupExisting, Dedupe,
         Insert, Embed, EmbedFails, EnsureCollection, CreateCollection, WriteRow, CommitDocument,
         Refresh, Complete, Answer, MarkJobFailed, ReindexCreateJob, ReindexLoad, DeleteCommit

LEMMA PointsPreserved == ASSUME IInv, OwnershipInv, PointsInv, [Next]_vars PROVE PointsInv'
<1> SUFFICES ASSUME NEW d \in Op, Live(d)', ~Disturbed(d)',
                    pc'[d] \in {"complete", "answer", "returned"}
             PROVE  vectors'[d] = documents'[d].rows
  BY DEF PointsInv
<1>1. documents'[d] = documents[d]
  <2>1. ASSUME NEW op \in Op, CommitDocument(op) \/ MarkJobFailed(op) PROVE documents'[d] = documents[d]
    BY <2>1 DEF CommitDocument, MarkJobFailed, End, Goto, IInv, TypeOK
  <2>2. ASSUME NEW op \in Op, DeleteCommit(op) PROVE documents'[d] = documents[d]
    BY <2>2 DEF DeleteCommit, IInv, TypeOK, Live
  <2>3. CASE UNCHANGED documents
    BY <2>3
  <2> QED
    BY <2>1, <2>2, <2>3
       DEF Next, Quiet, vars, Step, IngestStep, ReindexStep, DeleteStep, Arrive, CallIngest, CreateJob,
           CallReindex, CallDelete, Timeout, Crash, MarkJobRunning, Extract, LookupExisting, Dedupe,
           Insert, Embed, EmbedFails, EnsureCollection, CreateCollection, WriteRow, Refresh, Upsert,
           UpsertFails, Complete, Answer, ReindexCreateJob, ReindexLoad, ReindexDelete, DeleteVectors
<1>2. Live(d) /\ d \in Known /\ Ingests(d) /\ ~Disturbed(d)
  <2>1. Live(d) /\ d \in Known
    BY <1>1 DEF Live, Known
  <2> QED
    BY <2>1, DocumentsKept
<1>3. CASE Upsert(d)
  <2>1. Target(d) = d
    BY <1>2, <1>3, NoRowFacts DEF Target, Upsert, IInv, ArgumentsOK, Settled
  <2>2. points[d] = documents[d].rows
    BY <1>2, <1>3, <2>1 DEF IInv, DocumentsOK, Upsert
  <2> QED
    BY <1>1, <1>3, <2>1, <2>2 DEF Upsert, IInv, TypeOK
<1>4. CASE ~Upsert(d)
  BY <1>1, <1>2, <1>4, CompletedBefore, PointsKept DEF PointsInv
<1> QED
  BY <1>3, <1>4

-----------------------------------------------------------------------------
(* RacedInv.                                                               *)

\* A call that is not running starts with its arrival, and does not return.
LEMMA Activated ==
    ASSUME IInv, [Next]_vars, NEW o \in Op, pc'[o] \in Active, pc[o] \notin Active
    PROVE  Arrive(o)
<1>1. PICK op \in Op : Arrive(op) \/ Step(op) \/ Timeout(op) \/ Crash(op)
  BY DEF Next, Quiet, vars
<1>2. op = o
  BY <1>1, OthersKept
<1>3. ~Timeout(o) /\ ~Crash(o)
  BY DEF Timeout, Crash, Active
<1>4. ~ReindexStep(o) /\ ~DeleteStep(o)
  BY DEF ReindexStep, ReindexCreateJob, ReindexLoad, ReindexDelete, DeleteStep, DeleteVectors,
         DeleteCommit, Active, WorkerTry
<1>5. ~IngestStep(o)
  BY DEF IngestStep, MarkJobRunning, Extract, LookupExisting, Dedupe, Insert, Embed, EmbedFails,
         EnsureCollection, CreateCollection, WriteRow, CommitDocument, Refresh, Upsert, UpsertFails,
         Complete, Answer, MarkJobFailed, Active, WorkerTry
<1> QED
  BY <1>1, <1>2, <1>3, <1>4, <1>5 DEF Step

\* Whoever raises the number of points of a document is one of its writers.
LEMMA PointsHaveWriter ==
    ASSUME IInv, [Next]_vars, NEW d \in Op, vectors'[d] # vectors[d], vectors'[d] > 0
    PROVE  \E op \in Op : WritesPointsOf(op, d)
<1>1. ASSUME NEW op \in Op, Upsert(op) \/ UpsertFails(op) PROVE WritesPointsOf(op, d)
  <2>1. Target(op) = d /\ pc[op] = "upsert"
    BY <1>1 DEF Upsert, UpsertFails, IInv, TypeOK
  <2>2. op # d => call[op].kind = "reindex" /\ call[op].document = d
    BY <2>1, NoRowFacts DEF Target, IInv, PlacesOK, ArgumentsOK, Settled
  <2> QED
    BY <2>1, <2>2 DEF WritesPointsOf, Active, WorkerTry
<1>2. ASSUME NEW op \in Op, ReindexDelete(op) \/ DeleteVectors(op) PROVE FALSE
  BY <1>2 DEF ReindexDelete, DeleteVectors, IInv, TypeOK
<1>3. CASE UNCHANGED vectors
  BY <1>3
<1> QED
  BY <1>1, <1>2, <1>3
     DEF Next, Quiet, vars, Step, IngestStep, ReindexStep, DeleteStep, Arrive, CallIngest, CreateJob,
         CallReindex, CallDelete, Timeout, Crash, MarkJobRunning, Extract, LookupExisting, Dedupe,
         Insert, Embed, EmbedFails, EnsureCollection, CreateCollection, WriteRow, CommitDocument,
         Refresh, Complete, Answer, MarkJobFailed, ReindexCreateJob, ReindexLoad, DeleteCommit

\* No new writer of a deleted document.
LEMMA NoNewWriter ==
    ASSUME IInv, OwnershipInv, [Next]_vars, NEW d \in deleted, NEW o \in Op, WritesPointsOf(o, d)'
    PROVE  WritesPointsOf(o, d)
<1>0. d \in Known /\ ~Live(d)
  BY DEF Known, OwnershipInv
<1>1. CASE pc[o] \in Active
  <2>1. pc[o] # "idle"
    BY <1>1 DEF Active, WorkerTry
  <2>2. call'[o].kind = call[o].kind /\ (call[o].kind = "reindex" => call'[o] = call[o])
    BY <2>1, CallKept
  <2> QED
    BY <1>1, <2>2 DEF WritesPointsOf
<1>2. CASE pc[o] \notin Active
  <2>1. Arrive(o) /\ pc'[o] \in Active
    BY <1>2, Activated DEF WritesPointsOf
  <2>2. o # d
    BY <1>0, <2>1, DocumentsKept DEF Arrive, CallIngest, CreateJob, CallReindex, CallDelete
  <2>3. call'[o].kind = "reindex" /\ call'[o].document = d
    BY <2>2 DEF WritesPointsOf
  <2>4. CallReindex(o)
    BY <2>1, <2>3 DEF Arrive, CallIngest, CreateJob, CallDelete, IInv, TypeOK
  <2>5. pc'[o] = "raised"
    BY <1>0, <2>3, <2>4 DEF CallReindex, Goto, Found, IInv, TypeOK
  <2> QED
    BY <2>1, <2>5 DEF Active, WorkerTry
<1> QED
  BY <1>1, <1>2

LEMMA RacedPreserved ==
    ASSUME IInv, OwnershipInv, RacedInv, [Next]_vars, raced' = raced \union Racing
    PROVE  RacedInv'
<1>0. \A o \in Op : pc[o] = "dcommit" => call[o].document \in Op /\ call[o].kind = "delete"
  BY DEF IInv, TypeOK, PlacesOK, ArgumentsOK, Known, Live
<1>1. ASSUME NEW o \in Op, pc'[o] = "dcommit"
      PROVE  vectors'[call'[o].document] = 0 \/ call'[o].document \in raced'
  <2>1. CASE pc[o] = "dcommit"
    <3>1. call'[o] = call[o]
      BY <1>0, <2>1, CallKept
    <3> DEFINE d == call[o].document
    <3>2. d \in Op
      BY <1>0, <2>1
    <3>3. CASE d \in raced
      BY <3>1, <3>3
    <3>4. CASE vectors[d] = 0 /\ vectors'[d] > 0
      <4>1. PICK p \in Op : WritesPointsOf(p, d)
        BY <3>2, <3>4, PointsHaveWriter
      <4> QED
        BY <2>1, <3>1, <3>2, <4>1 DEF Racing
    <3>5. vectors'[d] \in Nat
      BY <3>2, NextPreserves, NChunksAssumption DEF IInv, TypeOK
    <3> QED
      BY <2>1, <3>1, <3>3, <3>4, <3>5 DEF RacedInv
  <2>2. CASE pc[o] # "dcommit"
    <3>1. PICK op \in Op : Arrive(op) \/ Step(op) \/ Timeout(op) \/ Crash(op)
      BY <1>1, <2>2 DEF Next, Quiet, vars
    <3>2. op = o
      BY <1>1, <2>2, <3>1, OthersKept
    <3>3. DeleteVectors(o)
      BY <1>1, <2>2, <3>1, <3>2
         DEF Step, IngestStep, ReindexStep, DeleteStep, Arrive, CallIngest, CreateJob,
             CallReindex, CallDelete, Timeout, Crash, MarkJobRunning, Extract, LookupExisting, Dedupe,
             Insert, Embed, EmbedFails, EnsureCollection, CreateCollection, WriteRow, CommitDocument,
             Refresh, Upsert, UpsertFails, Complete, Answer, MarkJobFailed, ReindexCreateJob,
             ReindexLoad, ReindexDelete, DeleteCommit, Goto, End, Raise, RaiseFromFlush, AfterEnsure,
             IInv, TypeOK
    <3>4. call[o].document \in Op
      BY <3>3 DEF DeleteVectors, IInv, TypeOK, PlacesOK, ArgumentsOK, Known, Live
    <3> QED
      BY <1>1, <3>3, <3>4 DEF DeleteVectors, End, Goto, IInv, TypeOK
  <2> QED
    BY <2>1, <2>2
<1>2. ASSUME NEW d \in deleted, vectors'[d] > 0 \/ (\E o \in Op : WritesPointsOf(o, d)')
      PROVE  d \in raced'
  <2>1. d \in Op
    BY DEF IInv, TypeOK
  <2>2. CASE vectors'[d] > 0
    <3>1. vectors[d] > 0 \/ (\E o \in Op : WritesPointsOf(o, d))
      BY <2>1, <2>2, PointsHaveWriter
    <3> QED
      BY <3>1 DEF RacedInv
  <2>3. CASE \E o \in Op : WritesPointsOf(o, d)'
    BY <2>3, NoNewWriter DEF RacedInv
  <2> QED
    BY <1>2, <2>2, <2>3
<1>3. ASSUME NEW d \in deleted', d \notin deleted,
             vectors'[d] > 0 \/ (\E o \in Op : WritesPointsOf(o, d)')
      PROVE  d \in raced'
  <2>1. PICK op \in Op : DeleteCommit(op)
    BY <1>3
       DEF Next, Quiet, vars, Step, IngestStep, ReindexStep, DeleteStep, Arrive, CallIngest, CreateJob,
           CallReindex, CallDelete, Timeout, Crash, MarkJobRunning, Extract, LookupExisting, Dedupe,
           Insert, Embed, EmbedFails, EnsureCollection, CreateCollection, WriteRow, CommitDocument,
           Refresh, Upsert, UpsertFails, Complete, Answer, MarkJobFailed, ReindexCreateJob,
           ReindexLoad, ReindexDelete, DeleteVectors
  <2>2. pc[op] = "dcommit" /\ call[op].document = d /\ d \in Op
    BY <1>0, <1>3, <2>1 DEF DeleteCommit
  <2>3. CASE vectors'[d] > 0
    BY <2>1, <2>2, <2>3 DEF DeleteCommit, RacedInv
  <2>4. ASSUME NEW o \in Op, WritesPointsOf(o, d)' PROVE d \in raced'
    <3>1. o # op
      BY <2>1, <2>4 DEF DeleteCommit, End, Goto, WritesPointsOf, Active, WorkerTry, IInv, TypeOK
    <3>2. pc'[o] = pc[o] /\ call'[o] = call[o]
      BY <2>1, <3>1, OthersKept DEF Step, DeleteStep
    <3>3. WritesPointsOf(o, d)
      BY <2>4, <3>2 DEF WritesPointsOf
    <3> QED
      BY <2>2, <3>3 DEF Racing
  <2> QED
    BY <1>3, <2>3, <2>4
<1> QED
  BY <1>1, <1>2, <1>3 DEF RacedInv

-----------------------------------------------------------------------------
(* HitsInv and SearchTypeOK.                                               *)

\* A call that has returned has returned for good.
LEMMA ReturnedStays ==
    ASSUME IInv, [Next]_vars, NEW o \in Op, pc[o] = "returned" PROVE pc'[o] = "returned"
<1>1. CASE UNCHANGED vars
  BY <1>1 DEF vars
<1>2. ASSUME NEW op \in Op, Arrive(op) \/ Step(op) \/ Timeout(op) \/ Crash(op) PROVE op # o
  BY <1>2
     DEF Step, IngestStep, ReindexStep, DeleteStep, Arrive, CallIngest, CreateJob,
         CallReindex, CallDelete, Timeout, Crash, MarkJobRunning, Extract, LookupExisting, Dedupe,
         Insert, Embed, EmbedFails, EnsureCollection, CreateCollection, WriteRow, CommitDocument,
         Refresh, Upsert, UpsertFails, Complete, Answer, MarkJobFailed, ReindexCreateJob,
         ReindexLoad, ReindexDelete, DeleteVectors, DeleteCommit, Active, WorkerTry
<1> QED
  BY <1>1, <1>2, OthersKept DEF Next, Quiet

\* The history of deletions grows.
LEMMA DeletedGrows == ASSUME [Next]_vars PROVE deleted \subseteq deleted'
  BY DEF Next, Quiet, vars, Step, IngestStep, ReindexStep, DeleteStep, Arrive, CallIngest, CreateJob,
         CallReindex, CallDelete, Timeout, Crash, MarkJobRunning, Extract, LookupExisting, Dedupe,
         Insert, Embed, EmbedFails, EnsureCollection, CreateCollection, WriteRow, CommitDocument,
         Refresh, Upsert, UpsertFails, Complete, Answer, MarkJobFailed, ReindexCreateJob,
         ReindexLoad, ReindexDelete, DeleteVectors, DeleteCommit

\* A document whose ingest has returned stays as it is until it is disturbed.
LEMMA IngestedStays ==
    ASSUME IInv, [Next]_vars, NEW d \in Ingested PROVE d \in Ingested' \/ Disturbed(d)
<1>1. d \in Op /\ Live(d) /\ pc[d] = "returned" /\ documents[d].rows = NChunks /\ d \in Known
  BY DEF Ingested, Known
<1>2. pc'[d] = "returned"
  BY <1>1, ReturnedStays
<1>3. ASSUME NEW op \in Op, DeleteCommit(op), documents'[d] # documents[d] PROVE Disturbed(d)
  <2>1. pc[op] = "dcommit" /\ call[op].document = d
    BY <1>1, <1>3 DEF DeleteCommit, IInv, TypeOK
  <2> QED
    BY <1>1, <2>1, WritersDisturb
<1>4. ASSUME NEW op \in Op, CommitDocument(op) \/ MarkJobFailed(op) PROVE documents'[d] = documents[d]
  BY <1>1, <1>4 DEF CommitDocument, MarkJobFailed, IInv, TypeOK
<1>5. documents'[d] = documents[d] \/ Disturbed(d)
  BY <1>3, <1>4
     DEF Next, Quiet, vars, Step, IngestStep, ReindexStep, DeleteStep, Arrive, CallIngest, CreateJob,
         CallReindex, CallDelete, Timeout, Crash, MarkJobRunning, Extract, LookupExisting, Dedupe,
         Insert, Embed, EmbedFails, EnsureCollection, CreateCollection, WriteRow,
         Refresh, Upsert, UpsertFails, Complete, Answer, ReindexCreateJob,
         ReindexLoad, ReindexDelete, DeleteVectors
<1> QED
  BY <1>1, <1>2, <1>5 DEF Ingested, Live

\* What a search has and remembers stays right while the calls go on.
LEMMA HitsKept ==
    ASSUME IInv, [Next]_vars, raced \subseteq raced',
           NEW s \in Search, HitsOK(s), search'[s] = search[s]
    PROVE  HitsOK(s)'
<1>1. \A d \in search[s].ready : d \in Known' /\ (d \in Ingested' \/ Disturbed(d)')
  BY DocumentsKept, IngestedStays DEF HitsOK
<1>2. ASSUME NEW H, HasReady(s, H),
             NEW d \in search'[s].ready
      PROVE  \/ Disturbed(d)' \/ RequestedContext(d)' # search'[s].ctx \/ ~Selected(s, d)'
             \/ {d} \X (1..NChunks) \subseteq H
  <2>1. d \in Known
    BY DEF HitsOK
  <2>2. RequestedContext(d)' = RequestedContext(d) /\ call'[d].content = call[d].content
        /\ (Disturbed(d) => Disturbed(d)')
    BY <2>1, DocumentsKept
  <2>3. Selected(s, d)' => Selected(s, d)
    BY <2>2 DEF Selected
  <2> QED
    BY <1>2, <2>2, <2>3 DEF HasReady
<1>3. HasReady(s, search[s].hits) => HasReady(s, search[s].hits)'
  BY <1>2 DEF HasReady
<1>4. HasReady(s, search[s].answer) => HasReady(s, search[s].answer)'
  BY <1>2 DEF HasReady
<1>5. ASSUME NEW c \in search'[s].hits \union search'[s].answer
      PROVE  /\ c[1] \in Known' /\ RequestedContext(c[1])' = search'[s].ctx
             /\ c[1] \in search'[s].gone => c[1] \in raced'
  <2>1. c[1] \in Known /\ RequestedContext(c[1]) = search[s].ctx
        /\ (c[1] \in search[s].gone => c[1] \in raced)
    BY <1>5 DEF HitsOK
  <2> QED
    BY <2>1, DocumentsKept
<1>6. search'[s].gone \subseteq deleted'
  BY DeletedGrows DEF HitsOK
<1> QED
  BY <1>1, <1>3, <1>4, <1>5, <1>6 DEF HitsOK

\* The values a search goes through.
SearchState == [place: {"idle", "vectors", "rows", "answered", "raised"},
                ctx: Context, document: Op \union {NoRow}, query: Query \union {NoRow},
                hits: SUBSET Chunk, answer: SUBSET Chunk, ready: SUBSET Op, gone: SUBSET Op]

\* What a search looks like after its call.
LEMMA SearchCalled ==
    ASSUME IInv, SearchTypeOK, NEW s \in Search, CallSearch(s)
    PROVE  /\ search'[s] \in SearchState
           /\ search'[s].place = "vectors" /\ search'[s].query \in Query
           /\ search'[s].hits = {} /\ search'[s].answer = {}
           /\ search'[s].ready = Ingested /\ search'[s].gone = deleted
<1>1. PICK ctx \in Context, q \in Query, d \in Known \union {NoRow} :
         search' = [search EXCEPT ![s] = [NoSearch EXCEPT !.place = "vectors", !.ctx = ctx,
                                             !.document = d, !.query = q,
                                             !.ready = Ingested, !.gone = deleted]]
  BY DEF CallSearch
<1>2. search'[s] = [NoSearch EXCEPT !.place = "vectors", !.ctx = ctx, !.document = d, !.query = q,
                                    !.ready = Ingested, !.gone = deleted]
  BY <1>1 DEF SearchTypeOK
<1>3. search'[s] = [place |-> "vectors", ctx |-> ctx, document |-> d, query |-> q, hits |-> {},
                    answer |-> {}, ready |-> Ingested, gone |-> deleted]
  BY <1>2 DEF NoSearch
<1>4. d \in Op \union {NoRow} /\ Ingested \subseteq Op /\ deleted \subseteq Op
  BY DEF IInv, TypeOK, Known, Ingested
<1> QED
  BY <1>3, <1>4 DEF SearchState

\* What a search looks like after the vectors were read.
LEMMA VectorsRead ==
    ASSUME IInv, SearchTypeOK, NEW s \in Search, VectorSearch(s), search[s].query \in Query
    PROVE  /\ search'[s] \in SearchState
           /\ search'[s].ctx = search[s].ctx /\ search'[s].document = search[s].document
           /\ search'[s].query = search[s].query /\ search'[s].ready = search[s].ready
           /\ search'[s].gone = search[s].gone /\ search'[s].answer = search[s].answer
           /\ \/ search'[s].place = "raised" /\ search'[s].hits = search[s].hits
              \/ /\ search'[s].place = "rows"
                 /\ search'[s].hits \in SUBSET MatchingPoints(s)
                 /\ \/ Cardinality(search'[s].hits) >= search[s].query.top_k
                    \/ search'[s].hits = MatchingPoints(s)
<1>a. search[s] \in SearchState
  BY DEF SearchTypeOK, SearchState
<1>1. CASE search' = [search EXCEPT ![s].place = "raised"]
  <2>1. search'[s] = [search[s] EXCEPT !.place = "raised"]
    BY <1>1 DEF SearchTypeOK
  <2> QED
    BY <1>a, <2>1 DEF SearchState
<1>2. ASSUME NEW hits \in kSubset(Min({search[s].query.top_k, Cardinality(MatchingPoints(s))}),
                                  MatchingPoints(s)),
             search' = [search EXCEPT ![s].hits = hits, ![s].place = "rows"]
      PROVE  /\ search'[s] \in SearchState
             /\ search'[s].ctx = search[s].ctx /\ search'[s].document = search[s].document
             /\ search'[s].query = search[s].query /\ search'[s].ready = search[s].ready
             /\ search'[s].gone = search[s].gone /\ search'[s].answer = search[s].answer
             /\ search'[s].place = "rows"
             /\ search'[s].hits \in SUBSET MatchingPoints(s)
             /\ \/ Cardinality(search'[s].hits) >= search[s].query.top_k
                \/ search'[s].hits = MatchingPoints(s)
  <2>1. search'[s] = [[search[s] EXCEPT !.hits = hits] EXCEPT !.place = "rows"]
    BY <1>2 DEF SearchTypeOK
  <2>2. /\ hits \in SUBSET MatchingPoints(s) /\ hits \in SUBSET Chunk
        /\ Cardinality(hits) >= search[s].query.top_k \/ hits = MatchingPoints(s)
    BY <1>2, VectorHits
  <2>3. /\ search'[s].hits = hits /\ search'[s] \in SearchState
        /\ search'[s].ctx = search[s].ctx /\ search'[s].document = search[s].document
        /\ search'[s].query = search[s].query /\ search'[s].ready = search[s].ready
        /\ search'[s].gone = search[s].gone /\ search'[s].answer = search[s].answer
        /\ search'[s].place = "rows"
    BY <1>a, <2>1, <2>2 DEF SearchState
  <2> QED
    BY <2>2, <2>3
<1> QED
  BY <1>1, <1>2 DEF VectorSearch

\* What a search looks like when it answers.
LEMMA RowsRead ==
    ASSUME IInv, SearchTypeOK, NEW s \in Search, LexicalSearch(s), search[s].query \in Query
    PROVE  /\ search[s].place = "rows" /\ search'[s].place = "answered"
           /\ search'[s] \in SearchState
           /\ search'[s].ctx = search[s].ctx /\ search'[s].document = search[s].document
           /\ search'[s].query = search[s].query /\ search'[s].ready = search[s].ready
           /\ search'[s].gone = search[s].gone /\ search'[s].hits = search[s].hits
           /\ \E lexical \in LexicalHits(s) : search'[s].answer \in Merged(s, lexical)
<1>a. search[s] \in SearchState
  BY DEF SearchTypeOK, SearchState
<1>1. PICK lexical \in LexicalHits(s) : \E answer \in Merged(s, lexical) :
         search' = [search EXCEPT ![s].answer = answer, ![s].place = "answered"]
  BY DEF LexicalSearch
<1>2. PICK answer \in Merged(s, lexical) :
         search' = [search EXCEPT ![s].answer = answer, ![s].place = "answered"]
  BY <1>1
<1>3. search'[s] = [[search[s] EXCEPT !.answer = answer] EXCEPT !.place = "answered"]
  BY <1>2 DEF SearchTypeOK
<1>4. lexical \in SUBSET Chunk
  BY RowHits
<1>5. search[s].hits \in SUBSET Chunk
  BY <1>a DEF SearchState
<1>6. answer \in SUBSET Chunk
  BY <1>2, <1>4, <1>5, MergedHits
<1>7. /\ search'[s].answer = answer /\ search'[s] \in SearchState
      /\ search'[s].ctx = search[s].ctx /\ search'[s].document = search[s].document
      /\ search'[s].query = search[s].query /\ search'[s].ready = search[s].ready
      /\ search'[s].gone = search[s].gone /\ search'[s].hits = search[s].hits
      /\ search'[s].place = "answered"
  BY <1>a, <1>3, <1>6 DEF SearchState
<1> QED
  BY <1>1, <1>2, <1>7 DEF LexicalSearch

\* A step of a search leaves everything else as it is.
LEMMA NothingElse ==
    ASSUME UNCHANGED vars
    PROVE  /\ Known' = Known /\ Ingested' = Ingested
           /\ \A d : Disturbed(d)' = Disturbed(d) /\ RequestedContext(d)' = RequestedContext(d)
  BY DEF vars, Known, Live, Ingested, Disturbed, RequestedContext

\* Selected depends on what the search asks for.
LEMMA SelectedKept ==
    ASSUME UNCHANGED vars, NEW s \in Search, search'[s].document = search[s].document,
           search'[s].query = search[s].query
    PROVE  \A d : Selected(s, d)' = Selected(s, d)
  BY DEF vars, Selected

LEMMA CallSearchPreserves ==
    ASSUME IInv, SearchTypeOK, NEW s \in Search, CallSearch(s), UNCHANGED <<vars, raced>>
    PROVE  HitsOK(s)'
<1>1. /\ search'[s].place = "vectors" /\ search'[s].query \in Query
      /\ search'[s].hits = {} /\ search'[s].answer = {}
      /\ search'[s].ready = Ingested /\ search'[s].gone = deleted
  BY SearchCalled
<1>2. deleted' = deleted /\ Ingested \subseteq Known
  BY DEF vars, Ingested, Known
<1> QED
  BY <1>1, <1>2, NothingElse DEF HitsOK

\* What Qdrant finds was stored, and is deleted only if its delete was raced.
LEMMA PointsFound ==
    ASSUME IInv, OwnershipInv, ContextInv, RacedInv, NEW s \in Search,
           NEW c \in MatchingPoints(s)
    PROVE  /\ c[1] \in Known /\ RequestedContext(c[1]) = search[s].ctx
           /\ c[1] \in deleted => c[1] \in raced
<1>1. /\ c \in Chunk /\ c[2] <= vectors[c[1]] /\ IngestContext(c[1]) = search[s].ctx
  BY DEF MatchingPoints
<1>2. c[1] \in Op /\ c[2] \in 1..NChunks
  BY <1>1 DEF Chunk
<1>3. vectors[c[1]] > 0
  BY <1>1, <1>2, NChunksAssumption DEF IInv, TypeOK
<1>4. c[1] \in Known /\ Ingests(c[1])
  BY <1>2, <1>3 DEF OwnershipInv, IInv, DocumentsOK
<1> QED
  BY <1>1, <1>2, <1>3, <1>4, IngestsWhereAsked DEF RacedInv

\* All points of a document that was ingested and not disturbed match.
LEMMA ReadyMatches ==
    ASSUME IInv, PointsInv, ContextInv, NEW s \in Search, NEW d \in Ingested,
           ~Disturbed(d), RequestedContext(d) = search[s].ctx, Selected(s, d)
    PROVE  {d} \X (1..NChunks) \subseteq MatchingPoints(s)
<1>1. d \in Op /\ vectors[d] = NChunks /\ Ingests(d)
  BY DEF Ingested, PointsInv, IInv, DocumentsOK, Known
<1>2. IngestContext(d) = search[s].ctx
  BY <1>1, IngestsWhereAsked
<1> SUFFICES ASSUME NEW c \in {d} \X (1..NChunks) PROVE c \in MatchingPoints(s)
  OBVIOUS
<1>3. c[1] = d /\ c[2] \in 1..NChunks /\ c \in Chunk
  BY <1>1 DEF Chunk
<1> QED
  BY <1>1, <1>2, <1>3, NChunksAssumption DEF MatchingPoints

LEMMA VectorSearchPreserves ==
    ASSUME IInv, OwnershipInv, SearchTypeOK, ContextInv, PointsInv, RacedInv,
           NEW s \in Search, HitsOK(s), VectorSearch(s), UNCHANGED <<vars, raced>>
    PROVE  HitsOK(s)'
<1>1. search[s].place = "vectors" /\ search[s].query \in Query
  BY DEF VectorSearch, HitsOK
<1>2. /\ search'[s].ctx = search[s].ctx /\ search'[s].document = search[s].document
      /\ search'[s].query = search[s].query /\ search'[s].ready = search[s].ready
      /\ search'[s].gone = search[s].gone /\ search'[s].answer = search[s].answer
      /\ \/ search'[s].place = "raised" /\ search'[s].hits = search[s].hits
         \/ /\ search'[s].place = "rows"
            /\ search'[s].hits \in SUBSET MatchingPoints(s)
            /\ \/ Cardinality(search'[s].hits) >= search[s].query.top_k
               \/ search'[s].hits = MatchingPoints(s)
  BY <1>1, VectorsRead
<1>3. deleted' = deleted /\ raced' = raced
  BY DEF vars
<1>4. ASSUME NEW c \in search'[s].hits \union search'[s].answer
      PROVE  /\ c[1] \in Known /\ RequestedContext(c[1]) = search[s].ctx
             /\ c[1] \in search[s].gone => c[1] \in raced
  <2>1. CASE c \in search[s].hits \union search[s].answer
    BY <2>1 DEF HitsOK
  <2>2. CASE c \in MatchingPoints(s)
    BY <2>2, PointsFound DEF HitsOK
  <2> QED
    BY <1>2, <1>4, <2>1, <2>2
<1>5. search'[s].place = "rows" =>
         Cardinality(search'[s].hits) >= search'[s].query.top_k \/ HasReady(s, search[s].hits)'
  <2> SUFFICES ASSUME search'[s].hits = MatchingPoints(s) PROVE HasReady(s, search[s].hits)'
    BY <1>2
  <2> SUFFICES ASSUME NEW d \in search[s].ready, ~Disturbed(d), Selected(s, d),
                      RequestedContext(d) = search[s].ctx
               PROVE  {d} \X (1..NChunks) \subseteq MatchingPoints(s)
    BY <1>2, NothingElse, SelectedKept DEF HasReady
  <2>1. d \in Ingested
    BY DEF HitsOK
  <2> QED
    BY <2>1, ReadyMatches
<1>6. search'[s].place # "answered"
  BY <1>2
<1> QED
  BY <1>1, <1>2, <1>3, <1>4, <1>5, <1>6, NothingElse DEF HitsOK

LEMMA LexicalSearchPreserves ==
    ASSUME IInv, OwnershipInv, SearchTypeOK, ContextInv,
           NEW s \in Search, HitsOK(s), LexicalSearch(s), UNCHANGED <<vars, raced>>
    PROVE  HitsOK(s)'
<1>0. search[s].query \in Query
  BY DEF LexicalSearch, HitsOK
<1>1. /\ search[s].place = "rows" /\ search'[s].place = "answered"
      /\ search'[s].ctx = search[s].ctx /\ search'[s].document = search[s].document
      /\ search'[s].query = search[s].query /\ search'[s].ready = search[s].ready
      /\ search'[s].gone = search[s].gone /\ search'[s].hits = search[s].hits
      /\ \E lexical \in LexicalHits(s) : search'[s].answer \in Merged(s, lexical)
  BY <1>0, RowsRead
<1>2. PICK lexical \in LexicalHits(s) : search'[s].answer \in Merged(s, lexical)
  BY <1>1
<1>3. lexical \in SUBSET MatchingRows(s) /\ lexical \in SUBSET Chunk /\ search[s].hits \in SUBSET Chunk
  BY <1>0, RowHits DEF SearchTypeOK
<1>4. /\ search'[s].answer \in SUBSET (search[s].hits \union lexical)
      /\ search'[s].answer \in SUBSET Chunk
      /\ \/ Cardinality(search'[s].answer) = search[s].query.top_k
         \/ search'[s].answer = search[s].hits \union lexical
  BY <1>0, <1>2, <1>3, MergedHits
<1>5. deleted' = deleted /\ raced' = raced
  BY DEF vars
<1>6. ASSUME NEW c \in search'[s].hits \union search'[s].answer
      PROVE  /\ c[1] \in Known /\ RequestedContext(c[1]) = search[s].ctx
             /\ c[1] \in search[s].gone => c[1] \in raced
  <2>1. CASE c \in search[s].hits
    BY <2>1 DEF HitsOK
  <2>2. CASE c \in MatchingRows(s)
    <3>1. c[1] \in Op /\ Live(c[1]) /\ documents[c[1]].ctx = search[s].ctx
      BY <2>2 DEF MatchingRows, Found, Chunk
    <3> QED
      BY <3>1 DEF Known, ContextInv, OwnershipInv, HitsOK
  <2> QED
    BY <1>1, <1>3, <1>4, <1>6, <2>1, <2>2
<1>7. Cardinality(search'[s].answer) >= search'[s].query.top_k \/ HasReady(s, search[s].answer)'
  <2>0. search[s].query.top_k \in Nat
    BY <1>0, QueryAssumption
  <2> SUFFICES ASSUME search'[s].answer = search[s].hits \union lexical,
                      ~(Cardinality(search'[s].answer) >= search[s].query.top_k)
               PROVE  HasReady(s, search[s].answer)'
    BY <1>1, <1>4, <2>0
  <2>1. /\ Cardinality(search[s].hits) <= Cardinality(search'[s].answer)
        /\ Cardinality(search[s].hits) \in Nat /\ Cardinality(search'[s].answer) \in Nat
    BY <1>3, <1>4, ChunksAreFinite, FS_Subset
  <2>2. HasReady(s, search[s].hits)
    BY <1>1, <2>0, <2>1 DEF HitsOK
  <2> QED
    BY <1>1, <2>2, NothingElse, SelectedKept DEF HasReady
<1> QED
  BY <1>0, <1>1, <1>5, <1>6, <1>7, NothingElse DEF HitsOK

-----------------------------------------------------------------------------
(* The invariant and its consequences.                                     *)

LEMMA SearchInitHolds == SearchInit => SearchInv
<1> SUFFICES ASSUME SearchInit PROVE SearchInv
  OBVIOUS
<1>1. NoSearch \in SearchState
  BY ContextAssumption DEF NoSearch, SearchState
<1>2. SearchTypeOK
  BY <1>1 DEF SearchInit, SearchTypeOK, SearchState
<1>3. ContextInv
  BY ContextInit DEF SearchInit
<1>4. PointsInv /\ RacedInv
  BY DEF SearchInit, Init, PointsInv, RacedInv, Live
<1>5. HitsInv
  BY DEF SearchInit, HitsInv, HitsOK, NoSearch
<1> QED
  BY <1>2, <1>3, <1>4, <1>5 DEF SearchInv

\* Every step preserves the type of what the searches hold.
LEMMA SearchTypePreserved ==
    ASSUME IInv, SearchInv, [SearchNext]_searchVars PROVE SearchTypeOK'
<1>a. search \in [Search -> SearchState] /\ raced \subseteq Op
  BY DEF SearchInv, SearchTypeOK, SearchState
<1>1. raced' \subseteq Op
  BY <1>a DEF SearchNext, searchVars, Racing
<1>2. search' \in [Search -> SearchState]
  <2>1. CASE UNCHANGED search
    BY <1>a, <2>1
  <2>2. ASSUME NEW s \in Search, SearchStep(s) PROVE search' \in [Search -> SearchState]
    <3>1. search' = [search EXCEPT ![s] = search'[s]]
      BY <1>a, <2>2 DEF SearchStep, CallSearch, VectorSearch, LexicalSearch
    <3>2. VectorSearch(s) \/ LexicalSearch(s) => search[s].query \in Query
      BY DEF VectorSearch, LexicalSearch, SearchInv, HitsInv, HitsOK
    <3>3. search'[s] \in SearchState
      BY <2>2, <3>2, SearchCalled, VectorsRead, RowsRead DEF SearchStep, SearchInv
    <3> QED
      BY <1>a, <3>1, <3>3
  <2> QED
    BY <2>1, <2>2 DEF SearchNext, searchVars
<1> QED
  BY <1>1, <1>2 DEF SearchTypeOK, SearchState

\* SearchInv is inductive relative to the invariants of RagStorage.
LEMMA SearchInvPreserved ==
    ASSUME IInv, OwnershipInv, SearchInv, [SearchNext]_searchVars PROVE SearchInv'
<1>1. [Next]_vars
  BY DEF SearchNext, searchVars
<1>2. ContextInv' /\ PointsInv'
  BY <1>1, ContextPreserved, PointsPreserved DEF SearchInv
<1>3. raced \subseteq raced'
  BY DEF SearchNext, searchVars
<1>4. RacedInv'
  <2>1. CASE UNCHANGED <<vars, raced>>
    BY <2>1 DEF SearchInv, RacedInv, WritesPointsOf, vars
  <2>2. CASE raced' = raced \union Racing
    BY <1>1, <2>2, RacedPreserved DEF SearchInv
  <2> QED
    BY <2>1, <2>2 DEF SearchNext, searchVars
<1>5. ASSUME NEW s \in Search PROVE HitsOK(s)'
  <2>0. HitsOK(s)
    BY DEF SearchInv, HitsInv
  <2>1. CASE search'[s] = search[s]
    BY <1>1, <1>3, <2>0, <2>1, HitsKept
  <2>2. ASSUME NEW t \in Search, SearchStep(t), t # s PROVE search'[s] = search[s]
    BY <2>2 DEF SearchStep, CallSearch, VectorSearch, LexicalSearch, SearchInv, SearchTypeOK
  <2>3. CASE SearchStep(s) /\ UNCHANGED <<vars, raced>>
    BY <2>0, <2>3, CallSearchPreserves, VectorSearchPreserves, LexicalSearchPreserves
       DEF SearchStep, SearchInv
  <2> QED
    BY <2>1, <2>2, <2>3 DEF SearchNext, searchVars
<1> QED
  BY <1>2, <1>4, <1>5, SearchTypePreserved DEF SearchInv, HitsInv

\* Searches do not disturb the calls they run beside.
THEOREM SearchesOnlyRead == SearchSpec => Spec
<1>1. SearchInit => Init
  BY DEF SearchInit
<1>2. [SearchNext]_searchVars => [Next]_vars
  BY DEF SearchNext, searchVars
<1> QED
  BY <1>1, <1>2, PTL DEF SearchSpec, Spec

\* The invariant of searches beside ingests, reindexes and deletes.
THEOREM SearchInvariant == SearchSpec => []SearchInv
<1>1. SearchInit => SearchInv
  BY SearchInitHolds
<1>2. IInv /\ OwnershipInv /\ SearchInv /\ [SearchNext]_searchVars => SearchInv'
  BY SearchInvPreserved
<1> QED
  BY <1>1, <1>2, SearchesOnlyRead, StorageInvariant, OwnershipInvariant, PTL DEF SearchSpec

\* What a search holds has its type.
THEOREM SearchTypes == SearchSpec => []SearchTypeOK
<1>1. SearchInv => SearchTypeOK
  BY DEF SearchInv
<1> QED
  BY <1>1, SearchInvariant, PTL

\* Every chunk answered was put there by a caller who named the tenant and
\* the scope of the search.
THEOREM ContextsAreSeparate == SearchSpec => []AnswersStayInContext
<1>1. SearchInv => AnswersStayInContext
  BY DEF SearchInv, HitsInv, HitsOK, AnswersStayInContext
<1> QED
  BY <1>1, SearchInvariant, PTL

\* Every chunk answered belongs to a document that was committed.
THEOREM OnlyStoredIsFound == SearchSpec => []AnswersWereStored
<1>1. SearchInv => AnswersWereStored
  BY DEF SearchInv, HitsInv, HitsOK, AnswersWereStored
<1> QED
  BY <1>1, SearchInvariant, PTL

\* An answer with room left has every chunk of every document of the context
\* whose ingest had returned, unless a reindex or a delete of it was called.
THEOREM ReadYourWrites == SearchSpec => []IngestedIsFound
<1>1. ASSUME SearchInv, NEW s \in Search, Answered(s),
             Cardinality(search[s].answer) < search[s].query.top_k,
             NEW d \in search[s].ready
      PROVE  \/ Disturbed(d) \/ RequestedContext(d) # search[s].ctx \/ ~Selected(s, d)
             \/ {d} \X (1..NChunks) \subseteq search[s].answer
  <2>1. HitsOK(s) /\ search[s].answer \in SUBSET Chunk
    BY <1>1 DEF SearchInv, HitsInv, SearchTypeOK
  <2>2. search[s].query.top_k \in Nat /\ Cardinality(search[s].answer) \in Nat
    BY <1>1, <2>1, QueryAssumption, ChunksAreFinite DEF HitsOK, Answered
  <2>3. HasReady(s, search[s].answer)
    BY <1>1, <2>1, <2>2 DEF HitsOK, Answered
  <2> QED
    BY <2>3 DEF HasReady
<1>2. SearchInv => IngestedIsFound
  BY <1>1 DEF IngestedIsFound
<1> QED
  BY <1>2, SearchInvariant, PTL

\* A document whose delete no writer of its points overlapped is not found by
\* any later search.
THEOREM DeletesAreFinal == SearchSpec => []DeletedIsNotFound
<1>1. SearchInv => DeletedIsNotFound
  BY DEF SearchInv, HitsInv, HitsOK, DeletedIsNotFound
<1> QED
  BY <1>1, SearchInvariant, PTL

-----------------------------------------------------------------------------
(* ExactTermsSurface.                                                      *)

\* A row that is selected for some word may contain none and at most all of them.
LEMMA MatchesInRange ==
    ASSUME IInv, NEW s \in Search, search[s].query \in Query, NEW c \in MatchingRows(s)
    PROVE  /\ search[s].query.words \in Nat \ {0} /\ Matches(s, c) \in 0..search[s].query.words
<1>1. /\ c[1] \in Op /\ c[2] \in 1..NChunks /\ Live(c[1])
      /\ c[2] \in search[s].query.selected[call[c[1]].content]
  BY DEF MatchingRows, Found, Chunk
<1>2. call[c[1]].content \in Content
  BY <1>1 DEF IInv, DocumentsOK, ArgumentsOK, Known
<1>3. /\ search[s].query.words \in Nat \ {0}
      /\ search[s].query.matches \in [Content -> [1..NChunks -> 0..search[s].query.words]]
  BY <1>1, <1>2, QueryAssumption
<1>4. Matches(s, c) \in 0..search[s].query.words
  BY <1>1, <1>2, <1>3 DEF Matches
<1> QED
  BY <1>1, <1>3, <1>4

\* A chunk found by its words goes before every chunk found by vector only.
LEMMA LexicalFirst ==
    ASSUME IInv, NEW s \in Search, search[s].query \in Query,
           NEW lexical \in SUBSET MatchingRows(s), \A x \in lexical : Matches(s, x) > 0,
           NEW b \in Chunk, NEW c \in lexical,
           Rank(s, lexical, b) >= Rank(s, lexical, c)
    PROVE  b \in lexical /\ Matches(s, b) >= Matches(s, c)
<1>1. Matches(s, c) \in 1..search[s].query.words /\ search[s].query.words \in Nat
  BY MatchesInRange, Matches(s, c) > 0
<1>2. Rank(s, lexical, c) \in {2 * Matches(s, c), 2 * Matches(s, c) + 1}
  BY <1>1 DEF Rank
<1>3. b \in lexical
  BY <1>1, <1>2 DEF Rank
<1>4. Matches(s, b) \in 1..search[s].query.words
  BY <1>3, MatchesInRange, Matches(s, b) > 0
<1>5. Rank(s, lexical, b) \in {2 * Matches(s, b), 2 * Matches(s, b) + 1}
  BY <1>3, <1>4 DEF Rank
<1> QED
  BY <1>1, <1>2, <1>3, <1>4, <1>5

\* The answer is full of chunks with all the words when one of them is left out.
LEMMA FullOfExactHits ==
    ASSUME IInv, SearchTypeOK, NEW s \in Search, search[s].query \in Query,
           NEW lexical \in LexicalHits(s), NEW answer \in Merged(s, lexical),
           NEW c \in MatchingRows(s), c \notin answer,
           ~(Matches(s, c) < search[s].query.words),
           ~(Cardinality(MatchingRows(s)) > 3 * search[s].query.top_k)
    PROVE  /\ Cardinality(answer) = search[s].query.top_k
           /\ \A b \in answer : b \in MatchingRows(s) /\ Matches(s, b) = search[s].query.words
<1> DEFINE k == search[s].query.top_k
           words == search[s].query.words
           all == search[s].hits \union lexical
<1>1. k \in Nat /\ words \in Nat /\ Matches(s, c) = words /\ words > 0
  BY MatchesInRange, QueryAssumption
<1>2. MatchingRows(s) \in SUBSET Chunk /\ Cardinality(MatchingRows(s)) \in Nat
  BY ChunksAreFinite DEF MatchingRows
<1>3. /\ lexical \in SUBSET MatchingRows(s) /\ lexical \in SUBSET Chunk
      /\ \A b \in lexical : Matches(s, b) > 0
      /\ c \notin lexical => /\ Cardinality(lexical) = k
                             /\ \A b \in lexical : Matches(s, b) >= Matches(s, c)
  BY <1>1, <1>2, RowHits
<1>4. search[s].hits \in SUBSET Chunk
  BY DEF SearchTypeOK
<1>5. /\ answer \in SUBSET all /\ answer \in SUBSET Chunk /\ Cardinality(answer) <= k
      /\ Cardinality(answer) = k \/ answer = all
      /\ \A b \in answer, x \in all \ answer : Rank(s, lexical, b) >= Rank(s, lexical, x)
  BY <1>3, <1>4, MergedHits
<1>6. \A b \in lexical : Matches(s, b) \in 1..words
  BY <1>3, MatchesInRange
<1>7. CASE c \in lexical
  <2>1. Cardinality(answer) = k
    BY <1>5, <1>7
  <2>2. ASSUME NEW b \in answer PROVE b \in lexical /\ Matches(s, b) >= words
    BY <1>1, <1>3, <1>5, <1>7, LexicalFirst
  <2> QED
    BY <1>1, <1>3, <1>6, <2>1, <2>2
<1>8. CASE c \notin lexical
  <2>1. Cardinality(lexical) = k /\ \A b \in lexical : Matches(s, b) = words
    BY <1>1, <1>3, <1>6, <1>8
  <2>2. IsFiniteSet(answer) /\ Cardinality(answer) \in Nat /\ IsFiniteSet(lexical)
    BY <1>3, <1>5, ChunksAreFinite
  <2>3. CASE lexical \subseteq answer
    <3>1. Cardinality(lexical) <= Cardinality(answer)
      BY <2>2, <2>3, FS_Subset
    <3>2. Cardinality(lexical) = Cardinality(answer)
      BY <1>1, <1>5, <2>1, <2>2, <3>1
    <3>3. lexical = answer
      BY <2>2, <2>3, <3>2, FS_Subset
    <3> QED
      BY <1>3, <2>1, <3>3
  <2>4. ASSUME NEW x \in lexical, x \notin answer PROVE Cardinality(answer) = k /\ answer \subseteq lexical
    <3>1. Cardinality(answer) = k
      BY <1>5, <2>4
    <3>2. ASSUME NEW b \in answer PROVE b \in lexical
      BY <1>3, <1>5, <2>4, LexicalFirst
    <3> QED
      BY <3>1, <3>2
  <2> QED
    BY <1>3, <2>1, <2>3, <2>4
<1> QED
  BY <1>7, <1>8

\* A chunk with every word of the query is answered whatever Qdrant returned,
\* unless the answer is full of such chunks or the statement's limit cuts.
THEOREM ExactTermsAreAnswered == SearchSpec => ExactTermsSurface
<1>1. ASSUME IInv, SearchInv, [SearchNext]_searchVars,
             NEW s \in Search, search[s].place = "rows", Answered(s)', NEW c \in MatchingRows(s)
      PROVE  \/ c \in search'[s].answer
             \/ Matches(s, c) < search[s].query.words
             \/ Cardinality(MatchingRows(s)) > 3 * search[s].query.top_k
             \/ /\ Cardinality(search'[s].answer) = search[s].query.top_k
                /\ \A b \in search'[s].answer :
                      b \in MatchingRows(s) /\ Matches(s, b) = search[s].query.words
  <2>1. search[s].query \in Query /\ SearchTypeOK
    BY <1>1 DEF SearchInv, HitsInv, HitsOK
  <2>2. PICK t \in Search : SearchStep(t)
    BY <1>1 DEF Answered, SearchNext, searchVars
  <2>3. t = s
    BY <1>1, <2>1, <2>2 DEF Answered, SearchStep, CallSearch, VectorSearch, LexicalSearch, SearchTypeOK
  <2>4. LexicalSearch(s)
    BY <1>1, <2>2, <2>3 DEF SearchStep, CallSearch, VectorSearch
  <2>5. PICK lexical \in LexicalHits(s) : search'[s].answer \in Merged(s, lexical)
    BY <1>1, <2>1, <2>4, RowsRead
  <2> QED
    BY <1>1, <2>1, <2>5, FullOfExactHits
<1>2. IInv /\ SearchInv /\ [SearchNext]_searchVars =>
        [\A s \in Search : search[s].place = "rows" /\ Answered(s)' =>
          \A c \in MatchingRows(s) :
             \/ c \in search'[s].answer
             \/ Matches(s, c) < search[s].query.words
             \/ Cardinality(MatchingRows(s)) > 3 * search[s].query.top_k
             \/ /\ Cardinality(search'[s].answer) = search[s].query.top_k
                /\ \A b \in search'[s].answer :
                      b \in MatchingRows(s) /\ Matches(s, b) = search[s].query.words]_searchVars
  BY <1>1
<1> QED
  BY <1>2, SearchesOnlyRead, StorageInvariant, SearchInvariant, PTL DEF SearchSpec, ExactTermsSurface
=============================================================================
