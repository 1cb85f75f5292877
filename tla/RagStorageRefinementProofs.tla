---------------------- MODULE RagStorageRefinementProofs ----------------------
(***************************************************************************)
(* RagStorage implements DocumentStore for any number of calls, contexts,  *)
(* payloads and chunks, and under any set of faults.                       *)
(*                                                                         *)
(* A step changes the entry of one document at most.  The lemmas about     *)
(* entries say which changes of one entry the store allows; there is one   *)
(* step per action that shows the action to be one of them.                *)
(***************************************************************************)
EXTENDS RagStorageRefinement, RagStorageProofs

-----------------------------------------------------------------------------
(* Entries.                                                                *)

\* The mapped library is a function of the names, before a step and after it.
LEMMA MappedFunction ==
    /\ MappedLibrary = [d \in Op |-> MappedLibrary[d]]
    /\ MappedLibrary' = [d \in Op |-> MappedLibrary'[d]]
  BY DEF MappedLibrary, Live, Entry, Issue, Unfinished, TornDelete

\* What a name stands for, before a step and after it.
LEMMA MappedValues ==
    ASSUME NEW d \in Op
    PROVE  /\ MappedLibrary[d] = IF Live(d) THEN Entry(d)
                                 ELSE IF d \in deleted THEN Removed ELSE NoRow
           /\ MappedLibrary'[d] = IF Live(d)' THEN Entry(d)'
                                  ELSE IF d \in deleted' THEN Removed ELSE NoRow
  BY DEF MappedLibrary, Live, Entry, Issue, Unfinished, TornDelete

\* An entry is none of the two other values.
LEMMA EntryType ==
    ASSUME IInv, NEW d \in Op, Live(d)
    PROVE  Entry(d) \in Store!Entry /\ Entry(d) \notin {NoRow, Removed}
<1>1. documents[d] \in Document
  BY DEF IInv, TypeOK, Live
<1>2. Entry(d) \in Store!Entry
  BY <1>1 DEF Entry, Issue, Store!Entry, Document
<1> QED
  BY <1>2, RemovedAssumption

LEMMA StoredIsLive == ASSUME IInv, NEW d \in Op PROVE Store!Stored(d) <=> Live(d)
  BY MappedValues, EntryType, RemovedAssumption DEF Store!Stored

LEMMA IssueType == \A d \in Op : Issue(d) \in BOOLEAN /\ Issue(d)' \in BOOLEAN
  BY DEF Issue, Unfinished, TornDelete

\* An entry depends on its own row, points and calls only.
LEMMA SameEntry ==
    ASSUME NEW d \in Op, documents'[d] = documents[d], vectors'[d] = vectors[d],
           d \in deleted' <=> d \in deleted,
           Live(d) => (Issue(d)' <=> Issue(d))
    PROVE  MappedLibrary'[d] = MappedLibrary[d]
<1>1. Live(d)' <=> Live(d)
  BY DEF Live
<1>2. Live(d) => Entry(d)' = Entry(d)
  <2>1. Live(d) => Issue(d)' = Issue(d)
    BY IssueType
  <2> QED
    BY <2>1 DEF Entry
<1> QED
  BY <1>1, <1>2, MappedValues

\* The mapped library when the entry of d changes alone.
LEMMA OneEntry ==
    ASSUME NEW d \in Op, \A e \in Op \ {d} : MappedLibrary'[e] = MappedLibrary[e]
    PROVE  /\ MappedLibrary' = [MappedLibrary EXCEPT ![d] = MappedLibrary'[d]]
           /\ MappedLibrary'[d] = MappedLibrary[d] => MappedLibrary' = MappedLibrary
  BY MappedFunction

\* Two entries that differ in what search finds and in their issue only.
LEMMA EntryEdits ==
    ASSUME NEW e \in Store!Entry, NEW f \in Store!Entry,
           f.ctx = e.ctx, f.content = e.content, f.whole = e.whole
    PROVE  /\ f.findable = e.findable /\ f.open = e.open => f = e
           /\ f.findable = e.findable /\ f.open => f = [e EXCEPT !.open = TRUE]
           /\ f.findable = e.findable /\ ~f.open => f = [e EXCEPT !.open = FALSE]
           /\ f.findable /\ f.open = e.open => f = [e EXCEPT !.findable = TRUE]
           /\ ~f.findable /\ f.open => f = [e EXCEPT !.findable = FALSE, !.open = TRUE]
<1>1. f = [ctx |-> f.ctx, content |-> f.content, whole |-> f.whole, findable |-> f.findable,
           open |-> f.open]
      /\ f.findable \in BOOLEAN /\ f.open \in BOOLEAN
  BY DEF Store!Entry
<1>2. e = [ctx |-> e.ctx, content |-> e.content, whole |-> e.whole, findable |-> e.findable,
           open |-> e.open]
  BY DEF Store!Entry
<1>3. \A v : /\ [e EXCEPT !.open = v]
                = [ctx |-> e.ctx, content |-> e.content, whole |-> e.whole,
                   findable |-> e.findable, open |-> v]
             /\ [e EXCEPT !.findable = v]
                = [ctx |-> e.ctx, content |-> e.content, whole |-> e.whole,
                   findable |-> v, open |-> e.open]
  BY <1>2
<1>4. [e EXCEPT !.findable = FALSE, !.open = TRUE]
      = [ctx |-> e.ctx, content |-> e.content, whole |-> e.whole, findable |-> FALSE, open |-> TRUE]
  <2>1. [e EXCEPT !.findable = FALSE, !.open = TRUE] = [[e EXCEPT !.findable = FALSE] EXCEPT !.open = TRUE]
    OBVIOUS
  <2>2. \A u, v : [[ctx |-> e.ctx, content |-> e.content, whole |-> e.whole, findable |-> u,
                    open |-> e.open] EXCEPT !.open = v]
                  = [ctx |-> e.ctx, content |-> e.content, whole |-> e.whole, findable |-> u, open |-> v]
    OBVIOUS
  <2> QED
    BY <1>3, <2>1, <2>2, Zenon
<1>5. f.open => f.open = TRUE
  BY <1>1
<1>6. ~f.open => f.open = FALSE
  BY <1>1
<1>7. f.findable => f.findable = TRUE
  BY <1>1
<1>8. ~f.findable => f.findable = FALSE
  BY <1>1
<1> QED
  BY <1>1, <1>2, <1>3, <1>4, <1>5, <1>6, <1>7, <1>8, Zenon

\* The changes that the store allows to the entry of a document that stays
\* stored, in terms of its points and its issue.
LEMMA StoredEntryChanges ==
    ASSUME IInv, IInv', NEW d \in Op, Live(d), documents'[d] = documents[d],
           \A e \in Op \ {d} : MappedLibrary'[e] = MappedLibrary[e],
           NEW before, NEW after,
           before = (vectors[d] >= documents[d].rows),
           after = (vectors'[d] >= documents[d].rows),
           \/ after /\ Issue(d) /\ Issue(d)'
           \/ ~after /\ Issue(d)'
           \/ after = before /\ (Issue(d) => Issue(d)')
           \/ after = before /\ before /\ documents[d].rows = NChunks
    PROVE  [Store!Next]_MappedLibrary
<1> DEFINE old == MappedLibrary[d]
           new == MappedLibrary'[d]
<1>1. MappedLibrary' = [MappedLibrary EXCEPT ![d] = new]
  BY OneEntry
<1>2. /\ old = Entry(d) /\ Store!Stored(d) /\ new = Entry(d)'
      /\ old \in Store!Entry /\ new \in Store!Entry
  <2>1. Live(d)'
    BY DEF Live
  <2>2. Entry(d)' \in Store!Entry
    <3>1. documents[d] \in Document
      BY DEF IInv, TypeOK, Live
    <3> QED
      BY <3>1 DEF Entry, Issue, Unfinished, TornDelete, Store!Entry, Document
  <2> QED
    BY <2>1, <2>2, MappedValues, StoredIsLive, EntryType
<1>3. /\ new.ctx = old.ctx /\ new.content = old.content /\ new.whole = old.whole
      /\ old.whole = (documents[d].rows = NChunks)
      /\ old.findable = before /\ new.findable = after
      /\ old.open = Issue(d) /\ new.open = Issue(d)'
  <2>1. documents[d]' = documents[d]
    OBVIOUS
  <2>2. /\ Entry(d).ctx = documents[d].ctx /\ Entry(d).content = documents[d].content
        /\ Entry(d).whole = (documents[d].rows = NChunks)
        /\ Entry(d).findable = (vectors[d] >= documents[d].rows) /\ Entry(d).open = Issue(d)
    BY DEF Entry
  <2>3. /\ Entry(d)'.ctx = documents[d].ctx /\ Entry(d)'.content = documents[d].content
        /\ Entry(d)'.whole = (documents[d].rows = NChunks)
        /\ Entry(d)'.findable = (vectors'[d] >= documents[d].rows) /\ Entry(d)'.open = Issue(d)'
    BY <2>1 DEF Entry
  <2> QED
    BY <1>2, <2>2, <2>3, Zenon
<1>4. /\ old.findable \in BOOLEAN /\ new.findable \in BOOLEAN
      /\ old.open \in BOOLEAN /\ new.open \in BOOLEAN
  BY <1>2 DEF Store!Entry
<1> HIDE DEF old, new
<1>5. CASE new = old
  BY <1>5, OneEntry DEF old, new
<1>6. CASE new.findable = old.findable /\ new.open
  <2>1. new = [old EXCEPT !.open = TRUE]
    BY <1>2, <1>3, <1>6, EntryEdits
  <2> QED
    BY <1>1, <1>2, <1>5, <2>1 DEF Store!Next, Store!Open, Store!Change, old, new
<1>7. CASE new.findable = old.findable /\ ~new.open /\ old.findable /\ old.whole
  <2>1. new = [old EXCEPT !.open = FALSE]
    BY <1>2, <1>3, <1>7, EntryEdits
  <2> QED
    BY <1>1, <1>2, <1>5, <1>7, <2>1 DEF Store!Next, Store!Close, Store!Change, old, new
<1>8. CASE new.findable /\ old.open /\ new.open = old.open
  <2>1. new = [old EXCEPT !.findable = TRUE]
    BY <1>2, <1>3, <1>8, EntryEdits
  <2> QED
    BY <1>1, <1>2, <1>5, <1>8, <2>1 DEF Store!Next, Store!Index, Store!Change, old, new
<1>9. CASE ~new.findable /\ new.open
  <2>1. new = [old EXCEPT !.findable = FALSE, !.open = TRUE]
    BY <1>2, <1>3, <1>9, EntryEdits
  <2> QED
    BY <1>1, <1>2, <1>5, <2>1 DEF Store!Next, Store!Unindex, Store!Change, old, new
<1>10. CASE new.findable = old.findable /\ new.open = old.open
  BY <1>2, <1>3, <1>5, <1>10, EntryEdits
<1> QED
  BY <1>3, <1>4, <1>6, <1>7, <1>8, <1>9, <1>10

-----------------------------------------------------------------------------
(* Steps.                                                                  *)

\* The issue of a document changes with what the moving call itself has to do
\* with the document.
LEMMA IssueOfOthers ==
    ASSUME IInv, NEW op \in Op, Step(op) \/ Arrive(op) \/ Timeout(op) \/ Crash(op),
           ~DeleteCommit(op), NEW e \in Op,
           Unfinished(op, e)' <=> Unfinished(op, e),
           TornDelete(op, e)' <=> TornDelete(op, e)
    PROVE  Issue(e)' <=> Issue(e)
<1>1. ASSUME NEW o \in Op
      PROVE  (Unfinished(o, e) \/ TornDelete(o, e))' <=> (Unfinished(o, e) \/ TornDelete(o, e))
  <2>1. CASE o = op
    BY <2>1
  <2>2. CASE o # op
    BY <2>2, OthersKept DEF Unfinished, TornDelete
  <2> QED
    BY <2>1, <2>2
<1> QED
  BY <1>1 DEF Issue

\* The entries that a step leaves alone.
LEMMA OtherEntries ==
    ASSUME IInv, NEW op \in Op, Step(op) \/ Arrive(op) \/ Timeout(op) \/ Crash(op),
           ~DeleteCommit(op), deleted' = deleted, NEW D,
           \A e \in Op \ D : /\ documents'[e] = documents[e]
                             /\ vectors'[e] = vectors[e]
                             /\ Live(e) => /\ Unfinished(op, e)' <=> Unfinished(op, e)
                                           /\ TornDelete(op, e)' <=> TornDelete(op, e)
    PROVE  \A e \in Op \ D : MappedLibrary'[e] = MappedLibrary[e]
<1> SUFFICES ASSUME NEW e \in Op \ D PROVE MappedLibrary'[e] = MappedLibrary[e]
  OBVIOUS
<1>1. Live(e) => (Issue(e)' <=> Issue(e))
  BY IssueOfOthers
<1> QED
  BY <1>1, SameEntry

\* A step that changes nothing the library shows.
LEMMA NothingShown ==
    ASSUME IInv, NEW op \in Op, Step(op) \/ Arrive(op) \/ Timeout(op) \/ Crash(op),
           ~DeleteCommit(op), UNCHANGED <<documents, vectors, deleted>>,
           \A e \in Op : Live(e) => /\ Unfinished(op, e)' <=> Unfinished(op, e)
                                    /\ TornDelete(op, e)' <=> TornDelete(op, e)
    PROVE  MappedLibrary' = MappedLibrary
<1>1. \A e \in Op \ {} : MappedLibrary'[e] = MappedLibrary[e]
  BY OtherEntries
<1> QED
  BY <1>1, MappedFunction

\* The steps before a document is committed, the answer, and the arrival of a
\* call show nothing: a call that has no document yet is about none.
LEMMA QuietSteps ==
    ASSUME IInv, OwnershipInv, NEW op \in Op,
           \/ Arrive(op) \/ MarkJobRunning(op) \/ Extract(op) \/ LookupExisting(op) \/ Dedupe(op)
           \/ Insert(op) \/ Embed(op) \/ EmbedFails(op) \/ EnsureCollection(op)
           \/ CreateCollection(op) \/ WriteRow(op) \/ Refresh(op) \/ Answer(op) \/ ReindexLoad(op)
           \/ Timeout(op)
    PROVE  MappedLibrary' = MappedLibrary
<1>1. UNCHANGED <<documents, vectors, deleted>> /\ ~DeleteCommit(op)
  BY DEF Arrive, CallIngest, CreateJob, CallReindex, CallDelete, MarkJobRunning, Extract,
         LookupExisting, Dedupe, Insert, Embed, EmbedFails, EnsureCollection, CreateCollection,
         WriteRow, Refresh, Answer, ReindexLoad, Timeout, DeleteCommit, WorkerTry
<1>2. ASSUME NEW e \in Op PROVE TornDelete(op, e)' <=> TornDelete(op, e)
  <2>1. call[op].kind # "delete"
    BY NoRowFacts
       DEF IInv, PlacesOK, Ingests, Arrive, CallIngest, CreateJob, CallReindex, CallDelete,
           MarkJobRunning, Extract, LookupExisting, Dedupe, Insert, Embed, EmbedFails,
           EnsureCollection, CreateCollection, WriteRow, Refresh, Answer, ReindexLoad, Timeout
  <2>2. CASE CallDelete(op)
    BY <2>1, <2>2 DEF CallDelete, TornDelete, Goto, IInv, TypeOK
  <2>3. CASE ~CallDelete(op)
    BY <2>1, <2>3
       DEF Arrive, CallIngest, CreateJob, CallReindex, MarkJobRunning, Extract, LookupExisting,
           Dedupe, Insert, Embed, EmbedFails, EnsureCollection, CreateCollection, WriteRow, Refresh,
           Answer, ReindexLoad, Timeout, TornDelete, IInv, TypeOK, Call
  <2> QED
    BY <2>2, <2>3
<1>3. ASSUME NEW e \in Op, Live(e) PROVE Unfinished(op, e)' <=> Unfinished(op, e)
  <2>1. CASE UNCHANGED jobs
    BY <2>1 DEF Unfinished
  <2>2. CASE CreateJob(op) \/ MarkJobRunning(op) \/ Dedupe(op)
    <3>1. e # op
      BY <1>3, <2>2
         DEF IInv, PlacesOK, DocumentsOK, Known, Settled, Ingests, CreateJob, MarkJobRunning, Dedupe
    <3>2. jobs[op] = NoRow \/ jobs[op].document = NoRow
      BY <2>2 DEF IInv, PlacesOK, JobsOK, BeforeCommit, Ingests, CreateJob, MarkJobRunning, Dedupe
    <3>3. CASE CreateJob(op)
      BY <3>1, <3>3, NoRowFacts DEF CreateJob, Unfinished, IInv, TypeOK, JobsOK
    <3>4. CASE MarkJobRunning(op)
      <4>1. jobs[op] \in Job /\ jobs[op].document = NoRow
        BY <3>4 DEF IInv, TypeOK, JobsOK, PlacesOK, MarkJobRunning, BeforeCommit
      <4>2. jobs'[op].document = NoRow
        BY <3>4, <4>1 DEF MarkJobRunning, IInv, TypeOK, Job
      <4> QED
        BY <3>1, <4>1, <4>2, NoRowFacts DEF Unfinished
    <3>5. CASE Dedupe(op)
      BY <3>1, <3>2, <3>5, NoRowFacts DEF Dedupe, Unfinished, IInv, TypeOK
    <3> QED
      BY <2>2, <3>3, <3>4, <3>5
  <2> QED
    BY <2>1, <2>2
       DEF Arrive, CallIngest, CallReindex, CallDelete, Extract, LookupExisting, Insert, Embed,
           EmbedFails, EnsureCollection, CreateCollection, WriteRow, Refresh, Answer, ReindexLoad,
           Timeout
<1> QED
  BY <1>1, <1>2, <1>3, NothingShown DEF Step, IngestStep, ReindexStep

\* The entry of a document that is stored after a step.
LEMMA EntryAfter ==
    ASSUME IInv', NEW d \in Op, Live(d)'
    PROVE  /\ MappedLibrary'[d] = Entry(d)' /\ Entry(d)' \in Store!Entry
           /\ Entry(d)'.ctx = documents'[d].ctx /\ Entry(d)'.content = documents'[d].content
           /\ Entry(d)'.whole = (documents'[d].rows = NChunks)
           /\ Entry(d)'.findable = (vectors'[d] >= documents'[d].rows)
           /\ Entry(d)'.open = Issue(d)'
<1>1. documents'[d] \in Document
  BY DEF IInv, TypeOK, Live
<1>2. Entry(d)' \in Store!Entry
  BY <1>1 DEF Entry, Issue, Unfinished, TornDelete, Store!Entry, Document
<1> QED
  BY <1>2, MappedValues DEF Entry

\* A step that stores a document under a new name, with an open issue.
LEMMA StoreChange ==
    ASSUME IInv, IInv', NEW d \in Op, d \notin Known, Live(d)', Issue(d)',
           vectors'[d] >= documents'[d].rows => documents'[d].rows # NChunks,
           \A e \in Op \ {d} : /\ MappedLibrary'[e] = MappedLibrary[e]
                               /\ documents'[e] = documents[e]
    PROVE  [Store!Next]_MappedLibrary
<1>1. MappedLibrary[d] = NoRow
  BY MappedValues DEF Known
<1>2. MappedLibrary' = [MappedLibrary EXCEPT ![d] = MappedLibrary'[d]]
  BY OneEntry
<1>3. /\ MappedLibrary'[d] \in Store!Entry /\ MappedLibrary'[d].open
      /\ MappedLibrary'[d].findable => ~MappedLibrary'[d].whole
      /\ MappedLibrary'[d].ctx = documents'[d].ctx /\ MappedLibrary'[d].content = documents'[d].content
  BY EntryAfter
<1>4. ASSUME NEW e \in Op, Store!Stored(e)
      PROVE  \/ MappedLibrary[e].ctx # MappedLibrary'[d].ctx
             \/ MappedLibrary[e].content # MappedLibrary'[d].content
  <2>1. e # d /\ Live(e)
    BY <1>1, <1>4, StoredIsLive DEF Store!Stored
  <2>2. MappedLibrary[e].ctx = documents'[e].ctx /\ MappedLibrary[e].content = documents'[e].content
    <3>1. MappedLibrary[e] = Entry(e) /\ documents'[e] = documents[e]
      BY <2>1, MappedValues
    <3>2. Entry(e).ctx = documents[e].ctx /\ Entry(e).content = documents[e].content
      BY DEF Entry
    <3> QED
      BY <3>1, <3>2
  <2>3. Live(e)'
    BY <2>1 DEF Live
  <2> QED
    BY <1>3, <2>1, <2>2, <2>3 DEF IInv, OneDocumentPerPayload, Live
<1>5. MappedLibrary'[d] # MappedLibrary[d]
  BY <1>1, <1>3, RemovedAssumption
<1> QED
  BY <1>1, <1>2, <1>3, <1>4, <1>5 DEF Store!Next, Store!Store, Store!Change

\* The commit of an ingest stores a whole document that search does not find
\* yet, under its running job.
LEMMA CommitDocumentStep ==
    ASSUME IInv, IInv', OwnershipInv, NEW op \in Op, CommitDocument(op)
    PROVE  [Store!Next]_MappedLibrary
<1>1. /\ Ingests(op) /\ op \notin Known /\ session[op].link = op /\ session[op].rows = NChunks
      /\ pc[op] = "rows"
  BY DEF CommitDocument, AllRowsWritten, IInv, SessionOK
<1>2. vectors'[op] = 0
  BY <1>1 DEF OwnershipInv, CommitDocument, IInv, TypeOK
<1>3. jobs[op] = NoRow \/ (jobs[op] \in Job /\ jobs[op].document = NoRow /\ jobs[op].status # "completed")
  BY <1>1 DEF IInv, TypeOK, JobsOK, Ingests, BeforeCommit, Settled
<1>4. jobs'[op] \in Job /\ jobs'[op].document = op /\ jobs'[op].status # "completed"
  <2>1. jobs'[op] \in CommittedJobs(op)
    BY DEF CommitDocument, IInv, TypeOK
  <2>2. jobs'[op].document = op /\ jobs'[op].status # "completed"
    <3>1. CASE jobs[op] = NoRow
      BY <1>1, <2>1, <3>1 DEF CommittedJobs
    <3>2. CASE jobs[op] # NoRow
      <4>1. PICK status \in {jobs[op].status, "running"} :
               jobs'[op] = [jobs[op] EXCEPT !.status = status, !.document = op]
        BY <1>1, <2>1, <3>2 DEF CommittedJobs
      <4> QED
        BY <1>3, <3>2, <4>1 DEF Job
    <3> QED
      BY <3>1, <3>2
  <2>3. jobs'[op] # NoRow
    BY <1>1, <2>1 DEF IInv, JobsOK, CommitDocument, Goto, TypeOK
  <2> QED
    BY <2>2, <2>3 DEF IInv, TypeOK
<1>5. Issue(op)'
  BY <1>4, NoRowFacts DEF Issue, Unfinished
<1>6. documents'[op] = FlushedDocument(op) /\ documents'[op] # NoRow /\ documents'[op].rows = NChunks
  <2>1. documents'[op] = FlushedDocument(op)
    BY DEF CommitDocument, IInv, TypeOK
  <2>2. FlushedDocument(op) \in Document
    BY <1>1, FlushedIsDocument, NChunksAssumption, NoRowFacts DEF Uncommitted, IInv, SessionOK
  <2> QED
    BY <1>1, <2>1, <2>2, NoRowFacts DEF FlushedDocument
<1>7. \A e \in Op \ {op} : /\ documents'[e] = documents[e]
                           /\ MappedLibrary'[e] = MappedLibrary[e]
  <2>1. \A e \in Op \ {op} : documents'[e] = documents[e] /\ vectors'[e] = vectors[e]
    BY DEF CommitDocument, IInv, TypeOK
  <2>2. \A e \in Op \ {op} : ~Unfinished(op, e)' /\ ~Unfinished(op, e)
    BY <1>3, <1>4, NoRowFacts DEF Unfinished
  <2>3. \A e \in Op : ~TornDelete(op, e)' /\ ~TornDelete(op, e)
    BY <1>1 DEF TornDelete, CommitDocument, Ingests
  <2>4. ~DeleteCommit(op) /\ deleted' = deleted
    BY DEF CommitDocument, DeleteCommit
  <2> QED
    BY <2>1, <2>2, <2>3, <2>4, OtherEntries DEF Step, IngestStep
<1> QED
  BY <1>1, <1>2, <1>5, <1>6, <1>7, StoreChange, NChunksAssumption DEF Live

\* A step that changes at most the points and the issue of one document.
LEMMA EntryChange ==
    ASSUME IInv, IInv', NEW d \in Op, documents'[d] = documents[d], deleted' = deleted,
           \A e \in Op \ {d} : MappedLibrary'[e] = MappedLibrary[e],
           Live(d) => \/ vectors'[d] >= documents[d].rows /\ Issue(d) /\ Issue(d)'
                      \/ ~(vectors'[d] >= documents[d].rows) /\ Issue(d)'
                      \/ /\ vectors'[d] >= documents[d].rows <=> vectors[d] >= documents[d].rows
                         /\ Issue(d) => Issue(d)'
                      \/ /\ vectors'[d] = vectors[d]
                         /\ vectors[d] >= documents[d].rows /\ documents[d].rows = NChunks
    PROVE  [Store!Next]_MappedLibrary
<1>1. CASE ~Live(d)
  <2>1. MappedLibrary'[d] = MappedLibrary[d]
    <3>1. ~Live(d)'
      BY <1>1 DEF Live
    <3> QED
      BY <1>1, <3>1, MappedValues
  <2> QED
    BY <2>1, OneEntry
<1>2. CASE Live(d)
  <2> DEFINE before == vectors[d] >= documents[d].rows
             after == vectors'[d] >= documents[d].rows
  <2>1. before \in BOOLEAN /\ after \in BOOLEAN
    BY <1>2, NChunksAssumption DEF IInv, TypeOK, Live, Document
  <2>2. \/ after /\ Issue(d) /\ Issue(d)'
        \/ ~after /\ Issue(d)'
        \/ after = before /\ (Issue(d) => Issue(d)')
        \/ after = before /\ before /\ documents[d].rows = NChunks
    BY <1>2, <2>1
  <2> HIDE DEF before, after
  <2>3. before = (vectors[d] >= documents[d].rows) /\ after = (vectors'[d] >= documents[d].rows)
    BY DEF before, after
  <2> QED
    BY <1>2, <2>2, <2>3, StoredEntryChanges
<1> QED
  BY <1>1, <1>2

\* A call at the upsert has an open job about the document it upserts.
LEMMA JobOfWriter ==
    ASSUME IInv, NEW op \in Op, pc[op] \in {"rdelete", "upsert", "complete"}
    PROVE  /\ Target(op) \in Op /\ call[op].kind # "delete"
           /\ Live(Target(op)) => Unfinished(op, Target(op))
           /\ \A e \in Op : Live(e) /\ e # Target(op) => op # e /\ jobs[op].document # e
<1>1. jobs[op] # NoRow /\ jobs[op].status # "completed"
  BY DEF IInv, JobsOK, PlacesOK, Settled
<1>2. CASE Ingests(op)
  <2>1. Target(op) = op /\ jobs[op].document \in {NoRow, op}
    BY <1>2 DEF IInv, ArgumentsOK, JobsOK, PlacesOK, Settled, Target, Ingests
  <2> QED
    BY <1>1, <1>2, <2>1, NoRowFacts DEF Unfinished, Ingests
<1>3. CASE call[op].kind = "reindex"
  <2>1. /\ call[op].document \in Op /\ Target(op) = call[op].document
        /\ jobs[op].document = IF Live(call[op].document) THEN call[op].document ELSE NoRow
    BY <1>3, NoRowFacts DEF IInv, TypeOK, ArgumentsOK, JobsOK, Target, Known
  <2>2. \A e \in Op : Live(e) => e # op
    BY <1>3 DEF IInv, DocumentsOK, Known, Ingests
  <2> QED
    BY <1>1, <1>3, <2>1, <2>2, NoRowFacts DEF Unfinished
<1> QED
  BY <1>2, <1>3 DEF IInv, PlacesOK

\* The request that stores the points makes a document findable under the open
\* issue of the call; if it fails, it may have done so.
LEMMA UpsertStep ==
    ASSUME IInv, IInv', OwnershipInv, NEW op \in Op, Upsert(op) \/ UpsertFails(op)
    PROVE  [Store!Next]_MappedLibrary
<1>1. pc[op] = "upsert" /\ UNCHANGED <<documents, jobs, deleted, call>> /\ ~DeleteCommit(op)
  BY DEF Upsert, UpsertFails, DeleteCommit
<1>0. PICK d \in Op : d = Target(op)
  BY <1>1, JobOfWriter
<1>2. call[op].kind # "delete" /\ (Live(d) => Unfinished(op, d))
  BY <1>0, <1>1, JobOfWriter
<1>3. \A e \in Op : /\ Unfinished(op, e)' <=> Unfinished(op, e)
                    /\ TornDelete(op, e)' <=> TornDelete(op, e)
  BY <1>1, <1>2 DEF Unfinished, TornDelete
<1>4. /\ \A e \in Op \ {d} : vectors'[e] = vectors[e]
      /\ vectors'[d] \in {vectors[d], points[op]}
  BY <1>0 DEF Upsert, UpsertFails, IInv, TypeOK
<1>5. \A e \in Op \ {d} : MappedLibrary'[e] = MappedLibrary[e]
  BY <1>1, <1>3, <1>4, OtherEntries DEF Step, IngestStep
<1>6. Live(d) => Issue(d) /\ Issue(d)' /\ points[op] = documents[d].rows
  <2>1. Live(d) => Issue(d) /\ Issue(d)'
    BY <1>2, <1>3 DEF Issue
  <2>2. Live(d) => points[op] = documents[d].rows
    BY <1>0, <1>1 DEF IInv, DocumentsOK
  <2> QED
    BY <2>1, <2>2
<1>7. Live(d) => vectors'[d] >= documents[d].rows \/ vectors'[d] = vectors[d]
  BY <1>2, <1>4, <1>6, NChunksAssumption DEF IInv, TypeOK, Live, Document
<1> QED
  BY <1>1, <1>2, <1>5, <1>6, <1>7, EntryChange

\* A job completes: the issue of its document is closed if it was the last, and
\* then the document is whole and findable.
LEMMA CompleteStep ==
    ASSUME IInv, IInv', OwnershipInv, NEW op \in Op, Complete(op)
    PROVE  [Store!Next]_MappedLibrary
<1>1. /\ pc[op] = "complete" /\ UNCHANGED <<documents, vectors, deleted, call>>
      /\ ~DeleteCommit(op)
  BY DEF Complete, DeleteCommit
<1>0. PICK d \in Op : d = Target(op)
  BY <1>1, JobOfWriter
<1>2. call[op].kind # "delete" /\ (Live(d) => Unfinished(op, d))
  BY <1>0, <1>1, JobOfWriter
<1>3. jobs[op] \in Job /\ jobs'[op].document = jobs[op].document
  <2>1. jobs[op] \in Job
    BY <1>1, NoRowFacts DEF IInv, TypeOK, JobsOK
  <2> QED
    BY <2>1 DEF Complete, IInv, TypeOK, Job
<1>4. \A e \in Op : TornDelete(op, e)' <=> TornDelete(op, e)
  BY <1>1, <1>2 DEF TornDelete
<1>5. \A e \in Op \ {d} : Live(e) => ~Unfinished(op, e)' /\ ~Unfinished(op, e)
  BY <1>0, <1>1, <1>3, JobOfWriter DEF Unfinished
<1>6. \A e \in Op \ {d} : MappedLibrary'[e] = MappedLibrary[e]
  BY <1>1, <1>4, <1>5, OtherEntries DEF Step, IngestStep
<1>7. ASSUME NEW o \in Op \ {op}, Unfinished(o, d) \/ TornDelete(o, d) PROVE Issue(d)'
  BY <1>1, <1>7, OthersKept DEF Issue, Unfinished, TornDelete, Step, IngestStep
<1>8. Live(d) /\ ~Issue(d)' => vectors[d] >= documents[d].rows /\ documents[d].rows = NChunks
  <2> SUFFICES ASSUME Live(d), ~Issue(d)'
               PROVE  vectors[d] >= documents[d].rows /\ documents[d].rows = NChunks
    OBVIOUS
  <2>0. vectors[d] \in Nat /\ documents[d].rows \in 0..NChunks
    BY <1>2, NChunksAssumption DEF IInv, TypeOK, Live, Document
  <2>1. ~(vectors[d] < documents[d].rows)
    BY <1>1, <1>2, <1>7 DEF IInv, AccountedBeforeComplete, TornDelete
  <2>2. ~(documents[d].rows < NChunks)
    <3>1. SUFFICES ASSUME documents[d].rows < NChunks PROVE FALSE
      OBVIOUS
    <3>2. call[d].kind = "worker" /\ jobs[d].status = "failed"
      BY <1>2, <3>1 DEF IInv, TruncatedOnlyUnderFailedJob
    <3>3. jobs[d] # NoRow
      BY <1>2, <3>2 DEF IInv, JobsOK
    <3>4. d # op
      BY <1>1, <3>1 DEF IInv, DocumentsOK
    <3> QED
      BY <1>2, <1>7, <3>2, <3>3, <3>4 DEF Unfinished
  <2> QED
    BY <2>0, <2>1, <2>2, NChunksAssumption
<1> QED
  BY <1>1, <1>2, <1>6, <1>8, EntryChange DEF Issue

\* A failure that is recorded opens the issue of the document the job is about,
\* or stores, with an open issue, the document the session had flushed.
LEMMA MarkJobFailedStep ==
    ASSUME IInv, IInv', OwnershipInv, NEW op \in Op, MarkJobFailed(op)
    PROVE  [Store!Next]_MappedLibrary
<1> DEFINE link == session[op].link
<1>1. /\ pc[op] = "failing" /\ UNCHANGED <<vectors, deleted, call>> /\ ~DeleteCommit(op)
      /\ call[op].kind # "delete" /\ link \in Op \union {NoRow}
  BY DEF MarkJobFailed, DeleteCommit, IInv, PlacesOK, Ingests, TypeOK, Session
<1>2. \A e \in Op : ~TornDelete(op, e)' /\ ~TornDelete(op, e)
  BY <1>1 DEF TornDelete
<1>3. jobs[op] # NoRow /\ jobs[op] \in Job
  BY <1>1 DEF IInv, JobsOK, TypeOK
<1>4. CASE ~(link \in {NoRow, op} \/ Live(link))
  <2>1. UNCHANGED <<documents, jobs>>
    BY <1>4 DEF MarkJobFailed
  <2> QED
    BY <1>1, <1>2, <2>1, NothingShown DEF Unfinished, Step, IngestStep
<1>5. CASE link \in {NoRow, op} \/ Live(link)
  <2> HIDE DEF link
  <2>1. /\ jobs'[op] # NoRow /\ jobs'[op].status = "failed"
        /\ jobs'[op].document = IF link = NoRow THEN jobs[op].document ELSE link
    <3>1. jobs'[op] = [jobs[op] EXCEPT !.status = "failed",
                                       !.document = IF link = NoRow THEN jobs[op].document ELSE link]
      BY <1>5 DEF MarkJobFailed, IInv, TypeOK, link
    <3>2. /\ jobs'[op].status = "failed"
          /\ jobs'[op].document = IF link = NoRow THEN jobs[op].document ELSE link
      BY <1>3, <3>1 DEF Job
    <3>3. jobs'[op] \in Job
      BY <1>1, <1>3, <3>1 DEF Job, JobStatus
    <3> QED
      BY <3>2, <3>3, NoRowFacts
  <2>2. CASE Uncommitted(op)
    <3>1. /\ Ingests(op) /\ op \notin Known /\ link \in {NoRow, op}
          /\ jobs[op].document = NoRow /\ session[op].rows \in 0..NChunks
      BY <1>1, <2>2
         DEF IInv, SessionOK, JobsOK, OwnershipInv, Uncommitted, EmptySession, TypeOK, Session, link
    <3>2. /\ documents'[op] = FlushedDocument(op)
          /\ \A e \in Op \ {op} : documents'[e] = documents[e]
      BY <1>5, <2>2 DEF MarkJobFailed, Uncommitted, IInv, TypeOK, link
    <3>3. FlushedDocument(op) # NoRow /\ documents'[op].rows \in 0..NChunks
      BY <2>2, <3>1, <3>2, FlushedIsDocument, NoRowFacts DEF FlushedDocument
    <3>4. vectors'[op] = 0
      BY <1>1, <3>1 DEF OwnershipInv, IInv, TypeOK
    <3>5. Issue(op)'
      BY <2>1 DEF Issue, Unfinished
    <3>6. \A e \in Op \ {op} : ~Unfinished(op, e)' /\ ~Unfinished(op, e)
      BY <2>1, <3>1, NoRowFacts DEF Unfinished
    <3>7. \A e \in Op \ {op} : MappedLibrary'[e] = MappedLibrary[e]
      BY <1>1, <1>2, <3>2, <3>6, OtherEntries DEF Step, IngestStep
    <3> QED
      BY <3>1, <3>2, <3>3, <3>4, <3>5, <3>7, StoreChange, NChunksAssumption DEF Live
  <2>3. CASE ~Uncommitted(op)
    <3>1. documents' = documents /\ link # op
      BY <1>5, <2>3 DEF MarkJobFailed, Uncommitted, IInv, SessionOK, link
    <3> DEFINE about == IF link # NoRow THEN link ELSE IF op \in Known THEN op
                        ELSE IF jobs[op].document # NoRow THEN jobs[op].document ELSE op
    <3>2. PICK d \in Op : d = about
      BY <1>1, <1>3 DEF Job
    <3>3. link # NoRow => op \notin Known /\ jobs[op].document = NoRow
      BY <1>1, <3>1 DEF IInv, SessionOK, JobsOK, OwnershipInv, EmptySession, link
    <3>4. link = NoRow /\ op \in Known => jobs[op].document \in {NoRow, op}
      BY <1>3 DEF OwnershipInv
    <3>5. \A e \in Op \ {d} : Live(e) => ~Unfinished(op, e)' /\ ~Unfinished(op, e)
      BY <2>1, <3>2, <3>3, <3>4, NoRowFacts DEF Unfinished, Known
    <3>6. Live(d) => Issue(d)'
      <4>1. d = op \/ jobs'[op].document = d
        BY <2>1, <3>2
      <4> QED
        BY <2>1, <4>1 DEF Issue, Unfinished
    <3>7. \A e \in Op \ {d} : MappedLibrary'[e] = MappedLibrary[e]
      BY <1>1, <1>2, <3>1, <3>5, OtherEntries DEF Step, IngestStep
    <3> QED
      BY <1>1, <3>1, <3>6, <3>7, EntryChange
  <2> QED
    BY <2>2, <2>3
<1> QED
  BY <1>4, <1>5

\* A reindex opens an issue, and takes the points out under it.
LEMMA ReindexCreateJobStep ==
    ASSUME IInv, IInv', OwnershipInv, NEW op \in Op, ReindexCreateJob(op)
    PROVE  [Store!Next]_MappedLibrary
<1>1. /\ UNCHANGED <<documents, vectors, deleted, call>> /\ ~DeleteCommit(op)
      /\ call[op].kind = "reindex" /\ call[op].document \in Op /\ jobs[op] = NoRow
  BY DEF ReindexCreateJob, DeleteCommit, IInv, PlacesOK, ArgumentsOK, JobsOK, Known, TypeOK
<1>2. PICK d \in Op : d = call[op].document
  BY <1>1
<1>3. \A e \in Op : ~TornDelete(op, e)' /\ ~TornDelete(op, e)
  BY <1>1 DEF TornDelete
<1>4. CASE ~Live(d)
  <2>1. UNCHANGED jobs
    BY <1>2, <1>4 DEF ReindexCreateJob
  <2> QED
    BY <1>1, <1>3, <2>1, NothingShown DEF Unfinished, Step, ReindexStep
<1>5. CASE Live(d)
  <2>1. jobs'[op].document = d /\ jobs'[op].status = "running" /\ jobs'[op] # NoRow
    <3>1. jobs'[op] = [status |-> "running", ctx |-> documents[d].ctx, document |-> d]
      BY <1>2, <1>5 DEF ReindexCreateJob, IInv, TypeOK
    <3>2. jobs'[op] \in Job
      BY <1>5, <3>1 DEF Job, JobStatus, IInv, TypeOK, Live, Document
    <3> QED
      BY <3>1, <3>2, NoRowFacts
  <2>2. op \notin Known
    BY <1>1 DEF IInv, DocumentsOK, Ingests
  <2>3. \A e \in Op \ {d} : Live(e) => ~Unfinished(op, e)' /\ ~Unfinished(op, e)
    BY <1>1, <2>1, <2>2 DEF Unfinished, Known
  <2>4. Issue(d)'
    BY <2>1 DEF Issue, Unfinished
  <2>5. \A e \in Op \ {d} : MappedLibrary'[e] = MappedLibrary[e]
    BY <1>1, <1>3, <2>3, OtherEntries DEF Step, ReindexStep
  <2> QED
    BY <1>1, <2>4, <2>5, EntryChange
<1> QED
  BY <1>4, <1>5

LEMMA ReindexDeleteStep ==
    ASSUME IInv, IInv', OwnershipInv, NEW op \in Op, ReindexDelete(op)
    PROVE  [Store!Next]_MappedLibrary
<1>1. /\ pc[op] = "rdelete" /\ UNCHANGED <<documents, jobs, deleted, call>> /\ ~DeleteCommit(op)
      /\ Target(op) = call[op].document
  BY NoRowFacts DEF ReindexDelete, DeleteCommit, Target, IInv, PlacesOK, ArgumentsOK, Known, TypeOK
<1>0. PICK d \in Op : d = call[op].document
  BY <1>1, JobOfWriter
<1>2. call[op].kind # "delete" /\ (Live(d) => Unfinished(op, d))
  BY <1>0, <1>1, JobOfWriter
<1>3. \A e \in Op : /\ Unfinished(op, e)' <=> Unfinished(op, e)
                    /\ TornDelete(op, e)' <=> TornDelete(op, e)
  BY <1>1, <1>2 DEF Unfinished, TornDelete
<1>4. \A e \in Op \ {d} : vectors'[e] = vectors[e]
  BY <1>0 DEF ReindexDelete, IInv, TypeOK
<1>5. \A e \in Op \ {d} : MappedLibrary'[e] = MappedLibrary[e]
  BY <1>1, <1>3, <1>4, OtherEntries DEF Step, ReindexStep
<1>6. Live(d) => Issue(d) /\ Issue(d)'
  BY <1>2, <1>3 DEF Issue
<1> QED
  BY <1>1, <1>5, <1>6, EntryChange

\* The first half of a delete takes the points out, and opens an issue.
LEMMA DeleteVectorsStep ==
    ASSUME IInv, IInv', OwnershipInv, NEW op \in Op, DeleteVectors(op)
    PROVE  [Store!Next]_MappedLibrary
<1>1. /\ UNCHANGED <<documents, jobs, deleted, call>> /\ ~DeleteCommit(op)
      /\ call[op].kind = "delete" /\ call[op].document \in Op
      /\ pc[op] = "ddelete" /\ pc'[op] \in {"dcommit", "raised"}
  BY DEF DeleteVectors, DeleteCommit, Goto, End, IInv, PlacesOK, ArgumentsOK, Known, TypeOK
<1>2. PICK d \in Op : d = call[op].document
  BY <1>1
<1>3. \A e \in Op : Unfinished(op, e)' <=> Unfinished(op, e)
  BY <1>1 DEF Unfinished
<1>4. \A e \in Op \ {d} : ~TornDelete(op, e)' /\ ~TornDelete(op, e)
  BY <1>1, <1>2 DEF TornDelete
<1>5. \A e \in Op \ {d} : vectors'[e] = vectors[e]
  BY <1>2 DEF DeleteVectors, IInv, TypeOK
<1>6. \A e \in Op \ {d} : MappedLibrary'[e] = MappedLibrary[e]
  BY <1>1, <1>3, <1>4, <1>5, OtherEntries DEF Step, DeleteStep
<1>7. Issue(d)'
  BY <1>1, <1>2 DEF Issue, TornDelete
<1>8. vectors'[d] \in {vectors[d], 0}
  BY <1>2 DEF DeleteVectors, IInv, TypeOK
<1>9. Live(d) => vectors[d] \in Nat /\ documents[d].rows \in Nat
  BY NChunksAssumption DEF IInv, TypeOK, Live, Document
<1> QED
  BY <1>1, <1>6, <1>7, <1>8, <1>9, EntryChange

\* The second half removes the document, if no other delete has.
LEMMA DeleteCommitStep ==
    ASSUME IInv, IInv', OwnershipInv, NEW op \in Op, DeleteCommit(op)
    PROVE  [Store!Next]_MappedLibrary
<1>1. /\ UNCHANGED <<vectors, call>>
      /\ call[op].kind = "delete" /\ call[op].document \in Known
      /\ pc'[op] = "returned" /\ pc[op] = "dcommit"
  BY DEF DeleteCommit, End, Goto, IInv, PlacesOK, ArgumentsOK, TypeOK
<1>2. PICK d \in Op : d = call[op].document
  BY <1>1 DEF Known, IInv, TypeOK
<1>3. /\ documents'[d] = NoRow
      /\ \A e \in Op \ {d} : documents'[e] = documents[e]
      /\ deleted' = deleted \union {d}
  BY <1>2 DEF DeleteCommit, IInv, TypeOK
<1>4. ASSUME NEW e \in Op \ {d} PROVE MappedLibrary'[e] = MappedLibrary[e]
  <2>1. ASSUME NEW o \in Op PROVE Unfinished(o, e)' <=> Unfinished(o, e)
    <3>1. CASE jobs[o] # NoRow /\ jobs[o].document = d
      <4>1. jobs[o] \in Job
        BY <3>1 DEF IInv, TypeOK
      <4>2. jobs'[o] = [jobs[o] EXCEPT !.document = NoRow]
        BY <1>2, <3>1 DEF DeleteCommit
      <4>3. jobs'[o].document = NoRow /\ jobs'[o].status = jobs[o].status /\ jobs'[o] \in Job
        BY <4>1, <4>2 DEF Job
      <4> QED
        BY <1>4, <3>1, <4>3, NoRowFacts DEF Unfinished
    <3>2. CASE ~(jobs[o] # NoRow /\ jobs[o].document = d)
      <4>1. jobs'[o] = jobs[o]
        BY <1>2, <3>2 DEF DeleteCommit
      <4> QED
        BY <4>1 DEF Unfinished
    <3> QED
      BY <3>1, <3>2
  <2>2. ASSUME NEW o \in Op PROVE TornDelete(o, e)' <=> TornDelete(o, e)
    <3>1. CASE o = op
      BY <1>1, <1>2, <3>1 DEF TornDelete
    <3>2. CASE o # op
      <4>1. pc'[o] = pc[o]
        BY <3>2 DEF DeleteCommit, End, Goto, IInv, TypeOK
      <4> QED
        BY <1>1, <4>1 DEF TornDelete
    <3> QED
      BY <3>1, <3>2
  <2>3. Issue(e)' <=> Issue(e)
    BY <2>1, <2>2 DEF Issue
  <2> QED
    BY <1>1, <1>3, <2>3, SameEntry
<1>5. CASE Live(d)
  <2>1. MappedLibrary'[d] = Removed
    BY <1>3, MappedValues DEF Live
  <2>2. MappedLibrary[d] # Removed /\ Store!Stored(d)
    BY <1>5, MappedValues, EntryType, StoredIsLive
  <2> QED
    BY <1>4, <2>1, <2>2, OneEntry DEF Store!Next, Store!Remove, Store!Change
<1>6. CASE ~Live(d)
  <2>1. d \in deleted
    BY <1>1, <1>2, <1>6 DEF Known
  <2>2. MappedLibrary'[d] = MappedLibrary[d]
    BY <1>3, <1>6, <2>1, MappedValues DEF Live
  <2> QED
    BY <1>4, <2>2, OneEntry
<1> QED
  BY <1>5, <1>6

\* A process that dies in a delete leaves an issue open; elsewhere it leaves
\* its job as it was.
LEMMA CrashStep ==
    ASSUME IInv, IInv', OwnershipInv, NEW op \in Op, Crash(op)
    PROVE  [Store!Next]_MappedLibrary
<1>1. /\ UNCHANGED <<call, documents, jobs, vectors, deleted>> /\ ~DeleteCommit(op)
      /\ pc'[op] = "crashed"
  BY DEF Crash, DeleteCommit, End, Goto, IInv, TypeOK
<1>2. \A e \in Op : Unfinished(op, e)' <=> Unfinished(op, e)
  BY <1>1 DEF Unfinished
<1>3. CASE call[op].kind # "delete"
  <2>1. \A e \in Op : ~TornDelete(op, e)' /\ ~TornDelete(op, e)
    BY <1>1, <1>3 DEF TornDelete
  <2> QED
    BY <1>1, <1>2, <2>1, NothingShown
<1>4. CASE call[op].kind = "delete"
  <2>1. PICK d \in Op : d = call[op].document
    BY <1>4 DEF IInv, ArgumentsOK, Known, TypeOK
  <2>2. \A e \in Op \ {d} : ~TornDelete(op, e)' /\ ~TornDelete(op, e)
    BY <1>1, <2>1 DEF TornDelete
  <2>3. \A e \in Op \ {d} : MappedLibrary'[e] = MappedLibrary[e]
    BY <1>1, <1>2, <2>2, OtherEntries
  <2>4. Issue(d)'
    BY <1>1, <1>4, <2>1 DEF Issue, TornDelete
  <2> QED
    BY <1>1, <2>3, <2>4, EntryChange
<1> QED
  BY <1>3, <1>4

\* Every step is a step of the store or none.
LEMMA StepRefines ==
    ASSUME IInv, IInv', OwnershipInv, [Next]_vars PROVE [Store!Next]_MappedLibrary
<1>1. CASE UNCHANGED vars
  <2>1. \A d \in Op : Issue(d)' <=> Issue(d)
    BY <1>1 DEF vars, Issue, Unfinished, TornDelete
  <2>2. \A d \in Op : MappedLibrary'[d] = MappedLibrary[d]
    BY <1>1, <2>1, SameEntry DEF vars
  <2> QED
    BY <2>2, MappedFunction
<1>2. CASE \E op \in Op : Arrive(op) \/ Step(op) \/ Timeout(op) \/ Crash(op)
  <2> PICK op \in Op : Arrive(op) \/ Step(op) \/ Timeout(op) \/ Crash(op)
    BY <1>2
  <2> QED
    BY QuietSteps, CommitDocumentStep, UpsertStep, CompleteStep, MarkJobFailedStep,
       ReindexCreateJobStep, ReindexDeleteStep, DeleteVectorsStep, DeleteCommitStep, CrashStep
       DEF Step, IngestStep, ReindexStep, DeleteStep
<1> QED
  BY <1>1, <1>2 DEF Next, Quiet

\* However the calls of RagStorageService interleave, fail and crash, what they
\* do to the documents, to what search can find of them and to the failures
\* that are on record is a behaviour of DocumentStore.
THEOREM StoreRefinement == Spec => ImplementsDocumentStore
<1>1. Init => Store!Init
  BY DEF Init, Store!Init, MappedLibrary, Live, Entry, Issue, Unfinished, TornDelete
<1>2. IInv /\ IInv' /\ OwnershipInv /\ [Next]_vars => [Store!Next]_MappedLibrary
  BY StepRefines
<1> QED
  BY <1>1, <1>2, StorageInvariant, OwnershipInvariant, PTL DEF Spec, ImplementsDocumentStore, Store!Spec

-----------------------------------------------------------------------------
(* What the abstract store is worth: what its six steps keep true.         *)

\* Without an issue on record, a document has all its chunks and search finds
\* them; and a context has a payload once.
StorePromises ==
    /\ \A d \in Op : Store!Stored(d) /\ ~MappedLibrary[d].open
          => MappedLibrary[d].whole /\ MappedLibrary[d].findable
    /\ \A d, e \in Op :
          Store!Stored(d) /\ Store!Stored(e) /\ d # e
          => \/ MappedLibrary[d].ctx # MappedLibrary[e].ctx
             \/ MappedLibrary[d].content # MappedLibrary[e].content

\* A document that was removed does not come back, and while it is stored its
\* context, its payload and whether it is whole are what they were.
StoreIsStable ==
    \A d \in Op :
        /\ MappedLibrary[d] = Removed => MappedLibrary'[d] = Removed
        /\ Store!Stored(d) /\ Store!Stored(d)'
           => /\ MappedLibrary'[d].ctx = MappedLibrary[d].ctx
              /\ MappedLibrary'[d].content = MappedLibrary[d].content
              /\ MappedLibrary'[d].whole = MappedLibrary[d].whole

StoreTypeOK == MappedLibrary \in [Op -> Store!Entry \union {NoRow, Removed}]

\* What a step of the store does to the one entry it is about.
LEMMA StoreStepShape ==
    ASSUME StoreTypeOK, Store!Next
    PROVE  \E d \in Op :
              /\ \A e \in Op \ {d} : MappedLibrary'[e] = MappedLibrary[e]
              /\ StoreTypeOK'
              /\ \/ MappedLibrary'[d] = Removed /\ Store!Stored(d)
                 \/ /\ MappedLibrary[d] = NoRow /\ MappedLibrary'[d] \in Store!Entry
                    /\ MappedLibrary'[d].open
                    /\ \A e \in Op : Store!Stored(e) =>
                          \/ MappedLibrary[e].ctx # MappedLibrary'[d].ctx
                          \/ MappedLibrary[e].content # MappedLibrary'[d].content
                 \/ /\ Store!Stored(d) /\ MappedLibrary'[d] \in Store!Entry
                    /\ MappedLibrary'[d].ctx = MappedLibrary[d].ctx
                    /\ MappedLibrary'[d].content = MappedLibrary[d].content
                    /\ MappedLibrary'[d].whole = MappedLibrary[d].whole
                    /\ \/ MappedLibrary'[d].open
                       \/ MappedLibrary'[d].whole /\ MappedLibrary'[d].findable
<1>1. PICK d \in Op : \/ Store!Store(d) \/ Store!Index(d) \/ Store!Unindex(d)
                      \/ Store!Open(d) \/ Store!Close(d) \/ Store!Remove(d)
  BY DEF Store!Next
<1>2. PICK entry : Store!Change(d, entry)
  BY <1>1 DEF Store!Store, Store!Index, Store!Unindex, Store!Open, Store!Close, Store!Remove
<1>3. /\ MappedLibrary'[d] = entry
      /\ \A e \in Op \ {d} : MappedLibrary'[e] = MappedLibrary[e]
  BY <1>2 DEF Store!Change, StoreTypeOK
<1>4. MappedLibrary'[d] \in Store!Entry \union {NoRow, Removed} => StoreTypeOK'
  BY <1>2, <1>3 DEF Store!Change, StoreTypeOK
<1>5. CASE Store!Remove(d)
  <2>1. MappedLibrary'[d] = Removed /\ Store!Stored(d)
    BY <1>5 DEF Store!Remove, Store!Change, StoreTypeOK
  <2> QED
    BY <1>3, <1>4, <2>1
<1>6. CASE Store!Store(d)
  BY <1>3, <1>4, <1>6 DEF Store!Store
<1>7. CASE Store!Index(d) \/ Store!Unindex(d) \/ Store!Open(d) \/ Store!Close(d)
  <2>1. Store!Stored(d) /\ MappedLibrary[d] \in Store!Entry
    BY <1>7 DEF Store!Index, Store!Unindex, Store!Open, Store!Close, Store!Stored, StoreTypeOK
  <2>2. PICK old \in Store!Entry : old = MappedLibrary[d]
    BY <2>1
  <2>3. PICK findable \in BOOLEAN, open \in BOOLEAN :
           /\ MappedLibrary'[d] = [old EXCEPT !.findable = findable, !.open = open]
           /\ open \/ (old.whole /\ findable)
    <3>1. old.findable \in BOOLEAN /\ old.open \in BOOLEAN
      BY DEF Store!Entry
    <3>2. CASE Store!Index(d)
      <4>1. old.open /\ MappedLibrary'[d] = [old EXCEPT !.findable = TRUE, !.open = TRUE]
        BY <2>2, <3>2 DEF Store!Index, Store!Change, StoreTypeOK, Store!Entry
      <4> QED
        BY <4>1
    <3>3. CASE Store!Unindex(d)
      <4>1. MappedLibrary'[d] = [old EXCEPT !.findable = FALSE, !.open = TRUE]
        BY <2>2, <3>3 DEF Store!Unindex, Store!Change, StoreTypeOK
      <4> QED
        BY <4>1
    <3>4. CASE Store!Open(d)
      <4>1. MappedLibrary'[d] = [old EXCEPT !.findable = old.findable, !.open = TRUE]
        BY <2>2, <3>4 DEF Store!Open, Store!Change, StoreTypeOK, Store!Entry
      <4> QED
        BY <3>1, <4>1
    <3>5. CASE Store!Close(d)
      <4>1. /\ old.whole /\ old.findable
            /\ MappedLibrary'[d] = [old EXCEPT !.findable = TRUE, !.open = FALSE]
        BY <2>2, <3>5 DEF Store!Close, Store!Change, StoreTypeOK, Store!Entry
      <4> QED
        BY <4>1
    <3> QED
      BY <1>7, <3>2, <3>3, <3>4, <3>5
  <2>4. /\ MappedLibrary'[d] \in Store!Entry
        /\ MappedLibrary'[d].ctx = old.ctx
        /\ MappedLibrary'[d].content = old.content
        /\ MappedLibrary'[d].whole = old.whole
        /\ MappedLibrary'[d].open \/ (MappedLibrary'[d].whole /\ MappedLibrary'[d].findable)
    BY <2>3 DEF Store!Entry
  <2> QED
    BY <1>3, <1>4, <2>1, <2>2, <2>4
<1> QED
  BY <1>1, <1>5, <1>6, <1>7

\* Any behaviour of the abstract store keeps its promises, and so does any
\* behaviour of a service that implements it.
THEOREM StoreKeepsItsPromises ==
    Store!Spec => []StorePromises /\ [][StoreIsStable]_MappedLibrary
<1>0. /\ \A d : Store!Stored(d) <=> MappedLibrary[d] \notin {NoRow, Removed}
      /\ \A d : Store!Stored(d)' <=> MappedLibrary'[d] \notin {NoRow, Removed}
  BY DEF Store!Stored
<1>1. Store!Init => StoreTypeOK /\ StorePromises
  <2>1. Store!Init => \A d \in Op : MappedLibrary[d] = NoRow
    BY DEF Store!Init
  <2>2. Store!Init => StoreTypeOK
    BY DEF Store!Init, StoreTypeOK
  <2>3. Store!Init => \A d \in Op : ~Store!Stored(d)
    BY <1>0, <2>1
  <2> QED
    BY <2>2, <2>3 DEF StorePromises
<1>2. ASSUME StoreTypeOK, StorePromises, [Store!Next]_MappedLibrary
      PROVE  StoreTypeOK' /\ StorePromises' /\ [StoreIsStable]_MappedLibrary
  <2>1. CASE MappedLibrary' = MappedLibrary
    BY <1>2, <2>1 DEF StoreTypeOK, StorePromises, Store!Stored, Store!Entry
  <2>2. CASE Store!Next
    <3>1. PICK d \in Op :
              /\ \A e \in Op \ {d} : MappedLibrary'[e] = MappedLibrary[e]
              /\ StoreTypeOK'
              /\ \/ MappedLibrary'[d] = Removed /\ Store!Stored(d)
                 \/ /\ MappedLibrary[d] = NoRow /\ MappedLibrary'[d] \in Store!Entry
                    /\ MappedLibrary'[d].open
                    /\ \A e \in Op : Store!Stored(e) =>
                          \/ MappedLibrary[e].ctx # MappedLibrary'[d].ctx
                          \/ MappedLibrary[e].content # MappedLibrary'[d].content
                 \/ /\ Store!Stored(d) /\ MappedLibrary'[d] \in Store!Entry
                    /\ MappedLibrary'[d].ctx = MappedLibrary[d].ctx
                    /\ MappedLibrary'[d].content = MappedLibrary[d].content
                    /\ MappedLibrary'[d].whole = MappedLibrary[d].whole
                    /\ \/ MappedLibrary'[d].open
                       \/ MappedLibrary'[d].whole /\ MappedLibrary'[d].findable
      BY <1>2, <2>2, StoreStepShape
    <3>2. Removed # NoRow
      BY RemovedAssumption
    <3>3. StorePromises'
      <4>1. \A e \in Op \ {d} : Store!Stored(e)' <=> Store!Stored(e)
        BY <1>0, <3>1
      <4>2. \A e \in Op : Store!Stored(e)' /\ ~MappedLibrary'[e].open
               => MappedLibrary'[e].whole /\ MappedLibrary'[e].findable
        BY <1>0, <1>2, <3>1, <4>1 DEF StorePromises
      <4>3. ASSUME NEW e \in Op \ {d}, Store!Stored(d)', Store!Stored(e)'
            PROVE  ~(/\ MappedLibrary'[e].ctx = MappedLibrary'[d].ctx
                     /\ MappedLibrary'[e].content = MappedLibrary'[d].content)
        <5>1. Store!Stored(e) /\ MappedLibrary'[e] = MappedLibrary[e]
          BY <3>1, <4>1, <4>3
        <5>2. MappedLibrary'[d] # Removed
          BY <1>0, <4>3
        <5> QED
          BY <1>2, <3>1, <5>1, <5>2 DEF StorePromises
      <4>4. ASSUME NEW e \in Op \ {d}, NEW f \in Op \ {d}, Store!Stored(e)', Store!Stored(f)',
                   MappedLibrary'[e].ctx = MappedLibrary'[f].ctx,
                   MappedLibrary'[e].content = MappedLibrary'[f].content
            PROVE  e = f
        BY <1>2, <3>1, <4>1, <4>4 DEF StorePromises
      <4> QED
        BY <4>2, <4>3, <4>4 DEF StorePromises
    <3>4. StoreIsStable
      BY <1>0, <3>1, <3>2 DEF StoreIsStable
    <3> QED
      BY <3>1, <3>3, <3>4
  <2> QED
    BY <1>2, <2>1, <2>2
<1> QED
  BY <1>1, <1>2, PTL DEF Store!Spec
=============================================================================
