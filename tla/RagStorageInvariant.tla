------------------------- MODULE RagStorageInvariant -------------------------
(***************************************************************************)
(* The inductive invariant of RagStorage.  The properties of RagStorage    *)
(* relate Postgres rows, Qdrant points and jobs; why a step preserves them *)
(* depends on where each call is and on what its session still holds, and  *)
(* that is what the parts below record.                                    *)
(***************************************************************************)
EXTENDS RagStorage

Ingests(o) == call[o].kind \in {"ingest", "worker"}

\* The call has flushed a document row that is not committed.
Uncommitted(o) == session[o].rows # NoRow

\* The places of an ingest before its document can be visible.
BeforeCommit == {"queued", "extract", "lookup", "dedupe", "insert", "embed",
                 "ensure", "create", "rows"}

\* Each place belongs to the kinds of call that pass through it.
PlacesOK ==
    \A o \in Op :
        /\ pc[o] = "idle" => call[o].kind = "none"
        /\ pc[o] \in {"queued", "extract"} => call[o].kind = "worker"
        /\ pc[o] \in {"lookup", "dedupe", "insert", "embed", "rows", "refresh"} => Ingests(o)
        /\ pc[o] \in {"ensure", "create", "upsert", "complete", "answer", "failing"}
           => Ingests(o) \/ call[o].kind = "reindex"
        /\ pc[o] \in {"rjob", "rload", "rdelete"} => call[o].kind = "reindex"
        /\ pc[o] \in {"ddelete", "dcommit"} => call[o].kind = "delete"

\* An ingest has a payload; the other calls work on a document that was stored.
ArgumentsOK ==
    \A o \in Op :
        /\ Ingests(o) => call[o].content \in Content
        /\ Ingests(o) /\ call[o].document # NoRow
           => pc[o] \in {"dedupe", "answer", "failing"} \union Settled
        /\ call[o].kind \in {"reindex", "delete"} \/ pc[o] = "dedupe"
           => call[o].document \in Known
        /\ pc[o] = "dedupe" /\ Live(call[o].document)
           => documents[call[o].document].ctx = IngestContext(o)

\* What a session may hold, and that it agrees with the points in memory.
SessionOK ==
    \A o \in Op :
        /\ Uncommitted(o) => /\ Ingests(o)
                             /\ pc[o] \in {"embed", "ensure", "create", "rows", "failing"}
                             /\ pc[o] = "failing" => call[o].kind = "worker"
                             /\ points[o] = session[o].rows
                             /\ o \notin Known
                             /\ session[o].rows > 0 => collection
        /\ pc[o] \in {"embed", "rows"} \/ (pc[o] \in {"ensure", "create"} /\ Ingests(o))
           => Uncommitted(o)
        /\ pc[o] = "rows" \/ (pc[o] \in {"ensure", "create"} /\ Ingests(o))
           => session[o].link = o
        /\ session[o].link = o => Uncommitted(o)
        /\ session[o].link \notin {NoRow, o}
           => /\ pc[o] = "failing" /\ call[o].kind = "worker"
              /\ session[o].link \in Known
              /\ Live(session[o].link) => documents[session[o].link].ctx = jobs[o].ctx
        /\ pc[o] \in {"idle", "queued", "extract", "lookup", "dedupe", "insert"}
           => points[o] = 0

\* When a call has a job row, in which status, and what it refers to.
JobsOK ==
    \A o \in Op :
        /\ pc[o] \in {"idle", "rjob"} \/ call[o].kind = "delete" => jobs[o] = NoRow
        /\ call[o].kind = "ingest" /\ pc[o] \in BeforeCommit => jobs[o] = NoRow
        /\ call[o].kind = "worker" => jobs[o] # NoRow
        /\ call[o].kind = "worker" /\ (pc[o] \in BeforeCommit \/ session[o] # EmptySession)
           => jobs[o].document = NoRow
        /\ pc[o] \in {"refresh", "upsert", "complete", "answer", "failing"} => jobs[o] # NoRow
        /\ call[o].kind = "reindex"
           /\ pc[o] \in {"rload", "ensure", "create", "rdelete", "upsert", "complete", "failing"}
           => /\ jobs[o] # NoRow
              /\ jobs[o].document = IF Live(call[o].document) THEN call[o].document ELSE NoRow
        /\ Ingests(o) /\ pc[o] \in {"refresh", "upsert", "complete"}
           => jobs[o].document \in {NoRow, o}
        /\ jobs[o] # NoRow /\ jobs[o].status = "completed"
           => pc[o] \in {"answer", "failing"} \union Settled

\* Which calls have a document, and that the points to upsert are all its rows.
DocumentsOK ==
    \A o \in Op :
        /\ o \in Known => /\ Ingests(o)
                          /\ pc[o] \in {"refresh", "upsert", "complete", "answer", "failing"}
                                       \union Settled
        /\ Live(o) /\ documents[o].rows < NChunks => pc[o] = "raised"
        /\ pc[o] \in {"refresh", "upsert", "complete", "answer"} => Target(o) \in Known
        /\ pc[o] \in {"rows", "rdelete", "refresh", "upsert"} => collection
        /\ (pc[o] \in {"ensure", "create"} => call[o].kind = "reindex")
           /\ pc[o] \in {"ensure", "create", "refresh", "upsert", "rdelete"} /\ Live(Target(o))
           => points[o] = documents[Target(o)].rows

\* A flushed key is free in the table and flushed once.
KeysOK ==
    /\ \A o, d \in Op : Uncommitted(o) /\ Live(d)
          => ~(documents[d].ctx = IngestContext(o) /\ documents[d].content = call[o].content)
    /\ \A o, p \in Op : Uncommitted(o) /\ Uncommitted(p) /\ IngestContext(o) = IngestContext(p)
                        /\ call[o].content = call[p].content => o = p

\* MissingVectorsAreAccountedFor without the jobs about to be completed: a
\* call that has reached "complete" has just written its points.
AccountedBeforeComplete ==
    \A d \in Op : Live(d) /\ vectors[d] < documents[d].rows
        => \E o \in Op : (Unfinished(o, d) /\ pc[o] # "complete") \/ TornDelete(o, d)

\* The inductive invariant: the properties and what they rest on, at every
\* step of every call.
IInv ==
    /\ TypeOK
    /\ PlacesOK
    /\ ArgumentsOK
    /\ SessionOK
    /\ JobsOK
    /\ DocumentsOK
    /\ KeysOK
    /\ OneDocumentPerPayload
    /\ JobsReferToTheirContext
    /\ AccountedBeforeComplete
    /\ TruncatedOnlyUnderFailedJob
    /\ RowsImplyCollection
    /\ SyncIngestIsAllOrNothing

\* What belongs to whom; it is inductive together with IInv.  Points belong to
\* a document that was committed, and a document that was deleted does not come
\* back.  A call that has linked its job to another document adds none of its
\* own, and the job of a call that added one is about no other.
OwnershipInv ==
    /\ \A o \in Op :
          /\ vectors[o] > 0 => o \in Known
          /\ session[o].link \notin {NoRow, o} => o \notin Known /\ ~Uncommitted(o)
          /\ o \in Known /\ jobs[o] # NoRow => jobs[o].document \in {NoRow, o}
    /\ \A d \in deleted : ~Live(d)
=============================================================================
