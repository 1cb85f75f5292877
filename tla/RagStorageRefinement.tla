------------------------ MODULE RagStorageRefinement ------------------------
(***************************************************************************)
(* RagStorage implements DocumentStore.  The mapping forgets calls,        *)
(* sessions and points in memory: an entry of the library is a row of the  *)
(* documents table with what Qdrant has of it, and its issue is open as    *)
(* long as a job about it has not completed or a delete of it has stopped  *)
(* between the two stores.                                                 *)
(***************************************************************************)
EXTENDS RagStorageInvariant

CONSTANT Removed   \* what the name of a deleted document stands for

\* A call about d has not succeeded.
Issue(d) == \E o \in Op : Unfinished(o, d) \/ TornDelete(o, d)

Entry(d) == [ctx |-> documents[d].ctx,
             content |-> documents[d].content,
             whole |-> documents[d].rows = NChunks,
             findable |-> vectors[d] >= documents[d].rows,
             open |-> Issue(d)]

MappedLibrary == [d \in Op |-> IF Live(d) THEN Entry(d)
                               ELSE IF d \in deleted THEN Removed ELSE NoRow]

Store == INSTANCE DocumentStore WITH Id <- Op, Absent <- NoRow, library <- MappedLibrary

ASSUME RemovedAssumption == NoRow \notin Store!Entry /\ Removed \notin Store!Entry \union {NoRow}

\* Every step of a call, of a timeout or of a crash is one step of the store or
\* none: documents do not change while they are stored and do not come back
\* once removed; vectors go, and issues are closed, only as the store allows.
ImplementsDocumentStore == Store!Spec
=============================================================================
