--------------------------- MODULE DocumentStore ---------------------------
(***************************************************************************)
(* What RagStorageService promises its callers, without sessions, queues,  *)
(* processes and half-done requests: a library of documents.  Of each it   *)
(* says whether it has all its chunks, whether vector search finds them    *)
(* all, and whether an issue is open, a call about it that has not         *)
(* succeeded.  RagStorageRefinement relates it to RagStorage.              *)
(***************************************************************************)
CONSTANTS
    Id,        \* names of documents
    Context,   \* the (tenant_id, scope) pairs
    Content,   \* payloads up to their checksum
    Absent,    \* never stored
    Removed    \* deleted

Entry == [ctx: Context, content: Content, whole: BOOLEAN, findable: BOOLEAN, open: BOOLEAN]

VARIABLE library   \* the entry of each document

Stored(d) == library[d] \notin {Absent, Removed}

Init == library = [d \in Id |-> Absent]

Change(d, entry) == library' = [library EXCEPT ![d] = entry]

\* A payload that its context does not have yet, under a name not used before.
\* Its issue is open, and it is not findable unless it has no chunks at all.
Store(d) ==
    /\ library[d] = Absent
    /\ library'[d] \in Entry
    /\ Change(d, library'[d])
    /\ library'[d].open
    /\ library'[d].findable => ~library'[d].whole
    /\ \A e \in Id : Stored(e) => \/ library[e].ctx # library'[d].ctx
                                  \/ library[e].content # library'[d].content

\* All its chunks are in Qdrant, written under an open issue.
Index(d) ==
    /\ Stored(d) /\ library[d].open
    /\ Change(d, [library[d] EXCEPT !.findable = TRUE])

\* Its chunks are taken out of Qdrant, which opens an issue.
Unindex(d) ==
    /\ Stored(d)
    /\ Change(d, [library[d] EXCEPT !.findable = FALSE, !.open = TRUE])

\* A reindex of it begins, or a call about it fails.
Open(d) ==
    /\ Stored(d)
    /\ Change(d, [library[d] EXCEPT !.open = TRUE])

\* The last call about it succeeds: only a whole document that search can find
\* is without an issue.
Close(d) ==
    /\ Stored(d) /\ library[d].whole /\ library[d].findable
    /\ Change(d, [library[d] EXCEPT !.open = FALSE])

\* It is removed for good.  Nothing else changes what a name stands for.
Remove(d) ==
    /\ Stored(d)
    /\ Change(d, Removed)

Next == \E d \in Id :
    /\ library'[d] # library[d]
    /\ Store(d) \/ Index(d) \/ Unindex(d) \/ Open(d) \/ Close(d) \/ Remove(d)

Spec == Init /\ [][Next]_library
=============================================================================
