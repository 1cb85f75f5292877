------------------------------- MODULE Search -------------------------------
(***************************************************************************)
(* RagStorageService.search (app/services/storage.py), called by           *)
(* POST /documents/search and by the MCP tool search_documents, while the  *)
(* other calls of RagStorage store, reindex and delete documents.          *)
(*                                                                         *)
(* A search asks Qdrant first and PostgreSQL afterwards, in two reads at   *)
(* different times, and merges the hits.  A chunk is <<d, i>>, the i-th    *)
(* chunk of document d; its Qdrant point has the same id, so a chunk that  *)
(* both reads find is one hit.                                             *)
(***************************************************************************)
EXTENDS RagStorage, FiniteSetsExt

CONSTANTS
    Search,    \* the searches made during a behaviour (bounds their number)
    Query,     \* what can be asked: the number of words, how many of them each
               \* chunk of a payload contains, which chunks the database takes
               \* for one that contains a word, the limit, and the source filter
    SourceOf   \* the source a payload was stored with

ASSUME QueryAssumption ==
    \A q \in Query : /\ q.words \in Nat /\ q.top_k \in Nat \ {0}
                     /\ q.matches \in [Content -> [1..NChunks -> 0..q.words]]
                     /\ q.selected \in [Content -> SUBSET (1..NChunks)]
                     /\ \A c \in Content : \A i \in 1..NChunks :
                           /\ q.matches[c][i] > 0 => i \in q.selected[c]
                           /\ i \in q.selected[c] => q.words > 0

\* What a LIMIT counts is finite.
ASSUME CallsAssumption == IsFiniteSet(Op)

VARIABLES
    search,   \* where each search is, what it asks, and what it has read
    raced     \* history: documents with a writer of points inside a delete

searchVars == <<vars, search, raced>>

Chunk == Op \X (1..NChunks)

NoSearch == [place |-> "idle", ctx |-> DefaultContext, document |-> NoRow,
             query |-> NoRow, hits |-> {}, answer |-> {}, ready |-> {}, gone |-> {}]

SearchInit ==
    /\ Init
    /\ search = [s \in Search |-> NoSearch]
    /\ raced = {}

-----------------------------------------------------------------------------
(* What the two reads return.                                              *)

\* Mutant: the chunks of a point are counted from zero.
PointsFromZero(s) ==
    {c \in Op \X (0..NChunks) : c[2] < vectors[c[1]] /\ IngestContext(c[1]) = search[s].ctx}

\* The optional filters on document and source.
Selected(s, d) ==
    /\ search[s].document \in {NoRow, d}
    /\ search[s].query.source \in {NoRow, SourceOf[call[d].content]}

\* Mutant: the filter names the scope only.
PointsOfEveryTenant(s) ==
    {c \in Chunk : c[2] <= vectors[c[1]] /\ Selected(s, c[1])}

\* The points _build_filter lets through.  A point carries the tenant and the
\* scope its document was ingested in, also after the document is deleted.
MatchingPoints(s) ==
    {c \in Chunk : /\ c[2] <= vectors[c[1]]
                   /\ IngestContext(c[1]) = search[s].ctx
                   /\ Selected(s, c[1])}

\* How many words of the query a chunk contains.
Matches(s, c) == search[s].query.matches[call[c[1]].content][c[2]]

\* The rows of the lexical statement: chunks joined with their documents that
\* are ILIKE a word of the query.  A word may have an underscore, which stands
\* for any character there: rows are selected that contain no word.
MatchingRows(s) ==
    {c \in Chunk : /\ Found(c[1], search[s].ctx)
                   /\ c[2] <= documents[c[1]].rows
                   /\ Selected(s, c[1])
                   /\ c[2] \in search[s].query.selected[call[c[1]].content]}

\* The first k members of S in a descending order by score, for each way of
\* ordering equal scores.
Best(S, k, score(_)) ==
    {B \in SUBSET S : /\ Cardinality(B) = Min({k, Cardinality(S)})
                      /\ \A b \in B, c \in S \ B : score(b) >= score(c)}

\* The statement has a LIMIT and no ORDER BY: any rows up to the limit, those
\* without a word among them.
Fetched(s) ==
    LET rows == MatchingRows(s)
    IN kSubset(Min({3 * search[s].query.top_k, Cardinality(rows)}), rows)

\* _lexical_search: the best of the rows fetched, without those that contain no
\* word.
LexicalHits(s) ==
    UNION {Best({c \in rows : Matches(s, c) > 0}, search[s].query.top_k, LAMBDA c : Matches(s, c)) :
              rows \in Fetched(s)}

\* Mutant: a chunk both reads have found keeps its vector score.
RankOfFirstFound(s, lexical, c) ==
    IF c \in lexical /\ c \notin search[s].hits THEN 2 * Matches(s, c) ELSE 0

\* The order of the merged hits.  A lexical score, 1 plus a share of the
\* words, is above every cosine, so it replaces the vector score of its chunk
\* and goes before every chunk found by vector only; between equal lexical
\* scores the sort is stable, and chunks that Qdrant found were there first.
Rank(s, lexical, c) ==
    IF c \in lexical
    THEN 2 * Matches(s, c) + (IF c \in search[s].hits THEN 1 ELSE 0)
    ELSE 0

Merged(s, lexical) ==
    Best(search[s].hits \union lexical, search[s].query.top_k,
         LAMBDA c : Rank(s, lexical, c))

-----------------------------------------------------------------------------
(* The search.                                                             *)

\* Documents whose ingest, synchronous or by a worker, has returned with all
\* their chunks.
Ingested == {d \in Op : Live(d) /\ pc[d] = "returned" /\ documents[d].rows = NChunks}

CallSearch(s) ==
    /\ search[s].place = "idle"
    /\ \E ctx \in Context, q \in Query, d \in Known \union {NoRow} :
          search' = [search EXCEPT ![s] = [NoSearch EXCEPT !.place = "vectors", !.ctx = ctx,
                                              !.document = d, !.query = q,
                                              !.ready = Ingested, !.gone = deleted]]

\* query_points: the limit cuts by similarity, which is left open.  The search
\* raises when embed_query does, or when there is no collection.
VectorSearch(s) ==
    /\ search[s].place = "vectors"
    /\ \/ /\ collection
          /\ LET found == MatchingPoints(s)
             IN \E hits \in kSubset(Min({search[s].query.top_k, Cardinality(found)}), found) :
                   search' = [search EXCEPT ![s].hits = hits, ![s].place = "rows"]
       \/ /\ ~collection \/ Faults \intersect {"embedding", "vectors"} # {}
          /\ search' = [search EXCEPT ![s].place = "raised"]

\* _lexical_search, one statement, and the merge of its hits with those that
\* were read before.
LexicalSearch(s) ==
    /\ search[s].place = "rows"
    /\ \E lexical \in LexicalHits(s) : \E answer \in Merged(s, lexical) :
          search' = [search EXCEPT ![s].answer = answer, ![s].place = "answered"]

SearchStep(s) == CallSearch(s) \/ VectorSearch(s) \/ LexicalSearch(s)

\* A call that may still write points of d.
WritesPointsOf(o, d) ==
    /\ pc[o] \in Active
    /\ o = d \/ (call[o].kind = "reindex" /\ call[o].document = d)

\* Documents being deleted, their points already gone, with such a call.
Racing == {d \in Op : \E o, p \in Op : /\ pc[o] = "dcommit" /\ call[o].document = d
                                       /\ WritesPointsOf(p, d)}

SearchNext ==
    \/ Next /\ raced' = raced \union Racing /\ UNCHANGED search
    \/ (\E s \in Search : SearchStep(s)) /\ UNCHANGED <<vars, raced>>

SearchSpec == SearchInit /\ [][SearchNext]_searchVars

-----------------------------------------------------------------------------
(* Properties.                                                             *)

\* Every variable has its type.
SearchTypeOK ==
    /\ search \in [Search -> [place: {"idle", "vectors", "rows", "answered", "raised"},
                              ctx: Context, document: Op \union {NoRow},
                              query: Query \union {NoRow}, hits: SUBSET Chunk,
                              answer: SUBSET Chunk, ready: SUBSET Op, gone: SUBSET Op]]
    /\ raced \subseteq Op

Answered(s) == search[s].place = "answered"

\* The tenant and scope a caller asked a document to be stored in.
RequestedContext(d) == IF call[d].kind = "worker" THEN jobs[d].ctx ELSE call[d].ctx

\* app/mcp/tools.py: a search never leaves its tenant and scope.  Whatever it
\* finds, in PostgreSQL or left over in Qdrant, was put there by a caller who
\* named that tenant and scope, although the payload a worker builds does not.
AnswersStayInContext ==
    \A s \in Search : Answered(s) =>
        \A c \in search[s].answer : RequestedContext(c[1]) = search[s].ctx

\* Nothing is found that was not committed before: an ingest that raises, is
\* interrupted or loses the race for the unique key leaves no text in answers.
AnswersWereStored ==
    \A s \in Search : Answered(s) => \A c \in search[s].answer : c[1] \in Known

\* A call that rewrites or removes what document d has in Qdrant.
Disturbed(d) == \E o \in Op : call[o].kind \in {"reindex", "delete"} /\ call[o].document = d

\* Read your writes.  An answer with room left has every chunk of every
\* document whose ingest returned before the search began, words in common
\* with the query or not, as long as no reindex or delete of it was called.
\* Duplicates, failures and crashes of other calls do not take it away.
IngestedIsFound ==
    \A s \in Search : Answered(s) /\ Cardinality(search[s].answer) < search[s].query.top_k =>
        \A d \in search[s].ready :
            \/ Disturbed(d) \/ RequestedContext(d) # search[s].ctx \/ ~Selected(s, d)
            \/ {d} \X (1..NChunks) \subseteq search[s].answer

\* A document that was deleted before the search began is found only if
\* another call could still write its points while the delete was between
\* Qdrant and PostgreSQL; a delete that no writer overlaps is final.
DeletedIsNotFound ==
    \A s \in Search : Answered(s) =>
        \A c \in search[s].answer : c[1] \in search[s].gone => c[1] \in raced

\* docs/http-api.md: exact terms surface when the vectors miss them.  A stored
\* chunk with every word of the query is answered whatever Qdrant returned,
\* stale points included, unless the answer is full of such chunks, or the
\* statement selects more rows than it fetches: rows with fewer of the words,
\* or with none of them, then take its place.
ExactTermsSurface ==
    [][\A s \in Search : search[s].place = "rows" /\ Answered(s)' =>
          \A c \in MatchingRows(s) :
             \/ c \in search'[s].answer
             \/ Matches(s, c) < search[s].query.words
             \/ Cardinality(MatchingRows(s)) > 3 * search[s].query.top_k
             \/ /\ Cardinality(search'[s].answer) = search[s].query.top_k
                /\ \A b \in search'[s].answer :
                      b \in MatchingRows(s) /\ Matches(s, b) = search[s].query.words]_searchVars
=============================================================================
