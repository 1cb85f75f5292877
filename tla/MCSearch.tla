------------------------------ MODULE MCSearch ------------------------------
(* Search for TLC: the calls are interchangeable.                          *)
EXTENDS Search, TLC

CallSymmetry == Permutations(Op)

MCSourceOf == [c \in Content |-> "manual"]

\* The number of words in the first chunk, in the last, and in the others.
WordsInChunks(first, others, last) ==
    [c \in Content |-> [i \in 1..NChunks |-> IF i = 1 THEN first
                                             ELSE IF i = NChunks THEN last ELSE others]]

EveryChunk == [c \in Content |-> 1..NChunks]
NoChunk == [c \in Content |-> {}]

\* Three queries.  The first has two words, both only in the last chunk, and
\* room for two hits: all rows of a document are fetched, and the first one is
\* dropped.  The second has one word, with an underscore: only the last chunk
\* contains it, all are selected, and that is a row more than are fetched.  The
\* third has no words and room for more hits than a document has chunks, and
\* names the source.
MCQuery ==
    {[words |-> 2, top_k |-> 2, source |-> NoRow,
      matches |-> WordsInChunks(0, 1, 2), selected |-> EveryChunk],
     [words |-> 1, top_k |-> 1, source |-> NoRow,
      matches |-> WordsInChunks(0, 0, 1), selected |-> EveryChunk],
     [words |-> 0, top_k |-> NChunks + 1, source |-> "manual",
      matches |-> WordsInChunks(0, 0, 0), selected |-> NoChunk]}
=============================================================================
