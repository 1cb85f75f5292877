------------------------------ MODULE Chunking ------------------------------
(***************************************************************************)
(* ChunkingService.chunk (app/services/chunking.py): the text is cut into  *)
(* windows of at most size characters, at a space when there is one in the *)
(* second half of the window, and consecutive windows overlap.             *)
(*                                                                         *)
(* A text is known by its length and the positions of its spaces: that is  *)
(* all the loop looks at.  One step is one iteration of the loop.  A chunk *)
(* is the interval of positions [from, to) that its content occupies.      *)
(***************************************************************************)
EXTENDS Naturals, Sequences

CONSTANTS
    MaxText,   \* bound on the length of a text
    Sizes,     \* the values of CHUNK_SIZE
    Overlaps   \* the values of CHUNK_OVERLAP

\* The settings require CHUNK_SIZE >= 200; that it is at least 3 is enough.
ASSUME SizesAssumption == Sizes \subseteq Nat \ {0, 1, 2}
ASSUME OverlapsAssumption == Overlaps \subseteq Nat
ASSUME MaxTextAssumption == MaxText \in Nat

VARIABLES
    text,      \* the normalized text
    size,      \* self.chunk_size
    overlap,   \* self.chunk_overlap
    start,     \* where the next window begins
    chunks,    \* the chunks made so far
    done       \* the loop has ended

vars == <<text, size, overlap, start, chunks, done>>

\* Every run of white space is one space, and none is at either end.
Normalized(t) ==
    /\ \A p \in t.spaces : 0 < p /\ p + 1 < t.length
    /\ \A p \in t.spaces : p + 1 \notin t.spaces

Text == {t \in [length: 0..MaxText, spaces: SUBSET (0..MaxText)] : Normalized(t)}

\* Mutant: the overlap is not limited to half of the size.
GivenOverlap(o, s) == o

ClampedOverlap(o, s) == IF o < s \div 2 THEN o ELSE s \div 2

Init ==
    /\ text \in Text
    /\ size \in Sizes
    /\ \E o \in Overlaps : overlap = ClampedOverlap(o, size)
    /\ start = 0
    /\ chunks = <<>>
    /\ done = FALSE

\* Mutant: the window has one character too many.
HardEndInclusive == IF start + size < text.length THEN start + size + 1 ELSE text.length

\* The end of a window that is not cut at a space.
HardEnd == IF start + size < text.length THEN start + size ELSE text.length

\* Mutant: a space at the very beginning of the window is accepted too.
IsSplitAnywhere(p) == p \in text.spaces /\ start <= p /\ p < HardEnd

\* A space in the second half of the window.
IsSplit(p) == p \in text.spaces /\ start + size \div 2 < p /\ p < HardEnd

\* The window ends at the last such space, unless the text ends in it.
IsEnd(e) ==
    \/ e = HardEnd /\ (HardEnd = text.length \/ \A p \in text.spaces : ~IsSplit(p))
    \/ HardEnd < text.length /\ IsSplit(e) /\ \A p \in text.spaces : IsSplit(p) => p <= e

\* c is the window [s, e) without the spaces at its ends.
IsStripped(c, s, e) ==
    /\ s <= c.from /\ c.from <= c.to /\ c.to <= e
    /\ \A p \in s..e : p < c.from \/ (c.to <= p /\ p < e) => p \in text.spaces
    /\ c.from < c.to => c.from \notin text.spaces /\ c.to - 1 \notin text.spaces

\* Mutant: the next window begins after the end of this one.
FromAfter(e) == e + 1

\* The next window goes back by the overlap.
From(e) == IF e > overlap THEN e - overlap ELSE 0

\* s is the first position from f on that is not a space.
IsSkipped(s, f) ==
    /\ f <= s
    /\ \A p \in f..s : p < s => p \in text.spaces
    /\ s < text.length => s \notin text.spaces

Chunk ==
    /\ ~done
    /\ start < text.length
    /\ \E e \in start..text.length :
          /\ IsEnd(e)
          /\ \E from, to \in start..e :
                LET c == [from |-> from, to |-> to]
                IN /\ IsStripped(c, start, e)
                   /\ chunks' = IF from < to THEN Append(chunks, c) ELSE chunks
          /\ IF e = text.length
             THEN done' = TRUE /\ UNCHANGED start
             ELSE done' = FALSE /\ \E s \in 0..text.length : IsSkipped(s, From(e)) /\ start' = s
    /\ UNCHANGED <<text, size, overlap>>

\* The loop condition fails: a text without characters.
Exhausted ==
    /\ ~done
    /\ start >= text.length
    /\ done' = TRUE
    /\ UNCHANGED <<text, size, overlap, start, chunks>>

\* The list of chunks has been returned.
Returned == done /\ UNCHANGED vars

Next == Chunk \/ Exhausted \/ Returned

Spec == Init /\ [][Next]_vars

-----------------------------------------------------------------------------
(* Properties.                                                             *)

Interval == [from: 0..MaxText, to: 0..MaxText]

\* Every variable has its type.
TypeOK ==
    /\ text \in Text
    /\ size \in Sizes
    /\ overlap \in Nat /\ overlap <= size \div 2
    /\ start \in 0..text.length
    /\ chunks \in Seq(Interval)
    /\ done \in BOOLEAN

Letter(p) == p \in 0..(text.length - 1) /\ p \notin text.spaces

Covered(p) == \E i \in DOMAIN chunks : chunks[i].from <= p /\ p < chunks[i].to

\* Nothing of the text is lost: when the loop ends, every character that is
\* not a space is in some chunk, whatever the sizes and the place of the cuts.
\* In particular only a blank text has no chunks.
CoversText == done => \A p \in 0..MaxText : Letter(p) => Covered(p)

\* Every chunk has content, of at most the configured size, with no space at
\* its ends: char_count is the length of what is embedded.
ChunksFit ==
    \A i \in DOMAIN chunks :
        /\ chunks[i].from < chunks[i].to
        /\ chunks[i].to <= chunks[i].from + size
        /\ Letter(chunks[i].from) /\ Letter(chunks[i].to - 1)

\* Neighbouring chunks share at most the overlap, and each adds text to the
\* one before it: no chunk lies within its predecessor.
NeighboursAdvance ==
    \A i, j \in DOMAIN chunks : j = i + 1 =>
        /\ chunks[i].from < chunks[j].from
        /\ chunks[i].to < chunks[j].to
        /\ chunks[i].to <= chunks[j].from + overlap

\* Every iteration moves the window forward or ends the loop: going back by
\* the overlap and cutting at a space never bring it back to where it was.
LoopAdvances == [][start < start' \/ done']_vars
=============================================================================
