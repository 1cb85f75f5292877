--------------------------- MODULE ChunkingProofs ---------------------------
(***************************************************************************)
(* The chunks of every text, for every size of at least 3 and every        *)
(* overlap: nothing is lost, nothing is empty or too long, neighbours      *)
(* advance, and the loop makes progress in every iteration.                *)
(***************************************************************************)
EXTENDS Chunking, TLAPS

\* The window begins at a letter, or the text is finished.
StartsAtLetter == start < text.length => start \notin text.spaces

\* What lies before the window has been put into chunks.
CoversBefore == ~done => \A p \in 0..MaxText : Letter(p) /\ p < start => Covered(p)

\* How the last chunk lies to the window that comes next.
LastChunkBehind ==
    ~done => \A i \in DOMAIN chunks : i = Len(chunks) =>
                /\ chunks[i].from < start
                /\ chunks[i].to <= start + overlap
                /\ chunks[i].to < text.length

ChInv ==
    /\ TypeOK
    /\ StartsAtLetter
    /\ CoversBefore
    /\ LastChunkBehind
    /\ CoversText
    /\ ChunksFit
    /\ NeighboursAdvance

\* A window is longer than the overlap unless the text ends in it, no longer
\* than the size, and its last character is a letter: strip removes nothing.
LEMMA WindowBounds ==
    ASSUME TypeOK, StartsAtLetter, start < text.length, NEW e \in start..text.length, IsEnd(e)
    PROVE  /\ start < e
           /\ e < text.length => start + overlap < e
           /\ e <= start + size
           /\ e - 1 \notin text.spaces
<1>1. /\ size \in Nat /\ size > 2 /\ overlap \in Nat /\ overlap <= size \div 2
      /\ start \in Nat /\ text.length \in Nat
      /\ start + size \div 2 < start + size - 1
  BY SizesAssumption, MaxTextAssumption DEF TypeOK, Text
<1>2. /\ \A p \in text.spaces : 0 < p /\ p + 1 < text.length
      /\ \A p \in text.spaces : p \in Nat /\ p + 1 \notin text.spaces
  BY MaxTextAssumption DEF TypeOK, Text, Normalized
<1>3. HardEnd \in Nat /\ HardEnd <= start + size /\ HardEnd <= text.length /\ start < HardEnd
  BY <1>1 DEF HardEnd
<1>4. CASE e \in text.spaces /\ IsSplit(e)
  <2>1. e - 1 \notin text.spaces
    BY <1>2, <1>4
  <2> QED
    BY <2>1, <1>1, <1>3, <1>4 DEF IsSplit
<1>5. CASE e = HardEnd /\ HardEnd = text.length
  <2>1. e - 1 \notin text.spaces
    BY <1>1, <1>2, <1>3, <1>5
  <2> QED
    BY <2>1, <1>1, <1>3, <1>5
<1>6. CASE e = HardEnd /\ HardEnd < text.length /\ \A p \in text.spaces : ~IsSplit(p)
  <2>1. e = start + size
    BY <1>1, <1>6 DEF HardEnd
  <2>2. e - 1 \notin text.spaces
    BY <1>1, <1>6, <2>1 DEF IsSplit
  <2> QED
    BY <2>1, <2>2, <1>1, <1>6
<1> QED
  BY <1>1, <1>3, <1>4, <1>5, <1>6 DEF IsEnd, IsSplit

LEMMA ChInit == Init => ChInv
<1> SUFFICES ASSUME Init PROVE ChInv
  OBVIOUS
<1>1. overlap \in Nat /\ overlap <= size \div 2 /\ size \in Nat
  <2>1. PICK o \in Overlaps : overlap = ClampedOverlap(o, size)
    BY DEF Init
  <2>2. o \in Nat /\ size \in Nat /\ size \div 2 \in Nat
    BY SizesAssumption, OverlapsAssumption DEF Init
  <2> QED
    BY <2>1, <2>2 DEF ClampedOverlap
<1>2. TypeOK
  <2>1. text \in Text /\ text.length \in Nat
    BY MaxTextAssumption DEF Init, Text
  <2>2. <<>> \in Seq(Interval)
    OBVIOUS
  <2>3. start \in 0..text.length
    BY <2>1 DEF Init
  <2> QED
    BY <1>1, <2>1, <2>2, <2>3 DEF Init, TypeOK
<1>3. StartsAtLetter
  BY MaxTextAssumption DEF Init, StartsAtLetter, Text, Normalized
<1>4. CoversBefore /\ LastChunkBehind /\ CoversText /\ ChunksFit /\ NeighboursAdvance
  BY MaxTextAssumption
  DEF Init, CoversBefore, LastChunkBehind, CoversText, ChunksFit, NeighboursAdvance, Letter
<1> QED
  BY <1>2, <1>3, <1>4 DEF ChInv

\* One iteration, with the values it chooses given names: the window [start, e)
\* is the next chunk.
LEMMA ChunkStep ==
    ASSUME ChInv, Chunk
    PROVE  ChInv' /\ (start < start' \/ done')
<1> USE MaxTextAssumption
<1>1. PICK e \in start..text.length :
        /\ IsEnd(e)
        /\ \E from, to \in start..e :
              LET c == [from |-> from, to |-> to]
              IN /\ IsStripped(c, start, e)
                 /\ chunks' = IF from < to THEN Append(chunks, c) ELSE chunks
        /\ IF e = text.length
           THEN done' = TRUE /\ UNCHANGED start
           ELSE done' = FALSE /\ \E s \in 0..text.length : IsSkipped(s, From(e)) /\ start' = s
  BY DEF Chunk
<1>2. ~done /\ start < text.length /\ UNCHANGED <<text, size, overlap>>
  BY DEF Chunk
<1>3. /\ size \in Nat /\ overlap \in Nat /\ start \in Nat /\ e \in Nat
      /\ text.length \in Nat /\ text.length <= MaxText /\ size \in Sizes
      /\ text \in Text /\ chunks \in Seq(Interval) /\ done \in BOOLEAN
      /\ overlap <= size \div 2
  BY SizesAssumption DEF ChInv, TypeOK, Text
<1>4. start < e /\ (e < text.length => start + overlap < e) /\ e <= start + size
      /\ e - 1 \notin text.spaces
  BY <1>1, <1>2, WindowBounds DEF ChInv
<1>5. start \notin text.spaces
  BY <1>2 DEF ChInv, StartsAtLetter
<1>6. chunks' = Append(chunks, [from |-> start, to |-> e])
  <2>1. PICK from \in start..e, to \in start..e :
           /\ IsStripped([from |-> from, to |-> to], start, e)
           /\ chunks' = IF from < to THEN Append(chunks, [from |-> from, to |-> to]) ELSE chunks
    BY <1>1
  <2>2. from = start /\ to = e
    BY <2>1, <1>3, <1>4, <1>5 DEF IsStripped
  <2> QED
    BY <2>1, <2>2, <1>4
<1> DEFINE last == [from |-> start, to |-> e]
<1>7. /\ last \in Interval
      /\ Len(chunks') = Len(chunks) + 1 /\ chunks' \in Seq(Interval)
      /\ DOMAIN chunks' = 1..Len(chunks') /\ DOMAIN chunks = 1..Len(chunks)
      /\ Len(chunks) \in Nat
      /\ \A i \in 1..Len(chunks) : chunks'[i] = chunks[i]
      /\ chunks'[Len(chunks) + 1] = last
  BY <1>3, <1>4, <1>6 DEF Interval
<1>8. \A p : Covered(p) => Covered(p)'
  BY <1>7 DEF Covered
<1>9. \A p \in start..(e - 1) : Covered(p)'
  BY <1>3, <1>4, <1>7 DEF Covered
<1>10. ASSUME e # text.length
       PROVE  /\ start' \in 0..text.length /\ start < start' /\ done' = FALSE
              /\ e <= start' + overlap
              /\ \A p \in 0..MaxText : p < start' => p < e \/ p \in text.spaces
              /\ start' < text.length => start' \notin text.spaces
  <2>1. PICK s \in 0..text.length : IsSkipped(s, From(e)) /\ start' = s
    BY <1>1, <1>10
  <2>2. From(e) \in Nat /\ From(e) <= e /\ e <= From(e) + overlap /\ start < From(e)
    BY <1>3, <1>4, <1>10 DEF From
  <2> QED
    BY <2>1, <2>2, <1>1, <1>3, <1>10 DEF IsSkipped
<1>11. e = text.length => done' = TRUE /\ start' = start
  BY <1>1
<1>12. TypeOK'
  BY <1>1, <1>2, <1>3, <1>7, <1>10, <1>11 DEF TypeOK, ChInv
<1>13. StartsAtLetter'
  BY <1>2, <1>5, <1>10, <1>11 DEF StartsAtLetter
<1>14. \A p \in 0..MaxText : Letter(p) /\ p < e => Covered(p)'
  <2> TAKE p \in 0..MaxText
  <2>1. CASE p < start
    BY <2>1, <1>2, <1>8 DEF ChInv, CoversBefore
  <2>2. CASE start <= p /\ p < e
    BY <2>2, <1>3, <1>9
  <2> QED
    BY <2>1, <2>2, <1>3
<1>15. \A p : Letter(p)' <=> Letter(p)
  BY <1>2 DEF Letter
<1>16. CoversBefore'
  BY <1>3, <1>10, <1>11, <1>14, <1>15 DEF CoversBefore, Letter
<1>17. CoversText'
  BY <1>3, <1>10, <1>11, <1>14, <1>15 DEF CoversText, Letter
<1>18. LastChunkBehind'
  <2> SUFFICES ASSUME done' = FALSE
               PROVE  /\ chunks'[Len(chunks')].from < start'
                      /\ chunks'[Len(chunks')].to <= start' + overlap
                      /\ chunks'[Len(chunks')].to < text.length
    BY <1>1, <1>2, <1>11 DEF LastChunkBehind
  <2>1. e # text.length /\ e < text.length
    BY <1>1, <1>3
  <2>2. chunks'[Len(chunks')].from = start /\ chunks'[Len(chunks')].to = e
    BY <1>7
  <2> QED
    BY <2>1, <2>2, <1>3, <1>10
<1>19. ChunksFit'
  <2>1. Letter(start) /\ Letter(e - 1)
    BY <1>3, <1>4, <1>5 DEF Letter
  <2> QED
    BY <2>1, <1>2, <1>3, <1>4, <1>7, <1>15 DEF ChInv, ChunksFit
<1>20. NeighboursAdvance'
  <2> SUFFICES ASSUME NEW i \in 1..Len(chunks'), NEW j \in 1..Len(chunks'), j = i + 1
               PROVE  /\ chunks'[i].from < chunks'[j].from
                      /\ chunks'[i].to < chunks'[j].to
                      /\ chunks'[i].to <= chunks'[j].from + overlap
    BY <1>2, <1>7 DEF NeighboursAdvance
  <2>1. CASE j <= Len(chunks)
    <3>1. i \in DOMAIN chunks /\ j \in DOMAIN chunks
      BY <2>1, <1>7
    <3>2. chunks'[i] = chunks[i] /\ chunks'[j] = chunks[j]
      BY <3>1, <1>7
    <3> QED
      BY <3>1, <3>2 DEF ChInv, NeighboursAdvance
  <2>2. CASE j = Len(chunks) + 1
    <3>1. /\ chunks[i].from < start /\ chunks[i].to <= start + overlap
          /\ chunks[i].to < text.length /\ chunks[i] \in Interval
      BY <2>2, <1>2, <1>3, <1>7 DEF ChInv, LastChunkBehind
    <3>2. /\ chunks'[j].from = start /\ chunks'[j].to = e
          /\ chunks'[i] = chunks[i]
      BY <2>2, <1>7
    <3>3. chunks[i].to \in Nat /\ e <= text.length
      BY <3>1, <1>3 DEF Interval
    <3> QED
      BY <3>1, <3>2, <3>3, <1>3, <1>4
  <2> QED
    BY <2>1, <2>2, <1>7
<1> QED
  BY <1>10, <1>11, <1>12, <1>13, <1>16, <1>17, <1>18, <1>19, <1>20 DEF ChInv

LEMMA ChNext == ASSUME ChInv, [Next]_vars PROVE ChInv' /\ (start < start' \/ done' \/ UNCHANGED vars)
<1>1. CASE Chunk
  BY <1>1, ChunkStep
<1>2. CASE Exhausted
  <2>1. text \in Text /\ text.length \in Nat /\ text.length <= start /\ start \in Nat
    BY <1>2, MaxTextAssumption DEF ChInv, TypeOK, Exhausted, Text
  <2>2. TypeOK' /\ StartsAtLetter' /\ ChunksFit' /\ NeighboursAdvance'
    BY <1>2 DEF ChInv, Exhausted, TypeOK, StartsAtLetter, ChunksFit, NeighboursAdvance, Letter
  <2>3. CoversBefore' /\ LastChunkBehind'
    BY <1>2 DEF Exhausted, CoversBefore, LastChunkBehind
  <2>4. CoversText'
    BY <1>2, <2>1 DEF ChInv, Exhausted, CoversBefore, CoversText, Letter, Covered
  <2> QED
    BY <1>2, <2>2, <2>3, <2>4 DEF ChInv, Exhausted
<1>3. CASE Returned \/ UNCHANGED vars
  BY <1>3 DEF ChInv, Returned, vars, TypeOK, StartsAtLetter, CoversBefore, LastChunkBehind,
     CoversText, ChunksFit, NeighboursAdvance, Letter, Covered
<1> QED
  BY <1>1, <1>2, <1>3 DEF Next

THEOREM ChInvariant == Spec => []ChInv
<1>1. Init => ChInv
  BY ChInit
<1>2. ChInv /\ [Next]_vars => ChInv'
  BY ChNext
<1> QED
  BY <1>1, <1>2, PTL DEF Spec

\* Every variable has its type: the window stays inside the text, and the
\* overlap at most half of the size.
THEOREM ChunkTypes == Spec => []TypeOK
<1>1. ChInv => TypeOK
  BY DEF ChInv
<1> QED
  BY <1>1, ChInvariant, PTL

\* No character that is not a space is lost, for every text, size and overlap.
THEOREM ChunksCoverText == Spec => []CoversText
<1>1. ChInv => CoversText
  BY DEF ChInv
<1> QED
  BY <1>1, ChInvariant, PTL

\* Every chunk has content and is at most size characters long.
THEOREM ChunksAreBounded == Spec => []ChunksFit
<1>1. ChInv => ChunksFit
  BY DEF ChInv
<1> QED
  BY <1>1, ChInvariant, PTL

\* Neighbouring chunks overlap by at most the overlap, and each adds text.
THEOREM ChunksAdvance == Spec => []NeighboursAdvance
<1>1. ChInv => NeighboursAdvance
  BY DEF ChInv
<1> QED
  BY <1>1, ChInvariant, PTL

\* Every iteration moves the window forward or ends the loop, so the loop ends
\* after at most as many iterations as the text has characters.
THEOREM LoopMakesProgress == Spec => LoopAdvances
<1>1. ChInv /\ [Next]_vars => [start < start' \/ done']_vars
  BY ChNext
<1> QED
  BY <1>1, ChInvariant, PTL DEF Spec, LoopAdvances
=============================================================================
