------------------------ MODULE PdfExtractionProofs ------------------------
(***************************************************************************)
(* The safety properties of PdfExtraction for files of any length, any     *)
(* thresholds, any number of extractions and scanner threads, and any set  *)
(* of faults.                                                              *)
(*                                                                         *)
(* The invariant says that a response is what the scanner makes of the     *)
(* pages of the file, and a result what the extraction makes of both.  The *)
(* rest is about lists: what a selection keeps, in which order, and where  *)
(* the parts of the sidecar text go.  A selection is defined by recursion, *)
(* and its lemmas by induction on prefixes.                                *)
(***************************************************************************)
EXTENDS PdfExtraction, TLAPS, WellFoundedInduction

-----------------------------------------------------------------------------
(* The invariant.                                                          *)

\* The response for a text of the scanner.
Response(document, text) ==
    [text |-> text, pageTexts |-> SplitSidecarText(text, OcrPages(document))]

\* The texts that the scanner may answer with for a file.
ScannerTexts(document) == Recognised(document, OcrPages(document)) \union {<<>>}

\* A response is none, or the scanner's for the file, if that has pages for it.
Answered(document, response) ==
    \/ response = NoResponse
    \/ /\ OcrPages(document) # <<>>
       /\ \E text \in ScannerTexts(document) : response = Response(document, text)

ResponseInv(e) ==
    /\ Answered(e.document, e.response)
    /\ e.place = "idle" => e.response = NoResponse
    /\ e.place \in {"ocr", "waiting"} => OcrPages(e.document) # <<>>

\* A result is that of the file and the response.
ResultInv(e) ==
    e.result = IF e.place = "done" THEN ExtractionResult(e.document, e.response) ELSE NoResult

PdfInv == TypeOK /\ \A j \in Job : ResponseInv(extraction[j]) /\ ResultInv(extraction[j])

-----------------------------------------------------------------------------
(* Induction, for sets of numbers.                                         *)

\* The least element of a set of numbers.
LEMMA Least == ASSUME NEW C \in SUBSET Nat, C # {} PROVE \E n \in C : \A m \in C : n <= m
<1> DEFINE R == OpToRel(<, Nat)
<1>1. \E x \in C : \A y \in C : ~ (<<y, x>> \in R)
  BY NatLessThanWellFounded, WFMin
<1>2. \A x, y \in Nat : x < y => <<x, y>> \in R
  BY DEF OpToRel
<1> HIDE DEF R
<1>3. PICK x \in C : \A y \in C : ~ (<<y, x>> \in R)
  BY <1>1
<1>4. ASSUME NEW y \in C PROVE x <= y
  <2>1. ~(y < x)
    BY <1>2, <1>3
  <2> QED
    BY <2>1
<1> QED
  BY <1>4

\* A set with zero that is closed under successor has every number.
LEMMA Induction ==
    ASSUME NEW S, 0 \in S, \A n \in Nat : n \in S => n + 1 \in S PROVE Nat \subseteq S
<1> DEFINE C == Nat \ S
<1>1. ASSUME C # {} PROVE FALSE
  <2>1. PICK n \in C : \A m \in C : n <= m
    BY <1>1, Least
  <2>2. n # 0 /\ n \in Nat /\ n \notin S
    OBVIOUS
  <2>3. n - 1 \in Nat /\ n - 1 \notin C
    BY <2>1, <2>2
  <2> QED
    BY <2>2, <2>3
<1> QED
  BY <1>1

-----------------------------------------------------------------------------
(* Selections.                                                             *)

\* The selection from the prefix of length i, from that of the one before.
Selected(f, s, S, i) ==
    IF i = 0 THEN <<>> ELSE IF s[i] \in S THEN Append(f[i - 1], s[i]) ELSE f[i - 1]

\* f holds the selections from the prefixes of s.
Prefixes(f, s, S) == DOMAIN f = 0..Len(s) /\ \A i \in 0..Len(s) : f[i] = Selected(f, s, S, i)

\* The recursion in Select defines a function.
LEMMA SelectUnfolds ==
    ASSUME NEW T, NEW s \in Seq(T), NEW S
    PROVE  \E f : Prefixes(f, s, S) /\ Select(s, S) = f[Len(s)]
<1> DEFINE Rec(f, n) == f = [i \in 0..n |-> Selected(f, s, S, i)]
           Good == {n \in Nat : n <= Len(s) => \E f : Rec(f, n)}
<1>0. Len(s) \in Nat
  OBVIOUS
<1>1. 0 \in Good
  <2> DEFINE f == [i \in 0..0 |-> <<>>]
  <2>1. \A i \in 0..0 : Selected(f, s, S, i) = <<>>
    BY DEF Selected
  <2>2. Rec(f, 0)
    BY <2>1
  <2> QED
    BY <2>2
<1>2. ASSUME NEW n \in Nat, n \in Good PROVE n + 1 \in Good
  <2> SUFFICES ASSUME n + 1 <= Len(s) PROVE \E f : Rec(f, n + 1)
    OBVIOUS
  <2>0. n <= Len(s)
    BY <1>0
  <2>1. PICK f : Rec(f, n)
    <3> HIDE DEF Rec
    <3> QED
      BY <1>2, <2>0
  <2> DEFINE g == [i \in 0..(n + 1) |->
                     IF i <= n THEN f[i]
                     ELSE IF s[n + 1] \in S THEN Append(f[n], s[n + 1]) ELSE f[n]]
  <2>2. ASSUME NEW i \in 0..(n + 1) PROVE g[i] = Selected(g, s, S, i)
    <3>1. CASE i \in 0..n
      <4>1. g[i] = f[i] /\ (i # 0 => g[i - 1] = f[i - 1])
        BY <3>1
      <4>2. f[i] = Selected(f, s, S, i)
        BY <2>1, <3>1
      <4> HIDE DEF g
      <4> QED
        BY <4>1, <4>2 DEF Selected
    <3>2. CASE i = n + 1
      BY <3>2 DEF Selected
    <3> QED
      BY <3>1, <3>2
  <2>3. DOMAIN g = 0..(n + 1) /\ g = [i \in 0..(n + 1) |-> g[i]]
    OBVIOUS
  <2>4. Rec(g, n + 1)
    <3> HIDE DEF g
    <3> QED
      BY <2>2, <2>3
  <2> HIDE DEF g, Rec
  <2> QED
    BY <2>4
<1>3. Len(s) \in Good
  <2> HIDE DEF Good
  <2> QED
    BY <1>0, <1>1, <1>2, Induction
<1>4. \E f : Rec(f, Len(s))
  <2> HIDE DEF Rec
  <2> QED
    BY <1>0, <1>3
<1> DEFINE f == CHOOSE f : Rec(f, Len(s))
<1>5. Rec(f, Len(s))
  <2> HIDE DEF Rec
  <2> QED
    BY <1>4
<1>6. Select(s, S) = f[Len(s)]
  BY DEF Select, Selected
<1>7. Prefixes(f, s, S)
  <2> HIDE DEF f
  <2> QED
    BY <1>5 DEF Prefixes
<1> QED
  BY <1>6, <1>7

\* The prefixes one by one.
LEMMA PrefixSteps ==
    ASSUME NEW T, NEW s \in Seq(T), NEW S, NEW f, Prefixes(f, s, S)
    PROVE  /\ f[0] = <<>>
           /\ \A n \in Nat : n + 1 <= Len(s) =>
                 f[n + 1] = IF s[n + 1] \in S THEN Append(f[n], s[n + 1]) ELSE f[n]
<1>0. Len(s) \in Nat
  OBVIOUS
<1>1. \A i \in 0..Len(s) : f[i] = Selected(f, s, S, i)
  BY DEF Prefixes
<1>2. f[0] = <<>>
  <2>1. 0 \in 0..Len(s)
    BY <1>0
  <2>2. f[0] = Selected(f, s, S, 0)
    BY <1>1, <2>1
  <2> QED
    BY <2>2 DEF Selected
<1>3. ASSUME NEW n \in Nat, n + 1 <= Len(s)
      PROVE  f[n + 1] = IF s[n + 1] \in S THEN Append(f[n], s[n + 1]) ELSE f[n]
  <2>1. n + 1 \in 0..Len(s) /\ n + 1 # 0 /\ (n + 1) - 1 = n
    BY <1>0, <1>3
  <2>2. f[n + 1] = Selected(f, s, S, n + 1)
    BY <1>1, <2>1
  <2> QED
    BY <2>1, <2>2 DEF Selected
<1> QED
  BY <1>2, <1>3

\* Selections are sequences of members that were selected, and not longer.
LEMMA PrefixesTyped ==
    ASSUME NEW T, NEW s \in Seq(T), NEW S, NEW f, Prefixes(f, s, S)
    PROVE  \A i \in 0..Len(s) : f[i] \in Seq(T \intersect S) /\ Len(f[i]) <= i
<1> DEFINE Good == {n \in Nat : n <= Len(s) => f[n] \in Seq(T \intersect S) /\ Len(f[n]) <= n}
<1>0. Len(s) \in Nat
  OBVIOUS
<1>1. 0 \in Good
  <2>1. f[0] = <<>>
    BY PrefixSteps
  <2>2. <<>> \in Seq(T \intersect S) /\ Len(<<>>) = 0
    OBVIOUS
  <2>3. f[0] \in Seq(T \intersect S) /\ Len(f[0]) <= 0
    BY <2>1, <2>2
  <2> QED
    BY <2>3
<1>2. ASSUME NEW n \in Nat, n \in Good PROVE n + 1 \in Good
  <2> SUFFICES ASSUME n + 1 <= Len(s)
               PROVE  f[n + 1] \in Seq(T \intersect S) /\ Len(f[n + 1]) <= n + 1
    OBVIOUS
  <2>1. f[n] \in Seq(T \intersect S) /\ Len(f[n]) <= n /\ Len(f[n]) \in Nat
    BY <1>0, <1>2
  <2>2. f[n + 1] = IF s[n + 1] \in S THEN Append(f[n], s[n + 1]) ELSE f[n]
    BY PrefixSteps
  <2>3. s[n + 1] \in T
    BY <1>0
  <2> QED
    BY <2>1, <2>2, <2>3
<1>3. Nat \subseteq Good
  <2> HIDE DEF Good
  <2> QED
    BY <1>1, <1>2, Induction
<1> QED
  BY <1>0, <1>3

\* What Select returns.
LEMMA SelectTyped ==
    ASSUME NEW T, NEW s \in Seq(T), NEW S
    PROVE  Select(s, S) \in Seq(T \intersect S) /\ Len(Select(s, S)) <= Len(s)
<1>1. PICK f : Prefixes(f, s, S) /\ Select(s, S) = f[Len(s)]
  BY SelectUnfolds
<1>2. Len(s) \in 0..Len(s)
  OBVIOUS
<1>3. \A i \in 0..Len(s) : f[i] \in Seq(T \intersect S) /\ Len(f[i]) <= i
  BY <1>1, PrefixesTyped
<1> QED
  BY <1>1, <1>2, <1>3

\* The selection from a longer sequence.
LEMMA SelectAppend ==
    ASSUME NEW T, NEW s \in Seq(T), NEW x \in T, NEW S
    PROVE  Select(Append(s, x), S) = IF x \in S THEN Append(Select(s, S), x) ELSE Select(s, S)
<1> DEFINE t == Append(s, x)
<1>0. Len(s) \in Nat /\ t \in Seq(T) /\ Len(t) = Len(s) + 1 /\ t[Len(s) + 1] = x
      /\ \A i \in 1..Len(s) : t[i] = s[i]
  OBVIOUS
<1> HIDE DEF t
<1>1. PICK f : Prefixes(f, s, S) /\ Select(s, S) = f[Len(s)]
  BY SelectUnfolds
<1>2. PICK g : Prefixes(g, t, S) /\ Select(t, S) = g[Len(t)]
  BY <1>0, SelectUnfolds
<1> DEFINE Good == {n \in Nat : n <= Len(s) => g[n] = f[n]}
<1>3. 0 \in Good
  BY <1>0, <1>1, <1>2 DEF Prefixes, Selected
<1>4. ASSUME NEW n \in Nat, n \in Good PROVE n + 1 \in Good
  <2> SUFFICES ASSUME n + 1 <= Len(s) PROVE g[n + 1] = f[n + 1]
    OBVIOUS
  <2>1. g[n] = f[n] /\ t[n + 1] = s[n + 1] /\ n + 1 \in 0..Len(s) /\ n + 1 \in 0..Len(t)
    BY <1>0, <1>4
  <2>2. f[n + 1] = Selected(f, s, S, n + 1) /\ g[n + 1] = Selected(g, t, S, n + 1)
    BY <1>1, <1>2, <2>1 DEF Prefixes
  <2> QED
    BY <2>1, <2>2 DEF Selected
<1>5. Nat \subseteq Good
  <2> HIDE DEF Good
  <2> QED
    BY <1>3, <1>4, Induction
<1>6. g[Len(s)] = f[Len(s)]
  BY <1>0, <1>5
<1>7. g[Len(t)] = Selected(g, t, S, Len(s) + 1)
  BY <1>0, <1>2 DEF Prefixes
<1>8. g[Len(t)] = IF x \in S THEN Append(g[Len(s)], x) ELSE g[Len(s)]
  BY <1>0, <1>7 DEF Selected
<1> QED
  BY <1>1, <1>2, <1>6, <1>8 DEF t

\* Two selections in turn are one.
LEMMA SelectTwice ==
    ASSUME NEW T, NEW s \in Seq(T), NEW S, NEW U
    PROVE  Select(Select(s, S), U) = Select(s, S \intersect U)
<1>0. Len(s) \in Nat
  OBVIOUS
<1>1. PICK f : Prefixes(f, s, S) /\ Select(s, S) = f[Len(s)]
  BY SelectUnfolds
<1>2. PICK g : Prefixes(g, s, S \intersect U) /\ Select(s, S \intersect U) = g[Len(s)]
  BY SelectUnfolds
<1> DEFINE Good == {n \in Nat : n <= Len(s) => Select(f[n], U) = g[n]}
<1>3. 0 \in Good
  <2>0. <<>> \in Seq(T) /\ Len(<<>>) = 0
    OBVIOUS
  <2>1. Select(<<>>, U) \in Seq(T \intersect U) /\ Len(Select(<<>>, U)) <= 0
    BY <2>0, SelectTyped
  <2>2. Select(<<>>, U) = <<>>
    BY <2>1
  <2>3. f[0] = <<>> /\ g[0] = <<>>
    BY <1>1, <1>2, PrefixSteps
  <2> QED
    BY <2>2, <2>3
<1>4. ASSUME NEW n \in Nat, n \in Good PROVE n + 1 \in Good
  <2> SUFFICES ASSUME n + 1 <= Len(s) PROVE Select(f[n + 1], U) = g[n + 1]
    OBVIOUS
  <2>1. Select(f[n], U) = g[n] /\ n + 1 \in 0..Len(s) /\ n \in 0..Len(s) /\ s[n + 1] \in T
    BY <1>0, <1>4
  <2>2. f[n] \in Seq(T)
    <3>1. f[n] \in Seq(T \intersect S)
      BY <1>1, <2>1, PrefixesTyped
    <3> QED
      BY <3>1
  <2>3. Select(Append(f[n], s[n + 1]), U)
        = IF s[n + 1] \in U THEN Append(Select(f[n], U), s[n + 1]) ELSE Select(f[n], U)
    <3>1. PICK x \in T : x = s[n + 1]
      BY <2>1
    <3>2. PICK p \in Seq(T) : p = f[n]
      BY <2>2
    <3>3. Select(Append(p, x), U) = IF x \in U THEN Append(Select(p, U), x) ELSE Select(p, U)
      BY SelectAppend
    <3> QED
      BY <3>1, <3>2, <3>3
  <2>4. f[n + 1] = IF s[n + 1] \in S THEN Append(f[n], s[n + 1]) ELSE f[n]
    BY <1>1, PrefixSteps
  <2>5. g[n + 1] = IF s[n + 1] \in S \intersect U THEN Append(g[n], s[n + 1]) ELSE g[n]
    BY <1>2, PrefixSteps
  <2> QED
    BY <2>1, <2>3, <2>4, <2>5
<1>5. Nat \subseteq Good
  <2> HIDE DEF Good
  <2> QED
    BY <1>3, <1>4, Induction
<1> QED
  BY <1>0, <1>1, <1>2, <1>5

\* The selection from a prefix is a prefix of the selection.
LEMMA PrefixesExtend ==
    ASSUME NEW T, NEW s \in Seq(T), NEW S, NEW f, Prefixes(f, s, S), NEW n \in 0..Len(s)
    PROVE  /\ Len(f[n]) <= Len(f[Len(s)])
           /\ \A i \in 1..Len(f[n]) : f[Len(s)][i] = f[n][i]
<1> DEFINE Good == {m \in Nat : n <= m /\ m <= Len(s) =>
                        /\ Len(f[n]) <= Len(f[m])
                        /\ \A i \in 1..Len(f[n]) : f[m][i] = f[n][i]}
<1>0. Len(s) \in Nat /\ n \in Nat
  OBVIOUS
<1>1. \A i \in 0..Len(s) : f[i] \in Seq(T) /\ Len(f[i]) \in Nat
  <2> SUFFICES ASSUME NEW i \in 0..Len(s) PROVE f[i] \in Seq(T) /\ Len(f[i]) \in Nat
    OBVIOUS
  <2>1. f[i] \in Seq(T \intersect S)
    BY PrefixesTyped
  <2> QED
    BY <2>1
<1>2. ASSUME NEW m \in Nat, m = n PROVE m \in Good
  <2>1. Len(f[n]) \in Nat
    BY <1>0, <1>1
  <2> QED
    BY <1>2, <2>1
<1>3. 0 \in Good
  <2>1. CASE n = 0
    <3> HIDE DEF Good
    <3> QED
      BY <1>2, <2>1
  <2>2. CASE n # 0
    BY <1>0, <2>2
  <2> QED
    BY <2>1, <2>2
<1>4. ASSUME NEW m \in Nat, m \in Good PROVE m + 1 \in Good
  <2>1. CASE m + 1 = n
    <3> HIDE DEF Good
    <3> QED
      BY <1>2, <2>1
  <2>2. CASE m + 1 # n
    <3> SUFFICES ASSUME n <= m + 1, m + 1 <= Len(s)
                 PROVE  /\ Len(f[n]) <= Len(f[m + 1])
                        /\ \A i \in 1..Len(f[n]) : f[m + 1][i] = f[n][i]
      OBVIOUS
    <3>1. n <= m /\ m <= Len(s)
      BY <1>0, <2>2
    <3>2. Len(f[n]) <= Len(f[m]) /\ \A i \in 1..Len(f[n]) : f[m][i] = f[n][i]
      BY <1>4, <3>1
    <3>3. f[m + 1] = IF s[m + 1] \in S THEN Append(f[m], s[m + 1]) ELSE f[m]
      BY PrefixSteps
    <3>4. f[m] \in Seq(T) /\ Len(f[m]) \in Nat /\ Len(f[n]) \in Nat /\ s[m + 1] \in T
      BY <1>0, <1>1, <3>1
    <3> QED
      BY <3>2, <3>3, <3>4
  <2> QED
    BY <2>1, <2>2
<1>5. Nat \subseteq Good
  <2> HIDE DEF Good
  <2> QED
    BY <1>3, <1>4, Induction
<1> QED
  BY <1>0, <1>5

\* A selection of ascending numbers is ascending.
LEMMA SelectAscends ==
    ASSUME NEW s \in Seq(Nat), NEW S, \A i \in 1..Len(s) : s[i] = i
    PROVE  \A i, j \in 1..Len(Select(s, S)) : i < j => Select(s, S)[i] < Select(s, S)[j]
<1>1. PICK f : Prefixes(f, s, S) /\ Select(s, S) = f[Len(s)]
  BY SelectUnfolds
<1>0. Len(s) \in Nat
  OBVIOUS
<1> DEFINE Good == {n \in Nat : n <= Len(s) =>
                        /\ \A i \in 1..Len(f[n]) : f[n][i] <= n
                        /\ \A i, j \in 1..Len(f[n]) : i < j => f[n][i] < f[n][j]}
<1>2. 0 \in Good
  <2>1. f[0] = <<>>
    BY <1>1, PrefixSteps
  <2>2. 1..Len(f[0]) = {}
    BY <2>1
  <2> QED
    BY <2>2
<1>3. ASSUME NEW n \in Nat, n \in Good PROVE n + 1 \in Good
  <2> SUFFICES ASSUME n + 1 <= Len(s)
               PROVE  /\ \A i \in 1..Len(f[n + 1]) : f[n + 1][i] <= n + 1
                      /\ \A i, j \in 1..Len(f[n + 1]) : i < j => f[n + 1][i] < f[n + 1][j]
    OBVIOUS
  <2>1. /\ \A i \in 1..Len(f[n]) : f[n][i] <= n
        /\ \A i, j \in 1..Len(f[n]) : i < j => f[n][i] < f[n][j]
    <3>1. n <= Len(s)
      BY <1>0
    <3> QED
      BY <1>3, <3>1
  <2>2. f[n + 1] = IF s[n + 1] \in S THEN Append(f[n], s[n + 1]) ELSE f[n]
    BY <1>1, PrefixSteps
  <2>3. s[n + 1] = n + 1
    BY <1>0
  <2>4. f[n] \in Seq(Nat)
    <3>1. n \in 0..Len(s)
      BY <1>0
    <3>2. f[n] \in Seq(Nat \intersect S)
      BY <1>1, <3>1, PrefixesTyped
    <3> QED
      BY <3>2
  <2>5. CASE s[n + 1] \notin S
    <3>1. f[n + 1] = f[n]
      BY <2>2, <2>5
    <3>2. \A i \in 1..Len(f[n]) : f[n][i] \in Nat /\ f[n][i] <= n + 1
      BY <2>1, <2>4
    <3> QED
      BY <2>1, <3>1, <3>2
  <2>6. CASE s[n + 1] \in S
    <3> DEFINE p == f[n]
    <3> DEFINE q == f[n + 1]
    <3>1. /\ Len(q) = Len(p) + 1 /\ q[Len(p) + 1] = n + 1
          /\ \A i \in 1..Len(p) : q[i] = p[i] /\ q[i] \in Nat
      BY <2>2, <2>3, <2>4, <2>6
    <3>2. Len(p) \in Nat
      BY <2>4
    <3>3. /\ \A i \in 1..Len(p) : p[i] <= n
          /\ \A i, j \in 1..Len(p) : i < j => p[i] < p[j]
      BY <2>1
    <3> HIDE DEF p, q
    <3>4. ASSUME NEW i \in 1..Len(q) PROVE q[i] <= n + 1
      <4>1. CASE i = Len(p) + 1
        BY <3>1, <4>1
      <4>2. CASE i # Len(p) + 1
        <5>1. i \in 1..Len(p)
          BY <3>1, <3>2, <4>2
        <5>2. q[i] \in Nat /\ q[i] <= n
          BY <3>1, <3>3, <5>1
        <5> QED
          BY <5>2
      <4> QED
        BY <4>1, <4>2
    <3>5. ASSUME NEW i \in 1..Len(q), NEW j \in 1..Len(q), i < j PROVE q[i] < q[j]
      <4>1. i \in 1..Len(p) /\ (j \in 1..Len(p) \/ j = Len(p) + 1)
        BY <3>1, <3>2, <3>5
      <4>2. q[i] = p[i] /\ q[i] \in Nat /\ p[i] <= n
        BY <3>1, <3>3, <4>1
      <4>3. CASE j \in 1..Len(p)
        BY <3>1, <3>3, <3>5, <4>1, <4>3
      <4>4. CASE j = Len(p) + 1
        BY <3>1, <4>2, <4>4
      <4> QED
        BY <4>1, <4>3, <4>4
    <3> QED
      BY <3>4, <3>5 DEF q
  <2> QED
    BY <2>5, <2>6
<1>4. Nat \subseteq Good
  <2> HIDE DEF Good
  <2> QED
    BY <1>2, <1>3, Induction
<1> QED
  BY <1>0, <1>1, <1>4

-----------------------------------------------------------------------------
(* The pages for the scanner.                                              *)

Numbers(document) == [p \in 1..Len(document) |-> p]

ScannedPages(document) == {p \in 1..Len(document) : Scanned(document[p])}

\* The pages for the scanner are scanned pages of the file, each at most once.
LEMMA OcrPagesAreScanned ==
    ASSUME NEW document \in Seq(Page)
    PROVE  /\ OcrPages(document) \in Seq(ScannedPages(document))
           /\ Len(OcrPages(document)) \in Nat
           /\ \A i, j \in 1..Len(OcrPages(document)) :
                 OcrPages(document)[i] = OcrPages(document)[j] => i = j
<1> DEFINE s == Numbers(document)
<1>1. /\ s \in Seq(1..Len(document)) /\ s \in Seq(Nat)
      /\ Len(s) = Len(document) /\ \A i \in 1..Len(s) : s[i] = i
  BY DEF Numbers
<1>2. OcrPages(document) = Select(s, ScannedPages(document))
  BY DEF OcrPages, Numbers, ScannedPages
<1> HIDE DEF s
<1>3. OcrPages(document) \in Seq((1..Len(document)) \intersect ScannedPages(document))
  BY <1>1, <1>2, SelectTyped
<1>4. (1..Len(document)) \intersect ScannedPages(document) = ScannedPages(document)
  BY DEF ScannedPages
<1>5. \A i, j \in 1..Len(OcrPages(document)) :
          i < j => OcrPages(document)[i] < OcrPages(document)[j]
  BY <1>1, <1>2, SelectAscends
<1>6. OcrPages(document) \in Seq(ScannedPages(document))
  BY <1>3, <1>4
<1>7. Len(OcrPages(document)) \in Nat
  BY <1>6
<1>8. ASSUME NEW i \in 1..Len(OcrPages(document)), NEW j \in 1..Len(OcrPages(document)),
             OcrPages(document)[i] = OcrPages(document)[j]
      PROVE  i = j
  <2>1. OcrPages(document)[i] \in Nat /\ OcrPages(document)[j] \in Nat
    BY <1>6, <1>7 DEF ScannedPages
  <2>2. i < j \/ j < i \/ i = j
    BY <1>7
  <2> QED
    BY <1>5, <1>8, <2>1, <2>2
<1> QED
  BY <1>6, <1>7, <1>8

\* The selections of the scanned pages among the first ones of the file.
Requests(G, document) ==
    /\ Prefixes(G, Numbers(document), ScannedPages(document))
    /\ OcrPages(document) = G[Len(document)]

\* The page after the first n is requested after the requests among those,
\* if it is scanned.
LEMMA NextRequest ==
    ASSUME NEW document \in Seq(Page)
    PROVE  /\ \E G : Requests(G, document)
           /\ \A G : Requests(G, document) =>
                 \A n \in Nat : n + 1 <= Len(document) =>
                    /\ Len(G[n]) \in Nat
                    /\ G[n + 1] = IF n + 1 \in ScannedPages(document)
                                  THEN Append(G[n], n + 1) ELSE G[n]
                    /\ Len(G[n + 1]) = IF n + 1 \in ScannedPages(document)
                                       THEN Len(G[n]) + 1 ELSE Len(G[n])
                    /\ n + 1 \in ScannedPages(document) =>
                          /\ Len(G[n]) + 1 \in 1..Len(OcrPages(document))
                          /\ OcrPages(document)[Len(G[n]) + 1] = n + 1
<1> DEFINE s == Numbers(document)
           S == ScannedPages(document)
           P == OcrPages(document)
<1>1. s \in Seq(Nat) /\ Len(s) = Len(document) /\ \A i \in 1..Len(s) : s[i] = i
  BY DEF Numbers
<1>2. P = Select(s, S) /\ Len(P) \in Nat /\ Len(document) \in Nat
  BY OcrPagesAreScanned DEF OcrPages, Numbers, ScannedPages
<1>3. \E G : Requests(G, document)
  <2> HIDE DEF s, S
  <2> QED
    BY <1>1, <1>2, SelectUnfolds DEF Requests, s, S
<1>4. ASSUME NEW G, Requests(G, document), NEW n \in Nat, n + 1 <= Len(document)
      PROVE  /\ Len(G[n]) \in Nat
             /\ G[n + 1] = IF n + 1 \in S THEN Append(G[n], n + 1) ELSE G[n]
             /\ Len(G[n + 1]) = IF n + 1 \in S THEN Len(G[n]) + 1 ELSE Len(G[n])
             /\ n + 1 \in S => /\ Len(G[n]) + 1 \in 1..Len(P)
                               /\ P[Len(G[n]) + 1] = n + 1
  <2>1. Prefixes(G, s, S) /\ P = G[Len(s)]
    BY <1>1, <1>4 DEF Requests
  <2> HIDE DEF s, S, P
  <2>2. n \in 0..Len(s) /\ n + 1 \in 0..Len(s) /\ s[n + 1] = n + 1
    BY <1>1, <1>2, <1>4
  <2>3. G[n] \in Seq(Nat)
    <3>1. G[n] \in Seq(Nat \intersect S)
      BY <1>1, <2>1, <2>2, PrefixesTyped
    <3> QED
      BY <3>1
  <2>4. G[n + 1] = IF s[n + 1] \in S THEN Append(G[n], s[n + 1]) ELSE G[n]
    BY <1>1, <1>4, <2>1, PrefixSteps
  <2>5. Len(G[n]) \in Nat
    BY <2>3
  <2>6. G[n + 1] = IF n + 1 \in S THEN Append(G[n], n + 1) ELSE G[n]
    BY <2>2, <2>4
  <2>7. Len(G[n + 1]) = IF n + 1 \in S THEN Len(G[n]) + 1 ELSE Len(G[n])
    BY <2>3, <2>6
  <2>8. ASSUME n + 1 \in S
        PROVE  Len(G[n]) + 1 \in 1..Len(P) /\ P[Len(G[n]) + 1] = n + 1
    <3>1. Len(G[n + 1]) = Len(G[n]) + 1 /\ G[n + 1][Len(G[n]) + 1] = n + 1
      BY <2>3, <2>6, <2>8
    <3>2. Len(G[n + 1]) <= Len(P) /\ \A i \in 1..Len(G[n + 1]) : P[i] = G[n + 1][i]
      BY <1>1, <2>1, <2>2, PrefixesExtend
    <3> QED
      BY <1>2, <2>5, <3>1, <3>2
  <2> QED
    BY <2>5, <2>6, <2>7, <2>8
<1> QED
  BY <1>3, <1>4

\* Every scanned page is requested.
LEMMA ScannedAreRequested ==
    ASSUME NEW document \in Seq(Page), NEW p \in ScannedPages(document)
    PROVE  \E i \in 1..Len(OcrPages(document)) : OcrPages(document)[i] = p
<1>1. PICK G : Requests(G, document)
  BY NextRequest
<1>2. p - 1 \in Nat /\ (p - 1) + 1 = p /\ p <= Len(document)
  BY DEF ScannedPages
<1> DEFINE n == p - 1
<1> HIDE DEF n
<1>3. n \in Nat /\ n + 1 = p /\ n + 1 <= Len(document) /\ n + 1 \in ScannedPages(document)
  BY <1>2 DEF n
<1> QED
  BY <1>1, <1>3, NextRequest

-----------------------------------------------------------------------------
(* The scanner's answer.                                                   *)

OcrWords == [page: Nat, by: {"ocr", "skipped"}]

\* Words as OCR reads them, and its remarks.
LEMMA WordsByOcr ==
    /\ Empty \notin Reading /\ Empty \in Texts
    /\ OcrWords \subseteq Reading /\ Reading \subseteq Texts
    /\ \A p \in Nat : Words(p, "ocr") \in OcrWords /\ Words(p, "skipped") \in OcrWords
BY DEF Empty, Reading, Texts, OcrWords, Words

\* A part of the scanner's text is empty, or words or a remark of OCR.
LEMMA RecognisedParts ==
    ASSUME NEW document \in Seq(Page), NEW text \in ScannerTexts(document)
    PROVE  text \in Seq({Empty} \union OcrWords)
<1> DEFINE P == OcrPages(document)
           U == {Empty} \union OcrWords
           numbers == Numbers(document)
           worked == {p \in 1..Len(document) : PagePart(document, P, p) # Words(p, "skipped")}
           Written(K) == [i \in 1..Len(Select(numbers, K)) |->
                            PagePart(document, P, Select(numbers, K)[i])]
<1>1. \A p \in Nat : PagePart(document, P, p) \in U
  BY WordsByOcr DEF PagePart
<1>2. ASSUME NEW K PROVE Written(K) \in Seq(U)
  <2>1. numbers \in Seq(Nat)
    BY DEF Numbers
  <2> DEFINE kept == Select(numbers, K)
  <2>2. kept \in Seq(Nat \intersect K)
    BY <2>1, SelectTyped
  <2> HIDE DEF kept
  <2>3. kept \in Seq(Nat) /\ Len(kept) \in Nat
    BY <2>2
  <2>4. \A i \in 1..Len(kept) : PagePart(document, P, kept[i]) \in U
    BY <1>1, <2>3
  <2> HIDE DEF U, P
  <2>5. [i \in 1..Len(kept) |-> PagePart(document, P, kept[i])] \in Seq(U)
    BY <2>3, <2>4
  <2> QED
    BY <2>5 DEF kept
<1>3. CASE text = <<>>
  <2>1. <<>> \in Seq(U)
    OBVIOUS
  <2> QED
    BY <1>3, <2>1
<1>4. CASE text \in Recognised(document, P)
  <2>1. PICK remarked \in SUBSET (1..Len(document)) : text = Written(worked \union remarked)
    BY <1>4 DEF Recognised, Numbers
  <2> HIDE DEF Written, worked, U
  <2> QED
    BY <1>2, <2>1 DEF U
<1> QED
  BY <1>3, <1>4 DEF ScannerTexts

\* The parts that are dealt out.
LEMMA PartsTyped ==
    ASSUME NEW document \in Seq(Page), NEW text \in ScannerTexts(document)
    PROVE  Select(text, Reading) \in Seq(OcrWords) /\ Len(Select(text, Reading)) \in Nat
<1>1. text \in Seq({Empty} \union OcrWords)
  BY RecognisedParts
<1>2. Select(text, Reading) \in Seq(({Empty} \union OcrWords) \intersect Reading)
  BY <1>1, SelectTyped
<1>3. ({Empty} \union OcrWords) \intersect Reading = OcrWords
  BY WordsByOcr
<1>4. Select(text, Reading) \in Seq(OcrWords)
  BY <1>2, <1>3
<1> QED
  BY <1>4

\* The pages of an answer are the requested ones, with parts of the text.
LEMMA SplitTyped ==
    ASSUME NEW document \in Seq(Page), OcrPages(document) # <<>>,
           NEW text \in ScannerTexts(document)
    PROVE  SplitSidecarText(text, OcrPages(document))
              \in Seq([page: ScannedPages(document), text: {Empty} \union OcrWords])
<1> DEFINE P == OcrPages(document)
           parts == Select(text, Reading)
           U == {Empty} \union OcrWords
           Entry == [page: ScannedPages(document), text: U]
<1>1. P \in Seq(ScannedPages(document)) /\ Len(P) \in Nat /\ Len(P) # 0
  BY OcrPagesAreScanned
<1>2. parts \in Seq(OcrWords) /\ Len(parts) \in Nat
  BY PartsTyped
<1>3. SplitSidecarText(text, P) =
         IF Len(parts) = Len(P) THEN [i \in DOMAIN P |-> Pair(P[i], parts[i])]
         ELSE IF Len(parts) = 1 THEN <<Pair(P[1], parts[1])>>
         ELSE [i \in DOMAIN P |-> Pair(P[i], IF i \in DOMAIN parts THEN parts[i] ELSE Empty)]
  BY DEF SplitSidecarText
<1> HIDE DEF P, parts
<1>4. DOMAIN P = 1..Len(P) /\ DOMAIN parts = 1..Len(parts)
  BY <1>1, <1>2
<1>5. \A i \in DOMAIN P : P[i] \in ScannedPages(document)
  BY <1>1, <1>4
<1>6. \A i \in DOMAIN parts : parts[i] \in U
  BY <1>2, <1>4
<1>7. CASE Len(parts) = Len(P)
  <2>1. \A i \in 1..Len(P) : Pair(P[i], parts[i]) \in Entry
    BY <1>4, <1>5, <1>6, <1>7 DEF Pair
  <2>2. [i \in 1..Len(P) |-> Pair(P[i], parts[i])] \in Seq(Entry)
    BY <1>1, <2>1
  <2> QED
    BY <1>3, <1>4, <1>7, <2>2 DEF P
<1>8. CASE Len(parts) # Len(P) /\ Len(parts) = 1
  <2>1. 1 \in DOMAIN P /\ 1 \in DOMAIN parts
    BY <1>1, <1>2, <1>4, <1>8
  <2>2. Pair(P[1], parts[1]) \in Entry
    BY <1>5, <1>6, <2>1 DEF Pair
  <2>3. <<Pair(P[1], parts[1])>> \in Seq(Entry)
    BY <2>2
  <2> QED
    BY <1>3, <1>8, <2>3 DEF P
<1>9. CASE Len(parts) # Len(P) /\ Len(parts) # 1
  <2> DEFINE Dealt(i) == IF i \in DOMAIN parts THEN parts[i] ELSE Empty
  <2>1. \A i \in 1..Len(P) : Pair(P[i], Dealt(i)) \in Entry
    BY <1>4, <1>5, <1>6 DEF Pair
  <2>2. [i \in 1..Len(P) |-> Pair(P[i], Dealt(i))] \in Seq(Entry)
    BY <1>1, <2>1
  <2> QED
    BY <1>3, <1>4, <1>9, <2>2 DEF P
<1> QED
  BY <1>7, <1>8, <1>9

\* The text that an answer has for a page: the part dealt to it, if any.
LEMMA OcrTextOfPage ==
    ASSUME NEW document \in Seq(Page), NEW text \in ScannerTexts(document),
           NEW i \in 1..Len(OcrPages(document))
    PROVE  OcrText(Response(document, text), OcrPages(document)[i])
           = IF i <= Len(Select(text, Reading)) THEN Select(text, Reading)[i] ELSE Empty
<1> DEFINE P == OcrPages(document)
           parts == Select(text, Reading)
           R == SplitSidecarText(text, P)
<1>1. /\ P \in Seq(ScannedPages(document)) /\ Len(P) \in Nat
      /\ \A k, l \in 1..Len(P) : P[k] = P[l] => k = l
  BY OcrPagesAreScanned
<1>2. parts \in Seq(OcrWords) /\ Len(parts) \in Nat
  BY PartsTyped
<1>3. R =
         IF Len(parts) = Len(P) THEN [k \in DOMAIN P |-> Pair(P[k], parts[k])]
         ELSE IF Len(parts) = 1 THEN <<Pair(P[1], parts[1])>>
         ELSE [k \in DOMAIN P |-> Pair(P[k], IF k \in DOMAIN parts THEN parts[k] ELSE Empty)]
  BY DEF SplitSidecarText
<1>4. OcrText(Response(document, text), P[i]) =
         IF \E k \in DOMAIN R : R[k].page = P[i]
         THEN R[CHOOSE k \in DOMAIN R : R[k].page = P[i]].text
         ELSE Empty
  BY DEF OcrText, Response
<1>5. i \in 1..Len(P)
  OBVIOUS
<1> HIDE DEF P, parts, R
<1>6. DOMAIN P = 1..Len(P) /\ DOMAIN parts = 1..Len(parts)
  BY <1>1, <1>2
<1> DEFINE Dealt(k) == IF k <= Len(parts) THEN parts[k] ELSE Empty
<1>7. ASSUME i \in DOMAIN R,
             \A k \in DOMAIN R : k \in 1..Len(P) /\ R[k].page = P[k],
             R[i].text = Dealt(i)
      PROVE  OcrText(Response(document, text), P[i]) = Dealt(i)
  <2>1. R[i].page = P[i]
    BY <1>7
  <2>2. \A k \in DOMAIN R : R[k].page = P[i] => k = i
    BY <1>1, <1>5, <1>7
  <2>3. (CHOOSE k \in DOMAIN R : R[k].page = P[i]) = i
    BY <1>7, <2>1, <2>2
  <2> HIDE DEF Dealt
  <2> QED
    BY <1>4, <1>7, <2>1, <2>3
<1>8. CASE Len(parts) = Len(P)
  <2>1. R = [k \in 1..Len(P) |-> Pair(P[k], parts[k])]
    BY <1>3, <1>6, <1>8
  <2>2. i \in DOMAIN R /\ \A k \in DOMAIN R : k \in 1..Len(P) /\ R[k].page = P[k]
    BY <1>5, <2>1 DEF Pair
  <2>3. R[i].text = Dealt(i)
    BY <1>1, <1>5, <1>8, <2>1 DEF Pair
  <2> QED
    BY <1>7, <2>2, <2>3 DEF P, parts
<1>9. CASE Len(parts) # Len(P) /\ Len(parts) = 1
  <2>1. R = <<Pair(P[1], parts[1])>>
    BY <1>3, <1>9
  <2>2. DOMAIN R = 1..1 /\ R[1].page = P[1] /\ R[1].text = parts[1]
    BY <2>1 DEF Pair
  <2>3. 1 \in 1..Len(P)
    BY <1>1, <1>5
  <2>4. CASE i = 1
    <3>1. i \in DOMAIN R /\ \A k \in DOMAIN R : k \in 1..Len(P) /\ R[k].page = P[k]
      BY <2>2, <2>3, <2>4
    <3>2. R[i].text = Dealt(i)
      BY <1>9, <2>2, <2>4
    <3> QED
      BY <1>7, <3>1, <3>2 DEF P, parts
  <2>5. CASE i # 1
    <3>1. \A k \in DOMAIN R : k = 1
      BY <2>2
    <3>2. P[1] # P[i]
      BY <1>1, <1>5, <2>3, <2>5
    <3>3. OcrText(Response(document, text), P[i]) = Empty
      BY <1>4, <2>2, <3>1, <3>2
    <3>4. ~(i <= Len(parts))
      BY <1>9, <2>5
    <3> QED
      BY <3>3, <3>4 DEF P, parts
  <2> QED
    BY <2>4, <2>5
<1>10. CASE Len(parts) # Len(P) /\ Len(parts) # 1
  <2>1. R = [k \in 1..Len(P) |-> Pair(P[k], IF k \in DOMAIN parts THEN parts[k] ELSE Empty)]
    BY <1>3, <1>6, <1>10
  <2>2. i \in DOMAIN R /\ \A k \in DOMAIN R : k \in 1..Len(P) /\ R[k].page = P[k]
    BY <1>5, <2>1 DEF Pair
  <2>3. R[i].text = IF i \in DOMAIN parts THEN parts[i] ELSE Empty
    BY <1>5, <2>1 DEF Pair
  <2>4. i \in DOMAIN parts <=> i <= Len(parts)
    BY <1>1, <1>2, <1>5, <1>6
  <2>5. R[i].text = Dealt(i)
    BY <2>3, <2>4
  <2> QED
    BY <1>7, <2>2, <2>5 DEF P, parts
<1> QED
  BY <1>8, <1>9, <1>10

\* A response has the types of the model, with pages that were requested.
LEMMA ResponseTyped ==
    ASSUME NEW document \in Seq(Page), NEW response, Answered(document, response)
    PROVE  /\ response \in [text: Seq(Texts), pageTexts: Seq([page: Nat, text: Texts])]
           /\ response.pageTexts \in Seq([page: ScannedPages(document),
                                          text: {Empty} \union OcrWords])
<1> DEFINE U == {Empty} \union OcrWords
           Entry == [page: ScannedPages(document), text: U]
<1>1. U \subseteq Texts /\ ScannedPages(document) \subseteq Nat
  BY WordsByOcr DEF ScannedPages
<1>2. \E text \in Seq(U), pageTexts \in Seq(Entry) :
          response = [text |-> text, pageTexts |-> pageTexts]
  <2>1. CASE response = NoResponse
    <3>1. <<>> \in Seq(U) /\ <<>> \in Seq(Entry)
      OBVIOUS
    <3> HIDE DEF U, Entry
    <3> QED
      BY <2>1, <3>1 DEF NoResponse
  <2>2. CASE /\ OcrPages(document) # <<>>
             /\ \E text \in ScannerTexts(document) : response = Response(document, text)
    <3>1. PICK text \in ScannerTexts(document) : response = Response(document, text)
      BY <2>2
    <3>2. text \in Seq(U) /\ SplitSidecarText(text, OcrPages(document)) \in Seq(Entry)
      BY <2>2, RecognisedParts, SplitTyped
    <3> HIDE DEF U, Entry
    <3> QED
      BY <3>1, <3>2 DEF Response
  <2> QED
    BY <2>1, <2>2 DEF Answered
<1>3. PICK text \in Seq(U), pageTexts \in Seq(Entry) :
          response = [text |-> text, pageTexts |-> pageTexts]
  <2> HIDE DEF U, Entry
  <2> QED
    BY <1>2
<1>4. Entry \subseteq [page: Nat, text: Texts]
  BY <1>1
<1>5. text \in Seq(Texts) /\ pageTexts \in Seq([page: Nat, text: Texts])
  <2> DEFINE Wide == [page: Nat, text: Texts]
  <2> HIDE DEF U, Entry, Wide
  <2>1. text \in Seq(Texts)
    BY <1>1
  <2>2. Entry \subseteq Wide
    BY <1>4 DEF Wide
  <2>3. pageTexts \in Seq(Wide)
    BY <2>2
  <2> QED
    BY <2>1, <2>3 DEF Wide
<1> QED
  BY <1>3, <1>5

\* Text for a page is words of OCR, and for scanned pages only.
LEMMA OcrTextTyped ==
    ASSUME NEW document \in Seq(Page), NEW response, Answered(document, response), NEW p
    PROVE  /\ OcrText(response, p) \in {Empty} \union OcrWords
           /\ p \notin ScannedPages(document) => OcrText(response, p) = Empty
<1> DEFINE U == {Empty} \union OcrWords
           R == response.pageTexts
<1>1. \A i \in DOMAIN R : R[i].page \in ScannedPages(document) /\ R[i].text \in U
  <2> DEFINE Entry == [page: ScannedPages(document), text: U]
  <2>1. R \in Seq(Entry)
    BY ResponseTyped
  <2> HIDE DEF R, Entry
  <2>2. DOMAIN R = 1..Len(R) /\ \A i \in 1..Len(R) : R[i] \in Entry
    BY <2>1
  <2> HIDE DEF U
  <2> QED
    BY <2>2 DEF Entry
<1>2. OcrText(response, p) = IF \E i \in DOMAIN R : R[i].page = p
                             THEN R[CHOOSE i \in DOMAIN R : R[i].page = p].text ELSE Empty
  BY DEF OcrText
<1> HIDE DEF R
<1>3. CASE \E i \in DOMAIN R : R[i].page = p
  <2>1. (CHOOSE i \in DOMAIN R : R[i].page = p) \in DOMAIN R
    BY <1>3
  <2>2. p \in ScannedPages(document)
    BY <1>1, <1>3
  <2> QED
    BY <1>1, <1>2, <1>3, <2>1, <2>2
<1>4. CASE ~ \E i \in DOMAIN R : R[i].page = p
  BY <1>2, <1>4
<1> QED
  BY <1>3, <1>4

-----------------------------------------------------------------------------
(* The extraction of a page.                                               *)

\* Which parser has a page, and whose words.
LEMMA ExtractedPage ==
    ASSUME NEW document \in Seq(Page), NEW response, Answered(document, response),
           NEW p \in 1..Len(document)
    PROVE  LET page == ExtractPage(document, p, response)
               ocrText == OcrText(response, p)
           IN /\ page \in [parser: {"pymupdf", "pdfplumber", "ocr"}, text: Texts]
              /\ page.parser = "ocr" <=> p \in ScannedPages(document)
              /\ page.parser = "pdfplumber" =>
                    /\ TableCandidate(document[p])
                    /\ Strategy(document) \in {"pdfplumber", "hybrid"}
              /\ ocrText \in OcrWords => page.text = ocrText
              /\ ocrText \notin OcrWords => page.text \notin OcrWords
              /\ ocrText = Empty =>
                    page.text \in {Empty, Words(p, "pymupdf"), Words(p, "pdfplumber")}
              /\ ocrText = Empty /\ document[p].chars > 0 => page.text # Empty
<1> DEFINE page == document[p]
           ocrText == OcrText(response, p)
           tables == TableCandidate(page) /\ Strategy(document) \in {"pdfplumber", "hybrid"}
                     /\ page.cells
           own == IF page.chars > 0 THEN Words(p, "pymupdf") ELSE Empty
           extracted == ExtractPage(document, p, response)
<1>1. p \in Nat /\ page \in Page
  OBVIOUS
<1>2. ocrText \in {Empty} \union OcrWords /\ (p \notin ScannedPages(document) => ocrText = Empty)
  BY OcrTextTyped
<1>3. p \in ScannedPages(document) <=> Scanned(page)
  BY DEF ScannedPages
<1>4. extracted =
         IF ocrText # Empty THEN [parser |-> "ocr", text |-> ocrText]
         ELSE IF tables THEN [parser |-> "pdfplumber", text |-> Words(p, "pdfplumber")]
         ELSE [parser |-> IF Scanned(page) THEN "ocr" ELSE "pymupdf", text |-> own]
  BY DEF ExtractPage, Scanned
<1>5. /\ Words(p, "pymupdf") \in Reading \ OcrWords /\ Words(p, "pdfplumber") \in Reading \ OcrWords
      /\ Empty \notin Reading
  BY <1>1 DEF Words, Reading, OcrWords, Empty
<1>6. OcrWords \subseteq Reading /\ Reading \subseteq Texts /\ Empty \in Texts
  BY WordsByOcr
<1>7. tables => ~Scanned(page)
  BY DEF TableCandidate
<1>8. own \in {Empty, Words(p, "pymupdf")} /\ (page.chars > 0 => own # Empty)
  BY <1>5
<1>9. tables => TableCandidate(page) /\ Strategy(document) \in {"pdfplumber", "hybrid"}
  OBVIOUS
<1> DEFINE Claim ==
           /\ extracted \in [parser: {"pymupdf", "pdfplumber", "ocr"}, text: Texts]
           /\ extracted.parser = "ocr" <=> p \in ScannedPages(document)
           /\ extracted.parser = "pdfplumber" =>
                 /\ TableCandidate(page)
                 /\ Strategy(document) \in {"pdfplumber", "hybrid"}
           /\ ocrText \in OcrWords => extracted.text = ocrText
           /\ ocrText \notin OcrWords => extracted.text \notin OcrWords
           /\ ocrText = Empty =>
                 extracted.text \in {Empty, Words(p, "pymupdf"), Words(p, "pdfplumber")}
           /\ ocrText = Empty /\ page.chars > 0 => extracted.text # Empty
<1> HIDE DEF ocrText, tables, own, extracted
<1>10. CASE ocrText # Empty
  <2>1. extracted = [parser |-> "ocr", text |-> ocrText]
    BY <1>4, <1>10
  <2>2. ocrText \in OcrWords /\ ocrText \in Texts /\ p \in ScannedPages(document)
    BY <1>2, <1>6, <1>10
  <2>3. Claim
    BY <1>10, <2>1, <2>2
  <2> QED
    BY <2>3 DEF extracted, ocrText
<1>11. CASE ocrText = Empty /\ tables
  <2>1. extracted = [parser |-> "pdfplumber", text |-> Words(p, "pdfplumber")]
    BY <1>4, <1>11
  <2>2. Claim
    BY <1>3, <1>5, <1>6, <1>7, <1>9, <1>11, <2>1
  <2> QED
    BY <2>2 DEF extracted, ocrText
<1>12. CASE ocrText = Empty /\ ~tables
  <2>1. extracted = [parser |-> IF Scanned(page) THEN "ocr" ELSE "pymupdf", text |-> own]
    BY <1>4, <1>12
  <2>2. own \in Texts /\ own \notin OcrWords
    BY <1>5, <1>6, <1>8
  <2>3. Claim
    BY <1>3, <1>5, <1>6, <1>8, <1>12, <2>1, <2>2
  <2> QED
    BY <2>3 DEF extracted, ocrText
<1> QED
  BY <1>10, <1>11, <1>12

-----------------------------------------------------------------------------
(* The result.                                                             *)

\* The pages of a result.
Extracted(document, response) ==
    [p \in 1..Len(document) |-> ExtractPage(document, p, response)]

\* A result has its type.
LEMMA ResultTyped ==
    ASSUME NEW document \in Seq(Page), NEW response, Answered(document, response)
    PROVE  /\ ExtractionResult(document, response) \in
                 [strategy: {"pymupdf", "pdfplumber", "ocr_pages", "hybrid"},
                  parser: {"pymupdf", "table-aware", "hybrid", "ocr"},
                  pages: Seq([parser: {"pymupdf", "pdfplumber", "ocr"}, text: Texts])]
           /\ ExtractionResult(document, response).pages = Extracted(document, response)
<1> DEFINE Entry == [parser: {"pymupdf", "pdfplumber", "ocr"}, text: Texts]
           pages == Extracted(document, response)
<1>1. \A p \in 1..Len(document) : ExtractPage(document, p, response) \in Entry
  BY ExtractedPage
<1>2. pages \in Seq(Entry)
  <2> HIDE DEF Entry
  <2> QED
    BY <1>1 DEF Extracted
<1>3. ExtractionResult(document, response)
      = [strategy |-> Strategy(document), parser |-> SummarizeParser(pages), pages |-> pages]
  BY DEF ExtractionResult, Extracted
<1>4. Strategy(document) \in {"pymupdf", "pdfplumber", "ocr_pages", "hybrid"}
  BY DEF Strategy
<1> HIDE DEF Entry, pages
<1>5. SummarizeParser(pages) \in {"pymupdf", "table-aware", "hybrid", "ocr"}
  BY DEF SummarizeParser
<1> QED
  BY <1>2, <1>3, <1>4, <1>5 DEF Entry, pages

\* The strategy and the parser of a result agree.
LEMMA ParserOfResult ==
    ASSUME NEW document \in Seq(Page), NEW response, Answered(document, response)
    PROVE  LET result == ExtractionResult(document, response)
           IN /\ result.parser = "ocr" <=> result.strategy \in {"ocr_pages", "hybrid"}
              /\ result.parser \in {"hybrid", "table-aware"} => result.strategy = "pdfplumber"
<1> DEFINE pages == Extracted(document, response)
           parsers == {pages[p].parser : p \in DOMAIN pages}
           result == ExtractionResult(document, response)
           scanned == \E p \in DOMAIN document : Scanned(document[p])
<1>1. result.strategy = Strategy(document) /\ result.parser = SummarizeParser(pages)
  BY DEF ExtractionResult, Extracted
<1>2. DOMAIN pages = 1..Len(document) /\ DOMAIN document = 1..Len(document)
  BY DEF Extracted
<1>3. \A p \in 1..Len(document) :
          /\ pages[p].parser = "ocr" <=> Scanned(document[p])
          /\ pages[p].parser = "pdfplumber" => Strategy(document) \in {"pdfplumber", "hybrid"}
  <2> SUFFICES ASSUME NEW p \in 1..Len(document)
               PROVE  /\ pages[p].parser = "ocr" <=> Scanned(document[p])
                      /\ pages[p].parser = "pdfplumber" =>
                            Strategy(document) \in {"pdfplumber", "hybrid"}
    OBVIOUS
  <2>1. pages[p] = ExtractPage(document, p, response)
    BY DEF Extracted
  <2>2. p \in ScannedPages(document) <=> Scanned(document[p])
    BY DEF ScannedPages
  <2> QED
    BY <2>1, <2>2, ExtractedPage
<1>4. SummarizeParser(pages) =
         IF "ocr" \in parsers THEN "ocr"
         ELSE IF {"pdfplumber", "pymupdf"} \subseteq parsers THEN "hybrid"
         ELSE IF "pdfplumber" \in parsers THEN "table-aware"
         ELSE "pymupdf"
  BY DEF SummarizeParser
<1> HIDE DEF pages
<1>5. "ocr" \in parsers <=> scanned
  BY <1>2, <1>3
<1>6. "pdfplumber" \in parsers => Strategy(document) \in {"pdfplumber", "hybrid"}
  BY <1>2, <1>3
<1>7. /\ scanned <=> Strategy(document) \in {"ocr_pages", "hybrid"}
      /\ Strategy(document) = "hybrid" => scanned
  BY DEF Strategy
<1> HIDE DEF parsers, scanned, result
<1>8. result.parser = "ocr" <=> "ocr" \in parsers
  BY <1>1, <1>4
<1>9. result.parser \in {"hybrid", "table-aware"} => "ocr" \notin parsers /\ "pdfplumber" \in parsers
  BY <1>1, <1>4
<1> QED
  BY <1>1, <1>5, <1>6, <1>7, <1>8, <1>9 DEF result

\* A page that is not scanned keeps its own text.
LEMMA LocalPage ==
    ASSUME NEW document \in Seq(Page), NEW response, Answered(document, response),
           NEW p \in DOMAIN document,
           document[p].chars >= TextThreshold \/ document[p].images < ImageThreshold,
           document[p].chars > 0
    PROVE  ExtractionResult(document, response).pages[p].text
              \in {Words(p, "pymupdf"), Words(p, "pdfplumber")}
<1>1. p \in 1..Len(document) /\ document[p] \in Page
  OBVIOUS
<1>2. document[p].chars \in Nat /\ document[p].images \in Nat
  BY <1>1 DEF Page
<1>3. ~Scanned(document[p])
  BY <1>2, ThresholdAssumption DEF Scanned
<1>4. p \notin ScannedPages(document)
  BY <1>3 DEF ScannedPages
<1>5. OcrText(response, p) = Empty
  BY <1>4, OcrTextTyped
<1>6. ExtractionResult(document, response).pages[p] = ExtractPage(document, p, response)
  <2>1. ExtractionResult(document, response).pages = Extracted(document, response)
    BY ResultTyped
  <2> QED
    BY <1>1, <2>1 DEF Extracted
<1> DEFINE page == ExtractPage(document, p, response)
<1>7. page.text \in {Empty, Words(p, "pymupdf"), Words(p, "pdfplumber")} /\ page.text # Empty
  BY <1>1, <1>5, ExtractedPage
<1> QED
  BY <1>6, <1>7

\* What a response has for the requested pages: its parts, by position.
LEMMA PartsOfResponse ==
    ASSUME NEW document \in Seq(Page), NEW response, Answered(document, response)
    PROVE  LET parts == Select(response.text, Reading)
               P == OcrPages(document)
           IN /\ parts \in Seq(OcrWords) /\ Len(parts) \in Nat
              /\ \A i \in 1..Len(P) :
                    OcrText(response, P[i]) = IF i <= Len(parts) THEN parts[i] ELSE Empty
<1> DEFINE P == OcrPages(document)
<1>1. CASE response = NoResponse
  <2>1. <<>> \in ScannerTexts(document) /\ response.text = <<>>
    BY <1>1 DEF ScannerTexts, NoResponse
  <2>2. Select(<<>>, Reading) \in Seq(OcrWords) /\ Len(Select(<<>>, Reading)) \in Nat
    BY <2>1, PartsTyped
  <2>3. <<>> \in Seq(Texts) /\ Len(<<>>) = 0
    OBVIOUS
  <2>4. Len(Select(<<>>, Reading)) <= 0
    BY <2>3, SelectTyped
  <2>5. \A i \in 1..Len(P) : OcrText(response, P[i]) = Empty
    BY <1>1 DEF OcrText, NoResponse
  <2>6. Len(P) \in Nat
    BY OcrPagesAreScanned
  <2> QED
    BY <2>1, <2>2, <2>4, <2>5, <2>6
<1>2. CASE \E text \in ScannerTexts(document) : response = Response(document, text)
  <2>1. PICK text \in ScannerTexts(document) : response = Response(document, text)
    BY <1>2
  <2>2. response.text = text
    BY <2>1 DEF Response
  <2>3. Select(text, Reading) \in Seq(OcrWords) /\ Len(Select(text, Reading)) \in Nat
    BY PartsTyped
  <2>4. \A i \in 1..Len(P) : OcrText(Response(document, text), P[i])
           = IF i <= Len(Select(text, Reading)) THEN Select(text, Reading)[i] ELSE Empty
    BY OcrTextOfPage
  <2> QED
    BY <2>1, <2>2, <2>3, <2>4
<1> QED
  BY <1>1, <1>2 DEF Answered

\* When the parts begin with those of the requested pages, no page gets the
\* text of another.
LEMMA WordsOfThePage ==
    ASSUME NEW document \in Seq(Page), NEW response, Answered(document, response),
           \A i \in DOMAIN Select(response.text, Reading) \intersect DOMAIN OcrPages(document) :
               Select(response.text, Reading)[i].page = OcrPages(document)[i],
           NEW p \in 1..Len(document)
    PROVE  LET text == ExtractionResult(document, response).pages[p].text
           IN text = Empty \/ text.page = p
<1> DEFINE P == OcrPages(document)
           parts == Select(response.text, Reading)
<1>1. \/ OcrText(response, p) = Empty
      \/ OcrText(response, p) \in OcrWords /\ OcrText(response, p).page = p
  <2>1. CASE p \in ScannedPages(document)
    <3>1. PICK i \in 1..Len(P) : P[i] = p
      BY <2>1, ScannedAreRequested
    <3>2. /\ parts \in Seq(OcrWords) /\ Len(parts) \in Nat
          /\ OcrText(response, P[i]) = IF i <= Len(parts) THEN parts[i] ELSE Empty
      BY PartsOfResponse
    <3>3. P \in Seq(ScannedPages(document)) /\ Len(P) \in Nat
      BY OcrPagesAreScanned
    <3>4. \A k \in DOMAIN parts \intersect DOMAIN P : parts[k].page = P[k]
      OBVIOUS
    <3> HIDE DEF parts, P
    <3>5. CASE i <= Len(parts)
      <4>1. i \in DOMAIN parts /\ i \in DOMAIN P /\ parts[i] \in OcrWords
        BY <3>2, <3>3, <3>5
      <4> QED
        BY <3>1, <3>2, <3>4, <3>5, <4>1
    <3>6. CASE ~(i <= Len(parts))
      BY <3>1, <3>2, <3>6
    <3> QED
      BY <3>5, <3>6
  <2>2. CASE p \notin ScannedPages(document)
    BY <2>2, OcrTextTyped
  <2> QED
    BY <2>1, <2>2
<1>2. ExtractionResult(document, response).pages[p] = ExtractPage(document, p, response)
  <2>1. ExtractionResult(document, response).pages = Extracted(document, response)
    BY ResultTyped
  <2> QED
    BY <2>1 DEF Extracted
<1> DEFINE text == ExtractPage(document, p, response).text
           ocrText == OcrText(response, p)
<1>3. /\ ocrText \in OcrWords => text = ocrText
      /\ ocrText = Empty => text \in {Empty, Words(p, "pymupdf"), Words(p, "pdfplumber")}
  BY ExtractedPage
<1> HIDE DEF text, ocrText
<1>4. text = Empty \/ text.page = p
  <2>1. CASE ocrText = Empty
    BY <1>3, <2>1 DEF Words
  <2>2. CASE ocrText \in OcrWords /\ ocrText.page = p
    BY <1>3, <2>2
  <2> QED
    BY <1>1, <2>1, <2>2 DEF ocrText
<1> QED
  BY <1>2, <1>4 DEF text

\* As much of what the scanner says as there are requested pages is in the
\* content, in its order.
LEMMA WordsAreKept ==
    ASSUME NEW document \in Seq(Page), NEW response, Answered(document, response)
    PROVE  LET parts == Select(response.text, Reading)
               requested == Len(OcrPages(document))
           IN Select(Content(ExtractionResult(document, response)), OcrWords)
              = SubSeq(parts, 1, IF Len(parts) <= requested THEN Len(parts) ELSE requested)
<1> DEFINE P == OcrPages(document)
           S == ScannedPages(document)
           parts == Select(response.text, Reading)
           texts == [p \in 1..Len(document) |-> ExtractPage(document, p, response).text]
<1>1. /\ parts \in Seq(OcrWords) /\ Len(parts) \in Nat
      /\ \A i \in 1..Len(P) :
            OcrText(response, P[i]) = IF i <= Len(parts) THEN parts[i] ELSE Empty
  BY PartsOfResponse
<1>2. PICK G : Requests(G, document)
  BY NextRequest
<1>3. texts \in Seq(Texts) /\ Len(texts) = Len(document) /\ Len(document) \in Nat
  <2>1. \A p \in 1..Len(document) : ExtractPage(document, p, response).text \in Texts
    BY ExtractedPage
  <2> QED
    BY <2>1
<1>4. \A p \in 1..Len(document) :
          /\ p \notin S => texts[p] \notin OcrWords
          /\ OcrText(response, p) \in OcrWords => texts[p] = OcrText(response, p)
          /\ OcrText(response, p) \notin OcrWords => texts[p] \notin OcrWords
  <2> SUFFICES ASSUME NEW p \in 1..Len(document)
               PROVE  /\ p \notin S => texts[p] \notin OcrWords
                      /\ OcrText(response, p) \in OcrWords => texts[p] = OcrText(response, p)
                      /\ OcrText(response, p) \notin OcrWords => texts[p] \notin OcrWords
    OBVIOUS
  <2>1. p \notin S => OcrText(response, p) \notin OcrWords
    <3>1. p \notin S => OcrText(response, p) = Empty
      BY OcrTextTyped
    <3> QED
      BY <3>1, WordsByOcr
  <2> QED
    BY <2>1, ExtractedPage
<1>5. Content(ExtractionResult(document, response)) = Select(texts, Reading)
  <2>1. ExtractionResult(document, response).pages = Extracted(document, response)
    BY ResultTyped
  <2>2. /\ Len(Extracted(document, response)) = Len(document)
        /\ \A p \in 1..Len(document) :
              Extracted(document, response)[p].text = ExtractPage(document, p, response).text
    BY <1>3 DEF Extracted
  <2>3. [p \in 1..Len(Extracted(document, response)) |-> Extracted(document, response)[p].text]
        = texts
    BY <2>2
  <2> QED
    BY <2>1, <2>3 DEF Content
<1> HIDE DEF texts, P, S, parts
<1>6. Select(Content(ExtractionResult(document, response)), OcrWords) = Select(texts, OcrWords)
  <2>1. Select(Select(texts, Reading), OcrWords) = Select(texts, Reading \intersect OcrWords)
    BY <1>3, SelectTwice
  <2>2. Reading \intersect OcrWords = OcrWords
    BY WordsByOcr
  <2> QED
    BY <1>5, <2>1, <2>2
<1>7. PICK f : Prefixes(f, texts, OcrWords) /\ Select(texts, OcrWords) = f[Len(texts)]
  BY <1>3, SelectUnfolds
<1> DEFINE Good == {n \in Nat : n <= Len(document) =>
                        /\ f[n] \in Seq(OcrWords)
                        /\ Len(f[n]) = IF Len(G[n]) <= Len(parts) THEN Len(G[n]) ELSE Len(parts)
                        /\ \A i \in 1..Len(f[n]) : f[n][i] = parts[i]}
<1>8. 0 \in Good
  <2>1. f[0] = <<>>
    BY <1>3, <1>7, PrefixSteps
  <2>2. G[0] = <<>>
    <3>1. Prefixes(G, Numbers(document), ScannedPages(document))
      BY <1>2 DEF Requests
    <3>2. Numbers(document) \in Seq(Nat)
      BY DEF Numbers
    <3> QED
      BY <3>1, <3>2, PrefixSteps
  <2>3. <<>> \in Seq(OcrWords) /\ Len(<<>>) = 0 /\ 1..Len(<<>>) = {}
    OBVIOUS
  <2>4. 0 <= Len(parts)
    BY <1>1
  <2>5. f[0] \in Seq(OcrWords) /\ Len(f[0]) = 0 /\ Len(G[0]) = 0 /\ 1..Len(f[0]) = {}
    BY <2>1, <2>2, <2>3
  <2> QED
    BY <2>4, <2>5
<1>9. ASSUME NEW n \in Nat, n \in Good PROVE n + 1 \in Good
  <2> SUFFICES ASSUME n + 1 <= Len(document)
               PROVE  /\ f[n + 1] \in Seq(OcrWords)
                      /\ Len(f[n + 1]) = IF Len(G[n + 1]) <= Len(parts)
                                         THEN Len(G[n + 1]) ELSE Len(parts)
                      /\ \A i \in 1..Len(f[n + 1]) : f[n + 1][i] = parts[i]
    OBVIOUS
  <2>0. n <= Len(document) /\ n + 1 \in 1..Len(document)
    BY <1>3
  <2>1. /\ f[n] \in Seq(OcrWords)
        /\ Len(f[n]) = IF Len(G[n]) <= Len(parts) THEN Len(G[n]) ELSE Len(parts)
        /\ \A i \in 1..Len(f[n]) : f[n][i] = parts[i]
    BY <1>9, <2>0
  <2>2. /\ Len(G[n]) \in Nat
        /\ Len(G[n + 1]) = IF n + 1 \in S THEN Len(G[n]) + 1 ELSE Len(G[n])
        /\ n + 1 \in S => Len(G[n]) + 1 \in 1..Len(P) /\ P[Len(G[n]) + 1] = n + 1
    BY <1>2, NextRequest DEF S, P
  <2>3. f[n + 1] = IF texts[n + 1] \in OcrWords THEN Append(f[n], texts[n + 1]) ELSE f[n]
    BY <1>3, <1>7, PrefixSteps
  <2>4. CASE n + 1 \notin S
    <3>1. f[n + 1] = f[n]
      BY <1>4, <2>0, <2>3, <2>4
    <3>2. Len(G[n + 1]) = Len(G[n])
      BY <2>2, <2>4
    <3> QED
      BY <2>1, <3>1, <3>2
  <2>5. CASE n + 1 \in S /\ Len(G[n]) + 1 <= Len(parts)
    <3>1. OcrText(response, n + 1) = parts[Len(G[n]) + 1]
      BY <1>1, <2>2, <2>5
    <3>2. Len(G[n]) + 1 \in 1..Len(parts)
      BY <1>1, <2>2, <2>5
    <3>3. parts[Len(G[n]) + 1] \in OcrWords
      BY <1>1, <3>2
    <3>4. f[n + 1] = Append(f[n], parts[Len(G[n]) + 1])
      BY <1>4, <2>0, <2>3, <3>1, <3>3
    <3>5. Len(f[n]) = Len(G[n]) /\ Len(G[n + 1]) = Len(G[n]) + 1
      BY <1>1, <2>1, <2>2, <2>5
    <3>6. f[n + 1] \in Seq(OcrWords) /\ Len(f[n + 1]) = Len(G[n]) + 1
      BY <2>1, <3>3, <3>4, <3>5
    <3>7. \A i \in 1..(Len(G[n]) + 1) : f[n + 1][i] = parts[i]
      BY <2>1, <2>2, <3>3, <3>4, <3>5
    <3> QED
      BY <2>5, <3>5, <3>6, <3>7
  <2>6. CASE n + 1 \in S /\ ~(Len(G[n]) + 1 <= Len(parts))
    <3>1. OcrText(response, n + 1) = Empty
      BY <1>1, <2>2, <2>6
    <3>2. Empty \notin OcrWords
      BY WordsByOcr
    <3>3. f[n + 1] = f[n]
      BY <1>4, <2>0, <2>3, <3>1, <3>2
    <3>4. Len(f[n]) = Len(parts) /\ ~(Len(G[n + 1]) <= Len(parts))
      BY <1>1, <2>1, <2>2, <2>6
    <3> QED
      BY <2>1, <3>3, <3>4
  <2> QED
    BY <2>4, <2>5, <2>6
<1>10. Nat \subseteq Good
  <2> HIDE DEF Good
  <2> QED
    BY <1>8, <1>9, Induction
<1>11. /\ f[Len(document)] \in Seq(OcrWords)
       /\ Len(f[Len(document)]) = IF Len(G[Len(document)]) <= Len(parts)
                                  THEN Len(G[Len(document)]) ELSE Len(parts)
       /\ \A i \in 1..Len(f[Len(document)]) : f[Len(document)][i] = parts[i]
  BY <1>3, <1>10
<1>12. G[Len(document)] = P
  BY <1>2 DEF Requests, P
<1>13. Len(P) \in Nat
  BY OcrPagesAreScanned DEF P
<1> DEFINE least == IF Len(parts) <= Len(P) THEN Len(parts) ELSE Len(P)
<1>14. f[Len(document)] = SubSeq(parts, 1, least)
  <2>1. Len(f[Len(document)]) = least /\ least \in Nat /\ least <= Len(parts)
    BY <1>1, <1>11, <1>12, <1>13
  <2> HIDE DEF least
  <2>2. /\ SubSeq(parts, 1, least) \in Seq(OcrWords) /\ Len(SubSeq(parts, 1, least)) = least
        /\ \A i \in 1..least : SubSeq(parts, 1, least)[i] = parts[i]
    BY <1>1, <2>1
  <2> QED
    BY <1>11, <2>1, <2>2
<1> QED
  BY <1>3, <1>6, <1>7, <1>14 DEF parts, P

-----------------------------------------------------------------------------
(* The steps.                                                              *)

Places == {"idle", "profile", "ocr", "waiting", "pages", "done", "failed"}
Responses == [text: Seq(Texts), pageTexts: Seq([page: Nat, text: Texts])]
Results == {NoResult} \union
           [strategy: {"pymupdf", "pdfplumber", "ocr_pages", "hybrid"},
            parser: {"pymupdf", "table-aware", "hybrid", "ocr"},
            pages: Seq([parser: {"pymupdf", "pdfplumber", "ocr"}, text: Texts])]
Record == [place: Places, document: Document \union {<<>>},
           response: Responses, result: Results]
Request == {NoJob} \union [job: Job]

\* The invariant of one extraction.
RecordInv(e) == e \in Record /\ ResponseInv(e) /\ ResultInv(e)

LEMMA PdfInvByRecord ==
    PdfInv <=> /\ extraction \in [Job -> Record] /\ thread \in [Thread -> Request]
               /\ \A j \in Job : RecordInv(extraction[j])
BY DEF PdfInv, TypeOK, RecordInv, Record, Places, Responses, Results, Request

\* A step that changes one extraction.
LEMMA OneRecord ==
    ASSUME PdfInv, NEW j \in Job, NEW e, RecordInv(e),
           extraction' = [extraction EXCEPT ![j] = e], thread' \in [Thread -> Request]
    PROVE  PdfInv'
<1>1. extraction \in [Job -> Record] /\ \A i \in Job : RecordInv(extraction[i])
  BY PdfInvByRecord
<1>2. e \in Record
  BY DEF RecordInv
<1>3. extraction' \in [Job -> Record]
  BY <1>1, <1>2
<1>4. \A i \in Job : extraction'[i] = IF i = j THEN e ELSE extraction[i]
  BY <1>1
<1>5. \A i \in Job : RecordInv(extraction'[i])
  BY <1>1, <1>4
<1>6. \A i \in Job : RecordInv(extraction[i])'
  BY <1>5 DEF RecordInv, ResponseInv, ResultInv
<1>7. (extraction \in [Job -> Record])' /\ (thread \in [Thread -> Request])'
  BY <1>3
<1> QED
  BY <1>6, <1>7 DEF PdfInv, TypeOK, RecordInv, Record, Places, Responses, Results, Request

\* A step that changes no extraction.
LEMMA NoRecord ==
    ASSUME PdfInv, extraction' = extraction, thread' \in [Thread -> Request]
    PROVE  PdfInv'
BY DEF PdfInv, TypeOK, ResponseInv, ResultInv, Request

\* An extraction that goes to another place, before it is done.
LEMMA Going ==
    ASSUME PdfInv, NEW j \in Job, extraction[j].place # "done",
           NEW place \in Places \ {"idle", "done"},
           place \in {"ocr", "waiting"} => OcrPages(extraction[j].document) # <<>>,
           Goto(j, place), thread' \in [Thread -> Request]
    PROVE  PdfInv'
<1> DEFINE e == extraction[j]
           n == [e EXCEPT !.place = place]
<1>1. extraction' = [extraction EXCEPT ![j] = n]
  BY DEF Goto
<1>2. RecordInv(e)
  BY PdfInvByRecord
<1> HIDE DEF e
<1>3. e \in Record /\ e.place # "done"
  BY <1>2 DEF RecordInv, e
<1>4. /\ n \in Record /\ n.place = place /\ n.document = e.document
      /\ n.response = e.response /\ n.result = e.result
  BY <1>3 DEF Record
<1> HIDE DEF n
<1>5. RecordInv(n)
  <2>1. ResponseInv(n)
    BY <1>2, <1>4 DEF RecordInv, ResponseInv, e
  <2>2. ResultInv(n)
    BY <1>2, <1>3, <1>4 DEF RecordInv, ResultInv
  <2> QED
    BY <1>4, <2>1, <2>2 DEF RecordInv
<1> QED
  BY <1>1, <1>5, OneRecord

\* A file is a sequence of pages.
LEMMA Files == Document \union {<<>>} \subseteq Seq(Page)
<1>1. <<>> \in Seq(Page)
  OBVIOUS
<1> QED
  BY <1>1, DocumentAssumption

LEMMA InitPdf == Init => PdfInv
<1> SUFFICES ASSUME Init PROVE PdfInv
  OBVIOUS
<1> DEFINE e == [place |-> "idle", document |-> <<>>,
                 response |-> NoResponse, result |-> NoResult]
<1>1. NoResponse \in Responses
  <2>1. <<>> \in Seq(Texts) /\ <<>> \in Seq([page: Nat, text: Texts])
    OBVIOUS
  <2> QED
    BY <2>1 DEF NoResponse, Responses
<1>2. e \in Record
  BY <1>1 DEF Record, Places, Results
<1>3. RecordInv(e)
  BY <1>2 DEF RecordInv, ResponseInv, ResultInv, Answered
<1> HIDE DEF e
<1>4. extraction = [j \in Job |-> e] /\ thread = [t \in Thread |-> NoJob]
  BY DEF Init, e
<1>5. /\ extraction \in [Job -> Record] /\ thread \in [Thread -> Request]
      /\ \A j \in Job : RecordInv(extraction[j])
  BY <1>2, <1>3, <1>4 DEF Request
<1> QED
  BY <1>5, PdfInvByRecord

LEMMA NextPdf == PdfInv /\ [Next]_vars => PdfInv'
<1> SUFFICES ASSUME PdfInv, [Next]_vars PROVE PdfInv'
  OBVIOUS
<1>1. /\ extraction \in [Job -> Record] /\ thread \in [Thread -> Request]
      /\ \A j \in Job : RecordInv(extraction[j])
  BY PdfInvByRecord
<1>2. ASSUME NEW j \in Job, Start(j) PROVE PdfInv'
  <2>1. PICK d \in Document :
           extraction' = [extraction EXCEPT ![j].place = "profile", ![j].document = d]
    BY <1>2 DEF Start
  <2> DEFINE e == extraction[j]
             n == [e EXCEPT !.place = "profile", !.document = d]
  <2>2. extraction' = [extraction EXCEPT ![j] = n]
    BY <2>1
  <2>3. RecordInv(e) /\ e.place = "idle"
    BY <1>1, <1>2 DEF Start, At
  <2> HIDE DEF e
  <2>4. /\ n \in Record /\ n.place = "profile" /\ n.document = d
        /\ n.response = e.response /\ n.result = e.result
    BY <2>3 DEF RecordInv, Record, Places
  <2> HIDE DEF n
  <2>5. RecordInv(n)
    <3>1. e.response = NoResponse /\ e.result = NoResult
      BY <2>3 DEF RecordInv, ResponseInv, ResultInv
    <3> QED
      BY <2>4, <3>1 DEF RecordInv, ResponseInv, ResultInv, Answered
  <2>6. thread' \in [Thread -> Request]
    BY <1>1, <1>2 DEF Start
  <2> QED
    BY <2>2, <2>5, <2>6, OneRecord
<1>3. ASSUME NEW j \in Job, ExtractPages(j) PROVE PdfInv'
  <2> DEFINE e == extraction[j]
             result == ExtractionResult(e.document, e.response)
             n == [e EXCEPT !.place = "done", !.result = result]
  <2>1. extraction' = [extraction EXCEPT ![j] = n]
    BY <1>3 DEF ExtractPages
  <2>2. RecordInv(e) /\ e.place = "pages"
    BY <1>1, <1>3 DEF ExtractPages, At
  <2> HIDE DEF e
  <2>3. e \in Record /\ ResponseInv(e) /\ e.document \in Seq(Page)
    BY <2>2, Files DEF RecordInv, Record
  <2>4. result \in Results
    <3>1. Answered(e.document, e.response)
      BY <2>3 DEF ResponseInv
    <3> QED
      BY <2>3, <3>1, ResultTyped DEF Results
  <2> DEFINE r == result
  <2> HIDE DEF r
  <2>5. n = [e EXCEPT !.place = "done", !.result = r] /\ r \in Results
    BY <2>4 DEF r
  <2>6. /\ n \in Record /\ n.place = "done" /\ n.document = e.document
        /\ n.response = e.response /\ n.result = r
    <3> HIDE DEF n
    <3> QED
      BY <2>3, <2>5 DEF Record, Places
  <2> HIDE DEF n
  <2>7. RecordInv(n)
    BY <2>3, <2>6 DEF RecordInv, ResponseInv, ResultInv, r
  <2>8. thread' \in [Thread -> Request]
    BY <1>1, <1>3 DEF ExtractPages
  <2> QED
    BY <2>1, <2>7, <2>8, OneRecord
<1>4. ASSUME NEW j \in Job, WorkerStep(j), ~ExtractPages(j) PROVE PdfInv'
  <2>1. /\ extraction[j].place # "done" /\ thread' = thread
        /\ \E place \in Places \ {"idle", "done"} :
              /\ Goto(j, place)
              /\ place \in {"ocr", "waiting"} => OcrPages(extraction[j].document) # <<>>
    <3>1. CASE ProfilePdf(j)
      BY <3>1 DEF ProfilePdf, At, Places
    <3>2. CASE ProfileFails(j)
      BY <3>2 DEF ProfileFails, At, Places
    <3>3. CASE CallScanner(j)
      <4>1. OcrPages(extraction[j].document) # <<>>
        BY <1>1, <3>3 DEF CallScanner, At, RecordInv, ResponseInv
      <4> QED
        BY <3>3, <4>1 DEF CallScanner, At, Places
    <3>4. CASE CallFails(j)
      BY <3>4 DEF CallFails, At, Places
    <3>5. CASE Deadline(j)
      BY <3>5 DEF Deadline, At, Places
    <3>6. CASE ExtractPagesFails(j)
      BY <3>6 DEF ExtractPagesFails, At, Places
    <3> QED
      BY <1>4, <3>1, <3>2, <3>3, <3>4, <3>5, <3>6 DEF WorkerStep
  <2>2. thread' \in [Thread -> Request]
    BY <1>1, <2>1
  <2> QED
    BY <2>1, <2>2, Going
<1>5. ASSUME NEW t \in Thread, NEW j \in Job, TakeRequest(t, j) PROVE PdfInv'
  <2>1. thread' \in [Thread -> Request]
    BY <1>1, <1>5 DEF TakeRequest, Request
  <2> QED
    BY <1>5, <2>1, NoRecord DEF TakeRequest
<1>6. ASSUME NEW t \in Thread, thread[t] # NoJob PROVE thread[t].job \in Job
  BY <1>1, <1>6 DEF Request
<1>7. ASSUME NEW t \in Thread, AnswerError(t) PROVE PdfInv'
  <2>1. thread' \in [Thread -> Request] /\ thread[t].job \in Job
    BY <1>1, <1>6, <1>7 DEF AnswerError, Request
  <2>2. CASE At(thread[t].job, "waiting")
    <3>1. Goto(thread[t].job, "failed") /\ extraction[thread[t].job].place # "done"
      BY <1>7, <2>2 DEF AnswerError, At
    <3> QED
      BY <2>1, <3>1, Going DEF Places
  <2>3. CASE ~At(thread[t].job, "waiting")
    BY <1>7, <2>1, <2>3, NoRecord DEF AnswerError
  <2> QED
    BY <2>2, <2>3
<1>8. ASSUME NEW t \in Thread, Answer(t) PROVE PdfInv'
  <2> DEFINE j == thread[t].job
             e == extraction[j]
             pages == OcrPages(e.document)
  <2>1. thread' \in [Thread -> Request] /\ j \in Job
    BY <1>1, <1>6, <1>8 DEF Answer, Request
  <2>2. PICK text \in Recognised(e.document, pages)
                      \union (IF "sidecar" \in Faults THEN {<<>>} ELSE {}) :
          LET response == [text |-> text, pageTexts |-> SplitSidecarText(text, pages)]
          IN IF ~At(j, "waiting") THEN UNCHANGED extraction
             ELSE IF response.text = <<>> /\ response.pageTexts = <<>> THEN Goto(j, "failed")
             ELSE extraction' = [extraction EXCEPT ![j].place = "pages",
                                                   ![j].response = response]
    BY <1>8 DEF Answer
  <2> DEFINE response == Response(e.document, text)
  <2>3. text \in ScannerTexts(e.document)
    BY DEF ScannerTexts
  <2>4. \/ UNCHANGED extraction
        \/ At(j, "waiting") /\ Goto(j, "failed")
        \/ /\ At(j, "waiting")
           /\ extraction' = [extraction EXCEPT ![j].place = "pages", ![j].response = response]
    BY <2>2 DEF Response
  <2> HIDE DEF j
  <2>5. CASE UNCHANGED extraction
    BY <2>1, <2>5, NoRecord
  <2>6. CASE At(j, "waiting") /\ Goto(j, "failed")
    BY <2>1, <2>6, Going DEF At, Places
  <2>7. CASE At(j, "waiting") /\ extraction' = [extraction EXCEPT ![j].place = "pages",
                                                               ![j].response = response]
    <3> DEFINE r == response
               n == [e EXCEPT !.place = "pages", !.response = r]
    <3>1. extraction' = [extraction EXCEPT ![j] = n]
      BY <2>7
    <3>2. RecordInv(e) /\ e.place = "waiting"
      BY <1>1, <2>1, <2>7 DEF At
    <3> HIDE DEF e
    <3>3. e \in Record /\ e.document \in Seq(Page)
      BY <3>2, Files DEF RecordInv, Record
    <3>4. Answered(e.document, r)
      BY <2>3, <3>2 DEF Answered, RecordInv, ResponseInv
    <3>5. r \in Responses
      BY <3>3, <3>4, ResponseTyped DEF Responses
    <3> HIDE DEF r
    <3>6. /\ n \in Record /\ n.place = "pages" /\ n.document = e.document
          /\ n.response = r /\ n.result = e.result
      BY <3>3, <3>5 DEF Record, Places
    <3> HIDE DEF n
    <3>7. RecordInv(n)
      BY <3>2, <3>4, <3>6 DEF RecordInv, ResponseInv, ResultInv
    <3> QED
      BY <2>1, <3>1, <3>7, OneRecord
  <2> QED
    BY <2>4, <2>5, <2>6, <2>7
<1>9. CASE UNCHANGED vars
  BY <1>1, <1>9, NoRecord DEF vars
<1> QED
  BY <1>2, <1>3, <1>4, <1>5, <1>7, <1>8, <1>9 DEF Next, ScannerStep, AllEnded

-----------------------------------------------------------------------------
(* The theorems.                                                           *)

\* A response is what the scanner makes of the scanned pages of its file,
\* whatever parts its sidecar file has, and a result is made of that file and
\* response only: what the threads answer for the file of another extraction is in no
\* result, however the requests and deadlines interleave.
THEOREM PdfInvariant == Spec => []PdfInv
BY InitPdf, NextPdf, PTL DEF Spec

\* Every variable has its type.
THEOREM PdfTypes == Spec => []TypeOK
<1>1. PdfInv => TypeOK
  BY DEF PdfInv
<1> QED
  BY PdfInvariant, <1>1, PTL

\* The invariant of an extraction that is done.
LEMMA DoneResult ==
    ASSUME PdfInv, NEW j \in Job, Done(j)
    PROVE  LET e == extraction[j]
           IN /\ e.document \in Seq(Page)
              /\ Answered(e.document, e.response)
              /\ e.result = ExtractionResult(e.document, e.response)
              /\ e.result.pages = Extracted(e.document, e.response)
<1> DEFINE e == extraction[j]
<1>1. RecordInv(e) /\ e.place = "done"
  BY PdfInvByRecord DEF Done
<1> HIDE DEF e
<1>2. e.document \in Seq(Page)
  BY <1>1, Files DEF RecordInv, Record
<1>3. Answered(e.document, e.response) /\ e.result = ExtractionResult(e.document, e.response)
  BY <1>1 DEF RecordInv, ResponseInv, ResultInv
<1>4. e.result.pages = Extracted(e.document, e.response)
  BY <1>2, <1>3, ResultTyped
<1> QED
  BY <1>2, <1>3, <1>4 DEF e

\* For a file of any length, as much of what the scanner says as there are
\* requested pages is in the content of the result, once each and in its order:
\* dealing the parts out by position loses those beyond that number and no
\* other, whatever pages were empty or skipped.
THEOREM RecognisedWordsAreKept == Spec => []RecognisedTextIsKept
<1>1. PdfInv => RecognisedTextIsKept
  <2> SUFFICES ASSUME PdfInv, NEW j \in Job, Done(j)
               PROVE  LET parts == Select(extraction[j].response.text, Reading)
                          requested == Len(OcrPages(extraction[j].document))
                      IN Select(Content(extraction[j].result), OcrWords)
                         = SubSeq(parts, 1,
                                  IF Len(parts) <= requested THEN Len(parts) ELSE requested)
    BY DEF RecognisedTextIsKept, OcrWords, Parts
  <2> DEFINE e == extraction[j]
  <2>1. /\ e.document \in Seq(Page) /\ Answered(e.document, e.response)
        /\ e.result = ExtractionResult(e.document, e.response)
    BY DoneResult
  <2> QED
    BY <2>1, WordsAreKept
<1> QED
  BY PdfInvariant, <1>1, PTL

\* If the parts begin with those of the requested pages, every text of the
\* result is from its own page of the file.
THEOREM TextsOfTheirPages == Spec => []TextIsOfItsPage
<1>1. PdfInv => TextIsOfItsPage
  <2> SUFFICES ASSUME PdfInv, NEW j \in Job, Done(j),
                      LET parts == Select(extraction[j].response.text, Reading)
                          pages == OcrPages(extraction[j].document)
                      IN \A i \in DOMAIN parts \intersect DOMAIN pages : parts[i].page = pages[i],
                      NEW p \in DOMAIN extraction[j].result.pages
               PROVE  LET text == extraction[j].result.pages[p].text
                      IN text = Empty \/ text.page = p
    BY DEF TextIsOfItsPage, Parts
  <2> DEFINE e == extraction[j]
  <2>1. /\ e.document \in Seq(Page) /\ Answered(e.document, e.response)
        /\ e.result = ExtractionResult(e.document, e.response)
        /\ e.result.pages = Extracted(e.document, e.response)
    BY DoneResult
  <2>2. p \in 1..Len(e.document)
    BY <2>1 DEF Extracted
  <2> QED
    BY <2>1, <2>2, WordsOfThePage
<1> QED
  BY PdfInvariant, <1>1, PTL

\* A page with enough characters, or without images, keeps its own text,
\* whatever the scanner answers.
THEOREM LocalPagesAreKept == Spec => []LocalPagesKeepTheirText
<1>1. PdfInv => LocalPagesKeepTheirText
  <2> SUFFICES ASSUME PdfInv, NEW j \in Job, Done(j),
                      NEW p \in DOMAIN extraction[j].document,
                      \/ extraction[j].document[p].chars >= TextThreshold
                      \/ extraction[j].document[p].images < ImageThreshold,
                      extraction[j].document[p].chars > 0
               PROVE  extraction[j].result.pages[p].text
                         \in {Words(p, "pymupdf"), Words(p, "pdfplumber")}
    BY DEF LocalPagesKeepTheirText
  <2> DEFINE e == extraction[j]
  <2>1. /\ e.document \in Seq(Page) /\ Answered(e.document, e.response)
        /\ e.result = ExtractionResult(e.document, e.response)
    BY DoneResult
  <2> QED
    BY <2>1, LocalPage
<1> QED
  BY PdfInvariant, <1>1, PTL

\* The strategy chosen from the profiles and the parser summarised from the
\* pages tell the same story of every result.
THEOREM StrategyAndParser == Spec => []ParserAgreesWithStrategy
<1>1. PdfInv => ParserAgreesWithStrategy
  <2> SUFFICES ASSUME PdfInv, NEW j \in Job, Done(j)
               PROVE  LET result == extraction[j].result
                      IN /\ result.parser = "ocr" <=> result.strategy \in {"ocr_pages", "hybrid"}
                         /\ result.parser \in {"hybrid", "table-aware"} =>
                               result.strategy = "pdfplumber"
    BY DEF ParserAgreesWithStrategy
  <2> DEFINE e == extraction[j]
  <2>1. /\ e.document \in Seq(Page) /\ Answered(e.document, e.response)
        /\ e.result = ExtractionResult(e.document, e.response)
    BY DoneResult
  <2> QED
    BY <2>1, ParserOfResult
<1> QED
  BY PdfInvariant, <1>1, PTL
=============================================================================
