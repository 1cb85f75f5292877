---------------------------- MODULE PdfExtraction ----------------------------
(***************************************************************************)
(* PDF extraction: PdfProcessingService (app/services/pdf_processing.py)   *)
(* in the workers, the gRPC client (app/adapters/pdf_scanner_client.py)    *)
(* and the scanner service (scanner_service/server.py) with its threads.   *)
(*                                                                         *)
(* A text is the page whose words it holds and how they were read; what    *)
(* the words are does not matter.  What ocrmypdf writes into its sidecar   *)
(* file is external: see Recognised.                                       *)
(***************************************************************************)
EXTENDS Naturals, Sequences

CONSTANTS
    Job,             \* the extractions made during a behaviour
    Thread,          \* the scanner's threads (PDF_SCANNER_WORKERS)
    Document,        \* the PDF files: sequences of pages
    TextThreshold,   \* PDF_TEXT_THRESHOLD
    ImageThreshold,  \* PDF_IMAGE_THRESHOLD
    MaxPages,        \* PDF_MAX_PAGES
    Faults           \* which faults the environment injects

AllFaults == {"file", "parse", "unreachable", "ocr", "sidecar"}

\* What PyMuPDF counts on a page (characters, images, drawings), whether it
\* finds tables, whether pdfplumber gets text out of them, and what OCR makes
\* of it when it is requested: words, nothing, or no attempt (--skip-text).
Page == [chars: Nat, images: Nat, drawings: Nat, tables: BOOLEAN, cells: BOOLEAN,
         ocr: {"words", "none", "skipped"}]

ASSUME DocumentAssumption == Document \subseteq Seq(Page)
ASSUME ThresholdAssumption == TextThreshold \in Nat /\ ImageThreshold \in Nat /\ MaxPages \in Nat
ASSUME FaultsAssumption == Faults \subseteq AllFaults

VARIABLES
    extraction,   \* where an extraction is, its file, the scanner's response, the result
    thread        \* the request a scanner thread works on

vars == <<extraction, thread>>

NoResponse == [text |-> <<>>, pageTexts |-> <<>>]
NoResult == [strategy |-> "none", parser |-> "none", pages |-> <<>>]
NoJob == [job |-> "none"]

\* No words, and the words of page p as PyMuPDF, pdfplumber or OCR reads them,
\* or the remark of OCR that it has skipped the page.
Empty == [page |-> 0, by |-> "none"]
Words(p, by) == [page |-> p, by |-> by]

\* The texts that are not empty.
Reading == [page: Nat, by: {"pymupdf", "pdfplumber", "ocr", "skipped"}]

\* The members of s that are in S, in their order: a list comprehension with a
\* condition.  (SelectSeq, by a recursion that the proofs can expand.)
Select(s, S) ==
    LET upTo[i \in 0..Len(s)] ==
            IF i = 0 THEN <<>>
            ELSE IF s[i] \in S THEN Append(upTo[i - 1], s[i]) ELSE upTo[i - 1]
    IN upTo[Len(s)]

-----------------------------------------------------------------------------
(* Profiles and strategy.                                                  *)

\* Mutant: a page with as many characters as the threshold counts as scanned.
ScannedAtThreshold(page) == page.chars <= TextThreshold /\ page.images >= ImageThreshold

Scanned(page) == page.chars < TextThreshold /\ page.images >= ImageThreshold

TableCandidate(page) == ~Scanned(page) /\ (page.drawings >= 8 \/ page.tables)

\* The pages that are sent to the scanner, in ascending order.
OcrPages(document) ==
    Select([p \in 1..Len(document) |-> p], {p \in 1..Len(document) : Scanned(document[p])})

\* Mutant: the strategy is named after the parser.
StrategyMisnamed(document) ==
    LET scanned == \E i \in DOMAIN document : Scanned(document[i])
    IN IF scanned THEN "ocr" ELSE "pymupdf"

Strategy(document) ==
    LET scanned == \E i \in DOMAIN document : Scanned(document[i])
        tables == \E i \in DOMAIN document : TableCandidate(document[i])
    IN IF scanned /\ tables THEN "hybrid"
       ELSE IF scanned THEN "ocr_pages"
       ELSE IF tables THEN "pdfplumber"
       ELSE "pymupdf"

-----------------------------------------------------------------------------
(* The scanner's answer.                                                   *)

\* What OCR has to say of a page.
PagePart(document, pages, p) ==
    LET requested == \E i \in DOMAIN pages : pages[i] = p
    IN IF ~requested \/ document[p].ocr = "skipped" THEN Words(p, "skipped")
       ELSE IF document[p].ocr = "words" THEN Words(p, "ocr")
       ELSE Empty

\* The texts that ocrmypdf may write for the requested pages: the parts of
\* some pages of the file in their order, of all those that it worked on, and
\* a remark for none, some or all of those that it skipped.
Recognised(document, pages) ==
    LET numbers == [p \in 1..Len(document) |-> p]
        worked == {p \in 1..Len(document) : PagePart(document, pages, p) # Words(p, "skipped")}
        Sidecar(written) ==
            LET kept == Select(numbers, written)
            IN [i \in 1..Len(kept) |-> PagePart(document, pages, kept[i])]
    IN {Sidecar(worked \union remarked) : remarked \in SUBSET (1..Len(document))}

Pair(page, text) == [page |-> page, text |-> text]

\* Mutant: the parts belong to the first pages of the file.
SplitFromFirstPage(text, pages) ==
    LET parts == Select(text, Reading)
    IN [i \in 1..Len(pages) |-> Pair(i, IF i \in DOMAIN parts THEN parts[i] ELSE Empty)]

\* Mutant: with too few parts only the first one is used.
SplitFirstPart(text, pages) ==
    LET parts == Select(text, Reading)
    IN IF Len(parts) = Len(pages)
       THEN [i \in DOMAIN pages |-> Pair(pages[i], parts[i])]
       ELSE <<Pair(pages[1], IF parts = <<>> THEN Empty ELSE parts[1])>>

\* _split_sidecar_text: the parts that are not empty are dealt out to the
\* requested pages, of which there is at least one, by position.  What they
\* are the parts of is not asked, and more of them than pages are cut off.
SplitSidecarText(text, pages) ==
    LET parts == Select(text, Reading)
    IN IF Len(parts) = Len(pages)
       THEN [i \in DOMAIN pages |-> Pair(pages[i], parts[i])]
       ELSE IF Len(parts) = 1
       THEN <<Pair(pages[1], parts[1])>>
       ELSE [i \in DOMAIN pages |->
                Pair(pages[i], IF i \in DOMAIN parts THEN parts[i] ELSE Empty)]

\* _ocr_text_by_page(...).get(p, "").
OcrText(response, p) ==
    IF \E i \in DOMAIN response.pageTexts : response.pageTexts[i].page = p
    THEN response.pageTexts[CHOOSE i \in DOMAIN response.pageTexts :
                                response.pageTexts[i].page = p].text
    ELSE Empty

-----------------------------------------------------------------------------
(* Extraction of the pages.                                                *)

\* Mutant: the name of the parser is not corrected for a scanned page.
ExtractPageUncorrected(document, p, response) ==
    LET page == document[p]
        ocrText == OcrText(response, p)
        plumber == Strategy(document) \in {"pdfplumber", "hybrid"}
    IN IF ocrText # Empty
       THEN [parser |-> "ocr", text |-> ocrText]
       ELSE IF TableCandidate(page) /\ plumber /\ page.cells
       THEN [parser |-> "pdfplumber", text |-> Words(p, "pdfplumber")]
       ELSE [parser |-> "pymupdf",
             text |-> IF page.chars > 0 THEN Words(p, "pymupdf") ELSE Empty]

\* _extract_page: OCR text first, then tables, then the page's own text.
ExtractPage(document, p, response) ==
    LET page == document[p]
        ocrText == OcrText(response, p)
        plumber == Strategy(document) \in {"pdfplumber", "hybrid"}
    IN IF ocrText # Empty
       THEN [parser |-> "ocr", text |-> ocrText]
       ELSE IF TableCandidate(page) /\ plumber /\ page.cells
       THEN [parser |-> "pdfplumber", text |-> Words(p, "pdfplumber")]
       ELSE [parser |-> IF page.images >= ImageThreshold /\ page.chars < TextThreshold
                        THEN "ocr" ELSE "pymupdf",
             text |-> IF page.chars > 0 THEN Words(p, "pymupdf") ELSE Empty]

SummarizeParser(pages) ==
    LET parsers == {pages[p].parser : p \in DOMAIN pages}
    IN IF "ocr" \in parsers THEN "ocr"
       ELSE IF {"pdfplumber", "pymupdf"} \subseteq parsers THEN "hybrid"
       ELSE IF "pdfplumber" \in parsers THEN "table-aware"
       ELSE "pymupdf"

ExtractionResult(document, response) ==
    LET pages == [p \in 1..Len(document) |-> ExtractPage(document, p, response)]
    IN [strategy |-> Strategy(document), parser |-> SummarizeParser(pages), pages |-> pages]

\* The content of a result: the texts of its pages, the empty ones left out.
Content(result) ==
    Select([p \in 1..Len(result.pages) |-> result.pages[p].text], Reading)

-----------------------------------------------------------------------------
Init ==
    /\ extraction = [j \in Job |-> [place |-> "idle", document |-> <<>>,
                                    response |-> NoResponse, result |-> NoResult]]
    /\ thread = [t \in Thread |-> NoJob]

Goto(j, place) == extraction' = [extraction EXCEPT ![j].place = place]

At(j, place) == extraction[j].place = place

Start(j) ==
    /\ At(j, "idle")
    /\ \E d \in Document :
          extraction' = [extraction EXCEPT ![j].place = "profile", ![j].document = d]
    /\ UNCHANGED thread

\* profile_pdf: a missing file and a file with too many pages are errors.
ProfilePdf(j) ==
    /\ At(j, "profile")
    /\ Len(extraction[j].document) <= MaxPages
    /\ Goto(j, IF OcrPages(extraction[j].document) = <<>> THEN "pages" ELSE "ocr")
    /\ UNCHANGED thread

ProfileFails(j) ==
    /\ At(j, "profile")
    /\ Len(extraction[j].document) > MaxPages \/ "file" \in Faults
    /\ Goto(j, "failed")
    /\ UNCHANGED thread

\* ocr_pdf: the bytes or the path of the file are sent, with a deadline.
CallScanner(j) ==
    /\ At(j, "ocr")
    /\ Goto(j, "waiting")
    /\ UNCHANGED thread

CallFails(j) ==
    /\ At(j, "ocr")
    /\ Faults \intersect {"file", "unreachable"} # {}
    /\ Goto(j, "failed")
    /\ UNCHANGED thread

\* Mutant: the deadline ends when a thread has taken the request.
DeadlineWhileQueued(j) ==
    /\ At(j, "waiting")
    /\ \A t \in Thread : thread[t].job # j
    /\ Goto(j, "failed")
    /\ UNCHANGED thread

\* The client's timeout.  A thread that has taken the request goes on.
Deadline(j) ==
    /\ At(j, "waiting")
    /\ Goto(j, "failed")
    /\ UNCHANGED thread

\* A free thread takes a request whose client still waits.
TakeRequest(t, j) ==
    /\ thread[t] = NoJob
    /\ At(j, "waiting")
    /\ \A other \in Thread : thread[other].job # j
    /\ thread' = [thread EXCEPT ![t] = [job |-> j]]
    /\ UNCHANGED extraction

\* OcrPdf answers.  The client refuses an answer without any text; an answer
\* after the deadline is dropped.
Answer(t) ==
    /\ thread[t] # NoJob
    /\ thread' = [thread EXCEPT ![t] = NoJob]
    /\ LET j == thread[t].job
           document == extraction[j].document
           pages == OcrPages(document)
       IN \E text \in Recognised(document, pages)
                      \union (IF "sidecar" \in Faults THEN {<<>>} ELSE {}) :
          LET response == [text |-> text, pageTexts |-> SplitSidecarText(text, pages)]
          IN IF ~At(j, "waiting") THEN UNCHANGED extraction
             ELSE IF response.text = <<>> /\ response.pageTexts = <<>> THEN Goto(j, "failed")
             ELSE extraction' = [extraction EXCEPT ![j].place = "pages",
                                                   ![j].response = response]

\* ocrmypdf fails, or the source path is refused: the RPC is aborted.
AnswerError(t) ==
    /\ "ocr" \in Faults
    /\ thread[t] # NoJob
    /\ thread' = [thread EXCEPT ![t] = NoJob]
    /\ IF At(thread[t].job, "waiting") THEN Goto(thread[t].job, "failed")
                                       ELSE UNCHANGED extraction

\* _extract_pages and the summary.
ExtractPages(j) ==
    /\ At(j, "pages")
    /\ extraction' = [extraction EXCEPT
          ![j].place = "done",
          ![j].result = ExtractionResult(extraction[j].document, extraction[j].response)]
    /\ UNCHANGED thread

ExtractPagesFails(j) ==
    /\ At(j, "pages")
    /\ "parse" \in Faults
    /\ Goto(j, "failed")
    /\ UNCHANGED thread

Ended(j) == extraction[j].place \in {"done", "failed"}

AllEnded ==
    /\ \A j \in Job : Ended(j)
    /\ \A t \in Thread : thread[t] = NoJob
    /\ UNCHANGED vars

\* What an extraction does without the scanner, the deadline included.
WorkerStep(j) ==
    \/ ProfilePdf(j) \/ ProfileFails(j) \/ CallScanner(j) \/ CallFails(j)
    \/ Deadline(j) \/ ExtractPages(j) \/ ExtractPagesFails(j)

ScannerStep(t) == Answer(t) \/ AnswerError(t) \/ \E j \in Job : TakeRequest(t, j)

Next ==
    \/ \E j \in Job : Start(j) \/ WorkerStep(j)
    \/ \E t \in Thread : ScannerStep(t)
    \/ AllEnded

\* The worker runs on and its deadlines expire; nothing is assumed of the
\* scanner, whose subprocess has no timeout.
Spec == Init /\ [][Next]_vars /\ \A j \in Job : WF_vars(WorkerStep(j))

-----------------------------------------------------------------------------
(* Properties.                                                             *)

Texts == {Empty} \union Reading

\* Every variable has its type.
TypeOK ==
    /\ extraction \in
          [Job -> [place: {"idle", "profile", "ocr", "waiting", "pages", "done", "failed"},
                   document: Document \union {<<>>},
                   response: [text: Seq(Texts), pageTexts: Seq([page: Nat, text: Texts])],
                   result: {NoResult} \union
                           [strategy: {"pymupdf", "pdfplumber", "ocr_pages", "hybrid"},
                            parser: {"pymupdf", "table-aware", "hybrid", "ocr"},
                            pages: Seq([parser: {"pymupdf", "pdfplumber", "ocr"},
                                        text: Texts])]]]
    /\ thread \in [Thread -> {NoJob} \union [job: Job]]

Done(j) == extraction[j].place = "done"

\* The parts of the scanner's text that are not empty.
Parts(j) == Select(extraction[j].response.text, Reading)

\* Of what the scanner says, as much as there are requested pages comes out in
\* the content, each part exactly once and in its order, whatever pages the
\* parts are of: only parts beyond that number are lost (server.py:44), so
\* none is if the scanner says nothing of other pages.
RecognisedTextIsKept ==
    \A j \in Job : Done(j) =>
        LET requested == Len(OcrPages(extraction[j].document))
            said == Len(Parts(j))
        IN Select(Content(extraction[j].result), [page: Nat, by: {"ocr", "skipped"}])
           = SubSeq(Parts(j), 1, IF said <= requested THEN said ELSE requested)

\* As long as the parts that are not empty begin with those of the requested
\* pages, one for each and in order, whatever comes after them, the text of
\* every page of the result comes from that very page of the file.
TextIsOfItsPage ==
    \A j \in Job :
        LET pages == OcrPages(extraction[j].document)
        IN Done(j) /\ (\A i \in DOMAIN Parts(j) \intersect DOMAIN pages :
                           Parts(j)[i].page = pages[i])
           => \A p \in DOMAIN extraction[j].result.pages :
                 LET text == extraction[j].result.pages[p].text
                 IN text = Empty \/ text.page = p

\* docs/pdf-ingestion.md: only scanned pages are sent to OCR, text pages are
\* parsed locally.  A page with enough characters or without images keeps its
\* own text, whatever the scanner answers for the other pages.
LocalPagesKeepTheirText ==
    \A j \in Job : Done(j) =>
        \A p \in DOMAIN extraction[j].document :
            LET page == extraction[j].document[p]
            IN (page.chars >= TextThreshold \/ page.images < ImageThreshold) /\ page.chars > 0
               => extraction[j].result.pages[p].text
                      \in {Words(p, "pymupdf"), Words(p, "pdfplumber")}

\* The strategy, chosen from the profiles before the extraction, and the
\* parser, summarised from the pages after it, tell the same: OCR in one if
\* and only if in the other, tables in the second only if in the first.
ParserAgreesWithStrategy ==
    \A j \in Job : Done(j) =>
        LET result == extraction[j].result
        IN /\ result.parser = "ocr" <=> result.strategy \in {"ocr_pages", "hybrid"}
           /\ result.parser \in {"hybrid", "table-aware"} => result.strategy = "pdfplumber"

\* An extraction that was started ends, even if the scanner never answers and
\* all its threads are busy with requests that nobody waits for.
EveryExtractionEnds == \A j \in Job : At(j, "profile") ~> Ended(j)
=============================================================================
