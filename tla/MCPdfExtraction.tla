--------------------------- MODULE MCPdfExtraction ---------------------------
(* PdfExtraction for TLC: pages that differ in what the extraction looks at, *)
(* and files made of up to three of them.                                    *)
EXTENDS PdfExtraction

APage(chars, images, drawings, tables, cells, ocr) ==
    [chars |-> chars, images |-> images, drawings |-> drawings,
     tables |-> tables, cells |-> cells, ocr |-> ocr]

\* At both thresholds (2 characters, 1 image, 8 drawings) and below them.
Pictured == APage(2, 1, 7, FALSE, TRUE, "skipped")   \* text with a picture
Table == APage(2, 0, 8, FALSE, TRUE, "skipped")      \* a table seen by its drawings
Scan == APage(0, 1, 0, FALSE, FALSE, "words")        \* a scan
Blank == APage(0, 1, 0, FALSE, FALSE, "none")        \* a scan without words
Caption == APage(1, 1, 8, FALSE, FALSE, "skipped")   \* a caption under a picture
Bare == APage(0, 0, 0, FALSE, FALSE, "none")         \* an empty page
BadTable == APage(1, 0, 0, TRUE, FALSE, "skipped")   \* a table pdfplumber does not read

Files(pages, length) == [1..length -> pages]

MCDocument ==
    Files({Pictured, Scan, Blank}, 3)
    \union UNION {Files({Pictured, Table, Scan, Caption, Bare, BadTable}, n) : n \in 0..2}
    \union Files({Pictured}, MaxPages + 1)
=============================================================================
