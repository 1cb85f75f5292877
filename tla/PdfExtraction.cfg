CONSTANTS
    Job = {j1, j2}
    Thread = {t1}
    Document <- MCDocument
    TextThreshold = 2
    ImageThreshold = 1
    MaxPages = 3
    Faults = {"file", "parse", "unreachable", "ocr", "sidecar"}
SPECIFICATION Spec
INVARIANTS
    TypeOK
    RecognisedTextIsKept
    TextIsOfItsPage
    LocalPagesKeepTheirText
    ParserAgreesWithStrategy
PROPERTIES
    EveryExtractionEnds
