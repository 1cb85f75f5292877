CONSTANTS
    Op = {o1, o2}
    Worker = {w1, w2}
    Formats = {"text", "scanned", "other"}
    Context = {default}
    DefaultContext = default
    Content = {text}
    NChunks = 2
    Kinds = {"ingest", "worker", "reindex", "delete"}
    Faults = {"crash", "timeout", "embedding", "vectors"}
    PipelineFaults = {"crash", "timeout", "redis", "parse", "session", "disk"}
    NoRow = NoRow
    Removed = Removed
SPECIFICATION PipelineSpec
SYMMETRY CallAndWorkerSymmetry
INVARIANTS
    PipelineTypeOK
    TruncatedOnlyUnderFailedJob
PROPERTIES
    ImplementsUploadPipeline
    ImplementsDocumentStore
