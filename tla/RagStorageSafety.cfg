CONSTANTS
    Op = {o1, o2, o3}
    Context = {default, tenant}
    DefaultContext = default
    Content = {text, other}
    NChunks = 2
    Kinds = {"ingest", "worker", "reindex", "delete"}
    Faults = {"crash", "timeout", "embedding", "vectors"}
    NoRow = NoRow
    Removed = Removed
SPECIFICATION Spec
SYMMETRY CallSymmetry
INVARIANTS
    TypeOK
    OneDocumentPerPayload
    JobsReferToTheirContext
    MissingVectorsAreAccountedFor
    TruncatedOnlyUnderFailedJob
    RowsImplyCollection
    SyncIngestIsAllOrNothing
PROPERTIES
    ImplementsDocumentStore
