CONSTANTS
    Upload = {u1, u2}
    Worker = {w1, w2}
    Formats = {"text", "scanned", "other"}
    Faults = {"crash", "timeout", "redis", "parse", "session", "disk"}
SPECIFICATION FairSpec
INVARIANTS
    TypeOK
    TasksFindTheirFile
    OneIngestTaskPerUpload
PROPERTIES
    CompletedJobsStaySettled
    UploadsSettle
