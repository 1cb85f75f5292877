CONSTANTS
    Op = {o1, o2, o3}
    Context = {default}
    DefaultContext = default
    Content = {text}
    NChunks = 2
    Kinds = {"ingest", "worker"}
    Faults = {"crash", "embedding"}
    NoRow = NoRow
SPECIFICATION FairSpec
PROPERTIES
    EveryCallEnds
