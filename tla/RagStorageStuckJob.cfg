CONSTANTS
    Op = {o1, o2}
    Context = {default, tenant}
    DefaultContext = default
    Content = {text}
    NChunks = 2
    Kinds = {"worker", "reindex", "delete"}
    Faults = {}
    NoRow = NoRow
SPECIFICATION FairSpec
PROPERTIES
    JobSettles
