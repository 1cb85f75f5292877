CONSTANTS
    Op = {o1, o2}
    Context = {default, tenant}
    DefaultContext = default
    Content = {text}
    NChunks = 2
    Kinds = {"ingest", "delete"}
    Faults = {}
    NoRow = NoRow
SPECIFICATION Spec
INVARIANTS
    DeletedVectorsAreGone
