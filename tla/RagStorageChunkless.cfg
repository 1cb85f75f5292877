CONSTANTS
    Op = {o1, o2}
    Context = {default, tenant}
    DefaultContext = default
    Content = {text}
    NChunks = 2
    Kinds = {"worker"}
    Faults = {"embedding"}
    NoRow = NoRow
SPECIFICATION Spec
INVARIANTS
    StoredDocumentsHaveChunks
