CONSTANTS
    Op = {o1, o2, o3}
    Context = {default, tenant}
    DefaultContext = default
    Content = {text}
    NChunks = 4
    Kinds = {"worker", "reindex", "delete"}
    Faults = {"vectors"}
    NoRow = NoRow
    Search = {s1}
    Query <- MCQuery
    SourceOf <- MCSourceOf
SPECIFICATION SearchSpec
SYMMETRY CallSymmetry
INVARIANTS
    SearchTypeOK
    AnswersStayInContext
    AnswersWereStored
    IngestedIsFound
    DeletedIsNotFound
PROPERTIES
    ExactTermsSurface
