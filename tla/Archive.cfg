SPECIFICATION Spec
CONSTANTS
    s1 = s1
    s2 = s2
    Source = {s1, s2}
    Archive = {p1}
    Item = {1, 2, 3}
    Context = {1, 2}
    None = None
    MaxItems = 2
    Legacy <- MCLegacy
    Batch <- MCBatch
    Query <- MCQuery
    PageSize = 1
    MaxSessions = 2
    MaxBatches = 2
INVARIANTS StoreReopens PagingIsExact
PROPERTY RowsAreTheSessions
CHECK_DEADLOCK FALSE
