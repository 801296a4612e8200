SPECIFICATION Spec
CONSTANTS
    a1 = a1
    a2 = a2
    Archive = {a1, a2}
    Source = {1, 2}
    Item = {1, 2, 3, 4}
    Context = {1}
    None = None
    MaxItems = 4
    Batches <- MCBatches
    Capacity = 1
    MaxJobs = 2
    Selected = a1
    MaxTroubles = 2
    MaxUpsets = 1
INVARIANTS ReadyHoldsTheSelectedArchive OutcomeIsDurable
PROPERTY ImportsComplete
CHECK_DEADLOCK FALSE
