CONSTANTS
    Chains <- PagedOnly
    ResultSets <- AllResultSets
    MayCancel = FALSE
    MaxItems = 1
    MaxPages = 2
SPECIFICATION Spec
INVARIANTS
    FinishResult
