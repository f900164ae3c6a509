CONSTANTS
    Chains <- PagedOnly
    ResultSets <- AllResultSets
    MayCancel = TRUE
    MaxItems = 1
    MaxPages = 2
SPECIFICATION Spec
INVARIANTS
    NoneMeansWhole
