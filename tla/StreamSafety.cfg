CONSTANTS
    Chains <- AllChains
    ResultSets <- AllResultSets
    MayCancel = TRUE
    MaxItems = 2
    MaxPages = 2
SPECIFICATION FairSpec
INVARIANTS
    TypeOK
    InOrder
    WholeSearch
    RefsCollected
    PagesAlike
    FinishTruthful
PROPERTIES
    ImplementsResultStream
    ReadsToEnd
