CONSTANTS
    Calls = {c1, c2}
    NoCall = NoCall
    Null = Null
    MaxId = 3
    Workloads <- AnyKinds
    MaxEntries = 1
SPECIFICATION Spec
SYMMETRY CallSymmetry
INVARIANTS
    TypeOK
    Matched
    DriverSurvives
    StreamComplete
    NoSpuriousLoss
    DrainsWhenQuiescent
PROPERTIES
    ReleasesOnlyFinished
