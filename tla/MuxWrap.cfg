CONSTANTS
    Calls = {c1, c2, c3}
    NoCall = NoCall
    Null = Null
    MaxId = 2
    Workloads <- MostlySingles
    MaxEntries = 0
SPECIFICATION Spec
SYMMETRY CallSymmetry
INVARIANTS
    Matched
    DriverSurvives
    NoSpuriousLoss
PROPERTIES
    ReleasesOnlyFinished
