CONSTANTS
    Calls = {c1}
    NoCall = NoCall
    Null = Null
    MaxId = 1
    Workloads <- DirectOnly
    MaxEntries = 0
SPECIFICATION Spec
SYMMETRY CallSymmetry
INVARIANTS
    NextNeverPanics
