CONSTANTS
    Calls = {c1, c2}
    NoCall = NoCall
    Null = Null
    MaxId = 2
    Workloads <- AdaptedOnly
    MaxEntries = 0
SPECIFICATION Spec
SYMMETRY CallSymmetry
INVARIANTS
    SlotFreeWhenQuiescent
