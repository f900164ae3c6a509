CONSTANTS
    Calls = {c1, c2}
    NoCall = NoCall
    Null = Null
    MaxId = 2
    Workloads <- AtMostOneSearch
    MaxEntries = 0
SPECIFICATION FairSpec
PROPERTIES
    CallReturns
    StreamEnds
    DriverEndsAfterHandles
    DriverEndsAfterUnbind
