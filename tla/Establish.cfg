CONSTANTS
    MaxStray = 2
SPECIFICATION FairSpec
INVARIANTS
    TypeOK
    SecureOrError
    CleanStart
PROPERTIES
    Returns
    TaskEnds
