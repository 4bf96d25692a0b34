SPECIFICATION FairSpec
CONSTANTS
    Absent = Absent
    Empty = Empty
    MaxRuns = 4
    MaxActive = 2
    MaxFaults = 2
INVARIANTS
    TypeOK
    SuccessAgrees
PROPERTIES
    RotationSettles
CHECK_DEADLOCK FALSE
