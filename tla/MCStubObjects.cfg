SPECIFICATION Spec
CONSTANTS
    x1 = x1
    x2 = x2
    synced = synced
    t1 = t1
    t2 = t2
    Specs <- MCSpecs
    OtherTypes <- MCTypes
    Times <- MCTimes
    Ready = Ready
    Nil = Nil
    NoObject = NoObject
    MaxWrites = 4
INVARIANTS
    TypeOK
    OneOfEachType
PROPERTIES
    OnlyOwnersWrite
    OthersConditionsKept
SYMMETRY MCSymmetry
CHECK_DEADLOCK FALSE
