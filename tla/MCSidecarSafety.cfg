SPECIFICATION Spec
CONSTANTS
    Scripts <- MCScripts
    Targets <- MCTargets
    TopDir = ""
    Rank <- MCRank
    Specs <- ThreeSpecs
    NoStub = NoStub
    Absent = Absent
    InPlace <- MCInPlace
    Heartbeats = FALSE
    MaxEdits = 2
    MaxEvents = 3
    MaxFaults = 1
    MaxCrashes = 1
INVARIANTS
    TypeOK
    SyncedServed
    NoMissedUpdate
    TmpLeakBounded
PROPERTIES
    ImplementsStubDir
CHECK_DEADLOCK FALSE
