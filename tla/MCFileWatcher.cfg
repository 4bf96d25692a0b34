SPECIFICATION FairSpec
CONSTANTS
    Files <- MCFiles
    DirLinks <- MCLinks
    Rank <- MCRank
    Absent = Absent
    InPlace <- MCInPlace
    MaxEdits = 2
    MaxFaults = 1
    MaxCrashes = 1
INVARIANTS
    TypeOK
    RecordedIsServed
    CopyAllComplete
PROPERTIES
    ImplementsStubDir
    EventuallyServed
CHECK_DEADLOCK FALSE
