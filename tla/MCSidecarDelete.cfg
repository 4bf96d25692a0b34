SPECIFICATION FairSpec
CONSTANTS
    Scripts <- MCScripts
    Targets <- MCTargets
    TopDir = ""
    Rank <- MCRank
    Specs <- OneSpec
    NoStub = NoStub
    Absent = Absent
    InPlace <- MCInPlace
    Heartbeats = TRUE
    MaxEdits = 1
    MaxEvents = 1
    MaxFaults = 0
    MaxCrashes = 0
PROPERTIES
    DeletedIsWithdrawn
CHECK_DEADLOCK FALSE
