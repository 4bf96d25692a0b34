SPECIFICATION FairSpec
CONSTANTS
    Scripts <- MCScripts
    Targets <- MCTargets
    TopDir = ""
    Rank <- MCRank
    Specs <- OneSpec
    NoStub = NoStub
    Absent = Absent
    InPlace <- MCInPlace
    Heartbeats = TRUE
    MaxEdits = 0
    MaxEvents = 1
    MaxFaults = 1
    MaxCrashes = 0
PROPERTIES
    WatchLossRecovered
CHECK_DEADLOCK FALSE
