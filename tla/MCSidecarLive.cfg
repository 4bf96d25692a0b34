SPECIFICATION FairSpec
CONSTANTS
    Scripts <- MCScripts
    Targets <- MCTargets
    TopDir = ""
    Rank <- MCRank
    Specs <- TwoSpecs
    NoStub = NoStub
    Absent = Absent
    InPlace <- MCInPlace
    Heartbeats = TRUE
    MaxEdits = 2
    MaxEvents = 1
    MaxFaults = 1
    MaxCrashes = 1
PROPERTIES
    HotReload
    EventuallyReady
CHECK_DEADLOCK FALSE
