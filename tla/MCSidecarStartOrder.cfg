SPECIFICATION Spec
CONSTANTS
    Scripts <- MCScripts
    Targets <- MCTargets
    TopDir = ""
    Rank <- MCRank
    Specs <- OneSpec
    NoStub = NoStub
    Absent = Absent
    InPlace <- MCInPlace
    Heartbeats = FALSE
    MaxEdits = 0
    MaxEvents = 1
    MaxFaults = 0
    MaxCrashes = 0
PROPERTIES
    BusinessAfterSync
CHECK_DEADLOCK FALSE
