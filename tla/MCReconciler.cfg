SPECIFICATION FairSpec
CONSTANTS
    s1 = s1
    s2 = s2
    p1 = p1
    p2 = p2
    both = both
    one = one
    bad = bad
    Stubs <- TwoStubs
    Pods <- MCPods
    StartPods <- MCStart
    Selectors <- MCSelectors
    BadSelectors <- MCBad
    Matches <- MCMatches
    NoStub = NoStub
    NoStatus = NoStatus
    NoKey = NoKey
    MaxAttempts = 3
    MaxChanges = 2
    MaxFaults = 2
INVARIANTS
    TypeOK
    NeverForgotten
PROPERTIES
    StatusConverges
    DeletedDrains
    HeartbeatGoesOn
CHECK_DEADLOCK FALSE
