SPECIFICATION Spec
CONSTANTS
    s1 = s1
    s2 = s2
    p1 = p1
    p2 = p2
    app = app
    other = other
    forApp = forApp
    forAll = forAll
    bad = bad
    web = web
    tool = tool
    twice = twice
    usrbin = usrbin
    optbin = optbin
    Bin = Bin
    SidecarName = SidecarName
    FromSource = FromSource
    Both = Both
    NoStub = NoStub
    NoPod = NoPod
    NoRequest = NoRequest
    Stubs <- MCStubs
    Specs <- MCSpecs
    BadSpecs <- MCBad
    Labels <- MCLabels
    Selects <- MCSelects
    Pods <- TwoPods
    Manifests <- MCManifests
    DefaultPath <- MCDefaultPath
    Dirs <- MCDirs
    MaxChanges = 2
    MaxRequests = 3
    MaxFaults = 1
INVARIANTS
    TypeOK
    InjectedWhole
    OthersUntouched
    InjectedIfReachable
    CountedIsServed
SYMMETRY PodSymmetry
CHECK_DEADLOCK FALSE
