SPECIFICATION FairSpec
CONSTANTS
    net = net
    a1 = a1
    a2 = a2
    h1 = h1
    o1 = o1
    r1 = r1
    adv = adv
    s1 = s1
    s2 = s2
    NoObserver = NoObserver
    NoType = NoType
    NoState = NoState
    NoPacket = NoPacket
    Hash <- Hashes
    Observer <- Observers
    Node <- Nodes
    PayloadType <- Types
    NetworkID <- OneNet
    Only <- NoFilter
    Analyzer <- TwoAnalyzers
    Catalog <- Catalogs
    Source <- TwoSources
    Sources <- AnySources
    Packet <- OnePacket
    RateSecs = 1
    MaxTime = 1
    DedupWindow = 1
    ObserverTTL = 1
    SweepSecs = 2
    Requests = FALSE
    WithDB = FALSE
    MayReturn = FALSE
    LoadMayFail = FALSE
    MaxUpdates = 2
    MaxCrashes = 0
    MaxDrops = 2
    MaxPackets = 1
CHECK_DEADLOCK FALSE
INVARIANTS RoutesCountIntoStore
PROPERTIES DownIsShown
