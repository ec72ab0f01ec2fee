SPECIFICATION Spec
CONSTANTS
    net = net
    a1 = a1
    a2 = a2
    h1 = h1
    o1 = o1
    r1 = r1
    adv = adv
    s1 = s1
    s2 = s2
    NoObserver = NoObserver
    NoType = NoType
    NoState = NoState
    NoPacket = NoPacket
    Hash <- Hashes
    Observer <- Observers
    Node <- Nodes
    PayloadType <- Types
    NetworkID <- OneNet
    Only <- NoFilter
    Analyzer <- OneAnalyzer
    Catalog <- FixedCatalog
    Source <- OneSource
    Sources <- FixedSources
    Packet <- Packets
    RateSecs = 2
    MaxTime = 4
    DedupWindow = 1
    ObserverTTL = 2
    SweepSecs = 1
    Requests = TRUE
    WithDB = TRUE
    MayReturn = FALSE
    LoadMayFail = FALSE
    MaxUpdates = 0
    MaxCrashes = 1
    MaxDrops = 0
    MaxPackets = 4
CHECK_DEADLOCK FALSE
ACTION_CONSTRAINTS ShortOnceFlushed
INVARIANTS TypeOK DedupsAgree RateIsExact UniqueAreObserved ObserversAreNodes
PROPERTIES PacketsCountOnce DurableTotalsAdvance
