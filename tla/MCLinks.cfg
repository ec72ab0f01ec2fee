SPECIFICATION MCSpec
CONSTANTS
    h1 = h1
    h2 = h2
    n1 = n1
    n2 = n2
    p1 = p1
    p2 = p2
    Invalid = Invalid
    Blank = Blank
    NoPos = NoPos
    NoLink = NoLink
    Node <- TwoNodes
    Path <- Paths
    Hash <- TwoHashes
    NetworkID <- TwoNets
    RouteType <- TwoRoutes
    Kind <- TwoKinds
    Position <- TwoPositions
    Far <- AllFar
    Window = 1
    LoadMayFail = TRUE
    MaxTime = 3
    MaxPackets = 3
    MaxCrashes = 1
CHECK_DEADLOCK FALSE
SYMMETRY Symmetry
INVARIANTS LinksInv DirectionsSum EveryEventHasANetwork SegmentsShareEvents SegmentsInOrder
PROPERTIES CountsOncePerWindow LinksAreWriteBehind
