SPECIFICATION Spec
CONSTANTS
    h1 = h1
    h2 = h2
    n1 = n1
    n2 = n2
    p1 = p1
    p2 = p2
    Invalid = Invalid
    Blank = Blank
    NoPos = NoPos
    NoLink = NoLink
    Node <- TwoNodes
    Path <- OnePath
    Hash <- OneHash
    NetworkID <- OneNet
    RouteType <- TwoRoutes
    Kind <- OneKind
    Position <- OnePosition
    Far <- NoFar
    Window = 1
    LoadMayFail = FALSE
    MaxTime = 2
    MaxPackets = 3
    MaxCrashes = 1
CHECK_DEADLOCK FALSE
INVARIANT SegmentsAreMoves
