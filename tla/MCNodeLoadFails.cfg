SPECIFICATION Spec
CONSTANTS
    k1 = k1
    k2 = k2
    n1 = n1
    n2 = n2
    p1 = p1
    p2 = p2
    NoPos = NoPos
    NoNode = NoNode
    PubKey <- OneKey
    NetworkID <- OneNet
    Position <- NoPositions
    Areas <- NoCoverage
    Near <- NoCoverage
    MaxAdverts = 1
    LoadMayFail = TRUE
    MaxHeard = 3
    MaxCrashes = 1
CHECK_DEADLOCK FALSE
PROPERTY DurableRowsAdvance
