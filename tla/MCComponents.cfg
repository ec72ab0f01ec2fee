SPECIFICATION MCSpec
CONSTANTS
    k1 = k1
    k2 = k2
    n1 = n1
    c1 = c1
    c2 = c2
    p1 = p1
    p2 = p2
    r1 = r1
    r2 = r2
    m1 = m1
    m2 = m2
    cz = cz
    us = us
    eu868 = eu868
    us915 = us915
    Absent = Absent
    Key <- TwoKeys
    Value <- MCValue
    NetworkID <- OneNet
    Legacy <- NoLegacy
    MaxReports = 3
    LoadMayFail = TRUE
    Client <- TwoClients
    Pulse <- TwoKeys
    NoHash = NoHash
    BufferSize = 1
    LiveWindow = 2
    HubMaxTime = 3
    MaxPulses = 4
    PubKey <- TwoKeys
    Batch <- MCBatch
    Limit = {1, 2}
    MaxAdverts = 5
    RNode = {1, 2, 3, 4, 5, 6}
    RLink <- MCLinks
    RNet <- TwoNets
    NoStat = NoStat
    NoCache = NoCache
    MaxActivity = 2
    EdgeCost <- MCCost
    RouteBetween <- RouteOver
    RouteTTL = 1
    Request <- TwoRequests
    Query <- MCQuery
    RouteMaxTime = 3
    DirKey <- OneKey
    NoKey = NoKey
    Publish <- TwoPublishes
    NoEntry = NoEntry
    MaxEdits = 2
    MaxRestarts = 1
    Placed = {p1}
    LiveNode = LiveNode
    NoContent = NoContent
    MaxSeconds = 2
    MaxChanges = 1
    SearchKey = {1, 2}
    SearchNet <- TwoNets
    CountriesOf <- MCCountries
    RegionsOf <- MCRegions
    Filter <- MCFilter
    SearchLimit = {1, 2}
    NoRecord = NoRecord
    MaxSightings = 1
CHECK_DEADLOCK FALSE
INVARIANTS ProtocolInv CountsReportsOnce NoSendAfterClose SearchIsRanked
PROPERTIES EventuallyDurable PulsesOncePerWindow ClientsLeave PagesAreHistory RouteIsCheapest RouteMissesOnlyNews MCEventuallyCaptured SnapshotsResolve MCSnapshotsConverge
