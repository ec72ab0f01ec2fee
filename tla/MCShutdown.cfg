SPECIFICATION ShutSpec
CONSTANTS
    nodes = nodes
    links = links
    Collection <- MCCollection
    Links = links
    MaxChanges = 1
CHECK_DEADLOCK FALSE
INVARIANT FinalFlushCaptures
