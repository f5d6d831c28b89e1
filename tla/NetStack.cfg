SPECIFICATION FairSpec
CONSTANTS
    Timeout = 1
    FirstPort = 7
    LastPort = 8
    SocketBound = 2
    HandleBound = 3
    QueueBound = 1
INVARIANTS
    ConnectionsLive
    SocketsAccounted
    OneDeadline
PROPERTIES
    EndAfterData
    CallsReturn
