SPECIFICATION LiveSpec
CONSTANTS
    c1 = c1
    c2 = c2
    Conns <- MCConns
    NoConn = NoConn
    NoRequest = NoRequest
    Fds = {5, 6, 7}
    Listen = 4
    Requests <- Mixed
    MaxRequests = 1
    Pieces = 2
    SndCap = 1
    MaxEvents = 2
    PeerMoves = {"fin", "rst"}
    Faults = {}
INVARIANTS NonKeepAliveCloses
PROPERTIES ConnectionsAccepted RequestsAnswered RepliesDelivered DepartedReleased
CHECK_DEADLOCK FALSE
