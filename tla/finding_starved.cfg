SPECIFICATION LiveSpec
CONSTANTS
    c1 = c1
    c2 = c2
    Conns <- MCConns
    NoConn = NoConn
    NoRequest = NoRequest
    Fds = {5, 6}
    Listen = 4
    Requests <- KeepOrClose
    MaxRequests = 1
    Pieces = 1
    SndCap = 1
    MaxEvents = 2
    PeerMoves = {}
    Faults = {}
PROPERTIES RequestsAnswered
CHECK_DEADLOCK FALSE
