SPECIFICATION Spec
CONSTANTS
    c1 = c1
    c2 = c2
    Conns <- OneConn
    NoConn = NoConn
    NoRequest = NoRequest
    Fds = {5, 6}
    Listen = 4
    Requests <- Versions10
    MaxRequests = 3
    Pieces = 2
    SndCap = 2
    MaxEvents = 2
    PeerMoves = {"split", "pipeline", "fin", "rst"}
    Faults = {}
INVARIANTS TypeOK StreamIntact LastHeaderDecides
PROPERTIES ClosesAfterFlush ImplementsService
CHECK_DEADLOCK FALSE
