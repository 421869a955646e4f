SPECIFICATION LiveSpec
CONSTANTS
    c1 = c1
    c2 = c2
    Conns <- MCConns
    NoConn = NoConn
    NoRequest = NoRequest
    Fds = {5, 6}
    Listen = 4
    Requests <- KeepOrPut
    MaxRequests = 2
    Pieces = 2
    SndCap = 1
    MaxEvents = 2
    PeerMoves = {"fin", "rst"}
    Faults = {"accept", "add"}
INVARIANTS WorkerTypeOK StreamIntact WatchesWhatItOwes NoLostEdge
PROPERTIES ClosesAfterFlush ImplementsService ImplementsLife RepliedUnlessAsleep
CHECK_DEADLOCK FALSE
