SPECIFICATION Spec
CONSTANTS
    c1 = c1
    c2 = c2
    Conns <- MCConns
    NoConn = NoConn
    NoRequest = NoRequest
    Fds = {5, 6, 7}
    Listen = 4
    Requests <- WithDir
    MaxRequests = 1
    Pieces = 1
    SndCap = 1
    MaxEvents = 2
    PeerMoves = {"split", "pipeline", "fin", "rst"}
    Faults = {"accept", "add"}
SYMMETRY Clones
INVARIANTS Ownership WatchesWhatItOwes NoLostEdge HangupIsRead SleepsOnlyWhenIdle
CHECK_DEADLOCK FALSE
