SPECIFICATION Spec
CONSTANTS
    c1 = c1
    c2 = c2
    Conns = {c1, c2}
    NoConn = NoConn
    Fds = {5, 6}
    Requests <- Browsed
    NoRequest = NoRequest
    Pieces = 1
    SndCap = 1
    Faults = {}
INVARIANTS ForbiddenIs403
CHECK_DEADLOCK FALSE
