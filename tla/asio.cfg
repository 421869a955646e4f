SPECIFICATION LiveSpec
CONSTANTS
    c1 = c1
    c2 = c2
    Conns = {c1, c2}
    NoConn = NoConn
    Fds = {5, 6, 7}
    Requests <- Browsed
    NoRequest = NoRequest
    Pieces = 2
    SndCap = 1
    Faults = {"setup", "accept", "assign"}
INVARIANTS TypeOK DescriptorsHeld
PROPERTIES ImplementsService ServedInTurn AnswersDelivered
CHECK_DEADLOCK FALSE
