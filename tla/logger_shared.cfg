SPECIFICATION Spec
CONSTANTS
    Procs = {m, w1, w2}
    Master = m
    MaxLines = 2
    OldFiles <- Restart
    MaxIndex = 4
    LastDay = 2
    NoFile = NoFile
    m = m
    w1 = w1
    w2 = w2
INVARIANTS TypeOK SharedBound OpenHasRoom OldFilesUntouched
CHECK_DEADLOCK FALSE
