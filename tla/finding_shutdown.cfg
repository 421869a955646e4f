SPECIFICATION LiveSpec
CONSTANTS
    WorkerCount = 2
    Faults = {}
PROPERTIES ShutdownCompletes
CHECK_DEADLOCK FALSE
