SPECIFICATION PreforkLiveSpec
CONSTANTS
    WorkerCount = 2
    Faults = {"fork", "crash", "full"}
    Conns = {c1, c2}
INVARIANTS PreforkTypeOK ReapsAll DeliveredEnds EveryWorkerKnows
PROPERTIES MasterActsOnSignal ShutdownUnlessMissed BacklogServed
CHECK_DEADLOCK FALSE
