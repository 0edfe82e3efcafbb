SPECIFICATION FairSpec
CONSTANTS
    c1 = c1
    c2 = c2
    worker_thread = worker_thread
    Callers = {c1, c2}
    Worker = worker_thread
    MaxId = 2
    MaxDelay = 2
    Late = 1
    Faults = {}
INVARIANTS ClearedStaysQuiet NoneForgotten
PROPERTIES IsTimers EveryTimerFires EveryCallReturns
CHECK_DEADLOCK FALSE
