\* One slot with the full 8-bit generation.
SPECIFICATION ReuseSpec
CONSTANTS
    TimerMax = 1
    QueueDepth = 1
    GenMod = 256
    Intervals = {1}
    Signals <- MCNoSignals
    MaxNow = 0
INVARIANTS
    StaleIdNeverNamesLiveTimer
CHECK_DEADLOCK FALSE
