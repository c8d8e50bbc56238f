\* Two timers sharing a queue of two places with keys from other tasks; two
\* generations, so that ids expire, are cancelled, and come round.
SPECIFICATION Spec
CONSTANTS
    TimerMax = 2
    QueueDepth = 2
    GenMod = 3
    Intervals = {0, 2}
    Signals <- MCOneKey
    MaxNow = 4
INVARIANTS
    OnePendingPerSlot
    StaleIdSafe
PROPERTIES
    NoDrift
    DropOnlyInStorm
CHECK_DEADLOCK FALSE
