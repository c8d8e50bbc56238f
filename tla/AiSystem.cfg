\* The boot and the loop of one life of the chip.
SPECIFICATION FairSpec
CONSTANTS
    js = js
    vm = vm
    smoke = smoke
    other = other
    None = None
    TimerMax = 1
    QueueDepth = 2
    GenMod = 2
    Intervals = {1}
    Signals <- MCKeys
    MaxNow = 6
    Runtimes <- MCRuntimes
    LangOf <- MCLangOf
    RegistryMax = 1
    VMs <- MCVMs
    Manifests <- MCManifests
    Listings <- MCListings
    AppMax = 2
    Js = js
    Smoke <- MCSmoke
    Heartbeat = 1
    FirstDelay = 1
    Period = 1
    FullEvery = 2
INVARIANTS
    ExitWithinTurn
    GhostBounded
PROPERTIES
    AcceptedEventHandled
    LoopTurns
CHECK_DEADLOCK FALSE
