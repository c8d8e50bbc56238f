\* A registry with one slot too few, two VM addresses, a catalog of two; exits
\* requested before, between and during events.
SPECIFICATION Spec
CONSTANTS
    js1 = js1
    js2 = js2
    lua = lua
    v1 = v1
    v2 = v2
    clock = clock
    game = game
    None = None
    Runtimes <- MCRuntimes
    LangOf <- MCLangOf
    RegistryMax = 2
    VMs <- MCVMs
    Manifests <- MCManifests
    Listings <- MCListings
    AppMax = 2
INVARIANTS
    OnlyCurrentVMLive
    ExitFlagIsOwn
    ScriptOnLiveVM
    SystemAppsNotShadowed
PROPERTIES
    AppLostOnlyToSuccessor
CHECK_DEADLOCK FALSE
