\* An apps directory with more entries than the catalog has places.
SPECIFICATION Spec
CONSTANTS
    js1 = js1
    js2 = js2
    lua = lua
    v1 = v1
    v2 = v2
    clock = clock
    game = game
    None = None
    Runtimes <- MCRuntimes
    LangOf <- MCLangOf
    RegistryMax = 2
    VMs <- MCVMs
    Manifests <- MCManifests
    Listings <- MCFullListings
    AppMax = 2
PROPERTIES
    ScanFindsEveryApp
CHECK_DEADLOCK FALSE
