CONSTANTS
    exe1 = exe1
    exe2 = exe2
    lib = lib
    Pids <- MCPids
    Files <- MCFiles
    MapsOf <- MCMapsOf
    LoadCanFail = TRUE
SPECIFICATION Spec
INVARIANT
    MapFilesTried
PROPERTY
    FollowsPid
    SymbolLoaderSpec
