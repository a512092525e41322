SPECIFICATION FairSpec
CONSTANTS
    Uris = {"items"}
    FrontEnds <- Fronts
    BackEnds <- Backs
    Numbers <- Texts
    Words = {"view", "on"}
    Host = {"name1", "name2", "quad1", "unknown"}
    Address <- Addresses
    PortSpan = 8
    IntSpan = 64
    MsPerSec = 10
    Default <- Defaults
    MaxUris = 1
    MaxLines = 5
    MaxProxies = 2
    DotQuad = {"quad1"}
    LocalAddress = {"addr1", "addr2"}
    Fault = {"nosocket", "nothread"}
INVARIANTS StartupTypeOK Usable OwnTimes BoundAsLookedUp
PROPERTIES Settled
CHECK_DEADLOCK FALSE
