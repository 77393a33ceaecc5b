SPECIFICATION Spec

CONSTANTS
    None = None
    NoPid = NoPid
    NoNet = NoNet
    Unset = Unset
    MinGap = 1
    VgFree <- MCVgFree
    SERVICE_CATALOG <- MCCatalog
    SIGNATURE_CATEGORIES = {"db", "web", "container"}
    BaselineKeywords = {"ssh"}
    BaselinePorts = {22}
    DYNAMIC_PORT_MIN = 49152
    EolCatalog <- MCEolCatalog
    SignatureSet = {"db", "web", "container"}
    Windows <- MCWindows
    Standard <- MCStandard
    ListLimit = 2
    UnderMax = 1
    TtlOnline = 5
    GapMinutes = 5
    GapRecent = 9
    RestartThreshold = 3
    RunwayDays = 30
    StorageRows <- MCStorageRows
    ServiceRows <- MCServiceRows
    NetworkRows <- MCNetworkRows
    FleetRows <- MCFleetRows
    SelectionFilters <- MCSelectionFilters
    MaxRows <- MCMaxRows
    MaxDay = 3

INVARIANTS
    TreeShowsDevices
    WorkloadsAgree
    TopologyHangsTogether
    FleetPagesAgree

CHECK_DEADLOCK FALSE
