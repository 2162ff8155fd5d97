SPECIFICATION Spec
CONSTANTS
    MaxRuns = 2
    NetworkRequests <- MCNetworkRequests
    WireMask <- MCWireMask
    Found <- MCFound
    Answers <- MCAnswers
    Tries = 2
    Catalogue <- MCCatalogue
    Shipped <- MCShipped
    RepositoryRequests <- MCRepositoryRequests
    Orders <- MCOrders
    Running = "k1"
    Answerfiles <- MCAnswerfiles
    Hosts <- MCHosts
    Text <- MCText
    Interfaces = {"eth0", "eth1"}
    Subnets = {"s1", "s2"}
    HostBits = {1, 3, 8}
    Domains = {"d1", "d2"}
    MaxAttempts = 3
    PoolSize = 100
    SetupRequests <- MCSetupRequests
INVARIANTS
    NetworksUp
    MaskStable
    AccountingAgrees
    ControllerHasNodes
    NotLockedOut
    EnabledAsSelected
    OriginalsKept
    ImageIsComplete
    DriversForKernel
    ServedModules
    InventoryIsUnique
    DumpedClusterReturns
    SetupOfRunningDaemon
    SiteIsThisRuns
PROPERTIES
    SetupEnds
CHECK_DEADLOCK FALSE
