SPECIFICATION ServicesSpec
CONSTANTS
    Parts = { "swap manager", "evm", "quotes", "graph", "statistics", "notifications", "cache", "backup", "process", "signing", "offers", "nodes", "tools", "commands", "rescue details", "sessions", "http", "grpc", "setup", "certificates" }
    node = node
    s3 = s3
    webdav = webdav
    MgRows <- ManagerRows
    MgTxs <- ManagerTxs
    MgCurrencies <- ManagerCurrencies
    MgBatches <- ManagerBatches
    MgPairs <- ManagerPairs
    BlockTime <- Seconds
    EvDeployed <- Deployed
    EvConfigs <- EvmConfigs
    EvKeys = { "server", "user" }
    EvServer = "server"
    EvOrders <- EvmOrders
    EvDecimals <- Decimals
    EvAsks <- EvmAsks
    EvScans <- EvmScans
    ScanInterval = 1
    MaxLockups = 2
    MaxHeight = 1
    DqPools <- Pools
    DqRate <- PoolPrices
    LiquidTokens = { "usdt", "weth" }
    Weth = "weth"
    DqRequests <- QuoteAsks
    DqQuoters = { "UniswapV3" }
    MaxQuotes = 2
    LgSources <- SourceOrder
    LgClnGossip <- ClnGossip
    LgLndGossip <- LndGossip
    TxBits = 2
    OutputBits = 2
    LgQueries <- GraphQueries
    MaxUpdates = 2
    PsHistorical = TRUE
    PsSeries <- Series
    PsRequests <- StatsAsks
    PsCountries = { "AT" }
    PsRows <- CountryRows
    PsAddresses = { 3, 4 }
    MaxPsClock = 3
    NtConfig <- NotificationConfig
    NtPosts <- ChatPosts
    NtMessages <- BackendMessages
    NtReplies <- CommandReplies
    MaxMessageLength = 40
    NtCap = 1
    MaxNtJobs = 2
    CaFields = { "a", "b" }
    CaTasks = { "t1", "t2" }
    CaTtls = { 0, 1 }
    MaxCaClock = 3
    MaxCaSets = 2
    BkSources = { node }
    BkProviders = { s3, webdav }
    MaxVersion = 2
    BkCap = 1
    DumpParts = 1
    MaxDumps = 2
    MaxBkFaults = 1
    PrNodes = { 1, 2 }
    PrPreferences = { "core", "other" }
    PrConfigured = { "notification", "cache", "metrics", "liquid" }
    PrWorkers = { "nursery" }
    MaxOutages = 0
    MuKeys = { "A", "B" }
    MuKeyOf <- BufferKeys
    MuLists <- KeyLists
    MuTweaks = { "t" }
    MuMsgs = { "m" }
    MaxNonces = 2
    OaTexts <- OfferTexts
    OaNetwork = "regtest"
    OaBolt12 = { "BTC" }
    OaRequests <- OfferRequests
    OaTasks = { 1, 2, 3 }
    OaUrls <- OfferUrls
    OaHints <- OfferHints
    OaTimeouts <- OfferTimeouts
    MaxMsat = 5000
    NrConfigs <- NodeConfigs
    NrTxs <- NodeTxs
    NrCalls <- NodeCalls
    NrTasks = { 1, 2 }
    NrTip = 1
    CtSpends <- Spends
    CtTrees <- TapTrees
    CtDurations <- Durations
    MaxSeconds = 40000000
    CcCommands <- CommandsOf
    CcClis <- ClisOf
    CcTerminals = { 1, 2 }
    CcSigners <- SignerNames
    CcSweeps <- Sweeps
    RdRows <- DetailRows
    RdWallets = { "BTC", "L-BTC", "ARK" }
    RdRequests <- DetailRequests
    RdMetadata <- DetailMetadata
    ValiditySecs = 60
    CtEvm <- EvmCommands
    WsIds = { 1, 2 }
    WsConfigs <- MessageLimits
    WsMessages <- ClientMessages
    WsOffers = { "offer" }
    WsHooks = { "hook" }
    WsDefaultIds = 1
    WsWindow = 2
    WsCheckInterval = 1
    WsTimeout = 1
    MaxWsOpened <- SessionsOpened
    MaxWsWork <- SessionWork
    MaxWsRequests = 1
    HaPaths <- RequestPaths
    HaMethods = { "GET", "POST", "PATCH", "DELETE" }
    HaBodies <- RequestBodies
    HaLimit = 2
    HaRequests = 1
    GaCurrencies <- WithChain
    GaUnknown = "XMR"
    GaHandles <- LogFilters
    GaLevels = { 1, 2 }
    GaBadLevel = 9
    GaCallers = { 1, 2 }
    GaStreams = { 1 }
    GaBroadcast = 1
    GaBuffer = 1
    MaxGaWork = 3
    SuConfigs <- SetupConfigs
    SuPath <- ConfigPath
    SuDisks <- Disks
    SuServers <- Servers
    MaxCePairs = 5
INVARIANTS
    ServicesTypeOK
    StoredDataIsKept
    SwapsAreFound
    AnswersAreOfTheRequest
CHECK_DEADLOCK FALSE
