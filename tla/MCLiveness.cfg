SPECIFICATION FairParts
CONSTANTS
    Parts = { "web hooks", "status stream", "offers", "http zero-conf", "ws zero-conf", "scanner", "expiration", "refunds", "payment", "process" }
    hook = hook
    reply = reply
    StatusHooks = { hook }
    InvoiceHooks = { reply }
    Included <- HookStatuses
    MaxStatus = 2
    MaxRetries = 2
    MaxWhFaults = 1
    swap = swap
    socket = socket
    events = events
    All = All
    StSwaps = { swap }
    WsConns = { socket }
    SseConns = { events }
    SseSwap <- EventsOf
    MaxStStatus = 2
    BusCap = 2
    MaxMessages = 2
    conn1 = conn1
    offer = offer
    fetch = fetch
    NoConn = NoConn
    Offers = { offer }
    OfConns = { conn1 }
    Fetches = { fetch }
    OfferOf <- FetchOf
    Onion = { fetch }
    call1 = call1
    call2 = call2
    tx1 = tx1
    ZhCalls = { call1, call2 }
    ZhTxs = { tx1 }
    ZhTxOf <- TxOfCall
    ZhMaxRetries = 2
    MaxHttpErrors = 1
    ZwCalls = { call1, call2 }
    ZwTxs = { tx1 }
    ZwTxOf <- TxOfCall
    MaxBreaks = 1
    ScTxs = { lockup }
    MaxHeight = 2
    ScCap = 2
    MaxScFaults = 1
    MaxScRestarts = 1
    ExSwaps = { submarine }
    ExReferral = { submarine }
    MrhTxs = { direct }
    ExCap = 1
    MaxExFaults = 1
    FeeRates = { 1, 3 }
    MaxRefundTxs = 3
    MaxRbFaults = 1
    lnd1 = lnd1
    lnd2 = lnd2
    Lnd = { lnd1, lnd2 }
    Cln = {}
    DefaultApproval = "Accept"
    Faults <- Reliable
    PrNodes = {}
    PrPreferences = { "none" }
    PrConfigured = { "notification" }
    PrWorkers = { "nursery" }
    MaxOutages = 1
PROPERTIES
    FailedHookIsResolved
    ListenerLearnsStatus
    ResolvedIsAnswered
    HttpIsZeroConfCheck
    WsIsZeroConfCheck
    ConfirmedIsAnnounced
    ExpiredIsFailed
    RefundIsNoticed
    SuccessIsSettled
    ShutdownCompletes
CHECK_DEADLOCK FALSE
