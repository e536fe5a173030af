SPECIFICATION PartsSpec
CONSTANTS
    Parts = { "web hooks", "status stream", "offers", "http zero-conf", "ws zero-conf", "fees", "scanner", "expiration", "refunds", "asset rescue", "swap rescue", "scripts", "transactions", "payment" }
    hook = hook
    StatusHooks = { hook }
    InvoiceHooks = {}
    Included <- HookStatuses
    MaxStatus = 3
    MaxRetries = 2
    MaxWhFaults = 1
    swap = swap
    socket = socket
    events = events
    All = All
    StSwaps = { swap }
    WsConns = { socket }
    SseConns = { events }
    SseSwap <- EventsOf
    MaxStStatus = 2
    BusCap = 2
    MaxMessages = 2
    conn1 = conn1
    conn2 = conn2
    offer = offer
    fetch = fetch
    NoConn = NoConn
    Offers = { offer }
    OfConns = { conn1, conn2 }
    Fetches = { fetch }
    OfferOf <- FetchOf
    Onion = { fetch }
    call1 = call1
    call2 = call2
    call3 = call3
    tx1 = tx1
    tx2 = tx2
    ZhCalls = { call1, call2, call3 }
    ZhTxs = { tx1, tx2 }
    ZhTxOf <- TxOfCall
    ZhMaxRetries = 2
    MaxHttpErrors = 1
    ZwCalls = { call1, call2, call3 }
    ZwTxs = { tx1, tx2 }
    ZwTxOf <- TxOfCall
    MaxBreaks = 1
    Servers = { server1, server2 }
    Rates = { 4, 37 }
    MaxFeHeight = 2
    MaxAge = 0
    MaxBlockLag = 0
    Multiplier = 2
    Delta = 7
    FeeFloor = 14
    Ticks = 1
    ScTxs = { lockup }
    MaxHeight = 3
    ScCap = 1
    MaxScFaults = 1
    MaxScRestarts = 1
    ExSwaps = { submarine }
    ExReferral = { submarine }
    MrhTxs = { direct }
    ExCap = 1
    MaxExFaults = 1
    FeeRates = { 1, 3, 5 }
    MaxRefundTxs = 3
    MaxRbFaults = 1
    rescue1 = rescue1
    rescue2 = rescue2
    rescue3 = rescue3
    send1 = send1
    send2 = send2
    Creates = { rescue1, rescue2, rescue3 }
    CreateSwap <- SwapOfRescue
    Broadcasts = { send1, send2 }
    BroadcastOf <- RescueOfSend
    Utxos = { utxo }
    SrSwaps <- RescueRows
    SrCalls = { "rescue", "near", "restore", "page", "last page", "index", "index again", "keys", "key", "no gap" }
    SrRequest <- RescueRequests
    IndexLimit = 10
    IndexWidth = 20
    MaxGapLimit = 4
    MaxPageLimit = 4
    ScriptNames = { "swap_script", "reverse_script", "refund_leaf", "swap_claim_leaf", "reverse_claim_leaf", "covenant_claim_leaf" }
    PreimageSizes = { 32, 40 }
    LockTimes = { 99, 100 }
    Timeout = 100
    WitnessItems <- ScriptItems
    MaxItems = 3
    CovenantOutputs <- ScriptOutputs
    TbRequests <- SpendRequests
    BfOrder = 7
    NewFactors = { 1, 4 }
    lnd1 = lnd1
    lnd2 = lnd2
    cln1 = cln1
    Lnd = { lnd1, lnd2 }
    Cln = { cln1 }
    DefaultApproval = "Accept"
    Faults <- AllButEarlyDrop
INVARIANTS
    PartsTypeOK
    UndeliveredIsKept
    SubscriptionsAreConsistent
    FeesAreServed
    ConfirmedIsKept
    DecisionStands
    RefundRowIsTrue
    RescueIsExclusive
    ScanIsExact
    ScriptIsHtlc
    SpendIsSound
    LivePaymentIsRecorded
PROPERTIES
    EstimateIsFresh
    OutcomeIsFinal
    PaidOnlyOnce
CHECK_DEADLOCK FALSE
