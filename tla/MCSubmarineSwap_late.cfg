SPECIFICATION FairSubSpec
CONSTANTS
    n1 = n1
    Lnd <- NoNodes
    Cln <- OneNode
    DefaultApproval = "Accept"
    Faults <- Drops
    Lockups <- OneLockup
    Kinds <- AnyAmount
    LateInvoice = TRUE
    Deferred = FALSE
    ZeroConf = FALSE
    MaxQueue = 2
PROPERTY ConfirmedLockupIsHandled
CHECK_DEADLOCK FALSE
