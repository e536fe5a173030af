SPECIFICATION SubSpec
CONSTANTS
    n1 = n1
    Lnd <- OneNode
    Cln <- NoNodes
    DefaultApproval = "Accept"
    Faults <- NoFaults
    Lockups <- OneLockup
    Kinds <- OnlyLow
    LateInvoice = TRUE
    Deferred = TRUE
    ZeroConf = TRUE
    MaxQueue = 2
INVARIANT PaidForAcceptedLockup
CHECK_DEADLOCK FALSE
