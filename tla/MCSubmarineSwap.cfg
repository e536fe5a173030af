SPECIFICATION SubSpec
CONSTANTS
    n1 = n1
    Lnd <- OneNode
    Cln <- NoNodes
    DefaultApproval = "Accept"
    Faults <- CrashesAndTimeouts
    Lockups <- TwoLockups
    Kinds <- ExactAndBlocked
    LateInvoice = FALSE
    Deferred = TRUE
    ZeroConf = TRUE
    MaxQueue = 2
INVARIANTS
    PaidForAcceptedLockup
    RefundExcludesPayment
    PendingClaimIsQueued
PROPERTY PaidLockupIsKept
CHECK_DEADLOCK FALSE
