SPECIFICATION FairRevSpec
CONSTANTS
    Worlds = { {}, { "prepay" }, { "prepay", "crash", "failures" } }
    MaxQueue = 3
    MaxPaid = 2
    MaxFailures = 1
INVARIANT LockedUpOnce
INVARIANT LockupIsBacked
PROPERTY ClaimIsSettled
PROPERTY RefundReleasesPayer
CHECK_DEADLOCK FALSE
