SPECIFICATION FairClaimSpec
CONSTANTS
    Swaps = { s1, s2, s3 }
    MaxChunk = 2
    ClaimFaults = { "broadcast", "answer", "database", "crash" }
INVARIANTS
    PendingClaimIsKept
PROPERTY ClaimIsMadeWithoutLeftovers
CHECK_DEADLOCK FALSE
