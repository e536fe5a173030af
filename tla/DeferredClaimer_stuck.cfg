SPECIFICATION FairClaimSpec
CONSTANTS
    Swaps = { s1, s2 }
    MaxChunk = 2
    ClaimFaults = { "database" }
PROPERTY DeferredClaimIsMade
CHECK_DEADLOCK FALSE
