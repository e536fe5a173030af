SPECIFICATION Spec
CONSTANTS
    Lnd = { lnd1, lnd2 }
    Cln = {}
    DefaultApproval = "Accept"
    Faults = { "earlyDrop", "nodeDown", "crash", "hookHold", "approvalReject", "signerDisabled", "timeouts" }
INVARIANT LivePaymentIsRecorded
CHECK_DEADLOCK FALSE
