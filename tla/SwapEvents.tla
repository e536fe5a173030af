----------------------------- MODULE SwapEvents -----------------------------
(***************************************************************************)
(* The swap states of lib/consts/Enums.ts and the groups of them that the  *)
(* handlers test.  A state is written as the name of the enum member.      *)
(***************************************************************************)

\* SwapUpdateEvent: every state a swap row can be in.
SwapUpdateEvent ==
    { "SwapCreated", "SwapExpired",
      "InvoiceSet", "InvoicePending", "InvoicePaid", "InvoiceSettled",
      "InvoiceFailedToPay", "InvoiceExpired", "MinerFeePaid",
      "TransactionMempool", "TransactionZeroConfRejected",
      "TransactionConfirmed", "TransactionClaimPending", "TransactionClaimed",
      "TransactionRefunded", "TransactionLockupFailed", "TransactionFailed",
      "TransactionDirect",
      "TransactionServerMempool", "TransactionServerConfirmed" }

SuccessSwapUpdateEvents == { "InvoiceSettled", "TransactionClaimed" }

FailedSwapUpdateEvents ==
    { "SwapExpired", "TransactionFailed", "TransactionLockupFailed",
      "InvoiceFailedToPay", "TransactionRefunded" }

FinalSwapEvents == { "SwapExpired", "InvoiceFailedToPay", "TransactionClaimed" }

FinalReverseSwapEvents ==
    { "SwapExpired", "InvoiceSettled", "TransactionFailed",
      "TransactionRefunded" }

=============================================================================
