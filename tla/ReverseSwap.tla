----------------------------- MODULE ReverseSwap -----------------------------
(***************************************************************************)
(* One reverse swap on a UTXO chain, end to end: the payer's HTLCs reach   *)
(* LightningNursery, the lockup waits for the send approval, SwapNursery   *)
(* sends and records it, the client claims it with or without the help of  *)
(* MusigSigner, and the nurseries report claims, confirmations, expired    *)
(* invoices and the timeout, at which the lockup is refunded.              *)
(*                                                                         *)
(* Handlers of SwapNursery hold reverseSwapLock.  Their events carry the   *)
(* swap as it was when they were emitted and wait for the lock in a queue. *)
(***************************************************************************)
EXTENDS SwapEvents, Naturals, Sequences

CONSTANTS
    Worlds,       \* kinds of swaps and of surroundings, see World
    MaxQueue,     \* bound: events that wait for reverseSwapLock
    MaxPaid,      \* bound: invoice.paid events that wait for an approval
    MaxFailures   \* bound: calls to the lightning node that fail

\* Whether the swap has a second invoice for the miner fee, how the process may
\* stop, and whether calls to the lightning node may fail.
World == SUBSET { "prepay", "crash", "crash after send", "failures" }

ASSUME ReverseAssumption ==
    /\ Worlds \subseteq World
    /\ MaxQueue \in Nat /\ MaxPaid \in Nat /\ MaxFailures \in Nat

VARIABLES
    world,              \* one of Worlds, never changes
    status, recorded,   \* the row: status, and whether it has a transactionId
    held,               \* the swap has a row in the send approval holds
    refundRow,          \* the refund transaction row and whether its id is on chain
    hold, fee,          \* the hold invoice and the miner fee invoice on the node
    coins, spend, sent, \* the lockup, what spends it, lockups sent so far
    phase,              \* time
    htlcs, nurseryPc,   \* LightningNursery: accepted HTLCs not handled, its step
    paid, approval,     \* invoice.paid events; pendingSendApprovals
    claims,             \* sightings of the claim not handled by UtxoNursery
    queue, pc,          \* events waiting for reverseSwapLock; step of its holder
    failures            \* calls to the node that failed

rowVars == <<recorded, held, refundRow>>
nodeVars == <<hold, fee, failures>>
chainVars == <<coins, spend, sent, phase>>
eventVars == <<htlcs, nurseryPc, paid, approval, claims>>
lockVars == <<queue, pc>>
revVars == <<world, status, rowVars, nodeVars, chainVars, eventVars, lockVars>>

SendApprovalAction == { "Accept", "Reject", "Hold" }
InvoiceState == { "open", "accepted", "settled", "cancelled" }
Event == { "invoice.paid", "invoice.expired", "expired", "server.confirmed",
           "claimed", "refund.confirmed" }
Eligible == { "SwapCreated", "MinerFeePaid" }

RevTypeOK ==
    /\ world \in Worlds
    /\ status \in { "SwapCreated", "MinerFeePaid", "TransactionMempool",
                    "TransactionConfirmed", "InvoiceExpired" }
                  \cup FinalReverseSwapEvents
    /\ recorded \in BOOLEAN /\ held \in BOOLEAN
    /\ refundRow \in { "none", "stored", "Pending", "Confirmed" }
    /\ hold \in InvoiceState /\ fee \in InvoiceState
    /\ coins \in { "none", "mempool", "confirmed" }
    /\ spend \in { "none", "claim", "claimed", "refund", "refunded" }
    /\ sent \in Nat
    /\ phase \in { "early", "invoice expired", "timeout" }
    /\ htlcs \subseteq { "hold", "fee" }
    /\ nurseryPc \in { "idle", "fee paid" }
    /\ paid \in 0..MaxPaid
    /\ approval \in SendApprovalAction \cup { "none" }
    /\ claims \subseteq { "mempool", "confirmed" }
    /\ queue \in Seq(Event \X (SendApprovalAction \cup { "lockup", "none" }))
    /\ Len(queue) <= MaxQueue
    /\ pc \in { "idle", "lockup", "sent", "send failed", "failing", "cancel",
                "expire", "refund", "stored", "refunded", "settle", "settled" }
    /\ failures \in 0..MaxFailures

RevInit ==
    /\ world \in Worlds
    /\ status = "SwapCreated" /\ recorded = FALSE /\ held = FALSE
    /\ refundRow = "none"
    /\ hold = "open" /\ fee = "open"
    /\ coins = "none" /\ spend = "none" /\ sent = 0
    /\ phase = "early"
    /\ htlcs = {} /\ nurseryPc = "idle" /\ paid = 0 /\ approval = "none"
    /\ claims = {}
    /\ queue = <<>> /\ pc = "idle"
    /\ failures = 0

-----------------------------------------------------------------------------
(* The payer, the client, the chain and the clock.                         *)

\* The node takes no HTLC for an expired invoice.
PayHold ==
    /\ hold = "open"
    /\ phase = "early"
    /\ hold' = "accepted"
    /\ htlcs' = htlcs \cup { "hold" }
    /\ UNCHANGED <<status, rowVars, fee, failures, chainVars, nurseryPc, paid,
                   approval, claims, lockVars>>

PayFee ==
    /\ "prepay" \in world
    /\ fee = "open"
    /\ phase = "early"
    /\ fee' = "accepted"
    /\ htlcs' = htlcs \cup { "fee" }
    /\ UNCHANGED <<status, rowVars, hold, failures, chainVars, nurseryPc, paid,
                   approval, claims, lockVars>>

\* The client claims with its preimage, also when our refund waits for a block.
ClientClaims ==
    /\ coins # "none"
    /\ spend \in { "none", "refund" }
    /\ spend' = "claim"
    /\ claims' = claims \cup { "mempool" }
    /\ UNCHANGED <<status, rowVars, nodeVars, coins, sent, phase, htlcs, nurseryPc,
                   paid, approval, lockVars>>

\* No block is mined between the broadcast of the lockup and its record.
ChainConfirms ==
    /\ pc # "sent"
    /\ \/ coins = "mempool" /\ coins' = "confirmed" /\ UNCHANGED <<spend, claims>>
       \/ /\ coins = "confirmed" /\ spend = "claim"
          /\ spend' = "claimed"
          /\ claims' = claims \cup { "confirmed" }
          /\ UNCHANGED coins
       \/ /\ coins = "confirmed" /\ spend = "refund"
          /\ spend' = "refunded"
          /\ UNCHANGED <<coins, claims>>
    /\ UNCHANGED <<status, rowVars, nodeVars, sent, phase, htlcs, nurseryPc, paid,
                   approval, lockVars>>

Tick ==
    /\ \/ phase = "early" /\ phase' = "invoice expired"
       \/ phase = "invoice expired" /\ phase' = "timeout"
    /\ UNCHANGED <<status, rowVars, nodeVars, coins, spend, sent, eventVars,
                   lockVars>>

-----------------------------------------------------------------------------
(* LightningNursery, under its own lock.                                   *)

\* A call to the lightning node times out or is refused.
NodeFails ==
    /\ "failures" \in world
    /\ failures < MaxFailures
    /\ failures' = failures + 1
    /\ UNCHANGED <<hold, fee>>

EmitPaid ==
    /\ paid < MaxPaid
    /\ paid' = paid + 1

\* The miner fee invoice is settled before invoice.paid is emitted.
SettleFee ==
    \/ /\ fee \in { "accepted", "settled" }
       /\ fee' = "settled"
       /\ EmitPaid
       /\ UNCHANGED <<hold, failures>>
    \/ fee # "accepted" /\ UNCHANGED <<nodeVars, paid>>
    \/ NodeFails /\ UNCHANGED paid

\* handleAcceptedInvoice for the hold invoice.
HoldAccepted ==
    /\ nurseryPc = "idle"
    /\ "hold" \in htlcs
    /\ htlcs' = htlcs \ { "hold" }
    /\ \/ "prepay" \notin world /\ EmitPaid /\ UNCHANGED nodeVars
       \/ "prepay" \in world /\ status = "MinerFeePaid" /\ SettleFee
       \/ "prepay" \in world /\ status # "MinerFeePaid" /\ UNCHANGED <<nodeVars, paid>>
    /\ UNCHANGED <<status, rowVars, chainVars, nurseryPc, approval, claims, lockVars>>

\* handleAcceptedInvoice for the miner fee: the status is written without
\* reverseSwapLock, then the hold invoice is looked up.
FeeAccepted ==
    /\ nurseryPc = "idle"
    /\ "fee" \in htlcs
    /\ htlcs' = htlcs \ { "fee" }
    /\ status' = "MinerFeePaid"
    /\ nurseryPc' = "fee paid"
    /\ UNCHANGED <<rowVars, nodeVars, chainVars, paid, approval, claims, lockVars>>

FeePaidLookup ==
    /\ nurseryPc = "fee paid"
    /\ nurseryPc' = "idle"
    /\ \/ hold = "accepted" /\ SettleFee
       \/ hold # "accepted" /\ UNCHANGED <<nodeVars, paid>>
       \/ NodeFails /\ UNCHANGED paid
    /\ UNCHANGED <<status, rowVars, chainVars, htlcs, approval, claims, lockVars>>

-----------------------------------------------------------------------------
(* withSendApproval: the decision is made outside of the lock.             *)

Enqueue(event, arg) ==
    /\ Len(queue) < MaxQueue
    /\ queue' = Append(queue, <<event, arg>>)
    /\ UNCHANGED pc

\* A swap that is not eligible loses its hold; for the others the hook is asked,
\* once for all calls that wait for its answer.
ResolveSendApproval ==
    /\ paid > 0
    /\ paid' = paid - 1
    /\ \/ /\ status \notin Eligible
          /\ held' = FALSE
          /\ UNCHANGED <<approval, lockVars>>
       \/ /\ status \in Eligible
          /\ approval' \in IF approval = "none" THEN SendApprovalAction
                                                ELSE { approval }
          /\ Enqueue("invoice.paid", approval')
          /\ UNCHANGED held
    /\ UNCHANGED <<status, recorded, refundRow, nodeVars, chainVars, htlcs, nurseryPc,
                   claims>>

\* The retry interval starts again for swaps that are held.
RetryHeld ==
    /\ held
    /\ EmitPaid
    /\ UNCHANGED <<status, rowVars, nodeVars, chainVars, htlcs, nurseryPc, approval,
                   claims, lockVars>>

-----------------------------------------------------------------------------
(* Handlers of SwapNursery, under reverseSwapLock.                         *)

Takes(event) ==
    /\ pc = "idle"
    /\ queue # <<>>
    /\ Head(queue)[1] = event
    /\ queue' = Tail(queue)

\* Mutant: the swap is not loaded again under the lock.
HandlePaidStale ==
    /\ Takes("invoice.paid")
    /\ approval' = "none"
    /\ held' = (Head(queue)[2] = "Hold")
    /\ pc' = CASE Head(queue)[2] = "Accept" -> "lockup"
               [] Head(queue)[2] = "Reject" -> "send failed"
               [] OTHER -> "idle"
    /\ UNCHANGED <<status, recorded, refundRow, nodeVars, chainVars, htlcs, nurseryPc,
                   paid, claims>>

\* The second half of withSendApproval and the start of lockupReverseSwap: the
\* swap is loaded again, the decision stored and the node resolved.
HandlePaid ==
    /\ Takes("invoice.paid")
    /\ approval' = "none"
    /\ LET action == Head(queue)[2]
       IN  /\ held' = (status \in Eligible /\ action = "Hold")
           /\ \/ /\ status \notin Eligible \/ action = "Hold"
                 /\ UNCHANGED <<pc, nodeVars>>
              \/ /\ status \in Eligible /\ action # "Hold"
                 /\ pc' = IF action = "Accept" THEN "lockup" ELSE "send failed"
                 /\ UNCHANGED nodeVars
              \/ /\ status \in Eligible /\ action # "Hold"
                 /\ NodeFails
                 /\ UNCHANGED pc
    /\ UNCHANGED <<status, recorded, refundRow, chainVars, htlcs, nurseryPc, paid,
                   claims>>

\* lockupUtxo: the wallet sends the coins, unless the signer is disabled or the
\* wallet refuses.
SendToAddress ==
    /\ pc = "lockup"
    /\ \/ /\ coins' = IF coins = "none" THEN "mempool" ELSE coins
          /\ sent' = sent + 1
          /\ pc' = "sent"
       \/ /\ pc' = "send failed"
          /\ UNCHANGED <<coins, sent>>
    /\ UNCHANGED <<status, rowVars, nodeVars, spend, phase, eventVars, queue>>

SetServerLockupTransaction ==
    /\ pc = "sent"
    /\ status' = "TransactionMempool"
    /\ recorded' = TRUE
    /\ pc' = "idle"
    /\ UNCHANGED <<held, refundRow, nodeVars, chainVars, eventVars, queue>>

Cancelled(invoice) == IF invoice \in { "open", "accepted" } THEN "cancelled" ELSE invoice

\* handleSwapSendFailed cancels the hold invoice only and goes on regardless.
CancelAfterFailure ==
    /\ pc = "send failed"
    /\ \/ hold' = Cancelled(hold) /\ UNCHANGED <<fee, failures>>
       \/ NodeFails
    /\ pc' = "failing"
    /\ UNCHANGED <<status, rowVars, chainVars, eventVars, queue>>

\* The last write of a handler.
Writes(step, event) ==
    /\ pc = step
    /\ status' = event
    /\ pc' = "idle"
    /\ UNCHANGED <<rowVars, nodeVars, chainVars, eventVars, queue>>

SetFailed == Writes("failing", "TransactionFailed")

\* expireReverseSwap: the status is loaded again, the transactionId is the one
\* of the event.
HandleExpired ==
    /\ Takes("expired")
    /\ \/ /\ status \in { "SwapExpired", "TransactionRefunded" }
          /\ UNCHANGED <<status, pc>>
       \/ /\ status \notin { "SwapExpired", "TransactionRefunded" }
          /\ Head(queue)[2] = "lockup"
          /\ pc' = "refund"
          /\ UNCHANGED status
       \/ /\ status \notin { "SwapExpired", "TransactionRefunded" }
          /\ Head(queue)[2] = "none"
          /\ status' = "SwapExpired"
          /\ UNCHANGED pc
    /\ UNCHANGED <<rowVars, nodeVars, chainVars, eventVars>>

\* refundUtxo upserts the row with the id of a new transaction, broadcasts it and
\* writes the status.  The row is "stored" as long as its id was not broadcast.
AddRefundTransaction ==
    /\ pc = "refund"
    /\ refundRow' = "stored"
    /\ pc' = "stored"
    /\ UNCHANGED <<status, recorded, held, nodeVars, chainVars, eventVars, queue>>

\* Nodes accept the refund of an unspent lockup and may let it replace an earlier
\* refund.  A failure ends the handler; the next block tries again.
BroadcastRefund ==
    /\ pc = "stored"
    /\ \/ /\ spend \in { "none", "refund" }
          /\ spend' = "refund"
          /\ refundRow' = "Pending"
          /\ pc' = "refunded"
          /\ UNCHANGED nodeVars
       \/ /\ pc' = "idle"
          /\ \/ spend # "none" /\ UNCHANGED nodeVars
             \/ spend = "none" /\ NodeFails
          /\ UNCHANGED <<spend, refundRow>>
    /\ UNCHANGED <<status, recorded, held, coins, sent, phase, eventVars, queue>>

SetTransactionRefunded == Writes("refunded", "TransactionRefunded")

\* server.lockup.confirmed: only a success keeps its status.
HandleServerConfirmed ==
    /\ Takes("server.confirmed")
    /\ status' = IF status \in SuccessSwapUpdateEvents THEN status
                                                       ELSE "TransactionConfirmed"
    /\ UNCHANGED <<rowVars, nodeVars, chainVars, eventVars, pc>>

\* settleReverseSwapInvoice, for a claim on the chain and for a cooperative one.
HandleClaimed ==
    /\ Takes("claimed")
    /\ pc' = IF status = "InvoiceSettled" THEN "idle" ELSE "settle"
    /\ UNCHANGED <<status, rowVars, nodeVars, chainVars, eventVars>>

SettleHoldInvoice ==
    /\ pc = "settle"
    /\ \/ /\ hold \in { "accepted", "settled" }
          /\ hold' = "settled"
          /\ pc' = "settled"
          /\ UNCHANGED <<fee, failures>>
       \/ /\ pc' = "idle"
          /\ \/ hold # "accepted" /\ UNCHANGED nodeVars
             \/ hold = "accepted" /\ NodeFails
    /\ UNCHANGED <<status, rowVars, chainVars, eventVars, queue>>

SetInvoiceSettled == Writes("settled", "InvoiceSettled")

\* invoice.expired: only for SwapCreated, and not when an HTLC is pending.
HandleInvoiceExpired ==
    /\ Takes("invoice.expired")
    /\ \/ status # "SwapCreated" /\ UNCHANGED <<pc, nodeVars>>
       \/ /\ status = "SwapCreated"
          /\ \/ /\ pc' = CASE hold = "cancelled" -> "expire"
                           [] hold = "open"      -> "cancel"
                           [] OTHER              -> "idle"
                /\ UNCHANGED nodeVars
             \/ NodeFails /\ UNCHANGED pc
    /\ UNCHANGED <<status, rowVars, chainVars, eventVars>>

\* cancelReverseInvoices with the miner fee: the node refuses to cancel a settled
\* invoice, which ends the call.
CancelReverseInvoices ==
    \/ /\ hold' = Cancelled(hold)
       /\ fee' = IF "prepay" \in world /\ hold # "settled" THEN Cancelled(fee) ELSE fee
       /\ UNCHANGED failures
    \/ NodeFails

CancelExpired ==
    /\ pc = "cancel"
    /\ CancelReverseInvoices
    /\ pc' = IF hold' = "cancelled" /\ ("prepay" \in world => fee' = "cancelled")
                THEN "expire" ELSE "idle"
    /\ UNCHANGED <<status, rowVars, chainVars, eventVars, queue>>

SetInvoiceExpired == Writes("expire", "InvoiceExpired")

HandleRefundConfirmed ==
    /\ Takes("refund.confirmed")
    /\ CancelReverseInvoices
    /\ UNCHANGED <<status, rowVars, chainVars, eventVars, pc>>

-----------------------------------------------------------------------------
(* Everything that waits for reverseSwapLock without holding it.           *)

Emits(event, arg) ==
    /\ Enqueue(event, arg)
    /\ UNCHANGED <<status, recorded, held, nodeVars, chainVars, htlcs, nurseryPc, paid,
                   approval>>

\* signReverseSwapClaim checks the status before it waits for the lock.
SignReverseSwapClaim ==
    /\ status \in { "TransactionMempool", "TransactionConfirmed" }
    /\ Emits("claimed", "none")
    /\ UNCHANGED <<claims, refundRow>>

CheckServerLockupMempoolTransactions ==
    /\ status = "TransactionMempool"
    /\ coins = "confirmed"
    /\ Emits("server.confirmed", "none")
    /\ UNCHANGED <<claims, refundRow>>

CheckExpiredReverseSwaps ==
    /\ phase = "timeout"
    /\ status \notin FinalReverseSwapEvents
    /\ Emits("expired", IF recorded THEN "lockup" ELSE "none")
    /\ UNCHANGED <<claims, refundRow>>

CheckExpiredInvoices ==
    /\ phase # "early"
    /\ status \in Eligible
    /\ Emits("invoice.expired", "none")
    /\ UNCHANGED <<claims, refundRow>>

\* Mutant: claims of a swap whose refund was broadcast are not looked for.
CheckUnrefundedClaim ==
    \E sighting \in claims :
        /\ claims' = claims \ { sighting }
        /\ \/ /\ recorded
              /\ status \in { "TransactionMempool", "TransactionConfirmed" }
              /\ Emits("claimed", "none")
              /\ UNCHANGED refundRow
           \/ /\ ~recorded \/ status \notin { "TransactionMempool",
                                              "TransactionConfirmed" }
              /\ UNCHANGED <<status, rowVars, nodeVars, chainVars, htlcs, nurseryPc,
                             paid, approval, lockVars>>

\* checkReverseSwapClaim finds the swap by the transactionId of its lockup.
CheckReverseSwapClaim ==
    \E sighting \in claims :
        /\ claims' = claims \ { sighting }
        /\ \/ /\ recorded
              /\ status \in { "TransactionMempool", "TransactionConfirmed",
                              "TransactionRefunded" }
              /\ Emits("claimed", "none")
              /\ UNCHANGED refundRow
           \/ /\ ~recorded \/ status \notin { "TransactionMempool",
                                 "TransactionConfirmed", "TransactionRefunded" }
              /\ UNCHANGED <<status, rowVars, nodeVars, chainVars, htlcs, nurseryPc,
                             paid, approval, lockVars>>

\* Mutant: the refund counts as final when it is in the mempool.
CheckRefundUnconfirmed ==
    /\ refundRow = "Pending"
    /\ spend \in { "refund", "refunded" }
    /\ refundRow' = "Confirmed"
    /\ Emits("refund.confirmed", "none")
    /\ UNCHANGED claims

\* Mutant: the refund is only looked for while the row still says so.
CheckRefundOfRefunded ==
    /\ refundRow = "Pending"
    /\ spend = "refunded"
    /\ status = "TransactionRefunded"
    /\ refundRow' = "Confirmed"
    /\ Emits("refund.confirmed", "none")
    /\ UNCHANGED claims

\* checkRefund of RefundWatcher, for the transaction whose id is in the row.
CheckRefund ==
    /\ refundRow = "Pending"
    /\ spend = "refunded"
    /\ refundRow' = "Confirmed"
    /\ Emits("refund.confirmed", "none")
    /\ UNCHANGED claims

-----------------------------------------------------------------------------
(* The process stops and SwapManager.init starts again.  The sidecar and the *)
(* lightning node keep what they have not delivered.  A crash between the     *)
(* broadcast of the lockup and its record is a fault of its own.             *)

ReverseRestart ==
    /\ "crash" \in world
    /\ pc = "sent" => "crash after send" \in world
    /\ htlcs' = { i \in { "hold", "fee" } :
                    /\ status \in Eligible
                    /\ \/ i = "hold" /\ hold = "accepted"
                       \/ i = "fee" /\ fee = "accepted" /\ status # "MinerFeePaid" }
    /\ nurseryPc' = "idle" /\ paid' = 0 /\ approval' = "none"
    /\ queue' = <<>> /\ pc' = "idle"
    /\ UNCHANGED <<status, rowVars, nodeVars, chainVars, claims>>

-----------------------------------------------------------------------------
LockHolder ==
    \/ HandlePaid \/ SendToAddress \/ SetServerLockupTransaction
    \/ CancelAfterFailure \/ SetFailed
    \/ HandleExpired \/ AddRefundTransaction \/ BroadcastRefund
    \/ SetTransactionRefunded
    \/ HandleServerConfirmed
    \/ HandleClaimed \/ SettleHoldInvoice \/ SetInvoiceSettled
    \/ HandleInvoiceExpired \/ CancelExpired \/ SetInvoiceExpired
    \/ HandleRefundConfirmed

RevStep ==
    \/ PayHold \/ PayFee \/ ClientClaims \/ ChainConfirms \/ Tick
    \/ HoldAccepted \/ FeeAccepted \/ FeePaidLookup
    \/ ResolveSendApproval \/ RetryHeld
    \/ LockHolder
    \/ SignReverseSwapClaim
    \/ CheckServerLockupMempoolTransactions
    \/ CheckExpiredReverseSwaps
    \/ CheckExpiredInvoices
    \/ CheckReverseSwapClaim
    \/ CheckRefund
    \/ ReverseRestart

RevNext == RevStep /\ UNCHANGED world

RevSpec == RevInit /\ [][RevNext]_revVars

\* Promises of a lock holder run to their end, and reports of the sidecar and
\* blocks are handled although other events fill the bounded queue.
RevFairness ==
    /\ WF_revVars(LockHolder /\ UNCHANGED world)
    /\ SF_revVars(CheckReverseSwapClaim /\ UNCHANGED world)
    /\ SF_revVars(CheckRefund /\ UNCHANGED world)

FairRevSpec == RevSpec /\ RevFairness

-----------------------------------------------------------------------------
\* The coins of a reverse swap are sent once, however often the HTLC is reported,
\* the approval asked, the hold retried or the backend restarted
\* (withSendApproval loads the swap again under the lock).
LockedUpOnce == sent <= 1

\* While a lockup can still be claimed or is claimed, the payer's HTLC is held or
\* settled: no failure path and no refund cleanup cancels it too early.
LockupIsBacked ==
    coins # "none" /\ spend # "refunded" => hold \in { "accepted", "settled" }

\* Nothing stops the process and the node answers.
Undisturbed == world \subseteq { "prepay" }

\* A claim that confirmed gets the payer's HTLC settled (UtxoNursery sees the
\* claim in the mempool and in its block), if expireReverseSwap never wrote
\* SwapExpired for an event from before the lockup was recorded.
ClaimIsSettled ==
    Undisturbed /\ [](status # "SwapExpired") => (spend = "claimed" ~> hold = "settled")

\* A confirmed refund releases the payer, unless a later attempt replaced the id
\* in the refund row that RefundWatcher looks for.
RefundReleasesPayer ==
    Undisturbed => (spend = "refunded" ~> (hold # "accepted" \/ refundRow = "stored"))

\* docs/lifecycle.md calls invoice.settled the final status of a reverse swap:
\* no step leaves it.
SettledIsFinal ==
    [][(status = "InvoiceSettled") => status' = "InvoiceSettled"]_revVars

=============================================================================
