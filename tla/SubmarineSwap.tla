--------------------------- MODULE SubmarineSwap ---------------------------
(***************************************************************************)
(* One Taproot submarine swap on a UTXO chain, end to end: UtxoNursery     *)
(* finds and records the lockup, the handlers of SwapNursery queue on      *)
(* swapLock and pay the invoice (InvoicePayment), setSwapInvoice may set   *)
(* the invoice late, DeferredClaimer claims in batches, MusigSigner signs  *)
(* refunds, blocks expire the swap, and the process may restart.           *)
(*                                                                         *)
(* Only the handlers of SwapNursery, the retry interval and setSwapInvoice *)
(* hold swapLock.  The nursery has a lock of its own, and signing refunds  *)
(* and claiming take none: their steps interleave with everything.         *)
(***************************************************************************)
EXTENDS InvoicePayment, Integers, Sequences

-----------------------------------------------------------------------------
(* Which on-chain output owns a swap: the decisions of                     *)
(* lib/db/LockupIdentity.ts and lib/swap/CompetingLockup.ts that the       *)
(* repositories of submarine and chain swaps and the nurseries share.      *)

\* A lockup is a transaction id with the index of its output.  The index is
\* unknown (null) for rows written before it was stored.
NoVout == -1
NoLockup == [id |-> "none", vout |-> NoVout]

lockupTakeoverStatuses ==
    { "TransactionLockupFailed", "TransactionZeroConfRejected" }

\* SwapRepository.lockupNonUpdatableStatuses
lockupNonUpdatableStatuses ==
    { "InvoicePending", "InvoicePaid", "InvoiceFailedToPay",
      "TransactionClaimPending", "TransactionClaimed", "SwapExpired" }

canTakeOverLockup(recordedStatus) == recordedStatus \in lockupTakeoverStatuses

isSameLockup(existing, incoming) ==
    /\ existing.id = incoming.id
    /\ NoVout \in { existing.vout, incoming.vout } \/ existing.vout = incoming.vout

FirstKnown(vout, other) == IF vout # NoVout THEN vout ELSE other

Decision(outcome, write, vout) ==
    [outcome |-> outcome, write |-> write, vout |-> vout]

\* What recording `incoming' does to a row that holds `existing'.
decideLockupWrite(existing, incoming, currentStatus, targetStatus, updatable) ==
    LET downgrade == /\ currentStatus = "TransactionConfirmed"
                     /\ targetStatus # "TransactionConfirmed"
        acquired == Decision("acquired", TRUE, incoming.vout)
        rejected == Decision("rejected", FALSE, NoVout)
    IN  CASE existing = NoLockup ->
               IF updatable THEN acquired ELSE rejected
          [] existing # NoLockup /\ isSameLockup(existing, incoming) ->
               Decision("idempotent", updatable /\ ~downgrade,
                        FirstKnown(incoming.vout, existing.vout))
          [] OTHER ->
               IF updatable /\ canTakeOverLockup(currentStatus)
               THEN acquired ELSE rejected

shouldWriteZeroConfRejection(existing, incoming, currentStatus) ==
    /\ existing # NoLockup
    /\ currentStatus = "TransactionMempool"
    /\ isSameLockup(existing, incoming)

\* The check of a nursery on the swap it fetched, before it tries to write.
shouldIgnoreCompetingLockup(prev, incoming, recordedStatus) ==
    /\ prev # NoLockup
    /\ ~isSameLockup(prev, incoming)
    /\ ~canTakeOverLockup(recordedStatus)

-----------------------------------------------------------------------------

CONSTANTS
    Lockups,      \* outputs that pay to the lockup address
    Kinds,        \* what each of them may be, see LockupKind
    LateInvoice,  \* the swap was created without an invoice
    Deferred,     \* claims of the chain are batched
    ZeroConf,     \* unconfirmed lockups may be accepted
    MaxQueue      \* bound: nursery events that wait for swapLock

\* The amount is less than expected, exactly that, an overpayment that is tolerated
\* or one that OverpaymentProtector refuses; or the transaction hook rejects it.
LockupKind == { "low", "exact", "over", "high", "blocked" }

ASSUME LockupsAssumption ==
    /\ \A l \in Lockups : l = [id |-> l.id, vout |-> l.vout] /\ l.vout \in Nat
    /\ Kinds \in [Lockups -> SUBSET LockupKind]
    /\ LateInvoice \in BOOLEAN /\ Deferred \in BOOLEAN /\ ZeroConf \in BOOLEAN
    /\ MaxQueue \in Nat

VARIABLES
    invoice,      \* the invoice, and with it the expected amount, is set
    lockup,       \* lockup transaction and output of the swap row
    kind,         \* what the lockups turn out to be
    txs,          \* the chain: lockup -> its state
    reports,      \* sightings <<lockup, confirmed>> not handled by UtxoNursery
    queue,        \* nursery events waiting for swapLock, oldest first
    setPc, setStatus, setLockup,                      \* setSwapInvoice
    scanPc, scanTx, scanConfirmed, scanStatus, scanLockup, \* checkSwapTransaction
    refundPc, refundSigned,                           \* signRefund and its flag
    claimable     \* the swap is in DeferredClaimer.swapsToClaim

chainVars == <<kind, txs, reports>>
setVars == <<setPc, setStatus, setLockup>>
scanVars == <<scanPc, scanTx, scanConfirmed, scanStatus, scanLockup>>
refundVars == <<refundPc, refundSigned>>
subVars == <<payVars, invoice, lockup, chainVars, queue, setVars,
             scanVars, refundVars, claimable>>

EventKind == { "lockup", "lockup.failed", "expired" }

SubTypeOK ==
    /\ PayTypeOK
    /\ invoice \in BOOLEAN
    /\ lockup \in Lockups \cup { NoLockup }
    /\ kind \in [Lockups -> LockupKind]
    /\ txs \in [Lockups -> { "unseen", "mempool", "confirmed" }]
    /\ reports \subseteq Lockups \X BOOLEAN
    /\ queue \in Seq(EventKind \X (Lockups \cup { NoLockup }))
    /\ Len(queue) <= MaxQueue
    /\ setPc \in { "idle", "read", "settle" }
    /\ setStatus \in SwapUpdateEvent
    /\ setLockup \in Lockups \cup { NoLockup }
    /\ scanPc \in { "idle", "fetched", "recorded", "judged" }
    /\ scanTx \in Lockups \cup { NoLockup }
    /\ scanConfirmed \in BOOLEAN
    /\ scanStatus \in SwapUpdateEvent
    /\ scanLockup \in Lockups \cup { NoLockup }
    /\ refundPc \in { "idle", "fetched", "checked" }
    /\ refundSigned \in BOOLEAN
    /\ claimable \in BOOLEAN

SubInit ==
    /\ PayInit
    /\ status = IF LateInvoice THEN "SwapCreated" ELSE "InvoiceSet"
    /\ invoice = ~LateInvoice
    /\ lockup = NoLockup
    /\ kind \in [Lockups -> LockupKind]
    /\ \A l \in Lockups : kind[l] \in Kinds[l]
    /\ txs = [l \in Lockups |-> "unseen"]
    /\ reports = {}
    /\ queue = <<>>
    /\ setPc = "idle" /\ setStatus = "SwapCreated" /\ setLockup = NoLockup
    /\ scanPc = "idle" /\ scanTx = NoLockup /\ scanConfirmed = FALSE
    /\ scanStatus = "SwapCreated" /\ scanLockup = NoLockup
    /\ refundPc = "idle" /\ refundSigned = FALSE
    /\ claimable = FALSE

-----------------------------------------------------------------------------
(* The chain.                                                              *)

\* A lockup enters the mempool and confirms, or stays there for ever like one that
\* is replaced.  The sidecar reports both to UtxoNursery: transactions of the
\* mempool pass a 0-conf check on the way and may arrive after the block.
ChainStep(l) ==
    /\ \/ /\ txs[l] = "unseen"
          /\ txs' = [txs EXCEPT ![l] = "mempool"]
          /\ reports' = reports \cup { <<l, FALSE>> }
       \/ /\ txs[l] = "mempool"
          /\ txs' = [txs EXCEPT ![l] = "confirmed"]
          /\ reports' = reports \cup { <<l, TRUE>> }
    /\ UNCHANGED <<payVars, invoice, lockup, kind, queue, setVars, scanVars,
                   refundVars, claimable>>

\* check_transaction and the rescans of the sidecar report a transaction again.
Rescan(l) ==
    /\ txs[l] \in { "mempool", "confirmed" }
    /\ reports' = reports \cup { <<l, txs[l] = "confirmed">> }
    /\ UNCHANGED <<payVars, invoice, lockup, kind, txs, queue, setVars, scanVars,
                   refundVars, claimable>>

-----------------------------------------------------------------------------
(* UtxoNursery: one transaction at a time, under its lockupLock.           *)

ScanIdle ==
    /\ scanPc' = "idle" /\ scanTx' = NoLockup /\ scanConfirmed' = FALSE
    /\ scanStatus' = "SwapCreated" /\ scanLockup' = NoLockup

Emit(event, l) ==
    /\ Len(queue) < MaxQueue
    /\ queue' = Append(queue, <<event, l>>)

ScannedStatuses ==
    { "SwapCreated", "InvoiceSet", "TransactionMempool",
      "TransactionZeroConfRejected", "TransactionConfirmed" }

\* checkOutputs: a report makes the nursery look for a swap with the address.
CheckOutputs(l, confirmed) ==
    /\ scanPc = "idle"
    /\ <<l, confirmed>> \in reports
    /\ reports' = reports \ { <<l, confirmed>> }
    /\ IF status \in ScannedStatuses
       THEN /\ scanPc' = "fetched"
            /\ scanTx' = l
            /\ scanConfirmed' = confirmed
            /\ scanStatus' = status
            /\ scanLockup' = lockup
       ELSE UNCHANGED scanVars
    /\ UNCHANGED <<payVars, invoice, lockup, kind, txs, queue, setVars, refundVars,
                   claimable>>

\* A mutant: the decision is made on the swap that was fetched, not on the
\* current row.
SetLockupTransactionOnFetched ==
    /\ scanPc = "fetched"
    /\ LET target == IF scanConfirmed THEN "TransactionConfirmed"
                                      ELSE "TransactionMempool"
           decision ==
               decideLockupWrite(scanLockup, scanTx, scanStatus, target,
                                 scanStatus \notin lockupNonUpdatableStatuses)
       IN  /\ decision.write
           /\ scanPc' = "recorded"
           /\ status' = target
           /\ lockup' = [id |-> scanTx.id, vout |-> decision.vout]
    /\ UNCHANGED <<row, htlc, tracker, activation, held, phase, invoice,
                   chainVars, queue, setVars, scanTx, scanConfirmed, scanStatus,
                   scanLockup, refundVars, claimable>>

\* The competing lockup check on the fetched swap, and setLockupTransaction in
\* a database transaction on the current row.
SetLockupTransaction ==
    /\ scanPc = "fetched"
    /\ LET target == IF scanConfirmed THEN "TransactionConfirmed"
                                      ELSE "TransactionMempool"
           decision == decideLockupWrite(lockup, scanTx, status, target,
                                         status \notin lockupNonUpdatableStatuses)
       IN  IF \/ shouldIgnoreCompetingLockup(scanLockup, scanTx, scanStatus)
              \/ decision.outcome = "rejected"
           THEN /\ ScanIdle
                /\ UNCHANGED <<status, lockup>>
           ELSE /\ scanPc' = "recorded"
                /\ IF decision.write
                   THEN /\ status' = target
                        /\ lockup' = [id |-> scanTx.id, vout |-> decision.vout]
                   ELSE UNCHANGED <<status, lockup>>
                /\ UNCHANGED <<scanTx, scanConfirmed, scanStatus, scanLockup>>
    /\ UNCHANGED <<row, htlc, tracker, activation, held, phase, invoice, chainVars,
                   queue, setVars, refundVars, claimable>>

\* The swap is fetched again: its status and, once it has an invoice, the amount
\* are checked.
CheckAmount ==
    /\ scanPc = "recorded"
    /\ \/ /\ status \in lockupNonUpdatableStatuses
          /\ ScanIdle
          /\ UNCHANGED queue
       \/ /\ status \notin lockupNonUpdatableStatuses
          /\ invoice /\ kind[scanTx] \in { "low", "high" }
          /\ Emit("lockup.failed", scanTx)
          /\ ScanIdle
       \/ /\ status \notin lockupNonUpdatableStatuses
          /\ ~invoice \/ kind[scanTx] \notin { "low", "high" }
          /\ scanPc' = "judged"
          /\ UNCHANGED <<scanTx, scanConfirmed, scanStatus, scanLockup, queue>>
    /\ UNCHANGED <<payVars, invoice, lockup, chainVars, setVars, refundVars, claimable>>

\* The transaction hook, then the 0-conf criteria for unconfirmed lockups.
JudgeLockup ==
    /\ scanPc = "judged"
    /\ \/ /\ kind[scanTx] = "blocked"
          /\ Emit("lockup.failed", scanTx)
          /\ UNCHANGED status
       \/ /\ kind[scanTx] # "blocked"
          /\ scanConfirmed \/ ZeroConf
          /\ Emit("lockup", scanTx)
          /\ UNCHANGED status
       \/ /\ kind[scanTx] # "blocked"
          /\ ~scanConfirmed
          /\ status' = IF shouldWriteZeroConfRejection(lockup, scanTx, status)
                       THEN "TransactionZeroConfRejected" ELSE status
          /\ UNCHANGED queue
    /\ ScanIdle
    /\ UNCHANGED <<row, htlc, tracker, activation, held, phase, invoice, lockup,
                   chainVars, setVars, refundVars, claimable>>

\* checkExpiredSwaps on a block at or after the timeout.
CheckExpired ==
    /\ phase = "timeout"
    /\ status \notin FinalSwapEvents
    /\ Emit("expired", NoLockup)
    /\ UNCHANGED <<payVars, invoice, lockup, chainVars, setVars, scanVars, refundVars,
                   claimable>>

-----------------------------------------------------------------------------
(* Handlers of SwapNursery, each holding swapLock from its start to its end. *)

SwapLockFree == pc = "idle" /\ setPc = "idle"

\* The next event of the nursery gets the lock.
Handles(event) ==
    /\ SwapLockFree
    /\ queue # <<>>
    /\ Head(queue)[1] = event
    /\ queue' = Tail(queue)
    /\ UNCHANGED <<invoice, lockup, chainVars, setVars, scanVars, refundVars, claimable>>

\* Mutant of ActsOnLockup: the owner of the swap is not compared.
ActsOnAnyLockup(l) ==
    /\ ~refundSigned
    /\ status \notin { "TransactionClaimPending" } \cup SuccessSwapUpdateEvents

\* Checks of the swap.lockup handler on the swap it fetches.
ActsOnLockup(l) ==
    /\ lockup = l
    /\ ~refundSigned
    /\ status \notin { "TransactionClaimPending" } \cup SuccessSwapUpdateEvents

\* swap.lockup: pay the invoice, or only fix the rate when there is none.
HandleLockup ==
    /\ Handles("lockup")
    /\ IF ActsOnLockup(Head(queue)[2]) /\ invoice
       THEN PayInvoice
       ELSE UNCHANGED payVars

\* swap.lockup.failed: lockupFailed looks at the current status.
HandleLockupFailed ==
    /\ Handles("lockup.failed")
    /\ status' = IF status = "InvoicePending" THEN status
                 ELSE "TransactionLockupFailed"
    /\ UNCHANGED <<row, htlc, tracker, activation, held, phase>>

\* swap.expired: expireSwap skips only swaps that are expired already.
HandleExpired ==
    /\ Handles("expired")
    /\ status' = "SwapExpired"
    /\ UNCHANGED <<row, htlc, tracker, activation, held, phase>>

\* The retry interval settles swaps with a pending or paid invoice again.
RetrySettle ==
    /\ SwapLockFree
    /\ status \in { "InvoicePending", "InvoicePaid" }
    /\ PayInvoice
    /\ UNCHANGED <<invoice, lockup, chainVars, queue, setVars, scanVars, refundVars,
                   claimable>>

\* The preimage is there: the claim is deferred, or broadcast right away.  A
\* claim that throws leaves the swap to the retry interval.
ClaimLockup ==
    /\ pc = "returned"
    /\ Return
    /\ \/ /\ Deferred
          /\ status' = "TransactionClaimPending"
          /\ claimable' = TRUE
       \/ /\ ~Deferred
          /\ status' \in { "TransactionClaimed", status }
          /\ UNCHANGED claimable
    /\ UNCHANGED <<row, htlc, tracker, held, phase, invoice, lockup, chainVars, queue,
                   setVars, scanVars, refundVars>>

-----------------------------------------------------------------------------
(* SwapManager.setSwapInvoice, under swapLock.                             *)

\* The swap is fetched and checked: no refund was signed, there is no invoice
\* yet, and the amount on chain, if there is one, is enough.
SetInvoiceRead ==
    /\ SwapLockFree
    /\ ~refundSigned
    /\ ~invoice
    /\ lockup # NoLockup => kind[lockup] # "low"
    /\ setPc' = "read"
    /\ setStatus' = status
    /\ setLockup' = lockup
    /\ UNCHANGED <<payVars, invoice, lockup, chainVars, queue, scanVars, refundVars,
                   claimable>>

\* Mutant of SetInvoiceWrite: the status is compared after it was overwritten.
SetInvoiceWriteForgetsStatus ==
    /\ setPc = "read"
    /\ invoice' = TRUE
    /\ status' = "InvoiceSet"
    /\ setPc' = "idle"
    /\ setStatus' = "SwapCreated"
    /\ setLockup' = NoLockup
    /\ UNCHANGED <<row, htlc, tracker, activation, held, phase, lockup, chainVars,
                   queue, scanVars, refundVars, claimable>>

\* setInvoice writes invoice and status.  A swap that was read as confirmed with
\* the exact amount is settled by the same call.
SetInvoiceWrite ==
    /\ setPc = "read"
    /\ invoice' = TRUE
    /\ status' = "InvoiceSet"
    /\ setPc' = IF /\ setLockup # NoLockup
                   /\ setStatus = "TransactionConfirmed"
                   /\ kind[setLockup] \in { "exact", "blocked" }
                THEN "settle" ELSE "idle"
    /\ setStatus' = "SwapCreated"
    /\ setLockup' = NoLockup
    /\ UNCHANGED <<row, htlc, tracker, activation, held, phase, lockup, chainVars,
                   queue, scanVars, refundVars, claimable>>

\* attemptSettleSwap at the end of setSwapInvoice.
SettleAfterInvoice ==
    /\ setPc = "settle"
    /\ PayInvoice
    /\ setPc' = "idle"
    /\ UNCHANGED <<setStatus, setLockup, invoice, lockup, chainVars, queue, scanVars,
                   refundVars, claimable>>

-----------------------------------------------------------------------------
(* DeferredClaimer, MusigSigner and restarts: none of them takes swapLock. *)

\* A batch or a cooperative claim is broadcast, and setMinerFee writes it.
SweepClaim ==
    /\ claimable
    /\ claimable' = FALSE
    /\ status' = "TransactionClaimed"
    /\ UNCHANGED <<row, htlc, tracker, activation, held, phase, invoice, lockup,
                   chainVars, queue, setVars, scanVars, refundVars>>

\* signRefund fetches the swap: refunds are signed for failed swaps only.  Signing
\* once more changes nothing and is left out.
RefundFetch ==
    /\ refundPc = "idle"
    /\ ~refundSigned
    /\ status \in FailedSwapUpdateEvents
    /\ refundPc' = "fetched"
    /\ UNCHANGED <<payVars, invoice, lockup, chainVars, queue, setVars, scanVars,
                   refundSigned, claimable>>

\* Mutant of RefundEligibility: the status of the swap is taken for the whole truth.
RefundEligibilityByStatus ==
    /\ refundPc = "fetched"
    /\ refundPc' = "checked"
    /\ UNCHANGED <<payVars, invoice, lockup, chainVars, queue, setVars, scanVars,
                   refundSigned, claimable>>

\* hasPendingOrSuccessfulLightningPayment: every node is asked, a node that
\* cannot answer does not object.
RefundEligibility ==
    /\ refundPc = "fetched"
    /\ refundPc' \in
         IF LiveNodes = {} THEN { "checked" }
         ELSE { "idle" } \cup IF "nodeDown" \in Faults THEN { "checked" } ELSE {}
    /\ UNCHANGED <<payVars, invoice, lockup, chainVars, queue, setVars, scanVars,
                   refundSigned, claimable>>

\* The partial signature is created, its flag stored, then it is handed out.
SignRefund ==
    /\ refundPc = "checked"
    /\ refundPc' = "idle"
    /\ refundSigned' = TRUE
    /\ UNCHANGED <<payVars, invoice, lockup, chainVars, queue, setVars, scanVars,
                   claimable>>

\* Mutant of SubRestart: pending claims are not loaded again.
SubRestartWithoutClaims ==
    /\ Restart
    /\ reports' = {}
    /\ queue' = <<>>
    /\ setPc' = "idle" /\ setStatus' = "SwapCreated" /\ setLockup' = NoLockup
    /\ ScanIdle
    /\ refundPc' = "idle"
    /\ claimable' = FALSE
    /\ UNCHANGED <<invoice, lockup, kind, txs, refundSigned>>

\* A crash loses queue, activations and the claims in memory; DeferredClaimer
\* loads the pending claims again.
SubRestart ==
    /\ Restart
    /\ reports' = {}
    /\ queue' = <<>>
    /\ setPc' = "idle" /\ setStatus' = "SwapCreated" /\ setLockup' = NoLockup
    /\ ScanIdle
    /\ refundPc' = "idle"
    /\ claimable' = (status = "TransactionClaimPending")
    /\ UNCHANGED <<invoice, lockup, kind, txs, refundSigned>>

\* payInvoice goes on; the trackers and the nodes do so by themselves.
PayInvoiceStep ==
    /\ PaySteps
    /\ UNCHANGED <<invoice, lockup, chainVars, queue, setVars, scanVars,
                   refundVars, claimable>>

PaymentProgress ==
    /\ PayEnvironment
    /\ UNCHANGED <<invoice, lockup, chainVars, queue, setVars, scanVars,
                   refundVars, claimable>>

NurseryStep ==
    \/ \E l \in Lockups, confirmed \in BOOLEAN : CheckOutputs(l, confirmed)
    \/ SetLockupTransaction \/ CheckAmount \/ JudgeLockup \/ CheckExpired

HandlerStep ==
    \/ HandleLockup \/ HandleLockupFailed \/ HandleExpired \/ RetrySettle
    \/ ClaimLockup \/ SetInvoiceWrite \/ SettleAfterInvoice

SubNext ==
    \/ \E l \in Lockups : ChainStep(l) \/ Rescan(l)
    \/ NurseryStep \/ HandlerStep \/ SetInvoiceRead \/ PayInvoiceStep
    \/ PaymentProgress \/ SweepClaim \/ RefundFetch \/ RefundEligibility \/ SignRefund
    \/ SubRestart

SubSpec == SubInit /\ [][SubNext]_subVars

\* Locks are granted first come, first served, so who waits for one gets it; the
\* sidecar delivers its reports; handlers, once started, go on.  Nothing makes
\* blocks, invoices, claims, refunds or crashes happen.
SubFairness ==
    /\ \A l \in Lockups : SF_subVars(CheckOutputs(l, TRUE))
    /\ WF_subVars(SetLockupTransaction \/ CheckAmount \/ JudgeLockup)
    /\ SF_subVars(HandleLockup \/ HandleLockupFailed \/ HandleExpired)
    /\ WF_subVars(SetInvoiceWrite \/ SettleAfterInvoice \/ ClaimLockup \/ PayInvoiceStep)

FairSubSpec == SubSpec /\ SubFairness

-----------------------------------------------------------------------------
(* Properties.                                                             *)

\* An invoice is paid only for a lockup that owns the swap, has an acceptable
\* amount, was not refused by the transaction hook and is confirmed unless 0-conf
\* is accepted, whatever happened to the swap since the nursery looked at it.
PaidForAcceptedLockup ==
    LiveNodes # {} =>
      /\ lockup # NoLockup
      /\ kind[lockup] \in { "exact", "over" }
      /\ ZeroConf \/ txs[lockup] = "confirmed"

\* A refund signature and a payment of the invoice exclude each other.
RefundExcludesPayment == refundSigned => LiveNodes = {}

\* A claim that is pending can be made: the payment gave the preimage and the
\* swap is known to DeferredClaimer, also after a restart.
PendingClaimIsQueued ==
    status = "TransactionClaimPending" =>
      claimable /\ \E n \in Nodes : htlc[n] = "succeeded"

\* Once an invoice has been paid for, another output cannot take the swap over.
PaidLockupIsKept ==
    [][LiveNodes # {} => lockup' = lockup]_subVars

\* Somebody acted on a lockup of the swap, or it is too late: the invoice is attempted
\* or the lockup is refused.
Handled == status \notin ScannedStatuses \/ phase = "timeout"

\* A confirmed lockup that owns a swap with an invoice is acted on before the
\* timeout, in every order of reports, handlers and setSwapInvoice, without a crash.
\* What is paid too much is acted on when the nursery has still to hear of the
\* confirmation once the invoice is set, and may not be otherwise: setSwapInvoice
\* itself settles the exact amount only, and the swap then waits for a rescan.
\* Lockups the transaction hook refuses are left out: setSwapInvoice replaces
\* TransactionLockupFailed by InvoiceSet, and then no report judges them again.
ConfirmedLockupIsHandled ==
    \A l \in Lockups :
      /\ (kind[l] \notin { "over", "high" } /\ lockup = l /\ txs[l] = "confirmed" /\ invoice)
           ~> (Handled \/ lockup # l)
      /\ (<<l, TRUE>> \in reports /\ invoice) ~> (Handled \/ lockup \notin { l, NoLockup })

=============================================================================
