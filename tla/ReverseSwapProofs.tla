------------------------- MODULE ReverseSwapProofs -------------------------
(***************************************************************************)
(* Proofs about ReverseSwap for any bounds, with and without a miner fee   *)
(* invoice, for any number of failing calls to the node and crashes at any *)
(* step but the one between the broadcast of the lockup and its record.    *)
(***************************************************************************)
EXTENDS ReverseSwap, TLAPS

\* The events that wait for reverseSwapLock, and what they carry.
Waiting == { queue[i][1] : i \in 1..Len(queue) }
Carried == { queue[i][2] : i \in 1..Len(queue) }

\* No invoice.paid has been emitted that could still lead to a lockup.
NothingPending == paid = 0 /\ "invoice.paid" \notin Waiting /\ ~held
Locking == { "lockup", "sent", "send failed", "failing" }
NothingPaid == NothingPending /\ coins = "none" /\ pc \notin Locking

\* The miner fee: as long as its HTLC was not handled, nothing is paid, so the write
\* of MinerFeePaid outside of reverseSwapLock makes no swap eligible again.
FeeComesFirst ==
    /\ (\/ fee # "open" \/ "fee" \in htlcs \/ nurseryPc = "fee paid"
        \/ status = "MinerFeePaid") => "prepay" \in world
    /\ "prepay" \in world /\ (status = "SwapCreated" \/ fee = "open" \/ "fee" \in htlcs)
         => NothingPaid
    /\ fee = "open" \/ "fee" \in htlcs => status # "MinerFeePaid"
    /\ "fee" \in htlcs => fee # "open"
    /\ nurseryPc = "fee paid" =>
         fee # "open" /\ "fee" \notin htlcs /\ status # "SwapCreated"

\* A swap whose coins were sent is not eligible, except for the holder of the lock
\* that has not recorded them.
SentIsRecorded ==
    /\ sent \in { 0, 1 } /\ (sent = 0 <=> coins = "none")
    /\ pc \in { "lockup", "send failed", "failing" } => coins = "none"
    /\ coins # "none" => pc = "sent" \/ status \notin Eligible
    /\ pc = "sent" => coins # "none"
    /\ pc \in Locking => ~held

\* What the handlers and their events say of the chain is true.
ChainIsKnown ==
    /\ spend # "none" => coins # "none"
    /\ recorded => coins # "none"
    /\ pc \in { "refund", "stored", "refunded" } => coins # "none"
    /\ "lockup" \in Carried => coins # "none"
    /\ "refund.confirmed" \in Waiting => spend = "refunded"
    /\ refundRow = "Confirmed" => spend = "refunded"

\* An HTLC is behind everything that was paid, and an invoice that expires has none.
PaidIsAccepted ==
    /\ "hold" \in htlcs \/ ~NothingPaid => hold # "open"
    /\ "invoice.expired" \in Waiting => phase # "early"
    /\ pc = "cancel" => phase # "early" /\ hold = "open"

\* A cancelled invoice never gets a lockup: nothing that was paid is left, or the
\* swap cannot become eligible again.
CancelledIsNotLocked ==
    hold = "cancelled" /\ spend # "refunded" =>
      /\ coins = "none"
      /\ pc \notin { "lockup", "send failed" }
      /\ \/ NothingPending /\ "hold" \notin htlcs
         \/ pc = "failing"
         \/ /\ status \notin Eligible
            /\ "fee" \notin htlcs
            /\ "prepay" \in world => fee # "open"

\* The types that the proofs use.
QueueEntry == Event \X (SendApprovalAction \cup { "lockup", "none" })
Typed ==
    /\ world \in Worlds
    /\ hold \in InvoiceState
    /\ held \in BOOLEAN /\ recorded \in BOOLEAN
    /\ approval \in SendApprovalAction \cup { "none" }
    /\ sent \in Nat /\ paid \in Nat
    /\ queue \in Seq(QueueEntry)

\* The inductive invariant, apart from the types.
Inductive ==
    /\ FeeComesFirst
    /\ SentIsRecorded
    /\ ChainIsKnown
    /\ PaidIsAccepted
    /\ CancelledIsNotLocked

-----------------------------------------------------------------------------
(* The queue as a set.                                                     *)

\* Zenon is tried on every step that names no prover; most steps with arithmetic name SMT.
USE ZenonT(120)

\* A step that leaves the queue alone leaves what waits in it.
LEMMA QueueKept == ASSUME UNCHANGED queue PROVE Waiting' = Waiting /\ Carried' = Carried
  BY DEF Waiting, Carried

\* Nothing waits after a restart.
LEMMA QueueEmpty == ASSUME queue' = << >> PROVE Waiting' = {} /\ Carried' = {}
<1>1. \A i : i \notin 1..Len(queue')
  BY SMTT(60)
<1>. QED
  BY <1>1 DEF Waiting, Carried

\* An event that is emitted joins the waiting ones with what it carries.
LEMMA EventQueued ==
    ASSUME queue \in Seq(QueueEntry), NEW event \in Event,
           NEW arg \in SendApprovalAction \cup { "lockup", "none" },
           Enqueue(event, arg)
    PROVE  /\ Waiting' = Waiting \cup { event } /\ Carried' = Carried \cup { arg }
           /\ queue' \in Seq(QueueEntry)
           /\ UNCHANGED pc
<1>1. /\ queue' = Append(queue, << event, arg >>) /\ UNCHANGED pc
      /\ << event, arg >> \in QueueEntry
  BY DEF Enqueue, QueueEntry
<1>2. /\ queue' \in Seq(QueueEntry) /\ Len(queue') = Len(queue) + 1 /\ Len(queue) \in Nat
      /\ queue'[Len(queue) + 1] = << event, arg >>
      /\ \A i \in 1..Len(queue) : queue'[i] = queue[i]
  BY <1>1, SMTT(60)
<1>3. /\ Waiting' = Waiting \cup { event } /\ Carried' = Carried \cup { arg }
  BY <1>2, SMTT(60) DEF Waiting, Carried
<1>. QED
  BY <1>1, <1>2, <1>3

\* A handler takes an event that waited, and adds none.
LEMMA EventTaken ==
    ASSUME queue \in Seq(QueueEntry), NEW event, Takes(event)
    PROVE  /\ event \in Waiting /\ Waiting' \subseteq Waiting
           /\ Head(queue)[2] \in Carried /\ Carried' \subseteq Carried
           /\ Head(queue)[2] \in SendApprovalAction \cup { "lockup", "none" }
           /\ queue' \in Seq(QueueEntry)
           /\ pc = "idle"
<1>1. /\ queue # << >> /\ queue' = Tail(queue) /\ Head(queue)[1] = event /\ pc = "idle"
  BY DEF Takes
<1>2. /\ queue' \in Seq(QueueEntry) /\ Len(queue') = Len(queue) - 1 /\ Len(queue) \in Nat
      /\ Len(queue) >= 1 /\ Head(queue) = queue[1] /\ Head(queue) \in QueueEntry
      /\ \A i \in 1..Len(queue') : queue'[i] = queue[i + 1]
  BY <1>1, SMTT(60)
<1>3. Waiting' \subseteq Waiting /\ Carried' \subseteq Carried
  BY <1>2, SMTT(60) DEF Waiting, Carried
<1>4. event \in Waiting /\ Head(queue)[2] \in Carried
  BY <1>1, <1>2, SMTT(60) DEF Waiting, Carried
<1>5. Head(queue)[2] \in SendApprovalAction \cup { "lockup", "none" }
  BY <1>2 DEF QueueEntry
<1>. QED
  BY <1>1, <1>2, <1>3, <1>4, <1>5

-----------------------------------------------------------------------------
(* The invariant holds in the first state and is kept by every step.        *)

\* The arithmetic that the steps need.
LEMMA Counting == \A n \in Nat : (n > 0 => n # 0) /\ (n = 0 => n + 1 = 1 /\ n # 1)
  BY SMTT(60)

\* Every step keeps the types.
LEMMA TypedKept ==
    ASSUME Typed, RevStep, UNCHANGED world
    PROVE  Typed'
<1> USE DEF Typed, rowVars, nodeVars, chainVars, eventVars, lockVars,
        InvoiceState
<1>1. CASE PayHold
  BY <1>1 DEF PayHold
<1>2. CASE PayFee
  BY <1>2 DEF PayFee
<1>3. CASE ClientClaims
  BY <1>3 DEF ClientClaims
<1>4. CASE ChainConfirms
  BY <1>4 DEF ChainConfirms
<1>5. CASE Tick
  BY <1>5 DEF Tick
<1>6. CASE HoldAccepted
  BY <1>6, SMTT(60) DEF HoldAccepted, SettleFee, EmitPaid, NodeFails
<1>7. CASE FeeAccepted
  BY <1>7 DEF FeeAccepted
<1>8. CASE FeePaidLookup
  <2>1. UNCHANGED <<held, recorded, approval, sent, queue>>
    BY <1>8 DEF FeePaidLookup
  <2>2. UNCHANGED hold /\ paid' \in { paid, paid + 1 }
    BY <1>8 DEF FeePaidLookup, SettleFee, EmitPaid, NodeFails
  <2>. QED
    BY <2>1, <2>2, SMTT(60)
<1>9. CASE RetryHeld
  BY <1>9, SMTT(60) DEF RetryHeld, EmitPaid
<1>10. CASE SendToAddress
  <2>1. UNCHANGED <<held, recorded, approval, hold, paid, queue>>
    BY <1>10 DEF SendToAddress
  <2>2. sent' \in { sent, sent + 1 }
    BY <1>10 DEF SendToAddress
  <2>. QED
    BY <2>1, <2>2, SMTT(60)
<1>11. CASE SetServerLockupTransaction
  BY <1>11 DEF SetServerLockupTransaction
<1>12. CASE CancelAfterFailure
  BY <1>12 DEF CancelAfterFailure, NodeFails, Cancelled
<1>13. CASE SetFailed
  BY <1>13 DEF SetFailed, Writes
<1>14. CASE AddRefundTransaction
  BY <1>14 DEF AddRefundTransaction
<1>15. CASE BroadcastRefund
  BY <1>15 DEF BroadcastRefund, NodeFails
<1>16. CASE SetTransactionRefunded
  BY <1>16 DEF SetTransactionRefunded, Writes
<1>17. CASE SettleHoldInvoice
  BY <1>17 DEF SettleHoldInvoice, NodeFails
<1>18. CASE SetInvoiceSettled
  BY <1>18 DEF SetInvoiceSettled, Writes
<1>19. CASE CancelExpired
  BY <1>19 DEF CancelExpired, CancelReverseInvoices, NodeFails, Cancelled
<1>20. CASE SetInvoiceExpired
  BY <1>20 DEF SetInvoiceExpired, Writes
<1>21. CASE HandlePaid
  <2>1. queue' \in Seq(QueueEntry)
    BY <1>21, EventTaken DEF HandlePaid
  <2>. QED
    BY <1>21, <2>1 DEF HandlePaid, NodeFails, Takes, QueueEntry
<1>22. CASE HandleExpired
  <2>1. queue' \in Seq(QueueEntry)
    BY <1>22, EventTaken DEF HandleExpired
  <2>. QED
    BY <1>22, <2>1 DEF HandleExpired, Takes, QueueEntry
<1>23. CASE HandleServerConfirmed
  <2>1. queue' \in Seq(QueueEntry)
    BY <1>23, EventTaken DEF HandleServerConfirmed
  <2>. QED
    BY <1>23, <2>1 DEF HandleServerConfirmed, Takes, QueueEntry
<1>24. CASE HandleClaimed
  <2>1. queue' \in Seq(QueueEntry)
    BY <1>24, EventTaken DEF HandleClaimed
  <2>. QED
    BY <1>24, <2>1 DEF HandleClaimed, Takes, QueueEntry
<1>25. CASE HandleInvoiceExpired
  <2>1. queue' \in Seq(QueueEntry)
    BY <1>25, EventTaken DEF HandleInvoiceExpired
  <2>. QED
    BY <1>25, <2>1 DEF HandleInvoiceExpired, NodeFails, Takes, QueueEntry
<1>26. CASE HandleRefundConfirmed
  <2>1. queue' \in Seq(QueueEntry)
    BY <1>26, EventTaken DEF HandleRefundConfirmed
  <2>. QED
    BY <1>26, <2>1 DEF HandleRefundConfirmed, Takes, CancelReverseInvoices, NodeFails, Cancelled, QueueEntry
<1>27. CASE SignReverseSwapClaim
  <2>1. queue' \in Seq(QueueEntry) /\ UNCHANGED pc
    BY <1>27, EventQueued DEF SignReverseSwapClaim, Emits, Event
  <2>. QED
    BY <1>27, <2>1 DEF SignReverseSwapClaim, Emits, QueueEntry
<1>28. CASE CheckServerLockupMempoolTransactions
  <2>1. queue' \in Seq(QueueEntry) /\ UNCHANGED pc
    BY <1>28, EventQueued DEF CheckServerLockupMempoolTransactions, Emits, Event
  <2>. QED
    BY <1>28, <2>1 DEF CheckServerLockupMempoolTransactions, Emits, QueueEntry
<1>29. CASE CheckExpiredReverseSwaps
  <2>1. queue' \in Seq(QueueEntry) /\ UNCHANGED pc
    BY <1>29, EventQueued DEF CheckExpiredReverseSwaps, Emits, Event
  <2>. QED
    BY <1>29, <2>1 DEF CheckExpiredReverseSwaps, Emits, QueueEntry
<1>30. CASE CheckExpiredInvoices
  <2>1. queue' \in Seq(QueueEntry) /\ UNCHANGED pc
    BY <1>30, EventQueued DEF CheckExpiredInvoices, Emits, Event
  <2>. QED
    BY <1>30, <2>1 DEF CheckExpiredInvoices, Emits, QueueEntry
<1>31. CASE CheckRefund
  <2>1. queue' \in Seq(QueueEntry) /\ UNCHANGED pc
    BY <1>31, EventQueued DEF CheckRefund, Emits, Event
  <2>. QED
    BY <1>31, <2>1 DEF CheckRefund, Emits, QueueEntry
<1>32. CASE CheckReverseSwapClaim
  <2>1. CASE Emits("claimed", "none") /\ UNCHANGED refundRow
    <3>1. queue' \in Seq(QueueEntry) /\ UNCHANGED pc
      BY <2>1, EventQueued DEF Emits, Event
    <3>. QED
      BY <1>32, <2>1, <3>1 DEF CheckReverseSwapClaim, Emits, QueueEntry
  <2>2. CASE UNCHANGED <<status, rowVars, nodeVars, chainVars, htlcs, nurseryPc, paid,
                         approval, lockVars>>
    BY <1>32, <2>2 DEF CheckReverseSwapClaim
  <2>. QED
    BY <1>32, <2>1, <2>2 DEF CheckReverseSwapClaim
<1>33. CASE ResolveSendApproval
  <2>1. CASE status \notin Eligible
    <3>1. /\ held' = FALSE /\ paid' = paid - 1 /\ paid > 0
          /\ UNCHANGED <<queue, pc, approval, status, recorded, refundRow, hold, fee, coins,
                         spend, sent, phase, htlcs, nurseryPc>>
      BY <1>33, <2>1 DEF ResolveSendApproval
    <3>2. paid' \in Nat
      BY <3>1, SMTT(60)
    <3>. QED
      BY <3>1, <3>2
  <2>2. CASE status \in Eligible
    <3>1. approval' \in SendApprovalAction /\ Enqueue("invoice.paid", approval')
      BY <1>33, <2>2 DEF ResolveSendApproval
    <3>2. queue' \in Seq(QueueEntry) /\ UNCHANGED pc
      BY <3>1, EventQueued DEF Event
    <3>3. /\ paid' = paid - 1 /\ paid > 0 /\ UNCHANGED <<held, recorded, hold, sent>>
      BY <1>33, <2>2 DEF ResolveSendApproval
    <3>4. paid' \in Nat
      BY <3>3, SMTT(60)
    <3>. QED
      BY <3>1, <3>2, <3>3, <3>4
  <2>. QED
    BY <2>1, <2>2
<1>34. CASE ReverseRestart
  <2>1. UNCHANGED <<held, recorded, hold, sent>> /\ approval' = "none" /\ paid' = 0 /\ queue' = << >>
    BY <1>34 DEF ReverseRestart
  <2>2. << >> \in Seq(QueueEntry)
    BY SMTT(60)
  <2>. QED
    BY <2>1, <2>2
<1>. QED
  BY <1>1, <1>2, <1>3, <1>4, <1>5, <1>6, <1>7, <1>8, <1>9, <1>10, <1>11, <1>12,
     <1>13, <1>14, <1>15, <1>16, <1>17, <1>18, <1>19, <1>20, <1>21, <1>22,
     <1>23, <1>24, <1>25, <1>26, <1>27, <1>28, <1>29, <1>30, <1>31, <1>32,
     <1>33, <1>34
  DEF RevStep, LockHolder

\* Every step keeps the invariant, provided that no crash separates the
\* broadcast of the lockup from its record.
LEMMA RevInvKept ==
    ASSUME Typed, Typed', Inductive, RevStep, UNCHANGED world,
           "crash after send" \notin world
    PROVE  Inductive'
<1>n. paid \in Nat /\ sent \in Nat
  BY DEF Typed
<1>a. (paid > 0 => paid # 0) /\ (sent = 0 => sent + 1 = 1) /\ 0 # 1
  BY <1>n, Counting
<1>q. UNCHANGED queue => Waiting' = Waiting /\ Carried' = Carried
  BY QueueKept
<1> USE DEF Typed, rowVars, nodeVars, chainVars, eventVars, lockVars,
        Inductive, FeeComesFirst, SentIsRecorded, ChainIsKnown, PaidIsAccepted, CancelledIsNotLocked,
        NothingPaid, NothingPending, Locking, Eligible, InvoiceState
<1>1. CASE PayHold
  BY <1>q, <1>1 DEF PayHold
<1>2. CASE PayFee
  BY <1>q, <1>2 DEF PayFee
<1>3. CASE ClientClaims
  BY <1>q, <1>3 DEF ClientClaims
<1>4. CASE ChainConfirms
  BY <1>q, <1>4 DEF ChainConfirms
<1>5. CASE Tick
  BY <1>q, <1>5 DEF Tick
<1>6. CASE HoldAccepted
  BY <1>q, <1>6 DEF HoldAccepted, SettleFee, EmitPaid, NodeFails
<1>7. CASE FeeAccepted
  <2>1. Waiting' = Waiting /\ Carried' = Carried
    BY <1>7, QueueKept DEF FeeAccepted
  <2>2. FeeComesFirst'
    BY <1>7, <2>1 DEF FeeAccepted
  <2>3. SentIsRecorded'
    BY <1>7, <2>1 DEF FeeAccepted
  <2>4. ChainIsKnown'
    BY <1>7, <2>1 DEF FeeAccepted
  <2>5. PaidIsAccepted'
    BY <1>7, <2>1 DEF FeeAccepted
  <2>6. CancelledIsNotLocked'
    BY <1>7, <2>1 DEF FeeAccepted
  <2>. QED
    BY <2>2, <2>3, <2>4, <2>5, <2>6 DEF Inductive
<1>8. CASE FeePaidLookup
  BY <1>q, <1>8 DEF FeePaidLookup, SettleFee, EmitPaid, NodeFails
<1>9. CASE RetryHeld
  BY <1>q, <1>9 DEF RetryHeld, EmitPaid
<1>10. CASE SendToAddress
  <2>1. Waiting' = Waiting /\ Carried' = Carried
    BY <1>10, QueueKept DEF SendToAddress
  <2>2. /\ pc = "lockup" /\ coins = "none" /\ sent = 0 /\ ~held
        /\ UNCHANGED <<status, recorded, held, refundRow, hold, fee, spend, phase, htlcs,
                       nurseryPc, paid>>
    BY <1>10 DEF SendToAddress
  <2>3. \/ coins' = "mempool" /\ sent' = 1 /\ pc' = "sent"
        \/ coins' = "none" /\ sent' = 0 /\ pc' = "send failed"
    BY <1>a, <1>10, <2>2 DEF SendToAddress
  <2>4. FeeComesFirst'
    BY <2>1, <2>2, <2>3
  <2>5. SentIsRecorded'
    <3>1. CASE coins' = "mempool" /\ sent' = 1 /\ pc' = "sent"
      <4>1. sent' \in { 0, 1 } /\ (sent' = 0 <=> coins' = "none")
        BY <1>a, <3>1
      <4>. QED
        BY <2>2, <3>1, <4>1
    <3>2. CASE coins' = "none" /\ sent' = 0 /\ pc' = "send failed"
      BY <2>2, <3>2
    <3>. QED
      BY <2>3, <3>1, <3>2
  <2>6. ChainIsKnown'
    BY <2>1, <2>2, <2>3
  <2>7. PaidIsAccepted'
    BY <2>1, <2>2, <2>3
  <2>8. CancelledIsNotLocked'
    BY <2>1, <2>2, <2>3
  <2>. QED
    BY <2>4, <2>5, <2>6, <2>7, <2>8 DEF Inductive
<1>11. CASE SetServerLockupTransaction
  <2>1. Waiting' = Waiting /\ Carried' = Carried
    BY <1>11, QueueKept DEF SetServerLockupTransaction
  <2>2. FeeComesFirst'
    BY <1>11, <2>1 DEF SetServerLockupTransaction
  <2>3. SentIsRecorded'
    BY <1>11, <2>1 DEF SetServerLockupTransaction
  <2>4. ChainIsKnown'
    BY <1>11, <2>1 DEF SetServerLockupTransaction
  <2>5. PaidIsAccepted'
    BY <1>11, <2>1 DEF SetServerLockupTransaction
  <2>6. CancelledIsNotLocked'
    BY <1>11, <2>1 DEF SetServerLockupTransaction
  <2>. QED
    BY <2>2, <2>3, <2>4, <2>5, <2>6 DEF Inductive
<1>12. CASE CancelAfterFailure
  BY <1>q, <1>12 DEF CancelAfterFailure, NodeFails, Cancelled
<1>13. CASE SetFailed
  BY <1>q, <1>13 DEF SetFailed, Writes
<1>14. CASE AddRefundTransaction
  BY <1>q, <1>14 DEF AddRefundTransaction
<1>15. CASE BroadcastRefund
  BY <1>q, <1>15 DEF BroadcastRefund, NodeFails
<1>16. CASE SetTransactionRefunded
  BY <1>q, <1>16 DEF SetTransactionRefunded, Writes
<1>17. CASE SettleHoldInvoice
  BY <1>q, <1>17 DEF SettleHoldInvoice, NodeFails
<1>18. CASE SetInvoiceSettled
  BY <1>q, <1>18 DEF SetInvoiceSettled, Writes
<1>19. CASE CancelExpired
  BY <1>q, <1>19 DEF CancelExpired, CancelReverseInvoices, NodeFails, Cancelled
<1>20. CASE SetInvoiceExpired
  BY <1>q, <1>20 DEF SetInvoiceExpired, Writes
<1>21. CASE HandlePaid
  <2>1. /\ Waiting' \subseteq Waiting /\ "invoice.paid" \in Waiting /\ pc = "idle"
        /\ Carried' \subseteq Carried /\ Head(queue)[2] \in Carried
    BY <1>21, EventTaken DEF HandlePaid
  <2>. QED
    BY <1>21, <2>1 DEF HandlePaid, NodeFails, Takes
<1>22. CASE HandleExpired
  <2>1. /\ Waiting' \subseteq Waiting /\ "expired" \in Waiting /\ pc = "idle"
        /\ Carried' \subseteq Carried /\ Head(queue)[2] \in Carried
    BY <1>22, EventTaken DEF HandleExpired
  <2>. QED
    BY <1>22, <2>1 DEF HandleExpired, Takes
<1>23. CASE HandleServerConfirmed
  <2>1. /\ Waiting' \subseteq Waiting /\ "server.confirmed" \in Waiting /\ pc = "idle"
        /\ Carried' \subseteq Carried /\ Head(queue)[2] \in Carried
    BY <1>23, EventTaken DEF HandleServerConfirmed
  <2>. QED
    BY <1>23, <2>1 DEF HandleServerConfirmed, Takes
<1>24. CASE HandleClaimed
  <2>1. /\ Waiting' \subseteq Waiting /\ "claimed" \in Waiting /\ pc = "idle"
        /\ Carried' \subseteq Carried /\ Head(queue)[2] \in Carried
    BY <1>24, EventTaken DEF HandleClaimed
  <2>. QED
    BY <1>24, <2>1 DEF HandleClaimed, Takes
<1>25. CASE HandleInvoiceExpired
  <2>1. /\ Waiting' \subseteq Waiting /\ "invoice.expired" \in Waiting /\ pc = "idle"
        /\ Carried' \subseteq Carried /\ Head(queue)[2] \in Carried
    BY <1>25, EventTaken DEF HandleInvoiceExpired
  <2>. QED
    BY <1>25, <2>1 DEF HandleInvoiceExpired, NodeFails, Takes
<1>26. CASE HandleRefundConfirmed
  <2>1. /\ Waiting' \subseteq Waiting /\ "refund.confirmed" \in Waiting /\ pc = "idle"
        /\ Carried' \subseteq Carried /\ Head(queue)[2] \in Carried
    BY <1>26, EventTaken DEF HandleRefundConfirmed
  <2>. QED
    BY <1>26, <2>1 DEF HandleRefundConfirmed, Takes, CancelReverseInvoices, NodeFails, Cancelled
<1>27. CASE SignReverseSwapClaim
  <2>1. /\ Waiting' = Waiting \cup { "claimed" } /\ UNCHANGED pc
        /\ Carried' = Carried \cup { "none" }
    BY <1>27, EventQueued DEF SignReverseSwapClaim, Emits, Event
  <2>. QED
    BY <1>27, <2>1 DEF SignReverseSwapClaim, Emits
<1>28. CASE CheckServerLockupMempoolTransactions
  <2>1. /\ Waiting' = Waiting \cup { "server.confirmed" } /\ UNCHANGED pc
        /\ Carried' = Carried \cup { "none" }
    BY <1>28, EventQueued DEF CheckServerLockupMempoolTransactions, Emits, Event
  <2>. QED
    BY <1>28, <2>1 DEF CheckServerLockupMempoolTransactions, Emits
<1>29. CASE CheckExpiredReverseSwaps
  <2>1. /\ Waiting' = Waiting \cup { "expired" } /\ UNCHANGED pc
        /\ Carried' = Carried \cup { IF recorded THEN "lockup" ELSE "none" }
    BY <1>29, EventQueued DEF CheckExpiredReverseSwaps, Emits, Event
  <2>. QED
    BY <1>29, <2>1 DEF CheckExpiredReverseSwaps, Emits
<1>30. CASE CheckExpiredInvoices
  <2>1. /\ Waiting' = Waiting \cup { "invoice.expired" } /\ UNCHANGED pc
        /\ Carried' = Carried \cup { "none" }
    BY <1>30, EventQueued DEF CheckExpiredInvoices, Emits, Event
  <2>. QED
    BY <1>30, <2>1 DEF CheckExpiredInvoices, Emits
<1>31. CASE CheckRefund
  <2>1. /\ Waiting' = Waiting \cup { "refund.confirmed" } /\ UNCHANGED pc
        /\ Carried' = Carried \cup { "none" }
    BY <1>31, EventQueued DEF CheckRefund, Emits, Event
  <2>. QED
    BY <1>31, <2>1 DEF CheckRefund, Emits
<1>32. CASE CheckReverseSwapClaim
  <2>1. CASE Emits("claimed", "none") /\ UNCHANGED refundRow
    <3>1. /\ Waiting' = Waiting \cup { "claimed" } /\ UNCHANGED pc
          /\ Carried' = Carried \cup { "none" }
      BY <2>1, EventQueued DEF Emits, Event
    <3>. QED
      BY <1>32, <2>1, <3>1 DEF CheckReverseSwapClaim, Emits
  <2>2. CASE UNCHANGED <<status, rowVars, nodeVars, chainVars, htlcs, nurseryPc, paid,
                         approval, lockVars>>
    BY <1>32, <2>2, QueueKept DEF CheckReverseSwapClaim
  <2>. QED
    BY <1>32, <2>1, <2>2 DEF CheckReverseSwapClaim
<1>33. CASE ResolveSendApproval
  <2>1. CASE status \notin Eligible
    <3>1. /\ held' = FALSE /\ paid' = paid - 1 /\ paid > 0
          /\ UNCHANGED <<queue, pc, approval, status, recorded, refundRow, hold, fee, coins,
                         spend, sent, phase, htlcs, nurseryPc>>
      BY <1>33, <2>1 DEF ResolveSendApproval
    <3>2. paid # 0 /\ Waiting' = Waiting /\ Carried' = Carried
      BY <1>a, <3>1, QueueKept
    <3>3. FeeComesFirst'
      BY <2>1, <3>1, <3>2
    <3>4. SentIsRecorded'
      BY <2>1, <3>1, <3>2
    <3>5. ChainIsKnown'
      BY <2>1, <3>1, <3>2
    <3>6. PaidIsAccepted'
      BY <2>1, <3>1, <3>2
    <3>7. CancelledIsNotLocked'
      BY <2>1, <3>1, <3>2
    <3>. QED
      BY <3>3, <3>4, <3>5, <3>6, <3>7 DEF Inductive
  <2>2. CASE status \in Eligible
    <3>1. approval' \in SendApprovalAction /\ Enqueue("invoice.paid", approval')
      BY <1>33, <2>2 DEF ResolveSendApproval
    <3>2. /\ Waiting' = Waiting \cup { "invoice.paid" } /\ UNCHANGED pc
          /\ Carried' = Carried \cup { approval' }
      BY <3>1, EventQueued DEF Event
    <3>3. /\ paid > 0
          /\ UNCHANGED <<held, status, recorded, refundRow, hold, fee, coins, spend, sent, phase,
                         htlcs, nurseryPc>>
      BY <1>33, <2>2 DEF ResolveSendApproval
    <3>4. paid # 0
      BY <1>a, <3>3
    <3>5. FeeComesFirst'
      BY <2>2, <3>1, <3>2, <3>3, <3>4 DEF SendApprovalAction
    <3>6. SentIsRecorded'
      BY <2>2, <3>1, <3>2, <3>3, <3>4 DEF SendApprovalAction
    <3>7. ChainIsKnown'
      BY <2>2, <3>1, <3>2, <3>3, <3>4 DEF SendApprovalAction
    <3>8. PaidIsAccepted'
      BY <2>2, <3>1, <3>2, <3>3, <3>4 DEF SendApprovalAction
    <3>9. CancelledIsNotLocked'
      BY <2>2, <3>1, <3>2, <3>3, <3>4 DEF SendApprovalAction
    <3>. QED
      BY <3>5, <3>6, <3>7, <3>8, <3>9 DEF Inductive
  <2>. QED
    BY <2>1, <2>2
<1>34. CASE ReverseRestart
  <2>1. Waiting' = {} /\ Carried' = {}
    BY <1>34, QueueEmpty DEF ReverseRestart
  <2>2. /\ pc # "sent" /\ pc' = "idle" /\ paid' = 0 /\ nurseryPc' = "idle"
        /\ UNCHANGED <<status, recorded, held, refundRow, hold, fee, coins, spend, sent, phase>>
    BY <1>34 DEF ReverseRestart
  <2>3. /\ "hold" \in htlcs' => hold = "accepted"
        /\ "fee" \in htlcs' => status = "SwapCreated" /\ fee = "accepted"
    BY <1>34 DEF ReverseRestart
  <2>4. FeeComesFirst'
    BY <2>1, <2>2, <2>3
  <2>5. SentIsRecorded'
    BY <2>1, <2>2, <2>3
  <2>6. ChainIsKnown'
    BY <2>1, <2>2, <2>3
  <2>7. PaidIsAccepted'
    BY <2>1, <2>2, <2>3
  <2>8. CancelledIsNotLocked'
    BY <2>1, <2>2, <2>3
  <2>. QED
    BY <2>4, <2>5, <2>6, <2>7, <2>8 DEF Inductive
<1>. QED
  BY <1>1, <1>2, <1>3, <1>4, <1>5, <1>6, <1>7, <1>8, <1>9, <1>10, <1>11, <1>12,
     <1>13, <1>14, <1>15, <1>16, <1>17, <1>18, <1>19, <1>20, <1>21, <1>22,
     <1>23, <1>24, <1>25, <1>26, <1>27, <1>28, <1>29, <1>30, <1>31, <1>32,
     <1>33, <1>34
  DEF RevStep, LockHolder

\* The process does not stop between the broadcast of a lockup and its record.
SentIsNeverForgotten == \A w \in Worlds : "crash after send" \notin w

\* The inductive invariant holds in every reachable state.
THEOREM RevInvariant ==
    ASSUME SentIsNeverForgotten
    PROVE  RevSpec => [](Typed /\ Inductive)
<1>1. RevInit => Typed /\ Inductive
  <2> SUFFICES ASSUME RevInit PROVE Typed /\ Inductive
    OBVIOUS
  <2>1. Waiting = {} /\ Carried = {}
    <3>1. \A i : i \notin 1..Len(queue)
      BY SMTT(60) DEF RevInit
    <3>. QED
      BY <3>1 DEF Waiting, Carried
  <2>2. Typed
    <3>1. queue \in Seq(QueueEntry)
      BY SMTT(60) DEF RevInit
    <3>. QED
      BY <3>1 DEF RevInit, Typed, InvoiceState
  <2>3. Inductive
    BY <2>1 DEF RevInit, Inductive, FeeComesFirst, SentIsRecorded, ChainIsKnown,
           PaidIsAccepted, CancelledIsNotLocked, NothingPaid, NothingPending, Locking
  <2>. QED
    BY <2>2, <2>3
<1>2. Typed /\ Inductive /\ [RevNext]_revVars => (Typed /\ Inductive)'
  <2> SUFFICES ASSUME Typed, Inductive, [RevNext]_revVars
               PROVE  Typed' /\ Inductive'
    OBVIOUS
  <2>1. CASE RevNext
    <3>1. RevStep /\ UNCHANGED world
      BY <2>1 DEF RevNext
    <3>2. "crash after send" \notin world
      BY DEF SentIsNeverForgotten, Typed
    <3>3. Typed'
      BY <3>1, TypedKept
    <3>. QED
      BY <3>1, <3>2, <3>3, RevInvKept
  <2>2. CASE UNCHANGED revVars
    <3>1. Waiting' = Waiting /\ Carried' = Carried
      BY <2>2, QueueKept DEF revVars, lockVars
    <3>2. UNCHANGED <<world, status, recorded, held, refundRow, hold, fee, coins, spend, sent,
                      phase, htlcs, nurseryPc, paid, approval, queue, pc>>
      BY <2>2 DEF revVars, rowVars, nodeVars, chainVars, eventVars, lockVars
    <3>3. Typed'
      BY <3>2 DEF Typed
    <3>4. Inductive'
      BY <3>1, <3>2 DEF Inductive, FeeComesFirst, SentIsRecorded, ChainIsKnown,
             PaidIsAccepted, CancelledIsNotLocked, NothingPaid, NothingPending
    <3>. QED
      BY <3>3, <3>4
  <2>. QED
    BY <2>1, <2>2
<1>. QED
  BY <1>1, <1>2, PTL DEF RevSpec

\* The coins of a reverse swap are sent at most once, however many invoice.paid events,
\* send approvals, retries of held swaps and restarts there are.
THEOREM CoinsAreSentOnce ==
    ASSUME SentIsNeverForgotten
    PROVE  RevSpec => []LockedUpOnce
<1>1. \A n \in { 0, 1 } : n <= 1
  BY SMTT(60)
<1>2. Typed /\ Inductive => LockedUpOnce
  BY <1>1 DEF Inductive, SentIsRecorded, LockedUpOnce
<1>. QED
  BY <1>2, RevInvariant, PTL

\* The HTLC of the payer is held or settled as long as the lockup is not refunded:
\* neither a failed send, nor an expired invoice, nor the cleanup after a refund
\* cancels it earlier.
THEOREM LockupsAreBacked ==
    ASSUME SentIsNeverForgotten
    PROVE  RevSpec => []LockupIsBacked
<1>1. Typed /\ Inductive => LockupIsBacked
  BY DEF Typed, InvoiceState, Inductive, PaidIsAccepted, NothingPaid,
         CancelledIsNotLocked, LockupIsBacked
<1>. QED
  BY <1>1, RevInvariant, PTL

=============================================================================
