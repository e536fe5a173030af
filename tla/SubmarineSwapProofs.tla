------------------------ MODULE SubmarineSwapProofs ------------------------
(***************************************************************************)
(* Proofs about SubmarineSwap for any set of lockups of any kinds, any     *)
(* lightning nodes and, where a theorem does not say otherwise, any faults. *)
(* Who owns a swap and who may sign are argued for swaps that are created  *)
(* with their invoice; the runs look at late invoices.                     *)
(***************************************************************************)
EXTENDS SubmarineSwap, TLAPS

-----------------------------------------------------------------------------
(* InvoicePayment: for any LND and CLN nodes, any default of the send      *)
(* approval hook and any faults except an LND connection that breaks       *)
(* within the race of sendPaymentWithNode.                                 *)

Open == { "Pending", "Success" }
NoOpenRow == \A n \in Nodes : row[n] \notin Open

\* A tracker only observes a payment whose row is pending.
TrackersFollowRows == \A n \in Nodes : tracker[n] # "none" => row[n] = "Pending"

\* At most one node has a row that stops other attempts.
OneOpenRow == \A m, n \in Nodes : row[m] \in Open /\ row[n] \in Open => m = n

\* The rows read by getRelevantNode are stale only for a payment that was
\* pending then: nobody else opens a row while the activation runs.
SnapshotIsRecent ==
    pc \in { "gate", "send" } =>
      /\ payNode \in Nodes
      /\ \A n \in Nodes : row[n] # seen[n] => seen[n] = "Pending"

\* Between the creation of its row and the answer of the node, the activation
\* is the only one that may resolve the payment.
SenderOwnsRow ==
    pc \in { "rowed", "waiting" } =>
      /\ payNode \in Nodes
      /\ row[payNode] = "Pending"
      /\ tracker[payNode] = "none"
      /\ pc = "rowed" => htlc[payNode] \notin Live

\* What an activation is about to write is true already.
VerdictIsFounded ==
    /\ pc = "track" => payNode \in Nodes
    /\ pc = "track" /\ payError \in PermanentFailure => NoOpenRow
    /\ pc = "abandon" => NoOpenRow
    /\ pc \in { "settle", "returned" } =>
         \E n \in Nodes : htlc[n] = "succeeded"

SuccessMeansPreimage ==
    \A n \in Nodes : row[n] = "Success" => htlc[n] = "succeeded"

\* The part of the inductive invariant that does not depend on who calls
\* payInvoice, nor on what else writes the status of the swap.
PayInv ==
    /\ PayTypeOK
    /\ LivePaymentIsRecorded
    /\ SuccessMeansPreimage
    /\ TrackersFollowRows
    /\ OneOpenRow
    /\ SnapshotIsRecent
    /\ SenderOwnsRow
    /\ VerdictIsFounded

\* Zenon is tried on every step that names no prover; most steps with arithmetic name SMT.
USE ZenonT(120)

\* Every step keeps the types.
LEMMA PayTypePreserved ==
    ASSUME PayTypeOK, PayInvoice \/ PaySteps \/ PayEnvironment \/ Restart
    PROVE  PayTypeOK'
<1> USE DEF PayTypeOK, PermanentFailure, RowStatus, HtlcState, PayStep,
            PayError, NoError, NoRows, NoNode, Goto, Leave, Return, activation
<1>1. CASE PayInvoice
  BY <1>1 DEF PayInvoice, SwapUpdateEvent
<1>2. CASE HeldByHook
  BY <1>2 DEF HeldByHook
<1>3. CASE GetRelevantNode
  BY <1>3 DEF GetRelevantNode, Relevant
<1>4. CASE SignerDisabled
  BY <1>4 DEF SignerDisabled, Relevant
<1>5. CASE SendApproval
  BY <1>5 DEF SendApproval, ResolvedApproval, Approval, Relevant
<1>6. CASE SkipApproval
  BY <1>6 DEF SkipApproval, Relevant
<1>7. CASE CltvTooSmall
  BY <1>7 DEF CltvTooSmall, AfterFailure
<1>8. CASE StillPending
  BY <1>8 DEF StillPending, Seen
<1>9. CASE AlreadySucceeded
  <2>1. Goto("settle") \/ Return
    BY <1>9 DEF AlreadySucceeded
  <2>2. UNCHANGED <<status, row, htlc, tracker, held, phase>>
    BY <1>9 DEF AlreadySucceeded
  <2>. QED
    BY <2>1, <2>2
<1>10. CASE AlreadyFailed
  BY <1>10 DEF AlreadyFailed, AfterFailure, Seen
<1>11. CASE PaymentTimedOut
  BY <1>11 DEF PaymentTimedOut, AfterFailure, MayBeSent, Relevant, Seen
<1>12. CASE CreatePayment
  BY <1>12 DEF CreatePayment, MayBeSent, Relevant
<1>13. CASE Dispatch
  BY <1>13 DEF Dispatch
<1>14. CASE RefusedByNode
  BY <1>14 DEF RefusedByNode, SendFailed, AfterFailure
<1>15. CASE PaidInTime
  BY <1>15 DEF PaidInTime
<1>16. CASE FailedInTime
  BY <1>16 DEF FailedInTime, SendFailed, AfterFailure
<1>17. CASE InconclusiveError
  BY <1>17 DEF InconclusiveError, SendFailed, AfterFailure
<1>18. CASE RaceTimeout
  BY <1>18 DEF RaceTimeout
<1>19. CASE TrackPayment
  BY <1>19 DEF TrackPayment
<1>20. CASE SettleInvoice
  BY <1>20 DEF SettleInvoice, SwapUpdateEvent
<1>21. CASE AbandonSwap
  BY <1>21 DEF AbandonSwap, SwapUpdateEvent
<1>22. CASE Tick
  BY <1>22 DEF Tick
<1>23. CASE Restart
  BY <1>23 DEF Restart
<1>24. ASSUME NEW n \in Nodes, TrackerResolves(n) PROVE PayTypeOK'
  <2>1. Observed(n) \in RowStatus
    BY DEF Observed
  <2>. QED
    BY <1>24, <2>1 DEF TrackerResolves
<1>25. ASSUME NEW n \in Nodes, PromiseToWatch(n) PROVE PayTypeOK'
  BY <1>25 DEF PromiseToWatch
<1>26. ASSUME NEW n \in Nodes, TrackerGivesUp(n) PROVE PayTypeOK'
  BY <1>26 DEF TrackerGivesUp
<1>27. ASSUME NEW n \in Nodes, HtlcResolves(n) PROVE PayTypeOK'
  <2>1. PICK result \in HtlcState : htlc' = [htlc EXCEPT ![n] = result]
    BY <1>27 DEF HtlcResolves
  <2>. QED
    BY <1>27, <2>1 DEF HtlcResolves
<1>28. ASSUME NEW n \in Nodes, PollFails(n) PROVE PayTypeOK'
  BY <1>28 DEF PollFails
<1>. QED
  BY <1>1, <1>2, <1>3, <1>4, <1>5, <1>6, <1>7, <1>8, <1>9, <1>10, <1>11,
     <1>12, <1>13, <1>14, <1>15, <1>16, <1>17, <1>18, <1>19, <1>20, <1>21,
     <1>22, <1>23, <1>24, <1>25, <1>26, <1>27, <1>28
  DEF PaySteps, PayEnvironment

\* Every step of an activation of payInvoice, of the trackers, of the nodes and
\* a restart of the backend keep the invariant.
LEMMA PayInvPreserved ==
    ASSUME "earlyDrop" \notin Faults, PayInv,
           PayInvoice \/ PaySteps \/ PayEnvironment \/ Restart
    PROVE  PayInv'
<1> DEFINE Types ==
        /\ row \in [Nodes -> RowStatus] /\ htlc \in [Nodes -> HtlcState]
        /\ tracker \in [Nodes -> { "none", "promise", "watch" }]
        /\ seen \in [Nodes -> RowStatus]
<1> DEFINE Rest ==
        /\ LivePaymentIsRecorded /\ SuccessMeansPreimage /\ TrackersFollowRows
        /\ OneOpenRow /\ SnapshotIsRecent /\ SenderOwnsRow /\ VerdictIsFounded
<1>a. Types /\ Rest
  BY DEF PayInv, PayTypeOK
<1>b. SUFFICES Rest'
  BY PayTypePreserved DEF PayInv
<1> USE <1>a DEF LivePaymentIsRecorded, LiveNodes, Live, SuccessMeansPreimage,
            TrackersFollowRows, OneOpenRow, Open, NoOpenRow, SnapshotIsRecent,
            SenderOwnsRow, VerdictIsFounded, PermanentFailure, NoError, NoRows,
            NoNode, Goto, Leave, Return, activation
\* Only a CLN payment may be live when sending it fails: its row stays open.
<1>c. ASSUME NEW error, SendFailed(payNode, error),
             pc \in { "rowed", "waiting" },
             htlc[payNode] \in Live => payNode \in Cln /\ error \notin PermanentFailure,
             UNCHANGED htlc
      PROVE  Rest'
  <2>1. /\ payNode \in Nodes /\ row[payNode] = "Pending"
        /\ \A n \in Nodes \ {payNode} : row[n] \notin Open /\ htlc[n] \notin Live
    BY <1>c
  <2>2. CASE error \notin PermanentFailure /\ payNode \in Cln
    BY <1>c, <2>1, <2>2 DEF SendFailed
  <2>3. CASE ~(error \notin PermanentFailure /\ payNode \in Cln)
    <3>1. PICK r \in { "TemporaryFailure" } \cup PermanentFailure :
            row' = [row EXCEPT ![payNode] = r]
      BY <1>c, <2>3 DEF SendFailed
    <3>2. AfterFailure(payNode, error) /\ UNCHANGED tracker
      BY <1>c, <2>3 DEF SendFailed
    <3>3. NoOpenRow'
      BY <2>1, <3>1
    <3>. QED
      BY <1>c, <2>1, <2>3, <3>1, <3>2, <3>3 DEF AfterFailure
  <2>. QED
    BY <2>2, <2>3
<1>1. CASE PayInvoice
  BY <1>1 DEF PayInvoice
<1>2. CASE HeldByHook
  BY <1>2 DEF HeldByHook
<1>3. CASE GetRelevantNode
  BY <1>3 DEF GetRelevantNode, Relevant
<1>4. CASE SignerDisabled
  BY <1>4 DEF SignerDisabled, Relevant
<1>5. CASE SendApproval
  <2>1. pc = "gate" /\ Relevant(seen) = {}
    BY <1>5 DEF SendApproval
  <2>2. Return \/ Goto("abandon") \/ Goto("send")
    BY <1>5 DEF SendApproval
  <2>3. UNCHANGED <<row, htlc, tracker>>
    BY <1>5 DEF SendApproval
  <2>. QED
    BY <2>1, <2>2, <2>3 DEF Relevant
<1>6. CASE SkipApproval
  BY <1>6 DEF SkipApproval, Relevant
<1>7. CASE CltvTooSmall
  BY <1>7 DEF CltvTooSmall, AfterFailure
<1>8. CASE StillPending
  BY <1>8 DEF StillPending, Seen
<1>9. CASE AlreadySucceeded
  BY <1>9 DEF AlreadySucceeded, Seen
<1>10. CASE AlreadyFailed
  BY <1>10 DEF AlreadyFailed, AfterFailure, Seen
<1>11. CASE PaymentTimedOut
  BY <1>11, SMTT(60) DEF PaymentTimedOut, AfterFailure, MayBeSent, Relevant, Seen
<1>12. CASE CreatePayment
  <2>1. pc = "send" /\ payNode \in Nodes /\ NoOpenRow
    BY <1>12 DEF CreatePayment, MayBeSent, Relevant
  <2>2. UNCHANGED <<htlc, tracker>>
    BY <1>12 DEF CreatePayment
  <2>3. CASE row[payNode] \in { "none", "TemporaryFailure" }
    BY <1>12, <2>1, <2>2, <2>3, SMTT(60) DEF CreatePayment
  <2>4. CASE row[payNode] \notin { "none", "TemporaryFailure" }
    BY <1>12, <2>1, <2>2, <2>4 DEF CreatePayment
  <2>. QED
    BY <2>3, <2>4
<1>13. CASE Dispatch
  BY <1>13 DEF Dispatch
<1>14. CASE RefusedByNode
  <2>1. PICK error : SendFailed(payNode, error)
    BY <1>14 DEF RefusedByNode
  <2>. QED
    BY <1>14, <2>1, <1>c DEF RefusedByNode
<1>15. CASE PaidInTime
  BY <1>15, SMTT(60) DEF PaidInTime
<1>16. CASE FailedInTime
  BY <1>16, <1>c DEF FailedInTime
<1>17. CASE InconclusiveError
  <2>1. payNode \in Cln
    BY <1>17 DEF InconclusiveError, Nodes
  <2>. QED
    BY <1>17, <2>1, <1>c DEF InconclusiveError
<1>18. CASE RaceTimeout
  BY <1>18 DEF RaceTimeout
<1>19. CASE TrackPayment
  BY <1>19 DEF TrackPayment
<1>20. CASE SettleInvoice
  BY <1>20 DEF SettleInvoice
<1>21. CASE AbandonSwap
  BY <1>21 DEF AbandonSwap
<1>22. CASE Tick
  BY <1>22 DEF Tick
<1>23. CASE Restart
  BY <1>23 DEF Restart
<1>24. ASSUME NEW n \in Nodes, TrackerResolves(n) PROVE Rest'
  BY <1>24, SMTT(60) DEF TrackerResolves, Observed
<1>25. ASSUME NEW n \in Nodes, PromiseToWatch(n) PROVE Rest'
  BY <1>25 DEF PromiseToWatch
<1>26. ASSUME NEW n \in Nodes, TrackerGivesUp(n) PROVE Rest'
  BY <1>26 DEF TrackerGivesUp
<1>27. ASSUME NEW n \in Nodes, HtlcResolves(n) PROVE Rest'
  BY <1>27 DEF HtlcResolves
<1>28. ASSUME NEW n \in Nodes, PollFails(n) PROVE Rest'
  BY <1>28 DEF PollFails
<1>. QED
  BY <1>1, <1>2, <1>3, <1>4, <1>5, <1>6, <1>7, <1>8, <1>9, <1>10, <1>11,
     <1>12, <1>13, <1>14, <1>15, <1>16, <1>17, <1>18, <1>19, <1>20, <1>21,
     <1>22, <1>23, <1>24, <1>25, <1>26, <1>27, <1>28
  DEF PaySteps, PayEnvironment

-----------------------------------------------------------------------------
(* The payment of a swap on its own.                                       *)

\* With the retry interval as the only caller, an abandoned swap stays so.
StatusIsFounded ==
    /\ status = "InvoiceFailedToPay" => pc = "idle" /\ NoOpenRow
    /\ status \in { "InvoicePaid", "TransactionClaimed" } =>
         \E n \in Nodes : htlc[n] = "succeeded"

IInv == PayInv /\ StatusIsFounded

\* The initial state satisfies the inductive invariant.
LEMMA InitIInv == Init => IInv
  BY DEF Init, PayInit, IInv, PayInv, StatusIsFounded, PayTypeOK,
         LivePaymentIsRecorded, LiveNodes, Live, SuccessMeansPreimage,
         TrackersFollowRows, OneOpenRow, Open, NoOpenRow, SnapshotIsRecent,
         SenderOwnsRow, VerdictIsFounded, PermanentFailure, RowStatus,
         HtlcState, PayStep, PayError, NoError, NoRows, NoNode, SwapUpdateEvent

\* Claim and ExpireSwap only write the status and end an activation.
LEMMA CallerKeepsPayInv ==
    ASSUME PayInv, Claim \/ ExpireSwap
    PROVE  PayInv'
<1>1. pc' = "idle" /\ UNCHANGED <<row, htlc, tracker, held, phase>>
  BY DEF Claim, ExpireSwap, Return, Leave, activation
<1>2. PayTypeOK'
  BY <1>1 DEF Claim, ExpireSwap, Return, Leave, activation, PayInv, PayTypeOK,
              PayStep, PayError, NoError, NoRows, NoNode, RowStatus,
              SwapUpdateEvent
<1>. QED
  BY <1>1, <1>2 DEF PayInv, LivePaymentIsRecorded, LiveNodes,
         SuccessMeansPreimage, TrackersFollowRows, OneOpenRow,
         SnapshotIsRecent, SenderOwnsRow, VerdictIsFounded

\* Who changes the state of a payment on a node: its dispatch and its end.
LEMMA HtlcWriters ==
    ASSUME Next
    PROVE  \/ UNCHANGED htlc
           \/ Dispatch
           \/ \E n \in Nodes : HtlcResolves(n)
  BY DEF Next, Retry, PayInvoice, PaySteps, PayEnvironment, Restart, Claim,
         ExpireSwap, HeldByHook, GetRelevantNode, SignerDisabled, SendApproval,
         SkipApproval, CltvTooSmall, StillPending, AlreadySucceeded,
         AlreadyFailed, PaymentTimedOut, CreatePayment, RefusedByNode,
         PaidInTime, FailedInTime, InconclusiveError, RaceTimeout,
         TrackPayment, SettleInvoice, AbandonSwap, Tick, TrackerResolves,
         PromiseToWatch, TrackerGivesUp, PollFails

\* Who changes the status of the swap.
LEMMA StatusWriters ==
    ASSUME Next
    PROVE  \/ UNCHANGED status
           \/ Retry \/ SettleInvoice \/ AbandonSwap \/ Claim \/ ExpireSwap
  BY DEF Next, PaySteps, PayEnvironment, Restart,
         HeldByHook, GetRelevantNode, SignerDisabled, SendApproval,
         SkipApproval, CltvTooSmall, StillPending, AlreadySucceeded,
         AlreadyFailed, PaymentTimedOut, CreatePayment, Dispatch,
         RefusedByNode, PaidInTime, FailedInTime, InconclusiveError,
         RaceTimeout, TrackPayment, Tick, TrackerResolves,
         PromiseToWatch, TrackerGivesUp, PollFails, HtlcResolves

\* Outside of an activation rows change only under a tracker.
LEMMA IdleSteps ==
    ASSUME "earlyDrop" \notin Faults, Next, pc = "idle"
    PROVE  \/ Retry
           \/ pc' = "idle" /\ UNCHANGED row
           \/ pc' = "idle" /\ \E n \in Nodes : TrackerResolves(n)
  BY DEF Next, PaySteps, PayEnvironment, Restart, Claim, ExpireSwap,
         HeldByHook, GetRelevantNode, SignerDisabled, SendApproval,
         SkipApproval, CltvTooSmall, StillPending, AlreadySucceeded,
         AlreadyFailed, PaymentTimedOut, CreatePayment, MayBeSent, Dispatch,
         RefusedByNode, PaidInTime, FailedInTime, InconclusiveError,
         RaceTimeout, TrackPayment, SettleInvoice, AbandonSwap, Tick,
         TrackerResolves, PromiseToWatch, TrackerGivesUp, PollFails,
         HtlcResolves, Return, Leave, activation

\* No step loses the preimage of a payment that succeeded.
LEMMA PreimageIsKept ==
    ASSUME PayTypeOK, Next
    PROVE  (\E n \in Nodes : htlc[n] = "succeeded") =>
             (\E n \in Nodes : htlc[n] = "succeeded")'
  BY HtlcWriters DEF Dispatch, HtlcResolves, Live, PayTypeOK

\* The inductive step, for payInvoice, the trackers and the standalone caller.
LEMMA NextIInv ==
    ASSUME "earlyDrop" \notin Faults, IInv, [Next]_payVars
    PROVE  IInv'
<1>1. CASE UNCHANGED payVars
  BY <1>1, SMTT(60) DEF IInv, PayInv, StatusIsFounded, payVars, activation, PayTypeOK,
         LivePaymentIsRecorded, LiveNodes, SuccessMeansPreimage,
         TrackersFollowRows, OneOpenRow, NoOpenRow, SnapshotIsRecent,
         SenderOwnsRow, VerdictIsFounded
<1>2. CASE Next
  <2>1. PayInv'
    BY <1>2, PayInvPreserved, CallerKeepsPayInv DEF IInv, Next, Retry
  <2>2. (status = "InvoiceFailedToPay" => pc = "idle" /\ NoOpenRow)'
    <3>1. CASE AbandonSwap
      BY <3>1 DEF AbandonSwap, Return, Leave, IInv, PayInv, VerdictIsFounded,
                  NoOpenRow
    <3>2. CASE ~AbandonSwap /\ status' = "InvoiceFailedToPay"
      <4>1. status = "InvoiceFailedToPay"
        BY <1>2, <3>2, StatusWriters
           DEF Retry, PayInvoice, SettleInvoice, Claim, ExpireSwap
      <4>2. pc = "idle" /\ NoOpenRow
        BY <4>1 DEF IInv, StatusIsFounded
      <4>3. ~Retry
        BY <4>1 DEF Retry
      <4>4. \A n \in Nodes : ~TrackerResolves(n)
        BY <4>2 DEF TrackerResolves, NoOpenRow, Open, IInv, PayInv,
                    TrackersFollowRows
      <4>. QED
        BY <1>2, <4>2, <4>3, <4>4, IdleSteps DEF NoOpenRow
    <3>. QED
      BY <3>1, <3>2
  <2>3. (status \in { "InvoicePaid", "TransactionClaimed" } =>
           \E n \in Nodes : htlc[n] = "succeeded")'
    <3>1. SUFFICES ASSUME (status \in { "InvoicePaid", "TransactionClaimed" })'
                   PROVE  \E n \in Nodes : htlc[n] = "succeeded"
      BY <1>2, PreimageIsKept DEF IInv, PayInv
    <3>. QED
      BY <1>2, <3>1, StatusWriters
         DEF IInv, PayInv, StatusIsFounded, VerdictIsFounded, Retry,
             PayInvoice, SettleInvoice, AbandonSwap, Claim, ExpireSwap
  <2>. QED
    BY <2>1, <2>2, <2>3 DEF IInv, StatusIsFounded
<1>. QED
  BY <1>1, <1>2

\* The inductive invariant holds in every reachable state.
THEOREM PaymentInvariant ==
    ASSUME "earlyDrop" \notin Faults
    PROVE  Spec => []IInv
<1>1. Init => IInv
  BY InitIInv
<1>2. IInv /\ [Next]_payVars => IInv'
  BY NextIInv
<1>. QED
  BY <1>1, <1>2, PTL DEF Spec

\* Every variable keeps its type, whatever nodes, hooks and faults there are.
THEOREM PaymentTypes ==
    ASSUME "earlyDrop" \notin Faults
    PROVE  Spec => []PayTypeOK
<1>1. IInv => PayTypeOK
  BY DEF IInv, PayInv
<1>. QED
  BY <1>1, PaymentInvariant, PTL

\* payInvoice, its retries, the trackers and restarts never have the invoice of
\* a swap in flight on one node while another node has it in flight or paid it.
THEOREM NoSecondPayment ==
    ASSUME "earlyDrop" \notin Faults
    PROVE  Spec => []AtMostOneLivePayment
<1>1. IInv => AtMostOneLivePayment
  BY DEF IInv, PayInv, LivePaymentIsRecorded, OneOpenRow, Open,
         AtMostOneLivePayment, LiveNodes
<1>. QED
  BY <1>1, PaymentInvariant, PTL

\* The table of lightning payments never calls a payment failed that its node
\* may still complete or has completed.
THEOREM LivePaymentsAreRecorded ==
    ASSUME "earlyDrop" \notin Faults
    PROVE  Spec => []LivePaymentIsRecorded
<1>1. IInv => LivePaymentIsRecorded
  BY DEF IInv, PayInv
<1>. QED
  BY <1>1, PaymentInvariant, PTL

\* abandonSwap never gives up a swap whose invoice a node may still pay.
THEOREM AbandonIsSafe ==
    ASSUME "earlyDrop" \notin Faults
    PROVE  Spec => []AbandonedWithoutPayment
<1>1. IInv => AbandonedWithoutPayment
  BY DEF IInv, PayInv, StatusIsFounded, LivePaymentIsRecorded, NoOpenRow,
         Open, AbandonedWithoutPayment, LiveNodes
<1>. QED
  BY <1>1, PaymentInvariant, PTL

\* A paid or claimed swap has its preimage, a Success row its settled payment.
THEOREM PaidHasPreimage ==
    ASSUME "earlyDrop" \notin Faults
    PROVE  Spec => []PaidMeansPreimage
<1>1. IInv => PaidMeansPreimage
  BY DEF IInv, PayInv, StatusIsFounded, SuccessMeansPreimage,
         PaidMeansPreimage
<1>. QED
  BY <1>1, PaymentInvariant, PTL

\* No step overwrites the recorded success or permanent failure of a payment:
\* trackers, answers and timeouts write pending rows or temporary failures.
LEMMA RowWriters ==
    ASSUME "earlyDrop" \notin Faults, PayInv, [Next]_payVars, NEW n \in Nodes,
           row[n] \in { "Success" } \cup PermanentFailure
    PROVE  row'[n] = row[n]
<1> USE DEF PayInv, PayTypeOK, PermanentFailure
<1>1. CASE PaymentTimedOut
  <2>1. row[payNode] \notin PermanentFailure \cup { "Success" }
    BY <1>1 DEF PaymentTimedOut, MayBeSent, Relevant, SnapshotIsRecent
  <2>. QED
    BY <1>1, <2>1 DEF PaymentTimedOut
<1>2. CASE CreatePayment
  BY <1>2 DEF CreatePayment
<1>3. CASE RefusedByNode \/ FailedInTime \/ InconclusiveError
  <2>1. payNode # n
    BY <1>3 DEF RefusedByNode, FailedInTime, InconclusiveError, SenderOwnsRow
  <2>2. UNCHANGED row \/ \E r : row' = [row EXCEPT ![payNode] = r]
    BY <1>3 DEF RefusedByNode, FailedInTime, InconclusiveError, SendFailed
  <2>. QED
    BY <2>1, <2>2
<1>4. CASE PaidInTime
  BY <1>4 DEF PaidInTime, SenderOwnsRow
<1>5. ASSUME NEW m \in Nodes, TrackerResolves(m) PROVE row'[n] = row[n]
  BY <1>5 DEF TrackerResolves, TrackersFollowRows
<1>6. \/ UNCHANGED row
      \/ PaymentTimedOut \/ CreatePayment \/ RefusedByNode \/ FailedInTime
      \/ InconclusiveError \/ PaidInTime
      \/ \E m \in Nodes : TrackerResolves(m)
  BY DEF Next, Retry, PayInvoice, PaySteps, PayEnvironment, Restart, Claim,
         ExpireSwap, HeldByHook, GetRelevantNode, SignerDisabled, SendApproval,
         SkipApproval, CltvTooSmall, StillPending, AlreadySucceeded,
         AlreadyFailed, Dispatch, RaceTimeout, TrackPayment, SettleInvoice,
         AbandonSwap, Tick, PromiseToWatch, TrackerGivesUp, PollFails,
         HtlcResolves, payVars
<1>. QED
  BY <1>1, <1>2, <1>3, <1>4, <1>5, <1>6

\* Recorded outcomes are final.
THEOREM OutcomesAreFinal ==
    ASSUME "earlyDrop" \notin Faults
    PROVE  Spec => OutcomeIsFinal
<1>1. IInv /\ [Next]_payVars =>
        [\A n \in Nodes : row[n] \in { "Success" } \cup PermanentFailure =>
           row'[n] = row[n]]_payVars
  BY RowWriters DEF IInv
<1>. QED
  BY <1>1, PaymentInvariant, PTL DEF Spec, OutcomeIsFinal

\* The refinement: every step of the rows, trackers and nodes is a step of
\* SinglePayment or leaves its variables unchanged.
THEOREM PaymentRefinesSinglePayment ==
    ASSUME "earlyDrop" \notin Faults
    PROVE  Spec => PaidOnlyOnce
<1>1. Init => Once!Init
  BY DEF Init, PayInit, Once!Init
<1>2. IInv /\ [Next]_payVars => [Once!Next]_Once!onceVars
  <2> SUFFICES ASSUME IInv, [Next]_payVars
               PROVE  [Once!Next]_Once!onceVars
    OBVIOUS
  <2>1. CASE Dispatch
    <3>1. /\ payNode \in Nodes /\ status # "InvoiceFailedToPay"
          /\ \A n \in Nodes : htlc[n] \notin Live
      BY <2>1 DEF Dispatch, IInv, PayInv, StatusIsFounded, SenderOwnsRow,
             OneOpenRow, Open, LivePaymentIsRecorded, LiveNodes
    <3>2. PICK m \in Nodes : m = payNode
      BY <3>1
    <3>3. Once!Send(m)
      BY <2>1, <3>1, <3>2 DEF Dispatch, Once!Send, Once!Nothing, Live, IInv, PayInv,
             PayTypeOK
    <3>. QED
      BY <3>3 DEF Once!Next
  <2>2. ASSUME NEW n \in Nodes, HtlcResolves(n) PROVE Once!Next
    <3>1. Once!Resolve(n)
      BY <2>2 DEF HtlcResolves, Once!Resolve, IInv, PayInv, PayTypeOK
    <3>. QED
      BY <3>1 DEF Once!Next
  <2>3. CASE AbandonSwap
    <3>1. Once!Abandon
      BY <2>3 DEF AbandonSwap, Once!Abandon, Once!Nothing, IInv, PayInv,
             VerdictIsFounded, NoOpenRow, LivePaymentIsRecorded, LiveNodes,
             Live, Open
    <3>. QED
      BY <3>1 DEF Once!Next
  <2>4. CASE UNCHANGED htlc /\ ~AbandonSwap
    <3>1. (status = "InvoiceFailedToPay") = (status' = "InvoiceFailedToPay")
      BY <2>4, StatusWriters DEF payVars, IInv, PayInv, StatusIsFounded, Retry,
             PayInvoice, SettleInvoice, Claim, ExpireSwap, FinalSwapEvents
    <3>. QED
      BY <2>4, <3>1 DEF Once!onceVars
  <2>. QED
    BY <2>1, <2>2, <2>3, <2>4, HtlcWriters DEF payVars
<1>. QED
  BY <1>1, <1>2, PaymentInvariant, PTL DEF Spec, PaidOnlyOnce, Once!Spec

-----------------------------------------------------------------------------
(* What the steps of a payment may do to the rest of the swap.             *)

\* The steps of an activation only end it as paid or as failed.
LEMMA PayStepStatus ==
    ASSUME PaySteps
    PROVE  /\ pc \notin { "idle", "returned" }
           /\ UNCHANGED phase
           /\ UNCHANGED status \/ SettleInvoice \/ AbandonSwap
<1>1. pc \notin { "idle", "returned" } /\ UNCHANGED phase
  BY DEF PaySteps, HeldByHook, GetRelevantNode, SignerDisabled, SendApproval,
         SkipApproval, CltvTooSmall, StillPending, AlreadySucceeded,
         AlreadyFailed, PaymentTimedOut, CreatePayment, MayBeSent, Dispatch,
         RefusedByNode, PaidInTime, FailedInTime, InconclusiveError,
         RaceTimeout, TrackPayment, SettleInvoice, AbandonSwap
<1>. QED
  BY <1>1, StatusWriters
     DEF Next, Retry, PayInvoice, Claim, ExpireSwap

\* Trackers, nodes and blocks touch neither the swap nor the activation.
LEMMA EnvironmentStatus ==
    ASSUME PayEnvironment
    PROVE  UNCHANGED <<status, activation>>
  BY DEF PayEnvironment, Tick, TrackerResolves, PromiseToWatch,
         TrackerGivesUp, PollFails, HtlcResolves, activation

\* Only an activation that created its row gets a node to pay, and a payment
\* that succeeded stays so.
LEMMA PaymentsOfNodes ==
    ASSUME htlc \in [Nodes -> HtlcState],
           PayInvoice \/ PaySteps \/ PayEnvironment \/ Restart
    PROVE  /\ htlc' \in [Nodes -> HtlcState]
           /\ LiveNodes' \subseteq LiveNodes \/ Dispatch
           /\ (\E n \in Nodes : htlc[n] = "succeeded") =>
                (\E n \in Nodes : htlc[n] = "succeeded")'
<1>1. UNCHANGED htlc \/ Dispatch \/ \E n \in Nodes : HtlcResolves(n)
  <2>1. CASE PayInvoice
    BY <2>1 DEF PayInvoice
  <2>2. CASE PaySteps \/ PayEnvironment \/ Restart
    BY <2>2, HtlcWriters DEF Next
  <2>. QED
    BY <2>1, <2>2
<1>2. CASE UNCHANGED htlc
  BY <1>2 DEF LiveNodes
<1>3. CASE Dispatch
  BY <1>3 DEF Dispatch, HtlcState, Live
<1>4. ASSUME NEW n \in Nodes, HtlcResolves(n)
      PROVE  /\ htlc' \in [Nodes -> HtlcState]
             /\ LiveNodes' \subseteq LiveNodes
             /\ (\E m \in Nodes : htlc[m] = "succeeded") =>
                  (\E m \in Nodes : htlc[m] = "succeeded")'
  <2>1. htlc[n] = "inflight"
    BY <1>4 DEF HtlcResolves
  <2>2. PICK result \in HtlcState : htlc' = [htlc EXCEPT ![n] = result]
    BY <1>4 DEF HtlcResolves, HtlcState
  <2>. QED
    BY <2>1, <2>2 DEF LiveNodes, Live
<1>. QED
  BY <1>1, <1>2, <1>3, <1>4

-----------------------------------------------------------------------------
(* Pending claims, for every value of the constants.                       *)

\* The activation uses one of the nodes, and settles only with a preimage.
SettlesWithPreimage ==
    /\ htlc \in [Nodes -> HtlcState]
    /\ pc \in { "gate", "send", "rowed", "waiting", "track" } => payNode \in Nodes
    /\ pc \in { "settle", "returned" } => \E n \in Nodes : htlc[n] = "succeeded"

\* No step of a payment makes it settle without a preimage.
LEMMA SettlesWithPreimageKept ==
    ASSUME SettlesWithPreimage,
           PayInvoice \/ PaySteps \/ PayEnvironment \/ Restart
    PROVE  SettlesWithPreimage'
<1> USE DEF SettlesWithPreimage, Goto, Leave, Return, AfterFailure, SendFailed
<1>1. /\ htlc' \in [Nodes -> HtlcState]
      /\ (\E n \in Nodes : htlc[n] = "succeeded") =>
           (\E n \in Nodes : htlc[n] = "succeeded")'
  BY PaymentsOfNodes
<1>2. CASE PayInvoice \/ Restart
  BY <1>1, <1>2 DEF PayInvoice, Restart
<1>3. CASE PayEnvironment
  BY <1>1, <1>3, EnvironmentStatus DEF activation
<1>4. CASE HeldByHook \/ GetRelevantNode \/ SignerDisabled \/ SkipApproval
  BY <1>1, <1>4 DEF HeldByHook, GetRelevantNode, SignerDisabled, SkipApproval, Relevant
<1>5. CASE SendApproval
  <2>1. pc = "gate" /\ (Return \/ Goto("abandon") \/ Goto("send"))
    BY <1>5 DEF SendApproval
  <2>. QED
    BY <1>1, <2>1
<1>6. CASE CltvTooSmall \/ StillPending \/ AlreadyFailed
  BY <1>1, <1>6 DEF CltvTooSmall, StillPending, AlreadyFailed
<1>7. CASE AlreadySucceeded
  <2>1. pc = "send"
    BY <1>7 DEF AlreadySucceeded
  <2>2. PICK n \in Nodes : pc' = "idle" \/ (htlc[n] = "succeeded" /\ pc' = "settle")
    BY <1>7 DEF AlreadySucceeded
  <2>. QED
    BY <1>1, <2>1, <2>2
<1>8. CASE PaymentTimedOut \/ CreatePayment
  BY <1>1, <1>8 DEF PaymentTimedOut, CreatePayment, MayBeSent
<1>9. CASE Dispatch
  BY <1>1, <1>9 DEF Dispatch
<1>10. CASE RefusedByNode
  BY <1>1, <1>10 DEF RefusedByNode
<1>11. CASE PaidInTime
  BY <1>1, <1>11 DEF PaidInTime
<1>12. CASE FailedInTime \/ InconclusiveError
  BY <1>1, <1>12 DEF FailedInTime, InconclusiveError
<1>13. CASE RaceTimeout
  BY <1>1, <1>13 DEF RaceTimeout
<1>14. CASE TrackPayment
  BY <1>1, <1>14 DEF TrackPayment
<1>15. CASE SettleInvoice \/ AbandonSwap
  BY <1>1, <1>15 DEF SettleInvoice, AbandonSwap
<1>. QED
  BY <1>2, <1>3, <1>4, <1>5, <1>6, <1>7, <1>8, <1>9, <1>10, <1>11, <1>12,
     <1>13, <1>14, <1>15 DEF PaySteps

ClaimInv == SettlesWithPreimage /\ PendingClaimIsQueued

\* Every step of the swap keeps a pending claim in reach of DeferredClaimer.
LEMMA ClaimInvKept ==
    ASSUME ClaimInv, [SubNext]_subVars
    PROVE  ClaimInv'
<1> USE DEF ClaimInv, PendingClaimIsQueued
<1>1. ASSUME PayInvoice \/ PaySteps \/ PayEnvironment \/ Restart,
             status' = "TransactionClaimPending" => UNCHANGED <<status, claimable>>
      PROVE  ClaimInv'
  BY <1>1, SettlesWithPreimageKept, PaymentsOfNodes, SMTT(60) DEF SettlesWithPreimage
<1>2. ASSUME UNCHANGED <<htlc, activation>>,
             status' = "TransactionClaimPending" => UNCHANGED <<status, claimable>>
      PROVE  ClaimInv'
  BY <1>2 DEF activation, SettlesWithPreimage
<1>3. CASE HandleLockup
  <2>1. CASE PayInvoice
    BY <1>1, <2>1 DEF PayInvoice
  <2>2. CASE UNCHANGED payVars
    BY <1>2, <1>3, <2>2 DEF HandleLockup, Handles, payVars
  <2>. QED
    BY <1>3, <2>1, <2>2 DEF HandleLockup
<1>4. CASE RetrySettle \/ SettleAfterInvoice
  BY <1>1, <1>4 DEF RetrySettle, SettleAfterInvoice, PayInvoice
<1>5. CASE PayInvoiceStep
  <2>1. PaySteps /\ UNCHANGED claimable
    BY <1>5 DEF PayInvoiceStep
  <2>. QED
    BY <1>1, <2>1, PayStepStatus DEF SettleInvoice, AbandonSwap
<1>6. CASE PaymentProgress
  BY <1>1, <1>6, EnvironmentStatus DEF PaymentProgress
<1>7. CASE ClaimLockup
  <2>1. /\ pc = "returned" /\ pc' = "idle" /\ UNCHANGED htlc
        /\ status' = "TransactionClaimPending" =>
             claimable' = TRUE \/ UNCHANGED <<status, claimable>>
    BY <1>7 DEF ClaimLockup, Return, Leave
  <2>. QED
    BY <2>1 DEF SettlesWithPreimage
<1>8. CASE SweepClaim
  BY <1>2, <1>8 DEF SweepClaim
<1>9. CASE SubRestart
  <2>1. Restart /\ claimable' = (status = "TransactionClaimPending")
    BY <1>9 DEF SubRestart
  <2>2. UNCHANGED status
    BY <2>1 DEF Restart
  <2>. QED
    BY <2>1, <2>2, SettlesWithPreimageKept, PaymentsOfNodes DEF SettlesWithPreimage
<1>10. CASE SetLockupTransaction
  BY <1>2, <1>10 DEF SetLockupTransaction
<1>11. CASE JudgeLockup
  BY <1>2, <1>11 DEF JudgeLockup
<1>12. CASE HandleLockupFailed \/ HandleExpired
  BY <1>2, <1>12 DEF HandleLockupFailed, HandleExpired, Handles
<1>13. CASE SetInvoiceWrite
  BY <1>2, <1>13 DEF SetInvoiceWrite
<1>14. CASE UNCHANGED <<payVars, claimable>>
  BY <1>2, <1>14 DEF payVars
<1>. QED
  BY <1>3, <1>4, <1>5, <1>6, <1>7, <1>8, <1>9, <1>10, <1>11, <1>12, <1>13, <1>14
     DEF SubNext, NurseryStep, HandlerStep, ChainStep, Rescan, CheckOutputs,
         CheckAmount, CheckExpired, SetInvoiceRead, RefundFetch,
         RefundEligibility, SignRefund, subVars

\* Whatever the order of payments, claims, expiries, refunds and restarts, a swap
\* in TransactionClaimPending has a preimage and is in the memory of
\* DeferredClaimer: none is left for the timeout of its lockup.
THEOREM PendingClaimsAreQueued == SubSpec => []PendingClaimIsQueued
<1>1. SubInit => ClaimInv
  BY DEF SubInit, PayInit, ClaimInv, SettlesWithPreimage, PendingClaimIsQueued,
         HtlcState
<1>2. ClaimInv => PendingClaimIsQueued
  BY DEF ClaimInv
<1>. QED
  BY <1>1, <1>2, ClaimInvKept, PTL DEF SubSpec

-----------------------------------------------------------------------------
(* The lockup an invoice is paid for.                                      *)

\* The lockups of the waiting nursery events of one kind.
Heard(s, event) == { s[i][2] : i \in { j \in 1..Len(s) : s[j][1] = event } }

Waits(event) == Heard(queue, event)

\* What a lockup must be for the invoice to be paid, and what makes the nursery
\* refuse it for good.
Accepted(l) ==
    /\ l \in Lockups
    /\ kind[l] \in { "exact", "over" }
    /\ ZeroConf \/ txs[l] = "confirmed"

Refused(l) == l \in Lockups /\ kind[l] \in { "low", "high", "blocked" }

\* The swap was handed to payInvoice at some time and is still worth a payment.
Engaged ==
    \/ pc # "idle"
    \/ LiveNodes # {}
    \/ claimable
    \/ status \in { "InvoicePending", "InvoicePaid", "TransactionClaimPending",
                    "TransactionClaimed" }

Entries == EventKind \X (Lockups \cup { NoLockup })

OwnerTyped ==
    /\ invoice = TRUE /\ setPc = "idle"
    /\ lockup \in Lockups \cup { NoLockup }
    /\ scanTx \in Lockups \cup { NoLockup }
    /\ scanLockup \in Lockups \cup { NoLockup }
    /\ kind \in [Lockups -> LockupKind]
    /\ txs \in [Lockups -> { "unseen", "mempool", "confirmed" }]
    /\ htlc \in [Nodes -> HtlcState]
    /\ queue \in Seq(Entries)

\* A report of a confirmation is true, and so is what the nursery made of it.
ReportsAreTrue ==
    /\ \A l \in Lockups : <<l, TRUE>> \in reports => txs[l] = "confirmed"
    /\ scanPc # "idle" => scanTx \in Lockups
    /\ scanPc # "idle" /\ scanConfirmed => txs[scanTx] = "confirmed"

\* Only the nursery changes the owner, one transaction at a time: what it read
\* of the owner is still so when it writes, and its own transaction is the
\* owner while it is judged.
ScanOwnsLockup ==
    /\ scanPc \in { "idle", "fetched", "recorded", "judged" }
    /\ scanPc = "fetched" =>
         /\ scanLockup = lockup
         /\ scanStatus # "TransactionLockupFailed"
         /\ Refused(lockup) => scanStatus # "TransactionZeroConfRejected"
    /\ scanPc \in { "recorded", "judged" } => lockup = scanTx
    /\ scanPc = "judged" => kind[scanTx] \notin { "low", "high" }

\* An owner that is refused stays the owner: only TransactionZeroConfRejected
\* would let another transaction in, and it is written for others only.
RefusedStaysOwner ==
    /\ Refused(lockup) => status # "TransactionZeroConfRejected"
    /\ \A l \in Waits("lockup.failed") : l = lockup /\ Refused(l)

EngagedIsAccepted ==
    /\ \A l \in Waits("lockup") : Accepted(l)
    /\ Engaged => Accepted(lockup) /\ status \in lockupNonUpdatableStatuses

OwnerInv ==
    /\ OwnerTyped
    /\ ReportsAreTrue
    /\ ScanOwnsLockup
    /\ RefusedStaysOwner
    /\ EngagedIsAccepted

\* A new event joins the waiting ones of its kind.
LEMMA HeardAppend ==
    ASSUME NEW T, NEW s \in Seq(T), NEW event, NEW l, <<event, l>> \in T
    PROVE  /\ Append(s, <<event, l>>) \in Seq(T)
           /\ Heard(Append(s, <<event, l>>), event) = Heard(s, event) \cup { l }
           /\ \A other : other # event =>
                Heard(Append(s, <<event, l>>), other) = Heard(s, other)
<1> DEFINE t == Append(s, <<event, l>>)
<1>1. /\ t \in Seq(T) /\ Len(t) = Len(s) + 1 /\ Len(s) \in Nat
      /\ \A i \in 1..Len(s) : t[i] = s[i]
      /\ t[Len(s) + 1] = <<event, l>>
  BY SMTT(60)
<1>2. 1..Len(t) = (1..Len(s)) \cup { Len(t) }
  BY <1>1, SMTT(60)
<1>3. t[Len(t)][1] = event /\ t[Len(t)][2] = l
  BY <1>1, SMTT(60)
<1> HIDE DEF t
<1>4. Heard(t, event) = Heard(s, event) \cup { l }
  <2>1. \A i \in 1..Len(t) : t[i][1] = event => t[i][2] \in Heard(s, event) \cup { l }
    BY <1>1, <1>2, <1>3 DEF Heard
  <2>2. \A i \in 1..Len(s) : s[i][1] = event => s[i][2] \in Heard(t, event)
    BY <1>1, <1>2 DEF Heard
  <2>3. l \in Heard(t, event)
    BY <1>2, <1>3 DEF Heard
  <2>. QED
    BY <2>1, <2>2, <2>3 DEF Heard
<1>5. ASSUME NEW other, other # event PROVE Heard(t, other) = Heard(s, other)
  <2>1. { j \in 1..Len(t) : t[j][1] = other } = { j \in 1..Len(s) : s[j][1] = other }
    BY <1>1, <1>2, <1>3, <1>5
  <2>. QED
    BY <1>1, <2>1 DEF Heard
<1>. QED
  BY <1>1, <1>4, <1>5 DEF t

\* The handler takes one of the waiting events.
LEMMA HeardTail ==
    ASSUME NEW T, NEW s \in Seq(T), s # <<>>
    PROVE  /\ Tail(s) \in Seq(T)
           /\ Head(s)[2] \in Heard(s, Head(s)[1])
           /\ \A event : Heard(Tail(s), event) \subseteq Heard(s, event)
<1> DEFINE t == Tail(s)
<1>1. /\ t \in Seq(T) /\ Len(s) \in Nat \ {0} /\ Len(t) = Len(s) - 1
      /\ \A i \in 1..Len(t) : t[i] = s[i + 1]
      /\ Head(s) = s[1]
  BY SMTT(60)
<1> HIDE DEF t
<1>2. Head(s)[2] \in Heard(s, Head(s)[1])
  BY <1>1, SMTT(60) DEF Heard
<1>3. \A i \in 1..Len(t) : i + 1 \in 1..Len(s)
  BY <1>1, SMTT(60)
<1>4. ASSUME NEW event PROVE Heard(t, event) \subseteq Heard(s, event)
  <2>1. \A i \in 1..Len(t) : t[i][1] = event => t[i][2] \in Heard(s, event)
    BY <1>1, <1>3 DEF Heard
  <2>. QED
    BY <2>1 DEF Heard
<1>. QED
  BY <1>1, <1>2, <1>4 DEF t

\* Emptying the queue, as a restart does.
LEMMA HeardNothing == \A event : Heard(<<>>, event) = {}
  BY SMTT(60) DEF Heard

\* The same for the events that wait for swapLock.
LEMMA EventEmitted ==
    ASSUME queue \in Seq(Entries), NEW event \in EventKind,
           NEW l \in Lockups \cup { NoLockup }, Emit(event, l)
    PROVE  /\ queue' \in Seq(Entries)
           /\ Waits(event)' = Waits(event) \cup { l }
           /\ \A other : other # event => Waits(other)' = Waits(other)
<1>1. <<event, l>> \in Entries
  BY DEF Entries
<1>2. queue' = Append(queue, <<event, l>>)
  BY DEF Emit
<1> HIDE DEF Entries
<1>. QED
  BY <1>1, <1>2, HeardAppend, SMTT(60) DEF Waits

\* The oldest event leaves the queue; what else waits was there before.
LEMMA EventHandled ==
    ASSUME queue \in Seq(Entries), queue # <<>>, queue' = Tail(queue)
    PROVE  /\ queue' \in Seq(Entries)
           /\ Head(queue)[2] \in Waits(Head(queue)[1])
           /\ \A event : Waits(event)' \subseteq Waits(event)
  BY HeardTail DEF Waits

\* Lockups are told apart by their transaction and output.
LEMMA LockupsDiffer ==
    /\ NoLockup \notin Lockups
    /\ \A l, m \in Lockups : isSameLockup(l, m) <=> l = m
<1>1. ASSUME NEW l \in Lockups PROVE l = [id |-> l.id, vout |-> l.vout] /\ l.vout \in Nat
  BY LockupsAssumption
<1>2. NoLockup.vout = -1 /\ -1 \notin Nat
  BY SMTT(60) DEF NoLockup, NoVout
<1>. QED
  BY <1>1, <1>2 DEF isSameLockup, NoVout

\* What decideLockupWrite lets pass: the same lockup again, the first one, or
\* one that takes over; and only while the row is updatable.
LEMMA WriteDecision ==
    ASSUME NEW old \in Lockups \cup { NoLockup }, NEW new \in Lockups,
           NEW current, NEW target, NEW updatable \in BOOLEAN, NEW decision,
           decision = decideLockupWrite(old, new, current, target, updatable),
           decision.outcome # "rejected"
    PROVE  /\ decision.write \in BOOLEAN
           /\ decision.write => updatable
           /\ decision.write => [id |-> new.id, vout |-> decision.vout] = new
           /\ ~decision.write => old = new
<1>1. new = [id |-> new.id, vout |-> new.vout] /\ new.vout # NoVout
  BY LockupsAssumption, SMTT(60) DEF NoVout
<1>2. CASE old = NoLockup
  BY <1>1, <1>2 DEF decideLockupWrite, Decision
<1>3. CASE old # NoLockup /\ isSameLockup(old, new)
  <2>1. old = new
    BY <1>3, LockupsDiffer
  <2> DEFINE write == updatable /\ ~(/\ current = "TransactionConfirmed"
                                     /\ target # "TransactionConfirmed")
  <2>2. decision = Decision("idempotent", write, FirstKnown(new.vout, old.vout))
    BY <1>3 DEF decideLockupWrite
  <2>3. write \in BOOLEAN /\ (write => updatable)
    OBVIOUS
  <2> HIDE DEF write
  <2>4. decision.write = write /\ decision.vout = new.vout
    BY <1>1, <2>2, SMTT(60) DEF Decision, FirstKnown
  <2>. QED
    BY <1>1, <2>1, <2>3, <2>4
<1>4. CASE old # NoLockup /\ ~isSameLockup(old, new)
  BY <1>1, <1>4 DEF decideLockupWrite, Decision
<1>. QED
  BY <1>2, <1>3, <1>4

\* What the nursery may do to the owner of a swap.
LEMMA OwnerWrites ==
    ASSUME OwnerInv, SetLockupTransaction
    PROVE  \/ ScanIdle /\ UNCHANGED <<status, lockup>>
           \/ /\ scanPc' = "recorded" /\ lockup' = scanTx
              /\ UNCHANGED <<scanTx, scanConfirmed, scanStatus, scanLockup>>
              /\ \/ UNCHANGED <<status, lockup>>
                 \/ /\ status \notin lockupNonUpdatableStatuses
                    /\ status' \in { "TransactionMempool", "TransactionConfirmed" }
                    /\ lockup' # lockup => ~Refused(lockup)
<1> DEFINE target == IF scanConfirmed THEN "TransactionConfirmed"
                                      ELSE "TransactionMempool"
           updatable == status \notin lockupNonUpdatableStatuses
           decision == decideLockupWrite(lockup, scanTx, status, target, updatable)
<1>1. /\ scanTx \in Lockups /\ lockup \in Lockups \cup { NoLockup }
      /\ scanPc = "fetched" /\ scanLockup = lockup
      /\ scanStatus # "TransactionLockupFailed"
      /\ Refused(lockup) => scanStatus # "TransactionZeroConfRejected"
  BY DEF SetLockupTransaction, OwnerInv, OwnerTyped, ReportsAreTrue, ScanOwnsLockup
<1>2. CASE \/ shouldIgnoreCompetingLockup(scanLockup, scanTx, scanStatus)
           \/ decision.outcome = "rejected"
  BY <1>2 DEF SetLockupTransaction
<1>3. CASE ~(\/ shouldIgnoreCompetingLockup(scanLockup, scanTx, scanStatus)
             \/ decision.outcome = "rejected")
  <2>1. /\ decision.write \in BOOLEAN
        /\ decision.write => updatable
        /\ decision.write => [id |-> scanTx.id, vout |-> decision.vout] = scanTx
        /\ ~decision.write => lockup = scanTx
    <3>1. updatable \in BOOLEAN /\ decision.outcome # "rejected"
      BY <1>3
    <3>2. decision = decideLockupWrite(lockup, scanTx, status, target, updatable)
      OBVIOUS
    <3> HIDE DEF decision, updatable, target
    <3>. QED
      BY <1>1, <3>1, <3>2, WriteDecision, SMTT(60)
  <2>2. /\ scanPc' = "recorded"
        /\ UNCHANGED <<scanTx, scanConfirmed, scanStatus, scanLockup>>
        /\ decision.write => /\ status' = target
                             /\ lockup' = [id |-> scanTx.id, vout |-> decision.vout]
        /\ ~decision.write => UNCHANGED <<status, lockup>>
    BY <1>3 DEF SetLockupTransaction
  <2>3. Refused(lockup) => lockup = scanTx
    <3>1. SUFFICES ASSUME Refused(lockup) PROVE isSameLockup(lockup, scanTx)
      BY <1>1, LockupsDiffer DEF Refused
    <3>. QED
      BY <1>1, <1>3, <3>1, LockupsDiffer
         DEF shouldIgnoreCompetingLockup, canTakeOverLockup,
             lockupTakeoverStatuses, Refused
  <2> HIDE DEF decision
  <2>. QED
    BY <2>1, <2>2, <2>3
<1>. QED
  BY <1>2, <1>3

\* The parts of the invariant that the payment and its callers do not disturb.
LEMMA OwnerKeptByCallers ==
    ASSUME OwnerInv,
           UNCHANGED <<invoice, lockup, chainVars, setVars, scanVars>>,
           UNCHANGED queue \/ (queue # <<>> /\ queue' = Tail(queue)),
           htlc' \in [Nodes -> HtlcState],
           status' = "TransactionZeroConfRejected" => UNCHANGED status,
           Engaged' => Accepted(lockup) /\ status' \in lockupNonUpdatableStatuses
    PROVE  OwnerInv'
<1>1. /\ queue' \in Seq(Entries)
      /\ \A event : Waits(event)' \subseteq Waits(event)
  BY EventHandled DEF OwnerInv, OwnerTyped, Waits
<1>2. OwnerTyped'
  BY <1>1 DEF OwnerInv, OwnerTyped, chainVars, setVars, scanVars
<1>3. ReportsAreTrue'
  BY DEF OwnerInv, ReportsAreTrue, chainVars, scanVars
<1>4. \A l : (Accepted(l)' <=> Accepted(l)) /\ (Refused(l)' <=> Refused(l))
  BY DEF Accepted, Refused, chainVars
<1>5. ScanOwnsLockup'
  BY <1>4 DEF OwnerInv, ScanOwnsLockup, chainVars, scanVars
<1>6. RefusedStaysOwner'
  BY <1>1, <1>4 DEF OwnerInv, RefusedStaysOwner
<1>7. EngagedIsAccepted'
  BY <1>1, <1>4 DEF OwnerInv, EngagedIsAccepted
<1>. QED
  BY <1>2, <1>3, <1>5, <1>6, <1>7 DEF OwnerInv

\* The chain and the nursery keep it.
LEMMA OwnerKeptByNursery ==
    ASSUME OwnerInv,
           \/ \E l \in Lockups : ChainStep(l) \/ Rescan(l)
           \/ NurseryStep
    PROVE  OwnerInv'
<1> USE DEF OwnerInv
<1>1. ASSUME NEW l \in Lockups, ChainStep(l) PROVE OwnerInv'
  <2>1. /\ UNCHANGED <<payVars, invoice, lockup, kind, queue, setVars, scanVars, claimable>>
        /\ txs' \in [Lockups -> { "unseen", "mempool", "confirmed" }]
        /\ \A m \in Lockups : txs[m] = "confirmed" => txs'[m] = "confirmed"
        /\ \A m \in Lockups : <<m, TRUE>> \in reports' =>
             <<m, TRUE>> \in reports \/ txs'[m] = "confirmed"
    BY <1>1 DEF ChainStep, OwnerTyped
  <2>2. OwnerTyped'
    BY <2>1 DEF OwnerTyped, setVars, scanVars, payVars
  <2>3. ReportsAreTrue'
    BY <2>1 DEF ReportsAreTrue, scanVars
  <2>4. \A m : (Accepted(m) => Accepted(m)') /\ (Refused(m)' <=> Refused(m))
    BY <2>1 DEF Accepted, Refused
  <2>5. ScanOwnsLockup'
    BY <2>1, <2>4 DEF ScanOwnsLockup, scanVars
  <2>6. RefusedStaysOwner' /\ EngagedIsAccepted'
    BY <2>1, <2>4 DEF RefusedStaysOwner, EngagedIsAccepted, Engaged, LiveNodes,
                      Waits, payVars, activation
  <2>. QED
    BY <2>2, <2>3, <2>5, <2>6
<1>2. ASSUME NEW l \in Lockups, Rescan(l) PROVE OwnerInv'
  <2>1. /\ UNCHANGED <<payVars, invoice, lockup, kind, txs, queue, setVars, scanVars, claimable>>
        /\ \A m \in Lockups : <<m, TRUE>> \in reports' =>
             <<m, TRUE>> \in reports \/ txs[m] = "confirmed"
    BY <1>2 DEF Rescan
  <2>2. OwnerTyped'
    BY <2>1 DEF OwnerTyped, setVars, scanVars, payVars
  <2>3. ReportsAreTrue'
    BY <2>1 DEF ReportsAreTrue, scanVars
  <2>4. \A m : (Accepted(m)' <=> Accepted(m)) /\ (Refused(m)' <=> Refused(m))
    BY <2>1 DEF Accepted, Refused
  <2>5. ScanOwnsLockup'
    BY <2>1, <2>4 DEF ScanOwnsLockup, scanVars
  <2>6. RefusedStaysOwner' /\ EngagedIsAccepted'
    BY <2>1, <2>4 DEF RefusedStaysOwner, EngagedIsAccepted, Engaged, LiveNodes,
                      Waits, payVars, activation
  <2>. QED
    BY <2>2, <2>3, <2>5, <2>6
<1>3. ASSUME NEW l \in Lockups, NEW confirmed \in BOOLEAN, CheckOutputs(l, confirmed)
      PROVE  OwnerInv'
  <2>1. /\ UNCHANGED <<payVars, invoice, lockup, kind, txs, queue, setVars, claimable>>
        /\ reports' \subseteq reports
        /\ <<l, confirmed>> \in reports
    BY <1>3 DEF CheckOutputs
  <2>2. \/ UNCHANGED scanVars
        \/ /\ scanPc' = "fetched" /\ scanTx' = l /\ scanConfirmed' = confirmed
           /\ scanStatus' = status /\ scanLockup' = lockup
           /\ status # "TransactionLockupFailed"
    BY <1>3 DEF CheckOutputs, ScannedStatuses
  <2>3. OwnerTyped'
    BY <2>1, <2>2 DEF OwnerTyped, setVars, scanVars, payVars
  <2>4. ReportsAreTrue'
    <3>1. confirmed => txs[l] = "confirmed"
      BY <2>1 DEF ReportsAreTrue
    <3>2. \A m \in Lockups : <<m, TRUE>> \in reports' => txs'[m] = "confirmed"
      BY <2>1 DEF ReportsAreTrue
    <3>3. CASE UNCHANGED scanVars
      BY <2>1, <3>2, <3>3 DEF ReportsAreTrue, scanVars
    <3>4. CASE scanTx' = l /\ scanConfirmed' = confirmed
      BY <2>1, <3>1, <3>2, <3>4 DEF ReportsAreTrue
    <3>. QED
      BY <2>2, <3>3, <3>4
  <2>5. \A m : (Accepted(m)' <=> Accepted(m)) /\ (Refused(m)' <=> Refused(m))
    BY <2>1 DEF Accepted, Refused
  <2>6. RefusedStaysOwner' /\ EngagedIsAccepted'
    BY <2>1, <2>5 DEF RefusedStaysOwner, EngagedIsAccepted, Engaged, LiveNodes,
                      Waits, payVars, activation
  <2>7. ScanOwnsLockup'
    BY <2>1, <2>2, <2>5 DEF ScanOwnsLockup, scanVars, RefusedStaysOwner, payVars
  <2>. QED
    BY <2>3, <2>4, <2>6, <2>7
<1>4. CASE SetLockupTransaction
  <2>1. /\ UNCHANGED <<htlc, activation, invoice, chainVars, queue, setVars, claimable>>
        /\ scanPc = "fetched"
    BY <1>4 DEF SetLockupTransaction
  <2>2. \A m : (Accepted(m)' <=> Accepted(m)) /\ (Refused(m)' <=> Refused(m))
    BY <2>1 DEF Accepted, Refused, chainVars
  <2>3. \A event : Waits(event)' = Waits(event)
    BY <2>1 DEF Waits
  <2>4. CASE ScanIdle /\ UNCHANGED <<status, lockup>>
    BY <2>1, <2>2, <2>3, <2>4
       DEF OwnerTyped, ReportsAreTrue, ScanOwnsLockup, RefusedStaysOwner,
           EngagedIsAccepted, Engaged, LiveNodes, ScanIdle, setVars, chainVars,
           activation
  <2>5. CASE /\ scanPc' = "recorded" /\ lockup' = scanTx
             /\ UNCHANGED <<scanTx, scanConfirmed, scanStatus, scanLockup>>
             /\ \/ UNCHANGED <<status, lockup>>
                \/ /\ status \notin lockupNonUpdatableStatuses
                   /\ status' \in { "TransactionMempool", "TransactionConfirmed" }
                   /\ lockup' # lockup => ~Refused(lockup)
    <3>1. OwnerTyped' /\ ReportsAreTrue' /\ ScanOwnsLockup'
      BY <2>1, <2>2, <2>5
         DEF OwnerTyped, ReportsAreTrue, ScanOwnsLockup, setVars, chainVars
    <3>2. RefusedStaysOwner'
      BY <2>2, <2>3, <2>5 DEF RefusedStaysOwner
    <3>3. EngagedIsAccepted'
      BY <2>1, <2>2, <2>3, <2>5
         DEF EngagedIsAccepted, Engaged, LiveNodes, activation
    <3>. QED
      BY <3>1, <3>2, <3>3
  <2>. QED
    BY <1>4, <2>4, <2>5, OwnerWrites
<1>5. CASE CheckAmount
  <2>1. /\ UNCHANGED <<payVars, invoice, lockup, chainVars, setVars, claimable>>
        /\ scanPc = "recorded" /\ scanTx \in Lockups /\ lockup = scanTx
    BY <1>5 DEF CheckAmount, ReportsAreTrue, ScanOwnsLockup
  <2>2. \A m : (Accepted(m)' <=> Accepted(m)) /\ (Refused(m)' <=> Refused(m))
    BY <2>1 DEF Accepted, Refused, chainVars
  <2>3. \/ ScanIdle
        \/ /\ scanPc' = "judged" /\ UNCHANGED <<scanTx, scanConfirmed, scanStatus, scanLockup>>
           /\ kind[scanTx] \notin { "low", "high" }
    BY <1>5 DEF CheckAmount, OwnerTyped
  <2>4. /\ queue' \in Seq(Entries)
        /\ Waits("lockup")' = Waits("lockup")
        /\ \A l \in Waits("lockup.failed")' :
             l \in Waits("lockup.failed") \/ (l = scanTx /\ Refused(l))
    <3>1. CASE UNCHANGED queue
      BY <3>1 DEF OwnerTyped, Waits
    <3>2. CASE Emit("lockup.failed", scanTx) /\ kind[scanTx] \in { "low", "high" }
      <4>1. queue \in Seq(Entries) /\ Refused(scanTx)
        BY <2>1, <3>2 DEF OwnerTyped, Refused
      <4>2. /\ queue' \in Seq(Entries) /\ Waits("lockup")' = Waits("lockup")
            /\ Waits("lockup.failed")' = Waits("lockup.failed") \cup { scanTx }
        BY <2>1, <3>2, <4>1, EventEmitted DEF EventKind
      <4>. QED
        BY <4>1, <4>2
    <3>. QED
      BY <1>5, <3>1, <3>2 DEF CheckAmount
  <2>5. OwnerTyped'
    BY <2>1, <2>3, <2>4 DEF OwnerTyped, ScanIdle, setVars, chainVars, payVars
  <2>8. ReportsAreTrue' /\ ScanOwnsLockup'
    <3>1. CASE ScanIdle
      BY <2>1, <3>1 DEF ReportsAreTrue, ScanOwnsLockup, ScanIdle, chainVars
    <3>2. CASE /\ scanPc' = "judged" /\ UNCHANGED <<scanTx, scanConfirmed>>
               /\ kind[scanTx] \notin { "low", "high" }
      BY <2>1, <3>2 DEF ReportsAreTrue, ScanOwnsLockup, chainVars
    <3>. QED
      BY <2>3, <3>1, <3>2
  <2>6. RefusedStaysOwner'
    BY <2>1, <2>2, <2>4 DEF RefusedStaysOwner, payVars
  <2>7. EngagedIsAccepted'
    BY <2>1, <2>2, <2>4 DEF EngagedIsAccepted, Engaged, LiveNodes, activation, payVars
  <2>. QED
    BY <2>5, <2>6, <2>7, <2>8
<1>6. CASE JudgeLockup
  <2>1. /\ UNCHANGED <<htlc, activation, invoice, lockup, chainVars, setVars, claimable>>
        /\ ScanIdle
        /\ scanPc = "judged" /\ scanTx \in Lockups /\ lockup = scanTx
        /\ kind[scanTx] \in LockupKind \ { "low", "high" }
    BY <1>6 DEF JudgeLockup, ReportsAreTrue, ScanOwnsLockup, OwnerTyped
  <2>2. \A m : (Accepted(m)' <=> Accepted(m)) /\ (Refused(m)' <=> Refused(m))
    BY <2>1 DEF Accepted, Refused, chainVars
  <2>3. \/ UNCHANGED status
        \/ /\ status = "TransactionMempool"
           /\ status' = "TransactionZeroConfRejected"
           /\ ~Refused(lockup)
    BY <1>6, <2>1 DEF JudgeLockup, Refused, shouldWriteZeroConfRejection
  <2>4. /\ queue' \in Seq(Entries)
        /\ \A l \in Waits("lockup")' : l \in Waits("lockup") \/ Accepted(l)
        /\ \A l \in Waits("lockup.failed")' :
             l \in Waits("lockup.failed") \/ (l = scanTx /\ Refused(l))
    <3>1. CASE UNCHANGED queue
      BY <3>1 DEF OwnerTyped, Waits
    <3>2. CASE Emit("lockup.failed", scanTx) /\ kind[scanTx] = "blocked"
      <4>1. queue \in Seq(Entries) /\ Refused(scanTx)
        BY <2>1, <3>2 DEF OwnerTyped, Refused
      <4>2. /\ queue' \in Seq(Entries) /\ Waits("lockup")' = Waits("lockup")
            /\ Waits("lockup.failed")' = Waits("lockup.failed") \cup { scanTx }
        BY <2>1, <3>2, <4>1, EventEmitted DEF EventKind
      <4>. QED
        BY <4>1, <4>2
    <3>3. CASE /\ Emit("lockup", scanTx) /\ kind[scanTx] # "blocked"
               /\ scanConfirmed \/ ZeroConf
      <4>1. queue \in Seq(Entries) /\ Accepted(scanTx)
        BY <2>1, <3>3 DEF OwnerTyped, Accepted, ReportsAreTrue, LockupKind
      <4>2. /\ queue' \in Seq(Entries)
            /\ Waits("lockup")' = Waits("lockup") \cup { scanTx }
            /\ Waits("lockup.failed")' = Waits("lockup.failed")
        BY <2>1, <3>3, <4>1, EventEmitted DEF EventKind
      <4>. QED
        BY <4>1, <4>2
    <3>. QED
      BY <1>6, <3>1, <3>2, <3>3 DEF JudgeLockup
  <2>5. OwnerTyped' /\ ReportsAreTrue' /\ ScanOwnsLockup'
    BY <2>1, <2>4
       DEF OwnerTyped, ReportsAreTrue, ScanOwnsLockup, ScanIdle, setVars, chainVars
  <2>6. RefusedStaysOwner'
    BY <2>1, <2>2, <2>3, <2>4 DEF RefusedStaysOwner
  <2>7. EngagedIsAccepted'
    BY <2>1, <2>2, <2>3, <2>4
       DEF EngagedIsAccepted, Engaged, LiveNodes, activation, lockupNonUpdatableStatuses
  <2>. QED
    BY <2>5, <2>6, <2>7
<1>7. CASE CheckExpired
  <2>1. /\ UNCHANGED <<payVars, invoice, lockup, chainVars, setVars, scanVars, claimable>>
        /\ Emit("expired", NoLockup)
    BY <1>7 DEF CheckExpired
  <2>2. \A m : (Accepted(m)' <=> Accepted(m)) /\ (Refused(m)' <=> Refused(m))
    BY <2>1 DEF Accepted, Refused, chainVars
  <2>3. /\ queue' \in Seq(Entries)
        /\ Waits("lockup")' = Waits("lockup")
        /\ Waits("lockup.failed")' = Waits("lockup.failed")
    BY <2>1, EventEmitted DEF OwnerTyped, EventKind
  <2>4. OwnerTyped' /\ ReportsAreTrue' /\ ScanOwnsLockup'
    BY <2>1, <2>2, <2>3
       DEF OwnerTyped, ReportsAreTrue, ScanOwnsLockup, setVars, chainVars, scanVars,
           payVars
  <2>5. RefusedStaysOwner' /\ EngagedIsAccepted'
    BY <2>1, <2>2, <2>3 DEF RefusedStaysOwner, EngagedIsAccepted, Engaged, LiveNodes,
                            payVars, activation
  <2>. QED
    BY <2>4, <2>5
<1>. QED
  BY <1>1, <1>2, <1>3, <1>4, <1>5, <1>6, <1>7 DEF NurseryStep

\* The handlers, the payment and everybody else keep it.
LEMMA OwnerInvKept ==
    ASSUME OwnerInv, [SubNext]_subVars
    PROVE  OwnerInv'
<1>1. invoice = TRUE /\ setPc = "idle" /\ htlc \in [Nodes -> HtlcState]
  BY DEF OwnerInv, OwnerTyped
<1>2. Engaged => Accepted(lockup) /\ status \in lockupNonUpdatableStatuses
  BY DEF OwnerInv, EngagedIsAccepted
<1>3. CASE (\E l \in Lockups : ChainStep(l) \/ Rescan(l)) \/ NurseryStep
  BY <1>3, OwnerKeptByNursery
<1>4. CASE HandleLockup
  <2>1. /\ UNCHANGED <<invoice, lockup, chainVars, setVars, scanVars, claimable>>
        /\ queue # <<>> /\ queue' = Tail(queue) /\ Head(queue)[1] = "lockup"
    BY <1>4 DEF HandleLockup, Handles
  <2>2. CASE UNCHANGED payVars
    BY <1>1, <1>2, <2>1, <2>2, OwnerKeptByCallers
       DEF payVars, activation, Engaged, LiveNodes
  <2>3. CASE PayInvoice /\ lockup = Head(queue)[2]
    <3>1. Accepted(lockup)
      BY <2>1, <2>3, EventHandled DEF OwnerInv, OwnerTyped, EngagedIsAccepted
    <3>2. htlc' = htlc /\ status' = "InvoicePending"
      BY <2>3 DEF PayInvoice
    <3>. QED
      BY <1>1, <2>1, <3>1, <3>2, OwnerKeptByCallers DEF lockupNonUpdatableStatuses
  <2>. QED
    BY <1>4, <2>2, <2>3 DEF HandleLockup, ActsOnLockup
<1>5. CASE HandleLockupFailed
  <2>1. /\ UNCHANGED <<invoice, lockup, chainVars, setVars, scanVars, claimable, htlc, pc>>
        /\ queue # <<>> /\ queue' = Tail(queue) /\ Head(queue)[1] = "lockup.failed"
        /\ status' \in { status, "TransactionLockupFailed" }
    BY <1>5 DEF HandleLockupFailed, Handles, activation
  <2>2. Refused(lockup)
    BY <2>1, EventHandled DEF OwnerInv, OwnerTyped, RefusedStaysOwner
  <2>3. ~Engaged
    BY <1>2, <2>2 DEF Accepted, Refused
  <2>4. ~Engaged'
    BY <2>1, <2>3 DEF Engaged, LiveNodes
  <2>. QED
    BY <1>1, <2>1, <2>4, OwnerKeptByCallers
<1>6. CASE HandleExpired
  <2>1. /\ UNCHANGED <<invoice, lockup, chainVars, setVars, scanVars, claimable, htlc, pc>>
        /\ queue # <<>> /\ queue' = Tail(queue)
        /\ status' = "SwapExpired"
    BY <1>6 DEF HandleExpired, Handles, activation
  <2>2. Engaged' => Engaged
    BY <2>1 DEF Engaged, LiveNodes
  <2>. QED
    BY <1>1, <1>2, <2>1, <2>2, OwnerKeptByCallers DEF lockupNonUpdatableStatuses
<1>7. CASE RetrySettle
  <2>1. /\ UNCHANGED <<invoice, lockup, chainVars, setVars, scanVars, queue, htlc>>
        /\ status \in { "InvoicePending", "InvoicePaid" }
        /\ status' = "InvoicePending"
    BY <1>7 DEF RetrySettle, PayInvoice
  <2>2. Accepted(lockup)
    BY <1>2, <2>1 DEF Engaged
  <2>. QED
    BY <1>1, <2>1, <2>2, OwnerKeptByCallers DEF lockupNonUpdatableStatuses
<1>8. CASE ClaimLockup
  <2>1. /\ UNCHANGED <<invoice, lockup, chainVars, setVars, scanVars, queue, htlc>>
        /\ status' \in { "TransactionClaimPending", "TransactionClaimed", status }
        /\ pc = "returned"
    BY <1>8 DEF ClaimLockup
  <2>2. Accepted(lockup) /\ status \in lockupNonUpdatableStatuses
    BY <1>2, <2>1 DEF Engaged
  <2>. QED
    BY <1>1, <2>1, <2>2, OwnerKeptByCallers DEF lockupNonUpdatableStatuses
<1>9. CASE SweepClaim
  <2>1. /\ UNCHANGED <<invoice, lockup, chainVars, setVars, scanVars, queue, htlc>>
        /\ claimable /\ status' = "TransactionClaimed"
    BY <1>9 DEF SweepClaim
  <2>2. Accepted(lockup)
    BY <1>2, <2>1 DEF Engaged
  <2>. QED
    BY <1>1, <2>1, <2>2, OwnerKeptByCallers DEF lockupNonUpdatableStatuses
<1>10. CASE PayInvoiceStep
  <2>1. UNCHANGED <<invoice, lockup, chainVars, setVars, scanVars, queue>> /\ PaySteps
    BY <1>10 DEF PayInvoiceStep
  <2>2. /\ pc # "idle" /\ htlc' \in [Nodes -> HtlcState]
        /\ status' \in { status, "InvoicePaid", "InvoiceFailedToPay" }
    BY <1>1, <2>1, PaymentsOfNodes, PayStepStatus DEF SettleInvoice, AbandonSwap
  <2>3. Accepted(lockup) /\ status \in lockupNonUpdatableStatuses
    BY <1>2, <2>2 DEF Engaged
  <2>. QED
    BY <1>1, <2>1, <2>2, <2>3, OwnerKeptByCallers DEF lockupNonUpdatableStatuses
<1>11. CASE PaymentProgress
  <2>1. /\ UNCHANGED <<invoice, lockup, chainVars, setVars, scanVars, queue, claimable>>
        /\ PayEnvironment
    BY <1>11 DEF PaymentProgress
  <2>2. UNCHANGED <<status, pc>>
    BY <2>1, EnvironmentStatus DEF activation
  <2>3. htlc' \in [Nodes -> HtlcState]
    BY <1>1, <2>1, PaymentsOfNodes
  <2>4. ~(LiveNodes' \subseteq LiveNodes) => pc = "rowed"
    BY <1>1, <2>1, PaymentsOfNodes DEF Dispatch
  <2>5. Engaged' => Engaged
    BY <2>1, <2>2, <2>4 DEF Engaged
  <2>. QED
    BY <1>1, <1>2, <2>1, <2>2, <2>3, <2>5, OwnerKeptByCallers
<1>12. CASE SubRestart
  <2>1. /\ UNCHANGED <<status, htlc, invoice, lockup, kind, txs>> /\ pc' = "idle"
        /\ reports' = {} /\ queue' = <<>> /\ setPc' = "idle" /\ ScanIdle
        /\ claimable' = (status = "TransactionClaimPending")
    BY <1>12 DEF SubRestart, Restart, Return, Leave
  <2>2. \A m : (Accepted(m)' <=> Accepted(m)) /\ (Refused(m)' <=> Refused(m))
    BY <2>1 DEF Accepted, Refused
  <2>3. queue' \in Seq(Entries) /\ \A event : Waits(event)' = {}
    BY <2>1, HeardNothing, SMTT(60) DEF Waits
  <2>4. OwnerTyped'
    BY <2>1, <2>3 DEF OwnerInv, OwnerTyped, ScanIdle
  <2>5. ReportsAreTrue' /\ ScanOwnsLockup'
    BY <2>1 DEF ReportsAreTrue, ScanOwnsLockup, ScanIdle
  <2>6. RefusedStaysOwner'
    BY <2>1, <2>2, <2>3 DEF OwnerInv, RefusedStaysOwner
  <2>7. Engaged' => Engaged
    BY <2>1 DEF Engaged, LiveNodes
  <2>8. EngagedIsAccepted'
    BY <1>2, <2>1, <2>2, <2>3, <2>7 DEF EngagedIsAccepted
  <2>. QED
    BY <2>4, <2>5, <2>6, <2>8 DEF OwnerInv
<1>13. CASE UNCHANGED <<payVars, invoice, lockup, chainVars, setVars, scanVars, queue,
                        claimable>>
  BY <1>1, <1>2, <1>13, OwnerKeptByCallers DEF payVars, activation, Engaged, LiveNodes
<1>14. ~SetInvoiceRead /\ ~SetInvoiceWrite /\ ~SettleAfterInvoice
  BY <1>1 DEF SetInvoiceRead, SetInvoiceWrite, SettleAfterInvoice
<1>. QED
  BY <1>3, <1>4, <1>5, <1>6, <1>7, <1>8, <1>9, <1>10, <1>11, <1>12, <1>13, <1>14
     DEF SubNext, HandlerStep, RefundFetch, RefundEligibility, SignRefund, subVars

\* A swap with its invoice starts without any lockup.
LEMMA OwnerInvInit ==
    ASSUME LateInvoice = FALSE, SubInit
    PROVE  OwnerInv
<1>1. \A event : Waits(event) = {}
  BY HeardNothing DEF SubInit, Waits
<1>2. OwnerTyped
  <2>1. queue \in Seq(Entries)
    BY SMTT(60) DEF SubInit
  <2>2. /\ htlc \in [Nodes -> HtlcState]
        /\ txs \in [Lockups -> { "unseen", "mempool", "confirmed" }]
    BY DEF SubInit, PayInit, HtlcState
  <2>. QED
    BY <2>1, <2>2 DEF SubInit, OwnerTyped
<1>3. ReportsAreTrue /\ ScanOwnsLockup
  BY DEF SubInit, ReportsAreTrue, ScanOwnsLockup
<1>4. ~Engaged
  BY DEF SubInit, PayInit, Engaged, LiveNodes, Live
<1>5. status = "InvoiceSet"
  BY DEF SubInit
<1>. QED
  BY <1>1, <1>2, <1>3, <1>4, <1>5 DEF OwnerInv, RefusedStaysOwner, EngagedIsAccepted

\* Reports in any order, competing outputs, expiries, retries, claims and
\* restarts never make the backend pay for a lockup with a wrong amount, one that
\* the hook refused or one that lost the swap to another output.
THEOREM PaysForAcceptedLockups ==
    ASSUME LateInvoice = FALSE
    PROVE  SubSpec => []PaidForAcceptedLockup
<1>1. SubInit => OwnerInv
  BY OwnerInvInit
<1>2. OwnerInv => PaidForAcceptedLockup
  BY LockupsDiffer DEF OwnerInv, EngagedIsAccepted, Engaged, Accepted,
                       PaidForAcceptedLockup
<1>. QED
  BY <1>1, <1>2, OwnerInvKept, PTL DEF SubSpec

\* Once a node was asked to pay, no other output takes the swap over.
THEOREM PaidLockupsAreKept ==
    ASSUME LateInvoice = FALSE
    PROVE  SubSpec => PaidLockupIsKept
<1>1. SubInit => OwnerInv
  BY OwnerInvInit
<1>2. ASSUME OwnerInv, [SubNext]_subVars
      PROVE  [LiveNodes # {} => lockup' = lockup]_subVars
  <2>1. CASE SetLockupTransaction
    <3>1. LiveNodes # {} => status \in lockupNonUpdatableStatuses
      BY <1>2 DEF OwnerInv, EngagedIsAccepted, Engaged
    <3>. QED
      BY <1>2, <2>1, <3>1, OwnerWrites
  <2>2. CASE UNCHANGED lockup
    BY <2>2
  <2>. QED
    BY <1>2, <2>1, <2>2
       DEF SubNext, NurseryStep, HandlerStep, ChainStep, Rescan, CheckOutputs,
           CheckAmount, JudgeLockup, CheckExpired, HandleLockup,
           HandleLockupFailed, HandleExpired, Handles, RetrySettle, ClaimLockup,
           SetInvoiceRead, SetInvoiceWrite, SettleAfterInvoice, PayInvoiceStep,
           PaymentProgress, SweepClaim, RefundFetch, RefundEligibility,
           SignRefund, SubRestart, subVars
<1>. QED
  BY <1>1, <1>2, OwnerInvKept, PTL DEF SubSpec, PaidLockupIsKept

-----------------------------------------------------------------------------
(* Refund signatures and payments.                                         *)

\* What RefundExcludesPayment needs of the environment.  signRefund takes no
\* lock and asks the nodes only once, so nothing but the rows, the timeout and
\* the owner of the swap can keep payInvoice from sending afterwards: every way
\* to give up a payment has to leave a permanent failure in a row.  A disabled
\* signer and a rejected approval leave none, and neither does the timeout of
\* a payment when the failures it counts belong to another node.
FailuresAreRecorded ==
    /\ "earlyDrop" \notin Faults /\ "nodeDown" \notin Faults
    /\ "signerDisabled" \notin Faults /\ "approvalReject" \notin Faults
    /\ DefaultApproval # "Reject"
    /\ "timeouts" \in Faults => \A m, n \in Nodes : m = n

FailedForGood == \E n \in Nodes : row[n] \in PermanentFailure

\* What keeps payInvoice from sending once a refund may be signed.
Closed == phase = "timeout" \/ Refused(lockup) \/ FailedForGood

NoLateSend ==
    /\ pc \in { "rowed", "waiting" } => ~late /\ ~FailedForGood
    /\ phase = "timeout" /\ pc \notin { "idle", "returned" } => late
    /\ pc = "abandon" => FailedForGood
    /\ pc = "track" /\ payError \in PermanentFailure => FailedForGood

RefundInv ==
    /\ Waits("expired") # {} => phase = "timeout"
    /\ status \in FailedSwapUpdateEvents => Closed /\ pc = "idle"
    /\ refundPc # "idle" \/ refundSigned => Closed
    /\ refundPc = "checked" \/ refundSigned => LiveNodes = {}

\* The invariant of the payment holds inside the swap too, where more callers
\* write the status.
LEMMA SwapKeepsPayInv ==
    ASSUME "earlyDrop" \notin Faults, PayInv, [SubNext]_subVars
    PROVE  PayInv'
<1>1. ASSUME UNCHANGED <<row, htlc, tracker, activation, held, phase>>,
             status' \in SwapUpdateEvent
      PROVE  PayInv'
  <2>1. PayTypeOK'
    BY <1>1 DEF PayInv, PayTypeOK, activation
  <2>. QED
    BY <1>1, <2>1 DEF PayInv, LivePaymentIsRecorded, LiveNodes,
       SuccessMeansPreimage, TrackersFollowRows, OneOpenRow, SnapshotIsRecent,
       SenderOwnsRow, VerdictIsFounded, NoOpenRow, activation
<1>2. status \in SwapUpdateEvent
  BY DEF PayInv, PayTypeOK
<1>3. CASE PayInvoice \/ PaySteps \/ PayEnvironment \/ Restart
  BY <1>3, PayInvPreserved
<1>4. CASE ClaimLockup
  <2>1. pc' = "idle" /\ UNCHANGED <<row, htlc, tracker, held, phase>>
    BY <1>4 DEF ClaimLockup, Return, Leave
  <2>2. status' \in SwapUpdateEvent
    BY <1>2, <1>4 DEF ClaimLockup, SwapUpdateEvent
  <2>3. PayTypeOK'
    BY <1>4, <2>1, <2>2 DEF ClaimLockup, Return, Leave, PayInv, PayTypeOK,
          PayStep, PayError, NoError, NoRows, NoNode, RowStatus
  <2>. QED
    BY <2>1, <2>3 DEF PayInv, LivePaymentIsRecorded, LiveNodes,
       SuccessMeansPreimage, TrackersFollowRows, OneOpenRow, SnapshotIsRecent,
       SenderOwnsRow, VerdictIsFounded
<1>5. CASE SetLockupTransaction
  BY <1>1, <1>2, <1>5 DEF SetLockupTransaction, SwapUpdateEvent
<1>6. CASE JudgeLockup
  BY <1>1, <1>2, <1>6 DEF JudgeLockup, SwapUpdateEvent
<1>7. CASE HandleLockupFailed \/ HandleExpired \/ SetInvoiceWrite \/ SweepClaim
  BY <1>1, <1>2, <1>7 DEF HandleLockupFailed, HandleExpired, SetInvoiceWrite,
                          SweepClaim, SwapUpdateEvent
<1>8. CASE UNCHANGED payVars
  BY <1>1, <1>2, <1>8 DEF payVars
<1>. QED
  BY <1>3, <1>4, <1>5, <1>6, <1>7, <1>8
     DEF SubNext, NurseryStep, HandlerStep, ChainStep, Rescan, CheckOutputs,
         CheckAmount, CheckExpired, HandleLockup, RetrySettle,
         SettleAfterInvoice, SetInvoiceRead, PayInvoiceStep, PaymentProgress,
         RefundFetch, RefundEligibility, SignRefund, SubRestart, subVars

\* A permanent failure stays in its row.
LEMMA FailureIsKept ==
    ASSUME "earlyDrop" \notin Faults, PayInv, FailedForGood,
           PayInvoice \/ PaySteps \/ PayEnvironment \/ Restart
    PROVE  FailedForGood'
<1>1. PICK n \in Nodes : row[n] \in PermanentFailure
  BY DEF FailedForGood
<1>2. row'[n] = row[n]
  <2>1. CASE PayInvoice
    BY <2>1 DEF PayInvoice
  <2>2. CASE PaySteps \/ PayEnvironment \/ Restart
    BY <1>1, <2>2, RowWriters DEF Next
  <2>. QED
    BY <2>1, <2>2
<1>. QED
  BY <1>1, <1>2 DEF FailedForGood

\* An activation that gave up left its reason in a row, and one that may still
\* send has read no such reason.
LEMMA NoLateSendKept ==
    ASSUME FailuresAreRecorded, PayInv, NoLateSend,
           PayInvoice \/ PaySteps \/ PayEnvironment \/ Restart
    PROVE  NoLateSend'
<1>a. /\ row \in [Nodes -> RowStatus] /\ seen \in [Nodes -> RowStatus]
      /\ SnapshotIsRecent /\ SenderOwnsRow /\ TrackersFollowRows /\ OneOpenRow
  BY DEF PayInv, PayTypeOK
<1>b. FailedForGood => FailedForGood'
  BY FailureIsKept DEF FailuresAreRecorded
<1>c. PaySteps => UNCHANGED phase
  BY PayStepStatus
<1> USE DEF NoLateSend, Goto, Leave, Return, NoError, PermanentFailure
<1>1. CASE PayInvoice
  BY <1>1, <1>b DEF PayInvoice
<1>2. CASE HeldByHook \/ GetRelevantNode \/ SkipApproval \/ StillPending
  BY <1>2, <1>b, <1>c DEF HeldByHook, GetRelevantNode, SkipApproval, StillPending, PaySteps
<1>3. CASE SignerDisabled
  BY <1>3 DEF SignerDisabled, FailuresAreRecorded
<1>4. CASE SendApproval
  <2>1. pc = "gate" /\ UNCHANGED phase
    BY <1>4 DEF SendApproval
  <2>2. Return \/ Goto("send")
    <3>1. PICK answer \in Approval \cup { "none" } :
            /\ answer = "Reject" => "approvalReject" \in Faults
            /\ \/ ResolvedApproval(answer) = "Hold" /\ Return
               \/ ResolvedApproval(answer) = "Reject" /\ Goto("abandon")
               \/ ResolvedApproval(answer) = "Accept" /\ Goto("send")
      BY <1>4 DEF SendApproval
    <3>2. ResolvedApproval(answer) # "Reject"
      BY <3>1 DEF ResolvedApproval, FailuresAreRecorded
    <3>. QED
      BY <3>1, <3>2
  <2>. QED
    BY <1>b, <2>1, <2>2
<1>5. CASE CltvTooSmall
  BY <1>5, <1>b DEF CltvTooSmall, AfterFailure
<1>6. CASE AlreadySucceeded
  <2>1. pc = "send" /\ UNCHANGED phase /\ (Return \/ Goto("settle"))
    BY <1>6 DEF AlreadySucceeded
  <2>. QED
    BY <1>b, <2>1
<1>7. CASE AlreadyFailed
  <2>1. PICK n \in Nodes : seen[n] \in PermanentFailure /\ AfterFailure(payNode, seen[n])
    BY <1>7 DEF AlreadyFailed
  <2>2. pc = "send" /\ UNCHANGED <<row, phase>>
    BY <1>7 DEF AlreadyFailed
  <2>3. FailedForGood'
    BY <1>a, <2>1, <2>2 DEF SnapshotIsRecent, FailedForGood
  <2>. QED
    BY <2>1, <2>2, <2>3 DEF AfterFailure
<1>8. CASE PaymentTimedOut
  <2>1. /\ pc = "send" /\ payNode \in Nodes /\ UNCHANGED phase
        /\ row' = [row EXCEPT ![payNode] = IF @ = "none" THEN @ ELSE "TimedOut"]
        /\ AfterFailure(payNode, "TimedOut")
    BY <1>8, <1>a DEF PaymentTimedOut, MayBeSent, SnapshotIsRecent
  <2>2. PICK n \in Nodes : seen[n] = "TemporaryFailure"
    BY <1>8 DEF PaymentTimedOut, Seen
  <2>3. n = payNode
    BY <1>8, <2>1, <2>2 DEF PaymentTimedOut, FailuresAreRecorded
  <2>4. row[payNode] = "TemporaryFailure"
    BY <1>a, <2>1, <2>2, <2>3 DEF SnapshotIsRecent
  <2>5. FailedForGood'
    BY <1>a, <2>1, <2>4 DEF FailedForGood
  <2>. QED
    BY <2>1, <2>5 DEF AfterFailure
<1>9. CASE CreatePayment
  <2>1. pc = "send" /\ ~late /\ payNode \in Nodes /\ UNCHANGED phase /\ Relevant(seen) = {}
    BY <1>9, <1>a DEF CreatePayment, MayBeSent, SnapshotIsRecent
  <2>2. \A n \in Nodes : row[n] \notin PermanentFailure
    BY <1>a, <2>1 DEF SnapshotIsRecent, Relevant
  <2>3. CASE row' = [row EXCEPT ![payNode] = "Pending"] /\ Goto("rowed")
    <3>1. ~FailedForGood'
      BY <1>a, <2>1, <2>2, <2>3 DEF FailedForGood
    <3>. QED
      BY <2>1, <2>3, <3>1
  <2>4. CASE Return
    BY <2>4
  <2>. QED
    BY <1>9, <2>3, <2>4 DEF CreatePayment
<1>10. CASE Dispatch
  BY <1>10 DEF Dispatch, FailedForGood
<1>11. CASE RefusedByNode \/ FailedInTime \/ InconclusiveError
  <2>1. pc \in { "rowed", "waiting" } /\ payNode \in Nodes /\ UNCHANGED phase
    BY <1>11, <1>a DEF RefusedByNode, FailedInTime, InconclusiveError, SenderOwnsRow
  <2>2. PICK error : SendFailed(payNode, error)
    BY <1>11 DEF RefusedByNode, FailedInTime, InconclusiveError
  <2>3. CASE Return
    BY <2>3
  <2>4. CASE /\ row' = [row EXCEPT ![payNode] = IF error \in PermanentFailure
                                                THEN error ELSE "TemporaryFailure"]
             /\ AfterFailure(payNode, error)
    <3>1. error \in PermanentFailure => FailedForGood'
      BY <1>a, <2>1, <2>4 DEF FailedForGood
    <3>. QED
      BY <2>1, <2>4, <3>1 DEF AfterFailure
  <2>. QED
    BY <2>2, <2>3, <2>4 DEF SendFailed
<1>12. CASE PaidInTime \/ RaceTimeout
  BY <1>12 DEF PaidInTime, RaceTimeout
<1>13. CASE TrackPayment
  BY <1>13, <1>b DEF TrackPayment
<1>14. CASE SettleInvoice \/ AbandonSwap
  BY <1>14 DEF SettleInvoice, AbandonSwap
<1>15. CASE Tick
  BY <1>15, <1>b DEF Tick, activation, FailedForGood
<1>16. ASSUME NEW n \in Nodes, TrackerResolves(n) PROVE NoLateSend'
  <2>1. pc \notin { "rowed", "waiting" }
    BY <1>a, <1>16 DEF TrackerResolves, TrackersFollowRows, OneOpenRow, Open,
                       SenderOwnsRow
  <2>. QED
    BY <1>16, <1>b, <2>1 DEF TrackerResolves, activation
<1>17. ASSUME NEW n \in Nodes, PromiseToWatch(n) \/ TrackerGivesUp(n) \/ HtlcResolves(n)
       PROVE  NoLateSend'
  BY <1>17, SMTT(60) DEF PromiseToWatch, TrackerGivesUp, HtlcResolves, activation, FailedForGood
<1>18. ASSUME NEW n \in Nodes, PollFails(n) PROVE NoLateSend'
  BY <1>18 DEF PollFails, FailuresAreRecorded
<1>19. CASE Restart
  BY <1>19 DEF Restart
<1>. QED
  BY <1>1, <1>2, <1>3, <1>4, <1>5, <1>6, <1>7, <1>8, <1>9, <1>10, <1>11, <1>12,
     <1>13, <1>14, <1>15, <1>16, <1>17, <1>18, <1>19 DEF PaySteps, PayEnvironment

SwapInv == OwnerInv /\ PayInv /\ NoLateSend /\ RefundInv

\* Expiries are only queued at the timeout.
LEMMA ExpiriesQueued ==
    ASSUME queue \in Seq(Entries), scanPc # "idle" => scanTx \in Lockups,
           [SubNext]_subVars
    PROVE  phase = "timeout" \/ Waits("expired")' \subseteq Waits("expired")
<1>1. CASE UNCHANGED queue
  BY <1>1 DEF Waits
<1>2. CASE queue # <<>> /\ queue' = Tail(queue)
  BY <1>2, EventHandled
<1>3. CASE queue' = <<>>
  BY <1>3, HeardNothing DEF Waits
<1>4. CASE CheckExpired
  BY <1>4 DEF CheckExpired
<1>5. ASSUME NEW event \in { "lockup", "lockup.failed" }, Emit(event, scanTx),
             scanPc # "idle"
      PROVE  Waits("expired")' = Waits("expired")
  BY <1>5, EventEmitted DEF EventKind
<1>6. CASE CheckAmount
  BY <1>1, <1>5, <1>6 DEF CheckAmount
<1>7. CASE JudgeLockup
  BY <1>1, <1>5, <1>7 DEF JudgeLockup
<1>. QED
  BY <1>1, <1>2, <1>3, <1>4, <1>6, <1>7
     DEF SubNext, NurseryStep, HandlerStep, ChainStep, Rescan, CheckOutputs,
         SetLockupTransaction, HandleLockup, HandleLockupFailed, HandleExpired,
         Handles, RetrySettle, ClaimLockup, SetInvoiceRead, SetInvoiceWrite,
         SettleAfterInvoice, PayInvoiceStep, PaymentProgress, SweepClaim,
         RefundFetch, RefundEligibility, SignRefund, SubRestart, subVars

\* The steps of the swap that are steps of its payment, and what others leave.
LEMMA StepsOfSwap ==
    ASSUME [SubNext]_subVars
    PROVE  /\ \/ PayInvoice \/ PaySteps \/ PayEnvironment \/ Restart
              \/ UNCHANGED <<row, htlc, phase>>
           /\ UNCHANGED <<lockup, kind>> \/ SetLockupTransaction
  BY DEF SubNext, NurseryStep, HandlerStep, ChainStep, Rescan, CheckOutputs,
         SetLockupTransaction, CheckAmount, JudgeLockup, CheckExpired,
         HandleLockup, HandleLockupFailed, HandleExpired, Handles, RetrySettle,
         ClaimLockup, SetInvoiceRead, SetInvoiceWrite, SettleAfterInvoice,
         PayInvoiceStep, PaymentProgress, SweepClaim, RefundFetch,
         RefundEligibility, SignRefund, SubRestart, subVars, chainVars, payVars

\* What closed a swap to payments keeps it closed.
LEMMA ClosedIsKept ==
    ASSUME FailuresAreRecorded, SwapInv, [SubNext]_subVars, Closed
    PROVE  Closed'
<1>1. CASE phase = "timeout"
  <2>1. phase' = "timeout"
    BY <1>1, StepsOfSwap, PayStepStatus
       DEF PayInvoice, PayEnvironment, Tick, TrackerResolves, PromiseToWatch,
           TrackerGivesUp, PollFails, HtlcResolves, Restart
  <2>. QED
    BY <2>1 DEF Closed
<1>2. CASE Refused(lockup)
  <2>1. CASE UNCHANGED <<lockup, kind>>
    BY <1>2, <2>1 DEF Closed, Refused
  <2>2. CASE SetLockupTransaction
    <3>1. lockup' = lockup
      BY <1>2, <2>2, OwnerWrites DEF SwapInv
    <3>2. kind' = kind
      BY <2>2 DEF SetLockupTransaction, chainVars
    <3>. QED
      BY <1>2, <3>1, <3>2 DEF Closed, Refused
  <2>. QED
    BY <2>1, <2>2, StepsOfSwap
<1>3. CASE FailedForGood
  <2>1. FailedForGood'
    <3>1. CASE UNCHANGED row
      BY <1>3, <3>1 DEF FailedForGood
    <3>2. CASE PayInvoice \/ PaySteps \/ PayEnvironment \/ Restart
      BY <1>3, <3>2, FailureIsKept DEF SwapInv, FailuresAreRecorded
    <3>. QED
      BY <3>1, <3>2, StepsOfSwap
  <2>. QED
    BY <2>1 DEF Closed
<1>. QED
  BY <1>1, <1>2, <1>3 DEF Closed

\* No node is asked to pay for a closed swap.
LEMMA ClosedIsNotPaid ==
    ASSUME SwapInv, [SubNext]_subVars, Closed
    PROVE  LiveNodes' \subseteq LiveNodes
<1>1. ~Dispatch
  <2>1. Refused(lockup) => pc = "idle"
    BY DEF SwapInv, OwnerInv, EngagedIsAccepted, Engaged, Accepted, Refused
  <2>. QED
    BY <2>1 DEF SwapInv, Dispatch, Closed, NoLateSend
<1>2. htlc \in [Nodes -> HtlcState]
  BY DEF SwapInv, PayInv, PayTypeOK
<1>3. CASE UNCHANGED htlc
  BY <1>3 DEF LiveNodes
<1>. QED
  BY <1>1, <1>2, <1>3, StepsOfSwap, PaymentsOfNodes

\* A failed status is written only for a closed swap, with no activation.
LEMMA FailedIsClosed ==
    ASSUME FailuresAreRecorded, SwapInv, [SubNext]_subVars
    PROVE  (status \in FailedSwapUpdateEvents => Closed /\ pc = "idle")'
<1>1. SUFFICES ASSUME status' \in FailedSwapUpdateEvents
               PROVE  Closed /\ pc' = "idle"
  BY ClosedIsKept
<1>2. status \in FailedSwapUpdateEvents => Closed /\ pc = "idle"
  BY DEF SwapInv, RefundInv
<1>3. CASE UNCHANGED <<status, pc>>
  BY <1>1, <1>2, <1>3
<1>4. CASE PayInvoice
  BY <1>1, <1>4 DEF PayInvoice, FailedSwapUpdateEvents
<1>5. CASE PaySteps
  <2>1. pc # "idle" /\ (UNCHANGED status \/ SettleInvoice \/ AbandonSwap)
    BY <1>5, PayStepStatus
  <2>2. AbandonSwap
    BY <1>1, <1>2, <2>1 DEF SettleInvoice, FailedSwapUpdateEvents
  <2>. QED
    BY <2>2 DEF AbandonSwap, Return, Leave, SwapInv, NoLateSend, Closed
<1>6. CASE PayEnvironment
  BY <1>3, <1>6, EnvironmentStatus DEF activation
<1>7. CASE Restart
  BY <1>1, <1>2, <1>7 DEF Restart, Return, Leave
<1>8. CASE ClaimLockup
  BY <1>1, <1>2, <1>8 DEF ClaimLockup, FailedSwapUpdateEvents
<1>9. CASE SetLockupTransaction
  <2>1. UNCHANGED pc
    BY <1>9 DEF SetLockupTransaction, activation
  <2>2. UNCHANGED status
    BY <1>1, <1>9, OwnerWrites DEF SwapInv, FailedSwapUpdateEvents
  <2>. QED
    BY <1>3, <2>1, <2>2
<1>10. CASE JudgeLockup
  <2>1. UNCHANGED pc
    BY <1>10 DEF JudgeLockup, activation
  <2>2. UNCHANGED status
    BY <1>1, <1>10 DEF JudgeLockup, FailedSwapUpdateEvents
  <2>. QED
    BY <1>3, <2>1, <2>2
<1>11. CASE HandleLockupFailed
  <2>1. /\ pc = "idle" /\ UNCHANGED pc /\ queue # <<>> /\ queue' = Tail(queue)
        /\ Head(queue)[1] = "lockup.failed"
    BY <1>11 DEF HandleLockupFailed, Handles, SwapLockFree, activation
  <2>2. Refused(lockup)
    BY <2>1, EventHandled DEF SwapInv, OwnerInv, OwnerTyped, RefusedStaysOwner
  <2>. QED
    BY <2>1, <2>2 DEF Closed
<1>12. CASE HandleExpired
  <2>1. /\ pc = "idle" /\ UNCHANGED pc /\ queue # <<>> /\ queue' = Tail(queue)
        /\ Head(queue)[1] = "expired"
    BY <1>12 DEF HandleExpired, Handles, SwapLockFree, activation
  <2>2. Waits("expired") # {}
    BY <2>1, EventHandled DEF SwapInv, OwnerInv, OwnerTyped
  <2>. QED
    BY <2>1, <2>2 DEF Closed, SwapInv, RefundInv
<1>13. CASE SweepClaim \/ SetInvoiceWrite
  BY <1>1, <1>13 DEF SweepClaim, SetInvoiceWrite, FailedSwapUpdateEvents
<1>. QED
  BY <1>3, <1>4, <1>5, <1>6, <1>7, <1>8, <1>9, <1>10, <1>11, <1>12, <1>13
     DEF SubNext, NurseryStep, HandlerStep, ChainStep, Rescan, CheckOutputs,
         CheckAmount, CheckExpired, HandleLockup, RetrySettle,
         SettleAfterInvoice, SetInvoiceRead, PayInvoiceStep, PaymentProgress,
         RefundFetch, RefundEligibility, SignRefund, SubRestart, subVars,
         payVars, activation

\* Refunds are signed for closed swaps whose nodes have nothing left to pay.
LEMMA RefundInvKept ==
    ASSUME FailuresAreRecorded, SwapInv, [SubNext]_subVars
    PROVE  RefundInv'
<1>1. (Waits("expired") # {} => phase = "timeout")'
  <2>1. phase = "timeout" => phase' = "timeout"
    BY StepsOfSwap, PayStepStatus
       DEF PayInvoice, PayEnvironment, Tick, TrackerResolves, PromiseToWatch,
           TrackerGivesUp, PollFails, HtlcResolves, Restart
  <2>2. phase = "timeout" \/ Waits("expired")' \subseteq Waits("expired")
    BY ExpiriesQueued DEF SwapInv, OwnerInv, OwnerTyped, ReportsAreTrue
  <2>. QED
    BY <2>1, <2>2 DEF SwapInv, RefundInv
<1>2. (status \in FailedSwapUpdateEvents => Closed /\ pc = "idle")'
  BY FailedIsClosed
<1>3. /\ refundPc # "idle" \/ refundSigned => Closed
      /\ refundPc = "checked" \/ refundSigned => LiveNodes = {}
      /\ status \in FailedSwapUpdateEvents => Closed
  BY DEF SwapInv, RefundInv
<1>4. Closed => Closed' /\ LiveNodes' \subseteq LiveNodes
  BY ClosedIsKept, ClosedIsNotPaid
<1>5. \/ UNCHANGED <<refundPc, refundSigned>>
      \/ refundPc' = "idle" /\ UNCHANGED refundSigned
      \/ RefundFetch \/ RefundEligibility \/ SignRefund
  BY DEF SubNext, NurseryStep, HandlerStep, ChainStep, Rescan, CheckOutputs,
         SetLockupTransaction, CheckAmount, JudgeLockup, CheckExpired,
         HandleLockup, HandleLockupFailed, HandleExpired, Handles, RetrySettle,
         ClaimLockup, SetInvoiceRead, SetInvoiceWrite, SettleAfterInvoice,
         PayInvoiceStep, PaymentProgress, SweepClaim, SubRestart, subVars,
         refundVars
<1>6. (refundPc # "idle" \/ refundSigned => Closed)'
  BY <1>3, <1>4, <1>5 DEF RefundFetch, RefundEligibility, SignRefund
<1>7. (refundPc = "checked" \/ refundSigned => LiveNodes = {})'
  BY <1>3, <1>4, <1>5
     DEF RefundFetch, RefundEligibility, SignRefund, FailuresAreRecorded
<1>. QED
  BY <1>1, <1>2, <1>6, <1>7 DEF RefundInv

\* NoLateSend is about the payment and the phase only.
LEMMA SwapKeepsNoLateSend ==
    ASSUME FailuresAreRecorded, SwapInv, [SubNext]_subVars
    PROVE  NoLateSend'
<1>1. CASE PayInvoice \/ PaySteps \/ PayEnvironment \/ Restart
  BY <1>1, NoLateSendKept DEF SwapInv
<1>2. CASE UNCHANGED <<row, phase, activation>>
  BY <1>2 DEF SwapInv, NoLateSend, FailedForGood, activation
<1>3. CASE ClaimLockup
  BY <1>3 DEF ClaimLockup, Return, Leave, NoLateSend
<1>. QED
  BY <1>1, <1>2, <1>3
     DEF SubNext, NurseryStep, HandlerStep, ChainStep, Rescan, CheckOutputs,
         SetLockupTransaction, CheckAmount, JudgeLockup, CheckExpired,
         HandleLockup, HandleLockupFailed, HandleExpired, RetrySettle,
         SetInvoiceRead, SetInvoiceWrite, SettleAfterInvoice, PayInvoiceStep,
         PaymentProgress, SweepClaim, RefundFetch, RefundEligibility,
         SignRefund, SubRestart, subVars, payVars

\* Although signRefund takes no lock and the swap may be retried, reported and
\* expire meanwhile, a refund is signed only when no node has paid the invoice
\* or still may, and no node is asked to pay it afterwards.
THEOREM RefundsExcludePayments ==
    ASSUME LateInvoice = FALSE, FailuresAreRecorded
    PROVE  SubSpec => []RefundExcludesPayment
<1>1. SubInit => SwapInv
  <2> SUFFICES ASSUME SubInit PROVE SwapInv
    OBVIOUS
  <2>1. OwnerInv
    BY OwnerInvInit
  <2>2. PayTypeOK
    BY DEF SubInit, PayInit, PayTypeOK, RowStatus, HtlcState, PayStep, PayError,
           NoError, NoRows, NoNode, SwapUpdateEvent
  <2>3. PayInv
    BY <2>2 DEF SubInit, PayInit, PayInv, LivePaymentIsRecorded, LiveNodes, Live,
           SuccessMeansPreimage, TrackersFollowRows, OneOpenRow, Open, NoRows,
           SnapshotIsRecent, SenderOwnsRow, VerdictIsFounded
  <2>4. NoLateSend
    BY DEF SubInit, PayInit, NoLateSend
  <2>5. RefundInv
    <3>1. Waits("expired") = {}
      BY HeardNothing DEF SubInit, Waits
    <3>. QED
      BY <3>1 DEF SubInit, RefundInv, FailedSwapUpdateEvents
  <2>. QED
    BY <2>1, <2>3, <2>4, <2>5 DEF SwapInv
<1>2. ASSUME SwapInv, [SubNext]_subVars PROVE SwapInv'
  BY <1>2, OwnerInvKept, SwapKeepsPayInv, SwapKeepsNoLateSend, RefundInvKept
     DEF SwapInv, FailuresAreRecorded
<1>3. SwapInv => RefundExcludesPayment
  BY DEF SwapInv, RefundInv, RefundExcludesPayment
<1>. QED
  BY <1>1, <1>2, <1>3, PTL DEF SubSpec

=============================================================================
