--------------------------- MODULE InvoicePayment ---------------------------
(***************************************************************************)
(* Paying the invoice of one submarine swap: PaymentHandler.payInvoice,    *)
(* PendingPaymentTracker and the LND and CLN payment trackers, over        *)
(* several lightning nodes of the backend.                                 *)
(*                                                                         *)
(* payInvoice always runs inside SwapNursery.swapLock, so one activation   *)
(* of it exists at a time.  Each action is the code between two awaits     *)
(* that other parts can observe; in the gaps the lightning nodes make      *)
(* progress, the trackers write payment rows and the backend may crash.    *)
(* The invoice is not one of the backend's own reverse swaps               *)
(* (handleSelfPayment answers isSelf = false).                             *)
(***************************************************************************)
EXTENDS SwapEvents, FiniteSets

CONSTANTS
    Lnd,        \* the LND nodes of the lightning currency
    Cln,        \* its CLN nodes
    DefaultApproval, \* answer of the send approval hook when nobody answers
    Faults      \* environment faults that may happen, see FaultKinds

Nodes == Lnd \cup Cln

FaultKinds ==
    { "earlyDrop",      \* an error of the connection to a node is taken for one of
                        \* the payment: LND in the 10 s race, CLN when polled
      "nodeDown",       \* streams and lookups of a node fail for a while
      "crash",          \* the backend process dies and restarts
      "hookHold",       \* the invoice payment hook answers Hold
      "approvalReject", \* the send approval hook may answer Reject
      "signerDisabled", \* SIGNER_SUBMARINE_INVOICE_PAYMENT is switched off
      "timeouts" }      \* a payment timeout is configured and can elapse

Approval == { "Accept", "Hold", "Reject" }

ASSUME NodesAssumption == Lnd \cap Cln = {}
ASSUME ApprovalAssumption == DefaultApproval \in Approval
ASSUME FaultsAssumption == Faults \subseteq FaultKinds

VARIABLES
    status,   \* status column of the swap
    row,      \* lightningPayments rows: node -> status, "none" without a row
    htlc,     \* what the node itself knows of its payment
    tracker,  \* in-memory observers: node -> "none", "promise" or "watch"
    pc,       \* where the activation of payInvoice is
    payNode,  \* the node it uses
    late,     \* the cltvLimit it read was below 2
    seen,     \* the rows it read
    payError, \* the error it handles
    held,     \* the swap has a sendApprovalHolds row
    phase     \* chain height: "open", "late" (cltvLimit < 2) or "timeout"

activation == <<pc, payNode, late, seen, payError>>
payVars == <<status, row, htlc, tracker, activation, held, phase>>

PermanentFailure == { "IncorrectDetails", "InvoiceExpired", "TimedOut" }
RowStatus ==
    { "none", "Pending", "TemporaryFailure", "Success" } \cup PermanentFailure
HtlcState == { "none", "inflight", "succeeded", "failedTemp", "failedPerm" }
Live == { "inflight", "succeeded" }
PayStep ==
    { "idle", "select", "gate", "send", "rowed", "waiting", "track",
      "settle", "abandon", "returned" }

NoRows == [n \in Nodes |-> "none"]
NoNode == "no node"
NoError == "no error"
PayError == PermanentFailure \cup
    { NoError, "Temporary", "CltvTooSmall", "AlreadyPaid", "InTransition" }

PayTypeOK ==
    /\ status \in SwapUpdateEvent
    /\ row \in [Nodes -> RowStatus]
    /\ htlc \in [Nodes -> HtlcState]
    /\ tracker \in [Nodes -> { "none", "promise", "watch" }]
    /\ pc \in PayStep
    /\ payNode \in Nodes \cup { NoNode }
    /\ late \in BOOLEAN
    /\ seen \in [Nodes -> RowStatus]
    /\ payError \in PayError
    /\ held \in BOOLEAN
    /\ phase \in { "open", "late", "timeout" }

PayInit ==
    /\ row = NoRows
    /\ htlc = [n \in Nodes |-> "none"]
    /\ tracker = [n \in Nodes |-> "none"]
    /\ pc = "idle"
    /\ payNode = NoNode
    /\ late = FALSE
    /\ seen = NoRows
    /\ payError = NoError
    /\ held = FALSE
    /\ phase = "open"

-----------------------------------------------------------------------------
(* Steps of payInvoice.                                                    *)

Goto(step) == pc' = step /\ UNCHANGED <<payNode, late, seen, payError>>

\* Leave payInvoice for `step', forgetting its locals.
Leave(step) ==
    /\ pc' = step
    /\ payNode' = NoNode
    /\ late' = FALSE
    /\ seen' = NoRows
    /\ payError' = NoError

Return == Leave("idle")

\* A row makes getRelevantNode return to the node that owns it.
Relevant(rows) ==
    { n \in Nodes : rows[n] \in { "Success", "Pending" } \cup PermanentFailure }

\* payInvoice is entered: the swap is marked pending and the CLTV limit read.
PayInvoice ==
    /\ pc = "idle"
    /\ status' = "InvoicePending"
    /\ pc' = "select"
    /\ late' = (phase # "open")
    /\ UNCHANGED <<payNode, seen, payError, row, htlc, tracker, held, phase>>

\* getPreferredNode: the invoice payment hook holds the payment.
HeldByHook ==
    /\ "hookHold" \in Faults
    /\ pc = "select"
    /\ Return
    /\ UNCHANGED <<status, row, htlc, tracker, held, phase>>

\* getRelevantNode: rows are read once, an owner of a relevant row is
\* preferred to the node that the hook or NodeSwitch picked.
GetRelevantNode ==
    /\ pc = "select"
    /\ pc' = "gate"
    /\ payNode' \in IF Relevant(row) = {} THEN Nodes ELSE Relevant(row)
    /\ seen' = row
    /\ UNCHANGED <<late, payError, status, row, htlc, tracker, held, phase>>

\* The signer for invoice payments is off and nothing was sent yet.
SignerDisabled ==
    /\ "signerDisabled" \in Faults
    /\ pc = "gate"
    /\ Relevant(seen) = {}
    /\ Goto("abandon")
    /\ UNCHANGED <<status, row, htlc, tracker, held, phase>>

\* resolveSendApprovalDecision: without an answer an existing hold stays.
ResolvedApproval(answer) ==
    IF answer \in Approval THEN answer
    ELSE IF held THEN "Hold" ELSE DefaultApproval

\* The send approval hook decides, and the decision is persisted.
SendApproval ==
    /\ pc = "gate"
    /\ Relevant(seen) = {}
    /\ \E answer \in Approval \cup { "none" } :
         /\ answer = "Reject" => "approvalReject" \in Faults
         /\ held' = (ResolvedApproval(answer) = "Hold")
         /\ \/ ResolvedApproval(answer) = "Hold" /\ Return
            \/ ResolvedApproval(answer) = "Reject" /\ Goto("abandon")
            \/ ResolvedApproval(answer) = "Accept" /\ Goto("send")
    /\ UNCHANGED <<status, row, htlc, tracker, phase>>

\* A payment that exists already needs no approval.
SkipApproval ==
    /\ pc = "gate"
    /\ Relevant(seen) # {}
    /\ Goto("send")
    /\ UNCHANGED <<status, row, htlc, tracker, held, phase>>

AfterFailureWithoutLookup(n, error) ==
    IF n \in Lnd /\ error \in { "AlreadyPaid", "InvoiceExpired" }
    THEN /\ pc' = "track"
         /\ payError' = error
         /\ UNCHANGED <<payNode, late, seen>>
    ELSE IF error \in PermanentFailure THEN Goto("abandon") ELSE Return

\* handlePaymentFailure for an error raised on node n: errors after which the
\* payment may still exist are looked up on LND, the ones that end the swap
\* abandon it, all others leave it to the next retry.
AfterFailure(n, error) ==
    IF n \in Lnd /\ error \in { "CltvTooSmall", "AlreadyPaid", "InvoiceExpired" }
    THEN /\ pc' = "track"
         /\ payError' = error
         /\ UNCHANGED <<payNode, late, seen>>
    ELSE IF error \in PermanentFailure THEN Goto("abandon") ELSE Return

\* cltvLimit < 2: payInvoice throws before anything is sent.
CltvTooSmall ==
    /\ pc = "send"
    /\ late
    /\ AfterFailure(payNode, "CltvTooSmall")
    /\ UNCHANGED <<status, row, htlc, tracker, held, phase>>

Seen(kinds) == \E n \in Nodes : seen[n] \in kinds

\* sendPayment finds a pending row: the payment is left to its tracker.
StillPending ==
    /\ pc = "send" /\ ~late
    /\ Seen({ "Pending" })
    /\ Return
    /\ UNCHANGED <<status, row, htlc, tracker, held, phase>>

\* getSuccessfulPaymentDetails: the node that paid is asked for the preimage.
\* Without it (node not available, lookup fails) the next retry asks again.
AlreadySucceeded ==
    /\ pc = "send" /\ ~late
    /\ ~Seen({ "Pending" })
    /\ \E n \in Nodes :
         /\ seen[n] = "Success"
         /\ \/ htlc[n] = "succeeded" /\ Goto("settle")
            \/ "nodeDown" \in Faults /\ Return
    /\ UNCHANGED <<status, row, htlc, tracker, held, phase>>

\* getPermanentFailureDetails: the stored error is thrown again.
AlreadyFailed ==
    /\ pc = "send" /\ ~late
    /\ ~Seen({ "Pending", "Success" })
    /\ \E n \in Nodes :
         /\ seen[n] \in PermanentFailure
         /\ AfterFailure(payNode, seen[n])
    /\ UNCHANGED <<status, row, htlc, tracker, held, phase>>

MayBeSent ==
    /\ pc = "send" /\ ~late
    /\ Relevant(seen) = {}

\* checkInvoiceTimeout: the oldest temporary failure is too old.  The failure
\* is written to the row of the node in use, if that one has a row.
PaymentTimedOut ==
    /\ "timeouts" \in Faults
    /\ MayBeSent
    /\ Seen({ "TemporaryFailure" })
    /\ row' = [row EXCEPT ![payNode] = IF @ = "none" THEN @ ELSE "TimedOut"]
    /\ AfterFailure(payNode, "TimedOut")
    /\ UNCHANGED <<status, htlc, tracker, held, phase>>

\* Mutant of CreatePayment: nothing is stored before the node is asked.
CreatePaymentUnrecorded ==
    /\ MayBeSent
    /\ Goto("rowed")
    /\ UNCHANGED <<status, row, htlc, tracker, held, phase>>

\* LightningPaymentRepository.create, before the node is asked to pay.
CreatePayment ==
    /\ MayBeSent
    /\ IF row[payNode] \in { "none", "TemporaryFailure" }
       THEN /\ row' = [row EXCEPT ![payNode] = "Pending"]
            /\ Goto("rowed")
       ELSE /\ Return
            /\ UNCHANGED row
    /\ UNCHANGED <<status, htlc, tracker, held, phase>>

\* The node takes the payment; it has at most one per payment hash.
Dispatch ==
    /\ pc = "rowed"
    /\ htlc[payNode] \notin Live
    /\ htlc' = [htlc EXCEPT ![payNode] = "inflight"]
    /\ Goto("waiting")
    /\ UNCHANGED <<status, row, tracker, held, phase>>

\* A mutant: errors of CLN count as failures like those of LND.
SendFailedOnAnyError(n, error) ==
    /\ row' = [row EXCEPT ![n] = IF error \in PermanentFailure
                                 THEN error ELSE "TemporaryFailure"]
    /\ AfterFailure(n, error)
    /\ UNCHANGED tracker

\* The catch block of sendPaymentWithNode: permanent errors are recorded, CLN
\* payments with another error are watched, LND ones count as failed.
SendFailed(n, error) ==
    IF error \notin PermanentFailure /\ n \in Cln
    THEN /\ tracker' = [tracker EXCEPT ![n] = "watch"]
         /\ Return
         /\ UNCHANGED row
    ELSE /\ row' = [row EXCEPT ![n] = IF error \in PermanentFailure
                                      THEN error ELSE "TemporaryFailure"]
         /\ AfterFailure(n, error)
         /\ UNCHANGED tracker

\* The node refuses: the invoice expired, or it has the payment already.
RefusedByNode ==
    /\ pc = "rowed"
    /\ \/ /\ htlc[payNode] \notin Live
          /\ SendFailed(payNode, "InvoiceExpired")
       \/ /\ htlc[payNode] = "inflight"
          /\ SendFailed(payNode, "InTransition")
       \/ /\ htlc[payNode] = "succeeded"
          /\ SendFailed(payNode, "AlreadyPaid")
    /\ UNCHANGED <<status, htlc, held, phase>>

\* The node answers within the race: the preimage, or the payment failed.
PaidInTime ==
    /\ pc = "waiting"
    /\ htlc[payNode] = "succeeded"
    /\ row' = [row EXCEPT ![payNode] = "Success"]
    /\ Goto("settle")
    /\ UNCHANGED <<status, htlc, tracker, held, phase>>

FailedInTime ==
    /\ pc = "waiting"
    /\ \/ htlc[payNode] = "failedPerm" /\ SendFailed(payNode, "IncorrectDetails")
       \/ htlc[payNode] = "failedTemp" /\ SendFailed(payNode, "Temporary")
    /\ UNCHANGED <<status, htlc, held, phase>>

\* An error that says nothing about the payment: xpay of CLN throws while it is
\* in flight, a connection to LND breaks.
InconclusiveError ==
    /\ pc = "waiting"
    /\ payNode \in Lnd => "earlyDrop" \in Faults
    /\ SendFailed(payNode, "Temporary")
    /\ UNCHANGED <<status, htlc, held, phase>>

\* racePromise: after 10 seconds the promise is handed to the tracker.
RaceTimeout ==
    /\ pc = "waiting"
    /\ tracker' = [tracker EXCEPT ![payNode] = "promise"]
    /\ Return
    /\ UNCHANGED <<status, row, htlc, held, phase>>

\* handleLndPaymentFailure looks the payment up before it gives up on it.
TrackPayment ==
    /\ pc = "track"
    /\ LET unknown == htlc[payNode] \notin Live
           giveUp == IF payError \in PermanentFailure
                     THEN Goto("abandon") ELSE Return
       IN  \/ htlc[payNode] = "succeeded" /\ Goto("settle")
           \/ htlc[payNode] = "inflight" /\ Return
           \/ (unknown \/ "nodeDown" \in Faults) /\ giveUp
    /\ UNCHANGED <<status, row, htlc, tracker, held, phase>>

SettleInvoice ==
    /\ pc = "settle"
    /\ status' = "InvoicePaid"
    /\ Leave("returned")
    /\ UNCHANGED <<row, htlc, tracker, held, phase>>

AbandonSwap ==
    /\ pc = "abandon"
    /\ status' = "InvoiceFailedToPay"
    /\ Return
    /\ UNCHANGED <<row, htlc, tracker, held, phase>>

PaySteps ==
    \/ HeldByHook \/ GetRelevantNode \/ SignerDisabled \/ SendApproval
    \/ SkipApproval \/ CltvTooSmall \/ StillPending \/ AlreadySucceeded
    \/ AlreadyFailed \/ PaymentTimedOut \/ CreatePayment \/ Dispatch
    \/ RefusedByNode \/ PaidInTime \/ FailedInTime \/ InconclusiveError
    \/ RaceTimeout \/ TrackPayment \/ SettleInvoice \/ AbandonSwap

-----------------------------------------------------------------------------
(* The trackers, the nodes, time and restarts.                             *)

\* handleSucceededPayment and handleFailedPayment write the observed outcome.
Observed(n) ==
    CASE htlc[n] = "succeeded" -> "Success"
      [] htlc[n] = "failedPerm" -> "IncorrectDetails"
      [] OTHER -> "TemporaryFailure"

\* A tracker sees the end of the payment.  A CLN payment that was never made
\* has no attempts and counts as failed too.
TrackerResolves(n) ==
    /\ tracker[n] # "none"
    /\ \/ htlc[n] \in { "succeeded", "failedPerm" }
       \/ htlc[n] = "failedTemp" /\ (n \in Lnd \/ tracker[n] = "watch")
       \/ htlc[n] = "none" /\ n \in Cln /\ tracker[n] = "watch"
    /\ row' = [row EXCEPT ![n] = Observed(n)]
    /\ tracker' = [tracker EXCEPT ![n] = "none"]
    /\ UNCHANGED <<status, htlc, activation, held, phase>>

\* A CLN promise that rejects without a permanent error is polled from then on.
PromiseToWatch(n) ==
    /\ n \in Cln
    /\ tracker[n] = "promise"
    /\ htlc[n] \in { "inflight", "failedTemp" }
    /\ tracker' = [tracker EXCEPT ![n] = "watch"]
    /\ UNCHANGED <<status, row, htlc, activation, held, phase>>

\* The stream ends without a result or the node is not connected: nothing is
\* written and nobody watches the payment any more.  LND answers this way too
\* when it never heard of the payment.
TrackerGivesUp(n) ==
    /\ tracker[n] # "none"
    /\ \/ "nodeDown" \in Faults
       \/ n \in Lnd /\ htlc[n] = "none"
    /\ tracker' = [tracker EXCEPT ![n] = "none"]
    /\ UNCHANGED <<status, row, htlc, activation, held, phase>>

\* checkPendingPayments: listPays of CLN fails while the client still counts as
\* connected, and the error is written like a failure of the payment.
PollFails(n) ==
    /\ "earlyDrop" \in Faults
    /\ n \in Cln
    /\ tracker[n] = "watch"
    /\ row' = [row EXCEPT ![n] = "TemporaryFailure"]
    /\ tracker' = [tracker EXCEPT ![n] = "none"]
    /\ UNCHANGED <<status, htlc, activation, held, phase>>

\* The lightning network resolves the payment.
HtlcResolves(n) ==
    /\ htlc[n] = "inflight"
    /\ \E result \in { "succeeded", "failedTemp", "failedPerm" } :
         htlc' = [htlc EXCEPT ![n] = result]
    /\ UNCHANGED <<status, row, tracker, activation, held, phase>>

\* Blocks: getCltvLimit caps every HTLC to end before the swap times out, and an
\* activation (hooks and race are bounded) is shorter than the late phase.
Tick ==
    /\ \/ phase = "open" /\ phase' = "late"
       \/ /\ phase = "late"
          /\ \A n \in Nodes : htlc[n] # "inflight"
          /\ pc # "idle" => late
          /\ phase' = "timeout"
    /\ UNCHANGED <<status, row, htlc, tracker, activation, held>>

\* Mutant of Restart: every row is watched again, not only pending ones.
RestartWatchesAllRows ==
    /\ "crash" \in Faults
    /\ Return
    /\ tracker' = [n \in Nodes |-> IF row[n] # "none" THEN "watch" ELSE "none"]
    /\ UNCHANGED <<status, row, htlc, held, phase>>

\* A crash loses the activation and the trackers; PendingPaymentTracker.init
\* watches every pending row again.
Restart ==
    /\ "crash" \in Faults
    /\ Return
    /\ tracker' = [n \in Nodes |-> IF row[n] = "Pending" THEN "watch" ELSE "none"]
    /\ UNCHANGED <<status, row, htlc, held, phase>>

PayEnvironment ==
    \/ Tick
    \/ \E n \in Nodes : TrackerResolves(n) \/ PromiseToWatch(n)
                         \/ TrackerGivesUp(n) \/ PollFails(n)
                         \/ HtlcResolves(n)

-----------------------------------------------------------------------------
(* The payment of a swap whose lockup was accepted, on its own.            *)

\* The retry interval of SwapNursery picks up pending and paid swaps.
Retry ==
    /\ status \in { "InvoicePending", "InvoicePaid" }
    /\ PayInvoice

\* The claim that follows a paid invoice succeeds, or throws and is retried.
Claim ==
    /\ pc = "returned"
    /\ status' \in { "TransactionClaimed", status }
    /\ Return
    /\ UNCHANGED <<row, htlc, tracker, held, phase>>

\* expireSwap, inside the same lock.
ExpireSwap ==
    /\ pc = "idle"
    /\ phase = "timeout"
    /\ status \notin FinalSwapEvents
    /\ status' = "SwapExpired"
    /\ UNCHANGED <<row, htlc, tracker, activation, held, phase>>

Init == status = "InvoicePending" /\ PayInit
Next == Retry \/ PaySteps \/ PayEnvironment \/ Restart \/ Claim \/ ExpireSwap
Spec == Init /\ [][Next]_payVars

\* The retry interval, the steps of an activation, the trackers and the nodes
\* keep running; nothing makes hooks, crashes or blocks happen.
Fairness ==
    /\ WF_payVars(Retry)
    /\ WF_payVars(PaySteps)
    /\ WF_payVars(Claim)
    /\ \A n \in Nodes : WF_payVars(TrackerResolves(n))
    /\ \A n \in Nodes : WF_payVars(HtlcResolves(n))

FairSpec == Spec /\ Fairness

-----------------------------------------------------------------------------
(* Properties.                                                             *)

LiveNodes == { n \in Nodes : htlc[n] \in Live }

\* Retries, node changes, races with the trackers and restarts never put the
\* same invoice in flight on two nodes, or on a second node after a first one
\* has paid it: the row is written before the node is asked, and blocks others.
AtMostOneLivePayment == \A m, n \in LiveNodes : m = n

\* abandonSwap is reached only when no node can still complete the payment: a
\* swap in InvoiceFailedToPay, which may be refunded, has no live payment.
AbandonedWithoutPayment ==
    status = "InvoiceFailedToPay" => LiveNodes = {}

\* A payment that a node may still complete or has completed is never recorded
\* as failed: nodes and the lightningPayments table may differ, but only in
\* the direction that stops another attempt.
LivePaymentIsRecorded ==
    \A n \in LiveNodes : row[n] \in { "Pending", "Success" }

\* A row only says Success, and the swap is only paid or claimed, when a node
\* really has the preimage.
PaidMeansPreimage ==
    /\ \A n \in Nodes : row[n] = "Success" => htlc[n] = "succeeded"
    /\ status \in { "InvoicePaid", "TransactionClaimed" } =>
         \E n \in Nodes : htlc[n] = "succeeded"

\* Success and permanent failure of a payment are final: no tracker that
\* reports late and no retry overwrites them.
OutcomeIsFinal ==
    [][\A n \in Nodes :
         row[n] \in { "Success" } \cup PermanentFailure => row'[n] = row[n]]_payVars

\* A payment that succeeded on a node makes the swap paid while its lockup can
\* still be claimed, however the answer of the node reached the backend.
SuccessIsSettled ==
    (\E n \in Nodes : htlc[n] = "succeeded") ~>
        \/ status \in { "InvoicePaid", "TransactionClaimed" }
        \/ phase = "timeout"

\* The trackers, rows and retries together keep the promise of SinglePayment.
Once == INSTANCE SinglePayment WITH
    payment <- [n \in Nodes |-> CASE htlc[n] = "inflight" -> "inflight"
                                  [] htlc[n] = "succeeded" -> "settled"
                                  [] OTHER -> "none"],
    abandoned <- status = "InvoiceFailedToPay"

PaidOnlyOnce == Once!Spec

=============================================================================
