---------------------------- MODULE RefundBumper ----------------------------
(***************************************************************************)
(* Replacing a refund transaction that pays too little.  The backend       *)
(* stores the id of its refund and broadcasts it (refundUtxo of            *)
(* SwapNursery), the bumper of the sidecar replaces it while it is         *)
(* unconfirmed and updates the id (boltzr/src/chain/bumper), and           *)
(* RefundWatcher looks for the confirmation of the id in the row.  The row *)
(* is all that the three share.                                            *)
(***************************************************************************)
EXTENDS Naturals, Sequences

CONSTANTS
    FeeRates,       \* fee rates the estimation may give, in sat/vbyte
    MaxRefundTxs,   \* bound on the transactions that are created
    MaxRbFaults     \* bound on crashes and failing queries

ASSUME RbAssumption ==
    FeeRates \subseteq Nat /\ MaxRefundTxs \in Nat \ { 0 } /\ MaxRbFaults \in Nat

VARIABLES
    rbTxs,          \* the transactions; an index is an id
    rbRow,          \* row of refund_transactions
    rbRefund,       \* where refundUtxo is
    rbBump,         \* where the bumper is
    rbWatch,        \* id RefundWatcher loaded, or NoId
    rbAnnounced,    \* id of refund.confirmed, or NoId
    rbLost,         \* the row lost track of the refund
    rbFaults

rbVars == << rbTxs, rbRow, rbRefund, rbBump, rbWatch, rbAnnounced, rbLost, rbFaults >>

NoId == 0
RbIdle == [at |-> "idle", id |-> NoId, target |-> 0]
RBF_MIN_INCREMENT == 1
RBF_MIN_BUMP == 2

RbInit ==
    /\ rbTxs = << >> /\ rbRow = [id |-> NoId, status |-> "none"]
    /\ rbRefund = "none" /\ rbBump = RbIdle /\ rbWatch = NoId
    /\ rbAnnounced = NoId /\ rbLost = FALSE /\ rbFaults = 0

RbFault == rbFaults < MaxRbFaults /\ rbFaults' = rbFaults + 1

InState(state) == { i \in DOMAIN rbTxs : rbTxs[i].state = state }

\* Nodes accept a refund of an unspent lockup, and a replacement of the one in
\* the mempool that pays more.
Accepts(fee) ==
    /\ InState("confirmed") = {}
    /\ \A i \in InState("mempool") : rbTxs[i].fee + RBF_MIN_INCREMENT <= fee

\* The transactions once the one with that id was broadcast.
BroadcastRefundTx(txs, id) ==
    [i \in DOMAIN txs |-> IF i = id THEN [txs[i] EXCEPT !.state = "mempool"]
                          ELSE IF txs[i].state = "mempool"
                          THEN [txs[i] EXCEPT !.state = "replaced"] ELSE txs[i]]

\* A block has the refund, or one that was replaced when the miner did not know
\* the replacement.  Of that one the row may have the id no longer.
RefundConfirms(id) ==
    /\ id \in InState("mempool") \cup InState("replaced") /\ InState("confirmed") = {}
    /\ rbTxs' = [i \in DOMAIN rbTxs |->
                   IF i = id THEN [rbTxs[i] EXCEPT !.state = "confirmed"]
                   ELSE [rbTxs[i] EXCEPT !.state = "conflicted"]]
    /\ rbLost' = (rbLost \/ rbTxs[id].state = "replaced")
    /\ UNCHANGED << rbRow, rbRefund, rbBump, rbWatch, rbAnnounced, rbFaults >>

-----------------------------------------------------------------------------
(* refundUtxo.                                                             *)

\* The row is upserted with the id of the transaction that was constructed,
\* also when an earlier refund is out there because a crash hid it.
AddTransaction(fee) ==
    /\ rbRefund = "none" /\ Len(rbTxs) < MaxRefundTxs
    /\ rbTxs' = Append(rbTxs, [fee |-> fee, state |-> "new"])
    /\ rbRow' = [id |-> Len(rbTxs) + 1, status |-> "pending"]
    /\ rbRefund' = "stored"
    /\ rbLost' = (rbLost \/ InState("mempool") \cup InState("confirmed") # {})
    /\ UNCHANGED << rbBump, rbWatch, rbAnnounced, rbFaults >>

\* The transaction that was constructed last and not sent.
NewestRefund == { i \in InState("new") : \A j \in InState("new") : j <= i }

\* sendRawTransaction; when it fails the next block tries all of it again.
SendRefund ==
    /\ rbRefund = "stored"
    /\ \/ \E id \in NewestRefund :
            /\ Accepts(rbTxs[id].fee)
            /\ rbTxs' = BroadcastRefundTx(rbTxs, id) /\ rbRefund' = "sent"
       \/ /\ \A id \in NewestRefund : ~Accepts(rbTxs[id].fee)
          /\ rbRefund' = "none" /\ UNCHANGED rbTxs
    /\ UNCHANGED << rbRow, rbBump, rbWatch, rbAnnounced, rbLost, rbFaults >>

SetRefunded ==
    /\ rbRefund = "sent" /\ rbRefund' = "done"
    /\ UNCHANGED << rbTxs, rbRow, rbBump, rbWatch, rbAnnounced, rbLost, rbFaults >>

-----------------------------------------------------------------------------
(* The bumper: run, check_transaction and bump_fee.                        *)

\* The fee is estimated and the pending rows are fetched.
FetchPending(target) ==
    /\ rbBump = RbIdle /\ rbRow.status = "pending"
    /\ rbBump' = [at |-> "fetched", id |-> rbRow.id, target |-> target]
    /\ UNCHANGED << rbTxs, rbRow, rbRefund, rbWatch, rbAnnounced, rbLost, rbFaults >>

should_bump(actual, target) ==
    actual + RBF_MIN_INCREMENT <= target /\ actual + RBF_MIN_BUMP <= target

\* The node has the transaction if it is in its mempool or in a block.
CheckFee ==
    /\ rbBump.at = "fetched"
    /\ rbBump' = IF /\ rbBump.id \in InState("mempool") \cup InState("confirmed")
                    /\ should_bump(rbTxs[rbBump.id].fee, rbBump.target)
                 THEN [rbBump EXCEPT !.at = "bump"] ELSE RbIdle
    /\ UNCHANGED << rbTxs, rbRow, rbRefund, rbWatch, rbAnnounced, rbLost, rbFaults >>

\* The replacement is constructed and broadcast.
BumpFee ==
    /\ rbBump.at = "bump" /\ Len(rbTxs) < MaxRefundTxs
    /\ IF Accepts(rbBump.target)
       THEN LET new == Append(rbTxs, [fee |-> rbBump.target, state |-> "new"])
            IN  /\ rbTxs' = BroadcastRefundTx(new, Len(new))
                /\ rbBump' = [rbBump EXCEPT !.at = "sent", !.id = Len(new)]
       ELSE rbBump' = RbIdle /\ UNCHANGED rbTxs
    /\ UNCHANGED << rbRow, rbRefund, rbWatch, rbAnnounced, rbLost, rbFaults >>

\* A mutant: the row is only updated if it still has the transaction that was
\* not replaced.
UpdateTransactionIdOfNew ==
    /\ rbBump.at = "sent"
    /\ rbRow' = IF rbRow.id = rbBump.id THEN [rbRow EXCEPT !.id = rbBump.id] ELSE rbRow
    /\ rbBump' = RbIdle
    /\ UNCHANGED << rbTxs, rbRefund, rbWatch, rbAnnounced, rbLost, rbFaults >>

\* update_transaction_id writes the id to the row of the swap, whatever it holds.
UpdateTransactionId ==
    /\ rbBump.at = "sent"
    /\ rbRow' = [rbRow EXCEPT !.id = rbBump.id]
    /\ rbBump' = RbIdle
    /\ UNCHANGED << rbTxs, rbRefund, rbWatch, rbAnnounced, rbLost, rbFaults >>

\* The write fails: the error is logged, the replacement is not in the row.
UpdateFails ==
    /\ rbBump.at = "sent" /\ RbFault
    /\ rbBump' = RbIdle /\ rbLost' = TRUE
    /\ UNCHANGED << rbTxs, rbRow, rbRefund, rbWatch, rbAnnounced >>

-----------------------------------------------------------------------------
(* RefundWatcher, on every block.                                          *)

GetPendingTransactions ==
    /\ rbWatch = NoId /\ rbRow.status = "pending"
    /\ rbWatch' = rbRow.id
    /\ UNCHANGED << rbTxs, rbRow, rbRefund, rbBump, rbAnnounced, rbLost, rbFaults >>

\* A mutant: being in the mempool is taken for a confirmation.
WatcherChecksUnconfirmed ==
    /\ rbWatch # NoId /\ rbWatch' = NoId
    /\ IF /\ rbWatch \in InState("mempool") \cup InState("confirmed")
          /\ rbRow.status = "pending"
       THEN rbRow' = [rbRow EXCEPT !.status = "confirmed"] /\ rbAnnounced' = rbWatch
       ELSE UNCHANGED << rbRow, rbAnnounced >>
    /\ UNCHANGED << rbTxs, rbRefund, rbBump, rbLost, rbFaults >>

\* checkRefund: with a confirmation the status is changed if it is pending, and
\* only then refund.confirmed emitted.
WatcherChecks ==
    /\ rbWatch # NoId /\ rbWatch' = NoId
    /\ IF rbWatch \in InState("confirmed") /\ rbRow.status = "pending"
       THEN rbRow' = [rbRow EXCEPT !.status = "confirmed"] /\ rbAnnounced' = rbWatch
       ELSE UNCHANGED << rbRow, rbAnnounced >>
    /\ UNCHANGED << rbTxs, rbRefund, rbBump, rbLost, rbFaults >>

\* Both processes stop and start again.  A swap that was not marked as refunded
\* expires once more with the next block.
RbRestart ==
    /\ RbFault
    /\ rbRefund' = IF rbRefund = "done" THEN "done" ELSE "none"
    /\ rbLost' = (rbLost \/ rbBump.at = "sent")
    /\ rbBump' = RbIdle /\ rbWatch' = NoId
    /\ UNCHANGED << rbTxs, rbRow, rbAnnounced >>

RbNext ==
    \/ \E i \in 1 .. MaxRefundTxs : RefundConfirms(i)
    \/ \E f \in FeeRates : AddTransaction(f) \/ FetchPending(f)
    \/ SendRefund \/ SetRefunded
    \/ CheckFee \/ BumpFee \/ UpdateTransactionId \/ UpdateFails
    \/ GetPendingTransactions \/ WatcherChecks \/ RbRestart

\* The handlers go on and every block starts the watcher.
RbFairness ==
    /\ WF_rbVars(SendRefund \/ SetRefunded) /\ WF_rbVars(CheckFee)
    /\ WF_rbVars(BumpFee) /\ WF_rbVars(UpdateTransactionId \/ UpdateFails)
    /\ WF_rbVars(GetPendingTransactions) /\ WF_rbVars(WatcherChecks)

RbSpec == RbInit /\ [][RbNext]_rbVars
FairRbSpec == RbSpec /\ RbFairness

-----------------------------------------------------------------------------
\* One refund spends the lockup at a time; the row and the places of the three
\* actors are well formed.
RbTypeOK ==
    /\ rbTxs \in Seq([fee : FeeRates,
                      state : { "new", "mempool", "replaced", "confirmed", "conflicted" }])
    /\ \A i, j \in InState("mempool") \cup InState("confirmed") : i = j
    /\ rbRow \in [id : 0 .. Len(rbTxs), status : { "none", "pending", "confirmed" }]
    /\ rbRefund \in { "none", "stored", "sent", "done" }
    /\ rbBump.at \in { "idle", "fetched", "bump", "sent" } /\ rbBump.id \in 0 .. Len(rbTxs)
    /\ rbWatch \in 0 .. Len(rbTxs) /\ rbAnnounced \in 0 .. Len(rbTxs)
    /\ rbLost \in BOOLEAN /\ rbFaults \in 0 .. MaxRbFaults

\* The row has the id of the refund that is in the mempool or in a block, but for
\* the moment in which the bumper has replaced it; it loses track only when that
\* write does not happen, when a crash makes the backend refund again, or when a
\* miner includes what was replaced.
RowFollowsRefund ==
    \A i \in InState("mempool") \cup InState("confirmed") :
      rbLost \/ rbRow.id = i \/ (rbBump.at = "sent" /\ rbBump.id = i)

\* refund.confirmed, on which a hold invoice is cancelled, is emitted for a
\* refund that is in a block, while bumper and watcher change the same row.
AnnouncedIsConfirmed ==
    rbAnnounced # NoId => rbTxs[rbAnnounced].state = "confirmed"

\* A refund that confirms is noticed, however often it was replaced.
RefundIsNoticed ==
    InState("confirmed") # {} ~> (rbAnnounced # NoId \/ rbLost)

\* The refund row, which bumper and watcher both write, tells the truth: it names
\* the refund that is on its way, and only a confirmed one was announced.
RefundRowIsTrue == RowFollowsRefund /\ AnnouncedIsConfirmed
=============================================================================
