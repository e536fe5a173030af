--------------------------- MODULE DeferredClaimer ---------------------------
(***************************************************************************)
(* DeferredClaimer of one UTXO currency: paid submarine and chain swaps    *)
(* wait in memory until a batch transaction claims them, or until their    *)
(* client signs a cooperative claim.  Both paths, the database and the     *)
(* chain can fail independently, and the process may restart in between.   *)
(***************************************************************************)
EXTENDS FiniteSets, Integers

CONSTANTS
    Swaps,    \* swaps whose lockup is in the currency
    MaxChunk, \* MAX_BATCH_CLAIM_CHUNK: claims per transaction
    ClaimFaults    \* what can fail, see ClaimFaultKinds

ASSUME SwapsAssumption == IsFiniteSet(Swaps)
ASSUME ChunkAssumption == MaxChunk \in Nat \ { 0 }

\* The wallet or the node refuses a transaction, accepts it and answers with an error,
\* a write fails, the process dies.
ClaimFaultKinds == { "broadcast", "answer", "database", "crash" }
ASSUME ClaimFaultsAssumption == ClaimFaults \subseteq ClaimFaultKinds

VARIABLES
    claimStatus, \* status column of the swaps
    deferring,  \* marked as pending in the database, not stored in the map yet
    queue,      \* swapsToClaim and chainSwapsToClaim
    coop,       \* entries with cooperative details
    lock,       \* holder of batchClaimLock
    batch,      \* taken by the sweep, not broadcast yet
    chunk,      \* claimed by the transaction that is being processed
    recorded,   \* those of chunk that setMinerFee has written
    spent       \* swaps with a broadcast claim transaction

claimVars == <<claimStatus, deferring, queue, coop, lock, batch, chunk, recorded, spent>>

Pending == { s \in Swaps : claimStatus[s] = "TransactionClaimPending" }

ClaimTypeOK ==
    /\ claimStatus \in [Swaps -> { "InvoicePaid", "TransactionClaimPending",
                              "TransactionClaimed" }]
    /\ deferring \subseteq Swaps
    /\ queue \subseteq Swaps
    /\ coop \subseteq Swaps
    /\ lock \in { "free", "sweep", "batched", "coop", "signed" }
    /\ batch \subseteq Swaps
    /\ chunk \subseteq Swaps
    /\ recorded \subseteq chunk
    /\ spent \subseteq Swaps

ClaimInit ==
    /\ claimStatus = [s \in Swaps |-> "InvoicePaid"]
    /\ deferring = {} /\ queue = {} /\ coop = {}
    /\ lock = "free"
    /\ batch = {} /\ chunk = {} /\ recorded = {}
    /\ spent = {}

-----------------------------------------------------------------------------
(* deferClaim, called with the preimage under swapLock or chainSwapLock.   *)

DeferClaim(s) ==
    /\ claimStatus[s] = "InvoicePaid"
    /\ claimStatus' = [claimStatus EXCEPT ![s] = "TransactionClaimPending"]
    /\ deferring' = deferring \cup { s }
    /\ UNCHANGED <<queue, coop, lock, batch, chunk, recorded, spent>>

\* broadcastCooperative keeps swapsToClaimLock while it broadcasts.
MapLockFree == lock \notin { "coop", "signed" }

StoreDeferred(s) ==
    /\ s \in deferring
    /\ MapLockFree
    /\ deferring' = deferring \ { s }
    /\ queue' = queue \cup { s }
    /\ UNCHANGED <<claimStatus, coop, lock, batch, chunk, recorded, spent>>

-----------------------------------------------------------------------------
(* sweepSymbol, started by the triggers, the interval or an operator.      *)

SweepSymbol ==
    /\ lock = "free"
    /\ queue # {}
    /\ lock' = "sweep"
    /\ batch' = queue
    /\ queue' = {}
    /\ UNCHANGED <<claimStatus, deferring, coop, chunk, recorded, spent>>

\* arrayToChunks: every chunk but the last one is full.
IsChunk(c) ==
    /\ c \subseteq batch
    /\ c # {}
    /\ Cardinality(c) = MaxChunk \/ (c = batch /\ Cardinality(c) <= MaxChunk)

\* broadcastClaim: one transaction claims the chunk, its outputs are unspent.
BroadcastClaim(c) ==
    /\ lock = "sweep"
    /\ IsChunk(c)
    /\ c \cap spent = {}
    /\ spent' = spent \cup c
    /\ lock' = "batched"
    /\ batch' = batch \ c
    /\ chunk' = c
    /\ UNCHANGED <<claimStatus, deferring, queue, coop, recorded>>

\* A mutant: the chunk that failed is dropped.
BroadcastClaimFailsAndForgets(c) ==
    /\ lock = "sweep"
    /\ IsChunk(c)
    /\ c \cap spent # {} \/ "broadcast" \in ClaimFaults
    /\ batch' = batch \ c
    /\ UNCHANGED <<claimStatus, deferring, queue, coop, lock, chunk, recorded, spent>>

\* The same call throws, also after the node took the transaction: the chunk goes
\* back to the map.
BroadcastClaimFails(c) ==
    /\ lock = "sweep"
    /\ IsChunk(c)
    /\ \/ /\ c \cap spent # {} \/ "broadcast" \in ClaimFaults
          /\ UNCHANGED spent
       \/ /\ c \cap spent = {} /\ "answer" \in ClaimFaults
          /\ spent' = spent \cup c
    /\ batch' = batch \ c
    /\ queue' = queue \cup c
    /\ UNCHANGED <<claimStatus, deferring, coop, lock, chunk, recorded>>

\* setMinerFee for each swap of the broadcast chunk.
SetMinerFee(s) ==
    /\ lock = "batched"
    /\ s \in chunk \ recorded
    /\ claimStatus' = [claimStatus EXCEPT ![s] = "TransactionClaimed"]
    /\ IF recorded \cup { s } = chunk
       THEN lock' = "sweep" /\ chunk' = {} /\ recorded' = {}
       ELSE recorded' = recorded \cup { s } /\ UNCHANGED <<lock, chunk>>
    /\ UNCHANGED <<deferring, queue, coop, batch, spent>>

\* One write fails: the whole chunk goes back to the map, although it is claimed.
SetMinerFeeFails ==
    /\ "database" \in ClaimFaults
    /\ lock = "batched"
    /\ queue' = queue \cup chunk
    /\ lock' = "sweep" /\ chunk' = {} /\ recorded' = {}
    /\ UNCHANGED <<claimStatus, deferring, coop, batch, spent>>

SweepDone ==
    /\ lock = "sweep"
    /\ batch = {}
    /\ lock' = "free"
    /\ UNCHANGED <<claimStatus, deferring, queue, coop, batch, chunk, recorded, spent>>

-----------------------------------------------------------------------------
(* Cooperative claims.                                                     *)

\* getCooperativeDetails: the entry gets a transaction and a nonce.
GetCooperativeDetails(s) ==
    /\ MapLockFree
    /\ s \in queue
    /\ coop' = coop \cup { s }
    /\ UNCHANGED <<claimStatus, deferring, queue, lock, batch, chunk, recorded, spent>>

\* broadcastCooperative takes both locks once it found the entry.
BroadcastCooperative(s) ==
    /\ lock = "free"
    /\ s \in queue \cap coop
    /\ lock' = "coop"
    /\ chunk' = { s }
    /\ UNCHANGED <<claimStatus, deferring, queue, coop, batch, recorded, spent>>

\* The signature is valid and the transaction is accepted: the entry is removed.
CooperativeSent ==
    /\ lock = "coop"
    /\ chunk \cap spent = {}
    /\ spent' = spent \cup chunk
    /\ queue' = queue \ chunk
    /\ lock' = "signed"
    /\ UNCHANGED <<claimStatus, deferring, coop, batch, chunk, recorded>>

\* An invalid signature, or a broadcast that throws: the entry stays.
CooperativeRefused ==
    /\ lock = "coop"
    /\ \/ UNCHANGED spent
       \/ /\ chunk \cap spent = {} /\ "answer" \in ClaimFaults
          /\ spent' = spent \cup chunk
    /\ lock' = "free"
    /\ chunk' = {}
    /\ UNCHANGED <<claimStatus, deferring, queue, coop, batch, recorded>>

\* setMinerFee writes the claim, or throws after the entry was removed.
CooperativeRecorded ==
    /\ lock = "signed"
    /\ \/ claimStatus' = [s \in Swaps |-> IF s \in chunk THEN "TransactionClaimed"
                                                    ELSE claimStatus[s]]
       \/ "database" \in ClaimFaults /\ UNCHANGED claimStatus
    /\ lock' = "free"
    /\ chunk' = {}
    /\ UNCHANGED <<deferring, queue, coop, batch, recorded, spent>>

-----------------------------------------------------------------------------

\* A crash loses everything in memory; batchClaimLeftovers loads the swaps that
\* are pending in the database.  That it can is assumed: init only logs an error of
\* it, and the swaps then wait for another restart.
ClaimRestart ==
    /\ "crash" \in ClaimFaults
    /\ queue' = Pending
    /\ deferring' = {} /\ coop' = {}
    /\ lock' = "free"
    /\ batch' = {} /\ chunk' = {} /\ recorded' = {}
    /\ UNCHANGED <<claimStatus, spent>>

ClaimNext ==
    \/ \E s \in Swaps :
         \/ DeferClaim(s) \/ StoreDeferred(s) \/ SetMinerFee(s)
         \/ GetCooperativeDetails(s) \/ BroadcastCooperative(s)
    \/ \E c \in SUBSET batch : BroadcastClaim(c) \/ BroadcastClaimFails(c)
    \/ SweepSymbol \/ SetMinerFeeFails \/ SweepDone
    \/ CooperativeSent \/ CooperativeRefused \/ CooperativeRecorded
    \/ ClaimRestart

ClaimSpec == ClaimInit /\ [][ClaimNext]_claimVars

\* The interval keeps sweeping, calls that were started return, and a claim that
\* is broadcast again and again is accepted in the end if it can be.
ClaimFairness ==
    /\ \A s \in Swaps :
         /\ SF_claimVars(StoreDeferred(s))
         /\ SF_claimVars(\E c \in SUBSET batch : s \in c /\ BroadcastClaim(c))
    /\ SF_claimVars(SweepSymbol)
    /\ WF_claimVars(\/ \E s \in Swaps : SetMinerFee(s)
                    \/ \E c \in SUBSET batch : \/ BroadcastClaim(c)
                                               \/ BroadcastClaimFails(c)
                    \/ SweepDone)
    /\ WF_claimVars(CooperativeSent \/ CooperativeRefused \/ CooperativeRecorded)

FairClaimSpec == ClaimSpec /\ ClaimFairness

-----------------------------------------------------------------------------
(* Properties.                                                             *)

\* A swap that is pending in the database and not claimed on chain is always in
\* the hands of exactly one step: being deferred, in the map or in the batch.
\* Failing broadcasts, failing writes and restarts that load the swaps never drop it.
PendingClaimIsKept ==
    \A s \in Pending \ spent : s \in deferring \cup queue \cup batch

\* Nothing that waits for a claim was claimed before: cooperative claims and
\* batches never spend the same lockup, as long as writes succeed and broadcasts tell
\* the truth.
WaitingClaimIsUnspent == (deferring \cup queue \cup batch) \cap spent = {}

\* A swap is recorded as claimed only after its transaction was accepted.
ClaimedIsSpent ==
    \A s \in Swaps : claimStatus[s] = "TransactionClaimed" => s \in spent

\* Every deferred claim is made: whatever fails in between, the lockup of a
\* pending swap is spent in the end.
DeferredClaimIsMade ==
    \A s \in Swaps : (claimStatus[s] = "TransactionClaimPending") ~> (s \in spent)

\* The same for behaviours with failing writes, wrong answers and restarts, if from
\* some point on no swap that is claimed already waits for a batch.
ClaimIsMadeWithoutLeftovers == <>[]WaitingClaimIsUnspent => DeferredClaimIsMade

=============================================================================
