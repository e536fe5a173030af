# TLA+ models of boltz-backend

The backend swaps coins between Lightning and chains.  Two processes do it: the
TypeScript backend, which owns the swaps, and the Rust sidecar (`boltzr`, with the
crates `boltz-core`, `boltz-evm`, `boltz-cache`, `boltz-backup` and the command line
client `boltzr-cli`), which watches chains, talks to clients and builds
transactions.  A swap is a database row whose status is moved by event handlers;
money moves through lightning nodes, wallets and chain transactions, none of which
is transactional with the row.  What is hard here is not one handler but their
order: handlers queue on locks, nurseries read rows outside of these locks, trackers
and retries report late, broadcast channels overrun slow receivers, caches expire
between two calls, and either process can stop between moving money and recording
it.  The models keep that control flow and abstract the data (amounts, scripts,
signatures, messages) to what the properties tell apart.

`PROJECT.json` lists every part with its status, maps every definition to the lines
it models, and lists the hazards of the code with the line at which each bites.  The
map covers about a third of all lines of the Rust crates and about half of those
that are not tests; the TypeScript lines it names (`InvoicePayment`,
`SubmarineSwap`, `ReverseSwap`, `DeferredClaimer` and the backend's side of the
streams) come on top.

## Modules

### Swaps, in the backend

| Module | Models | Notes |
|---|---|---|
| `SwapEvents` | `lib/consts/Enums.ts` | states and groups of states |
| `SinglePayment` | - | abstract promise of a payment: one attempt at a time, none after a success or an abandoned swap |
| `InvoicePayment` | `PaymentHandler`, `PendingPaymentTracker`, LND and CLN trackers | `pc` is the await at which the one activation of `payInvoice` stands; rows, node state (`htlc`) and observers (`tracker`) per node |
| `SubmarineSwap` | the whole submarine swap on a UTXO chain | extends `InvoicePayment`; begins with the pure decisions of `LockupIdentity.ts` and `CompetingLockup.ts` on which output owns a swap; `queue` holds events that wait for `swapLock`, `scan*` is the nursery's local state, `set*` that of `setSwapInvoice`, `refundPc` that of `signRefund` |
| `ReverseSwap` | the whole reverse swap on a UTXO chain | `queue` and `pc` are `reverseSwapLock`; `htlcs`, `claims` are reports not yet handled; `hold`, `fee` are the invoices on the node; `Worlds` are the combinations of prepayment and faults |
| `DeferredClaimer` | `DeferredClaimer.ts` for one currency | `lock` is the batch lock and the step of its holder |
| `SubmarineSwapProofs`, `ReverseSwapProofs`, `DeferredWorkProofs` | - | theorems; the first also has those about `InvoicePayment`, the last those about `DeferredClaimer`, `WebhookCaller` and `RefundBumper` |

### Scripts, transactions and signatures

| Module | Models | Notes |
|---|---|---|
| `SwapScripts` | `boltz-core` scripts and leaves of Bitcoin and Liquid | instructions, and the interpreter of a node; the state is a witness that grows |
| `TxBuilder` | `bitcoin/tx.rs`, `elements/tx.rs`, `target_fee.rs`, `preimage_detector.rs` | two passes for the fee, sorting, lock time, blinding factors in a small field |
| `MusigSession` | `boltz-core/src/musig.rs` | builders consumed step by step by several parties; signatures are symbolic |
| `AssetRescue` | `swap/asset_rescue.rs` and its use of the cache | `create` and `broadcast` of many clients interleave at every await |

### Sidecar: chains and swaps

| Module | Models | Notes |
|---|---|---|
| `ChainScanner` | ZMQ client, chain client, UTXO nursery, chain tips, rescans | sockets, forwarders and the nursery are tasks with bounded channels |
| `SwapManager` | `swap/manager.rs`, `filters.rs`, `tx_check.rs`, `timeout_delta.rs` | what is found for which row, live and by a rescan; batch claims; timeouts |
| `SwapExpiration` | expiry checkers, MRH watcher, stream of updates, the backend's writes they race with | |
| `RefundBumper` | bumper, `RefundWatcher`, the refund row | the row is all the three share |
| `FeeEstimator` | `mempool_client.rs`, `estimate_fee` | ages in ticks, median at the best height |
| `ZeroConfCheck` | the trait of `chain/elements/mod.rs` | abstract: each check is answered once, "safe" only when seen everywhere |
| `HttpZeroConf`, `WsZeroConf` | the two transports of the 0-conf tool | refine `ZeroConfCheck`; proofs in `SubscriptionProofs` |
| `NodeRpc` | RPC clients of the nodes | tasks, endpoints, the shared cache of raw transactions, `calculate_fee` |
| `EvmSwaps` | `boltz-evm`, EVM commands of `boltzr-cli` | contracts are external; a hash is the record that is hashed |
| `DexQuoter` | Uniswap V3 quoter and router encoding | pools come from a cache; what the calls do is compared with the quote |

### Sidecar: clients and operators

| Module | Models | Notes |
|---|---|---|
| `StatusStream` | status subscriptions, server-sent events, status fetcher, `SwapInfos.ts` | how an update finds its listeners |
| `SubscriptionProofs` | - | theorems about `StatusStream`, `Bolt12Offers` and the 0-conf tools |
| `WsSession` | the task of a WebSocket connection | message limit, replies, inactivity, clean up |
| `Bolt12Offers` | offer subscriptions, invoice fetcher, onion messages | WebSocket first, then the web hook |
| `OfferApi` | `api/bolt12.rs`, `hold.rs`, invoice decoding | one step per query of the offers table |
| `WebhookCaller` | callers of status and invoice hooks, their retries | |
| `SwapRescue`, `RescueDetails` | `service/rescue.rs` | which keys are looked up; what a client is told |
| `LightningGraph`, `StatsService` | `service/lightning_info`, statistics, country codes | caches filled by tasks, read by endpoints |
| `HttpApi`, `GrpcApi` | routes, middlewares and error paths; log levels, rescans, block streams | |
| `Notifications` | the Mattermost client | messages split into posts |
| `CommandLine` | `boltzr-cli` | offline tools, and operators at terminals |
| `SharedCache`, `ChannelBackup` | `boltz-cache`, `boltz-backup` | expiry without atomicity; uploads, retries and dumps to several providers |
| `SidecarSetup`, `SidecarProcess` | config to clients, certificates of the gRPC server; `main.rs` | starts interrupted between two writes; how tasks start, are cancelled and are waited for |

### How to read them

An action is the code between two awaits that another part can observe.  Writes of
the backend through Sequelize instances change the status without testing it, so a
handler's write is unconditional unless the handler itself looked.
`SubmarineSwap.SweepClaim` is the atomic view of what `DeferredClaimer` does in
steps.  Where a part calls another one that has a module, the call is a choice among
the answers that module allows (`HttpApi` and the handlers, `SidecarProcess` and
`SidecarSetup`, `SwapRescue` and `RescueDetails`).  Every module prefixes the names of
its state (`bk`, `mg`, `ws`, ...), so that several can be extended side by side.
Operators after a comment that begins with "Mutant" or "A mutant" are deliberate
bugs; no specification uses them.

`MCComponents`, `MCLiveness` and `MCServices` hold one instance of each of many
modules.  The variable `part` is chosen initially and says which of them runs; the
others keep their initial state.  A run is thus the union of the state spaces, not
their product, and a property names the part it is about.  The parts are composed
only where the code composes them through shared state: submarine swap with
payment and lockup identity, refund with bumper and watcher, expiry with the
backend's writes, status stream with the backend's cache.

Simplifications of the environment: the database does not fail in the models of the
backend, except in `DeferredClaimer`; a lightning node does not cancel an accepted
HTLC by itself (the invoice's CLTV lies behind the timeout of the swap) and takes
none for an expired invoice; a mempool claim is not replaced by our refund;
`sendToAddress` and its record lie within one block; the timeout of
`handleAcceptedInvoice` does not let two activations overlap; lost reports are those
a crash loses.  Chains do not reorganise, except that announcements of blocks in
`GrpcApi` may be of a reorganisation.  In `ChainScanner` a subscribed backend hears
what the nursery announces, so the channel of `transaction_found` does not lag.
`StatusStream` leaves `TransactionDirect` out, an update that skips the cache and is no
status of a row.  `SwapManager` divides block times exactly where the code divides
doubles, and has only pairs with which `TimeoutDeltaProvider::new` does not fail.  Redis runs a command atomically.  Prices of a
decentralised exchange do not move between a quote and its use.

## Runs

| Run | Question | Instance |
|---|---|---|
| `submarine_safety` | Is only the accepted lockup paid for, never after a refund, and kept? | two outputs, the second refused by the hook, 0-conf, deferred claims, crashes and timeouts; nodes answer, signer enabled, payments approved |
| `submarine_late_invoice` | Does a late invoice leave a confirmed lockup waiting? | one output of any amount, not refused by the hook, no 0-conf; connections to the node drop |
| `underpaid_lockup_paid` | violation, see findings | one output, too low |
| `reverse_swaps` | Are coins sent once and only against a held HTLC; do claims settle and refunds release the payer? | with and without prepaid miner fee, one failing node call, crashes; the liveness in the behaviours without crashes and failures |
| `settled_swap_refunded` | violation, see findings | no faults |
| `deferred_claims` | Are claims dropped or never made? | three swaps, chunks of two, every fault, also broadcasts that succeed and answer with an error |
| `claimed_entry_blocks_batch` | violation, see findings | two swaps, failing writes |
| `dropped_connection_recorded_failed` | violation, see findings | two LND, every fault |
| `components_safety` | Do the parts around a swap keep what they were given and decide only on what is true? | `MCComponents`, 14 parts |
| `components_liveness` | Do hooks, statuses, offers, checks, expiries, refunds, payments and the shutdown come to an end? | `MCLiveness`, 10 parts |
| `downtime_rescanned` | violation, see findings | `MCComponents`, the scanner only |
| `services_safety` | Is stored data kept, are swaps found, and is what is answered what was asked? | `MCServices`, 20 parts |

What the properties of the two large runs say, by part:

- web hooks: `UndeliveredIsKept`, `FailedHookIsResolved`; status stream:
  `ListenerLearnsStatus`; status stream, offers and 0-conf over WebSocket:
  `SubscriptionsAreConsistent`; offers: `ResolvedIsAnswered`; 0-conf tools: `HttpIsZeroConfCheck`, `WsIsZeroConfCheck`
  (refinements, with the fairness of the abstract specification);
- fees: `FeesAreServed`, `EstimateIsFresh`; scanner: `ConfirmedIsKept`,
  `ConfirmedIsAnnounced`; expiry: `DecisionStands`, `ExpiredIsFailed`; refunds:
  `RefundRowIsTrue`, `RefundIsNoticed`; rescues: `RescueIsExclusive`, `ScanIsExact`;
- scripts and transactions: `ScriptIsHtlc` (no witness passes a script unless an HTLC
  would pay), `SpendIsSound`; payment: `LivePaymentIsRecorded`, `OutcomeIsFinal`,
  `PaidOnlyOnce` (refinement of `SinglePayment`), `SuccessIsSettled`;
- `StoredDataIsKept`: backups are stored or retried and a dump reported as stored is
  whole; a cached value is taken once and there until it expires; a registered offer
  stays until its signer deletes it and only its signer changes it; the certificates of
  the gRPC server fit together wherever an earlier start was interrupted, and keys are
  written only to private files;
- `SwapsAreFound`: transactions a swap waits for pass the filters and are given to it,
  batches spend their own lockups, an invoice outlives the lockup; a refund signature
  fits its contract and a scan finds what is locked; rescue details rebuild the
  lockup; the tools find the output they have to spend;
- `AnswersAreOfTheRequest`: quotes deliver, only announced channels are served,
  statistics are of the request, messages are shown whole, node answers are of their
  chain, nonces sign once and aggregates verify, commands are confirmed, WebSocket
  tables and replies agree, bodies reach the handlers and errors the clients,
  block streams have no gap, the process has the clients and layers of its config,
  and it exits with every task over (`ExitIsClean`); `ShutdownCompletes` is the
  liveness of the same process.

Each of these conjunctions is a conjunction of named definitions at the end of the
module of the part, with a comment each.  `PROJECT.json` has a mutant of the code for
every property of every passing run, and for the three properties of
`services_safety` one for nearly every part.

Bounds.  Two nodes are enough for one attempt to race another, a third of the other
kind mixes the two tracker protocols.  Two outputs give every competition between an
owner and another; a third only repeats it.  `MaxQueue` is 2 for submarine swaps, so
that an event waits behind another that changes the row, and 3 for reverse swaps,
where refund, confirmation and a second expiry follow each other.  `MaxPaid` 2 lets
two reports share one approval, one failure lets any single call fail, and three
swaps with chunks of two give a full and a partial chunk.  In the hosts: channels have
capacity 1 or 2, so that one message more overruns them; one swap with three statuses
lets a late answer meet a newer one; three concurrent checks of two transactions let one
join an entry that is being decided; faults are counted by `Max...Faults` and are 1,
so that each single fault meets each step; two connections, tasks, terminals or
providers give every race between a pair; clocks run one step beyond the longest
timeout they are compared with; key indexes, preimage sizes, message lengths,
durations, bodies and channel id fields are scaled so that values lie on both sides
of every limit.  The liveness run has one connection for offers: a fetch stays with the
connection it looked up, and the races of two are in the safety run.  Requests of services are sets of records with one member per branch
of the code.  Runs disable the deadlock check because a swap, a request or a process
that reached its end stops.

Fairness.  Locks are first come, first served, and a started handler goes on: weak
fairness of the holder's steps, strong fairness of handlers that compete.  Intervals
repeat for ever (`Retry`, `SweepSymbol`, the retry loops and checkers of the
sidecar).  Tasks of the sidecar run: weak fairness of each.  Reports of the sidecar
and of `RefundWatcher` are strongly fair since only the model's bounded queue refuses
them for a while.  A claim that is broadcast again and again is accepted in the end if
its outputs are unspent.  In `WsZeroConf` a server does not send frames without a
pause.  Nothing makes payers, clients, peers, blocks, hooks or crashes act: clients of
`SidecarProcess` need not leave and Mattermost need not come back, and
`ShutdownCompletes` says so.

Conditions in the properties.  `ClaimIsSettled` excludes `SwapExpired`, which
`expireReverseSwap` can write for an event from before the lockup was recorded.
`RefundReleasesPayer` excuses a refund row whose id was replaced:
`server.lockup.confirmed` can overwrite `TransactionRefunded`, and the next block then
refunds again.  `LockedUpOnce` is checked without the fault "crash after send" and
fails with it.  `RefundExcludesPayment` holds with crashes and, on a single node,
timeouts.  It fails with timeouts on two nodes, since the timeout counts failures of the
other node and leaves no permanent one, and with three faults that its run leaves out:
under `nodeDown` a node that cannot answer does not object to the refund, and under
`signerDisabled` or `approvalReject` a second queued `swap.lockup` event pays an
abandoned swap while `signRefund` is between its checks and its signature.
`SuccessIsSettled` is checked for LND only and fails for a late success of CLN.
`ConfirmedLockupIsHandled` is checked without lockups that the transaction hook refuses
and fails with them.  It excepts an overpaid lockup that the nursery recorded as
confirmed before the invoice was set: `setSwapInvoice` settles directly only when the
amounts are equal (`SwapManager.ts:748`; the comment above it names no such condition),
so nobody acts on the swap until the transaction is reported again.
`PendingClaimIsKept` takes for granted that a restart can load the pending claims;
`init` of `DeferredClaimer` only logs when it cannot.  `ShutdownCompletes` excepts a main
that waits for a server whose client keeps its stream open, or for the listener of
Mattermost while it connects: neither looks at the token meanwhile.

In the services: a lockup whose 0-conf was refused still has to confirm, and the filters
of a rescan keep it for submarine swaps only (`swap/filters.rs`); `AwaitsLockup` of
`SwapManager` therefore does not claim that a chain swap in
`transaction.zeroconf.rejected` is found after a downtime.  `BackupIsRetried` names three
ways of giving a backup up: the first one after the start is not retried, an older one may
overtake a newer one, and when the first dump of the database fails `start` returns
before it spawns the retry loop, so that nothing is retried at all.  `SilenceIsNoticed`
is about a task in its loop: a WebSocket client that does not read holds its task in a
send, where it looks neither at its timers nor at the token.  `LastSetIsKept` excuses a reader of the cache in memory that
gave up the lock of an expired entry and removes the new one.  `LevelIsOfTheCall` is
about calls of `set_log_level` that meet no other one.  `BlocksHaveNoGap` allows the
stream of a chain to stop at a lag, which the backend is not told.  `MessageIsShown` allows a code block within a
text to exceed the limit by its frame.  The index of a rescue is cached under a key
that does not name the derivation path, so the requests of `SwapRescue` use one path
for it; the hazard list has the line.

## Findings

- `dropped_connection_recorded_failed`: an LND connection that breaks within the race
  records a payment in flight as failed, so a retry may pay elsewhere.
- `underpaid_lockup_paid`: a lockup recorded between the read and the write of
  `setSwapInvoice` is compared with the expected amount by neither side.
- `claimed_entry_blocks_batch`: a write that fails after a batch was sent puts claimed
  swaps back, and every later batch with them fails.
- `settled_swap_refunded`: an expiry event that waits behind a cooperative claim
  refunds a lockup whose invoice was settled, and leaves `InvoiceSettled`.
- `downtime_rescanned`: the rescan reads the recorded height when the backend asks for
  it; a block that arrived since the sidecar started has moved it past the blocks of
  the downtime.

## Proofs

A theorem holds for every value of the constants that its module allows, and so for
any number of nodes, swaps, outputs, calls, hooks or faults.  The table has the ones
that state a property some run checks; the bounds of the runs (`MaxQueue`, `MaxPaid`,
`Max...Faults`) are constants like the others.  Two further theorems, `HttpImplementsCheck`
and `WsImplementsCheck`, are the safety half of `HttpIsZeroConfCheck` and
`WsIsZeroConfCheck`.

| Property | Theorem | Assumes |
|---|---|---|
| `LivePaymentIsRecorded`, `OutcomeIsFinal`, `PaidOnlyOnce` | `LivePaymentsAreRecorded`, `OutcomesAreFinal`, `PaymentRefinesSinglePayment` | no fault `earlyDrop` |
| `PendingClaimIsQueued` | `PendingClaimsAreQueued` | - |
| `PaidForAcceptedLockup`, `PaidLockupIsKept` | `PaysForAcceptedLockups`, `PaidLockupsAreKept` | `LateInvoice = FALSE` |
| `RefundExcludesPayment` | `RefundsExcludePayments` | `LateInvoice = FALSE`, `FailuresAreRecorded` |
| `LockedUpOnce`, `LockupIsBacked` | `CoinsAreSentOnce`, `LockupsAreBacked` | `SentIsNeverForgotten` |
| `PendingClaimIsKept` | `NoPendingClaimIsDropped` | - |
| `RefundRowIsTrue` | `RefundRowsAreTrue` | - |
| `RescueIsExclusive` | `RescuesAreExclusive` | - |
| `DecisionStands` | `DecisionsStand` | - |
| `UndeliveredIsKept` | `UndeliveredStatusesAreKept` | - |
| `SubscriptionsAreConsistent` | `SubscriptionsConsistent` | - |
| `FeesAreServed`, `EstimateIsFresh` | `FeesServed`, `EstimateFresh` | - |
| `ConfirmedIsKept` | `ConfirmedKept` | - |

The passing runs make the same assumptions, and without each of them the model checker
finds a counterexample: `earlyDrop` and a late invoice are findings,
`SentIsNeverForgotten` leaves out the fault "crash after send", and
`FailuresAreRecorded` leaves out what is named above under `RefundExcludesPayment`.

`SubmarineSwapProofs` begins with the payment.  Besides the above: type correctness, `AtMostOneLivePayment`,
`AbandonedWithoutPayment` and `PaidMeansPreimage`.  `AtMostOneLivePayment` is not
inductive: a second attempt is stopped by rows, which `payInvoice` read some awaits ago.
`IInv` adds that a live payment has an open row (`Pending` or `Success`), at most one row
is open (`OneOpenRow`), the rows that were read differ from the current ones only where
they said `Pending` (`SnapshotIsRecent`), the sender owns its row until the node answers
(`SenderOwnsRow`), trackers only watch pending rows, and a verdict about to be written
is already true (`VerdictIsFounded`).  `PayInv`, its part without the caller, is kept by
every step of the payment whoever calls it, and the proofs about the swap use it again.
In these, pending claims rest on the payment settling only with a
preimage.  For the lockup, `OwnerInv` says what makes reads outside of `swapLock` safe:
the nursery handles one transaction at a time, so the owner it read is the owner when it
writes (`ScanOwnsLockup`); a refused owner is never in `TransactionZeroConfRejected`, the
one state in which another output may take over (`RefusedStaysOwner`); and a swap that
was handed to `payInvoice` has an accepted lockup and a status in which it cannot be
replaced (`EngagedIsAccepted`).  For refunds, which `signRefund` signs without a lock,
`RefundInv` and `NoLateSend` say that a failed swap is closed for good: by its timeout,
by a refused owner, or by a permanent failure in a row that `payInvoice` reads before it
sends.  The queue of events is treated as a set, by the lemmas on `Heard`.

`ReverseSwapProofs`.  Coins are sent once because a swap whose coins were sent is not
eligible, except for the holder of the lock that has not recorded it yet
(`SentIsRecorded`), and because the write of `MinerFeePaid`, which takes no lock, comes
before anything is paid (`FeeComesFirst`).  That a lockup is backed needs the other
direction: what events say of the chain is true (`ChainIsKnown`), what was paid has an
HTLC (`PaidIsAccepted`), and a cancelled invoice can get no lockup any more
(`CancelledIsNotLocked`).

`DeferredWorkProofs`.  Of `DeferredClaimer`, for any finite set of swaps, any chunk size
and all faults: type correctness, `PendingClaimIsKept` and `ClaimedIsSpent`, with
`SweepLocals` (what the sweep's locals hold at each step) as the strengthening; and,
without failing writes, crashes and wrong answers, `WaitingClaimIsUnspent`, for which `UnspentInv` says
that a swap is in one place at a time.  Of `RefundBumper`: between the upsert and the
broadcast the row has the newest refund and none is out there (`StoredIsNewest`), and the
bumper replaces only what is out there (`BumpsLiveRefund`).  Of `WebhookCaller`: a call
carries a status the swap had, and one that was posted reached its endpoint
(`CallsAreForStatuses`).

`SubscriptionProofs`.  Three maps by which something is sent agree with those who asked.
A connection whose loop has ended has no subscriptions, and the index has exactly the
others (`StIndexed`).  An offer's owner is its last subscriber while that one is
connected (`OfOwned`): a fetch that finds the connection it looked up closed compares the
owner before it removes it, which is the step this rests on.  For the 0-conf WebSocket the
property speaks of one state of the worker, and `ZwListens` says what is pending in each of
the others: while it reconciles, unsubscribes or hands over to a replacement connection, a
waiting transaction is subscribed, among the work left, or a command in the queue.  Both
transports implement `ZeroConfCheck` step by step, with the transactions all bridges
have seen as `quorum`; the invariant is that the senders of an entry are calls for its
transaction that wait (`ZhWaiting`, `ZwWaiting`), so that no call is answered twice.

`FeeEstimator`.  `FeesAreServed` is inductive together with the types.  The floor, "Minimum
fee rate" in `chain/mod.rs`, may be any: an estimate is rounded to one decimal after it was
compared with the floor, so what it is not below is the rounded floor
(`RoundingIsMonotone`); the run has a floor that is rounded down.  That the median
is between two rates that count needs no induction, since `Ranked(k)` names the k-th rate by
counting the ones below it and up to it, where the code sorts (`MedianIsBetween`); that
there is a k-th rate is left to the run.

`ChainScanner`.  `ConfirmedIsKept` needs that no height that is recorded, on its way to be
recorded or aimed at is above the node's (`HeightsAreReached`), and that a rescan is due
whenever the sidecar is down (`RescanIsDue`).  Then a transaction that leaves a queue, a
rescan or a batch was announced or is recorded as lost by the same step.

`AssetRescue` and `SwapExpiration` have one theorem each, at their end.  In the first a
nonce that was not used is in one place (`NoncesAreFresh`), and an output has one owner
among calls and pending rescues, reserved for as long as its reservation did not lapse
(`OneOwner`, `FoundIsFree`).  `find_funding_utxo` filters a listing under a mutex that
`broadcast` does not take, so an output may be spent and released in between; `arStale` has
these, and the theorem claims of them everything but that they are unspent.  In the second a row that is being paid is in none of the
states a checker fails (`PayingIsRecorded`).

The invariants were model-checked before they were proved.

Only model-checked, because the prover cannot do them: all liveness properties, with the
liveness half of `HttpIsZeroConfCheck` and `WsIsZeroConfCheck`; and `ScanIsExact`,
`ScriptIsHtlc`, `SpendIsSound` and most of what `SwapsAreFound` and
`AnswersAreOfTheRequest` say, which are about what folds and recursive functions compute
over sequences, that is, induction over data.  Not proved although it may be in reach:
`StoredDataIsKept` of `services_safety`, and `PartsTypeOK` and `ServicesTypeOK`, the type
invariants of all parts of a run at once, of which the proofs state what they need.

## Not modelled

- Chain swaps, the renegotiation of their amounts, EVM and Ark swaps of the backend,
  and self payments.  They order state changes as submarine and reverse swaps do, on
  rows with two sides; the sidecar's half of them (matching, filters, claims,
  contracts, rescue details) is modelled.
- Creation of swaps and amount arithmetic, node selection, rates, and wallets of the
  backend: they choose values of one request and do not order state changes.
- HTTP and gRPC of the backend: request handling without state of its own.
- Resolution of web hook hosts and the block list of addresses: reduced to accepted or
  refused.
- Database schema, metrics, trace export, wire formats, serialisation, cryptography and
  the layout of output: generated code, pure I/O, or data that no property tells
  apart.
- Reorganisations of chains in the scanner: the code has no handling of its own for
  them.
- Rust tests, which are a large part of the lines of the crates.
