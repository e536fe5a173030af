------------------------------ MODULE EvmSwaps ------------------------------
(***************************************************************************)
(* The swaps of the EVM chains, as boltz-evm and the evm commands of       *)
(* boltzr-cli handle them: the refund signers the sidecar loads for the    *)
(* configured contracts, the cooperative refunds it signs over gRPC, the   *)
(* lock, claim and refund commands, and the scan for funds still locked.   *)
(*                                                                         *)
(* EtherSwap and ERC20Swap are contracts on the chain and external: they   *)
(* keep the set of swap hashes with funds, and check who calls.  A hash is *)
(* the record that is hashed; a signature is its signer and its digest.    *)
(* Every transaction is mined in a block of its own.                       *)
(***************************************************************************)
EXTENDS Integers, Sequences, FiniteSetsExt

CONSTANTS
    EvDeployed,     \* address -> [type, version] of the contracts on the chain
    EvConfigs,      \* the configurations: [providers, contracts]
    EvKeys,         \* the addresses of those who use the command line
    EvServer,       \* the address of the sidecar's key
    EvOrders,       \* what is locked: [key, at, hash, sats, token, claim, timelock]
    EvDecimals,     \* token -> decimals, "ether" included
    EvAsks,         \* the refund requests over gRPC
    EvScans,        \* the scans: [at, start]
    ScanInterval,   \* blocks a scan reads at a time
    MaxLockups,     \* bound on the lockups
    MaxHeight       \* bound on the blocks mined to let a timelock pass

VARIABLES
    evConfig,   \* the configuration the sidecar starts with
    evSigners,  \* version -> [ether, erc20] of the refund signers
    evUp,       \* the EVM manager could be created
    evHeight,   \* the latest block
    evLogs,     \* the Lockup events, in the order of the chain
    evActive,   \* the lockups the contracts hold funds for
    evAllowed,  \* key -> what it approved the contracts to take of its tokens
    evAnswer,   \* the last signature handed out, with its request
    evScan,     \* the scan that runs
    evGone      \* history: lockups spent since the scan began

evVars == << evConfig, evSigners, evUp, evHeight, evLogs, evActive, evAllowed,
             evAnswer, evScan, evGone >>

MinContractVersion == 3
MaxContractVersion == 6
Ether == "ether"
NoScan == [ phase |-> "idle", at |-> "none", start |-> 0, from |-> 0, to |-> 0,
            latest |-> 0, held |-> {}, logs |-> {}, found |-> {}, total |-> << >> ]

EvInit ==
    /\ evConfig \in EvConfigs
    /\ evSigners = << >> /\ evUp = FALSE /\ evHeight = 0
    /\ evLogs = << >> /\ evActive = {} /\ evAnswer = {}
    /\ evAllowed = [ k \in EvKeys |-> 0 ]
    /\ evScan = NoScan /\ evGone = {}

-----------------------------------------------------------------------------
(* The refund signers.                                                      *)

\* The contract's own copy of the domain of its signatures.
Eip712Domain(a) ==
    [ name |-> EvDeployed[a].type, version |-> EvDeployed[a].version, address |-> a ]

\* EtherSwapContract::new
EtherSwapNew(a) == a \in DOMAIN EvDeployed /\ EvDeployed[a].version
                        \in MinContractVersion .. MaxContractVersion

\* ERC20SwapContract::new
Erc20SwapNew(a) == a \in DOMAIN EvDeployed /\ EvDeployed[a].version
                        \in MinContractVersion .. MaxContractVersion

\* LocalRefundSigner::new: both contracts, of one supported version.
LocalRefundSignerNew(c) ==
    /\ EtherSwapNew(c.ether) /\ Erc20SwapNew(c.erc20)
    /\ EvDeployed[c.ether].version = EvDeployed[c.erc20].version

SignerVersion(c) == EvDeployed[c.ether].version

\* new_provider: every configured endpoint has to be usable, and one has to be there.
NewProvider(c) == c.providers # {} /\ c.providers \subseteq { "ws", "http" }

\* The signers by version.  A later entry of the configuration replaces an
\* earlier one of the same version.
RefundSigners(contracts) ==
    [ v \in { SignerVersion(contracts[i]) : i \in DOMAIN contracts } |->
        contracts[Max({ i \in DOMAIN contracts : SignerVersion(contracts[i]) = v })] ]

\* Mutant: the addresses of all the configured contracts.
AddressVersionsConfigured ==
    { << a, v >> \in (DOMAIN EvDeployed) \X (DOMAIN evSigners) :
        \E i \in DOMAIN evConfig.contracts :
            /\ a \in { evConfig.contracts[i].ether, evConfig.contracts[i].erc20 }
            /\ SignerVersion(evConfig.contracts[i]) = v }

\* address_versions, the addresses of the signers that were kept.
AddressVersions ==
    { << a, v >> \in (DOMAIN EvDeployed) \X (DOMAIN evSigners) :
        a \in { evSigners[v].ether, evSigners[v].erc20 } }

\* Manager::new
ManagerNew ==
    /\ ~evUp
    /\ NewProvider(evConfig)
    /\ \A i \in DOMAIN evConfig.contracts : LocalRefundSignerNew(evConfig.contracts[i])
    /\ evSigners' = RefundSigners(evConfig.contracts)
    /\ evUp' = TRUE
    /\ UNCHANGED << evConfig, evHeight, evLogs, evActive, evAllowed, evAnswer, evScan, evGone >>

\* The typed data of a refund: the last field has another name since version 5.
RefundHash(version, domain, values) ==
    [ domain |-> domain, values |-> values,
      field |-> IF version <= 4 THEN "timeout" ELSE "timelock" ]

\* The typed data of a commitment, which names the refund address.
CommitHash(domain, values, refundAddress) ==
    [ domain |-> domain, values |-> values, field |-> refundAddress ]

SwapValues(hash, amount, token, claim, timelock) ==
    [ hash |-> hash, amount |-> amount, token |-> token, claim |-> claim,
      timelock |-> timelock ]

\* LocalRefundSigner::sign: the token says which of the two contracts it is for, the
\* claim address is the signer's own.
LocalRefundSign(version, ask) ==
    LET c == evSigners[version]
        a == IF ask.token = Ether THEN c.ether ELSE c.erc20
    IN  [ by |-> EvServer,
          digest |-> RefundHash(version, Eip712Domain(a),
                        SwapValues(ask.hash, ask.amount, ask.token, EvServer, ask.timeout)) ]

\* parse_wei: what it accepts.
ParseWei(amount) == amount >= 0

\* version_for_address, and the version of a request as an u8.
ContractVersions(contract) ==
    IF contract.by = "address"
    THEN { v \in DOMAIN evSigners : << contract.address, v >> \in AddressVersions }
    ELSE { contract.version % 256 }

Signs(ask, signature) ==
    /\ evAnswer' = { [ ask |-> ask, signature |-> signature ] }
    /\ UNCHANGED << evConfig, evSigners, evUp, evHeight, evLogs, evActive, evAllowed, evScan, evGone >>

\* sign_evm_refund; a request that cannot be parsed or has no signer is an error.
SignEvmRefund(ask) ==
    /\ evUp
    /\ ask.hash # "malformed" /\ ParseWei(ask.amount)
    /\ \E v \in ContractVersions(ask.contract) \cap DOMAIN evSigners :
        Signs(ask, LocalRefundSign(v, ask))

-----------------------------------------------------------------------------
(* The contracts and the commands.                                          *)

Pow10(n) == 10 ^ n

\* amount_to_token_units; Amount has eight decimals.  No value if the token has
\* too few decimals for it.
AmountToTokenUnits(sats, decimals) ==
    CASE decimals = 8 -> { sats }
      [] decimals > 8 -> { sats * Pow10(decimals - 8) }
      [] decimals < 8 -> IF sats % Pow10(8 - decimals) = 0
                         THEN { sats \div Pow10(8 - decimals) } ELSE {}

\* normalize_to_8_decimals, which rounds up.
NormalizeTo8Decimals(amount, decimals) ==
    CASE decimals = 8 -> amount
      [] decimals > 8 -> (amount + Pow10(decimals - 8) - 1) \div Pow10(decimals - 8)
      [] decimals < 8 -> amount * Pow10(8 - decimals)

Mined == evHeight' = evHeight + 1

\* mine: empty transactions, to let a timelock pass.
MineBlock ==
    /\ evHeight < MaxHeight
    /\ Mined
    /\ UNCHANGED << evConfig, evSigners, evUp, evLogs, evActive, evAllowed, evAnswer, evScan, evGone >>

\* approve
Approve(key, order) ==
    /\ \E amount \in AmountToTokenUnits(order.sats, EvDecimals[order.token]) :
        /\ evAllowed[key] # amount
        /\ evAllowed' = [ evAllowed EXCEPT ![key] = amount ]
    /\ UNCHANGED << evConfig, evSigners, evUp, evHeight, evLogs, evActive, evAnswer, evScan,
                    evGone >>

\* What a contract does with lock: it holds at most one lockup per swap hash.
Locks(key, order, amount) ==
    LET l == [ at |-> order.at, refund |-> key,
               values |-> SwapValues(order.hash, amount, order.token, order.claim,
                                     order.timelock) ]
    IN  /\ Len(evLogs) < MaxLockups /\ amount > 0 /\ l \notin evActive
        /\ evActive' = evActive \cup { l }
        /\ evLogs' = Append(evLogs, [ lockup |-> l, block |-> evHeight + 1,
                                      sats |-> order.sats ])
        /\ Mined
        /\ UNCHANGED << evConfig, evSigners, evUp, evAnswer, evScan, evGone >>

\* The calls of EtherSwapContract and ERC20SwapContract: the first sends the amount
\* with the call, the second has the contract take it.
EtherLockFunds(key, order, amount) ==
    EvDeployed[order.at].type = "EtherSwap" /\ Locks(key, order, amount) /\ UNCHANGED evAllowed

Erc20LockFunds(key, order, amount) ==
    /\ EvDeployed[order.at].type = "ERC20Swap" /\ amount <= evAllowed[key]
    /\ Locks(key, order, amount)
    /\ evAllowed' = [ evAllowed EXCEPT ![key] = @ - amount ]

\* The amounts of the command line as wei.
AmountToWei(sats) == sats * Pow10(EvDecimals[Ether] - 8)

LockEther(order) ==
    order.token = Ether /\ EtherLockFunds(order.key, order, AmountToWei(order.sats))

LockErc20(order) ==
    /\ order.token # Ether
    /\ \E amount \in AmountToTokenUnits(order.sats, EvDecimals[order.token]) :
        Erc20LockFunds(order.key, order, amount)

\* The funds of l leave the contract.
Spend(l) ==
    /\ l \in evActive
    /\ evActive' = evActive \ { l }
    /\ evGone' = IF evScan # NoScan THEN evGone \cup { l } ELSE evGone
    /\ Mined
    /\ UNCHANGED << evConfig, evSigners, evUp, evLogs, evAllowed, evAnswer, evScan >>

LatestOf(hits) == IF hits = {} THEN {} ELSE { evLogs[Max(hits)].lockup }

\* find_lockup of the contracts: the latest event of the hash, and of the token.
EtherFindLockup(at, hash) ==
    LatestOf({ i \in DOMAIN evLogs : /\ evLogs[i].lockup.at = at
                                     /\ evLogs[i].lockup.values.hash = hash })

Erc20FindLockup(at, hash, token) ==
    LatestOf({ i \in DOMAIN evLogs : /\ evLogs[i].lockup.at = at
                                     /\ evLogs[i].lockup.values.hash = hash
                                     /\ evLogs[i].lockup.values.token = token })

\* claim of the contracts takes the caller as the claim address.
EtherClaim(key, l) == Spend([ l EXCEPT !.values.claim = key ])
Erc20Claim(key, l) == Spend([ l EXCEPT !.values.claim = key ])

\* refund of the contracts takes the caller as the refund address, after the timelock.
EtherRefund(key, l) ==
    l.values.timelock <= evHeight + 1 /\ Spend([ l EXCEPT !.refund = key ])
Erc20Refund(key, l) ==
    l.values.timelock <= evHeight + 1 /\ Spend([ l EXCEPT !.refund = key ])

ClaimEther(key, order) ==
    order.token = Ether /\ \E l \in EtherFindLockup(order.at, order.hash) : EtherClaim(key, l)
ClaimErc20(key, order) ==
    /\ order.token # Ether
    /\ \E l \in Erc20FindLockup(order.at, order.hash, order.token) : Erc20Claim(key, l)

RefundEther(key, order) ==
    order.token = Ether /\ \E l \in EtherFindLockup(order.at, order.hash) : EtherRefund(key, l)
RefundErc20(key, order) ==
    /\ order.token # Ether
    /\ \E l \in Erc20FindLockup(order.at, order.hash, order.token) : Erc20Refund(key, l)

\* The digest the contract computes for a cooperative refund.
ContractDigest(l) == RefundHash(EvDeployed[l.at].version, Eip712Domain(l.at), l.values)

\* refund_cooperative: with a signature of the claim address, at any time.
RefundCooperative(l, signature) ==
    /\ signature = [ by |-> l.values.claim, digest |-> ContractDigest(l) ]
    /\ Spend(l)

\* parse_lockup_from_receipt: the lockup event the transaction has at the contract.
ParseLockupFromReceipt(i, contract) ==
    IF evLogs[i].lockup.at = contract THEN { evLogs[i].lockup } ELSE {}

\* The request that a lockup stands for, when the command line signs for it.
AskFor(l, how) ==
    [ contract |-> [ by |-> how, address |-> l.at ], hash |-> l.values.hash,
      amount |-> l.values.amount, token |-> l.values.token,
      timeout |-> l.values.timelock ]

\* sign_refund_from_tx, given the preimage hash of the lockup: only the claim address of the lockup can sign its refund.
SignRefundFromTx(key, i, contract) ==
    \E l \in ParseLockupFromReceipt(i, contract) :
        /\ l.values.claim = key
        /\ Signs(AskFor(l, "transaction"),
                 [ by |-> key, digest |-> RefundHash(EvDeployed[contract].version,
                                                     Eip712Domain(contract), l.values) ])

\* sign_commitment_from_tx: the signer commits as the refund address.
SignCommitmentFromTx(key, i, contract) ==
    \E l \in ParseLockupFromReceipt(i, contract) :
        Signs(AskFor(l, "commitment"),
              [ by |-> key, digest |-> CommitHash(Eip712Domain(contract), l.values, key) ])

-----------------------------------------------------------------------------
(* scan_locked_in_contract: two calls per range, one for the events and one *)
(* for whether their swap hashes still have funds.                          *)

StartScan(at, start) ==
    /\ evScan.phase = "idle"
    /\ start <= evHeight
    /\ evScan' = [ NoScan EXCEPT !.phase = "range", !.at = at, !.start = start,
                                 !.from = start, !.latest = evHeight, !.held = evActive ]
    /\ evGone' = {}
    /\ UNCHANGED << evConfig, evSigners, evUp, evHeight, evLogs, evActive, evAllowed, evAnswer >>

ScanEnd(from, latest) == Min({ from + ScanInterval - 1, latest })

\* lockups_in_range of the contracts.
EtherLockupsInRange(at, from, to) ==
    { i \in DOMAIN evLogs : evLogs[i].lockup.at = at /\ evLogs[i].block \in from .. to }
Erc20LockupsInRange(at, from, to) ==
    { i \in DOMAIN evLogs : evLogs[i].lockup.at = at /\ evLogs[i].block \in from .. to }

OfType(at, ether, erc20) == IF EvDeployed[at].type = "EtherSwap" THEN ether ELSE erc20

LockupsInRange ==
    /\ evScan.phase = "range"
    /\ LET to == ScanEnd(evScan.from, evScan.latest)
       IN  evScan' = [ evScan EXCEPT !.phase = "flags", !.to = to,
                       !.logs = OfType(evScan.at,
                                       EtherLockupsInRange(evScan.at, evScan.from, to),
                                       Erc20LockupsInRange(evScan.at, evScan.from, to)) ]
    /\ UNCHANGED << evConfig, evSigners, evUp, evHeight, evLogs, evActive, evAllowed, evAnswer, evGone >>

\* swap_hash of the contracts: what a lockup is kept under.
EtherSwapHash(l) ==
    << l.values.hash, l.values.amount, l.values.claim, l.refund, l.values.timelock >>
Erc20SwapHash(l) ==
    << l.values.hash, l.values.amount, l.values.token, l.values.claim, l.refund,
       l.values.timelock >>

\* are_lockups_active of the contracts.
EtherActive(logs) ==
    { i \in logs : \E l \in evActive : /\ l.at = evScan.at
                                       /\ EtherSwapHash(l) = EtherSwapHash(evLogs[i].lockup) }
Erc20Active(logs) ==
    { i \in logs : \E l \in evActive : /\ l.at = evScan.at
                                       /\ Erc20SwapHash(l) = Erc20SwapHash(evLogs[i].lockup) }

\* collect_active_lockups
Active(logs) == OfType(evScan.at, EtherActive(logs), Erc20Active(logs))

AreLockupsActive ==
    /\ evScan.phase = "flags"
    /\ evScan' = [ evScan EXCEPT !.found = @ \cup Active(evScan.logs),
                                 !.phase = IF evScan.to = evScan.latest THEN "sum" ELSE "range",
                                 !.from = evScan.to + 1, !.logs = {} ]
    /\ UNCHANGED << evConfig, evSigners, evUp, evHeight, evLogs, evActive, evAllowed, evAnswer, evGone >>

\* The totals by token, of the amounts with eight decimals.
TotalByToken(found) ==
    [ token \in { evLogs[i].lockup.values.token : i \in found } |->
        MapThenSumSet(LAMBDA i : NormalizeTo8Decimals(evLogs[i].lockup.values.amount,
                                                      EvDecimals[token]),
                      { i \in found : evLogs[i].lockup.values.token = token }) ]

SumUp ==
    /\ evScan.phase = "sum"
    /\ evScan' = [ evScan EXCEPT !.phase = "done", !.total = TotalByToken(evScan.found) ]
    /\ UNCHANGED << evConfig, evSigners, evUp, evHeight, evLogs, evActive, evAllowed, evAnswer, evGone >>

-----------------------------------------------------------------------------
EvUsed == { o.at : o \in EvOrders }

EvCommand(key) ==
    \/ \E order \in EvOrders : ClaimEther(key, order) \/ ClaimErc20(key, order)
    \/ \E order \in EvOrders : RefundEther(key, order) \/ RefundErc20(key, order)
    \/ \E i \in DOMAIN evLogs, a \in EvUsed : SignRefundFromTx(key, i, a)
    \/ \E i \in DOMAIN evLogs, a \in EvUsed : SignCommitmentFromTx(key, i, a)

EvNext ==
    \/ ManagerNew
    \/ \E ask \in EvAsks : SignEvmRefund(ask)
    \/ \E order \in EvOrders : LockEther(order) \/ LockErc20(order)
    \/ \E order \in EvOrders : order.token # Ether /\ Approve(order.key, order)
    \/ \E key \in EvKeys : EvCommand(key)
    \/ MineBlock
    \/ \E l \in evActive, answer \in evAnswer : RefundCooperative(l, answer.signature)
    \/ \E s \in EvScans : StartScan(s.at, s.start)
    \/ LockupsInRange
    \/ AreLockupsActive
    \/ SumUp

EvSpec == EvInit /\ [][EvNext]_evVars

\* The type of the contracts, the requests and the scan.
EvTypeOK ==
    /\ evConfig \in EvConfigs /\ evUp \in BOOLEAN /\ evHeight \in Nat
    /\ DOMAIN evSigners \subseteq MinContractVersion .. MaxContractVersion
    /\ \A i \in DOMAIN evLogs : evLogs[i].block \in 1 .. evHeight
    /\ evActive \subseteq { evLogs[i].lockup : i \in DOMAIN evLogs }
    /\ evScan.phase \in { "idle", "range", "flags", "sum", "done" }

\* A signature the sidecar hands out for a lockup at a contract is the one that this
\* contract accepts for it: the version is found from the address, the signer from
\* the version, and its domain names the contract asked about.
RefundSignatureFits ==
    \A x \in evAnswer, i \in DOMAIN evLogs :
        LET l == evLogs[i].lockup
        IN  /\ x.ask = AskFor(l, "address")
            /\ l.values.claim = EvServer
            => x.signature = [ by |-> EvServer, digest |-> ContractDigest(l) ]

\* A finished scan of a contract has every lockup since its first block that had
\* funds all the while, and only lockups that had funds after it began, although
\* the events and the flags are read range by range while others lock and claim.
LockedIsFound ==
    evScan.phase \in { "sum", "done" } =>
        /\ \A i \in DOMAIN evLogs :
            /\ evLogs[i].lockup.at = evScan.at
            /\ evLogs[i].block \in evScan.start .. evScan.latest
            /\ evLogs[i].lockup \in evScan.held \ evGone
            => i \in evScan.found
        /\ \A i \in evScan.found : evLogs[i].lockup \in evActive \cup evGone

\* The totals of a scan are the amounts that the lock commands were given: the
\* conversion to the units of the token and the one back lose nothing.
TotalIsWhatWasLocked ==
    evScan.phase = "done" =>
        \A token \in DOMAIN evScan.total :
            evScan.total[token] =
                MapThenSumSet(LAMBDA i : evLogs[i].sats,
                              { i \in evScan.found : evLogs[i].lockup.values.token = token })

\* A refund signature fits the contract it is used at, and a scan finds and totals what is
\* locked.
EvmIsSound == RefundSignatureFits /\ LockedIsFound /\ TotalIsWhatWasLocked
=============================================================================
