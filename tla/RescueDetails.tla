---------------------------- MODULE RescueDetails ----------------------------
(***************************************************************************)
(* What a client is told of the swaps that belong to its keys or to its    *)
(* address (boltzr/src/service/rescue.rs, api/rescue.rs).  SwapRescue      *)
(* models which keys are looked up; here they are looked up at once and    *)
(* the rows are turned into the details from which the client rebuilds the *)
(* lockup and claims or refunds it.                                        *)
(*                                                                         *)
(* An address is modelled by what it commits to: << symbol, key of the     *)
(* server, key of the client, tree >>; a key of the server is              *)
(* << symbol, index >> and a key of the client a model of its own.         *)
(***************************************************************************)
EXTENDS Integers, Sequences, FiniteSets, SequencesExt

CONSTANTS
    RdRows,         \* swaps of the database
    RdWallets,      \* currencies with a wallet
    RdRequests,     \* requests of the client
    RdMetadata,     \* << id, metadata >> that clients may store
    ValiditySecs    \* RESTORE_SIGNATURE_VALIDITY_SECS

VARIABLES
    rdAt,           \* "idle", "querying", "attaching", "done" or "failed"
    rdRequest,      \* the request
    rdFound,        \* details that were created
    rdMeta,         \* id -> metadata that is stored, or ""
    rdAnswer        \* the swaps of the response

rdVars == << rdAt, rdRequest, rdFound, rdMeta, rdAnswer >>

ArkSymbol == "ARK"
LiquidSymbol == "L-BTC"
NoSearch == [ op |-> "none" ]
NoDetails == [ kind |-> "none" ]
Failure == [ kind |-> "fail" ]

RdIds == { r.id : r \in RdRows }

RdInit ==
    /\ rdAt = "idle" /\ rdRequest = NoSearch /\ rdFound = {} /\ rdAnswer = << >>
    /\ rdMeta = [ id \in RdIds |-> "" ]

-----------------------------------------------------------------------------
(* The request (api/rescue.rs).                                            *)

\* r.age is the distance of the timestamp from the present in seconds.
VerifyRestoreSignature(r) == r.age <= ValiditySecs /\ r.signer = r.address

\* Only restore takes an address.
RequestIsValid(r) ==
    r.by = "address" => r.op = "restore" /\ VerifyRestoreSignature(r)

-----------------------------------------------------------------------------
(* The rows.  The data of a chain swap has two entries, found by symbol.   *)

FindSide(row, symbol) == CHOOSE d \in row.data : d.symbol = symbol

SendingData(row) == FindSide(row, IF row.side = "buy" THEN row.base ELSE row.quote)
ReceivingData(row) == FindSide(row, IF row.side = "buy" THEN row.quote ELSE row.base)

\* The entry of a submarine or reverse swap.
OwnData(row) == CHOOSE d \in row.data : TRUE

\* The keys of the request are numbered from zero.
LookupOptional(keys, key) ==
    IF key # "" /\ \E i \in DOMAIN keys : keys[i] = key
    THEN (CHOOSE i \in DOMAIN keys : keys[i] = key) - 1
    ELSE -1

-----------------------------------------------------------------------------
(* The details.                                                            *)

\* An Ark swap has no index of its own.
GetKeyIndex(d) ==
    IF d.keyIndex # -1 THEN d.keyIndex ELSE IF d.symbol = ArkSymbol THEN 0 ELSE -1

DeriveOurPublicKey(symbol, d) == << symbol, GetKeyIndex(d) >>

DeriveBlindingKey(symbol, d) == IF symbol = LiquidSymbol THEN d.address ELSE << >>

LockupTransaction(d) == IF d.txid # "" /\ d.vout # -1 THEN << d.txid, d.vout >> ELSE << >>

\* SwapDetailsBase of an entry, with the wallet of symbol.
SwapDetailsBase(symbol, d, index) ==
    IF index = -1 \/ symbol \notin RdWallets \/ d.tree = "" \/ GetKeyIndex(d) = -1
    THEN Failure
    ELSE [ kind |-> "utxo", tree |-> d.tree, amount |-> d.amount, keyIndex |-> index,
           transaction |-> LockupTransaction(d), address |-> d.address,
           server |-> DeriveOurPublicKey(symbol, d), timeout |-> d.timeout,
           blinding |-> DeriveBlindingKey(symbol, d) ]

\* EvmDetails: the claim address is there unless it is a submarine swap's.
EvmDetails(d) ==
    [ kind |-> "evm", contract |-> d.address, claimAddress |-> d.claimAddress,
      transaction |-> IF d.txid # "" THEN << d.txid >> ELSE << >>,
      amount |-> d.amount, timeout |-> d.timeout ]

\* A reverse or chain swap is claimed with the details and the hash of its preimage.
UtxoClaimDetails(row, d, index) ==
    LET base == SwapDetailsBase(d.symbol, d, index)
    IN  IF base = Failure THEN Failure ELSE base @@ [ hash |-> row.hash ]

SwapBase(row) == [ id |-> row.id, type |-> row.kind, created |-> row.created ]

RestorableSwap(row, from, to, claim, refund) ==
    SwapBase(row) @@ [ from |-> from, to |-> to, hash |-> row.hash,
                       claim |-> claim, refund |-> refund, metadata |-> "" ]

\* Of the side the client has locked up; it has no details to claim with.
RescuableSwap(row, d, index) ==
    SwapBase(row) @@ [ from |-> d.symbol, to |-> "", hash |-> row.hash, claim |-> NoDetails,
                       refund |-> SwapDetailsBase(d.symbol, d, index), metadata |-> "" ]

CreateRescuableSwap(keys, row) ==
    RescuableSwap(row, OwnData(row), LookupOptional(keys, OwnData(row).their))

CreateRescuableChainSwap(keys, row) ==
    RescuableSwap(row, ReceivingData(row), LookupOptional(keys, ReceivingData(row).their))

CreateRestorableSwap(keys, row) ==
    LET d == OwnData(row)
    IN  RestorableSwap(row, d.symbol, "lightning", NoDetails,
                       SwapDetailsBase(d.symbol, d, LookupOptional(keys, d.their)))

\* A mutant: the wallet of the other side for the refund.
CreateRestorableChainSwapOneWallet(keys, row) ==
    LET s == SendingData(row)
        r == ReceivingData(row)
        claim == IF s.claimAddress # "" THEN EvmDetails(s)
                 ELSE IF LookupOptional(keys, s.their) # -1
                 THEN UtxoClaimDetails(row, s, LookupOptional(keys, s.their))
                 ELSE NoDetails
        refund == IF LookupOptional(keys, r.their) # -1
                  THEN SwapDetailsBase(s.symbol, r, LookupOptional(keys, r.their))
                  ELSE NoDetails
    IN  RestorableSwap(row, r.symbol, s.symbol,
          IF claim = NoDetails /\ refund = NoDetails THEN Failure ELSE claim, refund)

\* One of the sides is enough.
CreateRestorableChainSwap(keys, row) ==
    LET s == SendingData(row)
        r == ReceivingData(row)
        claim == IF s.claimAddress # "" THEN EvmDetails(s)
                 ELSE IF LookupOptional(keys, s.their) # -1
                 THEN UtxoClaimDetails(row, s, LookupOptional(keys, s.their))
                 ELSE NoDetails
        refund == IF LookupOptional(keys, r.their) # -1
                  THEN SwapDetailsBase(r.symbol, r, LookupOptional(keys, r.their))
                  ELSE NoDetails
    IN  RestorableSwap(row, r.symbol, s.symbol,
          IF claim = NoDetails /\ refund = NoDetails THEN Failure ELSE claim, refund)

CreateRestorableReverseSwap(keys, row) ==
    LET d == OwnData(row)
    IN  RestorableSwap(row, "lightning", d.symbol,
          IF d.claimAddress # "" THEN EvmDetails(d)
          ELSE UtxoClaimDetails(row, d, LookupOptional(keys, d.their)), NoDetails)

\* A submarine swap that is found by the address it is refunded to.
RestorableOfAddress(row) ==
    LET d == OwnData(row)
    IN  RestorableSwap(row, d.symbol, "lightning", NoDetails, EvmDetails(d))

-----------------------------------------------------------------------------
(* The scan.                                                               *)

Theirs(row) == { d.their : d \in row.data } \ { "" }

\* The query of scan_swaps_paginated; no legacy swaps.
OfKeys(r) ==
    { row \in RdRows : /\ Theirs(row) \cap ToSet(r.keys) # {}
                       /\ row.kind # "chain" => row.version > 0
                       /\ r.op = "rescue" => row.kind # "reverse" }

SwapsOfAddress(r) ==
    { row \in RdRows :
        CASE row.kind = "reverse" -> row.version > 0 /\ OwnData(row).claimAddress = r.address
          [] row.kind = "chain" -> \E d \in row.data : d.claimAddress = r.address
          [] row.kind = "submarine" -> row.refundAddress = r.address }

ProcessRescuableSwaps(r) ==
    { CreateRescuableSwap(r.keys, row) :
        row \in { w \in OfKeys(r) : w.kind = "submarine" } }
    \cup { CreateRescuableChainSwap(r.keys, row) :
        row \in { w \in OfKeys(r) : w.kind = "chain" /\ ReceivingData(w).their # "" } }

ProcessRestorableSwaps(rows, keys) ==
    { CASE row.kind = "submarine" -> CreateRestorableSwap(keys, row)
        [] row.kind = "chain" -> CreateRestorableChainSwap(keys, row)
        [] row.kind = "reverse" -> CreateRestorableReverseSwap(keys, row) : row \in rows }

ScanSwapsByAddress(r) ==
    ProcessRestorableSwaps({ w \in SwapsOfAddress(r) : w.kind # "submarine" }, << >>)
    \cup { RestorableOfAddress(w) : w \in { v \in SwapsOfAddress(r) : v.kind = "submarine" } }

Scan(r) ==
    IF r.op = "rescue" THEN ProcessRescuableSwaps(r)
    ELSE IF r.by = "address" THEN ScanSwapsByAddress(r)
    ELSE ProcessRestorableSwaps(OfKeys(r), r.keys)

\* EVM rows have no index and come last.
RestoredIndex(s) ==
    IF s.refund.kind = "utxo" THEN s.refund.keyIndex
    ELSE IF s.claim.kind = "utxo" THEN s.claim.keyIndex
    ELSE 1000

Sorted(swaps) ==
    SetToSortSeq(swaps, LAMBDA a, b :
        \/ RestoredIndex(a) < RestoredIndex(b)
        \/ RestoredIndex(a) = RestoredIndex(b) /\ a.created < b.created)

-----------------------------------------------------------------------------
SwapRestore(r) ==
    /\ rdAt = "idle"
    /\ rdRequest' = r
    /\ rdAt' = IF RequestIsValid(r) THEN "querying" ELSE "failed"
    /\ UNCHANGED << rdFound, rdMeta, rdAnswer >>

\* One swap whose details cannot be created fails the request.
ScanRows ==
    /\ rdAt = "querying"
    /\ LET found == Scan(rdRequest)
       IN  IF \E s \in found : Failure \in { s.claim, s.refund }
           THEN rdAt' = "failed" /\ UNCHANGED << rdFound, rdAnswer >>
           ELSE IF rdRequest.op = "rescue"
           THEN rdAt' = "done" /\ rdFound' = found /\ rdAnswer' = Sorted(found)
           ELSE rdAt' = "attaching" /\ rdFound' = found /\ UNCHANGED rdAnswer
    /\ UNCHANGED << rdRequest, rdMeta >>

\* attach_metadata, and the sort after it.
AttachMetadata ==
    /\ rdAt = "attaching"
    /\ rdAnswer' = Sorted({ [ s EXCEPT !.metadata = rdMeta[s.id] ] : s \in rdFound })
    /\ rdAt' = "done"
    /\ UNCHANGED << rdRequest, rdFound, rdMeta >>

\* A client stores metadata with a swap, or replaces it.
SetMetadata(m) ==
    /\ rdMeta' = [ rdMeta EXCEPT ![m[1]] = m[2] ]
    /\ UNCHANGED << rdAt, rdRequest, rdFound, rdAnswer >>

RdNext ==
    \/ \E r \in RdRequests : SwapRestore(r)
    \/ ScanRows \/ AttachMetadata
    \/ \E m \in RdMetadata : SetMetadata(m)

RdSpec == RdInit /\ [][RdNext]_rdVars

-----------------------------------------------------------------------------
\* The type of the request's state.
RdTypeOK ==
    /\ rdAt \in { "idle", "querying", "attaching", "done", "failed" }
    /\ { s.id : s \in rdFound } \subseteq RdIds
    /\ Cardinality({ s.id : s \in rdFound }) = Cardinality(rdFound)

RowOfId(id) == CHOOSE row \in RdRows : row.id = id
ClientKey(i) == rdRequest.keys[i + 1]

\* The address that a client computes from the details.
Rebuilt(symbol, d) == << symbol, d.server, ClientKey(d.keyIndex), d.tree >>

\* The details lead to the lockup: with the key of the index that it is told, the key
\* of the server and the tree, the client computes the address that is returned; it is
\* the one it pays to for a refund and the one the server pays to for a claim.
DetailsRebuildLockup ==
    rdAt = "done" =>
        \A i \in DOMAIN rdAnswer :
            LET s == rdAnswer[i]
                row == RowOfId(s.id)
            IN  /\ s.refund.kind = "utxo" =>
                     /\ Rebuilt(s.from, s.refund) = s.refund.address
                     /\ row.kind = "chain" => s.refund.address = ReceivingData(row).address
                     /\ row.kind # "reverse"
                     /\ s.refund.blinding # << >> <=> s.from = LiquidSymbol
                /\ s.claim.kind = "utxo" =>
                     /\ Rebuilt(s.to, s.claim) = s.claim.address
                     /\ s.claim.hash = s.hash /\ s.hash = row.hash
                     /\ row.kind = "chain" => s.claim.address = SendingData(row).address
                     /\ row.kind # "submarine"

\* The swaps of a response are those of the keys or of the address that signed, and
\* every one of them is returned with something that the client can act on.
AnswerIsOfClient ==
    rdAt = "done" =>
        /\ \A i \in DOMAIN rdAnswer :
             LET s == rdAnswer[i]
                 row == RowOfId(s.id)
             IN  /\ { s.claim.kind, s.refund.kind } # { "none" }
                 /\ IF rdRequest.by = "keys"
                    THEN Theirs(row) \cap ToSet(rdRequest.keys) # {}
                    ELSE /\ rdRequest.signer \in
                              { d.claimAddress : d \in row.data } \cup { row.refundAddress }
                         /\ "utxo" \notin { s.claim.kind, s.refund.kind }
        /\ rdRequest.op = "restore" /\ rdRequest.by = "keys" =>
             { s.id : s \in ToSet(rdAnswer) } = { row.id : row \in OfKeys(rdRequest) }

\* Metadata is attached to the swap that it was stored with, also when it is stored
\* while the request is answered.
MetadataIsOfSwap ==
    \A i \in DOMAIN rdAnswer :
        rdAnswer[i].metadata # "" => << rdAnswer[i].id, rdAnswer[i].metadata >> \in RdMetadata

\* A client is told enough of its own swaps, and of no others.
RescueIsUsable == DetailsRebuildLockup /\ AnswerIsOfClient /\ MetadataIsOfSwap
=============================================================================
