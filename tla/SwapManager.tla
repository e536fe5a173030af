---------------------------- MODULE SwapManager ----------------------------
(***************************************************************************)
(* The swap manager of the sidecar (swap/manager.rs): which transactions   *)
(* of a chain it finds for which swap rows, the inputs of the batch claims *)
(* and refunds it builds from those rows, and the timeouts it hands out.   *)
(*                                                                         *)
(* While the sidecar runs, every transaction goes to the TxChecker         *)
(* (swap/tx_check.rs), which looks its outputs and inputs up in the        *)
(* database.  What happened while it was down is found by rescan_chains,   *)
(* which reads blocks through the filters that swap/filters.rs derives     *)
(* from the status of the rows, and only what passes reaches the           *)
(* TxChecker.  The backend writes the rows; mgLive is the one it is        *)
(* working on, the others have their lockups already.                      *)
(*                                                                         *)
(* A pair is a record of its two symbols, an address or a script the name  *)
(* of who it belongs to, a key or a script of a row is present or not.     *)
(* Block times are whole seconds and the divisions are exact, where the    *)
(* code uses doubles.                                                      *)
(***************************************************************************)
EXTENDS Integers, FiniteSetsExt

CONSTANTS
    MgRows,         \* the swap rows as the backend creates them
    MgTxs,          \* the transactions that can appear: name -> transaction
    MgCurrencies,   \* symbol -> what the sidecar has for it
    MgBatches,      \* the sets of ids batch claims are asked for
    MgPairs,        \* the configured pairs: base, quote, minutes
    BlockTime       \* symbol -> seconds per block

\* convert_to_blocks refuses to start with a pair of less than a block.
ASSUME PairsAssumption == \A p \in MgPairs : p.minutes \in Nat \ {0}

VARIABLES
    mgRow,      \* the swaps, reverseSwaps and chainSwaps tables
    mgLive,     \* the swap the backend is working on
    mgUp,       \* the sidecar is running
    mgMissed,   \* transactions confirmed while it was down, not yet rescanned
    mgSeen,     \* transactions that were on the chain
    mgFound,    \* << swap, transaction >> announced to the backend
    mgDue,      \* history: what the swaps waited for when it went by
    mgAnswer    \* the last answer to a call

mgVars == << mgRow, mgLive, mgUp, mgMissed, mgSeen, mgFound, mgDue, mgAnswer >>

MgIds == DOMAIN MgRows
Elements == "L-BTC"
NoTx == "none"
Fail(why) == [ ok |-> FALSE, why |-> why ]

MgInit ==
    /\ mgLive \in MgIds
    /\ mgRow = [ s \in MgIds |->
                    IF s = mgLive
                    THEN [ MgRows[s] EXCEPT !.status = "SwapCreated",
                                            !.sides = { [ d EXCEPT !.tx = NoTx ] : d \in @ } ]
                    ELSE MgRows[s] ]
    /\ mgUp = TRUE /\ mgMissed = {} /\ mgSeen = {}
    /\ mgFound = {} /\ mgDue = {} /\ mgAnswer = Fail("none yet")

-----------------------------------------------------------------------------
(* The rows.  A row has one side per chain it uses: the one side of a       *)
(* submarine or reverse swap, or the two chainSwapData of a chain swap.     *)

SwapUpdates ==
    { "SwapCreated", "SwapExpired", "TransactionMempool", "TransactionConfirmed",
      "TransactionClaimPending", "TransactionClaimed", "TransactionLockupFailed",
      "TransactionZeroconfRejected", "TransactionDirect", "TransactionRefunded",
      "TransactionServerMempool", "TransactionServerConfirmed", "InvoiceSet",
      "InvoicePending", "InvoicePaid", "InvoiceFailedToPay" }

\* A status the sidecar does not know, such as invoice.settled, is Unknown.
ParseStatus(s) == IF s \in SwapUpdates THEN s ELSE "Unknown"

Buy(r) == r.side = "buy"

\* chain_symbol of a submarine swap, which receives on the chain.
SubmarineSymbol(r) == IF Buy(r) THEN r.pair.quote ELSE r.pair.base

\* chain_symbol of a reverse swap, which sends on the chain.
ReverseSymbol(r) == IF Buy(r) THEN r.pair.base ELSE r.pair.quote

\* ChainSwapInfo::new: a side is found by its symbol, the pair and the order side
\* say which of them the server sends on.
Side(r, symbol) == CHOOSE d \in r.sides : d.symbol = symbol
Sending(r) == Side(r, ReverseSymbol(r))
Receiving(r) == Side(r, SubmarineSymbol(r))

\* sending_outpoint: where the server's lockup is, if it has one.
SendingOutpoint(r) ==
    IF r.kind = "submarine" \/ Sending(r).tx = NoTx THEN {}
    ELSE { << Sending(r).tx, Sending(r).vout >> }

-----------------------------------------------------------------------------
(* TxChecker: a transaction belongs to the swaps whose script it pays and   *)
(* to those whose lockup by the server it spends.                           *)

\* script_pubkeys has a row for every address the backend watches.
ScriptPubkeys(symbol) ==
    { << s, Receiving(mgRow[s]).script >> :
        s \in { i \in MgIds : /\ mgRow[i].kind # "reverse"
                              /\ Receiving(mgRow[i]).symbol = symbol } }

CheckOutputs(symbol, t) ==
    { p[1] : p \in { q \in ScriptPubkeys(symbol) : q[2] \in MgTxs[t].outs } }

CheckInputs(symbol, t) ==
    { s \in MgIds :
        /\ mgRow[s].kind = "chain" => Sending(mgRow[s]).symbol = symbol
        /\ SendingOutpoint(mgRow[s]) \cap MgTxs[t].ins # {} }

Check(t) ==
    { << s, t >> : s \in CheckOutputs(MgTxs[t].symbol, t)
                         \cup CheckInputs(MgTxs[t].symbol, t) }

-----------------------------------------------------------------------------
(* The filters of a rescan.                                                 *)

\* The currency has a chain client and a wallet to decode the address with.
Decodable(symbol) ==
    /\ symbol \in DOMAIN MgCurrencies
    /\ MgCurrencies[symbol].chain /\ MgCurrencies[symbol].wallet

\* get_swap_filters
SwapFilters(symbol) ==
    { Receiving(mgRow[s]).script :
        s \in { i \in MgIds :
                  /\ mgRow[i].kind = "submarine"
                  /\ mgRow[i].status \notin
                        { "SwapExpired", "InvoicePending", "InvoiceFailedToPay",
                          "TransactionClaimed", "TransactionClaimPending" }
                  /\ SubmarineSymbol(mgRow[i]) = symbol /\ Decodable(symbol) } }

\* get_reverse_filters
ReverseFilters(symbol) ==
    UNION { SendingOutpoint(mgRow[s]) :
              s \in { i \in MgIds :
                        /\ mgRow[i].kind = "reverse"
                        /\ mgRow[i].status \in { "TransactionMempool",
                              "TransactionConfirmed", "TransactionRefunded" }
                        /\ ReverseSymbol(mgRow[i]) = symbol } }

\* A mutant: only lockups of the server that are confirmed are looked at.
ChainInputFiltersConfirmed(symbol) ==
    UNION { SendingOutpoint(mgRow[s]) :
              s \in { i \in MgIds :
                        /\ mgRow[i].kind = "chain"
                        /\ ParseStatus(mgRow[i].status) \in
                              { "TransactionServerConfirmed", "TransactionRefunded" }
                        /\ Sending(mgRow[i]).symbol = symbol } }

\* get_chain_filters, the sides of the server
ChainInputFilters(symbol) ==
    UNION { SendingOutpoint(mgRow[s]) :
              s \in { i \in MgIds :
                        /\ mgRow[i].kind = "chain"
                        /\ ParseStatus(mgRow[i].status) \in
                              { "TransactionServerMempool", "TransactionServerConfirmed",
                                "TransactionRefunded" }
                        /\ Sending(mgRow[i]).symbol = symbol } }

\* get_chain_filters, the sides of the user: transaction.zeroconf.rejected is
\* selected by the query but has no arm of its own.
ChainOutputFilters(symbol) ==
    { Receiving(mgRow[s]).script :
        s \in { i \in MgIds :
                  /\ mgRow[i].kind = "chain"
                  /\ ParseStatus(mgRow[i].status) \in { "SwapCreated", "TransactionMempool" }
                  /\ Receiving(mgRow[i]).symbol = symbol /\ Decodable(symbol) } }

\* get_input_output_filters and is_relevant_tx
IsRelevantTx(t) ==
    LET symbol == MgTxs[t].symbol IN
    \/ MgTxs[t].ins \cap (ReverseFilters(symbol) \cup ChainInputFilters(symbol)) # {}
    \/ MgTxs[t].outs \cap (SwapFilters(symbol) \cup ChainOutputFilters(symbol)) # {}

\* rescan_chains without options: every currency that has a chain client.
Rescanned ==
    { t \in mgMissed : /\ MgTxs[t].symbol \in DOMAIN MgCurrencies
                       /\ MgCurrencies[MgTxs[t].symbol].chain
                       /\ IsRelevantTx(t) }

-----------------------------------------------------------------------------
(* What a swap waits for.  A lockup whose 0-conf was rejected has still to   *)
(* confirm: for a chain swap the filters leave it out (see the README).     *)

AwaitsLockup(r) ==
    \/ /\ r.kind = "submarine"
       /\ r.status \in { "SwapCreated", "InvoiceSet", "TransactionMempool",
                         "TransactionZeroconfRejected" }
    \/ r.kind = "chain" /\ r.status \in { "SwapCreated", "TransactionMempool" }

AwaitsSpend(r) ==
    \/ r.kind = "reverse" /\ r.status \in { "TransactionMempool", "TransactionConfirmed" }
    \/ /\ r.kind = "chain"
       /\ r.status \in { "TransactionServerMempool", "TransactionServerConfirmed" }

Awaits(s, t) ==
    LET r == mgRow[s] IN
    \/ /\ AwaitsLockup(r) /\ Receiving(r).symbol = MgTxs[t].symbol
       /\ Receiving(r).script \in MgTxs[t].outs
    \/ AwaitsSpend(r) /\ SendingOutpoint(r) \cap MgTxs[t].ins # {}

AwaitedOf(ts) == { p \in MgIds \X ts : Awaits(p[1], p[2]) }

-----------------------------------------------------------------------------
(* The input of a claim or a refund.  spend is what the transaction builder *)
(* is given: the kind of output, the kind of input, the outpoint.           *)

SpendDetail(id, out, in, d) ==
    [ ok |-> TRUE, spend |-> [ id |-> id, out |-> out, in |-> in,
                               outpoint |-> << d.tx, d.vout >> ] ]

\* What every detail needs: the keys, the scripts and the lockup.
Missing(r, d) ==
    CASE ~r.keys -> "key index not found"
      [] ~r.scripts -> "redeem script not found"
      [] d.tx = NoTx -> "lockup transaction id not found"
      [] OTHER -> ""

\* claim_details of a submarine swap; a reverse swap has none.
SubmarineClaim(s) ==
    LET r == mgRow[s]  d == Receiving(r) IN
    CASE ~r.preimage -> Fail("preimage not found")
      [] r.preimage /\ Missing(r, d) # "" -> Fail(Missing(r, d))
      [] OTHER -> SpendDetail(s, CASE r.version = "taproot" -> "Taproot"
                                   [] SubmarineSymbol(r) = Elements -> "SegwitV0"
                                   [] OTHER -> "Compatibility", "Claim", d)

\* refund_details of a reverse swap; a submarine swap has none.
ReverseRefund(s) ==
    LET r == mgRow[s]  d == Sending(r) IN
    IF Missing(r, d) # "" THEN Fail(Missing(r, d))
    ELSE SpendDetail(s, IF r.version = "taproot" THEN "Taproot" ELSE "SegwitV0", "Refund", d)

\* create_input_detail of a chain swap, which is always Taproot.
ChainDetail(s, in, d) ==
    IF Missing(mgRow[s], d) # "" THEN Fail(Missing(mgRow[s], d))
    ELSE SpendDetail(s, "Taproot", in, d)

ChainClaim(s) ==
    IF ~mgRow[s].preimage THEN Fail("preimage not found")
    ELSE ChainDetail(s, "Claim", Receiving(mgRow[s]))

ClaimDetails(s) ==
    IF mgRow[s].kind = "submarine" THEN SubmarineClaim(s) ELSE ChainClaim(s)

RefundDetails(s) ==
    CASE mgRow[s].kind = "submarine" -> Fail("submarine swaps cannot be refunded onchain")
      [] mgRow[s].kind = "reverse" -> ReverseRefund(s)
      [] OTHER -> ChainDetail(s, "Refund", Sending(mgRow[s]))

\* claim_batch: ids are looked up among the submarine and the chain swaps.
ClaimBatchOf(ids) ==
    LET found == { s \in ids \cap MgIds : mgRow[s].kind # "reverse" }
        symbols == { SubmarineSymbol(mgRow[s]) : s \in found }
        symbol == CHOOSE x \in symbols : TRUE
        details == { ClaimDetails(s) : s \in found } IN
    CASE ids = {} -> Fail("no swaps to claim")
      [] ids # {} /\ found # ids -> Fail("swaps were not found")
      [] ids # {} /\ found = ids /\ Cardinality(symbols) > 1 ->
            Fail("all swaps must have the same claim symbol")
      [] ids # {} /\ found = ids /\ Cardinality(symbols) = 1 ->
            CASE symbol \notin DOMAIN MgCurrencies -> Fail("currency not found")
              [] symbol \in DOMAIN MgCurrencies /\ ~MgCurrencies[symbol].chain ->
                    Fail("chain client not found")
              [] symbol \in DOMAIN MgCurrencies /\ MgCurrencies[symbol].chain
                 /\ ~MgCurrencies[symbol].wallet -> Fail("wallet not found")
              [] OTHER ->
                    IF \E d \in details : ~d.ok THEN CHOOSE d \in details : ~d.ok
                    ELSE [ ok |-> TRUE, symbol |-> symbol,
                           inputs |-> { d.spend : d \in details } ]

-----------------------------------------------------------------------------
(* Timeouts: minutes of the configuration as blocks of a chain.  The code   *)
(* divides doubles, here the block times are seconds and the division exact. *)

CeilDiv(a, b) == (a + b - 1) \div b

CalculateBlocks(symbol, minutes) == CeilDiv(60 * minutes, BlockTime[symbol])

ConvertBlocks(from, to, blocks) == CeilDiv(blocks * BlockTime[from], BlockTime[to])

LightningBuffer(p, delta) == IF p.base = p.quote THEN 15 ELSE CeilDiv(delta, 4)

\* get_timeouts of the manager, only for reverse swaps: << onchain, lightning >>.
\* The pair is receiving/sending and the side is buy.
GetTimeouts(p) ==
    LET onchain == CalculateBlocks(p.base, p.minutes)
        lightning == ConvertBlocks(p.base, p.quote, onchain)
    IN  [ ok |-> TRUE, pair |-> p, onchain |-> onchain,
          lightning |-> lightning + LightningBuffer(p, lightning) ]

-----------------------------------------------------------------------------
(* Actions.                                                                  *)

\* The states the backend writes, per kind of swap; here in any order.
StatusesOf(kind) ==
    CASE kind = "submarine" ->
            { "SwapCreated", "InvoiceSet", "TransactionMempool",
              "TransactionZeroconfRejected", "TransactionConfirmed", "InvoicePending",
              "TransactionClaimPending", "TransactionClaimed", "SwapExpired",
              "InvoiceFailedToPay" }
      [] kind = "reverse" ->
            { "SwapCreated", "TransactionMempool", "TransactionConfirmed",
              "TransactionRefunded", "InvoiceSettled", "SwapExpired" }
      [] OTHER ->
            { "SwapCreated", "TransactionMempool", "TransactionZeroconfRejected",
              "TransactionConfirmed", "TransactionServerMempool",
              "TransactionServerConfirmed", "TransactionClaimed",
              "TransactionRefunded", "SwapExpired" }

\* The server's lockup is recorded with the first state that tells of it.
SetsServerLockup(r, status) ==
    \/ r.kind = "reverse" /\ status = "TransactionMempool"
    \/ r.kind = "chain" /\ status = "TransactionServerMempool"

Recorded(r, symbol) ==
    { IF d.symbol = symbol
      THEN CHOOSE full \in MgRows[mgLive].sides : full.symbol = symbol ELSE d : d \in r.sides }

BackendWrites(status) ==
    /\ status \in StatusesOf(mgRow[mgLive].kind)
    /\ mgRow' = [ mgRow EXCEPT
            ![mgLive].status = status,
            ![mgLive].sides =
                CASE SetsServerLockup(mgRow[mgLive], status) ->
                        Recorded(mgRow[mgLive], ReverseSymbol(mgRow[mgLive]))
                  [] mgRow[mgLive].kind # "reverse" /\ status = "TransactionConfirmed" ->
                        Recorded(mgRow[mgLive], SubmarineSymbol(mgRow[mgLive]))
                  [] OTHER -> mgRow[mgLive].sides ]
    /\ mgAnswer' = Fail("none yet")
    /\ UNCHANGED << mgLive, mgUp, mgMissed, mgSeen, mgFound, mgDue >>

\* A transaction is confirmed.
Confirm(t) ==
    /\ t \notin mgSeen
    /\ \A o \in MgTxs[t].ins : \E s \in MgIds : o \in SendingOutpoint(mgRow[s])
    /\ mgSeen' = mgSeen \cup { t }
    /\ IF mgUp
       THEN /\ mgFound' = mgFound \cup Check(t)
            /\ mgDue' = mgDue \cup AwaitedOf({ t })
            /\ UNCHANGED mgMissed
       ELSE mgMissed' = mgMissed \cup { t } /\ UNCHANGED << mgFound, mgDue >>
    /\ mgAnswer' = Fail("none yet")
    /\ UNCHANGED << mgRow, mgLive, mgUp >>

StopManager == mgUp /\ mgUp' = FALSE
        /\ UNCHANGED << mgRow, mgLive, mgMissed, mgSeen, mgFound, mgDue, mgAnswer >>

\* The sidecar starts and the backend asks for a rescan.
RescanChains ==
    /\ ~mgUp /\ mgUp' = TRUE
    /\ mgFound' = mgFound \cup UNION { Check(t) : t \in Rescanned }
    /\ mgDue' = mgDue \cup AwaitedOf(mgMissed)
    /\ mgMissed' = {}
    /\ UNCHANGED << mgRow, mgLive, mgSeen, mgAnswer >>

\* check_transaction: the backend asks for a transaction by its id.
CheckTransaction(t) ==
    /\ mgUp /\ t \in mgSeen
    /\ mgFound' = mgFound \cup Check(t)
    /\ mgDue' = mgDue \cup AwaitedOf({ t })
    /\ UNCHANGED << mgRow, mgLive, mgUp, mgMissed, mgSeen, mgAnswer >>

Ask(answer) ==
    /\ mgUp /\ mgAnswer' = answer
    /\ UNCHANGED << mgRow, mgLive, mgUp, mgMissed, mgSeen, mgFound, mgDue >>

ClaimBatch(ids) == Ask(ClaimBatchOf(ids))
RefundInput(s) == Ask(RefundDetails(s))
AskTimeouts(p) == Ask(GetTimeouts(p))

MgNext ==
    \/ \E status \in UNION { StatusesOf(k) : k \in { "submarine", "reverse", "chain" } } :
            BackendWrites(status)
    \/ \E t \in DOMAIN MgTxs : Confirm(t) \/ CheckTransaction(t)
    \/ StopManager \/ RescanChains
    \/ \E ids \in MgBatches : ClaimBatch(ids)
    \/ \E s \in MgIds : RefundInput(s)
    \/ \E p \in MgPairs : AskTimeouts(p)

MgSpec == MgInit /\ [][MgNext]_mgVars

-----------------------------------------------------------------------------
\* The type of the manager's state.
MgTypeOK ==
    /\ DOMAIN mgRow = MgIds /\ mgLive \in MgIds /\ mgUp \in BOOLEAN
    /\ mgMissed \subseteq mgSeen /\ mgSeen \subseteq DOMAIN MgTxs
    /\ mgFound \subseteq MgIds \X mgSeen /\ mgDue \subseteq MgIds \X mgSeen

\* What a swap waits for is found when it goes by, while the sidecar runs and
\* after a time it was down: every such transaction passes the filters of the
\* rescan, and the TxChecker gives it to that swap.
AwaitedIsFound == mgDue \subseteq mgFound

\* A batch claim spends exactly the lockups of the swaps it was asked for, all on
\* one chain and each once; a refund spends what the server locked.
SpendsAreOwn ==
    /\ "inputs" \in DOMAIN mgAnswer =>
          \A i, j \in mgAnswer.inputs :
             /\ i.in = "Claim" /\ (i.outpoint = j.outpoint => i = j)
             /\ Receiving(mgRow[i.id]).symbol = mgAnswer.symbol
             /\ i.outpoint = << Receiving(MgRows[i.id]).tx, Receiving(MgRows[i.id]).vout >>
    /\ "spend" \in DOMAIN mgAnswer =>
          LET i == mgAnswer.spend IN
          i.in = "Refund" /\ { i.outpoint } = SendingOutpoint(MgRows[i.id])

\* The hold invoice of a reverse swap outlives its onchain lockup, in seconds of
\* the two chains, however the blocks of the one are rounded to the other.
InvoiceOutlivesLockup ==
    "lightning" \in DOMAIN mgAnswer =>
        LET p == mgAnswer.pair IN
        /\ mgAnswer.onchain * BlockTime[p.base] >= 60 * p.minutes
        /\ mgAnswer.lightning * BlockTime[p.quote] > mgAnswer.onchain * BlockTime[p.base]

\* Awaited transactions are found, spends are of own lockups, and deltas of timeouts leave
\* time for the lockup.
ManagerIsSound == AwaitedIsFound /\ SpendsAreOwn /\ InvoiceOutlivesLockup
=============================================================================
