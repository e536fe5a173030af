------------------------------ MODULE NodeRpc ------------------------------
(***************************************************************************)
(* The clients of the Bitcoin and Elements nodes (boltzr/src/chain:        *)
(* rpc_client.rs, chain_client.rs, elements_client.rs, utils.rs): requests *)
(* of concurrent tasks, their endpoints and errors, the cache of raw       *)
(* transactions that all clients share, and the fee of a transaction, for  *)
(* which the transactions of its inputs are fetched concurrently.          *)
(*                                                                         *)
(* A node answers a method with a value that names the endpoint and the    *)
(* parameters it was called with; a raw transaction is << symbol, id >>.   *)
(***************************************************************************)
EXTENDS Integers, Sequences, FiniteSets, FiniteSetsExt, SequencesExt

CONSTANTS
    NrConfigs,      \* NrConfigs[c]: configuration of the client of symbol c
    NrTxs,          \* NrTxs[c][id]: inputs and outputs of a transaction
    NrCalls,        \* calls of the clients
    NrTasks,        \* calls made at the same time
    NrTip           \* height of the nodes

Clients == DOMAIN NrConfigs
NoWallet == "none"

\* A Bitcoin output that does not exist, and an answer that is not there yet.
NoValue == -1
Pending == [ ok |-> FALSE, value |-> << "pending" >>, fee |-> NoValue ]
Error == [ ok |-> FALSE, value |-> << "error" >>, fee |-> NoValue ]
Ok(v) == [ ok |-> TRUE, value |-> v, fee |-> NoValue ]

ASSUME NrAssumption ==
    /\ Clients = DOMAIN NrTxs /\ NrTip \in Nat
    /\ \A call \in NrCalls : call.client \in Clients

VARIABLES
    nrClients,  \* the clients that could be created
    nrCache,    \* raw transactions in the cache: key -> transaction
    nrAt,       \* what a task is doing
    nrCall,     \* the call of a task
    nrInputs,   \* inputs of which calculate_fee has not got the value
    nrSum,      \* sum of the values it has got
    nrAnswer    \* the answer of a task

nrVars == << nrClients, nrCache, nrAt, nrCall, nrInputs, nrSum, nrAnswer >>

-----------------------------------------------------------------------------
(* RpcClient                                                               *)

\* new: a cookie file that can be read, or a user with a password.
RpcClientNew(c) ==
    \/ NrConfigs[c].auth = "password"
    \/ NrConfigs[c].auth = "cookie"

WalletEndpointFormat(c, wallet) == << c, "wallet", wallet >>
Endpoint(c) == << c >>
EndpointWallet(c) ==
    IF NrConfigs[c].wallet = NoWallet THEN Endpoint(c)
    ELSE WalletEndpointFormat(c, NrConfigs[c].wallet)

WalletEndpoint(c, wallet) ==
    IF wallet = NoWallet THEN EndpointWallet(c) ELSE WalletEndpointFormat(c, wallet)

\* parse_response and request_internal: the body is no JSON, JSON of another
\* shape, an error, a result, or neither; a result next to an error is dropped.
Bodies == { "no json", "other json", "error", "result", "both", "neither" }
RequestInternal(body, value) == IF body = "result" THEN Ok(value) ELSE Error

NrInit ==
    /\ nrClients = { c \in Clients : RpcClientNew(c) }
    /\ nrCache = << >>
    /\ nrAt = [ t \in NrTasks |-> "idle" ]
    /\ nrCall = [ t \in NrTasks |-> CHOOSE call \in NrCalls : TRUE ]
    /\ nrInputs = [ t \in NrTasks |-> {} ]
    /\ nrSum = [ t \in NrTasks |-> 0 ]
    /\ nrAnswer = [ t \in NrTasks |-> Pending ]

NrAnswered(t, a) ==
    /\ nrAnswer' = [ nrAnswer EXCEPT ![t] = a ]
    /\ nrAt' = [ nrAt EXCEPT ![t] = "done" ]

Waits(t, at) == nrAt' = [ nrAt EXCEPT ![t] = at ] /\ UNCHANGED nrAnswer

Calls(t, call, op) ==
    /\ nrAt[t] = "idle" /\ call.op = op /\ call.client \in nrClients
    /\ nrCall' = [ nrCall EXCEPT ![t] = call ]
    /\ UNCHANGED << nrClients, nrCache >>

NoFee == UNCHANGED << nrInputs, nrSum >>

-----------------------------------------------------------------------------
(* Calls that are one request.                                             *)

\* What the node is asked: endpoint, method and parameters.
DefaultAddressType(c) == IF NrConfigs[c].type = "elements" THEN "blech32" ELSE "bech32m"

AskedMethod(call) ==
    LET c == call.client
        wallet == WalletEndpoint(c, call.wallet)
    IN  CASE call.op = "network info" -> << Endpoint(c), "getnetworkinfo" >>
          [] call.op = "blockchain info" -> << Endpoint(c), "getblockchaininfo" >>
          [] call.op = "verbose" -> << Endpoint(c), "getrawtransaction", call.arg, "1" >>
          [] call.op = "send" -> << Endpoint(c), "sendrawtransaction", call.arg >>
          [] call.op = "unspent" -> << wallet, "listunspent" >>
          [] call.op = "new address" ->
               << wallet, "getnewaddress", call.label,
                  IF call.arg = "none" THEN DefaultAddressType(c) ELSE call.arg >>
          [] call.op = "blinding key" -> << wallet, "dumpblindingkey", call.arg >>
          [] call.op = "sign" -> << wallet, "signrawtransactionwithwallet", call.arg >>

SimpleOps == { "network info", "blockchain info", "verbose", "send", "unspent",
               "new address", "sign" }

Request(t, call) ==
    /\ call.op \in SimpleOps
    /\ Calls(t, call, call.op)
    /\ Waits(t, "request")
    /\ NoFee

\* Only Elements has blinding keys.
DumpBlindingKey(t, call) ==
    /\ Calls(t, call, "blinding key")
    /\ IF NrConfigs[call.client].type # "elements" THEN NrAnswered(t, Error)
       ELSE Waits(t, "request")
    /\ NoFee

RequestReturns(t, body) ==
    /\ nrAt[t] = "request"
    /\ NrAnswered(t, RequestInternal(body, AskedMethod(nrCall[t])))
    /\ UNCHANGED << nrClients, nrCache, nrCall >> /\ NoFee

\* request_batch getblockhash: one result per request, in the order of the
\* requests; failures of single requests do not fail the others.
RequestBatch(t, call) ==
    /\ Calls(t, call, "batch")
    /\ Waits(t, "batch")
    /\ NoFee

BlockHash(c, h) == << c, h >>
FailedItem == << "error", 0 >>

\* One result per request; a height above the tip has no hash.
BatchResults(c, heights, failed) ==
    [ i \in DOMAIN heights |-> IF heights[i] \in failed \/ heights[i] > NrTip
                               THEN FailedItem ELSE BlockHash(c, heights[i]) ]

\* The heights, zipped with the results; the failed ones are filtered out.
ZipHashes(heights, results) ==
    SelectSeq([ i \in DOMAIN heights |-> << heights[i], results[i] >> ],
              LAMBDA p : p[2] # FailedItem)

BatchReturns(t, failed) ==
    /\ nrAt[t] = "batch"
    /\ LET hs == nrCall[t].heights
       IN  NrAnswered(t, Ok(ZipHashes(hs, BatchResults(nrCall[t].client, hs, failed))))
    /\ UNCHANGED << nrClients, nrCache, nrCall >> /\ NoFee

BatchFails(t) ==
    /\ nrAt[t] = "batch"
    /\ NrAnswered(t, Error)
    /\ UNCHANGED << nrClients, nrCache, nrCall >> /\ NoFee

-----------------------------------------------------------------------------
(* ElementsClient and ChainClient zero_conf_safe                           *)

ZeroConfSafe(c) ==
    LET f == NrConfigs[c]
    IN  CASE f.type = "elements" /\ f.network = "regtest" -> "safe"
          [] f.type = "elements" /\ f.network # "regtest" /\ f.tool -> "asks the tool"
          [] OTHER -> "not safe"

CheckZeroConf(t, call) ==
    /\ Calls(t, call, "zero conf")
    /\ NrAnswered(t, Ok(<< ZeroConfSafe(call.client) >>))
    /\ NoFee

-----------------------------------------------------------------------------
(* raw_transaction, with the cache                                         *)

\* A mutant: the key of the cache leaves out the chain.
CacheKeyOfTx(c, id) == << "raw_tx", id >>

CacheKeyRawTx(c, id) == << "raw_tx", c, id >>
Cached(k) == k \in DOMAIN nrCache

Remember(k, tx) == [ x \in DOMAIN nrCache \cup {k} |->
                       IF x = k THEN tx ELSE nrCache[x] ]

RawTransaction(t, call) ==
    /\ Calls(t, call, "raw")
    /\ LET k == CacheKeyRawTx(call.client, call.arg)
       IN  IF Cached(k) THEN NrAnswered(t, Ok(nrCache[k])) ELSE Waits(t, "raw")
    /\ NoFee

\* The node knows its own transactions; only a result is remembered.
NodeHas(c, id) == id \in DOMAIN NrTxs[c]

RawReturns(t, body) ==
    /\ nrAt[t] = "raw"
    /\ LET c == nrCall[t].client
           id == nrCall[t].arg
           res == IF NodeHas(c, id) THEN RequestInternal(body, << c, id >>) ELSE Error
       IN  /\ NrAnswered(t, res)
           /\ nrCache' = IF res.ok THEN Remember(CacheKeyRawTx(c, id), res.value)
                         ELSE nrCache
    /\ UNCHANGED << nrClients, nrCall >> /\ NoFee

\* An entry expires after CACHE_TTL_SECS.
RawExpires(k) ==
    /\ Cached(k)
    /\ nrCache' = [ x \in DOMAIN nrCache \ {k} |-> nrCache[x] ]
    /\ UNCHANGED << nrClients, nrAt, nrCall, nrAnswer >> /\ NoFee

-----------------------------------------------------------------------------
(* Transaction::calculate_fee                                              *)

\* Parsing a transaction of the other chain fails.
ParseTx(c, tx) == tx[1] = c /\ NodeHas(c, tx[2])

SumOf(s) == FoldSeq(LAMBDA a, b : a + b, 0, s)
OutputValues(c, id) == [ i \in DOMAIN NrTxs[c][id].outputs |-> NrTxs[c][id].outputs[i].value ]

\* Elements: the first output with an empty script, when its value is explicit.
FeeOutputs(c, id) == SelectSeq(NrTxs[c][id].outputs, LAMBDA o : o.script = "")
ElementsFee(c, id) ==
    IF FeeOutputs(c, id) = << >> \/ FeeOutputs(c, id)[1].confidential THEN NoValue
    ELSE FeeOutputs(c, id)[1].value

FeeIs(n) == IF n < 0 THEN Error ELSE [ Ok(<< "fee" >>) EXCEPT !.fee = n ]

\* input_outpoints
InputOutpoints(c, id) == NrTxs[c][id].inputs

CalculateFee(t, call) ==
    /\ Calls(t, call, "fee")
    /\ LET c == call.client
       IN  IF NrConfigs[c].type = "elements"
           THEN NrAnswered(t, FeeIs(ElementsFee(c, call.arg))) /\ NoFee
           ELSE /\ Waits(t, "fee")
                /\ nrInputs' = [ nrInputs EXCEPT ![t] = InputOutpoints(c, call.arg) ]
                /\ nrSum' = [ nrSum EXCEPT ![t] = 0 ]

\* raw_transaction of one input: from the cache or the node.
InputTx(c, o, tx) ==
    \/ Cached(CacheKeyRawTx(c, o[1])) /\ tx = nrCache[CacheKeyRawTx(c, o[1])]
    \/ ~Cached(CacheKeyRawTx(c, o[1])) /\ NodeHas(c, o[1]) /\ tx = << c, o[1] >>

VoutExists(c, o, tx) == ParseTx(c, tx) /\ o[2] <= Len(NrTxs[c][tx[2]].outputs)

InputArrives(t, o, tx) ==
    /\ nrAt[t] = "fee" /\ o \in nrInputs[t]
    /\ LET c == nrCall[t].client
       IN  /\ InputTx(c, o, tx)
           /\ nrCache' = Remember(CacheKeyRawTx(c, o[1]), tx)
           /\ IF VoutExists(c, o, tx)
              THEN /\ nrInputs' = [ nrInputs EXCEPT ![t] = @ \ {o} ]
                   /\ nrSum' = [ nrSum EXCEPT ![t] = @ + OutputValues(c, tx[2])[o[2]] ]
                   /\ UNCHANGED << nrAt, nrAnswer >>
              ELSE NrAnswered(t, Error) /\ NoFee
    /\ UNCHANGED << nrClients, nrCall >>

InputFails(t) ==
    /\ nrAt[t] = "fee" /\ nrInputs[t] # {}
    /\ NrAnswered(t, Error)
    /\ UNCHANGED << nrClients, nrCache, nrCall >> /\ NoFee

\* checked_sub: a transaction that creates coins has no fee.
FeeIsKnown(t) ==
    /\ nrAt[t] = "fee" /\ nrInputs[t] = {}
    /\ NrAnswered(t, FeeIs(nrSum[t] - SumOf(OutputValues(nrCall[t].client, nrCall[t].arg))))
    /\ UNCHANGED << nrClients, nrCache, nrCall >> /\ NoFee

-----------------------------------------------------------------------------
NrStarts(t, call) ==
    \/ Request(t, call) \/ DumpBlindingKey(t, call) \/ RequestBatch(t, call)
    \/ CheckZeroConf(t, call) \/ RawTransaction(t, call) \/ CalculateFee(t, call)

NrNext ==
    \/ \E t \in NrTasks :
         \/ \E call \in NrCalls : NrStarts(t, call)
         \/ \E body \in Bodies : RequestReturns(t, body) \/ RawReturns(t, body)
         \/ \E h \in 0..(NrTip + 1) : BatchReturns(t, {h})
         \/ BatchFails(t)
         \/ \E o \in nrInputs[t] : \E c \in Clients : \E id \in DOMAIN NrTxs[c] :
              InputArrives(t, o, << c, id >>)
         \/ InputFails(t) \/ FeeIsKnown(t)
    \/ \E k \in DOMAIN nrCache : RawExpires(k)

NrSpec == NrInit /\ [][NrNext]_nrVars

-----------------------------------------------------------------------------
\* The type of the clients, the cache and the tasks.
NrTypeOK ==
    /\ nrClients \subseteq Clients
    /\ \A t \in NrTasks :
         /\ nrAt[t] \in { "idle", "request", "batch", "raw", "fee", "done" }
         /\ nrCall[t] \in NrCalls
         /\ nrSum[t] \in Nat
         /\ nrAt[t] = "done" <=> nrAnswer[t] # Pending

\* raw_transaction of the clients share one cache.  Every entry is the transaction
\* of its own chain with its own id, and a raw transaction that is answered is the
\* one the task asked its client for.
RawIsOfClient ==
    /\ \A k \in DOMAIN nrCache : \E c \in Clients : \E id \in DOMAIN NrTxs[c] :
         k = CacheKeyRawTx(c, id) /\ nrCache[k] = << c, id >>
    /\ \A t \in NrTasks : (nrCall[t].op = "raw" /\ nrAnswer[t].ok) =>
         nrAnswer[t].value = << nrCall[t].client, nrCall[t].arg >>

\* calculate_fee sums the inputs as they arrive, in any order and with entries of
\* the cache that expire meanwhile: the fee is what the inputs are worth more than
\* the outputs, and an error when one of them is missing or the sum is smaller.
FeeIsExact ==
    \A t \in NrTasks : (nrCall[t].op = "fee" /\ nrAnswer[t].ok) =>
        LET c == nrCall[t].client
            tx == NrTxs[c][nrCall[t].arg]
            worth(o) == NrTxs[c][o[1]].outputs[o[2]].value
        IN  IF NrConfigs[c].type = "elements"
            THEN \E i \in DOMAIN tx.outputs :
                   /\ tx.outputs[i].script = "" /\ ~tx.outputs[i].confidential
                   /\ nrAnswer[t].fee = tx.outputs[i].value
            ELSE /\ \A o \in tx.inputs : o[2] \in DOMAIN NrTxs[c][o[1]].outputs
                 /\ nrAnswer[t].fee >= 0
                 /\ nrAnswer[t].fee + SumOf(OutputValues(c, nrCall[t].arg))
                      = MapThenSumSet(worth, tx.inputs)

\* getblockhash in batches: a height is paired with the hash of its own block,
\* also when requests before it in the batch failed.
BatchIsAligned ==
    \A t \in NrTasks : (nrCall[t].op = "batch" /\ nrAnswer[t].ok) =>
        \A i \in DOMAIN nrAnswer[t].value :
            LET p == nrAnswer[t].value[i]
            IN  p[2] = BlockHash(nrCall[t].client, p[1])

\* What a client answers is of the chain, the block and the transaction asked for.
NodeAnswersAreSound == RawIsOfClient /\ FeeIsExact /\ BatchIsAligned
=============================================================================
