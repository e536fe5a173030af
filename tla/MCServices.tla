---------------------------- MODULE MCServices ------------------------------
(***************************************************************************)
(* The services around the swaps side by side.  As in MCComponents every   *)
(* behaviour belongs to one of Parts, which is the only one that moves, so *)
(* that the states of the parts add up.                                    *)
(***************************************************************************)
EXTENDS SwapManager, EvmSwaps, DexQuoter, LightningGraph, StatsService,
        Notifications, SharedCache, ChannelBackup, SidecarProcess,
        MusigSession, OfferApi, NodeRpc, CommandLine,
        RescueDetails, WsSession, HttpApi, GrpcApi, SidecarSetup, TLC

CONSTANTS
    Parts,                          \* the parts that are checked
    node, s3, webdav                \* a lightning node and the stores of backups

-----------------------------------------------------------------------------
(* Swaps, transactions and currencies of SwapManager.                      *)

LockSide(symbol, script, tx) == [symbol |-> symbol, script |-> script, tx |-> tx, vout |-> 0]
SwapPair(base, quote) == [base |-> base, quote |-> quote]
ManagerRow(kind, pair, side, version, sides) ==
    [kind |-> kind, pair |-> pair, side |-> side, version |-> version,
     status |-> "TransactionConfirmed", sides |-> sides, keys |-> TRUE,
     scripts |-> TRUE, preimage |-> TRUE]

ManagerRows ==
    [submarine |-> ManagerRow("submarine", SwapPair("BTC", "BTC"), "buy", "taproot",
                              { LockSide("BTC", "a", "A") }),
     liquid |-> [ManagerRow("submarine", SwapPair("L-BTC", "BTC"), "sell", "legacy",
                            { LockSide("L-BTC", "b", "B") }) EXCEPT !.preimage = FALSE],
     reverse |-> ManagerRow("reverse", SwapPair("BTC", "BTC"), "buy", "legacy",
                            { LockSide("BTC", "c", "C") }),
     chain |-> ManagerRow("chain", SwapPair("L-BTC", "BTC"), "buy", "taproot",
                          { LockSide("BTC", "d", "D"), LockSide("L-BTC", "e", "E") })]

\* A locks up the submarine swap, D the chain swap with the output of the reverse
\* swap, F spends the output the server locked for the chain swap.
ManagerTxs ==
    [A |-> [symbol |-> "BTC", ins |-> {}, outs |-> { "a" }],
     D |-> [symbol |-> "BTC", ins |-> { << "C", 0 >> }, outs |-> { "d" }],
     F |-> [symbol |-> "L-BTC", ins |-> { << "E", 0 >> }, outs |-> {}]]

ManagerCurrencies == [s \in { "BTC", "L-BTC" } |-> [chain |-> TRUE, wallet |-> TRUE]]

ManagerBatches ==
    { {}, { "submarine" }, { "submarine", "chain" }, { "submarine", "liquid" },
      { "reverse" }, { "liquid" } }

DeltaPair(base, quote, minutes) == [base |-> base, quote |-> quote, minutes |-> minutes]
ManagerPairs ==
    { DeltaPair("BTC", "BTC", 1440), DeltaPair("L-BTC", "BTC", 721),
      DeltaPair("RBTC", "BTC", 1) }
Seconds == "BTC" :> 600 @@ "L-BTC" :> 60 @@ "RBTC" :> 25

-----------------------------------------------------------------------------
(* Contracts, swaps, requests and scans of EvmSwaps.                       *)

Deployed ==
    LET Contract(type, version) == [type |-> type, version |-> version] IN
    "e5" :> Contract("EtherSwap", 5) @@ "t5" :> Contract("ERC20Swap", 5)
    @@ "e5b" :> Contract("EtherSwap", 5) @@ "t5b" :> Contract("ERC20Swap", 5)
    @@ "e4" :> Contract("EtherSwap", 4) @@ "t4" :> Contract("ERC20Swap", 4)

ContractPair(ether, erc20) == [ether |-> ether, erc20 |-> erc20]
EvmConfigs ==
    { [providers |-> { "ws" },
       contracts |-> << ContractPair("e5", "t5"), ContractPair("e5b", "t5b"),
                        ContractPair("e4", "t4") >>] }

Order(at, token) ==
    [key |-> "user", at |-> at, hash |-> "h", sats |-> 100, token |-> token,
     claim |-> "server", timelock |-> 3]
EvmOrders == { Order("e5", "ether"), Order("t4", "usdt") }
Decimals == "ether" :> 10 @@ "usdt" :> 6

RefundAsk(contract, amount, token) ==
    [contract |-> contract, hash |-> "h", amount |-> amount, token |-> token, timeout |-> 3]
AtAddress(a) == [by |-> "address", address |-> a]
OfVersion(v) == [by |-> "version", version |-> v]
EvmAsks ==
    { RefundAsk(AtAddress("e5"), 10000, "ether"), RefundAsk(AtAddress("t4"), 1, "usdt"),
      RefundAsk(OfVersion(260), 1, "usdt"), RefundAsk(OfVersion(7), 1, "usdt"),
      RefundAsk(AtAddress("e5b"), -1, "ether") }
EvmScans == { [at |-> "e5", start |-> 1], [at |-> "t4", start |-> 2] }

-----------------------------------------------------------------------------
(* Pools, prices and requests of DexQuoter.                                *)

PoolOf(a, b, fee) == [pair |-> { a, b }, fee |-> fee]
Pools == { PoolOf("weth", "usdt", 500), PoolOf("weth", "tbtc", 500),
           PoolOf("usdt", "tbtc", 100) }

DexTokens == { "weth", "usdt", "tbtc" }
PoolPrices ==
    LET Ratio(num, den) == [num |-> num, den |-> den] IN
    [x \in DexTokens \X DexTokens \X { 100, 500, 3000 } |->
        CASE x[1] = "weth" /\ x[2] = "usdt" -> Ratio(IF x[3] = 500 THEN 7 ELSE 5, 2)
          [] x[1] = "usdt" /\ x[2] = "weth" -> Ratio(2, 7)
          [] x[1] = "weth" /\ x[2] = "tbtc" -> Ratio(1, 3)
          [] x[1] = "tbtc" /\ x[2] = "weth" -> Ratio(3, 1)
          [] x[1] = "usdt" /\ x[2] = "tbtc" -> Ratio(1, 4)
          [] OTHER -> Ratio(4, 1)]

QuoteAsk(kind, in, out, amount) ==
    [kind |-> kind, in |-> in, out |-> out, amount |-> amount]
QuoteAsks ==
    { QuoteAsk("input", "ether", "tbtc", 12), QuoteAsk("output", "tbtc", "ether", 5),
      QuoteAsk("output", "usdt", "tbtc", 2), QuoteAsk("input", "usdt", "tbtc", 0) }

-----------------------------------------------------------------------------
(* Gossip and queries of LightningGraph.                                   *)

SourceOrder == << "CLN", "LND" >>
GossipNode(id, alias) == [id |-> id, alias |-> alias]
ClnChannel(scid, policy, public) ==
    [scid |-> scid, source |-> "a", destination |-> "b", policy |-> policy,
     public |-> public]
ClnGossip ==
    { [nodes |-> { GossipNode("a", ""), GossipNode("b", "bob") },
       channels |-> << ClnChannel(<< 1, 2, 0 >>, "p1", TRUE),
                       ClnChannel(<< 2, 0, 0 >>, "p2", FALSE) >>],
      [nodes |-> { GossipNode("a", "al") }, channels |-> << >>] }
LndEdge(id, node1, node2, policy1, policy2) ==
    [id |-> id, node1 |-> node1, node2 |-> node2, policy1 |-> policy1,
     policy2 |-> policy2]
LndGossip ==
    { [nodes |-> { GossipNode("a", "alice") },
       edges |-> << LndEdge(24, "a", "b", "p3", "p4"), LndEdge(48, "b", "a", "p5", "none") >>] }
GraphQueries ==
    { [kind |-> "node", node |-> "a"], [kind |-> "node", node |-> "malformed"],
      [kind |-> "channels", node |-> "b"],
      [kind |-> "channel", format |-> "lnd", number |-> 24],
      [kind |-> "channel", format |-> "cln", scid |-> << 1, 2, 0 >>],
      [kind |-> "search", alias |-> "alice"] }

-----------------------------------------------------------------------------
(* Messages and posts of Notifications.                                    *)

NotificationConfig ==
    [prefix |-> 2, alertChannel |-> TRUE, alertHook |-> TRUE, backup |-> TRUE]
MessageOf(len, code, important, alert) ==
    [len |-> len, code |-> code, important |-> important, alert |-> alert]
BackendMessages ==
    { MessageOf(27, "block", FALSE, FALSE), MessageOf(70, "block", TRUE, TRUE),
      MessageOf(81, "plain", FALSE, FALSE) }
CommandReplies ==
    [c \in { "usage", "help" } |-> [len |-> 9, code |-> "plain"]]
    @@ [c \in { "offerinfo", "webhookinfo", "backup" } |-> [len |-> 50, code |-> "block"]]
PostOf(channel, command, args) == [channel |-> channel, command |-> command, args |-> args]
ChatPosts ==
    { PostOf("main", "offerinfo", TRUE), PostOf("main", "webhookinfo", FALSE),
      PostOf("main", "help", FALSE), PostOf("main", "getbalance", FALSE),
      PostOf("alerts", "help", FALSE) }

-----------------------------------------------------------------------------
(* Requests and records of StatsService.                                   *)

StatsAsk(referral, kind, pair) == [referral |-> referral, kind |-> kind, pair |-> pair]
StatsAsks ==
    { StatsAsk("pro", "submarine", "BTC/BTC"), StatsAsk("pro", "reverse", "BTC/BTC"),
      StatsAsk("pro", "chain", "L-BTC/BTC"), StatsAsk("other", "chain", "L-BTC/BTC"),
      StatsAsk("pro", "direct", "BTC/BTC") }
Series ==
    PairFeesQuery(StatsAsk("pro", "submarine", "BTC/BTC")) :> 1
    @@ PairFeesQuery(StatsAsk("pro", "reverse", "BTC/BTC")) :> 1
    @@ MaxRoutingFeeQuery(StatsAsk("pro", "submarine", "BTC/BTC")) :> 1
CountryRows ==
    { [start |-> 1, end |-> 3, country |-> "AT"], [start |-> 4, end |-> 6, country |-> "SV"] }


-----------------------------------------------------------------------------
(* Keys and buffers of MusigSession: the buffers 1 and 3 hold one key.     *)

BufferKeys == [b \in { 1, 2, 3 } |-> IF b = 2 THEN "B" ELSE "A"]
KeyLists == { << "A", "B" >> }

-----------------------------------------------------------------------------
(* Texts and requests of OfferApi.                                         *)

TextOf(kind, chains, signer, unit, amount, hash, expired) ==
    [kind |-> kind, chains |-> chains, signer |-> signer, unit |-> unit,
     amount |-> amount, hash |-> hash, expired |-> expired]
OfferTexts ==
    [o1 |-> TextOf("offer", { "regtest" }, "A", "bitcoin", 700, "none", FALSE),
     o2 |-> TextOf("offer", { "regtest" }, "A", "none", 0, "none", FALSE),
     o3 |-> TextOf("offer", { "mainnet" }, "B", "other", 5, "none", FALSE),
     i1 |-> TextOf("bolt12", { "regtest" }, "A", "bitcoin", 700, "h1", FALSE),
     i2 |-> TextOf("bolt12", { "regtest" }, "B", "bitcoin", 700, "h2", TRUE),
     b1 |-> TextOf("bolt11", { "regtest" }, "A", "bitcoin", 700, "h1", TRUE)]

OfferRequest(op, text, url, key, msg, amount) ==
    [op |-> op, currency |-> "BTC", receiving |-> "BTC", text |-> text, url |-> url,
     sig |-> [key |-> key, msg |-> msg], sats |-> amount # 0, amount |-> amount]
OfferRequests ==
    LET Lower(text) == << text, "lower" >>
        Upper(text) == << text, "upper" >>
        Creation == OfferRequest("create", Upper("o1"), "u1", "A", "u1", 0) IN
    { Creation, [Creation EXCEPT !.currency = "L-BTC"],
      OfferRequest("create", Lower("o2"), "no url", "A", "x", 0),
      OfferRequest("update", Lower("o2"), "no url", "A", "UPDATE", 0),
      OfferRequest("update", Lower("o1"), "u2", "A", "u2", 0),
      OfferRequest("update", Lower("o1"), "u1", "A", "u1", 0),
      OfferRequest("update", Lower("o1"), "u1", "A", "DELETE", 0),
      OfferRequest("delete", Lower("o1"), "no url", "A", "DELETE", 0),
      OfferRequest("delete", Lower("o1"), "no url", "not hex", "DELETE", 0),
      OfferRequest("fetch", Lower("o1"), "no url", "A", "", 0),
      OfferRequest("fetch", Upper("o1"), "no url", "A", "", 2),
      OfferRequest("fetch", Upper("o2"), "no url", "A", "", 6),
      OfferRequest("params", Upper("o1"), "no url", "A", "", 2),
      OfferRequest("decode", Upper("o3"), "no url", "A", "", 2),
      OfferRequest("decode", Upper("i2"), "no url", "A", "", 2) }
OfferUrls == [u1 |-> TRUE, u2 |-> FALSE]
OfferHints == [h1 |-> [symbol |-> "L-BTC", script |-> "s", params |-> "p"]]
OfferTimeouts == << "BTC", "BTC" >> :> 80

-----------------------------------------------------------------------------
(* Nodes, transactions and calls of NodeRpc.                               *)

NodeConfig(type, auth, wallet, tool) ==
    [type |-> type, auth |-> auth, wallet |-> wallet, network |-> "mainnet", tool |-> tool]
NodeConfigs ==
    "BTC" :> NodeConfig("bitcoin", "cookie", "hot", FALSE)
    @@ "L-BTC" :> NodeConfig("elements", "password", "none", TRUE)

NodeOut(value, script, confidential) ==
    [value |-> value, script |-> script, confidential |-> confidential]
NodeTx(inputs, outputs) == [inputs |-> inputs, outputs |-> outputs]
NodeTxs ==
    "BTC" :> [a |-> NodeTx({}, << NodeOut(5, "s", FALSE), NodeOut(3, "s", FALSE) >>),
              b |-> NodeTx({ << "a", 1 >>, << "a", 2 >> }, << NodeOut(6, "s", FALSE) >>),
              c |-> NodeTx({ << "a", 1 >>, << "b", 2 >> }, << NodeOut(1, "s", FALSE) >>),
              d |-> NodeTx({ << "a", 1 >> }, << NodeOut(6, "s", FALSE) >>)]
    @@ "L-BTC" :> [a |-> NodeTx({}, << NodeOut(5, "s", TRUE), NodeOut(2, "", FALSE) >>),
                   b |-> NodeTx({}, << NodeOut(5, "", TRUE) >>)]
NodeCall(op, client, arg) ==
    [op |-> op, client |-> client, wallet |-> "none", label |-> "l", arg |-> arg,
     heights |-> << >>]
NodeCalls ==
    { NodeCall("raw", "BTC", "a"), NodeCall("raw", "L-BTC", "a"), NodeCall("raw", "L-BTC", "c"),
      NodeCall("fee", "BTC", "b"), NodeCall("fee", "BTC", "c"), NodeCall("fee", "BTC", "d"),
      NodeCall("fee", "L-BTC", "a"), NodeCall("fee", "L-BTC", "b"),
      NodeCall("new address", "L-BTC", "none"),
      [NodeCall("unspent", "BTC", "none") EXCEPT !.wallet = "cold"],
      NodeCall("blinding key", "BTC", "x"), NodeCall("blinding key", "L-BTC", "x"),
      NodeCall("zero conf", "L-BTC", "a"),
      [NodeCall("batch", "BTC", "none") EXCEPT !.heights = << 0, 1, 2 >>] }

-----------------------------------------------------------------------------
(* Spends, taproot trees and durations of CommandLine.                     *)

SwapOf(kind, outs, key, chain, address) ==
    [kind |-> kind, tree |-> [id |-> "t", refund |-> "A", claim |-> "B"], script |-> "s",
     outputs |-> outs, key |-> key, chain |-> chain, address |-> address,
     network |-> "regtest"]
SpendOutputs ==
    LET Taproot(keys, tree) == << "p2tr", keys, tree >>
        AKey(parity) == << "A", parity >>
        BKey(parity) == << "B", parity >> IN
    { Taproot(<< AKey(2), BKey(3) >>, "t"), Taproot(<< BKey(3), AKey(2) >>, "t"),
      Taproot(<< BKey(3), AKey(3) >>, "t"), Taproot(<< BKey(2), AKey(2) >>, "u"),
      << "p2sh", << >>, "s" >>, << "p2sh", << "p2wsh" >>, "s" >>,
      << "p2wsh", << >>, "s" >>, << "p2wsh", << >>, "x" >> }
Spends ==
    { SwapOf(kind, << a, b >>, key, "bitcoin", address) :
          kind \in { "tree", "script", "garbage" }, a \in SpendOutputs, b \in SpendOutputs,
          key \in { << "A", 2 >>, << "C", 2 >> }, address \in { "bitcoin", "elements" } }
    \cup { SwapOf("tree", << a >>, << "B", 3 >>, chain, "elements") :
               a \in SpendOutputs, chain \in { "elements", "invalid" } }
    \cup { [SwapOf("tree", << a >>, << "B", 3 >>, "elements", "elements")
            EXCEPT !.network = "signet"] : a \in SpendOutputs }

TapLeaf(script, width) ==
    [depth |-> 1, version |-> 192, script |-> script, width |-> width]
TapLeaves ==
    { TapLeaf(script, width) :
          script \in { << >>, << 172, 172 >>, << 178, 177 >>, << 168, 178 >>, << 177, 255 >> },
          width \in { 1, 3, 5 } }
TapTrees ==
    { << >> } \cup { << a >> : a \in TapLeaves }
    \cup { << a, b >> : a \in TapLeaves, b \in { TapLeaf(<< 172, 253 >>, 1), TapLeaf(<< >>, 3) } }
Durations == { -1, 0, 1, 3, 50 } \X { "", "s", "m", "h", "d", "w", "y", "x" }

-----------------------------------------------------------------------------
(* Commands and command lines of CommandLine: the first terminal tries all  *)
(* of them, the second the ones that change what the first one sees.       *)

CommandOf(op, id) == [NoArgs EXCEPT !.op = op, !.id = id]
AllCommands ==
    { CommandOf(op, "a") :
          op \in { "get_info", "add_referral", "rotate_referral_keys", "revoke_jwt",
                   "list_jwts", "get_pending_sweeps", "check_transaction",
                   "set_swap_status", "dev_heap_dump", "get_label" } }
    \cup { [CommandOf("rotate_referral_keys", "b") EXCEPT !.tty = FALSE],
           [CommandOf("revoke_jwt", "b") EXCEPT !.tty = FALSE],
           [CommandOf("revoke_jwt", "b") EXCEPT !.tty = FALSE, !.yes = TRUE] }
    \cup { [CommandOf("issue_jwt", "l") EXCEPT !.seconds = n] : n \in { -1, 0, 5 } }
    \cup { [CommandOf(op, "") EXCEPT !.signers = { "r" }, !.all = all] :
               op \in { "disable_signers", "enable_signers" }, all \in BOOLEAN }
    \cup { CommandOf("get_disabled_signers", ""), CommandOf("unblind_outputs", ""),
           CommandOf("unblind_outputs", "i"),
           [CommandOf("unblind_outputs", "") EXCEPT !.hex = "00"],
           [CommandOf("send_coins", "x") EXCEPT !.amount = 3],
           [CommandOf("send_coins", "x") EXCEPT !.all = TRUE],
           [CommandOf("cln_threshold", "submarine") EXCEPT !.amount = 7] }
CommandsOf ==
    << AllCommands,
       { CommandOf("rotate_referral_keys", "a"),
         [CommandOf("revoke_jwt", "b") EXCEPT !.yes = TRUE],
         [CommandOf("enable_signers", "") EXCEPT !.all = TRUE] } >>

CommandLine(noJwt, jwtGiven, jwt, file, ssl, certificates) ==
    [noJwt |-> noJwt, jwtGiven |-> jwtGiven, jwt |-> jwt, file |-> file,
     disableSsl |-> ~ssl, certificates |-> certificates]
TokenFile(named, exists, token) == [named |-> named, exists |-> exists, token |-> token]
DefaultLine == CommandLine(FALSE, FALSE, "", TokenFile(FALSE, TRUE, "a"), TRUE, TRUE)
ClisOf ==
    << { DefaultLine,
         CommandLine(FALSE, TRUE, "b", TokenFile(TRUE, TRUE, "a"), FALSE, FALSE),
         CommandLine(FALSE, FALSE, "", TokenFile(TRUE, FALSE, "a"), TRUE, TRUE),
         CommandLine(TRUE, TRUE, "a", TokenFile(FALSE, FALSE, ""), FALSE, TRUE),
         CommandLine(FALSE, FALSE, "", TokenFile(FALSE, FALSE, ""), TRUE, FALSE) },
       { DefaultLine } >>
SignerNames == << "s", "r", "c" >>
Sweeps == << 3, 4 >>

-----------------------------------------------------------------------------
(* Rows, requests and metadata of RescueDetails.                           *)

UtxoData(symbol, index, their, tree, tx) ==
    [symbol |-> symbol, keyIndex |-> index, their |-> their, claimAddress |-> "",
     tree |-> tree,
     address |-> << symbol, << symbol, IF index = -1 THEN 0 ELSE index >>, their, tree >>,
     txid |-> tx, vout |-> IF tx = "" THEN -1 ELSE 0, amount |-> 5, timeout |-> 9]
EvmData(symbol, claim) ==
    [symbol |-> symbol, keyIndex |-> -1, their |-> "", claimAddress |-> claim, tree |-> "",
     address |-> << "contract" >>, txid |-> "", vout |-> -1, amount |-> 5, timeout |-> 9]
DetailRow(id, kind, data) ==
    [id |-> id, kind |-> kind, data |-> data, hash |-> << "hash", id >>, created |-> 1, base |-> "L-BTC",
     quote |-> "BTC", side |-> "buy", version |-> 1, refundAddress |-> ""]
DetailRows ==
    { DetailRow("s", "submarine", { UtxoData("BTC", 3, "k0", "ts", "x") }),
      DetailRow("a", "submarine", { UtxoData("ARK", -1, "k2", "ta", "") }),
      [DetailRow("l", "submarine", { UtxoData("BTC", 4, "k0", "tl", "") }) EXCEPT !.version = 0],
      [DetailRow("e", "submarine", { EvmData("RBTC", "") }) EXCEPT !.refundAddress = "0x1"],
      DetailRow("r", "reverse", { UtxoData("L-BTC", 5, "k1", "tr", "") }),
      DetailRow("w", "reverse", { UtxoData("DOGE", 5, "k4", "tw", "") }),
      DetailRow("v", "reverse", { EvmData("RBTC", "0x1") }),
      [DetailRow("c", "chain", { UtxoData("BTC", 6, "k0", "tc", "y"),
                                 UtxoData("L-BTC", 6, "k1", "td", "") }) EXCEPT !.created = 2],
      [DetailRow("d", "chain", { UtxoData("BTC", 7, "k2", "tc", "y"),
                                 UtxoData("L-BTC", 8, "k3", "td", "") }) EXCEPT !.side = "sell"],
      [DetailRow("f", "chain", { UtxoData("BTC", 9, "k3", "tc", ""),
                                 EvmData("RBTC", "0x1") }) EXCEPT !.base = "RBTC"],
      [DetailRow("g", "chain", { UtxoData("BTC", -1, "k5", "tc", ""),
                                 EvmData("RBTC", "0x2") }) EXCEPT !.base = "RBTC"] }

DetailRequest(op, by, keys, address, age, signer) ==
    [op |-> op, by |-> by, keys |-> keys, address |-> address, age |-> age, signer |-> signer]
DetailRequests ==
    { DetailRequest(op, "keys", keys, "", 0, "") :
          op \in { "rescue", "restore" },
          keys \in { << "k0" >>, << "k1", "k0" >>, << "k0", "k1", "k2", "k3" >>, << "k3" >>,
                     << "k2", "k9" >>, << "k4" >>, << "k5" >>, << "k1" >> } }
    \cup { DetailRequest("restore", "address", << >>, address, age, signer) :
               address \in { "0x1", "0x2" }, age \in { 1, 60, 61 }, signer \in { "0x1", "0x2" } }
DetailMetadata == { << "c", "m" >>, << "c", "n" >>, << "r", "o" >> }

\* WsSession: a limit of one message per window, and none; a client takes more ids
\* than the default allows, offers without and with a wrong signature, and answers
\* with an id that is no number.
Limited == [ perWindow |-> 1, ids |-> 2 ]
MessageLimits == { Limited, [ perWindow |-> NotSet, ids |-> NotSet ] }
\* With a limit, which is one of a connection, two windows of it can be used up and one
\* more message sent; without, two connections share the tables.
SessionsOpened == [ c \in MessageLimits |-> IF c.perWindow = NotSet THEN 2 ELSE 1 ]
SessionWork == [ c \in MessageLimits |-> IF c.perWindow = NotSet THEN 3 ELSE 5 ]
OfferParams(signed) == [ offer |-> "offer", signed |-> signed ]
ClientMessages ==
    { [ op |-> "invalid" ], [ op |-> "ping" ],
      [ op |-> "subscribe", channel |-> "swap.update", args |-> << "a", "b" >> ],
      [ op |-> "subscribe", channel |-> "invoice.request",
        params |-> << OfferParams(TRUE) >> ],
      [ op |-> "subscribe", channel |-> "invoice.request",
        params |-> << OfferParams(TRUE), OfferParams(FALSE) >> ],
      [ op |-> "unsubscribe", channel |-> "swap.update", args |-> << "a" >> ],
      [ op |-> "unsubscribe", channel |-> "invoice.request", args |-> << "offer", "junk" >> ],
      [ op |-> "invoice", hook |-> "hook" ], [ op |-> "invoice.error", hook |-> "no number" ] }

\* HttpApi: every route with two values of its variable segments, and paths that no
\* route matches; bodies below, at and above the limit, and bytes that are no text.
RequestPaths ==
    { [ i \in DOMAIN r.path |-> IF r.path[i] # Var THEN r.path[i]
                                ELSE IF r.path[2] = "asset" THEN v[1] ELSE v[2] ] :
        r \in Routes, v \in { << "BTC", "x" >>, << "L-BTC", "fetch" >> } }
    \cup { << "v2", "swap" >>, << "v2", "quote", "x", "delete" >> }
RequestBodies ==
    { [ size |-> n, utf8 |-> TRUE ] : n \in 0 .. 3 } \cup { [ size |-> 1, utf8 |-> FALSE ] }

\* GrpcApi: two chains and a currency without a node.
WithChain == [ s \in { "BTC", "L-BTC", "RBTC" } |-> s # "RBTC" ]
LogFilters == << "stdout", "file" >>

\* CommandLine: commands for EVM chains with and without token, key and seed files.
EvmOps == { "address", "address_from_mnemonic", "send", "lock", "claim", "refund", "get_balance",
            "approve", "mine", "locked_in_contract", "sign_commitment", "sign_refund",
            "print_signature" }
EvmCommands ==
    { [ op |-> op, token |-> t, privateKey |-> k, files |-> f, erc20 |-> t, path |-> p,
        vrs |-> t, recovery |-> 1 ] :
        op \in EvmOps, t \in BOOLEAN, k \in BOOLEAN,
        f \in SUBSET { "seedEvm.dat", "seed.dat" }, p \in { "", "m" } }

\* SidecarSetup: paths that are set or not; two entries of one LND node, one of another
\* that presents its certificates in another order, one with a certificate too few, and
\* one without an id; files that are missing or do not parse.
ConfigPath == << "home", "boltz.conf" >>
NothingSet ==
    [ mnemonic |-> << >>, mnemonicEvm |-> << >>, dataDir |-> << >>, logFile |-> << >>,
      certificates |-> << >>, otlp |-> << >>, loki |-> << >> ]
SetupConfigs ==
    { NothingSet, [ NothingSet EXCEPT !.dataDir = << "data" >>, !.loki = << "loki" >> ],
      [ NothingSet EXCEPT !.logFile = << "log", "boltz.log" >>, !.otlp = << "otlp" >>,
                          !.mnemonicEvm = << "seedEvm.dat" >> ] }
LndServer(id, cert, presents) ==
    [ kind |-> "lnd", id |-> id, cert |-> cert, macaroon |-> "lnd.macaroon",
      presents |-> presents ]
Servers ==
    << LndServer("A", "tls.cert", << 1 >>), LndServer("A", "tls.cert", << 1 >>),
       LndServer("B", "chain.cert", << 2, 1 >>), LndServer("C", "chain.cert", << 1 >>),
       LndServer("", "tls.cert", << 1 >>),
       [ kind |-> "cln", id |-> "", files |-> { "ca.pem", "client.pem" },
         holdFiles |-> { "hold.pem" } ],
       [ kind |-> "ark", id |-> "K", macaroon |-> "ark.macaroon" ] >>
AllFiles ==
    "tls.cert" :> << 1 >> @@ "chain.cert" :> << 1, 2 >> @@ "lnd.macaroon" :> << >>
    @@ "ca.pem" :> << 1 >> @@ "client.pem" :> << 1 >> @@ "hold.pem" :> << 1 >>
    @@ "ark.macaroon" :> << >>
Disks ==
    { AllFiles, [ AllFiles EXCEPT ![ "tls.cert" ] = << 0 >> ] }
    \cup { [ f \in DOMAIN AllFiles \ { missing } |-> AllFiles[f] ] :
             missing \in { "lnd.macaroon", "client.pem", "hold.pem", "ark.macaroon" } }
VARIABLE part

partVars == << part, mgVars, evVars, dqVars, lgVars, psVars, ntVars,
               caVars, bkVars, prVars, muVars, oaVars, nrVars, ctVars,
               ccVars, rdVars, wsVars, haVars, gaVars, suVars, ceVars >>

\* The services share no state: each is explored by itself, and the variables of the
\* others, which no step and no property of it reads, hold one value.
Asleep == 0

PartsInit ==
    /\ part \in Parts
    /\ IF part = "swap manager" THEN MgInit ELSE
        /\ mgRow = Asleep /\ mgLive = Asleep /\ mgUp = Asleep
        /\ mgMissed = Asleep /\ mgSeen = Asleep /\ mgFound = Asleep
        /\ mgDue = Asleep /\ mgAnswer = Asleep
    /\ IF part = "evm" THEN EvInit ELSE
        /\ evConfig = Asleep /\ evSigners = Asleep /\ evUp = Asleep
        /\ evHeight = Asleep /\ evLogs = Asleep /\ evActive = Asleep
        /\ evAllowed = Asleep /\ evAnswer = Asleep /\ evScan = Asleep
        /\ evGone = Asleep
    /\ IF part = "quotes" THEN DqInit ELSE
        /\ dqPools = Asleep /\ dqCache = Asleep /\ dqReq = Asleep
        /\ dqAnswer = Asleep /\ dqCalls = Asleep /\ dqAsked = Asleep
    /\ IF part = "graph" THEN LgInit ELSE
        /\ lgPhase = Asleep /\ lgResults = Asleep /\ lgNodes = Asleep
        /\ lgNode = Asleep /\ lgChannel = Asleep /\ lgChannels = Asleep
        /\ lgAnswer = Asleep /\ lgUpdates = Asleep /\ lgReported = Asleep
    /\ IF part = "statistics" THEN PsInit ELSE
        /\ psRanges = Asleep /\ psStarted = Asleep /\ psCache = Asleep
        /\ psNow = Asleep /\ psMarked = Asleep /\ psAnswer = Asleep
    /\ IF part = "notifications" THEN NtInit ELSE
        /\ ntClient = Asleep /\ ntWs = Asleep /\ ntJobs = Asleep
        /\ ntOut = Asleep /\ ntBus = Asleep /\ ntStream = Asleep
        /\ ntGot = Asleep
    /\ IF part = "cache" THEN CaInit ELSE
        /\ caBackend = Asleep /\ caMap = Asleep /\ caNow = Asleep
        /\ caRemoving = Asleep /\ caGot = Asleep /\ caTaken = Asleep
        /\ caSets = Asleep /\ caLast = Asleep /\ caLost = Asleep
    /\ IF part = "backup" THEN BkInit ELSE
        /\ bkMain = Asleep /\ bkUp = Asleep /\ bkNode = Asleep /\ bkSub = Asleep
        /\ bkChan = Asleep /\ bkTask = Asleep /\ bkToRetry = Asleep
        /\ bkLoop = Asleep /\ bkStore = Asleep /\ bkDump = Asleep
        /\ bkDumps = Asleep /\ bkCancelled = Asleep /\ bkTold = Asleep
        /\ bkPassed = Asleep /\ bkFaults = Asleep
    /\ IF part = "process" THEN PrInit ELSE
        /\ prMain = Asleep /\ prTask = Asleep /\ prWorking = Asleep
        /\ prCancelled = Asleep /\ prOpen = Asleep /\ prChat = Asleep
        /\ prChatUp = Asleep /\ prOutages = Asleep /\ prCurrency = Asleep
        /\ prSignalled = Asleep
    /\ IF part = "signing" THEN MuInit ELSE
        /\ muB = Asleep /\ muNonces = Asleep /\ muStored = Asleep
        /\ muSigs = Asleep /\ muFinal = Asleep
    /\ IF part = "offers" THEN OaInit ELSE
        /\ oaRows = Asleep /\ oaAt = Asleep /\ oaReq = Asleep /\ oaRow = Asleep
        /\ oaAnswer = Asleep
    /\ IF part = "nodes" THEN NrInit ELSE
        /\ nrClients = Asleep /\ nrCache = Asleep /\ nrAt = Asleep
        /\ nrCall = Asleep /\ nrInputs = Asleep /\ nrSum = Asleep
        /\ nrAnswer = Asleep
    /\ IF part = "tools" THEN CtInit ELSE
        /\ ctAt = Asleep /\ ctJob = Asleep /\ ctBytes = Asleep
        /\ ctOffset = Asleep /\ ctLeaves = Asleep /\ ctOut = Asleep
    /\ IF part = "commands" THEN CcInit ELSE
        /\ ccAt = Asleep /\ ccCommand = Asleep /\ ccCli = Asleep
        /\ ccCall = Asleep /\ ccResponse = Asleep /\ ccPrinted = Asleep
        /\ ccYes = Asleep /\ ccDisabled = Asleep /\ ccRotated = Asleep
        /\ ccTokens = Asleep
    /\ IF part = "rescue details" THEN RdInit ELSE
        /\ rdAt = Asleep /\ rdRequest = Asleep /\ rdFound = Asleep
        /\ rdMeta = Asleep /\ rdAnswer = Asleep
    /\ IF part = "sessions" THEN WsInit ELSE
        /\ wsConfig = Asleep /\ wsStatus = Asleep /\ wsSwaps = Asleep
        /\ wsOwner = Asleep /\ wsSenders = Asleep /\ wsPending = Asleep
        /\ wsTask = Asleep /\ wsNow = Asleep
        /\ wsOpened = Asleep /\ wsSent = Asleep /\ wsAsked = Asleep
        /\ wsBroadcast = Asleep
    /\ IF part = "http" THEN HaInit ELSE
        /\ haAt = Asleep /\ haReq = Asleep /\ haSeen = Asleep
        /\ haInner = Asleep /\ haOuter = Asleep /\ haDone = Asleep
    /\ IF part = "grpc" THEN GaInit ELSE
        /\ gaLevel = Asleep /\ gaCall = Asleep /\ gaAnswer = Asleep
        /\ gaBlocks = Asleep /\ gaStream = Asleep /\ gaWork = Asleep
    /\ IF part = "setup" THEN SuInit ELSE
        /\ suStage = Asleep /\ suAt = Asleep /\ suGiven = Asleep
        /\ suConfig = Asleep /\ suDirs = Asleep /\ suLayers = Asleep
        /\ suHandles = Asleep /\ suDisk = Asleep /\ suNew = Asleep
        /\ suLnds = Asleep /\ suTasks = Asleep /\ suClients = Asleep
    /\ IF part = "certificates" THEN CeInit ELSE
        /\ ceKeys = Asleep /\ ceCerts = Asleep /\ ceStep = Asleep
        /\ ceName = Asleep /\ ceRead = Asleep /\ cePairs = Asleep

PartsNext ==
    \/ /\ part = "swap manager" /\ MgNext
       /\ UNCHANGED << part, evVars, dqVars, lgVars, psVars, ntVars,
                       caVars, bkVars, prVars, muVars, oaVars, nrVars,
                       ctVars, ccVars, rdVars, wsVars, haVars, gaVars,
                       suVars, ceVars >>
    \/ /\ part = "evm" /\ EvNext
       /\ UNCHANGED << part, mgVars, dqVars, lgVars, psVars, ntVars,
                       caVars, bkVars, prVars, muVars, oaVars, nrVars,
                       ctVars, ccVars, rdVars, wsVars, haVars, gaVars,
                       suVars, ceVars >>
    \/ /\ part = "quotes" /\ DqNext
       /\ UNCHANGED << part, mgVars, evVars, lgVars, psVars, ntVars,
                       caVars, bkVars, prVars, muVars, oaVars, nrVars,
                       ctVars, ccVars, rdVars, wsVars, haVars, gaVars,
                       suVars, ceVars >>
    \/ /\ part = "graph" /\ LgNext
       /\ UNCHANGED << part, mgVars, evVars, dqVars, psVars, ntVars,
                       caVars, bkVars, prVars, muVars, oaVars, nrVars,
                       ctVars, ccVars, rdVars, wsVars, haVars, gaVars,
                       suVars, ceVars >>
    \/ /\ part = "statistics" /\ PsNext
       /\ UNCHANGED << part, mgVars, evVars, dqVars, lgVars, ntVars,
                       caVars, bkVars, prVars, muVars, oaVars, nrVars,
                       ctVars, ccVars, rdVars, wsVars, haVars, gaVars,
                       suVars, ceVars >>
    \/ /\ part = "notifications" /\ NtNext
       /\ UNCHANGED << part, mgVars, evVars, dqVars, lgVars, psVars,
                       caVars, bkVars, prVars, muVars, oaVars, nrVars,
                       ctVars, ccVars, rdVars, wsVars, haVars, gaVars,
                       suVars, ceVars >>
    \/ /\ part = "cache" /\ CaNext
       /\ UNCHANGED << part, mgVars, evVars, dqVars, lgVars, psVars,
                       ntVars, bkVars, prVars, muVars, oaVars, nrVars,
                       ctVars, ccVars, rdVars, wsVars, haVars, gaVars,
                       suVars, ceVars >>
    \/ /\ part = "backup" /\ BkNext
       /\ UNCHANGED << part, mgVars, evVars, dqVars, lgVars, psVars,
                       ntVars, caVars, prVars, muVars, oaVars, nrVars,
                       ctVars, ccVars, rdVars, wsVars, haVars, gaVars,
                       suVars, ceVars >>
    \/ /\ part = "process" /\ PrNext
       /\ UNCHANGED << part, mgVars, evVars, dqVars, lgVars, psVars,
                       ntVars, caVars, bkVars, muVars, oaVars, nrVars,
                       ctVars, ccVars, rdVars, wsVars, haVars, gaVars,
                       suVars, ceVars >>
    \/ /\ part = "signing" /\ MuNext
       /\ UNCHANGED << part, mgVars, evVars, dqVars, lgVars, psVars,
                       ntVars, caVars, bkVars, prVars, oaVars, nrVars,
                       ctVars, ccVars, rdVars, wsVars, haVars, gaVars,
                       suVars, ceVars >>
    \/ /\ part = "offers" /\ OaNext
       /\ UNCHANGED << part, mgVars, evVars, dqVars, lgVars, psVars,
                       ntVars, caVars, bkVars, prVars, muVars, nrVars,
                       ctVars, ccVars, rdVars, wsVars, haVars, gaVars,
                       suVars, ceVars >>
    \/ /\ part = "nodes" /\ NrNext
       /\ UNCHANGED << part, mgVars, evVars, dqVars, lgVars, psVars,
                       ntVars, caVars, bkVars, prVars, muVars, oaVars,
                       ctVars, ccVars, rdVars, wsVars, haVars, gaVars,
                       suVars, ceVars >>
    \/ /\ part = "tools" /\ CtNext
       /\ UNCHANGED << part, mgVars, evVars, dqVars, lgVars, psVars,
                       ntVars, caVars, bkVars, prVars, muVars, oaVars,
                       nrVars, ccVars, rdVars, wsVars, haVars, gaVars,
                       suVars, ceVars >>
    \/ /\ part = "commands" /\ CcNext
       /\ UNCHANGED << part, mgVars, evVars, dqVars, lgVars, psVars,
                       ntVars, caVars, bkVars, prVars, muVars, oaVars,
                       nrVars, ctVars, rdVars, wsVars, haVars, gaVars,
                       suVars, ceVars >>
    \/ /\ part = "rescue details" /\ RdNext
       /\ UNCHANGED << part, mgVars, evVars, dqVars, lgVars, psVars,
                       ntVars, caVars, bkVars, prVars, muVars, oaVars,
                       nrVars, ctVars, ccVars, wsVars, haVars, gaVars,
                       suVars, ceVars >>
    \/ /\ part = "sessions" /\ WsNext
       /\ UNCHANGED << part, mgVars, evVars, dqVars, lgVars, psVars,
                       ntVars, caVars, bkVars, prVars, muVars, oaVars,
                       nrVars, ctVars, ccVars, rdVars, haVars, gaVars,
                       suVars, ceVars >>
    \/ /\ part = "http" /\ HaNext
       /\ UNCHANGED << part, mgVars, evVars, dqVars, lgVars, psVars,
                       ntVars, caVars, bkVars, prVars, muVars, oaVars,
                       nrVars, ctVars, ccVars, rdVars, wsVars, gaVars,
                       suVars, ceVars >>
    \/ /\ part = "grpc" /\ GaNext
       /\ UNCHANGED << part, mgVars, evVars, dqVars, lgVars, psVars,
                       ntVars, caVars, bkVars, prVars, muVars, oaVars,
                       nrVars, ctVars, ccVars, rdVars, wsVars, haVars,
                       suVars, ceVars >>
    \/ /\ part = "setup" /\ SuNext
       /\ UNCHANGED << part, mgVars, evVars, dqVars, lgVars, psVars,
                       ntVars, caVars, bkVars, prVars, muVars, oaVars,
                       nrVars, ctVars, ccVars, rdVars, wsVars, haVars,
                       gaVars, ceVars >>
    \/ /\ part = "certificates" /\ CeNext
       /\ UNCHANGED << part, mgVars, evVars, dqVars, lgVars, psVars,
                       ntVars, caVars, bkVars, prVars, muVars, oaVars,
                       nrVars, ctVars, ccVars, rdVars, wsVars, haVars,
                       gaVars, suVars >>

ServicesSpec == PartsInit /\ [][PartsNext]_partVars

\* The parts keep the types and the shape of their state: queues and channels within
\* their capacity and one place for every entry.
ServicesTypeOK ==
    /\ part = "swap manager" => MgTypeOK
    /\ part = "evm" => EvTypeOK
    /\ part = "quotes" => DqTypeOK
    /\ part = "graph" => LgTypeOK
    /\ part = "statistics" => PsTypeOK
    /\ part = "notifications" => NtTypeOK
    /\ part = "cache" => CaTypeOK
    /\ part = "backup" => BkTypeOK
    /\ part = "process" => PrTypeOK
    /\ part = "signing" => MuTypeOK
    /\ part = "offers" => OaTypeOK
    /\ part = "nodes" => NrTypeOK
    /\ part = "tools" => CtTypeOK
    /\ part = "commands" => CcTypeOK
    /\ part = "rescue details" => RdTypeOK
    /\ part = "sessions" => WsTypeOK
    /\ part = "http" => HaTypeOK
    /\ part = "grpc" => GaTypeOK
    /\ part = "setup" => SuTypeOK
    /\ part = "certificates" => CeTypeOK

\* What is stored outlives failures and races: the backups of the lightning nodes and of
\* the database are uploaded or retried, an entry of the cache stays until it is taken,
\* deleted, replaced or expired, a registered offer keeps what its signer set, and the
\* certificates of the gRPC server fit together.
StoredDataIsKept ==
    /\ part = "backup" => BackupIsKept
    /\ part = "cache" => CacheIsSound
    /\ part = "offers" => OffersAreSound
    /\ part = "certificates" => CertificatesFit

\* Swaps and their funds are found: the lockups and spends the manager waits for, the
\* lockups of contracts that a refund is signed or counted for, the details a client
\* rebuilds its lockup from, and the output the command line tools spend.
SwapsAreFound ==
    /\ part = "swap manager" => ManagerIsSound
    /\ part = "evm" => EvmIsSound
    /\ part = "rescue details" => RescueIsUsable
    /\ part = "tools" => ToolsAreSound

\* What is answered belongs to what was asked: quotes, the graph of lightning nodes,
\* statistics, messages, the answers of the nodes, partial signatures, commands of the
\* operator, and the replies to WebSocket clients, HTTP requests and gRPC calls; and the
\* process has what it says it started and what its config names.
AnswersAreOfTheRequest ==
    /\ part = "quotes" => QuotesAreSound
    /\ part = "graph" => GraphIsSound
    /\ part = "statistics" => StatsAreOfTheRequest
    /\ part = "notifications" => NotificationsAreSound
    /\ part = "process" => ExitIsClean
    /\ part = "signing" => SignaturesAreSound
    /\ part = "nodes" => NodeAnswersAreSound
    /\ part = "commands" => ControlIsSound
    /\ part = "sessions" => SessionsAreSound
    /\ part = "http" => RequestsAreServed
    /\ part = "grpc" => CallsAreServed
    /\ part = "setup" => SetupIsSound
=============================================================================
