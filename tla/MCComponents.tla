--------------------------- MODULE MCComponents -----------------------------
(***************************************************************************)
(* The components side by side.  They share no state: every behaviour      *)
(* belongs to one of Parts, which is the only one that moves, so that the  *)
(* states of the parts add up instead of multiplying.                      *)
(***************************************************************************)
EXTENDS WebhookCaller, SubscriptionProofs, FeeEstimator, ChainScanner,
        SwapExpiration, RefundBumper, AssetRescue, SwapRescue, SwapScripts,
        TxBuilder, InvoicePayment, TLC

CONSTANTS
    Parts,                          \* the parts that are checked
    hook,                           \* a web hook
    swap, socket, events,           \* swaps and their listeners
    conn1, conn2, offer, fetch,     \* BOLT12 offers
    call1, call2, call3, tx1, tx2,  \* zero-conf checks
    rescue1, rescue2, rescue3, send1, send2,    \* asset rescues and their broadcasts
    lnd1, lnd2, cln1                \* lightning nodes

HookStatuses == [h \in StatusHooks |-> 2 .. MaxStatus]
EventsOf == [e \in SseConns |-> swap]
FetchOf == [f \in Fetches |-> offer]
TxOfCall == call1 :> tx1 @@ call2 :> tx1 @@ call3 :> tx2
SwapOfRescue == rescue1 :> "s1" @@ rescue2 :> "s1" @@ rescue3 :> "s2"
RescueOfSend == send1 :> rescue1 @@ send2 :> rescue1

-----------------------------------------------------------------------------
(* Faults of the lightning nodes, see InvoicePayment.                      *)

AllButEarlyDrop == FaultKinds \ { "earlyDrop" }

-----------------------------------------------------------------------------
(* Swaps and requests of SwapRescue.  The keys of path p are <<"p", index>>. *)

Xpub(path, gap) == [kind |-> "xpub", id |-> "x", path |-> path, gap |-> gap]
Given(kind, keys) == [kind |-> kind, id |-> kind, keys |-> keys]
RescueRow(kind, refund, claim) ==
    [kind |-> kind, refund |-> refund, claim |-> claim, evm |-> FALSE, wallet |-> TRUE]
Ask(op, it, page) == [op |-> op, it |-> it, page |-> page]

RescueRows ==
    { RescueRow("submarine", <<"p", 0>>, NoKey),
      RescueRow("chain", <<"p", 3>>, <<"p", 1>>),
      RescueRow("chain", NoKey, <<"p", 2>>),
      RescueRow("reverse", NoKey, <<"p", 3>>) }

RescueRequests ==
    "rescue" :> Ask("rescue", Xpub("p", 3), NoPage)
    @@ "near" :> Ask("rescue", Xpub("p", 1), NoPage)
    @@ "restore" :> Ask("restore", Xpub("p", 2), NoPage)
    @@ "page" :> Ask("restore", Xpub("p", 1), <<1, 3>>)
    @@ "last page" :> Ask("restore", Xpub("p", 3), <<17, 2>>)
    @@ "index" :> Ask("index", Xpub("p", 2), NoPage)
    @@ "index again" :> Ask("index", Xpub("p", 2), NoPage)
    @@ "keys" :> Ask("restore", Given("keys", << <<"p", 3>>, <<"p", 0>> >>), NoPage)
    @@ "key" :> Ask("rescue", Given("single", << <<"p", 0>> >>), NoPage)
    @@ "no gap" :> Ask("restore", Xpub("p", 0), NoPage)

-----------------------------------------------------------------------------
(* Witnesses for SwapScripts.                                              *)

ScriptItems == { <<"sig", 1>>, <<"sig", 2>>, <<"bytes", 0>>, <<"bytes", 32>>,
                 <<"bytes", 40>>, <<"num", 1>> }
ScriptOutputs == { PinnedOutput, [PinnedOutput EXCEPT !.value = <<"value", 2>>],
                   [PinnedOutput EXCEPT !.script = <<"spk", 2>>] }

-----------------------------------------------------------------------------
(* Requests of TxBuilder: two inputs out of order, every way to spend them,  *)
(* destinations, fees; blinded inputs and outputs on Elements.              *)

Coin(outpoint, value, type, spend, timeout, script) ==
    [outpoint |-> outpoint, value |-> value, asset |-> 0, blinded |-> FALSE,
     blindingKey |-> FALSE, abf |-> 0, vbf |-> 0, script |-> script, size |-> 32,
     type |-> type, spend |-> spend, timeout |-> timeout]
Blind(i) == [i EXCEPT !.blinded = TRUE, !.blindingKey = TRUE, !.abf = 3, !.vbf = 5]
OfOtherAsset(i) == [i EXCEPT !.asset = 1]
WithoutKey(i) == [i EXCEPT !.blindingKey = FALSE]

AnyCoins(outpoint) ==
    { Coin(outpoint, 20 + outpoint, type, spend, 100 + outpoint, script) :
        type \in { "taproot", "segwit" }, spend \in { "claim", "refund" },
        script \in { "swap_script", "reverse_script" } }
    \cup { Coin(outpoint, 20 + outpoint, "cooperative", "claim", 100, "swap_script") }
AnyCoin == CHOOSE i \in AnyCoins(1) : TRUE
Cooperative(outpoint, value) ==
    Coin(outpoint, value, "cooperative", "claim", 0, "swap_script")

Pays(value, blinded) == [script |-> "out", value |-> value, blinded |-> blinded]
Spending(chain, inputs, outs, blinded, fee, rate) ==
    [chain |-> chain, inputs |-> inputs,
     dest |-> IF outs = << >> THEN "single" ELSE "multiple", outs |-> outs,
     change |-> [script |-> "change", blinded |-> blinded], fee |-> fee, rate |-> rate]

BitcoinRequests ==
    { Spending("bitcoin", <<i, j>>, << >>, FALSE, "relative", 15) :
        i \in AnyCoins(2), j \in AnyCoins(1) }
    \cup { Spending("bitcoin", <<AnyCoin>>, <<Pays(v, FALSE)>>, FALSE, "absolute", r) :
             v \in { 3, 12 }, r \in { 3, 7, 25 } }
    \cup { Spending("bitcoin", <<AnyCoin>>, <<Pays(v, FALSE)>>, FALSE, "relative", r) :
             v \in { 3, 12 }, r \in { -1, 3, 7 } }

ClaimCoin == Coin(2, 22, "taproot", "claim", 0, "swap_script")
RefundCoin == Coin(1, 7, "segwit", "refund", 90, "swap_script")
ElementsRequests ==
    { Spending("elements", <<i, j>>, outs, blinded, fee, 4) :
        i \in { ClaimCoin, Blind(ClaimCoin), WithoutKey(Blind([ClaimCoin EXCEPT !.value = 5])) },
        j \in { RefundCoin, Blind(RefundCoin), OfOtherAsset(RefundCoin) },
        outs \in { << >>, <<Pays(4, FALSE)>>, <<Pays(4, TRUE), Pays(2, FALSE)>> },
        blinded \in BOOLEAN, fee \in { "absolute", "relative" } }

RescueCoins ==
    LET coin == Cooperative(5, 9)
    IN  { coin, OfOtherAsset(coin), Blind(coin), OfOtherAsset(Blind(coin)) }
AssetRescueRequests ==
    { Spending("rescue", <<i, j>>, <<Pays(0, b)>>, c, "relative", 4) :
        i \in RescueCoins, b \in BOOLEAN, c \in BOOLEAN,
        j \in { Cooperative(2, 6), Cooperative(2, 30), Blind(Cooperative(2, 30)) } }

SpendRequests == BitcoinRequests \cup ElementsRequests \cup AssetRescueRequests
-----------------------------------------------------------------------------
VARIABLE part

partVars == << part, whVars, stVars, ofVars, zhVars, zwVars, feVars,
               scVars, exVars, rbVars, arVars, srVars, attempt, tbVars,
               payVars >>

\* A client follows its swap over one kind of connection.
OneListener == \E c \in { socket, events } : stPhase[c] = "closed"
NoListener == \A c \in { socket, events } : stPhase[c] = "closed"

PartsInit ==
    /\ part \in Parts
    /\ WhInit /\ OfInit /\ ZhInit /\ ZwInit /\ FeInit /\ ScInit /\ ExInit
    /\ RbInit /\ ArInit /\ SrInit /\ Init
    /\ StInit /\ IF part = "status stream" THEN OneListener ELSE NoListener
    /\ SsInit /\ (part # "scripts" => attempt = CHOOSE a \in Attempts : TRUE)
    /\ TbInit /\ (part # "transactions" => tbReq = CHOOSE r \in TbRequests : TRUE)

PartsNext ==
    \/ /\ part = "web hooks" /\ WhNext
       /\ UNCHANGED << part, stVars, ofVars, zhVars, zwVars, feVars,
                       scVars, exVars, rbVars, arVars, srVars, attempt,
                       tbVars, payVars >>
    \/ /\ part = "status stream" /\ StNext
       /\ UNCHANGED << part, whVars, ofVars, zhVars, zwVars, feVars,
                       scVars, exVars, rbVars, arVars, srVars, attempt,
                       tbVars, payVars >>
    \/ /\ part = "offers" /\ OfNext
       /\ UNCHANGED << part, whVars, stVars, zhVars, zwVars, feVars,
                       scVars, exVars, rbVars, arVars, srVars, attempt,
                       tbVars, payVars >>
    \/ /\ part = "http zero-conf" /\ ZhNext
       /\ UNCHANGED << part, whVars, stVars, ofVars, zwVars, feVars,
                       scVars, exVars, rbVars, arVars, srVars, attempt,
                       tbVars, payVars >>
    \/ /\ part = "ws zero-conf" /\ ZwNext
       /\ UNCHANGED << part, whVars, stVars, ofVars, zhVars, feVars,
                       scVars, exVars, rbVars, arVars, srVars, attempt,
                       tbVars, payVars >>
    \/ /\ part = "fees" /\ FeNext
       /\ UNCHANGED << part, whVars, stVars, ofVars, zhVars, zwVars,
                       scVars, exVars, rbVars, arVars, srVars, attempt,
                       tbVars, payVars >>
    \/ /\ part = "scanner" /\ ScNext
       /\ UNCHANGED << part, whVars, stVars, ofVars, zhVars, zwVars,
                       feVars, exVars, rbVars, arVars, srVars, attempt,
                       tbVars, payVars >>
    \/ /\ part = "expiration" /\ ExNext
       /\ UNCHANGED << part, whVars, stVars, ofVars, zhVars, zwVars,
                       feVars, scVars, rbVars, arVars, srVars, attempt,
                       tbVars, payVars >>
    \/ /\ part = "refunds" /\ RbNext
       /\ UNCHANGED << part, whVars, stVars, ofVars, zhVars, zwVars,
                       feVars, scVars, exVars, arVars, srVars, attempt,
                       tbVars, payVars >>
    \/ /\ part = "asset rescue" /\ ArNext
       /\ UNCHANGED << part, whVars, stVars, ofVars, zhVars, zwVars,
                       feVars, scVars, exVars, rbVars, srVars, attempt,
                       tbVars, payVars >>
    \/ /\ part = "swap rescue" /\ SrNext
       /\ UNCHANGED << part, whVars, stVars, ofVars, zhVars, zwVars,
                       feVars, scVars, exVars, rbVars, arVars, attempt,
                       tbVars, payVars >>
    \/ /\ part = "scripts" /\ SsNext
       /\ UNCHANGED << part, whVars, stVars, ofVars, zhVars, zwVars,
                       feVars, scVars, exVars, rbVars, arVars, srVars,
                       tbVars, payVars >>
    \/ /\ part = "transactions" /\ TbNext
       /\ UNCHANGED << part, whVars, stVars, ofVars, zhVars, zwVars,
                       feVars, scVars, exVars, rbVars, arVars, srVars,
                       attempt, payVars >>
    \/ /\ part = "payment" /\ Next
       /\ UNCHANGED << part, whVars, stVars, ofVars, zhVars, zwVars,
                       feVars, scVars, exVars, rbVars, arVars, srVars,
                       attempt, tbVars >>

PartsSpec == PartsInit /\ [][PartsNext]_partVars

\* Every part keeps the types and the shape of its state: channels within their
\* capacity, counters within their limits, one place for every entry.
PartsTypeOK ==
    /\ part = "web hooks" => WhTypeOK
    /\ part = "status stream" => StTypeOK
    /\ part = "offers" => OfTypeOK
    /\ part = "http zero-conf" => ZhTypeOK
    /\ part = "ws zero-conf" => ZwTypeOK
    /\ part = "fees" => FeTypeOK
    /\ part = "scanner" => ScTypeOK
    /\ part = "expiration" => ExTypeOK
    /\ part = "refunds" => RbTypeOK
    /\ part = "asset rescue" => ArTypeOK
    /\ part = "swap rescue" => SrTypeOK
    /\ part = "transactions" => TbTypeOK
    /\ part = "payment" => PayTypeOK
=============================================================================
