---------------------------- MODULE MCLiveness ------------------------------
(***************************************************************************)
(* The components with liveness properties side by side, on smaller        *)
(* instances.  As in MCComponents every behaviour belongs to one of Parts, *)
(* which is the only one that moves.                                       *)
(***************************************************************************)
EXTENDS WebhookCaller, StatusStream, Bolt12Offers, HttpZeroConf, WsZeroConf,
        ChainScanner, SwapExpiration, RefundBumper, InvoicePayment,
        SidecarProcess, TLC

CONSTANTS
    Parts,                          \* the parts that are checked
    hook, reply,                    \* web hooks
    swap, socket, events,           \* swaps and their listeners
    conn1, offer, fetch,            \* BOLT12 offers
    call1, call2, tx1,              \* zero-conf checks
    lnd1, lnd2                      \* lightning nodes

HookStatuses == [h \in StatusHooks |-> 2 .. MaxStatus]
EventsOf == [e \in SseConns |-> swap]
FetchOf == [f \in Fetches |-> offer]
TxOfCall == call1 :> tx1 @@ call2 :> tx1

\* Nodes answer, nothing crashes and no hook holds the payment for ever.
Reliable == { "signerDisabled", "timeouts" }

VARIABLE part

partVars == << part, whVars, stVars, ofVars, zhVars, zwVars, scVars,
               exVars, rbVars, payVars, prVars >>

\* A client follows its swap over one kind of connection.
OneListener == \E c \in { socket, events } : stPhase[c] = "closed"
NoListener == \A c \in { socket, events } : stPhase[c] = "closed"

PartsInit ==
    /\ part \in Parts
    /\ WhInit /\ OfInit /\ ZhInit /\ ZwInit /\ ScInit /\ ExInit /\ RbInit
    /\ Init /\ PrInit
    /\ StInit /\ IF part = "status stream" THEN OneListener ELSE NoListener

PartsNext ==
    \/ /\ part = "web hooks" /\ WhNext
       /\ UNCHANGED << part, stVars, ofVars, zhVars, zwVars, scVars,
                       exVars, rbVars, payVars, prVars >>
    \/ /\ part = "status stream" /\ StNext
       /\ UNCHANGED << part, whVars, ofVars, zhVars, zwVars, scVars,
                       exVars, rbVars, payVars, prVars >>
    \/ /\ part = "offers" /\ OfNext
       /\ UNCHANGED << part, whVars, stVars, zhVars, zwVars, scVars,
                       exVars, rbVars, payVars, prVars >>
    \/ /\ part = "http zero-conf" /\ ZhNext
       /\ UNCHANGED << part, whVars, stVars, ofVars, zwVars, scVars,
                       exVars, rbVars, payVars, prVars >>
    \/ /\ part = "ws zero-conf" /\ ZwNext
       /\ UNCHANGED << part, whVars, stVars, ofVars, zhVars, scVars,
                       exVars, rbVars, payVars, prVars >>
    \/ /\ part = "scanner" /\ ScNext
       /\ UNCHANGED << part, whVars, stVars, ofVars, zhVars, zwVars,
                       exVars, rbVars, payVars, prVars >>
    \/ /\ part = "expiration" /\ ExNext
       /\ UNCHANGED << part, whVars, stVars, ofVars, zhVars, zwVars,
                       scVars, rbVars, payVars, prVars >>
    \/ /\ part = "refunds" /\ RbNext
       /\ UNCHANGED << part, whVars, stVars, ofVars, zhVars, zwVars,
                       scVars, exVars, payVars, prVars >>
    \/ /\ part = "payment" /\ Next
       /\ UNCHANGED << part, whVars, stVars, ofVars, zhVars, zwVars,
                       scVars, exVars, rbVars, prVars >>
    \/ /\ part = "process" /\ PrNext
       /\ UNCHANGED << part, whVars, stVars, ofVars, zhVars, zwVars,
                       scVars, exVars, rbVars, payVars >>

Webhooks == part = "web hooks"
Streams == part = "status stream"
Offering == part = "offers"
HttpChecks == part = "http zero-conf"
WsChecks == part = "ws zero-conf"
Scanning == part = "scanner"
Expiring == part = "expiration"
Bumping == part = "refunds"
Paying == part = "payment"
Sidecar == part = "process"

\* The fairness of the components, for the part that moves.
PartsFairness ==
    /\ WF_whVars(Webhooks /\ \E c \in whCalls : CallEnds(c))
    /\ WF_whVars(Webhooks /\ StartWebHookRetries)
    /\ WF_whVars(Webhooks /\ StartRound)
    /\ WF_whVars(Webhooks /\ \E h \in Hooks : RetryCall(h))
    /\ WF_whVars(Webhooks /\ \E r \in whFailed : CountRetry(r))
    /\ WF_whVars(Webhooks /\ EndRound)
    /\ \A s \in StSwaps : WF_stVars(Streams /\ CachePut(s))
    /\ WF_stVars(Streams /\ \E r \in stReq : BackendRead(r))
    /\ WF_stVars(Streams /\ \E f \in stRead : BackendReply(f))
    /\ WF_stVars(Streams /\ SetSenderFlush)
    /\ WF_stVars(Streams /\ SetSenderClear)
    /\ WF_stVars(Streams /\ SetSenderStore)
    /\ WF_stVars(Streams /\ Broadcast)
    /\ WF_stVars(Streams /\ Forward)
    /\ \A c \in WsConns : /\ WF_stVars(Streams /\ (WsFetchHit(c) \/ WsFetchMiss(c)))
                          /\ WF_stVars(Streams /\ \E d \in stSends : d.to = c /\ WsDeliver(d))
    /\ \A e \in SseConns : /\ WF_stVars(Streams /\ (SseFetchHit(e) \/ SseFetchMiss(e)))
                           /\ WF_stVars(Streams /\ SseRecv(e))
    /\ \A e \in SseConns : WF_stVars(Streams /\ Len(stSseQ[e]) > BusCap /\ SseEnd(e))
    /\ \A f \in Fetches : WF_ofVars(Offering /\ FetchStep(f))
    /\ \A c \in OfConns, f \in Fetches : WF_ofVars(Offering /\ WsRequest(c, f))
    /\ WF_zhVars(HttpChecks /\ ZhTask)
    /\ \A t \in ZwTxs : WF_zwVars(WsChecks /\ DeadlinePasses(t))
    /\ \A t \in ZwTxs : WF_zwVars(WsChecks /\ Reconciles(t))
    /\ WF_zwVars(WsChecks /\ Reconciled)
    /\ WF_zwVars(WsChecks /\ Unsubscribes)
    /\ WF_zwVars(WsChecks /\ ReplacementConnects)
    /\ WF_zwVars(WsChecks /\ RotationEnds)
    /\ SF_zwVars(WsChecks /\ ExpireDeadlines)
    /\ \A s \in Sockets : WF_scVars(Scanning /\ SockReconnects(s))
    /\ WF_scVars(Scanning /\ ForwardTx)
    /\ WF_scVars(Scanning /\ ForwardBlockTxs)
    /\ WF_scVars(Scanning /\ ForwardBlock)
    /\ WF_scVars(Scanning /\ CheckTx)
    /\ WF_scVars(Scanning /\ CheckBlock)
    /\ WF_scVars(Scanning /\ ScStarts)
    /\ WF_scVars(Scanning /\ TransactionFound)
    /\ WF_scVars(Scanning /\ RescanChains)
    /\ WF_scVars(Scanning /\ RescanBlock)
    /\ WF_scVars(Scanning /\ RescanSends)
    /\ WF_scVars(Scanning /\ RescanEnds)
    /\ WF_scVars(Scanning /\ ScanMempool)
    /\ \A k \in Checkers :
         /\ WF_exVars(Expiring /\ CheckLoads(k))
         /\ WF_exVars(Expiring /\ CheckSends(k))
         /\ \A s \in ExSwaps : WF_exVars(Expiring /\ CheckFails(k, s))
    /\ WF_rbVars(Bumping /\ (SendRefund \/ SetRefunded))
    /\ WF_rbVars(Bumping /\ CheckFee)
    /\ WF_rbVars(Bumping /\ BumpFee)
    /\ WF_rbVars(Bumping /\ (UpdateTransactionId \/ UpdateFails))
    /\ WF_rbVars(Bumping /\ GetPendingTransactions)
    /\ WF_rbVars(Bumping /\ WatcherChecks)
    /\ WF_payVars(Paying /\ Retry)
    /\ WF_payVars(Paying /\ PaySteps)
    /\ WF_payVars(Paying /\ Claim)
    /\ \A n \in Nodes : WF_payVars(Paying /\ TrackerResolves(n))
    /\ \A n \in Nodes : WF_payVars(Paying /\ HtlcResolves(n))
    /\ WF_prVars(Sidecar /\ Setup)
    /\ WF_prVars(Sidecar /\ Await)
    /\ WF_prVars(Sidecar /\ BackupEnds)
    /\ WF_prVars(Sidecar /\ ServiceStarts)
    /\ \A t \in PrServers : WF_prVars(Sidecar /\ ServerStops(t))
    /\ \A w \in PrWorkers : WF_prVars(Sidecar /\ WorkerStops(w))
    /\ WF_prVars(Sidecar /\ ChatConnects)
    /\ WF_prVars(Sidecar /\ ChatReconnects)
    /\ WF_prVars(Sidecar /\ ChatCloses)
    /\ WF_prVars(Sidecar /\ ChatStops)

FairParts == PartsInit /\ [][PartsNext]_partVars /\ PartsFairness
=============================================================================
