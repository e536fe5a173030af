------------------------- MODULE SubscriptionProofs -------------------------
(***************************************************************************)
(* Who listens to what: the subscriptions to statuses of swaps, to BOLT12  *)
(* offers and to transactions of the 0-conf tool agree with the maps that  *)
(* updates are sent by.  Both transports of the 0-conf tool also keep the  *)
(* safety half of what ZeroConfCheck promises: a check is answered once,   *)
(* and "safe" only with a quorum.                                          *)
(***************************************************************************)
EXTENDS StatusStream, Bolt12Offers, HttpZeroConf, WsZeroConf, TLAPS

-----------------------------------------------------------------------------
(* Statuses.                                                               *)

\* Subscriptions are of connections whose loop runs, and the index has exactly them.
StIndexed ==
    /\ stPhase \in [StConns -> { "new", "open", "fetching", "closed" }]
    /\ stSubs \in [WsConns -> SUBSET StSwaps]
    /\ \A c \in WsConns : stPhase[c] \in { "new", "closed" } => stSubs[c] = {}
    /\ stIndex = { p \in StSwaps \X WsConns : p[1] \in stSubs[p[2]] }

\* Zenon is tried on every step that names no prover; most steps with arithmetic name SMT.
USE ZenonT(120)

\* Every step of the backend, the stream, the connections and the forwarding keeps it.
LEMMA StIndexedStep ==
    ASSUME StIndexed, [StNext]_stVars
    PROVE  StIndexed'
<1> USE DEF StIndexed, StConns
<1>1. ASSUME UNCHANGED << stPhase, stSubs, stIndex >>
      PROVE  StIndexed'
  BY <1>1
<1>2. ASSUME NEW c \in StConns, NEW to \in { "open", "fetching", "closed" },
             stPhase[c] \in { "open", "fetching" } \/ c \in SseConns \/ to # "closed",
             c \in WsConns => to # "closed",
             stPhase' = [stPhase EXCEPT ![c] = to], UNCHANGED << stSubs, stIndex >>
      PROVE  StIndexed'
  BY <1>2
<1>3. ASSUME NEW s \in StSwaps, StUpdate(s) \/ CachePut(s)
      PROVE  StIndexed'
  BY <1>1, <1>3 DEF StUpdate, CachePut, stWs
<1>4. ASSUME NEW r, BackendRead(r) \/ BackendReply(r)
      PROVE  StIndexed'
  BY <1>1, <1>4 DEF BackendRead, BackendReply, stWs
<1>5. CASE StStreamFails \/ SetSenderFlush \/ SetSenderClear \/ SetSenderStore \/ Broadcast \/ Forward
  BY <1>1, <1>5 DEF StStreamFails, SetSenderFlush, SetSenderClear, SetSenderStore, Broadcast,
                    Forward, stWs
<1>6. ASSUME NEW c \in WsConns, WsConnect(c) \/ WsFetchHit(c) \/ WsFetchMiss(c)
      PROVE  StIndexed'
  BY <1>2, <1>6 DEF WsConnect, WsFetchHit, WsFetchMiss, stWs
<1>7. ASSUME NEW c \in WsConns, NEW s \in StSwaps, WsSubscribe(c, s)
      PROVE  StIndexed'
  <2>1. /\ stSubs' = [stSubs EXCEPT ![c] = @ \cup {s}] /\ stIndex' = stIndex \cup { << s, c >> }
        /\ stPhase' = [stPhase EXCEPT ![c] = "fetching"]
    BY <1>7 DEF WsSubscribe
  <2>2. stIndex' = { p \in StSwaps \X WsConns : p[1] \in stSubs'[p[2]] }
    BY <2>1, SMTT(60)
  <2>. QED BY <2>1, <2>2
<1>8. ASSUME NEW c \in WsConns, NEW s \in StSwaps, WsUnsubscribe(c, s)
      PROVE  StIndexed'
  <2>1. /\ stSubs' = [stSubs EXCEPT ![c] = @ \ {s}] /\ stIndex' = stIndex \ { << s, c >> }
        /\ UNCHANGED stPhase
    BY <1>8 DEF WsUnsubscribe
  <2>2. stIndex' = { p \in StSwaps \X WsConns : p[1] \in stSubs'[p[2]] }
    BY <2>1, SMTT(60)
  <2>. QED BY <2>1, <2>2
<1>9. ASSUME NEW c \in WsConns, WsClose(c)
      PROVE  StIndexed'
  <2>1. /\ stSubs' = [stSubs EXCEPT ![c] = {}] /\ stIndex' = { p \in stIndex : p[2] # c }
        /\ stPhase' = [stPhase EXCEPT ![c] = "closed"]
    BY <1>9 DEF WsClose, ConnectionDropped
  <2>2. stIndex' = { p \in StSwaps \X WsConns : p[1] \in stSubs'[p[2]] }
    BY <2>1
  <2>. QED BY <2>1, <2>2
<1>10. ASSUME NEW c \in StConns, FetchFails(c)
       PROVE  StIndexed'
  BY <1>2, <1>10 DEF FetchFails, stWs
<1>11. ASSUME NEW d, WsDeliver(d) \/ SendTimesOut(d)
       PROVE  StIndexed'
  BY <1>1, <1>11 DEF WsDeliver, SendTimesOut
<1>12. ASSUME NEW e \in SseConns,
              SseOpen(e) \/ SseFetchHit(e) \/ SseFetchMiss(e) \/ SseRecv(e) \/ SseEnd(e)
       PROVE  StIndexed'
  <2>1. e \notin WsConns
    BY StAssumption
  <2>. QED BY <1>1, <1>2, <1>12, <2>1 DEF SseOpen, SseFetchHit, SseFetchMiss, SseRecv, SseEnd, stWs
<1>13. CASE UNCHANGED stVars
  BY <1>1, <1>13 DEF stVars
<1>. QED BY <1>3, <1>4, <1>5, <1>6, <1>7, <1>8, <1>9, <1>10, <1>11, <1>12, <1>13 DEF StNext

\* A connection that does not run has no subscriptions, so the index is what
\* IndexMatchesSubscriptions says.
LEMMA IndexedMatches ==
    ASSUME StIndexed
    PROVE  IndexMatchesSubscriptions
<1>1. ASSUME NEW p \in StSwaps \X WsConns
      PROVE  p \in stIndex <=> p[1] \in stSubs[p[2]] /\ stPhase[p[2]] \in { "open", "fetching" }
  BY DEF StIndexed, StConns
<1>2. stIndex \subseteq StSwaps \X WsConns
  BY DEF StIndexed
<1>3. stIndex = { p \in StSwaps \X WsConns :
                    p[1] \in stSubs[p[2]] /\ stPhase[p[2]] \in { "open", "fetching" } }
  BY <1>1, <1>2
<1>. QED BY <1>3 DEF IndexMatchesSubscriptions

-----------------------------------------------------------------------------
(* BOLT12 offers.                                                          *)

\* The owner of an offer is its last subscriber while that one is connected, and only
\* connections that were opened subscribe.
OfOwned ==
    /\ ofConn \in [OfConns -> { "new", "open", "closed" }]
    /\ ofOwner \in [Offers -> OfConns \cup { NoConn }]
    /\ ofLast \in [Offers -> OfConns \cup { NoConn }]
    /\ \A o \in Offers : ofLast[o] # NoConn => ofConn[ofLast[o]] # "new"
    /\ LastSubscriberOwnsOffer

\* Every step of the connections and the fetches keeps it: a fetch that looked up a
\* connection and finds it closed removes no entry of another one.
LEMMA OfOwnedStep ==
    ASSUME OfOwned, [OfNext]_ofVars
    PROVE  OfOwned'
<1> USE OfAssumption DEF OfOwned, LastSubscriberOwnsOffer
<1>1. ASSUME UNCHANGED << ofConn, ofOwner, ofLast >>
      PROVE  OfOwned'
  BY <1>1
<1>2. ASSUME NEW o \in Offers, NEW url,
             AddOffer(o, url) \/ UpdateOffer(o, url) \/ DeleteOffer(o)
      PROVE  OfOwned'
  BY <1>1, <1>2 DEF AddOffer, UpdateOffer, DeleteOffer, ofWs
<1>3. ASSUME NEW o \in Offers, NEW c \in OfConns, OffersSubscribe(c, o)
      PROVE  OfOwned'
  BY <1>3 DEF OffersSubscribe
<1>4. ASSUME NEW o \in Offers, NEW c \in OfConns, OffersUnsubscribe(c, o)
      PROVE  OfOwned'
  BY <1>4 DEF OffersUnsubscribe
<1>5. ASSUME NEW c \in OfConns, OfConnect(c)
      PROVE  OfOwned'
  BY <1>5 DEF OfConnect
<1>6. ASSUME NEW c \in OfConns, OfClose(c)
      PROVE  OfOwned'
  BY <1>6 DEF OfClose
<1>7. ASSUME NEW c \in OfConns, NEW f \in Fetches, NEW a,
             WsRequest(c, f) \/ ReceivedInvoiceResponse(c, f, a)
      PROVE  OfOwned'
  BY <1>1, <1>7 DEF WsRequest, ReceivedInvoiceResponse
<1>8. ASSUME NEW f \in Fetches, RequestSender(f)
      PROVE  OfOwned'
  <2>1. OfferOf[f] \in Offers
    OBVIOUS
  <2>2. CASE ofConn[ofVia[f]] = "open"
    BY <1>1, <1>8, <2>2 DEF RequestSender
  <2>3. CASE ofConn[ofVia[f]] # "open"
    <3>1. /\ UNCHANGED << ofConn, ofLast >>
          /\ ofOwner' = [ofOwner EXCEPT ![OfferOf[f]] = IF @ = ofVia[f] THEN NoConn ELSE @]
      BY <1>8, <2>3 DEF RequestSender
    <3>2. ofOwner[OfferOf[f]] = ofVia[f] => ofVia[f] = NoConn
      BY <2>1, <2>3
    <3>3. ofOwner' = ofOwner
      BY <2>1, <3>1, <3>2
    <3>. QED BY <1>1, <3>1, <3>3
  <2>. QED BY <2>2, <2>3
<1>9. ASSUME NEW f \in Fetches,
             \/ PendingExpires(f) \/ StartFetch(f) \/ ReceiverLags(f) \/ RequestLookup(f)
             \/ RequestSend(f) \/ RequestSendFails(f) \/ TakeAnswer(f, "waitWs")
             \/ WsTimeout(f)
      PROVE  OfOwned'
  BY <1>1, <1>9 DEF PendingExpires, StartFetch, ReceiverLags, RequestLookup, RequestSend,
                    RequestSendFails, TakeAnswer, WsTimeout, ofWs
<1>10. ASSUME NEW f \in Fetches, NEW a,
              \/ Webhook(f) \/ CallReturns(f) \/ TakeAnswer(f, "waitHook") \/ HookTimeout(f)
              \/ HandleResponse(f) \/ CallRetried(f, a)
       PROVE  OfOwned'
  BY <1>1, <1>10 DEF Webhook, CallReturns, TakeAnswer, HookTimeout, HandleResponse,
                     CallRetried, ofWs
<1>11. CASE UNCHANGED ofVars
  BY <1>1, <1>11 DEF ofVars
<1>. QED BY <1>2, <1>3, <1>4, <1>5, <1>6, <1>7, <1>8, <1>9, <1>10, <1>11 DEF OfNext, FetchStep

-----------------------------------------------------------------------------
(* The 0-conf tool of Liquid, over HTTP and over a WebSocket.              *)

\* The senders in an entry are the calls for its transaction that wait.
ZhWaiting ==
    /\ zhAnswer \in [ZhCalls -> { "new", "asked", "safe", "unsafe" }]
    /\ zhSenders \in [ZhTxs -> SUBSET ZhCalls]
    /\ zhToCheck \subseteq ZhTxs
    /\ \A t \in ZhTxs : \A c \in zhSenders[t] : ZhTxOf[c] = t /\ zhAnswer[c] = "asked"

\* Answering the senders of entries is a step of the abstract check.
LEMMA ZhSendRefines ==
    ASSUME ZhWaiting, NEW ts \in SUBSET ZhTxs, NEW verdict \in { "safe", "unsafe" },
           verdict = "safe" => ts \subseteq zhQuorum, ZhSend(ts, verdict),
           UNCHANGED zhQuorum
    PROVE  /\ HttpCheck!Next
           /\ zhAnswer' \in [ZhCalls -> { "new", "asked", "safe", "unsafe" }]
           /\ zhSenders' \in [ZhTxs -> SUBSET ZhCalls]
           /\ \A t \in ZhTxs : \A c \in zhSenders'[t] : ZhTxOf[c] = t /\ zhAnswer'[c] = "asked"
<1> DEFINE cs == { c \in ZhCalls : \E t \in ts : c \in zhSenders[t] }
<1>1. zhAnswer' = [c \in ZhCalls |-> IF c \in cs THEN verdict ELSE zhAnswer[c]]
  BY DEF ZhSend
<1>2. \A c \in cs : zhAnswer[c] = "asked" /\ ZhTxOf[c] \in ts
  BY DEF ZhWaiting
<1>3. zhSenders' = [t \in ZhTxs |-> IF t \in ts THEN {} ELSE zhSenders[t]]
  BY DEF ZhSend
<1>4. ASSUME NEW t \in ZhTxs, NEW c \in zhSenders'[t]
      PROVE  ZhTxOf[c] = t /\ zhAnswer'[c] = "asked"
  <2>1. t \notin ts /\ c \in zhSenders[t] /\ c \in ZhCalls
    BY <1>3, <1>4 DEF ZhWaiting
  <2>2. ZhTxOf[c] = t /\ zhAnswer[c] = "asked"
    BY <2>1 DEF ZhWaiting
  <2>3. c \notin cs
    BY <1>2, <2>1, <2>2
  <2>. QED BY <1>1, <2>1, <2>2, <2>3
<1>5. cs \in SUBSET ZhCalls /\ (verdict = "safe" => \A c \in cs : ZhTxOf[c] \in zhQuorum)
  BY <1>2
<1> HIDE DEF cs
<1>6. HttpCheck!Next
  BY <1>1, <1>2, <1>5 DEF HttpCheck!Next
<1>7. zhAnswer' \in [ZhCalls -> { "new", "asked", "safe", "unsafe" }]
  BY <1>1 DEF ZhWaiting
<1>8. zhSenders' \in [ZhTxs -> SUBSET ZhCalls]
  BY <1>3 DEF ZhWaiting
<1>. QED BY <1>4, <1>6, <1>7, <1>8

\* The HTTP transport implements it, for any calls, transactions, retries and failing
\* requests: a call that comes while the sweep asks about, clears or removes its entry
\* is answered once as well.
THEOREM HttpImplementsCheck == ZhSpec => HttpCheck!SafeSpec
<1>1. ZhInit => ZhWaiting /\ HttpCheck!Init
  BY DEF ZhInit, ZhWaiting, HttpCheck!Init
<1>2. ASSUME ZhWaiting, [ZhNext]_zhVars
      PROVE  ZhWaiting' /\ [HttpCheck!Next]_<<zhAnswer, zhQuorum>>
  <2>s. ASSUME NEW ts \in SUBSET ZhTxs, NEW verdict \in { "safe", "unsafe" },
               verdict = "safe" => ts \subseteq zhQuorum, ZhSend(ts, verdict),
               UNCHANGED zhQuorum, zhToCheck' \subseteq zhToCheck
        PROVE  ZhWaiting' /\ [HttpCheck!Next]_<<zhAnswer, zhQuorum>>
    <3>1. zhToCheck' \subseteq ZhTxs
      BY <1>2, <2>s DEF ZhWaiting
    <3>. QED BY <1>2, <2>s, <3>1, ZhSendRefines, SMTT(60) DEF ZhWaiting
  <2>u. ASSUME UNCHANGED << zhToCheck, zhSenders, zhAnswer, zhQuorum >>
        PROVE  ZhWaiting' /\ [HttpCheck!Next]_<<zhAnswer, zhQuorum>>
    BY <1>2, <2>u DEF ZhWaiting
  <2>1. ASSUME NEW c \in ZhCalls, ZhCheckTransaction(c)
        PROVE  ZhWaiting' /\ [HttpCheck!Next]_<<zhAnswer, zhQuorum>>
    <3>1. /\ zhAnswer[c] = "new" /\ zhAnswer' = [zhAnswer EXCEPT ![c] = "asked"]
          /\ zhSenders' = [zhSenders EXCEPT ![ZhTxOf[c]] = @ \cup { c }]
          /\ zhToCheck' = zhToCheck \cup { ZhTxOf[c] } /\ UNCHANGED zhQuorum
      BY <2>1 DEF ZhCheckTransaction
    <3>2. HttpCheck!Next
      BY <3>1 DEF HttpCheck!Next
    <3>3. ZhTxOf[c] \in ZhTxs
      BY ZhAssumption
    <3>4. /\ zhAnswer' \in [ZhCalls -> { "new", "asked", "safe", "unsafe" }]
          /\ zhSenders' \in [ZhTxs -> SUBSET ZhCalls] /\ zhToCheck' \subseteq ZhTxs
      BY <1>2, <3>1, <3>3 DEF ZhWaiting
    <3>5. ASSUME NEW t \in ZhTxs, NEW d \in zhSenders'[t]
          PROVE  ZhTxOf[d] = t /\ zhAnswer'[d] = "asked"
      <4>1. d \in zhSenders[t] \/ (d = c /\ t = ZhTxOf[c])
        BY <1>2, <3>1, <3>3, <3>5 DEF ZhWaiting
      <4>2. d \in zhSenders[t] => ZhTxOf[d] = t /\ zhAnswer[d] = "asked" /\ d \in ZhCalls
        BY <1>2 DEF ZhWaiting
      <4>. QED BY <1>2, <3>1, <4>1, <4>2, SMTT(60) DEF ZhWaiting
    <3>. QED BY <3>2, <3>4, <3>5 DEF ZhWaiting
  <2>2. ASSUME NEW t \in ZhTxs, ZhSeen(t)
        PROVE  ZhWaiting' /\ [HttpCheck!Next]_<<zhAnswer, zhQuorum>>
    <3>1. HttpCheck!Next
      BY <2>2 DEF ZhSeen, HttpCheck!Next
    <3>. QED BY <1>2, <2>2, <3>1 DEF ZhSeen, ZhWaiting
  <2>3. ASSUME NEW t \in ZhTxs, SweepReads(t)
        PROVE  ZhWaiting' /\ [HttpCheck!Next]_<<zhAnswer, zhQuorum>>
    <3>1. UNCHANGED << zhToCheck, zhQuorum >>
      BY <2>3 DEF SweepReads
    <3>2. CASE t \in zhQuorum /\ ZhSend({ t }, "safe")
      BY <2>s, <3>1, <3>2
    <3>3. CASE ZhSend({ t }, "unsafe")
      BY <2>s, <3>1, <3>3
    <3>4. CASE UNCHANGED << zhSenders, zhAnswer >>
      BY <2>u, <3>1, <3>4
    <3>. QED BY <2>3, <3>2, <3>3, <3>4 DEF SweepReads
  <2>4. ASSUME NEW t \in ZhTxs, RemoveEntry(t)
        PROVE  ZhWaiting' /\ [HttpCheck!Next]_<<zhAnswer, zhQuorum>>
    BY <2>s, <2>4 DEF RemoveEntry
  <2>5. CASE DrainSenders
    BY <1>2, <2>s, <2>5 DEF DrainSenders, ZhWaiting
  <2>6. CASE ClearToCheck
    BY <1>2, <2>s, <2>6 DEF ClearToCheck, ZhWaiting
  <2>7. CASE SweepStarts \/ SweepEnds \/ SweepSleeps \/ SweepFails
    BY <2>u, <2>7 DEF SweepStarts, SweepEnds, SweepSleeps, SweepFails
  <2>8. ASSUME NEW t \in ZhTxs, SweepAsks(t)
        PROVE  ZhWaiting' /\ [HttpCheck!Next]_<<zhAnswer, zhQuorum>>
    BY <2>u, <2>8 DEF SweepAsks
  <2>9. CASE UNCHANGED zhVars
    BY <2>u, <2>9 DEF zhVars
  <2>. QED BY <1>2, <2>1, <2>2, <2>3, <2>4, <2>5, <2>6, <2>7, <2>8, <2>9 DEF ZhNext, ZhTask
<1>. QED BY <1>1, <1>2, PTL DEF ZhSpec, HttpCheck!SafeSpec

-----------------------------------------------------------------------------
\* The senders in an entry are the calls for its transaction that wait.
ZwWaiting ==
    /\ zwAnswer \in [ZwCalls -> { "new", "asked", "safe", "unsafe" }]
    /\ zwToCheck \in [ZwTxs -> SUBSET ZwCalls]
    /\ zwDue \subseteq ZwTxs
    /\ \A t \in ZwTxs : \A c \in zwToCheck[t] : ZwTxOf[c] = t /\ zwAnswer[c] = "asked"

\* Deciding on entries is a step of the abstract check.
LEMMA DecideRefines ==
    ASSUME ZwWaiting, NEW ts \in SUBSET ZwTxs, NEW verdict \in { "safe", "unsafe" },
           verdict = "safe" => ts \subseteq zwQuorum, Decide(ts, verdict),
           UNCHANGED zwQuorum
    PROVE  WsCheck!Next /\ ZwWaiting'
<1> DEFINE cs == { c \in ZwCalls : \E t \in ts : c \in zwToCheck[t] }
<1>1. zwAnswer' = [c \in ZwCalls |-> IF c \in cs THEN verdict ELSE zwAnswer[c]]
  BY DEF Decide
<1>2. \A c \in cs : zwAnswer[c] = "asked" /\ ZwTxOf[c] \in ts
  BY DEF ZwWaiting
<1>3. zwToCheck' = [t \in ZwTxs |-> IF t \in ts THEN {} ELSE zwToCheck[t]]
  BY DEF Decide
<1>4. ASSUME NEW t \in ZwTxs, NEW c \in zwToCheck'[t]
      PROVE  ZwTxOf[c] = t /\ zwAnswer'[c] = "asked"
  <2>1. t \notin ts /\ c \in zwToCheck[t] /\ c \in ZwCalls
    BY <1>3, <1>4 DEF ZwWaiting
  <2>2. ZwTxOf[c] = t /\ zwAnswer[c] = "asked"
    BY <2>1 DEF ZwWaiting
  <2>3. c \notin cs
    BY <1>2, <2>1, <2>2
  <2>. QED BY <1>1, <2>1, <2>2, <2>3
<1>5. cs \in SUBSET ZwCalls /\ (verdict = "safe" => \A c \in cs : ZwTxOf[c] \in zwQuorum)
  BY <1>2
<1> HIDE DEF cs
<1>6. WsCheck!Next
  BY <1>1, <1>2, <1>5 DEF WsCheck!Next
<1>7. zwAnswer' \in [ZwCalls -> { "new", "asked", "safe", "unsafe" }]
  BY <1>1 DEF ZwWaiting
<1>8. zwToCheck' \in [ZwTxs -> SUBSET ZwCalls] /\ zwDue' \subseteq ZwTxs
  BY <1>3 DEF ZwWaiting, Decide
<1>. QED BY <1>4, <1>6, <1>7, <1>8 DEF ZwWaiting

\* A new call waits in the entry of its transaction.
LEMMA ZwCheckRefines ==
    ASSUME ZwWaiting, NEW c \in ZwCalls, ZwCheckTransaction(c)
    PROVE  WsCheck!Next /\ ZwWaiting'
<1>1. /\ zwAnswer[c] = "new" /\ zwAnswer' = [zwAnswer EXCEPT ![c] = "asked"]
      /\ zwToCheck' = [zwToCheck EXCEPT ![ZwTxOf[c]] = @ \cup { c }]
      /\ UNCHANGED << zwDue, zwQuorum >>
  BY DEF ZwCheckTransaction
<1>2. WsCheck!Next
  BY <1>1 DEF WsCheck!Next
<1>3. ZwTxOf[c] \in ZwTxs
  BY ZwAssumption
<1>4. /\ zwAnswer' \in [ZwCalls -> { "new", "asked", "safe", "unsafe" }]
      /\ zwToCheck' \in [ZwTxs -> SUBSET ZwCalls] /\ zwDue' \subseteq ZwTxs
  BY <1>1, <1>3 DEF ZwWaiting
<1>5. ASSUME NEW t \in ZwTxs, NEW d \in zwToCheck'[t]
      PROVE  ZwTxOf[d] = t /\ zwAnswer'[d] = "asked"
  <2>1. d \in zwToCheck[t] \/ (d = c /\ t = ZwTxOf[c])
    BY <1>1, <1>3, <1>5 DEF ZwWaiting
  <2>2. d \in zwToCheck[t] => ZwTxOf[d] = t /\ zwAnswer[d] = "asked" /\ d \in ZwCalls
    BY DEF ZwWaiting
  <2>. QED BY <1>1, <2>1, <2>2, SMTT(60) DEF ZwWaiting
<1>. QED BY <1>2, <1>4, <1>5 DEF ZwWaiting

\* Every other step leaves the calls alone, or only marks an entry as due.
LEMMA ZwStepRefines ==
    ASSUME ZwWaiting, [ZwNext]_zwVars
    PROVE  ZwWaiting' /\ [WsCheck!Next]_<<zwAnswer, zwQuorum>>
<1>u. ASSUME UNCHANGED << zwToCheck, zwAnswer, zwQuorum >>, zwDue' \subseteq ZwTxs
      PROVE  ZwWaiting' /\ [WsCheck!Next]_<<zwAnswer, zwQuorum>>
  BY <1>u DEF ZwWaiting
<1>1. ASSUME NEW c \in ZwCalls, ZwCheckTransaction(c)
      PROVE  ZwWaiting' /\ [WsCheck!Next]_<<zwAnswer, zwQuorum>>
  BY <1>1, ZwCheckRefines
<1>2. ASSUME NEW t \in ZwTxs, ZwSeen(t)
      PROVE  ZwWaiting' /\ [WsCheck!Next]_<<zwAnswer, zwQuorum>>
  <2>1. WsCheck!Next
    BY <1>2 DEF ZwSeen, zwCalls, WsCheck!Next
  <2>. QED BY <1>2, <2>1 DEF ZwSeen, zwCalls, ZwWaiting
<1>3. ASSUME NEW t \in ZwTxs, DeadlinePasses(t)
      PROVE  ZwWaiting' /\ [WsCheck!Next]_<<zwAnswer, zwQuorum>>
  BY <1>u, <1>3 DEF DeadlinePasses, ZwWaiting
<1>4. ASSUME NEW t \in ZwTxs, HandleMessage(t)
      PROVE  ZwWaiting' /\ [WsCheck!Next]_<<zwAnswer, zwQuorum>>
  <2>1. CASE t \in zwQuorum /\ Decide({ t }, "safe")
    BY <1>4, <2>1, DecideRefines DEF HandleMessage
  <2>2. CASE Decide({ t }, "unsafe")
    BY <1>4, <2>2, DecideRefines DEF HandleMessage
  <2>. QED BY <1>4, <2>1, <2>2 DEF HandleMessage
<1>5. CASE ExpireDeadlines
  <2>1. zwDue \in SUBSET ZwTxs
    BY DEF ZwWaiting
  <2>. QED BY <1>5, <2>1, DecideRefines DEF ExpireDeadlines
<1>6. ASSUME UNCHANGED << zwCalls, zwQuorum >>
      PROVE  ZwWaiting' /\ [WsCheck!Next]_<<zwAnswer, zwQuorum>>
  BY <1>u, <1>6 DEF zwCalls, ZwWaiting
<1>7. ASSUME NEW t \in ZwTxs, Reconciles(t)
      PROVE  ZwWaiting' /\ [WsCheck!Next]_<<zwAnswer, zwQuorum>>
  BY <1>6, <1>7 DEF Reconciles
<1>8. CASE \/ Connects \/ Reconciled \/ ConnectionBreaks \/ HandleCommand \/ Unsubscribes
           \/ RotationStarts \/ ReplacementConnects \/ RotationFails \/ RotationEnds
  BY <1>6, <1>8 DEF Connects, Reconciled, ConnectionBreaks, HandleCommand, Unsubscribes,
                    RotationStarts, ReplacementConnects, RotationFails, RotationEnds
<1>9. CASE UNCHANGED zwVars
  BY <1>6, <1>9 DEF zwVars, zwCalls
<1>. QED BY <1>1, <1>2, <1>3, <1>4, <1>5, <1>7, <1>8, <1>9 DEF ZwNext

\* The WebSocket transport implements it too, for any calls, transactions and failing
\* connections: a reconnect or a rotation between a check and its answer included.
THEOREM WsImplementsCheck == ZwSpec => WsCheck!SafeSpec
<1>1. ZwInit => ZwWaiting /\ WsCheck!Init
  BY DEF ZwInit, ZwWaiting, WsCheck!Init
<1>. QED BY <1>1, ZwStepRefines, PTL DEF ZwSpec, WsCheck!SafeSpec

-----------------------------------------------------------------------------
\* What is pending in every phase of the worker: PendingIsSubscribed for "select", and
\* what leads back to it from the others.
ZwListens ==
    /\ zwPhase \in WsPhases /\ zwCmds \in Seq(ZwTxs)
    /\ zwPhase \in { "select", "rotate", "takeOver" } =>
         PendingTxs \subseteq zwSubscribed \cup Range(zwCmds)
    /\ zwPhase = "reconcile" => PendingTxs \subseteq zwSubscribed \cup zwWork \cup Range(zwCmds)
    /\ zwPhase = "unsubscribe" =>
         PendingTxs \subseteq (zwSubscribed \ zwWork) \cup Range(zwCmds)
    /\ zwPhase = "takeOver" => PendingTxs \subseteq zwReplacement \cup Range(zwCmds)

\* A command is added at the end of the queue and taken from its front.
LEMMA Commands ==
    ASSUME NEW q \in Seq(ZwTxs), NEW t \in ZwTxs
    PROVE  /\ Append(q, t) \in Seq(ZwTxs) /\ Range(Append(q, t)) = Range(q) \cup { t }
           /\ q # << >> => /\ Tail(q) \in Seq(ZwTxs)
                           /\ Range(q) \subseteq { Head(q) } \cup Range(Tail(q))
<1>1. /\ Append(q, t) \in Seq(ZwTxs) /\ Len(Append(q, t)) = Len(q) + 1
      /\ Append(q, t)[Len(q) + 1] = t /\ \A i \in 1 .. Len(q) : Append(q, t)[i] = q[i]
  BY SMTT(60)
<1>2. Range(Append(q, t)) = Range(q) \cup { t }
  BY <1>1, SMTT(60) DEF Range
<1>3. ASSUME q # << >>
      PROVE  Tail(q) \in Seq(ZwTxs) /\ Range(q) \subseteq { Head(q) } \cup Range(Tail(q))
  <2> DEFINE r == Tail(q)
  <2>1. /\ r \in Seq(ZwTxs) /\ Head(q) = q[1] /\ DOMAIN q = 1 .. Len(q)
        /\ \A i \in 1 .. Len(q) : i # 1 => i - 1 \in DOMAIN r /\ r[i - 1] = q[i]
    BY <1>3, SMTT(60)
  <2> HIDE DEF r
  <2>2. ASSUME NEW x \in Range(q), x # q[1]
        PROVE  x \in Range(r)
    <3>1. PICK i \in DOMAIN q : x = q[i]
      BY DEF Range
    <3>2. i - 1 \in DOMAIN r /\ r[i - 1] = x
      BY <2>1, <2>2, <3>1
    <3>. QED BY <3>2 DEF Range
  <2>. QED BY <2>1, <2>2 DEF r
<1>. QED BY <1>1, <1>2, <1>3

\* Every step of the worker, and every call that comes between two, keeps it.
LEMMA ZwListensStep ==
    ASSUME ZwWaiting, ZwListens, [ZwNext]_zwVars
    PROVE  ZwListens'
<1> USE DEF ZwListens, WsPhases
<1>p. ASSUME zwToCheck' = zwToCheck
      PROVE  PendingTxs' = PendingTxs
  BY <1>p DEF PendingTxs
<1>q. ASSUME NEW ts, NEW verdict, Decide(ts, verdict)
      PROVE  PendingTxs' = PendingTxs \ ts
  BY <1>q DEF PendingTxs, Decide, ZwWaiting
<1>1. ASSUME NEW c \in ZwCalls, ZwCheckTransaction(c)
      PROVE  ZwListens'
  <2>1. /\ ZwTxOf[c] \in ZwTxs /\ zwCmds' = Append(zwCmds, ZwTxOf[c])
        /\ zwToCheck' = [zwToCheck EXCEPT ![ZwTxOf[c]] = @ \cup { c }]
        /\ UNCHANGED << zwPhase, zwSubscribed, zwReplacement, zwWork >>
    BY <1>1, ZwAssumption DEF ZwCheckTransaction
  <2>2. PendingTxs' \subseteq PendingTxs \cup { ZwTxOf[c] }
    BY <2>1 DEF PendingTxs, ZwWaiting
  <2>3. zwCmds' \in Seq(ZwTxs) /\ Range(zwCmds') = Range(zwCmds) \cup { ZwTxOf[c] }
    BY <2>1, Commands
  <2>. QED BY <2>1, <2>2, <2>3
<1>2. ASSUME UNCHANGED << zwToCheck, zwCmds, zwPhase, zwSubscribed, zwReplacement, zwWork >>
      PROVE  ZwListens'
  BY <1>p, <1>2
<1>3. ASSUME NEW t \in ZwTxs, ZwSeen(t) \/ DeadlinePasses(t)
      PROVE  ZwListens'
  BY <1>2, <1>3 DEF ZwSeen, DeadlinePasses, zwCalls
<1>4. ASSUME NEW t \in ZwTxs, Reconciles(t)
      PROVE  ZwListens'
  BY <1>p, <1>4 DEF Reconciles, zwCalls
<1>5. ASSUME NEW t \in ZwTxs, HandleMessage(t)
      PROVE  ZwListens'
  <2>1. PendingTxs' = PendingTxs \ { t }
    BY <1>q, <1>5 DEF HandleMessage
  <2>. QED BY <1>5, <2>1 DEF HandleMessage
<1>6. CASE Connects
  BY <1>p, <1>6 DEF Connects, zwCalls
<1>7. CASE Reconciled \/ RotationStarts \/ RotationFails
  BY <1>p, <1>7 DEF Reconciled, RotationStarts, RotationFails, zwCalls
<1>8. CASE ConnectionBreaks
  BY <1>p, <1>8 DEF ConnectionBreaks, zwCalls
<1>9. CASE HandleCommand
  <2>1. /\ zwCmds # << >> /\ zwCmds' = Tail(zwCmds) /\ zwPhase = "select"
        /\ zwSubscribed' = IF Head(zwCmds) \in PendingTxs
                           THEN zwSubscribed \cup { Head(zwCmds) } ELSE zwSubscribed
        /\ UNCHANGED << zwPhase, zwReplacement, zwWork >>
    BY <1>9 DEF HandleCommand
  <2>2. Head(zwCmds) \in ZwTxs
    BY <2>1, SMTT(60)
  <2>3. zwCmds' \in Seq(ZwTxs) /\ Range(zwCmds) \subseteq { Head(zwCmds) } \cup Range(zwCmds')
    BY <2>1, <2>2, Commands
  <2>4. PendingTxs' = PendingTxs
    BY <1>p, <1>9 DEF HandleCommand, zwCalls
  <2>. QED BY <2>1, <2>3, <2>4
<1>10. CASE ExpireDeadlines
  <2>1. PendingTxs' = PendingTxs \ zwDue
    BY <1>q, <1>10 DEF ExpireDeadlines
  <2>. QED BY <1>10, <2>1 DEF ExpireDeadlines
<1>11. CASE Unsubscribes
  BY <1>p, <1>11 DEF Unsubscribes, zwCalls
<1>12. CASE ReplacementConnects
  BY <1>p, <1>12 DEF ReplacementConnects, zwCalls
<1>13. CASE RotationEnds
  BY <1>p, <1>13 DEF RotationEnds, zwCalls
<1>14. CASE UNCHANGED zwVars
  BY <1>2, <1>14 DEF zwVars
<1>. QED BY <1>1, <1>3, <1>4, <1>5, <1>6, <1>7, <1>8, <1>9, <1>10, <1>11, <1>12, <1>13, <1>14
         DEF ZwNext

-----------------------------------------------------------------------------
\* The maps by which updates, requests and verdicts are sent agree with who asked for
\* them and is still there: the index of StatusSubscriptions, the owner of a BOLT12
\* offer, and the transactions the 0-conf WebSocket is subscribed to.
SubscriptionsAreConsistent ==
    IndexMatchesSubscriptions /\ LastSubscriberOwnsOffer /\ PendingIsSubscribed

\* For any swaps, offers, calls and connections, and however the connections come, go,
\* break or rotate, the three maps agree with their subscribers.
THEOREM SubscriptionsConsistent ==
    StSpec /\ OfSpec /\ ZwSpec => []SubscriptionsAreConsistent
<1>1. StInit => StIndexed
  BY DEF StInit, StIndexed, StConns
<1>2. OfInit => OfOwned
  BY OfAssumption, SMTT(60) DEF OfInit, OfOwned, LastSubscriberOwnsOffer
<1>3. ZwInit => ZwWaiting /\ ZwListens
  BY SMTT(60) DEF ZwInit, ZwWaiting, ZwListens, WsPhases
<1>4. OfOwned => LastSubscriberOwnsOffer
  BY DEF OfOwned
<1>5. ZwListens => PendingIsSubscribed
  BY DEF ZwListens, PendingIsSubscribed
<1>6. IndexMatchesSubscriptions /\ LastSubscriberOwnsOffer /\ PendingIsSubscribed
        => SubscriptionsAreConsistent
  BY DEF SubscriptionsAreConsistent
<1>. QED BY <1>1, <1>2, <1>3, <1>4, <1>5, <1>6, StIndexedStep, IndexedMatches, OfOwnedStep,
            ZwStepRefines, ZwListensStep, PTL DEF StSpec, OfSpec, ZwSpec
=============================================================================
