------------------------- MODULE DeferredWorkProofs -------------------------
(***************************************************************************)
(* Proofs about work that is put off and come back to: hooks to call again *)
(* (WebhookCaller), refunds to bump (RefundBumper) and swaps to claim in a *)
(* batch (DeferredClaimer), for every set of them, every limit and any     *)
(* number of faults.                                                       *)
(***************************************************************************)
EXTENDS WebhookCaller, RefundBumper, DeferredClaimer, TLAPS

-----------------------------------------------------------------------------
(* WebhookCaller: undelivered statuses are kept.                           *)

WhTyped ==
    /\ DOMAIN whState = Hooks /\ whStatus \in [Hooks -> Nat]
    /\ DOMAIN whTold = Hooks
    /\ whOwed \in [Hooks -> SUBSET Nat]
    /\ \A h \in Hooks : \A s \in whOwed[h] : s <= whStatus[h]
    /\ whCalls \subseteq [hook : Hooks, status : Nat, retry : BOOLEAN, posted : BOOLEAN]

\* A call is for a status the swap had, and one that was posted reached the endpoint.
CallsAreForStatuses ==
    \A c \in whCalls : /\ c.status <= whStatus[c.hook]
                       /\ c.posted => c.status \in whTold[c.hook]

\* The current status of h is undelivered and no call carries it.
Undelivered(h) ==
    /\ whState[h] # "absent" /\ whStatus[h] \in Included[h]
    /\ whStatus[h] \notin whTold[h] \cup whOwed[h]
    /\ \A c \in whCalls : c.hook = h => c.status # whStatus[h]

GivenUpOrFailed(h) == whState[h] \in { "failed", "abandoned" }

WhInv == WhTyped /\ CallsAreForStatuses /\ UndeliveredIsKept

\* Zenon is tried on every step that names no prover; most steps with arithmetic name SMT.
USE ZenonT(120)

\* The property, hook by hook, in this state and in the next one.
LEMMA WhKept ==
    UndeliveredIsKept <=>
      \A h \in StatusHooks \ whMasked : Undelivered(h) => GivenUpOrFailed(h)
  BY DEF UndeliveredIsKept, Undelivered, GivenUpOrFailed

LEMMA WhKeptNext ==
    UndeliveredIsKept' <=>
      \A h \in StatusHooks \ whMasked' : Undelivered(h)' => GivenUpOrFailed(h)'
  BY DEF UndeliveredIsKept, Undelivered, GivenUpOrFailed

\* The backend's part: registering, writing and announcing.
LEMMA WhBackendStep ==
    ASSUME WhInv, NEW h \in Hooks,
           \/ CreateWebHook(h) \/ DeleteWebHook(h) \/ WriteStatus(h)
           \/ \E s \in whOwed[h] : AnnounceLost(h, s) \/ SendWebHook(h, s)
    PROVE  WhInv'
  <1>1. WhTyped /\ CallsAreForStatuses
        /\ \A g \in StatusHooks \ whMasked : Undelivered(g) => GivenUpOrFailed(g)
    BY WhKept DEF WhInv
  <1>2. \A g \in StatusHooks : g \in Hooks /\ 0 \notin Included[g]
    BY WhAssumption, SMTT(60) DEF Hooks
  <1>3. CASE CreateWebHook(h) \/ DeleteWebHook(h)
    <2>1. /\ whStatus[h] = 0 /\ whState' = [whState EXCEPT ![h] = whState'[h]]
          /\ UNCHANGED << whStatus, whOwed, whCalls, whTold, whMasked >>
      BY <1>1, <1>3 DEF CreateWebHook, DeleteWebHook, WhTyped
    <2>2. WhTyped' /\ CallsAreForStatuses'
      BY <1>1, <2>1 DEF WhTyped, CallsAreForStatuses
    <2>3. UndeliveredIsKept'
      BY <1>1, <1>2, <2>1, WhKeptNext DEF Undelivered, GivenUpOrFailed, WhTyped
    <2> QED BY <2>2, <2>3 DEF WhInv
  <1>4. CASE WriteStatus(h)
    <2>1. /\ whStatus' = [whStatus EXCEPT ![h] = @ + 1]
          /\ whOwed' = [whOwed EXCEPT ![h] = @ \cup { whStatus[h] + 1 }]
          /\ UNCHANGED << whState, whCalls, whTold, whMasked >>
      BY <1>4 DEF WriteStatus
    <2>2. /\ whStatus' \in [Hooks -> Nat] /\ whOwed' \in [Hooks -> SUBSET Nat]
          /\ whStatus'[h] = whStatus[h] + 1 /\ whOwed'[h] = whOwed[h] \cup { whStatus[h] + 1 }
          /\ \A g \in Hooks \ { h } : whStatus'[g] = whStatus[g] /\ whOwed'[g] = whOwed[g]
      BY <1>1, <2>1, SMTT(60) DEF WhTyped
    <2>3. \A g \in Hooks : whStatus[g] \in Nat /\ whStatus[g] <= whStatus'[g]
      BY <1>1, <2>2, SMTT(60) DEF WhTyped
    <2>4. WhTyped'
      BY <1>1, <2>1, <2>2, <2>3, SMTT(60) DEF WhTyped
    <2>5. CallsAreForStatuses'
      BY <1>1, <2>1, <2>2, <2>3, SMTT(60) DEF WhTyped, CallsAreForStatuses
    <2>6. UndeliveredIsKept'
      BY <1>1, <1>2, <2>1, <2>2, WhKeptNext DEF Undelivered, GivenUpOrFailed
    <2> QED BY <2>4, <2>5, <2>6 DEF WhInv
  <1>5. ASSUME NEW s \in whOwed[h], AnnounceLost(h, s) PROVE WhInv'
    <2>1. /\ whOwed' = [whOwed EXCEPT ![h] = @ \ { s }] /\ whMasked' = whMasked \cup { h }
          /\ UNCHANGED << whState, whStatus, whCalls, whTold >>
      BY <1>5 DEF AnnounceLost
    <2>2. WhTyped' /\ CallsAreForStatuses'
      BY <1>1, <2>1 DEF WhTyped, CallsAreForStatuses
    <2>3. UndeliveredIsKept'
      BY <1>1, <1>2, <2>1, WhKeptNext DEF Undelivered, GivenUpOrFailed, WhTyped
    <2> QED BY <2>2, <2>3 DEF WhInv
  <1>6. ASSUME NEW s \in whOwed[h], SendWebHook(h, s) PROVE WhInv'
    <2> DEFINE call == [hook |-> h, status |-> s, retry |-> FALSE, posted |-> FALSE]
    <2>1. /\ whOwed' = [whOwed EXCEPT ![h] = @ \ { s }]
          /\ whCalls' = IF h \in StatusHooks /\ whState[h] = "absent" THEN whCalls
                        ELSE whCalls \cup { call }
          /\ UNCHANGED << whState, whStatus, whMasked, whTold >>
      BY <1>6 DEF SendWebHook
    <2>2. s \in Nat /\ s <= whStatus[h]
      BY <1>1 DEF WhTyped
    <2>3. call \in [hook : Hooks, status : Nat, retry : BOOLEAN, posted : BOOLEAN]
          /\ call.hook = h /\ call.status = s /\ ~call.posted
      BY <2>2
    <2> HIDE DEF call
    <2>4. whCalls \subseteq whCalls' /\ whCalls' \subseteq whCalls \cup { call }
          /\ ((h \in StatusHooks /\ whState[h] = "absent") \/ call \in whCalls')
      BY <2>1
    <2>5. WhTyped'
      BY <1>1, <2>1, <2>3, <2>4 DEF WhTyped
    <2>6. CallsAreForStatuses'
      BY <1>1, <2>1, <2>2, <2>3, <2>4 DEF CallsAreForStatuses
    <2>7. whOwed'[h] = whOwed[h] \ { s } /\ \A g \in Hooks \ { h } : whOwed'[g] = whOwed[g]
      BY <1>1, <2>1 DEF WhTyped
    <2>8. \A g \in StatusHooks : Undelivered(g)' => Undelivered(g)
      BY <1>2, <2>1, <2>3, <2>4, <2>7 DEF Undelivered
    <2>9. UndeliveredIsKept'
      BY <1>1, <2>1, <2>8, WhKeptNext DEF GivenUpOrFailed
    <2> QED BY <2>5, <2>6, <2>9 DEF WhInv
  <1> QED BY <1>3, <1>4, <1>5, <1>6

\* What every end of a call does to the calls, and to the rest of the state.
LEMMA WhCallGone ==
    ASSUME WhTyped, CallsAreForStatuses, NEW c \in whCalls,
           whCalls' = whCalls \ { c }, UNCHANGED << whStatus, whOwed, whTold >>,
           DOMAIN whState' = Hooks
    PROVE  WhTyped' /\ CallsAreForStatuses'
  BY DEF WhTyped, CallsAreForStatuses

\* call_webhook.
LEMMA WhCallStep ==
    ASSUME WhInv, NEW c \in whCalls, Post(c) \/ CallEnds(c) \/ WriteFails(c)
    PROVE  WhInv'
  <1>1. WhTyped /\ CallsAreForStatuses
        /\ \A g \in StatusHooks \ whMasked : Undelivered(g) => GivenUpOrFailed(g)
    BY WhKept DEF WhInv
  <1>2. \A g \in StatusHooks : g \in Hooks
    BY DEF Hooks
  <1>3. /\ c \in [hook : Hooks, status : Nat, retry : BOOLEAN, posted : BOOLEAN]
        /\ c.hook \in Hooks /\ c.status \in Nat /\ c.status <= whStatus[c.hook]
        /\ whStatus[c.hook] \in Nat
    BY <1>1 DEF WhTyped, CallsAreForStatuses
  <1>4. CASE Post(c)
    <2> DEFINE posted == [c EXCEPT !.posted = TRUE]
    <2>1. /\ whCalls' = (whCalls \ { c }) \cup { posted }
          /\ whTold' = [whTold EXCEPT ![c.hook] = @ \cup { c.status }]
          /\ UNCHANGED << whState, whStatus, whOwed, whMasked >>
      BY <1>4 DEF Post
    <2>2. posted \in [hook : Hooks, status : Nat, retry : BOOLEAN, posted : BOOLEAN]
          /\ posted.hook = c.hook /\ posted.status = c.status
      BY <1>3
    <2> HIDE DEF posted
    <2>3. /\ DOMAIN whTold' = Hooks /\ c.status \in whTold'[c.hook]
          /\ \A g \in Hooks : whTold[g] \subseteq whTold'[g]
      BY <1>1, <1>3, <2>1 DEF WhTyped
    <2>4. WhTyped'
      BY <1>1, <2>1, <2>2, <2>3 DEF WhTyped
    <2>5. CallsAreForStatuses'
      BY <1>1, <1>3, <2>1, <2>2, <2>3 DEF WhTyped, CallsAreForStatuses
    <2>6. \A g \in StatusHooks : Undelivered(g)' => Undelivered(g)
      BY <1>2, <1>3, <2>1, <2>3 DEF Undelivered
    <2>7. UndeliveredIsKept'
      BY <1>1, <2>1, <2>6, WhKeptNext DEF GivenUpOrFailed
    <2> QED BY <2>4, <2>5, <2>7 DEF WhInv
  <1>5. CASE CallSkipped(c)
    <2>1. /\ whCalls' = whCalls \ { c } /\ ShouldBeSkipped(c)
          /\ UNCHANGED << whState, whStatus, whOwed, whTold, whMasked >>
      BY <1>5 DEF CallSkipped, Returned
    <2>2. WhTyped' /\ CallsAreForStatuses'
      BY <1>1, <2>1, WhCallGone DEF WhTyped
    <2>3. \A g \in StatusHooks : Undelivered(g)' => Undelivered(g)
      BY <2>1 DEF Undelivered, ShouldBeSkipped
    <2>4. UndeliveredIsKept'
      BY <1>1, <2>1, <2>3, WhKeptNext DEF GivenUpOrFailed
    <2> QED BY <2>2, <2>4 DEF WhInv
  <1>6. CASE IpCheckFails(c) \/ WriteFails(c)
    <2>1. /\ whCalls' = whCalls \ { c } /\ whMasked \subseteq whMasked'
          /\ c.hook \in whMasked' \/ whState[c.hook] = "failed"
          /\ UNCHANGED << whState, whStatus, whOwed, whTold >>
      BY <1>6 DEF IpCheckFails, WriteFails, Returned
    <2>2. WhTyped' /\ CallsAreForStatuses'
      BY <1>1, <2>1, WhCallGone DEF WhTyped
    <2>3. \A g \in StatusHooks \ { c.hook } : Undelivered(g)' => Undelivered(g)
      BY <2>1 DEF Undelivered
    <2>4. UndeliveredIsKept'
      BY <1>1, <2>1, <2>3, WhKeptNext DEF GivenUpOrFailed
    <2> QED BY <2>2, <2>4 DEF WhInv
  <1>7. CASE CallFails(c)
    <2>1. /\ whCalls' = whCalls \ { c } /\ whState' = SetState(c.hook, "failed")
          /\ UNCHANGED << whStatus, whOwed, whTold, whMasked >>
      BY <1>7 DEF CallFails, Returned
    <2>2. /\ DOMAIN whState' = Hooks /\ \A g \in Hooks \ { c.hook } : whState'[g] = whState[g]
          /\ c.hook \in StatusHooks => whState'[c.hook] \in { "absent", "failed" }
      BY <1>1, <1>3, <2>1 DEF WhTyped, SetState, SetRowState
    <2>3. WhTyped' /\ CallsAreForStatuses'
      BY <1>1, <2>1, <2>2, WhCallGone
    <2>4. \A g \in StatusHooks \ { c.hook } : Undelivered(g)' => Undelivered(g)
      BY <1>2, <2>1, <2>2 DEF Undelivered
    <2>5. c.hook \in StatusHooks /\ Undelivered(c.hook)' => GivenUpOrFailed(c.hook)'
      BY <2>2 DEF Undelivered, GivenUpOrFailed
    <2>6. UndeliveredIsKept'
      BY <1>1, <1>2, <2>1, <2>2, <2>4, <2>5, WhKeptNext DEF GivenUpOrFailed
    <2> QED BY <2>3, <2>6 DEF WhInv
  <1>8. CASE CallSucceeds(c)
    <2>1. /\ whCalls' = whCalls \ { c } /\ c.posted /\ whState' = SetState(c.hook, "ok")
          /\ whMasked' = IF /\ whState[c.hook] \in { "failed", "abandoned" }
                            /\ whStatus[c.hook] > c.status
                         THEN whMasked \cup { c.hook } ELSE whMasked
          /\ UNCHANGED << whStatus, whOwed, whTold >>
      BY <1>8 DEF CallSucceeds, Returned
    <2>2. /\ DOMAIN whState' = Hooks /\ \A g \in Hooks \ { c.hook } : whState'[g] = whState[g]
          /\ (c.hook \in StatusHooks /\ whState[c.hook] = "absent") => whState'[c.hook] = "absent"
      BY <1>1, <1>3, <2>1 DEF WhTyped, SetState, SetRowState
    <2>3. WhTyped' /\ CallsAreForStatuses'
      BY <1>1, <2>1, <2>2, WhCallGone
    <2>4. c.status \in whTold[c.hook]
      BY <1>1, <2>1 DEF CallsAreForStatuses
    <2>5. \A g \in StatusHooks : Undelivered(g)' => Undelivered(g)
      BY <1>2, <1>3, <2>1, <2>2, <2>4 DEF Undelivered
    <2>6. \A g \in StatusHooks \ { c.hook } : GivenUpOrFailed(g)' <=> GivenUpOrFailed(g)
      BY <1>2, <2>2 DEF GivenUpOrFailed
    <2>7. whMasked \subseteq whMasked'
      BY <2>1
    <2>8. ASSUME c.hook \in StatusHooks \ whMasked', Undelivered(c.hook)' PROVE FALSE
      <3>1. Undelivered(c.hook) /\ whStatus[c.hook] # c.status
        BY <2>1, <2>4, <2>5, <2>8 DEF Undelivered
      <3>2. whStatus[c.hook] > c.status
        BY <1>3, <3>1, SMTT(60)
      <3>3. whState[c.hook] \in { "failed", "abandoned" }
        BY <1>1, <2>7, <2>8, <3>1 DEF GivenUpOrFailed
      <3> QED BY <2>1, <2>8, <3>2, <3>3
    <2>9. UndeliveredIsKept'
      BY <1>1, <2>5, <2>6, <2>7, <2>8, WhKeptNext
    <2> QED BY <2>3, <2>9 DEF WhInv
  <1> QED BY <1>4, <1>5, <1>6, <1>7, <1>8 DEF CallEnds

\* The retry loop: what it gives up is abandoned, what it retries has a call.
LEMMA WhRetryStep ==
    ASSUME WhInv, (\E h \in Hooks : RetryCall(h)) \/ (\E r \in whFailed : CountRetry(r))
                  \/ StartWebHookRetries \/ StartRound \/ EndRound \/ StreamFails \/ UNCHANGED whVars
    PROVE  WhInv'
  <1>1. WhTyped /\ CallsAreForStatuses
        /\ \A g \in StatusHooks \ whMasked : Undelivered(g) => GivenUpOrFailed(g)
    BY WhKept DEF WhInv
  <1>2. \A g \in StatusHooks : g \in Hooks
    BY DEF Hooks
  <1>3. ASSUME NEW h, whState' = SetState(h, "abandoned") \/ UNCHANGED whState,
               UNCHANGED << whStatus, whOwed, whCalls, whTold, whMasked >>
        PROVE  WhInv'
    <2>1. /\ DOMAIN whState' = Hooks /\ \A g \in Hooks \ { h } : whState'[g] = whState[g]
          /\ (h \in StatusHooks) => whState'[h] \in { whState[h], "abandoned" }
          /\ (h \in StatusHooks /\ whState[h] = "absent") => whState'[h] = "absent"
      BY <1>1, <1>2, <1>3 DEF WhTyped, SetState, SetRowState
    <2>2. WhTyped' /\ CallsAreForStatuses'
      BY <1>1, <1>3, <2>1 DEF WhTyped, CallsAreForStatuses
    <2>3. \A g \in StatusHooks : Undelivered(g)' => Undelivered(g)
      BY <1>2, <1>3, <2>1 DEF Undelivered
    <2>4. \A g \in StatusHooks : GivenUpOrFailed(g) => GivenUpOrFailed(g)'
      BY <1>2, <2>1 DEF GivenUpOrFailed
    <2>5. UndeliveredIsKept'
      BY <1>1, <1>3, <2>3, <2>4, WhKeptNext
    <2> QED BY <2>2, <2>5 DEF WhInv
  <1>4. ASSUME NEW h \in Hooks, RetryCall(h) PROVE WhInv'
    <2>1. CASE GetRetryData(h) = 0
      BY <1>3, <1>4, <2>1 DEF RetryCall
    <2>2. CASE GetRetryData(h) # 0
      <3> DEFINE call == [hook |-> h, status |-> whStatus[h], retry |-> TRUE, posted |-> FALSE]
      <3>1. whCalls' = whCalls \cup { call }
            /\ UNCHANGED << whState, whStatus, whOwed, whTold, whMasked >>
        BY <1>4, <2>2 DEF RetryCall, GetRetryData
      <3>2. call \in [hook : Hooks, status : Nat, retry : BOOLEAN, posted : BOOLEAN]
            /\ call.hook = h /\ call.status = whStatus[h] /\ ~call.posted /\ whStatus[h] \in Nat
        BY <1>1 DEF WhTyped
      <3> HIDE DEF call
      <3>3. WhTyped' /\ CallsAreForStatuses'
        BY <1>1, <3>1, <3>2, SMTT(60) DEF WhTyped, CallsAreForStatuses
      <3>4. \A g \in StatusHooks : Undelivered(g)' => Undelivered(g)
        BY <3>1 DEF Undelivered
      <3>5. UndeliveredIsKept'
        BY <1>1, <3>1, <3>4, WhKeptNext DEF GivenUpOrFailed
      <3> QED BY <3>3, <3>5 DEF WhInv
    <2> QED BY <2>1, <2>2
  <1>5. ASSUME NEW r \in whFailed, CountRetry(r) PROVE WhInv'
    BY <1>3, <1>5 DEF CountRetry
  <1>6. CASE StartWebHookRetries \/ StartRound \/ EndRound \/ StreamFails \/ UNCHANGED whVars
    BY <1>3, <1>6 DEF StartWebHookRetries, StartRound, EndRound, StreamFails, whVars
  <1> QED BY <1>4, <1>5, <1>6

\* What a restart loses is what was in memory.
LEMMA WhRestartStep ==
    ASSUME WhInv, WhRestart
    PROVE  WhInv'
  <1>1. WhTyped /\ CallsAreForStatuses
        /\ \A g \in StatusHooks \ whMasked : Undelivered(g) => GivenUpOrFailed(g)
    BY WhKept DEF WhInv
  <1>2. /\ \A g \in StatusHooks : g \in Hooks /\ g \notin InvoiceHooks
        /\ whState' = [h \in Hooks |-> IF h \in InvoiceHooks THEN "absent" ELSE whState[h]]
        /\ whMasked' = whMasked \cup { c.hook : c \in whCalls } \cup { h \in Hooks : whOwed[h] # {} }
        /\ whOwed' = [h \in Hooks |-> {}] /\ whCalls' = {} /\ UNCHANGED << whStatus, whTold >>
    BY WhAssumption DEF WhRestart, Hooks
  <1>3. WhTyped' /\ CallsAreForStatuses'
    BY <1>1, <1>2 DEF WhTyped, CallsAreForStatuses
  <1>4. \A g \in StatusHooks \ whMasked' : Undelivered(g)' => Undelivered(g)
    BY <1>2 DEF Undelivered
  <1>5. UndeliveredIsKept'
    BY <1>1, <1>2, <1>4, WhKeptNext DEF GivenUpOrFailed
  <1> QED BY <1>3, <1>5 DEF WhInv

\* For any hooks, statuses and interleaving of calls, retries, lost streams, failing
\* writes and restarts: a status the endpoint of a hook did not receive is marked
\* for a retry or given up on, unless one of the gaps UndeliveredIsKept names hid it.
THEOREM UndeliveredStatusesAreKept == WhSpec => []UndeliveredIsKept
  <1>1. WhInit => WhInv
    <2> SUFFICES ASSUME WhInit PROVE WhInv
      OBVIOUS
    <2>1. WhTyped
      BY SMTT(60) DEF WhInit, WhTyped
    <2>2. UndeliveredIsKept
      BY WhKept DEF WhInit, Undelivered, Hooks
    <2> QED BY <2>1, <2>2 DEF WhInit, WhInv, CallsAreForStatuses
  <1>2. WhInv /\ [WhNext]_whVars => WhInv'
    <2> SUFFICES ASSUME WhInv, [WhNext]_whVars PROVE WhInv'
      OBVIOUS
    <2> QED BY WhBackendStep, WhCallStep, WhRetryStep, WhRestartStep DEF WhNext
  <1> QED BY <1>1, <1>2, PTL DEF WhSpec, WhInv

-----------------------------------------------------------------------------
(* RefundBumper: the row of a refund tells the truth.                      *)

RbLive == InState("mempool") \cup InState("confirmed")

RefundTx ==
    [fee : Nat, state : { "new", "mempool", "replaced", "confirmed", "conflicted" }]
RefundTxs == Seq(RefundTx)

RbTyped ==
    /\ rbTxs \in RefundTxs
    /\ rbRow \in [id : Nat, status : { "none", "pending", "confirmed" }]
    /\ rbBump \in [at : { "idle", "fetched", "bump", "sent" }, id : Nat, target : Nat]
    /\ rbWatch \in Nat /\ rbAnnounced \in Nat /\ rbLost \in BOOLEAN

\* Two refunds never spend the lockup at once.
OneLiveRefund == \A i, j \in RbLive : i = j

\* Between the upsert and sendRawTransaction the row has the transaction that is
\* about to be sent, and none is out there.
StoredIsNewest ==
    (rbRefund = "stored" /\ ~rbLost) =>
      /\ RbLive = {} /\ rbRow.id \in InState("new")
      /\ \A i \in InState("new") : i <= rbRow.id

\* The bumper only replaces what is out there, and what it sent stays out there
\* until the row has it.
BumpsLiveRefund ==
    /\ rbBump.at \in { "bump", "sent" } => RbLive # {}
    /\ (rbBump.at = "sent" /\ ~rbLost) => rbBump.id \in RbLive

AnnouncedInBlock == rbAnnounced # NoId => rbAnnounced \in InState("confirmed")

RbInv ==
    /\ RbTyped /\ OneLiveRefund /\ StoredIsNewest /\ BumpsLiveRefund
    /\ RowFollowsRefund /\ AnnouncedInBlock

\* The transactions after one more was constructed.
LEMMA TxConstructed ==
    ASSUME RbTyped, NEW fee \in Nat,
           rbTxs' = Append(rbTxs, [fee |-> fee, state |-> "new"])
    PROVE  /\ rbTxs' \in RefundTxs
           /\ InState("new")' = InState("new") \cup { Len(rbTxs) + 1 }
           /\ InState("confirmed")' = InState("confirmed") /\ RbLive' = RbLive
           /\ \A i \in InState("new") : i \in Nat /\ i <= Len(rbTxs)
  <1> DEFINE n == Len(rbTxs)
  <1>1. /\ n \in Nat /\ rbTxs' \in RefundTxs /\ Len(rbTxs') = n + 1
        /\ rbTxs'[n + 1] = [fee |-> fee, state |-> "new"]
        /\ \A i \in 1 .. n : rbTxs'[i] = rbTxs[i]
    <2> DEFINE e == [fee |-> fee, state |-> "new"]
    <2>1. rbTxs \in Seq(RefundTx) /\ e \in RefundTx /\ rbTxs' = Append(rbTxs, e)
      BY DEF RbTyped, RefundTxs, RefundTx
    <2> HIDE DEF e
    <2>2. /\ n \in Nat /\ rbTxs' \in Seq(RefundTx) /\ Len(rbTxs') = n + 1
          /\ rbTxs'[n + 1] = e /\ \A i \in 1 .. n : rbTxs'[i] = rbTxs[i]
      BY <2>1, SMTT(60)
    <2> QED BY <2>2 DEF e, RefundTxs
  <1>2. DOMAIN rbTxs = 1 .. n /\ DOMAIN rbTxs' = 1 .. (n + 1)
    BY <1>1, SMTT(60) DEF RbTyped, RefundTxs
  <1>3. \A state : InState(state)' = { i \in 1 .. (n + 1) : rbTxs'[i].state = state }
    BY <1>2 DEF InState
  <1>4. \A state : InState(state) = { i \in 1 .. n : rbTxs[i].state = state }
    BY <1>2 DEF InState
  <1>5. InState("new")' = InState("new") \cup { n + 1 }
    BY <1>1, <1>3, <1>4, SMTT(60)
  <1>6. InState("mempool")' = InState("mempool") /\ InState("confirmed")' = InState("confirmed")
    <2>1. n \in Nat /\ rbTxs'[n + 1].state = "new"
          /\ \A i \in 1 .. n : rbTxs'[i].state = rbTxs[i].state
      BY <1>1, SMTT(60)
    <2>2. InState("mempool")' = InState("mempool")
      BY <1>2, <2>1, SMTT(60) DEF InState
    <2>3. InState("confirmed")' = InState("confirmed")
      BY <1>2, <2>1, SMTT(60) DEF InState
    <2> QED BY <2>2, <2>3
  <1>7. \A i \in InState("new") : i \in Nat /\ i <= n
    BY <1>1, <1>4, SMTT(60)
  <1> QED BY <1>1, <1>5, <1>6, <1>7 DEF RbLive

\* The transactions after one of them was broadcast: it is the one that spends the
\* lockup.
LEMMA TxBroadcast ==
    ASSUME NEW txs \in RefundTxs, NEW id \in DOMAIN txs,
           \A i \in DOMAIN txs : txs[i].state # "confirmed",
           rbTxs' = BroadcastRefundTx(txs, id)
    PROVE  /\ rbTxs' \in RefundTxs /\ RbLive' = { id } /\ InState("confirmed")' = {}
  <1>1. DOMAIN txs = 1 .. Len(txs) /\ Len(txs) \in Nat
        /\ \A i \in 1 .. Len(txs) : txs[i] \in RefundTx
    BY SMTT(60) DEF RefundTxs
  <1>2. DOMAIN rbTxs' = 1 .. Len(txs)
        /\ \A i \in 1 .. Len(txs) :
             /\ rbTxs'[i] \in RefundTx
             /\ i = id => rbTxs'[i].state = "mempool"
             /\ (i # id /\ txs[i].state = "mempool") => rbTxs'[i].state = "replaced"
             /\ (i # id /\ txs[i].state # "mempool") => rbTxs'[i] = txs[i]
    <2>1. DOMAIN rbTxs' = 1 .. Len(txs)
      BY <1>1 DEF BroadcastRefundTx
    <2>2. ASSUME NEW i \in 1 .. Len(txs)
          PROVE  rbTxs'[i] = IF i = id THEN [txs[i] EXCEPT !.state = "mempool"]
                             ELSE IF txs[i].state = "mempool"
                             THEN [txs[i] EXCEPT !.state = "replaced"] ELSE txs[i]
      BY <1>1 DEF BroadcastRefundTx
    <2> QED BY <1>1, <2>1, <2>2 DEF RefundTx
  <1>3. rbTxs' \in RefundTxs
    <2>1. rbTxs' = [i \in 1 .. Len(txs) |-> rbTxs'[i]]
      BY <1>1 DEF BroadcastRefundTx
    <2> QED BY <1>1, <1>2, <2>1, SMTT(60) DEF RefundTxs
  <1>4. InState("mempool")' = { id } /\ InState("confirmed")' = {}
    BY <1>1, <1>2, SMTT(60) DEF InState
  <1> QED BY <1>3, <1>4 DEF RbLive

\* Nothing is in the mempool or in a block, nor stored, when the program starts.
LEMMA RbInvInit == RbInit => RbInv
  <1> SUFFICES ASSUME RbInit PROVE RbInv
    OBVIOUS
  <1>1. RbTyped
    <2>1. rbTxs \in RefundTxs
      BY SMTT(60) DEF RbInit, RefundTxs
    <2> QED BY <2>1 DEF RbInit, RbTyped, RbIdle, NoId
  <1>2. InState("mempool") = {} /\ InState("confirmed") = {}
    BY SMTT(60) DEF RbInit, InState
  <1> QED BY <1>1, <1>2 DEF RbInit, RbInv, RbLive, OneLiveRefund, StoredIsNewest,
                            BumpsLiveRefund,
                            RowFollowsRefund, AnnouncedInBlock, RbIdle, NoId

\* A block may contain what was replaced; the row then lost track.
LEMMA RefundConfirmsKeepsInv ==
    ASSUME RbInv, NEW id, RefundConfirms(id)
    PROVE  RbInv'
  <1>1. rbTxs' \in RefundTxs /\ RbLive' = { id } /\ InState("confirmed")' = { id }
    <2>1. /\ rbTxs \in Seq(RefundTx) /\ id \in DOMAIN rbTxs
          /\ DOMAIN rbTxs = 1 .. Len(rbTxs) /\ Len(rbTxs) \in Nat
          /\ \A i \in 1 .. Len(rbTxs) : rbTxs[i] \in RefundTx
      BY SMTT(60) DEF RbInv, RbTyped, RefundTxs, RefundConfirms, InState
    <2>2. DOMAIN rbTxs' = 1 .. Len(rbTxs)
          /\ \A i \in 1 .. Len(rbTxs) :
               rbTxs'[i] = IF i = id THEN [rbTxs[i] EXCEPT !.state = "confirmed"]
                           ELSE [rbTxs[i] EXCEPT !.state = "conflicted"]
      BY <2>1 DEF RefundConfirms
    <2>3. \A i \in 1 .. Len(rbTxs) :
             /\ rbTxs'[i] \in RefundTx
             /\ rbTxs'[i].state = IF i = id THEN "confirmed" ELSE "conflicted"
      BY <2>1, <2>2 DEF RefundTx
    <2>4. rbTxs' \in RefundTxs
      <3>1. rbTxs' = [i \in 1 .. Len(rbTxs) |-> rbTxs'[i]]
        BY <2>1 DEF RefundConfirms
      <3> QED BY <2>1, <2>3, <3>1, SMTT(60) DEF RefundTxs
    <2>5. InState("mempool")' = {} /\ InState("confirmed")' = { id }
      BY <2>1, <2>2, <2>3 DEF InState
    <2> QED BY <2>4, <2>5 DEF RbLive
  <1>2. InState("confirmed") = {} /\ (id \in InState("mempool") \/ rbLost')
    BY DEF RefundConfirms, InState, RbInv, RbTyped
  <1>3. UNCHANGED << rbRow, rbRefund, rbBump, rbWatch, rbAnnounced >> /\ rbLost' \in BOOLEAN
        /\ (rbLost => rbLost')
    BY DEF RefundConfirms, RbInv, RbTyped
  <1>4. RbTyped' /\ OneLiveRefund'
    BY <1>1, <1>3 DEF RbInv, RbTyped, OneLiveRefund
  <1>5. StoredIsNewest'
    BY <1>1, <1>2, <1>3 DEF RbInv, StoredIsNewest, RbLive
  <1>6. BumpsLiveRefund'
    BY <1>1, <1>2, <1>3 DEF RbInv, BumpsLiveRefund, OneLiveRefund, RbLive
  <1>7. RowFollowsRefund'
    BY <1>1, <1>2, <1>3 DEF RbInv, RowFollowsRefund, RbLive
  <1>8. AnnouncedInBlock'
    BY <1>2, <1>3 DEF RbInv, AnnouncedInBlock
  <1> QED BY <1>4, <1>5, <1>6, <1>7, <1>8 DEF RbInv

\* The row is upserted before the transaction is sent.
LEMMA AddTransactionKeepsInv ==
    ASSUME RbInv, NEW fee \in Nat, AddTransaction(fee)
    PROVE  RbInv'
  <1>1. /\ rbTxs' \in RefundTxs /\ RbLive' = RbLive /\ InState("confirmed")' = InState("confirmed")
        /\ InState("new")' = InState("new") \cup { Len(rbTxs) + 1 }
        /\ \A i \in InState("new") : i \in Nat /\ i <= Len(rbTxs)
    BY TxConstructed DEF RbInv, AddTransaction
  <1>2. /\ rbRow' = [id |-> Len(rbTxs) + 1, status |-> "pending"] /\ Len(rbTxs) \in Nat
        /\ rbRefund' = "stored" /\ UNCHANGED << rbBump, rbWatch, rbAnnounced >>
        /\ rbLost' = (rbLost \/ RbLive # {}) /\ rbLost \in BOOLEAN
    BY SMTT(60) DEF AddTransaction, RbLive, RbInv, RbTyped, RefundTxs
  <1>3. RbTyped'
    BY <1>1, <1>2, SMTT(60) DEF RbInv, RbTyped
  <1>4. StoredIsNewest'
    <2>1. rbRow'.id = Len(rbTxs) + 1 /\ (~rbLost' => RbLive = {})
      BY <1>2
    <2>2. \A i \in InState("new")' : i <= Len(rbTxs) + 1
      BY <1>1, <1>2, SMTT(60)
    <2> QED BY <1>1, <2>1, <2>2 DEF StoredIsNewest
  <1>5. OneLiveRefund' /\ BumpsLiveRefund' /\ RowFollowsRefund' /\ AnnouncedInBlock'
    BY <1>1, <1>2 DEF RbInv, OneLiveRefund, BumpsLiveRefund, RowFollowsRefund, RbLive,
                      AnnouncedInBlock
  <1> QED BY <1>3, <1>4, <1>5 DEF RbInv

\* Steps that change no transaction leave what is out there alone.
LEMMA SameTxs ==
    ASSUME UNCHANGED rbTxs
    PROVE  /\ RbLive' = RbLive /\ InState("new")' = InState("new")
           /\ InState("mempool")' = InState("mempool")
           /\ InState("confirmed")' = InState("confirmed")
  BY DEF InState, RbLive

\* What is sent is what the row has, unless the row lost track before.
LEMMA SendRefundKeepsInv ==
    ASSUME RbInv, SendRefund
    PROVE  RbInv'
  <1>1. UNCHANGED << rbRow, rbBump, rbWatch, rbAnnounced, rbLost >> /\ rbRefund' # "stored"
        /\ rbRefund = "stored"
    BY DEF SendRefund
  <1>2. CASE UNCHANGED rbTxs
    BY <1>1, <1>2, SameTxs DEF RbInv, RbTyped, OneLiveRefund, StoredIsNewest,
                               BumpsLiveRefund,
                               RowFollowsRefund, AnnouncedInBlock
  <1>3. CASE \E id \in NewestRefund : Accepts(rbTxs[id].fee) /\ rbTxs' = BroadcastRefundTx(rbTxs, id)
    <2>1. PICK id \in NewestRefund : Accepts(rbTxs[id].fee) /\ rbTxs' = BroadcastRefundTx(rbTxs, id)
      BY <1>3
    <2>2. InState("confirmed") = {} /\ rbTxs \in RefundTxs /\ id \in InState("new")
      BY <2>1 DEF Accepts, NewestRefund, RbInv, RbTyped
    <2>3. rbTxs' \in RefundTxs /\ RbLive' = { id } /\ InState("confirmed")' = {}
      BY <2>1, <2>2, TxBroadcast DEF InState
    <2>4. rbLost \/ rbRow.id = id
      <3> SUFFICES ASSUME ~rbLost PROVE rbRow.id = id
        OBVIOUS
      <3>1. rbRow.id \in InState("new") /\ \A j \in InState("new") : j <= rbRow.id
        BY <1>1 DEF RbInv, StoredIsNewest
      <3>2. \A j \in InState("new") : j <= id
        BY <2>1 DEF NewestRefund
      <3>3. rbRow.id \in Nat /\ id \in Nat
        BY <2>2, SMTT(60) DEF InState, RbInv, RbTyped, RefundTxs
      <3> QED BY <2>2, <3>1, <3>2, <3>3, SMTT(60)
    <2>5. rbLost \/ rbBump.at \notin { "bump", "sent" }
      BY <1>1 DEF RbInv, StoredIsNewest, BumpsLiveRefund
    <2>6. RbTyped' /\ OneLiveRefund' /\ StoredIsNewest'
      BY <1>1, <2>3 DEF RbInv, RbTyped, OneLiveRefund, StoredIsNewest
    <2>7. BumpsLiveRefund'
      BY <1>1, <2>3, <2>5 DEF BumpsLiveRefund
    <2>8. RowFollowsRefund' /\ AnnouncedInBlock'
      BY <1>1, <2>2, <2>3, <2>4 DEF RbInv, RowFollowsRefund, RbLive, AnnouncedInBlock
    <2> QED BY <2>6, <2>7, <2>8 DEF RbInv
  <1> QED BY <1>2, <1>3 DEF SendRefund

\* The replacement becomes the refund that is out there.
LEMMA BumpFeeKeepsInv ==
    ASSUME RbInv, BumpFee
    PROVE  RbInv'
  <1>1. UNCHANGED << rbRow, rbRefund, rbWatch, rbAnnounced, rbLost >> /\ rbBump.at = "bump"
    BY DEF BumpFee
  <1>2. CASE ~Accepts(rbBump.target)
    <2>1. rbBump' = RbIdle /\ UNCHANGED rbTxs
      BY <1>2 DEF BumpFee
    <2> QED BY <1>1, <2>1, SameTxs
               DEF RbInv, RbTyped, OneLiveRefund, StoredIsNewest, BumpsLiveRefund,
                                       RowFollowsRefund, AnnouncedInBlock, RbIdle, NoId
  <1>3. CASE Accepts(rbBump.target)
    <2> DEFINE new == Append(rbTxs, [fee |-> rbBump.target, state |-> "new"])
               id == Len(rbTxs) + 1
    <2>1. /\ rbTxs \in Seq(RefundTx) /\ Len(rbTxs) \in Nat
          /\ [fee |-> rbBump.target, state |-> "new"] \in RefundTx
      BY SMTT(60) DEF RbInv, RbTyped, RefundTxs, RefundTx
    <2>2. /\ new \in Seq(RefundTx) /\ Len(new) = id /\ DOMAIN new = 1 .. id
          /\ \A i \in 1 .. Len(rbTxs) : new[i] = rbTxs[i]
          /\ new[id] = [fee |-> rbBump.target, state |-> "new"]
      BY <2>1, SMTT(60)
    <2>3. \A i \in DOMAIN new : new[i].state # "confirmed"
      <3>1. \A i \in 1 .. Len(rbTxs) : rbTxs[i].state # "confirmed"
        BY <1>3, <2>1, SMTT(60) DEF Accepts, InState
      <3> QED BY <2>1, <2>2, <3>1, SMTT(60)
    <2>4. rbTxs' = BroadcastRefundTx(new, id)
          /\ rbBump' = [rbBump EXCEPT !.at = "sent", !.id = id]
      BY <1>3, <2>2 DEF BumpFee
    <2>5. rbTxs' \in RefundTxs /\ RbLive' = { id } /\ InState("confirmed")' = {}
      <3> HIDE DEF new
      <3> QED BY <2>1, <2>2, <2>3, <2>4, TxBroadcast, SMTT(60) DEF RefundTxs
    <2>6. rbBump' \in [at : { "idle", "fetched", "bump", "sent" }, id : Nat, target : Nat]
          /\ rbBump'.at = "sent" /\ rbBump'.id = id
      <3>1. id \in Nat /\ rbBump \in [at : { "idle", "fetched", "bump", "sent" },
                                      id : Nat, target : Nat]
        BY <2>1, SMTT(60) DEF RbInv, RbTyped
      <3> HIDE DEF id
      <3> QED BY <2>4, <3>1
    <2> HIDE DEF id
    <2>7. RbTyped' /\ OneLiveRefund' /\ BumpsLiveRefund'
      BY <1>1, <2>5, <2>6 DEF RbInv, RbTyped, OneLiveRefund, BumpsLiveRefund
    <2>8. StoredIsNewest'
      BY <1>1 DEF RbInv, StoredIsNewest, BumpsLiveRefund
    <2>9. RowFollowsRefund'
      BY <2>5, <2>6 DEF RowFollowsRefund, RbLive
    <2>10. AnnouncedInBlock'
      BY <1>1, <1>3 DEF RbInv, AnnouncedInBlock, Accepts
    <2> QED BY <2>7, <2>8, <2>9, <2>10 DEF RbInv
  <1> QED BY <1>2, <1>3

\* Writing the id of the replacement makes the row follow it.
LEMMA UpdateTransactionIdKeepsInv ==
    ASSUME RbInv, UpdateTransactionId
    PROVE  RbInv'
  <1>1. /\ UNCHANGED << rbTxs, rbRefund, rbWatch, rbAnnounced, rbLost >> /\ rbBump.at = "sent"
        /\ rbBump' = RbIdle /\ rbRow' = [rbRow EXCEPT !.id = rbBump.id]
    BY DEF UpdateTransactionId
  <1>2. RbTyped' /\ rbRow'.id = rbBump.id
    BY <1>1 DEF RbInv, RbTyped, RbIdle, NoId
  <1>3. OneLiveRefund' /\ BumpsLiveRefund' /\ AnnouncedInBlock'
    BY <1>1, SameTxs DEF RbInv, OneLiveRefund, BumpsLiveRefund, AnnouncedInBlock, RbIdle
  <1>4. StoredIsNewest'
    BY <1>1 DEF RbInv, StoredIsNewest, BumpsLiveRefund
  <1>5. RowFollowsRefund'
    BY <1>1, <1>2, SameTxs DEF RbInv, RowFollowsRefund, OneLiveRefund, BumpsLiveRefund,
                               RbLive
  <1> QED BY <1>2, <1>3, <1>4, <1>5 DEF RbInv

\* The steps that change neither the transactions nor the id in the row.
LEMMA OtherStepsKeepInv ==
    ASSUME RbInv, SetRefunded \/ (\E f \in Nat : FetchPending(f)) \/ CheckFee \/ UpdateFails
                  \/ GetPendingTransactions \/ WatcherChecks \/ RbRestart
    PROVE  RbInv'
  <1>1. UNCHANGED rbTxs
    BY DEF SetRefunded, FetchPending, CheckFee, UpdateFails, GetPendingTransactions,
           WatcherChecks, RbRestart
  <1>2. CASE SetRefunded
    BY <1>1, <1>2, SameTxs DEF SetRefunded, RbInv, RbTyped, OneLiveRefund,
                               StoredIsNewest, BumpsLiveRefund,
                               RowFollowsRefund, AnnouncedInBlock
  <1>3. CASE \E f \in Nat : FetchPending(f)
    BY <1>1, <1>3, SameTxs, SMTT(60) DEF FetchPending, RbInv, RbTyped, OneLiveRefund,
                               StoredIsNewest, BumpsLiveRefund,
                               RowFollowsRefund, AnnouncedInBlock, RbIdle
  <1>4. CASE CheckFee
    BY <1>1, <1>4, SameTxs DEF CheckFee, RbInv, RbTyped, OneLiveRefund, StoredIsNewest,
                               BumpsLiveRefund,
                               RowFollowsRefund, AnnouncedInBlock, RbIdle, NoId, RbLive
  <1>5. CASE UpdateFails
    BY <1>1, <1>5, SameTxs DEF UpdateFails, RbInv, RbTyped, OneLiveRefund,
                               StoredIsNewest, BumpsLiveRefund,
                               RowFollowsRefund, AnnouncedInBlock, RbIdle, NoId
  <1>6. CASE GetPendingTransactions
    BY <1>1, <1>6, SameTxs DEF GetPendingTransactions, RbInv, RbTyped, OneLiveRefund,
                               StoredIsNewest, BumpsLiveRefund,
                               RowFollowsRefund, AnnouncedInBlock
  <1>7. CASE WatcherChecks
    BY <1>1, <1>7, SameTxs DEF WatcherChecks, RbInv, RbTyped, OneLiveRefund,
                               StoredIsNewest, BumpsLiveRefund,
                               RowFollowsRefund, AnnouncedInBlock, NoId
  <1>8. CASE RbRestart
    BY <1>1, <1>8, SameTxs DEF RbRestart, RbInv, RbTyped, OneLiveRefund, StoredIsNewest,
                               BumpsLiveRefund,
                               RowFollowsRefund, AnnouncedInBlock, RbIdle, NoId
  <1> QED BY <1>2, <1>3, <1>4, <1>5, <1>6, <1>7, <1>8

\* However refundUtxo, the bumper and RefundWatcher interleave, with restarts and
\* failed writes: the row of the refund has the transaction that is out there
\* unless it lost track in one of the ways RowFollowsRefund names, and
\* refund.confirmed is emitted only for a transaction in a block.
THEOREM RefundRowsAreTrue == RbSpec => []RefundRowIsTrue
  <1>1. RbInv /\ [RbNext]_rbVars => RbInv'
    <2> SUFFICES ASSUME RbInv, [RbNext]_rbVars PROVE RbInv'
      OBVIOUS
    <2>1. CASE UNCHANGED rbVars
      BY <2>1, SameTxs DEF rbVars, RbInv, RbTyped, OneLiveRefund, StoredIsNewest,
                           BumpsLiveRefund,
                           RowFollowsRefund, AnnouncedInBlock
    <2>2. CASE \E id \in 1 .. MaxRefundTxs : RefundConfirms(id)
      BY <2>2, RefundConfirmsKeepsInv
    <2>3. CASE \E f \in FeeRates : AddTransaction(f) \/ FetchPending(f)
      BY <2>3, RbAssumption, AddTransactionKeepsInv, OtherStepsKeepInv
    <2> QED BY <2>1, <2>2, <2>3, SendRefundKeepsInv, BumpFeeKeepsInv,
               UpdateTransactionIdKeepsInv,
               OtherStepsKeepInv DEF RbNext
  <1>2. RbInv => RefundRowIsTrue
    BY DEF RbInv, RefundRowIsTrue, AnnouncedInBlock, AnnouncedIsConfirmed, InState
  <1> QED BY <1>1, <1>2, RbInvInit, PTL DEF RbSpec

-----------------------------------------------------------------------------
(* DeferredClaimer: claims are kept, and only spent lockups are claimed.   *)

\* The locals of a sweep are empty unless it runs, and what has been broadcast
\* is spent.  This is what makes the properties inductive.
SweepLocals ==
    /\ lock \in { "free", "coop", "signed" } => batch = {}
    /\ lock # "batched" => recorded = {}
    /\ lock \in { "batched", "signed" } => chunk \subseteq spent

ClaimInv == ClaimTypeOK /\ SweepLocals /\ PendingClaimIsKept /\ ClaimedIsSpent

\* The inductive invariant holds when the process starts.
LEMMA ClaimInitially == ClaimInit => ClaimInv
  BY DEF ClaimInit, ClaimInv, ClaimTypeOK, SweepLocals, PendingClaimIsKept,
         ClaimedIsSpent, Pending

\* Every action keeps the types.
LEMMA ClaimTypesStep ==
  ASSUME ClaimTypeOK, SweepLocals, [ClaimNext]_claimVars
  PROVE  ClaimTypeOK'
<1> USE DEF ClaimTypeOK
<1>1. ASSUME NEW s \in Swaps, DeferClaim(s) PROVE ClaimTypeOK'
  BY <1>1 DEF DeferClaim
<1>2. ASSUME NEW s \in Swaps, StoreDeferred(s) PROVE ClaimTypeOK'
  BY <1>2 DEF StoreDeferred
<1>3. ASSUME NEW s \in Swaps, SetMinerFee(s) PROVE ClaimTypeOK'
  BY <1>3, SMTT(60) DEF SetMinerFee
<1>4. ASSUME NEW s \in Swaps, GetCooperativeDetails(s) PROVE ClaimTypeOK'
  BY <1>4 DEF GetCooperativeDetails
<1>5. ASSUME NEW s \in Swaps, BroadcastCooperative(s) PROVE ClaimTypeOK'
  BY <1>5 DEF BroadcastCooperative, SweepLocals
<1>6. ASSUME NEW c \in SUBSET batch, BroadcastClaim(c) PROVE ClaimTypeOK'
  BY <1>6 DEF BroadcastClaim, SweepLocals
<1>7. ASSUME NEW c \in SUBSET batch, BroadcastClaimFails(c) PROVE ClaimTypeOK'
  BY <1>7 DEF BroadcastClaimFails
<1>8. CASE SweepSymbol
  BY <1>8 DEF SweepSymbol
<1>9. CASE SetMinerFeeFails
  BY <1>9 DEF SetMinerFeeFails
<1>10. CASE SweepDone
  BY <1>10 DEF SweepDone
<1>11. CASE CooperativeSent
  BY <1>11 DEF CooperativeSent
<1>12. CASE CooperativeRefused
  BY <1>12 DEF CooperativeRefused, SweepLocals
<1>13. CASE CooperativeRecorded
  BY <1>13 DEF CooperativeRecorded, SweepLocals
<1>14. CASE ClaimRestart
  BY <1>14 DEF ClaimRestart, Pending
<1>15. CASE UNCHANGED claimVars
  BY <1>15 DEF claimVars
<1>. QED
  BY <1>1, <1>2, <1>3, <1>4, <1>5, <1>6, <1>7, <1>8, <1>9, <1>10, <1>11, <1>12,
     <1>13, <1>14, <1>15 DEF ClaimNext

\* Every action keeps the rest of the invariant.
LEMMA ClaimInvStep == ClaimInv /\ [ClaimNext]_claimVars => ClaimInv'
<1> SUFFICES ASSUME ClaimInv, [ClaimNext]_claimVars
             PROVE  SweepLocals' /\ PendingClaimIsKept' /\ ClaimedIsSpent'
  BY ClaimTypesStep DEF ClaimInv
<1> DEFINE Goal == SweepLocals' /\ PendingClaimIsKept' /\ ClaimedIsSpent'
<1> USE DEF ClaimInv, ClaimTypeOK, SweepLocals, PendingClaimIsKept,
            ClaimedIsSpent, Pending
<1>1. ASSUME NEW s \in Swaps, DeferClaim(s) PROVE Goal
  BY <1>1 DEF DeferClaim
<1>2. ASSUME NEW s \in Swaps, StoreDeferred(s) PROVE Goal
  BY <1>2 DEF StoreDeferred
<1>3. ASSUME NEW s \in Swaps, SetMinerFee(s) PROVE Goal
  BY <1>3 DEF SetMinerFee
<1>4. ASSUME NEW s \in Swaps, GetCooperativeDetails(s) PROVE Goal
  BY <1>4 DEF GetCooperativeDetails
<1>5. ASSUME NEW s \in Swaps, BroadcastCooperative(s) PROVE Goal
  BY <1>5 DEF BroadcastCooperative
<1>6. ASSUME NEW c \in SUBSET batch, BroadcastClaim(c) PROVE Goal
  BY <1>6 DEF BroadcastClaim
<1>7. ASSUME NEW c \in SUBSET batch, BroadcastClaimFails(c) PROVE Goal
  BY <1>7 DEF BroadcastClaimFails
<1>8. CASE SweepSymbol
  BY <1>8 DEF SweepSymbol
<1>9. CASE SetMinerFeeFails
  BY <1>9 DEF SetMinerFeeFails
<1>10. CASE SweepDone
  BY <1>10 DEF SweepDone
<1>11. CASE CooperativeSent
  BY <1>11 DEF CooperativeSent
<1>12. CASE CooperativeRefused
  BY <1>12 DEF CooperativeRefused
<1>13. CASE CooperativeRecorded
  BY <1>13 DEF CooperativeRecorded
<1>14. CASE ClaimRestart
  BY <1>14 DEF ClaimRestart
<1>15. CASE UNCHANGED claimVars
  BY <1>15 DEF claimVars
<1>. QED
  BY <1>1, <1>2, <1>3, <1>4, <1>5, <1>6, <1>7, <1>8, <1>9, <1>10, <1>11, <1>12,
     <1>13, <1>14, <1>15 DEF ClaimNext

\* The inductive invariant holds in every reachable state.
THEOREM ClaimInvariant == ClaimSpec => []ClaimInv
<1>1. ClaimInit => ClaimInv
  BY ClaimInitially
<1>2. ClaimInv /\ [ClaimNext]_claimVars => ClaimInv'
  BY ClaimInvStep
<1>. QED
  BY <1>1, <1>2, PTL DEF ClaimSpec

\* Type correctness for any swaps and any chunk size.
THEOREM ClaimTypes == ClaimSpec => []ClaimTypeOK
  BY ClaimInvariant, PTL DEF ClaimInv

\* A pending, unclaimed swap is never dropped, whichever broadcasts and writes
\* fail and whenever the process restarts, if a restart loads the swaps.
THEOREM NoPendingClaimIsDropped == ClaimSpec => []PendingClaimIsKept
  BY ClaimInvariant, PTL DEF ClaimInv

\* A swap is recorded as claimed only when a transaction has claimed it.
THEOREM RecordedClaimsAreSpent == ClaimSpec => []ClaimedIsSpent
  BY ClaimInvariant, PTL DEF ClaimInv

\* Where a swap can be while nothing but broadcasts fails: in one place at a time,
\* and there only while it is pending.
OnePlace ==
    /\ deferring \cap queue = {} /\ deferring \cap batch = {}
    /\ queue \cap batch = {}
    /\ deferring \cup queue \cup batch \subseteq Pending
    /\ chunk \cap (deferring \cup batch) = {}
    /\ lock = "coop" => chunk \subseteq queue
    /\ lock # "coop" => chunk \cap queue = {}
    /\ spent \cap { s \in Swaps : claimStatus[s] = "InvoicePaid" } = {}
    /\ chunk \cap { s \in Swaps : claimStatus[s] = "InvoicePaid" } = {}

ReliableWrites == ClaimFaults \cap { "answer", "database", "crash" } = {}

UnspentInv == ClaimInv /\ OnePlace /\ WaitingClaimIsUnspent

\* As long as writes succeed, the process lives and broadcasts tell the truth, every
\* action keeps swaps in one place.
LEMMA UnspentStep ==
  ASSUME ReliableWrites, UnspentInv, [ClaimNext]_claimVars
  PROVE  UnspentInv'
<1>0. ClaimInv'
  BY ClaimInvStep DEF UnspentInv
<1> DEFINE Goal == OnePlace' /\ WaitingClaimIsUnspent'
<1> SUFFICES Goal
  BY <1>0 DEF UnspentInv
<1> USE DEF UnspentInv, ClaimInv, ClaimTypeOK, SweepLocals, OnePlace,
            WaitingClaimIsUnspent, Pending
<1>1. ASSUME NEW s \in Swaps, DeferClaim(s) PROVE Goal
  BY <1>1, SMTT(60) DEF DeferClaim
<1>2. ASSUME NEW s \in Swaps, StoreDeferred(s) PROVE Goal
  BY <1>2, SMTT(60) DEF StoreDeferred, MapLockFree
<1>3. ASSUME NEW s \in Swaps, SetMinerFee(s) PROVE Goal
  BY <1>3 DEF SetMinerFee
<1>4. ASSUME NEW s \in Swaps, GetCooperativeDetails(s) PROVE Goal
  BY <1>4 DEF GetCooperativeDetails
<1>5. ASSUME NEW s \in Swaps, BroadcastCooperative(s) PROVE Goal
  BY <1>5, SMTT(60) DEF BroadcastCooperative
<1>6. ASSUME NEW c \in SUBSET batch, BroadcastClaim(c) PROVE Goal
  BY <1>6 DEF BroadcastClaim
<1>7. ASSUME NEW c \in SUBSET batch, BroadcastClaimFails(c) PROVE Goal
  BY <1>7 DEF BroadcastClaimFails, ReliableWrites
<1>8. CASE SweepSymbol
  BY <1>8 DEF SweepSymbol
<1>9. CASE SetMinerFeeFails
  BY <1>9 DEF SetMinerFeeFails, ReliableWrites
<1>10. CASE SweepDone
  BY <1>10 DEF SweepDone
<1>11. CASE CooperativeSent
  BY <1>11 DEF CooperativeSent
<1>12. CASE CooperativeRefused
  BY <1>12 DEF CooperativeRefused, ReliableWrites
<1>13. CASE CooperativeRecorded
  BY <1>13 DEF CooperativeRecorded
<1>14. CASE ClaimRestart
  BY <1>14 DEF ClaimRestart, ReliableWrites
<1>15. CASE UNCHANGED claimVars
  BY <1>15 DEF claimVars
<1>. QED
  BY <1>1, <1>2, <1>3, <1>4, <1>5, <1>6, <1>7, <1>8, <1>9, <1>10, <1>11, <1>12,
     <1>13, <1>14, <1>15 DEF ClaimNext

\* Cooperative claims and batches never compete for a lockup while writes succeed and
\* a broadcast that throws was refused: what waits for a claim is unspent.
THEOREM WaitingClaimsAreUnspent ==
  ASSUME ReliableWrites
  PROVE  ClaimSpec => []WaitingClaimIsUnspent
<1>1. ClaimInit => UnspentInv
  BY ClaimInitially
  DEF ClaimInit, UnspentInv, OnePlace, WaitingClaimIsUnspent, Pending
<1>2. UnspentInv /\ [ClaimNext]_claimVars => UnspentInv'
  BY UnspentStep
<1>3. UnspentInv => WaitingClaimIsUnspent
  BY DEF UnspentInv
<1>. QED
  BY <1>1, <1>2, <1>3, PTL DEF ClaimSpec
=============================================================================
