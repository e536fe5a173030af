----------------------------- MODULE WsSession -----------------------------
(***************************************************************************)
(* The task of a WebSocket connection (boltzr/src/api/ws/status.rs): the   *)
(* messages it takes from its client under the limit of messages per       *)
(* minute (message_limit.rs), what they do to the subscriptions, what is   *)
(* answered, the check for inactivity, and the guard that takes the        *)
(* connection out of both tables of subscriptions when the task ends.      *)
(*                                                                         *)
(* How an update finds its connections is the subject of StatusStream, how *)
(* an invoice is requested from a subscriber that of Bolt12Offers.         *)
(*                                                                         *)
(* Sending is a step of its own, which takes as long as the client does    *)
(* not read, and so is asking the status cache: meanwhile the task looks   *)
(* neither at its timers nor at the token, and other tasks go on.          *)
(***************************************************************************)
EXTENDS Integers, Sequences, FiniteSets, FiniteSetsExt

CONSTANTS
    WsIds,              \* the ids a connection can draw
    WsConfigs,          \* values of the messageLimit of the configuration
    WsMessages,         \* text messages of the clients
    WsOffers,           \* offers that can be decoded
    WsHooks,            \* requests for an invoice
    WsDefaultIds,       \* DEFAULT_MAX_SWAP_UPDATE_IDS_PER_MESSAGE
    WsWindow,           \* MESSAGE_LIMIT_WINDOW
    WsCheckInterval,    \* ACTIVITY_CHECK_INTERVAL_SECS
    WsTimeout,          \* ACTIVITY_TIMEOUT_SECS
    MaxWsOpened,        \* connections accepted, by configuration
    MaxWsWork,          \* messages sent and ticks together, by configuration
    MaxWsRequests       \* requests for an invoice

\* messageLimit is not set, or does not set the number of ids.
NotSet == -1

ASSUME WsAssumption ==
    /\ \A c \in WsConfigs : c.perWindow \in Nat \cup {NotSet} /\ c.ids \in Nat \cup {NotSet}
    /\ \A c \in WsConfigs : MaxWsOpened[c] \in Nat /\ MaxWsWork[c] \in Nat
    /\ { WsDefaultIds, WsTimeout, MaxWsRequests } \subseteq Nat
    /\ { WsWindow, WsCheckInterval } \subseteq Nat \ {0}

VARIABLES
    wsConfig,    \* the configuration
    wsStatus,    \* StatusSubscriptions.subscriptions: id -> ids of swaps
    wsSwaps,     \* StatusSubscriptions.swaps: pairs of a swap and an id
    wsOwner,     \* OfferSubscriptions.all_offers: offer -> id
    wsSenders,   \* OfferSubscriptions.offer_subscriptions: ids
    wsPending,   \* OfferSubscriptions.pending_hooks
    wsTask,      \* the tasks: id -> what the loop holds, and the reply it sends
    wsNow,       \* the clock
    wsOpened,    \* history: connections accepted
    wsSent,      \* history: messages sent
    wsAsked,     \* history: requests made
    wsBroadcast  \* history: answers to requests, as they were broadcast

wsVars == << wsConfig, wsStatus, wsSwaps, wsOwner, wsSenders, wsPending, wsTask, wsNow,
             wsOpened, wsSent, wsAsked, wsBroadcast >>
wsTables == << wsStatus, wsSwaps, wsOwner, wsSenders >>
wsHistory == << wsOpened, wsSent, wsAsked, wsBroadcast >>

Open == DOMAIN wsTask
WithoutId(f, id) == [ c \in DOMAIN f \ {id} |-> f[c] ]
WithId(f, id, v) == [ c \in DOMAIN f \cup {id} |-> IF c = id THEN v ELSE f[c] ]

WsInit ==
    /\ wsConfig \in WsConfigs
    /\ wsStatus = << >> /\ wsSwaps = {}
    /\ wsOwner = << >> /\ wsSenders = {} /\ wsPending = {}
    /\ wsTask = << >> /\ wsNow = 0
    /\ wsOpened = 0 /\ wsSent = 0 /\ wsAsked = {} /\ wsBroadcast = << >>

-----------------------------------------------------------------------------
(* Opening and closing.                                                    *)

\* new: the limit on the ids of one message.
MaxSwapUpdateIds ==
    IF wsConfig.perWindow # NotSet /\ wsConfig.ids # NotSet
    THEN wsConfig.ids ELSE WsDefaultIds

\* The limiter, with the times of the messages it let through as history.
MessageRateLimiterNew(now, times) == [ started |-> now, count |-> 0, times |-> times ]

\* get_connection_id draws until an id is in neither table.
GetConnectionId(id) == id \notin DOMAIN wsStatus /\ id \notin wsSenders

\* The first tick of an interval is immediate.  Once the token is cancelled no more
\* connections are accepted, and the tasks end by LoopEnds as they also may before.
AcceptConnection(id) ==
    /\ GetConnectionId(id) /\ wsOpened < MaxWsOpened[wsConfig]
    /\ wsOpened' = wsOpened + 1
    /\ wsSenders' = wsSenders \cup {id}
    /\ wsStatus' = WithId(wsStatus, id, {})
    /\ wsTask' = WithId(wsTask, id,
         [ at |-> "loop", activity |-> wsNow, check |-> wsNow,
           limiter |-> MessageRateLimiterNew(wsNow, << >>), reply |-> << "none" >> ])
    /\ UNCHANGED << wsConfig, wsSwaps, wsOwner, wsPending, wsNow,
                    wsSent, wsAsked, wsBroadcast >>

\* A mutant: the guard's drop without the table of offers.
GuardDropStatusOnly(id) ==
    /\ wsTask' = WithoutId(wsTask, id)
    /\ wsStatus' = WithoutId(wsStatus, id)
    /\ wsSwaps' = { p \in wsSwaps : p[2] # id }
    /\ wsSenders' = wsSenders \ {id}
    /\ UNCHANGED wsOwner

\* However the loop ends, the guard is dropped.
GuardDrop(id) ==
    /\ wsTask' = WithoutId(wsTask, id)
    /\ wsStatus' = WithoutId(wsStatus, id)
    /\ wsSwaps' = { p \in wsSwaps : p[2] # id }
    /\ wsOwner' = [ o \in { p \in DOMAIN wsOwner : wsOwner[p] # id } |-> wsOwner[o] ]
    /\ wsSenders' = wsSenders \ {id}

-----------------------------------------------------------------------------
(* Messages.                                                               *)

\* A mutant: try_acquire without the new start of the window.
TryAcquireOldWindow(l, now) ==
    LET expired == now - l.started >= WsWindow
        fresh == IF expired THEN [ l EXCEPT !.count = 0 ] ELSE l
    IN  IF fresh.count >= wsConfig.perWindow
        THEN [ ok |-> FALSE, limiter |-> fresh ]
        ELSE [ ok |-> TRUE, limiter |-> [ fresh EXCEPT !.count = @ + 1, !.times = Append(@, now) ] ]

TryAcquire(l, now) ==
    LET expired == now - l.started >= WsWindow
        fresh == IF expired THEN MessageRateLimiterNew(now, l.times) ELSE l
    IN  IF fresh.count >= wsConfig.perWindow
        THEN [ ok |-> FALSE, limiter |-> fresh ]
        ELSE [ ok |-> TRUE, limiter |-> [ fresh EXCEPT !.count = @ + 1, !.times = Append(@, now) ] ]

CheckMessageLimit(l, now) ==
    IF wsConfig.perWindow = NotSet THEN [ ok |-> TRUE, limiter |-> l ] ELSE TryAcquire(l, now)

ValidateSwapUpdateIds(ids) == Len(ids) <= MaxSwapUpdateIds

ArgSet(s) == { s[i] : i \in DOMAIN s }

\* An error, a pong or a reply about offers: nothing about swaps.
OtherReply == << "other" >>

\* The task sends its reply.
Replies(id, t, reply) ==
    wsTask' = [ wsTask EXCEPT ![id] = [ t EXCEPT !.at = "send", !.reply = reply ] ]

\* handle_message: a subscription to swaps is made before the cache is asked.
SubscribeSwaps(id, t, ids) ==
    \/ /\ ~ValidateSwapUpdateIds(ids)
       /\ Replies(id, t, OtherReply) /\ UNCHANGED wsTables
    \/ /\ ValidateSwapUpdateIds(ids)
       /\ wsStatus' = [ wsStatus EXCEPT ![id] = @ \cup ArgSet(ids) ]
       /\ wsSwaps' = wsSwaps \cup (ArgSet(ids) \X {id})
       /\ wsTask' = [ wsTask EXCEPT ![id] =
                        [ t EXCEPT !.at = "fetch", !.reply = << "subscribe", ids >> ] ]
       /\ UNCHANGED << wsOwner, wsSenders >>

\* The cache answered, did not know, or failed: the client gets the same reply.
FetchedStatusInfo(id) ==
    /\ id \in Open /\ wsTask[id].at = "fetch"
    /\ wsTask' = [ wsTask EXCEPT ![id].at = "send" ]
    /\ UNCHANGED << wsConfig, wsTables, wsPending, wsNow, wsHistory >>

\* offers_subscribe: all the signatures are valid, or no offer is added.
SubscribeOffers(id, t, params) ==
    IF \A p \in ArgSet(params) : p.offer \in WsOffers /\ p.signed
    THEN LET added == { p.offer : p \in ArgSet(params) }
         IN  /\ wsOwner' = [ o \in DOMAIN wsOwner \cup added |->
                               IF o \in added THEN id ELSE wsOwner[o] ]
             /\ Replies(id, t, OtherReply)
             /\ UNCHANGED << wsStatus, wsSwaps, wsSenders >>
    ELSE Replies(id, t, OtherReply) /\ UNCHANGED wsTables

\* subscription_removed
UnsubscribeSwaps(id, t, ids) ==
    LET left == wsStatus[id] \ ArgSet(ids)
    IN  /\ wsStatus' = [ wsStatus EXCEPT ![id] = left ]
        /\ wsSwaps' = wsSwaps \ (ArgSet(ids) \X {id})
        /\ Replies(id, t, << "unsubscribe", left >>)
        /\ UNCHANGED << wsOwner, wsSenders >>

\* offers_unsubscribe: the offers before one that cannot be decoded are removed.
UnsubscribeOffers(id, t, offers) ==
    LET bad == { i \in DOMAIN offers : offers[i] \notin WsOffers }
        removed == { offers[i] : i \in { j \in DOMAIN offers : \A b \in bad : j < b } }
        kept == { o \in DOMAIN wsOwner : wsOwner[o] # id \/ o \notin removed }
    IN  /\ wsOwner' = [ o \in kept |-> wsOwner[o] ]
        /\ Replies(id, t, OtherReply)
        /\ UNCHANGED << wsStatus, wsSwaps, wsSenders >>

\* received_invoice_response takes the hook of an id that is a number.
Invoice(id, t, m) ==
    IF m.hook \in WsHooks
    THEN /\ wsPending' = wsPending \ {m.hook}
         /\ wsBroadcast' = IF m.hook \in wsPending
                           THEN Append(wsBroadcast, << m.hook, m.op >>) ELSE wsBroadcast
         /\ wsTask' = [ wsTask EXCEPT ![id] = t ]
         /\ UNCHANGED wsTables
    ELSE /\ Replies(id, t, OtherReply)
         /\ UNCHANGED << wsTables, wsPending, wsBroadcast >>

HandleWsMessage(id, t, m) ==
    \/ /\ m.op = "invalid" /\ Replies(id, t, OtherReply)
       /\ UNCHANGED << wsTables, wsPending, wsBroadcast >>
    \/ /\ m.op = "ping" /\ Replies(id, t, OtherReply)
       /\ UNCHANGED << wsTables, wsPending, wsBroadcast >>
    \/ /\ m.op = "subscribe"
       /\ IF m.channel = "swap.update"
          THEN SubscribeSwaps(id, t, m.args) ELSE SubscribeOffers(id, t, m.params)
       /\ UNCHANGED << wsPending, wsBroadcast >>
    \/ /\ m.op = "unsubscribe"
       /\ IF m.channel = "swap.update"
          THEN UnsubscribeSwaps(id, t, m.args) ELSE UnsubscribeOffers(id, t, m.args)
       /\ UNCHANGED << wsPending, wsBroadcast >>
    \/ /\ m.op \in { "invoice", "invoice.error" } /\ Invoice(id, t, m)

\* Message::Text: one more message than the limit is answered with a close frame.
TextMessage(id, m) ==
    /\ id \in Open /\ wsTask[id].at = "loop" /\ wsSent + wsNow < MaxWsWork[wsConfig]
    /\ LET limit == CheckMessageLimit(wsTask[id].limiter, wsNow)
           t == [ wsTask[id] EXCEPT !.activity = wsNow, !.limiter = limit.limiter ]
       IN  \/ /\ ~limit.ok
              /\ wsTask' = [ wsTask EXCEPT ![id] = [ t EXCEPT !.at = "close" ] ]
              /\ UNCHANGED << wsTables, wsPending, wsBroadcast >>
           \/ limit.ok /\ HandleWsMessage(id, t, m)
    /\ wsSent' = wsSent + 1
    /\ UNCHANGED << wsConfig, wsNow, wsOpened, wsAsked >>

-----------------------------------------------------------------------------
(* The other branches of the loop.                                         *)

\* What is sent has been taken over by the connection, or sending fails.  The task
\* ends when it fails, and after a close frame.
SendEnds(id) ==
    /\ id \in Open /\ wsTask[id].at \in { "send", "close" }
    /\ \/ /\ wsTask[id].at = "send"
          /\ wsTask' = [ wsTask EXCEPT ![id].at = "loop", ![id].reply = << "none" >> ]
          /\ UNCHANGED wsTables
       \/ GuardDrop(id)
    /\ UNCHANGED << wsConfig, wsPending, wsNow, wsHistory >>

\* A pong of the client, or a ping that is answered, or an update or a request that
\* is sent to it; none of them counts for the limit.
Activity(id) ==
    /\ id \in Open /\ wsTask[id].at = "loop"
    /\ \E next \in { "loop", "send" } :
         wsTask' = [ wsTask EXCEPT ![id].activity = wsNow, ![id].at = next ]
    /\ UNCHANGED << wsConfig, wsTables, wsPending, wsNow, wsHistory >>

\* The ping of the server is no activity of the client.
PingInterval(id) ==
    /\ id \in Open /\ wsTask[id].at = "loop"
    /\ wsTask' = [ wsTask EXCEPT ![id].at = "send" ]
    /\ UNCHANGED << wsConfig, wsTables, wsPending, wsNow, wsHistory >>

\* The client closes, reading fails, or the token is cancelled.
LoopEnds(id) ==
    /\ id \in Open /\ wsTask[id].at = "loop"
    /\ GuardDrop(id)
    /\ UNCHANGED << wsConfig, wsPending, wsNow, wsHistory >>

\* A mutant: the check is one interval late.
InactiveOneLate(t) == wsNow - t.activity > WsTimeout + WsCheckInterval

Inactive(t) == wsNow - t.activity > WsTimeout

CheckDue(id) == wsTask[id].at = "loop" /\ wsTask[id].check <= wsNow

\* Ticks that were missed are made up for.
ActivityCheck(id) ==
    /\ id \in Open /\ CheckDue(id)
    /\ IF Inactive(wsTask[id]) THEN GuardDrop(id)
       ELSE /\ wsTask' = [ wsTask EXCEPT ![id].check = @ + WsCheckInterval ]
            /\ UNCHANGED wsTables
    /\ UNCHANGED << wsConfig, wsPending, wsNow, wsHistory >>

\* request_invoice, for an offer that a connection is subscribed to.
AskInvoice(h, o) ==
    /\ h \notin wsAsked /\ Cardinality(wsAsked) < MaxWsRequests
    /\ o \in DOMAIN wsOwner /\ wsOwner[o] \in wsSenders
    /\ wsAsked' = wsAsked \cup {h}
    /\ wsPending' = wsPending \cup {h}
    /\ UNCHANGED << wsConfig, wsTables, wsTask, wsNow, wsOpened, wsSent, wsBroadcast >>

\* A task that waits in its loop runs before the clock goes on.
WsTick ==
    /\ wsSent + wsNow < MaxWsWork[wsConfig]
    /\ \A id \in Open : ~CheckDue(id)
    /\ wsNow' = wsNow + 1
    /\ UNCHANGED << wsConfig, wsTables, wsPending, wsTask, wsHistory >>

WsNext ==
    \/ \E id \in WsIds : AcceptConnection(id)
    \/ \E id \in WsIds, m \in WsMessages : TextMessage(id, m)
    \/ \E id \in WsIds : FetchedStatusInfo(id)
    \/ \E id \in WsIds : SendEnds(id)
    \/ \E id \in WsIds : Activity(id)
    \/ \E id \in WsIds : PingInterval(id)
    \/ \E id \in WsIds : LoopEnds(id)
    \/ \E id \in WsIds : ActivityCheck(id)
    \/ \E h \in WsHooks, o \in WsOffers : AskInvoice(h, o)
    \/ WsTick

WsSpec == WsInit /\ [][WsNext]_wsVars

-----------------------------------------------------------------------------
(* Properties.                                                             *)

\* The values the variables take.
WsTypeOK ==
    /\ Open \subseteq WsIds
    /\ wsSenders \subseteq WsIds /\ DOMAIN wsStatus \subseteq WsIds
    /\ \A o \in DOMAIN wsOwner : o \in WsOffers /\ wsOwner[o] \in WsIds
    /\ wsPending \subseteq wsAsked /\ wsNow \in 0 .. MaxWsWork[wsConfig]

\* Both tables know exactly the connections whose tasks run, so that the id of
\* an ended one can be drawn again without inheriting anything; and the two
\* directions of the table of swaps agree.
ClosedLeavesNothing ==
    /\ DOMAIN wsStatus = Open /\ wsSenders = Open
    /\ \A o \in DOMAIN wsOwner : wsOwner[o] \in Open
    /\ wsSwaps = UNION { wsStatus[id] \X {id} : id \in Open }

\* In no stretch of one window are more messages of a connection handled than
\* twice the limit: a window and the next one can be used up back to back.
BurstIsBounded ==
    wsConfig.perWindow # NotSet =>
      \A id \in Open : \A from \in 0 .. MaxWsWork[wsConfig] :
        Cardinality({ i \in DOMAIN wsTask[id].limiter.times :
                        wsTask[id].limiter.times[i] - from \in 0 .. WsWindow - 1 })
          <= 2 * wsConfig.perWindow

\* A task in its loop notices a client that neither sends nor receives anything by
\* the first check after the timeout, also when it comes back to the loop late.  It is
\* not noticed while the task asks the cache or sends: a client that does not read
\* can hold its task, and what is in the tables for it, for as long as it likes.
SilenceIsNoticed ==
    \A id \in Open : wsTask[id].at = "loop" =>
      CheckDue(id) \/ wsNow - wsTask[id].activity < WsTimeout + WsCheckInterval

\* The reply a client is sent tells what it is subscribed to when it gets it: all
\* it asked for, and after an unsubscription exactly what is left.  A request for too
\* many ids subscribes to none of them.
RepliesAreTrue ==
    \A id \in Open :
      LET reply == wsTask[id].reply
      IN  /\ reply[1] = "subscribe" =>
               ArgSet(reply[2]) \subseteq wsStatus[id] /\ Len(reply[2]) <= MaxSwapUpdateIds
          /\ reply[1] = "unsubscribe" => reply[2] = wsStatus[id]

\* A request for an invoice is answered once, and only one that was made.
RequestsAnsweredOnce ==
    /\ \A i, j \in DOMAIN wsBroadcast : wsBroadcast[i][1] = wsBroadcast[j][1] => i = j
    /\ \A i \in DOMAIN wsBroadcast : wsBroadcast[i][1] \in wsAsked \ wsPending

\* The sessions of clients: what holds of their limits, tables and replies.
SessionsAreSound ==
    ClosedLeavesNothing /\ BurstIsBounded /\ SilenceIsNoticed /\ RepliesAreTrue
    /\ RequestsAnsweredOnce

=============================================================================
