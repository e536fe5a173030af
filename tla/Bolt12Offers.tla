---------------------------- MODULE Bolt12Offers ----------------------------
(***************************************************************************)
(* BOLT12 offers registered with the sidecar: the table of offers          *)
(* (boltzr/src/lightning/cln/hold.rs, api/bolt12.rs), the WebSocket clients *)
(* subscribed to them (api/ws/offer_subscriptions.rs) and the fetch of an  *)
(* invoice for one (lightning/cln/invoice_fetcher.rs), which asks the      *)
(* subscribed client first and then, when that takes too long, the webhook *)
(* of the offer.  A fetch is started by the API or by an onion message of  *)
(* another node, which is answered with another onion message.             *)
(***************************************************************************)
EXTENDS FiniteSets

CONSTANTS
    Offers,         \* offers, one per signing key
    OfConns,        \* WebSocket connections, each opened at most once
    Fetches,        \* fetches of an invoice; a fetch is its hook's id
    OfferOf,        \* OfferOf[f]: the offer of a fetch
    Onion,          \* the fetches that answer an onion message
    NoConn          \* "no connection"

ASSUME OfAssumption ==
    /\ OfferOf \in [Fetches -> Offers] /\ Onion \subseteq Fetches
    /\ NoConn \notin OfConns

VARIABLES
    ofRow,      \* the offers table: "absent", "noUrl" or "url"
    ofConn,     \* a connection: "new", "open" or "closed"
    ofOwner,    \* all_offers: the connection subscribed to an offer
    ofPending,  \* pending_hooks
    ofChan,     \* requests in a connection's channel
    ofAsked,    \* requests that reached the client behind a connection
    ofPhase,    \* where a fetch is
    ofUrl,      \* the fetch's copy of the offer has a webhook
    ofVia,      \* the connection a fetch looked up
    ofInbox,    \* what the fetch's broadcast receiver holds
    ofResult,   \* "none", "invoice" or "error"
    ofInjected, \* onion fetches answered, or whose answer could not be built
    ofLast      \* history: who subscribed last and did not unsubscribe

ofVars == << ofRow, ofConn, ofOwner, ofPending, ofChan, ofAsked, ofPhase,
             ofUrl, ofVia, ofInbox, ofResult, ofInjected, ofLast >>
ofFetch == << ofPhase, ofUrl, ofVia, ofInbox, ofResult, ofInjected >>
ofWs == << ofConn, ofOwner, ofPending, ofChan, ofAsked, ofLast >>

Phases == { "new", "start", "lookup", "sender", "waitWs", "webhook",
            "calling", "waitHook", "done" }
Answers == { "invoice", "otherSigner", "error" }

OfInit ==
    /\ ofRow = [o \in Offers |-> "absent"]
    /\ ofConn = [c \in OfConns |-> "new"]
    /\ ofOwner = [o \in Offers |-> NoConn]
    /\ ofPending = {} /\ ofChan = {} /\ ofAsked = {}
    /\ ofPhase = [f \in Fetches |-> "new"]
    /\ ofUrl = [f \in Fetches |-> FALSE]
    /\ ofVia = [f \in Fetches |-> NoConn]
    /\ ofInbox = [f \in Fetches |-> {}]
    /\ ofResult = [f \in Fetches |-> "none"]
    /\ ofInjected = {}
    /\ ofLast = [o \in Offers |-> NoConn]

-----------------------------------------------------------------------------
(* The offers table; requests with a wrong signature change nothing.       *)

AddOffer(o, url) ==
    /\ ofRow[o] = "absent"
    /\ ofRow' = [ofRow EXCEPT ![o] = url]
    /\ UNCHANGED << ofWs, ofFetch >>

UpdateOffer(o, url) ==
    /\ ofRow[o] # "absent"
    /\ ofRow' = [ofRow EXCEPT ![o] = url]
    /\ UNCHANGED << ofWs, ofFetch >>

DeleteOffer(o) ==
    /\ ofRow[o] # "absent"
    /\ ofRow' = [ofRow EXCEPT ![o] = "absent"]
    /\ UNCHANGED << ofWs, ofFetch >>

-----------------------------------------------------------------------------
(* OfferSubscriptions.                                                     *)

OfConnect(c) ==
    /\ ofConn[c] = "new"
    /\ ofConn' = [ofConn EXCEPT ![c] = "open"]
    /\ UNCHANGED << ofRow, ofOwner, ofPending, ofChan, ofAsked, ofLast, ofFetch >>

\* A subscriber with a valid signature replaces the previous one.
OffersSubscribe(c, o) ==
    /\ ofConn[c] = "open"
    /\ ofOwner' = [ofOwner EXCEPT ![o] = c]
    /\ ofLast' = [ofLast EXCEPT ![o] = c]
    /\ UNCHANGED << ofRow, ofConn, ofPending, ofChan, ofAsked, ofFetch >>

OffersUnsubscribe(c, o) ==
    /\ ofConn[c] = "open"
    /\ ofOwner' = [ofOwner EXCEPT ![o] = IF @ = c THEN NoConn ELSE @]
    /\ ofLast' = [ofLast EXCEPT ![o] = IF @ = c THEN NoConn ELSE @]
    /\ UNCHANGED << ofRow, ofConn, ofPending, ofChan, ofAsked, ofFetch >>

OfClose(c) ==
    /\ ofConn[c] = "open"
    /\ ofConn' = [ofConn EXCEPT ![c] = "closed"]
    /\ ofOwner' = [o \in Offers |-> IF ofOwner[o] = c THEN NoConn ELSE ofOwner[o]]
    /\ ofChan' = { r \in ofChan : r[1] # c }
    /\ UNCHANGED << ofRow, ofPending, ofAsked, ofLast, ofFetch >>

\* The connection's task writes a request of its channel to the client.
WsRequest(c, f) ==
    /\ << c, f >> \in ofChan
    /\ ofChan' = ofChan \ { << c, f >> }
    /\ ofAsked' = ofAsked \cup { << c, f >> }
    /\ UNCHANGED << ofRow, ofConn, ofOwner, ofPending, ofLast, ofFetch >>

\* Whether the fetch still holds the receiver it made before the request.
Receiving(f) == ofPhase[f] \in { "sender", "waitWs" }

\* received_invoice_response: the first answer of a pending hook is broadcast.
ReceivedInvoiceResponse(c, f, a) ==
    /\ << c, f >> \in ofAsked /\ ofConn[c] = "open"
    /\ ofPending' = ofPending \ {f}
    /\ ofInbox' = IF f \in ofPending /\ Receiving(f)
                  THEN [ofInbox EXCEPT ![f] = @ \cup {a}] ELSE ofInbox
    /\ ofAsked' = ofAsked \ { << c, f >> }
    /\ UNCHANGED << ofRow, ofConn, ofOwner, ofChan, ofPhase, ofUrl, ofVia,
                    ofResult, ofInjected, ofLast >>

\* TimeoutMap: an entry outlives the longest wait for its answer.
PendingExpires(f) ==
    /\ f \in ofPending /\ ~Receiving(f)
    /\ ofPending' = ofPending \ {f}
    /\ UNCHANGED << ofRow, ofConn, ofOwner, ofChan, ofAsked, ofLast, ofFetch >>

-----------------------------------------------------------------------------
(* A fetch.                                                                *)

\* The API fetches for a registered offer (CLN fetches the others itself); an
\* onion message is resolved when its offer is registered, else passed on.
StartFetch(f) ==
    /\ ofPhase[f] = "new" /\ ofRow[OfferOf[f]] # "absent"
    /\ ofPhase' = [ofPhase EXCEPT ![f] = "start"]
    /\ ofUrl' = [ofUrl EXCEPT ![f] = ofRow[OfferOf[f]] = "url"]
    /\ UNCHANGED << ofRow, ofWs, ofVia, ofInbox, ofResult, ofInjected >>

\* request_invoice, first map: who is subscribed?
RequestLookup(f) ==
    /\ ofPhase[f] = "start"
    /\ ofVia' = [ofVia EXCEPT ![f] = ofOwner[OfferOf[f]]]
    /\ ofPhase' = [ofPhase EXCEPT ![f] =
                    IF ofOwner[OfferOf[f]] = NoConn THEN "webhook" ELSE "lookup"]
    /\ UNCHANGED << ofRow, ofWs, ofUrl, ofInbox, ofResult, ofInjected >>

\* A mutant: the stale entry is removed without comparing its owner.
RequestSenderRemovesAny(f) ==
    /\ ofPhase[f] = "lookup"
    /\ IF ofConn[ofVia[f]] = "open"
       THEN /\ ofPhase' = [ofPhase EXCEPT ![f] = "sender"]
            /\ ofPending' = ofPending \cup {f}
            /\ UNCHANGED ofOwner
       ELSE /\ ofPhase' = [ofPhase EXCEPT ![f] = "webhook"]
            /\ ofOwner' = [ofOwner EXCEPT ![OfferOf[f]] = NoConn]
            /\ UNCHANGED ofPending
    /\ UNCHANGED << ofRow, ofConn, ofChan, ofAsked, ofLast, ofUrl, ofVia,
                    ofInbox, ofResult, ofInjected >>

\* Second map: its sender.  By now another connection may own the offer.
RequestSender(f) ==
    /\ ofPhase[f] = "lookup"
    /\ IF ofConn[ofVia[f]] = "open"
       THEN /\ ofPhase' = [ofPhase EXCEPT ![f] = "sender"]
            /\ ofPending' = ofPending \cup {f}
            /\ UNCHANGED ofOwner
       ELSE /\ ofPhase' = [ofPhase EXCEPT ![f] = "webhook"]
            /\ ofOwner' = [ofOwner EXCEPT ![OfferOf[f]] =
                            IF @ = ofVia[f] THEN NoConn ELSE @]
            /\ UNCHANGED ofPending
    /\ UNCHANGED << ofRow, ofConn, ofChan, ofAsked, ofLast, ofUrl, ofVia,
                    ofInbox, ofResult, ofInjected >>

RequestSend(f) ==
    /\ ofPhase[f] = "sender" /\ ofConn[ofVia[f]] = "open"
    /\ ofChan' = ofChan \cup { << ofVia[f], f >> }
    /\ ofPhase' = [ofPhase EXCEPT ![f] = "waitWs"]
    /\ UNCHANGED << ofRow, ofConn, ofOwner, ofPending, ofAsked, ofLast, ofUrl,
                    ofVia, ofInbox, ofResult, ofInjected >>

Done(f, result) ==
    /\ ofPhase' = [ofPhase EXCEPT ![f] = "done"]
    /\ ofResult' = [ofResult EXCEPT ![f] = result]

\* The connection was closed meanwhile: an error, also when there is a webhook.
RequestSendFails(f) ==
    /\ ofPhase[f] = "sender" /\ ofConn[ofVia[f]] = "closed"
    /\ ofPending' = ofPending \ {f}
    /\ Done(f, "error")
    /\ UNCHANGED << ofRow, ofConn, ofOwner, ofChan, ofAsked, ofLast, ofUrl,
                    ofVia, ofInbox, ofInjected >>

\* wait_for_response: an answer is decoded and its signer compared.
TakeAnswer(f, phase) ==
    /\ ofPhase[f] = phase
    /\ \E a \in ofInbox[f] :
        Done(f, IF a = "invoice" THEN "invoice" ELSE "error")
    /\ UNCHANGED << ofRow, ofWs, ofUrl, ofVia, ofInbox, ofInjected >>

\* So many other answers were broadcast that the receiver lost some: an error.
ReceiverLags(f) ==
    /\ ofPhase[f] \in { "waitWs", "waitHook" }
    /\ Done(f, "error")
    /\ UNCHANGED << ofRow, ofWs, ofUrl, ofVia, ofInbox, ofInjected >>

\* A mutant: there is a timeout only for offers without a webhook.
WsTimeoutHangs(f) ==
    /\ ofPhase[f] = "waitWs" /\ ~ofUrl[f]
    /\ ofPhase' = [ofPhase EXCEPT ![f] = "webhook"]
    /\ UNCHANGED << ofRow, ofWs, ofUrl, ofVia, ofInbox, ofResult, ofInjected >>

WsTimeout(f) ==
    /\ ofPhase[f] = "waitWs"
    /\ ofPhase' = [ofPhase EXCEPT ![f] = "webhook"]
    /\ ofInbox' = [ofInbox EXCEPT ![f] = {}]
    /\ UNCHANGED << ofRow, ofWs, ofUrl, ofVia, ofResult, ofInjected >>

\* fetch_invoice_webhook: only with a URL in the fetch's copy of the offer.
Webhook(f) ==
    /\ ofPhase[f] = "webhook"
    /\ IF ofUrl[f]
       THEN /\ ofPhase' = [ofPhase EXCEPT ![f] = "calling"]
            /\ UNCHANGED ofResult
       ELSE Done(f, "error")
    /\ UNCHANGED << ofRow, ofWs, ofUrl, ofVia, ofInbox, ofInjected >>

\* The call ends: with an answer, which is broadcast to the waiting fetch, or
\* in the retry queue of the caller.
CallReturns(f) ==
    /\ ofPhase[f] = "calling"
    /\ ofPhase' = [ofPhase EXCEPT ![f] = "waitHook"]
    /\ \/ \E a \in Answers : ofInbox' = [ofInbox EXCEPT ![f] = {a}]
       \/ UNCHANGED ofInbox
    /\ UNCHANGED << ofRow, ofWs, ofUrl, ofVia, ofResult, ofInjected >>

\* A retry of the caller answers before the wait is over.
CallRetried(f, a) ==
    /\ ofPhase[f] = "waitHook" /\ ofInbox[f] = {}
    /\ ofInbox' = [ofInbox EXCEPT ![f] = {a}]
    /\ UNCHANGED << ofRow, ofWs, ofPhase, ofUrl, ofVia, ofResult, ofInjected >>

HookTimeout(f) ==
    /\ ofPhase[f] = "waitHook"
    /\ Done(f, "error")
    /\ UNCHANGED << ofRow, ofWs, ofUrl, ofVia, ofInbox, ofInjected >>

\* handle_response: an invoice or an error goes back along the reply path.
HandleResponse(f) ==
    /\ ofPhase[f] = "done" /\ f \in Onion \ ofInjected
    /\ ofInjected' = ofInjected \cup {f}
    /\ UNCHANGED << ofRow, ofWs, ofPhase, ofUrl, ofVia, ofInbox, ofResult >>

-----------------------------------------------------------------------------

FetchStep(f) ==
    \/ RequestLookup(f) \/ RequestSender(f) \/ RequestSend(f)
    \/ RequestSendFails(f) \/ TakeAnswer(f, "waitWs") \/ WsTimeout(f)
    \/ Webhook(f) \/ CallReturns(f) \/ TakeAnswer(f, "waitHook")
    \/ HookTimeout(f) \/ HandleResponse(f)

OfNext ==
    \/ \E o \in Offers :
        \/ \E url \in { "url", "noUrl" } : AddOffer(o, url) \/ UpdateOffer(o, url)
        \/ DeleteOffer(o)
        \/ \E c \in OfConns : OffersSubscribe(c, o) \/ OffersUnsubscribe(c, o)
    \/ \E c \in OfConns :
        \/ OfConnect(c) \/ OfClose(c)
        \/ \E f \in Fetches :
            \/ WsRequest(c, f)
            \/ \E a \in Answers : ReceivedInvoiceResponse(c, f, a)
    \/ \E f \in Fetches :
        \/ PendingExpires(f) \/ StartFetch(f) \/ FetchStep(f) \/ ReceiverLags(f)
        \/ \E a \in Answers : CallRetried(f, a)

\* The tasks of fetches and connections run and their timers fire.
OfFairness ==
    /\ \A f \in Fetches : WF_ofVars(FetchStep(f))
    /\ \A c \in OfConns, f \in Fetches : WF_ofVars(WsRequest(c, f))

OfSpec == OfInit /\ [][OfNext]_ofVars
FairOfSpec == OfSpec /\ OfFairness

-----------------------------------------------------------------------------

\* Types; a fetch has a result exactly when it has ended.
OfTypeOK ==
    /\ ofRow \in [Offers -> { "absent", "noUrl", "url" }]
    /\ ofConn \in [OfConns -> { "new", "open", "closed" }]
    /\ ofOwner \in [Offers -> OfConns \cup { NoConn }]
    /\ ofPending \subseteq Fetches
    /\ ofChan \cup ofAsked \subseteq OfConns \X Fetches
    /\ ofPhase \in [Fetches -> Phases]
    /\ ofInbox \in [Fetches -> SUBSET Answers]
    /\ ofResult \in [Fetches -> { "none", "invoice", "error" }]
    /\ \A f \in Fetches : ofPhase[f] = "done" <=> ofResult[f] # "none"
    /\ ofInjected \subseteq Onion

\* Requests for an offer go to the client that subscribed to it last, as long
\* as that client is connected and has not unsubscribed: neither the leaving
\* of an earlier subscriber nor a fetch that cleans up after it takes the
\* offer from the new one, and no closed connection keeps an offer.
LastSubscriberOwnsOffer ==
    \A o \in Offers :
        ofOwner[o] = IF ofLast[o] # NoConn /\ ofConn[ofLast[o]] = "open"
                     THEN ofLast[o] ELSE NoConn

\* An onion message the node was told to resolve is answered, with an invoice
\* or an error: no lost request, late answer, timeout or closed connection
\* leaves the fetch waiting.
ResolvedIsAnswered ==
    \A f \in Onion : ofPhase[f] = "start" ~> f \in ofInjected

=============================================================================
