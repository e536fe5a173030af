---------------------------- MODULE StatusStream ----------------------------
(***************************************************************************)
(* How clients of the sidecar hear of swap statuses: WebSocket connections  *)
(* (boltzr/src/api/ws/status.rs and status_subscriptions.rs) and           *)
(* server-sent events (api/sse.rs), fed by the backend over one gRPC stream *)
(* (grpc/service.rs, swap_update) and by a cache both processes share      *)
(* (grpc/status_fetcher.rs, lib/api/SwapInfos.ts).                         *)
(*                                                                         *)
(* Statuses of a swap are numbered in the order in which they are written; *)
(* 0 stands for none.  A message names the connection it answers, or All.  *)
(***************************************************************************)
EXTENDS Naturals, Sequences, FiniteSets

CONSTANTS
    StSwaps,        \* swaps
    WsConns,        \* WebSocket connections, each opened at most once
    SseConns,       \* server-sent event streams
    SseSwap,        \* SseSwap[e]: the swap that stream e is for
    All,            \* "no connection" in a message of the stream
    MaxStStatus,    \* bound: status changes of one swap
    MaxMessages,    \* bound: messages one client sends
    BusCap          \* capacity of the status broadcast channel

ASSUME StAssumption ==
    /\ SseSwap \in [SseConns -> StSwaps] /\ WsConns \cap SseConns = {}
    /\ All \notin WsConns \cup SseConns
    /\ MaxStStatus \in Nat /\ MaxMessages \in Nat /\ BusCap \in Nat \ {0}

StConns == WsConns \cup SseConns

VARIABLES
    stStatus,   \* status in the backend's database
    stCache,    \* the shared cache, 0 when there is no entry
    stPut,      \* cache writes of the backend on their way, in order
    stSender,   \* StatusFetcher.sender and the stream behind it
    stWire,     \* messages of the backend on the stream
    stReq,      \* fetches sent to the backend: connection and swap
    stRead,     \* fetches the backend has read a status for
    stBuffer,   \* StatusFetcher.buffer
    stPhase,    \* a connection: "new", "open", "fetching" or "closed"
    stWant,     \* the swap a connection in "fetching" fetches
    stMsgs,     \* messages received from a client
    stSubs,     \* StatusSubscriptions.subscriptions
    stIndex,    \* StatusSubscriptions.swaps, as pairs of swap and connection
    stFwd,      \* the forwarding task's receiver of the broadcast channel
    stSends,    \* spawned send_with_timeout tasks
    stSseQ,     \* receivers of the broadcast channel of the SSE streams
    stTold,     \* history: statuses each connection's client was sent
    stMissed    \* history: connection and swap of which something was dropped

stVars == << stStatus, stCache, stPut, stSender, stWire, stReq, stRead,
             stBuffer, stPhase, stWant, stMsgs, stSubs, stIndex, stFwd,
             stSends, stSseQ, stTold, stMissed >>
stBackend == << stStatus, stPut, stCache, stSender, stWire, stReq, stRead >>
stWs == << stMsgs, stSubs, stIndex, stFwd, stSends >>

StInit ==
    /\ stStatus = [s \in StSwaps |-> 1] /\ stCache = [s \in StSwaps |-> 0]
    /\ stPut = [s \in StSwaps |-> << >>]
    /\ stSender = "none"
    /\ stWire = << >> /\ stReq = {} /\ stRead = {} /\ stBuffer = {}
    /\ stPhase \in [StConns -> { "new", "closed" }]
    /\ stWant = [c \in StConns |-> CHOOSE s \in StSwaps : TRUE]
    /\ stMsgs = [c \in WsConns |-> 0]
    /\ stSubs = [c \in WsConns |-> {}] /\ stIndex = {}
    /\ stFwd = << >> /\ stSends = {}
    /\ stSseQ = [e \in SseConns |-> << >>]
    /\ stTold = [c \in StConns |-> {}]
    /\ stMissed = {}

Elements(q) == { q[i] : i \in 1..Len(q) }

\* The newest status of s was broadcast before connection c listened.
Announced(c, s) ==
    \A m \in Elements(stWire) \cup
             Elements(IF c \in WsConns THEN stFwd ELSE stSseQ[c]) :
        m.to = All /\ m.swap = s => m.status < stStatus[s]

-----------------------------------------------------------------------------
(* The backend.                                                            *)

\* 'swap.update': one listener writes the cache, another one the stream if there is
\* one.  TransactionDirect, which no row has and which skips the cache, is left out.
StUpdate(s) ==
    /\ stStatus[s] < MaxStStatus
    /\ stStatus' = [stStatus EXCEPT ![s] = @ + 1]
    /\ stPut' = [stPut EXCEPT ![s] = Append(@, stStatus[s] + 1)]
    /\ stWire' = IF stSender \in { "none", "down" } THEN stWire
                 ELSE Append(stWire, [to |-> All, swap |-> s,
                                      status |-> stStatus[s] + 1])
    /\ UNCHANGED << stCache, stSender, stReq, stRead, stBuffer, stPhase,
                    stWant, stWs, stSseQ, stTold, stMissed >>

CachePut(s) ==
    /\ stPut[s] # << >>
    /\ stCache' = [stCache EXCEPT ![s] = Head(stPut[s])]
    /\ stPut' = [stPut EXCEPT ![s] = Tail(@)]
    /\ UNCHANGED << stStatus, stSender, stWire, stReq, stRead, stBuffer,
                    stPhase, stWant, stWs, stSseQ, stTold, stMissed >>

\* SwapInfos.get: the cache or, on a miss, the database.  The backend has the
\* stream once set_sender is done.
BackendRead(r) ==
    /\ r \in stReq /\ stSender = "up"
    /\ stReq' = stReq \ {r}
    /\ LET hit == stCache[r.swap] # 0
           v == IF hit THEN stCache[r.swap] ELSE stStatus[r.swap]
       IN /\ stRead' = stRead \cup
                 { [to |-> r.to, swap |-> r.swap, status |-> v, hit |-> hit] }
          /\ stMissed' = IF v < stStatus[r.swap] /\ Announced(r.to, r.swap)
                         THEN stMissed \cup { << r.to, r.swap >> }
                         ELSE stMissed
    /\ UNCHANGED << stStatus, stCache, stPut, stSender, stWire, stBuffer,
                    stPhase, stWant, stWs, stSseQ, stTold >>

\* What came from the database is written to the cache, then answered.
BackendReply(f) ==
    /\ f \in stRead
    /\ stRead' = stRead \ {f}
    /\ stPut' = IF f.hit THEN stPut
                ELSE [stPut EXCEPT ![f.swap] = Append(@, f.status)]
    /\ stWire' = IF stSender = "down" THEN stWire
                 ELSE Append(stWire, [to |-> f.to, swap |-> f.swap,
                                      status |-> f.status])
    /\ UNCHANGED << stStatus, stCache, stSender, stReq, stBuffer, stPhase,
                    stWant, stWs, stSseQ, stTold, stMissed >>

\* An error of the stream: the backend does not open it again.
StStreamFails ==
    /\ stSender = "up"
    /\ stSender' = "down"
    /\ stWire' = << >> /\ stReq' = {}
    /\ UNCHANGED << stStatus, stCache, stPut, stRead, stBuffer, stPhase,
                    stWant, stWs, stSseQ, stTold, stMissed >>

-----------------------------------------------------------------------------
(* The stream's end in the sidecar.                                        *)

\* set_sender sends what is buffered, clears the buffer and only then stores
\* the sender: a fetch in between is buffered and forgotten.
SetSenderFlush ==
    /\ stSender = "none"
    /\ stSender' = "flushing"
    /\ stReq' = stReq \cup stBuffer
    /\ UNCHANGED << stStatus, stCache, stPut, stWire, stRead, stBuffer,
                    stPhase, stWant, stWs, stSseQ, stTold, stMissed >>

SetSenderClear ==
    /\ stSender = "flushing"
    /\ stSender' = "cleared"
    /\ stMissed' = stMissed \cup
           { << b.to, b.swap >> : b \in { b \in stBuffer : b \notin stReq } }
    /\ stBuffer' = {}
    /\ UNCHANGED << stStatus, stCache, stPut, stWire, stReq, stRead, stPhase,
                    stWant, stWs, stSseQ, stTold >>

SetSenderStore ==
    /\ stSender = "cleared"
    /\ stSender' = "up"
    /\ stMissed' = stMissed \cup { << b.to, b.swap >> : b \in stBuffer }
    /\ UNCHANGED << stStatus, stCache, stPut, stWire, stReq, stRead, stBuffer,
                    stPhase, stWant, stWs, stSseQ, stTold >>

\* A full receiver loses its oldest message.
Push(q, m) == Append(IF Len(q) = BusCap THEN Tail(q) ELSE q, m)

\* swap_update reads the stream, in order, and broadcasts.  A message to one
\* connection is in the channel of every receiver.
Broadcast ==
    /\ stSender = "up" /\ stWire # << >>
    /\ LET m == Head(stWire) IN
       /\ stFwd' = Push(stFwd, m)
       /\ stSseQ' = [e \in SseConns |->
                      IF stPhase[e] \in { "fetching", "open" }
                      THEN Append(stSseQ[e], m) ELSE << >>]
       /\ stMissed' = IF Len(stFwd) < BusCap THEN stMissed
                      ELSE stMissed \cup { << c, Head(stFwd).swap >> : c \in
                              { c \in WsConns : Head(stFwd).to \in {All, c} } }
    /\ stWire' = Tail(stWire)
    /\ UNCHANGED << stStatus, stCache, stPut, stSender, stReq, stRead,
                    stBuffer, stPhase, stWant, stMsgs, stSubs, stIndex,
                    stSends, stTold >>

-----------------------------------------------------------------------------
(* StatusFetcher.fetch_status_info, for both kinds of connection.          *)

\* A mutant: without a sender the fetch is dropped instead of buffered.
FetchMissUnbuffered(c, s) ==
    /\ stReq' = IF stSender = "up" THEN stReq \cup { [to |-> c, swap |-> s] }
                ELSE stReq
    /\ UNCHANGED << stBuffer, stMissed >>

FetchMiss(c, s) ==
    IF stSender = "up"
    THEN /\ stReq' = stReq \cup { [to |-> c, swap |-> s] }
         /\ UNCHANGED << stBuffer, stMissed >>
    ELSE IF stSender = "down"
    THEN /\ stMissed' = stMissed \cup { << c, s >> }
         /\ UNCHANGED << stBuffer, stReq >>
    ELSE /\ stBuffer' = stBuffer \cup { [to |-> c, swap |-> s] }
         /\ UNCHANGED << stReq, stMissed >>

StaleHit(c, s) ==
    IF stCache[s] < stStatus[s] /\ Announced(c, s)
    THEN stMissed \cup { << c, s >> } ELSE stMissed

-----------------------------------------------------------------------------
(* A WebSocket connection: one task per connection.                        *)

WsConnect(c) ==
    /\ stPhase[c] = "new"
    /\ stPhase' = [stPhase EXCEPT ![c] = "open"]
    /\ UNCHANGED << stBackend, stBuffer, stWant, stWs, stSseQ, stTold,
                    stMissed >>

\* handle_message, subscribe: the subscription is added before the fetch.
WsSubscribe(c, s) ==
    /\ stPhase[c] = "open" /\ stMsgs[c] < MaxMessages
    /\ stMsgs' = [stMsgs EXCEPT ![c] = @ + 1]
    /\ stSubs' = [stSubs EXCEPT ![c] = @ \cup {s}]
    /\ stIndex' = stIndex \cup { << s, c >> }
    /\ stPhase' = [stPhase EXCEPT ![c] = "fetching"]
    /\ stWant' = [stWant EXCEPT ![c] = s]
    /\ UNCHANGED << stBackend, stBuffer, stFwd, stSends, stSseQ, stTold,
                    stMissed >>

WsFetchHit(c) ==
    LET s == stWant[c] IN
    /\ stPhase[c] = "fetching" /\ stCache[s] # 0
    /\ stPhase' = [stPhase EXCEPT ![c] = "open"]
    /\ stSends' = stSends \cup
           { [to |-> c, swap |-> s, status |-> stCache[s]] }
    /\ stMissed' = StaleHit(c, s)
    /\ UNCHANGED << stBackend, stBuffer, stWant, stMsgs, stSubs, stIndex,
                    stFwd, stSseQ, stTold >>

WsFetchMiss(c) ==
    LET s == stWant[c] IN
    /\ stPhase[c] = "fetching" /\ stCache[s] = 0
    /\ stPhase' = [stPhase EXCEPT ![c] = "open"]
    /\ FetchMiss(c, s)
    /\ UNCHANGED << stStatus, stCache, stPut, stSender, stWire, stRead, stWant,
                    stWs, stSseQ, stTold >>

\* The cache does not answer: only logged, for both kinds of connection.
FetchFails(c) ==
    /\ stPhase[c] = "fetching"
    /\ stPhase' = [stPhase EXCEPT ![c] = "open"]
    /\ stMissed' = stMissed \cup
           { << c, IF c \in WsConns THEN stWant[c] ELSE SseSwap[c] >> }
    /\ UNCHANGED << stBackend, stBuffer, stWant, stWs, stSseQ, stTold >>

WsUnsubscribe(c, s) ==
    /\ stPhase[c] = "open" /\ stMsgs[c] < MaxMessages
    /\ stMsgs' = [stMsgs EXCEPT ![c] = @ + 1]
    /\ stSubs' = [stSubs EXCEPT ![c] = @ \ {s}]
    /\ stIndex' = stIndex \ { << s, c >> }
    /\ UNCHANGED << stBackend, stBuffer, stPhase, stWant, stFwd, stSends,
                    stSseQ, stTold, stMissed >>

\* connection_dropped: nothing of the connection stays behind.
ConnectionDropped(c) ==
    /\ stSubs' = [stSubs EXCEPT ![c] = {}]
    /\ stIndex' = { p \in stIndex : p[2] # c }
    /\ stSends' = { d \in stSends : d.to # c }

\* The loop ends: closed by the client, a failed write, the message limit or
\* the inactivity timeout.  The guard is dropped.
WsClose(c) ==
    /\ stPhase[c] = "open"
    /\ stPhase' = [stPhase EXCEPT ![c] = "closed"]
    /\ ConnectionDropped(c)
    /\ UNCHANGED << stBackend, stBuffer, stWant, stMsgs, stFwd, stSseQ, stTold,
                    stMissed >>

\* forward_updates: to the connection that asked, or to those the index names;
\* each send is a task of its own, so that two may overtake each other.
Targets(m) ==
    { c \in WsConns : /\ IF m.to = All THEN << m.swap, c >> \in stIndex
                         ELSE m.to = c
                      /\ m.swap \in stSubs[c] }

Forward ==
    /\ stFwd # << >>
    /\ stFwd' = Tail(stFwd)
    /\ stSends' = stSends \cup
           { [to |-> c, swap |-> Head(stFwd).swap,
              status |-> Head(stFwd).status] : c \in Targets(Head(stFwd)) }
    /\ UNCHANGED << stBackend, stBuffer, stPhase, stWant, stMsgs, stSubs, stIndex,
                    stSseQ, stTold, stMissed >>

\* The task of the connection takes the update from its channel and writes it.
WsDeliver(d) ==
    /\ d \in stSends /\ stPhase[d.to] = "open"
    /\ stSends' = stSends \ {d}
    /\ stTold' = [stTold EXCEPT ![d.to] = @ \cup { << d.swap, d.status >> }]
    /\ UNCHANGED << stBackend, stBuffer, stPhase, stWant, stMsgs, stSubs, stIndex,
                    stFwd, stSseQ, stMissed >>

\* The channel stays full for SEND_TIMEOUT: the update is dropped.
SendTimesOut(d) ==
    /\ d \in stSends
    /\ stSends' = stSends \ {d}
    /\ stMissed' = stMissed \cup { << d.to, d.swap >> }
    /\ UNCHANGED << stBackend, stBuffer, stPhase, stWant, stMsgs, stSubs, stIndex,
                    stFwd, stSseQ, stTold >>

-----------------------------------------------------------------------------
(* A stream of server-sent events: the receiver exists before the fetch.   *)

SseOpen(e) ==
    /\ stPhase[e] = "new"
    /\ stPhase' = [stPhase EXCEPT ![e] = "fetching"]
    /\ UNCHANGED << stBackend, stBuffer, stWant, stWs, stSseQ, stTold,
                    stMissed >>

SseFetchHit(e) ==
    LET s == SseSwap[e] IN
    /\ stPhase[e] = "fetching" /\ stCache[s] # 0
    /\ stPhase' = [stPhase EXCEPT ![e] = "open"]
    /\ stTold' = [stTold EXCEPT ![e] = @ \cup { << s, stCache[s] >> }]
    /\ stMissed' = StaleHit(e, s)
    /\ UNCHANGED << stBackend, stBuffer, stWant, stWs, stSseQ >>

SseFetchMiss(e) ==
    /\ stPhase[e] = "fetching" /\ stCache[SseSwap[e]] = 0
    /\ stPhase' = [stPhase EXCEPT ![e] = "open"]
    /\ FetchMiss(e, SseSwap[e])
    /\ UNCHANGED << stStatus, stCache, stPut, stSender, stWire, stRead, stWant,
                    stWs, stSseQ, stTold >>

SseRecv(e) ==
    /\ stPhase[e] = "open" /\ stSseQ[e] # << >> /\ Len(stSseQ[e]) <= BusCap
    /\ LET m == Head(stSseQ[e]) IN
       stTold' = IF m.to \in { All, e } /\ m.swap = SseSwap[e]
                 THEN [stTold EXCEPT ![e] = @ \cup { << m.swap, m.status >> }]
                 ELSE stTold
    /\ stSseQ' = [stSseQ EXCEPT ![e] = Tail(@)]
    /\ UNCHANGED << stBackend, stBuffer, stPhase, stWant, stWs, stMissed >>

\* The receiver lagged, or the client went away: the stream ends.
SseEnd(e) ==
    /\ stPhase[e] = "open"
    /\ stPhase' = [stPhase EXCEPT ![e] = "closed"]
    /\ stSseQ' = [stSseQ EXCEPT ![e] = << >>]
    /\ UNCHANGED << stBackend, stBuffer, stWant, stWs, stTold, stMissed >>

-----------------------------------------------------------------------------

StNext ==
    \/ \E s \in StSwaps : StUpdate(s) \/ CachePut(s)
    \/ \E r \in stReq : BackendRead(r)
    \/ \E f \in stRead : BackendReply(f)
    \/ StStreamFails \/ SetSenderFlush \/ SetSenderClear \/ SetSenderStore
    \/ Broadcast \/ Forward
    \/ \E c \in WsConns :
        \/ WsConnect(c) \/ WsClose(c)
        \/ WsFetchHit(c) \/ WsFetchMiss(c)
        \/ \E s \in StSwaps : WsSubscribe(c, s) \/ WsUnsubscribe(c, s)
    \/ \E c \in StConns : FetchFails(c)
    \/ \E d \in stSends : WsDeliver(d) \/ SendTimesOut(d)
    \/ \E e \in SseConns :
        SseOpen(e) \/ SseFetchHit(e) \/ SseFetchMiss(e) \/ SseRecv(e) \/ SseEnd(e)

\* Tasks of the two processes run, and the backend connects its stream at
\* startup.
StFairness ==
    /\ \A s \in StSwaps : WF_stVars(CachePut(s))
    /\ WF_stVars(\E r \in stReq : BackendRead(r))
    /\ WF_stVars(\E f \in stRead : BackendReply(f))
    /\ WF_stVars(SetSenderFlush) /\ WF_stVars(SetSenderClear)
    /\ WF_stVars(SetSenderStore)
    /\ WF_stVars(Broadcast) /\ WF_stVars(Forward)
    /\ \A c \in WsConns : /\ WF_stVars(WsFetchHit(c) \/ WsFetchMiss(c))
                          /\ WF_stVars(\E d \in stSends : d.to = c /\ WsDeliver(d))
    /\ \A e \in SseConns : /\ WF_stVars(SseFetchHit(e) \/ SseFetchMiss(e))
                           /\ WF_stVars(SseRecv(e))
    /\ \A e \in SseConns : WF_stVars(Len(stSseQ[e]) > BusCap /\ SseEnd(e))

StSpec == StInit /\ [][StNext]_stVars
FairStSpec == StSpec /\ StFairness

-----------------------------------------------------------------------------

MsgType == [ to : StConns \cup { All }, swap : StSwaps,
             status : 1..MaxStStatus ]

\* Types of the stream's state; the forwarding task's receiver never holds
\* more than the channel's capacity.
StTypeOK ==
    /\ stStatus \in [StSwaps -> 1..MaxStStatus]
    /\ stCache \in [StSwaps -> 0..MaxStStatus]
    /\ stSender \in { "none", "flushing", "cleared", "up", "down" }
    /\ Elements(stWire) \subseteq MsgType
    /\ stReq \cup stBuffer \subseteq [to : StConns, swap : StSwaps]
    /\ stPhase \in [StConns -> { "new", "open", "fetching", "closed" }]
    /\ Elements(stFwd) \subseteq MsgType /\ Len(stFwd) <= BusCap
    /\ stSends \subseteq MsgType /\ stMsgs \in [WsConns -> 0..MaxMessages]
    /\ stMissed \subseteq StConns \X StSwaps

\* The index of StatusSubscriptions, by which updates find their connections,
\* agrees with the subscriptions of the connections: nothing subscribed is
\* missing from it, and no closed connection is kept in it.
IndexMatchesSubscriptions ==
    stIndex = { p \in StSwaps \X WsConns :
                    p[1] \in stSubs[p[2]] /\ stPhase[p[2]] \in { "open", "fetching" } }

\* Whoever listens to a swap is sent its newest status, whichever way the
\* fetch, the cache and the broadcast interleave, unless something was dropped
\* at one of the places that record it in stMissed or the backend's stream is
\* down.
Listens(c, s) ==
    IF c \in WsConns THEN s \in stSubs[c]
    ELSE s = SseSwap[c] /\ stPhase[c] \in { "fetching", "open" }

ListenerLearnsStatus ==
    \A c \in StConns, s \in StSwaps :
        Listens(c, s) ~> \/ << s, stStatus[s] >> \in stTold[c]
                         \/ ~Listens(c, s)
                         \/ << c, s >> \in stMissed
                         \/ stSender = "down"

=============================================================================
