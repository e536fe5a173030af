---------------------------- MODULE ChainScanner ----------------------------
(***************************************************************************)
(* How the sidecar finds the transactions of swaps on a UTXO chain.        *)
(*                                                                         *)
(* The node publishes transactions and blocks on two ZMQ sockets           *)
(* (chain/zmq_client.rs).  One task of the chain client forwards           *)
(* unconfirmed transactions and the transactions of blocks, another one    *)
(* the heights of blocks (chain/chain_client.rs, new).  The UTXO nursery   *)
(* (swap/utxo_nursery.rs) takes both: a transaction is matched with the    *)
(* database (swap/tx_check.rs) and announced to the backend, a height is   *)
(* written to the chainTips table.  After a restart the backend asks for a *)
(* rescan, which starts at the height of that table                        *)
(* (swap/manager.rs, rescan_chains; chain_client.rs, rescan and            *)
(* scan_mempool).                                                          *)
(*                                                                         *)
(* Every transaction here is of interest to a swap: it passes              *)
(* is_relevant_tx and tx_check.  Reorganisations are not modelled; what   *)
(* is announced is heard by a backend that is subscribed: the channel from *)
(* the nursery to the stream (grpc/service.rs, transaction_found) is taken *)
(* to be long enough.                                                      *)
(***************************************************************************)
EXTENDS Integers, Sequences, FiniteSetsExt, TLAPS

CONSTANTS
    ScTxs,          \* transactions of swaps
    MaxHeight,      \* bound on the height of the chain
    ScCap,          \* capacity of the broadcast channels
    MaxScFaults,    \* bound on failing calls and dropped sockets
    MaxScRestarts   \* bound on restarts of the sidecar

ASSUME ScAssumption ==
    /\ MaxHeight \in Nat \ {0} /\ ScCap \in Nat \ {0}
    /\ MaxScFaults \in Nat /\ MaxScRestarts \in Nat

VARIABLES
    scHeight,   \* the best height of the node
    scAt,       \* where a transaction is: Unsent, Mempool or its height
    scSock,     \* the two ZMQ sockets
    scZmqTx,    \* transactions not yet taken by the transaction forwarder
    scZmqBlk,   \* blocks not yet taken by the transaction forwarder
    scZmqTip,   \* blocks not yet taken by the block forwarder
    scTxBus,    \* tx_sender of the chain client, as the nursery sees it
    scBlkBus,   \* block_sender of the chain client
    scTip,      \* the height in chainTips
    scSub,      \* the backend receives relevant transactions
    scRescan,   \* the rescan
    scHeard,    \* transactions announced to the backend as confirmed
    scUp,       \* the sidecar is running
    scDown,     \* history: transactions confirmed while it was not
    scMissed,   \* history: transactions a fault, a full channel or a restart lost
    scFaults, scRestarts

scVars == << scHeight, scAt, scSock, scZmqTx, scZmqBlk, scZmqTip, scTxBus,
             scBlkBus, scTip, scSub, scRescan, scHeard, scUp, scDown, scMissed,
             scFaults, scRestarts >>
scNode == << scHeight, scAt >>
scZmq == << scSock, scZmqTx, scZmqBlk, scZmqTip >>
scRun == << scUp, scDown, scRestarts >>

Unsent == -1
Mempool == 0
Sockets == { "rawtx", "rawblock" }

\* The rescan is "idle", "due" (the backend will ask for it), "blocks" (the
\* heights "todo" are still to be fetched, up to "end", and of the block fetched
\* last the transactions "txs" still to be sent) or "mempool" (the transactions
\* "txs" are still to be fetched and sent).
NoRescan == [ phase |-> "idle", todo |-> {}, end |-> 0, txs |-> {} ]

ScInit ==
    /\ scHeight = 1 /\ scAt = [t \in ScTxs |-> Unsent]
    /\ scSock = [s \in Sockets |-> TRUE]
    /\ scZmqTx = << >> /\ scZmqBlk = << >> /\ scZmqTip = << >>
    /\ scTxBus = << >> /\ scBlkBus = << >>
    /\ scTip = 1 /\ scSub = TRUE /\ scRescan = NoRescan
    /\ scHeard = {} /\ scUp = TRUE /\ scDown = {} /\ scMissed = {}
    /\ scFaults = 0 /\ scRestarts = 0

ScFault == scFaults < MaxScFaults /\ scFaults' = scFaults + 1

TxsOf(h) == { t \in ScTxs : scAt[t] = h }
Confirmed(t) == scAt[t] > Mempool

\* A broadcast channel at its capacity overwrites its oldest message; the
\* receiver learns that it lagged, warns and goes on.
ScPush(q, m) == IF Len(q) < ScCap THEN Append(q, m) ELSE Append(Tail(q), m)
Overwritten(q) == IF Len(q) < ScCap THEN {} ELSE { Head(q) }

Msg(ts, confirmed) == [ txs |-> ts, confirmed |-> confirmed ]
ConfirmedOf(msgs) == UNION { m.txs : m \in { n \in msgs : n.confirmed } }

\* What the nursery loses when a message is sent to it
Lost == ConfirmedOf(Overwritten(scTxBus))

-----------------------------------------------------------------------------
(* The node and the ZMQ sockets                                            *)

\* A transaction enters the node's mempool.
NodeAccepts(t) ==
    /\ scAt[t] = Unsent
    /\ scAt' = [scAt EXCEPT ![t] = Mempool]
    /\ scZmqTx' = IF scUp /\ scSock["rawtx"] THEN ScPush(scZmqTx, t) ELSE scZmqTx
    /\ UNCHANGED << scHeight, scSock, scZmqBlk, scZmqTip, scTxBus, scBlkBus, scTip,
                    scSub, scRescan, scHeard, scMissed, scFaults, scRun >>

\* The transactions of a block, published one after the other
PublishTxs(q, ts) == FoldSet(LAMBDA t, sent : ScPush(sent, t), q, ts)

\* The node connects a block with the transactions ts: it publishes the block
\* and every transaction of it once more.  A socket that is down misses it.
NodeConnects(ts) ==
    /\ scHeight < MaxHeight
    /\ \A t \in ts : scAt[t] \in { Unsent, Mempool }
    /\ scHeight' = scHeight + 1
    /\ scAt' = [t \in ScTxs |-> IF t \in ts THEN scHeight' ELSE scAt[t]]
    /\ scZmqTx' = IF scUp /\ scSock["rawtx"]
                  THEN PublishTxs(scZmqTx, ts) ELSE scZmqTx
    /\ IF scUp /\ scSock["rawblock"]
       THEN /\ scZmqBlk' = ScPush(scZmqBlk, scHeight')
            /\ scZmqTip' = ScPush(scZmqTip, scHeight')
            /\ scMissed' = scMissed \cup UNION { TxsOf(h) : h \in Overwritten(scZmqBlk) }
       ELSE /\ scMissed' = IF scUp /\ scRescan.phase # "due" THEN scMissed \cup ts
                           ELSE scMissed
            /\ UNCHANGED << scZmqBlk, scZmqTip >>
    /\ scDown' = IF scUp THEN scDown ELSE scDown \cup ts
    /\ UNCHANGED << scSock, scTxBus, scBlkBus, scTip, scSub, scRescan, scHeard,
                    scUp, scFaults, scRestarts >>

\* A socket fails, or is silent for too long.  It is reopened a second later,
\* and nothing asks for what was published in between.
SockDrops(s) ==
    /\ scUp /\ scSock[s] /\ ScFault
    /\ scSock' = [scSock EXCEPT ![s] = FALSE]
    /\ UNCHANGED << scNode, scZmqTx, scZmqBlk, scZmqTip, scTxBus, scBlkBus, scTip,
                    scSub, scRescan, scHeard, scMissed, scRun >>

SockReconnects(s) ==
    /\ scUp /\ ~scSock[s]
    /\ scSock' = [scSock EXCEPT ![s] = TRUE]
    /\ UNCHANGED << scNode, scZmqTx, scZmqBlk, scZmqTip, scTxBus, scBlkBus, scTip,
                    scSub, scRescan, scHeard, scMissed, scFaults, scRun >>

-----------------------------------------------------------------------------
(* The two forwarders of the chain client                                  *)

\* A transaction that is confirmed by now, or that the node does not know any
\* more, is not forwarded.
ForwardTx ==
    /\ scZmqTx # << >>
    /\ scZmqTx' = Tail(scZmqTx)
    /\ \/ \E t \in TxsOf(Mempool) :
            /\ Head(scZmqTx) = t
            /\ scTxBus' = ScPush(scTxBus, Msg({ t }, FALSE))
            /\ scMissed' = scMissed \cup Lost /\ UNCHANGED scFaults
       \/ /\ Head(scZmqTx) \notin TxsOf(Mempool)
          /\ UNCHANGED << scTxBus, scMissed, scFaults >>
       \/ ScFault /\ UNCHANGED << scTxBus, scMissed >>
    /\ UNCHANGED << scNode, scSock, scZmqBlk, scZmqTip, scBlkBus, scTip, scSub,
                    scRescan, scHeard, scRun >>

\* A mutant: what the node reported as confirmed is left to the other stream.
ForwardBlockTxsUnseen ==
    /\ scZmqBlk # << >>
    /\ scZmqBlk' = Tail(scZmqBlk)
    /\ LET new == { t \in TxsOf(Head(scZmqBlk)) : t \notin Range(scZmqTx) }
       IN  scTxBus' = ScPush(scTxBus, Msg(new, TRUE))
    /\ scMissed' = scMissed \cup Lost
    /\ UNCHANGED << scNode, scSock, scZmqTx, scZmqTip, scBlkBus, scTip, scSub,
                    scRescan, scHeard, scFaults, scRun >>

\* The transactions of a block are one message.
ForwardBlockTxs ==
    /\ scZmqBlk # << >>
    /\ scZmqBlk' = Tail(scZmqBlk)
    /\ scTxBus' = ScPush(scTxBus, Msg(TxsOf(Head(scZmqBlk)), TRUE))
    /\ scMissed' = scMissed \cup Lost
    /\ UNCHANGED << scNode, scSock, scZmqTx, scZmqTip, scBlkBus, scTip, scSub,
                    scRescan, scHeard, scFaults, scRun >>

\* The height of a block comes from another call to the node; when that fails
\* the block is dropped, but not its transactions.
ForwardBlock ==
    /\ scZmqTip # << >>
    /\ scZmqTip' = Tail(scZmqTip)
    /\ \/ scBlkBus' = ScPush(scBlkBus, Head(scZmqTip)) /\ UNCHANGED scFaults
       \/ ScFault /\ UNCHANGED scBlkBus
    /\ UNCHANGED << scNode, scSock, scZmqTx, scZmqBlk, scTxBus, scTip, scSub,
                    scRescan, scHeard, scMissed, scRun >>

-----------------------------------------------------------------------------
(* The UTXO nursery                                                        *)

\* check_tx: nobody is told while the backend is not subscribed, and a failed
\* query loses the message.
CheckTx ==
    /\ scTxBus # << >>
    /\ scTxBus' = Tail(scTxBus)
    /\ LET found == ConfirmedOf({ Head(scTxBus) })
       IN  \/ /\ scSub /\ scHeard' = scHeard \cup found
              /\ UNCHANGED << scMissed, scFaults >>
           \/ /\ ~scSub /\ scMissed' = scMissed \cup found
              /\ UNCHANGED << scHeard, scFaults >>
           \/ /\ ScFault /\ scMissed' = scMissed \cup found /\ UNCHANGED scHeard
    /\ UNCHANGED << scNode, scZmq, scBlkBus, scTip, scSub, scRescan, scRun >>

\* check_block records the height, whatever the table said before.  The blocks
\* between the two heights are not looked at: while a rescan is due, this moves
\* its start past them.
CheckBlock ==
    /\ scBlkBus # << >>
    /\ scBlkBus' = Tail(scBlkBus)
    /\ \/ /\ scTip' = Head(scBlkBus) /\ UNCHANGED scFaults
          /\ scMissed' = IF scRescan.phase = "due"
                         THEN scMissed \cup UNION { TxsOf(h) : h \in scTip .. scTip' - 1 }
                         ELSE scMissed
       \/ ScFault /\ UNCHANGED << scTip, scMissed >>
    /\ UNCHANGED << scNode, scZmq, scTxBus, scSub, scRescan, scHeard, scRun >>

-----------------------------------------------------------------------------
(* Restart and rescan                                                      *)

\* In a queue that will announce it as confirmed, or in what a rescan still has to
\* fetch or to send
InMemory(t) ==
    \/ t \in ConfirmedOf(Range(scTxBus))
    \/ scAt[t] \in Range(scZmqBlk) \cup scRescan.todo
    \/ scRescan.phase = "blocks" /\ t \in scRescan.txs

\* The sidecar stops, and what is in its queues is gone.
ScStops ==
    /\ scUp /\ scRestarts < MaxScRestarts
    /\ scUp' = FALSE /\ scRestarts' = scRestarts + 1
    /\ scSock' = [s \in Sockets |-> TRUE]
    /\ scZmqTx' = << >> /\ scZmqBlk' = << >> /\ scZmqTip' = << >>
    /\ scTxBus' = << >> /\ scBlkBus' = << >>
    /\ scSub' = FALSE /\ scRescan' = [NoRescan EXCEPT !.phase = "due"]
    /\ scMissed' = scMissed \cup { t \in ScTxs : InMemory(t) /\ scAt[t] < scTip }
    /\ UNCHANGED << scNode, scTip, scHeard, scDown, scFaults >>

\* It starts with its sockets open and the nursery listening.  The backend,
\* which starts it, subscribes, and asks for the rescan once everything else
\* is initialised.
ScStarts ==
    /\ ~scUp /\ scUp' = TRUE
    /\ UNCHANGED << scNode, scZmq, scTxBus, scBlkBus, scTip, scSub, scRescan,
                    scHeard, scDown, scMissed, scFaults, scRestarts >>

TransactionFound ==
    /\ scUp /\ ~scSub /\ scSub' = TRUE
    /\ UNCHANGED << scNode, scZmq, scTxBus, scBlkBus, scTip, scRescan, scHeard,
                    scMissed, scFaults, scRun >>

\* A mutant: the recorded height counts as scanned.
RescanAfter(start) ==
    [ phase |-> "blocks", todo |-> start + 1 .. scHeight, end |-> scHeight,
      txs |-> {} ]

\* A rescan from the height start to the node's best one.
RescanFrom(start) ==
    [ phase |-> "blocks", todo |-> start .. scHeight, end |-> scHeight,
      txs |-> {} ]

\* rescan_chains takes the recorded height as it is now.  A node that does not
\* answer fails the rescan, which the backend only logs.
RescanChains ==
    /\ scUp /\ scRescan.phase = "due" /\ scSub
    /\ \/ /\ scRescan' = RescanFrom(scTip) /\ UNCHANGED << scMissed, scFaults >>
       \/ /\ ScFault /\ scRescan' = NoRescan
          /\ scMissed' = scMissed \cup { t \in ScTxs : scAt[t] >= scTip }
    /\ UNCHANGED << scNode, scZmq, scTxBus, scBlkBus, scTip, scSub, scHeard, scRun >>

\* The next block is fetched.
RescanBlock ==
    /\ scRescan.phase = "blocks" /\ scRescan.txs = {}
    /\ \E h \in scRescan.todo :
         /\ \A k \in scRescan.todo : h <= k
         /\ scRescan' = [scRescan EXCEPT !.todo = @ \ { h }, !.txs = TxsOf(h)]
         /\ scMissed' = scMissed \ TxsOf(h)
    /\ UNCHANGED << scNode, scZmq, scTxBus, scBlkBus, scTip, scSub, scHeard, scFaults,
                    scRun >>

\* Its transactions are sent one by one.
RescanSends ==
    /\ scRescan.phase = "blocks"
    /\ \E t \in scRescan.txs :
         /\ scRescan' = [scRescan EXCEPT !.txs = @ \ { t }]
         /\ scTxBus' = ScPush(scTxBus, Msg({ t }, TRUE))
    /\ scMissed' = scMissed \cup Lost
    /\ UNCHANGED << scNode, scZmq, scBlkBus, scTip, scSub, scHeard, scFaults, scRun >>

\* The call for one block fails and it is skipped, or the one for a batch does
\* and everything after it is skipped: both are only logged.
RescanSkips ==
    /\ scRescan.phase = "blocks" /\ scRescan.txs = {} /\ ScFault
    /\ \E h \in scRescan.todo :
         /\ \A k \in scRescan.todo : h <= k
         /\ \E skipped \in { { h }, scRescan.todo } :
              /\ scRescan' = [scRescan EXCEPT !.todo = @ \ skipped]
              /\ scMissed' = scMissed \cup UNION { TxsOf(k) : k \in skipped }
    /\ UNCHANGED << scNode, scZmq, scTxBus, scBlkBus, scTip, scSub, scHeard, scRun >>

\* The height the rescan aimed at is recorded, blocks skipped or not, then the
\* mempool is listed.  When the record fails the mempool is not scanned.
RescanEnds ==
    /\ scRescan.phase = "blocks" /\ scRescan.todo = {} /\ scRescan.txs = {}
    /\ \/ /\ scTip' = scRescan.end /\ UNCHANGED scFaults
          /\ scRescan' = [NoRescan EXCEPT !.phase = "mempool", !.txs = TxsOf(Mempool)]
       \/ ScFault /\ scRescan' = NoRescan /\ UNCHANGED scTip
    /\ UNCHANGED << scNode, scZmq, scTxBus, scBlkBus, scSub, scHeard, scMissed, scRun >>

\* scan_mempool sends every listed transaction as unconfirmed, one that was
\* confirmed since then included.  A failed call loses one, or all that are left.
ScanMempool ==
    /\ scRescan.phase = "mempool"
    /\ \/ /\ scRescan.txs = {} /\ scRescan' = NoRescan
          /\ UNCHANGED << scTxBus, scMissed, scFaults >>
       \/ \E t \in scRescan.txs :
            /\ scRescan' = [scRescan EXCEPT !.txs = @ \ { t }]
            /\ scTxBus' = ScPush(scTxBus, Msg({ t }, FALSE))
            /\ scMissed' = scMissed \cup Lost /\ UNCHANGED scFaults
       \/ \E lost \in SUBSET scRescan.txs \ {{}} :
            /\ ScFault /\ scRescan' = [scRescan EXCEPT !.txs = @ \ lost]
            /\ UNCHANGED << scTxBus, scMissed >>
    /\ UNCHANGED << scNode, scZmq, scBlkBus, scTip, scSub, scHeard, scRun >>

ScNext ==
    \/ \E t \in ScTxs : NodeAccepts(t)
    \/ \E ts \in SUBSET ScTxs : NodeConnects(ts)
    \/ \E s \in Sockets : SockDrops(s) \/ SockReconnects(s)
    \/ ForwardTx \/ ForwardBlockTxs \/ ForwardBlock
    \/ CheckTx \/ CheckBlock
    \/ ScStops \/ ScStarts \/ TransactionFound
    \/ RescanChains \/ RescanBlock \/ RescanSends \/ RescanSkips \/ RescanEnds
    \/ ScanMempool

\* Every task of the sidecar runs until it waits, a socket is reopened in a
\* loop, and the backend goes on with its startup.
ScFairness ==
    /\ \A s \in Sockets : WF_scVars(SockReconnects(s))
    /\ WF_scVars(ForwardTx) /\ WF_scVars(ForwardBlockTxs) /\ WF_scVars(ForwardBlock)
    /\ WF_scVars(CheckTx) /\ WF_scVars(CheckBlock)
    /\ WF_scVars(ScStarts) /\ WF_scVars(TransactionFound) /\ WF_scVars(RescanChains)
    /\ WF_scVars(RescanBlock) /\ WF_scVars(RescanSends) /\ WF_scVars(RescanEnds)
    /\ WF_scVars(ScanMempool)

ScSpec == ScInit /\ [][ScNext]_scVars
FairScSpec == ScSpec /\ ScFairness

-----------------------------------------------------------------------------
\* The recorded height is never above the node's, channels keep their
\* capacity, and a rescan never looks above the height it aimed at.
ScTypeOK ==
    /\ scHeight \in 1 .. MaxHeight /\ scTip \in 1 .. scHeight
    /\ scAt \in [ScTxs -> Unsent .. scHeight]
    /\ scSock \in [Sockets -> BOOLEAN] /\ scUp \in BOOLEAN /\ scSub \in BOOLEAN
    /\ \A n \in { Len(scZmqTx), Len(scZmqBlk), Len(scZmqTip), Len(scTxBus),
                   Len(scBlkBus) } : n <= ScCap
    /\ \A m \in Range(scTxBus) : m.txs \subseteq ScTxs /\ m.confirmed \in BOOLEAN
    /\ scRescan.phase \in { "idle", "due", "blocks", "mempool" }
    /\ scRescan.todo \subseteq 1 .. scRescan.end /\ scRescan.end <= scHeight
    /\ scRescan.txs \subseteq ScTxs
    /\ scHeard \subseteq ScTxs /\ scDown \subseteq ScTxs /\ scMissed \subseteq ScTxs

\* Announced, or still in a queue or a rescan that will announce it
OnItsWay(t) == t \in scHeard \/ InMemory(t)

\* The rescan the backend has yet to ask for starts at the recorded height.
WillBeRescanned(t) == scRescan.phase = "due" /\ scAt[t] >= scTip

\* A confirmed transaction of a swap is announced, on its way, or will be found
\* by the rescan that follows a restart.  It can only be missed where scMissed
\* is written: a full channel, a socket that was down, a failed query, a backend
\* that does not listen, a rescan that skips, a record ahead of the queues when
\* the sidecar stops, and a block that moves the record before the rescan.
ConfirmedIsKept ==
    \A t \in ScTxs :
        Confirmed(t) => OnItsWay(t) \/ WillBeRescanned(t) \/ t \in scMissed

\* The recorded heights are read before anything can move them, so that the
\* rescan that follows a restart starts below every block of the downtime.
DowntimeIsRescanned ==
    \A t \in scDown : OnItsWay(t) \/ WillBeRescanned(t)

\* A confirmed transaction of a swap is announced in the end, unless it was
\* missed in one of those ways.
ConfirmedIsAnnounced ==
    \A t \in ScTxs : Confirmed(t) ~> t \in scHeard \cup scMissed
-----------------------------------------------------------------------------
(* Proof: a confirmed transaction is kept                                  *)

ScMsgs == [ txs : SUBSET ScTxs, confirmed : BOOLEAN ]
Rescans == [ phase : { "idle", "due", "blocks", "mempool" }, todo : SUBSET Nat,
             end : Nat, txs : SUBSET ScTxs ]

\* What the proof needs of the types: no height that is recorded, on its way to be
\* recorded or aimed at is above the node's.
HeightsAreReached ==
    /\ scHeight \in Nat /\ scTip \in Nat /\ scTip <= scHeight
    /\ scAt \in [ScTxs -> Int] /\ \A t \in ScTxs : scAt[t] <= scHeight
    /\ scZmqBlk \in Seq(Nat) /\ scZmqTip \in Seq(Nat) /\ scBlkBus \in Seq(Nat)
    /\ \A h \in Range(scZmqTip) \cup Range(scBlkBus) : h <= scHeight
    /\ scTxBus \in Seq(ScMsgs)
    /\ scRescan \in Rescans /\ scRescan.end <= scHeight

\* Only a running rescan has blocks to fetch, and one is due while the sidecar is
\* down.
RescanIsDue ==
    /\ scRescan.phase # "blocks" => scRescan.todo = {}
    /\ ~scUp => scRescan.phase = "due"

ScInv == HeightsAreReached /\ RescanIsDue /\ ConfirmedIsKept

\* Zenon is tried on every step that names no prover; most steps with arithmetic name SMT.
USE ZenonT(120)

\* A channel keeps what it had, but for what it overwrites, and gets the message.
LEMMA PushKeeps ==
    ASSUME NEW S, NEW q \in Seq(S), NEW m \in S
    PROVE  /\ ScPush(q, m) \in Seq(S)
           /\ Range(q) \subseteq Range(ScPush(q, m)) \cup Overwritten(q)
           /\ m \in Range(ScPush(q, m))
           /\ Range(ScPush(q, m)) \subseteq Range(q) \cup { m }
<1> DEFINE new == ScPush(q, m)
<1>1. CASE Len(q) < ScCap
  <2>1. /\ new \in Seq(S) /\ Len(new) = Len(q) + 1 /\ new[Len(q) + 1] = m
        /\ \A i \in 1 .. Len(q) : new[i] = q[i]
    BY <1>1, SMTT(60) DEF ScPush
  <2>. QED BY <2>1, SMTT(60) DEF Range
<1>2. CASE ~(Len(q) < ScCap)
  <2>1. q # << >> /\ Len(q) \in Nat \ {0}
    BY <1>2, ScAssumption, SMTT(60)
  <2>2. /\ Tail(q) \in Seq(S) /\ Len(Tail(q)) = Len(q) - 1
        /\ \A i \in 1 .. Len(q) - 1 : Tail(q)[i] = q[i + 1]
    BY <2>1, SMTT(60)
  <2>3. /\ new \in Seq(S) /\ Len(new) = Len(q) /\ new[Len(q)] = m
        /\ \A i \in 1 .. Len(q) - 1 : new[i] = q[i + 1]
    BY <1>2, <2>1, <2>2, SMTT(60) DEF ScPush
  <2>4. ASSUME NEW i \in 1 .. Len(q)
        PROVE  q[i] \in Range(new) \cup Overwritten(q)
    <3>1. CASE i = 1
      BY <1>2, <2>1, <3>1, SMTT(60) DEF Overwritten
    <3>2. CASE i # 1
      <4>1. i - 1 \in 1 .. Len(q) - 1 /\ i - 1 \in 1 .. Len(new) /\ new[i - 1] = q[i]
        BY <2>1, <2>3, <3>2, SMTT(60)
      <4>. QED BY <2>3, <4>1, SMTT(60) DEF Range
    <3>. QED BY <3>1, <3>2
  <2>5. Range(q) \subseteq Range(new) \cup Overwritten(q)
    BY <2>4, SMTT(60) DEF Range
  <2>6. m \in Range(new)
    BY <2>1, <2>3, SMTT(60) DEF Range
  <2>7. ASSUME NEW i \in 1 .. Len(q)
        PROVE  new[i] \in Range(q) \cup { m }
    <3>1. CASE i = Len(q)
      BY <2>3, <3>1
    <3>2. CASE i # Len(q)
      <4>1. i \in 1 .. Len(q) - 1 /\ i + 1 \in 1 .. Len(q) /\ new[i] = q[i + 1]
        BY <2>1, <2>3, <3>2, SMTT(60)
      <4>. QED BY <4>1, SMTT(60) DEF Range
    <3>. QED BY <3>1, <3>2
  <2>8. Range(new) \subseteq Range(q) \cup { m }
    BY <2>3, <2>7, SMTT(60) DEF Range
  <2>. QED BY <2>3, <2>5, <2>6, <2>8
<1>. QED BY <1>1, <1>2

\* Taking the first message leaves the others.
LEMMA TakeKeeps ==
    ASSUME NEW S, NEW q \in Seq(S), q # << >>
    PROVE  /\ Head(q) \in S /\ Head(q) \in Range(q) /\ Tail(q) \in Seq(S)
           /\ Range(q) \subseteq { Head(q) } \cup Range(Tail(q))
           /\ Range(Tail(q)) \subseteq Range(q)
<1>1. /\ Len(q) \in Nat \ {0} /\ Head(q) = q[1] /\ Head(q) \in S
      /\ Tail(q) \in Seq(S) /\ Len(Tail(q)) = Len(q) - 1
      /\ \A i \in 1 .. Len(q) - 1 : Tail(q)[i] = q[i + 1]
  BY SMTT(60)
<1>2. ASSUME NEW i \in 1 .. Len(q)
      PROVE  q[i] \in { Head(q) } \cup Range(Tail(q))
  <2>1. CASE i = 1
    BY <1>1, <2>1
  <2>2. CASE i # 1
    <3>1. i - 1 \in 1 .. Len(Tail(q)) /\ Tail(q)[i - 1] = q[i]
      BY <1>1, <2>2, SMTT(60)
    <3>. QED BY <1>1, <3>1, SMTT(60) DEF Range
  <2>. QED BY <2>1, <2>2
<1>3. Head(q) \in Range(q) /\ Range(Tail(q)) \subseteq Range(q)
  BY <1>1, SMTT(60) DEF Range
<1>. QED BY <1>1, <1>2, <1>3, SMTT(60) DEF Range

\* Every confirmed message of a set is in what the set confirms.
LEMMA ConfirmedOfIsMonotone ==
    ASSUME NEW A, NEW B, NEW C, A \subseteq B \cup C
    PROVE  ConfirmedOf(A) \subseteq ConfirmedOf(B) \cup ConfirmedOf(C)
  BY DEF ConfirmedOf

\* What a message about the transactions ts says of them
LEMMA MsgConfirms ==
    ASSUME NEW ts \in SUBSET ScTxs, NEW M, Msg(ts, TRUE) \in M
    PROVE  /\ Msg(ts, TRUE) \in ScMsgs /\ Msg(ts, FALSE) \in ScMsgs
           /\ ts \subseteq ConfirmedOf(M)
<1>1. Msg(ts, TRUE) \in ScMsgs /\ Msg(ts, FALSE) \in ScMsgs
  BY DEF Msg, ScMsgs
<1>2. Msg(ts, TRUE).confirmed /\ Msg(ts, TRUE).txs = ts
  BY DEF Msg
<1>. QED BY <1>1, <1>2 DEF ConfirmedOf

\* A message sent to the nursery loses only what scMissed records.
LEMMA BusPush ==
    ASSUME scTxBus \in Seq(ScMsgs), NEW m \in ScMsgs,
           scTxBus' = ScPush(scTxBus, m), scMissed' = scMissed \cup Lost
    PROVE  /\ scTxBus' \in Seq(ScMsgs) /\ m \in Range(scTxBus')
           /\ ConfirmedOf(Range(scTxBus)) \subseteq ConfirmedOf(Range(scTxBus')) \cup scMissed'
           /\ scMissed \subseteq scMissed'
<1>1. /\ scTxBus' \in Seq(ScMsgs) /\ m \in Range(scTxBus')
      /\ Range(scTxBus) \subseteq Range(scTxBus') \cup Overwritten(scTxBus)
  BY PushKeeps
<1>2. ConfirmedOf(Range(scTxBus)) \subseteq ConfirmedOf(Range(scTxBus')) \cup Lost
  BY <1>1, ConfirmedOfIsMonotone DEF Lost
<1>. QED BY <1>1, <1>2

\* The heights: every queue of heights is fed from the node's.
LEMMA HeightsStep ==
    ASSUME ScInv, [ScNext]_scVars
    PROVE  HeightsAreReached'
<1>t. HeightsAreReached
  BY DEF ScInv
<1> DEFINE Numbers == /\ scHeight \in Nat /\ scTip \in Nat /\ scTip <= scHeight
                      /\ scAt \in [ScTxs -> Int] /\ \A t \in ScTxs : scAt[t] <= scHeight
           Queues == /\ scZmqBlk \in Seq(Nat) /\ scZmqTip \in Seq(Nat)
                     /\ scBlkBus \in Seq(Nat)
                     /\ \A h \in Range(scZmqTip) \cup Range(scBlkBus) : h <= scHeight
           Bus == scTxBus \in Seq(ScMsgs)
           Rescan == scRescan \in Rescans /\ scRescan.end <= scHeight
<1>s. SUFFICES Numbers' /\ Queues' /\ Bus' /\ Rescan'
  BY DEF HeightsAreReached
<1>n. Numbers
  BY <1>t DEF HeightsAreReached
<1>q. Queues
  BY <1>t DEF HeightsAreReached
<1>b. Bus
  BY <1>t DEF HeightsAreReached
<1>r. Rescan
  BY <1>t DEF HeightsAreReached
<1>d. NoRescan \in Rescans /\ NoRescan.end = 0 /\ [NoRescan EXCEPT !.phase = "due"] \in Rescans
  BY DEF NoRescan, Rescans
<1>x. \A h : TxsOf(h) \in SUBSET ScTxs
  BY DEF TxsOf
<1>1. ASSUME NEW t \in ScTxs, NodeAccepts(t)
      PROVE  Numbers' /\ Queues' /\ Bus' /\ Rescan'
  <2>1. Numbers'
    BY <1>n, <1>1, SMTT(60) DEF NodeAccepts, Mempool
  <2>. QED BY <1>q, <1>b, <1>r, <1>1, <2>1 DEF NodeAccepts
<1>2. ASSUME NEW ts \in SUBSET ScTxs, NodeConnects(ts)
      PROVE  Numbers' /\ Queues' /\ Bus' /\ Rescan'
  <2>1. scHeight' = scHeight + 1 /\ scTip' = scTip
    BY <1>2 DEF NodeConnects
  <2>2. scAt' = [t \in ScTxs |-> IF t \in ts THEN scHeight' ELSE scAt[t]]
    BY <1>2 DEF NodeConnects
  <2>3. Numbers'
    BY <1>n, <2>1, <2>2, SMTT(60)
  <2>4. scBlkBus' = scBlkBus /\ scTxBus' = scTxBus /\ scRescan' = scRescan
    BY <1>2 DEF NodeConnects
  <2>5. \/ UNCHANGED << scZmqBlk, scZmqTip >>
        \/ scZmqBlk' = ScPush(scZmqBlk, scHeight') /\ scZmqTip' = ScPush(scZmqTip, scHeight')
    BY <1>2 DEF NodeConnects
  <2>6. scHeight' \in Nat /\ \A h \in Range(scZmqTip) \cup Range(scBlkBus) : h \in Nat => h <= scHeight'
    BY <1>n, <1>q, <2>1, SMTT(60)
  <2>7. \A h \in Range(scZmqTip) \cup Range(scBlkBus) : h \in Nat
    BY <1>q, SMTT(60) DEF Range
  <2>8. Queues'
    <3>1. CASE UNCHANGED << scZmqBlk, scZmqTip >>
      BY <1>q, <2>4, <2>6, <2>7, <3>1
    <3>2. CASE scZmqBlk' = ScPush(scZmqBlk, scHeight') /\ scZmqTip' = ScPush(scZmqTip, scHeight')
      <4>1. scZmqBlk' \in Seq(Nat) /\ scZmqTip' \in Seq(Nat)
        BY <1>q, <2>6, <3>2, PushKeeps
      <4>2. Range(scZmqTip') \subseteq Range(scZmqTip) \cup { scHeight' }
        BY <1>q, <2>6, <3>2, PushKeeps
      <4>3. \A h \in Range(scZmqTip') : h <= scHeight'
        BY <2>6, <2>7, <4>2, SMTT(60)
      <4>4. \A h \in Range(scBlkBus') : h <= scHeight'
        BY <2>4, <2>6, <2>7
      <4>. QED BY <1>q, <2>4, <4>1, <4>3, <4>4
    <3>. QED BY <2>5, <3>1, <3>2
  <2>9. Rescan'
    BY <1>n, <1>r, <2>1, <2>4, SMTT(60) DEF Rescans
  <2>. QED BY <1>b, <2>3, <2>4, <2>8, <2>9
<1>3. ASSUME NEW s \in Sockets, SockDrops(s) \/ SockReconnects(s)
      PROVE  Numbers' /\ Queues' /\ Bus' /\ Rescan'
  BY <1>n, <1>q, <1>b, <1>r, <1>3 DEF SockDrops, SockReconnects, scNode
<1>4. CASE ForwardTx
  <2>1. Bus'
    <3>1. CASE UNCHANGED scTxBus
      BY <1>b, <3>1
    <3>2. CASE \E t \in TxsOf(Mempool) : scTxBus' = ScPush(scTxBus, Msg({ t }, FALSE))
      <4>1. PICK t \in ScTxs : scTxBus' = ScPush(scTxBus, Msg({ t }, FALSE))
        BY <3>2, <1>x
      <4>2. Msg({ t }, FALSE) \in ScMsgs
        BY DEF Msg, ScMsgs
      <4>. QED BY <1>b, <4>1, <4>2, PushKeeps
    <3>. QED BY <1>4, <3>1, <3>2 DEF ForwardTx
  <2>. QED BY <1>n, <1>q, <1>r, <1>4, <2>1 DEF ForwardTx, scNode
<1>5. CASE ForwardBlockTxs
  <2>1. scZmqBlk' \in Seq(Nat)
    BY <1>q, <1>5, TakeKeeps DEF ForwardBlockTxs
  <2>2. Bus'
    <3>1. Msg(TxsOf(Head(scZmqBlk)), TRUE) \in ScMsgs
      BY <1>x DEF Msg, ScMsgs
    <3>. QED BY <1>b, <1>5, <3>1, PushKeeps DEF ForwardBlockTxs
  <2>. QED BY <1>n, <1>q, <1>r, <1>5, <2>1, <2>2 DEF ForwardBlockTxs, scNode
<1>6. CASE ForwardBlock
  <2>1. /\ scZmqTip' \in Seq(Nat) /\ Range(scZmqTip') \subseteq Range(scZmqTip)
        /\ Head(scZmqTip) \in Nat /\ Head(scZmqTip) \in Range(scZmqTip)
    BY <1>q, <1>6, TakeKeeps DEF ForwardBlock
  <2>2. scBlkBus' = scBlkBus \/ scBlkBus' = ScPush(scBlkBus, Head(scZmqTip))
    BY <1>6 DEF ForwardBlock
  <2>3. /\ scBlkBus' \in Seq(Nat)
        /\ Range(scBlkBus') \subseteq Range(scBlkBus) \cup { Head(scZmqTip) }
    BY <1>q, <2>1, <2>2, PushKeeps, SMTT(60)
  <2>4. UNCHANGED << scZmqBlk, scHeight >>
    BY <1>6 DEF ForwardBlock, scNode
  <2>5. Queues'
    BY <1>q, <2>1, <2>3, <2>4
  <2>. QED BY <1>n, <1>b, <1>r, <1>6, <2>5 DEF ForwardBlock, scNode
<1>7. CASE CheckTx
  <2>1. Bus'
    BY <1>b, <1>7, TakeKeeps DEF CheckTx
  <2>. QED BY <1>n, <1>q, <1>r, <1>7, <2>1 DEF CheckTx, scNode, scZmq
<1>8. CASE CheckBlock
  <2>1. /\ scBlkBus' \in Seq(Nat) /\ Range(scBlkBus') \subseteq Range(scBlkBus)
        /\ Head(scBlkBus) \in Nat /\ Head(scBlkBus) \in Range(scBlkBus)
    BY <1>q, <1>8, TakeKeeps DEF CheckBlock
  <2>2. scTip' = scTip \/ scTip' = Head(scBlkBus)
    BY <1>8 DEF CheckBlock
  <2>3. UNCHANGED << scHeight, scAt, scZmqBlk, scZmqTip >>
    BY <1>8 DEF CheckBlock, scNode, scZmq
  <2>4. Numbers'
    BY <1>n, <1>q, <2>1, <2>2, <2>3
  <2>5. Queues'
    BY <1>q, <2>1, <2>3
  <2>. QED BY <1>b, <1>r, <1>8, <2>4, <2>5 DEF CheckBlock, scNode
<1>9. CASE ScStops
  <2>1. << >> \in Seq(Nat) /\ << >> \in Seq(ScMsgs) /\ Range(<< >>) = {}
    BY SMTT(60) DEF Range
  <2>2. Queues'
    BY <1>n, <1>9, <2>1 DEF ScStops, scNode
  <2>3. Rescan'
    <3>1. [NoRescan EXCEPT !.phase = "due"].end = 0
      BY DEF NoRescan
    <3>. QED BY <1>n, <1>d, <1>9, <3>1, SMTT(60) DEF ScStops, scNode
  <2>. QED BY <1>n, <1>9, <2>1, <2>2, <2>3 DEF ScStops, scNode
<1>10. CASE ScStarts \/ TransactionFound
  BY <1>n, <1>q, <1>b, <1>r, <1>10 DEF ScStarts, TransactionFound, scNode, scZmq
<1>11. CASE RescanChains
  <2>1. RescanFrom(scTip) \in Rescans /\ RescanFrom(scTip).end = scHeight
    BY <1>n, SMTT(60) DEF RescanFrom, Rescans
  <2>2. scRescan' = RescanFrom(scTip) \/ scRescan' = NoRescan
    BY <1>11 DEF RescanChains
  <2>3. UNCHANGED << scNode, scZmq, scTxBus, scBlkBus, scTip >>
    BY <1>11 DEF RescanChains
  <2>4. Rescan'
    BY <1>n, <1>d, <2>1, <2>2, <2>3, SMTT(60) DEF scNode
  <2>. QED BY <1>n, <1>q, <1>b, <2>3, <2>4 DEF scNode, scZmq
<1>12. CASE RescanBlock
  <2>1. PICK h : scRescan' = [scRescan EXCEPT !.todo = @ \ { h }, !.txs = TxsOf(h)]
    BY <1>12 DEF RescanBlock
  <2>2. scRescan' \in Rescans /\ scRescan'.end = scRescan.end
    BY <1>r, <1>x, <2>1 DEF Rescans
  <2>. QED BY <1>n, <1>q, <1>b, <1>r, <1>12, <2>2 DEF RescanBlock, scNode, scZmq
<1>13. CASE RescanSends
  <2>1. PICK t \in scRescan.txs :
          /\ scRescan' = [scRescan EXCEPT !.txs = @ \ { t }]
          /\ scTxBus' = ScPush(scTxBus, Msg({ t }, TRUE))
    BY <1>13 DEF RescanSends
  <2>2. scRescan' \in Rescans /\ scRescan'.end = scRescan.end /\ t \in ScTxs
    BY <1>r, <2>1 DEF Rescans
  <2>3. Msg({ t }, TRUE) \in ScMsgs
    BY <2>2 DEF Msg, ScMsgs
  <2>4. Bus'
    BY <1>b, <2>1, <2>3, PushKeeps
  <2>. QED BY <1>n, <1>q, <1>r, <1>13, <2>2, <2>4 DEF RescanSends, scNode, scZmq
<1>14. CASE RescanSkips
  <2>1. PICK skipped : scRescan' = [scRescan EXCEPT !.todo = @ \ skipped]
    BY <1>14 DEF RescanSkips
  <2>2. scRescan' \in Rescans /\ scRescan'.end = scRescan.end
    BY <1>r, <2>1 DEF Rescans
  <2>. QED BY <1>n, <1>q, <1>b, <1>r, <1>14, <2>2 DEF RescanSkips, scNode, scZmq
<1>15. CASE RescanEnds
  <2>1. scTip' = scTip \/ scTip' = scRescan.end
    BY <1>15 DEF RescanEnds
  <2>2. [NoRescan EXCEPT !.phase = "mempool", !.txs = TxsOf(Mempool)] \in Rescans
    BY <1>x DEF NoRescan, Rescans
  <2>3. [NoRescan EXCEPT !.phase = "mempool", !.txs = TxsOf(Mempool)].end = 0
    BY DEF NoRescan
  <2>4. UNCHANGED << scNode, scZmq, scTxBus, scBlkBus >>
    BY <1>15 DEF RescanEnds
  <2>5. Rescan'
    <3>1. \/ scRescan' = [NoRescan EXCEPT !.phase = "mempool", !.txs = TxsOf(Mempool)]
          \/ scRescan' = NoRescan
      BY <1>15 DEF RescanEnds
    <3>2. scRescan' \in Rescans /\ scRescan'.end = 0
      BY <1>d, <2>2, <2>3, <3>1
    <3>. QED BY <1>n, <2>4, <3>2, SMTT(60) DEF scNode
  <2>6. scRescan.end \in Nat
    BY <1>r DEF Rescans
  <2>7. Numbers'
    BY <1>n, <1>r, <2>1, <2>4, <2>6 DEF scNode
  <2>. QED BY <1>q, <1>b, <2>4, <2>5, <2>7 DEF scNode, scZmq
<1>16. CASE ScanMempool
  <2>1. UNCHANGED << scNode, scZmq, scBlkBus, scTip >>
    BY <1>16 DEF ScanMempool
  <2>2. CASE scRescan' = NoRescan /\ UNCHANGED scTxBus
    BY <1>n, <1>q, <1>b, <1>d, <2>1, <2>2, SMTT(60) DEF scNode, scZmq
  <2>3. CASE \E t \in scRescan.txs :
               /\ scRescan' = [scRescan EXCEPT !.txs = @ \ { t }]
               /\ scTxBus' = ScPush(scTxBus, Msg({ t }, FALSE))
    <3>1. PICK t \in scRescan.txs :
            /\ scRescan' = [scRescan EXCEPT !.txs = @ \ { t }]
            /\ scTxBus' = ScPush(scTxBus, Msg({ t }, FALSE))
      BY <2>3
    <3>2. scRescan' \in Rescans /\ scRescan'.end = scRescan.end /\ t \in ScTxs
      BY <1>r, <3>1 DEF Rescans
    <3>3. Msg({ t }, FALSE) \in ScMsgs
      BY <3>2 DEF Msg, ScMsgs
    <3>4. Bus'
      BY <1>b, <3>1, <3>3, PushKeeps
    <3>. QED BY <1>n, <1>q, <1>r, <2>1, <3>2, <3>4 DEF scNode, scZmq
  <2>4. CASE \E lost : scRescan' = [scRescan EXCEPT !.txs = @ \ lost] /\ UNCHANGED scTxBus
    <3>1. scRescan' \in Rescans /\ scRescan'.end = scRescan.end
      BY <1>r, <2>4 DEF Rescans
    <3>. QED BY <1>n, <1>q, <1>b, <1>r, <2>1, <2>4, <3>1 DEF scNode, scZmq
  <2>. QED BY <1>16, <2>2, <2>3, <2>4 DEF ScanMempool
<1>17. CASE UNCHANGED scVars
  BY <1>n, <1>q, <1>b, <1>r, <1>17 DEF scVars
<1>. QED BY <1>1, <1>2, <1>3, <1>4, <1>5, <1>6, <1>7, <1>8, <1>9, <1>10, <1>11, <1>12, <1>13,
            <1>14, <1>15, <1>16, <1>17 DEF ScNext

\* The phase of the rescan
LEMMA DueStep ==
    ASSUME ScInv, [ScNext]_scVars
    PROVE  RescanIsDue'
<1>d. RescanIsDue /\ scRescan \in Rescans
  BY DEF ScInv, HeightsAreReached
<1>n. /\ NoRescan.phase = "idle" /\ NoRescan.todo = {}
      /\ [NoRescan EXCEPT !.phase = "due"].phase = "due"
      /\ [NoRescan EXCEPT !.phase = "due"].todo = {}
  BY DEF NoRescan
<1>1. CASE UNCHANGED << scRescan, scUp >>
  BY <1>d, <1>1 DEF RescanIsDue
<1>2. CASE ScStops
  BY <1>n, <1>2 DEF ScStops, RescanIsDue
<1>3. CASE ScStarts
  BY <1>d, <1>3 DEF ScStarts, RescanIsDue
<1>4. CASE RescanChains
  <2>1. scUp /\ scUp' = scUp
    BY <1>4 DEF RescanChains, scRun
  <2>2. RescanFrom(scTip).phase = "blocks"
    BY DEF RescanFrom
  <2>3. scRescan' = RescanFrom(scTip) \/ scRescan' = NoRescan
    BY <1>4 DEF RescanChains
  <2>. QED BY <1>n, <2>1, <2>2, <2>3 DEF RescanIsDue
<1>5. CASE RescanBlock
  <2>1. PICK h : scRescan' = [scRescan EXCEPT !.todo = @ \ { h }, !.txs = TxsOf(h)]
    BY <1>5 DEF RescanBlock
  <2>2. scRescan.phase = "blocks" /\ scUp' = scUp
    BY <1>5 DEF RescanBlock, scRun
  <2>3. scRescan'.phase = "blocks"
    BY <1>d, <2>1, <2>2 DEF Rescans
  <2>. QED BY <1>d, <2>2, <2>3 DEF RescanIsDue
<1>6. CASE RescanSends
  <2>1. PICK t : scRescan' = [scRescan EXCEPT !.txs = @ \ { t }]
    BY <1>6 DEF RescanSends
  <2>2. scRescan.phase = "blocks" /\ scUp' = scUp
    BY <1>6 DEF RescanSends, scRun
  <2>3. scRescan'.phase = "blocks"
    BY <1>d, <2>1, <2>2 DEF Rescans
  <2>. QED BY <1>d, <2>2, <2>3 DEF RescanIsDue
<1>7. CASE RescanSkips
  <2>1. PICK skipped : scRescan' = [scRescan EXCEPT !.todo = @ \ skipped]
    BY <1>7 DEF RescanSkips
  <2>2. scRescan.phase = "blocks" /\ scUp' = scUp
    BY <1>7 DEF RescanSkips, scRun
  <2>3. scRescan'.phase = "blocks"
    BY <1>d, <2>1, <2>2 DEF Rescans
  <2>. QED BY <1>d, <2>2, <2>3 DEF RescanIsDue
<1>8. CASE RescanEnds
  <2>1. [NoRescan EXCEPT !.phase = "mempool", !.txs = TxsOf(Mempool)].todo = {}
    BY DEF NoRescan
  <2>2. scRescan.phase = "blocks" /\ scUp' = scUp
    BY <1>8 DEF RescanEnds, scRun
  <2>3. \/ scRescan' = [NoRescan EXCEPT !.phase = "mempool", !.txs = TxsOf(Mempool)]
        \/ scRescan' = NoRescan
    BY <1>8 DEF RescanEnds
  <2>4. scRescan'.todo = {}
    BY <1>n, <2>1, <2>3
  <2>. QED BY <1>d, <2>2, <2>4 DEF RescanIsDue
<1>9. CASE ScanMempool
  <2>1. scRescan.phase = "mempool" /\ scUp' = scUp
    BY <1>9 DEF ScanMempool, scRun
  <2>2. scRescan' = NoRescan \/ \E some : scRescan' = [scRescan EXCEPT !.txs = @ \ some]
    BY <1>9 DEF ScanMempool
  <2>3. scRescan' = NoRescan \/ scRescan'.todo = scRescan.todo
    BY <1>d, <2>2 DEF Rescans
  <2>4. scRescan'.todo = {}
    BY <1>d, <1>n, <2>1, <2>3 DEF RescanIsDue
  <2>. QED BY <1>d, <2>1, <2>4 DEF RescanIsDue
<1>10. \/ UNCHANGED << scRescan, scUp >> \/ ScStops \/ ScStarts \/ RescanChains
       \/ RescanBlock \/ RescanSends \/ RescanSkips \/ RescanEnds \/ ScanMempool
  BY DEF ScNext, scVars, scRun, NodeAccepts, NodeConnects, SockDrops, SockReconnects,
         ForwardTx, ForwardBlockTxs, ForwardBlock, CheckTx, CheckBlock, TransactionFound
<1>. QED BY <1>1, <1>2, <1>3, <1>4, <1>5, <1>6, <1>7, <1>8, <1>9, <1>10

\* The queues: what leaves one is in the next one, or in scMissed.
LEMMA KeptStep ==
    ASSUME ScInv, [ScNext]_scVars
    PROVE  ConfirmedIsKept'
<1>h. HeightsAreReached
  BY DEF ScInv
<1>d. RescanIsDue
  BY DEF ScInv
<1>k. \A t \in ScTxs :
        Confirmed(t) => OnItsWay(t) \/ WillBeRescanned(t) \/ t \in scMissed
  BY DEF ScInv, ConfirmedIsKept
<1> DEFINE Kept(t) == OnItsWay(t) \/ WillBeRescanned(t) \/ t \in scMissed
<1> SUFFICES ASSUME NEW t \in ScTxs, Confirmed(t)'
             PROVE  Kept(t)'
  BY DEF ConfirmedIsKept
<1>a. scAt[t] \in Int /\ scAt[t] <= scHeight /\ scHeight \in Nat /\ scTip \in Nat
  BY <1>h DEF HeightsAreReached
<1>b. scTxBus \in Seq(ScMsgs) /\ scZmqBlk \in Seq(Nat)
  BY <1>h DEF HeightsAreReached
<1>r. scRescan \in Rescans /\ NoRescan.phase = "idle"
  BY <1>h DEF HeightsAreReached, NoRescan
<1>c. ASSUME scAt' = scAt
      PROVE  Kept(t)
  BY <1>c, <1>k DEF Confirmed
<1> HIDE DEF Kept
\* A step that leaves the places of a confirmed transaction alone
<1>u. ASSUME UNCHANGED << scAt, scTip, scZmqBlk, scRescan >>,
             scHeard \cup ConfirmedOf(Range(scTxBus)) \cup scMissed
               \subseteq scHeard' \cup ConfirmedOf(Range(scTxBus')) \cup scMissed'
      PROVE  Kept(t)'
  <2>1. Kept(t)
    BY <1>c, <1>u
  <2>. QED BY <1>u, <2>1 DEF Kept, OnItsWay, InMemory, WillBeRescanned
<1>1. ASSUME NEW x \in ScTxs, NodeAccepts(x)
      PROVE  Kept(t)'
  <2>1. t # x /\ scAt'[t] = scAt[t]
    BY <1>h, <1>1, SMTT(60) DEF HeightsAreReached, NodeAccepts, Confirmed, Mempool
  <2>2. Kept(t)
    BY <1>k, <2>1 DEF Kept, Confirmed
  <2>. QED BY <1>1, <2>1, <2>2 DEF NodeAccepts, Kept, OnItsWay, InMemory, WillBeRescanned, scRun
<1>2. ASSUME NEW ts \in SUBSET ScTxs, NodeConnects(ts)
      PROVE  Kept(t)'
  <2>1. /\ scHeight' = scHeight + 1 /\ scAt'[t] = IF t \in ts THEN scHeight' ELSE scAt[t]
        /\ UNCHANGED << scTxBus, scTip, scHeard, scRescan >>
    BY <1>2 DEF NodeConnects
  <2>2. scTip <= scHeight /\ scHeight' \in Nat
    BY <1>h, <2>1, SMTT(60) DEF HeightsAreReached
  <2>3. CASE scUp /\ scSock["rawblock"]
    <3>1. /\ scZmqBlk' = ScPush(scZmqBlk, scHeight')
          /\ scMissed' = scMissed \cup UNION { TxsOf(h) : h \in Overwritten(scZmqBlk) }
      BY <1>2, <2>3 DEF NodeConnects
    <3>2. /\ scHeight' \in Range(scZmqBlk')
          /\ Range(scZmqBlk) \subseteq Range(scZmqBlk') \cup Overwritten(scZmqBlk)
      BY <1>b, <2>2, <3>1, PushKeeps
    <3>3. CASE t \in ts
      BY <2>1, <3>2, <3>3 DEF Kept, OnItsWay, InMemory
    <3>4. CASE t \notin ts
      <4>1. scAt'[t] = scAt[t] /\ Kept(t)
        BY <1>k, <2>1, <3>4 DEF Kept, Confirmed
      <4>2. scAt[t] \in Overwritten(scZmqBlk) => t \in scMissed'
        BY <3>1, SMTT(60) DEF TxsOf
      <4>. QED BY <2>1, <3>1, <3>2, <4>1, <4>2 DEF Kept, OnItsWay, InMemory, WillBeRescanned
    <3>. QED BY <3>3, <3>4
  <2>4. CASE ~(scUp /\ scSock["rawblock"])
    <3>1. /\ scZmqBlk' = scZmqBlk
          /\ scMissed' = IF scUp /\ scRescan.phase # "due" THEN scMissed \cup ts ELSE scMissed
      BY <1>2, <2>4 DEF NodeConnects
    <3>2. CASE t \in ts
      <4>1. scAt'[t] >= scTip
        BY <1>a, <2>1, <2>2, <3>2, SMTT(60)
      <4>. QED BY <1>d, <2>1, <3>1, <3>2, <4>1 DEF Kept, WillBeRescanned, RescanIsDue
    <3>3. CASE t \notin ts
      <4>1. scAt'[t] = scAt[t] /\ Kept(t)
        BY <1>k, <2>1, <3>3 DEF Kept, Confirmed
      <4>. QED BY <2>1, <3>1, <4>1 DEF Kept, OnItsWay, InMemory, WillBeRescanned
    <3>. QED BY <3>2, <3>3
  <2>. QED BY <2>3, <2>4
<1>3. ASSUME NEW s \in Sockets, SockDrops(s) \/ SockReconnects(s)
      PROVE  Kept(t)'
  BY <1>u, <1>3 DEF SockDrops, SockReconnects, scNode
<1>4. CASE ForwardTx
  <2>1. CASE UNCHANGED << scTxBus, scMissed >>
    BY <1>u, <1>4, <2>1 DEF ForwardTx, scNode
  <2>2. CASE \E x \in ScTxs : /\ scTxBus' = ScPush(scTxBus, Msg({ x }, FALSE))
                              /\ scMissed' = scMissed \cup Lost
    <3>1. PICK x \in ScTxs : /\ scTxBus' = ScPush(scTxBus, Msg({ x }, FALSE))
                             /\ scMissed' = scMissed \cup Lost
      BY <2>2
    <3>2. Msg({ x }, FALSE) \in ScMsgs
      BY DEF Msg, ScMsgs
    <3>3. /\ ConfirmedOf(Range(scTxBus)) \subseteq ConfirmedOf(Range(scTxBus')) \cup scMissed'
          /\ scMissed \subseteq scMissed'
      BY <1>b, <3>1, <3>2, BusPush
    <3>. QED BY <1>u, <1>4, <3>3 DEF ForwardTx, scNode
  <2>. QED BY <1>4, <2>1, <2>2 DEF ForwardTx, TxsOf
<1>5. CASE ForwardBlockTxs
  <2> DEFINE h == Head(scZmqBlk)
  <2>1. /\ scTxBus' = ScPush(scTxBus, Msg(TxsOf(h), TRUE)) /\ scMissed' = scMissed \cup Lost
        /\ scZmqBlk # << >> /\ scZmqBlk' = Tail(scZmqBlk)
        /\ UNCHANGED << scAt, scTip, scRescan, scHeard >>
    BY <1>5 DEF ForwardBlockTxs, scNode
  <2>2. TxsOf(h) \in SUBSET ScTxs
    BY DEF TxsOf
  <2>3. Msg(TxsOf(h), TRUE) \in ScMsgs
    BY <2>2 DEF Msg, ScMsgs
  <2>4. /\ ConfirmedOf(Range(scTxBus)) \subseteq ConfirmedOf(Range(scTxBus')) \cup scMissed'
        /\ scMissed \subseteq scMissed' /\ Msg(TxsOf(h), TRUE) \in Range(scTxBus')
    BY <1>b, <2>1, <2>3, BusPush
  <2>5. TxsOf(h) \subseteq ConfirmedOf(Range(scTxBus'))
    BY <2>2, <2>4, MsgConfirms
  <2>6. Range(scZmqBlk) \subseteq { h } \cup Range(scZmqBlk')
    BY <1>b, <2>1, TakeKeeps
  <2>7. scAt[t] = h => t \in ConfirmedOf(Range(scTxBus'))
    BY <2>5 DEF TxsOf
  <2> HIDE DEF h
  <2>. QED BY <1>c, <2>1, <2>4, <2>6, <2>7 DEF Kept, OnItsWay, InMemory, WillBeRescanned
<1>6. CASE ForwardBlock
  BY <1>u, <1>6 DEF ForwardBlock, scNode
<1>7. CASE CheckTx
  <2>1. /\ scTxBus # << >> /\ scTxBus' = Tail(scTxBus)
        /\ UNCHANGED << scAt, scTip, scZmqBlk, scRescan >>
        /\ scHeard \cup scMissed \cup ConfirmedOf({ Head(scTxBus) })
             \subseteq scHeard' \cup scMissed'
    BY <1>7 DEF CheckTx, scNode, scZmq
  <2>2. Range(scTxBus) \subseteq { Head(scTxBus) } \cup Range(scTxBus')
    BY <1>b, <2>1, TakeKeeps
  <2>3. ConfirmedOf(Range(scTxBus))
          \subseteq ConfirmedOf({ Head(scTxBus) }) \cup ConfirmedOf(Range(scTxBus'))
    BY <2>2, ConfirmedOfIsMonotone
  <2>. QED BY <1>u, <2>1, <2>3
<1>8. CASE CheckBlock
  <2>1. UNCHANGED << scAt, scZmqBlk, scRescan, scHeard, scTxBus >>
    BY <1>8 DEF CheckBlock, scNode, scZmq
  <2>2. Kept(t)
    BY <1>c, <2>1
  <2>3. CASE UNCHANGED << scTip, scMissed >>
    BY <2>1, <2>2, <2>3 DEF Kept, OnItsWay, InMemory, WillBeRescanned
  <2>4. CASE /\ scTip' = Head(scBlkBus)
             /\ scMissed' = IF scRescan.phase = "due"
                            THEN scMissed \cup UNION { TxsOf(h) : h \in scTip .. scTip' - 1 }
                            ELSE scMissed
    <3>1. scTip' \in Nat
      BY <1>h, <1>8, <2>4, TakeKeeps DEF CheckBlock, HeightsAreReached
    <3>2. WillBeRescanned(t) => WillBeRescanned(t)' \/ t \in scMissed'
      <4>1. CASE scAt[t] >= scTip'
        BY <2>1, <4>1 DEF WillBeRescanned
      <4>2. CASE ~(scAt[t] >= scTip')
        <5> SUFFICES ASSUME WillBeRescanned(t)
                     PROVE  t \in scMissed'
          OBVIOUS
        <5>1. scAt[t] \in scTip .. scTip' - 1 /\ t \in TxsOf(scAt[t])
          BY <1>a, <3>1, <4>2, SMTT(60) DEF WillBeRescanned, TxsOf
        <5>. QED BY <2>4, <5>1 DEF WillBeRescanned
      <4>. QED BY <4>1, <4>2
    <3>3. scMissed \subseteq scMissed'
      BY <2>4
    <3>. QED BY <2>1, <2>2, <3>2, <3>3 DEF Kept, OnItsWay, InMemory
  <2>. QED BY <1>8, <2>3, <2>4 DEF CheckBlock
<1>9. CASE ScStops
  <2>1. UNCHANGED << scAt, scTip, scHeard >> /\ scRescan' = [NoRescan EXCEPT !.phase = "due"]
    BY <1>9 DEF ScStops, scNode
  <2>2. scMissed' = scMissed \cup { x \in ScTxs : InMemory(x) /\ scAt[x] < scTip }
    BY <1>9 DEF ScStops
  <2>3. scRescan'.phase = "due"
    BY <2>1 DEF NoRescan
  <2>4. InMemory(t) \/ t \in scHeard \/ scAt[t] >= scTip \/ t \in scMissed
    BY <1>c, <2>1 DEF Kept, OnItsWay, WillBeRescanned
  <2>5. scAt[t] >= scTip \/ scAt[t] < scTip
    BY <1>a, SMTT(60)
  <2>6. CASE scAt[t] >= scTip
    BY <2>1, <2>3, <2>6 DEF Kept, WillBeRescanned
  <2>7. CASE scAt[t] < scTip /\ (InMemory(t) \/ t \in scMissed)
    BY <2>2, <2>7 DEF Kept
  <2>8. CASE t \in scHeard
    BY <2>1, <2>8 DEF Kept, OnItsWay
  <2>. QED BY <2>4, <2>5, <2>6, <2>7, <2>8
<1>10. CASE ScStarts \/ TransactionFound
  BY <1>u, <1>10 DEF ScStarts, TransactionFound, scNode, scZmq
<1>11. CASE RescanChains
  <2>1. /\ UNCHANGED << scAt, scTip, scZmqBlk, scHeard, scTxBus >>
        /\ scRescan.phase = "due" /\ scRescan.todo = {}
    BY <1>d, <1>11 DEF RescanChains, RescanIsDue, scNode, scZmq
  <2>2. Kept(t)
    BY <1>c, <2>1
  <2>3. CASE scRescan' = RescanFrom(scTip) /\ scMissed' = scMissed
    <3>1. scAt[t] >= scTip => scAt[t] \in scRescan'.todo
      BY <1>a, <2>3, SMTT(60) DEF RescanFrom
    <3>. QED BY <2>1, <2>2, <2>3, <3>1 DEF Kept, OnItsWay, InMemory, WillBeRescanned
  <2>4. CASE scMissed' = scMissed \cup { x \in ScTxs : scAt[x] >= scTip }
    BY <2>1, <2>2, <2>4 DEF Kept, OnItsWay, InMemory, WillBeRescanned
  <2>. QED BY <1>11, <2>3, <2>4 DEF RescanChains
<1>12. CASE RescanBlock
  <2>1. PICK h \in scRescan.todo :
          /\ scRescan' = [scRescan EXCEPT !.todo = @ \ { h }, !.txs = TxsOf(h)]
          /\ scMissed' = scMissed \ TxsOf(h)
    BY <1>12 DEF RescanBlock
  <2>2. /\ UNCHANGED << scAt, scTip, scZmqBlk, scHeard, scTxBus >>
        /\ scRescan.phase = "blocks" /\ scRescan.txs = {}
    BY <1>12 DEF RescanBlock, scNode, scZmq
  <2>3. /\ scRescan'.phase = "blocks" /\ scRescan'.todo = scRescan.todo \ { h }
        /\ scRescan'.txs = TxsOf(h)
    BY <1>r, <2>1, <2>2 DEF Rescans
  <2>4. scAt[t] = h <=> t \in TxsOf(h)
    BY DEF TxsOf
  <2>5. Kept(t)
    BY <1>c, <2>2
  <2>. QED BY <2>1, <2>2, <2>3, <2>4, <2>5 DEF Kept, OnItsWay, InMemory, WillBeRescanned
<1>13. CASE RescanSends
  <2>1. PICK x \in scRescan.txs :
          /\ scRescan' = [scRescan EXCEPT !.txs = @ \ { x }]
          /\ scTxBus' = ScPush(scTxBus, Msg({ x }, TRUE))
    BY <1>13 DEF RescanSends
  <2>2. /\ UNCHANGED << scAt, scTip, scZmqBlk, scHeard >>
        /\ scMissed' = scMissed \cup Lost /\ scRescan.phase = "blocks"
    BY <1>13 DEF RescanSends, scNode, scZmq
  <2>3. /\ scRescan'.phase = "blocks" /\ scRescan'.todo = scRescan.todo
        /\ scRescan'.txs = scRescan.txs \ { x } /\ x \in ScTxs
    BY <1>r, <2>1, <2>2 DEF Rescans
  <2>4. Msg({ x }, TRUE) \in ScMsgs /\ { x } \in SUBSET ScTxs
    BY <2>3 DEF Msg, ScMsgs
  <2>5. /\ ConfirmedOf(Range(scTxBus)) \subseteq ConfirmedOf(Range(scTxBus')) \cup scMissed'
        /\ scMissed \subseteq scMissed' /\ Msg({ x }, TRUE) \in Range(scTxBus')
    BY <1>b, <2>1, <2>2, <2>4, BusPush
  <2>6. x \in ConfirmedOf(Range(scTxBus'))
    BY <2>4, <2>5, MsgConfirms
  <2>7. Kept(t)
    BY <1>c, <2>2
  <2>. QED BY <2>2, <2>3, <2>5, <2>6, <2>7 DEF Kept, OnItsWay, InMemory, WillBeRescanned
<1>14. CASE RescanSkips
  <2>1. PICK skipped :
          /\ scRescan' = [scRescan EXCEPT !.todo = @ \ skipped]
          /\ scMissed' = scMissed \cup UNION { TxsOf(k) : k \in skipped }
    BY <1>14 DEF RescanSkips
  <2>2. /\ UNCHANGED << scAt, scTip, scZmqBlk, scHeard, scTxBus >>
        /\ scRescan.phase = "blocks"
    BY <1>14 DEF RescanSkips, scNode, scZmq
  <2>3. /\ scRescan'.phase = "blocks" /\ scRescan'.todo = scRescan.todo \ skipped
        /\ scRescan'.txs = scRescan.txs
    BY <1>r, <2>1, <2>2 DEF Rescans
  <2>4. scAt[t] \in skipped => t \in scMissed'
    BY <2>1, SMTT(60) DEF TxsOf
  <2>5. Kept(t)
    BY <1>c, <2>2
  <2>. QED BY <2>1, <2>2, <2>3, <2>4, <2>5 DEF Kept, OnItsWay, InMemory, WillBeRescanned
<1>15. CASE RescanEnds
  <2>1. /\ UNCHANGED << scAt, scZmqBlk, scHeard, scTxBus, scMissed >>
        /\ scRescan.phase = "blocks" /\ scRescan.todo = {} /\ scRescan.txs = {}
    BY <1>15 DEF RescanEnds, scNode, scZmq
  <2>2. Kept(t)
    BY <1>c, <2>1
  <2>. QED BY <2>1, <2>2 DEF Kept, OnItsWay, InMemory, WillBeRescanned
<1>16. CASE ScanMempool
  <2>1. /\ UNCHANGED << scAt, scTip, scZmqBlk, scHeard >> /\ scRescan.phase = "mempool"
    BY <1>16 DEF ScanMempool, scNode, scZmq
  <2>2. scRescan.todo = {} /\ Kept(t)
    BY <1>c, <1>d, <2>1 DEF RescanIsDue
  <2>3. CASE UNCHANGED << scTxBus, scMissed >>
    BY <2>1, <2>2, <2>3 DEF Kept, OnItsWay, InMemory, WillBeRescanned
  <2>4. CASE \E x \in scRescan.txs : /\ scTxBus' = ScPush(scTxBus, Msg({ x }, FALSE))
                                     /\ scMissed' = scMissed \cup Lost
    <3>1. PICK x \in scRescan.txs : /\ scTxBus' = ScPush(scTxBus, Msg({ x }, FALSE))
                                    /\ scMissed' = scMissed \cup Lost
      BY <2>4
    <3>2. x \in ScTxs
      BY <1>r DEF Rescans
    <3>3. Msg({ x }, FALSE) \in ScMsgs
      BY <3>2 DEF Msg, ScMsgs
    <3>4. /\ ConfirmedOf(Range(scTxBus)) \subseteq ConfirmedOf(Range(scTxBus')) \cup scMissed'
          /\ scMissed \subseteq scMissed'
      BY <1>b, <3>1, <3>3, BusPush
    <3>. QED BY <2>1, <2>2, <3>4 DEF Kept, OnItsWay, InMemory, WillBeRescanned
  <2>. QED BY <1>16, <2>3, <2>4 DEF ScanMempool
<1>17. CASE UNCHANGED scVars
  BY <1>u, <1>17 DEF scVars
<1>. QED BY <1>1, <1>2, <1>3, <1>4, <1>5, <1>6, <1>7, <1>8, <1>9, <1>10, <1>11, <1>12, <1>13,
            <1>14, <1>15, <1>16, <1>17 DEF ScNext

\* For any number of transactions, capacity, faults and restarts: a confirmed
\* transaction of a swap is announced, in a queue, still to be fetched or scanned for,
\* or was lost in one of the ways that scMissed records.
THEOREM ConfirmedKept == ScSpec => []ConfirmedIsKept
<1>1. ScInit => ScInv
  <2> SUFFICES ASSUME ScInit
               PROVE  ScInv
    OBVIOUS
  <2>1. NoRescan \in Rescans /\ NoRescan.end = 0 /\ NoRescan.todo = {}
    BY DEF NoRescan, Rescans
  <2>2. Range(<< >>) = {}
    BY SMTT(60) DEF Range
  <2>3. HeightsAreReached
    BY <2>1, <2>2, SMTT(60) DEF ScInit, HeightsAreReached, Unsent
  <2>. QED BY <2>1, <2>3, SMTT(60) DEF ScInit, ScInv, RescanIsDue, ConfirmedIsKept, Confirmed,
                             Unsent, Mempool
<1>2. ScInv /\ [ScNext]_scVars => ScInv'
  BY HeightsStep, DueStep, KeptStep DEF ScInv
<1>3. ScInv => ConfirmedIsKept
  BY DEF ScInv
<1>. QED BY <1>1, <1>2, <1>3, PTL DEF ScSpec
=============================================================================
