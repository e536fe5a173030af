---------------------------- MODULE FeeEstimator ----------------------------
(***************************************************************************)
(* The fee rate of a UTXO chain (chain/chain_client.rs, estimate_fee) from *)
(* several mempool.space servers (chain/mempool_client.rs) and the node.   *)
(*                                                                         *)
(* Every server has a WebSocket client that keeps the last fee rate, when  *)
(* it arrived, and the last height; both are forgotten when the connection *)
(* ends.  An estimate asks the node, then takes the median of the fresh    *)
(* rates at the best height, waiting for a first one if there is none, and *)
(* uses it only when the node's answers do not contradict it.              *)
(*                                                                         *)
(* Rates are in hundredths of a satoshi per virtual byte.  Time passes in  *)
(* ticks; an age is counted up to one more than the longest allowed.       *)
(***************************************************************************)
EXTENDS Integers, FiniteSets, TLAPS

CONSTANTS
    Servers,        \* mempool.space servers
    Rates,          \* rates servers and the node report
    MaxFeHeight,    \* bound on heights
    MaxAge,         \* mempool max_age, in ticks
    MaxBlockLag, Multiplier, Delta,     \* the thresholds of the configuration
    FeeFloor,       \* the fee floor
    Ticks           \* bound on ticks

ASSUME FeAssumption ==
    /\ Rates \subseteq Nat /\ Rates # {} /\ MaxFeHeight \in Nat \ {0}
    /\ MaxAge \in Nat /\ MaxBlockLag \in Nat /\ Multiplier \in Nat \ {0}
    /\ Delta \in Nat /\ Ticks \in Nat /\ FeeFloor \in Nat

VARIABLES
    feConn,     \* the connection to a server: its age in ticks, Off without one
    feRate,     \* last_fees: the rate, None without one
    feAge,      \* its age
    feBlock,    \* last_block, None without one
    feTick,     \* ticks so far
    feCall,     \* where the estimate is
    feNode,     \* what the node said at its start: rate and height
    feNotified, \* the waiter was notified since it registered
    feResult    \* the estimate

feVars == << feConn, feRate, feAge, feBlock, feTick, feCall, feNode, feNotified,
             feResult >>
feServers == << feConn, feRate, feAge, feBlock >>

None == -1
Off == -1
Older(age) == IF age <= MaxAge THEN age + 1 ELSE age
Larger(a, b) == IF a <= b THEN b ELSE a

FeInit ==
    /\ feConn = [s \in Servers |-> Off]
    /\ feRate = [s \in Servers |-> None] /\ feAge = [s \in Servers |-> 0]
    /\ feBlock = [s \in Servers |-> None]
    /\ feTick = 0 /\ feCall = "idle"
    /\ feNode = [ rate |-> None, height |-> None ]
    /\ feNotified = FALSE /\ feResult = None

-----------------------------------------------------------------------------
(* The clients                                                             *)

\* A mutant: rates of any age are good.
FreshEver(s) == feRate[s] # None

\* has a rate that is not too old
Fresh(s) == feRate[s] # None /\ feAge[s] <= MaxAge

\* get_latest answers
Latest(s) == Fresh(s) /\ feBlock[s] # None

\* A mutant: a waiter is registered only once it waits.
NotifyWaiting(s) ==
    feNotified' = (feNotified \/ (feCall = "wait" /\ feRate'[s] # None
                                                /\ feBlock'[s] # None))

\* The waiters are woken when a client has both a rate and a height.
Notify(s) ==
    feNotified' = (feNotified \/ (feRate'[s] # None /\ feBlock'[s] # None))

ConnectWebsocket(s) ==
    /\ feConn[s] = Off
    /\ feConn' = [feConn EXCEPT ![s] = 0]
    /\ UNCHANGED << feRate, feAge, feBlock, feTick, feCall, feNode, feNotified,
                    feResult >>

HandleFees(s, r) ==
    /\ feConn[s] # Off
    /\ feRate' = [feRate EXCEPT ![s] = r] /\ feAge' = [feAge EXCEPT ![s] = 0]
    /\ UNCHANGED << feConn, feBlock, feTick, feCall, feNode, feResult >>
    /\ Notify(s)

\* A height that is not higher is ignored.
HandleBlocks(s, h) ==
    /\ feConn[s] # Off /\ feBlock[s] < h
    /\ feBlock' = [feBlock EXCEPT ![s] = h]
    /\ UNCHANGED << feConn, feRate, feAge, feTick, feCall, feNode, feResult >>
    /\ Notify(s)

Forget(s) ==
    /\ feConn' = [feConn EXCEPT ![s] = Off]
    /\ feRate' = [feRate EXCEPT ![s] = None] /\ feAge' = [feAge EXCEPT ![s] = 0]
    /\ feBlock' = [feBlock EXCEPT ![s] = None]
    /\ UNCHANGED << feTick, feCall, feNode, feNotified, feResult >>

\* The server closes the connection, or is silent for too long.
Disconnected(s) == feConn[s] # Off /\ Forget(s)

\* The ping timer ends a connection whose rate is stale, or that never had one
\* for as long.
StaleOrMissingFees(s) ==
    IF feRate[s] # None THEN feAge[s] > MaxAge ELSE feConn[s] > MaxAge

PingTick(s) == feConn[s] # Off /\ StaleOrMissingFees(s) /\ Forget(s)

FeTick ==
    /\ feTick < Ticks /\ feTick' = feTick + 1
    /\ feAge' = [s \in Servers |-> IF feRate[s] = None THEN 0 ELSE Older(feAge[s])]
    /\ feConn' = [s \in Servers |-> IF feConn[s] = Off THEN Off ELSE Older(feConn[s])]
    /\ UNCHANGED << feRate, feBlock, feCall, feNode, feNotified, feResult >>

-----------------------------------------------------------------------------
(* The estimate                                                            *)

\* A mutant: servers that are behind count as well.
AtAnyHeight == { s \in Servers : Latest(s) }

\* The servers with an answer at the best height
AtBest ==
    { s \in Servers : Latest(s) /\ \A t \in Servers : Latest(t) => feBlock[t] <= feBlock[s] }

\* The k-th of their rates in order, as a set
Ranked(k) ==
    { feRate[s] : s \in { t \in AtBest :
        /\ Cardinality({ u \in AtBest : feRate[u] < feRate[t] }) < k
        /\ k <= Cardinality({ u \in AtBest : feRate[u] <= feRate[t] }) } }

\* The median, as a set: the mean of the two in the middle, or the one there.
Median ==
    LET mid == Cardinality(AtBest) \div 2
    IN  IF Cardinality(AtBest) % 2 = 0
        THEN { (a + b) \div 2 : a \in Ranked(mid), b \in Ranked(mid + 1) }
        ELSE Ranked(mid + 1)

HaveBest == \E s \in Servers : Latest(s)

\* value_trusted: not too far behind the node's height, not too far above its
\* rate; what the node did not answer is not compared.
ValueTrusted(height, rate) ==
    /\ feNode.height # None => feNode.height - height <= MaxBlockLag
    /\ feNode.rate # None => rate <= Larger(Multiplier * feNode.rate, feNode.rate + Delta)

RoundToOneDecimal(r) == ((r + 5) \div 10) * 10

\* estimate_fee: not below the floor, and only then rounded
Rounded(r) == RoundToOneDecimal(Larger(r, FeeFloor))

\* estimate_fee_raw starts with the node; either call can fail.
EstimateFee ==
    /\ feCall = "idle"
    /\ feNode' \in [ rate : Rates \cup { None }, height : 1 .. MaxFeHeight \cup { None } ]
    /\ feCall' = "collect"
    /\ UNCHANGED << feServers, feTick, feNotified, feResult >>

Finish(r) == feCall' = "done" /\ feResult' = Rounded(r)

FromNode == IF feNode.rate # None THEN feNode.rate ELSE FeeFloor
FromServers(height, rate) == IF ValueTrusted(height, rate) THEN rate ELSE FromNode

\* The estimate ends with the median at the best height.
FinishWithBest ==
    \E s \in AtBest, rate \in Median : Finish(FromServers(feBlock[s], rate))

\* With an answer at hand it is used, with stale ones only there is no wait,
\* else the estimate waits for a server.
CollectFirst ==
    /\ feCall = "collect"
    /\ \/ HaveBest /\ FinishWithBest
       \/ /\ ~HaveBest /\ \A s \in Servers : feRate[s] # None /\ ~Fresh(s)
          /\ Finish(FromNode)
       \/ /\ ~HaveBest /\ \E s \in Servers : feRate[s] = None \/ Fresh(s)
          /\ feCall' = "register" /\ UNCHANGED feResult
    /\ UNCHANGED << feServers, feTick, feNode, feNotified >>

\* The waiter registers for the notification before it looks.
Register ==
    /\ feCall = "register"
    /\ feCall' = "check" /\ feNotified' = FALSE
    /\ UNCHANGED << feServers, feTick, feNode, feResult >>

CheckAgain ==
    /\ feCall = "check"
    /\ IF HaveBest THEN FinishWithBest
       ELSE feCall' = "checked" /\ UNCHANGED feResult
    /\ UNCHANGED << feServers, feTick, feNode, feNotified >>

\* Only now the waiter waits; it registered before it looked.
AwaitNotified ==
    /\ feCall = "checked" /\ feCall' = "wait"
    /\ UNCHANGED << feServers, feTick, feNode, feNotified, feResult >>

Woken ==
    /\ feCall = "wait" /\ feNotified
    /\ feCall' = "register"
    /\ UNCHANGED << feServers, feTick, feNode, feNotified, feResult >>

\* The wait is given up after five seconds.
WaitTimesOut ==
    /\ feCall \in { "register", "check", "checked", "wait" }
    /\ Finish(FromNode)
    /\ UNCHANGED << feServers, feTick, feNode, feNotified >>

FeNext ==
    \/ \E s \in Servers : ConnectWebsocket(s) \/ Disconnected(s) \/ PingTick(s)
    \/ \E s \in Servers, r \in Rates : HandleFees(s, r)
    \/ \E s \in Servers, h \in 1 .. MaxFeHeight : HandleBlocks(s, h)
    \/ FeTick
    \/ EstimateFee \/ CollectFirst \/ Register \/ CheckAgain \/ AwaitNotified \/ Woken
    \/ WaitTimesOut

FeSpec == FeInit /\ [][FeNext]_feVars

-----------------------------------------------------------------------------
\* The rate and the height of a server are known only while it is connected.
FeTypeOK ==
    /\ feConn \in [Servers -> Off .. MaxAge + 1] /\ feTick \in 0 .. Ticks
    /\ feRate \in [Servers -> Rates \cup { None }]
    /\ feAge \in [Servers -> 0 .. MaxAge + 1]
    /\ feBlock \in [Servers -> { None } \cup 1 .. MaxFeHeight]
    /\ feCall \in { "idle", "collect", "register", "check", "checked", "wait",
                    "done" }
    /\ feNode \in [ rate : Rates \cup { None }, height : 1 .. MaxFeHeight \cup { None } ]
    /\ feNotified \in BOOLEAN
    /\ feResult # None <=> feCall = "done"
    /\ \A s \in Servers : feConn[s] = Off => feRate[s] = None /\ feBlock[s] = None

\* The estimate is at least the floor, rounded as the estimate is: a floor that is
\* not a whole tenth may be rounded down.  When the node gave a rate, the estimate
\* is not above what the thresholds allow for it, whatever the servers reported.
EstimateIsBounded ==
    feCall = "done" =>
        /\ feResult >= RoundToOneDecimal(FeeFloor)
        /\ feNode.rate # None =>
             feResult <= Rounded(Larger(Multiplier * feNode.rate, feNode.rate + Delta))

\* No wake-up is lost: an estimate that is waiting, or has looked and is about to
\* wait, although some server has a fresh rate and a height has been notified of it.
WaiterIsNotified == feCall \in { "checked", "wait" } /\ HaveBest => feNotified

\* The servers a rate may come from: those with a rate that is not too old, at
\* the best height of such servers.
GoodServers ==
    LET good(s) == feRate[s] # None /\ feAge[s] <= MaxAge /\ feBlock[s] # None
    IN  { s \in Servers : good(s) /\ \A t \in Servers :
                             good(t) => feBlock[t] <= feBlock[s] }

\* The rate taken from the servers is between the smallest and the largest one
\* of those that are fresh and at the best height: a stale rate, or one of a
\* server that is behind, does not count.
EstimateIsFresh ==
    [][ /\ feCall \in { "collect", "check" } /\ feCall' = "done"
        /\ feNode.rate = None /\ feNode.height = None /\ feResult' # Rounded(FeeFloor)
        => \E s, t \in GoodServers :
             feResult' \in Rounded(feRate[s]) .. Rounded(feRate[t]) ]_feVars

\* get_best_fee answers every estimate that can be answered, and within the bounds
\* that smart_fee_estimate sets.
FeesAreServed == EstimateIsBounded /\ WaiterIsNotified
-----------------------------------------------------------------------------
(* Proof: every estimate is within its bounds and from fresh rates         *)

\* What is inductive: the types with the two parts of FeesAreServed
FeInv == FeTypeOK /\ EstimateIsBounded /\ WaiterIsNotified

\* Zenon is tried on every step that names no prover; most steps with arithmetic name SMT.
USE ZenonT(120)

\* Rounding to a tenth keeps the order of rates.
LEMMA RoundingIsMonotone ==
    \A a, b \in Int : a <= b => RoundToOneDecimal(a) <= RoundToOneDecimal(b)
  BY SMTT(60) DEF RoundToOneDecimal

\* So does the estimate.
LEMMA RoundedIsMonotone ==
    \A a, b \in Int : a <= b => Rounded(a) <= Rounded(b)
<1>1. \A a, b \in Int : a <= b => Larger(a, FeeFloor) <= Larger(b, FeeFloor)
  BY FeAssumption, SMTT(60) DEF Larger
<1>2. \A a \in Int : Larger(a, FeeFloor) \in Int
  BY FeAssumption, SMTT(60) DEF Larger
<1>. QED BY <1>1, <1>2, RoundingIsMonotone DEF Rounded

\* No estimate is below the rounded floor.
LEMMA RoundedIsAboveFloor ==
    \A a \in Int : Rounded(a) \in Nat /\ Rounded(a) >= RoundToOneDecimal(FeeFloor)
<1>1. \A a \in Int : Larger(a, FeeFloor) \in Nat /\ FeeFloor <= Larger(a, FeeFloor)
  BY FeAssumption, SMTT(60) DEF Larger
<1>2. \A a \in Nat : RoundToOneDecimal(a) \in Nat
  BY SMTT(60) DEF RoundToOneDecimal
<1>3. \A a \in Nat : FeeFloor <= a => RoundToOneDecimal(FeeFloor) <= RoundToOneDecimal(a)
  BY FeAssumption, RoundingIsMonotone, SMTT(60)
<1>4. RoundToOneDecimal(FeeFloor) \in Nat
  BY <1>2, FeAssumption
<1>5. ASSUME NEW a \in Int
      PROVE  Rounded(a) \in Nat /\ Rounded(a) >= RoundToOneDecimal(FeeFloor)
  BY <1>1, <1>2, <1>3, <1>4, SMTT(60) DEF Rounded
<1>. QED BY <1>5

\* A rate of the node is within the thresholds for it.
LEMMA NodeRateIsAllowed ==
    \A r \in Nat : /\ Larger(Multiplier * r, r + Delta) \in Nat
                   /\ r <= Larger(Multiplier * r, r + Delta)
<1> SUFFICES ASSUME NEW r \in Nat
             PROVE  /\ Larger(Multiplier * r, r + Delta) \in Nat
                    /\ r <= Larger(Multiplier * r, r + Delta)
  OBVIOUS
<1>1. Multiplier * r \in Nat /\ r + Delta \in Nat /\ r <= r + Delta
  BY FeAssumption, SMTT(60)
<1>. QED BY <1>1, SMTT(60) DEF Larger

\* The rates at the best height are numbers, and the median is between two of them.
LEMMA MedianIsBetween ==
    ASSUME FeTypeOK, NEW rate \in Median
    PROVE  /\ rate \in Nat
           /\ \E s, t \in AtBest : /\ feRate[s] \in Nat /\ feRate[t] \in Nat
                                   /\ feRate[s] <= rate /\ rate <= feRate[t]
<1>1. \A s \in AtBest : feRate[s] \in Nat
  BY FeAssumption DEF FeTypeOK, AtBest, Latest, Fresh
<1>2. \A k : \A r \in Ranked(k) : \E s \in AtBest : r = feRate[s]
  BY DEF Ranked
<1>3. CASE rate \in Ranked((Cardinality(AtBest) \div 2) + 1)
  BY <1>1, <1>2, <1>3, SMTT(60)
<1>4. CASE \E a \in Ranked(Cardinality(AtBest) \div 2),
              b \in Ranked((Cardinality(AtBest) \div 2) + 1) : rate = (a + b) \div 2
  <2>1. PICK a \in Ranked(Cardinality(AtBest) \div 2),
             b \in Ranked((Cardinality(AtBest) \div 2) + 1) : rate = (a + b) \div 2
    BY <1>4
  <2>2. PICK s \in AtBest : a = feRate[s]
    BY <1>2
  <2>3. PICK t \in AtBest : b = feRate[t]
    BY <1>2
  <2>4. a \in Nat /\ b \in Nat
    BY <1>1, <2>2, <2>3
  <2>5. /\ rate \in Nat
        /\ (a <= rate /\ rate <= b) \/ (b <= rate /\ rate <= a)
    BY <2>1, <2>4, SMTT(60)
  <2>. QED BY <2>2, <2>3, <2>4, <2>5
<1>. QED BY <1>3, <1>4, SMTT(60) DEF Median

\* A step that ends the estimate with the node's rate, or the floor, is within the
\* bounds.
LEMMA NodeAnswerIsBounded ==
    ASSUME FeTypeOK, Finish(FromNode), UNCHANGED feNode
    PROVE  feResult' # None /\ EstimateIsBounded'
<1>1. feResult' = Rounded(FromNode) /\ feNode' = feNode
  BY DEF Finish
<1>2. feNode.rate # None => feNode.rate \in Nat /\ FromNode = feNode.rate
  BY FeAssumption DEF FeTypeOK, FromNode
<1>3. FromNode \in Nat
  BY <1>2, FeAssumption DEF FromNode
<1>4. feResult' \in Nat /\ feResult' >= RoundToOneDecimal(FeeFloor)
  BY <1>1, <1>3, RoundedIsAboveFloor, SMTT(60)
<1>5. feNode.rate # None =>
        feResult' <= Rounded(Larger(Multiplier * feNode.rate, feNode.rate + Delta))
  BY <1>1, <1>2, NodeRateIsAllowed, RoundedIsMonotone, SMTT(60)
<1>. QED BY <1>1, <1>4, <1>5, SMTT(60) DEF EstimateIsBounded, None

\* So is one that ends it with the servers' median: a median that the node
\* contradicts is not used.
LEMMA ServerAnswerIsBounded ==
    ASSUME FeTypeOK, FinishWithBest, UNCHANGED feNode
    PROVE  feResult' # None /\ EstimateIsBounded'
<1>1. PICK s \in AtBest, rate \in Median : Finish(FromServers(feBlock[s], rate))
  BY DEF FinishWithBest
<1>2. CASE ~ValueTrusted(feBlock[s], rate)
  BY <1>1, <1>2, NodeAnswerIsBounded DEF FromServers
<1>3. CASE ValueTrusted(feBlock[s], rate)
  <2>1. feResult' = Rounded(rate) /\ feNode' = feNode
    BY <1>1, <1>3 DEF Finish, FromServers
  <2>2. rate \in Nat
    BY MedianIsBetween
  <2>3. feResult' \in Nat /\ feResult' >= RoundToOneDecimal(FeeFloor)
    BY <2>1, <2>2, RoundedIsAboveFloor, SMTT(60)
  <2>4. feNode.rate # None => feNode.rate \in Nat
    BY FeAssumption DEF FeTypeOK
  <2>5. feNode.rate # None =>
          feResult' <= Rounded(Larger(Multiplier * feNode.rate, feNode.rate + Delta))
    BY <1>3, <2>1, <2>2, <2>4, NodeRateIsAllowed, RoundedIsMonotone, SMTT(60) DEF ValueTrusted
  <2>. QED BY <2>1, <2>3, <2>5, SMTT(60) DEF EstimateIsBounded, None
<1>. QED BY <1>2, <1>3

\* The invariant is inductive.  The wake-up part: an answer that becomes available
\* to a waiter comes with a notification, and looking clears none.
LEMMA FeInvInductive == FeInv /\ [FeNext]_feVars => FeInv'
<1> SUFFICES ASSUME FeInv, [FeNext]_feVars
             PROVE  FeInv'
  OBVIOUS
<1>t. FeTypeOK /\ EstimateIsBounded /\ WaiterIsNotified
  BY DEF FeInv
<1>1. ASSUME NEW s \in Servers, ConnectWebsocket(s)
      PROVE  FeInv'
  <2>1. FeTypeOK'
    BY <1>t, <1>1, FeAssumption, SMTT(60) DEF FeTypeOK, ConnectWebsocket, Off, None
  <2>2. EstimateIsBounded'
    BY <1>t, <1>1 DEF EstimateIsBounded, ConnectWebsocket
  <2>3. WaiterIsNotified'
    BY <1>t, <1>1 DEF WaiterIsNotified, ConnectWebsocket, HaveBest, Latest, Fresh
  <2>. QED BY <2>1, <2>2, <2>3 DEF FeInv
<1>2. ASSUME NEW s \in Servers, Forget(s)
      PROVE  FeInv'
  <2>1. FeTypeOK'
    BY <1>t, <1>2, FeAssumption, SMTT(60) DEF FeTypeOK, Forget, Off, None
  <2>2. EstimateIsBounded'
    BY <1>t, <1>2 DEF EstimateIsBounded, Forget
  <2>3. HaveBest' => HaveBest
    BY <1>t, <1>2 DEF FeTypeOK, Forget, HaveBest, Latest, Fresh
  <2>4. WaiterIsNotified'
    BY <1>t, <1>2, <2>3 DEF WaiterIsNotified, Forget
  <2>. QED BY <2>1, <2>2, <2>4 DEF FeInv
<1>3. ASSUME NEW s \in Servers, NEW r \in Rates, HandleFees(s, r)
      PROVE  FeInv'
  <2>1. FeTypeOK'
    <3>1. feNotified' \in BOOLEAN
      BY <1>3 DEF HandleFees, Notify
    <3>. QED BY <1>t, <1>3, <3>1, FeAssumption, SMTT(60) DEF FeTypeOK, HandleFees, Off, None
  <2>2. EstimateIsBounded'
    BY <1>t, <1>3 DEF EstimateIsBounded, HandleFees
  <2>3. ASSUME NEW t \in Servers, Latest(t)', ~HaveBest
        PROVE  t = s
    BY <1>t, <1>3, <2>3 DEF FeTypeOK, HandleFees, HaveBest, Latest, Fresh
  <2>4. HaveBest' => HaveBest \/ feNotified'
    BY <1>3, <2>3 DEF HaveBest, Latest, Fresh, HandleFees, Notify
  <2>5. WaiterIsNotified'
    BY <1>t, <1>3, <2>4 DEF WaiterIsNotified, HandleFees, Notify
  <2>. QED BY <2>1, <2>2, <2>5 DEF FeInv
<1>4. ASSUME NEW s \in Servers, NEW h \in 1 .. MaxFeHeight, HandleBlocks(s, h)
      PROVE  FeInv'
  <2>1. FeTypeOK'
    <3>1. feNotified' \in BOOLEAN
      BY <1>4 DEF HandleBlocks, Notify
    <3>. QED BY <1>t, <1>4, <3>1, FeAssumption DEF FeTypeOK, HandleBlocks, Off, None
  <2>2. EstimateIsBounded'
    BY <1>t, <1>4 DEF EstimateIsBounded, HandleBlocks
  <2>3. ASSUME NEW t \in Servers, Latest(t)', ~HaveBest
        PROVE  t = s
    BY <1>t, <1>4, <2>3 DEF FeTypeOK, HandleBlocks, HaveBest, Latest, Fresh
  <2>4. HaveBest' => HaveBest \/ feNotified'
    BY <1>4, <2>3 DEF HaveBest, Latest, Fresh, HandleBlocks, Notify
  <2>5. WaiterIsNotified'
    BY <1>t, <1>4, <2>4 DEF WaiterIsNotified, HandleBlocks, Notify
  <2>. QED BY <2>1, <2>2, <2>5 DEF FeInv
<1>5. CASE FeTick
  <2>1. FeTypeOK'
    BY <1>t, <1>5, FeAssumption, SMTT(60) DEF FeTypeOK, FeTick, Older, Off, None
  <2>2. EstimateIsBounded'
    BY <1>t, <1>5 DEF EstimateIsBounded, FeTick
  <2>3. ASSUME NEW s \in Servers, Latest(s)'
        PROVE  Latest(s)
    BY <1>t, <1>5, <2>3, FeAssumption DEF FeTypeOK, FeTick, Older, Latest, Fresh
  <2>4. HaveBest' => HaveBest
    BY <2>3 DEF HaveBest
  <2>5. WaiterIsNotified'
    BY <1>t, <1>5, <2>4 DEF WaiterIsNotified, FeTick
  <2>. QED BY <2>1, <2>2, <2>5 DEF FeInv
<1>6. CASE EstimateFee
  BY <1>t, <1>6 DEF FeInv, FeTypeOK, EstimateIsBounded, WaiterIsNotified, EstimateFee,
                    feServers
<1>7. ASSUME UNCHANGED << feServers, feTick, feNode, feNotified >>,
             feResult' # None, EstimateIsBounded', feCall' = "done"
      PROVE  FeInv'
  BY <1>t, <1>7 DEF FeInv, FeTypeOK, WaiterIsNotified, feServers
<1>8. CASE CollectFirst
  <2>1. CASE FinishWithBest
    <3>1. feCall' = "done"
      BY <2>1 DEF FinishWithBest, Finish
    <3>. QED BY <1>t, <1>7, <1>8, <2>1, <3>1, ServerAnswerIsBounded DEF CollectFirst
  <2>2. CASE Finish(FromNode)
    <3>1. feCall' = "done"
      BY <2>2 DEF Finish
    <3>. QED BY <1>t, <1>7, <1>8, <2>2, <3>1, NodeAnswerIsBounded DEF CollectFirst
  <2>3. CASE feCall' = "register" /\ UNCHANGED feResult
    BY <1>t, <1>8, <2>3 DEF CollectFirst, FeInv, FeTypeOK, EstimateIsBounded,
                            WaiterIsNotified, feServers
  <2>. QED BY <1>8, <2>1, <2>2, <2>3 DEF CollectFirst
<1>9. CASE Register
  BY <1>t, <1>9 DEF FeInv, FeTypeOK, EstimateIsBounded, WaiterIsNotified, Register,
                    feServers
<1>10. CASE CheckAgain
  <2>1. CASE HaveBest
    <3>1. FinishWithBest
      BY <1>10, <2>1 DEF CheckAgain
    <3>2. feCall' = "done"
      BY <3>1 DEF FinishWithBest, Finish
    <3>. QED BY <1>t, <1>7, <1>10, <3>1, <3>2, ServerAnswerIsBounded DEF CheckAgain
  <2>2. CASE ~HaveBest
    <3>1. ~HaveBest'
      BY <1>10, <2>2 DEF CheckAgain, HaveBest, Latest, Fresh, feServers
    <3>2. WaiterIsNotified'
      BY <3>1 DEF WaiterIsNotified
    <3>. QED BY <1>t, <1>10, <2>2, <3>2 DEF CheckAgain, FeInv, FeTypeOK,
                            EstimateIsBounded, feServers
  <2>. QED BY <2>1, <2>2
<1>11. CASE AwaitNotified
  <2>1. HaveBest' <=> HaveBest
    BY <1>11 DEF AwaitNotified, HaveBest, Latest, Fresh, feServers
  <2>2. WaiterIsNotified'
    BY <1>t, <1>11, <2>1 DEF WaiterIsNotified, AwaitNotified
  <2>. QED BY <1>t, <1>11, <2>2 DEF FeInv, FeTypeOK, EstimateIsBounded, AwaitNotified,
                                   feServers
<1>12. CASE Woken
  BY <1>t, <1>12 DEF FeInv, FeTypeOK, EstimateIsBounded, WaiterIsNotified, Woken,
                     feServers
<1>13. CASE WaitTimesOut
  <2>1. feCall' = "done"
    BY <1>13 DEF WaitTimesOut, Finish
  <2>. QED BY <1>t, <1>7, <1>13, <2>1, NodeAnswerIsBounded DEF WaitTimesOut
<1>14. CASE UNCHANGED feVars
  BY <1>t, <1>14 DEF FeInv, FeTypeOK, EstimateIsBounded, WaiterIsNotified, HaveBest,
                     Latest, Fresh, feVars
<1>. QED BY <1>1, <1>2, <1>3, <1>4, <1>5, <1>6, <1>8, <1>9, <1>10, <1>11, <1>12, <1>13,
            <1>14 DEF FeNext, Disconnected, PingTick

\* The initial state satisfies it.
LEMMA FeInitInv == FeInit => FeInv
<1> SUFFICES ASSUME FeInit
             PROVE  FeInv
  OBVIOUS
<1>1. FeTypeOK
  <2>1. feNode \in [ rate : Rates \cup { None }, height : 1 .. MaxFeHeight \cup { None } ]
    BY DEF FeInit
  <2>2. feConn \in [Servers -> Off .. MaxAge + 1] /\ feTick \in 0 .. Ticks
    BY FeAssumption, SMTT(60) DEF FeInit, Off
  <2>3. feAge \in [Servers -> 0 .. MaxAge + 1]
    BY FeAssumption, SMTT(60) DEF FeInit
  <2>. QED BY <2>1, <2>2, <2>3 DEF FeInit, FeTypeOK
<1>. QED BY <1>1 DEF FeInit, FeInv, EstimateIsBounded, WaiterIsNotified

\* The invariant holds in every reachable state.
LEMMA FeAlwaysInv == FeSpec => []FeInv
  BY FeInitInv, FeInvInductive, PTL DEF FeSpec

\* For any servers, thresholds and floor: an estimate is never below the floor, both
\* rounded to a tenth, nor above what the node's rate allows, and no wake-up of a
\* waiting one is lost.
THEOREM FeesServed == FeSpec => []FeesAreServed
<1>1. FeInv => FeesAreServed
  BY DEF FeInv, FeesAreServed
<1>. QED BY <1>1, FeAlwaysInv, PTL

\* For any number of servers: a rate taken from them is between two rates that are
\* fresh and at the best height, and not the rate of a server that is behind.
THEOREM EstimateFresh == FeSpec => EstimateIsFresh
<1> DEFINE fromServers == /\ feCall \in { "collect", "check" } /\ feCall' = "done"
                          /\ feNode.rate = None /\ feNode.height = None
                          /\ feResult' # Rounded(FeeFloor)
           between == \E s, t \in GoodServers :
                        feResult' \in Rounded(feRate[s]) .. Rounded(feRate[t])
<1>1. ASSUME FeInv, [FeNext]_feVars, fromServers
      PROVE  between
  <2>t. FeTypeOK
    BY <1>1 DEF FeInv
  <2>1. GoodServers = AtBest
    BY DEF GoodServers, AtBest, Latest, Fresh
  <2>2. FromNode = FeeFloor
    BY <1>1 DEF FromNode
  <2>3. FinishWithBest
    <3>1. feCall' # feCall
      BY <1>1
    <3>2. CollectFirst \/ CheckAgain \/ WaitTimesOut
      BY <1>1, <3>1 DEF FeNext, ConnectWebsocket, Disconnected, PingTick, Forget,
           HandleFees, HandleBlocks, FeTick, EstimateFee, Register, AwaitNotified,
           Woken, feVars
    <3>3. ~Finish(FromNode)
      BY <1>1, <2>2 DEF Finish
    <3>. QED BY <1>1, <3>2, <3>3 DEF CollectFirst, CheckAgain, WaitTimesOut
  <2>4. PICK b \in AtBest, rate \in Median : Finish(FromServers(feBlock[b], rate))
    BY <2>3 DEF FinishWithBest
  <2>5. feResult' = Rounded(rate)
    BY <1>1, <2>4 DEF Finish, FromServers, ValueTrusted
  <2>6. rate \in Nat /\ \E s, t \in AtBest :
          /\ feRate[s] \in Nat /\ feRate[t] \in Nat
          /\ feRate[s] <= rate /\ rate <= feRate[t]
    BY <2>t, MedianIsBetween
  <2>7. PICK s \in AtBest, t \in AtBest :
          /\ feRate[s] \in Nat /\ feRate[t] \in Nat
          /\ feRate[s] <= rate /\ rate <= feRate[t]
    BY <2>6
  <2>8. Rounded(feRate[s]) <= Rounded(rate) /\ Rounded(rate) <= Rounded(feRate[t])
    BY <2>6, <2>7, RoundedIsMonotone, SMTT(60)
  <2>9. Rounded(rate) \in Nat /\ Rounded(feRate[s]) \in Nat /\ Rounded(feRate[t]) \in Nat
    BY <2>6, <2>7, RoundedIsAboveFloor, SMTT(60)
  <2>10. feResult' \in Rounded(feRate[s]) .. Rounded(feRate[t])
    BY <2>5, <2>8, <2>9, SMTT(60)
  <2>. QED BY <2>1, <2>7, <2>10
<1>2. FeInv /\ [FeNext]_feVars => [fromServers => between]_feVars
  BY <1>1
<1>. QED BY <1>2, FeAlwaysInv, PTL DEF FeSpec, EstimateIsFresh
=============================================================================
