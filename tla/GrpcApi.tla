------------------------------ MODULE GrpcApi ------------------------------
(***************************************************************************)
(* Calls of the backend to the sidecar's gRPC service that are not the     *)
(* subject of another module (boltzr/src/grpc/service.rs): the log level   *)
(* (with tracing_setup.rs), fee estimates, checks of transactions, rescans *)
(* and the streams of blocks.                                              *)
(*                                                                         *)
(* A stream of blocks has one task for each chain.  It takes blocks from a *)
(* broadcast channel, which drops the oldest for a receiver that lags, and *)
(* puts them into the channel of the stream.  A block is the number of its *)
(* announcement, which is higher than the last one's also in a reorg.      *)
(***************************************************************************)
EXTENDS Integers, Sequences, FiniteSets, SequencesExt

CONSTANTS
    GaCurrencies,       \* GaCurrencies[symbol]: whether it has a chain client
    GaUnknown,          \* a symbol that is not configured
    GaHandles,          \* filters of the log, in order
    GaLevels,           \* GaLevels: numbers of LogLevel
    GaBadLevel,         \* a number that is no LogLevel
    GaCallers,          \* calls of set_log_level
    GaStreams,          \* streams of blocks
    GaBroadcast,        \* capacity of the broadcast channel of blocks
    GaBuffer,           \* CHANNEL_BUFFER_SIZE
    MaxGaWork           \* bound: calls and blocks together

Configured == DOMAIN GaCurrencies
Chains == { s \in Configured : GaCurrencies[s] }
HandleCount == Len(GaHandles)

ASSUME GaAssumption ==
    /\ GaUnknown \notin Configured /\ GaBadLevel \notin GaLevels
    /\ { GaBroadcast, GaBuffer } \subseteq Nat \ {0} /\ MaxGaWork \in Nat

VARIABLES
    gaLevel,    \* the level of each filter
    gaCall,     \* a call of set_log_level: its level and the filters it has set
    gaAnswer,   \* the answer of the last other call
    gaBlocks,   \* announcements of each chain
    gaStream,   \* the streams
    gaWork      \* calls made and blocks announced

gaVars == << gaLevel, gaCall, gaAnswer, gaBlocks, gaStream, gaWork >>

\* Calls and blocks come as long as the bound allows.
Works == gaWork < MaxGaWork /\ gaWork' = gaWork + 1

NotCalled == [ level |-> 0, set |-> 0, state |-> "new", alone |-> TRUE ]

\* from: announcements before the stream, next: the announcement its task
\* takes next, running: the task runs; sent: what is in the channel of the
\* stream, got: what the backend took out of it.
NoStream == [ state |-> "new", from |-> [ c \in Chains |-> 0 ], next |-> [ c \in Chains |-> 1 ],
              running |-> {}, sent |-> << >>, got |-> << >> ]

GaInit ==
    /\ gaLevel = [ h \in 1 .. HandleCount |-> 0 ]
    /\ gaCall = [ c \in GaCallers |-> NotCalled ]
    /\ gaAnswer = << "none" >>
    /\ gaBlocks = [ c \in Chains |-> 0 ]
    /\ gaStream = [ s \in GaStreams |-> NoStream ] /\ gaWork = 0

-----------------------------------------------------------------------------
(* set_log_level                                                           *)

InModify == { c \in GaCallers : gaCall[c].state = "running" }

\* A number that is no level is refused.
SetLogLevel(c, level) ==
    /\ Works
    /\ gaCall[c].state = "new"
    /\ gaCall' = [ d \in GaCallers |->
         IF d = c THEN [ level |-> level, set |-> 0, alone |-> InModify = {},
                         state |-> IF level \in GaLevels THEN "running" ELSE "invalid" ]
         ELSE IF d \in InModify /\ level \in GaLevels THEN [ gaCall[d] EXCEPT !.alone = FALSE ]
         ELSE gaCall[d] ]
    /\ UNCHANGED << gaLevel, gaAnswer, gaBlocks, gaStream >>

\* modify sets one filter after the other.
ModifyHandle(c) ==
    /\ c \in InModify /\ gaCall[c].set < HandleCount
    /\ gaLevel' = [ gaLevel EXCEPT ![gaCall[c].set + 1] = gaCall[c].level ]
    /\ gaCall' = [ gaCall EXCEPT ![c].set = @ + 1,
                                 ![c].state = IF gaCall[c].set + 1 = HandleCount
                                              THEN "done" ELSE @ ]
    /\ UNCHANGED << gaAnswer, gaBlocks, gaStream, gaWork >>

\* A filter cannot be changed: the ones before it keep the new level.
ModifyFails(c) ==
    /\ c \in InModify
    /\ gaCall' = [ gaCall EXCEPT ![c].state = "internal" ]
    /\ UNCHANGED << gaLevel, gaAnswer, gaBlocks, gaStream, gaWork >>

-----------------------------------------------------------------------------
(* Calls that are answered at once; none of them changes the service.      *)

GetInfo == << "version" >>

EstimateFee(symbol) ==
    IF symbol \notin Configured THEN { << "not found", "currency" >> }
    ELSE IF ~GaCurrencies[symbol] THEN { << "not found", "chain" >> }
    ELSE { << "estimate", symbol >>, << "internal", symbol >> }

AskCheckTransaction(symbol) == { << "checked", symbol >>, << "internal", symbol >> }

\* rescan_chains: no chain means all of them; the mempool is included unless the
\* request says otherwise.
RescanOptions(chains) ==
    IF chains = << >> THEN { [ symbol |-> c, mempool |-> TRUE ] : c \in Chains }
    ELSE { [ symbol |-> chains[i].symbol, mempool |-> chains[i].mempool # "false" ] :
             i \in DOMAIN chains }

RescanRequests ==
    { << >> } \cup { << [ symbol |-> c, mempool |-> m ] >> :
                       c \in Chains, m \in { "unset", "true", "false" } }

CallService ==
    /\ Works
    /\ \/ gaAnswer' = GetInfo
       \/ \E symbol \in Configured \cup {GaUnknown} :
            gaAnswer' \in EstimateFee(symbol) \cup AskCheckTransaction(symbol)
       \/ \E chains \in RescanRequests :
            gaAnswer' \in { << "rescanned", chains, RescanOptions(chains) >>, << "internal" >> }
    /\ UNCHANGED << gaLevel, gaCall, gaBlocks, gaStream >>

-----------------------------------------------------------------------------
(* block_added                                                             *)

BlockAdded(s) ==
    /\ Works
    /\ gaStream[s].state = "new"
    /\ gaStream' = [ gaStream EXCEPT ![s] =
         [ NoStream EXCEPT !.state = "open", !.running = Chains, !.from = gaBlocks,
                           !.next = [ c \in Chains |-> gaBlocks[c] + 1 ] ] ]
    /\ UNCHANGED << gaLevel, gaCall, gaAnswer, gaBlocks >>

NewBlock(c) ==
    /\ Works
    /\ gaBlocks' = [ gaBlocks EXCEPT ![c] = @ + 1 ]
    /\ UNCHANGED << gaLevel, gaCall, gaAnswer, gaStream >>

Lags(s, c) == gaBlocks[c] - gaStream[s].next[c] >= GaBroadcast

\* A mutant: the task of a chain has a receiver that goes on after it lagged.
ForwardSkipping(s, c) ==
    /\ gaStream[s].state = "open" /\ c \in gaStream[s].running
    /\ gaStream[s].next[c] <= gaBlocks[c]
    /\ Len(gaStream[s].sent) < GaBuffer
    /\ LET n == IF Lags(s, c) THEN gaBlocks[c] - GaBroadcast + 1 ELSE gaStream[s].next[c]
       IN  gaStream' = [ gaStream EXCEPT ![s].sent = Append(@, << c, n >>), ![s].next[c] = n + 1 ]
    /\ UNCHANGED << gaLevel, gaCall, gaAnswer, gaBlocks, gaWork >>

\* The task of a chain: an error of the receiver ends it, also that it lagged.
ForwardBlock(s, c) ==
    /\ gaStream[s].state = "open" /\ c \in gaStream[s].running
    /\ gaStream[s].next[c] <= gaBlocks[c]
    /\ \/ /\ Lags(s, c)
          /\ gaStream' = [ gaStream EXCEPT ![s].running = @ \ {c} ]
       \/ /\ ~Lags(s, c) /\ Len(gaStream[s].sent) < GaBuffer
          /\ gaStream' = [ gaStream EXCEPT ![s].sent = Append(@, << c, gaStream[s].next[c] >>),
                                           ![s].next[c] = @ + 1 ]
    /\ UNCHANGED << gaLevel, gaCall, gaAnswer, gaBlocks, gaWork >>

BackendReads(s) ==
    /\ gaStream[s].state = "open" /\ gaStream[s].sent # << >>
    /\ gaStream' = [ gaStream EXCEPT ![s].got = Append(@, Head(gaStream[s].sent)),
                                     ![s].sent = Tail(@) ]
    /\ UNCHANGED << gaLevel, gaCall, gaAnswer, gaBlocks, gaWork >>

\* The backend goes away: every task ends when it cannot send.  Without a task
\* the stream ends for the backend.
StreamEnds(s) ==
    /\ gaStream[s].state = "open"
    /\ gaStream' = [ gaStream EXCEPT ![s].state = "closed", ![s].running = {}, ![s].sent = << >> ]
    /\ UNCHANGED << gaLevel, gaCall, gaAnswer, gaBlocks, gaWork >>

GaNext ==
    \/ \E c \in GaCallers, level \in GaLevels \cup {GaBadLevel} : SetLogLevel(c, level)
    \/ \E c \in GaCallers : ModifyHandle(c)
    \/ \E c \in GaCallers : ModifyFails(c)
    \/ CallService
    \/ \E s \in GaStreams : BlockAdded(s)
    \/ \E c \in Chains : NewBlock(c)
    \/ \E s \in GaStreams, c \in Chains : ForwardBlock(s, c)
    \/ \E s \in GaStreams : BackendReads(s)
    \/ \E s \in GaStreams : StreamEnds(s)

GaSpec == GaInit /\ [][GaNext]_gaVars

-----------------------------------------------------------------------------
(* Properties.                                                             *)

\* The values the variables take.
GaTypeOK ==
    /\ gaLevel \in [ 1 .. HandleCount -> GaLevels \cup {0} ]
    /\ \A c \in GaCallers : gaCall[c].set \in 0 .. HandleCount
    /\ \A s \in GaStreams : gaStream[s].running \subseteq Chains
                            /\ Len(gaStream[s].sent) <= GaBuffer

OfChain(blocks, c) == SelectSeq(blocks, LAMBDA b : b[1] = c)

\* The backend gets the blocks of a chain without a gap, in the order they were
\* announced, from the one after its call; a stream that cannot keep up stops
\* with the last block before the gap.
BlocksHaveNoGap ==
    \A s \in GaStreams : gaStream[s].state = "open" =>
      \A c \in Chains :
        LET all == OfChain(gaStream[s].got, c) \o OfChain(gaStream[s].sent, c)
        IN  /\ \A i \in DOMAIN all : all[i] = << c, gaStream[s].from[c] + i >>
            /\ Len(all) = gaStream[s].next[c] - 1 - gaStream[s].from[c]

\* A call of set_log_level that met no other one and succeeded left all the
\* filters at its level, until another call begins.
LevelIsOfTheCall ==
    \A c \in GaCallers :
      gaCall[c].state = "done" /\ gaCall[c].alone
        /\ (\A d \in GaCallers \ {c} : gaCall[d].state \in { "new", "invalid" }) =>
          \A h \in 1 .. HandleCount : gaLevel[h] = gaCall[c].level

\* A fee is estimated for chains only, and a rescan covers the chains it was asked
\* for, or all of them.
CallsAreOfTheChain ==
    /\ gaAnswer[1] = "estimate" => gaAnswer[2] \in Chains
    /\ gaAnswer[1] = "rescanned" =>
         LET asked == gaAnswer[2]
             made == gaAnswer[3]
         IN  /\ { o.symbol : o \in made } =
                  IF asked = << >> THEN Chains ELSE { asked[i].symbol : i \in DOMAIN asked }
             /\ \A o \in made : ~o.mempool =>
                  \E i \in DOMAIN asked : asked[i].symbol = o.symbol /\ asked[i].mempool = "false"

\* The calls of the backend.
CallsAreServed == BlocksHaveNoGap /\ LevelIsOfTheCall /\ CallsAreOfTheChain

=============================================================================
