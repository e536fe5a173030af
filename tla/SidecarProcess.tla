---------------------------- MODULE SidecarProcess ----------------------------
(***************************************************************************)
(* The life of the sidecar process (main.rs): it connects to its database, *)
(* cache and nodes, spawns its servers and workers, and waits for all of   *)
(* them; one cancellation token ends them.  A part that cannot start is    *)
(* left out or ends the process, depending on the part.                    *)
(***************************************************************************)
EXTENDS Naturals, Sequences, FiniteSets, FiniteSetsExt

CONSTANTS
    PrNodes,        \* LND nodes of the currency, by their public keys
    PrPreferences,  \* values of preferredWallet, "none" when it is not set
    PrConfigured,   \* optional parts that are configured
    PrWorkers,      \* tasks of the swap manager
    MaxOutages      \* bound: times Mattermost becomes unreachable

ASSUME PrAssumption == PrNodes \subseteq Nat /\ IsFiniteSet(PrNodes) /\ MaxOutages \in Nat

VARIABLES
    prMain,         \* where main is
    prTask,         \* the tasks it has spawned
    prWorking,      \* tasks of the swap manager that run
    prCancelled,    \* cancellation_token
    prOpen,         \* servers with a client that keeps a stream open
    prChat,         \* connect_websocket
    prChatUp,       \* Mattermost can be reached
    prOutages,      \* history: times it could not
    prCurrency,     \* what connect_nodes made of the currencies
    prSignalled     \* history: the process got a shutdown signal

prVars == << prMain, prTask, prWorking, prCancelled, prOpen, prChat, prChatUp, prOutages,
             prCurrency, prSignalled >>

Streaming == { "api", "grpc" }      \* servers with clients that keep a stream open
PrServers == Streaming \cup { "ws", "metrics" }
Tasks == PrServers \cup { "service", "backup", "manager", "chat" }

\* The order in which main waits for its tasks.
Awaited == << "backup", "api", "grpc", "ws", "manager", "chat", "metrics" >>

Stages == << "config", "database", "cache", "nodes", "backup", "notification", "manager",
             "servers" >>
Symbols == { "bitcoin", "liquid", "evm", "ark" }
NoCurrency == [chain |-> FALSE, lnds |-> {}, wallet |-> "none", node |-> 0, bumper |-> FALSE]

PrInit ==
    /\ prMain = 1 /\ prTask = [t \in Tasks |-> "none"] /\ prWorking = {}
    /\ prCancelled = FALSE /\ prOpen = {} /\ prChat = "off" /\ prChatUp = TRUE /\ prOutages = 0
    /\ prCurrency = [c \in Symbols |-> NoCurrency] /\ prSignalled = FALSE

Stage(name) == prMain \in 1 .. Len(Stages) /\ Stages[prMain] = name
NextStage == prMain' = prMain + 1
ExitOne == prMain' = 0
Exited == Len(Stages) + Len(Awaited) + 2
Running == prMain \in 1 .. Exited - 1
Ends(t) == prTask' = [prTask EXCEPT ![t] = "over"]

-----------------------------------------------------------------------------
(* connect_nodes                                                           *)

\* The wallet of LND unless Bitcoin Core is preferred; the smallest of its nodes.
UseLndWallet(preferred, lnds) == preferred # "core" /\ lnds # {}
WalletOf(preferred, chain, lnds) ==
    CASE UseLndWallet(preferred, lnds) -> "lnd"
      [] ~UseLndWallet(preferred, lnds) /\ chain -> "core"
      [] OTHER -> "none"
CreateBumper(chain, wallet) == chain /\ wallet # "none"

\* connect_client: a client that cannot be created, or does not answer within
\* NODE_CONNECTION_TIMEOUT, is left out.
ConnectClient(configured) == IF configured THEN BOOLEAN ELSE { FALSE }

\* connect_lnds: the nodes that could be connected, each once.
ConnectLnds == SUBSET PrNodes

\* The loop over the currencies of connect_nodes.
BitcoinCurrency(preferred, chain, lnds) ==
    LET wallet == WalletOf(preferred, chain, lnds)
    IN  [chain |-> chain, lnds |-> lnds, wallet |-> wallet,
         node |-> IF wallet = "lnd" THEN Min(lnds) ELSE 0,
         bumper |-> CreateBumper(chain, wallet)]

\* Liquid has the wallet of its node.
LiquidCurrency(chain) ==
    LET wallet == IF chain THEN "elements" ELSE "none"
    IN  [NoCurrency EXCEPT !.chain = chain, !.wallet = wallet,
                           !.bumper = CreateBumper(chain, wallet)]

\* EVM chains have a manager and no wallet; one that cannot be created is an error.
EvmCurrency == NoCurrency

\* Ark has a wallet when its client is there.
ArkCurrency(client) == [NoCurrency EXCEPT !.wallet = IF client THEN "ark" ELSE "none"]

ConnectNodes(preferred) ==
    \E chain \in ConnectClient(TRUE), lnds \in ConnectLnds,
       liquid \in ConnectClient("liquid" \in PrConfigured),
       ark \in ConnectClient("ark" \in PrConfigured) :
      prCurrency' = [bitcoin |-> BitcoinCurrency(preferred, chain, lnds),
                     liquid |-> LiquidCurrency(liquid), evm |-> EvmCurrency,
                     ark |-> ArkCurrency(ark)]

-----------------------------------------------------------------------------
(* main, up to the tasks it waits for                                      *)

SetupKeeps == UNCHANGED << prCancelled, prOpen, prChatUp, prOutages, prSignalled >>

\* parse_config and db::connect.
ReadConfig ==
    /\ Stage("config") \/ Stage("database")
    /\ NextStage \/ ExitOne
    /\ SetupKeeps /\ UNCHANGED << prTask, prWorking, prChat, prCurrency >>

\* Server::start of gRPC, the API and the metrics, and Status::start: a server that
\* has no certificates or cannot bind its address is over, and the error only logged.
GrpcStarts == { "open", "over" }
ApiListens == { "open", "over" }
StatusStarts == { "open", "over" }
MetricsStarts == IF "metrics" \in PrConfigured THEN { "open", "over" } ELSE { "over" }

StartsOf(t) ==
    CASE t = "grpc" -> GrpcStarts
      [] t = "api" -> ApiListens
      [] t = "ws" -> StatusStarts
      [] t = "metrics" -> MetricsStarts

\* Tasks are spawned; the listener without a notification client is over at once.
Spawn(servers, others) ==
    \E starts \in [servers -> { "open", "over" }] :
      /\ \A t \in servers : starts[t] \in StartsOf(t)
      /\ prTask' = [t \in Tasks |-> CASE t \in servers -> starts[t]
                                       [] t \in DOMAIN others -> others[t]
                                       [] OTHER -> prTask[t]]

\* The cache, and with it the metrics server.
ConnectCache ==
    /\ Stage("cache")
    /\ \/ NextStage /\ Spawn({ "metrics" }, << >>)
       \/ "cache" \in PrConfigured /\ ExitOne /\ UNCHANGED prTask
    /\ SetupKeeps /\ UNCHANGED << prWorking, prChat, prCurrency >>

ConnectCurrencies ==
    /\ Stage("nodes")
    /\ \/ ExitOne /\ UNCHANGED << prTask, prCurrency >>
       \/ \E preferred \in PrPreferences :
            IF preferred \in { "none", "core", "lnd" }
            THEN /\ NextStage /\ ConnectNodes(preferred)
                 /\ prTask' = [prTask EXCEPT !["service"] = "start"]
            ELSE ExitOne /\ UNCHANGED << prTask, prCurrency >>
    /\ SetupKeeps /\ UNCHANGED << prWorking, prChat >>

\* create_with_timeout: a client that fails is left out, one that does not answer ends
\* the process.
CreateClient(stage, part, made) ==
    /\ Stage(stage)
    /\ \/ part \in PrConfigured /\ NextStage /\ made
       \/ NextStage /\ UNCHANGED << prTask, prChat >>
       \/ part \in PrConfigured /\ ExitOne /\ UNCHANGED << prTask, prChat >>
    /\ SetupKeeps /\ UNCHANGED << prWorking, prCurrency >>

\* The backup task is spawned once the notification client is there.
CreateBackup == CreateClient("backup", "backup",
                             prTask' = [prTask EXCEPT !["backup"] = "made"] /\ UNCHANGED prChat)
CreateNotification == CreateClient("notification", "notification",
                                   prChat' = "made" /\ UNCHANGED prTask)

CreateManager ==
    /\ Stage("manager")
    /\ prTask' = [prTask EXCEPT !["backup"] = IF @ = "made" THEN "open" ELSE "over"]
    /\ NextStage \/ ExitOne
    /\ SetupKeeps /\ UNCHANGED << prWorking, prChat, prCurrency >>

\* The servers, the listener and the swap manager are spawned in one go.
SpawnServers ==
    /\ Stage("servers") /\ NextStage
    /\ Spawn({ "api", "grpc", "ws" },
             [manager |-> "open", chat |-> IF prChat = "made" THEN "open" ELSE "over"])
    /\ prChat' = IF prChat = "made" THEN "connect" ELSE prChat
    /\ prWorking' = PrWorkers
    /\ SetupKeeps /\ UNCHANGED prCurrency

\* The signal handler is the last task main spawns: before, the process is killed.
Signal ==
    /\ ~prSignalled /\ Running /\ prSignalled' = TRUE
    /\ IF prMain > Len(Stages)
       THEN prCancelled' = TRUE /\ UNCHANGED prMain
       ELSE ExitOne /\ UNCHANGED prCancelled
    /\ UNCHANGED << prTask, prWorking, prOpen, prChat, prChatUp, prOutages, prCurrency >>

-----------------------------------------------------------------------------
(* The tasks                                                               *)

TaskKeeps == UNCHANGED << prMain, prWorking, prChatUp, prOutages, prCurrency, prSignalled >>

\* Service::start loads the country codes; a failure stops the process.
ServiceStarts ==
    /\ Running /\ prTask["service"] = "start" /\ Ends("service")
    /\ prCancelled' \in { prCancelled, TRUE }
    /\ TaskKeeps /\ UNCHANGED << prOpen, prChat >>

\* Streams of server-sent events and of gRPC end when the client ends them.
ClientConnects(t) ==
    /\ Running /\ prTask[t] = "open" /\ ~prCancelled /\ t \notin prOpen
    /\ prOpen' = prOpen \cup { t }
    /\ TaskKeeps /\ UNCHANGED << prTask, prCancelled, prChat >>

ClientLeaves(t) ==
    /\ Running /\ t \in prOpen /\ prOpen' = prOpen \ { t }
    /\ TaskKeeps /\ UNCHANGED << prTask, prCancelled, prChat >>

\* A graceful shutdown waits for the clients, the WebSocket server does not.
ServerStops(t) ==
    /\ Running /\ prTask[t] = "open" /\ prCancelled /\ t \notin prOpen /\ Ends(t)
    /\ TaskKeeps /\ UNCHANGED << prCancelled, prOpen, prChat >>

\* Backup::start ends with its first dump or with the token (ChannelBackup).
BackupEnds ==
    /\ Running /\ prTask["backup"] = "open" /\ Ends("backup")
    /\ TaskKeeps /\ UNCHANGED << prCancelled, prOpen, prChat >>

WorkerStops(w) ==
    /\ Running /\ prTask["manager"] = "open" /\ prCancelled /\ w \in prWorking
    /\ prWorking' = prWorking \ { w }
    /\ prTask' = [prTask EXCEPT !["manager"] = IF prWorking = { w } THEN "over" ELSE @]
    /\ UNCHANGED << prMain, prCancelled, prOpen, prChat, prChatUp, prOutages, prCurrency,
                    prSignalled >>

-----------------------------------------------------------------------------
(* The notification listener                                               *)

ChatKeeps == UNCHANGED << prCancelled, prOpen >> /\ TaskKeeps

ChatConnects ==
    /\ Running /\ prChat = "connect"
    /\ prChat' = IF prChatUp THEN "open" ELSE "wait"
    /\ ChatKeeps /\ UNCHANGED prTask

\* Closed by the server, or without a message for too long.
ChatCloses ==
    /\ Running /\ prChat = "open" /\ ~prChatUp /\ prChat' = "wait"
    /\ ChatKeeps /\ UNCHANGED prTask

\* The token is not looked at between two connections.
ChatReconnects ==
    /\ Running /\ prChat = "wait" /\ prChat' = "connect"
    /\ ChatKeeps /\ UNCHANGED prTask

\* A mutant: it reconnects after every connection.
ChatStopsAgain ==
    /\ Running /\ prChat = "open" /\ prCancelled
    /\ prChat' = "wait" /\ UNCHANGED prTask
    /\ ChatKeeps

ChatStops ==
    /\ Running /\ prChat = "open" /\ prCancelled
    /\ prChat' = "off" /\ Ends("chat")
    /\ ChatKeeps

ChatOutage ==
    /\ Running /\ prOutages < MaxOutages /\ prChatUp
    /\ prChatUp' = FALSE /\ prOutages' = prOutages + 1
    /\ UNCHANGED << prMain, prTask, prWorking, prCancelled, prOpen, prChat, prCurrency, prSignalled >>

ChatBack ==
    /\ Running /\ ~prChatUp /\ prChatUp' = TRUE
    /\ UNCHANGED << prMain, prTask, prWorking, prCancelled, prOpen, prChat, prOutages, prCurrency,
                    prSignalled >>

-----------------------------------------------------------------------------
\* main waits for one task after the other and exits.
Await ==
    /\ prMain \in Len(Stages) + 1 .. Exited - 1
    /\ LET next == prMain - Len(Stages)
       IN  next <= Len(Awaited) => prTask[Awaited[next]] = "over"
    /\ NextStage
    /\ UNCHANGED << prTask, prWorking, prCancelled, prOpen, prChat, prChatUp, prOutages, prCurrency,
                    prSignalled >>

Setup == ReadConfig \/ ConnectCache \/ ConnectCurrencies \/ CreateBackup \/ CreateNotification
         \/ CreateManager \/ SpawnServers

Stopping ==
    \/ ServiceStarts
    \/ \E t \in PrServers : ServerStops(t)
    \/ \E w \in PrWorkers : WorkerStops(w)

PrNext ==
    \/ Setup \/ Signal \/ Stopping \/ Await \/ BackupEnds
    \/ \E t \in Streaming : ClientConnects(t) \/ ClientLeaves(t)
    \/ ChatConnects \/ ChatCloses \/ ChatReconnects \/ ChatStops \/ ChatOutage \/ ChatBack

PrSpec == PrInit /\ [][PrNext]_prVars

\* The tasks run.  Nothing makes a client leave or Mattermost come back.
PrFairness ==
    /\ WF_prVars(Setup) /\ WF_prVars(Await) /\ WF_prVars(BackupEnds)
    /\ WF_prVars(ServiceStarts)
    /\ \A t \in PrServers : WF_prVars(ServerStops(t))
    /\ \A w \in PrWorkers : WF_prVars(WorkerStops(w))
    /\ WF_prVars(ChatConnects) /\ WF_prVars(ChatReconnects) /\ WF_prVars(ChatCloses)
    /\ WF_prVars(ChatStops)

PrFairSpec == PrSpec /\ PrFairness
-----------------------------------------------------------------------------
\* The type of the tasks and of the currencies.
PrTypeOK ==
    /\ prMain \in 0 .. Exited /\ prWorking \subseteq PrWorkers /\ prOpen \subseteq PrServers
    /\ \A t \in Tasks : prTask[t] \in { "none", "made", "start", "open", "over" }
    /\ prCurrency["bitcoin"].lnds \subseteq PrNodes

\* The task main waits for waits itself for somebody outside of the process, and does
\* not look at the token meanwhile: a server for a client that keeps its stream open,
\* the listener for a connection to Mattermost.
HeldByPeer ==
    /\ prMain \in Len(Stages) + 1 .. Len(Stages) + Len(Awaited)
    /\ LET t == Awaited[prMain - Len(Stages)]
       IN  t \in prOpen \/ (t = "chat" /\ ~prChatUp)

\* Whatever the parts of the process do when the token is cancelled, by a signal or by
\* a service that cannot start, and even while main still starts it, main gets past its
\* waits one after the other.  What can hold it up, and for ever, is only a client that
\* does not leave or Mattermost that does not come back; when the one leaves and the
\* other is back main goes on (main, the shutdowns of the servers, listen).
ShutdownCompletes == prCancelled ~> (~Running \/ HeldByPeer)

\* Main exits with every task over; a wallet and a bumper are there only for nodes that
\* could be connected (connect_nodes).
ExitIsClean ==
    /\ prMain = Exited => \A t \in Tasks \ { "service" } : prTask[t] = "over"
    /\ \A c \in Symbols :
        LET cur == prCurrency[c] IN
        /\ cur.wallet = "lnd" => cur.node \in cur.lnds
        /\ cur.wallet \in { "core", "elements" } => cur.chain
        /\ cur.bumper <=> cur.chain /\ cur.wallet # "none"
=============================================================================
