--------------------------- MODULE LightningGraph ---------------------------
(***************************************************************************)
(* The view of the Lightning network that the API serves                   *)
(* (service/lightning_info, api/lightning.rs): a task asks every Lightning *)
(* node of the currency for its gossip, merges the answers and writes them *)
(* to the cache; the endpoints read the cache and the nodes in memory.     *)
(*                                                                         *)
(* A public key is a name, a short channel id the triple that names the    *)
(* funding output.  LND gives the id as one number; the widths of its      *)
(* fields are scaled down.  Entries of the cache expire at any time after  *)
(* they were written.                                                      *)
(***************************************************************************)
EXTENDS Integers, Sequences, SequencesExt, FiniteSetsExt

CONSTANTS
    LgSources,      \* the Lightning nodes in the order of build_sources: CLN, then LNDs
    LgClnGossip,    \* what CLN can report: set of [nodes, channels]
    LgLndGossip,    \* what an LND can report: set of [nodes, edges]
    TxBits,         \* width of the transaction index in an id of LND
    OutputBits,     \* width of the output index
    LgQueries,      \* the questions of clients
    MaxUpdates      \* bound on the updates

VARIABLES
    lgPhase,    \* where the update is
    lgResults,  \* source -> [ok, nodes, channels], of the update that runs
    lgNodes,    \* the nodes in memory: id -> node, NoGraph before the first update
    lgNode,     \* the cached nodes: id -> node
    lgChannel,  \* the cached channels: id -> [capacity, policies]
    lgChannels, \* the cached channels by destination: node -> channels
    lgAnswer,   \* the last answer to a client
    lgUpdates,  \* the updates so far
    lgReported  \* history: the public channel sides a source ever reported

lgVars == << lgPhase, lgResults, lgNodes, lgNode, lgChannel, lgChannels, lgAnswer,
             lgUpdates, lgReported >>

NoGraph == [ none |-> TRUE ]
Failed == [ ok |-> FALSE, nodes |-> {}, channels |-> << >> ]
NotFound == [ status |-> 404 ]
BadRequest == [ status |-> 400 ]
Found(x) == [ status |-> 200, body |-> x ]

LgInit ==
    /\ lgPhase = "idle" /\ lgResults = [ s \in {} |-> Failed ]
    /\ lgNodes = NoGraph
    /\ lgNode = [ n \in {} |-> 0 ] /\ lgChannel = [ c \in {} |-> 0 ]
    /\ lgChannels = [ n \in {} |-> 0 ]
    /\ lgAnswer = NotFound /\ lgUpdates = 0 /\ lgReported = {}

-----------------------------------------------------------------------------
(* The sources.                                                             *)

\* scid_lnd_to_cln
ScidLndToCln(id) ==
    << id \div 2 ^ (TxBits + OutputBits), (id \div 2 ^ OutputBits) % 2 ^ TxBits,
       id % 2 ^ OutputBits >>

\* Mutant: the channels of CLN that are not announced are kept.
ClnFetchAll(g) ==
    [ ok |-> TRUE, nodes |-> g.nodes,
      channels |-> [ i \in DOMAIN g.channels |->
                        [ scid |-> g.channels[i].scid, source |-> g.channels[i].source,
                          destination |-> g.channels[i].destination,
                          policy |-> g.channels[i].policy ] ] ]

\* ClnSource::fetch: list_channels also has the channels that are not public.
ClnFetch(g) ==
    LET public == SelectSeq(g.channels, LAMBDA c : c.public)
    IN  [ ok |-> TRUE, nodes |-> g.nodes,
          channels |-> [ i \in DOMAIN public |->
                            [ scid |-> public[i].scid, source |-> public[i].source,
                              destination |-> public[i].destination,
                              policy |-> public[i].policy ] ] ]

\* lnd_edge_side_to_channel; a side without a policy is left out.
LndSide(e, source, destination, policy) ==
    IF policy = "none" THEN << >>
    ELSE << [ scid |-> ScidLndToCln(e.id), source |-> source, destination |-> destination,
              policy |-> policy ] >>

\* LndSource::fetch: both sides of every edge.
LndFetch(g) ==
    [ ok |-> TRUE, nodes |-> g.nodes,
      channels |-> FlattenSeq([ i \in DOMAIN g.edges |->
                        LET e == g.edges[i]
                        IN  LndSide(e, e.node1, e.node2, e.policy1)
                            \o LndSide(e, e.node2, e.node1, e.policy2) ]) ]

FetchOf(s) == IF s = "CLN" THEN { ClnFetch(g) : g \in LgClnGossip }
                           ELSE { LndFetch(g) : g \in LgLndGossip }

-----------------------------------------------------------------------------
(* The update.                                                              *)

\* merge_node: the first alias that is not empty.
MergeNode(nodes, n) ==
    IF n.id \in DOMAIN nodes
    THEN IF nodes[n.id].alias = "" THEN [ nodes EXCEPT ![n.id].alias = n.alias ] ELSE nodes
    ELSE [ i \in DOMAIN nodes \cup { n.id } |-> IF i = n.id THEN n ELSE nodes[i] ]

Succeeded(results) == SelectSeq(LgSources, LAMBDA s : results[s].ok)

\* merge_gossip_results, of the sources in their order.
MergedNodes(results) ==
    FoldLeft(LAMBDA nodes, s : FoldSet(LAMBDA n, acc : MergeNode(acc, n), nodes,
                                       results[s].nodes),
             [ i \in {} |-> 0 ], Succeeded(results))
AllChannels(results) ==
    FlattenSeq([ i \in DOMAIN Succeeded(results) |-> results[Succeeded(results)[i]].channels ])

\* update_cache, up to the answers of all sources; a source can fail.
FetchGossip ==
    /\ lgPhase = "idle" /\ lgUpdates < MaxUpdates /\ LgSources # << >>
    /\ \E r \in [ ToSet(LgSources) -> UNION { FetchOf(s) : s \in ToSet(LgSources) }
                                      \cup { Failed } ] :
        /\ \A s \in ToSet(LgSources) : r[s] \in FetchOf(s) \cup { Failed }
        /\ lgResults' = r
        /\ lgPhase' = IF \A s \in ToSet(LgSources) : ~r[s].ok THEN "idle" ELSE "nodes"
        /\ lgReported' = lgReported \cup
            UNION { ToSet(r[s].channels) : s \in ToSet(LgSources) }
    /\ lgUpdates' = lgUpdates + 1
    /\ UNCHANGED << lgNodes, lgNode, lgChannel, lgChannels, lgAnswer >>

Overlay(old, new) ==
    [ k \in DOMAIN old \cup DOMAIN new |-> IF k \in DOMAIN new THEN new[k] ELSE old[k] ]

StoreNodes ==
    /\ lgPhase = "nodes"
    /\ lgNode' = Overlay(lgNode, MergedNodes(lgResults))
    /\ lgPhase' = "channels"
    /\ UNCHANGED << lgResults, lgNodes, lgChannel, lgChannels, lgAnswer, lgUpdates, lgReported >>

\* The first report of every side of a channel.
Sides(channels) ==
    SelectSeq([ i \in DOMAIN channels |-> << i, channels[i] >> ],
              LAMBDA x : \A j \in 1 .. x[1] - 1 :
                            \/ channels[j].scid # x[2].scid
                            \/ channels[j].source # x[2].source)
SidesOf(channels) == [ i \in DOMAIN Sides(channels) |-> Sides(channels)[i][2] ]

\* store_channels, first the lists by destination, then the single channels.
StoreByDestination ==
    LET sides == SidesOf(AllChannels(lgResults))
        to == { sides[i].destination : i \in DOMAIN sides }
    IN  /\ lgPhase = "channels"
        /\ lgChannels' = Overlay(lgChannels,
                [ n \in to |-> SelectSeq(sides, LAMBDA c : c.destination = n) ])
        /\ lgPhase' = "channel"
        /\ UNCHANGED << lgResults, lgNodes, lgNode, lgChannel, lgAnswer, lgUpdates, lgReported >>

StoreChannelInfos ==
    LET sides == SidesOf(AllChannels(lgResults))
        ids == { sides[i].scid : i \in DOMAIN sides }
    IN  /\ lgPhase = "channel"
        /\ lgChannel' = Overlay(lgChannel,
                [ c \in ids |-> SelectSeq(sides, LAMBDA x : x.scid = c) ])
        /\ lgNodes' = MergedNodes(lgResults)
        /\ lgPhase' = "idle"
        /\ UNCHANGED << lgResults, lgNode, lgChannels, lgAnswer, lgUpdates, lgReported >>

\* Writing to the cache fails: the rest of the update is given up.
StoreFails ==
    /\ lgPhase # "idle"
    /\ lgPhase' = "idle"
    /\ UNCHANGED << lgResults, lgNodes, lgNode, lgChannel, lgChannels, lgAnswer, lgUpdates,
                    lgReported >>

Without(f, k) == [ x \in DOMAIN f \ { k } |-> f[x] ]

GossipExpires ==
    /\ \/ \E n \in DOMAIN lgNode : lgNode' = Without(lgNode, n) /\ UNCHANGED << lgChannel, lgChannels >>
       \/ \E c \in DOMAIN lgChannel : lgChannel' = Without(lgChannel, c) /\ UNCHANGED << lgNode, lgChannels >>
       \/ \E n \in DOMAIN lgChannels : lgChannels' = Without(lgChannels, n) /\ UNCHANGED << lgNode, lgChannel >>
    /\ UNCHANGED << lgPhase, lgResults, lgNodes, lgAnswer, lgUpdates, lgReported >>

-----------------------------------------------------------------------------
(* The endpoints.                                                           *)

\* decode_node
DecodeNode(n) == n # "malformed"

Lookup(f, k) == IF k \in DOMAIN f THEN Found(f[k]) ELSE NotFound

GetNodeInfo(n) == IF DecodeNode(n) THEN Lookup(lgNode, n) ELSE BadRequest
GetChannels(n) == IF DecodeNode(n) THEN Lookup(lgChannels, n) ELSE BadRequest

\* get_channel: an id in the format of LND is converted first.
GetChannel(q) == Lookup(lgChannel, IF q.format = "lnd" THEN ScidLndToCln(q.number) ELSE q.scid)

\* find_node_by_alias: here the alias as a whole.
FindNodeByAlias(alias) ==
    IF lgNodes = NoGraph THEN NotFound
    ELSE Found({ n \in { lgNodes[i] : i \in DOMAIN lgNodes } : n.alias = alias })

AskGraph(q) ==
    /\ lgAnswer' = CASE q.kind = "node" -> GetNodeInfo(q.node)
                     [] q.kind = "channels" -> GetChannels(q.node)
                     [] q.kind = "channel" -> GetChannel(q)
                     [] q.kind = "search" -> FindNodeByAlias(q.alias)
    /\ UNCHANGED << lgPhase, lgResults, lgNodes, lgNode, lgChannel, lgChannels, lgUpdates,
                    lgReported >>

LgNext ==
    \/ FetchGossip \/ StoreNodes \/ StoreByDestination \/ StoreChannelInfos
    \/ StoreFails \/ GossipExpires
    \/ \E q \in LgQueries : AskGraph(q)

LgSpec == LgInit /\ [][LgNext]_lgVars

\* The type of the stored graph.
LgTypeOK ==
    /\ lgPhase \in { "idle", "nodes", "channels", "channel" }
    /\ lgUpdates \in 0 .. MaxUpdates
    /\ lgAnswer.status \in { 200, 400, 404 }

-----------------------------------------------------------------------------
PublicSides ==
    UNION { { [ scid |-> c.scid, source |-> c.source, destination |-> c.destination,
                policy |-> c.policy ] : c \in { x \in ToSet(g.channels) : x.public } } :
            g \in LgClnGossip }
    \cup UNION { UNION { ToSet(LndSide(e, e.node1, e.node2, e.policy1))
                         \cup ToSet(LndSide(e, e.node2, e.node1, e.policy2)) :
                         e \in ToSet(g.edges) } : g \in LgLndGossip }

\* Everything that is served about a channel is a public side that a source reported,
\* under the id and the destination it has; a channel of CLN that is not announced is
\* never served, by whatever combination of sources, failures and expiries.
OnlyPublicIsServed ==
    /\ \A n \in DOMAIN lgChannels : \A c \in ToSet(lgChannels[n]) :
        c \in lgReported \cap PublicSides /\ c.destination = n
    /\ \A id \in DOMAIN lgChannel : \A c \in ToSet(lgChannel[id]) :
        c \in lgReported \cap PublicSides /\ c.scid = id

\* A channel is served with one policy per side, although CLN and the LNDs report the
\* same channel under ids of different formats.
OnePolicyPerSide ==
    \A id \in DOMAIN lgChannel :
        \A i, j \in DOMAIN lgChannel[id] :
            lgChannel[id][i].source = lgChannel[id][j].source => i = j

\* Only announced channels are served, with one policy for each side.
GraphIsSound == OnlyPublicIsServed /\ OnePolicyPerSide
=============================================================================
