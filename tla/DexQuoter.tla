----------------------------- MODULE DexQuoter -----------------------------
(***************************************************************************)
(* Quotes for swaps of tokens on an EVM chain (boltz-evm/src/quoter), and  *)
(* their endpoints (api/quoter.rs): the Uniswap V3 quoter looks up which   *)
(* pools exist, through a cache, asks the quoter contract for the price of *)
(* every route over them and answers with the best one; a client then has  *)
(* the route encoded as calls to the universal router.                     *)
(*                                                                         *)
(* The factory, the quoter contract and the router are external.  The      *)
(* price of a pool is a fraction per direction that does not change, so    *)
(* that a quote can be compared with what its calls do; pools are created  *)
(* and never removed, and single calls of a multicall can fail.            *)
(***************************************************************************)
EXTENDS Integers, Sequences, SequencesExt, FiniteSetsExt

CONSTANTS
    DqPools,        \* the pools that can exist: set of [pair, fee]
    DqRate,         \* << token in, token out, fee >> -> [num, den]
    LiquidTokens,   \* the tokens routes may go through
    Weth,           \* the wrapped native token
    DqRequests,     \* the quotes asked for: [kind, in, out, amount]
    DqQuoters,      \* the quoters configured for the currency
    MaxQuotes       \* bound on the quotes asked for

VARIABLES
    dqPools,    \* the pools of the chain
    dqCache,    \* pair -> the fees of its pools; a pair that is not cached is absent
    dqReq,      \* the quote that is being made
    dqAnswer,   \* the last quotes answered, in the order of the response
    dqCalls,    \* the last calls encoded, with the quote they are for
    dqAsked     \* the quotes asked for so far

dqVars == << dqPools, dqCache, dqReq, dqAnswer, dqCalls, dqAsked >>

NativeToken == "ether"
NoQuote == [ phase |-> "idle" ]

DqInit ==
    /\ dqPools \in SUBSET DqPools
    /\ dqCache = [ p \in {} |-> {} ] /\ dqReq = NoQuote
    /\ dqAnswer = << >> /\ dqCalls = << >> /\ dqAsked = 0

-----------------------------------------------------------------------------
(* Routes.  A route is [tokenIn, hops], a hop is [fee, token].              *)

\* TokenPair: the order of the tokens does not matter.
TokenPair(a, b) == { a, b }

HandleEth(token) == IF token = NativeToken THEN Weth ELSE token

\* The tokens of a route, in order.
RouteTokens(d) == << d.tokenIn >> \o [ i \in DOMAIN d.hops |-> d.hops[i].token ]

\* Data::reverse
ReverseRoute(d) ==
    LET tokens == Reverse(RouteTokens(d))
        fees == Reverse([ i \in DOMAIN d.hops |-> d.hops[i].fee ])
    IN  [ tokenIn |-> tokens[1],
          hops |-> [ i \in DOMAIN fees |-> [ fee |-> fees[i], token |-> tokens[i + 1] ] ] ]

\* Data::normalize: the first and the last token as the client named them.
NormalizeRoute(d, in, out) ==
    [ tokenIn |-> in, hops |-> [ d.hops EXCEPT ![Len(d.hops)].token = out ] ]

\* PathEncoder: tokens and fees in turn; a fee has 24 bits.
FeeFits(hops) == \A i \in DOMAIN hops : hops[i].fee <= 16777215
Path(d) == [ tokens |-> RouteTokens(d), fees |-> [ i \in DOMAIN d.hops |-> d.hops[i].fee ] ]

\* The pairs a quote looks up.
Lookups(in, out) ==
    { TokenPair(in, out) } \cup
    UNION { { TokenPair(in, t), TokenPair(t, out) } : t \in LiquidTokens \ { in, out } }

\* generate_routes: direct, or through one liquid token.
GenerateRoutes(in, out, pools) ==
    LET fees(p) == IF p \in DOMAIN pools THEN pools[p] ELSE {}
    IN  { [ tokenIn |-> in, hops |-> << [ fee |-> f, token |-> out ] >> ] :
            f \in fees(TokenPair(in, out)) }
        \cup UNION { { [ tokenIn |-> in, hops |-> << [ fee |-> f[1], token |-> t ],
                                                     [ fee |-> f[2], token |-> out ] >> ] :
                         f \in fees(TokenPair(in, t)) \X fees(TokenPair(t, out)) } :
                     t \in LiquidTokens \ { in, out } }

-----------------------------------------------------------------------------
(* The contracts.                                                           *)

PoolExists(a, b, fee) == [ pair |-> TokenPair(a, b), fee |-> fee ] \in dqPools

HopOut(a, b, fee, amount) == (amount * DqRate[a, b, fee].num) \div DqRate[a, b, fee].den
CeilOf(a, b) == (a + b - 1) \div b
HopIn(a, b, fee, amount) == CeilOf(amount * DqRate[a, b, fee].den, DqRate[a, b, fee].num)

PathExists(p) == \A i \in DOMAIN p.fees : PoolExists(p.tokens[i], p.tokens[i + 1], p.fees[i])

\* What comes out at the end of a path.
PathOut(p, amount) ==
    FoldLeftDomain(LAMBDA x, i : HopOut(p.tokens[i], p.tokens[i + 1], p.fees[i], x),
                   amount, p.fees)

\* quoteExactInput
QuoteExactInput(p, amount) == IF PathExists(p) THEN { PathOut(p, amount) } ELSE {}

\* quoteExactOutput: the path is given from the output to the input.
QuoteExactOutput(p, amount) ==
    IF PathExists(p)
    THEN { FoldLeftDomain(LAMBDA x, i : HopIn(p.tokens[i + 1], p.tokens[i], p.fees[i], x),
                          amount, p.fees) }
    ELSE {}

-----------------------------------------------------------------------------
(* A quote.                                                                 *)

\* quote_input and quote_output of the aggregator: nothing to quote for zero, and
\* no quoter means no quote.
AskQuote(r) ==
    /\ dqReq.phase = "idle" /\ dqAsked < MaxQuotes
    /\ dqAsked' = dqAsked + 1
    /\ IF r.amount = 0 \/ DqQuoters = {}
       THEN dqAnswer' = << >> /\ UNCHANGED dqReq
       ELSE /\ dqReq' = [ phase |-> "lookup", ask |-> r, pools |-> << >>, missing |-> {} ]
            /\ UNCHANGED dqAnswer
    /\ UNCHANGED << dqPools, dqCache, dqCalls >>

\* lookup_relevant_pools, first part: what the cache has.  An empty entry says that
\* the pair has no pool.
LookupCached ==
    LET pairs == Lookups(HandleEth(dqReq.ask.in), HandleEth(dqReq.ask.out))
        cached == pairs \cap DOMAIN dqCache
    IN  /\ dqReq.phase = "lookup"
        /\ dqReq' = [ dqReq EXCEPT
                        !.pools = [ p \in { q \in cached : dqCache[q] # {} } |-> dqCache[p] ],
                        !.missing = pairs \ cached,
                        !.phase = IF pairs \ cached = {} THEN "routes" ELSE "discover" ]
        /\ UNCHANGED << dqPools, dqCache, dqAnswer, dqCalls, dqAsked >>

\* Second part: the factory is asked for the others, and what it says is cached for an
\* hour; a call that failed counts as a pool that does not exist.
DiscoverPools ==
    /\ dqReq.phase = "discover"
    /\ \E failed \in SUBSET { p \in dqPools : p.pair \in dqReq.missing } :
        LET fees == [ q \in dqReq.missing |->
                        { p.fee : p \in { x \in dqPools \ failed : x.pair = q } } ]
        IN  /\ dqCache' = [ q \in DOMAIN dqCache \cup dqReq.missing |->
                                IF q \in dqReq.missing THEN fees[q] ELSE dqCache[q] ]
            /\ dqReq' = [ dqReq EXCEPT
                            !.pools = [ q \in DOMAIN dqReq.pools \cup
                                              { x \in dqReq.missing : fees[x] # {} } |->
                                            IF q \in dqReq.missing THEN fees[q]
                                            ELSE dqReq.pools[q] ],
                            !.phase = "routes" ]
    /\ UNCHANGED << dqPools, dqAnswer, dqCalls, dqAsked >>

\* The multicall or the cache fails: the quoter has no quote, and the aggregator
\* leaves it out.
QuoteFails ==
    /\ dqReq.phase # "idle"
    /\ dqReq' = NoQuote /\ dqAnswer' = << >>
    /\ UNCHANGED << dqPools, dqCache, dqCalls, dqAsked >>

\* The prices of the routes that the quoter contract answered.
Prices(r, routes) ==
    UNION { { << d, q >> : q \in IF r.kind = "input"
                                 THEN QuoteExactInput(Path(d), r.amount)
                                 ELSE QuoteExactOutput(Path(ReverseRoute(d)), r.amount) } :
            d \in routes }

\* UniswapV3::quote_input: the most that comes out.
BestInput(prices) == { x \in prices : \A y \in prices : y[2] <= x[2] }

\* UniswapV3::quote_output: the least that has to go in.
BestOutput(prices) == { x \in prices : \A y \in prices : y[2] >= x[2] }

QuoteRoutes ==
    LET r == dqReq.ask
    IN  /\ dqReq.phase = "routes"
        /\ \E answered \in SUBSET GenerateRoutes(HandleEth(r.in), HandleEth(r.out), dqReq.pools) :
            LET prices == Prices(r, answered)
                best == IF r.kind = "input" THEN BestInput(prices) ELSE BestOutput(prices)
            IN  IF best = {} THEN dqAnswer' = << >>
                ELSE \E b \in best :
                        dqAnswer' = << [ ask |-> r, quote |-> b[2],
                                         data |-> NormalizeRoute(b[1], r.in, r.out) ] >>
        /\ dqReq' = NoQuote
        /\ UNCHANGED << dqPools, dqCache, dqCalls, dqAsked >>

\* A pool is created.
CreatePool(p) ==
    /\ p \notin dqPools
    /\ dqPools' = dqPools \cup { p }
    /\ UNCHANGED << dqCache, dqReq, dqAnswer, dqCalls, dqAsked >>

\* The TTL of a cached pair is over.
PairExpires(p) ==
    /\ dqCache' = [ q \in DOMAIN dqCache \ { p } |-> dqCache[q] ]
    /\ UNCHANGED << dqPools, dqReq, dqAnswer, dqCalls, dqAsked >>

-----------------------------------------------------------------------------
(* Encoding.  A call is the operations it does, in order.                   *)

V3SwapExactIn(recipient, amountIn, outMin, path) ==
    [ op |-> "swap", to |-> recipient, amount |-> amountIn, min |-> outMin, path |-> path ]
WrapEther(amount) == [ op |-> "wrap", amount |-> amount ]
UnwrapEther(recipient, amount) == [ op |-> "unwrap", to |-> recipient, min |-> amount ]
Transfer(token, amount) == [ op |-> "transfer", token |-> token, amount |-> amount ]
Value(amount) == [ op |-> "value", amount |-> amount ]

\* Router::encode
Encode(d, recipient, amountIn, outMin) ==
    LET etherIn == d.tokenIn = NativeToken
        etherOut == Last(d.hops).token = NativeToken
        wrapped == [ tokenIn |-> HandleEth(d.tokenIn),
                     hops |-> [ i \in DOMAIN d.hops |->
                                [ d.hops[i] EXCEPT !.token = HandleEth(@) ] ] ]
    IN  (IF etherIn THEN << Value(amountIn), WrapEther(amountIn) >>
         ELSE << Transfer(d.tokenIn, amountIn) >>)
        \o << V3SwapExactIn(IF etherOut THEN "router" ELSE recipient, amountIn, outMin,
                            Path(wrapped)) >>
        \o (IF etherOut THEN << UnwrapEther(recipient, outMin) >> ELSE << >>)

\* POST /encode for the route of a quote, with the amounts of the quote.
EncodeQuote ==
    /\ dqAnswer # << >>
    /\ LET a == dqAnswer[1]
           amountIn == IF a.ask.kind = "input" THEN a.ask.amount ELSE a.quote
           outMin == IF a.ask.kind = "input" THEN a.quote ELSE a.ask.amount
       IN  /\ FeeFits(a.data.hops)
           /\ dqCalls' = << [ answer |-> a, ops |-> Encode(a.data, "client", amountIn, outMin) ] >>
    /\ UNCHANGED << dqPools, dqCache, dqReq, dqAnswer, dqAsked >>

-----------------------------------------------------------------------------
DqNext ==
    \/ \E r \in DqRequests : AskQuote(r)
    \/ LookupCached
    \/ DiscoverPools
    \/ QuoteRoutes
    \/ QuoteFails
    \/ \E p \in DqPools : CreatePool(p)
    \/ \E p \in DOMAIN dqCache : PairExpires(p)
    \/ EncodeQuote

DqSpec == DqInit /\ [][DqNext]_dqVars

\* The type of the quotes and of the cache of pools.
DqTypeOK ==
    /\ dqPools \subseteq DqPools /\ dqAsked \in 0 .. MaxQuotes
    /\ dqReq.phase \in { "idle", "lookup", "discover", "routes" }
    /\ Len(dqAnswer) <= 1

(* What the router does with the calls: the balances of the router and of   *)
(* the client's address, and whether everything went through.               *)

DqTokens == UNION { p.pair : p \in DqPools } \cup { NativeToken }
Empty == [ t \in DqTokens |-> 0 ]
Add(b, t, n) == [ b EXCEPT ![t] = @ + n ]

Step(s, c) ==
    CASE c.op = "transfer" -> [ s EXCEPT !.router = Add(@, c.token, c.amount) ]
      [] c.op = "value" -> [ s EXCEPT !.router = Add(@, NativeToken, c.amount) ]
      [] c.op = "wrap" ->
            [ s EXCEPT !.router = Add(Add(@, NativeToken, - c.amount), Weth, c.amount),
                       !.ok = @ /\ s.router[NativeToken] >= c.amount ]
      [] c.op = "swap" ->
            LET out == IF PathExists(c.path) THEN PathOut(c.path, c.amount) ELSE -1
                paid == Add(s.router, c.path.tokens[1], - c.amount)
            IN  [ router |-> IF c.to = "router" THEN Add(paid, Last(c.path.tokens), out)
                                                ELSE paid,
                  client |-> IF c.to = "router" THEN s.client
                             ELSE Add(s.client, Last(c.path.tokens), out),
                  ok |-> s.ok /\ out >= c.min /\ paid[c.path.tokens[1]] >= 0 ]
      [] c.op = "unwrap" ->
            [ router |-> Add(s.router, Weth, - s.router[Weth]),
              client |-> Add(s.client, NativeToken, s.router[Weth]),
              ok |-> s.ok /\ s.router[Weth] >= c.min ]

Executed(ops) == FoldLeft(Step, [ router |-> Empty, client |-> Empty, ok |-> TRUE ], ops)

\* The calls encoded for a quote do what was quoted: they go through with the quote as
\* the least that may come out, deliver the token that was asked for to the client,
\* and leave nothing in the router; although the pools of the route come from a cache,
\* prices for an exact output are asked for over the reversed route, and the native
\* token is wrapped on the way.
QuoteIsDelivered ==
    \A i \in DOMAIN dqCalls :
        LET a == dqCalls[i].answer
            done == Executed(dqCalls[i].ops)
        IN  /\ done.ok
            /\ done.router = Empty
            /\ \A t \in DqTokens \ { a.ask.out } : done.client[t] = 0
            /\ IF a.ask.kind = "input" THEN done.client[a.ask.out] = a.quote
                                       ELSE done.client[a.ask.out] >= a.ask.amount

\* The cache names only pools that exist.
CachedPoolsExist ==
    \A q \in DOMAIN dqCache : \A f \in dqCache[q] : [ pair |-> q, fee |-> f ] \in dqPools

\* What is encoded delivers what was quoted, and the pools of the cache exist.
QuotesAreSound == QuoteIsDelivered /\ CachedPoolsExist
=============================================================================
