---------------------------- MODULE StatsService ----------------------------
(***************************************************************************)
(* The historical statistics of a pair and the markings of countries: the  *)
(* stats endpoint (api/stats.rs) with its fetcher and the cached           *)
(* Prometheus client (service/pair_stats.rs, service/prometheus.rs), and   *)
(* the ranges of addresses service/country_codes.rs loads at the start.    *)
(*                                                                         *)
(* A query is the record its text is made from, the values of a series are *)
(* the point of time they were read at.  Addresses are numbers.            *)
(***************************************************************************)
EXTENDS Integers, FiniteSetsExt

CONSTANTS
    PsHistorical,   \* the historical data is configured
    PsSeries,       \* query -> how many series Prometheus has for it
    PsRequests,     \* the requests: [referral, kind, pair]
    PsCountries,    \* the countries to mark
    PsRows,         \* the rows of the address files: [start, end, country]
    PsAddresses,    \* the addresses that are looked up
    MaxPsClock      \* bound on the time

VARIABLES
    psRanges,   \* country -> ranges
    psStarted,  \* the service has started
    psCache,    \* key of a query -> the result that is cached
    psNow,      \* the time
    psMarked,   \* the last marking: the addresses it was asked for and is true of
    psAnswer    \* the last answer: [request, status, fee, maximalRoutingFee]

psVars == << psRanges, psStarted, psCache, psNow, psMarked, psAnswer >>

ProReferral == "pro"
SwapTypes == { "submarine", "reverse", "chain" }
NoKind == "none"
NoRequest == [ referral |-> "", kind |-> NoKind, pair |-> "" ]

PsInit ==
    /\ psRanges = [ c \in {} |-> {} ] /\ psStarted = FALSE
    /\ psCache = [ k \in {} |-> 0 ] /\ psNow = 1
    /\ psMarked = {}
    /\ psAnswer = [ request |-> NoRequest, status |-> 0, fee |-> {},
                    maximalRoutingFee |-> {} ]

-----------------------------------------------------------------------------
(* Countries.                                                               *)

\* CountryCodes::update: the rows of the configured countries.
CountryRanges ==
    [ c \in { r.country : r \in PsRows } \cap PsCountries |->
        { r \in PsRows : r.country = c } ]

\* Service::start
StartService ==
    /\ ~psStarted
    /\ psStarted' = TRUE
    /\ psRanges' = CountryRanges
    /\ UNCHANGED << psCache, psNow, psMarked, psAnswer >>

\* is_relevant
IsRelevant(address) ==
    \E c \in DOMAIN psRanges : \E r \in psRanges[c] : address \in r.start .. r.end

AskMarking(address) ==
    /\ psMarked' = IF IsRelevant(address) THEN { address } ELSE {}
    /\ UNCHANGED << psRanges, psStarted, psCache, psNow, psAnswer >>

-----------------------------------------------------------------------------
(* Statistics.                                                              *)

PairFeesQuery(r) ==
    [ metric |-> "pair_fees", pair |-> r.pair, kind |-> r.kind, referral |-> r.referral ]
MaxRoutingFeeQuery(r) ==
    [ metric |-> "pair_max_routing_fee", pair |-> r.pair, kind |-> NoKind,
      referral |-> r.referral ]

\* Mutant: the key of the cache leaves out the kind of the swap.
GetCacheKeyOfPair(q) == [ q EXCEPT !.kind = NoKind ]

\* get_cache_key: the whole query and the step, not the start and the end.
GetCacheKey(q) == q

\* RawPrometheusClient::query: the series and the time they were read.
RawQuery(q) == [ query |-> q, at |-> psNow,
                 series |-> IF q \in DOMAIN PsSeries THEN PsSeries[q] ELSE 0 ]

\* CachedPrometheusClient::query
CachedQuery(q) ==
    IF GetCacheKey(q) \in DOMAIN psCache THEN psCache[GetCacheKey(q)] ELSE RawQuery(q)

\* fetch_fees: one series, or there is no information.
FetchFees(r) == LET res == CachedQuery(PairFeesQuery(r))
                IN  IF res.series = 1 THEN { res } ELSE {}

\* fetch_max_routing_fee: only for submarine swaps.
FetchMaxRoutingFee(r) ==
    IF r.kind # "submarine" THEN {}
    ELSE LET res == CachedQuery(MaxRoutingFeeQuery(r))
         IN  IF res.series = 1 THEN { res } ELSE {}

\* get_pair_stats: what it asks is cached.
QueriesOf(r) == { PairFeesQuery(r) } \cup
                (IF r.kind = "submarine" THEN { MaxRoutingFeeQuery(r) } ELSE {})
Stored(r) ==
    LET keys == { GetCacheKey(q) : q \in QueriesOf(r) }
    IN  [ k \in DOMAIN psCache \cup keys |->
            IF k \in DOMAIN psCache THEN psCache[k]
            ELSE CachedQuery(CHOOSE q \in QueriesOf(r) : GetCacheKey(q) = k) ]

Respond(r, status) ==
    psAnswer' = [ request |-> r, status |-> status, fee |-> {}, maximalRoutingFee |-> {} ]

\* get_stats
GetStats(r) ==
    /\ CASE r.referral # ProReferral \/ r.kind \notin SwapTypes ->
                Respond(r, 400) /\ UNCHANGED psCache
         [] r.referral = ProReferral /\ r.kind \in SwapTypes /\ ~PsHistorical ->
                Respond(r, 501) /\ UNCHANGED psCache
         [] OTHER ->
                /\ psCache' = Stored(r)
                /\ IF FetchFees(r) = {} THEN Respond(r, 404)
                   ELSE psAnswer' = [ request |-> r, status |-> 200, fee |-> FetchFees(r),
                                      maximalRoutingFee |-> FetchMaxRoutingFee(r) ]
    /\ UNCHANGED << psRanges, psStarted, psNow, psMarked >>

\* Prometheus cannot be reached or answers with an error.
StatsFail(r) ==
    /\ r.referral = ProReferral /\ r.kind \in SwapTypes /\ PsHistorical
    /\ Respond(r, 500)
    /\ UNCHANGED << psRanges, psStarted, psCache, psNow, psMarked >>

\* Time passes, and the TTL of some results is over.
PsTick ==
    /\ psNow < MaxPsClock
    /\ psNow' = psNow + 1
    /\ \E kept \in SUBSET DOMAIN psCache : psCache' = [ k \in kept |-> psCache[k] ]
    /\ UNCHANGED << psRanges, psStarted, psMarked, psAnswer >>

PsNext ==
    \/ StartService
    \/ \E a \in PsAddresses : AskMarking(a)
    \/ \E r \in PsRequests : GetStats(r) \/ StatsFail(r)
    \/ PsTick

PsSpec == PsInit /\ [][PsNext]_psVars

\* The type of the caches and of the country codes.
PsTypeOK ==
    /\ psStarted \in BOOLEAN /\ psNow \in 1 .. MaxPsClock
    /\ psAnswer.status \in { 0, 200, 400, 404, 500, 501 }
    /\ psMarked \subseteq PsAddresses
    /\ \A k \in DOMAIN psCache : psCache[k].at \in 1 .. psNow

\* Statistics that are answered are those of the pair, the kind of swap and the
\* referral of the request, whatever was asked and cached before; only submarine
\* swaps have a maximal routing fee.
StatsAreOfTheRequest ==
    /\ psAnswer.status = 200 =>
        \A x \in psAnswer.fee : x.query = PairFeesQuery(psAnswer.request)
    /\ \A x \in psAnswer.maximalRoutingFee :
        /\ psAnswer.request.kind = "submarine"
        /\ x.query = MaxRoutingFeeQuery(psAnswer.request)
=============================================================================
