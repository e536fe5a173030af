----------------------------- MODULE SwapRescue -----------------------------
(***************************************************************************)
(* Finding the swaps of a client again from its keys                       *)
(* (boltzr/src/service/rescue.rs).  The keys come from an extended public  *)
(* key, a list or a single key (pubkey_iterator.rs).  They are derived and *)
(* looked up a gap limit at a time until none of a chunk belongs to a      *)
(* swap; new swaps are created between two queries.  rescue and restore    *)
(* return the swaps, index the highest key index, which is cached.         *)
(***************************************************************************)
EXTENDS Integers, FiniteSets, FiniteSetsExt

CONSTANTS
    SrSwaps,        \* swaps that may be created
    SrCalls,        \* requests to the API
    SrRequest,      \* call -> [op, it, page]
    IndexLimit,     \* keys of one derivation path: 2^31
    IndexWidth,     \* values of an index: 2^32
    MaxGapLimit, MaxPageLimit

ASSUME SrAssumption ==
    /\ IndexLimit \in Nat /\ IndexWidth \in Nat /\ IndexLimit < IndexWidth
    /\ DOMAIN SrRequest = SrCalls

VARIABLES
    srDb,       \* swaps of the database
    srCache,    \* identifier -> cached highest index, or NoIndex
    srCall,     \* call -> [at, from, last, keys, found, start]
    srBase      \* call -> swaps of the database when it came in

srVars == << srDb, srCache, srCall, srBase >>

\* A swap: [kind, refund, claim, evm, wallet].  refund and claim are the keys of
\* the client, evm that it claims with an address, wallet that its currency is
\* configured.  A key is a pair of a derivation path and an index.
NoKey == << "none", -1 >>
NoIndex == -1
NoPage == << -1, -1 >>

It(c) == SrRequest[c].it
Page(c) == SrRequest[c].page
\* Only restore pages.
Paged(c) == SrRequest[c].op = "restore" /\ Page(c) # NoPage

\* The cache key of index.
identifier(it) == << it.kind, it.id >>
Identifiers == { identifier(It(c)) : c \in SrCalls }

SrInit ==
    /\ srDb = {} /\ srCache = [i \in Identifiers |-> NoIndex]
    /\ srCall = [c \in SrCalls |-> [at |-> "new", from |-> 0, last |-> 0, keys |-> {},
                                    found |-> {}, start |-> NoIndex]]
    /\ srBase = [c \in SrCalls |-> {}]

-----------------------------------------------------------------------------
(* The iterators.                                                          *)

max_keys(it) ==
    CASE it.kind = "xpub" -> IndexWidth - 1
      [] it.kind = "keys" -> Cardinality(DOMAIN it.keys)
      [] it.kind = "single" -> 1

gap_limit(it) == IF it.kind = "xpub" THEN it.gap ELSE max_keys(it)

\* A mutant: only the keys that are looked up are added to the map.
UnbufferedEnd(from, to) == to

\* As many keys again, for swaps with a second key.
buffered_end(from, to) == Min({ to + (to - from), IndexWidth - 1 })

\* Pairs of a key and its index, from from up to but not including last.
Derived(it, from, last) ==
    CASE it.kind = "xpub" -> { << << it.path, i >>, i >> : i \in from .. last - 1 }
      [] it.kind = "keys" -> { << it.keys[i + 1], i >> :
                               i \in from .. Min({ last, max_keys(it) }) - 1 }
      [] it.kind = "single" -> { << it.keys[1], 0 >> }

\* An end that overflowed, and keys past the last one, are an error.
DeriveFails(it, from, to) ==
    it.kind # "single" /\ \/ to < from
                          \/ it.kind = "xpub" /\ buffered_end(from, to) > IndexLimit

Mapped(keys, key) == \E e \in keys : e[1] = key
Lookup(keys, key) == IF Mapped(keys, key) THEN (CHOOSE e \in keys : e[1] = key)[2]
                                          ELSE NoIndex

-----------------------------------------------------------------------------
(* One chunk.                                                              *)

\* The swaps of the queries.  rescue is not about reverse swaps.
Matches(op, keys) ==
    { s \in srDb : /\ Mapped(keys, s.refund) \/ Mapped(keys, s.claim)
                   /\ op = "rescue" => s.kind # "reverse" }

\* process_rescuable_swaps and process_restorable_swaps.
Skipped(op, s) == op = "rescue" /\ s.kind = "chain" /\ s.refund = NoKey
ProcessFails(op, keys, s) ==
    ~Skipped(op, s) /\ \/ ~s.wallet /\ ~(s.kind = "reverse" /\ s.evm)
                       \/ op = "rescue" /\ ~Mapped(keys, s.refund)
Details(op, keys, s) ==
    [swap |-> s, refund |-> Lookup(keys, s.refund),
     claim |-> IF op = "rescue" \/ s.evm THEN NoIndex ELSE Lookup(keys, s.claim)]

\* The result is a map from the swap's id: a later chunk replaces an entry.
Inserted(found, new) ==
    new \cup { e \in found : \A n \in new : n.swap # e.swap }

\* Without a page the first empty chunk ends the scan.
ScanEnds(c, matches, to) ==
    \/ matches = {} /\ ~Paged(c)
    \/ to >= srCall[c].last \/ to >= max_keys(It(c))

ScanChunk(c) ==
    LET it == It(c)
        op == SrRequest[c].op
        from == srCall[c].from
        to == Min({ (from + gap_limit(it)) % IndexWidth, srCall[c].last })
        keys == srCall[c].keys \cup Derived(it, from, buffered_end(from, to))
        matches == Matches(op, Derived(it, from, to))
        failed == DeriveFails(it, from, to) \/ \E s \in matches : ProcessFails(op, keys, s)
        new == { Details(op, keys, s) : s \in { m \in matches : ~Skipped(op, m) } }
    IN  /\ srCall[c].at = "scanning"
        /\ srCall' = [srCall EXCEPT ![c] =
             IF failed THEN [@ EXCEPT !.at = "failed"]
             ELSE [@ EXCEPT !.keys = keys, !.from = to, !.found = Inserted(@, new),
                            !.at = IF ScanEnds(c, matches, to) THEN "scanned" ELSE "scanning"]]
        /\ UNCHANGED << srDb, srCache, srBase >>

-----------------------------------------------------------------------------
(* The requests.                                                           *)

\* The bounds of gapLimit and of the page, and the end of the page overflowing.
BadRequest(c) ==
    \/ It(c).kind = "xpub" /\ It(c).gap \notin 1 .. MaxGapLimit
    \/ Page(c) # NoPage /\ \/ Page(c)[2] \notin 1 .. MaxPageLimit
                           \/ Page(c)[1] + Page(c)[2] >= IndexWidth

\* Bound: a behaviour has several requests only when they are of index.  The others
\* share nothing that any of them writes.
Interact(c, d) == SrRequest[c].op = "index" /\ SrRequest[d].op = "index"

\* index goes on after the cached index.
Resume(start) == start + 1

ScanStarts(c) ==
    LET start == IF SrRequest[c].op = "index" THEN srCache[identifier(It(c))] ELSE NoIndex
        from == IF Paged(c) THEN Page(c)[1] ELSE Resume(start)
        last == IF Paged(c) THEN Page(c)[1] + Page(c)[2] ELSE max_keys(It(c))
    IN  /\ srCall[c].at = "new"
        /\ \A d \in SrCalls \ { c } : srCall[d].at # "new" => Interact(c, d)
        /\ srCall' = [srCall EXCEPT ![c] =
             [@ EXCEPT !.at = IF BadRequest(c) THEN "failed"
                              ELSE IF gap_limit(It(c)) = 0 \/ from >= last THEN "scanned"
                              ELSE "scanning",
                       !.from = from, !.last = last, !.start = start]]
        /\ srBase' = [srBase EXCEPT ![c] = srDb]
        /\ UNCHANGED << srDb, srCache >>

\* The highest index of the swaps the scan found.
Highest(c) == Max({ NoIndex } \cup UNION { { e.refund, e.claim } : e \in srCall[c].found })

\* rescue and restore return what the scan found.  index stores the highest index
\* in the cache; when there is none it returns the one it started from.
CallReturnsScan(c) ==
    /\ srCall[c].at = "scanned"
    /\ srCall' = [srCall EXCEPT ![c].at = "done"]
    /\ srCache' = IF SrRequest[c].op = "index" /\ Highest(c) # NoIndex
                  THEN [srCache EXCEPT ![identifier(It(c))] = Highest(c)] ELSE srCache
    /\ UNCHANGED << srDb, srBase >>

\* A client creates a swap.
SwapIsCreated(s) ==
    /\ s \in SrSwaps \ srDb /\ srDb' = srDb \cup { s }
    /\ UNCHANGED << srCache, srCall, srBase >>

SrNext ==
    \/ \E c \in SrCalls : ScanStarts(c) \/ ScanChunk(c) \/ CallReturnsScan(c)
    \/ \E s \in SrSwaps : SwapIsCreated(s)

SrSpec == SrInit /\ [][SrNext]_srVars

-----------------------------------------------------------------------------
\* What index returns.
IndexAnswer(c) == IF Highest(c) # NoIndex THEN Highest(c) ELSE srCall[c].start

ScanDone(c) == srCall[c].at = "done"
FoundSwaps(c) == { e.swap : e \in srCall[c].found }
KeysOf(s) == { s.refund, s.claim } \ { NoKey }

\* The reference definition of a gap limit: the indices of the swaps that were
\* there when the call came in, without a run of unused ones before them that is
\* as long as the limit.
UsedIndices(c) ==
    LET swaps == { s \in srBase[c] : SrRequest[c].op = "rescue" => s.kind # "reverse" }
    IN  { k[2] : k \in { key \in UNION { KeysOf(s) : s \in swaps } :
                         key[1] = It(c).path /\ key[2] < IndexLimit } }
WithinGaps(c) ==
    LET used == UsedIndices(c)
    IN  { k \in used :
            \A i \in 0 .. k - It(c).gap : used \cap i .. i + It(c).gap - 1 # {} }

\* The keys of a call are mapped to their own indices, and what it found is in the
\* database, found by one of these keys.
SrTypeOK ==
    \A c \in SrCalls :
      /\ Cardinality({ e[1] : e \in srCall[c].keys }) = Cardinality(srCall[c].keys)
      /\ FoundSwaps(c) \subseteq srDb
      /\ Cardinality(FoundSwaps(c)) = Cardinality(srCall[c].found)
      /\ \A e \in srCall[c].found : \E k \in srCall[c].keys : k[1] \in KeysOf(e.swap)

\* A scan by an extended key returns every swap a gap limit promises: no swap is
\* missed although chunks are a gap limit long and swaps are created while the
\* scan is under way, and the details of a swap with two keys name both.
ScanIsComplete ==
    \A c \in SrCalls :
      (/\ ScanDone(c) /\ It(c).kind = "xpub" /\ ~Paged(c)
       /\ SrRequest[c].op \in { "rescue", "restore" }) =>
        \A s \in srBase[c], k \in WithinGaps(c) :
          (/\ << It(c).path, k >> \in KeysOf(s)
           /\ ~Skipped(SrRequest[c].op, s)
           /\ SrRequest[c].op = "rescue" => s.kind # "reverse") =>
            \E e \in srCall[c].found :
              /\ e.swap = s
              /\ s.refund = << It(c).path, k >> => e.refund = k
              /\ (s.claim = << It(c).path, k >> /\ SrRequest[c].op = "restore")
                   => e.claim = k

\* A page has every swap with a key in it, however many unused keys come first.
PageIsComplete ==
    \A c \in SrCalls :
      (ScanDone(c) /\ It(c).kind = "xpub" /\ Paged(c)) =>
        \A s \in srBase[c], i \in Page(c)[1] .. Page(c)[1] + Page(c)[2] - 1 :
          << It(c).path, i >> \in KeysOf(s) => s \in FoundSwaps(c)

\* "Add extra keys to the map to avoid keys not being found because of the gap limit
\* for swaps with multiple keys": a request with an extended key does not fail
\* because of a swap whose two keys are less than a gap limit apart.
ScanDoesNotFail ==
    \A c \in SrCalls :
      (srCall[c].at = "failed" /\ It(c).kind = "xpub") =>
        \/ BadRequest(c)
        \/ srCall[c].from + 2 * It(c).gap > IndexLimit
        \/ \E s \in srDb : \/ ~s.wallet
                           \/ s.kind = "chain" /\ s.refund[2] >= s.claim[2] + It(c).gap

\* The index that is returned covers every key that was in use when the request
\* came in, also when the scan starts at an index that another call cached.
IndexCoversUsed ==
    \A c \in SrCalls :
      (ScanDone(c) /\ SrRequest[c].op = "index" /\ It(c).kind = "xpub") =>
        \A k \in WithinGaps(c) : k <= IndexAnswer(c)

\* A scan by an extended key, a page of it and the index found by it miss no swap and
\* no key, and fail only for the reasons the code gives.
ScanIsExact == ScanIsComplete /\ PageIsComplete /\ ScanDoesNotFail /\ IndexCoversUsed
=============================================================================
