---------------------------- MODULE SharedCache ----------------------------
(***************************************************************************)
(* The cache of boltz-cache that the services share: Redis, or a map in    *)
(* memory when none is configured.  Values are numbered in the order they  *)
(* are set.  Time moves in steps of the TTL's unit.                        *)
(*                                                                         *)
(* Redis runs every command atomically and drops a field when its TTL is   *)
(* over.  In memory an expired entry stays until someone finds it: get     *)
(* gives up the lock of the entry before it removes the key, and a task    *)
(* cleans up every minute.                                                 *)
(***************************************************************************)
EXTENDS Integers, FiniteSetsExt

CONSTANTS
    CaFields,   \* the keys and fields
    CaTasks,    \* who uses the cache
    CaTtls,     \* the TTLs in use, 0 for none
    MaxCaClock, \* bound on the time
    MaxCaSets   \* bound on the values set

VARIABLES
    caBackend,  \* "redis" or "memory"
    caMap,      \* field -> [value, expires]; NoEntry is no entry
    caNow,      \* the time
    caRemoving, \* task -> the field it found expired and is about to remove
    caGot,      \* task -> the value its last get returned, 0 for none
    caTaken,    \* << value, task >> of the values taken
    caSets,     \* the values set so far
    caLast,     \* history: field -> the entry set last, until it is taken or deleted
    caLost      \* history: values removed by a reader that had found an older one

caVars == << caBackend, caMap, caNow, caRemoving, caGot, caTaken, caSets, caLast, caLost >>

NoEntry == [ value |-> 0, expires |-> 0 ]
NoTtl == 0
NoField == "none"
Forever == MaxCaClock + 1

CaInit ==
    /\ caBackend \in { "redis", "memory" }
    /\ caMap = [ f \in CaFields |-> NoEntry ] /\ caNow = 1
    /\ caRemoving = [ t \in CaTasks |-> NoField ]
    /\ caGot = [ t \in CaTasks |-> 0 ]
    /\ caTaken = {} /\ caSets = 0
    /\ caLast = [ f \in CaFields |-> NoEntry ] /\ caLost = {}

IsExpired(e) == caNow >= e.expires
Has(f) == caMap[f] # NoEntry
Redis == caBackend = "redis"
Idle(t) == caRemoving[t] = NoField

-----------------------------------------------------------------------------
\* Cache::set: the value and its expiry are written together.
SetValue(f, ttl) ==
    LET e == [ value |-> caSets + 1,
               expires |-> IF ttl = NoTtl THEN Forever ELSE caNow + ttl ]
    IN  /\ caSets < MaxCaSets
        /\ caMap' = [ caMap EXCEPT ![f] = e ]
        /\ caLast' = [ caLast EXCEPT ![f] = e ]
        /\ caSets' = caSets + 1
        /\ UNCHANGED << caBackend, caNow, caRemoving, caGot, caTaken, caLost >>

\* Redis::set: HSET and HEXPIRE in one transaction.
RedisSet(f, ttl) == Redis /\ SetValue(f, ttl)

\* MemCache::set
MemSet(f, ttl) == ~Redis /\ SetValue(f, ttl)

\* Redis::get
RedisGet(t, f) ==
    /\ Redis
    /\ caGot' = [ caGot EXCEPT ![t] = caMap[f].value ]
    /\ UNCHANGED << caBackend, caMap, caNow, caRemoving, caTaken, caSets, caLast, caLost >>

\* MemCache::get.  An expired entry is not returned; the key is removed after the
\* reference to the entry was dropped.
MemGet(t, f) ==
    /\ ~Redis /\ Idle(t)
    /\ LET stale == Has(f) /\ IsExpired(caMap[f])
       IN  /\ caGot' = [ caGot EXCEPT ![t] = IF stale THEN 0 ELSE caMap[f].value ]
           /\ caRemoving' = [ caRemoving EXCEPT ![t] = IF stale THEN f ELSE NoField ]
    /\ UNCHANGED << caBackend, caMap, caNow, caTaken, caSets, caLast, caLost >>

MemGetRemoves(t) ==
    /\ ~Idle(t)
    /\ LET f == caRemoving[t]
       IN  /\ caLost' = IF Has(f) /\ ~IsExpired(caMap[f]) THEN caLost \cup { caMap[f].value }
                                                          ELSE caLost
           /\ caMap' = [ caMap EXCEPT ![f] = NoEntry ]
    /\ caRemoving' = [ caRemoving EXCEPT ![t] = NoField ]
    /\ UNCHANGED << caBackend, caNow, caGot, caTaken, caSets, caLast >>

\* Mutant: take reads the value and does not remove it.
TakeKeeps(t, f, v) ==
    /\ caGot' = [ caGot EXCEPT ![t] = v ]
    /\ caTaken' = IF v = 0 THEN caTaken ELSE caTaken \cup { << v, t >> }
    /\ caLast' = [ caLast EXCEPT ![f] = NoEntry ]
    /\ UNCHANGED << caBackend, caMap, caNow, caRemoving, caSets, caLost >>

\* Cache::take: v is returned and the entry removed.
TakeValue(t, f, v) ==
    /\ caGot' = [ caGot EXCEPT ![t] = v ]
    /\ caTaken' = IF v = 0 THEN caTaken ELSE caTaken \cup { << v, t >> }
    /\ caMap' = [ caMap EXCEPT ![f] = NoEntry ]
    /\ caLast' = [ caLast EXCEPT ![f] = NoEntry ]
    /\ UNCHANGED << caBackend, caNow, caRemoving, caSets, caLost >>

\* Redis::take: HGETDEL.
RedisTake(t, f) == Redis /\ TakeValue(t, f, caMap[f].value)

\* MemCache::take: the entry is removed first, and returned if it has not expired.
MemTake(t, f) ==
    /\ ~Redis /\ Idle(t)
    /\ TakeValue(t, f, IF IsExpired(caMap[f]) THEN 0 ELSE caMap[f].value)

\* delete
DeleteValue(f) ==
    /\ caMap' = [ caMap EXCEPT ![f] = NoEntry ]
    /\ caLast' = [ caLast EXCEPT ![f] = NoEntry ]
    /\ UNCHANGED << caBackend, caNow, caRemoving, caGot, caTaken, caSets, caLost >>

\* cleanup_expired
CleanupExpired ==
    /\ ~Redis
    /\ caMap' = [ f \in CaFields |-> IF IsExpired(caMap[f]) THEN NoEntry ELSE caMap[f] ]
    /\ UNCHANGED << caBackend, caNow, caRemoving, caGot, caTaken, caSets, caLast, caLost >>

\* Time passes; Redis drops the fields whose TTL is over.
CaTick ==
    /\ caNow < MaxCaClock
    /\ caNow' = caNow + 1
    /\ caMap' = [ f \in CaFields |-> IF Redis /\ caNow + 1 >= caMap[f].expires THEN NoEntry
                                     ELSE caMap[f] ]
    /\ UNCHANGED << caBackend, caRemoving, caGot, caTaken, caSets, caLast, caLost >>

CaTask(t) ==
    \/ \E f \in CaFields : RedisGet(t, f) \/ RedisTake(t, f)
    \/ \E f \in CaFields : MemGet(t, f) \/ MemTake(t, f)
    \/ MemGetRemoves(t)

CaNext ==
    \/ \E f \in CaFields, ttl \in CaTtls : RedisSet(f, ttl) \/ MemSet(f, ttl)
    \/ \E t \in CaTasks : CaTask(t)
    \/ \E f \in CaFields : DeleteValue(f)
    \/ CleanupExpired
    \/ CaTick

CaSpec == CaInit /\ [][CaNext]_caVars

\* The type of the entries and of the tasks that take them.
CaTypeOK ==
    /\ caBackend \in { "redis", "memory" }
    /\ \A f \in CaFields : caMap[f].value \in 0 .. caSets
    /\ \A t \in CaTasks : caRemoving[t] \in CaFields \cup { NoField }
    /\ \A t \in CaTasks : caGot[t] \in 0 .. caSets

-----------------------------------------------------------------------------
\* A value is taken by one task at most, and found by nobody after it was: the nonces
\* of a signing session that are kept in the cache are used once.
TakenIsUsedOnce ==
    /\ \A x, y \in caTaken : x[1] = y[1] => x = y
    /\ \A f \in CaFields, x \in caTaken : caMap[f].value # x[1]

\* The value set last is in the cache until its TTL is over, unless it was taken or
\* deleted; the one exception is a reader in memory that found the expired value
\* before and removes the key only now.
LastSetIsKept ==
    \A f \in CaFields :
        \/ caLast[f] = NoEntry \/ IsExpired(caLast[f])
        \/ caMap[f] = caLast[f]
        \/ ~Redis /\ caLast[f].value \in caLost

\* An entry is taken once and is there until it is taken, replaced or expired.
CacheIsSound == TakenIsUsedOnce /\ LastSetIsKept
=============================================================================
