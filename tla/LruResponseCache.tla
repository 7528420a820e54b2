--------------------------- MODULE LruResponseCache ---------------------------
(***************************************************************************)
(* LruResponseCache (src/cache.rs): values under a byte cap and a cap on   *)
(* their number, each with a deadline, behind one RwLock that every        *)
(* operation takes for writing; the clock is read under it.  The           *)
(* operations here are what a module that uses the cache builds its        *)
(* actions from.                                                           *)
(***************************************************************************)
EXTENDS LruMap

CONSTANTS
    CacheKeys,      \* the keys in use
    CacheMaxBytes,  \* 0: no cap
    CacheEntryCap,  \* how many entries LruCache::new gives the map
    LastInstant     \* bound: the clock stops here

ASSUME CacheAssumption ==
    /\ IsFiniteSet(CacheKeys)
    /\ CacheMaxBytes \in Nat /\ CacheEntryCap \in Nat \ {0} /\ LastInstant \in Nat \ {0}

VARIABLES
    clock,          \* Instant::now()
    cacheMap,       \* Inner::map: the entries,
    cacheOrder,     \* and in what order they were used
    cacheBytes,     \* Inner::byte_count
    cacheOverflowed \* history: the bytes of all that the full map dropped

cacheInner == <<cacheMap, cacheOrder, cacheBytes, cacheOverflowed>>
cacheVars == <<clock, cacheInner>>

(* A value is a record with its length in bytes; an entry its value and    *)
(* when it expires, 0 for an entry that is not there.                      *)
NoValue == [bytes |-> 0]
NoEntry == [value |-> NoValue, expires_at |-> 0]
Never == LastInstant + 2

Cached == {k \in CacheKeys : cacheMap[k] # NoEntry}
Sizes == [k \in CacheKeys |-> cacheMap[k].value.bytes]

CacheInit ==
    /\ clock = 1
    /\ cacheMap = [k \in CacheKeys |-> NoEntry]
    /\ cacheOrder = {}
    /\ cacheBytes = 0 /\ cacheOverflowed = 0

CacheTick ==
    /\ clock < LastInstant
    /\ clock' = clock + 1
    /\ UNCHANGED cacheInner

(* map.pop and the byte count.                                             *)
CachePop(k) ==
    /\ cacheMap' = [cacheMap EXCEPT ![k] = NoEntry]
    /\ cacheOrder' = Kept(cacheOrder, Cached \ {k})
    /\ cacheBytes' = SaturatingSub(cacheBytes, cacheMap[k].value.bytes)
    /\ UNCHANGED <<clock, cacheOverflowed>>

(* get: a hit.                                                             *)
CacheServes(k) ==
    /\ k \in Cached /\ cacheMap[k].expires_at > clock
    /\ cacheOrder' = Touched(cacheOrder, Cached, k)
    /\ UNCHANGED <<clock, cacheMap, cacheBytes, cacheOverflowed>>

(* get: nothing there, or dropped because it has expired.                  *)
CacheMisses(k) ==
    \/ k \notin Cached /\ UNCHANGED cacheVars
    \/ k \in Cached /\ cacheMap[k].expires_at <= clock /\ CachePop(k)

(* Mutant: a replaced value stays counted.                                 *)
CachePutCountingTwice(k, value, ttl) ==
    /\ cacheMap' = [cacheMap EXCEPT ![k] =
                      [value |-> value, expires_at |-> IF ttl = 0 THEN Never ELSE clock + ttl]]
    /\ cacheOrder' = Touched(cacheOrder, Cached \cup {k}, k)
    /\ cacheBytes' = cacheBytes + value.bytes
    /\ UNCHANGED <<clock, cacheOverflowed>>

(* put: a value over the cap is ignored; a ttl of 0 is for ever; what the  *)
(* full map drops for a new key stays counted.                             *)
CachePut(k, value, ttl) ==
    LET entry == [value |-> value, expires_at |-> IF ttl = 0 THEN Never ELSE clock + ttl]
        sizes == [Sizes EXCEPT ![k] = value.bytes]
        lost == Overflow(cacheOrder, Cached, k, CacheEntryCap)
        keys == (Cached \ lost) \cup {k}
        used == Touched(cacheOrder, keys, k)
        bytes == SaturatingSub(cacheBytes, cacheMap[k].value.bytes) + value.bytes
        victims == Victims(used, keys, sizes, bytes, CacheMaxBytes)
    IN  IF CacheMaxBytes > 0 /\ value.bytes > CacheMaxBytes
        THEN UNCHANGED cacheVars
        ELSE /\ cacheMap' = [j \in CacheKeys |->
                                IF j \in victims \cup lost THEN NoEntry
                                ELSE IF j = k THEN entry ELSE cacheMap[j]]
             /\ cacheOrder' = Kept(used, keys \ victims)
             /\ cacheBytes' = SaturatingSub(bytes, Weight(sizes, victims))
             /\ cacheOverflowed' = cacheOverflowed + Weight(Sizes, lost)
             /\ UNCHANGED clock

(* invalidate                                                              *)
CacheInvalidate(k) == k \in Cached /\ CachePop(k)

-----------------------------------------------------------------------------
CacheTypeOK ==
    /\ clock \in 1..LastInstant
    /\ \A k \in Cached : cacheMap[k].expires_at \in Nat \ {0}
    /\ OrderOf(cacheOrder, Cached) /\ Cardinality(Cached) <= CacheEntryCap
    /\ cacheOverflowed \in Nat

(* The byte count, kept up to date by saturating additions and             *)
(* subtractions in four places, is the size of what the cache holds and of *)
(* all that the map ever dropped because it was full, nothing else, and    *)
(* within the cap (cache.rs:231, 243-253, 271, 296-299, 305-306).          *)
CacheBytesExact ==
    /\ cacheBytes = Weight(Sizes, Cached) + cacheOverflowed
    /\ CacheMaxBytes > 0 => cacheBytes <= CacheMaxBytes

=============================================================================
