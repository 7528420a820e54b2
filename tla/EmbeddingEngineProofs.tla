------------------------- MODULE EmbeddingEngineProofs -------------------------
(***************************************************************************)
(* What the response cache keeps behind the embedding engine, for any      *)
(* callers, requests, batch sizes, cap and ttl; and what an answer owes    *)
(* its request: a vector for each input when no two requests of different  *)
(* lengths share a key, the vector of that input when no two requests do,  *)
(* and one stated number of dimensions whatever the keys.                  *)
(***************************************************************************)
EXTENDS EmbeddingEngine, LruMapProofs, SequenceTheorems

-----------------------------------------------------------------------------
(* The cache *)

(* A function of the keys, whatever the values are but for their length.   *)
CacheShape ==
    /\ cacheMap \in [CacheKeys -> {cacheMap[k] : k \in CacheKeys}]
    /\ \A k \in CacheKeys : cacheMap[k].value.bytes \in Nat

CacheInv == CacheTypeOK /\ CacheShape /\ CacheBytesExact

LEMMA CacheConstants ==
    /\ IsFiniteSet(CacheKeys) /\ CacheMaxBytes \in Nat /\ CacheEntryCap \in Nat \ {0}
    /\ LastInstant \in Nat \ {0}
    /\ NoEntry.value.bytes = 0 /\ NoEntry.expires_at = 0
BY CacheAssumption DEF NoEntry, NoValue

(* What weighs is only the sizes of the keys that are there.               *)
LEMMA WeightAgrees ==
    ASSUME NEW one, NEW other, NEW keys, \A k \in keys : one[k] = other[k]
    PROVE  Weight(one, keys) = Weight(other, keys)
<1>1. Bytes(one, keys) = Bytes(other, keys)
  BY DEF Bytes
<1> QED
  BY <1>1 DEF Weight

LEMMA CachedIsSized ==
    ASSUME CacheInv
    PROVE  /\ Cached \in SUBSET CacheKeys /\ Sized(Sizes, Cached)
           /\ \A k \in CacheKeys : Sizes[k] = cacheMap[k].value.bytes
           /\ cacheBytes = Weight(Sizes, Cached) + cacheOverflowed
           /\ Weight(Sizes, Cached) \in Nat /\ cacheOverflowed \in Nat /\ cacheBytes \in Nat
           /\ OrderOf(cacheOrder, Cached)
           /\ IsFiniteSet(Cached) /\ Cardinality(Cached) <= CacheEntryCap
<1>1. Cached \in SUBSET CacheKeys
  BY DEF Cached
<1>2. \A k \in CacheKeys : Sizes[k] = cacheMap[k].value.bytes /\ Sizes[k] \in Nat
  BY DEF Sizes, CacheInv, CacheShape
<1>3. Sized(Sizes, Cached)
  BY <1>1, <1>2, CacheConstants, FS_Subset DEF Sized
<1>4. /\ cacheBytes = Weight(Sizes, Cached) + cacheOverflowed /\ cacheOverflowed \in Nat
      /\ OrderOf(cacheOrder, Cached) /\ Cardinality(Cached) <= CacheEntryCap
  BY DEF CacheInv, CacheBytesExact, CacheTypeOK
<1>5. Weight(Sizes, Cached) \in Nat /\ IsFiniteSet(Cached)
  BY <1>3, WeightIsNatural DEF Sized
<1> QED
  BY <1>1, <1>2, <1>3, <1>4, <1>5

LEMMA CacheInitInv ==
    ASSUME CacheInit
    PROVE  CacheInv
<1>1. Cached = {}
  BY DEF CacheInit, Cached
<1>2. CacheTypeOK
  BY <1>1, EmptyOrder, FS_EmptySet, CacheConstants DEF CacheInit, CacheTypeOK
<1>3. CacheShape
  BY CacheConstants DEF CacheInit, CacheShape
<1>4. CacheBytesExact
  <2>1. Bytes(Sizes, Cached) = {}
    BY <1>1 DEF Bytes
  <2>2. Weight(Sizes, Cached) = 0
    BY <2>1, FS_EmptySet DEF Weight
  <2> QED
    BY <2>2, CacheConstants DEF CacheInit, CacheBytesExact
<1> QED
  BY <1>2, <1>3, <1>4 DEF CacheInv

LEMMA CacheStutters ==
    ASSUME CacheInv, UNCHANGED cacheInner, clock' \in 1..LastInstant
    PROVE  CacheInv'
<1>1. Cached' = Cached /\ Sizes' = Sizes /\ cacheMap' = cacheMap
  BY DEF cacheInner, Cached, Sizes
<1> QED
  BY <1>1 DEF CacheInv, CacheTypeOK, CacheShape, CacheBytesExact, cacheInner

LEMMA CachePopKeeps ==
    ASSUME CacheInv, NEW k \in Cached, CachePop(k)
    PROVE  CacheInv'
<1>1. /\ Cached \in SUBSET CacheKeys /\ Sized(Sizes, Cached) /\ k \in CacheKeys
      /\ \A j \in CacheKeys : Sizes[j] = cacheMap[j].value.bytes
      /\ cacheBytes = Weight(Sizes, Cached) + cacheOverflowed
      /\ Weight(Sizes, Cached) \in Nat /\ cacheOverflowed \in Nat /\ cacheBytes \in Nat
      /\ OrderOf(cacheOrder, Cached)
      /\ IsFiniteSet(Cached) /\ Cardinality(Cached) <= CacheEntryCap
      /\ cacheOverflowed' = cacheOverflowed
  BY CachedIsSized DEF CachePop
<1>2. \A j \in CacheKeys : cacheMap'[j] = IF j = k THEN NoEntry ELSE cacheMap[j]
  BY <1>1 DEF CachePop, CacheInv, CacheShape
<1>3. CacheShape'
  <2>1. cacheMap' \in [CacheKeys -> {cacheMap'[j] : j \in CacheKeys}]
    BY <1>1 DEF CachePop, CacheInv, CacheShape
  <2>2. ASSUME NEW j \in CacheKeys PROVE cacheMap'[j].value.bytes \in Nat
    <3>1. CASE j = k
      BY <1>2, <3>1, CacheConstants
    <3>2. CASE j # k
      BY <1>2, <3>2 DEF CacheInv, CacheShape
    <3> QED
      BY <3>1, <3>2
  <2> QED
    BY <2>1, <2>2 DEF CacheShape
<1>4. Cached' = Cached \ {k} /\ \A j \in Cached' : Sizes'[j] = Sizes[j]
  BY <1>1, <1>2 DEF Cached, Sizes
<1>5. CacheTypeOK'
  <2>1. OrderOf(cacheOrder', Cached')
    BY <1>1, <1>4, KeptIsOrder DEF CachePop
  <2>2. Cardinality(Cached') <= CacheEntryCap
    <3>1. /\ Cardinality(Cached') <= Cardinality(Cached)
          /\ Cardinality(Cached') \in Nat /\ Cardinality(Cached) \in Nat
      BY <1>1, <1>4, FS_Subset, FS_CardinalityType
    <3> QED
      BY <1>1, <3>1, CacheConstants
  <2> QED
    BY <1>1, <1>2, <1>4, <2>1, <2>2 DEF CachePop, CacheInv, CacheTypeOK
<1>6. CacheBytesExact'
  <2>1. Weight(Sizes, {k}) = cacheMap[k].value.bytes
    BY <1>1, WeightOfOne DEF Sized
  <2>2. /\ SaturatingSub(Weight(Sizes, Cached) + cacheOverflowed, Weight(Sizes, {k}))
              = Weight(Sizes, Cached \ {k}) + cacheOverflowed
        /\ Weight(Sizes, Cached \ {k}) \in Nat
        /\ Weight(Sizes, Cached \ {k}) <= Weight(Sizes, Cached)
    <3>1. {k} \in SUBSET Cached /\ Cached \ {k} \in SUBSET Cached
      OBVIOUS
    <3>2. /\ SaturatingSub(Weight(Sizes, Cached) + cacheOverflowed, Weight(Sizes, {k}))
                = Weight(Sizes, Cached \ {k}) + cacheOverflowed
          /\ Weight(Sizes, Cached \ {k}) \in Nat
      <4>1. Sized(Sizes, Cached)
        BY <1>1
      <4>2. {k} \in SUBSET Cached
        BY <3>1
      <4>3. \A e \in Nat : /\ SaturatingSub(Weight(Sizes, Cached) + e, Weight(Sizes, {k}))
                                  = Weight(Sizes, Cached \ {k}) + e
                            /\ Weight(Sizes, Cached \ {k}) \in Nat
        BY <4>1, <4>2, WeightTaken
      <4> QED
        BY <1>1, <4>3
    <3>3. Weight(Sizes, Cached \ {k}) <= Weight(Sizes, Cached)
      BY <1>1, <3>1, WeightWithout
    <3> QED
      BY <3>2, <3>3
  <2>3. Weight(Sizes', Cached') = Weight(Sizes, Cached \ {k})
    <3>1. Weight(Sizes', Cached') = Weight(Sizes, Cached')
      BY <1>4, WeightAgrees
    <3> QED
      BY <1>4, <3>1
  <2>4. /\ cacheBytes' = Weight(Sizes', Cached') + cacheOverflowed'
        /\ cacheBytes' <= cacheBytes /\ cacheBytes' \in Nat
    BY <1>1, <2>1, <2>2, <2>3 DEF CachePop
  <2> QED
    BY <1>1, <2>4, CacheConstants DEF CacheInv, CacheBytesExact
<1> QED
  BY <1>3, <1>5, <1>6 DEF CacheInv

LEMMA CacheServesKeeps ==
    ASSUME CacheInv, NEW k, CacheServes(k)
    PROVE  CacheInv'
<1>1. Cached' = Cached /\ Sizes' = Sizes /\ Cached \cup {k} = Cached
  BY DEF CacheServes, Cached, Sizes
<1>2. OrderOf(cacheOrder', Cached')
  <2>1. OrderOf(cacheOrder, Cached) /\ Cached \in SUBSET Cached
    BY CachedIsSized
  <2>2. OrderOf(Touched(cacheOrder, Cached \cup {k}, k), Cached \cup {k})
    BY <2>1, TouchedIsOrder
  <2> QED
    BY <1>1, <2>2 DEF CacheServes
<1> QED
  BY <1>1, <1>2 DEF CacheServes, CacheInv, CacheTypeOK, CacheShape, CacheBytesExact

(* The byte count of a put before it evicts: what is there then, and all   *)
(* that the full map dropped.                                              *)
LEMMA PutCounts ==
    ASSUME CacheInv, NEW k \in CacheKeys, NEW n \in Nat,
           NEW lost, lost = Overflow(cacheOrder, Cached, k, CacheEntryCap),
           NEW sizes, \A j \in CacheKeys : sizes[j] = IF j = k THEN n ELSE Sizes[j]
    PROVE  LET keys == (Cached \ lost) \cup {k}
               excess == cacheOverflowed + Weight(Sizes, lost)
           IN  /\ SaturatingSub(cacheBytes, cacheMap[k].value.bytes) + n
                     = Weight(sizes, keys) + excess
               /\ excess \in Nat /\ excess <= cacheBytes
               /\ keys \in SUBSET CacheKeys /\ Sized(sizes, keys)
<1> DEFINE rest == (Cached \ lost) \ {k}
           keys == (Cached \ lost) \cup {k}
           prior == cacheMap[k].value.bytes
<1>1. /\ Cached \in SUBSET CacheKeys /\ Sized(Sizes, Cached)
      /\ \A j \in CacheKeys : Sizes[j] = cacheMap[j].value.bytes
      /\ cacheBytes = Weight(Sizes, Cached) + cacheOverflowed
      /\ Weight(Sizes, Cached) \in Nat /\ cacheOverflowed \in Nat /\ cacheBytes \in Nat
  BY CachedIsSized
<1>2. lost \in SUBSET Cached /\ (k \in Cached => lost = {}) /\ rest \in SUBSET Cached
  BY DEF Overflow
<1>3. keys \in SUBSET CacheKeys /\ Sized(sizes, keys)
  <2>1. keys \in SUBSET CacheKeys
    BY <1>1
  <2>2. ASSUME NEW j \in keys PROVE sizes[j] \in Nat
    <3>1. CASE j = k
      BY <2>1, <3>1
    <3>2. CASE j # k
      <4>1. j \in Cached /\ j \in CacheKeys
        BY <2>1, <3>2
      <4> QED
        BY <1>1, <3>2, <4>1 DEF Sized
    <3> QED
      BY <3>1, <3>2
  <2>3. IsFiniteSet(keys)
    BY <2>1, CacheConstants, FS_Subset
  <2> QED
    BY <2>1, <2>2, <2>3 DEF Sized
<1>4. Weight(sizes, keys) = n + Weight(Sizes, rest)
  <2>1. /\ {k} \in SUBSET keys /\ rest \in SUBSET keys /\ {k} \cap rest = {}
        /\ keys = {k} \cup rest
    OBVIOUS
  <2>2. Weight(sizes, {k} \cup rest) = Weight(sizes, {k}) + Weight(sizes, rest)
    <3> HIDE DEF keys, rest
    <3> QED
      BY <1>3, <2>1, WeightAdds
  <2>3. Weight(sizes, {k}) = n
    <3>1. sizes[k] = n
      OBVIOUS
    <3> QED
      BY <3>1, WeightOfOne
  <2>4. Weight(sizes, rest) = Weight(Sizes, rest)
    <3>1. \A j \in rest : sizes[j] = Sizes[j]
      BY <1>1, <1>2
    <3> HIDE DEF rest
    <3> QED
      BY <3>1, WeightAgrees
  <2> HIDE DEF keys, rest
  <2> QED
    BY <2>1, <2>2, <2>3, <2>4
<1>5. /\ Weight(Sizes, lost) \in Nat /\ Weight(Sizes, rest) \in Nat
      /\ Weight(Sizes, Cached) = Weight(Sizes, rest) + prior + Weight(Sizes, lost)
      /\ prior \in Nat
  <2>1. Weight(Sizes, lost) \in Nat /\ Weight(Sizes, rest) \in Nat
    <3> HIDE DEF rest
    <3> QED
      BY <1>1, <1>2, SizedSubset, WeightIsNatural
  <2>2. CASE k \in Cached
    <3>1. /\ lost = {} /\ rest = Cached \ {k} /\ {k} \in SUBSET Cached
          /\ rest \cap {k} = {} /\ rest \cup {k} = Cached
      BY <1>2, <2>2
    <3>2. Weight(Sizes, {k}) = prior /\ prior \in Nat
      BY <1>1, <2>2, WeightOfOne DEF Sized
    <3>3. Weight(Sizes, rest \cup {k}) = Weight(Sizes, rest) + Weight(Sizes, {k})
      <4> HIDE DEF rest
      <4> QED
        BY <1>1, <1>2, <3>1, WeightAdds
    <3>4. Weight(Sizes, lost) = 0
      <4>1. Bytes(Sizes, lost) = {}
        BY <3>1 DEF Bytes
      <4> QED
        BY <4>1, FS_EmptySet DEF Weight
    <3>5. Weight(Sizes, Cached) = Weight(Sizes, rest) + prior
      <4>1. rest \cup {k} = Cached
        BY <3>1
      <4> HIDE DEF rest, prior
      <4> QED
        BY <3>2, <3>3, <4>1
    <3> HIDE DEF rest, prior
    <3> QED
      BY <1>1, <2>1, <3>2, <3>4, <3>5
  <2>3. CASE k \notin Cached
    <3>1. rest = Cached \ lost /\ rest \cap lost = {} /\ rest \cup lost = Cached
      BY <1>2, <2>3
    <3>2. prior = 0
      BY <2>3, CacheConstants DEF Cached
    <3>3. Weight(Sizes, rest \cup lost) = Weight(Sizes, rest) + Weight(Sizes, lost)
      <4> HIDE DEF rest
      <4> QED
        BY <1>1, <1>2, <3>1, WeightAdds
    <3>4. Weight(Sizes, Cached) = Weight(Sizes, rest) + Weight(Sizes, lost)
      <4>1. rest \cup lost = Cached
        BY <3>1
      <4> HIDE DEF rest, prior
      <4> QED
        BY <3>3, <4>1
    <3> HIDE DEF rest, prior
    <3> QED
      BY <1>1, <2>1, <3>2, <3>4
  <2> QED
    BY <2>2, <2>3
<1>6. SaturatingSub(cacheBytes, prior) = Weight(Sizes, rest) + (cacheOverflowed + Weight(Sizes, lost))
  <2> HIDE DEF rest, prior
  <2> QED
    BY <1>1, <1>5 DEF SaturatingSub
<1>7. /\ cacheOverflowed + Weight(Sizes, lost) \in Nat
      /\ cacheOverflowed + Weight(Sizes, lost) <= cacheBytes
  <2> HIDE DEF rest, prior
  <2> QED
    BY <1>1, <1>5
<1>8. SaturatingSub(cacheBytes, prior) + n
        = Weight(sizes, keys) + (cacheOverflowed + Weight(Sizes, lost))
  <2> HIDE DEF rest, prior, keys
  <2> QED
    BY <1>1, <1>4, <1>5, <1>6
<1> QED
  BY <1>3, <1>7, <1>8

LEMMA CachePutKeeps ==
    ASSUME CacheInv, NEW k \in CacheKeys, NEW value, value.bytes \in Nat, NEW ttl \in Nat,
           CachePut(k, value, ttl)
    PROVE  CacheInv'
<1> DEFINE entry == [value |-> value, expires_at |-> IF ttl = 0 THEN Never ELSE clock + ttl]
           sizes == [Sizes EXCEPT ![k] = value.bytes]
           lost == Overflow(cacheOrder, Cached, k, CacheEntryCap)
           keys == (Cached \ lost) \cup {k}
           used == Touched(cacheOrder, keys, k)
           bytes == SaturatingSub(cacheBytes, cacheMap[k].value.bytes) + value.bytes
           victims == Victims(used, keys, sizes, bytes, CacheMaxBytes)
           excess == cacheOverflowed + Weight(Sizes, lost)
<1>1. CASE CacheMaxBytes > 0 /\ value.bytes > CacheMaxBytes
  <2>1. UNCHANGED cacheInner /\ clock' \in 1..LastInstant
    BY <1>1 DEF CachePut, cacheVars, CacheInv, CacheTypeOK
  <2> QED
    BY <2>1, CacheStutters
<1>2. CASE ~(CacheMaxBytes > 0 /\ value.bytes > CacheMaxBytes)
  <2>1. /\ Cached \in SUBSET CacheKeys
        /\ \A j \in CacheKeys : Sizes[j] = cacheMap[j].value.bytes
        /\ cacheBytes \in Nat /\ OrderOf(cacheOrder, Cached)
        /\ IsFiniteSet(Cached) /\ Cardinality(Cached) <= CacheEntryCap
    BY CachedIsSized
  <2>2. /\ cacheMap' = [j \in CacheKeys |->
                           IF j \in victims \cup lost THEN NoEntry
                           ELSE IF j = k THEN entry ELSE cacheMap[j]]
        /\ cacheOrder' = Kept(used, keys \ victims)
        /\ cacheBytes' = SaturatingSub(bytes, Weight(sizes, victims))
        /\ cacheOverflowed' = excess
        /\ clock' = clock
    BY <1>2 DEF CachePut
  <2>3. entry # NoEntry /\ entry.value = value /\ entry.expires_at \in Nat \ {0}
    <3>1. entry.expires_at \in Nat \ {0}
      BY CacheConstants DEF CacheInv, CacheTypeOK, Never
    <3> QED
      BY <3>1, CacheConstants
  <2>4. \A j \in CacheKeys : sizes[j] = IF j = k THEN value.bytes ELSE Sizes[j]
    BY DEF Sizes
  <2>5. OrderOf(used, keys)
    <3>1. Cached \ lost \in SUBSET Cached
      OBVIOUS
    <3> HIDE DEF lost
    <3> QED
      BY <2>1, <3>1, TouchedIsOrder
  <2>6. /\ bytes = Weight(sizes, keys) + excess /\ excess \in Nat /\ excess <= cacheBytes
        /\ keys \in SUBSET CacheKeys /\ Sized(sizes, keys)
    <3> HIDE DEF sizes
    <3> QED
      BY <2>4, PutCounts
  <2>7. /\ victims \in SUBSET keys /\ lost \in SUBSET Cached /\ k \notin lost
        /\ victims = Victims(used, keys, sizes, Weight(sizes, keys) + excess, CacheMaxBytes)
    BY <2>6 DEF Victims, Overflow
  <2>8. Cardinality(keys) <= CacheEntryCap
    <3>1. CacheEntryCap \in Nat \ {0}
      BY CacheConstants
    <3> QED
      BY <2>1, <3>1, RoomIsMade, Zenon
  <2> HIDE DEF sizes, used, bytes, victims, entry, lost, excess
  <2>9. \A j \in CacheKeys : cacheMap'[j] = IF j \in victims \cup lost THEN NoEntry
                                            ELSE IF j = k THEN entry ELSE cacheMap[j]
    BY <2>2
  <2>10. CacheShape'
    <3>1. cacheMap' \in [CacheKeys -> {cacheMap'[j] : j \in CacheKeys}]
      BY <2>2
    <3>2. ASSUME NEW j \in CacheKeys PROVE cacheMap'[j].value.bytes \in Nat
      <4>1. cacheMap'[j] \in {NoEntry, entry, cacheMap[j]}
        BY <2>9
      <4> QED
        BY <2>3, <4>1, CacheConstants DEF CacheInv, CacheShape
    <3> QED
      BY <3>1, <3>2 DEF CacheShape
  <2>11. Cached' = keys \ victims /\ \A j \in Cached' : Sizes'[j] = sizes[j]
    <3>1. Cached' = keys \ victims
      BY <2>1, <2>3, <2>6, <2>7, <2>9 DEF Cached
    <3>2. \A j \in CacheKeys : Sizes'[j] = cacheMap'[j].value.bytes
      BY DEF Sizes
    <3>3. ASSUME NEW j \in keys \ victims PROVE Sizes'[j] = sizes[j]
      <4>1. j \in CacheKeys /\ j \notin victims \cup lost
        BY <2>6, <2>7, <3>3
      <4>2. CASE j = k
        BY <2>3, <2>4, <2>9, <3>2, <4>1, <4>2
      <4>3. CASE j # k
        BY <2>1, <2>4, <2>9, <3>2, <4>1, <4>3
      <4> QED
        BY <4>2, <4>3
    <3> QED
      BY <3>1, <3>3
  <2>12. CacheTypeOK'
    <3>1. OrderOf(cacheOrder', Cached')
      <4>1. keys \ victims \in SUBSET keys
        OBVIOUS
      <4> QED
        BY <2>2, <2>5, <2>11, <4>1, KeptIsOrder
    <3>2. ASSUME NEW j \in keys \ victims PROVE cacheMap'[j].expires_at \in Nat \ {0}
      <4>1. j \in CacheKeys /\ j \notin victims \cup lost
        BY <2>6, <2>7, <3>2
      <4>2. CASE j = k
        BY <2>3, <2>9, <4>1, <4>2
      <4>3. CASE j # k
        BY <2>9, <4>1, <4>3 DEF CacheInv, CacheTypeOK
      <4> QED
        BY <4>2, <4>3
    <3>3. Cardinality(Cached') <= CacheEntryCap
      <4>1. Cached' \in SUBSET keys /\ IsFiniteSet(keys)
        BY <2>6, <2>11 DEF Sized
      <4> HIDE DEF keys
      <4>2. /\ Cardinality(Cached') <= Cardinality(keys)
            /\ Cardinality(Cached') \in Nat /\ Cardinality(keys) \in Nat
        BY <4>1, FS_Subset, FS_CardinalityType
      <4> QED
        BY <2>8, <4>2, CacheConstants
    <3> QED
      BY <2>2, <2>6, <2>11, <3>1, <3>2, <3>3 DEF CacheInv, CacheTypeOK
  <2>13. CacheBytesExact'
    <3>1. Weight(Sizes', Cached') = Weight(sizes, keys \ victims)
      <4>1. Weight(Sizes', Cached') = Weight(sizes, Cached')
        BY <2>11, WeightAgrees
      <4> QED
        BY <2>11, <4>1
    <3>2. /\ cacheBytes' = Weight(sizes, keys \ victims) + excess
          /\ Weight(sizes, keys \ victims) \in Nat
      <4> HIDE DEF keys
      <4>1. Sized(sizes, keys)
        BY <2>6
      <4>2. victims \in SUBSET keys
        BY <2>7
      <4>3. \A e \in Nat : /\ SaturatingSub(Weight(sizes, keys) + e, Weight(sizes, victims))
                                 = Weight(sizes, keys \ victims) + e
                           /\ Weight(sizes, keys \ victims) \in Nat
        BY <4>1, <4>2, WeightTaken
      <4> QED
        BY <2>2, <2>6, <4>3
    <3>3. ASSUME CacheMaxBytes > 0 PROVE cacheBytes' <= CacheMaxBytes
      <4>1. keys \ victims = {} \/ Weight(sizes, keys \ victims) + excess <= CacheMaxBytes
        <5> HIDE DEF keys
        <5> QED
          BY <2>5, <2>6, <2>7, <3>3, WhatStaysFits, CacheConstants
      <4>2. CASE keys \ victims = {}
        <5>1. Weight(sizes, keys \ victims) = 0
          <6>1. Bytes(sizes, keys \ victims) = {}
            BY <4>2 DEF Bytes
          <6> QED
            BY <6>1, FS_EmptySet DEF Weight
        <5>2. cacheBytes <= CacheMaxBytes
          BY <3>3 DEF CacheInv, CacheBytesExact
        <5> QED
          BY <2>1, <2>6, <3>2, <5>1, <5>2, CacheConstants
      <4>3. CASE Weight(sizes, keys \ victims) + excess <= CacheMaxBytes
        BY <3>2, <4>3
      <4> QED
        BY <4>1, <4>2, <4>3
    <3> QED
      BY <2>2, <3>1, <3>2, <3>3 DEF CacheBytesExact
  <2> QED
    BY <2>10, <2>12, <2>13 DEF CacheInv
<1> QED
  BY <1>1, <1>2

-----------------------------------------------------------------------------
(* The calls *)

(* No two requests of different lengths share a key, as when no text holds  *)
(* the joiner.                                                             *)
KeysTellApart ==
    \A r, s \in Requests : CacheKey(r) = CacheKey(s) => Len(r) = Len(s)

(* A call is a record of its locals, for one of the requests; what it is   *)
(* about to store, and what it answers with, has that request's length.    *)
Shaped(state) ==
    state \in [pc : {"idle", "lookup", "embedding", "store"}, inputs : Requests,
               batches : {state.batches}, taken : {state.taken}, vectors : {state.vectors},
               dims : {state.dims}, exact : {state.exact}, sent : {state.sent},
               reply : {state.reply}]

Right(state) ==
    /\ Shaped(state)
    /\ state.pc = "store" => Len(state.vectors) = Len(state.inputs)
    /\ KeysTellApart /\ state.reply.status = "ok" =>
            Len(state.reply.value.vectors) = Len(state.inputs)

CachedRight ==
    KeysTellApart => \A r \in Requests : CacheKey(r) \in Cached =>
        Len(cacheMap[CacheKey(r)].value.vectors) = Len(r)

EngineInv ==
    /\ CacheInv /\ CachedRight
    /\ call \in [Callers -> {call[c] : c \in Callers}]
    /\ \A c \in Callers : Right(call[c])

-----------------------------------------------------------------------------
LEMMA NewCallRight ==
    /\ Right(Idle)
    /\ \A inputs \in Requests : Right(NewCall(inputs))
BY EmbeddingAssumption DEF Right, Shaped, Idle, NewCall, NoReply

LEMMA FanOutRight ==
    ASSUME NEW state, Right(state)
    PROVE  Right(FanOut(state))
<1> DEFINE chunks == Chunks(state.inputs)
           asking == [i \in DOMAIN chunks |-> Asking(chunks[i])]
           fanned == [state EXCEPT !.pc = "embedding", !.sent = Len(chunks), !.batches = asking]
<1>1. FanOut(state) = fanned
  BY DEF FanOut
<1> HIDE DEF chunks, asking
<1>2. Right(fanned)
  BY DEF Right, Shaped
<1> QED
  BY <1>1, <1>2

LEMMA EndedRight ==
    ASSUME NEW state, Right(state)
    PROVE  /\ \A why : why # "ok" => Right(Ended(state, Failed(why)))
           /\ \A value : (KeysTellApart => Len(value.vectors) = Len(state.inputs)) =>
                Right(Ended(state, Delivered(value)))
<1>1. state.inputs \in Requests
  BY DEF Right, Shaped
<1>2. ASSUME NEW reply,
             KeysTellApart /\ reply.status = "ok" => Len(reply.value.vectors) = Len(state.inputs)
      PROVE  Right(Ended(state, reply))
  BY <1>1, <1>2, EmbeddingAssumption DEF Right, Shaped, Ended, Idle, NewCall
<1> QED
  BY <1>2 DEF Failed, Delivered

LEMMA TakenRight ==
    ASSUME NEW state, Right(state), state.pc = "embedding", NEW batch
    PROVE  Right(Taken(state, batch))
<1> DEFINE taken == state.taken + 1
           dims == IF state.dims = 0 THEN batch.dims ELSE state.dims
           vectors == state.vectors \o batch.vectors
           exact == state.exact /\ batch.exact
<1>1. Taken(state, batch) = [state EXCEPT !.taken = taken, !.dims = dims,
                                          !.vectors = vectors, !.exact = exact]
  BY DEF Taken, Right, Shaped
<1> HIDE DEF taken, dims, vectors, exact
<1> QED
  BY <1>1 DEF Right, Shaped

LEMMA CallMovesRight ==
    ASSUME EngineInv, NEW c \in Callers, NEW state, Right(state), Moves(c, state),
           CacheInv', CachedRight'
    PROVE  EngineInv'
BY DEF EngineInv, Moves

LEMMA BecomeRight ==
    ASSUME EngineInv, NEW c \in Callers, NEW state, Right(state), Become(c, state)
    PROVE  EngineInv'
<1>1. UNCHANGED cacheVars /\ Moves(c, state)
  BY DEF Become
<1>2. CacheInv'
  BY <1>1, CacheStutters DEF EngineInv, CacheInv, CacheTypeOK, cacheVars
<1>3. CachedRight'
  BY <1>1 DEF EngineInv, CachedRight, Cached, cacheVars, cacheInner
<1> QED
  BY <1>1, <1>2, <1>3, CallMovesRight

(* What stays of the cache, or leaves it, stays right.                     *)
LEMMA LessCachedRight ==
    ASSUME EngineInv, \A k \in CacheKeys : cacheMap'[k] \in {NoEntry, cacheMap[k]}
    PROVE  CachedRight'
BY KeysAssumption DEF EngineInv, CachedRight, Cached

LEMMA PopRight ==
    ASSUME EngineInv, NEW k \in Cached, CachePop(k)
    PROVE  CacheInv' /\ CachedRight'
<1>1. \A j \in CacheKeys : cacheMap'[j] \in {NoEntry, cacheMap[j]}
  BY DEF CachePop, EngineInv, CacheInv, CacheShape
<1> QED
  BY <1>1, LessCachedRight, CachePopKeeps DEF EngineInv

LEMMA PutRight ==
    ASSUME EngineInv, NEW inputs \in Requests, NEW value,
           value.bytes = Len(value.vectors), Len(value.vectors) = Len(inputs),
           CachePut(CacheKey(inputs), value, TtlSeconds)
    PROVE  CacheInv' /\ CachedRight'
<1>1. CacheKey(inputs) \in CacheKeys /\ value.bytes \in Nat /\ TtlSeconds \in Nat
  BY KeysAssumption, EmbeddingAssumption
<1>2. CacheInv'
  BY <1>1, CachePutKeeps DEF EngineInv
<1>3. \A j \in CacheKeys :
        \/ cacheMap'[j] \in {NoEntry, cacheMap[j]}
        \/ j = CacheKey(inputs) /\ cacheMap'[j].value = value
  BY DEF CachePut, cacheVars, cacheInner
<1>4. CachedRight'
  BY <1>3, KeysAssumption DEF EngineInv, CachedRight, Cached, KeysTellApart
<1> QED
  BY <1>2, <1>4

-----------------------------------------------------------------------------
LEMMA EngineInit ==
    ASSUME Init
    PROVE  EngineInv
<1>1. CacheInv /\ CachedRight
  BY CacheInitInv, KeysAssumption DEF Init, CacheInit, CachedRight, Cached
<1> QED
  BY <1>1, NewCallRight DEF Init, EngineInv

LEMMA BatchStepKeeps ==
    ASSUME EngineInv, NEW c \in Callers, BatchStep(c)
    PROVE  EngineInv'
<1>1. Right(call[c]) /\ call[c].pc = "embedding"
  BY DEF EngineInv, BatchStep, Answers, RetryLater, GiveUp, Wake, InFlight, At
<1>2. PICK b \in DOMAIN call[c].batches :
        Answers(c, b) \/ RetryLater(c, b) \/ GiveUp(c, b) \/ Wake(c, b)
  BY DEF BatchStep
<1>3. CASE Answers(c, b)
  <2>1. PICK stated \in Dimensions, count \in Counts :
          Become(c, [call[c] EXCEPT
              !.batches[b].pc = "answered", !.batches[b].dims = stated,
              !.batches[b].vectors = Embedded(call[c].batches[b].texts, stated, count),
              !.batches[b].exact = count = 0])
    BY <1>3 DEF Answers
  <2> DEFINE vectors == Embedded(call[c].batches[b].texts, stated, count)
             ok == count = 0
             state == [call[c] EXCEPT
                          !.batches[b].pc = "answered", !.batches[b].dims = stated,
                          !.batches[b].vectors = vectors, !.batches[b].exact = ok]
  <2>2. Become(c, state)
    BY <2>1
  <2> HIDE DEF vectors, ok
  <2>3. Right(state)
    BY <1>1 DEF Right, Shaped
  <2> QED
    BY <2>2, <2>3, BecomeRight
<1>4. CASE RetryLater(c, b)
  <2>1. Right([call[c] EXCEPT !.batches[b].pc = "backoff"])
    BY <1>1 DEF Right, Shaped
  <2> QED
    BY <1>4, <2>1, BecomeRight DEF RetryLater
<1>5. CASE GiveUp(c, b)
  <2>1. Right([call[c] EXCEPT !.batches[b].pc = "failed"])
    BY <1>1 DEF Right, Shaped
  <2> QED
    BY <1>5, <2>1, BecomeRight DEF GiveUp
<1>6. CASE Wake(c, b)
  <2>1. Right([call[c] EXCEPT !.batches[b].pc = "asking",
                              !.batches[b].attempt = @ + 1, !.sent = @ + 1])
    BY <1>1 DEF Right, Shaped
  <2> QED
    BY <1>6, <2>1, BecomeRight DEF Wake
<1> QED
  BY <1>2, <1>3, <1>4, <1>5, <1>6

LEMMA EngineStep ==
    ASSUME EngineInv, Next
    PROVE  EngineInv'
<1>0. \A c \in Callers : Right(call[c])
  BY DEF EngineInv
<1>1. ASSUME NEW c \in Callers, Begin(c) PROVE EngineInv'
  <2>1. PICK inputs \in Requests :
          Become(c, IF CacheEnabled THEN NewCall(inputs) ELSE FanOut(NewCall(inputs)))
    BY <1>1 DEF Begin
  <2>2. Right(NewCall(inputs)) /\ Right(FanOut(NewCall(inputs)))
    BY NewCallRight, FanOutRight
  <2> QED
    BY <2>1, <2>2, BecomeRight
<1>2. ASSUME NEW c \in Callers, CacheHit(c) PROVE EngineInv'
  <2> DEFINE key == CacheKey(call[c].inputs)
             value == cacheMap[key].value
  <2>1. CacheServes(key) /\ Moves(c, Ended(call[c], Delivered(value))) /\ key \in Cached
    BY <1>2 DEF CacheHit, CacheServes
  <2>2. KeysTellApart => Len(value.vectors) = Len(call[c].inputs)
    BY <1>0, <2>1 DEF EngineInv, CachedRight, Right, Shaped
  <2>3. CachedRight'
    BY <2>1 DEF CacheServes, EngineInv, CachedRight, Cached
  <2> HIDE DEF key, value
  <2>4. Right(Ended(call[c], Delivered(value)))
    BY <1>0, <2>2, EndedRight
  <2>5. CacheInv'
    BY <2>1, CacheServesKeeps DEF EngineInv
  <2> QED
    BY <2>1, <2>3, <2>4, <2>5, CallMovesRight
<1>3. ASSUME NEW c \in Callers, CacheMiss(c) PROVE EngineInv'
  <2>1. CacheMisses(CacheKey(call[c].inputs)) \/ UNCHANGED cacheVars
    BY <1>3 DEF CacheMiss
  <2>2. Right(FanOut(call[c])) /\ Moves(c, FanOut(call[c]))
    BY <1>0, <1>3, FanOutRight DEF CacheMiss
  <2>3. CASE UNCHANGED cacheVars
    BY <2>2, <2>3, BecomeRight DEF Become
  <2>4. CASE \E k \in Cached : CachePop(k)
    BY <2>2, <2>4, PopRight, CallMovesRight
  <2> QED
    BY <2>1, <2>3, <2>4 DEF CacheMisses
<1>4. ASSUME NEW c \in Callers, Take(c) PROVE EngineInv'
  <2> DEFINE batch == call[c].batches[call[c].taken + 1]
  <2>1. /\ call[c].pc = "embedding"
        /\ \/ Become(c, Ended(call[c], Failed("provider")))
           \/ Become(c, Ended(call[c], Failed("dimensions")))
           \/ Become(c, Taken(call[c], batch))
    BY <1>4 DEF Take, At
  <2> HIDE DEF batch
  <2> QED
    BY <1>0, <2>1, EndedRight, TakenRight, BecomeRight
<1>5. ASSUME NEW c \in Callers, Conclude(c) PROVE EngineInv'
  <2>1. CASE Become(c, Ended(call[c], Failed("count")))
    BY <1>0, <2>1, EndedRight, BecomeRight
  <2>2. CASE Complete(call[c]) /\ Become(c, [call[c] EXCEPT !.pc = "store"])
    <3>1. Right([call[c] EXCEPT !.pc = "store"])
      BY <1>0, <2>2 DEF Complete, Right, Shaped
    <3> QED
      BY <2>2, <3>1, BecomeRight
  <2>3. CASE Complete(call[c]) /\ Become(c, Ended(call[c], Delivered(Result(call[c]))))
    <3>1. Len(Result(call[c]).vectors) = Len(call[c].inputs)
      BY <2>3 DEF Complete, Result
    <3> QED
      BY <1>0, <2>3, <3>1, EndedRight, BecomeRight
  <2> QED
    BY <1>5, <2>1, <2>2, <2>3 DEF Conclude
<1>6. ASSUME NEW c \in Callers, Store(c) PROVE EngineInv'
  <2> DEFINE value == Result(call[c])
  <2>1. /\ call[c].inputs \in Requests
        /\ value.bytes = Len(value.vectors) /\ Len(value.vectors) = Len(call[c].inputs)
    BY <1>0, <1>6 DEF Store, At, Right, Shaped, Result
  <2>2. /\ Moves(c, Ended(call[c], Delivered(value)))
        /\ CachePut(CacheKey(call[c].inputs), value, TtlSeconds) \/ UNCHANGED cacheVars
    BY <1>6 DEF Store
  <2> HIDE DEF value
  <2>3. Right(Ended(call[c], Delivered(value)))
    BY <1>0, <2>1, EndedRight
  <2>4. CASE UNCHANGED cacheVars
    BY <2>2, <2>3, <2>4, BecomeRight DEF Become
  <2>5. CASE CachePut(CacheKey(call[c].inputs), value, TtlSeconds)
    BY <2>1, <2>2, <2>3, <2>5, PutRight, CallMovesRight
  <2> QED
    BY <2>2, <2>4, <2>5
<1>7. ASSUME NEW c \in Callers, Abandon(c) PROVE EngineInv'
  BY <1>0, <1>7, EndedRight, BecomeRight DEF Abandon
<1>8. CASE CacheTick /\ UNCHANGED call
  <2>1. CacheInv'
    <3>1. clock' \in 1..LastInstant /\ UNCHANGED cacheInner
      BY <1>8, CacheConstants DEF CacheTick, EngineInv, CacheInv, CacheTypeOK
    <3> QED
      BY <3>1, CacheStutters DEF EngineInv
  <2>2. CachedRight'
    BY <1>8 DEF CacheTick, EngineInv, CachedRight, Cached, cacheInner
  <2> QED
    BY <1>8, <2>1, <2>2 DEF EngineInv
<1>9. ASSUME NEW k \in CacheKeys, CacheInvalidate(k), UNCHANGED call PROVE EngineInv'
  <2>1. k \in Cached /\ CachePop(k)
    BY <1>9 DEF CacheInvalidate
  <2> QED
    BY <1>9, <2>1, PopRight DEF EngineInv
<1> QED
  BY <1>1, <1>2, <1>3, <1>4, <1>5, <1>6, <1>7, <1>8, <1>9, BatchStepKeeps DEF Next, Progress

LEMMA EngineInvKept ==
    ASSUME EngineInv, [Next]_vars
    PROVE  EngineInv'
<1>1. CASE UNCHANGED vars
  <2>1. UNCHANGED cacheVars /\ UNCHANGED call
    BY <1>1 DEF vars
  <2>2. CacheInv' /\ CachedRight'
    BY <2>1, CacheStutters
    DEF EngineInv, CacheInv, CacheTypeOK, CachedRight, Cached, cacheVars, cacheInner
  <2> QED
    BY <2>1, <2>2 DEF EngineInv
<1> QED
  BY <1>1, EngineStep

-----------------------------------------------------------------------------
(* The byte count of the response cache is the size of what it holds and   *)
(* of all that its full map ever dropped, and within the cap, through      *)
(* every put, replacement, eviction, expiry and invalidation               *)
(* (cache.rs:231, 243-253, 271, 296-299, 305-306).                         *)
THEOREM CacheIsExact == Spec => []CacheBytesExact
<1>1. EngineInv => CacheBytesExact
  BY DEF EngineInv, CacheInv
<1> QED
  BY <1>1, EngineInit, EngineInvKept, PTL DEF Spec

(* Where no text holds the joiner, an answer has as many vectors as the    *)
(* request has texts, from the provider and from the cache                 *)
(* (embedding_engine.rs:83, 195-203, 295-300).                             *)
THEOREM VectorPerInput ==
    ASSUME KeysTellApart
    PROVE  Spec => []OneVectorPerInput
<1>1. EngineInv => OneVectorPerInput
  BY KeysTellApart DEF EngineInv, Right, OneVectorPerInput, Answered
<1> QED
  BY <1>1, EngineInit, EngineInvKept, PTL DEF Spec

-----------------------------------------------------------------------------
(* The batches *)

(* How many inputs the first k batches hold.                               *)
End(inputs, k) == IF k * BatchSize <= Len(inputs) THEN k * BatchSize ELSE Len(inputs)

Vectors == [of : Texts \cup {<<>>}, dims : Dimensions]

LEMMA BatchSizePositive == BatchSize \in Nat \ {0}
<1> DEFINE cap == IF AdapterMax = 0 THEN 1 ELSE AdapterMax
           Fits(n) == /\ \A b \in MaxBatchSize : n <= b
                      /\ n = cap \/ n \in MaxBatchSize
<1>1. EmbeddingSpec.max_batch_size = MaxBatchSize
  BY DEF EmbeddingSpec, EmbeddingDefaults
<1>2. BatchSize = CHOOSE n \in 1..cap : Fits(n)
  BY <1>1 DEF BatchSize, EffectiveBatchSize
<1>3. cap \in Nat \ {0} /\ MaxBatchSize \subseteq Nat \ {0}
  BY <1>1, EmbeddingAssumption DEF ValidEmbedding
<1>4. \E n \in 1..cap : Fits(n)
  <2>1. CASE \A b \in MaxBatchSize : cap <= b
    BY <1>3, <2>1
  <2>2. CASE \E b \in MaxBatchSize : ~(cap <= b)
    <3>1. PICK b \in MaxBatchSize : ~(cap <= b)
      BY <2>2
    <3>2. b \in 1..cap /\ \A m \in MaxBatchSize : m = b
      BY <1>3, <3>1, EmbeddingAssumption
    <3>3. Fits(b)
      BY <1>3, <3>2
    <3> QED
      BY <3>2, <3>3
  <2> QED
    BY <2>1, <2>2
<1> HIDE DEF Fits
<1>5. BatchSize \in 1..cap
  BY <1>2, <1>4
<1> QED
  BY <1>3, <1>5

LEMMA RequestIsSeq ==
    ASSUME NEW inputs \in Requests
    PROVE  /\ inputs \in Seq(Texts) /\ Len(inputs) \in Nat \ {0}
           /\ DOMAIN inputs = 1..Len(inputs)
BY EmbeddingAssumption, EmptySeq, LenProperties

(* Batch b holds the inputs after those of the batches before it.          *)
LEMMA ChunkTexts ==
    ASSUME NEW inputs \in Requests
    PROVE  /\ Chunks(inputs) \in Seq(Seq(Texts))
           /\ \A b \in DOMAIN Chunks(inputs) :
                /\ End(inputs, b - 1) < End(inputs, b)
                /\ Len(Chunks(inputs)[b]) = End(inputs, b) - End(inputs, b - 1)
                /\ \A i \in 1..Len(Chunks(inputs)[b]) :
                    Chunks(inputs)[b][i] = inputs[End(inputs, b - 1) + i]
<1> DEFINE size == Len(inputs)
           B == BatchSize
           n == (size + B - 1) \div B
           last(i) == IF i * B <= size THEN i * B ELSE size
           chunk(i) == SubSeq(inputs, (i - 1) * B + 1, last(i))
<1>1. size \in Nat \ {0} /\ B \in Nat \ {0} /\ inputs \in Seq(Texts)
  BY RequestIsSeq, BatchSizePositive
<1>2. Chunks(inputs) = [i \in 1..n |-> chunk(i)]
  BY DEF Chunks
<1>3. n \in Nat /\ n * B <= size + B - 1
  BY <1>1
<1>4. ASSUME NEW i \in 1..n
      PROVE  /\ (i - 1) * B \in Nat /\ (i - 1) * B < size
             /\ (i - 1) * B < last(i) /\ last(i) \in 1..size
             /\ End(inputs, i - 1) = (i - 1) * B /\ End(inputs, i) = last(i)
  <2> DEFINE before == (i - 1) * B
  <2>1. i * B = before + B /\ before \in Nat
    BY <1>1, <1>3
  <2>2. i * B <= n * B
    BY <1>1, <1>3
  <2>3. before < size
    BY <1>1, <1>3, <2>1, <2>2
  <2>4. before < last(i) /\ last(i) \in 1..size
    BY <1>1, <2>1, <2>3
  <2>5. End(inputs, i - 1) = before /\ End(inputs, i) = last(i)
    BY <2>3, <1>1, <2>1 DEF End
  <2> QED
    BY <2>1, <2>3, <2>4, <2>5
<1>5. ASSUME NEW i \in 1..n
      PROVE  /\ chunk(i) \in Seq(Texts)
             /\ Len(chunk(i)) = last(i) - (i - 1) * B
             /\ \A j \in 1..Len(chunk(i)) : chunk(i)[j] = inputs[(i - 1) * B + j]
  <2> DEFINE before == (i - 1) * B
             end == last(i)
  <2>1. before \in Nat /\ end \in 1..size /\ before < end
    BY <1>4
  <2> HIDE DEF before, end
  <2>2. /\ SubSeq(inputs, before + 1, end) \in Seq(Texts)
        /\ Len(SubSeq(inputs, before + 1, end)) = end - before
        /\ \A j \in 1..(end - before) : SubSeq(inputs, before + 1, end)[j] = inputs[before + j]
    BY <1>1, <2>1
  <2> QED
    BY <2>2 DEF before, end
<1> HIDE DEF n, chunk, last
<1>6. Chunks(inputs) \in Seq(Seq(Texts)) /\ DOMAIN Chunks(inputs) = 1..n
  BY <1>2, <1>3, <1>5
<1> QED
  BY <1>2, <1>4, <1>5, <1>6

LEMMA EndBounds ==
    ASSUME NEW inputs \in Requests
    PROVE  /\ End(inputs, 0) = 0
           /\ \A k \in Nat : End(inputs, k) \in 0..Len(inputs)
BY RequestIsSeq, BatchSizePositive DEF End

(* What the provider answers with is as it was asked, or counts wrong.     *)
LEMMA EmbeddedVectors ==
    ASSUME NEW texts \in Seq(Texts), Len(texts) > 0,
           NEW dims \in Dimensions, NEW count \in Counts
    PROVE  LET vectors == Embedded(texts, dims, count)
           IN  /\ vectors \in Seq(Vectors)
               /\ \A i \in DOMAIN vectors : vectors[i].dims = dims
               /\ count = 0 => /\ Len(vectors) = Len(texts)
                               /\ \A i \in 1..Len(texts) : vectors[i].of = texts[i]
<1> DEFINE right == [i \in DOMAIN texts |-> Vector(texts[i], dims)]
           extra == Vector(<<>>, dims)
<1>1. /\ right \in Seq(Vectors) /\ Len(right) = Len(texts)
      /\ \A i \in 1..Len(texts) : right[i].of = texts[i] /\ right[i].dims = dims
  <2>1. /\ DOMAIN texts = 1..Len(texts) /\ Len(texts) \in Nat
        /\ \A i \in 1..Len(texts) : texts[i] \in Texts
    BY LenProperties, ElementOfSeq
  <2>2. /\ right = [i \in 1..Len(texts) |-> Vector(texts[i], dims)]
        /\ \A i \in 1..Len(texts) : Vector(texts[i], dims) \in Vectors
    BY <2>1 DEF Vector, Vectors
  <2>3. right \in Seq(Vectors) /\ Len(right) = Len(texts)
    BY <2>1, <2>2
  <2> QED
    BY <2>1, <2>2, <2>3 DEF Vector
<1>2. extra \in Vectors /\ extra.dims = dims
  BY DEF Vector, Vectors
<1>3. CASE count = 0
  <2>1. Embedded(texts, dims, count) = right
    BY <1>3 DEF Embedded
  <2> HIDE DEF right
  <2> QED
    BY <1>1, <2>1
<1>4. CASE count = 1
  <2>1. Embedded(texts, dims, count) = Append(right, extra)
    BY <1>4 DEF Embedded
  <2> DEFINE vectors == Append(right, extra)
  <2> HIDE DEF right, extra
  <2>2. vectors \in Seq(Vectors)
    BY <1>1, <1>2
  <2>3. /\ DOMAIN vectors = 1..(Len(texts) + 1) /\ Len(texts) \in Nat
        /\ vectors[Len(texts) + 1] = extra
        /\ \A i \in 1..Len(texts) : vectors[i] = right[i]
    BY <1>1, <1>2
  <2> HIDE DEF vectors
  <2>4. \A i \in DOMAIN vectors : i = Len(texts) + 1 \/ i \in 1..Len(texts)
    BY <2>3
  <2>5. \A i \in DOMAIN vectors : vectors[i].dims = dims
    BY <1>1, <1>2, <2>3, <2>4
  <2>6. Embedded(texts, dims, count) = vectors /\ count # 0
    BY <1>4, <2>1 DEF vectors
  <2> QED
    BY <2>2, <2>5, <2>6
<1>5. CASE count = 2
  <2>1. Embedded(texts, dims, count) = SubSeq(right, 1, Len(right) - 1)
    BY <1>5 DEF Embedded, Front
  <2> HIDE DEF right
  <2>2. Len(right) - 1 \in 0..Len(right)
    BY <1>1
  <2>3. /\ SubSeq(right, 1, Len(right) - 1) \in Seq(Vectors)
        /\ Len(SubSeq(right, 1, Len(right) - 1)) = Len(right) - 1
        /\ \A i \in 1..(Len(right) - 1) : SubSeq(right, 1, Len(right) - 1)[i] = right[i]
    BY <1>1, <2>2
  <2>4. \A i \in DOMAIN SubSeq(right, 1, Len(right) - 1) :
          SubSeq(right, 1, Len(right) - 1)[i].dims = dims
    BY <1>1, <2>2, <2>3
  <2>5. /\ Embedded(texts, dims, count) \in Seq(Vectors)
        /\ \A i \in DOMAIN Embedded(texts, dims, count) :
            Embedded(texts, dims, count)[i].dims = dims
    BY <2>1, <2>3, <2>4
  <2>6. ~(count = 0)
    BY <1>5
  <2> QED
    BY <2>5, <2>6, Zenon
<1> QED
  BY <1>3, <1>4, <1>5, EmbeddingAssumption

-----------------------------------------------------------------------------
(* What a call holds *)

(* No two requests of different texts share a key that is looked up.       *)
KeysAreRequests ==
    CacheEnabled => \A r, s \in Requests : CacheKey(r) = CacheKey(s) => r = s

(* A batch's vectors all come with the dimensions its response stated; a   *)
(* call's with those it states, but for the first that came with none.     *)
Uniform(batch) == \A i \in DOMAIN batch.vectors : batch.vectors[i].dims = batch.dims
Stated(value) == StatedAs(value.vectors, value.dims)

Faithful(value, inputs) ==
    value.exact => \A i \in DOMAIN inputs : value.vectors[i].of = inputs[i]

Batches ==
    [pc : {"asking", "backoff", "answered", "failed"}, texts : Seq(Texts),
     attempt : 1..MaxAttempts, vectors : Seq(Vectors), dims : Dimensions \cup {0},
     exact : BOOLEAN]

(* Batch b of a request: its share of the inputs, and their vectors.       *)
BatchOf(batch, inputs, b) ==
    /\ batch \in Batches
    /\ Len(batch.texts) = End(inputs, b) - End(inputs, b - 1) /\ Len(batch.texts) > 0
    /\ \A i \in 1..Len(batch.texts) : batch.texts[i] = inputs[End(inputs, b - 1) + i]
    /\ batch.pc = "backoff" => batch.attempt < MaxAttempts
    /\ Uniform(batch)
    /\ batch.pc = "answered" /\ batch.exact =>
        /\ Len(batch.vectors) = Len(batch.texts)
        /\ \A i \in 1..Len(batch.texts) : batch.vectors[i].of = batch.texts[i]

Fields(state) ==
    /\ state.batches \in Seq(Batches)
    /\ state.taken \in 0..Len(state.batches)
    /\ state.vectors \in Seq(Vectors) /\ state.dims \in Dimensions \cup {0}
    /\ state.exact \in BOOLEAN

(* What has been taken is a prefix of the inputs' vectors.                 *)
Prefix(state) ==
    state.exact => /\ Len(state.vectors) = End(state.inputs, state.taken)
                   /\ \A i \in 1..Len(state.vectors) : state.vectors[i].of = state.inputs[i]

Batched(state) == \A b \in DOMAIN state.batches : BatchOf(state.batches[b], state.inputs, b)

Replied(state) ==
    state.reply.status = "ok" =>
        Stated(state.reply.value) /\ (KeysAreRequests => Faithful(state.reply.value, state.inputs))

Untouched(state) ==
    /\ state.batches = <<>> /\ state.taken = 0 /\ state.vectors = <<>>
    /\ state.dims = 0 /\ state.exact = TRUE

Sound(state) ==
    /\ Right(state) /\ Fields(state) /\ Stated(state) /\ Prefix(state) /\ Batched(state)
    /\ Replied(state)
    /\ state.pc \in {"lookup", "store"} => CacheEnabled
    /\ state.pc = "lookup" => Untouched(state)

CachedSound ==
    /\ \A k \in Cached : Stated(cacheMap[k].value)
    /\ CacheEnabled /\ KeysAreRequests => \A r \in Requests : CacheKey(r) \in Cached =>
        Faithful(cacheMap[CacheKey(r)].value, r)

AnswerInv ==
    /\ EngineInv /\ CachedSound
    /\ \A c \in Callers : Sound(call[c])

-----------------------------------------------------------------------------
LEMMA Fresh ==
    ASSUME NEW state, Right(state), Untouched(state)
    PROVE  Fields(state) /\ Stated(state) /\ Prefix(state) /\ Batched(state)
<1> USE DEF Untouched
<1>1. state.inputs \in Requests
  BY DEF Right, Shaped
<1>2. Len(state.vectors) = End(state.inputs, state.taken)
  BY <1>1, EndBounds
<1>3. /\ <<>> \in Seq(Batches) /\ <<>> \in Seq(Vectors)
      /\ Len(<<>>) = 0 /\ DOMAIN <<>> = {}
  BY EmptySeq
<1>4. Fields(state)
  <2>1. state.taken \in 0..Len(state.batches)
    BY <1>3
  <2> QED
    BY <1>3, <2>1 DEF Fields
<1>5. Stated(state) /\ Batched(state)
  <2>1. DOMAIN state.vectors = {} /\ DOMAIN state.batches = {}
    BY <1>3
  <2> QED
    BY <2>1 DEF Stated, StatedAs, Batched
<1>6. Prefix(state)
  BY <1>2, <1>3 DEF Prefix
<1> QED
  BY <1>4, <1>5, <1>6

LEMMA NewCallSound ==
    /\ Sound(Idle)
    /\ \A inputs \in Requests : CacheEnabled => Sound(NewCall(inputs))
<1>1. Sound(Idle)
  BY NewCallRight, Fresh DEF Sound, Idle, NewCall, NoReply, Replied, Untouched
<1>2. ASSUME NEW inputs \in Requests, CacheEnabled PROVE Sound(NewCall(inputs))
  BY <1>2, NewCallRight, Fresh DEF Sound, NewCall, NoReply, Replied, Untouched
<1> QED
  BY <1>1, <1>2

LEMMA EndedSound ==
    ASSUME NEW state, Right(state), NEW reply, Right(Ended(state, reply)),
           reply.status = "ok" =>
               Stated(reply.value) /\ (KeysAreRequests => Faithful(reply.value, state.inputs))
    PROVE  Sound(Ended(state, reply))
<1>1. /\ Untouched(Ended(state, reply)) /\ Ended(state, reply).pc = "idle"
      /\ Ended(state, reply).reply = reply /\ Ended(state, reply).inputs = state.inputs
  BY DEF Ended, Idle, NewCall, Untouched
<1> QED
  BY <1>1, Fresh DEF Sound, Replied

LEMMA FailedSound ==
    ASSUME NEW state, Right(state), NEW why, why # "ok"
    PROVE  Sound(Ended(state, Failed(why)))
BY EndedRight, EndedSound DEF Failed

LEMMA FanOutSound ==
    ASSUME NEW state, Right(state), Untouched(state), Replied(state)
    PROVE  Sound(FanOut(state))
<1> DEFINE inputs == state.inputs
           chunks == Chunks(inputs)
           batches == [i \in DOMAIN chunks |-> Asking(chunks[i])]
           n == Len(chunks)
           fanned == [state EXCEPT !.pc = "embedding", !.sent = n, !.batches = batches]
<1>1. inputs \in Requests
  BY DEF Right, Shaped
<1>2. FanOut(state) = fanned
  BY DEF FanOut
<1>3. /\ chunks \in Seq(Seq(Texts)) /\ n \in Nat /\ DOMAIN chunks = 1..n
      /\ \A b \in 1..n : chunks[b] \in Seq(Texts)
  BY <1>1, ChunkTexts, LenProperties, ElementOfSeq
<1>4. ASSUME NEW b \in 1..n PROVE BatchOf(Asking(chunks[b]), inputs, b)
  <2> DEFINE texts == chunks[b]
  <2>1. /\ texts \in Seq(Texts)
        /\ Len(texts) = End(inputs, b) - End(inputs, b - 1) /\ Len(texts) > 0
        /\ \A i \in 1..Len(texts) : texts[i] = inputs[End(inputs, b - 1) + i]
    <3>1. b \in Nat /\ b - 1 \in Nat /\ b \in DOMAIN chunks
      BY <1>3
    <3>2. End(inputs, b) \in Nat /\ End(inputs, b - 1) \in Nat
      BY <1>1, <3>1, EndBounds, RequestIsSeq
    <3>3. /\ End(inputs, b - 1) < End(inputs, b)
          /\ Len(texts) = End(inputs, b) - End(inputs, b - 1)
          /\ \A i \in 1..Len(texts) : texts[i] = inputs[End(inputs, b - 1) + i]
      BY <1>1, <3>1, ChunkTexts
    <3> QED
      BY <1>3, <3>2, <3>3
  <2> HIDE DEF texts
  <2>2. 1 \in 1..MaxAttempts
    BY EmbeddingAssumption
    DEF ValidEmbedding, Answerable, EmbeddingSpec, EmbeddingDefaults
  <2>3. BatchOf(Asking(texts), inputs, b)
    BY <2>1, <2>2 DEF BatchOf, Batches, Asking, Uniform
  <2> QED
    BY <2>3 DEF texts
<1>5. /\ batches \in Seq(Batches)
      /\ Len(batches) = n /\ DOMAIN batches = 1..n
      /\ \A b \in 1..n : batches[b] = Asking(chunks[b])
  <2>1. \A b \in 1..n : Asking(chunks[b]) \in Batches
    BY <1>4 DEF BatchOf
  <2>2. batches = [b \in 1..n |-> Asking(chunks[b])]
    BY <1>3
  <2> HIDE DEF chunks
  <2> QED
    BY <1>3, <2>1, <2>2
<1>6. Right(fanned)
  BY <1>2, FanOutRight
<1> HIDE DEF chunks, n, batches
<1>7. /\ fanned.batches = batches /\ fanned.taken = 0 /\ fanned.vectors = <<>>
      /\ fanned.dims = 0 /\ fanned.exact = TRUE /\ fanned.inputs = inputs
      /\ fanned.reply = state.reply /\ fanned.pc = "embedding"
  BY DEF Right, Shaped, Untouched
<1> HIDE DEF fanned, inputs
<1>8. Batched(fanned)
  BY <1>4, <1>5, <1>7 DEF Batched
<1>9. Fields(fanned) /\ Stated(fanned) /\ Replied(fanned)
  <2>1. <<>> \in Seq(Vectors) /\ DOMAIN <<>> = {}
    BY EmptySeq
  <2>2. Fields(fanned)
    <3>1. fanned.batches \in Seq(Batches) /\ fanned.taken \in 0..Len(fanned.batches)
      BY <1>3, <1>5, <1>7
    <3>2. fanned.vectors \in Seq(Vectors)
      BY <1>7, <2>1
    <3> QED
      BY <1>7, <3>1, <3>2 DEF Fields
  <2>3. Stated(fanned)
    <3>1. DOMAIN fanned.vectors = {}
      BY <1>7, <2>1
    <3> QED
      BY <3>1 DEF Stated, StatedAs
  <2> QED
    BY <1>7, <2>2, <2>3 DEF Replied, inputs
<1>10. Prefix(fanned)
  BY <1>1, <1>7, EndBounds DEF Prefix
<1>11. Sound(fanned)
  BY <1>6, <1>7, <1>8, <1>9, <1>10 DEF Sound
<1> QED
  BY <1>2, <1>11

(* A batch of a call that waits for its batches moves.                     *)
LEMMA BatchMovesSound ==
    ASSUME NEW state, Sound(state), state.pc = "embedding", NEW sent,
           NEW b \in DOMAIN state.batches, NEW batch, BatchOf(batch, state.inputs, b)
    PROVE  Sound([state EXCEPT !.batches = [state.batches EXCEPT ![b] = batch], !.sent = sent])
<1> DEFINE batches == [state.batches EXCEPT ![b] = batch]
           moved == [state EXCEPT !.batches = batches, !.sent = sent]
<1>1. /\ state.batches \in Seq(Batches) /\ batch \in Batches
      /\ \A j \in DOMAIN state.batches : BatchOf(state.batches[j], state.inputs, j)
  BY DEF Sound, Fields, Batched, BatchOf
<1>2. /\ batches \in Seq(Batches) /\ Len(batches) = Len(state.batches)
      /\ DOMAIN batches = DOMAIN state.batches
      /\ \A j \in DOMAIN batches : BatchOf(batches[j], state.inputs, j)
  BY <1>1
<1> HIDE DEF batches
<1>3. /\ moved.batches = batches /\ moved.taken = state.taken /\ moved.vectors = state.vectors
      /\ moved.dims = state.dims /\ moved.exact = state.exact /\ moved.inputs = state.inputs
      /\ moved.reply = state.reply /\ moved.pc = "embedding" /\ Right(moved)
  BY DEF Sound, Right, Shaped
<1> HIDE DEF moved
<1>4. Fields(moved) /\ Batched(moved)
  BY <1>2, <1>3 DEF Sound, Fields, Batched
<1>5. Stated(moved) /\ Prefix(moved) /\ Replied(moved)
  BY <1>3 DEF Sound, Stated, Prefix, Replied
<1>6. Sound(moved)
  BY <1>3, <1>4, <1>5 DEF Sound
<1> QED
  BY <1>6 DEF moved, batches

LEMMA ConcatParts ==
    ASSUME NEW S, NEW s \in Seq(S), NEW t \in Seq(S)
    PROVE  /\ s \o t \in Seq(S) /\ Len(s \o t) = Len(s) + Len(t)
           /\ Len(s) \in Nat /\ Len(t) \in Nat
           /\ \A i \in 1..Len(s) : (s \o t)[i] = s[i]
           /\ \A i \in 1..Len(t) : (s \o t)[Len(s) + i] = t[i]
           /\ \A i \in 1..Len(s \o t) : i \in 1..Len(s) \/ \E j \in 1..Len(t) : i = Len(s) + j
<1>1. s \o t \in Seq(S) /\ Len(s \o t) = Len(s) + Len(t) /\ Len(s) \in Nat /\ Len(t) \in Nat
  BY ConcatProperties, LenProperties
<1>2. \A i \in 1..(Len(s) + Len(t)) :
        (s \o t)[i] = IF i <= Len(s) THEN s[i] ELSE t[i - Len(s)]
  BY ConcatProperties
<1>3. \A i \in 1..Len(s) : (s \o t)[i] = s[i]
  BY <1>1, <1>2
<1>4. ASSUME NEW i \in 1..Len(t) PROVE (s \o t)[Len(s) + i] = t[i]
  <2>1. Len(s) + i \in 1..(Len(s) + Len(t)) /\ ~(Len(s) + i <= Len(s)) /\ (Len(s) + i) - Len(s) = i
    BY <1>1
  <2> QED
    BY <1>2, <2>1
<1>5. ASSUME NEW i \in 1..Len(s \o t), i \notin 1..Len(s)
      PROVE  \E j \in 1..Len(t) : i = Len(s) + j
  <2>1. i - Len(s) \in 1..Len(t) /\ i = Len(s) + (i - Len(s))
    BY <1>1, <1>5
  <2> QED
    BY <2>1
<1> QED
  BY <1>1, <1>3, <1>4, <1>5

LEMMA TakenSound ==
    ASSUME NEW state, Sound(state), state.pc = "embedding", state.taken < Len(state.batches),
           NEW batch, batch = state.batches[state.taken + 1], batch.pc = "answered",
           Agrees(state, batch)
    PROVE  Sound(Taken(state, batch))
<1> DEFINE b == state.taken + 1
           inputs == state.inputs
           dims == IF state.dims = 0 THEN batch.dims ELSE state.dims
           vectors == state.vectors \o batch.vectors
           exact == state.exact /\ batch.exact
           taken == Taken(state, batch)
<1>1. /\ b \in 1..Len(state.batches) /\ state.taken = b - 1 /\ inputs \in Requests
      /\ state.vectors \in Seq(Vectors) /\ batch.vectors \in Seq(Vectors)
      /\ state.dims \in Dimensions \cup {0} /\ batch.dims \in Dimensions \cup {0}
      /\ state.exact \in BOOLEAN /\ batch.exact \in BOOLEAN
      /\ BatchOf(batch, inputs, b)
  <2>1. b \in DOMAIN state.batches /\ b \in 1..Len(state.batches) /\ state.taken = b - 1
    BY DEF Sound, Fields
  <2>2. BatchOf(batch, inputs, b) /\ inputs \in Requests
    BY <2>1 DEF Sound, Batched, Right, Shaped
  <2> QED
    BY <2>1, <2>2 DEF Sound, Fields, BatchOf, Batches
<1>2. /\ taken.batches = state.batches /\ taken.taken = b /\ taken.vectors = vectors
      /\ taken.dims = dims /\ taken.exact = exact /\ taken.inputs = inputs
      /\ taken.reply = state.reply /\ taken.pc = "embedding"
  BY DEF Taken, Sound, Right, Shaped
<1>3. Right(taken)
  BY TakenRight DEF Sound
<1>4. /\ vectors \in Seq(Vectors) /\ Len(vectors) = Len(state.vectors) + Len(batch.vectors)
      /\ \A i \in 1..Len(state.vectors) : vectors[i] = state.vectors[i]
      /\ \A i \in 1..Len(batch.vectors) : vectors[Len(state.vectors) + i] = batch.vectors[i]
      /\ Len(state.vectors) \in Nat /\ Len(batch.vectors) \in Nat
      /\ \A i \in 1..Len(vectors) :
            \/ i \in 1..Len(state.vectors)
            \/ \E j \in 1..Len(batch.vectors) : i = Len(state.vectors) + j
  <2> DEFINE s == state.vectors
             t == batch.vectors
  <2>1. s \in Seq(Vectors) /\ t \in Seq(Vectors)
    BY <1>1
  <2> HIDE DEF s, t
  <2>2. /\ s \o t \in Seq(Vectors) /\ Len(s \o t) = Len(s) + Len(t)
        /\ Len(s) \in Nat /\ Len(t) \in Nat
    BY <2>1, ConcatParts
  <2>3. /\ \A i \in 1..Len(s) : (s \o t)[i] = s[i]
        /\ \A i \in 1..Len(t) : (s \o t)[Len(s) + i] = t[i]
    BY <2>1, ConcatParts, SMTT(30)
  <2>4. \A i \in 1..Len(s \o t) : i \in 1..Len(s) \/ \E j \in 1..Len(t) : i = Len(s) + j
    BY <2>1, ConcatParts, SMTT(30)
  <2> QED
    BY <2>2, <2>3, <2>4 DEF s, t
<1>5. /\ \A i \in 1..Len(state.vectors) :
            \/ state.vectors[i].dims = state.dims
            \/ \A j \in 1..i : state.vectors[j].dims = 0
      /\ \A i \in 1..Len(batch.vectors) : batch.vectors[i].dims = batch.dims
  <2>1. /\ DOMAIN state.vectors = 1..Len(state.vectors)
        /\ DOMAIN batch.vectors = 1..Len(batch.vectors)
    BY <1>1, LenProperties
  <2>2. Stated(state) /\ Uniform(batch)
    BY <1>1 DEF Sound, BatchOf
  <2> QED
    BY <2>1, <2>2 DEF Uniform, Stated, StatedAs
<1>6. /\ batch.dims = dims
      /\ \A i \in 1..Len(state.vectors) :
            \/ state.vectors[i].dims = dims
            \/ \A j \in 1..i : state.vectors[j].dims = 0
  <2>1. CASE state.dims # 0
    BY <1>5, <2>1 DEF Agrees
  <2>2. CASE state.dims = 0
    <3>1. \A i \in 1..Len(state.vectors) : state.vectors[i].dims = 0
      BY <1>4, <1>5, <2>2
    <3>2. \A i \in 1..Len(state.vectors) : \A j \in 1..i : j \in 1..Len(state.vectors)
      BY <1>4
    <3> QED
      BY <2>2, <3>1, <3>2
  <2> QED
    BY <2>1, <2>2
<1>7. \A i \in 1..Len(vectors) :
        vectors[i].dims = dims \/ \A j \in 1..i : vectors[j].dims = 0
  <2> HIDE DEF vectors, dims
  <2> SUFFICES ASSUME NEW i \in 1..Len(vectors)
               PROVE  vectors[i].dims = dims \/ \A j \in 1..i : vectors[j].dims = 0
    OBVIOUS
  <2>1. CASE i \in 1..Len(state.vectors)
    <3>1. \A j \in 1..i : j \in 1..Len(state.vectors)
      BY <1>4, <2>1
    <3> QED
      BY <1>4, <1>6, <2>1, <3>1
  <2>2. CASE \E j \in 1..Len(batch.vectors) : i = Len(state.vectors) + j
    <3>1. PICK j \in 1..Len(batch.vectors) : i = Len(state.vectors) + j
      BY <2>2
    <3> QED
      BY <1>4, <1>5, <1>6, <3>1
  <2> QED
    BY <1>4, <2>1, <2>2
<1>8. exact => /\ Len(vectors) = End(inputs, b)
               /\ \A i \in 1..Len(vectors) : vectors[i].of = inputs[i]
  <2> SUFFICES ASSUME exact
               PROVE  /\ Len(vectors) = End(inputs, b)
                      /\ \A i \in 1..Len(vectors) : vectors[i].of = inputs[i]
    OBVIOUS
  <2>1. /\ Len(state.vectors) = End(inputs, b - 1)
        /\ \A i \in 1..Len(state.vectors) : state.vectors[i].of = inputs[i]
    BY <1>1 DEF Sound, Prefix
  <2>2. /\ Len(batch.vectors) = End(inputs, b) - End(inputs, b - 1)
        /\ \A i \in 1..Len(batch.vectors) : batch.vectors[i].of = inputs[End(inputs, b - 1) + i]
    BY <1>1 DEF BatchOf
  <2> HIDE DEF inputs, b
  <2>3. End(inputs, b) \in Nat /\ End(inputs, b - 1) \in Nat
    <3>1. b \in Nat /\ b - 1 \in Nat
      BY <1>1
    <3>2. 0..Len(inputs) \subseteq Nat
      BY <1>1, RequestIsSeq
    <3> QED
      BY <1>1, <3>1, <3>2, EndBounds, Zenon
  <2>4. Len(vectors) = End(inputs, b)
    BY <1>4, <2>1, <2>2, <2>3
  <2> HIDE DEF vectors
  <2>5. ASSUME NEW i \in 1..Len(vectors) PROVE vectors[i].of = inputs[i]
    <3>1. CASE i \in 1..Len(state.vectors)
      BY <1>4, <2>1, <3>1
    <3>2. CASE \E j \in 1..Len(batch.vectors) : i = Len(state.vectors) + j
      <4>1. PICK j \in 1..Len(batch.vectors) : i = Len(state.vectors) + j
        BY <3>2
      <4> QED
        BY <1>4, <2>1, <2>2, <4>1
    <3> QED
      BY <1>4, <3>1, <3>2
  <2> QED
    BY <2>4, <2>5
<1> HIDE DEF vectors, dims, exact, taken, inputs, b
<1>9. Fields(taken)
  <2>1. exact \in BOOLEAN /\ dims \in Dimensions \cup {0} /\ b \in 0..Len(state.batches)
    BY <1>1 DEF exact, dims
  <2> QED
    BY <1>2, <1>4, <2>1 DEF Sound, Fields
<1>10. Stated(taken) /\ Prefix(taken)
  <2>1. DOMAIN vectors = 1..Len(vectors)
    BY <1>4, LenProperties
  <2> QED
    BY <1>2, <1>7, <1>8, <2>1 DEF Stated, StatedAs, Prefix
<1>11. Batched(taken) /\ Replied(taken)
  BY <1>2 DEF Sound, Batched, Replied, inputs
<1>12. Sound(taken)
  BY <1>2, <1>3, <1>9, <1>10, <1>11 DEF Sound
<1> QED
  BY <1>12 DEF taken

-----------------------------------------------------------------------------
LEMMA CallMovesSound ==
    ASSUME AnswerInv, EngineInv', NEW c \in Callers, NEW state, Sound(state), Moves(c, state),
           CachedSound'
    PROVE  AnswerInv'
BY DEF AnswerInv, EngineInv, Moves

LEMMA BecomeSound ==
    ASSUME AnswerInv, EngineInv', NEW c \in Callers, NEW state, Sound(state), Become(c, state)
    PROVE  AnswerInv'
<1>1. UNCHANGED cacheVars /\ Moves(c, state)
  BY DEF Become
<1>2. CachedSound'
  BY <1>1 DEF AnswerInv, CachedSound, Cached, cacheVars, cacheInner
<1> QED
  BY <1>1, <1>2, CallMovesSound

LEMMA LessCachedSound ==
    ASSUME AnswerInv, \A k \in CacheKeys : cacheMap'[k] \in {NoEntry, cacheMap[k]}
    PROVE  CachedSound'
BY KeysAssumption DEF AnswerInv, CachedSound, Cached

LEMMA PopSound ==
    ASSUME AnswerInv, NEW k \in Cached, CachePop(k)
    PROVE  CachedSound'
<1>1. \A j \in CacheKeys : cacheMap'[j] \in {NoEntry, cacheMap[j]}
  BY DEF CachePop, AnswerInv, EngineInv, CacheInv, CacheShape
<1> QED
  BY <1>1, LessCachedSound

LEMMA PutSound ==
    ASSUME AnswerInv, NEW inputs \in Requests, NEW value, Stated(value),
           KeysAreRequests => Faithful(value, inputs),
           CachePut(CacheKey(inputs), value, TtlSeconds)
    PROVE  CachedSound'
<1>1. \A j \in CacheKeys :
        \/ cacheMap'[j] \in {NoEntry, cacheMap[j]}
        \/ j = CacheKey(inputs) /\ cacheMap'[j].value = value
  BY DEF CachePut, cacheVars, cacheInner
<1>2. \A k \in Cached' : Stated(cacheMap'[k].value)
  BY <1>1 DEF AnswerInv, CachedSound, Cached
<1>3. ASSUME CacheEnabled, KeysAreRequests, NEW r \in Requests, CacheKey(r) \in Cached'
      PROVE  Faithful(cacheMap'[CacheKey(r)].value, r)
  <2>1. CacheKey(r) \in CacheKeys /\ (CacheKey(r) = CacheKey(inputs) => r = inputs)
    BY <1>3, KeysAssumption DEF KeysAreRequests
  <2>2. cacheMap'[CacheKey(r)] # NoEntry
    BY <1>3 DEF Cached
  <2> QED
    BY <1>1, <1>3, <2>1, <2>2 DEF AnswerInv, CachedSound, Cached
<1> QED
  BY <1>2, <1>3 DEF CachedSound

LEMMA AnswersSound ==
    ASSUME AnswerInv, EngineInv', NEW c \in Callers, NEW b \in DOMAIN call[c].batches,
           Answers(c, b)
    PROVE  AnswerInv'
<1> DEFINE old == call[c].batches[b]
<1>1. /\ Sound(call[c]) /\ call[c].pc = "embedding" /\ BatchOf(old, call[c].inputs, b)
      /\ old.pc = "asking"
  BY DEF AnswerInv, Answers, InFlight, At, Sound, Batched
<1>2. PICK stated \in Dimensions, count \in Counts :
        Become(c, [call[c] EXCEPT
            !.batches[b].pc = "answered", !.batches[b].dims = stated,
            !.batches[b].vectors = Embedded(old.texts, stated, count),
            !.batches[b].exact = count = 0])
  BY DEF Answers
<1> DEFINE vectors == Embedded(old.texts, stated, count)
           ok == count = 0
           batch == [old EXCEPT !.pc = "answered", !.dims = stated, !.vectors = vectors,
                                !.exact = ok]
           state == [call[c] EXCEPT
                        !.batches[b].pc = "answered", !.batches[b].dims = stated,
                        !.batches[b].vectors = vectors, !.batches[b].exact = ok]
<1>3. Become(c, state)
  BY <1>2
<1>4. /\ vectors \in Seq(Vectors) /\ ok \in BOOLEAN
      /\ \A i \in DOMAIN vectors : vectors[i].dims = stated
      /\ ok => /\ Len(vectors) = Len(old.texts)
               /\ \A i \in 1..Len(old.texts) : vectors[i].of = old.texts[i]
  <2>1. old.texts \in Seq(Texts) /\ Len(old.texts) > 0
    BY <1>1 DEF BatchOf, Batches
  <2> QED
    BY <2>1, EmbeddedVectors
<1> HIDE DEF vectors, ok, old
<1>5. BatchOf(batch, call[c].inputs, b)
  BY <1>1, <1>4 DEF BatchOf, Batches, Uniform
<1>6. state = [call[c] EXCEPT !.batches = [call[c].batches EXCEPT ![b] = batch],
                              !.sent = call[c].sent]
  <2>1. Shaped(call[c]) /\ old \in Batches
    BY <1>1 DEF Sound, Right, BatchOf
  <2>2. state.batches = [call[c].batches EXCEPT ![b] = batch]
    BY <2>1 DEF Shaped, Batches, old
  <2>3. state = [call[c] EXCEPT !.batches = state.batches]
    BY <2>1 DEF Shaped
  <2> HIDE DEF batch, state
  <2> QED
    BY <2>1, <2>2, <2>3 DEF Shaped
<1> HIDE DEF batch, state
<1>7. Sound(state)
  BY <1>1, <1>5, <1>6, BatchMovesSound
<1> QED
  BY <1>3, <1>7, BecomeSound

LEMMA BatchStepSound ==
    ASSUME AnswerInv, EngineInv', NEW c \in Callers, BatchStep(c)
    PROVE  AnswerInv'
<1>1. PICK b \in DOMAIN call[c].batches :
        Answers(c, b) \/ RetryLater(c, b) \/ GiveUp(c, b) \/ Wake(c, b)
  BY DEF BatchStep
<1> DEFINE old == call[c].batches[b]
<1>2. /\ Sound(call[c]) /\ call[c].pc = "embedding" /\ BatchOf(old, call[c].inputs, b)
  BY <1>1 DEF AnswerInv, Answers, RetryLater, GiveUp, Wake, InFlight, At, Sound, Batched
<1>3. CASE Answers(c, b)
  BY <1>3, AnswersSound
<1>4. CASE RetryLater(c, b)
  <2> DEFINE batch == [old EXCEPT !.pc = "backoff"]
             state == [call[c] EXCEPT !.batches[b].pc = "backoff"]
  <2>1. old.attempt < MaxAttempts
    BY <1>4 DEF RetryLater
  <2> HIDE DEF old
  <2>2. BatchOf(batch, call[c].inputs, b)
    BY <1>2, <2>1 DEF BatchOf, Batches, Uniform
  <2>3. state = [call[c] EXCEPT !.batches = [call[c].batches EXCEPT ![b] = batch],
                                !.sent = call[c].sent]
    BY <1>2 DEF Sound, Right, Shaped, Fields, BatchOf, Batches, old
  <2>4. Become(c, state)
    BY <1>4 DEF RetryLater
  <2> HIDE DEF batch, state
  <2> QED
    BY <1>2, <2>2, <2>3, <2>4, BatchMovesSound, BecomeSound
<1>5. CASE GiveUp(c, b)
  <2> DEFINE batch == [old EXCEPT !.pc = "failed"]
             state == [call[c] EXCEPT !.batches[b].pc = "failed"]
  <2> HIDE DEF old
  <2>2. BatchOf(batch, call[c].inputs, b)
    BY <1>2 DEF BatchOf, Batches, Uniform
  <2>3. state = [call[c] EXCEPT !.batches = [call[c].batches EXCEPT ![b] = batch],
                                !.sent = call[c].sent]
    BY <1>2 DEF Sound, Right, Shaped, Fields, BatchOf, Batches, old
  <2>4. Become(c, state)
    BY <1>5 DEF GiveUp
  <2> HIDE DEF batch, state
  <2> QED
    BY <1>2, <2>2, <2>3, <2>4, BatchMovesSound, BecomeSound
<1>6. CASE Wake(c, b)
  <2> DEFINE batch == [old EXCEPT !.pc = "asking", !.attempt = @ + 1]
             state == [call[c] EXCEPT !.batches[b].pc = "asking",
                                      !.batches[b].attempt = @ + 1, !.sent = @ + 1]
  <2>1. old.pc = "backoff"
    BY <1>6 DEF Wake, InFlight
  <2> HIDE DEF old
  <2>2. BatchOf(batch, call[c].inputs, b)
    <3>1. old.attempt + 1 \in 1..MaxAttempts
      BY <1>2, <2>1, EmbeddingAssumption DEF BatchOf, Batches
    <3> DEFINE next == old.attempt + 1
    <3>2. batch = [old EXCEPT !.pc = "asking", !.attempt = next]
      BY <1>2 DEF BatchOf, Batches
    <3> HIDE DEF batch, next
    <3> QED
      BY <1>2, <3>1, <3>2 DEF BatchOf, Batches, Uniform, next
  <2>3. state = [call[c] EXCEPT !.batches = [call[c].batches EXCEPT ![b] = batch],
                                !.sent = call[c].sent + 1]
    BY <1>2 DEF Sound, Right, Shaped, Fields, BatchOf, Batches, old
  <2>4. Become(c, state)
    BY <1>6 DEF Wake
  <2> HIDE DEF batch, state
  <2> QED
    BY <1>2, <2>2, <2>3, <2>4, BatchMovesSound, BecomeSound
<1> QED
  BY <1>1, <1>3, <1>4, <1>5, <1>6

-----------------------------------------------------------------------------
LEMMA AnswerInit ==
    ASSUME Init
    PROVE  AnswerInv
BY EngineInit, NewCallSound, KeysAssumption DEF Init, CacheInit, AnswerInv, CachedSound, Cached

(* What a call answers with, or stores, when it has taken its batches.     *)
LEMMA ResultSound ==
    ASSUME NEW state, Sound(state), Complete(state)
    PROVE  /\ Stated(Result(state)) /\ Faithful(Result(state), state.inputs)
           /\ Right(Ended(state, Delivered(Result(state))))
           /\ Sound(Ended(state, Delivered(Result(state))))
<1>1. /\ state.inputs \in Requests /\ DOMAIN state.inputs = 1..Len(state.inputs)
      /\ Len(state.vectors) = Len(state.inputs)
  BY RequestIsSeq DEF Sound, Right, Shaped, Complete
<1>2. Stated(Result(state)) /\ Faithful(Result(state), state.inputs)
  BY <1>1 DEF Sound, Result, Stated, Faithful, Prefix
<1>3. Right(Ended(state, Delivered(Result(state))))
  <2>1. Len(Result(state).vectors) = Len(state.inputs)
    BY <1>1 DEF Result
  <2> QED
    BY <2>1, EndedRight DEF Sound
<1> QED
  BY <1>2, <1>3, EndedSound DEF Sound, Delivered

LEMMA AnswerStep ==
    ASSUME AnswerInv, EngineInv', Next
    PROVE  AnswerInv'
<1>0. \A c \in Callers : Sound(call[c]) /\ Right(call[c])
  BY DEF AnswerInv, Sound
<1>1. ASSUME NEW c \in Callers, Begin(c) PROVE AnswerInv'
  <2>1. PICK inputs \in Requests :
          Become(c, IF CacheEnabled THEN NewCall(inputs) ELSE FanOut(NewCall(inputs)))
    BY <1>1 DEF Begin
  <2>2. Untouched(NewCall(inputs)) /\ Replied(NewCall(inputs)) /\ Right(NewCall(inputs))
    BY NewCallRight DEF NewCall, NoReply, Untouched, Replied
  <2>3. Sound(FanOut(NewCall(inputs)))
    BY <2>2, FanOutSound
  <2>4. Sound(IF CacheEnabled THEN NewCall(inputs) ELSE FanOut(NewCall(inputs)))
    BY <2>3, NewCallSound
  <2> QED
    BY <2>1, <2>4, BecomeSound
<1>2. ASSUME NEW c \in Callers, CacheHit(c) PROVE AnswerInv'
  <2> DEFINE key == CacheKey(call[c].inputs)
             value == cacheMap[key].value
  <2>1. /\ call[c].pc = "lookup" /\ CacheServes(key) /\ key \in Cached
        /\ Moves(c, Ended(call[c], Delivered(value)))
    BY <1>2 DEF CacheHit, CacheServes, At
  <2>2. call[c].inputs \in Requests /\ CacheEnabled
    BY <1>0, <2>1 DEF Sound, Right, Shaped
  <2>3. Stated(value) /\ (KeysAreRequests => Faithful(value, call[c].inputs))
    BY <2>1, <2>2 DEF AnswerInv, CachedSound
  <2>4. KeysTellApart => Len(value.vectors) = Len(call[c].inputs)
    BY <2>1, <2>2 DEF AnswerInv, EngineInv, CachedRight
  <2>5. CachedSound'
    BY <2>1 DEF CacheServes, AnswerInv, CachedSound, Cached
  <2> HIDE DEF key, value
  <2>6. Right(Ended(call[c], Delivered(value)))
    BY <1>0, <2>4, EndedRight
  <2>7. Sound(Ended(call[c], Delivered(value)))
    BY <1>0, <2>3, <2>6, EndedSound DEF Delivered
  <2> QED
    BY <2>1, <2>5, <2>7, CallMovesSound
<1>3. ASSUME NEW c \in Callers, CacheMiss(c) PROVE AnswerInv'
  <2>1. CacheMisses(CacheKey(call[c].inputs)) \/ UNCHANGED cacheVars
    BY <1>3 DEF CacheMiss
  <2>2. Sound(FanOut(call[c])) /\ Moves(c, FanOut(call[c]))
    <3>1. call[c].pc = "lookup" /\ Moves(c, FanOut(call[c]))
      BY <1>3 DEF CacheMiss, At
    <3> QED
      BY <1>0, <3>1, FanOutSound DEF Sound
  <2>3. CASE UNCHANGED cacheVars
    BY <2>2, <2>3, BecomeSound DEF Become
  <2>4. CASE \E k \in Cached : CachePop(k)
    BY <2>2, <2>4, PopSound, CallMovesSound
  <2> QED
    BY <2>1, <2>3, <2>4 DEF CacheMisses
<1>4. ASSUME NEW c \in Callers, Take(c) PROVE AnswerInv'
  <2> DEFINE batch == call[c].batches[call[c].taken + 1]
  <2>1. /\ call[c].pc = "embedding" /\ call[c].taken < Len(call[c].batches)
        /\ \/ Become(c, Ended(call[c], Failed("provider")))
           \/ Become(c, Ended(call[c], Failed("dimensions")))
           \/ /\ batch.pc = "answered" /\ Agrees(call[c], batch)
              /\ Become(c, Taken(call[c], batch))
    BY <1>4 DEF Take, At
  <2>2. CASE Become(c, Ended(call[c], Failed("provider")))
    BY <1>0, <2>2, FailedSound, BecomeSound
  <2>3. CASE Become(c, Ended(call[c], Failed("dimensions")))
    BY <1>0, <2>3, FailedSound, BecomeSound
  <2>4. CASE batch.pc = "answered" /\ Agrees(call[c], batch) /\ Become(c, Taken(call[c], batch))
    <3>1. Sound(Taken(call[c], batch))
      BY <1>0, <2>1, <2>4, TakenSound
    <3> QED
      BY <2>4, <3>1, BecomeSound
  <2> QED
    BY <2>1, <2>2, <2>3, <2>4
<1>5. ASSUME NEW c \in Callers, Conclude(c) PROVE AnswerInv'
  <2>1. CASE Become(c, Ended(call[c], Failed("count")))
    BY <1>0, <2>1, FailedSound, BecomeSound
  <2>2. CASE /\ call[c].pc = "embedding" /\ Complete(call[c]) /\ CacheEnabled
             /\ Become(c, [call[c] EXCEPT !.pc = "store"])
    <3> DEFINE state == [call[c] EXCEPT !.pc = "store"]
    <3>1. /\ state.batches = call[c].batches /\ state.taken = call[c].taken
          /\ state.vectors = call[c].vectors /\ state.dims = call[c].dims
          /\ state.exact = call[c].exact /\ state.inputs = call[c].inputs
          /\ state.reply = call[c].reply /\ state.pc = "store" /\ Right(state)
      BY <1>0, <2>2 DEF Complete, Right, Shaped
    <3> HIDE DEF state
    <3>2. Fields(state) /\ Batched(state) /\ Stated(state) /\ Prefix(state) /\ Replied(state)
      BY <1>0, <3>1 DEF Sound, Fields, Batched, Stated, Prefix, Replied
    <3>3. Sound(state)
      BY <2>2, <3>1, <3>2 DEF Sound
    <3> QED
      BY <2>2, <3>3, BecomeSound DEF state
  <2>3. CASE Complete(call[c]) /\ Become(c, Ended(call[c], Delivered(Result(call[c]))))
    BY <1>0, <2>3, ResultSound, BecomeSound
  <2> QED
    BY <1>5, <2>1, <2>2, <2>3 DEF Conclude, At
<1>6. ASSUME NEW c \in Callers, Store(c) PROVE AnswerInv'
  <2> DEFINE value == Result(call[c])
  <2>1. call[c].pc = "store" /\ call[c].inputs \in Requests /\ Complete(call[c])
    BY <1>0, <1>6 DEF Store, At, Right, Shaped, Complete
  <2>2. /\ Moves(c, Ended(call[c], Delivered(value)))
        /\ CachePut(CacheKey(call[c].inputs), value, TtlSeconds) \/ UNCHANGED cacheVars
    BY <1>6 DEF Store
  <2>3. /\ Stated(value) /\ Faithful(value, call[c].inputs)
        /\ Sound(Ended(call[c], Delivered(value)))
    BY <1>0, <2>1, ResultSound
  <2> HIDE DEF value
  <2>4. CASE UNCHANGED cacheVars
    BY <2>2, <2>3, <2>4, BecomeSound DEF Become
  <2>5. CASE CachePut(CacheKey(call[c].inputs), value, TtlSeconds)
    BY <2>1, <2>2, <2>3, <2>5, PutSound, CallMovesSound
  <2> QED
    BY <2>2, <2>4, <2>5
<1>7. ASSUME NEW c \in Callers, Abandon(c) PROVE AnswerInv'
  BY <1>0, <1>7, FailedSound, BecomeSound DEF Abandon
<1>8. CASE CacheTick /\ UNCHANGED call
  <2>1. CachedSound'
    BY <1>8 DEF CacheTick, AnswerInv, CachedSound, Cached, cacheInner
  <2> QED
    BY <1>8, <2>1 DEF AnswerInv
<1>9. ASSUME NEW k \in CacheKeys, CacheInvalidate(k), UNCHANGED call PROVE AnswerInv'
  <2>1. k \in Cached /\ CachePop(k)
    BY <1>9 DEF CacheInvalidate
  <2> QED
    BY <1>9, <2>1, PopSound DEF AnswerInv
<1> QED
  BY <1>1, <1>2, <1>3, <1>4, <1>5, <1>6, <1>7, <1>8, <1>9, BatchStepSound DEF Next, Progress

LEMMA AnswerInvKept ==
    ASSUME AnswerInv, [Next]_vars
    PROVE  AnswerInv'
<1>1. EngineInv'
  BY EngineInvKept DEF AnswerInv
<1>2. CASE UNCHANGED vars
  <2>1. UNCHANGED cacheVars /\ UNCHANGED call
    BY <1>2 DEF vars
  <2>2. CachedSound'
    BY <2>1 DEF AnswerInv, CachedSound, Cached, cacheVars, cacheInner
  <2> QED
    BY <1>1, <2>1, <2>2 DEF AnswerInv
<1> QED
  BY <1>1, <1>2, AnswerStep

-----------------------------------------------------------------------------
(* A call is where the code can be, for one of the requests, has taken no   *)
(* more batches than it has and tries none more often than it may          *)
(* (embedding_engine.rs:157-193, 333-365).                                 *)
THEOREM TypeCorrect == Spec => []TypeOK
<1>1. AnswerInv => TypeOK
  <2> SUFFICES ASSUME AnswerInv PROVE TypeOK
    OBVIOUS
  <2>1. CacheTypeOK
    BY DEF AnswerInv, EngineInv, CacheInv
  <2>2. ASSUME NEW c \in Callers
        PROVE  /\ call[c].pc \in {"idle", "lookup", "embedding", "store"}
               /\ call[c].inputs \in Requests
               /\ call[c].taken \in 0..Len(call[c].batches)
    BY DEF AnswerInv, Sound, Right, Shaped, Fields
  <2>3. ASSUME NEW c \in Callers, NEW b \in DOMAIN call[c].batches
        PROVE  /\ call[c].batches[b].pc \in {"asking", "backoff", "answered", "failed"}
               /\ call[c].batches[b].attempt \in 1..MaxAttempts
    BY DEF AnswerInv, Sound, Batched, BatchOf, Batches
  <2> QED
    BY <2>1, <2>2, <2>3 DEF TypeOK
<1> QED
  BY <1>1, AnswerInit, AnswerInvKept, PTL DEF Spec

(* Every vector of an answer came with the dimensions the answer states,    *)
(* but for those before the first response that stated any: from the       *)
(* provider and from the cache, whatever batch came back empty             *)
(* (embedding_engine.rs:178-187).                                          *)
THEOREM DimensionsAgree == Spec => []OneDimension
<1>1. AnswerInv => OneDimension
  BY DEF AnswerInv, Sound, Replied, Stated, OneDimension, Answered
<1> QED
  BY <1>1, AnswerInit, AnswerInvKept, PTL DEF Spec

(* Where no two requests share a key, or nothing is cached, the i-th vector *)
(* is the i-th input's whenever every batch had as many vectors as texts:  *)
(* whichever batch is answered first or retried, and from the cache        *)
(* (embedding_engine.rs:157-193, 295-300).                                 *)
THEOREM InTheInputsOrder ==
    ASSUME KeysAreRequests
    PROVE  Spec => []VectorsAreOfTheInputs
<1>1. AnswerInv => VectorsAreOfTheInputs
  BY KeysAreRequests DEF AnswerInv, Sound, Replied, Faithful, VectorsAreOfTheInputs, Answered
<1> QED
  BY <1>1, AnswerInit, AnswerInvKept, PTL DEF Spec

=============================================================================
