-------------------------------- MODULE LruMap --------------------------------
(***************************************************************************)
(* lru::LruCache under a byte cap, the way src/content_store.rs and        *)
(* src/cache.rs both use it: a map of so many entries at most, a byte      *)
(* count beside it, brought up to date by hand, and evict_to_fit after     *)
(* every put.                                                              *)
(*                                                                         *)
(* The order of a map's keys is the set of pairs <<g, h>> such that g was  *)
(* used less recently than h.                                              *)
(***************************************************************************)
EXTENDS Naturals, FiniteSets

SaturatingSub(a, b) == IF a >= b THEN a - b ELSE 0

(* The bytes of some keys, one element each, for the size of each key.     *)
Bytes(size, keys) == UNION {{k} \X (1..size[k]) : k \in keys}
Weight(size, keys) == Cardinality(Bytes(size, keys))

Colder(order, key) == {pair[1] : pair \in {p \in order : p[2] = key}}

(* What is left of an order when only some keys stay in the map.           *)
Kept(order, keys) == order \cap (keys \X keys)

(* Mutant: used again, a key keeps its old place as well.                  *)
TouchedTwice(order, keys, key) == order \cup ((keys \ {key}) \X {key})

(* LruCache::put and get_mut make a key the most recently used.            *)
Touched(order, keys, key) == Kept(order, keys \ {key}) \cup ((keys \ {key}) \X {key})

(* LruCache::put of a new key on a full map: the coldest entry makes room, *)
(* and its bytes are nobody's to subtract.                                 *)
Overflow(order, keys, key, entryCap) ==
    IF key \in keys \/ Cardinality(keys) < entryCap THEN {}
    ELSE {k \in keys : Colder(order, k) = {}}

(* evict_to_fit: pop_lru takes a key as long as without all colder ones    *)
(* the count is still over the cap.                                        *)
Victims(order, keys, size, bytes, cap) ==
    {k \in keys : cap > 0 /\ SaturatingSub(bytes, Weight(size, Colder(order, k))) > cap}

(* A strict total order: no two keys were used at once.                    *)
OrderOf(order, keys) ==
    /\ order \subseteq keys \X keys
    /\ \A g, h \in keys : <<g, h>> \in order <=> g # h /\ <<h, g>> \notin order
    /\ \A f, g, h \in keys : <<f, g>> \in order /\ <<g, h>> \in order => <<f, h>> \in order

=============================================================================
