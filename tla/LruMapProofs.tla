----------------------------- MODULE LruMapProofs -----------------------------
(***************************************************************************)
(* What holds of every LruCache under a byte cap: the bytes of its keys    *)
(* add up, its order survives every operation, a full map makes room, and  *)
(* evict_to_fit takes enough, and no more than it has to, however far the  *)
(* byte count is too high.                                                 *)
(***************************************************************************)
EXTENDS LruMap, FiniteSetTheorems, FunctionTheorems, WellFoundedInduction, TLAPS

Sized(size, keys) == IsFiniteSet(keys) /\ \A k \in keys : size[k] \in Nat

-----------------------------------------------------------------------------
(* Weights *)

LEMMA OneWeighs ==
    ASSUME NEW size, NEW k, size[k] \in Nat
    PROVE  IsFiniteSet({k} \X (1..size[k])) /\ Cardinality({k} \X (1..size[k])) = size[k]
<1>1. IsFiniteSet({k}) /\ Cardinality({k}) = 1
  BY FS_Singleton
<1>2. IsFiniteSet(1..size[k]) /\ Cardinality(1..size[k]) = size[k]
  <2>1. /\ IsFiniteSet(1..size[k])
        /\ Cardinality(1..size[k]) = IF 1 > size[k] THEN 0 ELSE size[k] - 1 + 1
    BY FS_Interval
  <2> QED
    BY <2>1
<1>3. /\ IsFiniteSet({k} \X (1..size[k]))
      /\ Cardinality({k} \X (1..size[k])) = Cardinality({k}) * Cardinality(1..size[k])
  BY <1>1, <1>2, FS_Product, Zenon
<1> QED
  BY <1>1, <1>2, <1>3

LEMMA WeightIsNatural ==
    ASSUME NEW size, NEW keys, Sized(size, keys)
    PROVE  IsFiniteSet(Bytes(size, keys)) /\ Weight(size, keys) \in Nat
<1> DEFINE f == [k \in keys |-> {k} \X (1..size[k])]
           T == {{k} \X (1..size[k]) : k \in keys}
<1>1. f \in [keys -> T] /\ \A s \in T : \E k \in keys : f[k] = s
  OBVIOUS
<1>2. f \in Surjection(keys, T)
  BY <1>1, Fun_IsSurj
<1>3. IsFiniteSet(T)
  BY <1>2, FS_Surjection DEF Sized
<1>4. \A s \in T : IsFiniteSet(s)
  BY OneWeighs DEF Sized
<1>5. IsFiniteSet(UNION T)
  BY <1>3, <1>4, FS_UNION
<1> QED
  BY <1>5, FS_CardinalityType DEF Bytes, Weight

LEMMA SizedSubset ==
    ASSUME NEW size, NEW keys, Sized(size, keys), NEW some \in SUBSET keys
    PROVE  Sized(size, some)
BY FS_Subset DEF Sized

(* Of two parts of the keys.                                               *)
LEMMA WeightAdds ==
    ASSUME NEW size, NEW keys, Sized(size, keys),
           NEW A \in SUBSET keys, NEW B \in SUBSET keys, A \cap B = {}
    PROVE  Weight(size, A \cup B) = Weight(size, A) + Weight(size, B)
<1>1. Bytes(size, A \cup B) = Bytes(size, A) \cup Bytes(size, B)
  BY DEF Bytes
<1>2. Bytes(size, A) \cap Bytes(size, B) = {}
  BY DEF Bytes
<1>3. /\ IsFiniteSet(Bytes(size, A)) /\ Weight(size, A) \in Nat
      /\ IsFiniteSet(Bytes(size, B)) /\ Weight(size, B) \in Nat
  BY SizedSubset, WeightIsNatural
<1>4. Cardinality(Bytes(size, A) \cap Bytes(size, B)) = 0
  BY <1>2, FS_EmptySet
<1>5. Cardinality(Bytes(size, A) \cup Bytes(size, B))
        = Cardinality(Bytes(size, A)) + Cardinality(Bytes(size, B))
          - Cardinality(Bytes(size, A) \cap Bytes(size, B))
  BY <1>3, FS_Union
<1>6. Weight(size, A \cup B) = Weight(size, A) + Weight(size, B) - 0
  BY <1>1, <1>4, <1>5 DEF Weight
<1> QED
  BY <1>3, <1>6

LEMMA WeightWithout ==
    ASSUME NEW size, NEW keys, Sized(size, keys), NEW A \in SUBSET keys
    PROVE  /\ Weight(size, A) \in Nat /\ Weight(size, keys \ A) \in Nat
           /\ Weight(size, A) <= Weight(size, keys)
           /\ Weight(size, keys \ A) = SaturatingSub(Weight(size, keys), Weight(size, A))
<1>1. Weight(size, A) \in Nat /\ Weight(size, keys \ A) \in Nat
  BY SizedSubset, WeightIsNatural
<1>2. A \cup (keys \ A) = keys /\ A \cap (keys \ A) = {}
  OBVIOUS
<1>3. Weight(size, keys) = Weight(size, A) + Weight(size, keys \ A)
  BY <1>2, WeightAdds
<1> QED
  BY <1>1, <1>3 DEF SaturatingSub

(* The same of a byte count that is too high.                              *)
LEMMA WeightTaken ==
    ASSUME NEW size, NEW keys, Sized(size, keys), NEW A \in SUBSET keys, NEW excess \in Nat
    PROVE  /\ SaturatingSub(Weight(size, keys) + excess, Weight(size, A))
                  = Weight(size, keys \ A) + excess
           /\ Weight(size, keys \ A) \in Nat
<1>1. /\ Weight(size, A) \in Nat /\ Weight(size, keys \ A) \in Nat
      /\ Weight(size, keys) = Weight(size, A) + Weight(size, keys \ A)
  <2>1. A \cup (keys \ A) = keys /\ A \cap (keys \ A) = {} /\ keys \ A \in SUBSET keys
    OBVIOUS
  <2>2. Weight(size, A \cup (keys \ A)) = Weight(size, A) + Weight(size, keys \ A)
    BY <2>1, WeightAdds
  <2>3. Weight(size, A) \in Nat /\ Weight(size, keys \ A) \in Nat
    BY WeightWithout
  <2> QED
    BY <2>1, <2>2, <2>3
<1> QED
  BY <1>1 DEF SaturatingSub

LEMMA WeightOfOne ==
    ASSUME NEW size, NEW k, size[k] \in Nat
    PROVE  Weight(size, {k}) = size[k]
<1>1. Bytes(size, {k}) = {k} \X (1..size[k])
  BY DEF Bytes
<1> QED
  BY <1>1, OneWeighs DEF Weight

-----------------------------------------------------------------------------
(* Orders *)

LEMMA EmptyOrder == OrderOf({}, {})
BY DEF OrderOf

(* get_mut and put: the key goes to the warm end, the others stay, all of  *)
(* them or, when the full map makes room, all but the coldest.             *)
LEMMA TouchedIsOrder ==
    ASSUME NEW order, NEW all, OrderOf(order, all), NEW keys \in SUBSET all, NEW k
    PROVE  OrderOf(Touched(order, keys \cup {k}, k), keys \cup {k})
<1> DEFINE others == (keys \cup {k}) \ {k}
           used == Touched(order, keys \cup {k}, k)
<1>1. \A p \in used : p \in (keys \cup {k}) \X (keys \cup {k})
  BY DEF Touched, Kept
<1>2. \A g, h \in keys \cup {k} :
        <<g, h>> \in used <=> g # k /\ (h = k \/ <<g, h>> \in order)
  BY DEF Touched, Kept
<1>3. \A g, h \in keys : <<g, h>> \in order <=> g # h /\ <<h, g>> \notin order
  BY DEF OrderOf
<1>4. \A f, g, h \in keys : <<f, g>> \in order /\ <<g, h>> \in order => <<f, h>> \in order
  BY DEF OrderOf
<1> HIDE DEF used
<1>5. \A g, h \in keys \cup {k} : <<g, h>> \in used <=> g # h /\ <<h, g>> \notin used
  BY <1>2, <1>3
<1>6. \A f, g, h \in keys \cup {k} : <<f, g>> \in used /\ <<g, h>> \in used => <<f, h>> \in used
  BY <1>2, <1>4
<1> QED
  BY <1>1, <1>5, <1>6 DEF OrderOf, used

LEMMA KeptIsOrder ==
    ASSUME NEW order, NEW keys, OrderOf(order, keys), NEW some \in SUBSET keys
    PROVE  OrderOf(Kept(order, some), some)
BY DEF OrderOf, Kept

LEMMA ColderThan ==
    ASSUME NEW order, NEW keys, OrderOf(order, keys), NEW h
    PROVE  /\ Colder(order, h) \subseteq keys
           /\ \A g \in keys : g \in Colder(order, h) <=> <<g, h>> \in order
BY DEF Colder, OrderOf

(* Among any of the keys one is coldest.                                   *)
LEMMA OneIsColdest ==
    ASSUME NEW order, NEW keys, IsFiniteSet(keys), OrderOf(order, keys),
           NEW some \in SUBSET keys, some # {}
    PROVE  \E k \in some : Colder(order, k) \cap some = {}
<1> DEFINE T == {Colder(order, k) : k \in some}
           R == StrictSubsetOrdering(keys)
<1>1. IsWellFoundedOn(R, SUBSET keys)
  BY FS_StrictSubsetOrderingWellFounded, FS_FiniteSubsetsOfFinite
<1>2. T \subseteq SUBSET keys /\ T # {}
  BY ColderThan
<1>3. \E x \in T : \A y \in T : <<y, x>> \notin R
  <2> HIDE DEF T, R
  <2> QED
    BY <1>1, <1>2, WFMin
<1>4. PICK k \in some : \A g \in some : <<Colder(order, g), Colder(order, k)>> \notin R
  BY <1>3
<1>5. ASSUME NEW g \in some, g \in Colder(order, k) PROVE FALSE
  <2>1. <<g, k>> \in order
    BY <1>5, ColderThan
  <2>2. Colder(order, g) \subseteq Colder(order, k)
    BY <2>1, ColderThan DEF OrderOf
  <2>3. g \notin Colder(order, g)
    BY ColderThan DEF OrderOf
  <2>4. Colder(order, g) \in SUBSET keys /\ Colder(order, k) \in SUBSET keys
    BY ColderThan
  <2>5. <<Colder(order, g), Colder(order, k)>> \in R
    BY <1>5, <2>2, <2>3, <2>4 DEF StrictSubsetOrdering
  <2> QED
    BY <1>4, <2>5
<1> QED
  BY <1>5

-----------------------------------------------------------------------------
(* evict_to_fit *)

(* What stays fits: the loop does not stop before it does, or nothing is   *)
(* left to take.                                                           *)
THEOREM WhatStaysFits ==
    ASSUME NEW order, NEW keys, NEW size, OrderOf(order, keys), Sized(size, keys),
           NEW excess \in Nat, NEW cap \in Nat, cap > 0
    PROVE  LET V == Victims(order, keys, size, Weight(size, keys) + excess, cap)
           IN  keys \ V = {} \/ Weight(size, keys \ V) + excess <= cap
<1> DEFINE V == Victims(order, keys, size, Weight(size, keys) + excess, cap)
           W == keys \ V
<1> SUFFICES ASSUME W # {}
             PROVE  Weight(size, W) + excess <= cap
  OBVIOUS
<1>1. IsFiniteSet(keys) /\ W \in SUBSET keys
  BY DEF Sized
<1>2. PICK k \in W : Colder(order, k) \cap W = {}
  <2> HIDE DEF W
  <2> QED
    BY <1>1, OneIsColdest
<1> DEFINE C == Colder(order, k)
<1>3. C \in SUBSET keys /\ W \in SUBSET (keys \ C) /\ k \in keys
  BY <1>1, <1>2, ColderThan
<1>4. ~(SaturatingSub(Weight(size, keys) + excess, Weight(size, C)) > cap)
  BY <1>2 DEF Victims
<1> HIDE DEF V, W, C
<1>5. Weight(size, keys \ C) + excess <= cap /\ Weight(size, keys \ C) \in Nat
  <2>1. /\ SaturatingSub(Weight(size, keys) + excess, Weight(size, C))
              = Weight(size, keys \ C) + excess
        /\ Weight(size, keys \ C) \in Nat
    BY <1>3, WeightTaken
  <2>2. ~(Weight(size, keys \ C) + excess > cap)
    BY <1>4, <2>1
  <2> QED
    BY <2>1, <2>2
<1>6. Weight(size, W) <= Weight(size, keys \ C) /\ Weight(size, W) \in Nat
  BY <1>3, SizedSubset, WeightWithout
<1> QED
  BY <1>5, <1>6

(* What goes had to: together with all that was used after it and with     *)
(* what is counted too much, it did not fit.                               *)
THEOREM WhatGoesHadTo ==
    ASSUME NEW order, NEW keys, NEW size, OrderOf(order, keys), Sized(size, keys),
           NEW excess \in Nat, NEW cap \in Nat,
           NEW k \in Victims(order, keys, size, Weight(size, keys) + excess, cap)
    PROVE  Weight(size, {h \in keys : h = k \/ <<k, h>> \in order}) + excess > cap
<1> DEFINE C == Colder(order, k)
<1>1. k \in keys
  BY DEF Victims
<1>2. keys \ C = {h \in keys : h = k \/ <<k, h>> \in order}
  <2>1. \A h \in keys : h \in C <=> <<h, k>> \in order
    BY ColderThan
  <2>2. \A h \in keys : h \notin C <=> (h = k \/ <<k, h>> \in order)
    BY <1>1, <2>1 DEF OrderOf
  <2> QED
    BY <2>2
<1>3. SaturatingSub(Weight(size, keys) + excess, Weight(size, C)) > cap
  BY DEF Victims
<1>4. C \in SUBSET keys
  BY ColderThan
<1> HIDE DEF C
<1>5. Weight(size, keys \ C) + excess > cap
  BY <1>3, <1>4, WeightTaken
<1> QED
  BY <1>2, <1>5

-----------------------------------------------------------------------------
(* A full map *)

(* For a new key the full map drops the entry that all others are warmer   *)
(* than, and only then.                                                    *)
THEOREM RoomIsMade ==
    ASSUME NEW order, NEW keys, IsFiniteSet(keys), OrderOf(order, keys), NEW key,
           NEW entryCap \in Nat \ {0}, Cardinality(keys) <= entryCap
    PROVE  LET lost == Overflow(order, keys, key, entryCap)
           IN  /\ lost \in SUBSET keys /\ key \notin lost
               /\ Cardinality((keys \ lost) \cup {key}) <= entryCap
               /\ \A k \in lost : /\ key \notin keys /\ Cardinality(keys) = entryCap
                                   /\ \A h \in keys : h = k \/ <<k, h>> \in order
<1> DEFINE lost == Overflow(order, keys, key, entryCap)
           now == (keys \ lost) \cup {key}
<1>0. Cardinality(keys) \in Nat
  BY FS_CardinalityType
<1>1. lost \in SUBSET keys /\ key \notin lost
  BY DEF Overflow
<1>2. ASSUME NEW k \in lost
      PROVE  /\ key \notin keys /\ Cardinality(keys) = entryCap
             /\ \A h \in keys : h = k \/ <<k, h>> \in order
  <2>1. key \notin keys /\ ~(Cardinality(keys) < entryCap)
    BY <1>2 DEF Overflow
  <2>2. k \in keys /\ Colder(order, k) = {}
    BY <1>2, <2>1 DEF Overflow
  <2>3. \A h \in keys : <<h, k>> \notin order
    BY <2>2 DEF Colder
  <2>4. \A h \in keys : h = k \/ <<k, h>> \in order
    BY <2>2, <2>3 DEF OrderOf
  <2>5. Cardinality(keys) = entryCap
    BY <1>0, <2>1
  <2> QED
    BY <2>1, <2>4, <2>5
<1>3. Cardinality(now) <= entryCap
  <2>1. CASE key \in keys
    <3>1. now \subseteq keys
      BY <2>1
    <3>2. Cardinality(now) <= Cardinality(keys) /\ Cardinality(now) \in Nat
      BY <3>1, FS_Subset, FS_CardinalityType
    <3> QED
      BY <1>0, <3>2
  <2>2. CASE key \notin keys /\ Cardinality(keys) < entryCap
    <3>1. lost = {} /\ now = keys \cup {key}
      BY <2>2 DEF Overflow
    <3>2. Cardinality(keys \cup {key}) = Cardinality(keys) + 1
      BY <2>2, FS_AddElement
    <3> QED
      BY <1>0, <2>2, <3>1, <3>2
  <2>3. CASE key \notin keys /\ ~(Cardinality(keys) < entryCap)
    <3>1. keys # {}
      BY <2>3, FS_EmptySet
    <3>2. PICK k \in keys : Colder(order, k) \cap keys = {}
      BY <3>1, OneIsColdest
    <3>3. k \in lost
      BY <2>3, <3>2, ColderThan DEF Overflow
    <3>4. IsFiniteSet(keys \ {k}) /\ Cardinality(keys \ {k}) = Cardinality(keys) - 1
      BY FS_RemoveElement
    <3>5. /\ IsFiniteSet((keys \ {k}) \cup {key})
          /\ Cardinality((keys \ {k}) \cup {key}) = Cardinality(keys \ {k}) + 1
      BY <2>3, <3>4, FS_AddElement
    <3>6. now \subseteq (keys \ {k}) \cup {key}
      BY <3>3
    <3>7. Cardinality(now) <= Cardinality((keys \ {k}) \cup {key}) /\ Cardinality(now) \in Nat
      BY <3>5, <3>6, FS_Subset, FS_CardinalityType
    <3> QED
      BY <1>0, <3>4, <3>5, <3>7
  <2> QED
    BY <2>1, <2>2, <2>3
<1> QED
  BY <1>1, <1>2, <1>3

=============================================================================
