---------------------- MODULE InProcessContentStoreProofs ----------------------
(***************************************************************************)
(* What InProcessContentStore keeps, for any tasks, contents, sizes,       *)
(* aliases and caps: its byte count, and every content that still fits.    *)
(***************************************************************************)
EXTENDS InProcessContentStore, LruMapProofs

(* Why a wanted content is still there: all that is warmer was used after  *)
(* it, and it fits with all of that.                                       *)
WarmerIsSince ==
    \A g \in wanted :
        /\ \A h \in Present : <<g, h>> \in order => h \in since[g]
        /\ Fit(since[g] \cup {g}, overflowed)

StoreInv == TypeOK /\ ByteCountExact /\ KeptWhileItFits /\ WarmerIsSince

-----------------------------------------------------------------------------
(* Values *)

LEMMA ConstantFacts ==
    /\ IsFiniteSet(Hashes) /\ \A h \in Hashes : Size[h] \in Nat
    /\ MaxBytes \in Nat /\ EntryCap \in Nat \ {0} /\ LastInstant \in Nat \ {0}
    /\ None \notin Hashes /\ None \notin Aliases
    /\ Absent \notin Expiries
BY StoreAssumption DEF Expiries, Absent, Never

LEMMA HashesAreSized ==
    ASSUME NEW some \in SUBSET Hashes
    PROVE  Sized(Size, some)
BY ConstantFacts, FS_Subset DEF Sized

LEMMA WeightGrows ==
    ASSUME NEW all \in SUBSET Hashes, NEW some \in SUBSET all
    PROVE  Weight(Size, some) \in Nat /\ Weight(Size, all) \in Nat
           /\ Weight(Size, some) <= Weight(Size, all)
BY HashesAreSized, WeightIsNatural, WeightWithout

(* What a task may bring to the lock.                                      *)
Requests == [pc : {"idle", "put", "sweep"}, hash : Hashes \cup {None},
             alias : Aliases \cup {None}, at : Expiries \cup {Absent}]
PutsContent(request) ==
    request.pc = "put" => request.hash \in Hashes /\ request.at \in Expiries

LEMMA TaskChanges ==
    ASSUME TypeOK, NEW t \in Tasks, NEW request \in Requests, PutsContent(request),
           task' = [task EXCEPT ![t] = request]
    PROVE  task' \in [Tasks -> Requests] /\ \A u \in Tasks : PutsContent(task'[u])
BY DEF TypeOK, PutsContent, Requests, At

LEMMA IdleIsRequest == Idle \in Requests /\ PutsContent(Idle)
BY DEF Idle, Requests, PutsContent, Absent

-----------------------------------------------------------------------------
(* Initially *)

LEMMA InitInv ==
    ASSUME Init
    PROVE  StoreInv
<1>1. Present = {} /\ order = {} /\ wanted = {} /\ byteCount = 0 /\ overflowed = 0
  BY DEF Init, Present
<1>2. TypeOK
  <2>1. now \in Instants /\ OrderOf(order, Present) /\ Cardinality(Present) <= EntryCap
    BY <1>1, EmptyOrder, FS_EmptySet, ConstantFacts DEF Init, Instants
  <2>2. expiresAt \in [Hashes -> Expiries \cup {Absent}]
    BY DEF Init
  <2> QED
    BY <1>1, <2>1, <2>2, IdleIsRequest DEF Init, TypeOK, At, Requests, PutsContent
<1>3. ByteCountExact
  <2>1. Bytes(Size, Present) = {}
    BY <1>1 DEF Bytes
  <2>2. Weight(Size, Present) = 0
    BY <2>1, FS_EmptySet DEF Weight
  <2> QED
    BY <1>1, <2>2, ConstantFacts DEF ByteCountExact
<1> QED
  BY <1>1, <1>2, <1>3 DEF StoreInv, KeptWhileItFits, WarmerIsSince

-----------------------------------------------------------------------------
(* Contents that leave: expired, deleted or swept. *)

LEMMA DropsType ==
    ASSUME StoreInv, NEW gone \in SUBSET Hashes, Drops(gone)
    PROVE  /\ Present \in SUBSET Hashes /\ Present' = Present \ gone
           /\ expiresAt' \in [Hashes -> Expiries \cup {Absent}]
           /\ OrderOf(order', Present')
           /\ byteCount' \in Nat /\ overflowed' \in Nat
           /\ Cardinality(Present') <= EntryCap
           /\ wanted' \subseteq Hashes /\ since' \in [Hashes -> SUBSET Hashes]
<1>1. Present \in SUBSET Hashes /\ Present' = Present \ gone
  BY DEF Present, Drops
<1>2. OrderOf(order', Present')
  <2>1. OrderOf(order, Present) /\ order' = Kept(order, Present \ gone)
    BY DEF StoreInv, TypeOK, Drops
  <2> QED
    BY <1>1, <2>1, KeptIsOrder
<1>3. byteCount' \in Nat
  <2>1. Weight(Size, gone \cap Present) \in Nat
    BY <1>1, HashesAreSized, WeightIsNatural
  <2> QED
    BY <2>1 DEF StoreInv, TypeOK, Drops, SaturatingSub
<1>4. Cardinality(Present') <= EntryCap
  <2>1. /\ IsFiniteSet(Present) /\ Cardinality(Present) \in Nat /\ EntryCap \in Nat
        /\ Cardinality(Present) <= EntryCap
    BY <1>1, ConstantFacts, FS_Subset, FS_CardinalityType DEF StoreInv, TypeOK
  <2>2. Cardinality(Present') <= Cardinality(Present) /\ Cardinality(Present') \in Nat
    BY <1>1, <2>1, FS_Subset, FS_CardinalityType
  <2> QED
    BY <2>1, <2>2
<1> QED
  BY <1>1, <1>2, <1>3, <1>4 DEF StoreInv, TypeOK, Drops, Forgets

LEMMA DropsKeeps ==
    ASSUME StoreInv, NEW gone \in SUBSET Hashes, Drops(gone)
    PROVE  ByteCountExact' /\ KeptWhileItFits' /\ WarmerIsSince'
<1>1. /\ Present \in SUBSET Hashes /\ Present' = Present \ gone
      /\ byteCount' \in Nat /\ overflowed' = overflowed /\ overflowed \in Nat
      /\ Weight(Size, Present) \in Nat
  BY DropsType, HashesAreSized, WeightIsNatural DEF Drops, Forgets, StoreInv, TypeOK
<1>2. ByteCountExact'
  <2>1. /\ SaturatingSub(Weight(Size, Present) + overflowed, Weight(Size, gone \cap Present))
             = Weight(Size, Present \ (gone \cap Present)) + overflowed
        /\ Weight(Size, Present \ (gone \cap Present)) \in Nat
        /\ Weight(Size, Present \ (gone \cap Present)) <= Weight(Size, Present)
    BY <1>1, HashesAreSized, WeightTaken, WeightGrows
  <2>2. Present' = Present \ (gone \cap Present)
    BY <1>1
  <2>3. byteCount' = Weight(Size, Present') + overflowed'
    BY <1>1, <2>1, <2>2 DEF Drops, StoreInv, ByteCountExact
  <2>4. byteCount' <= byteCount
    BY <1>1, <2>1, <2>2, <2>3 DEF StoreInv, ByteCountExact
  <2> QED
    BY <1>1, <2>3, <2>4, ConstantFacts DEF StoreInv, TypeOK, ByteCountExact
<1>3. KeptWhileItFits'
  BY <1>1 DEF StoreInv, KeptWhileItFits, Drops, Forgets
<1>4. WarmerIsSince'
  <2> SUFFICES ASSUME NEW g \in wanted'
               PROVE  /\ \A h \in Present' : <<g, h>> \in order' => h \in since'[g]
                      /\ Fit(since'[g] \cup {g}, overflowed')
    BY DEF WarmerIsSince, Fit
  <2>1. g \in wanted /\ g \in Hashes /\ since'[g] = since[g]
    BY DEF StoreInv, TypeOK, Drops, Forgets
  <2>2. order' \subseteq order
    BY DEF Drops, Kept
  <2> QED
    BY <1>1, <2>1, <2>2 DEF StoreInv, WarmerIsSince, Fit
<1> QED
  BY <1>2, <1>3, <1>4

-----------------------------------------------------------------------------
(* A content that is used: put or read. *)

(* Whatever is warmer than a wanted content after the use was used since   *)
(* and fits with it.                                                       *)
LEMMA UsesKeeps ==
    ASSUME StoreInv, NEW k \in Hashes, Uses(k)
    PROVE  /\ wanted' \subseteq Hashes /\ since' \in [Hashes -> SUBSET Hashes]
           /\ wanted' \subseteq wanted \cup {k}
           /\ \A g \in wanted' :
                /\ \A h \in Present \cup {k} :
                     <<g, h>> \in Touched(order, Present \cup {k}, k) => h \in since'[g]
                /\ Fit(since'[g] \cup {g}, overflowed')
<1> DEFINE used == [g \in Hashes |-> IF g \in wanted \ {k} THEN since[g] \cup {k} ELSE {}]
<1>1. used \in [Hashes -> SUBSET Hashes]
  BY DEF StoreInv, TypeOK
<1>2. /\ wanted' = {g \in wanted \cup {k} : Fit(used[g] \cup {g}, overflowed')}
      /\ since' = [g \in Hashes |-> IF g \in wanted' THEN used[g] ELSE {}]
  BY DEF Uses
<1> HIDE DEF used
<1>3. wanted' \subseteq Hashes /\ since' \in [Hashes -> SUBSET Hashes]
  BY <1>1, <1>2 DEF StoreInv, TypeOK
<1>4. ASSUME NEW g \in wanted'
      PROVE  /\ \A h \in Present \cup {k} :
                  <<g, h>> \in Touched(order, Present \cup {k}, k) => h \in since'[g]
             /\ Fit(since'[g] \cup {g}, overflowed')
  <2>1. g \in Hashes /\ since'[g] = used[g] /\ Fit(used[g] \cup {g}, overflowed')
    BY <1>2, <1>3
  <2>2. ASSUME NEW h \in Present \cup {k}, <<g, h>> \in Touched(order, Present \cup {k}, k)
        PROVE  h \in used[g]
    <3>1. g # k /\ g \in wanted
      BY <1>2, <2>2 DEF Touched, Kept
    <3>2. used[g] = since[g] \cup {k}
      BY <2>1, <3>1 DEF used
    <3>3. h = k \/ (h \in Present /\ <<g, h>> \in order)
      BY <2>2 DEF Touched, Kept
    <3> QED
      BY <3>1, <3>2, <3>3 DEF StoreInv, WarmerIsSince
  <2> QED
    BY <2>1, <2>2
<1> QED
  BY <1>2, <1>3, <1>4

LEMMA ServeKeeps ==
    ASSUME StoreInv, NEW h \in Present, Serve(h)
    PROVE  /\ OrderOf(order', Present') /\ Present' = Present
           /\ wanted' \subseteq Hashes /\ since' \in [Hashes -> SUBSET Hashes]
           /\ ByteCountExact' /\ KeptWhileItFits' /\ WarmerIsSince'
<1>1. /\ Present \in SUBSET Hashes /\ Present' = Present /\ Present \cup {h} = Present
      /\ byteCount' = byteCount /\ overflowed' = overflowed
  BY DEF Present, Serve
<1>2. OrderOf(order', Present')
  <2>1. /\ OrderOf(order, Present) /\ Present \in SUBSET Present
        /\ order' = Touched(order, Present, h)
    BY DEF StoreInv, TypeOK, Serve
  <2>2. OrderOf(Touched(order, Present \cup {h}, h), Present \cup {h})
    BY <2>1, TouchedIsOrder
  <2> QED
    BY <1>1, <2>1, <2>2
<1>3. /\ wanted' \subseteq Hashes /\ since' \in [Hashes -> SUBSET Hashes]
      /\ wanted' \subseteq wanted \cup {h}
      /\ \A g \in wanted' :
           /\ \A k \in Present \cup {h} :
                <<g, k>> \in Touched(order, Present \cup {h}, h) => k \in since'[g]
           /\ Fit(since'[g] \cup {g}, overflowed')
  BY <1>1, UsesKeeps DEF Serve
<1>4. ByteCountExact'
  BY <1>1 DEF StoreInv, ByteCountExact
<1>5. KeptWhileItFits'
  BY <1>1, <1>3 DEF StoreInv, KeptWhileItFits
<1>6. WarmerIsSince'
  BY <1>1, <1>3 DEF WarmerIsSince, Fit, Serve
<1> QED
  BY <1>1, <1>2, <1>3, <1>4, <1>5, <1>6

-----------------------------------------------------------------------------
(* put, under the lock. *)

(* The byte count after replacing or inserting, the map's own eviction     *)
(* done: what is there, and all that overflowed.                           *)
LEMMA InsertCounts ==
    ASSUME StoreInv, NEW h \in Hashes, NEW lost, lost = Overflow(order, Present, h, EntryCap)
    PROVE  LET prior == IF h \in Present THEN Size[h] ELSE 0
               rest == (Present \ lost) \cup {h}
           IN  /\ SaturatingSub(byteCount, prior) + Size[h]
                     = Weight(Size, rest) + (overflowed + Weight(Size, lost))
               /\ overflowed + Weight(Size, lost) \in Nat
               /\ overflowed + Weight(Size, lost) <= byteCount
<1> DEFINE prior == IF h \in Present THEN Size[h] ELSE 0
           kept == Present \ lost
<1>1. /\ Present \in SUBSET Hashes /\ lost \in SUBSET Present
      /\ Size[h] \in Nat /\ overflowed \in Nat
      /\ byteCount = Weight(Size, Present) + overflowed
  BY ConstantFacts DEF Present, Overflow, StoreInv, TypeOK, ByteCountExact
<1>2. Weight(Size, Present) \in Nat /\ Weight(Size, lost) \in Nat /\ Weight(Size, kept) \in Nat
  BY <1>1, HashesAreSized, WeightIsNatural
<1>3. Weight(Size, {h}) = Size[h]
  BY <1>1, WeightOfOne
<1>4. CASE h \in Present
  <2>1. lost = {} /\ kept \cup {h} = Present /\ {h} \in SUBSET Present
    BY <1>4 DEF Overflow
  <2>2. Weight(Size, lost) = 0
    <3>1. Bytes(Size, lost) = {}
      BY <2>1 DEF Bytes
    <3> QED
      BY <3>1, FS_EmptySet DEF Weight
  <2>3. Size[h] <= Weight(Size, Present)
    BY <1>1, <1>3, <2>1, WeightGrows
  <2>4. SaturatingSub(byteCount, Size[h]) + Size[h] = byteCount
    BY <1>1, <1>2, <2>3 DEF SaturatingSub
  <2>5. overflowed + Weight(Size, lost) = overflowed
    BY <1>1, <2>2
  <2>6. overflowed <= byteCount
    BY <1>1, <1>2
  <2> QED
    BY <1>1, <1>4, <2>1, <2>4, <2>5, <2>6
<1>5. CASE h \notin Present
  <2>1. Weight(Size, kept \cup {h}) = Weight(Size, kept) + Weight(Size, {h})
    <3>1. /\ kept \in SUBSET (Present \cup {h}) /\ {h} \in SUBSET (Present \cup {h})
          /\ kept \cap {h} = {} /\ Present \cup {h} \in SUBSET Hashes
      BY <1>1, <1>5
    <3> HIDE DEF kept
    <3> QED
      BY <3>1, HashesAreSized, WeightAdds
  <2>2. Weight(Size, Present) = Weight(Size, kept) + Weight(Size, lost)
    <3>1. kept \in SUBSET Present /\ kept \cap lost = {} /\ kept \cup lost = Present
      BY <1>1
    <3>2. Weight(Size, kept \cup lost) = Weight(Size, kept) + Weight(Size, lost)
      <4> HIDE DEF kept
      <4> QED
        BY <1>1, <3>1, HashesAreSized, WeightAdds
    <3> QED
      BY <3>1, <3>2
  <2>3. SaturatingSub(byteCount, prior) = byteCount
    BY <1>1, <1>2, <1>5 DEF SaturatingSub
  <2> HIDE DEF prior, kept
  <2>4. byteCount + Size[h] = Weight(Size, kept \cup {h}) + (overflowed + Weight(Size, lost))
    BY <1>1, <1>2, <1>3, <2>1, <2>2
  <2>5. overflowed + Weight(Size, lost) <= byteCount
    BY <1>1, <1>2, <2>2
  <2> QED
    BY <1>1, <1>2, <2>3, <2>4, <2>5 DEF prior, kept
<1> QED
  BY <1>4, <1>5

LEMMA InsertKeeps ==
    ASSUME StoreInv, NEW t \in Tasks, Insert(t)
    PROVE  StoreInv'
<1> DEFINE h == task[t].hash
           lost == Overflow(order, Present, h, EntryCap)
           keys == (Present \ lost) \cup {h}
           used == Touched(order, keys, h)
           prior == IF h \in Present THEN Size[h] ELSE 0
           bytes == SaturatingSub(byteCount, prior) + Size[h]
           victims == Victims(used, keys, Size, bytes, MaxBytes)
           excess == overflowed + Weight(Size, lost)
<1>1. /\ h \in Hashes /\ task[t].at \in Expiries
      /\ Present \in SUBSET Hashes /\ IsFiniteSet(Present)
      /\ OrderOf(order, Present) /\ Cardinality(Present) <= EntryCap
  BY ConstantFacts, FS_Subset DEF StoreInv, TypeOK, Insert, Present
<1>2. /\ lost \in SUBSET Present /\ h \notin lost /\ keys \in SUBSET Hashes
      /\ Cardinality(keys) <= EntryCap
      /\ \A g \in lost : /\ h \notin Present /\ Cardinality(Present) = EntryCap
                          /\ \A x \in Present : x = g \/ <<g, x>> \in order
  <2>1. EntryCap \in Nat \ {0}
    BY ConstantFacts
  <2> HIDE DEF h
  <2>2. /\ lost \in SUBSET Present /\ h \notin lost
        /\ Cardinality(keys) <= EntryCap
        /\ \A g \in lost : /\ h \notin Present /\ Cardinality(Present) = EntryCap
                            /\ \A x \in Present : x = g \/ <<g, x>> \in order
    BY <1>1, <2>1, RoomIsMade, Zenon
  <2> QED
    BY <1>1, <2>2
<1>3. OrderOf(used, keys)
  <2>1. Present \ lost \in SUBSET Present
    OBVIOUS
  <2> HIDE DEF lost, h
  <2> QED
    BY <1>1, <2>1, TouchedIsOrder
<1>4. bytes = Weight(Size, keys) + excess /\ excess \in Nat /\ excess <= byteCount
  BY <1>1, InsertCounts
<1>5. /\ expiresAt' = [g \in Hashes |->
                          IF g \in victims \cup lost THEN Absent
                          ELSE IF g = h THEN task[t].at ELSE expiresAt[g]]
      /\ order' = Kept(used, keys \ victims)
      /\ byteCount' = SaturatingSub(bytes, Weight(Size, victims))
      /\ aliasToHash' = [b \in Aliases |-> IF b = task[t].alias THEN h ELSE aliasToHash[b]]
      /\ task' = [task EXCEPT ![t] = Idle]
      /\ overflowed' = excess
      /\ Uses(h) /\ now' = now
  BY DEF Insert
<1>6. /\ victims \in SUBSET keys
      /\ victims = Victims(used, keys, Size, Weight(Size, keys) + excess, MaxBytes)
  BY <1>4 DEF Victims
<1>7. used \subseteq Touched(order, Present \cup {h}, h)
  BY DEF Touched, Kept
<1> HIDE DEF h, used, bytes, victims, prior, lost, excess
<1>8. Present' = keys \ victims
  BY <1>1, <1>2, <1>5, <1>6, ConstantFacts DEF Present
<1>9. /\ byteCount' = Weight(Size, Present') + overflowed' /\ byteCount' \in Nat
      /\ Weight(Size, Present') \in Nat /\ overflowed' \in Nat
  <2>1. /\ SaturatingSub(Weight(Size, keys) + excess, Weight(Size, victims))
              = Weight(Size, keys \ victims) + excess
        /\ Weight(Size, keys \ victims) \in Nat
    <3>1. Sized(Size, keys)
      BY <1>2, HashesAreSized
    <3>2. victims \in SUBSET keys /\ excess \in Nat
      BY <1>4, <1>6
    <3> HIDE DEF keys
    <3>3. \A e \in Nat : /\ SaturatingSub(Weight(Size, keys) + e, Weight(Size, victims))
                               = Weight(Size, keys \ victims) + e
                         /\ Weight(Size, keys \ victims) \in Nat
      BY <3>1, <3>2, WeightTaken
    <3> QED
      BY <3>2, <3>3
  <2> QED
    BY <1>4, <1>5, <1>8, <2>1
<1>10. ByteCountExact'
  <2> SUFFICES ASSUME MaxBytes > 0
               PROVE  byteCount' <= MaxBytes
    BY <1>9 DEF ByteCountExact
  <2>1. keys \ victims = {} \/ Weight(Size, keys \ victims) + excess <= MaxBytes
    BY <1>2, <1>3, <1>4, <1>6, HashesAreSized, WhatStaysFits, ConstantFacts
  <2>2. CASE keys \ victims = {}
    <3>1. Weight(Size, Present') = 0
      <4>1. Bytes(Size, Present') = {}
        BY <1>8, <2>2 DEF Bytes
      <4> QED
        BY <4>1, FS_EmptySet DEF Weight
    <3>2. byteCount <= MaxBytes /\ byteCount \in Nat
      BY DEF StoreInv, TypeOK, ByteCountExact
    <3> QED
      BY <1>4, <1>5, <1>9, <3>1, <3>2, ConstantFacts
  <2>3. CASE Weight(Size, keys \ victims) + excess <= MaxBytes
    BY <1>5, <1>8, <1>9, <2>3
  <2> QED
    BY <2>1, <2>2, <2>3
<1>11. /\ wanted' \subseteq Hashes /\ since' \in [Hashes -> SUBSET Hashes]
       /\ wanted' \subseteq wanted \cup {h}
       /\ \A g \in wanted' :
            /\ \A x \in Present \cup {h} :
                 <<g, x>> \in Touched(order, Present \cup {h}, h) => x \in since'[g]
            /\ Fit(since'[g] \cup {g}, overflowed')
  BY <1>1, <1>5, UsesKeeps
<1>12. KeptWhileItFits'
  <2> SUFFICES ASSUME NEW g \in wanted', g \notin Present'
               PROVE  FALSE
    BY DEF KeptWhileItFits
  <2>1. g \in Present \cup {h} /\ g \in Hashes
    BY <1>11 DEF StoreInv, KeptWhileItFits
  <2>2. /\ since'[g] \cup {g} \in SUBSET Hashes
        /\ Cardinality(since'[g] \cup {g}) <= EntryCap
        /\ IsFiniteSet(since'[g] \cup {g})
    BY <1>11, <2>1, ConstantFacts, FS_Subset DEF Fit
  <2>3. g \in lost \/ g \in victims
    BY <1>8, <2>1
  <2>4. CASE g \in lost
    <3>1. Present \cup {h} \subseteq since'[g] \cup {g}
      <4>1. ASSUME NEW x \in Present \cup {h}, x # g
            PROVE  <<g, x>> \in Touched(order, Present \cup {h}, h)
        BY <1>2, <2>4, <4>1 DEF Touched, Kept
      <4> QED
        BY <1>11, <4>1
    <3>2. Cardinality(Present \cup {h}) = EntryCap + 1
      BY <1>1, <1>2, <2>4, FS_AddElement
    <3>3. Cardinality(Present \cup {h}) <= Cardinality(since'[g] \cup {g})
      BY <2>2, <3>1, FS_Subset
    <3>4. Cardinality(since'[g] \cup {g}) \in Nat /\ EntryCap \in Nat
      BY <2>2, FS_CardinalityType, ConstantFacts
    <3> QED
      BY <2>2, <3>2, <3>3, <3>4
  <2>5. CASE g \in victims
    <3>1. MaxBytes \in Nat /\ MaxBytes > 0
      BY <1>6, <2>5, ConstantFacts DEF Victims
    <3> DEFINE warm == {x \in keys : x = g \/ <<g, x>> \in used}
    <3>2. Weight(Size, warm) + excess > MaxBytes
      BY <1>2, <1>3, <1>4, <1>6, <2>5, <3>1, HashesAreSized, WhatGoesHadTo
    <3>3. warm \subseteq since'[g] \cup {g}
      BY <1>7, <1>11
    <3> HIDE DEF warm
    <3>4. /\ Weight(Size, warm) <= Weight(Size, since'[g] \cup {g})
          /\ Weight(Size, warm) \in Nat /\ Weight(Size, since'[g] \cup {g}) \in Nat
      BY <2>2, <3>3, WeightGrows
    <3>5. Weight(Size, since'[g] \cup {g}) + excess <= MaxBytes
      <4>1. Fit(since'[g] \cup {g}, overflowed')
        BY <1>11
      <4>2. Fit(since'[g] \cup {g}, excess)
        BY <1>5, <4>1
      <4> QED
        BY <3>1, <4>2 DEF Fit
    <3> QED
      BY <1>4, <3>1, <3>2, <3>4, <3>5
  <2> QED
    BY <2>3, <2>4, <2>5
<1>13. WarmerIsSince'
  <2>1. order' \subseteq used
    BY <1>5 DEF Kept
  <2>2. Present' \subseteq Present \cup {h}
    BY <1>8
  <2> SUFFICES ASSUME NEW g \in wanted'
               PROVE  /\ \A x \in Present' : <<g, x>> \in order' => x \in since'[g]
                      /\ Fit(since'[g] \cup {g}, overflowed')
    BY DEF WarmerIsSince, Fit
  <2> QED
    BY <1>7, <1>11, <2>1, <2>2
<1>14. TypeOK'
  <2>1. now' \in Instants
    BY <1>5 DEF StoreInv, TypeOK
  <2>2. expiresAt' \in [Hashes -> Expiries \cup {Absent}]
    BY <1>1, <1>5 DEF StoreInv, TypeOK
  <2>3. OrderOf(order', Present')
    <3>1. keys \ victims \in SUBSET keys
      OBVIOUS
    <3> QED
      BY <1>3, <1>5, <1>8, <3>1, KeptIsOrder
  <2>4. aliasToHash' \in [Aliases -> Hashes \cup {None}]
    BY <1>1, <1>5 DEF StoreInv, TypeOK
  <2>5. task' \in [Tasks -> Requests] /\ \A u \in Tasks : PutsContent(task'[u])
    BY <1>5, IdleIsRequest, TaskChanges DEF StoreInv
  <2>6. Cardinality(Present') <= EntryCap
    <3>1. /\ IsFiniteSet(keys) /\ Present' \in SUBSET keys
          /\ Cardinality(keys) \in Nat /\ EntryCap \in Nat
      BY <1>2, <1>8, ConstantFacts, FS_Subset, FS_CardinalityType
    <3>2. Cardinality(Present') <= Cardinality(keys) /\ Cardinality(Present') \in Nat
      <4> HIDE DEF keys
      <4> QED
        BY <3>1, FS_Subset, FS_CardinalityType
    <3> QED
      BY <1>2, <3>1, <3>2
  <2> QED
    BY <1>9, <1>11, <2>1, <2>2, <2>3, <2>4, <2>5, <2>6 DEF TypeOK, At, Requests, PutsContent
<1> QED
  BY <1>10, <1>12, <1>13, <1>14 DEF StoreInv

-----------------------------------------------------------------------------
(* Every step *)

(* The steps that only change what a task brings to the lock.              *)
LEMMA RequestKeeps ==
    ASSUME StoreInv, NEW t \in Tasks, NEW request \in Requests, PutsContent(request),
           task' = [task EXCEPT ![t] = request], UNCHANGED <<now, inner, history>>
    PROVE  StoreInv'
<1>1. task' \in [Tasks -> Requests] /\ \A u \in Tasks : PutsContent(task'[u])
  BY TaskChanges DEF StoreInv
<1>2. Present' = Present
  BY DEF Present, inner
<1>3. TypeOK'
  BY <1>1, <1>2 DEF StoreInv, TypeOK, inner, history, At, Requests, PutsContent
<1> QED
  BY <1>2, <1>3 DEF StoreInv, ByteCountExact, KeptWhileItFits, WarmerIsSince, Fit, inner, history

LEMMA InstantsAreExpiries ==
    /\ Instants \subseteq Expiries
    /\ \A n \in Instants : n + 1 \in Expiries /\ Never \in Expiries
BY ConstantFacts DEF Instants, Expiries

(* The steps under the lock that take contents away.                       *)
LEMMA RemovalKeeps ==
    ASSUME StoreInv, NEW gone \in SUBSET Hashes, Drops(gone), now' = now,
           aliasToHash' \in [Aliases -> Hashes \cup {None}],
           task' \in [Tasks -> Requests], \A u \in Tasks : PutsContent(task'[u])
    PROVE  StoreInv'
<1>1. TypeOK'
  BY DropsType DEF StoreInv, TypeOK, At, Requests, PutsContent
<1> QED
  BY <1>1, DropsKeeps DEF StoreInv

LEMMA StepKeeps ==
    ASSUME StoreInv, Next
    PROVE  StoreInv'
<1>0. /\ task \in [Tasks -> Requests] /\ \A u \in Tasks : PutsContent(task[u])
      /\ aliasToHash \in [Aliases -> Hashes \cup {None}] /\ now \in Instants
      /\ Present \in SUBSET Hashes
  BY DEF StoreInv, TypeOK, At, Requests, PutsContent, Present
<1>1. ASSUME NEW t \in Tasks, Put(t) PROVE StoreInv'
  <2>1. PICK h \in Hashes, a \in Aliases \cup {None}, e \in {now + 1, Never} : Offer(t, h, a, e)
    BY <1>1 DEF Put
  <2>2. e \in Expiries
    BY <1>0, InstantsAreExpiries
  <2> DEFINE request == [pc |-> "put", hash |-> h, alias |-> a, at |-> e]
  <2>3. request \in Requests /\ PutsContent(request)
    BY <2>2 DEF Requests, PutsContent
  <2> QED
    BY <2>1, <2>3, RequestKeeps DEF Offer
<1>2. ASSUME NEW t \in Tasks, Insert(t) PROVE StoreInv'
  BY <1>2, InsertKeeps
<1>3. ASSUME NEW t \in Tasks, Sweep(t) PROVE StoreInv'
  <2> DEFINE request == [Idle EXCEPT !.pc = "sweep", !.at = now]
  <2>1. request \in Requests /\ PutsContent(request)
    BY <1>0, InstantsAreExpiries DEF Idle, Requests, PutsContent
  <2> QED
    BY <1>3, <2>1, RequestKeeps DEF Sweep
<1>4. ASSUME NEW t \in Tasks, SweepExpired(t) PROVE StoreInv'
  <2> DEFINE gone == {h \in Present : expiresAt[h] <= task[t].at}
             live(h) == h \in Present \ gone
  <2>1. gone \in SUBSET Hashes /\ Drops(gone) /\ now' = now
    BY <1>0, <1>4 DEF SweepExpired
  <2>2. aliasToHash' \in [Aliases -> Hashes \cup {None}]
    <3>1. aliasToHash' = [a \in Aliases |-> IF live(aliasToHash[a]) THEN aliasToHash[a] ELSE None]
      BY <1>4 DEF SweepExpired
    <3> QED
      BY <1>0, <3>1
  <2>3. task' \in [Tasks -> Requests] /\ \A u \in Tasks : PutsContent(task'[u])
    BY <1>4, IdleIsRequest, TaskChanges DEF SweepExpired, StoreInv
  <2> QED
    BY <2>1, <2>2, <2>3, RemovalKeeps
<1>5. ASSUME NEW t \in Tasks, Cancel(t) PROVE StoreInv'
  BY <1>5, IdleIsRequest, RequestKeeps DEF Cancel
<1>6. ASSUME Get PROVE StoreInv'
  <2>1. PICK h \in Present :
          /\ \/ Serve(h)
             \/ Drops({h}) /\ UNCHANGED aliasToHash
          /\ UNCHANGED <<now, task>>
    BY <1>6 DEF Get
  <2>2. CASE Serve(h)
    <3>1. TypeOK'
      BY <2>1, <2>2, ServeKeeps DEF StoreInv, TypeOK, At, Serve
    <3> QED
      BY <2>2, <3>1, ServeKeeps DEF StoreInv
  <2>3. CASE Drops({h}) /\ UNCHANGED aliasToHash
    BY <1>0, <2>1, <2>3, RemovalKeeps
  <2> QED
    BY <2>1, <2>2, <2>3
<1>7. ASSUME Delete PROVE StoreInv'
  <2>1. PICK h \in {Resolve(id) : id \in Hashes \cup Aliases} \ {None} :
          /\ Drops({h})
          /\ aliasToHash' = [a \in Aliases |-> IF aliasToHash[a] = h THEN None ELSE aliasToHash[a]]
          /\ UNCHANGED <<now, task>>
    BY <1>7 DEF Delete
  <2>2. h \in Hashes
    BY <1>0 DEF Resolve
  <2> QED
    BY <1>0, <2>1, <2>2, RemovalKeeps
<1>8. ASSUME Tick PROVE StoreInv'
  <2>1. now' \in Instants
    BY <1>0, <1>8, ConstantFacts DEF Tick, Instants
  <2>2. Present' = Present
    BY <1>8 DEF Tick, Present, inner
  <2>3. TypeOK'
    BY <1>8, <2>1, <2>2 DEF StoreInv, TypeOK, Tick, inner, history, At
  <2> QED
    BY <1>8, <2>2, <2>3
    DEF StoreInv, ByteCountExact, KeptWhileItFits, WarmerIsSince, Fit, Tick, inner, history
<1> QED
  BY <1>1, <1>2, <1>3, <1>4, <1>5, <1>6, <1>7, <1>8 DEF Next, TaskStep

LEMMA InvKept ==
    ASSUME StoreInv, [Next]_vars
    PROVE  StoreInv'
<1>1. CASE UNCHANGED vars
  <2>1. Present' = Present
    BY <1>1 DEF vars, Present, inner
  <2>2. TypeOK'
    BY <1>1, <2>1 DEF StoreInv, TypeOK, vars, inner, history, At
  <2> QED
    BY <1>1, <2>1, <2>2
    DEF StoreInv, ByteCountExact, KeptWhileItFits, WarmerIsSince, Fit, vars, inner, history
<1> QED
  BY <1>1, StepKeeps

-----------------------------------------------------------------------------
(* Every reachable state is well typed.                                    *)
THEOREM ContentStoreTypeCorrect == Spec => []TypeOK
<1>1. Spec => []StoreInv
  BY InitInv, InvKept, PTL DEF Spec
<1> QED
  BY <1>1, PTL DEF StoreInv

(* The byte count of the store is the size of what it holds and of all     *)
(* that its full map ever dropped, and within the cap: through             *)
(* replacement, expiry, deletion, sweeping, eviction and callers that      *)
(* leave (content_store.rs:120, 131-141, 193-197, 241-242, 261-263,        *)
(* 305-309).                                                               *)
THEOREM StoreBytesAreExact == Spec => []ByteCountExact
<1>1. Spec => []StoreInv
  BY InitInv, InvKept, PTL DEF Spec
<1> QED
  BY <1>1, PTL DEF StoreInv

(* A content is readable as long as it fits, together with what was used   *)
(* since it was itself, in the map's entries and in what the drift of the  *)
(* byte count leaves of the cap (content_store.rs:120, 131-141, 230-233).  *)
THEOREM LeastRecentlyUsedIsKept == Spec => []KeptWhileItFits
<1>1. Spec => []StoreInv
  BY InitInv, InvKept, PTL DEF Spec
<1> QED
  BY <1>1, PTL DEF StoreInv

=============================================================================
