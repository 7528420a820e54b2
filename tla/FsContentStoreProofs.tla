------------------------- MODULE FsContentStoreProofs -------------------------
(***************************************************************************)
(* The filesystem store, for any contents and sizes and any cap.           *)
(*                                                                         *)
(* For any number of tasks, whatever they, cancellations, disk accesses    *)
(* that come late and crashes do, Index::byte_count is the size of what is *)
(* indexed.  For one caller at a time whose operations run to their end,   *)
(* what was put stays readable, and disk and index agree.  For any number  *)
(* of callers that only put, their contents and aliases agree.             *)
(***************************************************************************)
EXTENDS FsContentStore, FiniteSetTheorems, FunctionTheorems, TLAPS

IInv == TypeOK /\ ByteCountExact

-----------------------------------------------------------------------------
(* Sizes of sets of contents *)

LEMMA NaturalSize == \A h \in Hashes : Size[h] \in Nat
BY StoreAssumption

LEMMA BytesOfOne ==
    ASSUME NEW h \in Hashes
    PROVE  IsFiniteSet(BytesOf(h)) /\ Cardinality(BytesOf(h)) = Size[h]
<1>1. IsFiniteSet({h}) /\ Cardinality({h}) = 1
  BY FS_Singleton
<1>2. IsFiniteSet(1..Size[h]) /\ Cardinality(1..Size[h]) = Size[h]
  <2>1. Size[h] \in Nat
    BY NaturalSize
  <2>2. /\ IsFiniteSet(1..Size[h])
        /\ Cardinality(1..Size[h]) = IF 1 > Size[h] THEN 0 ELSE Size[h] - 1 + 1
    BY <2>1, FS_Interval
  <2> QED
    BY <2>1, <2>2
<1>3. /\ IsFiniteSet(BytesOf(h))
      /\ Cardinality(BytesOf(h)) = Cardinality({h}) * Cardinality(1..Size[h])
  BY <1>1, <1>2, FS_Product, Zenon DEF BytesOf
<1> QED
  BY <1>1, <1>2, <1>3, NaturalSize

LEMMA BytesFinite ==
    ASSUME NEW H \in SUBSET Hashes
    PROVE  IsFiniteSet(Bytes(H)) /\ Cardinality(Bytes(H)) \in Nat
<1> DEFINE f == [h \in H |-> BytesOf(h)]
           T == {BytesOf(h) : h \in H}
<1>1. IsFiniteSet(H)
  BY StoreAssumption, FS_Subset
<1>2. f \in [H -> T] /\ \A s \in T : \E h \in H : f[h] = s
  OBVIOUS
<1>3. f \in Surjection(H, T)
  BY <1>2, Fun_IsSurj
<1>4. IsFiniteSet(T)
  BY <1>1, <1>3, FS_Surjection
<1>5. \A s \in T : IsFiniteSet(s)
  BY BytesOfOne
<1>6. IsFiniteSet(UNION T)
  BY <1>4, <1>5, FS_UNION
<1> QED
  BY <1>6, FS_CardinalityType DEF Bytes

(* One content more is its size more.                                      *)
LEMMA BytesAdd ==
    ASSUME NEW H \in SUBSET Hashes, NEW h \in Hashes, h \notin H
    PROVE  Cardinality(Bytes(H \cup {h})) = Cardinality(Bytes(H)) + Size[h]
<1>1. Bytes(H \cup {h}) = Bytes(H) \cup BytesOf(h)
  BY DEF Bytes
<1>2. Bytes(H) \cap BytesOf(h) = {}
  BY DEF Bytes, BytesOf
<1>3. Cardinality(Bytes(H) \cap BytesOf(h)) = 0
  BY <1>2, FS_EmptySet
<1>4. /\ IsFiniteSet(Bytes(H)) /\ Cardinality(Bytes(H)) \in Nat
      /\ IsFiniteSet(BytesOf(h))
      /\ Cardinality(BytesOf(h)) = Size[h]
  BY BytesFinite, BytesOfOne
<1>5. Cardinality(Bytes(H) \cup BytesOf(h))
        = Cardinality(Bytes(H)) + Cardinality(BytesOf(h))
          - Cardinality(Bytes(H) \cap BytesOf(h))
  BY <1>4, FS_Union
<1>6. Cardinality(Bytes(H \cup {h}))
        = Cardinality(Bytes(H)) + Cardinality(BytesOf(h)) - 0
  BY <1>1, <1>3, <1>5
<1>7. Size[h] \in Nat
  BY NaturalSize
<1> QED
  BY <1>4, <1>6, <1>7

LEMMA BytesRemove ==
    ASSUME NEW H \in SUBSET Hashes, NEW h \in H
    PROVE  Cardinality(Bytes(H \ {h})) = Cardinality(Bytes(H)) - Size[h]
<1>1. (H \ {h}) \cup {h} = H
  OBVIOUS
<1>2. Cardinality(Bytes(H)) = Cardinality(Bytes(H \ {h})) + Size[h]
  BY <1>1, BytesAdd
<1> QED
  BY <1>2, BytesFinite, NaturalSize

-----------------------------------------------------------------------------
(* The byte count *)

LEMMA InitByteCount == Init => ByteCountExact
<1> SUFFICES ASSUME Init PROVE ByteCountExact
  OBVIOUS
<1>1. Bytes(Indexed) = {}
  BY DEF Init, Indexed, Bytes
<1> QED
  BY <1>1, FS_EmptySet DEF Init, ByteCountExact

LEMMA NoMetaIsNone == NoMeta \notin Metas
BY DEF NoMeta, Metas

(* Insert replaces an entry or adds one.                                   *)
LEMMA InsertCounts ==
    ASSUME TypeOK, ByteCountExact, NEW t \in Tasks, Insert(t)
    PROVE  ByteCountExact'
<1> DEFINE h == task[t].hash
<1>1. h \in Hashes /\ task[t].meta # NoMeta
  BY NoMetaIsNone DEF TypeOK, HasOperands, PutSteps, Insert, At
<1>2. Indexed \in SUBSET Hashes /\ Indexed' = Indexed \cup {h}
  BY <1>1 DEF Insert, Indexed, TypeOK
<1>3. /\ Size[h] \in Nat /\ byteCount \in Nat
      /\ Cardinality(Bytes(Indexed)) \in Nat
  BY <1>1, <1>2, NaturalSize, BytesFinite DEF TypeOK
<1>4. CASE h \in Indexed
  <2>1. Indexed' = Indexed
    BY <1>2, <1>4
  <2>2. byteCount' = byteCount - Size[h] + Size[h]
    BY <1>4 DEF Insert, Indexed
  <2> QED
    BY <1>3, <2>1, <2>2 DEF ByteCountExact, Bytes
<1>5. CASE h \notin Indexed
  <2>1. Cardinality(Bytes(Indexed \cup {h})) = Cardinality(Bytes(Indexed)) + Size[h]
    BY <1>1, <1>2, <1>5, BytesAdd
  <2>2. byteCount' = byteCount - 0 + Size[h]
    BY <1>1, <1>5 DEF Insert, Indexed
  <2> QED
    BY <1>2, <1>3, <2>1, <2>2 DEF ByteCountExact, Bytes
<1> QED
  BY <1>4, <1>5

(* remove_one counts only what was indexed.                                *)
LEMMA RemoveCounts ==
    ASSUME TypeOK, ByteCountExact, NEW t \in Tasks, Unindex(t)
    PROVE  ByteCountExact'
<1>1. task[t].doomed \subseteq Hashes
  BY DEF TypeOK, TaskStates
<1>2. PICK h \in task[t].doomed :
        /\ index' = [index EXCEPT ![h] = NoMeta]
        /\ byteCount' = byteCount - IF index[h] # NoMeta THEN Size[h] ELSE 0
  BY DEF Unindex
<1>3. h \in Hashes /\ Indexed \in SUBSET Hashes /\ Indexed' = Indexed \ {h}
  BY <1>1, <1>2 DEF Indexed, TypeOK
<1>4. /\ Size[h] \in Nat /\ byteCount \in Nat
      /\ Cardinality(Bytes(Indexed)) \in Nat
  BY <1>3, NaturalSize, BytesFinite DEF TypeOK
<1>5. CASE h \in Indexed
  <2>1. byteCount' = byteCount - Size[h]
    BY <1>2, <1>5 DEF Indexed
  <2>2. Cardinality(Bytes(Indexed \ {h})) = Cardinality(Bytes(Indexed)) - Size[h]
    BY <1>3, <1>5, BytesRemove
  <2> QED
    BY <1>3, <2>1, <2>2 DEF ByteCountExact, Bytes
<1>6. CASE h \notin Indexed
  <2>1. byteCount' = byteCount - 0 /\ Indexed' = Indexed
    BY <1>2, <1>3, <1>6 DEF Indexed
  <2> QED
    BY <1>4, <2>1 DEF ByteCountExact, Bytes
<1> QED
  BY <1>5, <1>6

(* The count a reopening starts from.                                      *)
LEMMA ReopenCounts == CrashAndReopen => ByteCountExact'
<1> SUFFICES ASSUME CrashAndReopen PROVE ByteCountExact'
  OBVIOUS
<1> DEFINE found == [h \in Hashes |-> IF h \in blobs THEN metaFile[h] ELSE NoMeta]
<1>1. /\ index' = found
      /\ byteCount' = Cardinality(Bytes({h \in Hashes : found[h] # NoMeta}))
  BY DEF CrashAndReopen
<1>2. Indexed' = {h \in Hashes : found[h] # NoMeta}
  BY <1>1 DEF Indexed
<1> QED
  BY <1>1, <1>2 DEF ByteCountExact, Bytes

LEMMA NextByteCount == TypeOK /\ ByteCountExact /\ [Next]_vars => ByteCountExact'
<1> SUFFICES ASSUME TypeOK, ByteCountExact, [Next]_vars PROVE ByteCountExact'
  OBVIOUS
<1>1. ASSUME NEW t \in Tasks, Insert(t) PROVE ByteCountExact'
  BY <1>1, InsertCounts
<1>2. ASSUME NEW t \in Tasks, Unindex(t) PROVE ByteCountExact'
  BY <1>2, RemoveCounts
<1>3. CASE CrashAndReopen
  BY <1>3, ReopenCounts
<1>4. ASSUME UNCHANGED <<index, byteCount>> PROVE ByteCountExact'
  BY <1>4 DEF ByteCountExact, Indexed, Bytes
<1>5. ASSUME NEW t \in Tasks, Starts(t) PROVE UNCHANGED <<index, byteCount>>
  BY <1>5 DEF Starts, Put, Delete, Get, Sweep, Removing, memory
<1>6. ASSUME NEW t \in Tasks, Acquires(t), ~Insert(t)
      PROVE  UNCHANGED <<index, byteCount>>
  BY <1>6 DEF Acquires, InsertAlias, Lookup, Expire, SweepListed, Removing, memory
<1>7. ASSUME NEW t \in Tasks, Proceeds(t), ~Unindex(t)
      PROVE  UNCHANGED <<index, byteCount>>
  BY <1>7 DEF Proceeds, CheckBlob, WriteBlob, WriteMeta, WriteAlias, WriteFails,
              EvictNext, PutReturns, RemoveBlob, RemoveMeta, UnmapAlias, RemoveAlias,
              Removed, ReadBlob, memory
<1>8. ASSUME NEW t \in Tasks, Cancel(t) PROVE UNCHANGED <<index, byteCount>>
  BY <1>8 DEF Cancel, memory
<1>9. ASSUME NEW s \in Slots, Late(s) PROVE UNCHANGED <<index, byteCount>>
  BY <1>9 DEF Late, memory
<1>10. ASSUME Tick \/ UNCHANGED vars PROVE UNCHANGED <<index, byteCount>>
  BY <1>10 DEF Tick, vars, memory
<1> QED
  BY <1>1, <1>2, <1>3, <1>4, <1>5, <1>6, <1>7, <1>8, <1>9, <1>10 DEF Next

-----------------------------------------------------------------------------
(* Types *)

TasksOK == task \in [Tasks -> TaskStates] /\ \A t \in Tasks : HasOperands(task[t])

(* A disk access left behind knows what it is about.                       *)
AdriftOK ==
    /\ adrift \in [Slots -> TaskStates]
    /\ \A s \in Slots : HasOperands(adrift[s]) /\
         adrift[s].pc \in {"idle"} \cup Writes \cup Removals

StoreOK ==
    /\ AdriftOK
    /\ now \in 1..LastInstant
    /\ blobs \subseteq Hashes /\ acked \subseteq Hashes
    /\ metaFile \in [Hashes -> Metas \cup {NoMeta}]
    /\ index \in [Hashes -> Metas \cup {NoMeta}]
    /\ aliasFile \in [Aliases -> Hashes \cup {None}]
    /\ aliasToHash \in [Aliases -> Hashes \cup {None}]
    /\ litter \in BOOLEAN
    /\ lock \in Tasks \cup {None}

LEMMA TypeParts == TypeOK <=> StoreOK /\ TasksOK /\ byteCount \in Nat
BY DEF TypeOK, StoreOK, AdriftOK, TasksOK

LEMMA IdleTyped == Idle \in TaskStates /\ HasOperands(Idle)
BY DEF Idle, TaskStates, HasOperands, PutSteps, GetSteps, RemoveSteps

LEMMA AdriftKept == StoreOK /\ UNCHANGED adrift => AdriftOK'
BY DEF StoreOK, AdriftOK, HasOperands

(* One access more left behind, or one less.                               *)
LEMMA AdriftReplaced ==
    ASSUME AdriftOK, NEW s \in Slots, NEW access \in TaskStates, HasOperands(access),
           access.pc \in {"idle"} \cup Writes \cup Removals,
           adrift' = [adrift EXCEPT ![s] = access]
    PROVE  AdriftOK'
<1>1. adrift' \in [Slots -> TaskStates]
  BY DEF AdriftOK
<1>2. ASSUME NEW r \in Slots
      PROVE  HasOperands(adrift'[r]) /\ adrift'[r].pc \in {"idle"} \cup Writes \cup Removals
  <2>1. adrift'[r] = IF r = s THEN access ELSE adrift[r]
    BY DEF AdriftOK
  <2>2. CASE r = s
    <3>1. adrift'[r] = access
      BY <2>1, <2>2
    <3> QED
      BY <3>1
  <2>3. CASE r # s
    <3>1. adrift'[r] = adrift[r]
      BY <2>1, <2>3
    <3> QED
      BY <3>1 DEF AdriftOK
  <2> QED
    BY <2>2, <2>3
<1> QED
  BY <1>1, <1>2 DEF AdriftOK, HasOperands

(* One task's state replaced.                                              *)
LEMMA TaskReplaced ==
    ASSUME TasksOK, NEW t \in Tasks, NEW s \in TaskStates, HasOperands(s),
           task' = [task EXCEPT ![t] = s]
    PROVE  TasksOK'
<1>1. task' \in [Tasks -> TaskStates]
  BY DEF TasksOK
<1>2. ASSUME NEW u \in Tasks PROVE HasOperands(task'[u])
  <2>1. task'[u] = IF u = t THEN s ELSE task[u]
    BY DEF TasksOK
  <2>2. CASE u = t
    <3>1. task'[u] = s
      BY <2>1, <2>2
    <3> QED
      BY <3>1
  <2>3. CASE u # t
    <3>1. task'[u] = task[u]
      BY <2>1, <2>3
    <3> QED
      BY <3>1 DEF TasksOK
  <2> QED
    BY <2>2, <2>3
<1> QED
  BY <1>1, <1>2 DEF TasksOK, HasOperands

LEMMA TaskReturns ==
    ASSUME TasksOK, NEW t \in Tasks, Return(t)
    PROVE  TasksOK'
BY IdleTyped, TaskReplaced DEF Return

Pcs == {"idle", "sweep"} \cup PutSteps \cup GetSteps \cup RemoveSteps

(* One task's program counter moved.                                       *)
LEMMA TaskGoes ==
    ASSUME TasksOK, NEW t \in Tasks, NEW pc \in Pcs, GoTo(t, pc),
           pc \in PutSteps => task[t].op = "put",
           pc \in {"write_alias", "insert_alias", "remove_alias"} =>
             task[t].alias \in Aliases,
           pc \in GetSteps => task[t].hash \in Hashes,
           pc \in RemoveSteps \ {"remove"} => task[t].victim \in Hashes
    PROVE  TasksOK'
<1> DEFINE s == [task[t] EXCEPT !.pc = pc]
<1>1. task[t] \in TaskStates /\ HasOperands(task[t])
  BY DEF TasksOK
<1>2. s \in TaskStates
  BY <1>1 DEF TaskStates, Pcs
<1>3. /\ s.op = task[t].op /\ s.pc = pc /\ s.hash = task[t].hash
      /\ s.alias = task[t].alias /\ s.meta = task[t].meta /\ s.victim = task[t].victim
  BY <1>1 DEF TaskStates
<1>4. HasOperands(s)
  BY <1>1, <1>3 DEF HasOperands
<1>5. task' = [task EXCEPT ![t] = s]
  BY DEF GoTo
<1> QED
  BY <1>2, <1>4, <1>5, TaskReplaced

LEMMA RemovingTyped ==
    ASSUME StoreOK, TasksOK, NEW t \in Tasks,
           NEW op \in {"get", "delete", "sweep"}, NEW doomed \in SUBSET Hashes,
           Removing(t, op, doomed)
    PROVE  StoreOK' /\ TasksOK'
<1> DEFINE s == [Idle EXCEPT !.op = op, !.pc = "remove", !.doomed = doomed]
<1>1. s \in TaskStates
  BY IdleTyped DEF TaskStates, RemoveSteps
<1>2. s.pc = "remove" /\ s.op = op
  BY DEF Idle
<1>3. HasOperands(s)
  BY <1>2 DEF HasOperands, PutSteps, GetSteps
<1>4. TasksOK'
  BY <1>1, <1>3, TaskReplaced DEF Removing
<1>5. StoreOK'
  BY AdriftKept DEF Removing, StoreOK, disk, memory
<1> QED
  BY <1>4, <1>5

LEMMA StartsTyped ==
    ASSUME StoreOK, TasksOK, NEW t \in Tasks, Starts(t)
    PROVE  StoreOK' /\ TasksOK'
<1>1. CASE Put(t)
  <2>1. PICK h \in Hashes, a \in Aliases \cup {None}, e \in {now + 2, Never} :
          task' = [task EXCEPT ![t] =
             [Idle EXCEPT !.op = "put", !.pc = "check_blob", !.hash = h, !.alias = a,
                          !.meta = [stored_at |-> now, expires_at |-> e]]]
    BY <1>1 DEF Put
  <2> DEFINE m == [stored_at |-> now, expires_at |-> e]
             s == [Idle EXCEPT !.op = "put", !.pc = "check_blob", !.hash = h,
                               !.alias = a, !.meta = m]
  <2>2. now \in 1..LastInstant /\ LastInstant \in Nat /\ now < LastInstant
    BY <1>1, StoreAssumption DEF StoreOK, Put
  <2>3. m \in Metas
    BY <2>2 DEF Metas, Never
  <2>4. s \in TaskStates
    BY <2>3, IdleTyped DEF TaskStates, PutSteps
  <2>5. s.op = "put" /\ s.pc = "check_blob" /\ s.hash = h /\ s.meta = m
    BY DEF Idle
  <2>6. HasOperands(s)
    BY <2>3, <2>5 DEF HasOperands, PutSteps, GetSteps, RemoveSteps
  <2>7. TasksOK'
    BY <2>1, <2>4, <2>6, TaskReplaced
  <2>8. StoreOK'
    BY <1>1, <2>2, AdriftKept DEF StoreOK, Put, disk, memory
  <2> QED
    BY <2>7, <2>8
<1>2. CASE Delete(t)
  <2>1. PICK id \in Hashes \cup Aliases :
          Resolve(id) # None /\ Removing(t, "delete", {Resolve(id)})
    BY <1>2 DEF Delete
  <2>2. Resolve(id) \in Hashes
    BY <2>1 DEF Resolve, StoreOK
  <2> QED
    BY <2>1, <2>2, RemovingTyped
<1>3. CASE Get(t)
  <2>1. PICK id \in Hashes \cup Aliases :
          /\ Resolve(id) # None
          /\ task' = [task EXCEPT ![t] =
                [Idle EXCEPT !.op = "get", !.pc = "lookup", !.hash = Resolve(id)]]
    BY <1>3 DEF Get
  <2> DEFINE s == [Idle EXCEPT !.op = "get", !.pc = "lookup", !.hash = Resolve(id)]
  <2>2. Resolve(id) \in Hashes
    BY <2>1 DEF Resolve, StoreOK
  <2>3. s \in TaskStates
    BY <2>2, IdleTyped DEF TaskStates, GetSteps
  <2>4. s.op = "get" /\ s.pc = "lookup" /\ s.hash = Resolve(id)
    BY DEF Idle
  <2>5. HasOperands(s)
    BY <2>2, <2>4 DEF HasOperands, PutSteps, GetSteps, RemoveSteps
  <2> QED
    BY <1>3, <2>1, <2>3, <2>5, TaskReplaced, AdriftKept DEF Get, StoreOK, disk, memory
<1>4. CASE Sweep(t)
  <2> DEFINE due == {h \in Hashes : Expired(h)}
             s == [Idle EXCEPT !.op = "sweep", !.pc = "sweep", !.doomed = due]
  <2>1. s \in TaskStates
    BY IdleTyped DEF TaskStates
  <2>2. s.op = "sweep" /\ s.pc = "sweep"
    BY DEF Idle
  <2>3. HasOperands(s)
    BY <2>2 DEF HasOperands, PutSteps, GetSteps, RemoveSteps
  <2> QED
    BY <1>4, <2>1, <2>3, TaskReplaced, AdriftKept DEF Sweep, StoreOK, disk, memory
<1> QED
  BY <1>1, <1>2, <1>3, <1>4 DEF Starts

LEMMA AcquiresTyped ==
    ASSUME StoreOK, TasksOK, NEW t \in Tasks, Acquires(t)
    PROVE  StoreOK' /\ TasksOK'
<1>1. task[t] \in TaskStates /\ HasOperands(task[t])
  BY DEF TasksOK
<1>2. CASE Insert(t)
  <2>1. task[t].op = "put" /\ task[t].hash \in Hashes /\ task[t].meta \in Metas
    BY <1>1, <1>2 DEF Insert, At, HasOperands, PutSteps
  <2>2. \/ task[t].alias # None /\ lock' = lock /\ GoTo(t, "write_alias")
        \/ lock' = t /\ GoTo(t, "evict")
    BY <1>2 DEF Insert
  <2>3. task[t].alias \in Aliases \cup {None}
    BY <1>1 DEF TaskStates
  <2>4. TasksOK'
    BY <2>1, <2>2, <2>3, TaskGoes DEF Pcs, PutSteps, GetSteps, RemoveSteps
  <2>5. StoreOK'
    BY <1>2, <2>1, <2>2, AdriftKept DEF Insert, StoreOK, disk
  <2> QED
    BY <2>4, <2>5
<1>3. CASE InsertAlias(t)
  <2>1. task[t].op = "put" /\ task[t].hash \in Hashes /\ task[t].alias \in Aliases
    BY <1>1, <1>3 DEF InsertAlias, At, HasOperands, PutSteps
  <2>2. TasksOK'
    BY <1>3, <2>1, TaskGoes DEF InsertAlias, Pcs, PutSteps, GetSteps, RemoveSteps
  <2>3. StoreOK'
    BY <1>3, <2>1, AdriftKept DEF InsertAlias, StoreOK, disk
  <2> QED
    BY <2>2, <2>3
<1>4. CASE Lookup(t)
  <2>1. task[t].hash \in Hashes
    BY <1>1, <1>4 DEF Lookup, At, HasOperands, GetSteps
  <2>2. Return(t) \/ GoTo(t, "expire") \/ GoTo(t, "read_blob")
    BY <1>4 DEF Lookup
  <2>3. TasksOK'
    BY <2>1, <2>2, TaskReturns, TaskGoes DEF Pcs, PutSteps, GetSteps, RemoveSteps
  <2>4. StoreOK'
    BY <1>4, AdriftKept DEF Lookup, StoreOK, disk, memory
  <2> QED
    BY <2>3, <2>4
<1>5. CASE Expire(t)
  <2>1. task[t].hash \in Hashes
    BY <1>1, <1>5 DEF Expire, At, HasOperands, GetSteps
  <2> QED
    BY <1>5, <2>1, RemovingTyped DEF Expire
<1>6. CASE SweepListed(t)
  <2>1. task[t].doomed \subseteq Hashes
    BY <1>1 DEF TaskStates
  <2> QED
    BY <1>6, <2>1, RemovingTyped DEF SweepListed
<1> QED
  BY <1>2, <1>3, <1>4, <1>5, <1>6 DEF Acquires

LEMMA RemoveStepsTyped ==
    ASSUME StoreOK, TasksOK, NEW t \in Tasks,
           \/ Unindex(t) \/ RemoveBlob(t) \/ RemoveMeta(t)
           \/ UnmapAlias(t) \/ RemoveAlias(t) \/ Removed(t)
    PROVE  StoreOK' /\ TasksOK'
<1>1. task[t] \in TaskStates /\ HasOperands(task[t])
  BY DEF TasksOK
<1>2. task[t].pc \in RemoveSteps \ {"remove"} => task[t].victim \in Hashes
  BY <1>1 DEF HasOperands
<1>3. CASE Unindex(t)
  <2>1. PICK h \in task[t].doomed :
          /\ index' = [index EXCEPT ![h] = NoMeta]
          /\ acked' = acked \ {h}
          /\ task' = [task EXCEPT ![t].pc = "remove_blob", ![t].victim = h,
                                  ![t].doomed = @ \ {h}]
    BY <1>3 DEF Unindex
  <2> DEFINE s == [task[t] EXCEPT !.pc = "remove_blob", !.victim = h,
                                  !.doomed = @ \ {h}]
  <2>2. h \in Hashes
    BY <1>1 DEF TaskStates
  <2>3. s \in TaskStates
    BY <1>1, <2>2 DEF TaskStates, RemoveSteps
  <2>4. /\ s.op = task[t].op /\ s.pc = "remove_blob" /\ s.hash = task[t].hash
        /\ s.alias = task[t].alias /\ s.meta = task[t].meta /\ s.victim = h
    BY <1>1 DEF TaskStates
  <2>5. HasOperands(s)
    BY <1>1, <2>2, <2>4 DEF HasOperands, PutSteps, GetSteps
  <2>6. task' = [task EXCEPT ![t] = s]
    BY <2>1
  <2>7. TasksOK'
    BY <2>3, <2>5, <2>6, TaskReplaced
  <2>8. StoreOK'
    BY <1>3, <2>1, AdriftKept DEF Unindex, StoreOK, disk
  <2> QED
    BY <2>7, <2>8
<1>4. CASE RemoveBlob(t)
  <2>1. task[t].victim \in Hashes
    BY <1>2, <1>4 DEF RemoveBlob, At, RemoveSteps
  <2>2. TasksOK'
    BY <1>4, <2>1, TaskGoes DEF RemoveBlob, Pcs, PutSteps, GetSteps, RemoveSteps
  <2>3. StoreOK'
    BY <1>4, <2>1, AdriftKept DEF RemoveBlob, Removal, StoreOK, memory
  <2> QED
    BY <2>2, <2>3
<1>5. CASE RemoveMeta(t)
  <2>1. task[t].victim \in Hashes
    BY <1>2, <1>5 DEF RemoveMeta, At, RemoveSteps
  <2>2. TasksOK'
    BY <1>5, <2>1, TaskGoes DEF RemoveMeta, Pcs, PutSteps, GetSteps, RemoveSteps
  <2>3. StoreOK'
    BY <1>5, <2>1, AdriftKept DEF RemoveMeta, Removal, StoreOK, memory
  <2> QED
    BY <2>2, <2>3
<1>6. CASE UnmapAlias(t)
  <2>1. PICK a \in Aliases :
          /\ aliasToHash' = [aliasToHash EXCEPT ![a] = None]
          /\ task' = [task EXCEPT ![t].pc = "remove_alias", ![t].alias = a]
    BY <1>6 DEF UnmapAlias, Dead
  <2> DEFINE s == [task[t] EXCEPT !.pc = "remove_alias", !.alias = a]
  <2>2. task[t].victim \in Hashes
    BY <1>2, <1>6 DEF UnmapAlias, At, RemoveSteps
  <2>3. s \in TaskStates
    BY <1>1 DEF TaskStates, RemoveSteps
  <2>4. /\ s.op = task[t].op /\ s.pc = "remove_alias" /\ s.hash = task[t].hash
        /\ s.alias = a /\ s.meta = task[t].meta /\ s.victim = task[t].victim
    BY <1>1 DEF TaskStates
  <2>5. HasOperands(s)
    BY <1>1, <2>2, <2>4 DEF HasOperands, PutSteps, GetSteps
  <2>6. task' = [task EXCEPT ![t] = s]
    BY <2>1
  <2>7. TasksOK'
    BY <2>3, <2>5, <2>6, TaskReplaced
  <2>8. StoreOK'
    BY <1>6, <2>1, AdriftKept DEF UnmapAlias, StoreOK, disk
  <2> QED
    BY <2>7, <2>8
<1>7. CASE RemoveAlias(t)
  <2>1. task[t].victim \in Hashes /\ task[t].alias \in Aliases
    BY <1>1, <1>2, <1>7 DEF RemoveAlias, At, RemoveSteps, HasOperands
  <2>2. TasksOK'
    BY <1>7, <2>1, TaskGoes DEF RemoveAlias, Pcs, PutSteps, GetSteps, RemoveSteps
  <2>3. StoreOK'
    BY <1>7, <2>1, AdriftKept DEF RemoveAlias, Removal, StoreOK, memory
  <2> QED
    BY <2>2, <2>3
<1>8. CASE Removed(t)
  <2>1. \/ GoTo(t, "remove") /\ UNCHANGED lock
        \/ task[t].op = "put" /\ GoTo(t, "evict") /\ UNCHANGED lock
        \/ Return(t) /\ lock' = None
    BY <1>8 DEF Removed
  <2>2. TasksOK'
    BY <2>1, TaskReturns, TaskGoes DEF Pcs, PutSteps, GetSteps, RemoveSteps
  <2>3. StoreOK'
    BY <1>8, <2>1, AdriftKept DEF Removed, StoreOK, disk, memory
  <2> QED
    BY <2>2, <2>3
<1> QED
  BY <1>3, <1>4, <1>5, <1>6, <1>7, <1>8

LEMMA PutStepsTyped ==
    ASSUME StoreOK, TasksOK, NEW t \in Tasks,
           \/ CheckBlob(t) \/ WriteBlob(t) \/ WriteMeta(t) \/ WriteAlias(t)
           \/ WriteFails(t) \/ EvictNext(t) \/ PutReturns(t) \/ ReadBlob(t)
    PROVE  StoreOK' /\ TasksOK'
<1>1. task[t] \in TaskStates /\ HasOperands(task[t])
  BY DEF TasksOK
<1>2. task[t].pc \in PutSteps =>
        task[t].op = "put" /\ task[t].hash \in Hashes /\ task[t].meta \in Metas
  BY <1>1 DEF HasOperands
<1>3. CASE CheckBlob(t)
  <2>1. task[t].op = "put" /\ (GoTo(t, "write_meta") \/ GoTo(t, "write_blob"))
    BY <1>2, <1>3 DEF CheckBlob, At, PutSteps
  <2>2. TasksOK'
    BY <2>1, TaskGoes DEF Pcs, PutSteps, GetSteps, RemoveSteps
  <2> QED
    BY <1>3, <2>2, AdriftKept DEF CheckBlob, StoreOK, disk, memory
<1>4. CASE WriteBlob(t)
  <2>1. task[t].op = "put" /\ task[t].hash \in Hashes
    BY <1>2, <1>4 DEF WriteBlob, At, PutSteps
  <2>2. TasksOK'
    BY <1>4, <2>1, TaskGoes DEF WriteBlob, Pcs, PutSteps, GetSteps, RemoveSteps
  <2> QED
    BY <1>4, <2>1, <2>2, AdriftKept DEF WriteBlob, StoreOK, memory
<1>5. CASE WriteMeta(t)
  <2>1. task[t].op = "put" /\ task[t].hash \in Hashes /\ task[t].meta \in Metas
    BY <1>2, <1>5 DEF WriteMeta, At, PutSteps
  <2>2. TasksOK'
    BY <1>5, <2>1, TaskGoes DEF WriteMeta, Pcs, PutSteps, GetSteps, RemoveSteps
  <2> QED
    BY <1>5, <2>1, <2>2, AdriftKept DEF WriteMeta, StoreOK, memory
<1>6. CASE WriteAlias(t)
  <2>1. task[t].op = "put" /\ task[t].hash \in Hashes
    BY <1>2, <1>6 DEF WriteAlias, At, PutSteps
  <2>2. task[t].alias \in Aliases
    BY <1>1, <1>6 DEF WriteAlias, At, HasOperands
  <2>3. TasksOK'
    BY <1>6, <2>1, <2>2, TaskGoes DEF WriteAlias, Pcs, PutSteps, GetSteps, RemoveSteps
  <2> QED
    BY <1>6, <2>1, <2>2, <2>3, AdriftKept DEF WriteAlias, StoreOK, memory
<1>7. CASE WriteFails(t)
  BY <1>7, TaskReturns, AdriftKept DEF WriteFails, StoreOK, memory
<1>8. CASE EvictNext(t)
  <2>1. PICK h \in Hashes :
          task' = [task EXCEPT ![t].pc = "remove", ![t].doomed = {h}]
    BY <1>8 DEF EvictNext, Indexed
  <2> DEFINE s == [task[t] EXCEPT !.pc = "remove", !.doomed = {h}]
  <2>2. s \in TaskStates
    BY <1>1 DEF TaskStates, RemoveSteps
  <2>3. /\ s.op = task[t].op /\ s.pc = "remove" /\ s.hash = task[t].hash
        /\ s.meta = task[t].meta
    BY <1>1 DEF TaskStates
  <2>4. HasOperands(s)
    BY <1>1, <2>3 DEF HasOperands, PutSteps, GetSteps
  <2>5. task' = [task EXCEPT ![t] = s]
    BY <2>1
  <2>6. TasksOK'
    BY <2>2, <2>4, <2>5, TaskReplaced
  <2> QED
    BY <1>8, <2>6, AdriftKept DEF EvictNext, StoreOK, disk, memory
<1>9. CASE PutReturns(t)
  <2>1. task[t].hash \in Hashes
    BY <1>2, <1>9 DEF PutReturns, At, PutSteps
  <2> QED
    BY <1>9, <2>1, TaskReturns, AdriftKept DEF PutReturns, StoreOK, disk, memory
<1>10. CASE ReadBlob(t)
  BY <1>10, TaskReturns, AdriftKept DEF ReadBlob, StoreOK, disk, memory
<1> QED
  BY <1>3, <1>4, <1>5, <1>6, <1>7, <1>8, <1>9, <1>10

LEMMA CancelTyped ==
    ASSUME StoreOK, TasksOK, NEW t \in Tasks, Cancel(t)
    PROVE  StoreOK' /\ TasksOK'
<1>1. TasksOK'
  BY TaskReturns DEF Cancel
<1>2. AdriftOK'
  <2>1. task[t] \in TaskStates /\ HasOperands(task[t]) /\ AdriftOK
    BY DEF TasksOK, StoreOK
  <2>2. CASE UNCHANGED adrift
    BY <2>2, AdriftKept
  <2>3. CASE /\ task[t].pc \in Writes \cup Removals
             /\ \E s \in Slots : adrift' = [adrift EXCEPT ![s] = task[t]]
    BY <2>1, <2>3, AdriftReplaced
  <2> QED
    BY <2>2, <2>3 DEF Cancel
<1>3. StoreOK'
  BY <1>2 DEF Cancel, StoreOK, memory
<1> QED
  BY <1>1, <1>3

LEMMA LateTyped ==
    ASSUME StoreOK, TasksOK, NEW s \in Slots, Late(s)
    PROVE  StoreOK' /\ TasksOK'
<1> DEFINE access == adrift[s]
<1>1. access \in TaskStates /\ HasOperands(access)
  BY DEF StoreOK, AdriftOK
<1>2. AdriftOK'
  BY IdleTyped, AdriftReplaced DEF Late, StoreOK, Idle
<1>3. blobs' \subseteq Hashes
  <2>1. access.pc = "write_blob" => access.hash \in Hashes
    BY <1>1 DEF HasOperands, PutSteps
  <2> QED
    BY <2>1 DEF Late, Removal, StoreOK
<1>4. metaFile' \in [Hashes -> Metas \cup {NoMeta}]
  <2>1. access.pc = "write_meta" => access.meta \in Metas
    BY <1>1 DEF HasOperands, PutSteps
  <2> QED
    BY <2>1 DEF Late, Removal, StoreOK
<1>5. aliasFile' \in [Aliases -> Hashes \cup {None}]
  <2>1. access.pc = "write_alias" => access.hash \in Hashes
    BY <1>1 DEF HasOperands, PutSteps
  <2> QED
    BY <2>1 DEF Late, Removal, StoreOK
<1>6. StoreOK'
  BY <1>2, <1>3, <1>4, <1>5 DEF Late, StoreOK, memory
<1>7. TasksOK'
  BY DEF Late, TasksOK, HasOperands
<1> QED
  BY <1>6, <1>7

LEMMA CrashTyped ==
    ASSUME StoreOK, TasksOK, CrashAndReopen
    PROVE  StoreOK' /\ TasksOK'
<1> DEFINE found == [h \in Hashes |-> IF h \in blobs THEN metaFile[h] ELSE NoMeta]
           live(h) == h # None /\ found[h] # NoMeta
           aliases == [a \in Aliases |-> IF live(aliasFile[a]) THEN aliasFile[a] ELSE None]
<1>1. found \in [Hashes -> Metas \cup {NoMeta}]
  BY DEF StoreOK
<1>2. aliases \in [Aliases -> Hashes \cup {None}]
  BY DEF StoreOK
<1>3. /\ index' = found /\ aliasToHash' = aliases
      /\ metaFile' \in {metaFile, found} /\ aliasFile' \in {aliasFile, aliases}
      /\ litter' \in BOOLEAN /\ lock' = None
      /\ task' = [t \in Tasks |-> Idle] /\ adrift' = [s \in Slots |-> Idle]
      /\ UNCHANGED <<now, blobs, acked>>
  BY DEF CrashAndReopen, Removal, StoreOK
<1>4. StoreOK'
  <2>1. AdriftOK'
    BY <1>3, IdleTyped DEF AdriftOK, Idle
  <2> QED
    BY <1>1, <1>2, <1>3, <2>1 DEF StoreOK
<1>5. TasksOK'
  BY <1>3, IdleTyped DEF TasksOK
<1> QED
  BY <1>4, <1>5

LEMMA InitTyped == Init => StoreOK /\ TasksOK /\ byteCount \in Nat
<1> SUFFICES ASSUME Init PROVE StoreOK /\ TasksOK /\ byteCount \in Nat
  OBVIOUS
<1>1. StoreOK
  <2>1. now \in 1..LastInstant
    BY StoreAssumption DEF Init
  <2>2. [h \in Hashes |-> NoMeta] \in [Hashes -> Metas \cup {NoMeta}]
    OBVIOUS
  <2>3. [a \in Aliases |-> None] \in [Aliases -> Hashes \cup {None}]
    OBVIOUS
  <2>4. AdriftOK
    BY IdleTyped DEF Init, AdriftOK, Idle
  <2> QED
    BY <2>1, <2>2, <2>3, <2>4 DEF Init, StoreOK
<1>2. TasksOK
  BY IdleTyped DEF Init, TasksOK
<1> QED
  BY <1>1, <1>2 DEF Init

LEMMA NextTyped ==
    ASSUME StoreOK, TasksOK, [Next]_vars
    PROVE  StoreOK' /\ TasksOK'
<1>1. ASSUME NEW t \in Tasks, Starts(t) PROVE StoreOK' /\ TasksOK'
  BY <1>1, StartsTyped
<1>2. ASSUME NEW t \in Tasks, Acquires(t) PROVE StoreOK' /\ TasksOK'
  BY <1>2, AcquiresTyped
<1>3. ASSUME NEW t \in Tasks, Proceeds(t) PROVE StoreOK' /\ TasksOK'
  BY <1>3, RemoveStepsTyped, PutStepsTyped DEF Proceeds
<1>4. ASSUME NEW t \in Tasks, Cancel(t) PROVE StoreOK' /\ TasksOK'
  BY <1>4, CancelTyped
<1>5. ASSUME NEW s \in Slots, Late(s) PROVE StoreOK' /\ TasksOK'
  BY <1>5, LateTyped
<1>6. CASE CrashAndReopen
  BY <1>6, CrashTyped
<1>7. CASE Tick
  BY <1>7, StoreAssumption, AdriftKept DEF Tick, StoreOK, TasksOK, disk, memory
<1>8. CASE UNCHANGED vars
  BY <1>8, AdriftKept DEF vars, StoreOK, TasksOK, disk, memory
<1> QED
  BY <1>1, <1>2, <1>3, <1>4, <1>5, <1>6, <1>7, <1>8 DEF Next

-----------------------------------------------------------------------------
(* The theorems *)

(* The count is a number because it is the number of some bytes.           *)
LEMMA NextInvariant == IInv /\ [Next]_vars => IInv'
<1> SUFFICES ASSUME IInv, [Next]_vars PROVE IInv'
  OBVIOUS
<1>1. ByteCountExact'
  BY NextByteCount DEF IInv
<1>2. StoreOK' /\ TasksOK'
  BY NextTyped, TypeParts DEF IInv
<1>3. Indexed' \in SUBSET Hashes
  BY DEF Indexed
<1>4. Cardinality(Bytes(Indexed')) \in Nat
  BY <1>3, BytesFinite
<1>5. (byteCount \in Nat)'
  BY <1>1, <1>4 DEF ByteCountExact, Bytes
<1>6. TypeOK'
  BY <1>2, <1>5 DEF TypeOK, StoreOK, AdriftOK, TasksOK
<1> QED
  BY <1>1, <1>6 DEF IInv

LEMMA Invariant == Spec => []IInv
<1>1. Init => IInv
  BY InitTyped, InitByteCount, TypeParts DEF IInv
<1> QED
  BY <1>1, NextInvariant, PTL DEF Spec

(* Every variable and every operation in progress is well-formed, whatever *)
(* the tasks interleave, cancel or lose in a crash (content_store_fs.rs:   *)
(* 50-503); in particular byte_count, a u64, never falls below zero.       *)
THEOREM StoreTypeCorrect == Spec => []TypeOK
BY Invariant, PTL DEF IInv

(* Index::byte_count is the size of what is indexed, for any tasks,        *)
(* contents, sizes and cap: no replacement, racing removal, cancelled put  *)
(* or reopening makes it drift (content_store_fs.rs:187-188, 266-269,      *)
(* 369-375), so the cap is held against the truth.                         *)
THEOREM ByteCountIsExact == Spec => []ByteCountExact
BY Invariant, PTL DEF IInv

-----------------------------------------------------------------------------
(* One caller at a time *)

OneCaller == \E t \in Tasks : Tasks = {t}

PutRemoving(state) == state.op = "put" /\ state.pc \in RemoveSteps
Inserted(state) ==
    state.pc \in {"write_alias", "insert_alias", "evict"} \/ PutRemoving(state)

(* Timestamps are of the past, and what is indexed can be reopened.        *)
Stamps == \A h \in Hashes : index[h].stored_at < now /\ metaFile[h].stored_at < now
Backed == \A h \in Indexed : h \in blobs /\ metaFile[h] # NoMeta

(* A put's content is the newest there is, so that it is not evicted by    *)
(* the put itself; its files are written before it is indexed.             *)
PutKeeps(state) ==
    /\ state.op = "put" =>
        /\ state.meta.stored_at < now
        /\ MaxBytes = 0 \/ Size[state.hash] <= MaxBytes
        /\ \A h \in Hashes \ {state.hash} : index[h].stored_at < state.meta.stored_at
    /\ state.pc \in {"write_meta", "insert"} => state.hash \in blobs
    /\ state.pc = "insert" => metaFile[state.hash] # NoMeta
    /\ Inserted(state) => state.hash \in Indexed /\ index[state.hash] = state.meta
    /\ PutRemoving(state) => state.hash \notin state.doomed
    /\ state.pc \in RemoveSteps \ {"remove"} => state.victim \notin Indexed

AckInv ==
    Stamps /\ Backed /\ acked \subseteq Indexed /\ \A t \in Tasks : PutKeeps(task[t])

LEMMA IdleKeeps == PutKeeps(Idle) /\ PutKeeps(Idle)'
BY DEF PutKeeps, Idle, Inserted, PutRemoving, RemoveSteps

LEMMA OneTaskKeeps ==
    ASSUME OneCaller, NEW t \in Tasks,
           Stamps', Backed', (acked \subseteq Indexed)', PutKeeps(task[t])'
    PROVE  AckInv'
BY DEF AckInv, OneCaller

LEMMA InitAcked == Init => AckInv
<1> SUFFICES ASSUME Init PROVE AckInv
  OBVIOUS
<1>1. Stamps
  BY DEF Init, Stamps, NoMeta
<1>2. Indexed = {}
  BY DEF Init, Indexed
<1>3. \A t \in Tasks : PutKeeps(task[t])
  BY IdleKeeps DEF Init
<1> QED
  BY <1>1, <1>2, <1>3 DEF Init, AckInv, Backed

(* What a task's state is typed as.                                        *)
LEMMA TaskTyped ==
    ASSUME TypeOK, NEW t \in Tasks
    PROVE  task[t] \in TaskStates /\ HasOperands(task[t])
BY DEF TypeOK

(* A step that leaves the store alone, with a state that asks no more of   *)
(* it than the one before.                                                 *)
LEMMA QuietStepKeeps ==
    ASSUME AckInv, OneCaller, NEW t \in Tasks,
           UNCHANGED <<now, index, metaFile, blobs>>, acked' = acked, PutKeeps(task'[t])
    PROVE  AckInv'
<1>1. Stamps' /\ Backed' /\ (acked \subseteq Indexed)'
  BY DEF AckInv, Stamps, Backed, Indexed
<1>2. PutKeeps(task[t])'
  BY DEF PutKeeps, Indexed
<1> QED
  BY <1>1, <1>2, OneTaskKeeps

LEMMA ReturnKeeps ==
    ASSUME TypeOK, AckInv, OneCaller, NEW t \in Tasks, Return(t),
           UNCHANGED <<now, index, metaFile, blobs>>, acked' = acked
    PROVE  AckInv'
<1>1. task'[t] = Idle
  BY DEF Return, TypeOK
<1> QED
  BY <1>1, IdleKeeps, QuietStepKeeps

LEMMA RemovingKeeps ==
    ASSUME TypeOK, AckInv, OneCaller, NEW t \in Tasks,
           NEW op \in {"get", "delete", "sweep"}, NEW doomed, Removing(t, op, doomed)
    PROVE  AckInv'
<1> DEFINE s == [Idle EXCEPT !.op = op, !.pc = "remove", !.doomed = doomed]
<1>1. task'[t] = s
  BY DEF Removing, TypeOK
<1>2. s.op = op /\ s.pc = "remove"
  BY DEF Idle
<1>3. PutKeeps(s)
  BY <1>2 DEF PutKeeps, Inserted, PutRemoving
<1> QED
  BY <1>1, <1>3, QuietStepKeeps DEF Removing, disk, memory

LEMMA StartsKeeps ==
    ASSUME TypeOK, AckInv, OneCaller, NEW t \in Tasks, Starts(t)
    PROVE  AckInv'
<1>1. CASE Put(t)
  <2>1. PICK h \in Hashes, a \in Aliases \cup {None}, e \in {now + 2, Never} :
          /\ MaxBytes = 0 \/ Size[h] <= MaxBytes
          /\ task' = [task EXCEPT ![t] =
             [Idle EXCEPT !.op = "put", !.pc = "check_blob", !.hash = h, !.alias = a,
                          !.meta = [stored_at |-> now, expires_at |-> e]]]
    BY <1>1 DEF Put
  <2> DEFINE s == [Idle EXCEPT !.op = "put", !.pc = "check_blob", !.hash = h, !.alias = a,
                               !.meta = [stored_at |-> now, expires_at |-> e]]
  <2>2. task'[t] = s /\ now' = now + 1 /\ now \in Nat
    BY <1>1, <2>1 DEF Put, TypeOK
  <2>3. UNCHANGED <<disk, memory, acked>>
    BY <1>1 DEF Put
  <2>4. \A g \in Hashes : index[g].stored_at \in Nat /\ metaFile[g].stored_at \in Nat
    BY DEF TypeOK, Metas, NoMeta
  <2>5. s.op = "put" /\ s.pc = "check_blob" /\ s.hash = h /\ s.meta.stored_at = now
    BY DEF Idle
  <2>6. Stamps'
    BY <2>2, <2>3, <2>4 DEF AckInv, Stamps, disk, memory
  <2>7. Backed' /\ (acked \subseteq Indexed)'
    BY <2>3 DEF AckInv, Backed, Indexed, disk, memory
  <2>8. PutKeeps(task[t])'
    <3>1. /\ task'[t].op = "put" /\ task'[t].pc = "check_blob"
          /\ task'[t].hash = h /\ task'[t].meta.stored_at = now
      BY <2>2, <2>5
    <3>2. now < now' /\ \A g \in Hashes : index'[g].stored_at < now
      BY <2>2, <2>3 DEF AckInv, Stamps, memory
    <3> QED
      BY <2>1, <3>1, <3>2 DEF PutKeeps, Inserted, PutRemoving, RemoveSteps
  <2> QED
    BY <2>6, <2>7, <2>8, OneTaskKeeps
<1>2. CASE Delete(t)
  BY <1>2, RemovingKeeps DEF Delete
<1>3. CASE Get(t)
  <2>1. PICK id \in Hashes \cup Aliases :
          task' = [task EXCEPT ![t] =
                [Idle EXCEPT !.op = "get", !.pc = "lookup", !.hash = Resolve(id)]]
    BY <1>3 DEF Get
  <2>2. task'[t].op = "get" /\ task'[t].pc = "lookup"
    BY <2>1 DEF TypeOK, Idle
  <2>3. PutKeeps(task'[t])
    BY <2>2 DEF PutKeeps, Inserted, PutRemoving, RemoveSteps
  <2> QED
    BY <1>3, <2>3, QuietStepKeeps DEF Get, disk, memory
<1>4. CASE Sweep(t)
  <2>1. task'[t].op = "sweep" /\ task'[t].pc = "sweep"
    BY <1>4 DEF Sweep, TypeOK, Idle
  <2>2. PutKeeps(task'[t])
    BY <2>1 DEF PutKeeps, Inserted, PutRemoving, RemoveSteps
  <2> QED
    BY <1>4, <2>2, QuietStepKeeps DEF Sweep, disk, memory
<1> QED
  BY <1>1, <1>2, <1>3, <1>4 DEF Starts

(* One task's program counter moved, its other locals kept.                *)
LEMMA MovedTo ==
    ASSUME TypeOK, NEW t \in Tasks, NEW pc, GoTo(t, pc)
    PROVE  /\ task'[t].pc = pc
           /\ task'[t].op = task[t].op /\ task'[t].hash = task[t].hash
           /\ task'[t].alias = task[t].alias /\ task'[t].meta = task[t].meta
           /\ task'[t].doomed = task[t].doomed /\ task'[t].victim = task[t].victim
BY DEF TypeOK, GoTo, TaskStates

LEMMA Returned ==
    ASSUME TypeOK, NEW t \in Tasks, Return(t)
    PROVE  task'[t].pc = "idle"
BY DEF TypeOK, Return, Idle

LEMMA NowRemoving ==
    ASSUME TypeOK, NEW t \in Tasks, NEW op, NEW doomed, Removing(t, op, doomed)
    PROVE  task'[t].pc = "remove"
BY DEF TypeOK, Removing, Idle

LEMMA GoesKeeps ==
    ASSUME TypeOK, AckInv, OneCaller, NEW t \in Tasks, NEW pc, GoTo(t, pc),
           UNCHANGED <<now, index, metaFile, blobs>>, acked' = acked,
           pc \in {"write_meta", "insert"} => task[t].hash \in blobs,
           pc = "insert" => metaFile[task[t].hash] # NoMeta,
           pc \in {"write_alias", "insert_alias", "evict"} => Inserted(task[t]),
           pc \in RemoveSteps => task[t].pc \in RemoveSteps,
           pc \in RemoveSteps \ {"remove"} => task[t].pc # "remove"
    PROVE  AckInv'
<1>1. PutKeeps(task[t])
  BY DEF AckInv
<1>2. PutKeeps(task'[t])
  BY <1>1, MovedTo DEF PutKeeps, Inserted, PutRemoving, RemoveSteps
<1> QED
  BY <1>2, QuietStepKeeps

LEMMA PutStepsKeep ==
    ASSUME TypeOK, AckInv, OneCaller, NEW t \in Tasks,
           \/ CheckBlob(t) \/ WriteBlob(t) \/ WriteMeta(t) \/ WriteAlias(t)
           \/ InsertAlias(t) \/ WriteFails(t)
    PROVE  AckInv'
<1>1. task[t] \in TaskStates /\ HasOperands(task[t]) /\ PutKeeps(task[t])
  BY TaskTyped DEF AckInv
<1>2. CASE CheckBlob(t)
  <2>1. GoTo(t, "write_blob") \/ (GoTo(t, "write_meta") /\ task[t].hash \in blobs)
    BY <1>2, Zenon DEF CheckBlob
  <2>2. UNCHANGED <<now, index, metaFile, blobs>> /\ acked' = acked
    BY <1>2 DEF CheckBlob, disk, memory
  <2> QED
    BY <2>1, <2>2, GoesKeeps DEF RemoveSteps
<1>3. CASE WriteBlob(t)
  <2>1. GoTo(t, "write_meta") /\ UNCHANGED <<now, index, metaFile, acked>>
    BY <1>3 DEF WriteBlob, memory
  <2>2. blobs' = blobs \cup {task[t].hash} /\ task[t].pc = "write_blob"
    BY <1>3 DEF WriteBlob, At
  <2>3. Stamps' /\ Backed' /\ (acked \subseteq Indexed)'
    BY <2>1, <2>2 DEF AckInv, Stamps, Backed, Indexed
  <2>4. PutKeeps(task[t])'
    BY <1>1, <2>1, <2>2, MovedTo DEF PutKeeps, Inserted, PutRemoving, RemoveSteps, Indexed
  <2> QED
    BY <2>3, <2>4, OneTaskKeeps
<1>4. CASE WriteMeta(t)
  <2>1. GoTo(t, "insert") /\ UNCHANGED <<now, index, blobs, acked>>
    BY <1>4 DEF WriteMeta, memory
  <2>2. /\ metaFile' = [metaFile EXCEPT ![task[t].hash] = task[t].meta]
        /\ task[t].pc = "write_meta"
    BY <1>4 DEF WriteMeta, At
  <2>3. task[t].op = "put" /\ task[t].hash \in Hashes /\ task[t].meta \in Metas
    BY <1>1, <2>2 DEF HasOperands, PutSteps
  <2>4. task[t].meta # NoMeta /\ task[t].meta.stored_at < now /\ task[t].hash \in blobs
    BY <1>1, <2>2, <2>3, NoMetaIsNone DEF PutKeeps
  <2>5. \A h \in Hashes :
          metaFile'[h] = IF h = task[t].hash THEN task[t].meta ELSE metaFile[h]
    BY <2>2, <2>3 DEF TypeOK
  <2>6. Stamps'
    BY <2>1, <2>4, <2>5 DEF AckInv, Stamps
  <2>7. Backed' /\ (acked \subseteq Indexed)'
    BY <2>1, <2>4, <2>5 DEF AckInv, Backed, Indexed
  <2>8. PutKeeps(task[t])'
    BY <1>1, <2>1, <2>2, <2>3, <2>4, <2>5, MovedTo
    DEF PutKeeps, Inserted, PutRemoving, RemoveSteps, Indexed
  <2> QED
    BY <2>6, <2>7, <2>8, OneTaskKeeps
<1>5. CASE WriteAlias(t)
  <2>1. Inserted(task[t])
    BY <1>5 DEF WriteAlias, At, Inserted
  <2> QED
    BY <1>5, <2>1, GoesKeeps DEF WriteAlias, memory, RemoveSteps
<1>6. CASE InsertAlias(t)
  <2>1. Inserted(task[t])
    BY <1>6 DEF InsertAlias, At, Inserted
  <2> QED
    BY <1>6, <2>1, GoesKeeps DEF InsertAlias, disk, RemoveSteps
<1>7. CASE WriteFails(t)
  BY <1>7, ReturnKeeps DEF WriteFails, memory
<1> QED
  BY <1>2, <1>3, <1>4, <1>5, <1>6, <1>7

LEMMA InsertKeeps ==
    ASSUME TypeOK, AckInv, OneCaller, NEW t \in Tasks, Insert(t)
    PROVE  AckInv'
<1> DEFINE h == task[t].hash
<1>1. task[t] \in TaskStates /\ HasOperands(task[t]) /\ PutKeeps(task[t])
  BY TaskTyped DEF AckInv
<1>2. task[t].pc = "insert" /\ task[t].op = "put" /\ h \in Hashes /\ task[t].meta \in Metas
  BY <1>1 DEF Insert, At, HasOperands, PutSteps
<1>3. /\ task[t].meta # NoMeta /\ task[t].meta.stored_at < now
      /\ h \in blobs /\ metaFile[h] # NoMeta
  BY <1>1, <1>2, NoMetaIsNone DEF PutKeeps
<1>4. UNCHANGED <<now, blobs, metaFile, acked>>
  BY DEF Insert, disk
<1>5. \A g \in Hashes : index'[g] = IF g = h THEN task[t].meta ELSE index[g]
  BY <1>2 DEF Insert, TypeOK
<1>6. Indexed' = Indexed \cup {h}
  BY <1>2, <1>3, <1>5 DEF Indexed
<1>7. Stamps'
  BY <1>3, <1>4, <1>5 DEF AckInv, Stamps
<1>8. Backed'
  BY <1>3, <1>4, <1>6 DEF AckInv, Backed
<1>9. (acked \subseteq Indexed)'
  BY <1>4, <1>6 DEF AckInv
<1>10. PutKeeps(task[t])'
  <2>1. GoTo(t, "write_alias") \/ GoTo(t, "evict")
    BY DEF Insert
  <2>2. /\ task'[t].pc \in {"write_alias", "evict"} /\ task'[t].op = "put"
        /\ task'[t].hash = h /\ task'[t].meta = task[t].meta
    BY <1>2, <2>1, MovedTo
  <2> QED
    BY <1>1, <1>2, <1>4, <1>5, <1>6, <2>2 DEF PutKeeps, PutRemoving, RemoveSteps
<1> QED
  BY <1>7, <1>8, <1>9, <1>10, OneTaskKeeps

(* The content a put evicts is not its own: that is the newest, and when   *)
(* it is all there is, it fits.                                            *)
LEMMA EvictKeeps ==
    ASSUME TypeOK, ByteCountExact, AckInv, OneCaller, NEW t \in Tasks, EvictNext(t)
    PROVE  AckInv'
<1>1. task[t] \in TaskStates /\ HasOperands(task[t]) /\ PutKeeps(task[t])
  BY TaskTyped DEF AckInv
<1>2. task[t].pc = "evict" /\ task[t].op = "put" /\ task[t].hash \in Hashes
  BY <1>1 DEF EvictNext, At, HasOperands, PutSteps
<1>3. /\ task[t].hash \in Indexed /\ index[task[t].hash] = task[t].meta
      /\ MaxBytes = 0 \/ Size[task[t].hash] <= MaxBytes
      /\ \A g \in Hashes \ {task[t].hash} : index[g].stored_at < task[t].meta.stored_at
  BY <1>1, <1>2 DEF PutKeeps, Inserted
<1>4. PICK h \in Indexed :
        /\ \A g \in Indexed \ {h} : Older(h, g)
        /\ task' = [task EXCEPT ![t].pc = "remove", ![t].doomed = {h}]
  BY DEF EvictNext
<1>5. h # task[t].hash
  <2> SUFFICES ASSUME h = task[t].hash PROVE FALSE
    OBVIOUS
  <2>1. \A g \in Indexed : index[g].stored_at \in Nat
    BY DEF Indexed, TypeOK, Metas
  <2>2. ASSUME NEW g \in Indexed \ {h} PROVE FALSE
    <3>1. index[g].stored_at < index[h].stored_at
      BY <1>3, <2>2 DEF Indexed
    <3>2. Older(h, g)
      BY <1>4, <2>2
    <3> QED
      BY <2>1, <2>2, <3>1, <3>2 DEF Older
  <2>3. Indexed = {h}
    BY <1>4, <2>2
  <2>4. Bytes({h}) = BytesOf(h)
    BY DEF Bytes
  <2>5. byteCount = Size[h]
    BY <1>2, <2>3, <2>4, BytesOfOne DEF ByteCountExact
  <2> QED
    BY <1>3, <2>5 DEF EvictNext, Fits
<1>6. /\ task'[t].pc = "remove" /\ task'[t].op = "put" /\ task'[t].hash = task[t].hash
      /\ task'[t].meta = task[t].meta /\ task'[t].doomed = {h}
  BY <1>1, <1>2, <1>4 DEF TypeOK, TaskStates
<1>7. PutKeeps(task'[t])
  BY <1>1, <1>2, <1>3, <1>5, <1>6 DEF PutKeeps, Inserted, PutRemoving, RemoveSteps
<1> QED
  BY <1>7, QuietStepKeeps DEF EvictNext, disk, memory

LEMMA PutReturnsKeeps ==
    ASSUME TypeOK, AckInv, OneCaller, NEW t \in Tasks, PutReturns(t)
    PROVE  AckInv'
<1>1. PutKeeps(task[t]) /\ task[t].pc = "evict"
  BY DEF AckInv, PutReturns, At
<1>2. UNCHANGED <<now, index, metaFile, blobs>> /\ acked' = acked \cup {task[t].hash}
  BY DEF PutReturns, disk, memory
<1>3. task[t].hash \in Indexed
  BY <1>1 DEF PutKeeps, Inserted
<1>4. Stamps' /\ Backed' /\ (acked \subseteq Indexed)'
  BY <1>2, <1>3 DEF AckInv, Stamps, Backed, Indexed
<1>5. task'[t] = Idle
  BY DEF PutReturns, Return, TypeOK
<1>6. PutKeeps(task[t])'
  BY <1>5, IdleKeeps DEF PutKeeps, Inserted, PutRemoving, RemoveSteps, Idle
<1> QED
  BY <1>4, <1>6, OneTaskKeeps

LEMMA RemoveStepsKeep ==
    ASSUME TypeOK, AckInv, OneCaller, NEW t \in Tasks,
           \/ Unindex(t) \/ RemoveBlob(t) \/ RemoveMeta(t)
           \/ UnmapAlias(t) \/ RemoveAlias(t) \/ Removed(t)
    PROVE  AckInv'
<1>1. task[t] \in TaskStates /\ HasOperands(task[t]) /\ PutKeeps(task[t])
  BY TaskTyped DEF AckInv
<1>2. task[t].pc \in RemoveSteps \ {"remove"} =>
        task[t].victim \in Hashes /\ task[t].victim \notin Indexed
  BY <1>1 DEF HasOperands, PutKeeps
<1>3. CASE Unindex(t)
  <2>1. PICK h \in task[t].doomed :
          /\ index' = [index EXCEPT ![h] = NoMeta]
          /\ acked' = acked \ {h}
          /\ task' = [task EXCEPT ![t].pc = "remove_blob", ![t].victim = h,
                                  ![t].doomed = @ \ {h}]
    BY <1>3 DEF Unindex
  <2>2. h \in Hashes /\ UNCHANGED <<now, metaFile, blobs>> /\ task[t].pc = "remove"
    BY <1>1, <1>3 DEF TaskStates, Unindex, At, disk
  <2>3. \A g \in Hashes : index'[g] = IF g = h THEN NoMeta ELSE index[g]
    BY <2>1, <2>2 DEF TypeOK
  <2>4. Indexed' = Indexed \ {h}
    BY <2>2, <2>3 DEF Indexed
  <2>5. Stamps'
    <3>1. now \in Nat \ {0} /\ NoMeta.stored_at = 0
      BY DEF TypeOK, NoMeta
    <3> QED
      BY <2>2, <2>3, <3>1 DEF AckInv, Stamps
  <2>6. Backed' /\ (acked \subseteq Indexed)'
    BY <2>1, <2>2, <2>4 DEF AckInv, Backed
  <2>7. /\ task'[t].pc = "remove_blob" /\ task'[t].op = task[t].op
        /\ task'[t].hash = task[t].hash /\ task'[t].meta = task[t].meta
        /\ task'[t].victim = h /\ task'[t].doomed = task[t].doomed \ {h}
    BY <1>1, <2>1 DEF TypeOK, TaskStates
  <2>8. task[t].op = "put" => task[t].hash \in Hashes \ {h} /\ task[t].meta.stored_at \in Nat
    BY <1>1, <2>1, <2>2 DEF HasOperands, PutKeeps, PutRemoving, RemoveSteps, Metas
  <2>9. PutKeeps(task[t])'
    <3>1. task'[t].op = "put" =>
            /\ task'[t].meta.stored_at < now'
            /\ MaxBytes = 0 \/ Size[task'[t].hash] <= MaxBytes
            /\ \A g \in Hashes \ {task'[t].hash} : index'[g].stored_at < task'[t].meta.stored_at
      <4> SUFFICES ASSUME task'[t].op = "put"
                   PROVE  /\ task'[t].meta.stored_at < now'
                          /\ MaxBytes = 0 \/ Size[task'[t].hash] <= MaxBytes
                          /\ \A g \in Hashes \ {task'[t].hash} :
                                index'[g].stored_at < task'[t].meta.stored_at
        OBVIOUS
      <4>1. task[t].meta.stored_at \in Nat \ {0} /\ NoMeta.stored_at = 0
        BY <1>1, <2>7 DEF HasOperands, Metas, NoMeta
      <4> QED
        BY <1>1, <2>2, <2>3, <2>7, <4>1 DEF PutKeeps
    <3>2. Inserted(task[t]) => task[t].hash \in Indexed /\ index[task[t].hash] = task[t].meta
      BY <1>1 DEF PutKeeps
    <3>3. PutRemoving(task[t]) <=> task[t].op = "put"
      BY <2>2 DEF PutRemoving, RemoveSteps
    <3> QED
      BY <1>1, <2>2, <2>3, <2>4, <2>7, <2>8, <3>1, <3>2, <3>3
      DEF PutKeeps, Inserted, PutRemoving, RemoveSteps
  <2> QED
    BY <2>5, <2>6, <2>9, OneTaskKeeps
<1>4. CASE RemoveBlob(t)
  <2>1. /\ GoTo(t, "remove_meta") /\ UNCHANGED <<now, metaFile, index, acked>>
        /\ task[t].pc = "remove_blob"
        /\ blobs' \in {blobs, blobs \ {task[t].victim}}
    BY <1>4 DEF RemoveBlob, Removal, At, memory
  <2>2. task[t].victim \notin Indexed
    BY <1>2, <2>1 DEF RemoveSteps
  <2>3. Stamps' /\ Backed' /\ (acked \subseteq Indexed)'
    BY <2>1, <2>2 DEF AckInv, Stamps, Backed, Indexed
  <2>4. PutKeeps(task[t])'
    BY <1>1, <2>1, MovedTo DEF PutKeeps, Inserted, PutRemoving, RemoveSteps, Indexed
  <2> QED
    BY <2>3, <2>4, OneTaskKeeps
<1>5. CASE RemoveMeta(t)
  <2>1. /\ GoTo(t, "remove_aliases") /\ UNCHANGED <<now, blobs, index, acked>>
        /\ task[t].pc = "remove_meta"
        /\ metaFile' \in {metaFile, [metaFile EXCEPT ![task[t].victim] = NoMeta]}
    BY <1>5 DEF RemoveMeta, Removal, At, memory
  <2>2. task[t].victim \in Hashes /\ task[t].victim \notin Indexed
    BY <1>2, <2>1 DEF RemoveSteps
  <2>3. \A h \in Hashes :
          metaFile'[h] = metaFile[h] \/ (h = task[t].victim /\ metaFile'[h] = NoMeta)
    <3>1. CASE metaFile' = metaFile
      BY <3>1
    <3>2. CASE metaFile' = [metaFile EXCEPT ![task[t].victim] = NoMeta]
      BY <2>2, <3>2 DEF TypeOK
    <3> QED
      BY <2>1, <3>1, <3>2
  <2>4. now \in Nat \ {0} /\ NoMeta.stored_at = 0
    BY DEF TypeOK, NoMeta
  <2>5. Stamps'
    BY <2>1, <2>3, <2>4 DEF AckInv, Stamps
  <2>6. Backed' /\ (acked \subseteq Indexed)'
    BY <2>1, <2>2, <2>3 DEF AckInv, Backed, Indexed
  <2>7. PutKeeps(task[t])'
    BY <1>1, <2>1, MovedTo DEF PutKeeps, Inserted, PutRemoving, RemoveSteps, Indexed
  <2> QED
    BY <2>5, <2>6, <2>7, OneTaskKeeps
<1>6. CASE UnmapAlias(t)
  <2>1. /\ task[t].pc = "remove_aliases" /\ UNCHANGED <<now, index, metaFile, blobs, acked>>
        /\ \E a : task' = [task EXCEPT ![t].pc = "remove_alias", ![t].alias = a]
    BY <1>6 DEF UnmapAlias, At, disk
  <2>2. /\ task'[t].pc = "remove_alias"
        /\ task'[t].op = task[t].op /\ task'[t].hash = task[t].hash
        /\ task'[t].meta = task[t].meta /\ task'[t].victim = task[t].victim
        /\ task'[t].doomed = task[t].doomed
    BY <1>1, <2>1 DEF TypeOK, TaskStates
  <2>3. PutKeeps(task'[t])
    BY <1>1, <2>1, <2>2 DEF PutKeeps, Inserted, PutRemoving, RemoveSteps
  <2> QED
    BY <2>1, <2>3, QuietStepKeeps
<1>7. CASE RemoveAlias(t)
  BY <1>7, GoesKeeps DEF RemoveAlias, At, memory, RemoveSteps
<1>8. CASE Removed(t)
  <2>1. task[t].pc = "remove_aliases" /\ UNCHANGED <<now, index, metaFile, blobs, acked>>
    BY <1>8 DEF Removed, At, disk, memory
  <2>2. \/ GoTo(t, "remove")
        \/ task[t].op = "put" /\ GoTo(t, "evict")
        \/ Return(t)
    BY <1>8 DEF Removed
  <2> QED
    BY <2>1, <2>2, ReturnKeeps, GoesKeeps DEF Inserted, PutRemoving, RemoveSteps
<1> QED
  BY <1>3, <1>4, <1>5, <1>6, <1>7, <1>8

LEMMA CrashKeeps ==
    ASSUME TypeOK, AckInv, CrashAndReopen
    PROVE  AckInv'
<1> DEFINE found == [h \in Hashes |-> IF h \in blobs THEN metaFile[h] ELSE NoMeta]
<1>1. /\ index' = found /\ metaFile' \in {metaFile, found}
      /\ UNCHANGED <<now, blobs, acked>> /\ task' = [t \in Tasks |-> Idle]
  BY DEF CrashAndReopen, Removal
<1>2. now \in Nat \ {0} /\ NoMeta.stored_at = 0
  BY DEF TypeOK, NoMeta
<1>3. \A h \in Hashes :
        /\ index'[h] = metaFile[h] \/ index'[h] = NoMeta
        /\ metaFile'[h] = metaFile[h] \/ metaFile'[h] = NoMeta
        /\ index'[h] # NoMeta => h \in blobs /\ metaFile'[h] = metaFile[h]
  BY <1>1
<1>4. Stamps'
  BY <1>1, <1>2, <1>3 DEF AckInv, Stamps
<1>5. Backed'
  BY <1>1, <1>3 DEF Backed, Indexed
<1>6. Indexed \subseteq Indexed'
  BY <1>1 DEF AckInv, Backed, Indexed
<1>7. \A t \in Tasks : PutKeeps(task[t])'
  BY <1>1, IdleKeeps
<1> QED
  BY <1>1, <1>4, <1>5, <1>6, <1>7 DEF AckInv

(* Where nobody cancels, no access is left behind.                         *)
Settled == \A s \in Slots : adrift[s] = Idle

LEMMA NextLeavesBehind ==
    ASSUME NEW t \in Tasks, Starts(t) \/ Acquires(t) \/ Proceeds(t)
    PROVE  UNCHANGED adrift
<1>1. CASE Starts(t)
  BY <1>1 DEF Starts, Put, Delete, Get, Sweep, Removing, disk
<1>2. CASE Acquires(t)
  BY <1>2 DEF Acquires, Insert, InsertAlias, Lookup, Expire, SweepListed, Removing, disk
<1>3. CASE Proceeds(t)
  BY <1>3 DEF Proceeds, CheckBlob, WriteBlob, WriteMeta, WriteAlias, WriteFails,
              EvictNext, PutReturns, Unindex, RemoveBlob, RemoveMeta, UnmapAlias,
              RemoveAlias, Removed, ReadBlob, disk
<1> QED
  BY <1>1, <1>2, <1>3

LEMMA NextSettled == MayCancel = FALSE /\ Settled /\ [Next]_vars => Settled'
<1> SUFFICES ASSUME MayCancel = FALSE, Settled, [Next]_vars PROVE Settled'
  OBVIOUS
<1>1. /\ \A t \in Tasks : ~Cancel(t)
      /\ \A s \in Slots : ~Late(s)
  BY DEF Cancel, Late, Settled, Idle
<1>2. CASE CrashAndReopen
  BY <1>2 DEF CrashAndReopen, Settled
<1>3. CASE Tick \/ UNCHANGED vars
  BY <1>3 DEF Tick, vars, disk, Settled
<1>4. ASSUME UNCHANGED adrift PROVE Settled'
  BY <1>4 DEF Settled
<1> QED
  BY <1>1, <1>2, <1>3, <1>4, NextLeavesBehind DEF Next

LEMMA NextKeeps ==
    OneCaller /\ MayCancel = FALSE /\ Settled /\ IInv /\ AckInv /\ [Next]_vars => AckInv'
<1> SUFFICES ASSUME OneCaller, MayCancel = FALSE, Settled,
                    TypeOK, ByteCountExact, AckInv, [Next]_vars
             PROVE  AckInv'
  BY DEF IInv
<1>1. ASSUME NEW t \in Tasks, Starts(t) PROVE AckInv'
  BY <1>1, StartsKeeps
<1>2. ASSUME NEW t \in Tasks, Acquires(t) PROVE AckInv'
  <2>1. CASE Lookup(t)
    <3>1. Return(t) \/ GoTo(t, "expire") \/ GoTo(t, "read_blob")
      BY <2>1 DEF Lookup
    <3> QED
      BY <2>1, <3>1, ReturnKeeps, GoesKeeps DEF Lookup, disk, memory, RemoveSteps
  <2>2. CASE Expire(t) \/ SweepListed(t)
    BY <2>2, RemovingKeeps DEF Expire, SweepListed
  <2> QED
    BY <1>2, <2>1, <2>2, InsertKeeps, PutStepsKeep DEF Acquires
<1>3. ASSUME NEW t \in Tasks, Proceeds(t) PROVE AckInv'
  <2>1. CASE ReadBlob(t)
    BY <2>1, ReturnKeeps DEF ReadBlob, disk, memory
  <2> QED
    BY <1>3, <2>1, PutStepsKeep, EvictKeeps, PutReturnsKeeps, RemoveStepsKeep DEF Proceeds
<1>4. /\ \A t \in Tasks : ~Cancel(t)
      /\ \A s \in Slots : ~Late(s)
  BY DEF Cancel, Late, Settled, Idle
<1>5. CASE CrashAndReopen
  BY <1>5, CrashKeeps
<1>6. CASE Tick
  <2>1. now' = now + 1 /\ now \in Nat /\ UNCHANGED <<disk, memory, task, acked>>
    BY <1>6 DEF Tick, TypeOK
  <2>2. \A h \in Hashes : index[h].stored_at \in Nat /\ metaFile[h].stored_at \in Nat
    BY DEF TypeOK, Metas, NoMeta
  <2>3. Stamps' /\ Backed' /\ (acked \subseteq Indexed)'
    BY <2>1, <2>2 DEF AckInv, Stamps, Backed, Indexed, disk, memory
  <2>4. ASSUME NEW t \in Tasks PROVE PutKeeps(task[t])'
    <3>1. task[t].op = "put" => task[t].meta.stored_at \in Nat
      BY TaskTyped DEF HasOperands, Metas
    <3> QED
      BY <2>1, <3>1 DEF AckInv, PutKeeps, Inserted, PutRemoving, Indexed, disk, memory
  <2> QED
    BY <2>3, <2>4 DEF AckInv
<1>7. CASE UNCHANGED vars
  BY <1>7 DEF vars, disk, memory, AckInv, Stamps, Backed, PutKeeps, Inserted, PutRemoving, Indexed
<1> QED
  BY <1>1, <1>2, <1>3, <1>4, <1>5, <1>6, <1>7 DEF Next

(* A put that has returned is readable until its content is removed, also  *)
(* when files cannot be removed or the process crashes: of all contents    *)
(* and sizes, under any cap, as long as there is one caller at a time and  *)
(* its operations run to their end (bootstrap_index, evict_to_fit,         *)
(* remove_one and put, content_store_fs.rs:149-282, 323-412).  Without     *)
(* the latter it is false: the removal a dropped delete has left with the  *)
(* blocking pool may take the blob a later put found in place.             *)
THEOREM AckedStaysReadable ==
    ASSUME OneCaller, MayCancel = FALSE
    PROVE  Spec => []AckedIsReadable
<1>1. AckInv => AckedIsReadable
  BY DEF AckInv, Backed, AckedIsReadable
<1>2. IInv /\ Settled /\ AckInv /\ [Next]_vars => Settled' /\ AckInv'
  BY NextKeeps, NextSettled
<1>3. Init => Settled
  BY DEF Init, Settled
<1> QED
  BY <1>1, <1>2, <1>3, InitAcked, Invariant, PTL DEF Spec

-----------------------------------------------------------------------------
(* What the disk may differ in from the index in the middle of an operation *)

Faultless == MayCancel = FALSE /\ RemovalsFail = FALSE

(* Where an alias may lead to what is no longer indexed.                   *)
Unpruned == {"remove_blob", "remove_meta", "remove_aliases", "remove_alias"}

Lags(state) ==
    /\ state.pc = "insert" => metaFile[state.hash] = state.meta
    /\ state.pc = "insert_alias" => aliasFile[state.alias] = state.hash
    /\ \A h \in Hashes : metaFile[h] # index[h] =>
        \/ state.pc = "insert" /\ h = state.hash
        \/ state.pc \in {"remove_blob", "remove_meta"} /\ h = state.victim
    /\ \A a \in Aliases : aliasFile[a] # aliasToHash[a] =>
        state.pc \in {"insert_alias", "remove_alias"} /\ a = state.alias
    /\ state.pc = "remove_alias" => aliasToHash[state.alias] = None
    /\ \A a \in Aliases : aliasToHash[a] \notin Indexed \cup {None} =>
        state.pc \in Unpruned /\ aliasToHash[a] = state.victim

DiskInv == \A t \in Tasks : Lags(task[t])

(* Where nothing differs.                                                  *)
Agreeing ==
    /\ \A h \in Hashes : metaFile[h] = index[h]
    /\ \A a \in Aliases : aliasFile[a] = aliasToHash[a]
    /\ \A a \in Aliases : aliasToHash[a] \in Indexed \cup {None}

Lagging ==
    {"insert", "insert_alias", "remove_blob", "remove_meta", "remove_aliases", "remove_alias"}

LEMMA NothingLags ==
    ASSUME NEW t \in Tasks, DiskInv, task[t].pc \notin Lagging
    PROVE  Agreeing
BY DEF DiskInv, Lags, Unpruned, Lagging, Agreeing

LEMMA OneTaskLags ==
    ASSUME OneCaller, NEW t \in Tasks, Lags(task[t])'
    PROVE  DiskInv'
BY DEF DiskInv, OneCaller

LEMMA AgreeingLags ==
    ASSUME OneCaller, NEW t \in Tasks, Agreeing',
           task'[t].pc \notin {"insert", "insert_alias", "remove_alias"}
    PROVE  DiskInv'
<1>1. Lags(task[t])'
  BY DEF Lags, Agreeing
<1> QED
  BY <1>1, OneTaskLags

LEMMA InitLags == Init => DiskInv
BY DEF Init, DiskInv, Lags, Idle

(* Most steps leave index, sidecars and redirects alone.                   *)
LEMMA QuietStepLags ==
    ASSUME OneCaller, DiskInv, NEW t \in Tasks, task[t].pc \notin Lagging,
           task'[t].pc \notin {"insert", "insert_alias", "remove_alias"},
           UNCHANGED <<index, aliasToHash, metaFile, aliasFile>>
    PROVE  DiskInv'
<1>1. Agreeing'
  BY NothingLags DEF Agreeing, Indexed
<1> QED
  BY <1>1, AgreeingLags

LEMMA PutLags ==
    ASSUME TypeOK, AckInv, OneCaller, DiskInv, NEW t \in Tasks,
           \/ WriteMeta(t) \/ Insert(t) \/ WriteAlias(t) \/ InsertAlias(t)
    PROVE  DiskInv'
<1>1. task[t] \in TaskStates /\ HasOperands(task[t]) /\ Lags(task[t]) /\ PutKeeps(task[t])
  BY TaskTyped DEF DiskInv, AckInv
<1>2. CASE WriteMeta(t)
  <2>1. /\ task[t].pc = "write_meta" /\ GoTo(t, "insert")
        /\ UNCHANGED <<index, aliasToHash, aliasFile>>
        /\ metaFile' = [metaFile EXCEPT ![task[t].hash] = task[t].meta]
    BY <1>2 DEF WriteMeta, At, memory
  <2>2. Agreeing
    BY <2>1, NothingLags DEF Lagging
  <2>3. task[t].hash \in Hashes
    BY <1>1, <2>1 DEF HasOperands, PutSteps
  <2>4. /\ metaFile'[task[t].hash] = task[t].meta
        /\ \A h \in Hashes \ {task[t].hash} : metaFile'[h] = metaFile[h]
    BY <2>1, <2>3 DEF TypeOK
  <2>5. Lags(task[t])'
    BY <2>1, <2>2, <2>3, <2>4, MovedTo DEF Lags, Agreeing, Indexed
  <2> QED
    BY <2>5, OneTaskLags
<1>3. CASE Insert(t)
  <2> DEFINE h == task[t].hash
  <2>1. task[t].pc = "insert" /\ UNCHANGED <<metaFile, aliasFile, aliasToHash>>
    BY <1>3 DEF Insert, At, disk
  <2>2. h \in Hashes /\ task[t].meta \in Metas /\ metaFile[h] = task[t].meta
    BY <1>1, <2>1 DEF HasOperands, PutSteps, Lags
  <2>3. \A g \in Hashes : index'[g] = IF g = h THEN task[t].meta ELSE index[g]
    BY <1>3, <2>2 DEF Insert, TypeOK
  <2>4. Indexed \subseteq Indexed'
    BY <2>2, <2>3, NoMetaIsNone DEF Indexed
  <2>5. Agreeing'
    BY <1>1, <2>1, <2>2, <2>3, <2>4 DEF Lags, Unpruned, Agreeing
  <2>6. GoTo(t, "write_alias") \/ GoTo(t, "evict")
    BY <1>3 DEF Insert
  <2>7. task'[t].pc \in {"write_alias", "evict"}
    BY <2>6, MovedTo
  <2> QED
    BY <2>5, <2>7, AgreeingLags
<1>4. CASE WriteAlias(t)
  <2>1. /\ task[t].pc = "write_alias" /\ GoTo(t, "insert_alias")
        /\ UNCHANGED <<index, aliasToHash, metaFile>>
        /\ aliasFile' = [aliasFile EXCEPT ![task[t].alias] = task[t].hash]
    BY <1>4 DEF WriteAlias, At, memory
  <2>2. Agreeing
    BY <2>1, NothingLags DEF Lagging
  <2>3. task[t].alias \in Aliases
    BY <1>1, <2>1 DEF HasOperands
  <2>4. /\ aliasFile'[task[t].alias] = task[t].hash
        /\ \A a \in Aliases \ {task[t].alias} : aliasFile'[a] = aliasFile[a]
    BY <2>1, <2>3 DEF TypeOK
  <2>5. Lags(task[t])'
    BY <2>1, <2>2, <2>3, <2>4, MovedTo DEF Lags, Agreeing, Indexed
  <2> QED
    BY <2>5, OneTaskLags
<1>5. CASE InsertAlias(t)
  <2>1. /\ task[t].pc = "insert_alias" /\ GoTo(t, "evict")
        /\ UNCHANGED <<index, metaFile, aliasFile>>
        /\ aliasToHash' = [aliasToHash EXCEPT ![task[t].alias] = task[t].hash]
    BY <1>5 DEF InsertAlias, At, disk
  <2>2. /\ task[t].alias \in Aliases /\ task[t].hash \in Indexed
        /\ aliasFile[task[t].alias] = task[t].hash
    BY <1>1, <2>1 DEF HasOperands, PutKeeps, Inserted, Lags
  <2>3. \A a \in Aliases :
          aliasToHash'[a] = IF a = task[t].alias THEN task[t].hash ELSE aliasToHash[a]
    BY <2>1, <2>2 DEF TypeOK
  <2>4. Agreeing'
    BY <1>1, <2>1, <2>2, <2>3 DEF Lags, Unpruned, Agreeing, Indexed
  <2>5. task'[t].pc = "evict"
    BY <2>1, MovedTo
  <2> QED
    BY <2>4, <2>5, AgreeingLags
<1> QED
  BY <1>2, <1>3, <1>4, <1>5

LEMMA RemoveLags ==
    ASSUME TypeOK, Faultless, AckInv, OneCaller, DiskInv, NEW t \in Tasks,
           \/ Unindex(t) \/ RemoveBlob(t) \/ RemoveMeta(t)
           \/ UnmapAlias(t) \/ RemoveAlias(t) \/ Removed(t)
    PROVE  DiskInv'
<1>1. task[t] \in TaskStates /\ HasOperands(task[t]) /\ Lags(task[t]) /\ PutKeeps(task[t])
  BY TaskTyped DEF DiskInv, AckInv
<1>2. CASE Unindex(t)
  <2>1. PICK h \in task[t].doomed :
          /\ index' = [index EXCEPT ![h] = NoMeta]
          /\ task' = [task EXCEPT ![t].pc = "remove_blob", ![t].victim = h,
                                  ![t].doomed = @ \ {h}]
    BY <1>2 DEF Unindex
  <2>2. /\ h \in Hashes /\ UNCHANGED <<metaFile, aliasFile, aliasToHash>>
        /\ task[t].pc = "remove"
    BY <1>1, <1>2 DEF TaskStates, Unindex, At, disk
  <2>3. Agreeing
    BY <2>2, NothingLags DEF Lagging
  <2>4. /\ \A g \in Hashes : index'[g] = IF g = h THEN NoMeta ELSE index[g]
        /\ task'[t].pc = "remove_blob" /\ task'[t].victim = h
    BY <1>1, <2>1, <2>2 DEF TypeOK, TaskStates
  <2>5. Lags(task[t])'
    BY <2>2, <2>3, <2>4 DEF Lags, Unpruned, Agreeing, Indexed
  <2> QED
    BY <2>5, OneTaskLags
<1>3. CASE RemoveBlob(t)
  <2>1. /\ task[t].pc = "remove_blob" /\ GoTo(t, "remove_meta")
        /\ UNCHANGED <<index, aliasToHash, metaFile, aliasFile>>
    BY <1>3 DEF RemoveBlob, At, memory
  <2>2. Lags(task[t])'
    BY <1>1, <2>1, MovedTo DEF Lags, Unpruned, Indexed
  <2> QED
    BY <2>2, OneTaskLags
<1>4. CASE RemoveMeta(t)
  <2>1. /\ task[t].pc = "remove_meta" /\ GoTo(t, "remove_aliases")
        /\ UNCHANGED <<index, aliasToHash, aliasFile>>
        /\ metaFile' = [metaFile EXCEPT ![task[t].victim] = NoMeta]
    BY <1>4 DEF RemoveMeta, Removal, At, memory, Faultless
  <2>2. task[t].victim \in Hashes /\ index[task[t].victim] = NoMeta
    BY <1>1, <2>1 DEF HasOperands, PutKeeps, Indexed, RemoveSteps
  <2>3. \A h \in Hashes :
          metaFile'[h] = IF h = task[t].victim THEN NoMeta ELSE metaFile[h]
    BY <2>1, <2>2 DEF TypeOK
  <2>4. Lags(task[t])'
    BY <1>1, <2>1, <2>2, <2>3, MovedTo DEF Lags, Unpruned, Indexed
  <2> QED
    BY <2>4, OneTaskLags
<1>5. CASE UnmapAlias(t)
  <2>1. PICK a \in Dead(t) :
          /\ aliasToHash' = [aliasToHash EXCEPT ![a] = None]
          /\ task' = [task EXCEPT ![t].pc = "remove_alias", ![t].alias = a]
    BY <1>5 DEF UnmapAlias
  <2>2. task[t].pc = "remove_aliases" /\ UNCHANGED <<index, metaFile, aliasFile>>
    BY <1>5 DEF UnmapAlias, At, disk
  <2>3. /\ task'[t].pc = "remove_alias" /\ task'[t].alias = a
        /\ task'[t].victim = task[t].victim
    BY <1>1, <2>1 DEF TypeOK, TaskStates
  <2>4. /\ a \in Aliases
        /\ \A b \in Aliases : aliasToHash'[b] = IF b = a THEN None ELSE aliasToHash[b]
    BY <2>1 DEF TypeOK, Dead
  <2>5. Lags(task[t])'
    BY <1>1, <2>2, <2>3, <2>4 DEF Lags, Unpruned, Indexed
  <2> QED
    BY <2>5, OneTaskLags
<1>6. CASE RemoveAlias(t)
  <2>1. /\ task[t].pc = "remove_alias" /\ GoTo(t, "remove_aliases")
        /\ UNCHANGED <<index, metaFile, aliasToHash>>
        /\ aliasFile' = [aliasFile EXCEPT ![task[t].alias] = None]
    BY <1>6 DEF RemoveAlias, Removal, At, memory, Faultless
  <2>2. task[t].alias \in Aliases /\ aliasToHash[task[t].alias] = None
    BY <1>1, <2>1 DEF HasOperands, Lags
  <2>3. \A a \in Aliases :
          aliasFile'[a] = IF a = task[t].alias THEN None ELSE aliasFile[a]
    BY <2>1, <2>2 DEF TypeOK
  <2>4. Lags(task[t])'
    BY <1>1, <2>1, <2>2, <2>3, MovedTo DEF Lags, Unpruned, Indexed
  <2> QED
    BY <2>4, OneTaskLags
<1>7. CASE Removed(t)
  <2>1. /\ task[t].pc = "remove_aliases" /\ Dead(t) = {}
        /\ UNCHANGED <<index, metaFile, aliasToHash, aliasFile>>
    BY <1>7 DEF Removed, At, disk, memory
  <2>2. Agreeing'
    BY <1>1, <2>1 DEF Lags, Unpruned, Agreeing, Indexed, Dead
  <2>3. GoTo(t, "remove") \/ GoTo(t, "evict") \/ Return(t)
    BY <1>7 DEF Removed
  <2>4. task'[t].pc \in {"remove", "evict", "idle"}
    BY <2>3, MovedTo, Returned
  <2> QED
    BY <2>2, <2>4, AgreeingLags
<1> QED
  BY <1>2, <1>3, <1>4, <1>5, <1>6, <1>7

(* Reopening makes disk and index agree, whatever there was.               *)
LEMMA CrashAgrees ==
    ASSUME TypeOK, Faultless, CrashAndReopen
    PROVE  Agreeing' /\ \A t \in Tasks : task'[t] = Idle
<1> DEFINE found == [h \in Hashes |-> IF h \in blobs THEN metaFile[h] ELSE NoMeta]
           live(h) == h # None /\ found[h] # NoMeta
           aliases == [a \in Aliases |-> IF live(aliasFile[a]) THEN aliasFile[a] ELSE None]
<1>1. /\ index' = found /\ metaFile' = found
      /\ aliasToHash' = aliases /\ aliasFile' = aliases
      /\ task' = [t \in Tasks |-> Idle]
  BY DEF CrashAndReopen, Removal, Faultless
<1> QED
  BY <1>1 DEF TypeOK, Agreeing, Indexed

LEMMA NextLags ==
    OneCaller /\ Faultless /\ Settled /\ IInv /\ AckInv /\ DiskInv /\ [Next]_vars => DiskInv'
<1> SUFFICES ASSUME OneCaller, Faultless, Settled, TypeOK, AckInv, DiskInv, [Next]_vars
             PROVE  DiskInv'
  BY DEF IInv
<1>1. ASSUME NEW t \in Tasks, Starts(t) PROVE DiskInv'
  <2>1. task[t].pc = "idle" /\ UNCHANGED <<disk, memory>>
    BY <1>1 DEF Starts, Put, Delete, Get, Sweep, Removing, At
  <2>2. task'[t].pc \in {"check_blob", "remove", "lookup", "sweep"}
    <3>1. CASE Put(t)
      BY <3>1 DEF Put, TypeOK, Idle
    <3>2. CASE Delete(t)
      BY <3>2, NowRemoving DEF Delete
    <3>3. CASE Get(t)
      BY <3>3 DEF Get, TypeOK, Idle
    <3>4. CASE Sweep(t)
      BY <3>4 DEF Sweep, TypeOK, Idle
    <3> QED
      BY <1>1, <3>1, <3>2, <3>3, <3>4 DEF Starts
  <2> QED
    BY <2>1, <2>2, QuietStepLags DEF Lagging, disk, memory
<1>2. ASSUME NEW t \in Tasks, Lookup(t) \/ Expire(t) \/ SweepListed(t) PROVE DiskInv'
  <2>1. task[t].pc \in {"lookup", "expire", "sweep"} /\ UNCHANGED <<disk, memory>>
    BY <1>2 DEF Lookup, Expire, SweepListed, Removing, At
  <2>2. CASE Lookup(t)
    <3>1. Return(t) \/ GoTo(t, "expire") \/ GoTo(t, "read_blob")
      BY <2>2 DEF Lookup
    <3>2. task'[t].pc \in {"idle", "expire", "read_blob"}
      BY <3>1, MovedTo, Returned
    <3> QED
      BY <2>1, <3>2, QuietStepLags DEF Lagging, disk, memory
  <2>3. CASE Expire(t) \/ SweepListed(t)
    <3>1. task'[t].pc = "remove"
      BY <2>3, NowRemoving DEF Expire, SweepListed
    <3> QED
      BY <2>1, <3>1, QuietStepLags DEF Lagging, disk, memory
  <2> QED
    BY <1>2, <2>2, <2>3
<1>3. ASSUME NEW t \in Tasks,
             \/ CheckBlob(t) \/ WriteBlob(t) \/ WriteFails(t) \/ EvictNext(t)
             \/ PutReturns(t) \/ ReadBlob(t)
      PROVE  DiskInv'
  <2>1. /\ task[t].pc \in {"check_blob", "write_blob", "write_meta", "write_alias",
                           "evict", "read_blob"}
        /\ UNCHANGED <<metaFile, aliasFile, index, aliasToHash>>
    BY <1>3 DEF CheckBlob, WriteBlob, WriteFails, EvictNext, PutReturns, ReadBlob, At,
                disk, memory, Writes
  <2>2. task'[t].pc \in {"write_blob", "write_meta", "idle", "remove"}
    <3>1. CASE CheckBlob(t)
      <4>1. GoTo(t, IF task[t].hash \in blobs THEN "write_meta" ELSE "write_blob")
        BY <3>1 DEF CheckBlob
      <4> QED
        BY <4>1, MovedTo
    <3>2. CASE WriteBlob(t)
      BY <3>2, MovedTo DEF WriteBlob
    <3>3. CASE WriteFails(t) \/ PutReturns(t) \/ ReadBlob(t)
      BY <3>3, Returned DEF WriteFails, PutReturns, ReadBlob
    <3>4. CASE EvictNext(t)
      BY <3>4 DEF EvictNext, TypeOK, TaskStates
    <3> QED
      BY <1>3, <3>1, <3>2, <3>3, <3>4
  <2> QED
    BY <2>1, <2>2, QuietStepLags DEF Lagging
<1>4. ASSUME NEW t \in Tasks, Acquires(t) \/ Proceeds(t) PROVE DiskInv'
  BY <1>2, <1>3, <1>4, PutLags, RemoveLags DEF Acquires, Proceeds
<1>5. /\ \A t \in Tasks : ~Cancel(t)
      /\ \A s \in Slots : ~Late(s)
  BY DEF Cancel, Late, Faultless, Settled, Idle
<1>6. CASE CrashAndReopen
  <2>1. Agreeing' /\ \A t \in Tasks : task'[t].pc = "idle"
    BY <1>6, CrashAgrees DEF Idle
  <2> QED
    BY <2>1, AgreeingLags DEF OneCaller
<1>7. CASE Tick \/ UNCHANGED vars
  BY <1>7 DEF Tick, vars, disk, memory, DiskInv, Lags, Indexed
<1> QED
  BY <1>1, <1>4, <1>5, <1>6, <1>7 DEF Next

LEMMA QuietAgrees ==
    OneCaller /\ TypeOK /\ AckInv /\ DiskInv => DiskIsIndexWhenQuiet
<1> SUFFICES ASSUME OneCaller, TypeOK, AckInv, DiskInv, Quiet
             PROVE  /\ metaFile = index /\ aliasFile = aliasToHash
                    /\ Indexed \subseteq blobs
                    /\ \A a \in Aliases : aliasToHash[a] # None => aliasToHash[a] \in Indexed
  BY DEF DiskIsIndexWhenQuiet
<1>1. Agreeing
  BY NothingLags DEF OneCaller, Quiet, At, Lagging
<1>2. metaFile = index /\ aliasFile = aliasToHash
  BY <1>1 DEF Agreeing, TypeOK
<1> QED
  BY <1>1, <1>2 DEF Agreeing, AckInv, Backed

(* Between operations the disk says what the index says, wherever writes   *)
(* failed and wherever the process was killed, so that reopening changes   *)
(* nothing: for one caller whose operations run to their end, on a disk    *)
(* that removes what it is told to (bootstrap_index, remove_one and put,   *)
(* content_store_fs.rs:149-227, 266-282, 323-412).                         *)
THEOREM DiskIsTheIndex ==
    ASSUME OneCaller, Faultless
    PROVE  Spec => []DiskIsIndexWhenQuiet
<1>1. IInv /\ AckInv /\ DiskInv => DiskIsIndexWhenQuiet
  BY QuietAgrees DEF IInv
<1>2. IInv /\ Settled /\ AckInv /\ [Next]_vars => Settled' /\ AckInv'
  BY NextKeeps, NextSettled DEF Faultless
<1>3. IInv /\ Settled /\ AckInv /\ DiskInv /\ [Next]_vars => DiskInv'
  BY NextLags
<1>4. Init => Settled
  BY DEF Init, Settled
<1> QED
  BY <1>1, <1>2, <1>3, <1>4, InitAcked, InitLags, Invariant, PTL DEF Spec

-----------------------------------------------------------------------------
(* Nothing but puts, on a store without a cap *)

OnlyPuts == Ops \subseteq {"put"} /\ MaxBytes = 0

(* A put's files are there before it goes on, and nobody takes them away.  *)
Written(state) ==
    /\ state.pc \in {"idle"} \cup PutSteps
    /\ state.pc \in {"write_meta", "insert", "write_alias", "insert_alias", "evict"} =>
        state.hash \in blobs
    /\ state.pc \in {"insert", "write_alias", "insert_alias", "evict"} =>
        metaFile[state.hash] # NoMeta
    /\ state.pc \in {"write_alias", "insert_alias", "evict"} => state.hash \in Indexed
    /\ state.pc = "insert_alias" => aliasFile[state.alias] # None

WritersInv == WritersAgree /\ \A t \in Tasks : Written(task[t])

(* A dropped put leaves nothing but a write behind.                        *)
WritesAdrift == \A s \in Slots : adrift[s].pc \in {"idle"} \cup Writes

(* The store only grows.                                                   *)
Grows ==
    /\ blobs \subseteq blobs' /\ Indexed \subseteq Indexed'
    /\ \A h \in Hashes : metaFile[h] # NoMeta => metaFile'[h] # NoMeta
    /\ \A a \in Aliases : aliasFile[a] # None => aliasFile'[a] # None

(* Whoever moves, the other writers keep what they have written.           *)
LEMMA OthersStayWritten ==
    ASSUME TypeOK, WritersInv, Grows, NEW t \in Tasks, NEW s,
           task' = [task EXCEPT ![t] = s], Written(task[t])', WritersAgree'
    PROVE  WritersInv'
<1>1. ASSUME NEW u \in Tasks, u # t PROVE Written(task[u])'
  <2>1. task'[u] = task[u] /\ Written(task[u])
    BY <1>1 DEF TypeOK, WritersInv
  <2>2. /\ task[u].pc \in PutSteps => task[u].hash \in Hashes
        /\ task[u].pc = "insert_alias" => task[u].alias \in Aliases
    BY TaskTyped DEF HasOperands
  <2> QED
    BY <2>1, <2>2 DEF Written, Grows, PutSteps
<1> QED
  BY <1>1 DEF WritersInv

LEMMA QuietStepWritten ==
    ASSUME TypeOK, WritersInv, NEW t \in Tasks, NEW s, task' = [task EXCEPT ![t] = s],
           Written(s), UNCHANGED <<disk, memory, acked>>
    PROVE  WritersInv'
<1>1. task'[t] = s
  BY DEF TypeOK
<1>2. Written(task[t])' /\ WritersAgree' /\ Grows
  BY <1>1 DEF Written, WritersInv, WritersAgree, AckedIsReadable, Grows, Indexed, disk, memory
<1> QED
  BY <1>2, OthersStayWritten

LEMMA IdleWritten == Written(Idle) /\ Written(Idle)'
BY DEF Written, Idle

LEMMA InitWritten == Init => WritersInv
<1> SUFFICES ASSUME Init PROVE WritersInv
  OBVIOUS
<1>1. Indexed = {}
  BY DEF Init, Indexed
<1> QED
  BY <1>1, IdleWritten DEF Init, WritersInv, WritersAgree, AckedIsReadable

LEMMA WritesWritten ==
    ASSUME TypeOK, WritersInv, NEW t \in Tasks,
           \/ CheckBlob(t) \/ WriteBlob(t) \/ WriteMeta(t) \/ WriteAlias(t)
    PROVE  WritersInv'
<1>1. HasOperands(task[t]) /\ Written(task[t]) /\ WritersAgree
  BY TaskTyped DEF WritersInv
<1>2. CASE CheckBlob(t)
  <2>1. GoTo(t, "write_blob") \/ (GoTo(t, "write_meta") /\ task[t].hash \in blobs)
    BY <1>2, Zenon DEF CheckBlob
  <2>2. UNCHANGED <<disk, memory, acked>>
    BY <1>2 DEF CheckBlob
  <2>3. Written(task[t])' /\ WritersAgree' /\ Grows
    BY <1>1, <2>1, <2>2, MovedTo
    DEF Written, WritersAgree, AckedIsReadable, Grows, Indexed, disk, memory, PutSteps
  <2>4. \E s : task' = [task EXCEPT ![t] = s]
    BY <2>1 DEF GoTo
  <2> QED
    BY <2>3, <2>4, OthersStayWritten
<1>3. CASE WriteBlob(t)
  <2>1. /\ GoTo(t, "write_meta") /\ blobs' = blobs \cup {task[t].hash}
        /\ UNCHANGED <<metaFile, aliasFile, memory, acked>>
    BY <1>3 DEF WriteBlob
  <2>2. Written(task[t])' /\ WritersAgree' /\ Grows
    BY <1>1, <2>1, MovedTo
    DEF Written, WritersAgree, AckedIsReadable, Grows, Indexed, memory, PutSteps
  <2>3. \E s : task' = [task EXCEPT ![t] = s]
    BY <2>1 DEF GoTo
  <2> QED
    BY <2>2, <2>3, OthersStayWritten
<1>4. CASE WriteMeta(t)
  <2>1. /\ GoTo(t, "insert") /\ task[t].pc = "write_meta"
        /\ metaFile' = [metaFile EXCEPT ![task[t].hash] = task[t].meta]
        /\ UNCHANGED <<blobs, aliasFile, memory, acked>>
    BY <1>4 DEF WriteMeta, At
  <2>2. task[t].hash \in Hashes /\ task[t].meta # NoMeta
    BY <1>1, <2>1, NoMetaIsNone DEF HasOperands, PutSteps
  <2>3. \A h \in Hashes :
          metaFile'[h] = IF h = task[t].hash THEN task[t].meta ELSE metaFile[h]
    BY <2>1, <2>2 DEF TypeOK
  <2>4. Grows
    BY <2>1, <2>2, <2>3 DEF Grows, Indexed, memory
  <2>5. WritersAgree'
    BY <1>1, <2>1, <2>2, <2>3 DEF WritersAgree, AckedIsReadable, Indexed, memory
  <2>6. Written(task[t])'
    BY <1>1, <2>1, <2>2, <2>3, MovedTo DEF Written, PutSteps
  <2>7. \E s : task' = [task EXCEPT ![t] = s]
    BY <2>1 DEF GoTo
  <2> QED
    BY <2>4, <2>5, <2>6, <2>7, OthersStayWritten
<1>5. CASE WriteAlias(t)
  <2>1. /\ GoTo(t, "insert_alias") /\ task[t].pc = "write_alias"
        /\ aliasFile' = [aliasFile EXCEPT ![task[t].alias] = task[t].hash]
        /\ UNCHANGED <<blobs, metaFile, memory, acked>>
    BY <1>5 DEF WriteAlias, At
  <2>2. /\ task[t].alias \in Aliases /\ task[t].hash \in Hashes /\ task[t].hash # None
        /\ task[t].hash \in Indexed
    BY <1>1, <2>1, StoreAssumption DEF HasOperands, PutSteps, Written
  <2>3. \A a \in Aliases :
          aliasFile'[a] = IF a = task[t].alias THEN task[t].hash ELSE aliasFile[a]
    BY <2>1, <2>2 DEF TypeOK
  <2>4. Grows /\ WritersAgree'
    BY <1>1, <2>1, <2>2, <2>3 DEF Grows, WritersAgree, AckedIsReadable, Indexed, memory
  <2>5. Written(task[t])'
    BY <1>1, <2>1, <2>2, <2>3, MovedTo DEF Written, PutSteps, Indexed, memory
  <2>6. \E s : task' = [task EXCEPT ![t] = s]
    BY <2>1 DEF GoTo
  <2> QED
    BY <2>4, <2>5, <2>6, OthersStayWritten
<1> QED
  BY <1>2, <1>3, <1>4, <1>5

LEMMA InsertsWritten ==
    ASSUME TypeOK, WritersInv, NEW t \in Tasks, Insert(t) \/ InsertAlias(t)
    PROVE  WritersInv'
<1>1. HasOperands(task[t]) /\ Written(task[t]) /\ WritersAgree
  BY TaskTyped DEF WritersInv
<1>2. CASE Insert(t)
  <2> DEFINE h == task[t].hash
  <2>1. /\ task[t].pc = "insert" /\ UNCHANGED <<disk, aliasToHash, acked>>
        /\ index' = [index EXCEPT ![h] = task[t].meta]
        /\ \/ GoTo(t, "write_alias")
           \/ GoTo(t, "evict")
    BY <1>2 DEF Insert, At
  <2>2. /\ h \in Hashes /\ task[t].meta # NoMeta
        /\ h \in blobs /\ metaFile[h] # NoMeta
    BY <1>1, <2>1, NoMetaIsNone DEF HasOperands, PutSteps, Written
  <2>3. \A g \in Hashes : index'[g] = IF g = h THEN task[t].meta ELSE index[g]
    BY <2>1, <2>2 DEF TypeOK
  <2>4. Indexed' = Indexed \cup {h}
    BY <2>2, <2>3 DEF Indexed
  <2>5. Grows /\ WritersAgree'
    BY <1>1, <2>1, <2>2, <2>4 DEF Grows, WritersAgree, AckedIsReadable, disk
  <2>6. Written(task[t])'
    BY <1>1, <2>1, <2>2, <2>4, MovedTo DEF Written, PutSteps, disk
  <2>7. \E s : task' = [task EXCEPT ![t] = s]
    BY <2>1 DEF GoTo
  <2> QED
    BY <2>5, <2>6, <2>7, OthersStayWritten
<1>3. CASE InsertAlias(t)
  <2>1. /\ task[t].pc = "insert_alias" /\ UNCHANGED <<disk, index, acked>>
        /\ aliasToHash' = [aliasToHash EXCEPT ![task[t].alias] = task[t].hash]
        /\ GoTo(t, "evict")
    BY <1>3 DEF InsertAlias, At
  <2>2. /\ task[t].alias \in Aliases /\ task[t].hash \in Indexed
        /\ aliasFile[task[t].alias] # None
    BY <1>1, <2>1 DEF HasOperands, Written
  <2>3. \A a \in Aliases :
          aliasToHash'[a] = IF a = task[t].alias THEN task[t].hash ELSE aliasToHash[a]
    BY <2>1, <2>2 DEF TypeOK
  <2>4. Grows /\ WritersAgree'
    BY <1>1, <2>1, <2>2, <2>3 DEF Grows, WritersAgree, AckedIsReadable, Indexed, disk
  <2>5. Written(task[t])'
    BY <1>1, <2>1, <2>2, MovedTo DEF Written, PutSteps, Indexed, disk
  <2>6. \E s : task' = [task EXCEPT ![t] = s]
    BY <2>1 DEF GoTo
  <2> QED
    BY <2>4, <2>5, <2>6, OthersStayWritten
<1> QED
  BY <1>2, <1>3

(* A put that returns has been indexed, and nothing has evicted it.        *)
LEMMA PutReturnsWritten ==
    ASSUME TypeOK, WritersInv, NEW t \in Tasks, PutReturns(t)
    PROVE  WritersInv'
<1>1. task[t].pc = "evict" /\ Written(task[t]) /\ WritersAgree
  BY DEF WritersInv, PutReturns, At
<1>2. UNCHANGED <<disk, memory>> /\ acked' = acked \cup {task[t].hash} /\ Return(t)
  BY DEF PutReturns
<1>3. task[t].hash \in Indexed /\ task[t].hash \in blobs
  BY <1>1 DEF Written
<1>4. Grows /\ WritersAgree'
  BY <1>1, <1>2, <1>3 DEF Grows, WritersAgree, AckedIsReadable, Indexed, disk, memory
<1>5. task'[t] = Idle
  BY <1>2 DEF Return, TypeOK
<1>6. Written(task[t])'
  BY <1>5 DEF Written, Idle
<1> QED
  BY <1>2, <1>4, <1>6, OthersStayWritten DEF Return

(* Reopening indexes what has a blob and a sidecar: all that was indexed.  *)
LEMMA CrashWritten ==
    ASSUME TypeOK, WritersInv, CrashAndReopen
    PROVE  WritersInv'
<1> DEFINE found == [h \in Hashes |-> IF h \in blobs THEN metaFile[h] ELSE NoMeta]
           live(h) == h # None /\ found[h] # NoMeta
           aliases == [a \in Aliases |-> IF live(aliasFile[a]) THEN aliasFile[a] ELSE None]
<1>1. /\ index' = found /\ aliasToHash' = aliases
      /\ metaFile' \in {metaFile, found} /\ aliasFile' \in {aliasFile, aliases}
      /\ task' = [t \in Tasks |-> Idle] /\ UNCHANGED <<blobs, acked>>
  BY DEF CrashAndReopen, Removal
<1>2. \A h \in Hashes : index'[h] # NoMeta => h \in blobs' /\ metaFile'[h] # NoMeta
  BY <1>1
<1>3. \A h \in Indexed : index'[h] # NoMeta
  BY <1>1 DEF WritersInv, WritersAgree, Indexed
<1>4. AckedIsReadable'
  BY <1>1, <1>3 DEF WritersInv, WritersAgree, AckedIsReadable, Indexed
<1>5. \A a \in Aliases : aliasToHash'[a] # None =>
        aliasToHash'[a] \in Indexed' /\ aliasFile'[a] # None
  <2> SUFFICES ASSUME NEW a \in Aliases, aliasToHash'[a] # None
               PROVE  aliasToHash'[a] \in Indexed' /\ aliasFile'[a] # None
    OBVIOUS
  <2>1. aliasFile[a] # None /\ found[aliasFile[a]] # NoMeta /\ aliasToHash'[a] = aliasFile[a]
    BY <1>1
  <2>2. aliasFile[a] \in Hashes
    BY <2>1 DEF TypeOK
  <2>3. aliasFile'[a] = aliasFile[a]
    BY <1>1, <2>1
  <2> QED
    BY <1>1, <2>1, <2>2, <2>3 DEF Indexed
<1>6. \A t \in Tasks : Written(task[t])'
  BY <1>1, IdleWritten
<1> QED
  BY <1>2, <1>4, <1>5, <1>6 DEF WritersInv, WritersAgree, Indexed

(* Only a write is left behind where there are only writers.               *)
LEMMA NextWritesAdrift ==
    WritersInv /\ WritesAdrift /\ [Next]_vars => WritesAdrift'
<1> SUFFICES ASSUME WritersInv, WritesAdrift, [Next]_vars PROVE WritesAdrift'
  OBVIOUS
<1>1. ASSUME NEW t \in Tasks, Cancel(t) PROVE WritesAdrift'
  <2>1. task[t].pc \in {"idle"} \cup PutSteps
    BY DEF WritersInv, Written
  <2>2. task[t].pc \notin Removals
    BY <2>1 DEF PutSteps, Removals
  <2>3. CASE UNCHANGED adrift
    BY <2>3 DEF WritesAdrift
  <2>4. CASE task[t].pc \in Writes /\ \E s \in Slots : adrift' = [adrift EXCEPT ![s] = task[t]]
    BY <2>4 DEF WritesAdrift
  <2> QED
    BY <1>1, <2>2, <2>3, <2>4 DEF Cancel
<1>2. ASSUME NEW s \in Slots, Late(s) PROVE WritesAdrift'
  BY <1>2 DEF Late, WritesAdrift, Idle
<1>3. CASE CrashAndReopen
  BY <1>3 DEF CrashAndReopen, WritesAdrift, Idle
<1>4. ASSUME UNCHANGED adrift PROVE WritesAdrift'
  BY <1>4 DEF WritesAdrift
<1>5. CASE Tick \/ UNCHANGED vars
  BY <1>4, <1>5 DEF Tick, vars, disk
<1> QED
  BY <1>1, <1>2, <1>3, <1>4, <1>5, NextLeavesBehind DEF Next

(* A write that comes late adds to the disk what belongs there.            *)
LEMMA LateWritten ==
    ASSUME TypeOK, WritersInv, WritesAdrift, NEW s \in Slots, Late(s)
    PROVE  WritersInv'
<1> DEFINE access == adrift[s]
<1>1. /\ access.pc \in Writes /\ HasOperands(access)
      /\ UNCHANGED <<memory, task, acked>>
  <2>1. access.pc # "idle"
    BY DEF Late
  <2> QED
    BY <2>1 DEF Late, TypeOK, WritesAdrift
<1>2. /\ access.hash \in Hashes /\ access.meta # NoMeta /\ access.hash # None
      /\ access.pc = "write_alias" => access.alias \in Aliases
  BY <1>1, NoMetaIsNone, StoreAssumption DEF HasOperands, PutSteps, Writes
<1>3. blobs \subseteq blobs'
  BY <1>1 DEF Late, Writes
<1>4. \A h \in Hashes : metaFile[h] # NoMeta => metaFile'[h] # NoMeta
  BY <1>1, <1>2 DEF Late, Writes, TypeOK
<1>5. \A a \in Aliases : aliasFile[a] # None => aliasFile'[a] # None
  BY <1>1, <1>2 DEF Late, Writes, TypeOK
<1>6. Indexed' = Indexed
  BY <1>1 DEF Indexed, memory
<1>7. WritersAgree'
  BY <1>1, <1>3, <1>4, <1>5, <1>6 DEF WritersInv, WritersAgree, AckedIsReadable, Indexed, memory
<1>8. ASSUME NEW t \in Tasks PROVE Written(task[t])'
  <2>1. /\ task[t].pc \in PutSteps => task[t].hash \in Hashes
        /\ task[t].pc = "insert_alias" => task[t].alias \in Aliases
    BY TaskTyped DEF HasOperands
  <2> QED
    BY <1>1, <1>3, <1>4, <1>5, <1>6, <2>1 DEF WritersInv, Written, PutSteps
<1> QED
  BY <1>7, <1>8 DEF WritersInv

LEMMA NextWritten ==
    OnlyPuts /\ IInv /\ WritersInv /\ WritesAdrift /\ [Next]_vars => WritersInv'
<1> SUFFICES ASSUME OnlyPuts, TypeOK, WritersInv, WritesAdrift, [Next]_vars
             PROVE  WritersInv'
  BY DEF IInv
<1>1. ASSUME NEW t \in Tasks PROVE task[t].pc \in {"idle"} \cup PutSteps
  BY DEF WritersInv, Written
<1>2. ASSUME NEW t \in Tasks, Return(t), UNCHANGED <<blobs, metaFile, aliasFile, memory, acked>>
      PROVE  WritersInv'
  <2>1. task'[t] = Idle
    BY <1>2 DEF Return, TypeOK
  <2>2. Written(task[t])' /\ WritersAgree' /\ Grows
    BY <1>2, <2>1, IdleWritten
    DEF Written, Idle, WritersInv, WritersAgree, AckedIsReadable, Grows, Indexed, memory
  <2> QED
    BY <1>2, <2>2, OthersStayWritten DEF Return
<1>3. ASSUME NEW t \in Tasks, Starts(t) PROVE WritersInv'
  <2>1. "delete" \notin Ops /\ "get" \notin Ops /\ "sweep" \notin Ops
    BY DEF OnlyPuts
  <2>2. Put(t)
    BY <1>3, <2>1 DEF Starts, Delete, Get, Sweep
  <2>3. PICK h \in Hashes, a \in Aliases \cup {None}, e \in {now + 2, Never} :
          task' = [task EXCEPT ![t] =
             [Idle EXCEPT !.op = "put", !.pc = "check_blob", !.hash = h, !.alias = a,
                          !.meta = [stored_at |-> now, expires_at |-> e]]]
    BY <2>2 DEF Put
  <2> DEFINE s == [Idle EXCEPT !.op = "put", !.pc = "check_blob", !.hash = h, !.alias = a,
                               !.meta = [stored_at |-> now, expires_at |-> e]]
  <2>4. Written(s)
    BY DEF Written, PutSteps, Idle
  <2> QED
    BY <2>2, <2>3, <2>4, QuietStepWritten DEF Put
<1>4. ASSUME NEW t \in Tasks, Acquires(t) PROVE WritersInv'
  <2>1. Insert(t) \/ InsertAlias(t)
    BY <1>1, <1>4 DEF Acquires, Lookup, Expire, SweepListed, At, PutSteps
  <2> QED
    BY <2>1, InsertsWritten
<1>5. ASSUME NEW t \in Tasks, Proceeds(t) PROVE WritersInv'
  <2>1. /\ ~Unindex(t) /\ ~RemoveBlob(t) /\ ~RemoveMeta(t) /\ ~UnmapAlias(t)
        /\ ~RemoveAlias(t) /\ ~Removed(t) /\ ~ReadBlob(t)
    BY <1>1 DEF Unindex, RemoveBlob, RemoveMeta, UnmapAlias, RemoveAlias, Removed,
                ReadBlob, At, PutSteps
  <2>2. ~EvictNext(t)
    BY DEF EvictNext, Fits, OnlyPuts
  <2>3. CASE WriteFails(t)
    BY <1>2, <2>3 DEF WriteFails
  <2> QED
    BY <1>5, <2>1, <2>2, <2>3, WritesWritten, PutReturnsWritten DEF Proceeds
<1>6. ASSUME NEW t \in Tasks, Cancel(t) PROVE WritersInv'
  BY <1>2, <1>6 DEF Cancel
<1>7. ASSUME NEW s \in Slots, Late(s) PROVE WritersInv'
  BY <1>7, LateWritten
<1>8. CASE CrashAndReopen
  BY <1>8, CrashWritten
<1>9. CASE Tick \/ UNCHANGED vars
  BY <1>9 DEF Tick, vars, disk, memory, WritersInv, WritersAgree, AckedIsReadable, Written,
              Indexed
<1> QED
  BY <1>3, <1>4, <1>5, <1>6, <1>7, <1>8, <1>9 DEF Next

(* Any number of writers that race on one content or one alias, with       *)
(* writes that fail, puts given up half-way, the writes these leave with   *)
(* the blocking pool and crashes, end with all that is indexed on disk,    *)
(* every put that returned among it, and every alias leading to content:   *)
(* as long as nothing is removed (content_store_fs.rs:21-26, 149-227,      *)
(* 303-319, 323-412).                                                      *)
THEOREM WritersAlwaysAgree ==
    ASSUME OnlyPuts
    PROVE  Spec => []WritersAgree
<1>1. WritersInv => WritersAgree
  BY DEF WritersInv
<1>2. IInv /\ WritersInv /\ WritesAdrift /\ [Next]_vars => WritersInv' /\ WritesAdrift'
  BY NextWritten, NextWritesAdrift
<1>3. Init => WritesAdrift
  BY DEF Init, WritesAdrift, Idle
<1> QED
  BY <1>1, <1>2, <1>3, InitWritten, Invariant, PTL DEF Spec

=============================================================================
