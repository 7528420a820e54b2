---------------------------- MODULE FsContentStore ----------------------------
(***************************************************************************)
(* FileSystemContentStore (src/content_store_fs.rs): content-addressed     *)
(* blobs with a metadata sidecar and alias redirects on disk, and an index *)
(* of them in memory behind an RwLock.                                     *)
(*                                                                         *)
(* Tasks call put, get, delete and sweep_expired concurrently.  An         *)
(* operation is split at every disk access and every acquisition of the    *)
(* lock; put's disk writes happen outside the lock, every removal inside   *)
(* it.  The process may crash between any two steps and is reopened from   *)
(* what is on disk.  An operation may be dropped at an await; the disk     *)
(* access it awaits is the blocking pool's and goes on without it.         *)
(*                                                                         *)
(* A blob is its hash: a file is written to a temporary name and renamed,  *)
(* so it is there whole or not at all.                                     *)
(***************************************************************************)
EXTENDS Integers, FiniteSets

CONSTANTS
    Tasks,          \* the callers' tasks
    Slots,          \* bound: disk accesses left behind at once
    Hashes,         \* contents, by hash; naturals, for ties between them
    Size,           \* their sizes in bytes
    Aliases,        \* alias ids
    MaxBytes,       \* 0: no cap
    Ops,            \* the operations callers use
    MayCrash,       \* the process may crash
    MayCancel,      \* a caller may drop an operation's future at an await
    RemovalsFail,   \* removing a file may fail
    LastInstant,    \* bound: the wall clock stops here
    None            \* no hash, no alias, no task

ASSUME StoreAssumption ==
    /\ Hashes \subseteq Nat /\ IsFiniteSet(Hashes)
    /\ Size \in [Hashes -> Nat]
    /\ MaxBytes \in Nat /\ LastInstant \in Nat \ {0}
    /\ Ops \subseteq {"put", "get", "delete", "sweep"}
    /\ None \notin Hashes \cup Aliases \cup Tasks
    /\ MayCrash \in BOOLEAN /\ MayCancel \in BOOLEAN /\ RemovalsFail \in BOOLEAN

VARIABLES
    now,            \* Utc::now()
    blobs,          \* on disk: the hashes that have a blob,
    metaFile,       \* the sidecars,
    aliasFile,      \* the redirects,
    litter,         \* and whether a temporary file was left behind
    adrift,         \* the disk accesses whose operation was dropped, each
                    \* as the state its task was in; Idle: none
    index,          \* Index::by_hash
    aliasToHash,    \* Index::alias_to_hash
    byteCount,      \* Index::byte_count
    lock,           \* who holds the index's write guard
    task,           \* the operation each task is in
    acked           \* history: puts that returned, until their content is removed

disk == <<blobs, metaFile, aliasFile, litter, adrift>>
memory == <<index, aliasToHash, byteCount>>
vars == <<now, disk, memory, lock, task, acked>>

Never == LastInstant + 2
NoMeta == [stored_at |-> 0, expires_at |-> 0]
Metas == [stored_at : 1..LastInstant, expires_at : 1..Never]

Idle == [op |-> "none", pc |-> "idle", hash |-> None, alias |-> None,
         meta |-> NoMeta, doomed |-> {}, victim |-> None]

Indexed == {h \in Hashes : index[h] # NoMeta}

(* The bytes of a content, and of a set of contents, one element each.     *)
BytesOf(h) == {h} \X (1..Size[h])
Bytes(H) == UNION {BytesOf(h) : h \in H}

Expired(h) == index[h] # NoMeta /\ index[h].expires_at <= now

Init ==
    /\ now = 1
    /\ blobs = {} /\ litter = FALSE
    /\ adrift = [s \in Slots |-> Idle]
    /\ metaFile = [h \in Hashes |-> NoMeta]
    /\ aliasFile = [a \in Aliases |-> None]
    /\ index = [h \in Hashes |-> NoMeta]
    /\ aliasToHash = [a \in Aliases |-> None]
    /\ byteCount = 0
    /\ lock = None
    /\ task = [t \in Tasks |-> Idle]
    /\ acked = {}

-----------------------------------------------------------------------------
At(t, pc) == task[t].pc = pc

GoTo(t, pc) == task' = [task EXCEPT ![t].pc = pc]

Return(t) == task' = [task EXCEPT ![t] = Idle]

(* Read guards are held for a moment only: a reader needs no writer.       *)
Unlocked == lock = None

(* The hash an id stands for: resolve_to_hash.                             *)
Resolve(id) == IF id \in Aliases THEN aliasToHash[id] ELSE id

Tick ==
    /\ now < LastInstant
    /\ now' = now + 1
    /\ UNCHANGED <<disk, memory, lock, task, acked>>

-----------------------------------------------------------------------------
(* put *)

(* Content over the cap is refused at once.  The put's timestamp is taken  *)
(* here, and no two puts share one.                                        *)
Put(t) ==
    /\ At(t, "idle") /\ "put" \in Ops
    /\ now < LastInstant
    /\ \E h \in Hashes, a \in Aliases \cup {None}, e \in {now + 2, Never} :
        /\ MaxBytes = 0 \/ Size[h] <= MaxBytes
        /\ task' = [task EXCEPT ![t] =
             [Idle EXCEPT !.op = "put", !.pc = "check_blob", !.hash = h, !.alias = a,
                          !.meta = [stored_at |-> now, expires_at |-> e]]]
    /\ now' = now + 1
    /\ UNCHANGED <<disk, memory, lock, acked>>

(* if !blob.exists()                                                       *)
CheckBlob(t) ==
    /\ At(t, "check_blob")
    /\ GoTo(t, IF task[t].hash \in blobs THEN "write_meta" ELSE "write_blob")
    /\ UNCHANGED <<now, disk, memory, lock, acked>>

(* Mutant: the sidecar is left out for a new blob.                         *)
WriteBlobOnly(t) ==
    /\ At(t, "write_blob")
    /\ blobs' = blobs \cup {task[t].hash}
    /\ GoTo(t, "insert")
    /\ UNCHANGED <<now, metaFile, aliasFile, litter, adrift, memory, lock, acked>>

WriteBlob(t) ==
    /\ At(t, "write_blob")
    /\ blobs' = blobs \cup {task[t].hash}
    /\ GoTo(t, "write_meta")
    /\ UNCHANGED <<now, metaFile, aliasFile, litter, adrift, memory, lock, acked>>

WriteMeta(t) ==
    /\ At(t, "write_meta")
    /\ metaFile' = [metaFile EXCEPT ![task[t].hash] = task[t].meta]
    /\ GoTo(t, "insert")
    /\ UNCHANGED <<now, blobs, aliasFile, litter, adrift, memory, lock, acked>>

(* Mutants: the guard is not dropped before the alias is written; the      *)
(* replaced entry's size stays counted.                                    *)
InsertHoldingGuard(t) ==
    LET h == task[t].hash
        prior == IF index[h] # NoMeta THEN Size[h] ELSE 0
    IN  /\ At(t, "insert") /\ Unlocked
        /\ index' = [index EXCEPT ![h] = task[t].meta]
        /\ byteCount' = byteCount - prior + Size[h]
        /\ lock' = t
        /\ GoTo(t, IF task[t].alias # None THEN "write_alias" ELSE "evict")
        /\ UNCHANGED <<now, disk, aliasToHash, acked>>

InsertCountingTwice(t) ==
    LET h == task[t].hash
    IN  /\ At(t, "insert") /\ Unlocked
        /\ index' = [index EXCEPT ![h] = task[t].meta]
        /\ byteCount' = byteCount + Size[h]
        /\ IF task[t].alias # None
           THEN lock' = lock /\ GoTo(t, "write_alias")
           ELSE lock' = t /\ GoTo(t, "evict")
        /\ UNCHANGED <<now, disk, aliasToHash, acked>>

(* With an alias the guard is dropped for the alias file; without one it   *)
(* is kept for the eviction.                                               *)
Insert(t) ==
    LET h == task[t].hash
        prior == IF index[h] # NoMeta THEN Size[h] ELSE 0
    IN  /\ At(t, "insert") /\ Unlocked
        /\ index' = [index EXCEPT ![h] = task[t].meta]
        /\ byteCount' = byteCount - prior + Size[h]
        /\ IF task[t].alias # None
           THEN lock' = lock /\ GoTo(t, "write_alias")
           ELSE lock' = t /\ GoTo(t, "evict")
        /\ UNCHANGED <<now, disk, aliasToHash, acked>>

WriteAlias(t) ==
    /\ At(t, "write_alias")
    /\ aliasFile' = [aliasFile EXCEPT ![task[t].alias] = task[t].hash]
    /\ GoTo(t, "insert_alias")
    /\ UNCHANGED <<now, blobs, metaFile, litter, adrift, memory, lock, acked>>

InsertAlias(t) ==
    /\ At(t, "insert_alias") /\ Unlocked
    /\ aliasToHash' = [aliasToHash EXCEPT ![task[t].alias] = task[t].hash]
    /\ lock' = t
    /\ GoTo(t, "evict")
    /\ UNCHANGED <<now, disk, index, byteCount, acked>>

Writes == {"write_blob", "write_meta", "write_alias"}

(* A write fails, the put with it; the temporary file may stay.            *)
WriteFails(t) ==
    /\ task[t].pc \in Writes
    /\ litter' \in {litter, TRUE}
    /\ Return(t)
    /\ UNCHANGED <<now, blobs, metaFile, aliasFile, adrift, memory, lock, acked>>

(* Mutant: the newest goes first.                                          *)
Newer(g, h) ==
    \/ index[g].stored_at > index[h].stored_at
    \/ index[g].stored_at = index[h].stored_at /\ g > h

(* evict_to_fit: by age, ties by hash.                                     *)
Older(g, h) ==
    \/ index[g].stored_at < index[h].stored_at
    \/ index[g].stored_at = index[h].stored_at /\ g < h

Fits == MaxBytes = 0 \/ byteCount <= MaxBytes

EvictNext(t) ==
    /\ At(t, "evict") /\ ~Fits
    /\ \E h \in Indexed :
        /\ \A g \in Indexed \ {h} : Older(h, g)
        /\ task' = [task EXCEPT ![t].pc = "remove", ![t].doomed = {h}]
    /\ UNCHANGED <<now, disk, memory, lock, acked>>

PutReturns(t) ==
    /\ At(t, "evict") /\ Fits
    /\ acked' = acked \cup {task[t].hash}
    /\ lock' = None
    /\ Return(t)
    /\ UNCHANGED <<now, disk, memory>>

-----------------------------------------------------------------------------
(* remove_one, for each doomed content, under the write guard *)

(* What a removal makes of the files: the outcome is ignored (let _ =).    *)
Removal(before, after) == IF RemovalsFail THEN {before, after} ELSE {after}

(* Mutant: the size of what is not indexed is taken off as well.           *)
UnindexUncounted(t) ==
    /\ At(t, "remove")
    /\ \E h \in task[t].doomed :
        /\ index' = [index EXCEPT ![h] = NoMeta]
        /\ byteCount' = byteCount - Size[h]
        /\ acked' = acked \ {h}
        /\ task' = [task EXCEPT ![t].pc = "remove_blob", ![t].victim = h,
                                ![t].doomed = @ \ {h}]
    /\ UNCHANGED <<now, disk, aliasToHash, lock>>

Unindex(t) ==
    /\ At(t, "remove")
    /\ \E h \in task[t].doomed :
        /\ index' = [index EXCEPT ![h] = NoMeta]
        /\ byteCount' = byteCount - IF index[h] # NoMeta THEN Size[h] ELSE 0
        /\ acked' = acked \ {h}
        /\ task' = [task EXCEPT ![t].pc = "remove_blob", ![t].victim = h,
                                ![t].doomed = @ \ {h}]
    /\ UNCHANGED <<now, disk, aliasToHash, lock>>

RemoveBlob(t) ==
    /\ At(t, "remove_blob")
    /\ blobs' \in Removal(blobs, blobs \ {task[t].victim})
    /\ GoTo(t, "remove_meta")
    /\ UNCHANGED <<now, metaFile, aliasFile, litter, adrift, memory, lock, acked>>

(* Mutant: the sidecar is forgotten.                                       *)
RemoveMetaForgotten(t) ==
    /\ At(t, "remove_meta")
    /\ GoTo(t, "remove_aliases")
    /\ UNCHANGED <<now, disk, memory, lock, acked>>

RemoveMeta(t) ==
    /\ At(t, "remove_meta")
    /\ metaFile' \in Removal(metaFile, [metaFile EXCEPT ![task[t].victim] = NoMeta])
    /\ GoTo(t, "remove_aliases")
    /\ UNCHANGED <<now, blobs, aliasFile, litter, adrift, memory, lock, acked>>

(* The aliases the index knows for it, one by one.                         *)
Dead(t) == {a \in Aliases : aliasToHash[a] = task[t].victim}

UnmapAlias(t) ==
    /\ At(t, "remove_aliases")
    /\ \E a \in Dead(t) :
        /\ aliasToHash' = [aliasToHash EXCEPT ![a] = None]
        /\ task' = [task EXCEPT ![t].pc = "remove_alias", ![t].alias = a]
    /\ UNCHANGED <<now, disk, index, byteCount, lock, acked>>

RemoveAlias(t) ==
    /\ At(t, "remove_alias")
    /\ aliasFile' \in Removal(aliasFile, [aliasFile EXCEPT ![task[t].alias] = None])
    /\ GoTo(t, "remove_aliases")
    /\ UNCHANGED <<now, blobs, metaFile, litter, adrift, memory, lock, acked>>

(* Then the next doomed content, the put's fit, or the operation's end.    *)
Removed(t) ==
    /\ At(t, "remove_aliases") /\ Dead(t) = {}
    /\ \/ task[t].doomed # {} /\ GoTo(t, "remove") /\ UNCHANGED lock
       \/ task[t].doomed = {} /\ task[t].op = "put" /\ GoTo(t, "evict") /\ UNCHANGED lock
       \/ task[t].doomed = {} /\ task[t].op # "put" /\ Return(t) /\ lock' = None
    /\ UNCHANGED <<now, disk, memory, acked>>

(* The write guard is taken and what is doomed removed.                    *)
Removing(t, op, doomed) ==
    /\ Unlocked /\ lock' = t
    /\ task' = [task EXCEPT ![t] =
                  [Idle EXCEPT !.op = op, !.pc = "remove", !.doomed = doomed]]
    /\ UNCHANGED <<now, disk, memory, acked>>

-----------------------------------------------------------------------------
(* delete, get and sweep_expired *)

(* An id that resolves to nothing is no error; a hash need not be indexed. *)
Delete(t) ==
    /\ At(t, "idle") /\ "delete" \in Ops
    /\ \E id \in Hashes \cup Aliases :
        Resolve(id) # None /\ Removing(t, "delete", {Resolve(id)})

Get(t) ==
    /\ At(t, "idle") /\ "get" \in Ops /\ Unlocked
    /\ \E id \in Hashes \cup Aliases :
        /\ Resolve(id) # None
        /\ task' = [task EXCEPT ![t] =
                      [Idle EXCEPT !.op = "get", !.pc = "lookup", !.hash = Resolve(id)]]
    /\ UNCHANGED <<now, disk, memory, lock, acked>>

(* The second look at the index; what has expired in the meantime is       *)
(* removed later, under a guard of its own.                                *)
Lookup(t) ==
    LET h == task[t].hash
    IN  /\ At(t, "lookup") /\ Unlocked
        /\ \/ index[h] = NoMeta /\ Return(t)
           \/ Expired(h) /\ GoTo(t, "expire")
           \/ index[h] # NoMeta /\ ~Expired(h) /\ GoTo(t, "read_blob")
        /\ UNCHANGED <<now, disk, memory, lock, acked>>

Expire(t) == At(t, "expire") /\ Removing(t, "get", {task[t].hash})

(* The blob's bytes, or an error when there is none any more.              *)
ReadBlob(t) ==
    /\ At(t, "read_blob")
    /\ Return(t)
    /\ UNCHANGED <<now, disk, memory, lock, acked>>

(* The expired contents are listed, and removed when the guard is had.     *)
Sweep(t) ==
    /\ At(t, "idle") /\ "sweep" \in Ops /\ Unlocked
    /\ {h \in Hashes : Expired(h)} # {}
    /\ task' = [task EXCEPT ![t] =
                  [Idle EXCEPT !.op = "sweep", !.pc = "sweep",
                               !.doomed = {h \in Hashes : Expired(h)}]]
    /\ UNCHANGED <<now, disk, memory, lock, acked>>

SweepListed(t) == At(t, "sweep") /\ Removing(t, "sweep", task[t].doomed)

-----------------------------------------------------------------------------
(* Cancellation, crash and reopening *)

(* What an operation awaits: a disk access, or the index's lock.           *)
Removals == {"remove_blob", "remove_meta", "remove_alias"}
Waits == {"insert", "insert_alias", "lookup", "expire", "sweep", "read_blob"}

(* The future of an operation is dropped at an await: its guard is         *)
(* released, what it has done stays done.  A removal is with the blocking  *)
(* pool by then; of a write, the last of its accesses may be, the rename.  *)
Cancel(t) ==
    /\ MayCancel /\ task[t].pc \in Writes \cup Removals \cup Waits
    /\ Return(t)
    /\ lock' = IF lock = t THEN None ELSE lock
    /\ \/ task[t].pc \notin Removals /\ UNCHANGED adrift
       \/ /\ task[t].pc \in Writes \cup Removals
          /\ \E s \in Slots :
              adrift[s].pc = "idle" /\ adrift' = [adrift EXCEPT ![s] = task[t]]
    /\ litter' \in {litter, litter \/ task[t].pc \in Writes}
    /\ UNCHANGED <<now, blobs, metaFile, aliasFile, memory, acked>>

(* An access left behind comes to its end, at any time: no guard is held.  *)
Late(s) ==
    LET access == adrift[s]
    IN  /\ access.pc # "idle"
        /\ adrift' = [adrift EXCEPT ![s] = Idle]
        /\ blobs' \in CASE access.pc = "write_blob" -> {blobs \cup {access.hash}}
                        [] access.pc = "remove_blob" -> Removal(blobs, blobs \ {access.victim})
                        [] OTHER -> {blobs}
        /\ metaFile' \in
             CASE access.pc = "write_meta" -> {[metaFile EXCEPT ![access.hash] = access.meta]}
               [] access.pc = "remove_meta" ->
                    Removal(metaFile, [metaFile EXCEPT ![access.victim] = NoMeta])
               [] OTHER -> {metaFile}
        /\ aliasFile' \in
             CASE access.pc = "write_alias" -> {[aliasFile EXCEPT ![access.alias] = access.hash]}
               [] access.pc = "remove_alias" ->
                    Removal(aliasFile, [aliasFile EXCEPT ![access.alias] = None])
               [] OTHER -> {aliasFile}
        /\ UNCHANGED <<now, litter, memory, lock, task, acked>>

(* bootstrap_index: sidecars without a blob and aliases without a sidecar  *)
(* are deleted, the rest is indexed.                                       *)
CrashAndReopen ==
    LET found == [h \in Hashes |-> IF h \in blobs THEN metaFile[h] ELSE NoMeta]
        live(h) == h # None /\ found[h] # NoMeta
        aliases == [a \in Aliases |-> IF live(aliasFile[a]) THEN aliasFile[a] ELSE None]
    IN  /\ MayCrash
        /\ index' = found /\ aliasToHash' = aliases
        /\ metaFile' \in Removal(metaFile, found)
        /\ aliasFile' \in Removal(aliasFile, aliases)
        /\ byteCount' = Cardinality(Bytes({h \in Hashes : found[h] # NoMeta}))
        /\ litter' \in {litter, litter \/ \E t \in Tasks : task[t].pc \in Writes}
        /\ adrift' = [s \in Slots |-> Idle]
        /\ lock' = None
        /\ task' = [t \in Tasks |-> Idle]
        /\ UNCHANGED <<now, blobs, acked>>

-----------------------------------------------------------------------------
Starts(t) == Put(t) \/ Delete(t) \/ Get(t) \/ Sweep(t)

(* Steps that wait for the index's lock.                                   *)
Acquires(t) ==
    Insert(t) \/ InsertAlias(t) \/ Lookup(t) \/ Expire(t) \/ SweepListed(t)

Proceeds(t) ==
    \/ CheckBlob(t) \/ WriteBlob(t) \/ WriteMeta(t) \/ WriteAlias(t) \/ WriteFails(t)
    \/ EvictNext(t) \/ PutReturns(t)
    \/ Unindex(t) \/ RemoveBlob(t) \/ RemoveMeta(t)
    \/ UnmapAlias(t) \/ RemoveAlias(t) \/ Removed(t)
    \/ ReadBlob(t)

Next ==
    \/ \E t \in Tasks : Starts(t) \/ Acquires(t) \/ Proceeds(t) \/ Cancel(t)
    \/ \E s \in Slots : Late(s)
    \/ CrashAndReopen
    \/ Tick

Spec == Init /\ [][Next]_vars

(* The runtime runs every task that is ready; tokio's RwLock is fair, so a *)
(* task that waits for it is served.                                       *)
FairSpec ==
    Spec /\ \A t \in Tasks : WF_vars(Proceeds(t)) /\ SF_vars(Acquires(t))

-----------------------------------------------------------------------------
PutSteps == {"check_blob", "write_blob", "write_meta", "insert",
             "write_alias", "insert_alias", "evict"}
GetSteps == {"lookup", "read_blob", "expire"}
RemoveSteps == {"remove", "remove_blob", "remove_meta", "remove_aliases", "remove_alias"}

TaskStates ==
    [op : {"none", "put", "get", "delete", "sweep"},
     pc : {"idle", "sweep"} \cup PutSteps \cup GetSteps \cup RemoveSteps,
     hash : Hashes \cup {None}, alias : Aliases \cup {None},
     meta : Metas \cup {NoMeta}, doomed : SUBSET Hashes, victim : Hashes \cup {None}]

(* What an operation has at hand at each of its steps.                     *)
HasOperands(state) ==
    /\ state.pc \in PutSteps => state.op = "put"
    /\ state.op = "put" => state.hash \in Hashes /\ state.meta \in Metas
    /\ state.pc \in {"write_alias", "insert_alias", "remove_alias"} =>
        state.alias \in Aliases
    /\ state.pc \in GetSteps => state.hash \in Hashes
    /\ state.pc \in RemoveSteps \ {"remove"} => state.victim \in Hashes

TypeOK ==
    /\ now \in 1..LastInstant
    /\ blobs \subseteq Hashes /\ acked \subseteq Hashes
    /\ metaFile \in [Hashes -> Metas \cup {NoMeta}]
    /\ index \in [Hashes -> Metas \cup {NoMeta}]
    /\ aliasFile \in [Aliases -> Hashes \cup {None}]
    /\ aliasToHash \in [Aliases -> Hashes \cup {None}]
    /\ byteCount \in Nat /\ litter \in BOOLEAN
    /\ lock \in Tasks \cup {None}
    /\ task \in [Tasks -> TaskStates] /\ adrift \in [Slots -> TaskStates]
    /\ \A t \in Tasks : HasOperands(task[t])
    /\ \A s \in Slots : HasOperands(adrift[s]) /\
         adrift[s].pc \in {"idle"} \cup Writes \cup Removals

(* byte_count is the size of what is indexed: through replacement,         *)
(* eviction, expiry, the deletion of what is not indexed, and a reopening  *)
(* (content_store_fs.rs:187-188, 266-269, 369-375).                        *)
ByteCountExact == byteCount = Cardinality(Bytes(Indexed))

Quiet == \A t \in Tasks : At(t, "idle")

(* One caller at a time: between operations the disk says what the index   *)
(* says, whatever writes failed and wherever the process was last killed,  *)
(* so that reopening changes nothing (put, remove_one and bootstrap_index; *)
(* it needs removals that do not fail).                                    *)
DiskIsIndexWhenQuiet ==
    Quiet =>
        /\ metaFile = index /\ aliasFile = aliasToHash
        /\ Indexed \subseteq blobs
        /\ \A a \in Aliases : aliasToHash[a] # None => aliasToHash[a] \in Indexed

(* A put that has returned is not lost until its content is removed: it is *)
(* indexed and readable, also after a crash.  This is of operations that   *)
(* run to their end: a removal that a dropped delete or eviction has left  *)
(* behind may take the blob a later put found in place                     *)
(* (content_store_fs.rs:270, 358).                                         *)
AckedIsReadable == acked \subseteq Indexed \cap blobs

(* Nothing but puts on a store without a cap: writers that race on one     *)
(* content or one alias end with everything indexed on disk, and every     *)
(* alias leading to content, also when puts are dropped and their writes   *)
(* come late (content_store_fs.rs:21-26, "both alias files end up on       *)
(* disk").                                                                 *)
WritersAgree ==
    /\ AckedIsReadable
    /\ \A h \in Indexed : h \in blobs /\ metaFile[h] # NoMeta
    /\ \A a \in Aliases : aliasToHash[a] # None =>
        aliasToHash[a] \in Indexed /\ aliasFile[a] # None

(* Every operation ends: nobody waits for a guard that is never dropped.   *)
OperationsEnd == \A t \in Tasks : ~At(t, "idle") ~> At(t, "idle")

-----------------------------------------------------------------------------
(* What the documentation says of the store.                               *)

(* content_store_fs.rs:265: "the index is the source of truth for live     *)
(* state", so what it lists can be read when nobody holds its guard.       *)
IndexedIsReadable == Unlocked => Indexed \subseteq blobs

=============================================================================
