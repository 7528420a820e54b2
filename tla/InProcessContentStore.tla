------------------------- MODULE InProcessContentStore -------------------------
(***************************************************************************)
(* InProcessContentStore (src/content_store.rs): content-addressed blobs   *)
(* in an LruCache under a byte cap and a cap on its entries, with aliases  *)
(* beside them, behind one RwLock that every operation takes for writing.  *)
(*                                                                         *)
(* An operation is one step where it holds the lock.  put and              *)
(* sweep_expired read the clock before they have it: that is a step of its *)
(* own, and what they took from the clock may be old by then.              *)
(***************************************************************************)
EXTENDS LruMap

CONSTANTS
    Tasks,          \* the callers' tasks
    Hashes,         \* contents, by hash
    Size,           \* their sizes in bytes
    Aliases,        \* alias ids, each with its session
    MaxBytes,       \* 0: no cap
    EntryCap,       \* how many entries LruCache::new gives the map
    LastInstant,    \* bound: the wall clock stops here
    None            \* no hash, no alias

ASSUME StoreAssumption ==
    /\ IsFiniteSet(Hashes) /\ Size \in [Hashes -> Nat]
    /\ MaxBytes \in Nat /\ EntryCap \in Nat \ {0} /\ LastInstant \in Nat \ {0}
    /\ Hashes \cap Aliases = {} /\ None \notin Hashes \cup Aliases

VARIABLES
    now,            \* Utc::now()
    expiresAt,      \* Inner::by_hash: Entry::expires_at of what it holds,
    order,          \* and in what order it was used
    aliasToHash,    \* Inner::alias_to_hash
    byteCount,      \* Inner::byte_count
    task,           \* what each task brings to the lock
    overflowed,     \* history: the bytes of all that the full map dropped
    wanted,         \* history: what was put or read, neither deleted nor
                    \* expired since, and fits with all that was used since
                    \* and with what overflowed
    since           \* history: what was used since each of those was

inner == <<expiresAt, order, aliasToHash, byteCount>>
history == <<overflowed, wanted, since>>
vars == <<now, inner, task, history>>

Absent == 0
Never == LastInstant + 2
Instants == 1..LastInstant

Idle == [pc |-> "idle", hash |-> None, alias |-> None, at |-> 0]

Present == {h \in Hashes : expiresAt[h] # Absent}

Init ==
    /\ now = 1
    /\ expiresAt = [h \in Hashes |-> Absent]
    /\ order = {}
    /\ aliasToHash = [a \in Aliases |-> None]
    /\ byteCount = 0
    /\ task = [t \in Tasks |-> Idle]
    /\ overflowed = 0 /\ wanted = {} /\ since = [h \in Hashes |-> {}]

-----------------------------------------------------------------------------
At(t, pc) == task[t].pc = pc

Tick ==
    /\ now < LastInstant
    /\ now' = now + 1
    /\ UNCHANGED <<inner, task, history>>

(* resolve_to_hash                                                         *)
Resolve(id) == IF id \in Aliases THEN aliasToHash[id] ELSE id

(* Contents that the map has room for, entries and bytes, when the byte    *)
(* count is too high by so much.                                           *)
Fit(hashes, excess) ==
    /\ Cardinality(hashes) <= EntryCap
    /\ MaxBytes = 0 \/ Weight(Size, hashes) + excess <= MaxBytes

(* History: a content is used, or some are no longer wanted.  What does not *)
(* fit with all that was used since is not wanted either: it may be gone.  *)
Uses(h) ==
    LET used == [g \in Hashes |-> IF g \in wanted \ {h} THEN since[g] \cup {h} ELSE {}]
    IN  /\ wanted' = {g \in wanted \cup {h} : Fit(used[g] \cup {g}, overflowed')}
        /\ since' = [g \in Hashes |-> IF g \in wanted' THEN used[g] ELSE {}]

Forgets(gone) ==
    /\ wanted' = wanted \ gone
    /\ since' = [g \in Hashes |-> IF g \in gone THEN {} ELSE since[g]]
    /\ UNCHANGED overflowed

(* Mutant: what leaves the map stays counted.                              *)
DropsUncounted(gone) ==
    /\ expiresAt' = [h \in Hashes |-> IF h \in gone THEN Absent ELSE expiresAt[h]]
    /\ order' = Kept(order, Present \ gone)
    /\ UNCHANGED byteCount
    /\ Forgets(gone)

(* by_hash.pop and the byte count, for each of some contents.              *)
Drops(gone) ==
    /\ expiresAt' = [h \in Hashes |-> IF h \in gone THEN Absent ELSE expiresAt[h]]
    /\ order' = Kept(order, Present \ gone)
    /\ byteCount' = SaturatingSub(byteCount, Weight(Size, gone \cap Present))
    /\ Forgets(gone)

-----------------------------------------------------------------------------
(* put: content over the cap is refused; the clock is read.                *)
Accepts(h) == MaxBytes = 0 \/ Size[h] <= MaxBytes

Offer(t, h, a, e) ==
    /\ At(t, "idle") /\ Accepts(h)
    /\ task' = [task EXCEPT ![t] = [pc |-> "put", hash |-> h, alias |-> a, at |-> e]]
    /\ UNCHANGED <<now, inner, history>>

Put(t) ==
    \E h \in Hashes, a \in Aliases \cup {None}, e \in {now + 1, Never} : Offer(t, h, a, e)

(* Under the lock: replace, or insert, and what the full map drops for it  *)
(* stays counted; redirect the alias, evict.                               *)
Insert(t) ==
    LET h == task[t].hash
        a == task[t].alias
        lost == Overflow(order, Present, h, EntryCap)
        keys == (Present \ lost) \cup {h}
        used == Touched(order, keys, h)
        prior == IF h \in Present THEN Size[h] ELSE 0
        bytes == SaturatingSub(byteCount, prior) + Size[h]
        victims == Victims(used, keys, Size, bytes, MaxBytes)
    IN  /\ At(t, "put")
        /\ expiresAt' = [g \in Hashes |->
                            IF g \in victims \cup lost THEN Absent
                            ELSE IF g = h THEN task[t].at ELSE expiresAt[g]]
        /\ order' = Kept(used, keys \ victims)
        /\ byteCount' = SaturatingSub(bytes, Weight(Size, victims))
        /\ aliasToHash' = [b \in Aliases |-> IF b = a THEN h ELSE aliasToHash[b]]
        /\ task' = [task EXCEPT ![t] = Idle]
        /\ overflowed' = overflowed + Weight(Size, lost)
        /\ Uses(h)
        /\ UNCHANGED now

(* Mutant: a read does not count as use.                                   *)
ServePeeking(h) == UNCHANGED <<inner, overflowed>> /\ Uses(h)

Serve(h) ==
    /\ order' = Touched(order, Present, h)
    /\ UNCHANGED <<expiresAt, aliasToHash, byteCount, overflowed>>
    /\ Uses(h)

(* get: an entry that has expired is dropped, its aliases stay; one that   *)
(* has not is served and becomes the most recently used.                   *)
Get ==
    /\ \E h \in {Resolve(id) : id \in Hashes \cup Aliases} \cap Present :
        \/ expiresAt[h] > now /\ Serve(h)
        \/ expiresAt[h] <= now /\ Drops({h}) /\ UNCHANGED aliasToHash
    /\ UNCHANGED <<now, task>>

(* delete: an id that resolves to nothing is no error; aliases of what is  *)
(* no longer there are reaped too.                                         *)
Delete ==
    /\ \E h \in {Resolve(id) : id \in Hashes \cup Aliases} \ {None} :
        /\ Drops({h})
        /\ aliasToHash' = [a \in Aliases |-> IF aliasToHash[a] = h THEN None ELSE aliasToHash[a]]
    /\ UNCHANGED <<now, task>>

Sweep(t) ==
    /\ At(t, "idle")
    /\ task' = [task EXCEPT ![t] = [Idle EXCEPT !.pc = "sweep", !.at = now]]
    /\ UNCHANGED <<now, inner, history>>

(* Under the lock: what had expired by then, and every alias that leads    *)
(* nowhere.                                                                *)
SweepExpired(t) ==
    LET gone == {h \in Present : expiresAt[h] <= task[t].at}
        live(h) == h \in Present \ gone
    IN  /\ At(t, "sweep")
        /\ Drops(gone)
        /\ aliasToHash' = [a \in Aliases |-> IF live(aliasToHash[a]) THEN aliasToHash[a] ELSE None]
        /\ task' = [task EXCEPT ![t] = Idle]
        /\ UNCHANGED now

(* A caller drops the future while it waits for the lock.                  *)
Cancel(t) ==
    /\ ~At(t, "idle")
    /\ task' = [task EXCEPT ![t] = Idle]
    /\ UNCHANGED <<now, inner, history>>

TaskStep(t) == Put(t) \/ Insert(t) \/ Sweep(t) \/ SweepExpired(t) \/ Cancel(t)

Next ==
    \/ \E t \in Tasks : TaskStep(t)
    \/ Get \/ Delete
    \/ Tick

Spec == Init /\ [][Next]_vars

-----------------------------------------------------------------------------
Expiries == 1..(LastInstant + 1) \cup {Never}

TypeOK ==
    /\ now \in Instants
    /\ expiresAt \in [Hashes -> Expiries \cup {Absent}]
    /\ OrderOf(order, Present) /\ Cardinality(Present) <= EntryCap
    /\ aliasToHash \in [Aliases -> Hashes \cup {None}]
    /\ byteCount \in Nat
    /\ task \in [Tasks -> [pc : {"idle", "put", "sweep"}, hash : Hashes \cup {None},
                          alias : Aliases \cup {None}, at : Expiries \cup {Absent}]]
    /\ \A t \in Tasks : At(t, "put") => task[t].hash \in Hashes /\ task[t].at \in Expiries
    /\ overflowed \in Nat /\ wanted \subseteq Hashes /\ since \in [Hashes -> SUBSET Hashes]

(* The byte count, kept up to date by saturating additions and             *)
(* subtractions in five places, is the size of what the map holds and of   *)
(* all that the map ever dropped because it was full, nothing else, and    *)
(* within the cap (content_store.rs:120, 131-141, 193-197, 241-242,        *)
(* 261-263, 305-309).                                                      *)
ByteCountExact ==
    /\ byteCount = Weight(Size, Present) + overflowed
    /\ MaxBytes > 0 => byteCount <= MaxBytes

(* What least-recently-used promises: a content stays readable as long as  *)
(* it fits, together with all that was put or read since it was last put   *)
(* or read itself, in the entries of the map and in what the drift of the  *)
(* byte count leaves of the cap.  Nobody loses a content earlier because   *)
(* others were deleted, expired, replaced or evicted in between            *)
(* (content_store.rs:120, 131-141, 230-233).                               *)
KeptWhileItFits == wanted \subseteq Present

=============================================================================
