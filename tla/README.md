# A verification project for mcpg-backend-llm-shared

TLA+ models of the crate in `src/`, TLC configurations that check them on small
instances, and TLAPS proofs of what matters most. Paths are those of the
repository; `engine.rs:151` is line 151 of `src/engine.rs`.

## The system

The crate is the part that the gateway's LLM backends share. A provider crate
supplies an *adapter* (the wire format of one API); the gateway supplies a
*host* (tool dispatch, response cache, content store). Between the two stand
engines, one per kind of call. An engine keeps no state of its own: what calls
share is the process-wide ledger of `budget.rs` and what lies behind the host.

| Component | State | Operations | Talks to |
|---|---|---|---|
| Daily ledger, `budget.rs` | `LEDGER`: a row (day, usd) per binding, under a mutex | `current_daily_usd`, `record_cost`; each reads the clock, then takes the mutex | called by the chat engine at the start and the end of a call |
| Chat engine, `engine.rs` `execute*` | locals of a call: messages, iteration, attempt, totals | render, gate, cache lookup, prefetch, loop of request and tools, exhausted policy, validation, correction, record, cache write | adapter, host, ledger |
| Streaming chat engine, `engine.rs` `stream` | locals of a task, a bounded channel to the host | the same loop without gate, cache and correction; chunks as they come | adapter (a channel of events), host (a channel of chunks) |
| Adapter contract, `adapter.rs`, `streaming.rs` | none | `chat_completion`, `stream_chat_completion` and its default | implemented by other crates |
| Filesystem content store, `content_store_fs.rs` | blob, meta and alias files; an index of them under an `RwLock` | `put`, `get`, `delete`, `sweep_expired`, eviction, `bootstrap_index` | behind the host |
| In-process content store, `content_store.rs` | an `LruCache` of blobs, aliases, a byte count, under an `RwLock` | the same, in memory | behind the host |
| Response cache, `cache.rs` | an `LruCache` of bytes with deadlines, a byte count, under an `RwLock` | `get`, `put`, `invalidate`; `CacheKey` | behind the host, used by the chat and embedding engines |
| Embedding engine, `embedding_engine.rs` | locals of a call: the futures of its batches | cache lookup, fan-out, retry per batch, reassembly, cache write | adapter, host |
| Image and speech engines, `image_engine.rs`, `audio_engine.rs` | locals of a call | generate or synthesize with retry, store one by one, answer with URIs; resolve an argument and transcribe | adapter, host (content store) |
| Multimodal resolution, `multimodal.rs` and `parse_images` and its like in `engine.rs` | none | reads arguments into parts; a walk that awaits the store at each part and turns references into bytes | host (content store) |
| Rate card, `cost.rs` | none | finds an entry, prices what a call used | the engines |
| Specs, `chat_config.rs` and the other `*_config.rs` | none | defaults, `validate` | the engines |
| SSE framing, `sse.rs` | none | where an event ends in a buffer | the provider crates |
| Templates and keys: `template.rs`, `secret.rs` | none | pure functions | the engines and adapters |

What is hard here, and what has to be right:

* **Gate and ledger.** The cap is checked before a call and the cost recorded
  after it; calls overlap, and the clock is read before the mutex is taken. By
  how much can the cap be overshot, and can a total fall within a day?
* **Chat loop.** Retries inside iterations inside a correction; tools that are
  denied; two budgets; a cache that other calls write. The conversation must
  stay well formed, requests bounded, no answer that failed its schema may be
  delivered or cached, what is billed must be what was used, every call ends.
* **Streaming.** Three tasks (adapter, engine, host) on two bounded channels; any
  of them may leave. Chunks keep their order, the answer is what was streamed,
  tools do not run behind the host's back, the stream ends.
* **Filesystem store.** Three files and an index, written in several steps of which
  only some hold the lock; crashes, cancelled futures, failing disk accesses.
  The byte count must not drift, acknowledged content must stay readable, disk
  and index must agree when nothing is going on, nobody may wait for ever.
* **LRU maps.** A byte count and an order kept by hand over put, replacement, expiry,
  deletion and eviction, with clocks read before the lock.
* **Embeddings.** Batches answered and retried in any order, some short or long; the
  vectors must be those of the inputs, in their order, from the cache too.
* **Media.** A provider is paid, and then what it made is stored piece by piece into
  a store that evicts; what arguments name is fetched piece by piece from a store
  that others write. An answer must name everything, nothing may be paid twice, and
  the provider must be asked about what the arguments named.
* **Numbers.** Totals in 64 bits priced in 32, a shift by the number of attempts,
  prices per million tokens, limits where zero means none.

`PROJECT.json` lists each hazard at its line with the properties aimed at it.

## Modules

| Module | Models | Notes |
|---|---|---|
| `DailyLedger` | `budget.rs` | one binding's row; the date is an argument because callers read the clock earlier |
| `BudgetGate` | `usd_daily_cap` as an abstract specification | EXTENDS `DailyLedger`; everything between gate and record is the phase `calling` |
| `BudgetGateProofs` | | theorems about `BudgetGate` |
| `ExecutionSpecs` | defaults and `validate` of the five specs | the engines' modules assume of their constants that `validate` let them through |
| `RateCard` | `cost.rs` | operators |
| `ChatEngine` | `execute_with_usage` and what it awaits | EXTENDS `DailyLedger`, `ExecutionSpecs`, `RateCard`; implements `BudgetGate` (`ImplementsGate`) |
| `ChatEngineProofs` | | theorems about `ChatEngine`, the refinement among them, and about `RateCard`'s prices |
| `ChunkStream` | the documented order of chunks | abstract |
| `ChatStream`, `ChatStreamProofs` | `run_streaming`, the default adapter, the host | shown and proved to implement `ChunkStream` |
| `SseFraming` | `sse.rs` and the loop its comments ask for | operators, checked by `MCChatStream` |
| `FsContentStore`, `FsContentStoreProofs` | `content_store_fs.rs` | theorems in the second |
| `LruMap`, `LruMapProofs` | `lru::LruCache` under a byte cap, `evict_to_fit` | operators only, shared by the next two |
| `InProcessContentStore`, `InProcessContentStoreProofs` | `content_store.rs` | |
| `LruResponseCache` | `cache.rs` | operations without a `Next`: a user composes them |
| `EmbeddingEngine`, `EmbeddingEngineProofs` | `embedding_engine.rs` | EXTENDS `LruResponseCache` and runs over it |
| `MediaInputs` | how arguments are read into parts, what magic bytes say | operators |
| `MediaEngine`, `MediaEngineProofs` | `image_engine.rs`, `audio_engine.rs`, `multimodal.rs` | EXTENDS `InProcessContentStore` and runs over it, beside its other users |
| `RetryBackoff` | how long the engines wait | operators, checked by `MCMediaEngine` |
| `MC...` | instances for TLC | |

A call or a task is a record of its locals with a `pc`. An action is the code
between two awaits, or between two looks at something shared. Each module keeps,
before some definitions, the form a plausible bug would give them, marked
*Mutant*: no specification uses them, they show that the properties can fail.

**DailyLedger, BudgetGate.** `row` is the binding's entry, `today` the UTC date;
`billed` is history. `Arrive` reads the clock, `Admit` and `Refuse` take the
mutex; `Succeed` reads the clock again and `Record` takes the mutex. An absent
row is one of day 0. Costs are integers.

**ChatEngine.** `call[c].pc` goes through `gate`, `lookup`, `prefetch`, `request`,
`backoff`, `dispatch`, `conclude`, `record`, `store`. `LoopReply` is everything
from a response to the next await: totals, token cap, the end of the loop, or
the assistant's turn. `Dispatch` is one tool call, and after the last the next
iteration. `Exhausted`, `Accept`, `Reject`, `Correct` are what follows the loop,
`CorrectiveReply` the answer to a correction. `Abandon` is a dropped future, or
the panic of `String::truncate` inside a character (engine.rs:1118). Arguments are
the system and the user text that they render to, as characters, and their media;
`CacheKey` is the two texts with a `Nul` between them, as `CacheKey::for_chat` hashes
them (cache.rs:70-75; the rest of the digest is the same for a binding). An answer is
`valid`, `mismatch` or `not_json`, because validation tells no more apart. The
policy `return_raw` may be given in text mode only (chat_config.rs:100-108), where
nothing is a mismatch. `Cost` finds the card's entry and prices the totals, cut
off at `MaxU32`; the totals are input tokens, at up to a dollar each. `sent` and
`charged` are history.

**ChatStream.** `run` is the engine's task, `script` what the adapter has still to
send, `events` the adapter's channel, `unread` how much of the host's channel is
taken, `sent` everything that went into it, `gone` that the host has dropped it.
`Send` waits for room, and ends the task when nobody listens. The adapter is
`native` (sends beside the engine) or `default` (fills its channel, then hands
it over). Metrics are left out. The binding is chosen at `Begin`. What a host makes of
the chunks is a recursive function over them, `Heard`: the text since the last
boundary, the usage, the tools that were announced.

**FsContentStore.** `blobs`, `metaFile`, `aliasFile` are the disk, `index`,
`aliasToHash`, `byteCount` the memory, `lock` the write guard. `put` is split at
each disk access and each acquisition: `Put`, `CheckBlob`, `WriteBlob`,
`WriteMeta`, `Insert`, `WriteAlias`, `InsertAlias`, `EvictNext`, `PutReturns`;
`remove_one` is, under the guard, `Unindex`, `RemoveBlob`, `RemoveMeta`, then
`UnmapAlias` and `RemoveAlias` for one alias after the other, and `Removed`.
`get` looks twice and takes the write guard when it finds an expired entry.
`CrashAndReopen` drops every task and runs `bootstrap_index`. A write is whole or
not at all (temporary file, rename); `litter` says that a temporary file may
have stayed. A future may be dropped wherever it awaits (`Cancel`), and the access it
awaits is with the blocking pool by then and goes on without it: `adrift` holds such
accesses, `Late` is the end of one, at any later time and without the guard. A removal
is one access and always goes adrift; a write is several, of which the last, the
rename, is the one that shows. There is room for as many as `Slots`. A crash ends them.
The clock advances with every put, so no two share a `stored_at`.

**LruMap.** The order of use is a relation, the pairs of a colder and a warmer key, so
that what it is about can be proved without an induction. What `evict_to_fit`
takes (`Victims`) is defined outright, as the keys without whose colder ones the count
is still over the cap: that what it leaves fits, and that what it takes had to go, is
what `LruMapProofs` is about. `Overflow` is the map's own doing: `LruCache::put` of a
new key on a full map drops the coldest entry and tells nobody.

**InProcessContentStore, LruResponseCache.** A critical section is one step. In the
store, `put` and `sweep_expired` read the clock before they have the lock and
may be overtaken (`Put`/`Insert`, `Sweep`/`SweepExpired`); in the cache the
clock is read under the lock. Both maps have a cap on entries, a million in the code
(content_store.rs:120, cache.rs:231) and `EntryCap` and `CacheEntryCap` here. What they
drop for it stays in the byte count; `overflowed` and `cacheOverflowed`, history, add
it up. `wanted` and `since` are history as well: `wanted` is what was put or read, not
deleted or expired since, and still fits together with `since[h]`, all that was used
after it was, in the map's entries and in the cap less what has overflowed. Hit and
miss counters and the rest of an entry's metadata are left out.

**EmbeddingEngine.** A batch is a record of its own, `asking`, `backoff`, `answered`
or `failed`; `Take` takes the next result in the order of the batches. Its size
is the smaller of the spec's and the adapter's. A vector is the text it embeds
and the dimensions that the response it came in *states*, which is all that the code
compares (embedding_engine.rs:178-187); nobody counts the numbers in a vector. The
provider may answer one vector too few or too many and state any dimensions, 0 among
them; `exact` is history. A key is the joined texts; the
rest of the digest is the same for all calls of a binding. A cached value that
is no JSON cannot be in this cache and is left out. Usage, cost and metrics are
left out.

**MediaInputs, MediaEngine.** A JSON value is what it says (a scheme, an object's
keys) and the content it says it of; `Forms` lists, for each kind of argument,
what the code looks for and in which order. A call begins (`GenerateImages`,
`Synthesize`, `Transcribe`, `Chat`, `Refuse`), fetches what its parts name
(`Fetch`: one `get`, one step; `FetchFails`), asks with retries, and stores what
was made: `Store` reads the clock, `Stored` is the critical section. A caller is
a task of the store, so everything the store's other tasks do happens in
between. `given`, `made` and `paid` are history. The chat's walk stands for
itself here and is one step in `ChatEngine`; the tool loop need not be repeated,
as the walk is over before it begins (engine.rs:207-214).

**ExecutionSpecs, RateCard, RetryBackoff, SseFraming.** Operators. A spec is a record
of what a default or a check is about; an optional field is a set. Names of
providers are compared as the code does, regardless of spelling. The backoff has
words of `Width` bits instead of 64. A wire is a sequence of bytes, and `Parse`
takes one event after the other, as the comments in `sse.rs` ask of the callers.

## Runs

| Run | Instance | Shows |
|---|---|---|
| `budget_gate` | 3 callers, 2 days, cap 2, cost 0 to 2 | no overcount; the overshoot is below one call per caller; when the total falls |
| `chat_tools` | 1 caller, 3 iterations, 2 attempts, allowed and denied tools, partials, a correction, both budgets, a card of 3 entries, 2 days | conversation, bound on requests, valid answers, billing, the gate, termination |
| `chat_shared` | 2 callers, shared cache and ledger, no tools, 1 attempt, cap 1; a system text `a` and a user text `b`, the same characters cut elsewhere (`ab` and nothing), and two pairs of texts whose NULs give them one key | a hit answers the system and user text asked, if they have no NUL; only valid answers are cached; the gate for overlapping calls |
| `stream_chunks` | 3 bindings, 7 scripts, both adapters, host may leave | order of chunks, the answer is the stream, tools, termination; the assumptions of `MCChatStream`: `EventsComeOut`, `MixedFramingsMerge` |
| `fs_alone` | 1 task, all operations, 3 contents, 2 aliases, cap 3, crashes, failing writes | byte count; disk is index when quiet; acknowledged content is readable |
| `fs_writers` | 2 tasks, puts, 2 contents, 2 aliases, crashes, cancellation, 2 late writes at once | writers agree; every put ends |
| `store_lru` | a caller of the media engines and one other task, 3 contents of 1 to 3 bytes, 1 alias, cap 4, a map of 2 entries, inputs of up to 2 bytes, 2 attempts | byte count; what fits is kept; the provider sees the inputs, is paid once, the answer is complete; the assumptions of `MCMediaEngine`: `DefaultsAreValid`, `RecordingsReadAlike`, `ChatBackoffGrows`, `BackoffStartsOver` |
| `embed_batches` | 1 caller, up to 3 texts in batches of 2, 2 attempts, stated dimensions 0 to 2, cache of 2 bytes and 2 entries | one vector per input, of that input, with the dimensions the answer states; the cache's bytes; termination |
| `stream_default_adapter` | default adapter, capacity 2, answers of 3 events | *violated:* a stream that never ends |
| `chat_cached_inputs` | a text with and without a picture | *violated:* the cached answer is to other inputs |
| `fs_index_truth` | 2 tasks, put against delete | *violated:* an indexed content without a blob |
| `embed_key` | two texts, and one with the joiner | *violated:* two vectors for one input |

Why these bounds are enough. The ledger has one row, and a late stamp needs one
midnight; three callers are one at the gate, one between, one late. In the chat
engine calls meet at the ledger and the cache only, both atomic, so everything
inside a call is checked with one caller and what is shared with two; three
iterations are a first, a middle and a last, two attempts a retry that works and
one that does not. Channels of one to three events stand for eight and more: what
matters is whether an answer fits. In the stores, contents of 1, 2 and 3 bytes
under caps of 3 or 4 make evictions of none, one and two entries; two entries in a map
of the LRU stores make the third key overflow it before or instead of the byte cap; two aliases
can share a content or swap; two tasks are a race, and the proofs are for any
number. In `store_lru` the caller's own steps, another task's puts and sweeps, and anyone's
reads, deletions and ticks interleave; answers of no, one and two images, the same
twice, and one that fits only alone; an alias that can be redirected while the walk
waits; a content over the limit, one without a type. Words of 5 bits in the backoff
put the overflow at the sixth attempt, wires of two events of up to three bytes are
cut at every place. In the embedding engine a call meets others only in the cache,
whose operations are atomic: one caller and `CacheInvalidate` at any moment is what
another would do to it. Two slots for late accesses let one be overtaken by another;
the theorems are for any number. Dimensions of 0, 1 and 2 are one not stated and two
that differ; characters `a`, `b` and a NUL are enough to cut one string in two ways
and to collide. `LastDay`, `LastInstant`, `Slots`, `MaxTokens`, `MaxCost`, a dollar
a token as the highest price (`SpecValid`) and the width of a word are the only
bounds that are not in the code; each is named where it is declared.

**Fairness.** `ChatEngine`, `EmbeddingEngine`: weak fairness of each call's
`Progress`, because the runtime polls a task that is ready, every request has a
timeout, a sleep ends, and the host's calls are taken to return. `ChatStream`:
the same for the engine's task, the adapter and a host that reads as long as it
stays; the host need not stay. `FsContentStore`: weak fairness of disk steps, and
strong fairness of taking the lock, because tokio's `RwLock` is fair. New calls,
midnights, ticks, crashes, cancellations and late accesses are never obliged to happen.
For the media engines no liveness is stated: a call has a bounded number of parts,
attempts and images and no loop, so it ends where each of its awaits does.
`CallsEnd`, `StreamEnds` and `OperationsEnd` are not proved: liveness is TLC's.

Deadlock is checked everywhere but in `stream_default_adapter`, which is about a
system that stops.

## What is proved

For every number of callers, any cap and any costs (assumption
`BudgetAssumption`: a finite set of callers, natural numbers), `BudgetGateProofs`:

* `TypeCorrect`, `StampsCorrect`: types; no date in the future. The two are proved
  together (`TypesAndDates`), as `Record` writes `billed` at a caller's date.
* `LedgerNeverOvercounts`: the row never exceeds what was recorded for its day.
* `ReserveHolds`, `Overshoot`: `OvershootBounded` alone is not inductive, for a
  caller past the gate may add to any total. `OvershootReserve` sets one call's
  cost aside for each *exposed* caller: past the gate with a date not after the
  row's, or still at the gate with an earlier one. `Admit` exposes a caller only
  when the total is below the cap; `Record` turns a reserve into spend; a row
  restarted for an earlier date exposes again those with later ones, and is
  bounded by the cost of one call. The lemmas `ExposedSize`, `AllowanceMonotone`
  and `ReserveKept` do the counting.
* `OnlyLateStampsReset`: the action property from the types alone.

For every number of tasks, contents, sizes, aliases and any cap (assumption
`StoreAssumption`), with or without crashes, cancellation and removals that fail,
`FsContentStoreProofs`:

* `StoreTypeCorrect`: types, with what an operation has at hand at each step.
* `ByteCountIsExact`: `IInv == TypeOK /\ ByteCountExact` is inductive. The size of a
  set of contents is the cardinality of a set of bytes, so that `FS_`-lemmas of
  the library replace an induction over data. Three actions matter: `Insert`
  (replaces or adds), `Unindex` (takes off what is there, nothing otherwise),
  `CrashAndReopen` (counts anew). Late accesses touch the disk only.
* `AckedStaysReadable`, for one caller at a time (`OneCaller`) whose operations run
  to their end (`MayCancel = FALSE`): a put that returned is readable until its
  content is removed. Cancellation has to be excluded: a `delete` dropped while it
  awaits the removal of a blob leaves that removal with the blocking pool, the next
  `put` finds the blob in place, is acknowledged, and loses it
  (content_store_fs.rs:270, 358). With cancellation off, nothing is ever adrift
  (`Settled`). `AckInv` says that what was acknowledged is indexed, that every indexed
  content has its blob and its record on disk (`Backed`), that every date is of the
  past (`Stamps`), and that the content a put is storing is newer than every other,
  which makes it the last its own eviction comes to, and is written before it is
  indexed (`PutKeeps`). `fs_index_truth` shows that two callers lose it.
* `DiskIsTheIndex`, for one caller whose operations run to their end on a disk that
  removes what it is told to (`OneCaller`, `Faultless`; writes may fail and the
  process may be killed): what the disk says is what the index says but for the
  operation under way, `DiskInv`. The hypotheses are those of `fs_alone`: a cancelled
  put or a file that stays is exactly how the two part.
* `WritersAlwaysAgree`, for any number of writers that remove nothing (`OnlyPuts`):
  `WritersInv` adds to the property what each writer has already written (`Written`);
  puts may be dropped, and what they leave behind are only ever writes
  (`WritesAdrift`), which come late and add to the disk.

For every number of calls in flight, any arguments, responses, tools, policies,
prices up to a dollar a token, caps and limits (assumptions `SpecValid`: what
`validate` lets through, and `ResponseShape`), `ChatEngineProofs`:

* `EngineTypeCorrect`, `RequestsAddUp`, `BillingIsOfTheLoop`, `OnlyValidIsDelivered`,
  `AnswersAreToTheText`, all from the inductive invariant `ChatInv`. `SentBounded`
  is not inductive: a call in its second iteration may have sent all that
  `MaxIterations` allow. `Counted` bounds requests and tokens by the *rounds* begun
  (`Rounds`, by `pc` and iteration) and the attempts of the round under way
  (`Retried`). Likewise `Truthful` speaks of a value from the moment it is settled
  to the moment it is delivered, and `CacheFits` of the shared cache: each relies
  on the other. `Sends` and `Uses` keep the products opaque to the arithmetic.
  `AnswersAreToTheText` is of texts without a NUL: in a key that begins with such a
  text, the text ends at the first NUL (`CutOnce`), so that a key tells both texts
  (`KeyTellsTexts`), also from texts that do hold one. `NulsCollide` shows that the
  hypothesis is needed.
* `ConversationsAreWellFormed`: `TalkInv` adds what the property cannot say, that
  between two tool calls the last turn is answered up to the end of the messages
  and what it still lacks is exactly what is pending (`Answering`).
* `EngineImplementsGate`: every step of a call is a step of the gate or unseen by
  it. That a cost is within the gate's `MaxCost` follows from the bound on tokens
  in `ChatInv` and from `CostBounded`. What is proved of `BudgetGate` holds of the
  engine by it.

For any keys and sizes, `LruMapProofs`: `WhatStaysFits` and `WhatGoesHadTo`, that
what `evict_to_fit` leaves is within the cap and that nothing goes that would fit with
all that is warmer; `RoomIsMade`, that a full map has room for one more key after it
has dropped its coldest.

For every rate card entry, in `ChatEngineProofs` as well: `PricedOnceForAll`, pricing
the sum of what the requests used is pricing them one by one, as long as no provider
reports more cached tokens than tokens, and `CutOffNeverOverbills`.

For whatever a provider sends, any bindings, schema and channels (assumptions
`StreamAssumption`: the events' kinds, token counts that are natural numbers; and
`SpecValid`), `ChatStreamProofs`, from the inductive invariant `StreamInv`. The engine
mostly stands at `send`, a chunk in hand, so its parts speak of where it will be when
the chunk is in (`Position`) and of the stream with it (`Outbox`):

* `TypeCorrect`: `Typed` adds the types of the locals to `TypeOK`.
* `RequestsCarryTheResults`: `Conversing`, either every turn is answered, one for each
  iteration (`Settled`), or the last is answered up to the end of the messages and
  what it lacks is what is still to be invoked (`Answering`).
* `ChunksComeInOrder`: every step is one of `ChunkStream` or leaves the stream alone.
  `Streaming` says for every place in the loop what the stream must have come to
  there (`Streamed`) and that the chunk in hand may follow (`Fitting`): a tool's
  result because the last chunk announced it, a boundary because its turn had calls,
  each of which ended in a result. It is stated as long as the host listens; after
  that nothing is sent.
* `AnswersAreTheStream`, `OnlyValidIsStreamed`: `Streamed` keeps `run.content` and
  `run.tokens` equal to what a host has heard; `AnswersFit` follows an answer from
  `validate_accumulated` into the stream.
* `NoToolUnannounced`: `Telling`, the tools announced are those dispatched, or one
  more, on the way to being dispatched.

`Heard` is recursive. That the recursion defines a function, and that one more chunk is
one more step of it (`HeardNext`), is proved without an induction theorem: of the
numbers of chunks for which it fails there would be a least (`LeastOf`), and that one
follows from the one before. `FlattenedIsSeq` does the same for `FlattenSeq` below.

For any tasks, contents, sizes, aliases and caps on bytes and entries,
`InProcessContentStoreProofs`: `ContentStoreTypeCorrect`; `StoreBytesAreExact`, that the
byte count is what the map holds *and all that the full map ever dropped*;
`LeastRecentlyUsedIsKept`, that a content is kept while it fits in the map's entries and
in what that drift leaves of the cap. `KeptWhileItFits` needs to know what is warmer
than a content: `WarmerIsSince`, only what was used since, is the missing conjunct of
`StoreInv`. Of a store in which no more than `EntryCap` contents ever are, the two say
what the comments in the code say.

For any callers, arguments, answers and attempts over that store (assumption
`MediaAssumption`: arguments are values that say something of a content),
`MediaEngineProofs`:

* `EnginesUseTheStore`: `MediaSpec` implements `InProcessContentStore`'s `Spec`, so
  that the three theorems hold with the engines at work.
* `CallsPayOnce`; `AnswersAreComplete`, with the invariant that what is stored, in
  storing and not yet stored is what was made.
* `MediaTypeCorrect`; `ProviderIsAskedAboutTheInputs`: `WalkInv` says of a walk under
  way that its parts stand for the parts of the arguments one by one (`Aligned`), that
  those before the present one carry the bytes of what they named and are within the
  limit (`Settled`, `Checked`) and that the caller's task in the store is the fetch the
  walk is waiting for (`TaskFollows`), while other tasks put, redirect and evict.

For any callers, requests, batch sizes, caps and ttl (assumption `EmbeddingAssumption`),
`EmbeddingEngineProofs`:

* `CacheIsExact`, with the same drift as in the store; and `VectorPerInput`, under
  the hypothesis `KeysTellApart` that no two requests of different lengths share a
  key. `embed_key` violates `OneVectorPerInput` where the hypothesis fails: it is
  needed, and nothing else is.
* `TypeCorrect`, and `DimensionsAgree` without any hypothesis: what is in the cache was
  once an answer, and the responses of an answer have all been compared with the first
  that stated any dimensions (`StatedAs`).
* `InTheInputsOrder`, under `KeysAreRequests` (no two requests share a key, or nothing
  is cached): `AnswerInv` says that what has been taken so far are the vectors of the
  inputs up to the end of the last batch taken (`Prefix`, with `End` and `ConcatParts`
  for where a batch ends), that a batch's answer is to that batch's texts whenever it
  comes (`Batched`), and of every cached value that it answers the request whose key
  it is under (`CachedSound`).

Only model-checked: all liveness (`CallsEnd`, `StreamEnds`, `OperationsEnd`), which
needs ENABLED and fairness; no invariant and no refinement is left to TLC alone. The
hypotheses `OneCaller`, `MayCancel = FALSE`, `Faultless`, `OnlyPuts`,
`KeysTellApart` and `KeysAreRequests` are stated in the theorems that need them and
hold in the runs that check the property. The
pure algorithms that do not touch a state (`Parse`, the backoff, the defaults) are
checked over bounded inputs by named assumptions, which TLC evaluates: they are
recursive, or about numbers of a few bits.

## Where code and documentation part

Four have a run that shows them (`PROJECT.json`, findings). These were met while
modelling and have none; where a property gives the exact behaviour it is named:

* `usd_daily_cap` is a "maximum aggregate USD spend" (chat_config.rs:239), and is
  overshot by overlapping calls, and by a call that starts below it
  (`OvershootBounded`).
* `record_cost` "resets the running total when the calendar day has rolled over"
  (budget.rs:72-73); a late stamp resets them as well (`TotalFallsOnlyByLateStamp`).
* "The first iteration is never refused" (chat_config.rs:221); a first response
  over the token cap fails the call (engine.rs:258-275).
* The usage of a corrective request is in no total and no bill (engine.rs:649-653;
  `BilledForTheLoop`).
* A stream's answer is "the same payload `execute` would have returned"
  (engine.rs:756-757); the exhausted policy of a stream looks at tool calls that
  have been taken already (engine.rs:981, 1015), so it never applies. Streams look at
  neither budget (engine.rs:808, 884).
* Temporary files are "cleaned on next sweep" (content_store_fs.rs:12); nothing
  removes them. A failed alias write and a reopening leave the store over its cap
  (content_store_fs.rs:393, 149-227). Content whose files could not be removed is
  back after a restart (content_store_fs.rs:266-271).
* A chat's cached answers live "1 hour" (chat_config.rs:197-201); the default is
  3,600,000 (chat_config.rs:213-215) and is taken for seconds (engine.rs:429), which
  is 41 days.
* `max_input_tokens` refuses a call "before reaching the provider"
  (chat_config.rs:431-435); nothing reads it.
* `timeout_ms` "includes retries within one iteration" (chat_config.rs:39-41); each
  attempt has the whole of it.
* The retry defaults of the embedding spec "match the chat-side spec (3 attempts,
  200 ms ...)" (embedding_config.rs:39-41); a chat begins with 500 ms. The embedding,
  image and speech specs do not ask that the first wait be within the longest, and
  an infinite `usd_daily_cap` is let through (chat_config.rs:176).
* After 64 attempts the shift in `1 << (attempt - 1)` panics or starts over
  (embedding_engine.rs:357, image_engine.rs:226, audio_engine.rs:500, 536;
  `BackoffStartsOver`).
* Audio may be given as `{source, format?}` (chat_config.rs:258-262,
  audio_engine.rs:192-194); a chat drops such an argument, a transcription refuses
  it. A transcription takes "`https://`" as well (audio_engine.rs:192); it refuses
  those too (audio_engine.rs:331-338). A data URL is taken apart for images only;
  elsewhere it goes on as base64 (`Forms` in `MediaInputs`).
* The walk is done "before each provider call" (multimodal.rs:7-10); the engine does
  it once a call (engine.rs:207-214).
* An SSE boundary is searched for as CRLF first: in a buffer with both framings an
  earlier LF boundary is passed over (sse.rs:18-21; `MixedFramingsMerge`).
* The LRU maps' cap of a million entries is to be "high enough that byte-cap
  eviction is the operative limit" (content_store.rs:113-119, cache.rs:229-230), and
  the byte count a "Live byte total. Updated on insert/evict/delete"
  (content_store.rs:93-94). At that cap `LruCache::put` drops the coldest entry and
  returns nothing, and nobody takes its bytes off (content_store.rs:193-197,
  cache.rs:296-299). They stay counted for ever, and the store evicts what still fits,
  until it is built anew; the drift stops growing once a million entries no longer fit
  beside it (`ByteCountExact`). An unlimited store (`max_bytes` 0) drops contents at
  the cap all the same. `ByteCountExact`, `CacheBytesExact` and `KeptWhileItFits` give
  the exact behaviour.
* "Any change in any of those produces a different key" (cache.rs:49-51); a NUL in a
  rendered text can move the border between two fields, which nothing escapes
  (cache.rs:70-75). `AnswersTheText` holds of texts without one, `NulsCollide` shows two
  calls with one key.
* A removal whose operation was dropped goes on in the blocking pool and may take the
  blob that a later put found in place and acknowledged (content_store_fs.rs:270, 358);
  a late write may bring back the meta file of what was deleted since (317). `Cancel`
  and `Late`; the hypothesis of `AckedStaysReadable`.
* Dimensions are compared as the responses state them (embedding_engine.rs:177-187): a
  first batch that states 0 is overruled by the next, and vectors of other lengths than
  stated pass (`OneDimension`).
* Images of one answer may evict each other; the answer names them all
  (image_engine.rs:161-185; `AnswerIsComplete` says what it names, not for how long).

## Plan

Done: the modules above. What would come next, into the runs there are:

1. The daily cap beside the streaming engine, should streams come to look at it.
2. In the filesystem store: entries refreshed between the two locks of `get` and
   `sweep_expired`; the bound on how far a failed alias write leaves it over its cap.
3. Proofs: what two callers of the filesystem store may still count on once one of
   them deletes (`AckedStaysReadable` is about one), or one that cancels; that the
   response cache serves the value put last; bounds of the backoff for any number of
   attempts.

Not modelled, and not planned: floating point (prices are whole dollars a token),
the syntax of TOML and JSON, MiniJinja, metrics and logging, the texts of prompts
and errors, API keys (a wrapper that asks whether it is empty), and the provider
crates' adapters, which are the environment.
