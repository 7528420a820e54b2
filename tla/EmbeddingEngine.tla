---------------------------- MODULE EmbeddingEngine ----------------------------
(***************************************************************************)
(* EmbeddingEngine::execute_with_usage (src/embedding_engine.rs), for      *)
(* several calls of one binding in flight at once, over the response cache *)
(* of src/cache.rs behind their host.                                      *)
(*                                                                         *)
(* The inputs are cut into batches; every batch is a future of its own     *)
(* with its own retries, all of them are polled at once, and their results *)
(* are taken in the order of the batches (FuturesOrdered).  The first      *)
(* error taken drops the futures that are left.                            *)
(*                                                                         *)
(* A text is a sequence of characters.  A vector is the text it embeds and *)
(* the dimensions that the response it came in states: nobody counts the   *)
(* numbers in it.  The provider (EmbeddingProviderAdapter) is the          *)
(* environment: it fails, or answers with as many vectors as there are     *)
(* texts, or with one too few or too many, and states any dimensions, 0    *)
(* also.                                                                   *)
(***************************************************************************)
EXTENDS LruResponseCache, ExecutionSpecs, Sequences, SequencesExt

CONSTANTS
    Callers,        \* the calls that may be in flight at once
    Requests,       \* what they embed: non-empty sequences of texts
    MaxBatchSize,   \* EmbeddingExecutionSpec::max_batch_size, an Option
    AdapterMax,     \* EmbeddingProviderAdapter::max_batch_size
    MaxAttempts,    \* EmbeddingRetrySpec::max_attempts
    Dimensions,     \* what a response may state: NormalizedEmbeddingResponse::dimensions
    Counts,         \* of 0 (as many vectors as texts), 1 (one more), 2 (one less)
    CacheEnabled,   \* CacheSpec::enabled
    TtlSeconds,     \* CacheSpec::ttl_seconds
    Joiner          \* the character \u{0001}

EmbeddingSpec ==
    [EmbeddingDefaults EXCEPT
        !.model = "given", !.max_batch_size = MaxBatchSize, !.max_attempts = MaxAttempts,
        !.cache_enabled = CacheEnabled, !.ttl_seconds = TtlSeconds]

BatchSize == EffectiveBatchSize(EmbeddingSpec, AdapterMax)

Texts == UNION {{r[i] : i \in DOMAIN r} : r \in Requests}

ASSUME EmbeddingAssumption ==
    /\ ValidEmbedding(EmbeddingSpec)
    /\ MaxBatchSize \subseteq Nat /\ \A m, n \in MaxBatchSize : m = n
    /\ AdapterMax \in Nat /\ MaxAttempts \in Nat
    /\ Dimensions \subseteq Nat /\ Counts \subseteq 0..2
    /\ CacheEnabled \in BOOLEAN /\ TtlSeconds \in Nat
    /\ Requests # {} /\ Requests \subseteq Seq(Texts) \ {<<>>}

VARIABLES call          \* the state of each caller's call

vars == <<cacheVars, call>>

-----------------------------------------------------------------------------
(* Pure parts *)

(* inputs.chunks(batch_size)                                               *)
Chunks(inputs) ==
    LET n == (Len(inputs) + BatchSize - 1) \div BatchSize
        last(i) == IF i * BatchSize <= Len(inputs) THEN i * BatchSize ELSE Len(inputs)
    IN  [i \in 1..n |-> SubSeq(inputs, (i - 1) * BatchSize + 1, last(i))]

(* build_embedding_cache_key: the texts with a joiner between them; the    *)
(* rest is the same for every call of the binding.                         *)
CacheKey(inputs) ==
    FoldLeft(LAMBDA joined, text : joined \o <<Joiner>> \o text, Head(inputs), Tail(inputs))

ASSUME KeysAssumption == \A r \in Requests : CacheKey(r) \in CacheKeys

Vector(text, stated) == [of |-> text, dims |-> stated]

(* What the provider makes of a batch.                                     *)
Embedded(texts, stated, count) ==
    LET right == [i \in DOMAIN texts |-> Vector(texts[i], stated)]
    IN  CASE count = 0 -> right
          [] count = 1 -> Append(right, Vector(<<>>, stated))
          [] count = 2 -> Front(right)

-----------------------------------------------------------------------------
NoReply == [status |-> "none", value |-> NoValue]
Failed(why) == [status |-> why, value |-> NoValue]
Delivered(value) == [status |-> "ok", value |-> value]

(* A future of call_with_retry, at its first attempt.                      *)
Asking(texts) ==
    [pc |-> "asking", texts |-> texts, attempt |-> 1, vectors |-> <<>>, dims |-> 0, exact |-> TRUE]

(* The locals of a call; history: whether every batch had as many vectors  *)
(* as texts, and the requests sent to the provider.                        *)
NewCall(inputs) ==
    [pc |-> "lookup", inputs |-> inputs, batches |-> <<>>, taken |-> 0,
     vectors |-> <<>>, dims |-> 0, exact |-> TRUE, sent |-> 0, reply |-> NoReply]

Idle == [NewCall(CHOOSE r \in Requests : TRUE) EXCEPT !.pc = "idle"]

Init ==
    /\ CacheInit
    /\ call = [c \in Callers |-> Idle]

At(c, pc) == call[c].pc = pc

Moves(c, state) == call' = [call EXCEPT ![c] = state]
Become(c, state) == Moves(c, state) /\ UNCHANGED cacheVars

(* The call returns: its locals are dropped, its futures with them.        *)
Ended(state, reply) == [Idle EXCEPT !.inputs = state.inputs, !.reply = reply]

FanOut(state) ==
    LET chunks == Chunks(state.inputs)
    IN  [state EXCEPT !.pc = "embedding", !.sent = Len(chunks),
                      !.batches = [i \in DOMAIN chunks |-> Asking(chunks[i])]]

-----------------------------------------------------------------------------
Begin(c) ==
    /\ At(c, "idle")
    /\ \E inputs \in Requests :
        Become(c, IF CacheEnabled THEN NewCall(inputs) ELSE FanOut(NewCall(inputs)))

CacheHit(c) ==
    LET key == CacheKey(call[c].inputs)
    IN  /\ At(c, "lookup")
        /\ CacheServes(key)
        /\ Moves(c, Ended(call[c], Delivered(cacheMap[key].value)))

(* A lookup that fails is a miss.                                          *)
CacheMiss(c) ==
    /\ At(c, "lookup")
    /\ CacheMisses(CacheKey(call[c].inputs)) \/ UNCHANGED cacheVars
    /\ Moves(c, FanOut(call[c]))

-----------------------------------------------------------------------------
(* call_with_retry, for batch b of call c *)

InFlight(c, b, pc) == At(c, "embedding") /\ call[c].batches[b].pc = pc

Answers(c, b) ==
    /\ InFlight(c, b, "asking")
    /\ \E stated \in Dimensions, count \in Counts :
        Become(c, [call[c] EXCEPT
            !.batches[b].pc = "answered", !.batches[b].dims = stated,
            !.batches[b].vectors = Embedded(call[c].batches[b].texts, stated, count),
            !.batches[b].exact = count = 0])

(* A transient error with attempts left.                                   *)
RetryLater(c, b) ==
    /\ InFlight(c, b, "asking")
    /\ call[c].batches[b].attempt < MaxAttempts
    /\ Become(c, [call[c] EXCEPT !.batches[b].pc = "backoff"])

(* A lasting one, or a transient one at the last attempt.                  *)
GiveUp(c, b) ==
    /\ InFlight(c, b, "asking")
    /\ Become(c, [call[c] EXCEPT !.batches[b].pc = "failed"])

(* Mutant: the attempt is not counted.                                     *)
WakeUncounted(c, b) ==
    /\ InFlight(c, b, "backoff")
    /\ Become(c, [call[c] EXCEPT !.batches[b].pc = "asking"])

Wake(c, b) ==
    /\ InFlight(c, b, "backoff")
    /\ Become(c, [call[c] EXCEPT !.batches[b].pc = "asking",
                                 !.batches[b].attempt = @ + 1, !.sent = @ + 1])

-----------------------------------------------------------------------------
(* Taking the results *)

(* Mutants: the dimensions are not compared; results are taken as they     *)
(* come.                                                                   *)
AgreesAlways(state, batch) == TRUE

(* The first batch sets the dimensions, unless it says 0.                  *)
Agrees(state, batch) == state.dims = 0 \/ batch.dims = state.dims

Taken(state, batch) ==
    [state EXCEPT !.taken = @ + 1, !.dims = IF @ = 0 THEN batch.dims ELSE @,
                  !.vectors = @ \o batch.vectors, !.exact = @ /\ batch.exact]

TakeAny(c) ==
    /\ At(c, "embedding")
    /\ \E b \in DOMAIN call[c].batches :
        LET batch == call[c].batches[b]
        IN  /\ batch.pc = "answered" /\ Agrees(call[c], batch)
            /\ Become(c, Taken([call[c] EXCEPT !.batches[b].pc = "taken"], batch))

(* futures.next(): the next batch's result, when it is there.              *)
Take(c) ==
    /\ At(c, "embedding") /\ call[c].taken < Len(call[c].batches)
    /\ LET batch == call[c].batches[call[c].taken + 1]
       IN  \/ batch.pc = "failed" /\ Become(c, Ended(call[c], Failed("provider")))
           \/ /\ batch.pc = "answered" /\ ~Agrees(call[c], batch)
              /\ Become(c, Ended(call[c], Failed("dimensions")))
           \/ /\ batch.pc = "answered" /\ Agrees(call[c], batch)
              /\ Become(c, Taken(call[c], batch))

(* Mutant: the vectors are not counted.                                    *)
CompleteAlways(state) == TRUE

Complete(state) == Len(state.vectors) = Len(state.inputs)

Result(state) ==
    [vectors |-> state.vectors, dims |-> state.dims, exact |-> state.exact,
     bytes |-> Len(state.vectors)]

Conclude(c) ==
    /\ At(c, "embedding") /\ call[c].taken = Len(call[c].batches)
    /\ \/ ~Complete(call[c]) /\ Become(c, Ended(call[c], Failed("count")))
       \/ Complete(call[c]) /\ CacheEnabled /\ Become(c, [call[c] EXCEPT !.pc = "store"])
       \/ /\ Complete(call[c]) /\ ~CacheEnabled
          /\ Become(c, Ended(call[c], Delivered(Result(call[c]))))

(* cache_put; one that fails is ignored.                                   *)
Store(c) ==
    /\ At(c, "store")
    /\ \/ CachePut(CacheKey(call[c].inputs), Result(call[c]), TtlSeconds)
       \/ UNCHANGED cacheVars
    /\ Moves(c, Ended(call[c], Delivered(Result(call[c]))))

(* The host drops the future at an await.                                  *)
Abandon(c) ==
    /\ call[c].pc \in {"lookup", "embedding", "store"}
    /\ Become(c, Ended(call[c], Failed("abandoned")))

-----------------------------------------------------------------------------
BatchStep(c) ==
    \E b \in DOMAIN call[c].batches :
        Answers(c, b) \/ RetryLater(c, b) \/ GiveUp(c, b) \/ Wake(c, b)

Progress(c) ==
    \/ CacheHit(c) \/ CacheMiss(c)
    \/ BatchStep(c) \/ Take(c) \/ Conclude(c) \/ Store(c)

Next ==
    \/ \E c \in Callers : Begin(c) \/ Progress(c) \/ Abandon(c)
    \/ CacheTick /\ UNCHANGED call
    \/ \E k \in CacheKeys : CacheInvalidate(k) /\ UNCHANGED call

Spec == Init /\ [][Next]_vars

(* The task runs, the provider answers or its timeout does.                *)
FairSpec == Spec /\ \A c \in Callers : WF_vars(Progress(c))

-----------------------------------------------------------------------------
TypeOK ==
    /\ CacheTypeOK
    /\ \A c \in Callers :
        /\ call[c].pc \in {"idle", "lookup", "embedding", "store"}
        /\ call[c].inputs \in Requests
        /\ call[c].taken \in 0..Len(call[c].batches)
        /\ \A b \in DOMAIN call[c].batches :
            /\ call[c].batches[b].pc \in {"asking", "backoff", "answered", "failed"}
            /\ call[c].batches[b].attempt \in 1..MaxAttempts

Answered(c) == call[c].reply.status = "ok"

(* "`embeddings.len()` always matches the input array length", in whatever *)
(* number of vectors the batches come, and from the cache as well          *)
(* (embedding_engine.rs:83, 195-203).                                      *)
OneVectorPerInput ==
    \A c \in Callers : Answered(c) =>
        Len(call[c].reply.value.vectors) = Len(call[c].inputs)

(* Where the batches have the right number of vectors, the i-th is the one *)
(* of the i-th input: whatever batch is answered first, retried or taken   *)
(* from the cache (embedding_engine.rs:157-193).                           *)
VectorsAreOfTheInputs ==
    \A c \in Callers : Answered(c) /\ call[c].reply.value.exact =>
        \A i \in DOMAIN call[c].inputs :
            call[c].reply.value.vectors[i].of = call[c].inputs[i]

(* Every vector of an answer came with the dimensions that the answer      *)
(* states, but for those before the first response that stated any: once   *)
(* one has, a response that states others, or none, fails the call, be it  *)
(* empty, late or retried (embedding_engine.rs:178-187).                   *)
StatedAs(vectors, dims) ==
    \A i \in DOMAIN vectors :
        vectors[i].dims = dims \/ \A j \in 1..i : vectors[j].dims = 0

OneDimension ==
    \A c \in Callers : Answered(c) =>
        StatedAs(call[c].reply.value.vectors, call[c].reply.value.dims)

(* Every call ends: no batch is waited for that nobody polls.              *)
CallsEnd == \A c \in Callers : ~At(c, "idle") ~> At(c, "idle")

=============================================================================
