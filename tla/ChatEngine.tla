------------------------------ MODULE ChatEngine ------------------------------
(***************************************************************************)
(* ChatEngine::execute_with_usage (src/engine.rs:110-453) and the helpers  *)
(* it awaits, for several calls of one binding in flight at once.          *)
(*                                                                         *)
(* A call is one task; it is split at every await and at every look at     *)
(* something shared: the clock, the daily ledger's mutex, the host's       *)
(* response cache.  Between two of those it runs alone, so one action      *)
(* stands for all the code in between.                                     *)
(*                                                                         *)
(* The provider (behind ChatProviderAdapter), the child tools and the      *)
(* response cache (behind BackendHost) are the environment: they answer    *)
(* anything in Responses or ErrorKinds, fail, and forget.  Response text   *)
(* is reduced to what validation tells apart, arguments to the two texts   *)
(* that the templates render from them and the media beside those.         *)
(***************************************************************************)
EXTENDS DailyLedger, ExecutionSpecs, RateCard, Sequences, FiniteSets

CONSTANTS
    Callers,            \* the calls that may be in flight at once
    Args,               \* arguments: records of the system and the user text
                        \* they render to, as characters, and of a media
    Nul,                \* the character that ends a field of the cache key
    Responses,          \* what the provider may answer
    ErrorKinds,         \* ProviderError categories
    RetryOn,            \* RetrySpec::retry_on, all retryable kinds
    MaxAttempts,        \* RetrySpec::max_attempts
    MaxIterations,      \* ToolsSpec::resolved_max_iterations
    Allowed,            \* ToolsSpec::allowed
    OnExhausted,        \* "error" or "return_partial"
    Mode,               \* "json_schema" or "text"
    OnMismatch,         \* "error", "retry_once" or "return_raw"
    CacheEnabled,       \* CacheSpec::enabled
    TokensPerCallCap,   \* BudgetSpec::tokens_per_call_cap; 0 is uncapped
    UsdDailyCap,        \* BudgetSpec::usd_daily_cap; 0 is uncapped
    MaxTokens,          \* bound: the most tokens one response reports
    MaxU32,             \* u32::MAX
    Card,               \* the rate card
    Provider, Model     \* the adapter's label, the spec's model

Contents == {"valid", "mismatch", "not_json"}
Tools == UNION {{r.calls[i] : i \in DOMAIN r.calls} : r \in Responses}
Characters ==
    {Nul} \cup UNION {{a.system[i] : i \in DOMAIN a.system} : a \in Args}
          \cup UNION {{a.user[i] : i \in DOMAIN a.user} : a \in Args}

(* The binding's ChatExecutionSpec: what the model depends on, the rest by *)
(* default; validate has let it through.                                   *)
ChatSpec ==
    [ChatDefaults EXCEPT
        !.mode = Mode, !.on_mismatch = OnMismatch,
        !.allowed = Allowed, !.max_iterations = {MaxIterations}, !.exhausted = OnExhausted,
        !.max_attempts = MaxAttempts, !.cache_enabled = CacheEnabled,
        !.tokens_per_call_cap = TokensPerCallCap, !.usd_daily_cap = UsdDailyCap]

ASSUME SpecValid ==
    /\ ValidChat(ChatSpec)
    /\ LastDay \in Nat \ {0}
    /\ MaxAttempts \in Nat
    /\ OnExhausted \in {"error", "return_partial"}
    /\ CacheEnabled \in BOOLEAN
    /\ TokensPerCallCap \in Nat /\ UsdDailyCap \in Nat /\ MaxTokens \in Nat /\ MaxU32 \in Nat
    /\ Args # {}
    /\ \A i \in DOMAIN Card :
        /\ Card[i].input \in 0..1   \* bound: $1 a token
        /\ Card[i].output \in Nat /\ Card[i].cached \subseteq Nat

ASSUME ResponseShape ==
    \A r \in Responses :
        /\ r.content \in Contents
        /\ r.finish \in {"stop", "tool_calls"}
        /\ r.tokens \in 0..MaxTokens
        /\ r.calls \in Seq({r.calls[i] : i \in DOMAIN r.calls})

ASSUME ArgsShape ==
    \A a \in Args : a.system \in Seq(Characters) /\ a.user \in Seq(Characters)

VARIABLES
    call,               \* the state of each caller's call
    cache               \* the host's response cache, by key

engineVars == <<call, cache>>
vars == <<ledgerVars, engineVars>>

NoValue == [content |-> "none"]
Value(content, args) == [content |-> content, answers |-> args]
Values == [content : Contents, answers : Args]

NoReply == [status |-> "none", value |-> NoValue]
Failed(why) == [status |-> why, value |-> NoValue]
Delivered(value) == [status |-> "ok", value |-> value]

SystemMessage == [role |-> "system", calls |-> <<>>]
UserMessage == [role |-> "user", calls |-> <<>>]
AssistantTurn(calls) == [role |-> "assistant", calls |-> calls]
ToolResult(name) == [role |-> "tool", calls |-> <<name>>]

NoResponse == [calls |-> <<>>, finish |-> "stop", content |-> "not_json", tokens |-> 0]

(* A fresh call: the locals of execute_with_usage and of call_with_retry.  *)
NewCall(args, day) ==
    [pc |-> "gate", args |-> args, stamp |-> day,
     messages |-> <<SystemMessage, UserMessage>>,
     iter |-> 0, attempt |-> 0, corrective |-> FALSE,
     pending |-> <<>>, last_response |-> NoResponse,
     total_tokens |-> 0, validated |-> NoValue, reply |-> NoReply,
     \* history: requests sent to the provider, and tokens it charged for
     sent |-> 0, charged |-> 0]

Idle == [NewCall(CHOOSE a \in Args : TRUE, 0) EXCEPT !.pc = "idle"]

(* Mutant: the field before the user text is not ended.                    *)
CacheKeyUnseparated(args) == args.system \o args.user

(* build_chat_cache_key: CacheKey::for_chat hashes the two texts one after *)
(* the other, a NUL behind each, among settings that are the same for      *)
(* every call of the binding; hashes do not collide.                       *)
CacheKey(args) == args.system \o <<Nul>> \o args.user

Keys == {CacheKey(args) : args \in Args}

Init ==
    /\ LedgerInit
    /\ call = [c \in Callers |-> Idle]
    /\ cache = [k \in Keys |-> NoValue]

-----------------------------------------------------------------------------
(* Moving a call on *)

At(c, pc) == call[c].pc = pc

Become(c, state) ==
    /\ call' = [call EXCEPT ![c] = state]
    /\ UNCHANGED <<ledgerVars, cache>>

(* The call returns: its locals are dropped.                               *)
Ended(state, reply) ==
    [Idle EXCEPT !.args = state.args, !.stamp = state.stamp,
                 !.iter = state.iter, !.reply = reply]

Fail(c, state, why) == Become(c, Ended(state, Failed(why)))

GoTo(c, pc) == Become(c, [call[c] EXCEPT !.pc = pc])

(* build_request and the first attempt of call_with_retry.                 *)
Requesting(state) ==
    [state EXCEPT !.pc = "request", !.attempt = 1, !.sent = @ + 1]

(* Mutant: the date read at the gate is kept for the record.               *)
SettledAtTheGate(state, content) ==
    [state EXCEPT !.pc = "record", !.validated = Value(content, state.args)]

(* The content is final: record_cost reads the clock.                      *)
Settled(state, content) ==
    [state EXCEPT !.pc = "record", !.stamp = today,
                  !.validated = Value(content, state.args)]

AfterGate == IF CacheEnabled THEN "lookup" ELSE "prefetch"

-----------------------------------------------------------------------------
(* Before the first request *)

Begin(c) ==
    /\ At(c, "idle")
    /\ \E args \in Args :
        Become(c, [NewCall(args, today) EXCEPT
                     !.pc = IF UsdDailyCap > 0 THEN "gate" ELSE AfterGate])

(* A template does not render.                                             *)
RenderFails(c) ==
    /\ At(c, "idle")
    /\ \E args \in Args : Fail(c, NewCall(args, call[c].stamp), "template")

BudgetRefuses(c) ==
    /\ At(c, "gate")
    /\ CurrentDailyUsd(row, call[c].stamp) >= UsdDailyCap
    /\ Fail(c, call[c], "budget")

BudgetAdmits(c) ==
    /\ At(c, "gate")
    /\ CurrentDailyUsd(row, call[c].stamp) < UsdDailyCap
    /\ GoTo(c, AfterGate)

CacheHit(c) ==
    LET hit == cache[CacheKey(call[c].args)]
    IN  /\ At(c, "lookup")
        /\ hit # NoValue
        /\ Become(c, Ended(call[c], Delivered(hit)))

(* The host hands back bytes that are not JSON.                            *)
CacheUndecodable(c) == At(c, "lookup") /\ Fail(c, call[c], "cache")

(* Nothing there, or the lookup failed: the call goes on without.          *)
CacheMiss(c) == At(c, "lookup") /\ GoTo(c, "prefetch")

Prefetch(c) == At(c, "prefetch") /\ Become(c, Requesting(call[c]))

PrefetchFails(c) == At(c, "prefetch") /\ Fail(c, call[c], "prefetch")

-----------------------------------------------------------------------------
(* call_with_retry *)

(* Mutant: retries without counting.                                       *)
RetryAlways(c) ==
    /\ At(c, "request")
    /\ ErrorKinds \cap RetryOn # {}
    /\ GoTo(c, "backoff")

RetryLater(c) ==
    /\ At(c, "request")
    /\ ErrorKinds \cap RetryOn # {}
    /\ call[c].attempt < MaxAttempts
    /\ GoTo(c, "backoff")

GiveUp(c) ==
    /\ At(c, "request")
    /\ \E kind \in ErrorKinds : kind \notin RetryOn \/ call[c].attempt >= MaxAttempts
    /\ Fail(c, call[c], "provider")

(* Mutant: the attempt is not counted.                                     *)
WakeUncounted(c) == At(c, "backoff") /\ GoTo(c, "request")

Wake(c) ==
    /\ At(c, "backoff")
    /\ Become(c, [call[c] EXCEPT !.pc = "request", !.attempt = @ + 1, !.sent = @ + 1])

-----------------------------------------------------------------------------
(* The tool loop *)

(* Mutant: the totals of the last iteration only.                          *)
HeardLast(state, r) ==
    [state EXCEPT !.last_response = r, !.total_tokens = r.tokens,
                  !.charged = @ + r.tokens]

(* The totals after a response of the loop.                                *)
Heard(state, r) ==
    [state EXCEPT !.last_response = r, !.total_tokens = @ + r.tokens,
                  !.charged = @ + r.tokens]

OverTokenCap(state) == TokensPerCallCap > 0 /\ state.total_tokens >= TokensPerCallCap

LoopReply(c, r) ==
    LET heard == Heard(call[c], r)
    IN  /\ At(c, "request") /\ ~call[c].corrective
        /\ \/ OverTokenCap(heard) /\ Fail(c, heard, "token_cap")
           \/ /\ ~OverTokenCap(heard) /\ r.calls = <<>>
              /\ Become(c, [heard EXCEPT !.pc = "conclude"])
           \/ /\ ~OverTokenCap(heard) /\ r.calls # <<>> /\ Allowed = {}
              /\ Fail(c, heard, "no_child_tools")
           \/ /\ ~OverTokenCap(heard) /\ r.calls # <<>> /\ Allowed # {}
              /\ Become(c, [heard EXCEPT !.pc = "dispatch", !.pending = r.calls,
                                         !.messages = Append(@, AssistantTurn(r.calls))])

(* Mutant: a denied call is skipped and gets no result.                    *)
AnsweredIfAllowed(state) ==
    IF Head(state.pending) \in Allowed
    THEN [state EXCEPT !.messages = Append(@, ToolResult(Head(state.pending))),
                       !.pending = Tail(@)]
    ELSE [state EXCEPT !.pending = Tail(@)]

(* dispatch_child_tool: denied by the allowlist, refused for its           *)
(* arguments, answered or failed, a tool call always yields its result.    *)
Answered(state) ==
    [state EXCEPT !.messages = Append(@, ToolResult(Head(state.pending))),
                  !.pending = Tail(@)]

(* Mutant: one iteration too many.                                         *)
DispatchOnceMore(c) ==
    LET turnDone == [Answered(call[c]) EXCEPT !.iter = @ + 1]
    IN  /\ At(c, "dispatch")
        /\ \/ turnDone.pending # <<>> /\ Become(c, Answered(call[c]))
           \/ /\ turnDone.pending = <<>> /\ turnDone.iter <= MaxIterations
              /\ Become(c, Requesting(turnDone))

Dispatch(c) ==
    LET answered == Answered(call[c])
        turnDone == [answered EXCEPT !.iter = @ + 1]
    IN  /\ At(c, "dispatch")
        /\ \/ answered.pending # <<>> /\ Become(c, answered)
           \/ /\ answered.pending = <<>> /\ turnDone.iter < MaxIterations
              /\ Become(c, Requesting(turnDone))
           \/ /\ answered.pending = <<>> /\ turnDone.iter >= MaxIterations
              /\ Become(c, [turnDone EXCEPT !.pc = "conclude"])

-----------------------------------------------------------------------------
(* After the loop: the exhausted policy, then validate_final_content *)

Partial(state) == state.last_response.finish = "tool_calls"

(* Mutant: the schema is not asked.                                        *)
AcceptableAlways(content) == TRUE

Acceptable(content) == Mode = "text" \/ content = "valid"

Exhausted(c) ==
    /\ At(c, "conclude")
    /\ Partial(call[c]) /\ OnExhausted = "error"
    /\ Fail(c, call[c], "exhausted")

Concludes(c) ==
    /\ At(c, "conclude")
    /\ ~(Partial(call[c]) /\ OnExhausted = "error")

Accept(c) ==
    /\ Concludes(c)
    /\ Acceptable(call[c].last_response.content)
    /\ Become(c, Settled(call[c], call[c].last_response.content))

Reject(c) ==
    /\ Concludes(c)
    /\ ~Acceptable(call[c].last_response.content)
    /\ OnMismatch = "error"
    /\ Fail(c, call[c], "schema")

(* retry_with_corrective_message: a note to the model, and once more.      *)
Correct(c) ==
    /\ Concludes(c)
    /\ ~Acceptable(call[c].last_response.content)
    /\ OnMismatch = "retry_once"
    /\ Become(c, Requesting([call[c] EXCEPT !.corrective = TRUE,
                                            !.messages = Append(@, SystemMessage)]))

(* Mutant: the second answer is taken as it is.                            *)
CorrectiveReplyTrusted(c, r) ==
    /\ At(c, "request") /\ call[c].corrective
    /\ Become(c, Settled([call[c] EXCEPT !.charged = @ + r.tokens], r.content))

(* Its answer is validated once; its tool calls and its usage are ignored. *)
CorrectiveReply(c, r) ==
    LET heard == [call[c] EXCEPT !.charged = @ + r.tokens]
    IN  /\ At(c, "request") /\ call[c].corrective
        /\ \/ r.content = "valid" /\ Become(c, Settled(heard, r.content))
           \/ r.content # "valid" /\ Fail(c, heard, "schema")

-----------------------------------------------------------------------------
(* Recording and replying *)

Cost(state) ==
    LET totals == [input |-> state.total_tokens, cached |-> 0, output |-> 0]
        listed == Find(Card, Provider, Model)
    IN  IF listed = {} THEN 0
        ELSE ChatCost(CHOOSE entry \in listed : TRUE, Aggregate(totals, MaxU32))

(* record_cost holds the ledger's mutex.                                   *)
Record(c) ==
    /\ At(c, "record")
    /\ RecordCost(Cost(call[c]), call[c].stamp)
    /\ call' = [call EXCEPT ![c] =
                  IF CacheEnabled THEN [@ EXCEPT !.pc = "store"]
                  ELSE Ended(@, Delivered(@.validated))]
    /\ UNCHANGED cache

(* A failed cache_put is ignored.                                          *)
Store(c) ==
    /\ At(c, "store")
    /\ \/ cache' = [cache EXCEPT ![CacheKey(call[c].args)] = call[c].validated]
       \/ UNCHANGED cache
    /\ call' = [call EXCEPT ![c] = Ended(@, Delivered(@.validated))]
    /\ UNCHANGED ledgerVars

(* The task stops at an await: the host drops the future, or a panic in    *)
(* truncate_tool_result unwinds it.                                        *)
Abandon(c) ==
    /\ call[c].pc \in {"lookup", "prefetch", "request", "backoff", "dispatch", "store"}
    /\ Fail(c, call[c], "abandoned")

-----------------------------------------------------------------------------

ProviderStep(c) ==
    \/ RetryLater(c) \/ GiveUp(c) \/ Wake(c)
    \/ \E r \in Responses : LoopReply(c, r) \/ CorrectiveReply(c, r)

(* What a call that has begun does next.                                   *)
Progress(c) ==
    \/ BudgetRefuses(c) \/ BudgetAdmits(c)
    \/ CacheHit(c) \/ CacheUndecodable(c) \/ CacheMiss(c)
    \/ Prefetch(c) \/ PrefetchFails(c)
    \/ ProviderStep(c)
    \/ Dispatch(c)
    \/ Exhausted(c) \/ Accept(c) \/ Reject(c) \/ Correct(c)
    \/ Record(c) \/ Store(c)

(* The host's cache expires and evicts what it likes.                      *)
Forget(k) ==
    /\ cache[k] # NoValue
    /\ cache' = [cache EXCEPT ![k] = NoValue]
    /\ UNCHANGED <<ledgerVars, call>>

Next ==
    \/ \E c \in Callers : Begin(c) \/ RenderFails(c) \/ Progress(c) \/ Abandon(c)
    \/ \E k \in Keys : Forget(k)
    \/ Midnight /\ UNCHANGED engineVars

Spec == Init /\ [][Next]_vars

(* A task that can run is run, the provider and the host's calls return:   *)
(* adapters get a timeout, the host's own calls are taken to have one.     *)
(* Nothing makes a call begin, or be abandoned.                            *)
FairSpec == Spec /\ \A c \in Callers : WF_vars(Progress(c))

-----------------------------------------------------------------------------
TypeOK ==
    /\ LedgerTypeOK
    /\ cache \in [Keys -> Values \cup {NoValue}]
    /\ \A c \in Callers :
        /\ call[c].pc \in {"idle", "gate", "lookup", "prefetch", "request", "backoff",
                           "dispatch", "conclude", "record", "store"}
        /\ call[c].args \in Args
        /\ call[c].stamp \in 0..LastDay
        /\ call[c].iter \in 0..MaxIterations
        /\ At(c, "request") /\ ~call[c].corrective => call[c].iter < MaxIterations
        /\ call[c].attempt \in 0..MaxAttempts
        /\ call[c].validated \in Values \cup {NoValue}
        /\ call[c].reply.value \in Values \cup {NoValue}

(* Every request carries a conversation the providers accept: the results  *)
(* of an assistant turn's tool calls follow it, all of them, in order, and *)
(* no result stands alone (engine.rs:296-316, through retries, denied      *)
(* calls and the corrective note).                                         *)
Turn(messages, i) ==
    LET n == Len(messages[i].calls)
    IN  /\ i + n <= Len(messages)
        /\ \A j \in 1..n : messages[i + j] = ToolResult(messages[i].calls[j])

ConversationWellFormed ==
    \A c \in Callers : At(c, "request") =>
        LET m == call[c].messages
        IN  /\ \A i \in DOMAIN m : m[i].role = "assistant" => Turn(m, i)
            /\ \A i \in DOMAIN m : m[i].role = "tool" =>
                \E k \in 1..(i - 1) :
                    m[k].role = "assistant" /\ i - k <= Len(m[k].calls)

(* A call sends at most MaxIterations rounds of attempts, and one more     *)
(* round for the correction: retries, tool turns and the correction add    *)
(* up, they do not multiply (engine.rs:225, 303-331, 636-639, 683-740).    *)
SentBounded ==
    \A c \in Callers :
        call[c].sent <=
            MaxAttempts * (MaxIterations + IF call[c].corrective THEN 1 ELSE 0)

(* In json_schema mode nothing that failed the schema is ever delivered,   *)
(* kept in the cache, or on its way there: not a partial, not the answer   *)
(* to a correction (engine.rs:425, "a schema-failed response doesn't       *)
(* poison the cache").                                                     *)
OnlyValidAnswers ==
    Mode = "json_schema" =>
        /\ \A k \in Keys : cache[k] = NoValue \/ cache[k].content = "valid"
        /\ \A c \in Callers :
            /\ call[c].pc \in {"record", "store"} => call[c].validated.content = "valid"
            /\ call[c].reply.status = "ok" => call[c].reply.value.content = "valid"

(* A delivered answer, cached or not, is to the very system and user text  *)
(* that were asked, whatever else the cache was asked for and however the  *)
(* two are cut, as long as the caller's own texts hold no NUL: the key     *)
(* ends its fields with one and escapes none (cache.rs:70-75,              *)
(* engine.rs:174-191).                                                     *)
NulFree(args) ==
    /\ \A i \in DOMAIN args.system : args.system[i] # Nul
    /\ \A i \in DOMAIN args.user : args.user[i] # Nul

AnswersTheText ==
    \A c \in Callers :
        LET asked == call[c].args
            answered == call[c].reply.value.answers
        IN  call[c].reply.status = "ok" /\ NulFree(asked) =>
                answered.system = asked.system /\ answered.user = asked.user

(* What a successful call is billed for: the loop's tokens, which is all   *)
(* of them unless a correction was needed, never more than the provider    *)
(* charged, and below the per-call cap.                                    *)
BilledForTheLoop ==
    \A c \in Callers : At(c, "record") =>
        /\ call[c].total_tokens <= call[c].charged
        /\ ~call[c].corrective => call[c].total_tokens = call[c].charged
        /\ TokensPerCallCap > 0 => call[c].total_tokens < TokensPerCallCap

(* Every call ends, whatever the provider, the tools and the cache answer. *)
CallsEnd == \A c \in Callers : ~At(c, "idle") ~> At(c, "idle")

-----------------------------------------------------------------------------
(* The engine implements the budget gate: between the gate and the record  *)
(* the ledger sees nothing of a call.                                      *)

GatePhase(pc) ==
    CASE pc \in {"idle", "store"} -> "idle"
      [] pc = "gate" -> "checking"
      [] pc = "record" -> "recording"
      [] OTHER -> "calling"

Gate == INSTANCE BudgetGate WITH
    MaxCost <- MaxTokens * MaxIterations,
    phase <- [c \in Callers |-> GatePhase(call[c].pc)],
    stamp <- [c \in Callers |-> call[c].stamp],
    cost <- [c \in Callers |-> IF At(c, "record") THEN Cost(call[c]) ELSE 0]

ImplementsGate == Gate!Spec

-----------------------------------------------------------------------------
(* What the documentation says of the engine.                              *)

(* cache.rs:20-24: the key hashes "anything that would change the          *)
(* upstream's deterministic output", so an answer is to these very inputs. *)
CachedAnswerIsToTheseInputs ==
    \A c \in Callers : call[c].reply.status = "ok" =>
        call[c].reply.value.answers = call[c].args

=============================================================================
