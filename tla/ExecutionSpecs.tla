---------------------------- MODULE ExecutionSpecs ----------------------------
(***************************************************************************)
(* The execution specs of the bindings (src/chat_config.rs,                *)
(* src/embedding_config.rs, src/image_config.rs, src/audio_config.rs):     *)
(* what serde puts where a field is not given, and what validate lets      *)
(* through.  The engines' models assume no more of their constants.        *)
(*                                                                         *)
(* A text is blank, "", or not; an Option is a set of at most one.         *)
(***************************************************************************)
EXTENDS Naturals

Blank(text) == text = ""

ChatDefaults ==
    [system |-> "given", user |-> "given",
     timeout_ms |-> 60000, connect_timeout_ms |-> 5000,
     mode |-> "json_schema", on_mismatch |-> "error",
     allowed |-> {}, max_iterations |-> {}, exhausted |-> "error",
     max_attempts |-> 3, initial_backoff_ms |-> 500, max_backoff_ms |-> 8000,
     cache_enabled |-> FALSE, ttl_seconds |-> 3600000,
     tokens_per_call_cap |-> 0, usd_daily_cap |-> 0]

ResolvedMaxIterations(spec) ==
    IF spec.max_iterations # {} THEN CHOOSE n \in spec.max_iterations : TRUE
    ELSE IF spec.allowed = {} THEN 1 ELSE 5

(* ChatExecutionSpec::validate.  Signed zeros and NaN are left out.        *)
ValidChat(spec) ==
    /\ spec.mode \in {"json_schema", "text"}
    /\ spec.on_mismatch \in {"error", "retry_once", "return_raw"}
    /\ spec.on_mismatch = "return_raw" => spec.mode = "text"
    /\ ResolvedMaxIterations(spec) \in 1..50
    /\ spec.timeout_ms > 0 /\ spec.connect_timeout_ms > 0
    /\ spec.max_attempts > 0
    /\ spec.initial_backoff_ms <= spec.max_backoff_ms
    /\ spec.cache_enabled => spec.allowed = {}
    /\ \A name \in spec.allowed : ~Blank(name)
    /\ ~Blank(spec.system) /\ ~Blank(spec.user)
    /\ spec.usd_daily_cap >= 0

EmbeddingDefaults ==
    [model |-> "", timeout_ms |-> 10000, connect_timeout_ms |-> 5000,
     max_batch_size |-> {},
     max_attempts |-> 3, initial_backoff_ms |-> 200, max_backoff_ms |-> 2000,
     cache_enabled |-> FALSE, ttl_seconds |-> 86400]

ImageDefaults ==
    [model |-> "", timeout_ms |-> 60000, connect_timeout_ms |-> 5000, n |-> {},
     max_attempts |-> 3, initial_backoff_ms |-> 200, max_backoff_ms |-> 2000]

(* Speed in hundredths.                                                    *)
TtsDefaults ==
    [model |-> "", timeout_ms |-> 60000, connect_timeout_ms |-> 5000,
     voice |-> "", speed |-> {},
     max_attempts |-> 3, initial_backoff_ms |-> 200, max_backoff_ms |-> 2000]

SttDefaults ==
    [model |-> "", timeout_ms |-> 60000, connect_timeout_ms |-> 5000, max_input_bytes |-> {},
     max_attempts |-> 3, initial_backoff_ms |-> 200, max_backoff_ms |-> 2000]

(* What the validate functions of all but chats begin and end with.        *)
Answerable(spec) ==
    /\ ~Blank(spec.model)
    /\ spec.timeout_ms > 0 /\ spec.connect_timeout_ms > 0
    /\ spec.max_attempts > 0

ValidEmbedding(spec) == Answerable(spec) /\ 0 \notin spec.max_batch_size
ValidImage(spec) == Answerable(spec) /\ 0 \notin spec.n
ValidTts(spec) == Answerable(spec) /\ ~Blank(spec.voice) /\ spec.speed \subseteq 25..400
ValidStt(spec) == Answerable(spec)

(* effective_batch_size: what the adapter can take, or less.               *)
EffectiveBatchSize(spec, adapterMax) ==
    LET cap == IF adapterMax = 0 THEN 1 ELSE adapterMax
    IN  CHOOSE n \in 1..cap :
            /\ \A b \in spec.max_batch_size : n <= b
            /\ n = cap \/ n \in spec.max_batch_size

=============================================================================
