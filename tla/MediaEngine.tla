------------------------------ MODULE MediaEngine ------------------------------
(***************************************************************************)
(* ImageEngine (src/image_engine.rs), TtsEngine and SttEngine              *)
(* (src/audio_engine.rs), and the prefetching of a chat's media            *)
(* (src/multimodal.rs), over the in-process content store behind their     *)
(* host.                                                                   *)
(*                                                                         *)
(* What they do with the store is one of two things: fetch what arguments  *)
(* name before the provider is asked, or keep what the provider made and   *)
(* answer with the URIs.  A call is a task of the store's; it is split at  *)
(* every await.  The provider answers or fails as it likes.  A content     *)
(* stands for its own URI: an id is its hash or an alias.                  *)
(***************************************************************************)
EXTENDS InProcessContentStore, MediaInputs, ExecutionSpecs

CONSTANTS
    Callers,        \* the tasks that make calls
    Type,           \* of each content: what its magic bytes say
    Prompts,        \* chats: the values of the image, audio and file arguments
    Recordings,     \* transcriptions: the value of `audio`
    Generated,      \* what providers may make: sequences of contents
    MaxAttempts,    \* EmbeddingRetrySpec::max_attempts
    MaxInputBytes   \* DEFAULT_MAX_INLINE_BYTES, SttExecutionSpec::max_input_bytes

ASSUME MediaAssumption ==
    /\ ValidImage([ImageDefaults EXCEPT !.model = "given", !.max_attempts = MaxAttempts])
    /\ ValidTts([TtsDefaults EXCEPT !.model = "given", !.voice = "given",
                                    !.max_attempts = MaxAttempts])
    /\ ValidStt([SttDefaults EXCEPT !.model = "given", !.max_input_bytes = {MaxInputBytes},
                                    !.max_attempts = MaxAttempts])
    /\ MaxAttempts \in Nat /\ MaxInputBytes \in Nat
    /\ Callers \subseteq Tasks
    /\ \A h \in Hashes : Type[h] \in {"image", "document", "audio", "unknown"}
    /\ Recordings \subseteq Values(Hashes \cup Aliases)
    /\ LET values == Seq(Values(Hashes \cup Aliases))
       IN  Prompts \subseteq [image : values, audio : values, file : values]
    /\ \A made \in Generated : made \in Seq(Hashes)

VARIABLE call           \* each caller's call

mediaVars == <<vars, call>>

(* The locals of a call: the parts to resolve, the contents the provider   *)
(* made that are not yet stored, the URIs of those that are.  History: the *)
(* parts as they were given, all that the provider made, and how often it  *)
(* did answer.                                                             *)
NoCall ==
    [pc |-> "idle", kind |-> "none", parts |-> <<>>, attempt |-> 0,
     unstored |-> <<>>, uris |-> <<>>, reply |-> "none",
     given |-> <<>>, made |-> <<>>, paid |-> 0]

MediaInit == Init /\ call = [c \in Callers |-> NoCall]

-----------------------------------------------------------------------------
CallAt(c, pc) == call[c].pc = pc

Moves(c, state) == call' = [call EXCEPT ![c] = state]
Become(c, state) == Moves(c, state) /\ UNCHANGED vars

(* The call returns: with an error, its locals dropped, or with the URIs.  *)
Failed == [NoCall EXCEPT !.reply = "error"]
Answered(state) ==
    [NoCall EXCEPT !.reply = "ok", !.uris = state.uris, !.made = state.made]

Fail(c) == Become(c, Failed)

Requesting(state) == [state EXCEPT !.pc = "request", !.attempt = 1]

Unresolved(parts) == {i \in DOMAIN parts : parts[i].source.variant = "resource"}

(* The walk goes on to the next part that names a resource.                *)
Walking(state) ==
    IF Unresolved(state.parts) = {} THEN Requesting(state)
    ELSE [state EXCEPT !.pc = "fetch"]

Given(kind, parts) == [NoCall EXCEPT !.kind = kind, !.parts = parts, !.given = parts]

TooLarge(h) == MaxInputBytes # 0 /\ Size[h] > MaxInputBytes

(* What was fetched is within the limit, and an image has a type.          *)
Usable(media, h) == ~TooLarge(h) /\ (media = "image" => SniffMime(Type[h]) # "")

(* The type a resolved part goes on with: a recording's own before the     *)
(* stated one, which is audio/mpeg in the end; in a chat, an image's own,  *)
(* a recording's format, a file's stated one before its own.               *)
Mime(part, h) ==
    LET stated == part.source.mime
        own == IF part.media = "recording" THEN SniffAudioMime(Type[h]) ELSE SniffMime(Type[h])
    IN  CASE part.media = "image" -> own
          [] part.media = "audio" -> stated
          [] part.media = "file" -> IF stated # "" THEN stated ELSE own
          [] OTHER -> IF own # "" THEN own ELSE IF stated # "" THEN stated ELSE "audio/mpeg"

(* Mutant: what is too large is taken as well.                             *)
TakingAnySize(state, i, h) ==
    LET part == state.parts[i]
    IN  Walking([state EXCEPT !.parts[i].source = Source("base64", h, Mime(part, h))])

Taking(state, i, h) ==
    LET part == state.parts[i]
    IN  IF Usable(part.media, h)
        THEN Walking([state EXCEPT !.parts[i].source = Source("base64", h, Mime(part, h))])
        ELSE Failed

-----------------------------------------------------------------------------
(* Arguments *)

Begins(c) == CallAt(c, "idle") /\ At(c, "idle")

(* A prompt, text or voice that is missing or blank, n = 0.                *)
Refuse(c) == Begins(c) /\ Fail(c)

GenerateImages(c) == Begins(c) /\ Become(c, Requesting([NoCall EXCEPT !.kind = "image"]))

Synthesize(c) == Begins(c) /\ Become(c, Requesting([NoCall EXCEPT !.kind = "speech"]))

(* A data URL is no base64.                                                *)
Decodes(value) == value.says \cap {"data:", "data:,"} = {}

(* resolve_audio_input, but for the fetching: nothing recognised, a URL,   *)
(* base64 that decodes or does not, or a resource.                         *)
Transcribe(c) ==
    /\ Begins(c)
    /\ \E value \in Recordings :
        LET parts == Read("recording", value)
            state == Given("transcription", parts)
            is(variant) == parts # <<>> /\ parts[1].source.variant = variant
        IN  \/ ~is("resource") /\ Fail(c)
            \/ is("base64") /\ Decodes(value) /\ Become(c, Taking(state, 1, value.content))
            \/ is("resource") /\ Become(c, Walking(state))

Chat(c) ==
    /\ Begins(c)
    /\ \E args \in Prompts : Become(c, Walking(Given("chat", UserParts(args))))

-----------------------------------------------------------------------------
(* Resolving resources *)

(* fetch_inline and resolve_audio_input: one get, behind the host.         *)
Fetch(c) ==
    LET state == call[c]
        i == Min(Unresolved(state.parts))
        h == Resolve(state.parts[i].source.content)
    IN  /\ CallAt(c, "fetch")
        /\ \/ h \notin Present /\ Fail(c)
           \/ /\ h \in Present /\ expiresAt[h] <= now
              /\ Drops({h}) /\ UNCHANGED <<now, aliasToHash, task>>
              /\ Moves(c, Failed)
           \/ /\ h \in Present /\ expiresAt[h] > now
              /\ Serve(h) /\ UNCHANGED <<now, task>>
              /\ Moves(c, Taking(state, i, h))

(* The host's store does not answer.                                       *)
FetchFails(c) == CallAt(c, "fetch") /\ Fail(c)

-----------------------------------------------------------------------------
(* call_with_retry, call_with_retry_tts, call_with_retry_stt *)

(* A transient error with attempts left.                                   *)
RetryLater(c) ==
    /\ CallAt(c, "request")
    /\ call[c].attempt < MaxAttempts
    /\ Become(c, [call[c] EXCEPT !.pc = "backoff"])

(* A lasting one, or a transient one at the last attempt.                  *)
GiveUp(c) == CallAt(c, "request") /\ Fail(c)

Wake(c) ==
    /\ CallAt(c, "backoff")
    /\ Become(c, [call[c] EXCEPT !.pc = "request", !.attempt = @ + 1])

(* What was made is stored one by one, and the answer is its URIs.         *)
Storing(state) ==
    IF state.unstored # <<>> THEN [state EXCEPT !.pc = "store"]
    ELSE Answered(state)

Answers(c) ==
    /\ CallAt(c, "request")
    /\ \E made \in CASE call[c].kind = "image" -> Generated
                     [] call[c].kind = "speech" -> {m \in Generated : Len(m) = 1}
                     [] OTHER -> {<<>>} :
        Become(c, Storing([call[c] EXCEPT !.attempt = 0, !.unstored = made, !.made = made,
                                          !.paid = @ + 1]))

-----------------------------------------------------------------------------
(* store_content, with no TTL *)

(* Mutants: an image that cannot be stored is left out; the provider is    *)
(* asked for another.                                                      *)
StoreSkips(c) ==
    /\ CallAt(c, "store")
    /\ Become(c, Storing([call[c] EXCEPT !.unstored = Tail(@)]))

StoreAsksAgain(c) ==
    /\ CallAt(c, "store")
    /\ Become(c, [call[c] EXCEPT !.pc = "request"])

(* It is refused for its size, or the host's store fails: so does the      *)
(* call, and what it has stored before stays.                              *)
StoreFails(c) == CallAt(c, "store") /\ Fail(c)

Store(c) ==
    /\ CallAt(c, "store")
    /\ Offer(c, Head(call[c].unstored), None, Never)
    /\ Moves(c, [call[c] EXCEPT !.pc = "storing"])

Stored(c) ==
    /\ CallAt(c, "storing")
    /\ Insert(c)
    /\ Moves(c, Storing([call[c] EXCEPT !.uris = Append(@, Head(call[c].unstored)),
                                        !.unstored = Tail(@)]))

(* The host drops the future at an await.                                  *)
Abandon(c) ==
    /\ call[c].pc \in {"fetch", "request", "backoff", "storing"}
    /\ task' = [task EXCEPT ![c] = Idle]
    /\ Moves(c, Failed)
    /\ UNCHANGED <<now, inner, history>>

-----------------------------------------------------------------------------
Begin(c) == Refuse(c) \/ GenerateImages(c) \/ Synthesize(c) \/ Transcribe(c) \/ Chat(c)

Progress(c) ==
    \/ Fetch(c) \/ FetchFails(c)
    \/ RetryLater(c) \/ GiveUp(c) \/ Wake(c) \/ Answers(c)
    \/ Store(c) \/ StoreFails(c) \/ Stored(c)

(* Beside the other users of the store.                                    *)
MediaNext ==
    \/ \E c \in Callers : Begin(c) \/ Progress(c) \/ Abandon(c)
    \/ \E t \in Tasks \ Callers : TaskStep(t) /\ UNCHANGED call
    \/ (Get \/ Delete \/ Tick) /\ UNCHANGED call

MediaSpec == MediaInit /\ [][MediaNext]_mediaVars

-----------------------------------------------------------------------------
MediaTypeOK ==
    /\ TypeOK
    /\ \A c \in Callers :
        /\ call[c].pc \in {"idle", "fetch", "request", "backoff", "store", "storing"}
        /\ call[c].attempt \in 0..MaxAttempts
        /\ CallAt(c, "fetch") => Unresolved(call[c].parts) # {}
        /\ CallAt(c, "storing") <=> At(c, "put")

(* What the provider is asked about is what the arguments name: every      *)
(* part in its place, no resource left for the adapter to fetch, a hash    *)
(* answered with that very content, nothing over the limit, an image with  *)
(* a type; whatever is put, redirected, deleted or swept while the walk    *)
(* waits (multimodal.rs:7-10, 66-108, audio_engine.rs:287-363).            *)
ProviderSeesTheInputs ==
    \A c \in Callers : CallAt(c, "request") =>
        LET parts == call[c].parts
            given == call[c].given
        IN  /\ Len(parts) = Len(given)
            /\ \A i \in DOMAIN parts :
                /\ parts[i].media = given[i].media
                /\ parts[i].source.variant # "resource"
                /\ given[i].source.content \in Hashes =>
                    parts[i].source.content = given[i].source.content
                /\ IF given[i].source.variant = "resource" \/ parts[i].media = "recording"
                   THEN Usable(parts[i].media, parts[i].source.content)
                   ELSE parts[i] = given[i]

(* The provider is paid at most once for a call: it is asked again only    *)
(* after an error of its own, never because the store failed or evicted    *)
(* what it made (image_engine.rs:122-129, 161-183, 206-233).               *)
PaidOnce ==
    \A c \in Callers :
        /\ call[c].paid <= 1
        /\ call[c].paid = 1 => call[c].pc \in {"store", "storing"}

(* An answer names everything the provider made, in its order, also what   *)
(* it made twice; a call that could not keep it all fails                  *)
(* (image_engine.rs:161-185, audio_engine.rs:143-155).                     *)
AnswerIsComplete ==
    \A c \in Callers :
        /\ CallAt(c, "idle") => call[c].uris = call[c].made
        /\ call[c].uris \o call[c].unstored = call[c].made

=============================================================================
