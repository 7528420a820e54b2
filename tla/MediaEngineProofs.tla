--------------------------- MODULE MediaEngineProofs ---------------------------
(***************************************************************************)
(* The media engines do to the content store what its users may do, and    *)
(* what they owe their host, for any callers, arguments, contents and      *)
(* attempts: paying once, complete answers, and a provider that is asked   *)
(* about what the arguments name.                                          *)
(***************************************************************************)
EXTENDS MediaEngine, InProcessContentStoreProofs, SequenceTheorems

(* A call: the parts are whatever the arguments were.                      *)
CallStates(parts, given) ==
    [pc : {"idle", "fetch", "request", "backoff", "store", "storing"},
     kind : {"none", "image", "speech", "transcription", "chat"}, parts : parts,
     attempt : Nat, unstored : Seq(Hashes), uris : Seq(Hashes),
     reply : {"none", "ok", "error"}, given : given, made : Seq(Hashes), paid : {0, 1}]

(* It is paid for, and has something to store, until all of it is stored.  *)
Orderly(state) ==
    /\ state \in CallStates({state.parts}, {state.given})
    /\ IF state.pc \in {"store", "storing"}
       THEN state.paid = 1 /\ state.unstored # <<>> /\ state.uris \o state.unstored = state.made
       ELSE state.paid = 0 /\ state.unstored = <<>> /\ state.uris = state.made
    /\ state.pc \in {"fetch", "request", "backoff"} => state.made = <<>>

MediaInv ==
    /\ call \in [Callers -> {call[c] : c \in Callers}]
    /\ \A c \in Callers : Orderly(call[c])
    /\ task \in [Tasks -> {task[t] : t \in Tasks}]
    /\ \A t \in Tasks : At(t, "idle") => task[t] = Idle

-----------------------------------------------------------------------------
(* States of a call *)

LEMMA EmptySequences == <<>> \in Seq(Hashes) /\ <<>> \o <<>> = <<>>
OBVIOUS

LEMMA NoCallOrderly ==
    /\ Orderly(NoCall) /\ Orderly(Failed)
    /\ \A kind \in {"image", "speech"} : Orderly(Requesting([NoCall EXCEPT !.kind = kind]))
BY EmptySequences DEF Orderly, CallStates, NoCall, Failed, Requesting

LEMMA GivenOrderly ==
    ASSUME NEW kind \in {"transcription", "chat"}, NEW parts
    PROVE  Orderly(Given(kind, parts)) /\ Given(kind, parts).made = <<>>
BY EmptySequences DEF Orderly, CallStates, NoCall, Given

LEMMA WalkingOrderly ==
    ASSUME NEW state, Orderly(state), state.made = <<>>,
           state.pc \notin {"store", "storing"}
    PROVE  Orderly(Walking(state))
<1>1. Orderly(Requesting(state))
  BY DEF Orderly, CallStates, Requesting
<1>2. Orderly([state EXCEPT !.pc = "fetch"])
  BY DEF Orderly, CallStates
<1> QED
  BY <1>1, <1>2 DEF Walking

LEMMA TakingOrderly ==
    ASSUME NEW state, Orderly(state), state.made = <<>>,
           state.pc \notin {"store", "storing"}, NEW i, NEW h
    PROVE  Orderly(Taking(state, i, h))
<1> DEFINE taken == [state EXCEPT !.parts[i].source =
                        Source("base64", h, Mime(state.parts[i], h))]
<1>1. Orderly(taken) /\ taken.made = <<>> /\ taken.pc \notin {"store", "storing"}
  BY DEF Orderly, CallStates
<1>2. Orderly(Walking(taken))
  <2> HIDE DEF taken
  <2> QED
    BY <1>1, WalkingOrderly
<1> QED
  BY <1>2, NoCallOrderly DEF Taking

(* What was made is moved from unstored to uris one by one.                *)
LEMMA StoringOrderly ==
    ASSUME NEW state, state \in CallStates({state.parts}, {state.given}),
           state.paid = 1, state.uris \o state.unstored = state.made
    PROVE  Orderly(Storing(state))
<1>0. state.uris \in Seq(Hashes) /\ state.made \in Seq(Hashes)
  BY DEF CallStates
<1>1. CASE state.unstored # <<>>
  <2>1. Orderly([state EXCEPT !.pc = "store"])
    BY <1>1 DEF Orderly, CallStates
  <2> QED
    BY <1>1, <2>1 DEF Storing
<1>2. CASE state.unstored = <<>>
  <2>1. state.uris = state.made
    BY <1>0, <1>2
  <2>2. Orderly(Answered(state))
    BY <1>0, <2>1, EmptySequences DEF Orderly, CallStates, Answered, NoCall
  <2> QED
    BY <1>2, <2>2 DEF Storing
<1> QED
  BY <1>1, <1>2

LEMMA OneMoreStored ==
    ASSUME NEW uris \in Seq(Hashes), NEW unstored \in Seq(Hashes), unstored # <<>>
    PROVE  /\ Head(unstored) \in Hashes /\ Tail(unstored) \in Seq(Hashes)
           /\ Append(uris, Head(unstored)) \in Seq(Hashes)
           /\ Append(uris, Head(unstored)) \o Tail(unstored) = uris \o unstored
OBVIOUS

-----------------------------------------------------------------------------
LEMMA MediaInitInv ==
    ASSUME MediaInit
    PROVE  MediaInv
BY NoCallOrderly DEF MediaInit, MediaInv, Init, At

LEMMA CallMoves ==
    ASSUME MediaInv, NEW c \in Callers, NEW state, Orderly(state), Moves(c, state)
    PROVE  /\ call' \in [Callers -> {call'[d] : d \in Callers}]
           /\ \A d \in Callers : Orderly(call'[d])
BY DEF MediaInv, Moves

(* Whatever is done to the store, a task that leaves it brings nothing.    *)
LEMMA TasksMove ==
    ASSUME MediaInv, NEW t \in Tasks, NEW request, request.pc = "idle" => request = Idle,
           task' = [task EXCEPT ![t] = request]
    PROVE  /\ task' \in [Tasks -> {task'[u] : u \in Tasks}]
           /\ \A u \in Tasks : At(u, "idle")' => task'[u] = Idle
BY DEF MediaInv, At

LEMMA BecomeKeeps ==
    ASSUME MediaInv, NEW c \in Callers, NEW state, Orderly(state), Become(c, state)
    PROVE  MediaInv'
<1>1. Moves(c, state) /\ task' = task
  BY DEF Become, vars
<1> QED
  BY <1>1, CallMoves DEF MediaInv, At

(* A call and its task move together.                                      *)
LEMMA BothKeep ==
    ASSUME MediaInv, NEW c \in Callers, NEW state, Orderly(state), Moves(c, state),
           NEW t \in Tasks, NEW request, request.pc = "idle" => request = Idle,
           task' = [task EXCEPT ![t] = request]
    PROVE  MediaInv'
<1>1. /\ call' \in [Callers -> {call'[d] : d \in Callers}]
      /\ \A d \in Callers : Orderly(call'[d])
  BY CallMoves
<1>2. /\ task' \in [Tasks -> {task'[u] : u \in Tasks}]
      /\ \A u \in Tasks : At(u, "idle")' => task'[u] = Idle
  BY TasksMove
<1> QED
  BY <1>1, <1>2 DEF MediaInv

LEMMA StoreMoves ==
    ASSUME MediaInv, UNCHANGED call, NEW t \in Tasks, NEW request,
           request.pc = "idle" => request = Idle,
           task' = [task EXCEPT ![t] = request]
    PROVE  MediaInv'
<1>1. /\ task' \in [Tasks -> {task'[u] : u \in Tasks}]
      /\ \A u \in Tasks : At(u, "idle")' => task'[u] = Idle
  BY TasksMove
<1> QED
  BY <1>1 DEF MediaInv

(* What leaves the task alone, in the store and beside it.                 *)
LEMMA OthersKeep ==
    ASSUME MediaInv, UNCHANGED <<call, task>>
    PROVE  MediaInv'
BY DEF MediaInv, At

LEMMA BeginKeeps ==
    ASSUME MediaInv, NEW c \in Callers, Begin(c)
    PROVE  MediaInv'
<1>1. CASE Refuse(c)
  BY <1>1, NoCallOrderly, BecomeKeeps DEF Refuse, Fail
<1>2. CASE GenerateImages(c)
  BY <1>2, NoCallOrderly, BecomeKeeps DEF GenerateImages
<1>3. CASE Synthesize(c)
  BY <1>3, NoCallOrderly, BecomeKeeps DEF Synthesize
<1>4. CASE Transcribe(c)
  <2>1. PICK value \in Recordings :
          LET parts == Read("recording", value)
              state == Given("transcription", parts)
          IN  \/ Fail(c)
              \/ Become(c, Taking(state, 1, value.content))
              \/ Become(c, Walking(state))
    BY <1>4 DEF Transcribe
  <2> DEFINE state == Given("transcription", Read("recording", value))
  <2>2. Orderly(state) /\ state.made = <<>> /\ state.pc = "idle"
    BY GivenOrderly DEF Given, NoCall
  <2> HIDE DEF state
  <2>3. Orderly(Taking(state, 1, value.content)) /\ Orderly(Walking(state))
    BY <2>2, TakingOrderly, WalkingOrderly
  <2>4. \/ Fail(c)
        \/ Become(c, Taking(state, 1, value.content))
        \/ Become(c, Walking(state))
    BY <2>1 DEF state
  <2> QED
    BY <2>3, <2>4, NoCallOrderly, BecomeKeeps DEF Fail
<1>5. CASE Chat(c)
  <2>1. PICK args \in Prompts : Become(c, Walking(Given("chat", UserParts(args))))
    BY <1>5 DEF Chat
  <2> DEFINE state == Given("chat", UserParts(args))
  <2>2. Orderly(state) /\ state.made = <<>> /\ state.pc = "idle"
    BY GivenOrderly DEF Given, NoCall
  <2> HIDE DEF state
  <2>3. Orderly(Walking(state))
    BY <2>2, WalkingOrderly
  <2>4. Become(c, Walking(state))
    BY <2>1 DEF state
  <2> QED
    BY <2>3, <2>4, BecomeKeeps
<1> QED
  BY <1>1, <1>2, <1>3, <1>4, <1>5 DEF Begin

LEMMA ProgressKeeps ==
    ASSUME MediaInv, NEW c \in Callers, Progress(c)
    PROVE  MediaInv'
<1>0. Orderly(call[c]) /\ c \in Tasks
  BY MediaAssumption DEF MediaInv
<1>1. CASE Fetch(c)
  <2> DEFINE state == call[c]
             i == Min(Unresolved(state.parts))
             h == Resolve(state.parts[i].source.content)
  <2>1. state.pc = "fetch" /\ state.made = <<>>
    BY <1>0, <1>1 DEF Fetch, CallAt, Orderly
  <2>2. Orderly(Failed) /\ Orderly(Taking(state, i, h))
    BY <1>0, <2>1, NoCallOrderly, TakingOrderly
  <2>3. task' = task /\ (Moves(c, Failed) \/ Moves(c, Taking(state, i, h)))
    BY <1>1 DEF Fetch, Fail, Become, vars
  <2> HIDE DEF state, i, h
  <2>4. /\ call' \in [Callers -> {call'[d] : d \in Callers}]
        /\ \A d \in Callers : Orderly(call'[d])
    BY <2>2, <2>3, CallMoves
  <2> QED
    BY <2>3, <2>4 DEF MediaInv, At
<1>2. CASE FetchFails(c) \/ GiveUp(c) \/ StoreFails(c)
  BY <1>2, NoCallOrderly, BecomeKeeps DEF FetchFails, GiveUp, StoreFails, Fail
<1>3. CASE RetryLater(c)
  <2>1. Orderly([call[c] EXCEPT !.pc = "backoff"])
    BY <1>0, <1>3 DEF RetryLater, CallAt, Orderly, CallStates
  <2> QED
    BY <1>3, <2>1, BecomeKeeps DEF RetryLater
<1>4. CASE Wake(c)
  <2> DEFINE next == call[c].attempt + 1
             state == [call[c] EXCEPT !.pc = "request", !.attempt = @ + 1]
  <2>0. next \in Nat /\ call[c].attempt \in Nat
    BY <1>0 DEF Orderly, CallStates
  <2>1. state = [call[c] EXCEPT !.pc = "request", !.attempt = next]
    BY <1>0 DEF Orderly, CallStates
  <2> HIDE DEF next
  <2>2. Orderly(state)
    <3>1. Orderly([call[c] EXCEPT !.pc = "request", !.attempt = next])
      BY <1>0, <1>4, <2>0 DEF Wake, CallAt, Orderly, CallStates
    <3> QED
      BY <2>1, <3>1
  <2> QED
    BY <1>4, <2>2, BecomeKeeps DEF Wake
<1>5. CASE Answers(c)
  <2>1. PICK made \in Seq(Hashes) :
          Become(c, Storing([call[c] EXCEPT !.attempt = 0, !.unstored = made, !.made = made,
                                            !.paid = @ + 1]))
    <3>1. <<>> \in Seq(Hashes) /\ \A made \in Generated : made \in Seq(Hashes)
      BY MediaAssumption
    <3> QED
      BY <1>5, <3>1 DEF Answers
  <2> DEFINE state == [call[c] EXCEPT !.attempt = 0, !.unstored = made, !.made = made,
                                      !.paid = @ + 1]
  <2>2. call[c].paid = 0 /\ call[c].uris = <<>>
    BY <1>0, <1>5 DEF Answers, CallAt, Orderly
  <2>3. /\ state \in CallStates({state.parts}, {state.given})
        /\ state.paid = 1 /\ state.uris \o state.unstored = state.made
    <3> DEFINE answered == [call[c] EXCEPT !.attempt = 0, !.unstored = made, !.made = made,
                                           !.paid = 1]
    <3>1. call[c].paid + 1 = 1
      BY <2>2
    <3>2. state = answered
      BY <1>0, <3>1 DEF Orderly, CallStates
    <3>3. <<>> \o made = made
      OBVIOUS
    <3>4. /\ answered \in CallStates({answered.parts}, {answered.given})
          /\ answered.paid = 1 /\ answered.uris \o answered.unstored = answered.made
      BY <1>0, <2>2, <3>3 DEF Orderly, CallStates
    <3> QED
      BY <3>2, <3>4
  <2> HIDE DEF state
  <2>4. Orderly(Storing(state))
    BY <2>3, StoringOrderly
  <2>5. Become(c, Storing(state))
    BY <2>1 DEF state
  <2> QED
    BY <2>4, <2>5, BecomeKeeps
<1>6. CASE Store(c)
  <2> DEFINE request == [pc |-> "put", hash |-> Head(call[c].unstored), alias |-> None,
                         at |-> Never]
  <2>1. Orderly([call[c] EXCEPT !.pc = "storing"])
    BY <1>0, <1>6 DEF Store, CallAt, Orderly, CallStates
  <2>2. task' = [task EXCEPT ![c] = request] /\ Moves(c, [call[c] EXCEPT !.pc = "storing"])
    BY <1>6 DEF Store, Offer
  <2>3. request.pc = "idle" => request = Idle
    OBVIOUS
  <2> HIDE DEF request
  <2> QED
    BY <1>0, <2>1, <2>2, <2>3, BothKeep
<1>7. CASE Stored(c)
  <2> DEFINE state == [call[c] EXCEPT !.uris = Append(@, Head(call[c].unstored)),
                                      !.unstored = Tail(@)]
  <2>1. /\ call[c] \in CallStates({call[c].parts}, {call[c].given}) /\ call[c].paid = 1
        /\ call[c].uris \in Seq(Hashes)
        /\ call[c].unstored \in Seq(Hashes) /\ call[c].unstored # <<>>
        /\ call[c].uris \o call[c].unstored = call[c].made
    BY <1>0, <1>7 DEF Stored, CallAt, Orderly, CallStates
  <2> DEFINE uris == Append(call[c].uris, Head(call[c].unstored))
             unstored == Tail(call[c].unstored)
  <2>2. /\ uris \in Seq(Hashes) /\ unstored \in Seq(Hashes)
        /\ uris \o unstored = call[c].made
    BY <2>1, OneMoreStored
  <2>3. state = [call[c] EXCEPT !.uris = uris, !.unstored = unstored]
    BY <2>1 DEF CallStates
  <2> HIDE DEF uris, unstored
  <2>4. /\ state \in CallStates({state.parts}, {state.given})
        /\ state.paid = 1 /\ state.uris \o state.unstored = state.made
    BY <2>1, <2>2, <2>3 DEF CallStates
  <2>5. Moves(c, Storing(state)) /\ task' = [task EXCEPT ![c] = Idle]
    BY <1>7 DEF Stored, Insert
  <2> HIDE DEF state
  <2>6. Orderly(Storing(state))
    BY <2>4, StoringOrderly
  <2> QED
    BY <1>0, <2>5, <2>6, BothKeep
<1> QED
  BY <1>1, <1>2, <1>3, <1>4, <1>5, <1>6, <1>7 DEF Progress

LEMMA TaskStepKeeps ==
    ASSUME MediaInv, NEW t \in Tasks, TaskStep(t), UNCHANGED call
    PROVE  MediaInv'
<1>1. CASE Put(t)
  <2>1. PICK h \in Hashes, a \in Aliases \cup {None}, e \in {now + 1, Never} : Offer(t, h, a, e)
    BY <1>1 DEF Put
  <2> DEFINE request == [pc |-> "put", hash |-> h, alias |-> a, at |-> e]
  <2>2. task' = [task EXCEPT ![t] = request] /\ (request.pc = "idle" => request = Idle)
    BY <2>1 DEF Offer
  <2> HIDE DEF request
  <2> QED
    BY <2>2, StoreMoves
<1>2. CASE Insert(t) \/ SweepExpired(t) \/ Cancel(t)
  <2>1. task' = [task EXCEPT ![t] = Idle]
    BY <1>2 DEF Insert, SweepExpired, Cancel
  <2> QED
    BY <2>1, StoreMoves
<1>3. CASE Sweep(t)
  <2> DEFINE request == [Idle EXCEPT !.pc = "sweep", !.at = now]
  <2>1. task' = [task EXCEPT ![t] = request] /\ (request.pc = "idle" => request = Idle)
    BY <1>3 DEF Sweep, Idle
  <2> HIDE DEF request
  <2> QED
    BY <2>1, StoreMoves
<1> QED
  BY <1>1, <1>2, <1>3 DEF TaskStep

LEMMA MediaStepKeeps ==
    ASSUME MediaInv, [MediaNext]_mediaVars
    PROVE  MediaInv'
<1>1. ASSUME NEW c \in Callers, Abandon(c) PROVE MediaInv'
  BY <1>1, NoCallOrderly, BothKeep, MediaAssumption DEF Abandon
<1>2. CASE (Get \/ Delete \/ Tick) /\ UNCHANGED call
  BY <1>2, OthersKeep DEF Get, Delete, Tick
<1>3. CASE UNCHANGED mediaVars
  BY <1>3, OthersKeep DEF mediaVars, vars
<1> QED
  BY <1>1, <1>2, <1>3, BeginKeeps, ProgressKeeps, TaskStepKeeps DEF MediaNext

-----------------------------------------------------------------------------
(* What the engines do to the store *)

LEMMA CallsUseTheStore ==
    ASSUME MediaInv, [MediaNext]_mediaVars
    PROVE  [Next]_vars
<1>1. ASSUME NEW c \in Callers, Begin(c) PROVE UNCHANGED vars
  BY <1>1 DEF Begin, Refuse, GenerateImages, Synthesize, Transcribe, Chat, Fail, Become
<1>2. ASSUME NEW c \in Callers, Progress(c) PROVE [Next]_vars
  <2>0. Orderly(call[c]) /\ c \in Tasks
    BY MediaAssumption DEF MediaInv
  <2>1. CASE Fetch(c)
    <3> DEFINE id == call[c].parts[Min(Unresolved(call[c].parts))].source.content
               h == Resolve(id)
    <3>1. \/ h \notin Present /\ UNCHANGED vars
          \/ /\ h \in Present
             /\ \/ expiresAt[h] > now /\ Serve(h)
                \/ expiresAt[h] <= now /\ Drops({h}) /\ UNCHANGED aliasToHash
             /\ UNCHANGED <<now, task>>
      BY <2>1 DEF Fetch, Fail, Become
    <3>2. h \in Present => id \in Hashes \cup Aliases
      BY DEF Resolve, Present
    <3> HIDE DEF id
    <3> QED
      BY <3>1, <3>2 DEF Get, Next
  <2>2. CASE Store(c)
    <3>1. Head(call[c].unstored) \in Hashes
      BY <2>0, <2>2, OneMoreStored DEF Store, CallAt, Orderly, CallStates
    <3> QED
      BY <2>0, <2>2, <3>1 DEF Store, Put, TaskStep, Next
  <2>3. CASE Stored(c)
    BY <2>0, <2>3 DEF Stored, TaskStep, Next
  <2>4. CASE FetchFails(c) \/ GiveUp(c) \/ StoreFails(c) \/ RetryLater(c) \/ Wake(c) \/ Answers(c)
    BY <2>4 DEF FetchFails, GiveUp, StoreFails, RetryLater, Wake, Answers, Fail, Become
  <2> QED
    BY <1>2, <2>1, <2>2, <2>3, <2>4 DEF Progress
<1>3. ASSUME NEW c \in Callers, Abandon(c) PROVE [Next]_vars
  <2>1. c \in Tasks
    BY MediaAssumption
  <2>2. CASE At(c, "idle")
    <3>1. task' = task
      BY <1>3, <2>1, <2>2 DEF Abandon, MediaInv
    <3> QED
      BY <1>3, <3>1 DEF Abandon, vars
  <2>3. CASE ~At(c, "idle")
    BY <1>3, <2>1, <2>3 DEF Abandon, Cancel, TaskStep, Next
  <2> QED
    BY <2>2, <2>3
<1>4. CASE UNCHANGED mediaVars
  BY <1>4 DEF mediaVars
<1> QED
  BY <1>1, <1>2, <1>3, <1>4 DEF MediaNext, Next

(* The engines, and the walk over a chat's media, use the store as anyone  *)
(* may: every one of their steps is a put, a get, a cancelled operation,   *)
(* or nothing to it, so what holds of the store holds behind them          *)
(* (multimodal.rs:111-123, image_engine.rs:161-183, audio_engine.rs:       *)
(* 143-155, 318-330).                                                      *)
THEOREM EnginesUseTheStore == MediaSpec => Spec
<1>1. MediaInit => MediaInv /\ Init
  BY MediaInitInv DEF MediaInit
<1>2. MediaInv /\ [MediaNext]_mediaVars => MediaInv' /\ [Next]_vars
  BY MediaStepKeeps, CallsUseTheStore
<1> QED
  BY <1>1, <1>2, PTL DEF MediaSpec, Spec

(* The provider is paid at most once for a call, whoever fails after it    *)
(* (image_engine.rs:122-129, 161-183, 206-233).                            *)
THEOREM CallsPayOnce == MediaSpec => []PaidOnce
<1>1. MediaInv => PaidOnce
  <2> SUFFICES ASSUME MediaInv, NEW c \in Callers
               PROVE  call[c].paid <= 1 /\ (call[c].paid = 1 => call[c].pc \in {"store", "storing"})
    BY DEF PaidOnce
  <2>1. \/ call[c].paid = 1 /\ call[c].pc \in {"store", "storing"}
        \/ call[c].paid = 0
    BY DEF MediaInv, Orderly
  <2> QED
    BY <2>1
<1> QED
  BY <1>1, MediaInitInv, MediaStepKeeps, PTL DEF MediaSpec

(* An answer names everything the provider made, in its order              *)
(* (image_engine.rs:161-185, audio_engine.rs:143-155).                     *)
THEOREM AnswersAreComplete == MediaSpec => []AnswerIsComplete
<1>1. ASSUME MediaInv, NEW c \in Callers
      PROVE  /\ CallAt(c, "idle") => call[c].uris = call[c].made
             /\ call[c].uris \o call[c].unstored = call[c].made
  <2>1. call[c].made \in Seq(Hashes)
    BY <1>1 DEF MediaInv, Orderly, CallStates
  <2>2. call[c].made \o <<>> = call[c].made
    BY <2>1
  <2>3. \/ /\ call[c].pc \in {"store", "storing"}
           /\ call[c].uris \o call[c].unstored = call[c].made
        \/ call[c].unstored = <<>> /\ call[c].uris = call[c].made
    BY <1>1 DEF MediaInv, Orderly
  <2> QED
    BY <2>2, <2>3 DEF CallAt
<1>2. MediaInv => AnswerIsComplete
  BY <1>1 DEF AnswerIsComplete
<1> QED
  BY <1>2, MediaInitInv, MediaStepKeeps, PTL DEF MediaSpec

-----------------------------------------------------------------------------
(* How arguments are read *)

Variants ==
    {"base64"} \cup {form[2] : form \in {ImageForms[i] : i \in DOMAIN ImageForms}
                                    \cup {AudioForms[i] : i \in DOMAIN AudioForms}}
Mimes == {"", "image/png", "mp3", "stated", "audio/mpeg", "image", "document", "audio"}
Contents == Hashes \cup Aliases

PartsOf(medias) ==
    [media : medias, source : [variant : Variants, content : Contents, mime : Mimes]]

LEMMA LeastOf ==
    ASSUME NEW S, S \subseteq Nat, S # {}
    PROVE  \E x \in S : \A y \in S : x <= y
<1>1. PICK x \in S : \A y \in S : ~(<<y, x>> \in OpToRel(<, Nat))
  BY NatLessThanWellFounded, WFMin
<1>2. ASSUME NEW y \in S, y < x PROVE FALSE
  BY <1>1, <1>2 DEF OpToRel
<1> QED
  BY <1>2

LEMMA MinIsThere ==
    ASSUME NEW S, S \subseteq Nat, S # {}
    PROVE  Min(S) \in S
BY LeastOf DEF Min

LEMMA PartIsRead ==
    ASSUME NEW media \in {"image", "audio", "file", "recording"}, NEW value \in Values(Contents),
           Said(media, value) # {}
    PROVE  Part(media, value) \in PartsOf({media})
<1> DEFINE forms == Forms[media]
           first == Min(Said(media, value))
<1>1. /\ forms \in {ImageForms, AudioForms}
      /\ \A i \in DOMAIN forms : i \in Nat /\ forms[i][2] \in Variants
  <2>1. forms \in {ImageForms, AudioForms}
    BY DEF Forms, FileForms, RecordingForms
  <2>2. \A i \in DOMAIN ImageForms : i \in Nat /\ ImageForms[i][2] \in Variants
    <3>1. DOMAIN ImageForms = 1..13
      BY DEF ImageForms
    <3> QED
      BY <3>1 DEF Variants
  <2>3. \A i \in DOMAIN AudioForms : i \in Nat /\ AudioForms[i][2] \in Variants
    <3>1. DOMAIN AudioForms = 1..8
      BY DEF AudioForms
    <3> QED
      BY <3>1 DEF Variants
  <2> QED
    BY <2>1, <2>2, <2>3
<1>2. first \in Said(media, value)
  <2>1. Said(media, value) \subseteq Nat
    BY <1>1 DEF Said
  <2> QED
    BY <2>1, MinIsThere
<1>3. forms[first][2] \in Variants
  BY <1>1, <1>2 DEF Said
<1> DEFINE variant == forms[first][2]
<1>4. Stated(media, variant, value.says) \in Mimes
  <2> HIDE DEF variant
  <2> QED
    BY DEF Stated, Mimes
<1>5. value.content \in Contents
  BY DEF Values
<1> QED
  BY <1>3, <1>4, <1>5 DEF Part, PartsOf, Source

LEMMA ReadParts ==
    ASSUME NEW media \in {"image", "audio", "file", "recording"}, NEW value \in Values(Contents)
    PROVE  Read(media, value) \in Seq(PartsOf({media}))
<1>1. CASE Said(media, value) = {}
  BY <1>1 DEF Read
<1>2. CASE Said(media, value) # {}
  <2>1. Read(media, value) = <<Part(media, value)>>
    BY <1>2 DEF Read
  <2>2. Part(media, value) \in PartsOf({media})
    BY <1>2, PartIsRead
  <2> QED
    BY <2>1, <2>2
<1> QED
  BY <1>1, <1>2

(* FlattenSeq goes through the partial results, each made of the one       *)
(* before it: there is such a function, and its values are sequences.      *)
LEMMA FlattenedIsSeq ==
    ASSUME NEW S, NEW seqs, Len(seqs) \in Nat \ {0},
           \A i \in 1..Len(seqs) : seqs[i] \in Seq(S)
    PROVE  FlattenSeq(seqs) \in Seq(S)
<1> DEFINE N == Len(seqs)
           Made(g, i) == IF i = 1 THEN seqs[i] ELSE g[i - 1] \o seqs[i]
           Partial(g, n) == g \in [1..n -> Seq(S)] /\ \A i \in 1..n : g[i] = Made(g, i)
           lost == {n \in 1..N : ~\E g : Partial(g, n)}
           flatten == CHOOSE f : f = [i \in 1..N |-> Made(f, i)]
           bad == {i \in 1..N : flatten[i] \notin Seq(S)}
<1>1. N \in Nat \ {0} /\ \A i \in 1..N : seqs[i] \in Seq(S)
  OBVIOUS
<1> HIDE DEF N, flatten, Partial, Made
<1>2. lost = {}
  <2> SUFFICES ASSUME lost # {} PROVE FALSE
    OBVIOUS
  <2>1. PICK n \in lost : \A m \in lost : n <= m
    <3>1. lost \subseteq Nat
      BY <1>1
    <3> HIDE DEF lost
    <3> QED
      BY <3>1, LeastOf
  <2>2. n \in 1..N /\ ~(\E g : Partial(g, n)) /\ n \in Nat \ {0} /\ seqs[n] \in Seq(S)
    BY <1>1
  <2>3. CASE n = 1
    <3> DEFINE g == [i \in 1..1 |-> seqs[1]]
    <3>1. Partial(g, 1)
      BY <2>2, <2>3 DEF Partial, Made
    <3> QED
      BY <2>2, <2>3, <3>1
  <2>4. CASE n > 1
    <3>1. n - 1 \in 1..N /\ n - 1 \notin lost
      <4>1. n - 1 \in 1..N /\ ~(n <= n - 1)
        BY <1>1, <2>2, <2>4
      <4> HIDE DEF lost
      <4> QED
        BY <2>1, <4>1
    <3>2. PICK g : Partial(g, n - 1)
      BY <3>1
    <3>3. /\ g \in [1..(n - 1) -> Seq(S)]
           /\ \A i \in 1..(n - 1) : g[i] = Made(g, i)
      BY <3>2 DEF Partial
    <3> DEFINE h == [i \in 1..n |-> IF i < n THEN g[i] ELSE g[n - 1] \o seqs[n]]
    <3>4. g[n - 1] \in Seq(S) /\ g[n - 1] \o seqs[n] \in Seq(S)
      BY <2>2, <2>4, <3>3
    <3>5. h \in [1..n -> Seq(S)]
      BY <2>2, <3>3, <3>4
    <3>6. ASSUME NEW i \in 1..n PROVE h[i] = Made(h, i)
      <4>1. CASE i < n
        <5>1. /\ i \in 1..(n - 1) /\ h[i] = g[i] /\ g[i] = Made(g, i)
              /\ i # 1 => i - 1 \in 1..n /\ i - 1 < n
          BY <2>2, <3>3, <4>1
        <5>2. i # 1 => h[i - 1] = g[i - 1]
          BY <5>1
        <5> HIDE DEF h
        <5> QED
          BY <5>1, <5>2 DEF Made
      <4>2. CASE i = n
        <5>1. n - 1 \in 1..n /\ n - 1 < n
          BY <2>2, <2>4
        <5> QED
          BY <2>2, <2>4, <4>2, <5>1 DEF Made
      <4>3. i < n \/ i = n
        BY <2>2
      <4> HIDE DEF h
      <4> QED
        BY <4>1, <4>2, <4>3
    <3>7. Partial(h, n)
      BY <3>5, <3>6 DEF Partial
    <3> HIDE DEF h
    <3> QED
      BY <2>2, <3>7
  <2> QED
    BY <2>2, <2>3, <2>4
<1>3. flatten = [i \in 1..N |-> Made(flatten, i)]
  <2>1. PICK g : Partial(g, N)
    <3>1. N \in 1..N
      BY <1>1
    <3>2. N \notin lost
      <4> HIDE DEF lost
      <4> QED
        BY <1>2
    <3> QED
      BY <3>1, <3>2
  <2>2. g = [i \in 1..N |-> Made(g, i)]
    BY <2>1 DEF Partial
  <2> QED
    BY <2>2 DEF flatten
<1>4. bad = {}
  <2> SUFFICES ASSUME bad # {} PROVE FALSE
    OBVIOUS
  <2>1. PICK i \in bad : \A j \in bad : i <= j
    <3>1. bad \subseteq Nat
      BY <1>1
    <3> HIDE DEF bad
    <3> QED
      BY <3>1, LeastOf
  <2>2. i \in 1..N /\ flatten[i] = Made(flatten, i) /\ flatten[i] \notin Seq(S)
    BY <1>3
  <2>3. CASE i = 1
    BY <1>1, <2>2, <2>3 DEF Made
  <2>4. CASE i > 1
    <3>1. i - 1 \in 1..N /\ ~(i <= i - 1)
      BY <1>1, <2>2, <2>4
    <3>2. i - 1 \notin bad
      <4> HIDE DEF bad
      <4> QED
        BY <2>1, <3>1
    <3>3. flatten[i - 1] \in Seq(S) /\ seqs[i] \in Seq(S)
      BY <1>1, <2>2, <3>1, <3>2
    <3> QED
      BY <2>2, <2>4, <3>3 DEF Made
  <2> QED
    BY <1>1, <2>2, <2>3, <2>4
<1>5. FlattenSeq(seqs) = flatten[N]
  BY <1>1 DEF FlattenSeq, N, flatten, Made
<1>6. N \in 1..N /\ N \notin bad
  BY <1>1, <1>4
<1> QED
  BY <1>5, <1>6

LEMMA PartsAreRead ==
    ASSUME NEW media \in {"image", "audio", "file", "recording"},
           NEW values \in Seq(Values(Contents))
    PROVE  ReadAll(media, values) \in Seq(PartsOf({media}))
<1> DEFINE read == [i \in DOMAIN values |-> Read(media, values[i])]
<1>1. /\ DOMAIN values = 1..Len(values) /\ Len(values) \in Nat
      /\ \A i \in 1..Len(values) : values[i] \in Values(Contents)
  OBVIOUS
<1>2. Len(read) = Len(values) /\ \A i \in 1..Len(values) : read[i] \in Seq(PartsOf({media}))
  <2>1. read = [i \in 1..Len(values) |-> Read(media, values[i])]
    BY <1>1
  <2>2. \A i \in 1..Len(values) : Read(media, values[i]) \in Seq(PartsOf({media}))
    BY <1>1, ReadParts
  <2>3. read \in [1..Len(values) -> Seq(PartsOf({media}))]
    BY <2>1, <2>2
  <2>4. Len(read) = Len(values)
    BY <1>1, <2>1
  <2> QED
    BY <2>3, <2>4
<1>3. ReadAll(media, values) = FlattenSeq(read)
  BY DEF ReadAll
<1>4. CASE Len(values) = 0
  <2>1. FlattenSeq(read) = read
    BY <1>2, <1>4 DEF FlattenSeq
  <2>2. read = <<>>
    BY <1>1, <1>4
  <2> HIDE DEF read
  <2> QED
    BY <1>3, <2>1, <2>2, EmptySeq
<1>5. CASE Len(values) # 0
  <2> HIDE DEF read
  <2> QED
    BY <1>1, <1>2, <1>3, <1>5, FlattenedIsSeq
<1> QED
  BY <1>4, <1>5

LEMMA UserPartsAreParts ==
    ASSUME NEW args \in Prompts
    PROVE  UserParts(args) \in Seq(PartsOf({"image", "audio", "file"}))
<1>1. \A values \in {args.image, args.audio, args.file} : values \in Seq(Values(Contents))
  BY MediaAssumption DEF Contents
<1>2. \A media \in {"image", "audio", "file"} :
        PartsOf({media}) \subseteq PartsOf({"image", "audio", "file"})
  BY DEF PartsOf
<1>3. /\ ReadAll("image", args.image) \in Seq(PartsOf({"image", "audio", "file"}))
      /\ ReadAll("audio", args.audio) \in Seq(PartsOf({"image", "audio", "file"}))
      /\ ReadAll("file", args.file) \in Seq(PartsOf({"image", "audio", "file"}))
  BY <1>1, <1>2, PartsAreRead, SeqMonotonic
<1> QED
  BY <1>3 DEF UserParts

-----------------------------------------------------------------------------
(* The walk *)

AllParts == PartsOf({"image", "audio", "file", "recording"})

(* A part is as it was given, or has been resolved.                        *)
Settled(part, given) ==
    \/ part = given
    \/ /\ given.source.variant = "resource" \/ given.media = "recording"
       /\ part.source.variant # "resource"
       /\ given.source.content \in Hashes => part.source.content = given.source.content
       /\ Usable(part.media, part.source.content)

Aligned(state) ==
    /\ state.parts \in Seq(AllParts) /\ state.given \in Seq(AllParts)
    /\ Len(state.parts) = Len(state.given)
    /\ \A i \in DOMAIN state.parts :
        /\ state.parts[i].media = state.given[i].media
        /\ Settled(state.parts[i], state.given[i])

(* A recording has yet to be fetched, or can be used.                      *)
CheckedPart(part) ==
    part.media = "recording" =>
        part.source.variant = "resource" \/ Usable(part.media, part.source.content)

Checked(state) == \A i \in DOMAIN state.parts : CheckedPart(state.parts[i])

Walked(state) ==
    /\ Aligned(state) /\ state.attempt \in 0..MaxAttempts
    /\ state.pc \in {"fetch", "request", "backoff"} => Checked(state)
    /\ state.pc = "fetch" => Unresolved(state.parts) # {}
    /\ state.pc \in {"request", "backoff"} => Unresolved(state.parts) = {} /\ state.attempt > 0
    /\ state.pc = "backoff" => state.attempt < MaxAttempts
    /\ state.pc \in {"fetch", "store", "storing"} => state.attempt = 0

(* The task waits for the lock when its call stores, and only then.        *)
TaskFollows(c) == IF CallAt(c, "storing") THEN At(c, "put") ELSE At(c, "idle")

WalkInv ==
    /\ MediaInv
    /\ \A c \in Callers : Walked(call[c]) /\ TaskFollows(c)

-----------------------------------------------------------------------------
LEMMA AttemptsAreAllowed == MaxAttempts \in Nat \ {0}
BY MediaAssumption DEF ValidImage, Answerable, ImageDefaults

LEMMA NothingAligned ==
    ASSUME NEW state, state.parts = <<>>, state.given = <<>>
    PROVE  Aligned(state) /\ Checked(state)
<1>1. <<>> \in Seq(AllParts) /\ DOMAIN <<>> = {}
  BY EmptySeq
<1>2. DOMAIN state.parts = {}
  BY <1>1
<1> QED
  BY <1>1, <1>2 DEF Aligned, Checked

LEMMA NoPartsWalked ==
    ASSUME NEW state, state.parts = <<>>, state.given = <<>>, state.attempt = 0,
           state.pc \in {"idle", "store"}
    PROVE  Walked(state)
BY NothingAligned, AttemptsAreAllowed DEF Walked

LEMMA FailedWalked == Walked(NoCall) /\ Walked(Failed) /\ Failed.pc = "idle"
<1>1. Failed.pc = "idle"
  BY DEF Failed, NoCall
<1>2. Walked(NoCall)
  BY NoPartsWalked DEF NoCall
<1>3. Walked(Failed)
  <2> DEFINE state == Failed
  <2>1. /\ state.parts = <<>> /\ state.given = <<>> /\ state.attempt = 0 /\ state.pc = "idle"
    BY DEF Failed, NoCall
  <2> HIDE DEF state
  <2>2. Walked(state)
    BY <2>1, NoPartsWalked
  <2> QED
    BY <2>2 DEF state
<1> QED
  BY <1>1, <1>2, <1>3

LEMMA WalkingWalked ==
    ASSUME NEW state, Orderly(state), Aligned(state), Checked(state), state.attempt = 0
    PROVE  Walked(Walking(state)) /\ Walking(state).pc \in {"fetch", "request"}
<1>1. CASE Unresolved(state.parts) = {}
  <2> DEFINE next == Requesting(state)
  <2>1. /\ next.parts = state.parts /\ next.given = state.given
        /\ next.pc = "request" /\ next.attempt = 1
    BY DEF Requesting, Orderly, CallStates
  <2> HIDE DEF next
  <2>2. Walked(next)
    BY <1>1, <2>1, AttemptsAreAllowed DEF Walked, Aligned, Checked
  <2>3. Walking(state) = next
    BY <1>1 DEF Walking, next
  <2> QED
    BY <2>1, <2>2, <2>3
<1>2. CASE Unresolved(state.parts) # {}
  <2> DEFINE next == [state EXCEPT !.pc = "fetch"]
  <2>1. /\ next.parts = state.parts /\ next.given = state.given
        /\ next.pc = "fetch" /\ next.attempt = state.attempt
    BY DEF Orderly, CallStates
  <2> HIDE DEF next
  <2>2. Walked(next)
    BY <1>2, <2>1, AttemptsAreAllowed DEF Walked, Aligned, Checked
  <2>3. Walking(state) = next
    BY <1>2 DEF Walking, next
  <2> QED
    BY <2>1, <2>2, <2>3
<1> QED
  BY <1>1, <1>2

LEMMA MimesAreMimes ==
    ASSUME NEW part \in AllParts, NEW h
    PROVE  Mime(part, h) \in Mimes
<1>1. part.source.mime \in Mimes /\ part.media \in {"image", "audio", "file", "recording"}
  BY DEF AllParts, PartsOf
<1>2. SniffMime(Type[h]) \in Mimes /\ SniffAudioMime(Type[h]) \in Mimes
  BY DEF SniffMime, SniffAudioMime, Mimes
<1>3. "audio/mpeg" \in Mimes
  BY DEF Mimes
<1> QED
  BY <1>1, <1>2, <1>3 DEF Mime

(* A part that is resolved goes on with the content that was fetched.      *)
LEMMA TakingWalked ==
    ASSUME NEW state, Orderly(state), Aligned(state), state.attempt = 0,
           state.made = <<>>, state.pc \notin {"store", "storing"},
           NEW i \in DOMAIN state.parts, NEW h \in Contents,
           state.parts[i] = state.given[i],
           state.parts[i].source.variant = "resource" \/ state.parts[i].media = "recording",
           state.parts[i].source.content \in Hashes => h = state.parts[i].source.content,
           \A j \in DOMAIN state.parts : j # i => CheckedPart(state.parts[j])
    PROVE  Walked(Taking(state, i, h)) /\ Taking(state, i, h).pc # "storing"
<1> DEFINE part == state.parts[i]
           source == Source("base64", h, Mime(part, h))
           resolved == [part EXCEPT !.source = source]
           parts == [state.parts EXCEPT ![i] = resolved]
           taken == [state EXCEPT !.parts[i].source = source]
<1>1. CASE ~Usable(part.media, h)
  BY <1>1, FailedWalked DEF Taking
<1>2. CASE Usable(part.media, h)
  <2>1. Taking(state, i, h) = Walking(taken)
    BY <1>2 DEF Taking
  <2>2. part \in AllParts /\ state.parts \in Seq(AllParts)
    BY DEF Aligned
  <2>3. source \in [variant : Variants, content : Contents, mime : Mimes]
    BY <2>2, MimesAreMimes DEF Source, Variants
  <2>4. source.variant = "base64" /\ source.content = h
    BY DEF Source
  <2> HIDE DEF source, part
  <2>5. /\ resolved \in AllParts /\ resolved.media = part.media
        /\ resolved.source.variant = "base64" /\ resolved.source.content = h
    BY <2>2, <2>3, <2>4 DEF AllParts, PartsOf
  <2>6. taken.parts = parts
    BY DEF Orderly, CallStates, part
  <2>7. /\ taken.given = state.given /\ taken.attempt = state.attempt
        /\ taken.made = state.made /\ taken.pc = state.pc /\ Orderly(taken)
    BY DEF Orderly, CallStates
  <2> HIDE DEF resolved
  <2>8. /\ parts \in Seq(AllParts) /\ Len(parts) = Len(state.parts)
        /\ DOMAIN parts = DOMAIN state.parts /\ parts[i] = resolved
        /\ \A j \in DOMAIN parts : j # i => parts[j] = state.parts[j]
    BY <2>2, <2>5
  <2> HIDE DEF parts, taken
  <2>9. part = state.given[i]
        /\ (part.source.variant = "resource" \/ part.media = "recording")
        /\ (part.source.content \in Hashes => h = part.source.content)
    BY DEF part
  <2>10. Settled(resolved, state.given[i]) /\ CheckedPart(resolved)
    BY <1>2, <2>5, <2>9 DEF Settled, CheckedPart
  <2>11. Aligned(taken)
    BY <2>5, <2>6, <2>7, <2>8, <2>9, <2>10 DEF Aligned
  <2>12. Checked(taken)
    BY <2>6, <2>8, <2>10 DEF Checked
  <2> QED
    BY <2>1, <2>7, <2>11, <2>12, WalkingWalked
<1> QED
  BY <1>1, <1>2

LEMMA StoringWalked ==
    ASSUME NEW state, state \in CallStates({state.parts}, {state.given}), Aligned(state),
           state.attempt = 0
    PROVE  Walked(Storing(state)) /\ Storing(state).pc \in {"store", "idle"}
<1>1. CASE state.unstored # <<>>
  <2> DEFINE next == [state EXCEPT !.pc = "store"]
  <2>1. /\ next.parts = state.parts /\ next.given = state.given
        /\ next.pc = "store" /\ next.attempt = 0
    BY DEF CallStates
  <2> HIDE DEF next
  <2>2. Walked(next)
    BY <2>1, AttemptsAreAllowed DEF Walked, Aligned
  <2>3. Storing(state) = next
    BY <1>1 DEF Storing, next
  <2> QED
    BY <2>1, <2>2, <2>3
<1>2. CASE state.unstored = <<>>
  <2> DEFINE next == Answered(state)
  <2>1. next.parts = <<>> /\ next.given = <<>> /\ next.attempt = 0 /\ next.pc = "idle"
    BY DEF Answered, NoCall
  <2> HIDE DEF next
  <2>2. Walked(next)
    BY <2>1, NoPartsWalked
  <2>3. Storing(state) = next
    BY <1>2 DEF Storing, next
  <2> QED
    BY <2>1, <2>2, <2>3
<1> QED
  BY <1>1, <1>2

-----------------------------------------------------------------------------
LEMMA WalkInit ==
    ASSUME MediaInit
    PROVE  WalkInv
<1>1. \A c \in Callers : call[c] = NoCall /\ task[c] = Idle
  BY MediaAssumption DEF MediaInit, Init
<1>2. NoCall.pc = "idle" /\ Idle.pc = "idle"
  BY DEF NoCall, Idle
<1>3. \A c \in Callers : TaskFollows(c)
  BY <1>1, <1>2 DEF TaskFollows, CallAt, At
<1> QED
  BY <1>1, <1>3, MediaInitInv, FailedWalked DEF WalkInv

(* A call moves, its task does not.                                        *)
LEMMA CallWalks ==
    ASSUME WalkInv, MediaInv', NEW c \in Callers, NEW state, Walked(state),
           state.pc # "storing", call[c].pc # "storing", Moves(c, state), task' = task
    PROVE  WalkInv'
<1>1. ASSUME NEW d \in Callers PROVE Walked(call'[d]) /\ TaskFollows(d)'
  BY <1>1 DEF WalkInv, MediaInv, Moves, TaskFollows, CallAt, At
<1> QED
  BY <1>1 DEF WalkInv

LEMMA BecomeWalks ==
    ASSUME WalkInv, MediaInv', NEW c \in Callers, NEW state, Walked(state),
           state.pc # "storing", call[c].pc # "storing", Become(c, state)
    PROVE  WalkInv'
BY CallWalks DEF Become, vars

(* A call and its task move together.                                      *)
LEMMA BothWalk ==
    ASSUME WalkInv, MediaInv', NEW c \in Callers, NEW state, Walked(state), Moves(c, state),
           NEW request, task' = [task EXCEPT ![c] = request],
           request.pc = IF state.pc = "storing" THEN "put" ELSE "idle"
    PROVE  WalkInv'
<1>1. c \in Tasks
  BY MediaAssumption
<1>2. ASSUME NEW d \in Callers PROVE Walked(call'[d]) /\ TaskFollows(d)'
  <2>1. d \in Tasks
    BY MediaAssumption
  <2>2. CASE d = c
    <3>1. call'[d] = state /\ task'[d] = request
      BY <1>1, <2>2 DEF WalkInv, MediaInv, Moves
    <3>2. TaskFollows(d)' <=> (IF call'[d].pc = "storing" THEN task'[d].pc = "put"
                                                          ELSE task'[d].pc = "idle")
      BY DEF TaskFollows, CallAt, At
    <3> QED
      BY <3>1, <3>2
  <2>3. CASE d # c
    <3>1. call'[d] = call[d] /\ task'[d] = task[d]
      BY <2>1, <2>3 DEF WalkInv, MediaInv, Moves
    <3> QED
      BY <3>1 DEF WalkInv, TaskFollows, CallAt, At
  <2> QED
    BY <2>2, <2>3
<1> QED
  BY <1>2 DEF WalkInv

(* Nobody calls, and the callers' tasks stay where they are.               *)
LEMMA OthersWalk ==
    ASSUME WalkInv, MediaInv', UNCHANGED call, \A c \in Callers : task'[c] = task[c]
    PROVE  WalkInv'
BY DEF WalkInv, TaskFollows, CallAt, At

LEMMA GivenAligned ==
    ASSUME NEW kind, NEW parts \in Seq(AllParts)
    PROVE  /\ Aligned(Given(kind, parts))
           /\ Given(kind, parts).parts = parts /\ Given(kind, parts).given = parts
           /\ Given(kind, parts).attempt = 0 /\ Given(kind, parts).pc = "idle"
<1> DEFINE state == Given(kind, parts)
<1>1. state.parts = parts /\ state.given = parts /\ state.attempt = 0 /\ state.pc = "idle"
  BY DEF Given, NoCall
<1> HIDE DEF state
<1>2. Aligned(state)
  BY <1>1 DEF Aligned, Settled
<1> QED
  BY <1>1, <1>2 DEF state

LEMMA TranscribeWalks ==
    ASSUME WalkInv, MediaInv', NEW c \in Callers, Transcribe(c)
    PROVE  WalkInv'
<1>1. PICK value \in Recordings :
        LET parts == Read("recording", value)
            state == Given("transcription", parts)
            is(variant) == parts # <<>> /\ parts[1].source.variant = variant
        IN  \/ ~is("resource") /\ Fail(c)
            \/ is("base64") /\ Decodes(value) /\ Become(c, Taking(state, 1, value.content))
            \/ is("resource") /\ Become(c, Walking(state))
  BY DEF Transcribe
<1> DEFINE parts == Read("recording", value)
           part == Part("recording", value)
           state == Given("transcription", parts)
<1>2. /\ value \in Values(Contents) /\ value.content \in Contents
      /\ call[c].pc = "idle"
  BY MediaAssumption DEF Transcribe, Begins, CallAt, Contents, Values
<1>3. /\ parts \in Seq(AllParts)
      /\ parts # <<>> => /\ parts = <<part>> /\ part.media = "recording"
                         /\ part.source.content = value.content
  <2>1. parts \in Seq(PartsOf({"recording"}))
    BY <1>2, ReadParts
  <2>2. PartsOf({"recording"}) \subseteq AllParts
    BY DEF PartsOf, AllParts
  <2>3. parts # <<>> => parts = <<part>>
    BY DEF Read
  <2>4. part.media = "recording" /\ part.source.content = value.content
    BY DEF Part, Source
  <2> QED
    BY <2>1, <2>2, <2>3, <2>4, SeqMonotonic
<1> HIDE DEF part, parts
<1>4. /\ Aligned(state) /\ state.parts = parts /\ state.given = parts
      /\ state.attempt = 0 /\ state.pc = "idle" /\ state.made = <<>>
      /\ Orderly(state)
  BY <1>3, GivenAligned, GivenOrderly, AttemptsAreAllowed
<1>5. CASE Fail(c)
  BY <1>2, <1>5, FailedWalked, BecomeWalks DEF Fail
<1>6. CASE parts # <<>> /\ Become(c, Taking(state, 1, value.content))
  <2> HIDE DEF state
  <2>1. /\ 1 \in DOMAIN state.parts /\ state.parts[1] = state.given[1]
        /\ state.parts[1].media = "recording"
        /\ state.parts[1].source.content = value.content
        /\ \A j \in DOMAIN state.parts : j = 1
    BY <1>3, <1>4, <1>6
  <2>2. Walked(Taking(state, 1, value.content)) /\ Taking(state, 1, value.content).pc # "storing"
    BY <1>2, <1>4, <2>1, TakingWalked
  <2> QED
    BY <1>2, <1>6, <2>2, BecomeWalks
<1>7. CASE parts # <<>> /\ parts[1].source.variant = "resource" /\ Become(c, Walking(state))
  <2> HIDE DEF state
  <2>1. Checked(state)
    BY <1>3, <1>4, <1>7 DEF Checked, CheckedPart
  <2>2. Walked(Walking(state)) /\ Walking(state).pc # "storing"
    BY <1>4, <2>1, WalkingWalked
  <2> QED
    BY <1>2, <1>7, <2>2, BecomeWalks
<1> QED
  BY <1>1, <1>5, <1>6, <1>7 DEF parts

LEMMA BeginWalks ==
    ASSUME WalkInv, MediaInv', NEW c \in Callers, Begin(c)
    PROVE  WalkInv'
<1>1. call[c].pc = "idle"
  BY DEF Begin, Refuse, GenerateImages, Synthesize, Transcribe, Chat, Begins, CallAt
<1>2. CASE Refuse(c)
  BY <1>1, <1>2, FailedWalked, BecomeWalks DEF Refuse, Fail
<1>3. ASSUME NEW kind, Become(c, Requesting([NoCall EXCEPT !.kind = kind])) PROVE WalkInv'
  <2> DEFINE state == Requesting([NoCall EXCEPT !.kind = kind])
  <2>1. state.parts = <<>> /\ state.given = <<>> /\ state.attempt = 1 /\ state.pc = "request"
    BY DEF Requesting, NoCall
  <2> HIDE DEF state
  <2>2. Unresolved(state.parts) = {}
    <3>1. DOMAIN state.parts = {}
      BY <2>1, EmptySeq
    <3> QED
      BY <3>1 DEF Unresolved
  <2>3. Walked(state)
    BY <2>1, <2>2, NothingAligned, AttemptsAreAllowed DEF Walked
  <2> QED
    BY <1>1, <1>3, <2>1, <2>3, BecomeWalks DEF state
<1>4. CASE Chat(c)
  <2>1. PICK args \in Prompts : Become(c, Walking(Given("chat", UserParts(args))))
    BY <1>4 DEF Chat
  <2> DEFINE parts == UserParts(args)
             state == Given("chat", parts)
  <2>2. parts \in Seq(AllParts) /\ \A i \in DOMAIN parts : parts[i].media # "recording"
    <3>1. parts \in Seq(PartsOf({"image", "audio", "file"}))
      BY UserPartsAreParts
    <3> HIDE DEF parts
    <3>2. PartsOf({"image", "audio", "file"}) \subseteq AllParts
      BY DEF PartsOf, AllParts
    <3>3. \A i \in DOMAIN parts : parts[i] \in PartsOf({"image", "audio", "file"})
      BY <3>1
    <3> QED
      BY <3>1, <3>2, <3>3, SeqMonotonic DEF PartsOf
  <2> HIDE DEF parts
  <2>3. /\ Aligned(state) /\ state.parts = parts /\ state.attempt = 0
        /\ Orderly(state)
    BY <2>2, GivenAligned, GivenOrderly, AttemptsAreAllowed
  <2> HIDE DEF state
  <2>4. Checked(state)
    BY <2>2, <2>3 DEF Checked, CheckedPart
  <2>5. Walked(Walking(state)) /\ Walking(state).pc # "storing"
    BY <2>3, <2>4, WalkingWalked
  <2> QED
    BY <1>1, <2>1, <2>5, BecomeWalks DEF state, parts
<1> QED
  BY <1>2, <1>3, <1>4, TranscribeWalks DEF Begin, GenerateImages, Synthesize

LEMMA FetchWalks ==
    ASSUME WalkInv, MediaInv', NEW c \in Callers, Fetch(c)
    PROVE  WalkInv'
<1> DEFINE state == call[c]
           i == Min(Unresolved(state.parts))
           id == state.parts[i].source.content
           h == Resolve(id)
<1>1. /\ task' = task /\ state.pc = "fetch"
      /\ \/ Moves(c, Failed)
         \/ h \in Present /\ Moves(c, Taking(state, i, h))
  BY DEF Fetch, Fail, Become, vars, CallAt
<1>2. CASE Moves(c, Failed)
  BY <1>1, <1>2, FailedWalked, CallWalks
<1>3. CASE h \in Present /\ Moves(c, Taking(state, i, h))
  <2>1. /\ Walked(state) /\ Orderly(state) /\ Aligned(state) /\ Checked(state)
        /\ state.attempt = 0 /\ state.made = <<>>
        /\ Unresolved(state.parts) # {} /\ state.parts \in Seq(AllParts)
        /\ state.given \in Seq(AllParts)
    BY <1>1 DEF WalkInv, MediaInv, Walked, Orderly, Aligned
  <2>2. i \in Unresolved(state.parts)
    <3>1. Unresolved(state.parts) \subseteq Nat
      BY <2>1 DEF Unresolved
    <3> QED
      BY <2>1, <3>1, MinIsThere
  <2> HIDE DEF i
  <2>3. i \in DOMAIN state.parts /\ state.parts[i].source.variant = "resource"
    BY <2>2 DEF Unresolved
  <2>4. state.parts[i] = state.given[i]
    BY <2>1, <2>3 DEF Aligned, Settled
  <2>5. h \in Hashes /\ h \in Contents
    BY <1>3 DEF Present, Contents
  <2>6. id \in Hashes => h = id
    BY StoreAssumption DEF Resolve
  <2> HIDE DEF h
  <2>7. \A j \in DOMAIN state.parts : CheckedPart(state.parts[j])
    BY <2>1 DEF Checked
  <2> HIDE DEF state
  <2>8. Walked(Taking(state, i, h)) /\ Taking(state, i, h).pc # "storing"
    BY <1>1, <2>1, <2>3, <2>4, <2>5, <2>6, <2>7, TakingWalked
  <2> QED
    BY <1>1, <1>3, <2>8, CallWalks DEF state
<1> QED
  BY <1>1, <1>2, <1>3

LEMMA ProgressWalks ==
    ASSUME WalkInv, MediaInv', NEW c \in Callers, Progress(c)
    PROVE  WalkInv'
<1>0. /\ Orderly(call[c]) /\ Walked(call[c]) /\ TaskFollows(c) /\ Aligned(call[c])
      /\ call[c] \in CallStates({call[c].parts}, {call[c].given})
      /\ c \in Tasks
  BY MediaAssumption DEF WalkInv, MediaInv, Orderly, Walked
<1>1. CASE FetchFails(c) \/ GiveUp(c) \/ StoreFails(c)
  <2>1. call[c].pc \in {"fetch", "request", "store"}
    BY <1>1 DEF FetchFails, GiveUp, StoreFails, CallAt
  <2> QED
    BY <1>1, <2>1, FailedWalked, BecomeWalks DEF FetchFails, GiveUp, StoreFails, Fail
<1>2. CASE RetryLater(c)
  <2> DEFINE state == [call[c] EXCEPT !.pc = "backoff"]
  <2>1. /\ call[c].pc = "request" /\ call[c].attempt < MaxAttempts /\ Become(c, state)
    BY <1>2 DEF RetryLater, CallAt
  <2>2. /\ state.parts = call[c].parts /\ state.given = call[c].given
        /\ state.attempt = call[c].attempt /\ state.pc = "backoff"
    BY <1>0 DEF CallStates
  <2> HIDE DEF state
  <2>3. Walked(state)
    BY <1>0, <2>1, <2>2 DEF Walked, Aligned, Checked
  <2> QED
    BY <2>1, <2>2, <2>3, BecomeWalks
<1>3. CASE Wake(c)
  <2> DEFINE state == [call[c] EXCEPT !.pc = "request", !.attempt = @ + 1]
  <2>1. call[c].pc = "backoff" /\ Become(c, state)
    BY <1>3 DEF Wake, CallAt
  <2>2. /\ state.parts = call[c].parts /\ state.given = call[c].given
        /\ state.attempt = call[c].attempt + 1 /\ state.pc = "request"
    BY <1>0 DEF CallStates
  <2> HIDE DEF state
  <2>3. state.attempt \in 0..MaxAttempts /\ state.attempt > 0
    BY <1>0, <2>1, <2>2, AttemptsAreAllowed DEF Walked
  <2>4. Walked(state)
    BY <1>0, <2>1, <2>2, <2>3 DEF Walked, Aligned, Checked
  <2> QED
    BY <2>1, <2>2, <2>4, BecomeWalks
<1>4. CASE Answers(c)
  <2>1. PICK made \in Seq(Hashes) :
          Become(c, Storing([call[c] EXCEPT !.attempt = 0, !.unstored = made, !.made = made,
                                            !.paid = @ + 1]))
    <3>1. <<>> \in Seq(Hashes) /\ \A made \in Generated : made \in Seq(Hashes)
      BY MediaAssumption
    <3> QED
      BY <1>4, <3>1 DEF Answers
  <2> DEFINE state == [call[c] EXCEPT !.attempt = 0, !.unstored = made, !.made = made,
                                      !.paid = @ + 1]
  <2>2. call[c].pc = "request" /\ call[c].paid = 0
    BY <1>0, <1>4 DEF Answers, CallAt, Orderly
  <2>3. /\ state \in CallStates({state.parts}, {state.given}) /\ state.attempt = 0
        /\ state.parts = call[c].parts /\ state.given = call[c].given
    <3> DEFINE answered == [call[c] EXCEPT !.attempt = 0, !.unstored = made, !.made = made,
                                           !.paid = 1]
    <3>1. state = answered
      BY <1>0, <2>2 DEF CallStates
    <3>2. /\ answered \in CallStates({answered.parts}, {answered.given}) /\ answered.attempt = 0
          /\ answered.parts = call[c].parts /\ answered.given = call[c].given
      BY <1>0 DEF CallStates
    <3> QED
      BY <3>1, <3>2
  <2> HIDE DEF state
  <2>4. Aligned(state)
    BY <1>0, <2>3 DEF Aligned
  <2>5. Walked(Storing(state)) /\ Storing(state).pc # "storing"
    BY <2>3, <2>4, StoringWalked
  <2> QED
    BY <2>1, <2>2, <2>5, BecomeWalks DEF state
<1>5. CASE Store(c)
  <2> DEFINE request == [pc |-> "put", hash |-> Head(call[c].unstored), alias |-> None,
                         at |-> Never]
             state == [call[c] EXCEPT !.pc = "storing"]
  <2>1. /\ call[c].pc = "store" /\ Moves(c, state) /\ task' = [task EXCEPT ![c] = request]
        /\ request.pc = "put"
    BY <1>5 DEF Store, CallAt, Offer
  <2>2. /\ state.parts = call[c].parts /\ state.given = call[c].given
        /\ state.attempt = call[c].attempt /\ state.pc = "storing"
    BY <1>0 DEF CallStates
  <2> HIDE DEF state, request
  <2>3. Walked(state)
    BY <1>0, <2>1, <2>2 DEF Walked, Aligned
  <2> QED
    BY <2>1, <2>2, <2>3, BothWalk
<1>6. CASE Stored(c)
  <2> DEFINE uris == Append(call[c].uris, Head(call[c].unstored))
             unstored == Tail(call[c].unstored)
             state == [call[c] EXCEPT !.uris = Append(@, Head(call[c].unstored)),
                                      !.unstored = Tail(@)]
  <2>1. /\ call[c].pc = "storing" /\ Moves(c, Storing(state))
        /\ task' = [task EXCEPT ![c] = Idle] /\ Idle.pc = "idle"
    BY <1>6 DEF Stored, CallAt, Insert, Idle
  <2>2. uris \in Seq(Hashes) /\ unstored \in Seq(Hashes)
    <3>1. /\ call[c].uris \in Seq(Hashes) /\ call[c].unstored \in Seq(Hashes)
          /\ call[c].unstored # <<>>
      BY <1>0, <2>1 DEF Orderly, CallStates
    <3> QED
      BY <3>1, OneMoreStored
  <2>3. state = [call[c] EXCEPT !.uris = uris, !.unstored = unstored]
    BY <1>0 DEF CallStates
  <2> HIDE DEF uris, unstored
  <2>4. /\ state \in CallStates({state.parts}, {state.given})
        /\ state.parts = call[c].parts /\ state.given = call[c].given
        /\ state.attempt = call[c].attempt
    BY <1>0, <2>2, <2>3 DEF CallStates
  <2> HIDE DEF state
  <2>5. Aligned(state) /\ state.attempt = 0
    BY <1>0, <2>1, <2>4 DEF Aligned, Walked
  <2>6. Walked(Storing(state)) /\ Storing(state).pc # "storing"
    BY <2>4, <2>5, StoringWalked
  <2> QED
    BY <2>1, <2>6, BothWalk
<1> QED
  BY <1>1, <1>2, <1>3, <1>4, <1>5, <1>6, FetchWalks DEF Progress

LEMMA WalkStepKeeps ==
    ASSUME WalkInv, [MediaNext]_mediaVars
    PROVE  WalkInv'
<1>0. MediaInv'
  BY MediaStepKeeps DEF WalkInv
<1>1. ASSUME NEW c \in Callers, Begin(c) PROVE WalkInv'
  BY <1>0, <1>1, BeginWalks
<1>2. ASSUME NEW c \in Callers, Progress(c) PROVE WalkInv'
  BY <1>0, <1>2, ProgressWalks
<1>3. ASSUME NEW c \in Callers, Abandon(c) PROVE WalkInv'
  <2>1. Moves(c, Failed) /\ task' = [task EXCEPT ![c] = Idle] /\ Idle.pc = "idle"
    BY <1>3 DEF Abandon, Idle
  <2> QED
    BY <1>0, <2>1, FailedWalked, BothWalk
<1>4. ASSUME NEW t \in Tasks \ Callers, TaskStep(t), UNCHANGED call PROVE WalkInv'
  <2>1. \A c \in Callers : task'[c] = task[c]
    BY <1>4, MediaAssumption
    DEF TaskStep, Put, Offer, Insert, Sweep, SweepExpired, Cancel, WalkInv, MediaInv
  <2> QED
    BY <1>0, <1>4, <2>1, OthersWalk
<1>5. CASE (Get \/ Delete \/ Tick) /\ UNCHANGED call
  BY <1>0, <1>5, OthersWalk DEF Get, Delete, Tick
<1>6. CASE UNCHANGED mediaVars
  BY <1>0, <1>6, OthersWalk DEF mediaVars, vars
<1> QED
  BY <1>1, <1>2, <1>3, <1>4, <1>5, <1>6 DEF MediaNext

-----------------------------------------------------------------------------
(* The store is in order behind its engines, and a call is where the code   *)
(* can be: it walks while there is something to fetch, tries as often as   *)
(* it may, and waits for the store's lock when it stores and only then     *)
(* (image_engine.rs:161-233, audio_engine.rs:287-363, multimodal.rs:       *)
(* 66-123).                                                                *)
THEOREM MediaTypeCorrect == MediaSpec => []MediaTypeOK
<1>1. ASSUME WalkInv, TypeOK PROVE MediaTypeOK
  <2>1. ASSUME NEW c \in Callers
        PROVE  /\ call[c].pc \in {"idle", "fetch", "request", "backoff", "store", "storing"}
               /\ call[c].attempt \in 0..MaxAttempts
               /\ CallAt(c, "fetch") => Unresolved(call[c].parts) # {}
               /\ CallAt(c, "storing") <=> At(c, "put")
    BY <1>1 DEF WalkInv, MediaInv, Orderly, CallStates, Walked, TaskFollows, CallAt, At
  <2> QED
    BY <1>1, <2>1 DEF MediaTypeOK
<1>2. MediaSpec => []TypeOK
  BY EnginesUseTheStore, ContentStoreTypeCorrect, PTL
<1> QED
  BY <1>1, <1>2, WalkInit, WalkStepKeeps, PTL DEF MediaSpec

(* What the provider is asked about is what the arguments name: every part  *)
(* in its place, no resource left, a hash answered with that very content, *)
(* nothing over the limit, whatever is put, redirected, deleted or swept   *)
(* while the walk waits (multimodal.rs:7-10, 66-108, audio_engine.rs:      *)
(* 287-363).                                                               *)
THEOREM ProviderIsAskedAboutTheInputs == MediaSpec => []ProviderSeesTheInputs
<1>1. ASSUME WalkInv, NEW c \in Callers, CallAt(c, "request")
      PROVE  LET parts == call[c].parts
                 given == call[c].given
             IN  /\ Len(parts) = Len(given)
                 /\ \A i \in DOMAIN parts :
                     /\ parts[i].media = given[i].media
                     /\ parts[i].source.variant # "resource"
                     /\ given[i].source.content \in Hashes =>
                         parts[i].source.content = given[i].source.content
                     /\ IF given[i].source.variant = "resource" \/ parts[i].media = "recording"
                        THEN Usable(parts[i].media, parts[i].source.content)
                        ELSE parts[i] = given[i]
  <2> DEFINE parts == call[c].parts
             given == call[c].given
  <2>1. /\ Len(parts) = Len(given) /\ Unresolved(parts) = {}
        /\ \A i \in DOMAIN parts :
            /\ parts[i].media = given[i].media /\ Settled(parts[i], given[i])
            /\ CheckedPart(parts[i])
    BY <1>1 DEF WalkInv, Walked, Aligned, Checked, CallAt
  <2> HIDE DEF parts, given
  <2>2. \A i \in DOMAIN parts : parts[i].source.variant # "resource"
    BY <2>1 DEF Unresolved
  <2>3. ASSUME NEW i \in DOMAIN parts
        PROVE  /\ given[i].source.content \in Hashes =>
                    parts[i].source.content = given[i].source.content
               /\ IF given[i].source.variant = "resource" \/ parts[i].media = "recording"
                  THEN Usable(parts[i].media, parts[i].source.content)
                  ELSE parts[i] = given[i]
    BY <2>1, <2>2, <2>3 DEF Settled, CheckedPart
  <2> QED
    BY <2>1, <2>2, <2>3 DEF parts, given
<1>2. WalkInv => ProviderSeesTheInputs
  BY <1>1 DEF ProviderSeesTheInputs
<1> QED
  BY <1>2, WalkInit, WalkStepKeeps, PTL DEF MediaSpec

=============================================================================
