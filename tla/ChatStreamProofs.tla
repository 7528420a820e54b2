--------------------------- MODULE ChatStreamProofs ---------------------------
(***************************************************************************)
(* What holds of a streaming call for whatever a provider may send, any    *)
(* bindings and any capacities of the channels: types, the conversation,   *)
(* the order of the chunks, the answers and the tools.                     *)
(***************************************************************************)
EXTENDS ChatStream, FiniteSetTheorems, SequenceTheorems, WellFoundedInduction, TLAPS

-----------------------------------------------------------------------------
(* Types *)

Texts == {e.text : e \in Events}
ToolNames == {e.tool : e \in Events}
Reasons == {e.reason : e \in Events} \cup {"none"}

Pcs == {"idle", "request", "filling", "opened", "drain", "turn", "tools",
        "dispatch", "answered", "conclude", "send", "ended"}
Kinds == {"none", "text", "usage", "tool_call", "tool_result", "boundary", "done", "error"}

Chunks ==
    [kind : Kinds, text : Seq(Texts), tool : ToolNames \cup {"none"},
     iteration : Nat, tokens : Nat]
Messages == [role : {"system", "user", "assistant", "tool"}, calls : Seq(ToolNames)]
Runs ==
    [pc : Pcs, spec : Specs, iter : Nat, content : Seq(Texts),
     calls : Seq(ToolNames), todo : Seq(ToolNames), finish : Reasons, tokens : Nat,
     messages : Seq(Messages), out : Chunks, next : Pcs]
Hearings == [text : Seq(Texts), tokens : Nat, tools : Seq(ToolNames \cup {"none"})]

LEMMA ConstantFacts ==
    /\ \A s \in Scripts : s \in Seq(Events)
    /\ \A e \in Events :
        /\ e.kind \in EventKinds /\ e.tokens \in Nat
        /\ e.text \in Texts /\ e.tool \in ToolNames /\ e.reason \in Reasons
    /\ EventCapacity \in Nat \ {0} /\ DefaultCapacity \in Nat \ {0}
    /\ ChunkCapacity \in Nat \ {0}
    /\ (CHOOSE spec \in Specs : TRUE) \in Specs
    /\ \A spec \in Specs : spec.iterations \in Nat \ {0}
<1>1. ASSUME NEW spec \in Specs PROVE spec.iterations \in Nat \ {0}
  <2>1. ResolvedMaxIterations(ChatSpec(spec)) \in 1..50
    BY SpecValid DEF ValidChat
  <2>2. ChatSpec(spec).max_iterations = {spec.iterations}
    BY DEF ChatSpec, ChatDefaults
  <2>3. ResolvedMaxIterations(ChatSpec(spec)) = spec.iterations
    BY <2>2 DEF ResolvedMaxIterations
  <2> QED
    BY <2>1, <2>3
<1>2. \A s \in Scripts : s \in Seq(Events)
  BY StreamAssumption
<1>3. ASSUME NEW e \in Events
      PROVE  /\ e.kind \in EventKinds /\ e.tokens \in Nat
             /\ e.text \in Texts /\ e.tool \in ToolNames /\ e.reason \in Reasons
  BY StreamAssumption DEF Texts, ToolNames, Reasons
<1> QED
  BY <1>1, <1>2, <1>3, StreamAssumption, SpecValid

-----------------------------------------------------------------------------
(* What a host has heard.  The function that Heard folds with is recursive *)
(* over the chunks: that it exists, and that a chunk more is one step more *)
(* of it, is shown by looking at the least number of chunks for which it   *)
(* is not so.                                                              *)

LEMMA LeastOf ==
    ASSUME NEW S, S \subseteq Nat, S # {}
    PROVE  \E x \in S : \A y \in S : x <= y
<1>1. PICK x \in S : \A y \in S : ~(<<y, x>> \in OpToRel(<, Nat))
  BY NatLessThanWellFounded, WFMin
<1>2. ASSUME NEW y \in S, y < x PROVE FALSE
  BY <1>1, <1>2 DEF OpToRel
<1> QED
  BY <1>2

LEMMA HearTyped ==
    ASSUME NEW heard \in Hearings, NEW c \in Chunks
    PROVE  Hear(heard, c) \in Hearings
<1>1. c.text \in Seq(Texts) /\ c.tokens \in Nat /\ c.tool \in ToolNames \cup {"none"}
  BY DEF Chunks
<1>2. heard.text \in Seq(Texts) /\ heard.tokens \in Nat /\ heard.tools \in Seq(ToolNames \cup {"none"})
  BY DEF Hearings
<1>3. /\ heard.text \o c.text \in Seq(Texts)
      /\ heard.tokens + c.tokens \in Nat
      /\ Append(heard.tools, c.tool) \in Seq(ToolNames \cup {"none"})
      /\ <<>> \in Seq(Texts)
  BY <1>1, <1>2, EmptySeq
<1> QED
  BY <1>3 DEF Hear, Hearings

LEMMA NothingTyped == Nothing \in Hearings
<1>1. <<>> \in Seq(Texts) /\ <<>> \in Seq(ToolNames \cup {"none"})
  BY EmptySeq
<1> QED
  BY <1>1 DEF Nothing, Hearings

(* f holds what has been heard of the first n chunks.                      *)
Hears(f, chunks, n) ==
    \A i \in 0..n : f[i] = IF i = 0 THEN Nothing ELSE Hear(f[i - 1], chunks[i])

LEMMA HearsOnce ==
    ASSUME NEW n \in Nat, NEW f, NEW g, NEW chunks, NEW others,
           Hears(f, chunks, n), Hears(g, others, n),
           \A i \in 1..n : chunks[i] = others[i]
    PROVE  \A i \in 0..n : f[i] = g[i]
<1> DEFINE bad == {i \in 0..n : f[i] # g[i]}
<1>1. ASSUME bad # {} PROVE FALSE
  <2>1. PICK i \in bad : \A j \in bad : i <= j
    <3>1. bad \subseteq Nat
      OBVIOUS
    <3> HIDE DEF bad
    <3> QED
      BY <1>1, <3>1, LeastOf
  <2>2. i \in 0..n /\ f[i] # g[i]
    OBVIOUS
  <2>3. i # 0
    BY <2>2 DEF Hears
  <2>4. i - 1 \in 0..n /\ ~(i <= i - 1) /\ i \in 1..n
    BY <2>2, <2>3
  <2>5. f[i - 1] = g[i - 1]
    BY <2>1, <2>4
  <2>6. f[i] = Hear(f[i - 1], chunks[i]) /\ g[i] = Hear(g[i - 1], others[i])
    BY <2>2, <2>3 DEF Hears
  <2> QED
    BY <2>2, <2>4, <2>5, <2>6
<1> QED
  BY <1>1

LEMMA HearsExists ==
    ASSUME NEW chunks \in Seq(Chunks), NEW n \in 0..Len(chunks)
    PROVE  \E f \in [0..n -> Hearings] : Hears(f, chunks, n)
<1> DEFINE there(k) == \E f \in [0..k -> Hearings] : Hears(f, chunks, k)
           bad == {k \in 0..Len(chunks) : ~there(k)}
<1>0. Len(chunks) \in Nat
  OBVIOUS
<1>1. ASSUME bad # {} PROVE FALSE
  <2>1. PICK k \in bad : \A j \in bad : k <= j
    <3>1. bad \subseteq Nat
      BY <1>0
    <3> HIDE DEF bad
    <3> QED
      BY <1>1, <3>1, LeastOf
  <2>2. k \in 0..Len(chunks) /\ k \in Nat /\ ~there(k)
    BY <1>0
  <2>3. CASE k = 0
    <3> DEFINE f == [i \in 0..0 |-> Nothing]
    <3>1. f \in [0..0 -> Hearings] /\ Hears(f, chunks, 0)
      BY NothingTyped DEF Hears
    <3>2. there(0)
      BY <3>1
    <3> QED
      BY <2>2, <2>3, <3>2
  <2>4. CASE k # 0
    <3>1. k - 1 \in 0..Len(chunks) /\ ~(k <= k - 1) /\ k - 1 \in Nat /\ k \in DOMAIN chunks
      BY <1>0, <2>2, <2>4
    <3>2. k - 1 \notin bad
      <4> HIDE DEF bad
      <4> QED
        BY <2>1, <3>1
    <3>3. there(k - 1)
      BY <3>1, <3>2
    <3>4. PICK f \in [0..(k - 1) -> Hearings] : Hears(f, chunks, k - 1)
      BY <3>3
    <3> DEFINE last == Hear(f[k - 1], chunks[k])
               g == [i \in 0..k |-> IF i = k THEN last ELSE f[i]]
    <3>5. last \in Hearings
      <4>1. k - 1 \in 0..(k - 1) /\ chunks[k] \in Chunks
        BY <3>1
      <4>2. f[k - 1] \in Hearings
        BY <4>1
      <4> QED
        BY <4>1, <4>2, HearTyped
    <3>6. g \in [0..k -> Hearings]
      <4> HIDE DEF last
      <4> QED
        BY <2>2, <3>5
    <3>7. ASSUME NEW i \in 0..k
          PROVE  g[i] = IF i = 0 THEN Nothing ELSE Hear(g[i - 1], chunks[i])
      <4>1. CASE i = k
        <5>1. g[i] = last /\ g[i - 1] = f[k - 1]
          <6> HIDE DEF last
          <6> QED
            BY <2>2, <2>4, <4>1
        <5> QED
          BY <2>4, <4>1, <5>1
      <4>2. CASE i # k
        <5>1. i \in 0..(k - 1)
          BY <2>2, <4>2
        <5>2. f[i] = IF i = 0 THEN Nothing ELSE Hear(f[i - 1], chunks[i])
          BY <3>4, <5>1 DEF Hears
        <5>3. g[i] = f[i] /\ (i # 0 => g[i - 1] = f[i - 1])
          <6> HIDE DEF last
          <6> QED
            BY <2>2, <5>1
        <5> HIDE DEF g
        <5> QED
          BY <5>2, <5>3
      <4> QED
        BY <4>1, <4>2
    <3>8. Hears(g, chunks, k)
      <4> HIDE DEF g
      <4> QED
        BY <3>7 DEF Hears
    <3>9. there(k)
      <4> HIDE DEF g
      <4> QED
        BY <3>6, <3>8
    <3> QED
      BY <2>2, <3>9
  <2> QED
    BY <2>3, <2>4
<1>2. n \notin bad
  BY <1>1
<1> QED
  BY <1>0, <1>2

LEMMA HeardIs ==
    ASSUME NEW chunks \in Seq(Chunks)
    PROVE  \E f \in [0..Len(chunks) -> Hearings] :
                Hears(f, chunks, Len(chunks)) /\ Heard(chunks) = f[Len(chunks)]
<1> DEFINE n == Len(chunks)
           step(f) == [i \in 0..n |-> IF i = 0 THEN Nothing ELSE Hear(f[i - 1], chunks[i])]
           upTo == CHOOSE f : f = step(f)
<1>1. n \in Nat /\ n \in 0..Len(chunks)
  OBVIOUS
<1>2. PICK f \in [0..n -> Hearings] : Hears(f, chunks, n)
  BY <1>1, HearsExists
<1>3. f = step(f)
  BY <1>2 DEF Hears
<1>4. upTo = step(upTo)
  <2> HIDE DEF step
  <2> QED
    BY <1>3
<1>5. Hears(upTo, chunks, n) /\ DOMAIN upTo = 0..n
  <2>1. \A i \in 0..n : step(upTo)[i] = IF i = 0 THEN Nothing ELSE Hear(upTo[i - 1], chunks[i])
    OBVIOUS
  <2>2. DOMAIN step(upTo) = 0..n
    OBVIOUS
  <2> HIDE DEF upTo, step
  <2> QED
    BY <1>4, <2>1, <2>2 DEF Hears
<1>6. \A i \in 0..n : upTo[i] = f[i]
  <2> HIDE DEF upTo
  <2> QED
    BY <1>1, <1>2, <1>5, HearsOnce
<1>7. Heard(chunks) = upTo[n]
  BY DEF Heard
<1> QED
  <2> HIDE DEF upTo
  <2> QED
    BY <1>1, <1>2, <1>6, <1>7

LEMMA HeardTyped ==
    ASSUME NEW chunks \in Seq(Chunks)
    PROVE  Heard(chunks) \in Hearings
<1>1. Len(chunks) \in 0..Len(chunks)
  OBVIOUS
<1> QED
  BY <1>1, HeardIs

LEMMA NothingHeard == Heard(<<>>) = Nothing
<1>1. <<>> \in Seq(Chunks) /\ Len(<<>>) = 0
  BY EmptySeq
<1>2. PICK f : Hears(f, <<>>, 0) /\ Heard(<<>>) = f[0]
  BY <1>1, HeardIs
<1>3. 0 \in 0..0
  OBVIOUS
<1> QED
  BY <1>2, <1>3 DEF Hears

LEMMA HeardNext ==
    ASSUME NEW chunks \in Seq(Chunks), NEW c \in Chunks
    PROVE  Heard(Append(chunks, c)) = Hear(Heard(chunks), c)
<1> DEFINE n == Len(chunks)
           more == Append(chunks, c)
<1>1. more \in Seq(Chunks) /\ Len(more) = n + 1 /\ n \in Nat
  OBVIOUS
<1>2. \A i \in 1..n : more[i] = chunks[i]
  OBVIOUS
<1>3. more[n + 1] = c
  OBVIOUS
<1> HIDE DEF more
<1>4. PICK f : Hears(f, chunks, n) /\ Heard(chunks) = f[n]
  BY HeardIs
<1>5. PICK g : Hears(g, more, n + 1) /\ Heard(more) = g[n + 1]
  BY <1>1, HeardIs
<1>6. Hears(g, more, n) /\ g[n + 1] = Hear(g[n], more[n + 1])
  <2>1. \A i \in 0..n : i \in 0..(n + 1)
    BY <1>1
  <2>2. n + 1 \in 0..(n + 1) /\ n + 1 # 0 /\ (n + 1) - 1 = n
    BY <1>1
  <2>3. g[n + 1] = Hear(g[n], more[n + 1])
    BY <1>5, <2>2 DEF Hears
  <2> QED
    BY <1>5, <2>1, <2>3 DEF Hears
<1>7. g[n] = f[n]
  <2>1. \A i \in 0..n : f[i] = g[i]
    <3> HIDE DEF n
    <3> QED
      BY <1>1, <1>2, <1>4, <1>6, HearsOnce
  <2> QED
    BY <1>1, <2>1
<1> QED
  BY <1>3, <1>4, <1>5, <1>6, <1>7 DEF more

-----------------------------------------------------------------------------
(* What an action does to the locals of the engine *)

(* Where the engine is, or will be when its chunk is in.                   *)
Position == IF run.pc = "send" THEN run.next ELSE run.pc

Loops(s, at) ==
    /\ at # "send"
    /\ s.iter < s.spec.iterations
    /\ at \in {"dispatch", "answered"} => s.todo # <<>>

Dispatches == [tool : ToolNames, unheard : BOOLEAN]

Typed ==
    /\ run \in Runs /\ Loops(run, Position)
    /\ script \in Seq(Events) /\ events \in Seq(Events)
    /\ sent \in Seq(Chunks)
    /\ unread \in 0..ChunkCapacity
    /\ gone \in BOOLEAN
    /\ dispatched \in Seq(Dispatches)

SameRound(s, t) ==
    t.spec = s.spec /\ t.iter = s.iter /\ t.todo = s.todo /\ t.messages = s.messages

SameAnswer(s, t) == t.content = s.content /\ t.tokens = s.tokens

SameCall(s, t) == SameRound(s, t) /\ SameAnswer(s, t)

Goes(s, t, at) == t \in Runs /\ t.pc = at

Sends(s, t, chunk, next) ==
    t \in Runs /\ t.pc = "send" /\ t.out = chunk /\ t.next = next /\ chunk \in Chunks

LEMMA ChunksTyped ==
    /\ \A kind \in Kinds : Chunk(kind) \in Chunks
    /\ \A kind \in Kinds :
        /\ Chunk(kind).kind = kind /\ Chunk(kind).tokens = 0 /\ Chunk(kind).text = <<>>
    /\ NoChunk \in Chunks /\ NoChunk.kind = "none"
    /\ ErrorChunk \in Chunks /\ ErrorChunk.kind = "error"
<1>1. <<>> \in Seq(Texts)
  BY EmptySeq
<1> QED
  BY <1>1 DEF Chunk, Chunks, Kinds, NoChunk, ErrorChunk

LEMMA SendingMoves ==
    ASSUME NEW s \in Runs, NEW chunk \in Chunks, NEW next \in Pcs
    PROVE  /\ Sends(s, Sending(s, chunk, next), chunk, next)
           /\ SameCall(s, Sending(s, chunk, next))
BY DEF Sends, Sending, Runs, Pcs, SameCall, SameRound, SameAnswer

LEMMA FailingMoves ==
    ASSUME NEW s \in Runs
    PROVE  Sends(s, Failing(s), ErrorChunk, "ended") /\ SameCall(s, Failing(s))
<1>1. "ended" \in Pcs
  BY DEF Pcs
<1> QED
  BY <1>1, ChunksTyped, SendingMoves DEF Failing

LEMMA GoingMoves ==
    ASSUME NEW s \in Runs, NEW at \in Pcs
    PROVE  Goes(s, [s EXCEPT !.pc = at], at) /\ SameCall(s, [s EXCEPT !.pc = at])
BY DEF Goes, Runs, SameCall, SameRound, SameAnswer

LEMMA IdleFacts ==
    /\ Idle \in Runs /\ Idle.pc = "idle"
    /\ Idle.iter = 0 /\ Idle.tokens = 0 /\ Idle.content = <<>> /\ Idle.todo = <<>>
    /\ Idle.messages = <<SystemMessage, UserMessage>>
<1>1. /\ <<>> \in Seq(Texts) /\ <<>> \in Seq(ToolNames)
      /\ <<SystemMessage, UserMessage>> \in Seq(Messages)
  <2>1. <<>> \in Seq(ToolNames)
    BY EmptySeq
  <2>2. SystemMessage \in Messages /\ UserMessage \in Messages
    BY <2>1 DEF SystemMessage, UserMessage, Messages
  <2> QED
    BY <2>1, <2>2, EmptySeq
<1>2. (CHOOSE spec \in Specs : TRUE) \in Specs
  BY ConstantFacts
<1> QED
  BY <1>1, <1>2, ChunksTyped DEF Idle, Runs, Pcs, Reasons

LEMMA BeginMoves ==
    ASSUME Begin
    PROVE  /\ \/ Goes(Idle, run', "request")
              \/ Sends(Idle, run', ErrorChunk, "ended")
           /\ SameAnswer(Idle, run')
           /\ run'.iter = 0 /\ run'.todo = <<>> /\ run'.messages = Idle.messages
<1>1. PICK spec \in Specs : run' \in {[Idle EXCEPT !.pc = "request", !.spec = spec], Failing(Idle)}
  BY DEF Begin
<1>2. CASE run' = Failing(Idle)
  BY <1>2, IdleFacts, FailingMoves DEF SameCall, SameRound
<1>3. CASE run' = [Idle EXCEPT !.pc = "request", !.spec = spec]
  <2>1. Goes(Idle, run', "request")
    BY <1>3, IdleFacts DEF Goes, Runs, Pcs
  <2>2. /\ run'.iter = Idle.iter /\ run'.todo = Idle.todo /\ run'.messages = Idle.messages
        /\ run'.content = Idle.content /\ run'.tokens = Idle.tokens
    BY <1>3, IdleFacts DEF Runs
  <2> QED
    BY <2>1, <2>2, IdleFacts DEF SameAnswer
<1> QED
  BY <1>1, <1>2, <1>3

LEMMA SendMoves ==
    ASSUME Typed, Send
    PROVE  /\ SameCall(run, run')
           /\ \/ /\ ~gone /\ unread < ChunkCapacity
                 /\ sent' = Append(sent, run.out) /\ unread' = unread + 1
                 /\ Goes(run, run', run.next)
              \/ /\ gone /\ UNCHANGED <<sent, unread>>
                 /\ \/ run.out.kind \in {"usage", "error", "done"} /\ Goes(run, run', run.next)
                    \/ Goes(run, run', "ended")
<1>1. run \in Runs /\ run.next \in Pcs /\ "ended" \in Pcs
  BY DEF Typed, Runs, Pcs
<1>2. CASE run' = [run EXCEPT !.pc = run.next, !.out = NoChunk]
  BY <1>1, <1>2, ChunksTyped DEF Send, Goes, Runs, SameCall, SameRound, SameAnswer
<1>3. CASE gone /\ run' = [run EXCEPT !.out = NoChunk,
                                      !.pc = IF run.out.kind \in {"usage", "error", "done"}
                                             THEN run.next ELSE "ended"]
           /\ UNCHANGED <<sent, unread>>
  <2>1. SameCall(run, run') /\ run' \in Runs
    BY <1>1, <1>3, ChunksTyped DEF Runs, SameCall, SameRound, SameAnswer
  <2>2. run'.pc = IF run.out.kind \in {"usage", "error", "done"} THEN run.next ELSE "ended"
    BY <1>1, <1>3 DEF Runs
  <2> QED
    BY <1>3, <2>1, <2>2 DEF Goes
<1> QED
  BY <1>2, <1>3 DEF Send

LEMMA RequestMoves ==
    ASSUME Typed, Request
    PROVE  /\ SameCall(run, run')
           /\ \/ Sends(run, run', ErrorChunk, "ended")
              \/ Goes(run, run', "opened")
              \/ Goes(run, run', "filling")
<1>1. run \in Runs /\ "opened" \in Pcs /\ "filling" \in Pcs
  BY DEF Typed, Pcs
<1> QED
  BY <1>1, FailingMoves, GoingMoves DEF Request

LEMMA FilledMoves ==
    ASSUME Typed, Filled
    PROVE  SameCall(run, run') /\ Goes(run, run', "opened")
<1>1. run \in Runs /\ "opened" \in Pcs
  BY DEF Typed, Pcs
<1> QED
  BY <1>1, GoingMoves DEF Filled, Become

LEMMA OpenedMoves ==
    ASSUME Typed, Opened
    PROVE  /\ SameRound(run, run') /\ run'.content = <<>> /\ run'.tokens = run.tokens
           /\ Goes(run, run', "drain")
<1>1. run \in Runs
  BY DEF Typed
<1>2. <<>> \in Seq(Texts) /\ <<>> \in Seq(ToolNames)
  BY EmptySeq
<1> QED
  BY <1>1, <1>2 DEF Opened, Become, Runs, Pcs, Goes, SameRound, Reasons

LEMMA ReceiveMoves ==
    ASSUME Typed, Receive
    PROVE  /\ SameRound(run, run')
           /\ \E e \in Events :
                \/ /\ Sends(run, run', [Chunk("text") EXCEPT !.text = <<e.text>>], "drain")
                   /\ run'.content = Append(run.content, e.text) /\ run'.tokens = run.tokens
                \/ /\ Goes(run, run', "drain") /\ SameAnswer(run, run')
                \/ /\ e.tokens > 0
                   /\ Sends(run, run', [Chunk("usage") EXCEPT !.tokens = e.tokens], "turn")
                   /\ run'.content = run.content /\ run'.tokens = run.tokens + e.tokens
                \/ /\ Goes(run, run', "turn") /\ SameAnswer(run, run')
                \/ Sends(run, run', ErrorChunk, "ended") /\ SameAnswer(run, run')
<1> DEFINE e == Head(events)
<1>1. /\ run \in Runs /\ e \in Events /\ e.kind \in EventKinds /\ e.tokens \in Nat
      /\ e.text \in Texts /\ e.tool \in ToolNames /\ e.reason \in Reasons
  <2>1. e \in Events
    BY DEF Typed, Receive
  <2> HIDE DEF e
  <2> QED
    BY <2>1, ConstantFacts DEF Typed
<1>2. run' = Take(e)
  BY DEF Receive
<1> HIDE DEF e
<1>3. CASE e.kind = "text"
  <2> DEFINE s == [run EXCEPT !.content = Append(@, e.text)]
             chunk == [Chunk("text") EXCEPT !.text = <<e.text>>]
  <2>1. /\ s \in Runs /\ s.content = Append(run.content, e.text)
        /\ s.tokens = run.tokens /\ SameRound(run, s)
    <3>1. Append(run.content, e.text) \in Seq(Texts)
      BY <1>1 DEF Runs
    <3>2. s = [run EXCEPT !.content = Append(run.content, e.text)]
      OBVIOUS
    <3> HIDE DEF s
    <3> QED
      BY <1>1, <3>1, <3>2 DEF Runs, SameRound
  <2>2. chunk \in Chunks /\ "drain" \in Pcs
    <3>1. <<e.text>> \in Seq(Texts)
      BY <1>1
    <3> QED
      BY <3>1 DEF Chunk, Chunks, Kinds, Pcs
  <2>3. run' = Sending(s, chunk, "drain")
    BY <1>2, <1>3 DEF Take
  <2> HIDE DEF s, chunk
  <2>4. Sends(s, run', chunk, "drain") /\ SameCall(s, run')
    BY <2>1, <2>2, <2>3, SendingMoves
  <2> QED
    BY <1>1, <2>1, <2>4 DEF Sends, SameCall, SameRound, SameAnswer, chunk
<1>4. CASE e.kind = "call"
  <2>1. run' = [run EXCEPT !.calls = Append(@, e.tool)]
    BY <1>2, <1>4 DEF Take
  <2>2. run' \in Runs /\ SameCall(run, run') /\ run'.pc = run.pc
    <3>1. Append(run.calls, e.tool) \in Seq(ToolNames)
      BY <1>1 DEF Runs
    <3>2. run' = [run EXCEPT !.calls = Append(run.calls, e.tool)]
      BY <2>1
    <3> QED
      BY <1>1, <3>1, <3>2 DEF Runs, SameCall, SameRound, SameAnswer
  <2> QED
    BY <1>1, <2>2 DEF Receive, At, Goes, SameCall
<1>5. CASE e.kind = "finish"
  <2> DEFINE s == [run EXCEPT !.tokens = @ + e.tokens, !.finish = e.reason]
             chunk == [Chunk("usage") EXCEPT !.tokens = e.tokens]
  <2>1. /\ s \in Runs /\ s.content = run.content
        /\ s.tokens = run.tokens + e.tokens /\ SameRound(run, s)
    <3>1. run.tokens + e.tokens \in Nat
      BY <1>1 DEF Runs
    <3>2. s = [run EXCEPT !.tokens = run.tokens + e.tokens, !.finish = e.reason]
      OBVIOUS
    <3> HIDE DEF s
    <3> QED
      BY <1>1, <3>1, <3>2 DEF Runs, SameRound
  <2>2. chunk \in Chunks /\ "turn" \in Pcs
    BY <1>1, ChunksTyped DEF Chunks, Kinds, Pcs
  <2>3. run' = IF e.tokens > 0 THEN Sending(s, chunk, "turn") ELSE [s EXCEPT !.pc = "turn"]
    BY <1>2, <1>5 DEF Take
  <2>4. run.tokens \in Nat
    BY <1>1 DEF Runs
  <2> HIDE DEF s, chunk
  <2>5. CASE e.tokens > 0
    <3>1. Sends(s, run', chunk, "turn") /\ SameCall(s, run')
      BY <2>1, <2>2, <2>3, <2>5, SendingMoves
    <3> QED
      BY <1>1, <2>1, <2>5, <3>1 DEF Sends, SameCall, SameRound, SameAnswer, chunk
  <2>6. CASE ~(e.tokens > 0)
    <3>1. Goes(s, run', "turn") /\ SameCall(s, run')
      BY <2>1, <2>2, <2>3, <2>6, GoingMoves
    <3>2. s.tokens = run.tokens
      BY <1>1, <2>1, <2>4, <2>6
    <3> QED
      BY <1>1, <2>1, <3>1, <3>2 DEF Goes, SameCall, SameRound, SameAnswer
  <2> QED
    BY <2>5, <2>6
<1>6. CASE e.kind = "error"
  <2>1. run' = Failing(run)
    BY <1>2, <1>6 DEF Take
  <2> QED
    BY <1>1, <2>1, FailingMoves DEF SameCall
<1> QED
  BY <1>1, <1>3, <1>4, <1>5, <1>6 DEF EventKinds

LEMMA ClosedMoves ==
    ASSUME Typed, Closed
    PROVE  SameCall(run, run') /\ Goes(run, run', "turn")
<1>1. run \in Runs /\ "turn" \in Pcs
  BY DEF Typed, Pcs
<1> QED
  BY <1>1, GoingMoves DEF Closed, Become

LEMMA TurnMoves ==
    ASSUME Typed, Turn
    PROVE  \/ SameCall(run, run') /\ Goes(run, run', "conclude")
           \/ SameCall(run, run') /\ Sends(run, run', ErrorChunk, "ended")
           \/ /\ SameAnswer(run, run') /\ run'.spec = run.spec /\ run'.iter = run.iter
              /\ run'.todo = run.calls /\ run.calls # <<>>
              /\ run'.messages = Append(run.messages, AssistantTurn(run.calls))
              /\ Goes(run, run', "tools")
<1>1. run \in Runs /\ "conclude" \in Pcs
  BY DEF Typed, Pcs
<1>2. AssistantTurn(run.calls) \in Messages /\ <<>> \in Seq(ToolNames)
  BY <1>1, EmptySeq DEF Runs, AssistantTurn, Messages
<1>3. CASE run' = [run EXCEPT !.pc = "tools", !.todo = run.calls, !.calls = <<>>,
                              !.messages = Append(@, AssistantTurn(run.calls))]
           /\ run.calls # <<>>
  <2>1. /\ Append(run.messages, AssistantTurn(run.calls)) \in Seq(Messages)
        /\ run.calls \in Seq(ToolNames) /\ "tools" \in Pcs
    BY <1>1, <1>2 DEF Runs, Pcs
  <2>2. run' = [run EXCEPT !.pc = "tools", !.todo = run.calls, !.calls = <<>>,
                           !.messages = Append(run.messages, AssistantTurn(run.calls))]
    BY <1>3
  <2> QED
    BY <1>1, <1>2, <1>3, <2>1, <2>2 DEF Runs, SameAnswer, Goes
<1> QED
  BY <1>1, <1>3, GoingMoves, FailingMoves DEF Turn, Become

LEMMA ToolsMoves ==
    ASSUME Typed, Tools
    PROVE  \/ /\ SameCall(run, run') /\ run.todo # <<>>
              /\ Sends(run, run', [Chunk("tool_call") EXCEPT !.tool = Head(run.todo)], "dispatch")
              /\ UNCHANGED <<script, events>>
           \/ /\ SameAnswer(run, run') /\ run.todo = <<>>
              /\ run'.spec = run.spec /\ run'.todo = run.todo /\ run'.messages = run.messages
              /\ run'.iter = run.iter + 1 /\ run.iter + 1 < run.spec.iterations
              /\ Sends(run, run', [Chunk("boundary") EXCEPT !.iteration = run.iter + 1], "request")
              /\ script' = <<>> /\ events' = <<>>
           \/ /\ SameCall(run, run') /\ run.todo = <<>> /\ Goes(run, run', "conclude")
              /\ script' = <<>> /\ events' = <<>>
<1>1. run \in Runs /\ {"dispatch", "request", "conclude"} \subseteq Pcs
  BY DEF Typed, Pcs
<1>2. ASSUME NEW chunk, chunk = [Chunk("tool_call") EXCEPT !.tool = Head(run.todo)],
             run.todo # <<>>, Become(Sending(run, chunk, "dispatch"))
      PROVE  SameCall(run, run') /\ Sends(run, run', chunk, "dispatch") /\ UNCHANGED <<script, events>>
  <2>1. Head(run.todo) \in ToolNames
    BY <1>1, <1>2 DEF Runs
  <2>2. chunk \in Chunks
    BY <1>2, <2>1, ChunksTyped DEF Chunks, Kinds
  <2> QED
    BY <1>1, <1>2, <2>2, SendingMoves DEF Become, adapter
<1>3. ASSUME NEW s, s = [run EXCEPT !.iter = @ + 1], NEW chunk,
             chunk = [Chunk("boundary") EXCEPT !.iteration = s.iter],
             run' = Sending(s, chunk, "request")
      PROVE  /\ SameAnswer(run, run') /\ run'.spec = run.spec /\ run'.todo = run.todo
             /\ run'.messages = run.messages /\ run'.iter = run.iter + 1
             /\ s.iter = run.iter + 1
             /\ Sends(run, run', chunk, "request")
  <2>1. /\ s \in Runs /\ SameAnswer(run, s) /\ s.spec = run.spec /\ s.todo = run.todo
        /\ s.messages = run.messages /\ s.iter = run.iter + 1 /\ s.iter \in Nat
    <3>1. run.iter + 1 \in Nat
      BY <1>1 DEF Runs
    <3>2. s = [run EXCEPT !.iter = run.iter + 1]
      BY <1>3
    <3> QED
      BY <1>1, <3>1, <3>2 DEF Runs, SameAnswer
  <2>2. chunk \in Chunks
    BY <1>3, <2>1, ChunksTyped DEF Chunks, Kinds
  <2>3. Sends(s, run', chunk, "request") /\ SameCall(s, run')
    BY <1>1, <1>3, <2>1, <2>2, SendingMoves
  <2> QED
    BY <2>1, <2>3 DEF Sends, SameCall, SameRound, SameAnswer
<1>4. CASE run.todo # <<>>
  BY <1>2, <1>4 DEF Tools
<1>5. CASE run.todo = <<>> /\ run.iter + 1 < run.spec.iterations
  <2> DEFINE s == [run EXCEPT !.iter = @ + 1]
             chunk == [Chunk("boundary") EXCEPT !.iteration = s.iter]
  <2>1. run' = Sending(s, chunk, "request") /\ script' = <<>> /\ events' = <<>>
    <3>1. run.iter \in Nat /\ run.spec \in Specs
      BY <1>1 DEF Runs
    <3>2. ~(run.iter + 1 >= run.spec.iterations)
      BY <1>5, <3>1, ConstantFacts
    <3> QED
      BY <1>5, <3>2 DEF Tools
  <2>2. s.iter = run.iter + 1
    BY <1>1 DEF Runs
  <2> HIDE DEF s
  <2> QED
    BY <1>3, <1>5, <2>1, <2>2 DEF s
<1>6. CASE run.todo = <<>> /\ ~(run.iter + 1 < run.spec.iterations)
  <2>1. run' = [run EXCEPT !.pc = "conclude"] /\ script' = <<>> /\ events' = <<>>
    BY <1>6 DEF Tools
  <2> QED
    BY <1>1, <1>6, <2>1, GoingMoves
<1> QED
  BY <1>4, <1>5, <1>6

LEMMA DispatchMoves ==
    ASSUME Typed, Dispatch
    PROVE  /\ SameCall(run, run') /\ run.todo # <<>> /\ Head(run.todo) \in ToolNames
           /\ Sends(run, run', [Chunk("tool_result") EXCEPT !.tool = Head(run.todo)], "answered")
<1>1. run \in Runs /\ run.todo # <<>> /\ "answered" \in Pcs
  BY DEF Typed, Pcs, Dispatch, At, Position, Loops
<1>2. Head(run.todo) \in ToolNames
  BY <1>1 DEF Runs
<1>3. [Chunk("tool_result") EXCEPT !.tool = Head(run.todo)] \in Chunks
  BY <1>2, ChunksTyped DEF Chunks, Kinds
<1> QED
  BY <1>1, <1>2, <1>3, SendingMoves DEF Dispatch

LEMMA AnsweredMoves ==
    ASSUME Typed, Answered
    PROVE  /\ SameAnswer(run, run') /\ run'.spec = run.spec /\ run'.iter = run.iter
           /\ run.todo # <<>> /\ Head(run.todo) \in ToolNames
           /\ run'.todo = Tail(run.todo)
           /\ run'.messages = Append(run.messages, ToolResult(Head(run.todo)))
           /\ Goes(run, run', "tools")
<1>1. run \in Runs /\ run.todo # <<>>
  BY DEF Typed, Answered, At, Position, Loops
<1>2. run.todo \in Seq(ToolNames)
  BY <1>1 DEF Runs
<1>3. Head(run.todo) \in ToolNames /\ Tail(run.todo) \in Seq(ToolNames)
  BY <1>1, <1>2
<1>4. ToolResult(Head(run.todo)) \in Messages
  BY <1>3 DEF ToolResult, Messages
<1>5. Append(run.messages, ToolResult(Head(run.todo))) \in Seq(Messages) /\ "tools" \in Pcs
  BY <1>1, <1>4 DEF Runs, Pcs
<1>6. run' = [run EXCEPT !.pc = "tools", !.todo = Tail(run.todo),
                         !.messages = Append(run.messages, ToolResult(Head(run.todo)))]
  BY DEF Answered, Become
<1> QED
  BY <1>1, <1>3, <1>5, <1>6 DEF Runs, SameAnswer, Goes

Answer(s) == [Chunk("done") EXCEPT !.text = s.content, !.tokens = s.tokens]

LEMMA ConcludeMoves ==
    ASSUME Typed, Conclude
    PROVE  /\ SameCall(run, run')
           /\ \/ Sends(run, run', ErrorChunk, "ended")
              \/ Sends(run, run', Answer(run), "ended") /\ Acceptable(run.content)
<1>1. run \in Runs /\ "ended" \in Pcs
  BY DEF Typed, Pcs
<1>2. Answer(run) \in Chunks
  BY <1>1, ChunksTyped DEF Runs, Chunks, Kinds, Answer
<1>3. run' = IF Exhausted(run) \/ ~Acceptable(run.content) THEN Failing(run)
             ELSE Sending(run, Answer(run), "ended")
  BY DEF Conclude, Become, Answer
<1> QED
  BY <1>1, <1>2, <1>3, FailingMoves, SendingMoves

-----------------------------------------------------------------------------
(* Every variable keeps its type.                                          *)

LEMMA RestKept ==
    ASSUME Typed, UNCHANGED <<adapter, outbound, dispatched>>,
           run' \in Runs, Loops(run', Position')
    PROVE  Typed'
BY DEF Typed, adapter, outbound

LEMMA InitTyped == Init => Typed
<1> SUFFICES ASSUME Init PROVE Typed
  OBVIOUS
<1>1. <<>> \in Seq(Events) /\ <<>> \in Seq(Chunks) /\ <<>> \in Seq(Dispatches)
  BY EmptySeq
<1>2. run \in Runs /\ Position = "idle" /\ run.iter = 0 /\ run.spec \in Specs
  BY IdleFacts DEF Init, Position, Runs
<1>3. run.iter < run.spec.iterations
  BY <1>2, ConstantFacts
<1>4. Loops(run, Position)
  BY <1>2, <1>3 DEF Loops
<1>5. 0 \in 0..ChunkCapacity
  BY ConstantFacts
<1> QED
  BY <1>1, <1>2, <1>4, <1>5 DEF Init, Typed

LEMMA GoesSomewhere ==
    ASSUME Typed, NEW at, Goes(run, run', at), at # "send",
           run'.spec = run.spec, run'.iter = run.iter,
           at \in {"dispatch", "answered"} => run'.todo # <<>>
    PROVE  run' \in Runs /\ Loops(run', Position') /\ Position' = at
BY DEF Typed, Goes, Loops, Position

LEMMA SendsSomewhere ==
    ASSUME Typed, NEW chunk, NEW at, Sends(run, run', chunk, at), at # "send",
           run'.spec = run.spec, run'.iter = run.iter,
           at \in {"dispatch", "answered"} => run'.todo # <<>>
    PROVE  run' \in Runs /\ Loops(run', Position') /\ Position' = at
BY DEF Typed, Sends, Loops, Position

LEMMA BeginTyped == Typed /\ Begin => Typed'
<1> SUFFICES ASSUME Typed, Begin PROVE Typed'
  OBVIOUS
<1>1. run' \in Runs /\ Position' \in {"request", "ended"}
  BY BeginMoves DEF Goes, Sends, Position
<1>2. run'.iter < run'.spec.iterations
  BY <1>1, BeginMoves, ConstantFacts DEF Runs
<1>3. <<>> \in Seq(Chunks) /\ <<>> \in Seq(Dispatches)
  BY EmptySeq
<1>4. Loops(run', Position')
  BY <1>1, <1>2 DEF Loops
<1>5. 0 \in 0..ChunkCapacity
  BY ConstantFacts
<1> QED
  BY <1>1, <1>3, <1>4, <1>5 DEF Begin, Typed, adapter

LEMMA SendTyped == Typed /\ Send => Typed'
<1> SUFFICES ASSUME Typed, Send PROVE Typed'
  OBVIOUS
<1>1. Position = run.next /\ run.out \in Chunks /\ Loops(run, run.next)
  BY DEF Typed, Send, At, Position, Runs
<1>2. SameCall(run, run')
  BY SendMoves
<1>3. ASSUME Goes(run, run', run.next) \/ Goes(run, run', "ended")
      PROVE  run' \in Runs /\ Loops(run', Position')
  BY <1>1, <1>2, <1>3, GoesSomewhere DEF Loops, SameCall, SameRound
<1>4. run' \in Runs /\ Loops(run', Position')
  BY <1>3, SendMoves
<1>5. sent' \in Seq(Chunks) /\ unread' \in 0..ChunkCapacity
  <2>1. /\ sent \in Seq(Chunks) /\ unread \in 0..ChunkCapacity
        /\ Append(sent, run.out) \in Seq(Chunks)
    BY <1>1 DEF Typed
  <2>2. unread < ChunkCapacity => unread + 1 \in 0..ChunkCapacity
    BY <2>1, ConstantFacts
  <2> QED
    BY <2>1, <2>2, SendMoves
<1> QED
  BY <1>4, <1>5 DEF Typed, Send, adapter

LEMMA EndTyped == Typed /\ End => Typed'
<1> SUFFICES ASSUME Typed, End PROVE Typed'
  OBVIOUS
<1>1. run' = Idle /\ Position' = "idle"
  BY IdleFacts DEF End, Position
<1>2. Loops(run', Position')
  BY <1>1, IdleFacts, ConstantFacts DEF Loops, Runs
<1>3. <<>> \in Seq(Events)
  BY EmptySeq
<1> QED
  BY <1>1, <1>2, <1>3, IdleFacts DEF End, Typed, outbound

LEMMA RequestTyped == Typed /\ Request => Typed'
<1> SUFFICES ASSUME Typed, Request PROVE Typed'
  OBVIOUS
<1>1. run' \in Runs /\ Loops(run', Position')
  BY RequestMoves, GoesSomewhere, SendsSomewhere DEF SameCall, SameRound
<1>2. script' \in Seq(Events) /\ events' \in Seq(Events)
  <2>1. <<>> \in Seq(Events)
    BY EmptySeq
  <2> QED
    BY <2>1, ConstantFacts DEF Request, Typed
<1> QED
  BY <1>1, <1>2 DEF Request, Typed, outbound

LEMMA ReceiveTyped == Typed /\ Receive => Typed'
<1> SUFFICES ASSUME Typed, Receive PROVE Typed'
  OBVIOUS
<1>1. run' \in Runs /\ Loops(run', Position')
  <2>1. \/ \E chunk : \E at \in {"drain", "turn", "ended"} : Sends(run, run', chunk, at)
        \/ \E at \in {"drain", "turn"} : Goes(run, run', at)
    BY ReceiveMoves
  <2> QED
    BY <2>1, ReceiveMoves, GoesSomewhere, SendsSomewhere DEF SameRound
<1>2. events' \in Seq(Events)
  BY DEF Receive, Typed
<1> QED
  BY <1>1, <1>2 DEF Receive, Typed, outbound

LEMMA ToolsTyped == Typed /\ Tools => Typed'
<1> SUFFICES ASSUME Typed, Tools PROVE Typed'
  OBVIOUS
<1>1. run' \in Runs /\ Loops(run', Position')
  <2>1. CASE \E chunk : SameCall(run, run') /\ run.todo # <<>> /\ Sends(run, run', chunk, "dispatch")
    BY <2>1, SendsSomewhere DEF SameCall, SameRound
  <2>2. CASE SameCall(run, run') /\ Goes(run, run', "conclude")
    BY <2>2, GoesSomewhere DEF SameCall, SameRound
  <2>3. CASE /\ \E chunk : Sends(run, run', chunk, "request")
             /\ run'.spec = run.spec /\ run'.iter = run.iter + 1
             /\ run.iter + 1 < run.spec.iterations
    BY <2>3 DEF Sends, Loops, Position
  <2> QED
    BY <2>1, <2>2, <2>3, ToolsMoves
<1>2. script' \in Seq(Events) /\ events' \in Seq(Events)
  <2>1. <<>> \in Seq(Events)
    BY EmptySeq
  <2>2. \/ UNCHANGED <<script, events>>
        \/ script' = <<>> /\ events' = <<>>
    BY ToolsMoves
  <2> QED
    BY <2>1, <2>2 DEF Typed
<1>3. UNCHANGED <<outbound, dispatched>>
  BY DEF Tools, Become
<1> QED
  BY <1>1, <1>2, <1>3 DEF Typed, outbound

LEMMA DispatchTyped == Typed /\ Dispatch => Typed'
<1> SUFFICES ASSUME Typed, Dispatch PROVE Typed'
  OBVIOUS
<1>1. run' \in Runs /\ Loops(run', Position')
  BY DispatchMoves, SendsSomewhere DEF SameCall, SameRound
<1>2. dispatched' \in Seq(Dispatches)
  <2>1. [tool |-> Head(run.todo), unheard |-> gone] \in Dispatches
    BY DispatchMoves DEF Dispatches, Typed
  <2> QED
    BY <2>1 DEF Dispatch, Typed
<1> QED
  BY <1>1, <1>2 DEF Dispatch, Typed, adapter, outbound

LEMMA TypedNext == Typed /\ [Next]_vars => Typed'
<1> SUFFICES ASSUME Typed, [Next]_vars PROVE Typed'
  OBVIOUS
<1>1. CASE Filled
  <2>1. run' \in Runs /\ Loops(run', Position')
    BY <1>1, FilledMoves, GoesSomewhere DEF SameCall, SameRound
  <2> QED
    BY <1>1, <2>1, RestKept DEF Filled, Become
<1>2. CASE Opened
  <2>1. run' \in Runs /\ Loops(run', Position')
    BY <1>2, OpenedMoves, GoesSomewhere DEF SameRound
  <2> QED
    BY <1>2, <2>1, RestKept DEF Opened, Become
<1>3. CASE Closed
  <2>1. run' \in Runs /\ Loops(run', Position')
    BY <1>3, ClosedMoves, GoesSomewhere DEF SameCall, SameRound
  <2> QED
    BY <1>3, <2>1, RestKept DEF Closed, Become
<1>4. CASE Turn
  <2>1. run' \in Runs /\ Loops(run', Position')
    BY <1>4, TurnMoves, GoesSomewhere, SendsSomewhere DEF SameCall, SameRound
  <2> QED
    BY <1>4, <2>1, RestKept DEF Turn, Become
<1>5. CASE Answered
  <2>1. run' \in Runs /\ Loops(run', Position')
    BY <1>5, AnsweredMoves, GoesSomewhere
  <2> QED
    BY <1>5, <2>1, RestKept DEF Answered, Become
<1>6. CASE Conclude
  <2>1. run' \in Runs /\ Loops(run', Position')
    BY <1>6, ConcludeMoves, SendsSomewhere DEF SameCall, SameRound
  <2> QED
    BY <1>6, <2>1, RestKept DEF Conclude, Become
<1>7. CASE AdapterSends
  <2>1. script' \in Seq(Events) /\ events' \in Seq(Events)
    BY <1>7 DEF Typed, AdapterSends
  <2> QED
    BY <1>7, <2>1 DEF Typed, AdapterSends, outbound, Position
<1>8. CASE Read
  <2>1. unread' \in 0..ChunkCapacity
    BY <1>8, ConstantFacts DEF Typed, Read
  <2> QED
    BY <1>8, <2>1 DEF Typed, Read, adapter, Position
<1>9. CASE Drop
  <2>1. unread' \in 0..ChunkCapacity
    BY <1>9, ConstantFacts DEF Drop
  <2> QED
    BY <1>9, <2>1 DEF Typed, Drop, adapter, Position
<1>10. CASE UNCHANGED vars
  BY <1>10 DEF Typed, vars, adapter, outbound, Position
<1> QED
  BY <1>1, <1>2, <1>3, <1>4, <1>5, <1>6, <1>7, <1>8, <1>9, <1>10, BeginTyped, SendTyped,
     EndTyped, RequestTyped, ReceiveTyped, ToolsTyped, DispatchTyped
     DEF Next, EngineStep

(* Every variable has its type, a tool is at hand wherever one is          *)
(* dispatched, and the iterations stay below the binding's number.         *)
THEOREM TypeCorrect == Spec => []TypeOK
<1>1. Typed => TypeOK
  <2> SUFFICES ASSUME Typed PROVE TypeOK
    OBVIOUS
  <2>1. /\ run.pc \in Pcs /\ run.spec \in Specs /\ run.iter \in Nat
        /\ run.iter < run.spec.iterations /\ run.spec.iterations \in Nat
    BY ConstantFacts DEF Typed, Loops, Runs
  <2>2. run.iter \in 0..(run.spec.iterations - 1)
    BY <2>1
  <2>3. run.pc \in {"dispatch", "answered"} => run.todo # <<>>
    BY DEF Typed, Loops, Position
  <2> QED
    BY <2>1, <2>2, <2>3 DEF Typed, TypeOK, Pcs
<1> QED
  BY <1>1, InitTyped, TypedNext, PTL DEF Spec

-----------------------------------------------------------------------------
(* The conversation: turns whose calls are all answered, and then perhaps  *)
(* one whose calls are being answered, `todo` of them to come.             *)

Settled(m, n) ==
    /\ Cardinality(Turns(m)) = n
    /\ \A i \in Turns(m) : ResultsFollow(m, i)

AnsweredSoFar(m, i, todo) ==
    LET given == Len(m) - i
    IN  /\ Len(m[i].calls) = given + Len(todo)
        /\ \A j \in 1..given : m[i + j] = ToolResult(m[i].calls[j])
        /\ \A j \in 1..Len(todo) : m[i].calls[given + j] = todo[j]

Answering(m, todo, n) ==
    /\ Cardinality(Turns(m)) = n
    /\ \E i \in Turns(m) :
        /\ AnsweredSoFar(m, i, todo)
        /\ \A k \in Turns(m) \ {i} : ResultsFollow(m, k)

Conversing ==
    /\ Position \in {"request", "filling", "opened", "drain", "turn"} =>
            Settled(run.messages, run.iter)
    /\ Position \in {"tools", "dispatch", "answered"} =>
            Answering(run.messages, run.todo, run.iter + 1)

LEMMA TurnsFinite ==
    ASSUME NEW m \in Seq(Messages)
    PROVE  IsFiniteSet(Turns(m)) /\ Turns(m) \subseteq 1..Len(m)
<1>1. Turns(m) \subseteq 1..Len(m) /\ Len(m) \in Int
  BY DEF Turns
<1>2. IsFiniteSet(1..Len(m))
  BY <1>1, FS_Interval
<1> QED
  BY <1>1, <1>2, FS_Subset

LEMMA TurnsOfMore ==
    ASSUME NEW m \in Seq(Messages), NEW x \in Messages
    PROVE  Turns(Append(m, x)) = IF x.role = "assistant" THEN Turns(m) \cup {Len(m) + 1} ELSE Turns(m)
<1> DEFINE more == Append(m, x)
<1>1. /\ DOMAIN more = 1..(Len(m) + 1) /\ DOMAIN m = 1..Len(m) /\ Len(m) \in Nat
      /\ more[Len(m) + 1] = x /\ \A i \in 1..Len(m) : more[i] = m[i]
  OBVIOUS
<1> HIDE DEF more
<1>2. Turns(more) = IF x.role = "assistant" THEN Turns(m) \cup {Len(m) + 1} ELSE Turns(m)
  <2>1. \A i : i \in 1..(Len(m) + 1) <=> i \in 1..Len(m) \/ i = Len(m) + 1
    BY <1>1
  <2>2. \A i : i \in Turns(more) <=> (i \in 1..Len(m) /\ m[i].role = "assistant") \/ (i = Len(m) + 1 /\ x.role = "assistant")
    BY <1>1, <2>1 DEF Turns
  <2>3. \A i : i \in Turns(m) <=> i \in 1..Len(m) /\ m[i].role = "assistant"
    BY <1>1 DEF Turns
  <2> QED
    BY <2>2, <2>3
<1> QED
  BY <1>2 DEF more

LEMMA StillFollow ==
    ASSUME NEW m \in Seq(Messages), NEW x \in Messages, NEW i \in Turns(m), ResultsFollow(m, i)
    PROVE  ResultsFollow(Append(m, x), i)
<1>1. i \in 1..Len(m) /\ Len(m) \in Nat
  BY TurnsFinite
<1>2. Append(m, x)[i] = m[i]
  BY <1>1
<1>3. ASSUME NEW j \in DOMAIN m[i].calls
      PROVE  i + j \in DOMAIN Append(m, x) /\ Append(m, x)[i + j] = ToolResult(m[i].calls[j])
  <2>1. i + j \in DOMAIN m /\ m[i + j] = ToolResult(m[i].calls[j])
    BY <1>3 DEF ResultsFollow
  <2>2. i + j \in 1..Len(m)
    BY <2>1
  <2> QED
    BY <2>1, <2>2
<1> QED
  BY <1>2, <1>3 DEF ResultsFollow

LEMMA TurnBegins ==
    ASSUME NEW m \in Seq(Messages), NEW calls \in Seq(ToolNames), NEW n \in Nat, Settled(m, n)
    PROVE  Answering(Append(m, AssistantTurn(calls)), calls, n + 1)
<1> DEFINE x == AssistantTurn(calls)
           more == Append(m, x)
           i == Len(m) + 1
<1>1. x \in Messages /\ x.role = "assistant" /\ x.calls = calls
  BY DEF AssistantTurn, Messages
<1>2. Turns(more) = Turns(m) \cup {i} /\ i \notin Turns(m)
  <2>1. Len(m) + 1 \notin 1..Len(m)
    OBVIOUS
  <2> QED
    BY <1>1, <2>1, TurnsOfMore, TurnsFinite
<1>3. Cardinality(Turns(more)) = n + 1
  BY <1>2, TurnsFinite, FS_AddElement DEF Settled
<1>4. AnsweredSoFar(more, i, calls)
  <2>1. Len(more) = i /\ more[i] = x /\ i \in Nat /\ Len(calls) \in Nat
    BY <1>1
  <2> HIDE DEF more, i, x
  <2>2. Len(more) - i = 0
    BY <2>1
  <2> QED
    BY <1>1, <2>1, <2>2 DEF AnsweredSoFar
<1>5. \A k \in Turns(m) : ResultsFollow(more, k)
  BY <1>1, StillFollow DEF Settled
<1>6. \A k \in Turns(more) \ {i} : ResultsFollow(more, k)
  BY <1>2, <1>5
<1>7. i \in Turns(more)
  BY <1>2
<1> HIDE DEF more, i
<1>8. Answering(more, calls, n + 1)
  BY <1>3, <1>4, <1>6, <1>7 DEF Answering
<1> QED
  BY <1>8 DEF more

LEMMA TurnGoesOn ==
    ASSUME NEW m \in Seq(Messages), NEW todo \in Seq(ToolNames), NEW n \in Nat,
           Answering(m, todo, n), todo # <<>>
    PROVE  Answering(Append(m, ToolResult(Head(todo))), Tail(todo), n)
<1> DEFINE x == ToolResult(Head(todo))
           more == Append(m, x)
<1>1. x \in Messages /\ x.role = "tool"
  <2>1. Head(todo) \in ToolNames
    OBVIOUS
  <2> QED
    BY <2>1 DEF ToolResult, Messages
<1>2. Turns(more) = Turns(m)
  BY <1>1, TurnsOfMore
<1>3. PICK i \in Turns(m) :
        AnsweredSoFar(m, i, todo) /\ \A k \in Turns(m) \ {i} : ResultsFollow(m, k)
  BY DEF Answering
<1>4. AnsweredSoFar(more, i, Tail(todo))
  <2> DEFINE given == Len(m) - i
             calls == m[i].calls
             rest == Tail(todo)
  <2>1. i \in 1..Len(m) /\ Len(m) \in Nat /\ given \in Nat /\ Len(todo) \in Nat \ {0}
    BY TurnsFinite
  <2>2. more[i] = m[i] /\ Len(more) - i = given + 1
    BY <1>1, <2>1
  <2>3. Len(rest) = Len(todo) - 1 /\ \A j \in 1..Len(rest) : rest[j] = todo[j + 1]
    BY <2>1
  <2>4. /\ Len(calls) = given + Len(todo)
        /\ \A j \in 1..given : m[i + j] = ToolResult(calls[j])
        /\ \A j \in 1..Len(todo) : calls[given + j] = todo[j]
    BY <1>3 DEF AnsweredSoFar
  <2>5. ASSUME NEW j \in 1..(given + 1)
        PROVE  more[i + j] = ToolResult(calls[j])
    <3>1. CASE j \in 1..given
      <4>1. i + j \in 1..Len(m)
        BY <2>1, <3>1
      <4>2. more[i + j] = m[i + j]
        BY <4>1
      <4> QED
        BY <2>4, <3>1, <4>2
    <3>2. CASE j = given + 1
      <4>1. i + j = Len(m) + 1
        BY <2>1, <3>2
      <4>2. more[i + j] = x
        BY <4>1
      <4>3. calls[given + 1] = todo[1] /\ Head(todo) = todo[1]
        BY <2>1, <2>4
      <4> QED
        BY <3>2, <4>2, <4>3
    <3> QED
      BY <2>1, <3>1, <3>2
  <2>6. ASSUME NEW j \in 1..Len(rest)
        PROVE  calls[(given + 1) + j] = rest[j]
    <3>1. j + 1 \in 1..Len(todo) /\ (given + 1) + j = given + (j + 1)
      BY <2>1, <2>3
    <3> QED
      BY <2>3, <2>4, <3>1
  <2>7. Len(calls) = (given + 1) + Len(rest)
    BY <2>1, <2>3, <2>4
  <2> HIDE DEF more, rest
  <2>8. Len(more[i].calls) = (Len(more) - i) + Len(rest)
    BY <2>2, <2>7
  <2>9. \A j \in 1..(Len(more) - i) : more[i + j] = ToolResult(more[i].calls[j])
    BY <2>2, <2>5
  <2>10. \A j \in 1..Len(rest) : more[i].calls[(Len(more) - i) + j] = rest[j]
    BY <2>2, <2>6
  <2> QED
    BY <2>8, <2>9, <2>10 DEF AnsweredSoFar, rest
<1>5. \A k \in Turns(m) \ {i} : ResultsFollow(more, k)
  BY <1>1, <1>3, StillFollow
<1> HIDE DEF more
<1>6. Answering(more, Tail(todo), n)
  BY <1>2, <1>3, <1>4, <1>5 DEF Answering
<1> QED
  BY <1>6 DEF more

LEMMA TurnEnds ==
    ASSUME NEW m \in Seq(Messages), NEW n, Answering(m, <<>>, n)
    PROVE  Settled(m, n)
<1>1. PICK i \in Turns(m) :
        AnsweredSoFar(m, i, <<>>) /\ \A k \in Turns(m) \ {i} : ResultsFollow(m, k)
  BY DEF Answering
<1>2. i \in 1..Len(m) /\ Len(m) \in Nat
  BY TurnsFinite
<1>3. m[i].calls \in Seq(ToolNames)
  <2>1. m[i] \in Messages
    BY <1>2
  <2> QED
    BY <2>1 DEF Messages
<1>4. Len(m[i].calls) = Len(m) - i
  BY <1>1, <1>2 DEF AnsweredSoFar
<1>5. ASSUME NEW j \in DOMAIN m[i].calls
      PROVE  i + j \in DOMAIN m /\ m[i + j] = ToolResult(m[i].calls[j])
  <2>1. j \in 1..(Len(m) - i)
    BY <1>3, <1>4
  <2>2. i + j \in 1..Len(m)
    BY <1>2, <2>1
  <2> QED
    BY <1>1, <2>1, <2>2 DEF AnsweredSoFar
<1>6. ResultsFollow(m, i)
  BY <1>5 DEF ResultsFollow
<1> QED
  BY <1>1, <1>6 DEF Answering, Settled

LEMMA NoTurnsYet == Settled(<<SystemMessage, UserMessage>>, 0)
<1> DEFINE m == <<SystemMessage, UserMessage>>
<1>1. DOMAIN m = 1..2 /\ m[1].role = "system" /\ m[2].role = "user"
  BY DEF SystemMessage, UserMessage
<1> HIDE DEF m
<1>2. Turns(m) = {}
  BY <1>1 DEF Turns
<1> QED
  BY <1>2, FS_EmptySet DEF Settled, m

LEMMA GoesThere ==
    ASSUME NEW at, Goes(run, run', at), at # "send"
    PROVE  Position' = at
BY DEF Goes, Position

LEMMA SendsThere ==
    ASSUME NEW chunk, NEW at, Sends(run, run', chunk, at)
    PROVE  Position' = at
BY DEF Sends, Position

LEMMA ConversingNext == Typed /\ Conversing /\ [Next]_vars => Conversing'
<1> SUFFICES ASSUME Typed, Conversing, [Next]_vars PROVE Conversing'
  OBVIOUS
<1>1. /\ run.messages \in Seq(Messages) /\ run.todo \in Seq(ToolNames)
      /\ run.calls \in Seq(ToolNames) /\ run.iter \in Nat
      /\ run.next # "send" \/ run.pc # "send"
  BY DEF Typed, Runs, Loops, Position
<1>2. ASSUME SameRound(run, run'), NEW at, Position' = at,
             \/ at = Position
             \/ Position \in {"request", "filling", "opened", "drain", "turn"}
                /\ at \in {"request", "filling", "opened", "drain", "turn"}
             \/ Position \in {"tools", "dispatch", "answered"}
                /\ at \in {"tools", "dispatch", "answered"}
             \/ at \in {"idle", "ended", "conclude"}
      PROVE  Conversing'
  BY <1>2 DEF Conversing, SameRound
<1>3. CASE Begin
  <2>1. run'.messages = <<SystemMessage, UserMessage>> /\ run'.iter = 0
    BY <1>3, BeginMoves, IdleFacts
  <2>2. Position' \in {"request", "ended"}
    BY <1>3, BeginMoves DEF Goes, Sends, Position
  <2> QED
    BY <2>1, <2>2, NoTurnsYet DEF Conversing
<1>4. CASE Send
  <2>1. SameRound(run, run') /\ Position = run.next
    BY <1>4, SendMoves DEF SameCall, Send, At, Position
  <2>2. Position' \in {run.next, "ended"}
    BY <1>1, <1>4, SendMoves, GoesThere DEF Send, At
  <2> QED
    BY <1>2, <2>1, <2>2
<1>5. CASE End
  <2>1. Position' = "idle"
    BY <1>5, IdleFacts DEF End, Position
  <2> QED
    BY <2>1 DEF Conversing
<1>6. CASE Request
  <2>1. SameRound(run, run') /\ Position = "request"
    BY <1>6, RequestMoves DEF SameCall, Request, At, Position
  <2>2. Position' \in {"ended", "opened", "filling"}
    BY <1>6, RequestMoves, GoesThere, SendsThere
  <2> QED
    BY <1>2, <2>1, <2>2
<1>7. CASE Filled
  <2>1. SameRound(run, run') /\ Position = "filling" /\ Position' = "opened"
    BY <1>7, FilledMoves, GoesThere DEF SameCall, Filled, At, Position
  <2> QED
    BY <1>2, <2>1
<1>8. CASE Opened
  <2>1. SameRound(run, run') /\ Position = "opened" /\ Position' = "drain"
    BY <1>8, OpenedMoves, GoesThere DEF Opened, At, Position
  <2> QED
    BY <1>2, <2>1
<1>9. CASE Receive
  <2>1. SameRound(run, run') /\ Position = "drain"
    BY <1>9, ReceiveMoves DEF Receive, At, Position
  <2>2. Position' \in {"drain", "turn", "ended"}
    <3>1. \/ \E chunk : \E at \in {"drain", "turn", "ended"} : Sends(run, run', chunk, at)
          \/ \E at \in {"drain", "turn"} : Goes(run, run', at)
      BY <1>9, ReceiveMoves
    <3> QED
      BY <3>1, GoesThere, SendsThere
  <2> QED
    BY <1>2, <2>1, <2>2
<1>10. CASE Closed
  <2>1. SameRound(run, run') /\ Position = "drain" /\ Position' = "turn"
    BY <1>10, ClosedMoves, GoesThere DEF SameCall, Closed, At, Position
  <2> QED
    BY <1>2, <2>1
<1>11. CASE Turn
  <2>1. Position = "turn"
    BY <1>11 DEF Turn, At, Position
  <2>2. CASE SameCall(run, run') /\ Goes(run, run', "conclude")
    BY <1>2, <2>2, GoesThere DEF SameCall
  <2>3. CASE SameCall(run, run') /\ Sends(run, run', ErrorChunk, "ended")
    BY <1>2, <2>3, SendsThere DEF SameCall
  <2>4. CASE /\ run'.todo = run.calls /\ run'.iter = run.iter
             /\ run'.messages = Append(run.messages, AssistantTurn(run.calls))
             /\ Goes(run, run', "tools")
    <3>1. Answering(run'.messages, run'.todo, run'.iter + 1)
      BY <1>1, <2>1, <2>4, TurnBegins DEF Conversing
    <3>2. Position' = "tools"
      BY <2>4, GoesThere
    <3> QED
      BY <3>1, <3>2 DEF Conversing
  <2> QED
    BY <1>11, <2>2, <2>3, <2>4, TurnMoves
<1>12. CASE Tools
  <2>1. Position = "tools"
    BY <1>12 DEF Tools, At, Position
  <2>2. CASE SameCall(run, run') /\ \E chunk : Sends(run, run', chunk, "dispatch")
    BY <1>2, <2>1, <2>2, SendsThere DEF SameCall
  <2>3. CASE SameCall(run, run') /\ Goes(run, run', "conclude")
    BY <1>2, <2>3, GoesThere DEF SameCall
  <2>4. CASE /\ run.todo = <<>> /\ run'.messages = run.messages /\ run'.iter = run.iter + 1
             /\ \E chunk : Sends(run, run', chunk, "request")
    <3>1. Settled(run'.messages, run'.iter)
      BY <1>1, <2>1, <2>4, TurnEnds DEF Conversing
    <3>2. Position' = "request"
      BY <2>4, SendsThere
    <3> QED
      BY <3>1, <3>2 DEF Conversing
  <2> QED
    BY <1>12, <2>2, <2>3, <2>4, ToolsMoves
<1>13. CASE Dispatch
  <2>1. SameRound(run, run') /\ Position = "dispatch" /\ Position' = "answered"
    BY <1>13, DispatchMoves, SendsThere DEF SameCall, Dispatch, At, Position
  <2> QED
    BY <1>2, <2>1
<1>14. CASE Answered
  <2>1. Position = "answered" /\ Position' = "tools"
    BY <1>14, AnsweredMoves, GoesThere DEF Answered, At, Position
  <2>2. run.iter + 1 \in Nat /\ Answering(run.messages, run.todo, run.iter + 1)
    BY <1>1, <2>1 DEF Conversing
  <2>3. Answering(run'.messages, run'.todo, run'.iter + 1)
    BY <1>1, <1>14, <2>2, AnsweredMoves, TurnGoesOn
  <2> QED
    BY <2>1, <2>3 DEF Conversing
<1>15. CASE Conclude
  <2>1. SameRound(run, run') /\ Position' = "ended"
    BY <1>15, ConcludeMoves, SendsThere DEF SameCall
  <2> QED
    BY <1>2, <2>1
<1>16. CASE AdapterSends \/ Read \/ Drop \/ UNCHANGED vars
  BY <1>16 DEF Conversing, Position, AdapterSends, Read, Drop, vars
<1> QED
  BY <1>3, <1>4, <1>5, <1>6, <1>7, <1>8, <1>9, <1>10, <1>11, <1>12, <1>13, <1>14, <1>15, <1>16
     DEF Next, EngineStep

(* Every request of a streaming loop carries the results of all tool calls *)
(* made so far, each turn's in the order of its calls, and one turn for    *)
(* each iteration (engine.rs:976-1012).                                    *)
THEOREM RequestsCarryTheResults == Spec => []ConversationWellFormed
<1>1. Init => Typed /\ Conversing
  BY InitTyped, IdleFacts DEF Init, Conversing, Position
<1>2. Typed /\ Conversing /\ [Next]_vars => (Typed /\ Conversing)'
  BY TypedNext, ConversingNext
<1>3. Typed /\ Conversing => ConversationWellFormed
  BY DEF Conversing, ConversationWellFormed, Settled, Position, At
<1> QED
  BY <1>1, <1>2, <1>3, PTL DEF Spec

-----------------------------------------------------------------------------
(* The stream, as long as somebody listens to it                           *)

LatestOf(chunks) == IF chunks = <<>> THEN "boundary" ELSE Last(chunks).kind

Boundaries(chunks) == {i \in DOMAIN chunks : chunks[i].kind = "boundary"}

(* Contract!MayFollow, of any chunks.                                      *)
Follows(chunks, chunk) ==
    /\ LatestOf(chunks) \notin {"done", "error"}
    /\ LatestOf(chunks) = "tool_call" <=> chunk.kind = "tool_result"
    /\ chunk.kind = "tool_result" => chunk.tool = Last(chunks).tool
    /\ chunk.kind \in {"text", "usage"} => LatestOf(chunks) \in {"boundary", "text"}
    /\ chunk.kind = "boundary" =>
        /\ LatestOf(chunks) = "tool_result"
        /\ chunk.iteration = Cardinality(Boundaries(chunks)) + 1

(* What is on the stream when the chunk that is on its way is in.          *)
Outbox == IF run.pc = "send" THEN Append(sent, run.out) ELSE sent

(* How far the stream has come when the engine is at this point.           *)
Streamed(s, at, chunks) ==
    /\ at \in {"request", "filling", "opened"} =>
        LatestOf(chunks) = "boundary" /\ Heard(chunks).text = <<>>
    /\ at \in {"drain", "turn", "tools", "dispatch", "answered", "conclude"} =>
        Heard(chunks).text = s.content
    /\ at \notin {"idle", "ended"} =>
        Heard(chunks).tokens = s.tokens /\ Cardinality(Boundaries(chunks)) = s.iter
    /\ at = "drain" => LatestOf(chunks) \in {"boundary", "text"}
    /\ at = "turn" => LatestOf(chunks) \in {"boundary", "text", "usage"}
    /\ at \in {"tools", "conclude"} =>
        LatestOf(chunks) \in {"boundary", "text", "usage", "tool_result"}
    /\ at = "tools" /\ s.todo = <<>> => LatestOf(chunks) = "tool_result"
    /\ at = "dispatch" => LatestOf(chunks) = "tool_call" /\ Last(chunks).tool = Head(s.todo)
    /\ at = "answered" => LatestOf(chunks) = "tool_result"

(* The chunk that is on its way.                                           *)
Fitting(chunks, chunk) ==
    /\ Follows(chunks, chunk)
    /\ chunk.kind = "done" =>
        chunk.text = Heard(chunks).text /\ chunk.tokens = Heard(chunks).tokens

Streaming ==
    ~gone =>
        /\ Streamed(run, Position, Outbox)
        /\ run.pc = "send" => Fitting(sent, run.out)

LEMMA NoChunksYet ==
    LatestOf(<<>>) = "boundary" /\ Cardinality(Boundaries(<<>>)) = 0
<1>1. DOMAIN <<>> = {}
  BY EmptySeq
<1>2. Boundaries(<<>>) = {}
  BY <1>1 DEF Boundaries
<1> QED
  BY <1>2, FS_EmptySet DEF LatestOf

LEMMA OneChunkMore ==
    ASSUME NEW chunks \in Seq(Chunks), NEW c \in Chunks
    PROVE  /\ LatestOf(Append(chunks, c)) = c.kind
           /\ Last(Append(chunks, c)) = c
           /\ Cardinality(Boundaries(Append(chunks, c))) =
                IF c.kind = "boundary" THEN Cardinality(Boundaries(chunks)) + 1
                ELSE Cardinality(Boundaries(chunks))
<1> DEFINE more == Append(chunks, c)
           n == Len(chunks)
<1>1. /\ more # <<>> /\ Len(more) = n + 1 /\ more[n + 1] = c
      /\ DOMAIN more = 1..(n + 1) /\ DOMAIN chunks = 1..n /\ n \in Nat
      /\ \A i \in 1..n : more[i] = chunks[i]
  OBVIOUS
<1> HIDE DEF more
<1>2. Last(more) = c
  BY <1>1 DEF Last
<1>3. IsFiniteSet(Boundaries(chunks)) /\ n + 1 \notin Boundaries(chunks)
  <2>1. Boundaries(chunks) \subseteq 1..n
    BY <1>1 DEF Boundaries
  <2>2. IsFiniteSet(1..n) /\ n + 1 \notin 1..n
    BY <1>1, FS_Interval
  <2> QED
    BY <2>1, <2>2, FS_Subset
<1>4. Boundaries(more) =
        IF c.kind = "boundary" THEN Boundaries(chunks) \cup {n + 1} ELSE Boundaries(chunks)
  <2>1. \A i : i \in 1..(n + 1) <=> i \in 1..n \/ i = n + 1
    BY <1>1
  <2>2. \A i : i \in Boundaries(more) <=>
            (i \in 1..n /\ chunks[i].kind = "boundary") \/ (i = n + 1 /\ c.kind = "boundary")
    BY <1>1, <2>1 DEF Boundaries
  <2>3. \A i : i \in Boundaries(chunks) <=> i \in 1..n /\ chunks[i].kind = "boundary"
    BY <1>1 DEF Boundaries
  <2> QED
    BY <2>2, <2>3
<1>5. Cardinality(Boundaries(more)) =
        IF c.kind = "boundary" THEN Cardinality(Boundaries(chunks)) + 1
        ELSE Cardinality(Boundaries(chunks))
  BY <1>3, <1>4, FS_AddElement
<1> QED
  BY <1>1, <1>2, <1>5 DEF LatestOf, more

(* What a host hears in one chunk more.                                    *)
LEMMA OneMoreHeard ==
    ASSUME NEW chunks \in Seq(Chunks), NEW c \in Chunks
    PROVE  /\ Heard(Append(chunks, c)).text =
                IF c.kind = "text" THEN Heard(chunks).text \o c.text
                ELSE IF c.kind = "boundary" THEN <<>> ELSE Heard(chunks).text
           /\ Heard(Append(chunks, c)).tokens =
                IF c.kind = "usage" THEN Heard(chunks).tokens + c.tokens ELSE Heard(chunks).tokens
           /\ Heard(Append(chunks, c)).tools =
                IF c.kind = "tool_call" THEN Append(Heard(chunks).tools, c.tool)
                ELSE Heard(chunks).tools
<1> DEFINE heard == Heard(chunks)
<1>1. heard \in Hearings /\ Heard(Append(chunks, c)) = Hear(heard, c)
  BY HeardTyped, HeardNext
<1> HIDE DEF heard
<1>2. c.kind \in Kinds
  BY DEF Chunks
<1>3. CASE c.kind = "text"
  BY <1>1, <1>3 DEF Hear, Hearings, heard
<1>4. CASE c.kind = "boundary"
  BY <1>1, <1>4 DEF Hear, Hearings, heard
<1>5. CASE c.kind = "usage"
  BY <1>1, <1>5 DEF Hear, Hearings, heard
<1>6. CASE c.kind = "tool_call"
  BY <1>1, <1>6 DEF Hear, Hearings, heard
<1>7. CASE c.kind \notin {"text", "boundary", "usage", "tool_call"}
  BY <1>1, <1>7 DEF Hear, heard
<1> QED
  BY <1>3, <1>4, <1>5, <1>6, <1>7

LEMMA StreamedSame ==
    ASSUME NEW s, NEW t, NEW at, NEW chunks, SameCall(s, t), Streamed(s, at, chunks)
    PROVE  Streamed(t, at, chunks)
BY DEF Streamed, SameCall, SameRound, SameAnswer

LEMMA GoesOn ==
    ASSUME NEW at, Goes(run, run', at), at # "send",
           Streamed(run', at, sent')
    PROVE  Streaming'
BY DEF Streaming, Goes, Position, Outbox

LEMMA SendsOn ==
    ASSUME NEW chunk, NEW at, Sends(run, run', chunk, at),
           Streamed(run', at, Append(sent', chunk)), Fitting(sent', chunk)
    PROVE  Streaming'
BY DEF Streaming, Sends, Position, Outbox

LEMMA FailsOn ==
    ASSUME Sends(run, run', ErrorChunk, "ended"),
           LatestOf(sent') \notin {"done", "error", "tool_call"}
    PROVE  Streaming'
<1>1. Streamed(run', "ended", Append(sent', ErrorChunk))
  BY DEF Streamed
<1>2. Fitting(sent', ErrorChunk)
  BY ChunksTyped DEF Fitting, Follows
<1> QED
  BY <1>1, <1>2, SendsOn

LEMMA BeginStreams == Begin => Streaming'
<1> SUFFICES ASSUME Begin PROVE Streaming'
  OBVIOUS
<1>1. sent' = <<>>
  BY DEF Begin
<1>2. /\ LatestOf(<<>>) = "boundary" /\ Cardinality(Boundaries(<<>>)) = 0
      /\ Heard(<<>>).text = <<>> /\ Heard(<<>>).tokens = 0
  BY NoChunksYet, NothingHeard DEF Nothing
<1>3. run'.iter = 0 /\ run'.tokens = 0 /\ run'.content = <<>>
  BY BeginMoves, IdleFacts DEF SameAnswer
<1>4. CASE Goes(Idle, run', "request")
  <2>1. Streamed(run', "request", sent')
    BY <1>1, <1>2, <1>3 DEF Streamed
  <2> QED
    BY <1>4, <2>1, GoesOn DEF Goes
<1>5. CASE Sends(Idle, run', ErrorChunk, "ended")
  BY <1>1, <1>2, <1>5, FailsOn DEF Sends
<1> QED
  BY <1>4, <1>5, BeginMoves

LEMMA SendStreams == Typed /\ Streaming /\ Send => Streaming'
<1> SUFFICES ASSUME Typed, Streaming, Send, ~gone' PROVE Streaming'
  BY DEF Streaming
<1>1. ~gone
  BY DEF Send
<1>2. sent' = Append(sent, run.out) /\ Goes(run, run', run.next) /\ SameCall(run, run')
  BY <1>1, SendMoves
<1>3. Streamed(run, run.next, Append(sent, run.out)) /\ run.next # "send"
  BY <1>1 DEF Streaming, Send, At, Position, Outbox, Typed, Loops
<1> QED
  BY <1>2, <1>3, StreamedSame, GoesOn

LEMMA ReceiveStreams == Typed /\ Streaming /\ Receive => Streaming'
<1> SUFFICES ASSUME Typed, Streaming, Receive, ~gone' PROVE Streaming'
  BY DEF Streaming
<1>1. ~gone /\ sent' = sent /\ sent \in Seq(Chunks) /\ run \in Runs
  BY DEF Receive, outbound, Typed
<1>2. Streamed(run, "drain", sent)
  BY <1>1 DEF Streaming, Receive, At, Position, Outbox
<1>3. /\ Heard(sent).text = run.content /\ Heard(sent).tokens = run.tokens
      /\ Cardinality(Boundaries(sent)) = run.iter
      /\ LatestOf(sent) \in {"boundary", "text"}
  BY <1>2 DEF Streamed
<1>4. SameRound(run, run')
  BY ReceiveMoves
<1>5. PICK e \in Events :
        \/ /\ Sends(run, run', [Chunk("text") EXCEPT !.text = <<e.text>>], "drain")
           /\ run'.content = Append(run.content, e.text) /\ run'.tokens = run.tokens
        \/ /\ Goes(run, run', "drain") /\ SameAnswer(run, run')
        \/ /\ e.tokens > 0
           /\ Sends(run, run', [Chunk("usage") EXCEPT !.tokens = e.tokens], "turn")
           /\ run'.content = run.content /\ run'.tokens = run.tokens + e.tokens
        \/ /\ Goes(run, run', "turn") /\ SameAnswer(run, run')
        \/ Sends(run, run', ErrorChunk, "ended") /\ SameAnswer(run, run')
  BY ReceiveMoves
<1>6. CASE /\ Sends(run, run', [Chunk("text") EXCEPT !.text = <<e.text>>], "drain")
           /\ run'.content = Append(run.content, e.text) /\ run'.tokens = run.tokens
  <2> DEFINE c == [Chunk("text") EXCEPT !.text = <<e.text>>]
  <2>1. c \in Chunks /\ c.kind = "text" /\ c.text = <<e.text>>
    BY <1>6 DEF Sends, Chunk
  <2> HIDE DEF c
  <2>2. run.content \o <<e.text>> = Append(run.content, e.text)
    <3>1. run.content \in Seq(Texts) /\ e.text \in Texts
      BY <1>1, ConstantFacts DEF Runs
    <3> QED
      BY <3>1
  <2>3. /\ Heard(Append(sent, c)).text = run'.content
        /\ Heard(Append(sent, c)).tokens = run'.tokens
        /\ Cardinality(Boundaries(Append(sent, c))) = run'.iter
        /\ LatestOf(Append(sent, c)) = "text"
    BY <1>1, <1>3, <1>4, <1>6, <2>1, <2>2, OneChunkMore, OneMoreHeard DEF SameRound
  <2>4. Streamed(run', "drain", Append(sent, c))
    BY <2>3 DEF Streamed
  <2>5. Fitting(sent, c)
    BY <1>3, <2>1 DEF Fitting, Follows
  <2>6. Sends(run, run', c, "drain")
    BY <1>6 DEF c
  <2> QED
    BY <1>1, <2>4, <2>5, <2>6, SendsOn
<1>7. CASE Goes(run, run', "drain") /\ SameAnswer(run, run')
  BY <1>1, <1>2, <1>4, <1>7, StreamedSame, GoesOn DEF SameCall
<1>8. CASE /\ e.tokens > 0
           /\ Sends(run, run', [Chunk("usage") EXCEPT !.tokens = e.tokens], "turn")
           /\ run'.content = run.content /\ run'.tokens = run.tokens + e.tokens
  <2> DEFINE c == [Chunk("usage") EXCEPT !.tokens = e.tokens]
  <2>1. c \in Chunks /\ c.kind = "usage" /\ c.tokens = e.tokens
    BY <1>8 DEF Sends, Chunk
  <2> HIDE DEF c
  <2>3. /\ Heard(Append(sent, c)).text = run'.content
        /\ Heard(Append(sent, c)).tokens = run'.tokens
        /\ Cardinality(Boundaries(Append(sent, c))) = run'.iter
        /\ LatestOf(Append(sent, c)) = "usage"
    BY <1>1, <1>3, <1>4, <1>8, <2>1, OneChunkMore, OneMoreHeard DEF SameRound
  <2>4. Streamed(run', "turn", Append(sent, c))
    BY <2>3 DEF Streamed
  <2>5. Fitting(sent, c)
    BY <1>3, <2>1 DEF Fitting, Follows
  <2>6. Sends(run, run', c, "turn")
    BY <1>8 DEF c
  <2> QED
    BY <1>1, <2>4, <2>5, <2>6, SendsOn
<1>9. CASE Goes(run, run', "turn") /\ SameAnswer(run, run')
  <2>1. Streamed(run', "turn", sent)
    BY <1>3, <1>4, <1>9 DEF Streamed, SameRound, SameAnswer
  <2> QED
    BY <1>1, <1>9, <2>1, GoesOn
<1>10. CASE Sends(run, run', ErrorChunk, "ended")
  BY <1>1, <1>3, <1>10, FailsOn
<1> QED
  BY <1>5, <1>6, <1>7, <1>8, <1>9, <1>10

LEMMA ToolsStreams == Typed /\ Streaming /\ Tools => Streaming'
<1> SUFFICES ASSUME Typed, Streaming, Tools, ~gone' PROVE Streaming'
  BY DEF Streaming
<1>1. ~gone /\ sent' = sent /\ sent \in Seq(Chunks) /\ run \in Runs
  BY DEF Tools, Become, outbound, Typed
<1>2. Streamed(run, "tools", sent)
  BY <1>1 DEF Streaming, Tools, At, Position, Outbox
<1>3. /\ Heard(sent).text = run.content /\ Heard(sent).tokens = run.tokens
      /\ Cardinality(Boundaries(sent)) = run.iter
      /\ LatestOf(sent) \in {"boundary", "text", "usage", "tool_result"}
      /\ run.todo = <<>> => LatestOf(sent) = "tool_result"
  BY <1>2 DEF Streamed
<1>4. CASE /\ SameCall(run, run')
           /\ Sends(run, run', [Chunk("tool_call") EXCEPT !.tool = Head(run.todo)], "dispatch")
  <2> DEFINE c == [Chunk("tool_call") EXCEPT !.tool = Head(run.todo)]
  <2>1. c \in Chunks /\ c.kind = "tool_call" /\ c.tool = Head(run.todo)
    BY <1>4 DEF Sends, Chunk
  <2>2. Sends(run, run', c, "dispatch")
    BY <1>4
  <2> HIDE DEF c
  <2>3. /\ Heard(Append(sent, c)).text = run'.content
        /\ Heard(Append(sent, c)).tokens = run'.tokens
        /\ Cardinality(Boundaries(Append(sent, c))) = run'.iter
        /\ LatestOf(Append(sent, c)) = "tool_call" /\ Last(Append(sent, c)).tool = Head(run'.todo)
    BY <1>1, <1>3, <1>4, <2>1, OneChunkMore, OneMoreHeard DEF SameCall, SameRound, SameAnswer
  <2>4. Streamed(run', "dispatch", Append(sent, c))
    BY <2>3 DEF Streamed
  <2>5. Fitting(sent, c)
    BY <1>3, <2>1 DEF Fitting, Follows
  <2> QED
    BY <1>1, <2>2, <2>4, <2>5, SendsOn
<1>5. CASE /\ SameAnswer(run, run') /\ run.todo = <<>> /\ run'.iter = run.iter + 1
           /\ Sends(run, run', [Chunk("boundary") EXCEPT !.iteration = run.iter + 1], "request")
  <2> DEFINE c == [Chunk("boundary") EXCEPT !.iteration = run.iter + 1]
  <2>1. c \in Chunks /\ c.kind = "boundary" /\ c.iteration = run.iter + 1
    BY <1>5 DEF Sends, Chunk
  <2>2. Sends(run, run', c, "request")
    BY <1>5
  <2> HIDE DEF c
  <2>3. /\ Heard(Append(sent, c)).text = <<>>
        /\ Heard(Append(sent, c)).tokens = run'.tokens
        /\ Cardinality(Boundaries(Append(sent, c))) = run'.iter
        /\ LatestOf(Append(sent, c)) = "boundary"
    BY <1>1, <1>3, <1>5, <2>1, OneChunkMore, OneMoreHeard DEF SameAnswer
  <2>4. Streamed(run', "request", Append(sent, c))
    BY <2>3 DEF Streamed
  <2>5. Fitting(sent, c)
    BY <1>3, <1>5, <2>1 DEF Fitting, Follows
  <2> QED
    BY <1>1, <2>2, <2>4, <2>5, SendsOn
<1>6. CASE SameCall(run, run') /\ Goes(run, run', "conclude")
  <2>1. Streamed(run', "conclude", sent)
    BY <1>3, <1>6 DEF Streamed, SameCall, SameRound, SameAnswer
  <2> QED
    BY <1>1, <1>6, <2>1, GoesOn
<1> QED
  BY <1>4, <1>5, <1>6, ToolsMoves

LEMMA DispatchStreams == Typed /\ Streaming /\ Dispatch => Streaming'
<1> SUFFICES ASSUME Typed, Streaming, Dispatch, ~gone' PROVE Streaming'
  BY DEF Streaming
<1>1. ~gone /\ sent' = sent /\ sent \in Seq(Chunks)
  BY DEF Dispatch, outbound, Typed
<1>2. Streamed(run, "dispatch", sent)
  BY <1>1 DEF Streaming, Dispatch, At, Position, Outbox
<1>3. /\ Heard(sent).text = run.content /\ Heard(sent).tokens = run.tokens
      /\ Cardinality(Boundaries(sent)) = run.iter
      /\ LatestOf(sent) = "tool_call" /\ Last(sent).tool = Head(run.todo)
  BY <1>2 DEF Streamed
<1> DEFINE c == [Chunk("tool_result") EXCEPT !.tool = Head(run.todo)]
<1>4. Sends(run, run', c, "answered") /\ SameCall(run, run')
  BY DispatchMoves
<1>5. c \in Chunks /\ c.kind = "tool_result" /\ c.tool = Head(run.todo)
  BY <1>4 DEF Sends, Chunk
<1> HIDE DEF c
<1>6. /\ Heard(Append(sent, c)).text = run'.content
      /\ Heard(Append(sent, c)).tokens = run'.tokens
      /\ Cardinality(Boundaries(Append(sent, c))) = run'.iter
      /\ LatestOf(Append(sent, c)) = "tool_result"
  BY <1>1, <1>3, <1>4, <1>5, OneChunkMore, OneMoreHeard DEF SameCall, SameRound, SameAnswer
<1>7. Streamed(run', "answered", Append(sent, c))
  BY <1>6 DEF Streamed
<1>8. Fitting(sent, c)
  BY <1>3, <1>5 DEF Fitting, Follows
<1> QED
  BY <1>1, <1>4, <1>7, <1>8, SendsOn

LEMMA ConcludeStreams == Typed /\ Streaming /\ Conclude => Streaming'
<1> SUFFICES ASSUME Typed, Streaming, Conclude, ~gone' PROVE Streaming'
  BY DEF Streaming
<1>1. ~gone /\ sent' = sent
  BY DEF Conclude, Become, outbound
<1>2. Streamed(run, "conclude", sent)
  BY <1>1 DEF Streaming, Conclude, At, Position, Outbox
<1>3. /\ Heard(sent).text = run.content /\ Heard(sent).tokens = run.tokens
      /\ LatestOf(sent) \in {"boundary", "text", "usage", "tool_result"}
  BY <1>2 DEF Streamed
<1>4. CASE Sends(run, run', ErrorChunk, "ended")
  BY <1>1, <1>3, <1>4, FailsOn
<1>5. CASE Sends(run, run', Answer(run), "ended")
  <2>1. Answer(run).kind = "done" /\ Answer(run).text = run.content /\ Answer(run).tokens = run.tokens
    BY DEF Answer, Chunk
  <2>2. Fitting(sent, Answer(run))
    BY <1>3, <2>1 DEF Fitting, Follows
  <2>3. Streamed(run', "ended", Append(sent, Answer(run)))
    BY DEF Streamed
  <2> QED
    BY <1>1, <1>5, <2>2, <2>3, SendsOn
<1> QED
  BY <1>4, <1>5, ConcludeMoves

LEMMA StreamingNext == Typed /\ Streaming /\ [Next]_vars => Streaming'
<1> SUFFICES ASSUME Typed, Streaming, [Next]_vars, ~gone' PROVE Streaming'
  BY DEF Streaming
<1>1. CASE End
  <2>1. Position' = "idle" /\ run'.pc # "send"
    BY <1>1, IdleFacts DEF End, Position
  <2> QED
    BY <2>1 DEF Streaming, Streamed
<1>2. CASE Request
  <2>1. ~gone /\ sent' = sent /\ SameCall(run, run')
    BY <1>2, RequestMoves DEF Request, outbound
  <2>2. Streamed(run, "request", sent)
    BY <1>2, <2>1 DEF Streaming, Request, At, Position, Outbox
  <2>3. CASE Sends(run, run', ErrorChunk, "ended")
    BY <2>1, <2>2, <2>3, FailsOn DEF Streamed
  <2>4. ASSUME NEW at \in {"opened", "filling"}, Goes(run, run', at) PROVE Streaming'
    <3>1. Streamed(run, at, sent)
      BY <2>2 DEF Streamed
    <3> QED
      BY <2>1, <2>4, <3>1, StreamedSame, GoesOn
  <2> QED
    BY <1>2, <2>3, <2>4, RequestMoves
<1>3. CASE Filled
  <2>1. ~gone /\ sent' = sent /\ SameCall(run, run') /\ Goes(run, run', "opened")
    BY <1>3, FilledMoves DEF Filled, Become, outbound
  <2>2. Streamed(run, "filling", sent)
    BY <1>3, <2>1 DEF Streaming, Filled, At, Position, Outbox
  <2>3. Streamed(run, "opened", sent)
    BY <2>2 DEF Streamed
  <2> QED
    BY <2>1, <2>3, StreamedSame, GoesOn
<1>4. CASE Opened
  <2>1. ~gone /\ sent' = sent /\ SameRound(run, run') /\ Goes(run, run', "drain")
        /\ run'.content = <<>> /\ run'.tokens = run.tokens
    BY <1>4, OpenedMoves DEF Opened, Become, outbound
  <2>2. Streamed(run, "opened", sent)
    BY <1>4, <2>1 DEF Streaming, Opened, At, Position, Outbox
  <2>3. Streamed(run', "drain", sent)
    BY <2>1, <2>2 DEF Streamed, SameRound
  <2> QED
    BY <2>1, <2>3, GoesOn
<1>5. CASE Closed
  <2>1. ~gone /\ sent' = sent /\ SameCall(run, run') /\ Goes(run, run', "turn")
    BY <1>5, ClosedMoves DEF Closed, Become, outbound
  <2>2. Streamed(run, "drain", sent)
    BY <1>5, <2>1 DEF Streaming, Closed, At, Position, Outbox
  <2>3. Streamed(run, "turn", sent)
    BY <2>2 DEF Streamed
  <2> QED
    BY <2>1, <2>3, StreamedSame, GoesOn
<1>6. CASE Turn
  <2>1. ~gone /\ sent' = sent
    BY <1>6 DEF Turn, Become, outbound
  <2>2. Streamed(run, "turn", sent)
    BY <1>6, <2>1 DEF Streaming, Turn, At, Position, Outbox
  <2>3. CASE SameCall(run, run') /\ Goes(run, run', "conclude")
    <3>1. Streamed(run, "conclude", sent)
      BY <2>2 DEF Streamed
    <3> QED
      BY <2>1, <2>3, <3>1, StreamedSame, GoesOn
  <2>4. CASE Sends(run, run', ErrorChunk, "ended")
    BY <2>1, <2>2, <2>4, FailsOn DEF Streamed
  <2>5. CASE /\ SameAnswer(run, run') /\ run'.iter = run.iter
             /\ run'.todo = run.calls /\ run.calls # <<>> /\ Goes(run, run', "tools")
    <3>1. Streamed(run', "tools", sent)
      BY <2>2, <2>5 DEF Streamed, SameAnswer
    <3> QED
      BY <2>1, <2>5, <3>1, GoesOn
  <2> QED
    BY <1>6, <2>3, <2>4, <2>5, TurnMoves
<1>7. CASE Answered
  <2>1. ~gone /\ sent' = sent /\ SameAnswer(run, run') /\ run'.iter = run.iter
        /\ Goes(run, run', "tools")
    BY <1>7, AnsweredMoves DEF Answered, Become, outbound
  <2>2. Streamed(run, "answered", sent)
    BY <1>7, <2>1 DEF Streaming, Answered, At, Position, Outbox
  <2>3. Streamed(run', "tools", sent)
    BY <2>1, <2>2 DEF Streamed, SameAnswer
  <2> QED
    BY <2>1, <2>3, GoesOn
<1>8. CASE AdapterSends \/ Read \/ Drop \/ UNCHANGED vars
  <2>1. ~gone /\ run' = run /\ sent' = sent
    BY <1>8 DEF AdapterSends, Read, Drop, vars, outbound
  <2> QED
    BY <2>1 DEF Streaming, Position, Outbox
<1> QED
  BY <1>1, <1>2, <1>3, <1>4, <1>5, <1>6, <1>7, <1>8, BeginStreams, SendStreams, ReceiveStreams,
     ToolsStreams, DispatchStreams, ConcludeStreams DEF Next, EngineStep

(* The engine's chunks come in the order its caller counts on: every step  *)
(* appends a chunk that may follow, begins a new stream or leaves the      *)
(* stream alone (engine.rs:747-761).                                       *)
THEOREM ChunksComeInOrder == Spec => ImplementsChunkStream
<1>1. ASSUME Typed, Streaming, [Next]_vars
      PROVE  [Contract!Emit \/ Contract!Begin]_sent
  <2>1. CASE Begin
    BY <2>1 DEF Begin, Contract!Begin
  <2>2. CASE Send /\ ~gone
    <3>1. sent' = Append(sent, run.out) /\ run.out \in Chunks /\ sent \in Seq(Chunks)
      BY <1>1, <2>2, SendMoves DEF Typed, Runs
    <3>2. Last(sent') = run.out /\ Len(sent') = Len(sent) + 1
      BY <3>1, OneChunkMore
    <3>3. Follows(sent, run.out)
      BY <1>1, <2>2 DEF Streaming, Send, At, Fitting
    <3>4. Contract!MayFollow(run.out)
      <4>1. /\ Contract!Latest = LatestOf(sent) /\ Contract!Last(sent) = Last(sent)
            /\ Contract!Terminal = {"done", "error"}
        BY DEF LatestOf, Contract!Latest, Contract!Terminal, Last, Contract!Last
      <4>2. Contract!Iterations = Cardinality(Boundaries(sent))
        BY Zenon DEF Boundaries, Contract!Iterations, Cardinality, Contract!Cardinality
      <4> QED
        BY <3>3, <4>1, <4>2 DEF Follows, Contract!MayFollow
    <3> QED
      BY <3>1, <3>2, <3>4 DEF Contract!Emit, Last, Contract!Last
  <2>3. CASE Send /\ gone
    BY <1>1, <2>3, SendMoves
  <2>4. CASE ~Begin /\ ~Send
    BY <1>1, <2>4 DEF Next, EngineStep, End, Request, Filled, Opened, Receive, Closed, Turn, Tools,
                      Dispatch, Answered, Conclude, AdapterSends, Read, Drop, Become, outbound, vars
  <2> QED
    BY <2>1, <2>2, <2>3, <2>4
<1>2. Init => Typed /\ Streaming /\ Contract!Init
  BY InitTyped, IdleFacts DEF Init, Streaming, Streamed, Position, Contract!Init
<1>3. Typed /\ Streaming /\ [Next]_vars => (Typed /\ Streaming)'
  BY TypedNext, StreamingNext
<1> QED
  BY <1>1, <1>2, <1>3, PTL DEF Spec, ImplementsChunkStream, Contract!Spec

-----------------------------------------------------------------------------
(* What is answered                                                        *)

Accepted(spec, text) == spec.mode = "json_schema" => text \in Valid

(* The answers that were sent and the one that is on its way.              *)
AnswersFit ==
    /\ AnswerIsTheStream
    /\ ~At("idle") =>
        \A i \in DOMAIN sent : sent[i].kind = "done" => Accepted(run.spec, sent[i].text)
    /\ At("send") /\ run.out.kind = "done" => Accepted(run.spec, run.out.text)

(* Steps that neither begin nor end a call nor change what the host or the *)
(* tools have got.                                                         *)
Quiet ==
    \/ Request \/ Filled \/ Opened \/ Receive \/ Closed \/ Turn \/ Answered \/ Conclude

LEMMA QuietMoves ==
    ASSUME Typed, Quiet
    PROVE  /\ UNCHANGED <<outbound, dispatched>>
           /\ run'.spec = run.spec
           /\ run.pc \notin {"idle", "send", "dispatch", "ended"}
           /\ run'.pc \notin {"idle", "dispatch", "ended"}
           /\ run'.pc = "send" =>
                /\ run'.next # "dispatch" /\ run'.out.kind # "tool_call"
                /\ run'.out.kind = "done" => Accepted(run'.spec, run'.out.text)
<1> DEFINE quietly(at) ==
        /\ at \notin {"idle", "dispatch", "ended"}
        /\ at = "send" =>
                /\ run'.next # "dispatch" /\ run'.out.kind # "tool_call"
                /\ run'.out.kind = "done" => Accepted(run'.spec, run'.out.text)
<1>1. UNCHANGED <<outbound, dispatched>>
  BY DEF Quiet, Request, Filled, Opened, Receive, Closed, Turn, Answered, Conclude, Become
<1>2. run.pc \notin {"idle", "send", "dispatch", "ended"}
  BY DEF Quiet, Request, Filled, Opened, Receive, Closed, Turn, Answered, Conclude, At
<1>3. CASE Request
  BY <1>1, <1>2, <1>3, RequestMoves, ChunksTyped DEF SameCall, SameRound, Sends, Goes
<1>4. CASE Filled
  BY <1>1, <1>2, <1>4, FilledMoves DEF SameCall, SameRound, Goes
<1>5. CASE Opened
  BY <1>1, <1>2, <1>5, OpenedMoves DEF SameRound, Goes
<1>6. CASE Receive
  <2>1. ASSUME NEW e \in Events
        PROVE  /\ [Chunk("text") EXCEPT !.text = <<e.text>>].kind = "text"
               /\ [Chunk("usage") EXCEPT !.tokens = e.tokens].kind = "usage"
    BY DEF Chunk
  <2>2. run'.pc \in {"drain", "turn"}
        \/ (run'.pc = "send" /\ run'.next # "dispatch" /\ run'.out.kind \in {"text", "usage", "error"})
    BY <1>6, <2>1, ReceiveMoves, ChunksTyped DEF Sends, Goes
  <2> QED
    BY <1>1, <1>2, <1>6, <2>2, ReceiveMoves DEF SameRound
<1>7. CASE Closed
  BY <1>1, <1>2, <1>7, ClosedMoves DEF SameCall, SameRound, Goes
<1>8. CASE Turn
  BY <1>1, <1>2, <1>8, TurnMoves, ChunksTyped DEF SameCall, SameRound, Sends, Goes
<1>9. CASE Answered
  BY <1>1, <1>2, <1>9, AnsweredMoves DEF Goes
<1>10. CASE Conclude
  <2>1. SameCall(run, run') /\ Answer(run).kind = "done" /\ Answer(run).text = run.content
    BY <1>10, ConcludeMoves DEF Answer, Chunk
  <2>2. Acceptable(run.content) => Accepted(run.spec, run.content)
    BY DEF Acceptable, Accepted
  <2> QED
    BY <1>1, <1>2, <1>10, <2>1, <2>2, ConcludeMoves, ChunksTyped DEF SameCall, SameRound, Sends
<1> QED
  BY <1>3, <1>4, <1>5, <1>6, <1>7, <1>8, <1>9, <1>10 DEF Quiet

LEMMA AnsweringNext == Typed /\ Streaming /\ AnswersFit /\ [Next]_vars => AnswersFit'
<1> SUFFICES ASSUME Typed, Streaming, AnswersFit, [Next]_vars PROVE AnswersFit'
  OBVIOUS
<1>1. CASE Begin
  <2>1. sent' = <<>> /\ DOMAIN <<>> = {}
    BY <1>1, EmptySeq DEF Begin
  <2>2. run'.pc = "send" => run'.out.kind = "error"
    BY <1>1, BeginMoves, ChunksTyped DEF Goes, Sends
  <2> QED
    BY <2>1, <2>2 DEF AnswersFit, AnswerIsTheStream, At
<1>2. CASE Send /\ ~gone
  <2> DEFINE n == Len(sent)
  <2>1. /\ sent' = Append(sent, run.out) /\ run.out \in Chunks /\ sent \in Seq(Chunks)
        /\ run'.spec = run.spec /\ run'.pc = run.next /\ run.pc = "send"
        /\ run.next # "send" /\ n \in Nat
    <3>1. /\ run'.spec = run.spec /\ run'.pc = run.next
          /\ sent' = Append(sent, run.out)
      BY <1>2, SendMoves DEF SameCall, SameRound, Goes
    <3>2. run.out \in Chunks /\ sent \in Seq(Chunks)
      BY <1>2 DEF Typed, Runs, Send, At, Position, Loops
    <3>3. run.pc = "send" /\ run.next # "send"
      BY <1>2 DEF Typed, Runs, Send, At, Position, Loops
    <3> QED
      BY <3>1, <3>2, <3>3
  <2>2. Fitting(sent, run.out)
    BY <1>2 DEF Streaming, Send, At
  <2>3. /\ DOMAIN sent' = 1..(n + 1) /\ DOMAIN sent = 1..n
        /\ sent'[n + 1] = run.out /\ \A i \in 1..n : sent'[i] = sent[i]
    BY <2>1
  <2>4. ASSUME NEW i \in 1..(n + 1)
        PROVE  SubSeq(sent', 1, i - 1) = IF i = n + 1 THEN sent ELSE SubSeq(sent, 1, i - 1)
    BY <2>1
  <2>5. AnswerIsTheStream'
    <3>1. ASSUME NEW i \in DOMAIN sent', sent'[i].kind = "done"
          PROVE  /\ sent'[i].text = Heard(SubSeq(sent', 1, i - 1)).text
                 /\ sent'[i].tokens = Heard(SubSeq(sent', 1, i - 1)).tokens
      <4>1. CASE i = n + 1
        BY <2>2, <2>3, <2>4, <3>1, <4>1 DEF Fitting
      <4>2. CASE i \in 1..n
        <5>1. i # n + 1 /\ i \in 1..(n + 1)
          BY <2>1, <4>2
        <5> QED
          BY <2>3, <2>4, <3>1, <4>2, <5>1 DEF AnswersFit, AnswerIsTheStream
      <4> QED
        BY <2>1, <2>3, <3>1, <4>1, <4>2
    <3> QED
      BY <3>1 DEF AnswerIsTheStream
  <2>6. \A i \in DOMAIN sent' : sent'[i].kind = "done" => Accepted(run'.spec, sent'[i].text)
    <3>1. ASSUME NEW i \in 1..(n + 1), sent'[i].kind = "done"
          PROVE  Accepted(run.spec, sent'[i].text)
      <4>1. CASE i = n + 1
        BY <2>1, <2>3, <3>1, <4>1 DEF AnswersFit, At
      <4>2. CASE i \in 1..n
        BY <2>1, <2>3, <3>1, <4>2 DEF AnswersFit, At
      <4> QED
        BY <2>1, <4>1, <4>2
    <3> QED
      BY <2>1, <2>3, <3>1
  <2> QED
    BY <2>1, <2>5, <2>6 DEF AnswersFit, At
<1>3. CASE Send /\ gone
  <2>1. /\ sent' = sent /\ run'.spec = run.spec /\ run.pc = "send"
        /\ run'.pc # "send"
    BY <1>3, SendMoves DEF Typed, SameCall, SameRound, Goes, Send, At, Position, Loops
  <2> QED
    BY <2>1 DEF AnswersFit, At, AnswerIsTheStream
<1>4. CASE End
  BY <1>4, IdleFacts DEF End, outbound, AnswersFit, At, AnswerIsTheStream
<1>5. CASE Quiet
  BY <1>5, QuietMoves DEF outbound, AnswersFit, At, AnswerIsTheStream
<1>6. CASE Tools
  <2>1. /\ [Chunk("tool_call") EXCEPT !.tool = Head(run.todo)].kind = "tool_call"
        /\ [Chunk("boundary") EXCEPT !.iteration = run.iter + 1].kind = "boundary"
    BY DEF Chunk
  <2>2. /\ sent' = sent /\ run'.spec = run.spec /\ run.pc = "tools"
        /\ run'.pc = "send" => run'.out.kind # "done"
    BY <1>6, <2>1, ToolsMoves DEF SameCall, SameRound, Goes, Sends, Tools, Become, outbound, At
  <2> QED
    BY <2>2 DEF AnswersFit, At, AnswerIsTheStream
<1>7. CASE Dispatch
  <2>1. [Chunk("tool_result") EXCEPT !.tool = Head(run.todo)].kind = "tool_result"
    BY DEF Chunk
  <2>2. /\ sent' = sent /\ run'.spec = run.spec /\ run.pc = "dispatch"
        /\ run'.out.kind # "done"
    BY <1>7, <2>1, DispatchMoves DEF SameCall, SameRound, Sends, Dispatch, outbound, At
  <2> QED
    BY <2>2 DEF AnswersFit, At, AnswerIsTheStream
<1>8. CASE AdapterSends \/ Read \/ Drop \/ UNCHANGED vars
  <2>1. run' = run /\ sent' = sent
    BY <1>8 DEF AdapterSends, Read, Drop, vars, outbound
  <2> QED
    BY <2>1 DEF AnswersFit, At, AnswerIsTheStream
<1> QED
  BY <1>1, <1>2, <1>3, <1>4, <1>5, <1>6, <1>7, <1>8 DEF Next, EngineStep, Quiet

-----------------------------------------------------------------------------
(* Tools are dispatched as they were announced                             *)

Told(done, tools) ==
    Len(done) <= Len(tools) /\ \A i \in DOMAIN done : done[i].tool = tools[i]

(* Whom the tools were told to: one is ahead at most, and none is invoked  *)
(* for a host that is gone but the one it had been told of.                *)
Telling ==
    LET tools == Heard(sent).tools
        n == Len(dispatched)
    IN  /\ Told(dispatched, tools)
        /\ At("dispatch") => Len(tools) = n + 1 /\ tools[n + 1] = Head(run.todo)
        /\ ~gone /\ run.pc \notin {"idle", "ended", "dispatch"} => Len(tools) = n
        /\ At("send") =>
            /\ run.out.kind = "tool_call" <=> run.next = "dispatch"
            /\ run.out.kind = "tool_call" => run.out.tool = Head(run.todo)
        /\ \A i \in 1..n : dispatched[i].unheard => i = n /\ gone /\ ~At("dispatch")

LEMMA TellingKept ==
    ASSUME Typed, Telling, sent' = sent, dispatched' = dispatched,
           gone' = gone \/ gone',
           run'.pc # "dispatch" \/ run' = run,
           gone \/ run.pc \notin {"idle", "ended", "dispatch"} \/ run' = run \/ run'.pc = "idle",
           \/ run' = run
           \/ run'.pc # "send"
           \/ /\ run'.out.kind = "tool_call" <=> run'.next = "dispatch"
              /\ run'.out.kind = "tool_call" => run'.out.tool = Head(run'.todo)
    PROVE  Telling'
BY DEF Telling, At

LEMMA TellingNext == Typed /\ Telling /\ [Next]_vars => Telling'
<1> SUFFICES ASSUME Typed, Telling, [Next]_vars PROVE Telling'
  OBVIOUS
<1> DEFINE tools == Heard(sent).tools
           n == Len(dispatched)
<1>0. /\ tools \in Seq(ToolNames \cup {"none"}) /\ Len(tools) \in Nat
      /\ dispatched \in Seq(Dispatches) /\ n \in Nat
  BY HeardTyped DEF Hearings, Typed
<1>1. CASE Begin
  <2>1. /\ sent' = <<>> /\ dispatched' = <<>> /\ Heard(<<>>).tools = <<>>
        /\ Len(<<>>) = 0 /\ DOMAIN <<>> = {} /\ 1..0 = {}
    BY <1>1, NothingHeard, EmptySeq DEF Begin, Nothing
  <2>2. \/ run'.pc = "request"
        \/ run'.pc = "send" /\ run'.out.kind = "error" /\ run'.next = "ended"
    BY <1>1, BeginMoves, ChunksTyped DEF Goes, Sends
  <2> QED
    BY <2>1, <2>2 DEF Telling, Told, At
<1>2. CASE Send /\ ~gone
  <2>1. /\ sent' = Append(sent, run.out) /\ run.out \in Chunks /\ sent \in Seq(Chunks)
        /\ run'.pc = run.next /\ run.pc = "send" /\ run'.todo = run.todo
        /\ run.next # "send" /\ dispatched' = dispatched /\ gone' = gone
    BY <1>2, SendMoves DEF Typed, Runs, SameCall, SameRound, Goes, Send, At, Position, Loops
  <2>2. /\ Len(tools) = n /\ Told(dispatched, tools)
        /\ run.out.kind = "tool_call" <=> run.next = "dispatch"
        /\ run.out.kind = "tool_call" => run.out.tool = Head(run.todo)
        /\ \A i \in 1..n : ~dispatched[i].unheard
    BY <1>2, <2>1 DEF Telling, At
  <2>3. CASE run.out.kind = "tool_call"
    <3>1. Heard(sent').tools = Append(tools, run.out.tool)
      BY <2>1, <2>3, OneMoreHeard
    <3>2. /\ Len(Append(tools, run.out.tool)) = n + 1
          /\ Append(tools, run.out.tool)[n + 1] = run.out.tool
          /\ \A i \in 1..n : Append(tools, run.out.tool)[i] = tools[i]
      BY <1>0, <2>2
    <3>3. Told(dispatched, Append(tools, run.out.tool))
      BY <1>0, <2>2, <3>2 DEF Told
    <3> HIDE DEF tools
    <3> QED
      BY <2>1, <2>2, <2>3, <3>1, <3>2, <3>3 DEF Telling, At
  <2>4. CASE run.out.kind # "tool_call"
    <3>1. Heard(sent').tools = tools
      BY <2>1, <2>4, OneMoreHeard
    <3> HIDE DEF tools
    <3> QED
      BY <2>1, <2>2, <2>4, <3>1 DEF Telling, At
  <2> QED
    BY <2>3, <2>4
<1>3. CASE Send /\ gone
  <2>1. /\ sent' = sent /\ dispatched' = dispatched /\ gone' = gone /\ run.pc = "send"
        /\ run'.pc # "send"
        /\ run'.pc = "ended" \/ (run.out.kind \in {"usage", "error", "done"} /\ run'.pc = run.next)
    BY <1>3, SendMoves DEF Typed, Goes, Send, At, Position, Loops
  <2>2. run'.pc # "dispatch"
    BY <2>1 DEF Telling, At
  <2> QED
    BY <1>3, <2>1, <2>2, TellingKept
<1>4. CASE End
  BY <1>4, IdleFacts, TellingKept DEF End, outbound
<1>5. CASE Quiet
  BY <1>5, QuietMoves, TellingKept DEF outbound
<1>6. CASE Tools
  <2>1. /\ [Chunk("tool_call") EXCEPT !.tool = Head(run.todo)].kind = "tool_call"
        /\ [Chunk("tool_call") EXCEPT !.tool = Head(run.todo)].tool = Head(run.todo)
        /\ [Chunk("boundary") EXCEPT !.iteration = run.iter + 1].kind = "boundary"
    BY DEF Chunk
  <2>2. /\ sent' = sent /\ dispatched' = dispatched /\ gone' = gone /\ run.pc = "tools"
    BY <1>6 DEF Tools, Become, outbound, At
  <2>3. \/ run'.pc = "conclude"
        \/ /\ run'.pc = "send" /\ run'.out.kind = "tool_call" /\ run'.next = "dispatch"
           /\ run'.out.tool = Head(run'.todo)
        \/ run'.pc = "send" /\ run'.out.kind = "boundary" /\ run'.next = "request"
    BY <1>6, <2>1, ToolsMoves DEF SameCall, SameRound, Goes, Sends
  <2> QED
    BY <2>2, <2>3, TellingKept
<1>7. CASE Dispatch
  <2> DEFINE d == [tool |-> Head(run.todo), unheard |-> gone]
  <2>1. /\ sent' = sent /\ gone' = gone /\ run.pc = "dispatch"
        /\ dispatched' = Append(dispatched, d)
    BY <1>7 DEF Dispatch, outbound, At
  <2>2. run'.pc = "send" /\ run'.out.kind = "tool_result" /\ run'.next = "answered"
    BY <1>7, DispatchMoves DEF Sends, Chunk
  <2>3. /\ Told(dispatched, tools) /\ Len(tools) = n + 1 /\ tools[n + 1] = Head(run.todo)
        /\ \A i \in 1..n : ~dispatched[i].unheard
    BY <2>1 DEF Telling, At
  <2>4. d.tool = Head(run.todo) /\ d.unheard = gone /\ d \in Dispatches
    BY <1>7, DispatchMoves DEF Typed, Dispatches
  <2> HIDE DEF d
  <2>5. /\ Len(dispatched') = n + 1 /\ dispatched'[n + 1] = d
        /\ DOMAIN dispatched' = 1..(n + 1) /\ \A i \in 1..n : dispatched'[i] = dispatched[i]
    BY <1>0, <2>1, <2>4
  <2>6. Told(dispatched', tools)
    BY <1>0, <2>3, <2>4, <2>5 DEF Told
  <2>7. \A i \in 1..(n + 1) : dispatched'[i].unheard => i = n + 1 /\ gone
    BY <1>0, <2>3, <2>4, <2>5
  <2> HIDE DEF tools
  <2>8. Len(tools) = Len(dispatched')
    BY <2>3, <2>5
  <2> QED
    BY <2>1, <2>2, <2>5, <2>6, <2>7, <2>8 DEF Telling, At, tools
<1>8. CASE AdapterSends \/ Read \/ Drop \/ UNCHANGED vars
  <2>1. run' = run /\ sent' = sent /\ dispatched' = dispatched /\ (gone' = gone \/ gone')
    BY <1>8 DEF AdapterSends, Read, Drop, vars, outbound
  <2> QED
    BY <2>1, TellingKept
<1> QED
  BY <1>1, <1>2, <1>3, <1>4, <1>5, <1>6, <1>7, <1>8 DEF Next, EngineStep, Quiet

LEMMA TellingIsAnnounced == Typed /\ Telling => ToolsAreAnnounced
<1> SUFFICES ASSUME Typed, Telling PROVE ToolsAreAnnounced
  OBVIOUS
<1> DEFINE unheard == {i \in DOMAIN dispatched : dispatched[i].unheard}
<1>1. dispatched \in Seq(Dispatches) /\ DOMAIN dispatched = 1..Len(dispatched)
  BY DEF Typed
<1>2. unheard \subseteq {Len(dispatched)}
  BY <1>1 DEF Telling
<1>3. Cardinality(unheard) <= 1
  <2>1. IsFiniteSet({Len(dispatched)}) /\ Cardinality({Len(dispatched)}) = 1
    BY FS_Singleton
  <2> HIDE DEF unheard
  <2> QED
    BY <1>2, <2>1, FS_Subset
<1> QED
  BY <1>3 DEF Telling, Told, ToolsAreAnnounced

-----------------------------------------------------------------------------
StreamInv == Typed /\ Conversing /\ Streaming /\ AnswersFit /\ Telling

LEMMA InitInv == Init => StreamInv
<1> SUFFICES ASSUME Init PROVE StreamInv
  OBVIOUS
<1>1. sent = <<>> /\ dispatched = <<>> /\ run = Idle
  BY DEF Init
<1>2. DOMAIN <<>> = {} /\ Len(<<>>) = 0 /\ Heard(<<>>).tools = <<>> /\ 1..0 = {}
  BY EmptySeq, NothingHeard DEF Nothing
<1>3. AnswersFit /\ Telling
  BY <1>1, <1>2, IdleFacts DEF AnswersFit, AnswerIsTheStream, Telling, Told, At
<1> QED
  BY <1>1, <1>3, InitTyped, IdleFacts DEF StreamInv, Conversing, Streaming, Streamed, Position

LEMMA NextInv == StreamInv /\ [Next]_vars => StreamInv'
BY TypedNext, ConversingNext, StreamingNext, AnsweringNext, TellingNext DEF StreamInv

(* What the streaming engine keeps true of itself.                         *)
THEOREM StreamInvariant == Spec => []StreamInv
BY InitInv, NextInv, PTL DEF Spec

(* No answer that fails the schema of a json_schema binding is streamed,   *)
(* however the stream broke off (engine.rs:1083-1107).                     *)
THEOREM OnlyValidIsStreamed == Spec => []OnlyValidAnswers
<1>1. StreamInv => OnlyValidAnswers
  BY DEF StreamInv, AnswersFit, OnlyValidAnswers, Accepted
<1> QED
  BY <1>1, StreamInvariant, PTL

(* The answer is the text streamed since the last boundary and the usage   *)
(* of all iterations, whatever the provider sends and whoever leaves       *)
(* (engine.rs:899-941, 1030-1074).                                         *)
THEOREM AnswersAreTheStream == Spec => []AnswerIsTheStream
<1>1. StreamInv => AnswerIsTheStream
  BY DEF StreamInv, AnswersFit
<1> QED
  BY <1>1, StreamInvariant, PTL

(* What is dispatched was announced, in that order, and a host that leaves *)
(* is followed by at most the one tool that was announced to it            *)
(* (engine.rs:982-1012).                                                   *)
THEOREM NoToolUnannounced == Spec => []ToolsAreAnnounced
<1>1. StreamInv => ToolsAreAnnounced
  BY TellingIsAnnounced DEF StreamInv
<1> QED
  BY <1>1, StreamInvariant, PTL

=============================================================================
