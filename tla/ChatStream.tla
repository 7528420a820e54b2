------------------------------ MODULE ChatStream ------------------------------
(***************************************************************************)
(* ChatEngine::run_streaming (src/engine.rs:800-1108): one streaming call. *)
(*                                                                         *)
(* Three tasks and two bounded channels: the adapter sends the provider's  *)
(* events into one (src/streaming.rs), the engine turns them into chunks   *)
(* for the other, the host reads those or drops the stream.  The engine is *)
(* split at every await: receiving an event, sending a chunk, invoking a   *)
(* tool.  Streams share nothing, so one is modelled; when it has ended the *)
(* next one begins, perhaps of another binding.                            *)
(*                                                                         *)
(* An adapter either streams from a task of its own, or inherits the       *)
(* default stream_chat_completion (src/adapter.rs:58-82), which fills the  *)
(* channel before it hands the engine the receiver.                        *)
(***************************************************************************)
EXTENDS Naturals, Sequences, FiniteSets, SequencesExt, ExecutionSpecs

CONSTANTS
    Scripts,            \* what the provider may send: sequences of events
    Adapters,           \* subset of "native" and "default"
    EventCapacity,      \* of a native adapter's channel
    DefaultCapacity,    \* of the default adapter's channel (8 in the code)
    ChunkCapacity,      \* of the engine's channel (64 in the code)
    Specs,              \* the bindings' ChatExecutionSpecs, see SpecValid
    Valid               \* the texts that satisfy the schema

Events == UNION {{s[i] : i \in DOMAIN s} : s \in Scripts}
EventKinds == {"text", "call", "finish", "error"}

ASSUME StreamAssumption ==
    /\ Scripts \subseteq Seq(Events)
    /\ \A e \in Events : e.kind \in EventKinds /\ e.tokens \in Nat
    /\ Adapters \subseteq {"native", "default"}
    /\ {EventCapacity, DefaultCapacity, ChunkCapacity} \subseteq Nat \ {0}

(* Of a ChatExecutionSpec the schema mode, the allowlist of tools,         *)
(* max_iterations and on_iteration_exhausted; the rest by default.         *)
ChatSpec(spec) ==
    [ChatDefaults EXCEPT
        !.mode = spec.mode, !.allowed = spec.allowed, !.exhausted = spec.exhausted,
        !.max_iterations = {spec.iterations}]

ASSUME SpecValid ==
    /\ Specs # {}
    /\ \A spec \in Specs :
        /\ ValidChat(ChatSpec(spec))
        /\ spec.exhausted \in {"error", "return_partial"}
        /\ IsFiniteSet(spec.allowed)

VARIABLES
    run,                \* the locals of run_streaming
    script,             \* what the adapter has still to send
    events,             \* the adapter's channel
    sent,               \* history: every chunk the engine's channel took
    unread,             \* how many of them the host has yet to read
    gone,               \* the host has dropped the stream
    dispatched          \* history: tools invoked, and whether the host was gone

adapter == <<script, events>>
outbound == <<sent, unread, gone>>
vars == <<run, adapter, outbound, dispatched>>

Chunk(kind) == [kind |-> kind, text |-> <<>>, tool |-> "none", iteration |-> 0, tokens |-> 0]
NoChunk == Chunk("none")
ErrorChunk == Chunk("error")

SystemMessage == [role |-> "system", calls |-> <<>>]
UserMessage == [role |-> "user", calls |-> <<>>]
AssistantTurn(calls) == [role |-> "assistant", calls |-> calls]
ToolResult(tool) == [role |-> "tool", calls |-> <<tool>>]

Idle == [pc |-> "idle", spec |-> CHOOSE spec \in Specs : TRUE, iter |-> 0, content |-> <<>>, calls |-> <<>>, todo |-> <<>>,
         finish |-> "none", tokens |-> 0, messages |-> <<SystemMessage, UserMessage>>,
         out |-> NoChunk, next |-> "idle"]

Init ==
    /\ run = Idle
    /\ script = <<>> /\ events = <<>>
    /\ sent = <<>> /\ unread = 0 /\ gone = FALSE
    /\ dispatched = <<>>

-----------------------------------------------------------------------------
At(pc) == run.pc = pc

(* A chunk is on its way out; the engine goes on at `next` when it is in.  *)
Sending(state, chunk, next) ==
    [state EXCEPT !.pc = "send", !.out = chunk, !.next = next]

(* An error is sent and ends the stream.                                   *)
Failing(state) == Sending(state, ErrorChunk, "ended")

Become(state) == run' = state /\ UNCHANGED <<adapter, outbound, dispatched>>

(* A new call, when the engine is done and the host has read it all.       *)
Begin ==
    /\ At("idle") /\ (unread = 0 \/ gone)
    /\ sent' = <<>> /\ unread' = 0 /\ gone' = FALSE
    /\ dispatched' = <<>>
    /\ \E spec \in Specs :
        run' \in {[Idle EXCEPT !.pc = "request", !.spec = spec], Failing(Idle)}
    /\ UNCHANGED adapter

(* Mutants: a host that is gone is not noticed; it is waited for.          *)
SendRegardless ==
    /\ At("send")
    /\ \/ ~gone /\ unread < ChunkCapacity
          /\ sent' = Append(sent, run.out) /\ unread' = unread + 1
       \/ gone /\ UNCHANGED <<sent, unread>>
    /\ run' = [run EXCEPT !.pc = run.next, !.out = NoChunk]
    /\ UNCHANGED <<adapter, gone, dispatched>>

SendToAHost ==
    /\ At("send")
    /\ ~gone /\ unread < ChunkCapacity
    /\ sent' = Append(sent, run.out) /\ unread' = unread + 1
    /\ run' = [run EXCEPT !.pc = run.next, !.out = NoChunk]
    /\ UNCHANGED <<adapter, gone, dispatched>>

(* tx.send waits for room.  With nobody to send to, the engine returns,    *)
(* except that it does not look whether usage, error and answer arrive.    *)
Send ==
    /\ At("send")
    /\ \/ /\ ~gone /\ unread < ChunkCapacity
          /\ sent' = Append(sent, run.out) /\ unread' = unread + 1
          /\ run' = [run EXCEPT !.pc = run.next, !.out = NoChunk]
       \/ /\ gone
          /\ run' = [run EXCEPT !.out = NoChunk,
                                !.pc = IF run.out.kind \in {"usage", "error", "done"}
                                       THEN run.next ELSE "ended"]
          /\ UNCHANGED <<sent, unread>>
    /\ UNCHANGED <<adapter, gone, dispatched>>

(* The task is over, its receiver dropped.                                 *)
End ==
    /\ At("ended")
    /\ run' = Idle
    /\ script' = <<>> /\ events' = <<>>
    /\ UNCHANGED <<outbound, dispatched>>

-----------------------------------------------------------------------------
(* The adapter *)

(* stream_chat_completion: refused, or answered by a script.  The default  *)
(* one only has whole answers to send.                                     *)
Request ==
    /\ At("request")
    /\ \/ run' = Failing(run) /\ UNCHANGED <<script, events>>
       \/ \E s \in Scripts :
            /\ script' = s /\ events' = <<>>
            /\ \/ "native" \in Adapters /\ run' = [run EXCEPT !.pc = "opened"]
               \/ /\ "default" \in Adapters
                  /\ s # <<>> /\ Last(s).kind = "finish"
                  /\ run' = [run EXCEPT !.pc = "filling"]
    /\ UNCHANGED <<outbound, dispatched>>

AdapterSends ==
    /\ ~At("idle") /\ script # <<>>
    /\ Len(events) < IF At("filling") THEN DefaultCapacity ELSE EventCapacity
    /\ events' = Append(events, Head(script))
    /\ script' = Tail(script)
    /\ UNCHANGED <<run, outbound, dispatched>>

(* The default returns the receiver after the last event.                  *)
Filled ==
    /\ At("filling") /\ script = <<>>
    /\ Become([run EXCEPT !.pc = "opened"])

-----------------------------------------------------------------------------
(* The engine *)

(* Mutant: the text of the last iteration is kept.                         *)
OpenedKeepingText ==
    /\ At("opened")
    /\ Become([run EXCEPT !.pc = "drain", !.calls = <<>>, !.finish = "none"])

Opened ==
    /\ At("opened")
    /\ Become([run EXCEPT !.pc = "drain", !.content = <<>>, !.calls = <<>>, !.finish = "none"])

(* What the engine makes of an event.                                      *)
Take(e) ==
    CASE e.kind = "text" ->
            Sending([run EXCEPT !.content = Append(@, e.text)],
                    [Chunk("text") EXCEPT !.text = <<e.text>>], "drain")
      [] e.kind = "call" -> [run EXCEPT !.calls = Append(@, e.tool)]
      [] e.kind = "finish" ->
            LET heard == [run EXCEPT !.tokens = @ + e.tokens, !.finish = e.reason]
            IN  IF e.tokens > 0
                THEN Sending(heard, [Chunk("usage") EXCEPT !.tokens = e.tokens], "turn")
                ELSE [heard EXCEPT !.pc = "turn"]
      [] e.kind = "error" -> Failing(run)

Receive ==
    /\ At("drain") /\ events # <<>>
    /\ run' = Take(Head(events))
    /\ events' = Tail(events)
    /\ UNCHANGED <<script, outbound, dispatched>>

(* The channel is closed: with or without a finish, the turn is over.      *)
Closed ==
    /\ At("drain") /\ events = <<>> /\ script = <<>>
    /\ Become([run EXCEPT !.pc = "turn"])

Turn ==
    /\ At("turn")
    /\ \/ run.calls = <<>> /\ Become([run EXCEPT !.pc = "conclude"])
       \/ run.calls # <<>> /\ run.spec.allowed = {} /\ Become(Failing(run))
       \/ /\ run.calls # <<>> /\ run.spec.allowed # {}
          /\ Become([run EXCEPT !.pc = "tools", !.todo = run.calls, !.calls = <<>>,
                                !.messages = Append(@, AssistantTurn(run.calls))])

(* Mutant: one iteration too many.                                         *)
ToolsOnceMore ==
    /\ At("tools")
    /\ \/ /\ run.todo # <<>>
          /\ Become(Sending(run, [Chunk("tool_call") EXCEPT !.tool = Head(run.todo)],
                            "dispatch"))
       \/ /\ run.todo = <<>> /\ run.iter < run.spec.iterations
          /\ run' = Sending([run EXCEPT !.iter = @ + 1], Chunk("boundary"), "request")
          /\ script' = <<>> /\ events' = <<>>
          /\ UNCHANGED <<outbound, dispatched>>

Tools ==
    /\ At("tools")
    /\ \/ /\ run.todo # <<>>
          /\ Become(Sending(run, [Chunk("tool_call") EXCEPT !.tool = Head(run.todo)],
                            "dispatch"))
       \/ /\ run.todo = <<>> /\ run.iter + 1 < run.spec.iterations
          /\ LET turnDone == [run EXCEPT !.iter = @ + 1]
                 boundary == [Chunk("boundary") EXCEPT !.iteration = turnDone.iter]
             IN  /\ run' = Sending(turnDone, boundary, "request")
                 /\ script' = <<>> /\ events' = <<>>
                 /\ UNCHANGED <<outbound, dispatched>>
       \/ /\ run.todo = <<>> /\ run.iter + 1 >= run.spec.iterations
          /\ run' = [run EXCEPT !.pc = "conclude"]
          /\ script' = <<>> /\ events' = <<>>
          /\ UNCHANGED <<outbound, dispatched>>

(* Mutant: the result is not streamed.                                     *)
DispatchUnstreamed ==
    /\ At("dispatch")
    /\ dispatched' = Append(dispatched, [tool |-> Head(run.todo), unheard |-> gone])
    /\ run' = [run EXCEPT !.pc = "answered"]
    /\ UNCHANGED <<adapter, outbound>>

(* dispatch_child_tool always has a result.                                *)
Dispatch ==
    /\ At("dispatch")
    /\ dispatched' = Append(dispatched, [tool |-> Head(run.todo), unheard |-> gone])
    /\ run' = Sending(run, [Chunk("tool_result") EXCEPT !.tool = Head(run.todo)], "answered")
    /\ UNCHANGED <<adapter, outbound>>

(* Mutant: the result is not put into the conversation.                    *)
AnsweredUnsaid ==
    /\ At("answered")
    /\ Become([run EXCEPT !.pc = "tools", !.todo = Tail(@)])

Answered ==
    /\ At("answered")
    /\ Become([run EXCEPT !.pc = "tools", !.todo = Tail(@),
                          !.messages = Append(@, ToolResult(Head(run.todo)))])

(* Mutant: the schema is not asked.                                        *)
AcceptableAlways(content) == TRUE

Acceptable(content) == run.spec.mode = "text" \/ content \in Valid

(* The exhausted policy looks at calls that are no longer there.           *)
Exhausted(state) ==
    state.finish = "tool_calls" /\ state.calls # <<>> /\ state.spec.exhausted = "error"

Conclude ==
    /\ At("conclude")
    /\ Become(IF Exhausted(run) \/ ~Acceptable(run.content) THEN Failing(run)
              ELSE Sending(run, [Chunk("done") EXCEPT !.text = run.content,
                                                      !.tokens = run.tokens], "ended"))

-----------------------------------------------------------------------------
(* The host *)

Read ==
    /\ unread > 0 /\ ~gone
    /\ unread' = unread - 1
    /\ UNCHANGED <<run, adapter, sent, gone, dispatched>>

Drop ==
    /\ ~At("idle") /\ ~gone
    /\ gone' = TRUE /\ unread' = 0
    /\ UNCHANGED <<run, adapter, sent, dispatched>>

-----------------------------------------------------------------------------
EngineStep ==
    \/ Send \/ End
    \/ Request \/ Filled \/ Opened
    \/ Receive \/ Closed
    \/ Turn \/ Tools \/ Dispatch \/ Answered
    \/ Conclude

Next == Begin \/ EngineStep \/ AdapterSends \/ Read \/ Drop

Spec == Init /\ [][Next]_vars

(* The engine's task runs when it can, the adapter goes on sending (its    *)
(* request has a timeout), a host that keeps the stream reads it.          *)
FairSpec == Spec /\ WF_vars(EngineStep) /\ WF_vars(AdapterSends) /\ WF_vars(Read)

-----------------------------------------------------------------------------
TypeOK ==
    /\ run.pc \in {"idle", "request", "filling", "opened", "drain", "turn", "tools",
                   "dispatch", "answered", "conclude", "send", "ended"}
    /\ run.spec \in Specs
    /\ run.iter \in 0..(run.spec.iterations - 1)
    /\ script \in Seq(Events) /\ events \in Seq(Events)
    /\ unread \in 0..ChunkCapacity
    /\ gone \in BOOLEAN
    /\ run.pc \in {"dispatch", "answered"} => run.todo # <<>>

(* What a host has heard when it has read these chunks: the text since the *)
(* last boundary, all the usage, and the tools that were announced.        *)
Nothing == [text |-> <<>>, tokens |-> 0, tools |-> <<>>]

Hear(heard, chunk) ==
    CASE chunk.kind = "text" -> [heard EXCEPT !.text = @ \o chunk.text]
      [] chunk.kind = "boundary" -> [heard EXCEPT !.text = <<>>]
      [] chunk.kind = "usage" -> [heard EXCEPT !.tokens = @ + chunk.tokens]
      [] chunk.kind = "tool_call" -> [heard EXCEPT !.tools = Append(@, chunk.tool)]
      [] OTHER -> heard

Heard(chunks) ==
    LET upTo[i \in 0..Len(chunks)] ==
            IF i = 0 THEN Nothing ELSE Hear(upTo[i - 1], chunks[i])
    IN  upTo[Len(chunks)]

(* The answer is what was streamed: its text is the deltas since the last  *)
(* boundary, its usage the sum of the usage chunks of all iterations.      *)
AnswerIsTheStream ==
    \A i \in DOMAIN sent : sent[i].kind = "done" =>
        LET heard == Heard(SubSeq(sent, 1, i - 1))
        IN  sent[i].text = heard.text /\ sent[i].tokens = heard.tokens

(* In json_schema mode an answer that fails the schema is not sent: there  *)
(* is no correction here, and a stream cut short, a partial or narration   *)
(* beside tool calls must not get through (validate_accumulated).          *)
OnlyValidAnswers ==
    ~At("idle") /\ run.spec.mode = "json_schema" =>
        \A i \in DOMAIN sent : sent[i].kind = "done" => sent[i].text \in Valid

(* No tool runs behind the host's back: what is dispatched was announced   *)
(* on the stream, in that order, and after the host has gone the one tool  *)
(* already announced is the last (engine.rs:982-1012).                     *)
ToolsAreAnnounced ==
    LET announced == Heard(sent).tools
    IN  /\ Len(dispatched) <= Len(announced)
        /\ \A i \in DOMAIN dispatched : dispatched[i].tool = announced[i]
        /\ Cardinality({i \in DOMAIN dispatched : dispatched[i].unheard}) <= 1

(* Every request of the loop carries the results of all tool calls made    *)
(* so far, each turn's in the order of its calls (engine.rs:976-1012).     *)
Turns(m) == {i \in DOMAIN m : m[i].role = "assistant"}

ResultsFollow(m, i) ==
    \A j \in DOMAIN m[i].calls :
        i + j \in DOMAIN m /\ m[i + j] = ToolResult(m[i].calls[j])

ConversationWellFormed ==
    At("request") =>
        /\ \A i \in Turns(run.messages) : ResultsFollow(run.messages, i)
        /\ Cardinality(Turns(run.messages)) = run.iter

(* A stream ends, whatever the provider sends and whether or not the host  *)
(* stays: nobody waits for room nobody will make.                          *)
StreamEnds == ~At("idle") ~> At("idle")

-----------------------------------------------------------------------------
(* The chunks come in the order their caller counts on.                    *)
Contract == INSTANCE ChunkStream WITH sent <- sent

ImplementsChunkStream == Contract!Spec

=============================================================================
