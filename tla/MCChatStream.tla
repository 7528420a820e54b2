----------------------------- MODULE MCChatStream -----------------------------
(* ChatStream on small instances: what the provider may send, and how the  *)
(* bytes it sends are cut into events.                                     *)
EXTENDS ChatStream, SseFraming

TextEvent(text) == [kind |-> "text", text |-> text, tool |-> "none", reason |-> "none", tokens |-> 0]
CallEvent(tool) == [TextEvent("") EXCEPT !.kind = "call", !.tool = tool]
Finish(reason, tokens) == [TextEvent("") EXCEPT !.kind = "finish", !.reason = reason, !.tokens = tokens]
Failure == [TextEvent("") EXCEPT !.kind = "error"]

(* Whole answers, one of them without a text and without usage, and turns  *)
(* of one and of two tool calls, with a text beside them.                  *)
Whole == {
    <<TextEvent("a"), TextEvent("b"), Finish("stop", 2)>>,
    <<Finish("stop", 0)>>,
    <<TextEvent("a"), CallEvent("read"), Finish("tool_calls", 1)>>,
    <<CallEvent("read"), CallEvent("write"), Finish("tool_calls", 1)>>}

(* Streams that break off: closed without a finish, and failed.            *)
Broken == {<<TextEvent("a")>>, <<TextEvent("a"), Failure>>, <<CallEvent("read")>>}

AnyScript == Whole \cup Broken

(* Bindings: tools and a schema, where a partial is an error; one shot of  *)
(* free text, without tools; tools and free text, where a partial will do. *)
Strict == [mode |-> "json_schema", allowed |-> {"read"}, iterations |-> 3, exhausted |-> "error"]
OneShot == [mode |-> "text", allowed |-> {}, iterations |-> 1, exhausted |-> "error"]
Lenient == [mode |-> "text", allowed |-> {"read"}, iterations |-> 2, exhausted |-> "return_partial"]

StrictSpec == {Strict}
AnySpec == {Strict, OneShot, Lenient}

ValidTexts == {<<"a", "b">>}

-----------------------------------------------------------------------------
(* SseFraming: one or two events of up to two bytes, which neither begin   *)
(* nor end with a line break.                                              *)
EventBytes == {<<>>, <<"x">>, <<"x", "y">>, <<"x", "\n", "y">>}
SentEvents == {<<e>> : e \in EventBytes} \cup (EventBytes \X EventBytes)

Parsed(some) == [events |-> some, buf |-> <<>>]
Cuts(wire) == {<<SubSeq(wire, 1, i), SubSeq(wire, i + 1, Len(wire))>> : i \in 0..Len(wire)}

(* However the bytes of one framing are cut into chunks, the events that   *)
(* were sent come out, and nothing is left (sse.rs:8-37).                  *)
ASSUME EventsComeOut ==
    \A some \in SentEvents, boundary \in {CrLf, Lf} :
        \A chunks \in Cuts(Wire(some, boundary)) :
            ParseChunks(chunks) = Parsed(some)

(* Not so for mixed framings: a CRLF boundary hides an LF one before it    *)
(* (sse.rs:18-21), unless the chunk ended between the two.                 *)
ASSUME MixedFramingsMerge ==
    LET first == <<"x">> \o Lf
        second == <<"y">> \o CrLf
    IN  /\ ParseChunks(<<first, second>>) = Parsed(<< <<"x">>, <<"y">> >>)
        /\ ParseChunks(<<first \o second>>) = Parsed(<< <<"x">> \o Lf \o <<"y">> >>)

=============================================================================
