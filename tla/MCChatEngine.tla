----------------------------- MODULE MCChatEngine -----------------------------
(* ChatEngine on small instances: what the provider may answer, and the    *)
(* arguments calls are made with.                                          *)
EXTENDS ChatEngine, TLC

Answer(content, tokens) ==
    [calls |-> <<>>, finish |-> "stop", content |-> content, tokens |-> tokens]

Calling(calls, tokens) ==
    [calls |-> calls, finish |-> "tool_calls", content |-> "not_json", tokens |-> tokens]

Answers == {Answer(content, 1) : content \in Contents}

(* An allowed tool, and a turn that also asks for one that is denied;      *)
(* a partial answer beside the calls.                                      *)
ToolTurns == {Calling(<<"read">>, 1), Calling(<<"read", "write">>, 2),
              [Calling(<<"read">>, 1) EXCEPT !.content = "valid"]}

ToolAnswers == Answers \cup ToolTurns

(* Where there are no tools: a model that asks for one all the same, and   *)
(* one that says it did and names none.                                    *)
Untooled == {Answer("valid", 1), Answer("mismatch", 1), Calling(<<"read">>, 1),
             [Answer("valid", 1) EXCEPT !.finish = "tool_calls"]}

Asking(system, user) == [system |-> system, user |-> user, media |-> "none"]

OneText == {Asking(<<"a">>, <<"b">>)}

(* One text with and without a picture, and another text.                  *)
Pictures == OneText \cup {[Asking(<<"a">>, <<"b">>) EXCEPT !.media = "png"],
                         Asking(<<"a">>, <<"c">>)}

(* The same characters cut in two places, and texts with a NUL that share  *)
(* a key.                                                                  *)
CutTexts == OneText \cup {Asking(<<"a", "b">>, <<>>),
                         Asking(<<Nul>>, <<>>), Asking(<<>>, <<Nul>>)}

(* Names are compared without case, and the first entry counts.            *)
OpenAI == Label("openai", "OpenAI")

Listing == << Entry(Label("other", "other"), "model", 0, {}, 0),
              Entry(Label("openai", "openai"), "model", 1, {}, 1),
              Entry(OpenAI, "model", 0, {}, 0) >>

Symmetry == Permutations(Callers)

=============================================================================
