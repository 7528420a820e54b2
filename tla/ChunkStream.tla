------------------------------ MODULE ChunkStream ------------------------------
(***************************************************************************)
(* What a caller of ChatEngine::execute_streaming may count on: the order  *)
(* of the chunks it is sent (src/engine.rs:747-761).  ChatStream is shown  *)
(* to implement this specification.                                        *)
(***************************************************************************)
EXTENDS Naturals, Sequences, FiniteSets, SequencesExt

VARIABLE sent           \* the chunks of the present stream, oldest first

Terminal == {"done", "error"}

(* What the stream has come to: a new stream is as good as a new iteration.*)
Latest == IF sent = <<>> THEN "boundary" ELSE Last(sent).kind

Iterations == Cardinality({i \in DOMAIN sent : sent[i].kind = "boundary"})

(* A tool call and its result are neighbours, text and then usage come     *)
(* before them, a boundary stands between two rounds of tool calls, and    *)
(* nothing follows the answer or an error.                                 *)
MayFollow(chunk) ==
    /\ Latest \notin Terminal
    /\ Latest = "tool_call" <=> chunk.kind = "tool_result"
    /\ chunk.kind = "tool_result" => chunk.tool = Last(sent).tool
    /\ chunk.kind \in {"text", "usage"} => Latest \in {"boundary", "text"}
    /\ chunk.kind = "boundary" =>
        Latest = "tool_result" /\ chunk.iteration = Iterations + 1

Emit ==
    /\ Len(sent') = Len(sent) + 1
    /\ sent' = Append(sent, Last(sent'))
    /\ MayFollow(Last(sent'))

Begin == sent' = <<>>

Init == sent = <<>>

Spec == Init /\ [][Emit \/ Begin]_sent

=============================================================================
