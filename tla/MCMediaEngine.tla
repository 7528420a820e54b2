----------------------------- MODULE MCMediaEngine -----------------------------
(* MediaEngine on a small instance: every content takes its number of      *)
(* bytes, the first fits with either of the others, and the third is over  *)
(* the limit for what is resolved.                                         *)
EXTENDS MediaEngine

SizeIsHash == [h \in Hashes |-> h]
TypeOfHash == [h \in Hashes |-> CASE h = 1 -> "unknown" [] h = 2 -> "image" [] h = 3 -> "audio"]

(* Some values of every kind of argument.                                  *)
Resource(id) == ValueOf({"mcpg-resource://"}, id)
SomeRecordings == {ValueOf({"resource", "format"}, 2), Resource(3), ValueOf({"no scheme"}, 1),
                   ValueOf({"data:"}, 1), ValueOf({"http://"}, 1),
                   ValueOf({"source.resource"}, 1)}

SomePrompts == {[image |-> <<Resource(id), ValueOf({"data:,"}, 2)>>,
                 audio |-> <<Resource(2)>>,
                 file |-> <<ValueOf({"resource", "mime_type"}, 1)>>] : id \in {2} \cup Aliases}

SomeImages == {<<>>, <<3>>, <<1, 2>>, <<2, 2>>}

-----------------------------------------------------------------------------
(* ExecutionSpecs: what is not given does no harm, but for the model and   *)
(* the voice.                                                              *)
ASSUME DefaultsAreValid ==
    /\ ValidChat(ChatDefaults)
    /\ ~Answerable(EmbeddingDefaults) /\ ValidEmbedding([EmbeddingDefaults EXCEPT !.model = "m"])
    /\ ~Answerable(ImageDefaults) /\ ValidImage([ImageDefaults EXCEPT !.model = "m"])
    /\ ~ValidTts([TtsDefaults EXCEPT !.model = "m"])
    /\ ValidTts([TtsDefaults EXCEPT !.model = "m", !.voice = "v"])
    /\ ValidStt([SttDefaults EXCEPT !.model = "m"])

(* A transcription reads its argument the way a chat reads a recording,    *)
(* though in code of its own (audio_engine.rs:296-300).                    *)
ASSUME RecordingsReadAlike ==
    \A says \in SUBSET (ObjectForms \ {"mime_type"}) \cup {{form} : form \in StringForms} :
        LET sources(media) == {part.source.variant : part \in ToSet(Read(media, ValueOf(says, 1)))}
        IN  sources("recording") = sources("audio")

(* RetryBackoff, for numbers of 5 bits: a chat waits no shorter the more   *)
(* often it failed and never longer than it may (engine.rs:1141-1144).     *)
Bits == 5
B == INSTANCE RetryBackoff WITH Width <- Bits

ASSUME ChatBackoffGrows ==
    \A initial \in 0..4, max \in {4, 31}, attempt \in 1..(2 * Bits), exponent \in 0..Bits :
        LET wait(n) == B!ChatBackoff(initial, max, n, exponent)
        IN  initial <= wait(attempt) /\ wait(attempt) <= wait(attempt + 1) /\ wait(attempt) <= max

(* The other engines do the same as long as the shift is shorter than a    *)
(* u64; at the attempt after that they panic or start over                 *)
(* (image_engine.rs:226, embedding_engine.rs:357, audio_engine.rs:500,     *)
(* 536).                                                                   *)
ASSUME BackoffStartsOver ==
    \A initial \in 0..4, max \in {4, 31} :
        /\ \A attempt \in 1..Bits :
            /\ ~B!Panics(attempt)
            /\ B!Backoff(initial, max, attempt) = B!ChatBackoff(initial, max, attempt, Bits)
        /\ B!Panics(Bits + 1) /\ B!Backoff(initial, max, Bits + 1) = initial

=============================================================================
